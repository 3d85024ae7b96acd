-------------------------------- MODULE Fdcan --------------------------------
(***************************************************************************)
(* platforms/stm32h563/src/fdcan.c, with can_filter_init of                *)
(* threadX/src/u_tx_can.c: starting the FDCAN peripheral, its receive      *)
(* filters, its notifications, sending, and recovery from bus-off.         *)
(*                                                                         *)
(* The peripheral and ST's HAL are external.  A HAL call fails when the    *)
(* peripheral is in the wrong state, or when the environment makes it fail *)
(* (MayFail), which the code is written to survive.  What Stop and Start   *)
(* keep is what the comment above can_recover_bus_off says: filters yes,   *)
(* notifications no.                                                       *)
(*                                                                         *)
(* A suffixed name (AddFilter_CountsFailures) is a fault seeded in the     *)
(* definition of the name before the suffix.                               *)
(***************************************************************************)
EXTENDS Naturals, Sequences

CONSTANTS
  Senders,      \* threads that call can_send_msg
  FifoDepth,    \* Tx FIFO elements of the peripheral
  IdPairs,      \* pairs of identifiers given to the filters
  MaxFilters,   \* bound on the filters of each kind an application adds
  MayFail,      \* HAL calls that the environment may make fail
  MaxFailures,  \* bound on how often it does
  Discovery     \* bus-off is found by "poll" or by "interrupt"

Calls == {"lines", "notify", "global", "init_start", "stop", "restart",
          "filter", "startup_filter"}

ASSUME MayFailAssumption == MayFail \subseteq Calls
ASSUME DepthAssumption == FifoDepth \in Nat \ {0}
ASSUME FiltersAssumption == MaxFilters \in Nat \ {0}
ASSUME DiscoveryAssumption == Discovery \in {"poll", "interrupt"}

VARIABLES
  hal,            \* state of the peripheral: "ready" or "started"
  notify,         \* active notifications, of {"rx", "bus_off"}
  rejects,        \* the global filter rejects what no filter accepts
  filter_index,   \* standard_filter_index and extended_filter_index
  filters,        \* filter elements in the peripheral
  bus_off,        \* protocol status of the peripheral
  bus_off_irq,    \* the bus-off interrupt is pending
  fifo,           \* frames waiting in the Tx FIFO
  startup,        \* progress of can_filter_init
  recovery,       \* next HAL call of can_recover_bus_off, or "idle"
  recovered,      \* what can_recover_bus_off returned last
  send,           \* per sender: "idle", "add", or what can_send_msg returned
  failures,
  added,          \* history: ids whose filter was added with HAL_OK
  overtaken       \* history: senders behind whose level check another one added

canVars == <<filter_index, filters, added>>
busVars == <<bus_off, bus_off_irq, fifo>>
sendVars == <<send, overtaken>>
fdcanVars == <<hal, notify, rejects, canVars, busVars, startup, recovery, recovered,
               sendVars, failures>>

Kinds == {"standard", "extended"}
None == << >>

FdcanInit ==
  /\ hal = "ready" /\ notify = {} /\ rejects = FALSE
  /\ filter_index = [k \in Kinds |-> 0]
  /\ filters = [k \in Kinds |-> [i \in 0 .. MaxFilters - 1 |-> None]]
  /\ bus_off = FALSE /\ bus_off_irq = FALSE /\ fifo = 0
  /\ startup = "init"
  /\ recovery = "idle" /\ recovered = "none"
  /\ send = [s \in Senders |-> "idle"]
  /\ failures = 0
  /\ added = [k \in Kinds |-> << >>]
  /\ overtaken = {}

(* The environment makes a HAL call fail, or lets it do its work. *)
Fault(call) ==
  /\ call \in MayFail
  /\ failures < MaxFailures
  /\ failures' = failures + 1

NoFault == UNCHANGED failures

-------------------------------------------------------------------------------
(* can_init makes six HAL calls and returns at the first that fails; the   *)
(* last two need a peripheral that is not started.  failed is the number   *)
(* of that call, 7 when there is none.  Nothing runs in between, since the *)
(* peripheral is not started.                                              *)
FdcanInitCalls == <<"lines", "notify", "lines", "notify", "global", "init_start">>

can_init_StartsFirst(failed) ==
  /\ \/ failed < 5 /\ Fault(FdcanInitCalls[failed])
     \/ failed = 6 /\ NoFault
  /\ filter_index' = [k \in Kinds |-> 0]
  /\ notify' = notify \cup {x \in {"rx", "bus_off"} :
                              failed > IF x = "rx" THEN 2 ELSE 4}
  /\ hal' = IF failed = 6 THEN "started" ELSE hal
  /\ UNCHANGED rejects

can_init(failed) ==
  /\ \/ failed < 7 /\ (hal = "started" => failed < 5) /\ Fault(FdcanInitCalls[failed])
     \/ failed = 5 /\ hal = "started" /\ NoFault
     \/ failed = 7 /\ hal = "ready" /\ NoFault
  /\ filter_index' = [k \in Kinds |-> 0]
  /\ notify' = notify \cup {x \in {"rx", "bus_off"} :
                              failed > IF x = "rx" THEN 2 ELSE 4}
  /\ rejects' = (rejects \/ failed > 5)
  /\ hal' = IF failed = 7 THEN "started" ELSE hal

(* can_add_filter_standard and can_add_filter_extended. *)
AddFilter_CountsFailures(kind, ids, fault) ==
  /\ filter_index' = [filter_index EXCEPT ![kind] = @ + 1]
  /\ IF fault
     THEN Fault("filter") /\ UNCHANGED <<filters, added>>
     ELSE /\ NoFault
          /\ filters' = [filters EXCEPT ![kind][filter_index[kind]] = ids]
          /\ added' = [added EXCEPT ![kind] = Append(@, ids)]

AddFilter(kind, ids, fault) ==
  IF fault
  THEN Fault(IF startup = "done" THEN "filter" ELSE "startup_filter")
       /\ UNCHANGED canVars
  ELSE /\ NoFault
       /\ filters' = [filters EXCEPT ![kind][filter_index[kind]] = ids]
       /\ filter_index' = [filter_index EXCEPT ![kind] = @ + 1]
       /\ added' = [added EXCEPT ![kind] = Append(@, ids)]

can_add_filter_standard(ids, fault) == AddFilter("standard", ids, fault)
can_add_filter_extended(ids, fault) == AddFilter("extended", ids, fault)

(* can_filter_init: can_init, then a filter of each kind; the application  *)
(* calls it again when it returned U_ERROR.                                *)
StartInit(failed) ==
  /\ startup = "init"
  /\ can_init(failed)
  /\ startup' = IF failed = 7 THEN "standard" ELSE "init"
  /\ UNCHANGED <<filters, added, busVars, recovery, recovered, sendVars>>

StartFilter(ids, fault) ==
  /\ \/ /\ startup = "standard"
        /\ can_add_filter_standard(ids, fault)
        /\ startup' = IF fault THEN "init" ELSE "extended"
     \/ /\ startup = "extended"
        /\ can_add_filter_extended(ids, fault)
        /\ startup' = IF fault THEN "init" ELSE "done"
  /\ UNCHANGED <<hal, notify, rejects, busVars, recovery, recovered, sendVars>>

MoreFilters(ids, fault) ==
  /\ startup = "done"
  /\ \/ filter_index["standard"] < MaxFilters /\ can_add_filter_standard(ids, fault)
     \/ filter_index["extended"] < MaxFilters /\ can_add_filter_extended(ids, fault)
  /\ UNCHANGED <<hal, notify, rejects, busVars, startup, recovery, recovered, sendVars>>

-------------------------------------------------------------------------------
(* can_send_msg: the free level is read first, the frame is added later.   *)
SendCheck_NoLevelCheck(s) ==
  /\ startup = "done"
  /\ send[s] # "add"
  /\ send' = [send EXCEPT ![s] = "add"]
  /\ overtaken' = overtaken \ {s}
  /\ UNCHANGED <<hal, notify, rejects, canVars, busVars, startup, recovery,
                 recovered, failures>>

SendCheck(s) ==
  /\ startup = "done"
  /\ send[s] # "add"
  /\ send' = [send EXCEPT ![s] = IF fifo = FifoDepth THEN "busy" ELSE "add"]
  /\ overtaken' = overtaken \ {s}
  /\ UNCHANGED <<hal, notify, rejects, canVars, busVars, startup, recovery,
                 recovered, failures>>

SendAdd(s) ==
  /\ send[s] = "add"
  /\ IF hal = "started" /\ fifo < FifoDepth
     THEN /\ fifo' = fifo + 1
          /\ send' = [send EXCEPT ![s] = "ok"]
          /\ overtaken' = (overtaken \cup {t \in Senders : send[t] = "add"}) \ {s}
     ELSE /\ send' = [send EXCEPT ![s] = "error"]
          /\ overtaken' = overtaken \ {s}
          /\ UNCHANGED fifo
  /\ UNCHANGED <<hal, notify, rejects, canVars, bus_off, bus_off_irq, startup,
                 recovery, recovered, failures>>

(* The peripheral sends a frame, or its error counters take it off the bus. *)
Transmit ==
  /\ hal = "started" /\ ~bus_off /\ fifo > 0
  /\ fifo' = fifo - 1
  /\ UNCHANGED <<hal, notify, rejects, canVars, bus_off, bus_off_irq, startup,
                 recovery, recovered, sendVars, failures>>

BusOff ==
  /\ hal = "started" /\ ~bus_off /\ startup = "done"
  /\ bus_off' = TRUE
  /\ bus_off_irq' = ("bus_off" \in notify)
  /\ UNCHANGED <<hal, notify, rejects, canVars, fifo, startup, recovery, recovered,
                 sendVars, failures>>

-------------------------------------------------------------------------------
(* can_is_bus_off is true, or the bus-off interrupt was taken: the         *)
(* application calls can_recover_bus_off.                                  *)
can_is_bus_off == bus_off

RecoverBegin ==
  /\ startup = "done" /\ recovery = "idle"
  /\ IF Discovery = "poll" THEN can_is_bus_off ELSE bus_off_irq
  /\ bus_off_irq' = FALSE
  /\ recovery' = "stop"
  /\ UNCHANGED <<hal, notify, rejects, canVars, bus_off, fifo, startup, recovered,
                 sendVars, failures>>

(* can_recover_bus_off, one action per HAL call; each failure returns.     *)
RecoverStop_Returns ==
  /\ recovery = "stop"
  /\ IF hal = "started"
     THEN hal' = "ready" /\ notify' = {} /\ fifo' = 0 /\ recovered' = "ok"
     ELSE recovered' = "error" /\ UNCHANGED <<hal, notify, fifo>>
  /\ recovery' = "idle" /\ NoFault
  /\ UNCHANGED <<rejects, canVars, bus_off, bus_off_irq, startup, sendVars>>

RecoverStop ==
  /\ recovery = "stop"
  /\ \/ /\ hal = "started" /\ NoFault
        /\ hal' = "ready" /\ notify' = {} /\ fifo' = 0
        /\ recovery' = "start" /\ UNCHANGED recovered
     \/ /\ IF hal = "started" THEN Fault("stop") ELSE NoFault
        /\ recovery' = "idle" /\ recovered' = "error"
        /\ UNCHANGED <<hal, notify, fifo>>
  /\ UNCHANGED <<rejects, canVars, bus_off, bus_off_irq, startup, sendVars>>

RecoverStart ==
  /\ recovery = "start"
  /\ \/ /\ NoFault
        /\ hal' = "started" /\ bus_off' = FALSE
        /\ recovery' = "notify" /\ UNCHANGED recovered
     \/ /\ Fault("restart")
        /\ recovery' = "idle" /\ recovered' = "error"
        /\ UNCHANGED <<hal, bus_off>>
  /\ UNCHANGED <<notify, rejects, canVars, bus_off_irq, fifo, startup, sendVars>>

RecoverNotify_Forgotten ==
  /\ recovery = "notify"
  /\ recovered' = "ok" /\ recovery' = "idle"
  /\ UNCHANGED <<hal, notify, rejects, canVars, busVars, startup, sendVars, failures>>

RecoverNotify ==
  /\ recovery = "notify"
  /\ \/ NoFault /\ notify' = notify \cup {"rx"} /\ recovered' = "ok"
     \/ Fault("notify") /\ recovered' = "error" /\ UNCHANGED notify
  /\ recovery' = "idle"
  /\ UNCHANGED <<hal, rejects, canVars, busVars, startup, sendVars>>

-------------------------------------------------------------------------------
Startup ==
  \/ \E failed \in 1 .. 7 : StartInit(failed)
  \/ \E ids \in IdPairs, fault \in BOOLEAN : StartFilter(ids, fault)
Recover == RecoverBegin \/ RecoverStop \/ RecoverStart \/ RecoverNotify

FdcanNext ==
  \/ Startup
  \/ \E ids \in IdPairs, fault \in BOOLEAN : MoreFilters(ids, fault)
  \/ \E s \in Senders : SendCheck(s) \/ SendAdd(s)
  \/ Transmit \/ BusOff
  \/ Recover

FdcanSpec == FdcanInit /\ [][FdcanNext]_fdcanVars

(* Startup is retried until it succeeds, and whoever watches for bus-off   *)
(* gets to run.                                                            *)
FdcanFairSpec == FdcanSpec /\ WF_fdcanVars(Startup) /\ WF_fdcanVars(Recover)

-------------------------------------------------------------------------------
(* Every filter whose addition was reported successful is still in the     *)
(* peripheral, through failed additions, failed startups and recoveries.   *)
FiltersKept ==
  startup = "done" =>
    \A k \in Kinds :
      /\ filter_index[k] = Len(added[k])
      /\ \A i \in 1 .. Len(added[k]) : filters[k][i - 1] = added[k][i]

(* When startup and the last recovery were reported successful, messages   *)
(* that pass a filter are received and signalled and no others are,        *)
(* whatever failed on the way.                                             *)
ReceivesWhenHealthy ==
  startup = "done" /\ recovery = "idle" /\ recovered # "error" =>
    hal = "started" /\ "rx" \in notify /\ rejects

(* can_send_msg answers HAL_BUSY, not an error, when there is no room.  A  *)
(* frame for which room was found gets an error only when a recovery has   *)
(* stopped the peripheral in between, or another sender has added a frame: *)
(* nothing keeps the room that the level check found.                      *)
RefusedOnlyIfOvertaken ==
  [][\A s \in Senders : send[s] = "add" /\ send'[s] = "error" =>
                          hal # "started" \/ s \in overtaken]_fdcanVars

(* can_filter_init, called again while it fails, succeeds in the end,      *)
(* unless a filter of its own failed: the peripheral is then left started, *)
(* set up to reject, and every retry fails at the global filter for ever.  *)
StartupSettles ==
  <>[](startup = "done" \/ (startup = "init" /\ hal = "started" /\ rejects))

(* A bus-off that the application polls for is recovered from, even when   *)
(* attempts to stop or to re-enable the notification fail.                 *)
BusOffRecovered == bus_off ~> ~bus_off

(* fdcan.c on can_recover_bus_off: notifications do not survive Stop and   *)
(* Start, so they are re-enabled; after a recovery the peripheral notifies *)
(* what can_init made it notify.                                           *)
NotificationsRestored ==
  startup = "done" /\ recovery = "idle" /\ recovered = "ok" =>
    {"rx", "bus_off"} \subseteq notify
===============================================================================
