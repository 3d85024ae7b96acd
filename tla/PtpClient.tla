------------------------------- MODULE PtpClient -------------------------------
(***************************************************************************)
(* The PTP client of nxd_ptp_client.c as this repository builds it: a slave *)
(* over UDP, neither gPTP nor master.  A thread sleeps on event flags that  *)
(* the sockets, a timer and nx_ptp_client_stop set; application threads     *)
(* start and stop it.  Masters and network are the environment: a message   *)
(* may arrive at any time, in any order, often or never.  A socket counts   *)
(* its packets; which message one holds is chosen when it is read.          *)
(*                                                                         *)
(* A time is abstracted to what it is the time of: t1 to the Sync that left *)
(* a master, t2 to the Sync that arrived, t3 to a request, t4 to the master *)
(* and request of an answer.  A reading of the own clock is fresh until the *)
(* clock is stepped.  A timer of 0 stands for the code's 0 and -1, which it *)
(* never tells apart.  A suffixed name is a seeded fault.                   *)
(***************************************************************************)
EXTENDS Integers

CONSTANTS
    Masters,            \* clocks that announce themselves as masters
    TwoStep,            \* those whose Sync carries no time: a Follow_Up does
    Apps,               \* threads that start and stop the client
    None,               \* no master, no time
    UtcOffsets,         \* what a master may announce
    SequenceIds,        \* sequence ids of Sync messages
    AnnounceExpiration, \* NX_PTP_CLIENT_ANNOUNCE_EXPIRATION
    DelayReqInterval,   \* NX_PTP_CLIENT_DELAY_REQ_INTERVAL
    QueueDepth,         \* NX_PTP_CLIENT_MAX_QUEUE_DEPTH
    MaxRequests         \* bound: requests that can be sent

ASSUME PtpAssumption ==
    /\ TwoStep \subseteq Masters
    /\ None \notin Masters
    /\ 0 \in SequenceIds /\ 0 \in UtcOffsets
    /\ AnnounceExpiration \in Nat \ {0}
    /\ DelayReqInterval \in Nat \ {0}
    /\ QueueDepth \in Nat \ {0}

VARIABLES
    threadState,        \* nx_ptp_client_thread_state
    pc,                 \* where the client's thread is
    tick,               \* the flags it took (ptp_events) hold TIMER
    flags,              \* nx_ptp_client_events
    eventQ, generalQ,   \* packets in the event and in the general socket
    bound,              \* the sockets are bound
    timer,              \* nx_ptp_client_timer is active
    app,                \* where each application thread is
    state, master,      \* nx_ptp_client_state, _master_port_identity
    calibrated, utc,    \* NX_PTP_CLIENT_SYNC_CALIBRATED, _utc_offset
    sync, syncTs, syncId,               \* t1, t2 and nx_ptp_client_sync_id
    delayState, reqId, delayTs,         \* delay_state, delay_req_id and t3
    delayTimer, delayFlag,              \* delay_req_timer, delay_req_flag
    announceTimeout,    \* nx_ptp_client_announce_timeout
    told,               \* device.ptp_utc_offset of u_nx_ethernet.c
    cleared,            \* history: ethernet_init has reset it since it was last told
    last                \* history: where the offset a slave last applied came from, a set
                        \* of at most one record

thread == <<threadState, pc, tick, flags, eventQ, generalQ, bound, timer>>
times  == <<sync, syncTs, syncId>>
delay  == <<delayState, reqId, delayTs, delayTimer, delayFlag>>
role   == <<state, master, calibrated, utc, announceTimeout, told, cleared>>
vars   == <<thread, app, times, delay, role, last>>

(***************************************************************************)
(* Times and messages.                                                      *)
(***************************************************************************)
NoTime == [of |-> None, fresh |-> TRUE]
Reading(event) == [of |-> event, fresh |-> TRUE]
Stepped(t) == [t EXCEPT !.fresh = FALSE]

Announce(m, u) == [type |-> "ANNOUNCE", from |-> m, id |-> 0, utc |-> u]
Message(type, m, n) == [type |-> type, from |-> m, id |-> n, utc |-> 0]

EventMessages == {Message("SYNC", m, n) : m \in Masters, n \in SequenceIds}
GeneralMessages ==
    {Announce(m, u) : m \in Masters, u \in UtcOffsets}
    \cup {Message("FOLLOW_UP", m, n) : m \in TwoStep, n \in SequenceIds}
    \cup {Message("DELAY_RESP", m, r) : m \in Masters, r \in 1..reqId}

TypeOK ==
    /\ threadState \in {"IDLE", "RUNNING", "STOPPING", "STOPPED"}
    /\ pc \in {"dead", "ready", "wait", "drain", "timer"}
    /\ tick \in BOOLEAN
    /\ flags \subseteq {"STOP", "RX", "TIMER"}
    /\ eventQ \in 0..QueueDepth /\ generalQ \in 0..QueueDepth
    /\ bound \in BOOLEAN /\ timer \in BOOLEAN
    /\ app \in [Apps -> {"idle", "claimed", "resumed", "bound", "halting", "polling",
                       "ending", "ended"}]
    /\ state \in {"LISTENING", "SLAVE"}
    /\ master \in Masters \cup {None}
    /\ calibrated \in BOOLEAN
    /\ utc \in UtcOffsets /\ told \in UtcOffsets /\ cleared \in BOOLEAN
    /\ delayState \in {"IDLE", "WAIT_RESP"}
    /\ reqId \in Nat
    /\ delayTimer \in 0..DelayReqInterval
    /\ delayFlag \in BOOLEAN
    /\ announceTimeout \in 0..AnnounceExpiration

Init ==
    /\ threadState = "IDLE" /\ pc = "dead" /\ tick = FALSE /\ flags = {}
    /\ eventQ = 0 /\ generalQ = 0 /\ bound = FALSE /\ timer = FALSE
    /\ app = [a \in Apps |-> "idle"]
    /\ state = "LISTENING" /\ master = None
    /\ calibrated = FALSE /\ utc = 0 /\ told = 0 /\ cleared = FALSE
    /\ sync = NoTime /\ syncTs = NoTime /\ syncId = 0
    /\ delayState = "IDLE" /\ reqId = 0 /\ delayTs = NoTime
    /\ delayTimer = 0 /\ delayFlag = FALSE /\ announceTimeout = 0
    /\ last = {}

(***************************************************************************)
(* Environment: a packet reaches a bound socket, whose notification sets    *)
(* the RX flag; the timer's handler sets the TIMER flag.                    *)
(***************************************************************************)
Arrive ==
    /\ bound
    /\ \/ /\ eventQ < QueueDepth
          /\ eventQ' = eventQ + 1 /\ UNCHANGED generalQ
       \/ /\ generalQ < QueueDepth
          /\ generalQ' = generalQ + 1 /\ UNCHANGED eventQ
    /\ flags' = flags \cup {"RX"}
    /\ UNCHANGED <<threadState, pc, tick, bound, timer, app, times, delay, role, last>>

Tick ==
    /\ timer
    /\ flags' = flags \cup {"TIMER"}
    /\ UNCHANGED <<threadState, pc, tick, eventQ, generalQ, bound, timer, app, times, delay,
                   role, last>>

(***************************************************************************)
(* The thread: nx_ptp_client_thread_entry.                                  *)
(***************************************************************************)
Enter ==
    /\ pc = "ready"
    /\ pc' = "wait"
    /\ state' = "LISTENING"
    /\ delayTimer' = 0
    /\ announceTimeout' = AnnounceExpiration
    /\ UNCHANGED <<threadState, tick, flags, eventQ, generalQ, bound, timer, app, times,
                   delayState, reqId, delayTs, delayFlag, master, calibrated, utc, told, cleared,
                   last>>

GetEvents ==
    /\ pc = "wait"
    /\ flags # {}
    /\ flags' = {}
    /\ \/ "STOP" \in flags /\ pc' = "dead" /\ threadState' = "STOPPED" /\ UNCHANGED tick
       \/ /\ "STOP" \notin flags
          /\ pc' = IF "RX" \in flags THEN "drain" ELSE "timer"
          /\ tick' = ({"RX", "TIMER"} \subseteq flags)
          /\ UNCHANGED threadState
    /\ UNCHANGED <<eventQ, generalQ, bound, timer, app, times, delay, role, last>>

DrainEnd_OneSocket ==
    /\ pc = "drain"
    /\ eventQ = 0
    /\ pc' = IF tick THEN "timer" ELSE "wait"
    /\ tick' = FALSE
    /\ UNCHANGED <<threadState, flags, eventQ, generalQ, bound, timer, app, times, delay,
                   role, last>>

DrainEnd ==
    /\ pc = "drain"
    /\ eventQ = 0 /\ generalQ = 0
    /\ pc' = IF tick THEN "timer" ELSE "wait"
    /\ tick' = FALSE
    /\ UNCHANGED <<threadState, flags, eventQ, generalQ, bound, timer, app, times, delay,
                   role, last>>

\* Two seconds after a request the next Sync is answered with another; a
\* master not heard for too long is left.
Expired_BelowZero == announceTimeout < 0
Expired == announceTimeout = 1

TimerEvent ==
    /\ pc = "timer"
    /\ pc' = "wait"
    /\ LET due == ~Expired /\ delayTimer = 1
       IN  /\ announceTimeout' = IF announceTimeout > 0 THEN announceTimeout - 1 ELSE 0
           /\ state' = IF Expired THEN "LISTENING" ELSE state
           /\ delayTimer' = IF Expired \/ delayTimer = 0 THEN 0 ELSE delayTimer - 1
           /\ delayFlag' = (delayFlag \/ due)
    /\ UNCHANGED <<threadState, tick, flags, eventQ, generalQ, bound, timer, app, times,
                   delayState, reqId, delayTs, master, calibrated, utc, told, cleared,
                   last>>

(***************************************************************************)
(* The messages.  A slave listens to its master only.                       *)
(***************************************************************************)
Accepted_FromAnyone(m) == TRUE
Accepted(m) == state = "LISTENING" \/ m.from = master

\* The packet may not be had, or not be sent; then the flag stays set and
\* the next Sync tries again.  The callback that prepares the time stamp
\* (u_rtc.c) reads the clock and notifies the client before it returns.
SendDelayReq_OnlyOnce ==
    \/ delayFlag' = FALSE /\ UNCHANGED <<delayState, reqId, delayTs, delayTimer>>
    \/ /\ reqId < MaxRequests
       /\ reqId' = reqId + 1
       /\ delayTs' = Reading(reqId + 1)
       /\ delayState' = "WAIT_RESP"
       /\ delayTimer' = DelayReqInterval
       /\ delayFlag' = FALSE

SendDelayReq ==
    \/ UNCHANGED delay
    \/ /\ reqId < MaxRequests
       /\ reqId' = reqId + 1
       /\ delayTs' = Reading(reqId + 1)
       /\ \/ delayState' = "IDLE" /\ UNCHANGED <<delayTimer, delayFlag>>
          \/ /\ delayState' = "WAIT_RESP"
             /\ delayTimer' = DelayReqInterval
             /\ delayFlag' = FALSE

SyncReceived(event) ==
    /\ sync' = Reading(event)
    /\ IF delayFlag THEN SendDelayReq ELSE UNCHANGED delay

SyncMessage(m) ==
    /\ m.type = "SYNC"
    /\ IF state = "SLAVE"
       THEN /\ syncTs' = Reading(<<m.from, m.id>>)
            /\ IF m.from \in TwoStep
               THEN syncId' = m.id /\ UNCHANGED <<sync, delay>>
               ELSE SyncReceived(<<m.from, m.id>>) /\ UNCHANGED syncId
       ELSE UNCHANGED <<times, delay>>
    /\ UNCHANGED <<role, last>>

FollowUpMessage(m) ==
    /\ m.type = "FOLLOW_UP"
    /\ IF state = "SLAVE" /\ syncId = m.id
       THEN SyncReceived(<<m.from, m.id>>) /\ UNCHANGED <<syncTs, syncId>>
       ELSE UNCHANGED <<times, delay>>
    /\ UNCHANGED <<role, last>>

\* The first announcement makes its sender the master; later ones may change
\* the UTC offset, of which the application is told once calibrated.
Told_OldOffset(m) == IF calibrated /\ utc # m.utc THEN utc ELSE told
Told(m) == IF calibrated /\ utc # m.utc THEN m.utc ELSE told

AnnounceMessage(m) ==
    /\ m.type = "ANNOUNCE"
    /\ announceTimeout' = AnnounceExpiration
    /\ utc' = m.utc
    /\ IF state = "LISTENING"
       THEN /\ state' = "SLAVE" /\ master' = m.from
            /\ calibrated' = FALSE
            /\ delayState' = "IDLE" /\ delayTimer' = 0 /\ delayFlag' = TRUE
            /\ sync' = NoTime /\ syncTs' = NoTime
            /\ last' = {}
            /\ UNCHANGED <<told, cleared>>
       ELSE /\ told' = Told(m)
            /\ cleared' = (cleared /\ ~(calibrated /\ utc # m.utc))
            /\ UNCHANGED <<state, master, calibrated, delayState, delayTimer, delayFlag, sync, syncTs,
                          last>>
    /\ UNCHANGED <<syncId, reqId, delayTs>>

\* The answer to the last request moves the clock, if t1 is known.
Awaited_AnyRequest(m) == delayState = "WAIT_RESP" /\ sync # NoTime
Awaited(m) == delayState = "WAIT_RESP" /\ reqId = m.id /\ sync # NoTime

DelayRespMessage(m) ==
    /\ m.type = "DELAY_RESP"
    /\ IF Awaited(m)
       THEN /\ last' = IF state = "LISTENING" THEN last
                       ELSE {[master |-> sync.of[1], answeredBy |-> m.from,
                              oneSync |-> syncTs.of = sync.of,
                              oneRequest |-> delayTs.of = m.id /\ delayTs.fresh,
                              stepped |-> ~syncTs.fresh]}
            /\ syncTs' = Stepped(syncTs) /\ delayTs' = Stepped(delayTs)
            /\ calibrated' = TRUE
            /\ told' = IF calibrated THEN told ELSE utc
            /\ cleared' = (cleared /\ calibrated)
            /\ delayState' = "IDLE"
       ELSE UNCHANGED <<last, syncTs, delayTs, calibrated, told, cleared, delayState>>
    /\ UNCHANGED <<sync, syncId, reqId, delayTimer, delayFlag, state, master, utc,
                   announceTimeout>>

Process(m) ==
    IF Accepted(m)
    THEN \/ SyncMessage(m) \/ FollowUpMessage(m)
         \/ AnnounceMessage(m) \/ DelayRespMessage(m)
    ELSE UNCHANGED <<times, delay, role, last>>

\* One turn of the loop that drains the sockets, the event socket first.  A
\* packet that is too short or of another version, domain or interface is
\* dropped (nx_ptp_msg_parse_hdr).
Receive ==
    /\ pc = "drain"
    /\ \/ /\ eventQ > 0
          /\ eventQ' = eventQ - 1 /\ UNCHANGED generalQ
          /\ \E m \in EventMessages : Process(m)
       \/ /\ eventQ = 0 /\ generalQ > 0
          /\ generalQ' = generalQ - 1 /\ UNCHANGED eventQ
          /\ \/ \E m \in GeneralMessages : Process(m)
             \/ UNCHANGED <<times, delay, role, last>>
    /\ UNCHANGED <<threadState, pc, tick, flags, bound, timer, app>>

(***************************************************************************)
(* nx_ptp_client_start and nx_ptp_client_stop.                              *)
(***************************************************************************)
StartClaim(a) ==
    /\ app[a] = "idle" /\ threadState = "IDLE"
    /\ threadState' = "RUNNING"
    /\ app' = [app EXCEPT ![a] = "claimed"]
    /\ UNCHANGED <<pc, tick, flags, eventQ, generalQ, bound, timer, times, delay, role, last>>

\* The thread is terminated, reset (which may fail) and resumed.
StartThread(a) ==
    /\ app[a] = "claimed"
    /\ \/ pc' = "dead" /\ threadState' = "IDLE" /\ app' = [app EXCEPT ![a] = "idle"]
       \/ pc' = "ready" /\ app' = [app EXCEPT ![a] = "resumed"] /\ UNCHANGED threadState
    /\ UNCHANGED <<tick, flags, eventQ, generalQ, bound, timer, times, delay, role, last>>

StartSockets(a) ==
    /\ app[a] = "resumed"
    /\ bound' = TRUE
    /\ app' = [app EXCEPT ![a] = "bound"]
    /\ UNCHANGED <<threadState, pc, tick, flags, eventQ, generalQ, timer, times, delay,
                   role, last>>

StartTimer(a) ==
    /\ app[a] = "bound"
    /\ timer' = TRUE
    /\ app' = [app EXCEPT ![a] = "idle"]
    /\ UNCHANGED <<threadState, pc, tick, flags, eventQ, generalQ, bound, times, delay,
                   role, last>>

\* A start that fails halfway, at a socket or at the timer, stops the client.
StopClaim(a) ==
    /\ app[a] \in {"idle", "resumed", "bound"}
    /\ threadState \in {"RUNNING", "STOPPED"}
    /\ IF threadState = "RUNNING"
       THEN threadState' = "STOPPING" /\ app' = [app EXCEPT ![a] = "halting"]
       ELSE UNCHANGED threadState /\ app' = [app EXCEPT ![a] = "ending"]
    /\ UNCHANGED <<pc, tick, flags, eventQ, generalQ, bound, timer, times, delay, role, last>>

StopAll(a) ==
    /\ app[a] \in {"halting", "ending"}
    /\ timer' = FALSE
    /\ bound' = FALSE /\ eventQ' = 0 /\ generalQ' = 0
    /\ flags' = flags \cup {"STOP"}
    /\ app' = [app EXCEPT ![a] = IF @ = "halting" THEN "polling" ELSE "ended"]
    /\ UNCHANGED <<threadState, pc, tick, times, delay, role, last>>

StopPoll(a) ==
    /\ \/ app[a] = "ended"
       \/ app[a] = "polling" /\ threadState = "STOPPED"
    /\ threadState' = "IDLE"
    /\ app' = [app EXCEPT ![a] = "idle"]
    /\ UNCHANGED <<pc, tick, flags, eventQ, generalQ, bound, timer, times, delay, role, last>>

\* nx_ptp_client_time_set, refused unless the client is idle.
TimeSet(a) ==
    /\ app[a] = "idle" /\ threadState = "IDLE"
    /\ syncTs' = Stepped(syncTs) /\ delayTs' = Stepped(delayTs)
    /\ UNCHANGED <<thread, app, sync, syncId, delayState, reqId, delayTimer, delayFlag, role, last>>

\* ethernet_init resets the application's copy before it looks whether the
\* device is initialized; NetX is asked to start a client once only.
InitAgain ==
    /\ told' = 0
    /\ cleared' = TRUE
    /\ UNCHANGED <<thread, app, times, delay, state, master, calibrated, utc, announceTimeout,
                   last>>

Thread == Enter \/ GetEvents \/ Receive \/ DrainEnd \/ TimerEvent
Start(a) == StartClaim(a) \/ StartThread(a) \/ StartSockets(a) \/ StartTimer(a)
Stop(a) == StopClaim(a) \/ StopAll(a) \/ StopPoll(a)
Next ==
    \/ Thread \/ Tick \/ Arrive \/ InitAgain
    \/ \E a \in Apps : Start(a) \/ Stop(a) \/ TimeSet(a)

Spec == Init /\ [][Next]_vars

(***************************************************************************)
(* Fairness.  The timer runs, the thread is scheduled, start and stop go on *)
(* once called; and the thread, faster than the packets come, leaves its    *)
(* loop if it could time and again.                                         *)
(***************************************************************************)
FairSpec ==
    /\ Spec
    /\ WF_vars(Thread) /\ SF_vars(DrainEnd) /\ WF_vars(Tick)
    /\ \A a \in Apps : WF_vars(StartThread(a) \/ StartSockets(a) \/ StartTimer(a))
                      /\ WF_vars(StopAll(a) \/ StopPoll(a))

(***************************************************************************)
(* Properties.                                                              *)
(***************************************************************************)
\* The offset a slave applies comes from one request (t3 and t4), answered by
\* the master that t1 came from, with no step of the clock since t3; and if
\* that master puts the time into its Sync, from one Sync (t1 and t2).
OffsetIsSound ==
    \A offset \in last :
        /\ offset.oneRequest
        /\ offset.answeredBy = offset.master
        /\ offset.master \notin TwoStep => offset.oneSync /\ ~offset.stepped

\* "t1 = nx_ptp_client_sync, t2 = nx_ptp_client_sync_ts, A = t2 - t1": the
\* two times the offset is computed from are those of one Sync.
OffsetFromOneSync == \A offset \in last : offset.oneSync

\* A slave that calls itself calibrated has set its clock by the master it
\* follows: a late answer to a request made under another master does not
\* count.
CalibratedByMaster ==
    state = "SLAVE" /\ calibrated =>
        \E offset \in last : offset.master = master /\ offset.answeredBy = master

\* However often a request cannot be sent or is not answered, a slave has
\* its next one due or its timer running.
NextRequestScheduled == state = "SLAVE" => delayFlag \/ delayTimer > 0

\* The application knows the UTC offset of the master of a calibrated client,
\* or 0 if it has called ethernet_init again since it was last told: then it is
\* not told again before the offset changes or the client is calibrated anew.
UtcOffsetTold ==
    state = "SLAVE" /\ calibrated => told = IF cleared THEN 0 ELSE utc

\* A packet in a socket is about to be read: no wake-up is lost between the
\* two sockets, the flags and the loop.
NothingUnread ==
    eventQ > 0 \/ generalQ > 0 => "RX" \in flags \/ pc = "drain"

\* Once nx_ptp_client_start has returned the thread runs: no stop of an
\* earlier run ends it.
StartedRuns ==
    threadState = "RUNNING" /\ (\A a \in Apps : app[a] = "idle") =>
        pc # "dead" /\ "STOP" \notin flags

\* A running client stays with a master only as long as that master
\* announces itself, whatever else is sent, if its sockets are empty now and
\* then: the loop that drains them keeps the timer's event waiting.
LeavesSilentMaster ==
    <>[](state = "SLAVE" /\ threadState = "RUNNING") /\ []<>(eventQ = 0 /\ generalQ = 0)
        => []<>(announceTimeout = AnnounceExpiration)
================================================================================
