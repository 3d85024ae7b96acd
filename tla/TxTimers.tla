------------------------------- MODULE TxTimers -------------------------------
(***************************************************************************)
(* threadX/src/u_tx_timers.c: a wrapper of one ThreadX application timer.  *)
(* The wrapper's functions are sequences of ThreadX calls; threads, and    *)
(* the tick interrupt that expires the timer, interleave between them.     *)
(*                                                                         *)
(* ThreadX (external) deactivates at once, with the ticks left kept;       *)
(* changes only a timer that is not active; and refuses to activate one    *)
(* that is active or has no tick left.  A suffixed name is a fault seeded  *)
(* in the definition of the name before the suffix.                        *)
(***************************************************************************)
EXTENDS Naturals

CONSTANTS
  Threads,
  Duration,    \* timer->duration, in ticks
  MaxTicks,    \* bound on the ticks
  MaxCalls     \* bound on the calls of each thread

(* tx_timer_create refuses a timer of no ticks.                            *)
TimerAssumption == Duration \in Nat \ {0} /\ MaxTicks \in Nat /\ MaxCalls \in Nat

Types == {"ONESHOT", "PERIODIC"}

VARIABLES
  type,        \* timer->type, set by the application before timer_init
  \* TX_TIMER
  active, remaining, reschedule,
  \* threads
  pc,        \* the next ThreadX call of each thread
  fn,        \* the function each thread is in or was in last
  result,    \* what it returned, "none" while it runs
  calls,
  \* history
  ticks,
  inactive_full,  \* threads in whose call the timer was stopped at its start
  alone,          \* threads during whose call no other thread was in one
  run,            \* ticks the timer ran since its last reset or expiry
  fired           \* expiries since it was last activated

timer == <<active, remaining, reschedule>>
threads == <<pc, fn, result, calls>>
history == <<ticks, inactive_full, alone, run, fired>>
vars == <<type, timer, threads, history>>

Functions == {"timer_start", "timer_stop", "timer_reset", "timer_restart"}
FirstCall == [timer_start |-> "isActive", timer_stop |-> "deactivate",
              timer_reset |-> "deactivate", timer_restart |-> "deactivate"]

reschedule_ticks_Swapped == IF type = "ONESHOT" THEN Duration ELSE 0

reschedule_ticks == IF type = "ONESHOT" THEN 0 ELSE Duration

(* timer_init: tx_timer_create, activated or not as timer->auto_activate   *)
(* says.                                                                   *)
timer_init ==
  /\ active \in BOOLEAN
  /\ remaining = Duration
  /\ reschedule = reschedule_ticks

Init ==
  /\ type \in Types
  /\ timer_init
  /\ pc = [t \in Threads |-> "idle"]
  /\ fn = [t \in Threads |-> "timer_stop"]
  /\ result = [t \in Threads |-> "none"]
  /\ calls = [t \in Threads |-> 0]
  /\ ticks = 0 /\ inactive_full = {} /\ alone = {} /\ run = 0 /\ fired = 0

-------------------------------------------------------------------------------
Call(t) ==
  /\ pc[t] = "idle"
  /\ calls[t] < MaxCalls
  /\ calls' = [calls EXCEPT ![t] = @ + 1]
  /\ \E f \in Functions :
       /\ fn' = [fn EXCEPT ![t] = f]
       /\ pc' = [pc EXCEPT ![t] = FirstCall[f]]
  /\ result' = [result EXCEPT ![t] = "none"]
  /\ inactive_full' = inactive_full \ {t}
  /\ alone' = IF \A u \in Threads : pc[u] = "idle" THEN {t} ELSE {}
  /\ UNCHANGED <<timer, ticks, run, fired>>

GoTo(t, label) ==
  /\ pc' = [pc EXCEPT ![t] = label]
  /\ UNCHANGED <<fn, result, calls>>

Return(t, status) ==
  /\ pc' = [pc EXCEPT ![t] = "idle"]
  /\ result' = [result EXCEPT ![t] = status]
  /\ UNCHANGED <<fn, calls>>

(* The threads whose call the present moment belongs to see the timer      *)
(* stopped with its full duration left.                                    *)
Witness ==
  inactive_full' =
    IF ~active' /\ remaining' = Duration
    THEN inactive_full \union {t \in Threads : pc[t] # "idle"}
    ELSE inactive_full

(* timer_start, first half: timer_isActive.                                *)
CheckActive(t) ==
  /\ pc[t] = "isActive"
  /\ \/ active /\ Return(t, "U_ERROR")
     \/ ~active /\ GoTo(t, "activate")
  /\ UNCHANGED <<timer, ticks, run, fired>>
  /\ Witness

(* timer_start, second half: tx_timer_activate.                            *)
Activate(t) ==
  /\ pc[t] = "activate"
  /\ \/ /\ active \/ remaining = 0
        /\ Return(t, "U_ERROR")
        /\ UNCHANGED <<active, fired>>
     \/ /\ ~active /\ remaining > 0
        /\ active' = TRUE /\ fired' = 0
        /\ Return(t, "U_SUCCESS")
  /\ UNCHANGED <<remaining, reschedule, ticks, run>>
  /\ Witness

(* timer_stop, and the first half of timer_reset: tx_timer_deactivate,     *)
(* which succeeds on a timer that is not active.                           *)
Deactivate_OnlyStop(t) ==
  /\ pc[t] = "deactivate"
  /\ active' = (active /\ fn[t] # "timer_stop")
  /\ IF fn[t] = "timer_stop" THEN Return(t, "U_SUCCESS") ELSE GoTo(t, "change")
  /\ UNCHANGED <<remaining, reschedule, ticks, run, fired>>
  /\ Witness

Deactivate(t) ==
  /\ pc[t] = "deactivate"
  /\ active' = FALSE
  /\ IF fn[t] = "timer_stop" THEN Return(t, "U_SUCCESS") ELSE GoTo(t, "change")
  /\ UNCHANGED <<remaining, reschedule, ticks, run, fired>>
  /\ Witness

(* timer_reset, second half: tx_timer_change; timer_restart goes on with   *)
(* timer_start.                                                            *)
Change_OneTick(t) ==
  /\ pc[t] = "change"
  /\ IF active
     THEN UNCHANGED <<remaining, reschedule, run>>
     ELSE remaining' = 1 /\ reschedule' = reschedule_ticks /\ run' = 0
  /\ IF fn[t] = "timer_reset" THEN Return(t, "U_SUCCESS") ELSE GoTo(t, "isActive")
  /\ UNCHANGED <<active, ticks, fired>>
  /\ Witness

Change(t) ==
  /\ pc[t] = "change"
  /\ IF active
     THEN UNCHANGED <<remaining, reschedule, run>>
     ELSE remaining' = Duration /\ reschedule' = reschedule_ticks /\ run' = 0
  /\ IF fn[t] = "timer_reset" THEN Return(t, "U_SUCCESS") ELSE GoTo(t, "isActive")
  /\ UNCHANGED <<active, ticks, fired>>
  /\ Witness

(* The tick interrupt.                                                     *)
Tick ==
  /\ ticks < MaxTicks
  /\ ticks' = ticks + 1
  /\ \/ /\ ~active
        /\ UNCHANGED <<timer, run, fired>>
     \/ /\ active /\ remaining > 1
        /\ remaining' = remaining - 1 /\ run' = run + 1
        /\ UNCHANGED <<active, reschedule, fired>>
     \/ /\ active /\ remaining = 1     \* the callback runs
        /\ remaining' = reschedule /\ active' = (reschedule > 0)
        /\ fired' = fired + 1 /\ run' = 0
        /\ UNCHANGED reschedule
  /\ Witness
  /\ UNCHANGED threads

Step(t) == CheckActive(t) \/ Activate(t) \/ Deactivate(t) \/ Change(t)

Next ==
  /\ \/ (Tick \/ \E t \in Threads : Step(t)) /\ UNCHANGED alone
     \/ \E t \in Threads : Call(t)
  /\ UNCHANGED type

Spec == Init /\ [][Next]_vars

-------------------------------------------------------------------------------
Finished(t) == pc[t] # "idle" /\ pc'[t] = "idle"

(* The callback comes when the timer has run for its whole duration since  *)
(* the last reset or expiry, over any stops and starts in between; then a  *)
(* one-shot timer has called back once since it was activated and stops,   *)
(* and a periodic one goes on.                                             *)
CallbackOnTime ==
  [][fired' > fired =>
       /\ run + 1 = Duration
       /\ IF type = "ONESHOT" THEN fired' = 1 /\ ~active' ELSE active']_vars

(* u_tx_timers.h: timer_reset "resets a ThreadX timer back to its starting *)
(* position": a reset or restart that succeeds had the timer stopped with  *)
(* its full duration left at some moment of the call.  It fails when       *)
(* another thread starts the timer between the two ThreadX calls.          *)
ResetTakesEffect ==
  [][\A t \in Threads :
       /\ Finished(t) /\ result'[t] = "U_SUCCESS"
       /\ fn[t] \in {"timer_reset", "timer_restart"}
       => t \in inactive_full']_vars

(* What remains of it when no other thread's call overlaps, whatever the   *)
(* tick does in between; and such a restart never fails, not on a running  *)
(* timer, not on a one-shot timer that has expired, and runs the timer     *)
(* from its full duration.                                                 *)
ResetAloneTakesEffect ==
  [][\A t \in alone : Finished(t) =>
       /\ result'[t] = "U_SUCCESS" /\ fn[t] \in {"timer_reset", "timer_restart"}
          => t \in inactive_full'
       /\ fn[t] = "timer_restart"
          => result'[t] = "U_SUCCESS" /\ active' /\ remaining' = Duration]_vars
===============================================================================
