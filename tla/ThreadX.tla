-------------------------------- MODULE ThreadX --------------------------------
(***************************************************************************)
(* The wrappers of the kernels' objects, one of which each behaviour is     *)
(* about: the queue and flag of rtos_utils.c (Notify), a timer of           *)
(* u_tx_timers.c (TxTimers), or the objects and messages of u_tx_threads.c  *)
(* and u_tx_queues.c (TxQueue, whose names are this module's).  They share  *)
(* no state; the others stay in an initial state.                           *)
(***************************************************************************)
EXTENDS TxQueue

CONSTANTS
  Duration, MaxTicks, TimerCalls,       \* TxTimers
  Producers, NotifyCapacity, NotifyCalls   \* Notify

VARIABLES
  part,
  type, active, remaining, reschedule, timer_pc, fn, timer_result, timer_calls, ticks,
  inactive_full, alone, run, fired,                                 \* TxTimers
  message_queue, flag, notify_calls, between, status, consumer, put, took   \* Notify

Timers == INSTANCE TxTimers WITH
  MaxCalls <- TimerCalls, pc <- timer_pc, result <- timer_result, calls <- timer_calls

Notified == INSTANCE Notify WITH
  Capacity <- NotifyCapacity, MaxCalls <- NotifyCalls, queue <- message_queue,
  calls <- notify_calls, accepted <- put, received <- took

ASSUME ThreadXAssumption ==
  /\ CreateAssumption /\ QueueAssumption
  /\ Timers!TimerAssumption
  /\ Notified!NotifyAssumption

timersVars == <<type, active, remaining, reschedule, timer_pc, fn, timer_result, timer_calls,
                ticks, inactive_full, alone, run, fired>>
notifyVars == <<message_queue, flag, notify_calls, between, status, consumer, put, took>>
allVars == <<part, vars, timersVars, notifyVars>>

ThreadXInit ==
  /\ part \in {"notify", "timers", "queues"}
  /\ Init /\ Timers!Init /\ Notified!Init
  /\ part # "timers" => type = "ONESHOT" /\ ~active
  /\ part # "queues" => \A t \in Threads : object[t] = TheQueue

ThreadXNext ==
  /\ UNCHANGED part
  /\ \/ /\ part = "notify" /\ Notified!Next
        /\ UNCHANGED <<timersVars, vars>>
     \/ /\ part = "timers" /\ Timers!Next
        /\ UNCHANGED <<notifyVars, vars>>
     \/ /\ part = "queues" /\ Next
        /\ UNCHANGED <<notifyVars, timersVars>>

\* In an initial state none of Notify's fair actions is enabled.
ThreadXSpec == ThreadXInit /\ [][ThreadXNext]_allVars /\ Notified!Fairness

\* The instances' properties, under their names.
\* No message stays behind while its consumer sleeps (Notify).
NothingStranded == Notified!NothingStranded
\* Every accepted message reaches the consumer (Notify).
Delivered == Notified!Delivered
\* The callback comes after the full duration and as typed (TxTimers).
CallbackOnTime == Timers!CallbackOnTime
\* A reset or restart that no other call overlaps takes effect (TxTimers).
ResetAloneTakesEffect == Timers!ResetAloneTakesEffect
================================================================================
