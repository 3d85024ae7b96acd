------------------------------- MODULE Debounce -------------------------------
(***************************************************************************)
(* middleware/src/debounce.c on top of middleware/src/timer.c: a signal is *)
(* sampled at arbitrary times, and the callback is called when it has been *)
(* high in every sample for the period.  Suffixed names are seeded faults. *)
(***************************************************************************)
EXTENDS NerTimer

CONSTANT Period

ASSUME PeriodAssumption == Period \in Nat /\ Period < Modulus

VARIABLES
  called,      \* the last call of debounce called the callback
  high_since,  \* history: uptime of the first of the current high samples
  is_high,     \* history: the last sample was high
  last_sample, \* history: uptime of the last sample
  last_start,  \* history: uptime at which the timer was last started
  last_call    \* history: uptime of the last callback; 0 before the first

history == <<high_since, is_high, last_sample, last_start, last_call>>
debounceVars == <<timerVars, called, history>>

DebounceInit ==
  /\ TimerInit
  /\ called = FALSE
  /\ high_since = 0 /\ is_high = FALSE /\ last_sample = 0
  /\ last_start = 0 /\ last_call = 0

Sample(input) ==
  /\ is_high' = input
  /\ last_sample' = uptime
  /\ high_since' = IF input /\ ~is_high THEN uptime ELSE high_since
  /\ UNCHANGED uptime

(* The branches of debounce.  The last branch is reached only with an      *)
(* active timer, since the first takes every high sample without one.      *)
DebounceStart ==
  /\ ~is_timer_active
  /\ Sample(TRUE)
  /\ start_timer(Period)
  /\ called' = FALSE /\ answer' = "none"
  /\ last_start' = uptime
  /\ UNCHANGED last_call

DebounceCancel_KeepsTimer ==
  /\ is_timer_active
  /\ Sample(FALSE)
  /\ called' = FALSE /\ answer' = "none"
  /\ UNCHANGED <<timerFields, timerHistory, last_start, last_call>>

DebounceCancel ==
  /\ is_timer_active
  /\ Sample(FALSE)
  /\ cancel_timer
  /\ called' = FALSE /\ answer' = "none"
  /\ UNCHANGED <<last_start, last_call>>

DebounceCheck_EverySample ==
  /\ is_timer_active
  /\ Sample(TRUE)
  /\ called' = (HAL_GetTick >= end_time)
  /\ answer' = (IF called' THEN "yes" ELSE "no")
  /\ last_call' = IF called' THEN uptime ELSE last_call
  /\ UNCHANGED <<timerFields, timerHistory, last_start>>

DebounceCheck ==
  /\ is_timer_active
  /\ Sample(TRUE)
  /\ is_timer_expired
  /\ called' = completed' /\ answer' = (IF completed' THEN "yes" ELSE "no")
  /\ last_call' = IF called' THEN uptime ELSE last_call
  /\ UNCHANGED last_start

DebounceNothing ==
  /\ ~is_timer_active
  /\ Sample(FALSE)
  /\ called' = FALSE /\ answer' = "none"
  /\ UNCHANGED <<timerFields, timerHistory, last_start, last_call>>

debounce == DebounceStart \/ DebounceCancel \/ DebounceCheck \/ DebounceNothing

Pass ==
  /\ Tick
  /\ called' = FALSE /\ answer' = "none"
  /\ UNCHANGED <<timerFields, timerHistory, history>>

DebounceNext == debounce \/ Pass

DebounceSpec == DebounceInit /\ [][DebounceNext]_debounceVars

-------------------------------------------------------------------------------
DebounceTypeOK ==
  /\ TimerTypeOK
  /\ called \in BOOLEAN /\ is_high \in BOOLEAN
  /\ high_since \in 0 .. MaxUptime /\ last_sample \in 0 .. MaxUptime
  /\ last_start \in 0 .. MaxUptime /\ last_call \in 0 .. MaxUptime

(* The callback is called only for a signal that was high in every sample  *)
(* of at least the last Period milliseconds.                               *)
CallbackMeansHeld == called => is_high /\ uptime - high_since >= Period

(* While the signal stays high the callback repeats, but never twice       *)
(* within a period.                                                        *)
CallbacksSpaced ==
  [][called' /\ last_call # 0 => uptime - last_call >= Period]_debounceVars

(* A high sample a period or more after the timer started calls the        *)
(* callback, however late the sample is taken.                             *)
ExpiryNotMissed ==
  [][active /\ is_high' /\ uptime' = uptime /\ uptime - last_start >= Period
       => called']_debounceVars

(* A signal that stays high calls back once in each period, no more and no *)
(* less as far as it is sampled.                                           *)
CallbackEachPeriod == CallbacksSpaced /\ ExpiryNotMissed
===============================================================================
