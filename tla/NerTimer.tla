------------------------------- MODULE NerTimer -------------------------------
(***************************************************************************)
(* middleware/src/timer.c: a timer that compares the millisecond tick of   *)
(* the HAL with the tick at which it ends.  The tick is a counter of       *)
(* limited width, here the number of milliseconds since power-on modulo    *)
(* Modulus; end_time wraps the same way.                                   *)
(*                                                                         *)
(* The operations are written as actions over the timer's fields, so that  *)
(* Debounce can be composed of them.  A suffixed name is a fault seeded in *)
(* the definition of the name before the suffix.                           *)
(***************************************************************************)
EXTENDS Naturals

CONSTANTS
  Modulus,    \* 2^32, the range of uint32_t
  Durations,  \* durations given to start_timer
  MaxUptime   \* bound on the milliseconds since power-on

ASSUME ModulusAssumption == Modulus \in Nat \ {0}
ASSUME DurationsAssumption == Durations \subseteq 0 .. Modulus - 1
ASSUME UptimeAssumption == MaxUptime \in Nat

VARIABLES
  uptime,      \* milliseconds since power-on
  start_time, end_time, active, completed,
  armed,       \* history: started and not cancelled since
  deadline,    \* history: the uptime at which the timer is to expire
  answer       \* what is_timer_expired returned, "none" after another step

timerFields == <<start_time, end_time, active, completed>>
timerHistory == <<armed, deadline>>
timerVars == <<uptime, timerFields, timerHistory, answer>>

HAL_GetTick == uptime % Modulus

TimerInit ==
  /\ uptime = 0
  /\ start_time = 0 /\ end_time = 0 /\ active = FALSE /\ completed = FALSE
  /\ armed = FALSE /\ deadline = 0
  /\ answer = "none"

start_timer_NoWrap(duration) ==
  /\ start_time' = HAL_GetTick
  /\ end_time' = HAL_GetTick + duration + 1
  /\ active' = TRUE /\ completed' = FALSE
  /\ armed' = TRUE /\ deadline' = uptime + duration

start_timer(duration) ==
  /\ start_time' = HAL_GetTick
  /\ end_time' = (HAL_GetTick + duration) % Modulus
  /\ active' = TRUE /\ completed' = FALSE
  /\ armed' = TRUE /\ deadline' = uptime + duration

cancel_timer ==
  /\ active' = FALSE /\ completed' = FALSE
  /\ armed' = FALSE
  /\ UNCHANGED <<start_time, end_time, deadline>>

(* is_timer_expired updates the timer and returns completed.               *)
is_timer_expired_Exactly ==
  /\ IF active /\ HAL_GetTick = end_time
     THEN active' = FALSE /\ completed' = TRUE
     ELSE UNCHANGED <<active, completed>>
  /\ UNCHANGED <<start_time, end_time, timerHistory>>

is_timer_expired ==
  /\ IF active /\ HAL_GetTick >= end_time
     THEN active' = FALSE /\ completed' = TRUE
     ELSE UNCHANGED <<active, completed>>
  /\ UNCHANGED <<start_time, end_time, timerHistory>>

is_timer_active == active

Tick ==
  /\ uptime < MaxUptime
  /\ uptime' = uptime + 1

-------------------------------------------------------------------------------
(* A client that starts, cancels and asks at any time.                     *)
Start == \E d \in Durations : start_timer(d) /\ answer' = "none" /\ UNCHANGED uptime
Cancel == cancel_timer /\ answer' = "none" /\ UNCHANGED uptime
Ask == is_timer_expired /\ answer' = (IF completed' THEN "yes" ELSE "no")
         /\ UNCHANGED uptime
Wait == Tick /\ answer' = "none" /\ UNCHANGED <<timerFields, timerHistory>>

TimerNext == Start \/ Cancel \/ Ask \/ Wait

TimerSpec == TimerInit /\ [][TimerNext]_timerVars

-------------------------------------------------------------------------------
TimerTypeOK ==
  /\ uptime \in 0 .. MaxUptime
  /\ start_time \in 0 .. Modulus - 1 /\ end_time \in 0 .. Modulus - 1
  /\ active \in BOOLEAN /\ completed \in BOOLEAN /\ armed \in BOOLEAN
  /\ deadline \in Nat
  /\ answer \in {"none", "yes", "no"}

(* timer.h on is_timer_expired: "true if the timer has expired, false      *)
(* otherwise".  The timer expires when its duration has passed since it    *)
(* was started, unless it was cancelled.  It fails when end_time wraps.     *)
AnswersTruthfully ==
  answer # "none" => (answer = "yes" <=> armed /\ uptime >= deadline)
===============================================================================
