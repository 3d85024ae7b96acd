-------------------------------- MODULE PtpClock --------------------------------
(***************************************************************************)
(* The clock that the PTP client keeps, set by one request after another to *)
(* a master whose clock is the time itself: the readings of the clock, the  *)
(* offset computed from the four times of a request, and its application.   *)
(*                                                                         *)
(* Two clocks: "hard" is the MAC's, behind the callback of u_rtc.c, which   *)
(* goes on counting while a thread that has disabled interrupts reads its   *)
(* two registers; "soft" is the client's own, a variable that the timer     *)
(* interrupt advances.  It is read with interrupts disabled, but for a      *)
(* packet that is sent (t3) it is passed by reference, and copied word by   *)
(* word with the timer in between.  Messages take any time.                 *)
(* A suffixed name is a seeded fault.                                       *)
(***************************************************************************)
EXTENDS PtpTime

CONSTANTS
    Starts,         \* when it is at first
    Settings,       \* what the application may set the clock to before it
                    \* starts the client
    MaxTicks,       \* bound: nanoseconds that pass
    MaxRequests     \* bound: requests answered

VARIABLES
    kind,           \* "hard" or "soft"
    now,            \* the master's clock
    clock,          \* the client's clock
    macstsur,       \* the seconds in the MAC's update register
    pc,             \* what comes next
    half,           \* nanoseconds were read, their seconds come next
    words,          \* words of t3 that are still to be copied
    t,              \* the times of the request, t1 to t4, and the reading "current"
    offset,
    ticks, requests,\* bounds
    at,             \* history: when each was (its nanoseconds)
    began,          \* history: the clock when the reading began
    torn,           \* history: a reading for this request straddled two seconds
    lost            \* history: what passed between current and its setting

vars == <<kind, now, clock, macstsur, pc, half, words, t, offset, ticks, requests,
          at, began, torn, lost>>

Readings == {"t2", "t3", "current"}
Times == Readings \cup {"t1", "t4"}

Init ==
    /\ kind \in {"hard", "soft"}
    /\ now \in Starts
    /\ clock = Time(Zero, 0) /\ macstsur = 0
    /\ pc = "init" /\ half = FALSE /\ words = {}
    /\ t = [r \in Times |-> Time(Zero, 0)] /\ offset = Time(Zero, 0)
    /\ ticks = 0 /\ requests = 0
    /\ at = [r \in Times |-> 0] /\ began = 0 /\ torn = FALSE /\ lost = 0

\* The clock a nanosecond later: the MAC's rollover at a second, and
\* CLOCK_SOFT_TIMER_UPDATE.
Later(c) == IF c.ns + 1 >= Nanos THEN Time(inc64(c.sec), c.ns + 1 - Nanos) ELSE Time(c.sec, c.ns + 1)
Tick ==
    /\ ticks < MaxTicks /\ pc # "init"
    /\ ticks' = ticks + 1 /\ now' = now + 1
    /\ clock' = Later(clock)
    /\ UNCHANGED <<kind, macstsur, pc, half, words, t, offset, requests, at, began, torn, lost>>

\* CLOCK_SET; the MAC has no high half of the seconds, and the seconds of its
\* update register are cleared for the adjustments to come.
Set_NotCleared(time) ==
    IF kind = "hard" THEN clock' = Time(Seconds(0, time.sec.low), time.ns) /\ macstsur' = time.sec.low
                     ELSE clock' = time /\ UNCHANGED macstsur

Set(time) ==
    IF kind = "hard" THEN clock' = Time(Seconds(0, time.sec.low), time.ns) /\ macstsur' = 0
                     ELSE clock' = time /\ UNCHANGED macstsur

\* The MAC's update of the time by its registers: an addition, or with ADDSUB
\* a subtraction of their complements.
Update(addsub, sec, ns) ==
    LET v == IF addsub THEN Value(clock) - ((Word - sec) % Word) * Nanos - (Nanos - ns)
                       ELSE Value(clock) + sec * Nanos + ns
    IN  TimeOf(v % (Word * Nanos))

\* CLOCK_ADJUST by less than a second.
Clamped(ns) == IF ns > Nanos THEN Nanos ELSE IF ns < -Nanos THEN -Nanos ELSE ns
SoftAdjusted(ns) ==
    LET sum == clock.ns + Clamped(ns)
    IN  CASE sum >= Nanos -> Time(inc64(clock.sec), sum - Nanos)
          [] sum < 0 -> Time(dec64(clock.sec), sum + Nanos)
          [] OTHER -> Time(clock.sec, sum)
Adjust(ns) ==
    /\ clock' = CASE kind = "soft" -> SoftAdjusted(ns)
                  [] kind = "hard" /\ ns >= 0 -> Update(FALSE, macstsur, ns)
                  [] kind = "hard" /\ ns < 0 -> Update(TRUE, macstsur, Nanos + ns)
    /\ UNCHANGED macstsur

-------------------------------------------------------------------------------
\* nx_ptp_client_create's CLOCK_INIT and, if the application wants it,
\* nx_ptp_client_time_set.
Start ==
    /\ pc = "init"
    /\ \E v \in Settings : Set(TimeOf(v))
    /\ pc' = "idle"
    /\ UNCHANGED <<kind, now, half, words, t, offset, ticks, requests, at, began, torn, lost>>

\* The master sends a Sync.
Sync ==
    /\ pc = "idle" /\ requests < MaxRequests
    /\ pc' = "t2"
    /\ t' = [t EXCEPT !["t1"] = TimeOf(now)] /\ at' = [at EXCEPT !["t1"] = now]
    /\ torn' = FALSE /\ lost' = 0
    /\ UNCHANGED <<kind, now, clock, macstsur, half, words, offset, ticks, requests, began>>

\* CLOCK_GET, PACKET_TS_EXTRACT and PACKET_TS_PREPARE of the MAC's clock: the
\* nanoseconds, then the seconds; of the client's own: CLOCK_GET, and
\* PACKET_TS_EXTRACT.
AfterReading == [t2 |-> "t3", t3 |-> "t4", current |-> "set"]
ReadNanoseconds ==
    /\ kind = "hard"
    /\ t' = [t EXCEPT ![pc].ns = clock.ns] /\ half' = TRUE /\ UNCHANGED pc
Get ==
    /\ kind = "soft" /\ pc # "t3"
    /\ t' = [t EXCEPT ![pc] = clock] /\ pc' = AfterReading[pc] /\ UNCHANGED half
Read ==
    /\ pc \in Readings /\ ~half
    /\ began' = Value(clock) /\ at' = [at EXCEPT ![pc] = now]
    /\ ReadNanoseconds \/ Get
    /\ UNCHANGED <<kind, now, clock, macstsur, words, offset, ticks, requests, torn, lost>>

ReadSeconds ==
    /\ half
    /\ t' = [t EXCEPT ![pc].sec = Seconds(0, clock.sec.low)]
    /\ torn' = (torn \/ Value(clock) \div Nanos # began \div Nanos)
    /\ half' = FALSE /\ pc' = AfterReading[pc]
    /\ UNCHANGED <<kind, now, clock, macstsur, words, offset, ticks, requests, at, began, lost>>

\* PACKET_TS_PREPARE of the client's own clock: the notification is given the
\* clock itself,
Words == {"high", "low", "ns"}
Prepare ==
    /\ kind = "soft" /\ pc = "t3"
    /\ began' = Value(clock) /\ at' = [at EXCEPT !["t3"] = now]
    /\ pc' = "copy" /\ words' = Words
    /\ UNCHANGED <<kind, now, clock, macstsur, half, t, offset, ticks, requests, torn, lost>>

\* and copies it, in whatever order the structure is copied
\* (_nx_ptp_client_packet_timestamp_notify).
Copied(time, w) ==
    IF w = "ns" THEN Time(time.sec, clock.ns) ELSE Time([time.sec EXCEPT ![w] = clock.sec[w]], time.ns)
Copy ==
    /\ pc = "copy"
    /\ \E w \in words :
         /\ t' = [t EXCEPT !["t3"] = Copied(@, w)]
         /\ at' = [at EXCEPT !["t3"] = IF w = "ns" THEN now ELSE @]
         /\ words' = words \ {w}
    /\ IF words' = {}
       THEN pc' = "t4" /\ torn' = (torn \/ Value(clock) \div Nanos # began \div Nanos)
       ELSE UNCHANGED <<pc, torn>>
    /\ UNCHANGED <<kind, now, clock, macstsur, half, offset, ticks, requests, began, lost>>

\* The master receives the Delay_Req and answers with the time.
Answer ==
    /\ pc = "t4"
    /\ t' = [t EXCEPT !["t4"] = TimeOf(now)] /\ at' = [at EXCEPT !["t4"] = now]
    /\ pc' = "response"
    /\ UNCHANGED <<kind, now, clock, macstsur, half, words, offset, ticks, requests, began, torn, lost>>

\* _nx_ptp_client_delay_resp_received: nothing without t1; then the offset,
\* and its adjustment if it has no seconds (_nx_ptp_client_clock_adjust).
Offset == time_div_by_2(time_diff(time_diff(t["t4"], t["t3"]), time_diff(t["t2"], t["t1"])))
DelayResp ==
    /\ pc = "response"
    /\ IF t["t1"].sec = Zero
       THEN pc' = "idle" /\ UNCHANGED <<clock, macstsur, offset, requests>>
       ELSE /\ offset' = Offset
            /\ IF Offset.sec = Zero
               THEN Adjust(Offset.ns) /\ pc' = "idle" /\ requests' = requests + 1
               ELSE pc' = "current" /\ UNCHANGED <<clock, macstsur, requests>>
    /\ UNCHANGED <<kind, now, half, words, t, ticks, at, began, torn, lost>>

\* The rest of _nx_ptp_client_clock_adjust: the reading and the offset's
\* nanoseconds, then its seconds, and CLOCK_SET.
Carried(time) ==
    CASE time.ns < 0 -> Borrow(time)
      [] time.ns >= Nanos -> CarryOver(time)
      [] OTHER -> time
Jump ==
    /\ pc = "set"
    /\ LET c == Carried(Time(t["current"].sec, t["current"].ns + offset.ns))
       IN  Set(Time(add64(c.sec, offset.sec), c.ns))
    /\ lost' = now - at["current"]
    /\ pc' = "idle" /\ requests' = requests + 1
    /\ UNCHANGED <<kind, now, half, words, t, offset, ticks, at, began, torn>>

Next == Tick \/ Start \/ Sync \/ Read \/ ReadSeconds \/ Prepare \/ Copy \/ Answer \/ DelayResp \/ Jump

Spec == Init /\ [][Next]_vars

(***************************************************************************)
(* Properties.                                                              *)
(***************************************************************************)

\* Once the times of a request were applied, the clock is off by half the
\* difference of the two messages' ways, to the nanosecond that the division
\* loses, and by what passed while it was set; whatever it was before, and
\* whether it is adjusted or set.  A reading that straddled two seconds, of
\* the MAC's registers or of the client's own clock for t3, is excepted.
SetByRequest ==
    pc = "idle" /\ requests > 0 /\ ~torn /\ t["t1"].sec # Zero =>
        LET error == Value(clock) - now + lost
            ways == (at["t4"] - at["t3"]) - (at["t2"] - at["t1"])
        IN  2 * error - ways \in -1 .. 1

\* A reading is never behind the clock when it began and, even if it
\* straddles two seconds, less than a second ahead of it when it ends; t3 of
\* the client's own clock may also be less than a second behind.
Behind == IF kind = "soft" /\ pc = "t4" THEN Nanos - 1 ELSE 0
ReadingNear ==
    pc \in {"t3", "t4", "set"} /\ ~half =>
        LET r == CASE pc = "t3" -> "t2" [] pc = "t4" -> "t3" [] pc = "set" -> "current"
        IN  Value(t[r]) \in began - Behind .. Value(clock) + Nanos - 1

\* Of a request's times the difference of two is that of their nanoseconds,
\* has one sign in both its fields, and added to the second gives the first.
DifferencesExact ==
    pc = "idle" => \A a, b \in Times :
        LET d == time_diff(t[a], t[b])
        IN  /\ Value(d) = Value(t[a]) - Value(t[b])
            /\ (d.sec.high < 0 => d.ns <= 0) /\ (d.sec.high >= 0 /\ d.sec # Zero => d.ns >= 0)
            /\ time_sum(d, t[b]) = t[a]

\* All three.
ClockFollows == SetByRequest /\ ReadingNear /\ DifferencesExact
================================================================================
