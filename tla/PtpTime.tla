-------------------------------- MODULE PtpTime --------------------------------
(***************************************************************************)
(* The arithmetic of PTP times (nxd_ptp_client.c, the utility functions): a *)
(* time is 64 bits of seconds, kept in a signed and an unsigned half, and   *)
(* nanoseconds of the same sign.                                            *)
(***************************************************************************)
EXTENDS Integers

CONSTANTS
    Word,       \* the values of a ULONG, 2^32 in the code
    Nanos       \* NX_PTP_NANOSECONDS_PER_SEC, 10^9 in the code

\* Asserted where the constants get their values.
TimeAssumption ==
    /\ Word \in Nat /\ Word > 0 /\ Word % 2 = 0
    /\ Nanos \in Nat /\ Nanos > 0 /\ Nanos % 2 = 0

ULONG(x) == x % Word
LONG(x) == ((x + Word \div 2) % Word) - Word \div 2

\* Seconds, stored into their two halves.
Seconds(high, low) == [high |-> LONG(high), low |-> ULONG(low)]
Carry(b) == IF b THEN 1 ELSE 0

add64(a, b) ==
    LET r_lo == ULONG(a.low + b.low)
    IN  Seconds(a.high + b.high + Carry(r_lo < a.low \/ r_lo < b.low), r_lo)
sub64(a, b) == Seconds(a.high - b.high - Carry(a.low < b.low), a.low - b.low)
inc64(a) == Seconds(a.high + Carry(ULONG(a.low + 1) = 0), a.low + 1)
dec64(a) == Seconds(a.high - Carry(a.low = 0), a.low - 1)
neg64(a) == Seconds(-a.high - Carry(a.low # 0), -a.low)

Zero == Seconds(0, 0)
Time(sec, ns) == [sec |-> sec, ns |-> ns]

\* A second taken from, or given to, the nanoseconds.
Borrow(t) == Time(dec64(t.sec), t.ns + Nanos)
CarryOver(t) == Time(inc64(t.sec), t.ns - Nanos)

\* "keep nanoseconds in range +/-0-999999999"
InRange(t) ==
    CASE t.ns <= -Nanos -> Borrow(t)
      [] t.ns >= Nanos -> CarryOver(t)
      [] OTHER -> t

\* "ensure the nanoseconds field has same sign as seconds field"
OneSign(t) ==
    CASE t.sec # Zero /\ t.sec.high >= 0 /\ t.ns < 0 -> Borrow(t)
      [] t.sec.high < 0 /\ t.ns > 0 -> CarryOver(t)
      [] OTHER -> t

time_diff(a, b) == OneSign(InRange(Time(sub64(a.sec, b.sec), a.ns - b.ns)))
time_sum(a, b) == OneSign(InRange(Time(add64(a.sec, b.sec), a.ns + b.ns)))

\* The halves of a time without sign.
Halved(t) ==
    Time(Seconds(t.sec.high \div 2, t.sec.low \div 2 + (Word \div 2) * (t.sec.high % 2)),
         t.ns \div 2 + (Nanos \div 2) * (t.sec.low % 2))
time_div_by_2(t) ==
    IF t.sec.high < 0 \/ t.ns < 0
    THEN LET half == Halved(Time(neg64(t.sec), -t.ns))
         IN  Time(neg64(half.sec), -half.ns)
    ELSE Halved(t)

\* The nanoseconds that a time stands for, and the time that stands for them.
Value(t) == (t.sec.high * Word + t.sec.low) * Nanos + t.ns
TimeOf(v) == Time(Seconds(0, v \div Nanos), v % Nanos)
================================================================================
