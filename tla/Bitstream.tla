------------------------------- MODULE Bitstream -------------------------------
(***************************************************************************)
(* middleware/src/bitstream.c: values of any number of bits, packed one     *)
(* after the other into bytes, the most significant bit first; a value too  *)
(* large for its bits is capped.  Bytes and words are scaled down.          *)
(*                                                                         *)
(* A signed value has fewer bits than a word: of a whole word, 1u << 32 is  *)
(* undefined.                                                               *)
(* A suffixed name is a seeded fault.                                       *)
(***************************************************************************)
EXTENDS Integers, Sequences

CONSTANTS
    ByteBits, WordBits,  \* the widths, 8 and 32 in the code
    bytes,               \* of the buffer
    Values,              \* what is added, as unsigned or as signed words
    MaxAdds              \* bound on the calls that are not refused

\* 2^n, as a function that can be unfolded.
Power[n \in 0 .. WordBits] == IF n = 0 THEN 1 ELSE 2 * Power[n - 1]

WidthAssumption ==
    /\ ByteBits \in Nat \ {0} /\ WordBits \in Nat \ {0} /\ bytes \in Nat
    /\ Values \subseteq 0 .. Power[WordBits] - 1

VARIABLES
    data,        \* of each byte, the numbers of its bits that are set
    total_bits,
    overflow,
    added        \* history: <<value, num_bits, whether it is signed>>

vars == <<data, total_bits, overflow, added>>

bitstream_init ==
    /\ data = [k \in 0 .. bytes - 1 |-> {}]
    /\ total_bits = 0 /\ overflow = FALSE
    /\ added = <<>>

-------------------------------------------------------------------------------
Bit(v, k) == (v \div Power[k]) % 2 = 1

\* The loop over the bits, |= into the byte that each falls in.
Packed_LeastFirst(v, n) ==
    [k \in DOMAIN data |-> data[k] \cup
        {ByteBits - 1 - ((total_bits + i) % ByteBits) :
            i \in {j \in 0 .. n - 1 : Bit(v, j) /\ (total_bits + j) \div ByteBits = k}}]

Packed(v, n) ==
    [k \in DOMAIN data |-> data[k] \cup
        {ByteBits - 1 - ((total_bits + i) % ByteBits) :
            i \in {j \in 0 .. n - 1 : Bit(v, n - 1 - j) /\ (total_bits + j) \div ByteBits = k}}]

\* bits of a value in range, or capped, are appended.
Append_bits(v, n, bits, capped, signed) ==
    /\ total_bits + n <= bytes * ByteBits
    /\ data' = Packed(bits, n)
    /\ total_bits' = total_bits + n
    /\ overflow' = (overflow \/ capped)
    /\ added' = Append(added, <<v, n, signed>>)

bitstream_add(v, n) ==
    LET largest == Power[n] - 1
    IN  Append_bits(v, n, IF v > largest THEN largest ELSE v, v > largest, FALSE)

Limits_OneTooMany(n) == <<-Power[n - 1], Power[n - 1]>>

Limits(n) == <<-Power[n - 1], Power[n - 1] - 1>>

bitstream_add_signed(v, n) ==
    LET value == CASE v < Limits(n)[1] -> Limits(n)[1]
                   [] v > Limits(n)[2] -> Limits(n)[2]
                   [] OTHER -> v
    IN  Append_bits(v, n, value % Power[n], value # v, TRUE)

\* No space: -1, and nothing changes.
Refuse(n) == total_bits + n > bytes * ByteBits /\ UNCHANGED vars

\* A word read as signed.
AsSigned(w) == IF w >= Power[WordBits - 1] THEN w - Power[WordBits] ELSE w

Next ==
    \/ /\ Len(added) < MaxAdds
       /\ \E v \in Values :
            \/ \E n \in 0 .. WordBits : bitstream_add(v, n)
            \/ \E n \in 1 .. WordBits - 1 : bitstream_add_signed(AsSigned(v), n)
    \/ \E n \in 0 .. WordBits : Refuse(n)

Spec == bitstream_init /\ [][Next]_vars

-------------------------------------------------------------------------------
\* The values that n bits stand for, and of those the one nearest to v.
Representable(n, signed) == IF signed THEN -Power[n - 1] .. Power[n - 1] - 1 ELSE 0 .. Power[n] - 1

Distance(x, y) == IF x > y THEN x - y ELSE y - x

Nearest(v, n, signed) ==
    CHOOSE x \in Representable(n, signed) :
        \A y \in Representable(n, signed) : Distance(x, v) <= Distance(y, v)

\* The buffer as its reader sees it: bit p from its beginning, the first byte's
\* most significant the first; the number that n bits from p on stand for; and
\* where the j-th of a sequence of values begins.
BitAt(d, p) == IF ByteBits - 1 - (p % ByteBits) \in d[p \div ByteBits] THEN 1 ELSE 0

Read(d, p, n) ==
    LET number[m \in 0 .. n] ==
            IF m = 0 THEN 0 ELSE 2 * number[m - 1] + BitAt(d, p + m - 1)
    IN  number[n]

Start(a, j) ==
    LET start[k \in 0 .. Len(a)] == IF k = 0 THEN 0 ELSE start[k - 1] + a[k][2]
    IN  start[j - 1]

Field(j) ==
    LET n == added[j][2]
        bits == Read(data, Start(added, j), n)
    IN  IF added[j][3] /\ bits >= Power[n - 1] THEN bits - Power[n] ELSE bits

\* A reader finds each value that was not refused, or the nearest its bits
\* stand for, undisturbed by later ones, and zeroes after the last; overflow
\* tells whether any was capped.
StreamAsAdded ==
    /\ \A j \in DOMAIN added : Field(j) = Nearest(added[j][1], added[j][2], added[j][3])
    /\ \A p \in total_bits .. bytes * ByteBits - 1 : BitAt(data, p) = 0
    /\ overflow <=> \E j \in DOMAIN added :
                       added[j][1] \notin Representable(added[j][2], added[j][3])
================================================================================
