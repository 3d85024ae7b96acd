----------------------------- MODULE RegisterField -----------------------------
(***************************************************************************)
(* What a register accessor of ST's sensor drivers (lsm6dso_reg.c,          *)
(* lsm6dsv_reg.c, lis2mdl_reg.c) does, as a record.  The drivers' hundreds  *)
(* of functions are one function each of the data in it: which bits of one  *)
(* register, in which bank, hold which values, and how failures are met.    *)
(*                                                                         *)
(* A register's layout, a struct of bit fields, is a record that gives each *)
(* field its <<lowest bit, width>> on a little-endian machine; unused bits  *)
(* are left out.  An enumeration is the set of its values.                  *)
(* A suffixed name is a seeded fault.                                       *)
(***************************************************************************)
EXTENDS Integers, SequencesExt

\* The bits a field has in its register, and from which bit of the value on.
At(field, from) == <<field[1], field[2], from>>

Holds(byte, part) == (byte \div 2^part[1]) % 2^part[2]
PutPart(byte, part, v) ==
    byte + (((v \div 2^part[3]) % 2^part[2]) - Holds(byte, part)) * 2^part[1]

\* The register after its fields are assigned, and what they hold.
Put(byte, parts, v) == FoldLeft(LAMBDA b, p : PutPart(b, p, v), byte, parts)
Take(byte, parts) == FoldLeft(LAMBDA v, p : v + Holds(byte, p) * 2^p[3], 0, parts)
OtherBits(byte, parts) == Put(byte, parts, 0)

\* Numbers are tried at the ends of their range and in the middle.
Sample(width) == {0, 1, 2^(width - 1), 2^width - 1}
WidthOf(parts) == FoldLeft(LAMBDA w, p : w + p[2], 0, parts)

(***************************************************************************)
(* The kinds of accessor.  An enumeration's setter assigns the value to     *)
(* the field, which keeps the bits it has room for; its getter has a case   *)
(* for each value reported and a default.                                   *)
(***************************************************************************)
Packed(bank, parts, type, default) ==
    [bank |-> bank, parts |-> parts, values |-> type, reported |-> type, default |-> default,
     modulus |-> 65536, refused |-> {}, calls |-> {"set", "get"},
     unselected |-> [c \in {"set", "get"} |-> bank.unselected],
     guarded |-> TRUE, forgets |-> FALSE, whole |-> FALSE, signed |-> FALSE]
Choice(bank, field, type, default) == Packed(bank, << At(field, 0) >>, type, default)
Partly(bank, field, type, cases, default) ==
    [Choice(bank, field, type, default) EXCEPT !.reported = cases]

\* Numbers, of a field or the members of a struct: the getter copies them.
Members(bank, parts) ==
    [Packed(bank, parts, Sample(WidthOf(parts)), 0) EXCEPT !.reported = {}]
Number(bank, field) == Members(bank, << At(field, 0) >>)

\* Whole registers, written without being read first: one byte, or the two
\* bytes of each number of an array, low byte first.
Whole(bank, width) == [Number(bank, <<0, width>>) EXCEPT !.whole = TRUE]
Signed(op) == [op EXCEPT !.signed = TRUE, !.values = {-32768, -256, -1, 0, 255, 256, 32767}]

\* A mask before the assignment keeps the value's remainder only.
Masked(modulus, op) == [op EXCEPT !.modulus = modulus]
ReadOnly(op) == [op EXCEPT !.calls = {"get"}]
WriteOnly(op) == [op EXCEPT !.calls = {"set"}]
\* Arguments refused before anything is transferred.
Refusing(values, op) == [op EXCEPT !.refused = values]
\* When the bank cannot be selected these calls return at once ("idle"), or
\* leave the register alone and select the user's bank ("restore").
OnUnselected(step, calls, op) ==
    [op EXCEPT !.unselected = [c \in {"set", "get"} |-> IF c \in calls THEN step ELSE @[c]]]
Early(calls, op) == OnUnselected("idle", calls, op)
Skips(calls, op) == OnUnselected("restore", calls, op)
\* The status of the last selection replaces that of the transfers before it.
Forgets(op) == [op EXCEPT !.forgets = TRUE]
\* The register is written even if it could not be read.
Unguarded(op) == [op EXCEPT !.guarded = FALSE]

\* A register at its start: all bits clear, or all set.
Contents(op) == {0, IF WidthOf(op.parts) > 8 THEN 65535 ELSE 255}
\* Faults: a mask that is too narrow; a register that is cleared first.
Store_MaskTooNarrow(op, register, v) == Put(register, op.parts, v % 4)
Store_FromZero(op, register, v) == Put(0, op.parts, v % op.modulus)

Store(op, register, v) == Put(register, op.parts, v % op.modulus)
Told(op, v) ==
    CASE op.signed /\ v >= 32768 -> v - 65536
      [] op.signed \/ op.reported = {} \/ v \in op.reported -> v
      [] OTHER -> op.default
Report(op, register) == Told(op, Take(register, op.parts))
================================================================================
