---------------------------- MODULE RegisterDriver ----------------------------
(***************************************************************************)
(* The functions of ST's sensor drivers as they run: a call reads a         *)
(* register over I2C or SPI, changes its field, and writes it back; if the  *)
(* register is in another bank the call first selects that bank and selects *)
(* the user's bank again at the end.  Any transfer may fail, and one that   *)
(* writes may fail after it took effect.                                    *)
(*                                                                         *)
(* One accessor is chosen at the start, then set and read back.  The device *)
(* is the register at the accessor's address, one in each bank; a paged     *)
(* register is reached through the embedded bank by functions that select   *)
(* and restore on their own (see PageAccess), here one step.                *)
(* A suffixed name is a seeded fault.                                       *)
(***************************************************************************)
EXTENDS RegisterField

CONSTANTS
    Accessors,      \* records made by RegisterField
    None            \* nothing stored, nothing reported

Banks == {"user", "embedded", "hub", "paged"}

AccessorsAssumption ==
    \A a \in Accessors :
        /\ a.bank.name \in Banks /\ a.bank.restores \in BOOLEAN
        /\ \A c \in {"set", "get"} : a.unselected[c] \in {"idle", "read", "restore"}
        /\ a.guarded \in BOOLEAN /\ a.whole \in BOOLEAN /\ a.forgets \in BOOLEAN

\* Fields lie side by side in a byte, or fill two; every value has room in its
\* fields and a case in the getter.  A setter that goes on when it could not
\* select its bank writes what it has read.
Apart(p, q) == p[1] + p[2] <= q[1] \/ q[1] + q[2] <= p[1]
FieldsAssumption ==
    \A a \in Accessors :
        /\ \/ a.parts = << <<0, 16, 0>> >> /\ a.whole
           \/ /\ a.parts \in Seq({p \in (0..8) \X (0..8) \X (0..16) : p[1] + p[2] <= 8})
              /\ \A i, j \in DOMAIN a.parts : i # j => Apart(a.parts[i], a.parts[j])
              /\ WidthOf(a.parts) \in 0..8
              /\ a.whole => a.parts = << <<0, 8, 0>> >>
        /\ a.values \subseteq Int /\ a.modulus \in Nat \ {0}
        /\ "set" \in a.calls =>
              /\ "get" \in a.calls => \A v \in a.values \ a.refused :
                     Told(a, Take(Put(0, a.parts, v % a.modulus), a.parts)) = v
              /\ a.unselected["set"] = "read" /\ (a.whole \/ ~a.guarded) =>
                     a.bank.name \in {"user", "paged"}

VARIABLES
    op,             \* the accessor
    call,           \* the function called: "set" or "get"
    value,          \* its argument
    pc,             \* the transfer it makes next
    bank,           \* the bank the device has selected (FUNC_CFG_ACCESS)
    device,         \* the register at the accessor's address in each bank
    register,       \* the function's local copy
    ret,            \* no transfer failed, by the function's account
    result,         \* what the getter stored
    stored,         \* history: the value set by the last call that returned 0
    failed,         \* history: the transfers of this call that failed
    first           \* history: the device when this call began

vars == <<op, call, value, pc, bank, device, register, ret, result, stored, failed, first>>

TypeOK ==
    /\ call \in {"none", "set", "get"}
    /\ pc \in {"idle", "select", "read", "write", "restore"}
    /\ bank \in Banks
    /\ \A b \in Banks : device[b] \in 0..65535
    /\ ret \in BOOLEAN
    /\ failed \subseteq {"select", "read", "write", "restore"}

Init ==
    /\ op \in Accessors
    /\ call = "none" /\ value = None /\ pc = "idle"
    /\ bank = "user"
    /\ \E own, others \in Contents(op) :
          device = [b \in Banks |-> IF b = op.bank.name THEN own ELSE others]
    /\ register = 0 /\ ret = TRUE /\ result = None
    /\ stored = None /\ failed = {} /\ first = device

Paged == op.bank.name = "paged"
Selects == op.bank.name \in {"embedded", "hub"}
FirstTransfer(c) == IF c = "set" /\ op.whole THEN "write" ELSE "read"

Refused(c, v) == c = "set" /\ v \in op.refused

\* A function is called; a getter follows the setter of its pair.
Call(c, v) ==
    /\ pc = "idle"
    /\ c \in op.calls
    /\ IF call = "none" THEN c = "set" \/ "set" \notin op.calls ELSE call = "set" /\ c = "get"
    /\ call' = c /\ value' = v
    /\ ret' = ~Refused(c, v)
    /\ pc' = CASE Refused(c, v) -> "idle"
               [] ~Refused(c, v) /\ Selects -> "select"
               [] OTHER -> FirstTransfer(c)
    /\ failed' = {} /\ first' = device
    /\ result' = None
    /\ UNCHANGED <<op, bank, device, register, stored>>

\* What is left to do once the register was accessed.
Finish_Forgotten(ok) == "idle"

Finish(ok) == IF Selects /\ (ok \/ op.bank.restores) THEN "restore" ELSE "idle"
Ended(ok) == stored' = IF call = "set" THEN (IF ok THEN value ELSE None) ELSE stored

\* mem_bank_set, of the accessor's bank.
Select ==
    /\ pc = "select"
    /\ \/ /\ bank' = op.bank.name
          /\ pc' = FirstTransfer(call)
          /\ UNCHANGED <<ret, failed>>
       \/ /\ bank' \in {bank, op.bank.name}
          /\ ret' = FALSE /\ failed' = failed \cup {"select"}
          /\ pc' = IF op.unselected[call] = "read" THEN FirstTransfer(call) ELSE op.unselected[call]
    /\ UNCHANGED <<op, call, value, device, register, result, stored, first>>

\* read_reg, or ln_pg_read of a paged register; a copy that could not be
\* read is what the stack held.
Read ==
    /\ pc = "read"
    /\ \/ /\ register' = device[IF Paged THEN "paged" ELSE bank]
          /\ bank' = IF Paged THEN "user" ELSE bank
          /\ UNCHANGED <<ret, failed>>
       \/ /\ register' \in Contents(op)
          /\ ret' = FALSE /\ failed' = failed \cup {"read"}
          /\ \/ UNCHANGED bank
             \/ Paged /\ bank' = "embedded"
    /\ result' = IF call = "get" /\ ret' THEN Report(op, register') ELSE None
    /\ pc' = IF call = "set" /\ (ret' \/ ~op.guarded) THEN "write" ELSE Finish(ret')
    /\ UNCHANGED <<op, call, value, device, stored, first>>

\* write_reg, or ln_pg_write of a paged register; of two bytes either may be
\* the old one when it fails.
Torn(old, new) == {(high \div 256) * 256 + (low % 256) : high, low \in {old, new}}
Write ==
    /\ pc = "write"
    /\ LET where == IF Paged THEN "paged" ELSE bank
           written == Store(op, register, value)
       IN  \/ /\ device' = [device EXCEPT ![where] = written]
              /\ bank' = IF Paged THEN "user" ELSE bank
              /\ UNCHANGED <<ret, failed>>
           \/ /\ \E byte \in Torn(device[where], written) :
                    device' = [device EXCEPT ![where] = byte]
              /\ ret' = FALSE /\ failed' = failed \cup {"write"}
              /\ \/ UNCHANGED bank
                 \/ Paged /\ bank' = "embedded"
    /\ pc' = Finish(ret')
    /\ IF pc' = "idle" THEN Ended(ret') ELSE UNCHANGED stored
    /\ UNCHANGED <<op, call, value, register, result, first>>

\* mem_bank_set, of the user's bank.
Restore_TakesItsStatus ==
    /\ pc = "restore"
    /\ \/ bank' = "user" /\ ret' = TRUE /\ UNCHANGED failed
       \/ bank' \in {bank, "user"} /\ ret' = FALSE /\ failed' = failed \cup {"restore"}
    /\ pc' = "idle"
    /\ Ended(ret')
    /\ UNCHANGED <<op, call, value, device, register, result, first>>

Restore ==
    /\ pc = "restore"
    /\ \/ bank' = "user" /\ ret' = (ret \/ op.forgets) /\ UNCHANGED failed
       \/ bank' \in {bank, "user"} /\ ret' = FALSE /\ failed' = failed \cup {"restore"}
    /\ pc' = "idle"
    /\ Ended(ret')
    /\ UNCHANGED <<op, call, value, device, register, result, first>>

Next ==
    \/ \E v \in op.values : Call("set", v)
    \/ Call("get", None)
    \/ Select \/ Read \/ Write \/ Restore

Spec == Init /\ [][Next]_vars

(***************************************************************************)
(* Properties.                                                              *)
(***************************************************************************)
Returned == pc = "idle" /\ call # "none"

\* What a setter stored, its getter reports, if neither failed.
SetThenGet == Returned /\ call = "get" /\ ret /\ stored # None => result = stored

\* A call changes the bits of its own fields in its own register only, even
\* if one of its transfers fails; a setter that writes a register it could
\* not read is the exception.
OthersKept ==
    op.guarded \/ "read" \notin failed =>
        \A b \in Banks :
            IF b = op.bank.name
            THEN OtherBits(device[b], op.parts) = OtherBits(first[b], op.parts)
            ELSE device[b] = first[b]

\* A call leaves the user's bank selected when it returns 0, and in the
\* drivers that clean up also when it fails, unless a selection itself failed.
BankRestored ==
    Returned /\ bank # "user" =>
        /\ ~ret
        /\ op.bank.restores => Paged \/ failed \cap {"select", "restore"} # {}

\* A call returns 0 when no transfer failed and the argument was not refused,
\* and never otherwise.
NoFailureHidden == Returned => (ret <=> failed = {} /\ ~Refused(call, value))
================================================================================
