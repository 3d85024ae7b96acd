------------------------------ MODULE PageAccess ------------------------------
(***************************************************************************)
(* The paged memory of the embedded functions of LSM6DSO and LSM6DSV, and   *)
(* the five functions that reach it: ln_pg_write_byte, ln_pg_write and      *)
(* ln_pg_read_byte of lsm6dso_reg.c, ln_pg_write and ln_pg_read of          *)
(* lsm6dsv_reg.c.  A call selects the embedded bank, turns page access on,  *)
(* points the device at a page and an address, transfers its bytes, and     *)
(* undoes all that.  Reading a register and writing it back is one step;    *)
(* any step may fail, and one that writes may fail after it took effect.    *)
(*                                                                         *)
(* The device (external) moves its address on after each byte, and within   *)
(* the page only: the driver follows it over the page's end.                *)
(* A suffixed name is a seeded fault.                                       *)
(***************************************************************************)
EXTENDS Integers, Sequences

CONSTANTS
    PageSize,       \* 256
    Pages,          \* 16
    Lengths,        \* of the buffers the functions are called with
    MaxCalls        \* bound on the calls

\* A buffer is shorter than the memory: its length is a uint8_t.
PagesAssumption ==
    /\ PageSize \in Nat \ {0} /\ Pages \in Nat \ {0}
    /\ Lengths \subseteq 0 .. Pages * PageSize

VARIABLES
    call,           \* the function, its address and its length
    pc,             \* the next transfer
    ret,            \* no transfer failed, by the function's account
    i,              \* bytes transferred
    bytes,          \* what a read has stored
    bank, page_rw, page_sel, page_address, memory,      \* the device
    calls,
    failed,         \* history: a transfer of this call failed
    first           \* history: the memory when this call began

device == <<bank, page_rw, page_sel, page_address, memory>>
history == <<calls, first>>
vars == <<call, pc, ret, i, bytes, device, failed, history>>

Addresses == 0 .. Pages * PageSize - 1

\* The functions: what they do, to how many bytes, and the driver's way with
\* failures.
Function(direction, single, cleansUp) ==
    [direction |-> direction, single |-> single, cleansUp |-> cleansUp]
lsm6dso_ln_pg_write_byte == Function("write", TRUE, FALSE)
lsm6dso_ln_pg_write == Function("write", FALSE, FALSE)
lsm6dso_ln_pg_read_byte == Function("read", TRUE, FALSE)
lsm6dsv_ln_pg_write == Function("write", FALSE, TRUE)
lsm6dsv_ln_pg_read == Function("read", FALSE, TRUE)

FunctionsOf == {lsm6dso_ln_pg_write_byte, lsm6dso_ln_pg_write, lsm6dso_ln_pg_read_byte,
                lsm6dsv_ln_pg_write, lsm6dsv_ln_pg_read}

Init ==
    /\ call = [f |-> lsm6dso_ln_pg_write, address |-> 0, len |-> 0]
    /\ pc = "idle" /\ ret = TRUE /\ i = 0 /\ bytes = <<>>
    /\ bank = "user" /\ page_rw = "off" /\ page_sel = 0 /\ page_address = 0
    /\ memory = [a \in Addresses |-> <<0, 0>>]
    /\ calls = 0 /\ failed = FALSE /\ first = memory

\* Byte k of a call's buffer, different in every call.
Byte(k) == <<calls, k>>
Pointed(k) == (call.address + k) % (Pages * PageSize)
PageOf(a) == a \div PageSize

Call(f, address, len) ==
    /\ pc = "idle" /\ calls < MaxCalls
    /\ f.single => len = 1
    /\ call' = [f |-> f, address |-> address, len |-> len]
    /\ pc' = "bank" /\ ret' = TRUE /\ i' = 0 /\ bytes' = <<>>
    /\ calls' = calls + 1 /\ failed' = FALSE /\ first' = memory
    /\ UNCHANGED device

\* Where a failure leads: LSM6DSO's functions return, except from the loop,
\* after which they go on; LSM6DSV's go to their exit, which selects the
\* user's bank, unless they never left it.
AfterFailure ==
    CASE call.f.cleansUp -> IF pc \in {"bank", "user"} THEN "idle" ELSE "user"
      [] ~call.f.cleansUp /\ ~call.f.single /\ pc \in {"value", "next"} -> "unpage"
      [] OTHER -> "idle"

\* A step of the call, to the next one or to where a failure leads; effect is
\* what the transfer does to the device.
Transfer(step, next, effect) ==
    /\ pc = step
    /\ \/ /\ effect
          /\ pc' = next /\ ret' = TRUE /\ UNCHANGED failed
       \/ /\ effect \/ UNCHANGED device
          /\ pc' = AfterFailure /\ ret' = FALSE /\ failed' = TRUE
    /\ UNCHANGED <<call, history>>

SelectBank ==
    Transfer("bank", "mode",
        bank' = "embedded" /\ UNCHANGED <<page_rw, page_sel, page_address, memory>>)
    /\ UNCHANGED <<i, bytes>>

EnablePageAccess ==
    Transfer("mode", "page",
        page_rw' = call.f.direction /\ UNCHANGED <<bank, page_sel, page_address, memory>>)
    /\ UNCHANGED <<i, bytes>>

SelectPage ==
    Transfer("page", "address",
        page_sel' = PageOf(Pointed(0)) /\ UNCHANGED <<bank, page_rw, page_address, memory>>)
    /\ UNCHANGED <<i, bytes>>

Looped(n) == IF n < call.len THEN "value" ELSE IF call.f.single THEN "off" ELSE "unpage"

SetAddress ==
    Transfer("address", Looped(0),
        page_address' = Pointed(0) % PageSize /\ UNCHANGED <<bank, page_rw, page_sel, memory>>)
    /\ UNCHANGED <<i, bytes>>

\* PAGE_VALUE: the device's byte at its page and address.
DeviceAt == page_sel * PageSize + page_address
Crosses_Late == ~call.f.single /\ Pointed(i) % PageSize = 0

Crosses == ~call.f.single /\ Pointed(i + 1) % PageSize = 0

TransferByte ==
    /\ Transfer("value", IF Crosses THEN "next" ELSE Looped(i + 1),
           /\ page_address' = (page_address + 1) % PageSize
           /\ memory' = IF bank = "embedded" /\ page_rw = "write" /\ call.f.direction = "write"
                        THEN [memory EXCEPT ![DeviceAt] = Byte(i)] ELSE memory
           /\ UNCHANGED <<bank, page_rw, page_sel>>)
    /\ i' = IF ret' THEN i + 1 ELSE i
    /\ bytes' = IF ret' /\ call.f.direction = "read" THEN Append(bytes, memory[DeviceAt])
                                                     ELSE bytes

\* Over the end of a page: on to the next one.
NextPage_FirstAgain ==
    Transfer("next", Looped(i),
        page_sel' = PageOf(Pointed(0)) /\ UNCHANGED <<bank, page_rw, page_address, memory>>)
    /\ UNCHANGED <<i, bytes>>

NextPage ==
    Transfer("next", Looped(i),
        page_sel' = PageOf(Pointed(i)) /\ UNCHANGED <<bank, page_rw, page_address, memory>>)
    /\ UNCHANGED <<i, bytes>>

\* LSM6DSO's ln_pg_write comes here from a failed loop too, and takes the
\* status of this transfer for its own.
UnselectPage ==
    Transfer("unpage", "off",
        page_sel' = 0 /\ UNCHANGED <<bank, page_rw, page_address, memory>>)
    /\ UNCHANGED <<i, bytes>>

DisablePageAccess_Skipped ==
    Transfer("off", "user", UNCHANGED device)
    /\ UNCHANGED <<i, bytes>>

DisablePageAccess ==
    Transfer("off", "user",
        page_rw' = "off" /\ UNCHANGED <<bank, page_sel, page_address, memory>>)
    /\ UNCHANGED <<i, bytes>>

\* The last selection, which adds its status to that of LSM6DSV's call.
SelectUser ==
    /\ pc = "user" /\ pc' = "idle"
    /\ \/ bank' = "user" /\ UNCHANGED <<ret, failed>>
       \/ bank' \in {bank, "user"} /\ ret' = FALSE /\ failed' = TRUE
    /\ UNCHANGED <<page_rw, page_sel, page_address, memory, call, history, i, bytes>>

Next ==
    \/ \E f \in FunctionsOf, a \in Addresses, n \in Lengths : Call(f, a, n)
    \/ SelectBank \/ EnablePageAccess \/ SelectPage \/ SetAddress \/ TransferByte
    \/ NextPage \/ UnselectPage \/ DisablePageAccess \/ SelectUser

Spec == Init /\ [][Next]_vars

(***************************************************************************)
(* Properties.                                                              *)
(***************************************************************************)
Writing == call.f.direction = "write"
Returned == pc = "idle" /\ calls > 0

\* Whatever fails, and whatever earlier calls left selected, the bytes a
\* write has transferred are at their addresses, also beyond the end of a
\* page, and no other byte changed but the one whose transfer failed.
PagedBytesInPlace ==
    \A a \in Addresses :
        LET k == {n \in 0 .. i - 1 : Pointed(n) = a}
        IN  IF Writing /\ k # {} THEN memory[a] = Byte(CHOOSE n \in k : \A m \in k : m <= n)
            ELSE \/ memory[a] = first[a]
                 \/ Writing /\ failed /\ i < call.len /\ a = Pointed(i) /\ memory[a] = Byte(i)

\* A read that returns 0 stored the bytes of its addresses.
PagedReadExact ==
    Returned /\ ret /\ ~Writing =>
        bytes = [k \in 1 .. call.len |-> memory[Pointed(k - 1)]]

\* A call that returns 0 leaves the device as before the call: the user's
\* bank, no page access.
PagedAccessClosed ==
    Returned /\ ret => bank = "user" /\ page_rw = "off"

\* The three together: a call does what it says and no more.
PagedSound == PagedBytesInPlace /\ PagedReadExact /\ PagedAccessClosed

\* A call that returns 0 had no failure, "return 0 -> no Error" (the functions' comments): violated.
PagedFailureReported == Returned /\ ret => ~failed
================================================================================
