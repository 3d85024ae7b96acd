------------------------------ MODULE RingBuffer ------------------------------
(***************************************************************************)
(* middleware/src/ringbuffer.c: the statically allocated ring buffer.      *)
(*                                                                         *)
(* Nothing in it disables interrupts, so rb_insert, rb_get_tail and        *)
(* rb_get_last_n are split at each load and store of a field of the buffer *)
(* and at each copy of an element, and an insertion may preempt a read or  *)
(* a read an insertion.                                                    *)
(* preempting names the operation that runs in the interrupt: it starts    *)
(* between any two steps of the other one and runs to its end.             *)
(*                                                                         *)
(* The element of the k-th insertion is the number k; 0 stands for a slot  *)
(* of the caller's buffer that no insertion has written.                   *)
(*                                                                         *)
(* A definition whose name has a suffix (InsertAdvance_UntilFull) is a     *)
(* fault seeded in the definition of the name before it: no behaviour of   *)
(* the specification uses it.                                              *)
(***************************************************************************)
EXTENDS Integers, Sequences

CONSTANTS
  Size,         \* rb->size, the capacity given to rb_init
  MaxInserts    \* bound on the number of calls of rb_insert

ASSUME SizeAssumption == Size \in Nat \ {0}
ASSUME BoundAssumption == MaxInserts \in Nat

VARIABLES
  buf,            \* the slots
  head_idx,       \* next slot to write
  curr_elements,  \* number of elements held
  insert_pc,      \* rb_insert: "idle", or the next assignment it makes
  inserted,       \* history: insertions begun
  read_pc,        \* the line of rb_get_last_n or rb_get_tail that is next
  loaded_head,    \* head_idx as lines 21 and 51 have loaded it, or NotLoaded
  loaded_count,   \* curr_elements as lines 21 and 52 have loaded it
  head_at,        \* history: inserted when head_idx was loaded
  count_at,       \* history: inserted when curr_elements was loaded
  position,       \* start_idx + i, the argument of the next get_nth_element
  dest,           \* what rb_get_last_n has copied out
  wanted,         \* rb_get_last_n's n
  begun,          \* history: inserted when start_idx was computed
  torn,           \* history: some index of this rb_get_last_n was torn
  pointer,        \* history: what rb_get_head or rb_get_tail returned
  preempting      \* the operation that runs in the interrupt, for good

insertVars == <<buf, head_idx, curr_elements, insert_pc, inserted>>
loadVars == <<loaded_head, loaded_count, head_at, count_at>>
copyVars == <<position, dest, wanted, begun, torn>>
readVars == <<read_pc, loadVars, copyVars>>
vars == <<insertVars, readVars, pointer, preempting>>

Slots == 0 .. Size - 1
NotLoaded == -1
NoPointer == [slot |-> 0, value |-> 0, slack |-> -1, taken |-> 0]

(* rb_init *)
Init ==
  /\ buf = [s \in Slots |-> 0]
  /\ head_idx = 0
  /\ curr_elements = 0
  /\ insert_pc = "idle"
  /\ inserted = 0
  /\ read_pc = "idle"
  /\ loaded_head = NotLoaded
  /\ loaded_count = NotLoaded
  /\ head_at = 0
  /\ count_at = 0
  /\ position = 0
  /\ dest = << >>
  /\ wanted = 0
  /\ begun = 0
  /\ torn = FALSE
  /\ pointer = NoPointer
  /\ preempting \in {"insert", "read"}

InsertMayRun == preempting = "insert" \/ read_pc = "idle"
ReadMayRun == preempting = "read" \/ insert_pc = "idle"

(* The index expression of get_nth_element and, with n = 0, rb_get_tail,   *)
(* over the two fields as they were loaded; and that of rb_get_head.       *)
NthSlot(n) == (loaded_head + Size - loaded_count + n) % Size
HeadSlot_NextToWrite == head_idx
HeadSlot == (head_idx + Size - 1) % Size

(* How many elements the buffer holds after k insertions; and whether the  *)
(* two loads of an index saw the buffer at different counts, because an    *)
(* insertion into a buffer that was not full came between them.            *)
Held(k) == IF k < Size THEN k ELSE Size
LoadsTorn == Held(head_at) # Held(count_at)

-------------------------------------------------------------------------------
(* rb_insert, one action per store.                                        *)
InsertCopy_RejectsWhenFull ==
  /\ InsertMayRun
  /\ insert_pc = "idle"
  /\ inserted < MaxInserts
  /\ inserted' = inserted + 1
  /\ IF curr_elements < Size
     THEN buf' = [buf EXCEPT ![head_idx] = inserted'] /\ insert_pc' = "advance"
     ELSE UNCHANGED <<buf, insert_pc>>
  /\ UNCHANGED <<head_idx, curr_elements, readVars, pointer>>

InsertCopy ==
  /\ InsertMayRun
  /\ insert_pc = "idle"
  /\ inserted < MaxInserts
  /\ inserted' = inserted + 1
  /\ buf' = [buf EXCEPT ![head_idx] = inserted']
  /\ insert_pc' = "advance"
  /\ UNCHANGED <<head_idx, curr_elements, readVars, pointer>>

InsertAdvance_UntilFull ==
  /\ InsertMayRun
  /\ insert_pc = "advance"
  /\ head_idx' = IF curr_elements < Size THEN (head_idx + 1) % Size ELSE head_idx
  /\ insert_pc' = "count"
  /\ UNCHANGED <<buf, curr_elements, inserted, readVars, pointer>>

InsertAdvance ==
  /\ InsertMayRun
  /\ insert_pc = "advance"
  /\ head_idx' = (head_idx + 1) % Size
  /\ insert_pc' = "count"
  /\ UNCHANGED <<buf, curr_elements, inserted, readVars, pointer>>

InsertCount ==
  /\ InsertMayRun
  /\ insert_pc = "count"
  /\ curr_elements' = IF curr_elements < Size
                      THEN curr_elements + 1 ELSE curr_elements
  /\ insert_pc' = "idle"
  /\ UNCHANGED <<buf, head_idx, inserted, readVars, pointer>>

(* rb_get_last_n up to its loop: curr_elements is loaded for the test, for *)
(* the clamp and for start_idx, and may have grown in between.             *)
ReadTest(n) ==
  /\ ReadMayRun
  /\ read_pc = "idle"
  /\ wanted' = n
  /\ dest' = << >>
  /\ torn' = FALSE
  /\ read_pc' = IF n > curr_elements THEN "clamp" ELSE "start"
  /\ UNCHANGED <<insertVars, loadVars, position, begun, pointer>>

ReadClamp ==
  /\ ReadMayRun
  /\ read_pc = "clamp"
  /\ wanted' = curr_elements
  /\ read_pc' = "start"
  /\ UNCHANGED <<insertVars, loadVars, position, dest, begun, torn, pointer>>

ReadStart_FromTail ==
  /\ ReadMayRun
  /\ read_pc = "start"
  /\ position' = 0
  /\ begun' = inserted
  /\ read_pc' = IF wanted > 0 THEN "nth" ELSE "idle"
  /\ UNCHANGED <<insertVars, loadVars, dest, wanted, torn, pointer>>

ReadStart ==
  /\ ReadMayRun
  /\ read_pc = "start"
  /\ position' = curr_elements - wanted
  /\ begun' = inserted
  /\ read_pc' = IF wanted > 0 THEN "nth" ELSE "idle"
  /\ UNCHANGED <<insertVars, loadVars, dest, wanted, torn, pointer>>

(* The two loads of an index expression, which C leaves in either order.   *)
LoadHead ==
  /\ ReadMayRun
  /\ read_pc \in {"nth", "tail"}
  /\ loaded_head = NotLoaded
  /\ loaded_head' = head_idx
  /\ head_at' = inserted
  /\ UNCHANGED <<insertVars, read_pc, loaded_count, count_at, copyVars, pointer>>

LoadCount ==
  /\ ReadMayRun
  /\ read_pc \in {"nth", "tail"}
  /\ loaded_count = NotLoaded
  /\ loaded_count' = curr_elements
  /\ count_at' = inserted
  /\ UNCHANGED <<insertVars, read_pc, loaded_head, head_at, copyVars, pointer>>

Loaded == loaded_head # NotLoaded /\ loaded_count # NotLoaded
Unload == loaded_head' = NotLoaded /\ loaded_count' = NotLoaded

(* The copy of one iteration, from the slot computed before it.            *)
ReadCopy ==
  /\ ReadMayRun
  /\ read_pc = "nth"
  /\ Loaded
  /\ dest' = Append(dest, buf[NthSlot(position)])
  /\ torn' = (torn \/ LoadsTorn)
  /\ position' = position + 1
  /\ read_pc' = IF Len(dest') < wanted THEN "nth" ELSE "idle"
  /\ Unload
  /\ UNCHANGED <<insertVars, head_at, count_at, wanted, begun, pointer>>

(* rb_get_head and rb_get_tail return a pointer into the buffer; the       *)
(* caller dereferences it later.  value is the element asked for: the      *)
(* newest, and the oldest of those held when head_idx was loaded.  slack   *)
(* is the number of insertions that may begin after that load before the   *)
(* slot is written again; an index that was torn promises nothing.         *)
GetHead ==
  /\ ReadMayRun
  /\ read_pc = "idle"
  /\ curr_elements > 0
  /\ pointer' = [slot |-> HeadSlot, value |-> inserted,
                 slack |-> Size - 1, taken |-> inserted]
  /\ UNCHANGED <<insertVars, readVars>>

TailBegin ==
  /\ ReadMayRun
  /\ read_pc = "idle"
  /\ curr_elements > 0
  /\ read_pc' = "tail"
  /\ UNCHANGED <<insertVars, loadVars, copyVars, pointer>>

TailReturn ==
  /\ ReadMayRun
  /\ read_pc = "tail"
  /\ Loaded
  /\ pointer' = [slot |-> NthSlot(0), value |-> head_at - Held(head_at) + 1,
                 slack |-> IF LoadsTorn THEN -1 ELSE Size - Held(head_at),
                 taken |-> head_at]
  /\ read_pc' = "idle"
  /\ Unload
  /\ UNCHANGED <<insertVars, head_at, count_at, copyVars>>

Insert == InsertCopy \/ InsertAdvance \/ InsertCount
Read ==
  \/ (\E n \in 0 .. Size : ReadTest(n)) \/ ReadClamp \/ ReadStart
  \/ LoadHead \/ LoadCount \/ ReadCopy
  \/ GetHead \/ TailBegin \/ TailReturn
Next == (Insert \/ Read) /\ UNCHANGED preempting

Spec == Init /\ [][Next]_vars

-------------------------------------------------------------------------------
(* The contents once the insertion in progress, if any, is counted.        *)
LogicalHead == IF insert_pc = "advance" THEN (head_idx + 1) % Size ELSE head_idx
LogicalCount == IF insert_pc # "idle" /\ curr_elements < Size
                THEN curr_elements + 1 ELSE curr_elements
LogicalSlot(n) == (LogicalHead + Size - LogicalCount + n) % Size
Contents == [i \in 1 .. LogicalCount |-> buf[LogicalSlot(i - 1)]]

(* Every variable of the code keeps its type: indices stay inside the      *)
(* buffer and the count never passes the capacity.                         *)
TypeOK ==
  /\ buf \in [Slots -> 0 .. MaxInserts]
  /\ head_idx \in Slots
  /\ curr_elements \in 0 .. Size
  /\ insert_pc \in {"idle", "advance", "count"}
  /\ inserted \in 0 .. MaxInserts
  /\ read_pc \in {"idle", "clamp", "start", "nth", "tail"}
  /\ loaded_head \in Slots \cup {NotLoaded}
  /\ loaded_count \in 0 .. Size \cup {NotLoaded}
  /\ head_at \in 0 .. MaxInserts
  /\ count_at \in 0 .. MaxInserts
  /\ position \in 0 .. Size
  /\ dest \in Seq(0 .. MaxInserts)
  /\ wanted \in 0 .. Size
  /\ begun \in 0 .. MaxInserts
  /\ torn \in BOOLEAN
  /\ pointer \in [slot : Slots, value : 0 .. MaxInserts,
                  slack : -1 .. Size, taken : 0 .. MaxInserts]

(* The slots from the tail to the head hold the last insertions in order,  *)
(* whatever the indices have wrapped to (rb_insert, get_nth_element).      *)
HoldsLastInsertions ==
  /\ LogicalCount = IF inserted < Size THEN inserted ELSE Size
  /\ \A n \in 0 .. LogicalCount - 1 :
       buf[LogicalSlot(n)] = inserted - LogicalCount + n + 1

(* rb_insert implements the promise of ringbuffer.h, each insertion taking *)
(* effect at the moment its element is copied into the buffer.             *)
Promise == INSTANCE LastN WITH contents <- Contents
KeepsLastN == Promise!Spec

(* The assertion of get_nth_element (line 18) never fires.                 *)
InBounds == read_pc = "nth" => position < curr_elements

(* rb_get_last_n never hands out a slot no insertion has written, even     *)
(* when it interrupts rb_insert between two of its stores, unless one of   *)
(* its indices was torn.                                                   *)
NoGarbage == ~torn => \A i \in 1 .. Len(dest) : dest[i] # 0

(* While no more insertions have begun since start_idx was computed than   *)
(* there were slots beside the n asked for, elements may be skipped but    *)
(* none is copied twice, none after a newer one and none that is older     *)
(* than the n newest of then; unless one of the indices was torn.          *)
InOrder ==
  preempting = "insert" /\ ~torn /\ inserted - begun <= Size - wanted =>
    /\ \A i, j \in 1 .. Len(dest) : i < j => dest[i] < dest[j]
    /\ \A i \in 1 .. Len(dest) : dest[i] >= begun - wanted + i

(* With no insertion since start_idx was computed, rb_get_last_n copies    *)
(* exactly the n newest elements, oldest first.                            *)
ReadExact ==
  preempting = "insert" /\ begun = inserted =>
    \A i \in 1 .. Len(dest) : dest[i] = inserted - wanted + i

(* The pointer rb_get_head or rb_get_tail returned still points to the     *)
(* element it was asked for until as many insertions have begun as there   *)
(* were slots left before that one; a caller that interrupts rb_insert may *)
(* be handed the slot before or after the one it asked for.                *)
PointerStable ==
  preempting = "insert" /\ inserted - pointer.taken <= pointer.slack =>
    buf[pointer.slot] = pointer.value

(* What rb_get_last_n copies: no slot that was never written, no element   *)
(* out of order, and if nothing interrupts it the newest ones.             *)
ReadSound == InBounds /\ NoGarbage /\ InOrder /\ ReadExact
===============================================================================
