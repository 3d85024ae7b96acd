--------------------------- MODULE Middleware_proofs ---------------------------
(***************************************************************************)
(* Proofs about the middleware: the ring buffer of ringbuffer.c for every  *)
(* capacity, every number of insertions and both directions of preemption; *)
(* and the timer of timer.c with the debounce of debounce.c for every      *)
(* width of the tick, every duration and every sampling: as long as no     *)
(* timer's end lies beyond the first wrap of the tick, the timer is right  *)
(* and the debounced callback is justified.                                *)
(***************************************************************************)
EXTENDS RingBuffer, Debounce, Arithmetic_proofs, SequenceTheorems, TLAPS

-------------------------------------------------------------------------------
(***************************************************************************)
(* The ring buffer.                                                        *)
(***************************************************************************)
(* The progress of rb_get_last_n: the count its start was computed from    *)
(* never shrinks.                                                          *)
ReadProgress ==
  /\ Len(dest) <= wanted \/ read_pc \in {"clamp", "start"}
  /\ read_pc \in {"clamp", "start"} => dest = << >> /\ ~torn
  /\ read_pc = "start" => wanted <= curr_elements
  /\ read_pc = "nth" => /\ Len(dest) < wanted
                        /\ position + wanted - Len(dest) <= curr_elements
  /\ read_pc = "tail" => curr_elements > 0

(* The k-th insertion goes to the slot Place(k).  The head is the place of *)
(* the next one; a place holds the insertion it was last written by.       *)
Place(k) == (k - 1) % Size

Placed ==
  /\ insert_pc # "idle" => inserted >= 1
  /\ curr_elements = Held(IF insert_pc = "idle" THEN inserted ELSE inserted - 1)
  /\ head_idx = Place(IF insert_pc = "advance" THEN inserted ELSE inserted + 1)
  /\ \A k \in Nat : k >= 1 /\ k <= inserted =>
       /\ buf[Place(k)] >= k
       /\ inserted < k + Size => buf[Place(k)] = k

(* What was loaded: by a read in the interrupt, the fields as they are; by *)
(* a read in the thread, the fields as they were at head_at and count_at.  *)
LoadedNow ==
  /\ loaded_head # NotLoaded => loaded_head = head_idx
  /\ loaded_count # NotLoaded => loaded_count = curr_elements

LoadedThen ==
  /\ loaded_head # NotLoaded =>
       /\ loaded_head = head_at % Size
       /\ begun <= head_at
  /\ loaded_count # NotLoaded =>
       /\ loaded_count = Held(count_at)
       /\ begun <= count_at

LoadsMade ==
  /\ loaded_head # NotLoaded \/ loaded_count # NotLoaded => read_pc \in {"nth", "tail"}
  /\ read_pc = "tail" /\ loaded_head # NotLoaded => head_at >= 1
  /\ begun <= inserted /\ head_at <= inserted /\ count_at <= inserted
  /\ preempting \in {"insert", "read"}
  /\ preempting = "read" => LoadedNow
  /\ preempting = "insert" => LoadedThen

(* The inductive invariant: the type invariant, the placement of the       *)
(* elements by the indices and by number, the progress of a read and what  *)
(* it has loaded.                                                          *)
IInv == TypeOK /\ HoldsLastInsertions /\ ReadProgress /\ Placed /\ LoadsMade

(* An index below twice the capacity wraps at most once.                   *)
Wrapped(x) == IF x < Size THEN x ELSE x - Size

LEMMA ModIsWrapped ==
  ASSUME NEW x \in Nat, x < 2 * Size
  PROVE  x % Size = Wrapped(x) /\ x % Size \in Slots
  <1> USE SizeAssumption
  <1>1. CASE x < Size
    BY <1>1, SMT DEF Wrapped, Slots
  <1>2. CASE x >= Size
    BY <1>2, SMT DEF Wrapped, Slots
  <1> QED
    BY <1>1, <1>2

(* What the type invariant says of the indices.                            *)
LEMMA IndexTypes ==
  ASSUME TypeOK
  PROVE  /\ Size \in Nat /\ Size > 0
         /\ head_idx \in Nat /\ head_idx < Size
         /\ curr_elements \in Nat /\ curr_elements <= Size
  BY SizeAssumption DEF TypeOK, Slots

(* The slots of the logical contents, without the modulo.                  *)
LEMMA LogicalTypes ==
  ASSUME TypeOK
  PROVE  /\ LogicalHead \in Nat /\ LogicalHead < Size
         /\ LogicalCount \in Nat /\ LogicalCount <= Size
         /\ LogicalHead = IF insert_pc = "advance"
                          THEN Wrapped(head_idx + 1) ELSE head_idx
         /\ \A n \in Nat : n < LogicalCount =>
              /\ LogicalSlot(n) = Wrapped(LogicalHead + Size - LogicalCount + n)
              /\ LogicalSlot(n) \in Slots
  <1>1. (head_idx + 1) % Size = Wrapped(head_idx + 1)
    BY IndexTypes, ModIsWrapped
  <1>2. /\ LogicalHead \in Nat /\ LogicalHead < Size
        /\ LogicalHead = IF insert_pc = "advance"
                         THEN Wrapped(head_idx + 1) ELSE head_idx
    BY <1>1, IndexTypes DEF LogicalHead, Wrapped
  <1>3. LogicalCount \in Nat /\ LogicalCount <= Size
    BY IndexTypes DEF LogicalCount
  <1>4. ASSUME NEW n \in Nat, n < LogicalCount
        PROVE  /\ LogicalSlot(n) = Wrapped(LogicalHead + Size - LogicalCount + n)
               /\ LogicalSlot(n) \in Slots
    <2> DEFINE x == LogicalHead + Size - LogicalCount + n
    <2>1. x \in Nat /\ x < 2 * Size
      BY <1>2, <1>3, <1>4, IndexTypes
    <2>2. x % Size = Wrapped(x) /\ x % Size \in Slots
      BY <2>1, ModIsWrapped
    <2> QED
      BY <2>2 DEF LogicalSlot
  <1> QED
    BY <1>2, <1>3, <1>4

(* The slots the operations compute are slots of the buffer.               *)
LEMMA CodeSlots ==
  ASSUME TypeOK
  PROVE  /\ (head_idx + 1) % Size = Wrapped(head_idx + 1)
         /\ (head_idx + 1) % Size \in Slots
         /\ HeadSlot \in Slots
         /\ \A n \in Nat : Loaded => NthSlot(n) \in Slots
  <1>1. /\ (head_idx + 1) % Size = Wrapped(head_idx + 1)
        /\ (head_idx + 1) % Size \in Slots
    BY IndexTypes, ModIsWrapped
  <1>2. HeadSlot \in Slots
    <2>1. head_idx + Size - 1 \in Nat /\ head_idx + Size - 1 < 2 * Size
      BY IndexTypes
    <2> QED
      BY <2>1, ModIsWrapped DEF HeadSlot
  <1>3. ASSUME NEW n \in Nat, Loaded PROVE NthSlot(n) \in Slots
    <2>1. loaded_head \in Nat /\ loaded_count \in Nat /\ loaded_count <= Size
      BY <1>3, IndexTypes DEF TypeOK, Loaded, Slots
    <2>2. loaded_head + Size - loaded_count + n \in Nat
      BY <2>1, IndexTypes
    <2>3. \A x \in Nat : x % Size \in 0 .. Size - 1
      BY IndexTypes
    <2> QED
      BY <2>2, <2>3 DEF NthSlot, Slots
  <1> QED
    BY <1>1, <1>2, <1>3

(* The remainder of a sum.                                                 *)
LEMMA SumMod ==
  ASSUME NEW x \in Nat, NEW y \in Nat
  PROVE  ((x % Size) + y) % Size = (x + y) % Size
  <1>0. Size \in Nat /\ Size > 0
    BY SizeAssumption
  <1>1. PICK q \in Nat, r \in Nat : r = x % Size /\ r < Size /\ x = q * Size + r
    BY <1>0, Divided
  <1>2. PICK p \in Nat, t \in Nat : t = (r + y) % Size /\ t < Size /\ r + y = p * Size + t
    BY <1>0, Divided
  <1>3. PICK w \in Int : w * Size = q * Size + p * Size
    <2>1. (q + p) * Size = q * Size + p * Size /\ q + p \in Int
      BY <1>0
    <2> QED
      BY <2>1
  <1>4. x + y = w * Size + t
    <2>1. q * Size \in Nat /\ p * Size \in Nat
      BY <1>0
    <2> QED
      BY <1>1, <1>2, <1>3, <2>1
  <1>5. (x + y) % Size = t
    <2> DEFINE z == x + y
    <2>1. z = w * Size + t
      BY <1>4
    <2> HIDE DEF z
    <2>2. z % Size = t
      BY <1>0, <1>2, <1>3, <2>1, IntDivMod
    <2> QED
      BY <2>2 DEF z
  <1> QED
    BY <1>1, <1>2, <1>5

LEMMA RoundMod ==
  ASSUME NEW x \in Nat
  PROVE  (x + Size) % Size = x % Size
  <1>0. Size \in Nat /\ Size > 0
    BY SizeAssumption
  <1>1. PICK q \in Nat, r \in Nat : r = x % Size /\ r < Size /\ x = q * Size + r
    BY <1>0, Divided
  <1>2. (q + 1) * Size = q * Size + Size /\ q + 1 \in Int /\ q * Size \in Nat
    BY <1>0
  <1>3. x + Size = (q + 1) * Size + r
    BY <1>0, <1>1, <1>2
  <1> QED
    BY <1>0, <1>1, <1>2, <1>3, IntDivMod

(* Insertions fewer than a capacity apart have different places.           *)
LEMMA PlacesApart ==
  ASSUME NEW k \in Nat, NEW m \in Nat, k >= 1, k < m, m < k + Size
  PROVE  Place(k) # Place(m)
  <1>0. Size \in Nat /\ Size > 0
    BY SizeAssumption
  <1>1. PICK q \in Nat, r \in Nat : r = (k - 1) % Size /\ r < Size /\ k - 1 = q * Size + r
    <2>1. k - 1 \in Nat
      OBVIOUS
    <2> QED
      BY <1>0, <2>1, Divided
  <1>2. PICK d \in Nat : m = k + d /\ d > 0 /\ d < Size
    <2>1. m - k \in Nat /\ m = k + (m - k) /\ m - k > 0 /\ m - k < Size
      BY <1>0
    <2> QED
      BY <2>1
  <1>3. (q + 1) * Size = q * Size + Size /\ q + 1 \in Int /\ q * Size \in Nat
    BY <1>0
  <1>4. CASE r + d < Size
    <2>1. m - 1 = q * Size + (r + d)
      BY <1>1, <1>2, <1>3
    <2>2. (m - 1) % Size = r + d
      BY <1>0, <1>4, <2>1, IntDivMod
    <2> QED
      BY <1>1, <1>2, <2>2 DEF Place
  <1>5. CASE r + d >= Size
    <2>1. m - 1 = (q + 1) * Size + (r + d - Size) /\ r + d - Size \in Nat /\ r + d - Size < Size
      BY <1>0, <1>1, <1>2, <1>3, <1>5
    <2>2. PICK s \in Nat : s = r + d - Size /\ s < Size
      BY <2>1
    <2> DEFINE z == m - 1
               p == q + 1
    <2>3. z = p * Size + s /\ p \in Nat
      BY <1>3, <2>1, <2>2
    <2> HIDE DEF z, p
    <2>5. (p * Size + s) % Size = s
      BY <1>0, <2>2, <2>3, DivMod
    <2>4. z % Size = s
      BY <2>3, <2>5
    <2> QED
      BY <1>0, <1>1, <1>2, <2>2, <2>4 DEF Place, z
  <1> QED
    BY <1>0, <1>4, <1>5

(* A place is a slot.                                                      *)
LEMMA PlaceTypes ==
  ASSUME NEW k \in Nat, k >= 1
  PROVE  Place(k) \in Slots
  <1>1. k - 1 \in Nat /\ Size \in Nat /\ Size > 0
    BY SizeAssumption
  <1> QED
    BY <1>1, DivIs DEF Place, Slots

(* What Held says of a number of insertions.                               *)
LEMMA HeldIs ==
  ASSUME NEW k \in Nat
  PROVE  /\ Held(k) \in Nat /\ Held(k) <= k /\ Held(k) <= Size
         /\ k >= 1 => Held(k) >= 1
         /\ \A m \in Nat : k <= m => k - Held(k) <= m - Held(m)
  BY SizeAssumption DEF Held

(* Where an index over the fields loaded after k insertions leads.         *)
LEMMA IndexIsPlace ==
  ASSUME NEW k \in Nat, NEW n \in Nat,
         loaded_head = k % Size, loaded_count = Held(k)
  PROVE  NthSlot(n) = Place(k - Held(k) + n + 1)
  <1>0. Size \in Nat /\ Size > 0
    BY SizeAssumption
  <1>1. Held(k) \in Nat /\ Held(k) <= k /\ Held(k) <= Size
    BY HeldIs
  <1> DEFINE y == Size - Held(k) + n
             z == k - Held(k) + n
  <1>2. y \in Nat /\ z \in Nat /\ k + y = z + Size
    BY <1>0, <1>1
  <1>3. k % Size \in Nat
    BY <1>0, DivIs
  <1>4. loaded_head + Size - loaded_count + n = (k % Size) + y
    BY <1>0, <1>1, <1>3
  <1>5. (z + 1) - 1 = z
    BY <1>2
  <1>6. NthSlot(n) = ((k % Size) + y) % Size
    BY <1>4 DEF NthSlot
  <1> HIDE DEF y
  <1>7. ((k % Size) + y) % Size = (k + y) % Size
    BY <1>2, SumMod
  <1>8. (z + Size) % Size = z % Size
    BY <1>2, RoundMod
  <1> QED
    BY <1>2, <1>5, <1>6, <1>7, <1>8 DEF Place

-------------------------------------------------------------------------------
(* rb_init establishes the invariant.                                      *)
LEMMA InitIInv == Init => IInv
  <1> SUFFICES ASSUME Init PROVE IInv
    OBVIOUS
  <1> USE SizeAssumption, BoundAssumption DEF Init
  <1>1. TypeOK
    <2>1. NoPointer \in [slot : Slots, value : 0 .. MaxInserts,
                         slack : -1 .. Size, taken : 0 .. MaxInserts]
      BY DEF NoPointer, Slots
    <2>2. 0 \in Slots /\ << >> \in Seq(0 .. MaxInserts)
      BY DEF Slots
    <2> QED
      BY <2>1, <2>2 DEF TypeOK
  <1>2. HoldsLastInsertions
    BY DEF HoldsLastInsertions, LogicalCount
  <1>3. ReadProgress
    BY DEF ReadProgress
  <1>4. Placed
    <2>1. 0 % Size = 0 /\ (0 + 1) - 1 = 0
      BY SmallMod
    <2> QED
      BY <2>1, SizeAssumption DEF Placed, Place, Held
  <1>5. LoadsMade
    BY DEF LoadsMade, LoadedNow, LoadedThen
  <1> QED
    BY <1>1, <1>2, <1>3, <1>4, <1>5 DEF IInv

(* Between the stores of rb_insert the count is what was inserted, as far  *)
(* as it fits.                                                             *)
LEMMA CountIs ==
  ASSUME IInv
  PROVE  /\ inserted \in Nat /\ begun \in Nat /\ head_at \in Nat /\ count_at \in Nat
         /\ wanted \in Nat /\ wanted <= Size /\ position \in Nat
         /\ LogicalCount = Held(inserted)
         /\ insert_pc = "idle" => curr_elements = Held(inserted)
         /\ curr_elements <= inserted
  <1>1. /\ inserted \in Nat /\ begun \in Nat /\ head_at \in Nat /\ count_at \in Nat
        /\ wanted \in Nat /\ wanted <= Size /\ position \in Nat
    BY SizeAssumption, BoundAssumption DEF IInv, TypeOK
  <1>2. LogicalCount = Held(inserted)
    BY DEF IInv, HoldsLastInsertions, Held
  <1>3. insert_pc = "idle" => curr_elements = LogicalCount
    BY DEF LogicalCount
  <1>4. curr_elements <= LogicalCount /\ LogicalCount \in Nat /\ LogicalCount <= inserted
    BY <1>1, <1>2, HeldIs, IndexTypes DEF LogicalCount, IInv
  <1> QED
    BY <1>1, <1>2, <1>3, <1>4, IndexTypes DEF IInv

(* No operation takes a variable out of its type.                          *)
LEMMA TypeStep == IInv /\ [Next]_vars => TypeOK'
  <1> SUFFICES ASSUME IInv, [Next]_vars PROVE TypeOK'
    OBVIOUS
  <1> USE SizeAssumption, BoundAssumption
      DEF insertVars, readVars, loadVars, copyVars, Unload
  <1>0. TypeOK
    BY DEF IInv
  <1>1. CASE InsertCopy
    BY <1>0, <1>1 DEF InsertCopy, TypeOK, Slots
  <1>2. CASE InsertAdvance
    BY <1>0, <1>2, CodeSlots DEF InsertAdvance, TypeOK, Slots
  <1>3. CASE InsertCount
    BY <1>0, <1>3 DEF InsertCount, TypeOK, Slots
  <1>4. ASSUME NEW n \in 0 .. Size, ReadTest(n) PROVE TypeOK'
    <2>1. /\ wanted' = n /\ dest' = << >> /\ torn' = FALSE
          /\ read_pc' = IF n > curr_elements THEN "clamp" ELSE "start"
      BY <1>4 DEF ReadTest
    <2>3. << >> \in Seq(0 .. MaxInserts)
      OBVIOUS
    <2>2. UNCHANGED <<insertVars, loadVars, position, begun, pointer>>
      BY <1>4 DEF ReadTest
    <2> QED
      BY <1>0, <2>1, <2>2, <2>3 DEF TypeOK
  <1>5. CASE ReadClamp
    BY <1>0, <1>5 DEF ReadClamp, TypeOK, Slots
  <1>6. CASE ReadStart
    <2>1. curr_elements - wanted \in 0 .. Size
      BY <1>6, CountIs, IndexTypes DEF ReadStart, IInv, ReadProgress
    <2> QED
      BY <1>0, <1>6, <2>1 DEF ReadStart, TypeOK, Slots
  <1>7. CASE LoadHead
    BY <1>0, <1>7 DEF LoadHead, TypeOK, Slots
  <1>8. CASE LoadCount
    BY <1>0, <1>8 DEF LoadCount, TypeOK, Slots
  <1>9. CASE ReadCopy
    <2>1. position \in Nat /\ position < curr_elements
      <3>1. Len(dest) \in Nat
        BY <1>0, LenProperties DEF TypeOK
      <3> QED
        BY <1>9, <3>1, CountIs, IndexTypes DEF ReadCopy, IInv, ReadProgress
    <2>2. position + 1 \in 0 .. Size
      BY <1>0, <2>1, IndexTypes
    <2>3. buf[NthSlot(position)] \in 0 .. MaxInserts
      BY <1>0, <1>9, <2>1, CodeSlots DEF TypeOK, ReadCopy
    <2>4. dest' \in Seq(0 .. MaxInserts)
      BY <1>0, <1>9, <2>3 DEF ReadCopy, TypeOK
    <2>5. torn' \in BOOLEAN
      BY <1>9 DEF ReadCopy
    <2> QED
      BY <1>0, <1>9, <2>2, <2>4, <2>5 DEF ReadCopy, TypeOK
  <1>10. CASE GetHead
    <2>1. HeadSlot \in Slots /\ Size - 1 \in -1 .. Size
      BY <1>0, CodeSlots, IndexTypes
    <2>2. pointer' \in [slot : Slots, value : 0 .. MaxInserts,
                        slack : -1 .. Size, taken : 0 .. MaxInserts]
      BY <1>0, <1>10, <2>1 DEF GetHead, TypeOK
    <2> QED
      BY <1>0, <1>10, <2>2 DEF GetHead, TypeOK
  <1>11. CASE TailBegin
    BY <1>0, <1>11 DEF TailBegin, TypeOK
  <1>12. CASE TailReturn
    <2>1. NthSlot(0) \in Slots
      BY <1>0, <1>12, CodeSlots DEF TailReturn
    <2>2. head_at \in Nat /\ head_at <= MaxInserts /\ Held(head_at) \in Nat
      <3>1. head_at \in Nat /\ head_at <= MaxInserts
        BY <1>0 DEF TypeOK
      <3> QED
        BY <3>1, HeldIs
    <2>3. head_at >= 1
      <3>1. loaded_head # NotLoaded /\ read_pc = "tail"
        BY <1>12 DEF TailReturn, Loaded
      <3> QED
        BY <3>1 DEF IInv, LoadsMade
    <2>4. Held(head_at) >= 1 /\ Held(head_at) <= head_at /\ Held(head_at) <= Size
      BY <2>2, <2>3, HeldIs
    <2>5. /\ head_at - Held(head_at) + 1 \in 0 .. MaxInserts
          /\ (IF LoadsTorn THEN -1 ELSE Size - Held(head_at)) \in -1 .. Size
      BY <2>2, <2>4, IndexTypes
    <2>6. pointer' \in [slot : Slots, value : 0 .. MaxInserts,
                        slack : -1 .. Size, taken : 0 .. MaxInserts]
      BY <1>0, <1>12, <2>1, <2>5 DEF TailReturn, TypeOK
    <2> QED
      BY <1>0, <1>12, <2>6 DEF TailReturn, TypeOK
  <1>13. CASE UNCHANGED vars
    BY <1>0, <1>13 DEF vars, TypeOK
  <1> QED
    BY <1>1, <1>2, <1>3, <1>4, <1>5, <1>6, <1>7, <1>8, <1>9, <1>10, <1>11, <1>12, <1>13
       DEF Next, Insert, Read

(* A read never leaves the elements it was given.                          *)
LEMMA ProgressStep == IInv /\ [Next]_vars => ReadProgress'
  <1> SUFFICES ASSUME IInv, [Next]_vars PROVE ReadProgress'
    OBVIOUS
  <1> USE DEF insertVars, readVars, loadVars, copyVars, Unload
  <1>0. /\ TypeOK /\ ReadProgress /\ Len(dest) \in Nat
        /\ wanted \in Nat /\ position \in Nat /\ curr_elements \in Nat /\ Size \in Nat
    BY CountIs, IndexTypes, LenProperties DEF IInv, TypeOK
  <1>1. CASE \/ InsertCopy \/ InsertAdvance \/ GetHead \/ TailReturn \/ UNCHANGED vars
             \/ LoadHead \/ LoadCount
    BY <1>0, <1>1 DEF InsertCopy, InsertAdvance, GetHead, TailReturn,
                      LoadHead, LoadCount, vars, ReadProgress
  <1>2. CASE InsertCount
    <2>1. curr_elements <= curr_elements' /\ curr_elements' \in Nat
      BY <1>0, <1>2 DEF InsertCount
    <2> QED
      BY <1>0, <1>2, <2>1 DEF InsertCount, ReadProgress
  <1>3. ASSUME NEW n \in 0 .. Size, ReadTest(n) PROVE ReadProgress'
    <2>1. /\ dest' = << >> /\ torn' = FALSE /\ wanted' = n /\ n \in Nat
          /\ read_pc' = IF n > curr_elements THEN "clamp" ELSE "start"
          /\ curr_elements' = curr_elements
      BY <1>0, <1>3 DEF ReadTest
    <2> QED
      BY <1>0, <2>1 DEF ReadProgress
  <1>4. CASE ReadClamp
    BY <1>0, <1>4 DEF ReadClamp, ReadProgress
  <1>5. CASE ReadStart
    <2>1. /\ dest' = << >> /\ wanted' = wanted /\ curr_elements' = curr_elements
          /\ position' = curr_elements - wanted /\ wanted <= curr_elements
          /\ read_pc' = IF wanted > 0 THEN "nth" ELSE "idle"
      BY <1>0, <1>5 DEF ReadStart, ReadProgress
    <2>2. Len(dest') = 0
      BY <2>1
    <2> QED
      BY <1>0, <2>1, <2>2 DEF ReadProgress
  <1>6. CASE TailBegin
    BY <1>0, <1>6 DEF TailBegin, ReadProgress
  <1>7. CASE ReadCopy
    <2>1. Len(dest') = Len(dest) + 1
      <3>1. /\ dest \in Seq(0 .. MaxInserts)
            /\ buf[NthSlot(position)] \in 0 .. MaxInserts
        BY <1>0, <1>7, CodeSlots DEF TypeOK, ReadCopy
      <3> QED
        BY <1>7, <3>1, AppendProperties DEF ReadCopy
    <2>2. /\ wanted' = wanted /\ position' = position + 1
          /\ curr_elements' = curr_elements /\ read_pc = "nth"
          /\ read_pc' = IF Len(dest') < wanted THEN "nth" ELSE "idle"
      BY <1>7 DEF ReadCopy
    <2> QED
      BY <1>0, <2>1, <2>2 DEF ReadProgress
  <1> QED
    BY <1>1, <1>2, <1>3, <1>4, <1>5, <1>6, <1>7 DEF Next, Insert, Read

(* Each insertion goes to its place, and leaves alone those that are less  *)
(* than a capacity away.                                                   *)
LEMMA PlacedStep == IInv /\ TypeOK' /\ [Next]_vars => Placed'
  <1> SUFFICES ASSUME IInv, TypeOK', [Next]_vars PROVE Placed'
    OBVIOUS
  <1>0. /\ TypeOK /\ Placed /\ inserted \in Nat /\ Size \in Nat /\ Size > 0
    BY CountIs, IndexTypes DEF IInv
  <1>1. CASE InsertCopy
    <2>1. /\ insert_pc = "idle" /\ insert_pc' = "advance" /\ inserted' = inserted + 1
          /\ head_idx' = head_idx /\ buf' = [buf EXCEPT ![head_idx] = inserted + 1]
      BY <1>1 DEF InsertCopy
    <2>2. head_idx = Place(inserted + 1)
      BY <1>0, <2>1 DEF Placed
    <2>3. ASSUME NEW k \in Nat, k >= 1, k <= inserted'
          PROVE  /\ buf'[Place(k)] >= k
                 /\ inserted' < k + Size => buf'[Place(k)] = k
      <3>1. Place(k) \in Slots /\ Place(k) \in DOMAIN buf
        BY <1>0, <2>3, PlaceTypes DEF TypeOK
      <3>2. CASE k = inserted + 1
        BY <1>0, <2>1, <2>2, <3>1, <3>2
      <3>3. CASE k <= inserted /\ Place(k) = head_idx
        <4>1. buf'[Place(k)] = inserted + 1
          BY <2>1, <3>1, <3>3
        <4>2. ~(inserted' < k + Size)
          BY <1>0, <2>1, <2>2, <2>3, <3>3, PlacesApart
        <4> QED
          BY <1>0, <3>3, <4>1, <4>2
      <3>4. CASE k <= inserted /\ Place(k) # head_idx
        <4>1. buf'[Place(k)] = buf[Place(k)]
          BY <2>1, <3>1, <3>4
        <4>2. buf[Place(k)] >= k /\ (inserted < k + Size => buf[Place(k)] = k)
          BY <2>3, <3>4 DEF IInv, Placed
        <4>3. inserted' < k + Size => inserted < k + Size
          BY <1>0, <2>1
        <4> QED
          BY <4>1, <4>2, <4>3
      <3> QED
        BY <1>0, <2>1, <2>3, <3>2, <3>3, <3>4
    <2>4. curr_elements' = Held(inserted' - 1)
      <3>1. curr_elements' = curr_elements /\ inserted' - 1 = inserted
        BY <1>0, <1>1 DEF InsertCopy
      <3> QED
        BY <2>1, <3>1 DEF IInv, Placed
    <2>5. (Held(inserted - 1))' = Held(inserted' - 1)
      BY DEF Held
    <2> QED
      BY <1>0, <2>1, <2>2, <2>3, <2>4, <2>5 DEF Placed, Place
  <1>2. CASE InsertAdvance
    <2>1. /\ insert_pc = "advance" /\ insert_pc' = "count" /\ inserted' = inserted
          /\ buf' = buf /\ head_idx' = (head_idx + 1) % Size
      BY <1>2 DEF InsertAdvance
    <2>2. head_idx = (inserted - 1) % Size /\ inserted >= 1 /\ inserted - 1 \in Nat
      BY <1>0, <2>1 DEF Placed, Place
    <2>3. head_idx' = (inserted - 1 + 1) % Size
      BY <1>0, <2>1, <2>2, SumMod
    <2>4. inserted - 1 + 1 = (inserted + 1) - 1
      BY <1>0
    <2>5. head_idx' = Place(inserted + 1)
      BY <2>3, <2>4 DEF Place
    <2> QED
      BY <1>0, <1>2, <2>1, <2>2, <2>5 DEF Placed, InsertAdvance, Held, Place
  <1>3. CASE InsertCount
    <2>1. curr_elements' = Held(inserted)
      <3>1. /\ curr_elements = Held(inserted - 1) /\ inserted >= 1
            /\ curr_elements' = IF curr_elements < Size
                                THEN curr_elements + 1 ELSE curr_elements
        BY <1>0, <1>3 DEF InsertCount, Placed
      <3> QED
        BY <1>0, <3>1 DEF Held
    <2> QED
      BY <1>0, <1>3, <2>1 DEF InsertCount, Placed, Held, Place
  <1>4. CASE UNCHANGED insertVars
    BY <1>0, <1>4 DEF insertVars, Placed, Held, Place
  <1> QED
    BY <1>1, <1>2, <1>3, <1>4
       DEF Next, Insert, Read, ReadTest, ReadClamp, ReadStart, LoadHead, LoadCount,
           ReadCopy, GetHead, TailBegin, TailReturn, vars

(* A field keeps the value it was loaded with.                             *)
LEMMA LoadsStep == IInv /\ [Next]_vars => LoadsMade'
  <1> SUFFICES ASSUME IInv, [Next]_vars PROVE LoadsMade'
    OBVIOUS
  <1> USE DEF readVars, loadVars, copyVars, Unload
  <1>0. /\ LoadsMade /\ inserted \in Nat /\ begun \in Nat
        /\ head_at \in Nat /\ count_at \in Nat
    BY CountIs DEF IInv
  <1>1. CASE Insert /\ UNCHANGED preempting
    <2>1. /\ UNCHANGED <<readVars, preempting>>
          /\ inserted' \in Nat /\ inserted <= inserted'
          /\ preempting = "insert" \/ read_pc = "idle"
      BY <1>0, <1>1 DEF Insert, InsertCopy, InsertAdvance, InsertCount, InsertMayRun
    <2>2. begun' <= inserted' /\ head_at' <= inserted' /\ count_at' <= inserted'
      BY <1>0, <2>1 DEF LoadsMade
    <2> QED
      BY <1>0, <2>1, <2>2 DEF LoadsMade, LoadedNow, LoadedThen
  <1>2. CASE LoadHead /\ UNCHANGED preempting
    <2>1. preempting = "insert" => head_idx = inserted % Size
      <3>1. (inserted + 1) - 1 = inserted
        BY <1>0
      <3> QED
        BY <1>2, <3>1 DEF LoadHead, ReadMayRun, IInv, Placed, Place
    <2>2. read_pc = "tail" => inserted >= 1
      BY <1>0, CountIs, IndexTypes DEF IInv, ReadProgress
    <2>3. /\ loaded_head' = head_idx /\ head_at' = inserted /\ read_pc \in {"nth", "tail"}
          /\ UNCHANGED <<insertVars, read_pc, loaded_count, count_at, copyVars, preempting>>
      BY <1>2 DEF LoadHead
    <2> QED
      BY <1>0, <2>1, <2>2, <2>3 DEF LoadsMade, LoadedNow, LoadedThen, insertVars
  <1>3. CASE LoadCount /\ UNCHANGED preempting
    <2>1. preempting = "insert" => curr_elements = Held(inserted)
      BY <1>3, CountIs DEF LoadCount, ReadMayRun
    <2>2. /\ loaded_count' = curr_elements /\ count_at' = inserted /\ read_pc \in {"nth", "tail"}
          /\ UNCHANGED <<insertVars, read_pc, loaded_head, head_at, copyVars, preempting>>
      BY <1>3 DEF LoadCount
    <2>3. Held(count_at)' = Held(count_at')
      BY DEF Held
    <2> QED
      BY <1>0, <2>1, <2>2, <2>3 DEF LoadsMade, LoadedNow, LoadedThen, insertVars, Held
  <1>4. CASE (ReadCopy \/ TailReturn) /\ UNCHANGED preempting
    BY <1>0, <1>4 DEF ReadCopy, TailReturn, LoadsMade, LoadedNow, LoadedThen, insertVars
  <1>5. CASE /\ (\E n \in 0 .. Size : ReadTest(n)) \/ ReadClamp \/ ReadStart \/ TailBegin
             /\ UNCHANGED preempting
    <2>1. /\ UNCHANGED <<insertVars, loadVars, preempting>>
          /\ begun' = begun \/ begun' = inserted
          /\ read_pc \in {"idle", "clamp", "start"}
      BY <1>5 DEF ReadTest, ReadClamp, ReadStart, TailBegin
    <2>2. loaded_head = NotLoaded /\ loaded_count = NotLoaded
      BY <1>0, <2>1 DEF LoadsMade
    <2>3. begun' <= inserted' /\ head_at' <= inserted' /\ count_at' <= inserted'
      BY <1>0, <2>1 DEF LoadsMade, insertVars
    <2> QED
      BY <1>0, <2>1, <2>2, <2>3 DEF LoadsMade, LoadedNow, LoadedThen
  <1>6. CASE UNCHANGED <<insertVars, readVars, preempting>>
    BY <1>0, <1>6 DEF LoadsMade, LoadedNow, LoadedThen, insertVars, Held
  <1> QED
    BY <1>1, <1>2, <1>3, <1>4, <1>5, <1>6 DEF Next, Read, GetHead, vars

(* An insertion in progress moves the logical contents once, when its      *)
(* element is copied; its two later stores do not move them.               *)
LEMMA LaterStoresKeepContents ==
  ASSUME TypeOK, TypeOK', InsertAdvance \/ InsertCount
  PROVE  /\ LogicalHead' = LogicalHead
         /\ LogicalCount' = LogicalCount
         /\ UNCHANGED <<buf, inserted>>
  <1> USE DEF InsertAdvance, InsertCount
  <1>1. LogicalHead' = LogicalHead
    BY DEF LogicalHead
  <1>2. LogicalCount' = LogicalCount
    BY IndexTypes DEF LogicalCount
  <1> QED
    BY <1>1, <1>2

(* The copy puts the new element after the others, and drops the oldest of *)
(* them when the buffer was full.                                          *)
LEMMA CopyMovesContents ==
  ASSUME TypeOK, TypeOK', InsertCopy
  PROVE  /\ LogicalHead' = Wrapped(LogicalHead + 1)
         /\ LogicalHead = head_idx
         /\ LogicalCount = curr_elements
         /\ LogicalCount' = IF LogicalCount < Size
                            THEN LogicalCount + 1 ELSE LogicalCount
         /\ \A n \in Nat : n < LogicalCount' =>
              IF n = LogicalCount' - 1
              THEN LogicalSlot(n)' = head_idx
              ELSE /\ LogicalSlot(n)' # head_idx
                   /\ LogicalSlot(n)' = LogicalSlot(IF LogicalCount < Size
                                                    THEN n ELSE n + 1)
  <1>1. /\ LogicalHead = head_idx
        /\ LogicalCount = curr_elements
        /\ head_idx' = head_idx
    BY DEF InsertCopy, LogicalHead, LogicalCount
  <1>2. /\ LogicalHead' = Wrapped(head_idx + 1)
        /\ LogicalCount' = IF curr_elements < Size
                           THEN curr_elements + 1 ELSE curr_elements
    BY CodeSlots DEF InsertCopy, LogicalHead, LogicalCount
  <1>3. ASSUME NEW n \in Nat, n < LogicalCount'
        PROVE  LogicalSlot(n)' = Wrapped(LogicalHead' + Size - LogicalCount' + n)
    <2> DEFINE x == LogicalHead' + Size - LogicalCount' + n
    <2>1. x \in Nat /\ x < 2 * Size
      BY <1>1, <1>2, <1>3, IndexTypes DEF Wrapped
    <2>2. LogicalSlot(n)' = x % Size
      BY DEF LogicalSlot
    <2> QED
      BY <2>1, <2>2, ModIsWrapped
  <1>4. ASSUME NEW n \in Nat, n < LogicalCount'
        PROVE  IF n = LogicalCount' - 1
               THEN LogicalSlot(n)' = head_idx
               ELSE /\ LogicalSlot(n)' # head_idx
                    /\ LogicalSlot(n)' = LogicalSlot(IF LogicalCount < Size
                                                     THEN n ELSE n + 1)
    <2> DEFINE m == IF LogicalCount < Size THEN n ELSE n + 1
    <2>1. LogicalSlot(n)' = Wrapped(Wrapped(head_idx + 1) + Size - LogicalCount' + n)
      BY <1>2, <1>3, <1>4
    <2>2. CASE n = LogicalCount' - 1
      BY <2>1, <2>2, <1>2, IndexTypes DEF Wrapped
    <2>3. CASE n # LogicalCount' - 1
      <3>1. m \in Nat /\ m < LogicalCount
        BY <2>3, <1>1, <1>2, <1>4, IndexTypes
      <3>2. LogicalSlot(m) = Wrapped(head_idx + Size - curr_elements + m)
        BY <3>1, <1>1, LogicalTypes
      <3>3. LogicalSlot(n)' = Wrapped(head_idx + Size - curr_elements + m)
        BY <2>1, <2>3, <1>1, <1>2, <1>4, IndexTypes DEF Wrapped
      <3>4. LogicalSlot(n)' # head_idx
        BY <2>1, <2>3, <1>1, <1>2, <1>4, IndexTypes DEF Wrapped
      <3> QED
        BY <2>3, <3>2, <3>3, <3>4
    <2> QED
      BY <2>2, <2>3
  <1> QED
    BY <1>1, <1>2, <1>4

(* Every step keeps the last insertions in their places.                   *)
LEMMA HoldsStep == IInv /\ TypeOK' /\ [Next]_vars => HoldsLastInsertions'
  <1> SUFFICES ASSUME IInv, TypeOK', [Next]_vars PROVE HoldsLastInsertions'
    OBVIOUS
  <1>1. CASE InsertCopy
    <2>1. /\ LogicalCount \in Nat /\ LogicalCount <= Size
          /\ inserted \in Nat /\ inserted' = inserted + 1
          /\ Size \in Nat
      <3>1. LogicalCount \in Nat /\ LogicalCount <= Size /\ Size \in Nat
        BY LogicalTypes, IndexTypes DEF IInv
      <3>2. inserted \in Nat /\ inserted' = inserted + 1
        BY <1>1, BoundAssumption DEF IInv, TypeOK, InsertCopy
      <3> QED
        BY <3>1, <3>2
    <2>2. LogicalCount' = IF inserted' < Size THEN inserted' ELSE Size
      BY <1>1, <2>1, CopyMovesContents DEF IInv, HoldsLastInsertions
    <2>3. ASSUME NEW n \in 0 .. LogicalCount' - 1
          PROVE  buf'[LogicalSlot(n)'] = inserted' - LogicalCount' + n + 1
      <3> DEFINE m == IF LogicalCount < Size THEN n ELSE n + 1
      <3>0. /\ LogicalCount' = IF LogicalCount < Size
                               THEN LogicalCount + 1 ELSE LogicalCount
            /\ n \in Nat /\ n < LogicalCount'
        BY <1>1, <2>1, <2>3, CopyMovesContents DEF IInv
      <3>1. CASE n = LogicalCount' - 1
        <4>1. LogicalSlot(n)' = head_idx
          BY <1>1, <3>0, <3>1, CopyMovesContents DEF IInv
        <4>2. buf'[head_idx] = inserted'
          BY <1>1 DEF InsertCopy, IInv, TypeOK
        <4> QED
          BY <2>1, <3>0, <3>1, <4>1, <4>2
      <3>2. CASE n # LogicalCount' - 1
        <4>1. LogicalSlot(n)' # head_idx /\ LogicalSlot(n)' = LogicalSlot(m)
          BY <1>1, <3>0, <3>2, CopyMovesContents DEF IInv
        <4>2. m \in Nat /\ m < LogicalCount
          BY <2>1, <3>0, <3>2
        <4>3. LogicalSlot(m) \in Slots
          BY <4>2, LogicalTypes DEF IInv
        <4>4. buf'[LogicalSlot(n)'] = buf[LogicalSlot(m)]
          BY <1>1, <4>1, <4>3 DEF InsertCopy, IInv, TypeOK
        <4>5. buf[LogicalSlot(m)] = inserted - LogicalCount + m + 1
          BY <2>1, <4>2 DEF IInv, HoldsLastInsertions
        <4> QED
          BY <2>1, <3>0, <4>4, <4>5
      <3> QED
        BY <3>1, <3>2
    <2> QED
      BY <2>2, <2>3 DEF HoldsLastInsertions
  <1>2. CASE InsertAdvance \/ InsertCount
    <2>1. /\ LogicalHead' = LogicalHead
          /\ LogicalCount' = LogicalCount
          /\ UNCHANGED <<buf, inserted>>
      BY <1>2, LaterStoresKeepContents DEF IInv
    <2> QED
      BY <2>1 DEF IInv, HoldsLastInsertions, LogicalSlot
  <1>3. CASE UNCHANGED insertVars
    BY <1>3 DEF IInv, insertVars, HoldsLastInsertions,
                LogicalSlot, LogicalHead, LogicalCount
  <1> QED
    BY <1>1, <1>2, <1>3
       DEF Next, Insert, Read, ReadTest, ReadClamp, ReadStart, LoadHead, LoadCount,
           ReadCopy, GetHead, TailBegin, TailReturn, vars

LEMMA Invariance == Spec => []IInv
  <1>1. IInv /\ [Next]_vars => IInv'
    BY TypeStep, HoldsStep, ProgressStep, PlacedStep, LoadsStep DEF IInv
  <1> QED
    BY <1>1, InitIInv, PTL DEF Spec

-------------------------------------------------------------------------------
(* What the loop has copied is a sequence of insertion numbers.            *)
LEMMA DestTypes ==
  ASSUME TypeOK
  PROVE  /\ dest \in Seq(Nat) /\ Len(dest) \in Nat
         /\ \A i \in 1 .. Len(dest) : dest[i] \in Nat
         /\ inserted \in Nat /\ LogicalCount \in Nat
  <1>1. dest \in Seq(Nat)
    <2>1. dest \in Seq(0 .. MaxInserts)
      BY DEF TypeOK
    <2>2. 0 .. MaxInserts \subseteq Nat
      BY BoundAssumption
    <2> QED
      BY <2>1, <2>2, SeqMonotonic
  <1>2. Len(dest) \in Nat /\ \A i \in 1 .. Len(dest) : dest[i] \in Nat
    BY <1>1, LenProperties, ElementOfSeq
  <1>3. inserted \in Nat
    BY BoundAssumption DEF TypeOK
  <1> QED
    BY <1>1, <1>2, <1>3, LogicalTypes

(* The slot a read in the interrupt computes, wherever rb_insert stands,   *)
(* has been written.                                                       *)
LEMMA InterruptReadsWritten ==
  ASSUME IInv, preempting = "read", Loaded, NEW n \in Nat, n < curr_elements
  PROVE  buf[NthSlot(n)] >= 1
  <1>1. loaded_head = head_idx /\ loaded_count = curr_elements
    BY DEF IInv, LoadsMade, LoadedNow, Loaded
  <1> DEFINE h == IF insert_pc = "advance" THEN inserted - 1 ELSE inserted
             c == curr_elements
  <1>2. /\ h \in Nat /\ c \in Nat /\ c > 0 /\ c <= Size /\ Size \in Nat
        /\ head_idx = h % Size /\ inserted \in Nat
    <2>1. inserted \in Nat /\ c \in Nat /\ c <= Size /\ Size \in Nat /\ c > 0
      BY CountIs, IndexTypes DEF IInv
    <2>2. /\ insert_pc # "idle" => inserted >= 1
          /\ head_idx = ((IF insert_pc = "advance" THEN inserted ELSE inserted + 1) - 1) % Size
      BY DEF IInv, Placed, Place
    <2>3. (IF insert_pc = "advance" THEN inserted ELSE inserted + 1) - 1 = h
      BY <2>1
    <2> QED
      BY <2>1, <2>2, <2>3
  <1>3. LogicalCount = Held(inserted)
    BY CountIs
  <1>4. CASE c < Size
    <2>1. c = IF insert_pc = "idle" THEN inserted ELSE inserted - 1
      BY <1>2, <1>4 DEF IInv, Placed, Held
    <2> DEFINE k == h - c + n + 1
    <2>2. k \in Nat /\ k >= 1 /\ k <= inserted
      BY <1>2, <2>1
    <2>3. NthSlot(n) = Place(k)
      <3>1. Size - c + n \in Nat /\ k - 1 \in Nat /\ h + (Size - c + n) = (k - 1) + Size
        BY <1>2, <2>2
      <3>2. loaded_head + Size - loaded_count + n = (h % Size) + (Size - c + n)
        <4>1. h % Size \in Nat
          BY <1>2, DivIs
        <4> QED
          BY <1>1, <1>2, <4>1
      <3>3. NthSlot(n) = ((h % Size) + (Size - c + n)) % Size
        BY <3>2 DEF NthSlot
      <3>4. ((h % Size) + (Size - c + n)) % Size = (h + (Size - c + n)) % Size
        BY <1>2, <3>1, SumMod
      <3>5. ((k - 1) + Size) % Size = (k - 1) % Size
        BY <3>1, RoundMod
      <3> QED
        BY <3>1, <3>3, <3>4, <3>5 DEF Place
    <2>4. buf[Place(k)] >= k /\ buf[Place(k)] \in Nat
      <3>1. Place(k) \in Slots
        BY <2>2, PlaceTypes
      <3> QED
        BY <2>2, <3>1, BoundAssumption DEF IInv, Placed, TypeOK
    <2> QED
      BY <2>2, <2>3, <2>4
  <1>5. CASE c = Size
    <2>1. inserted >= Size
      BY <1>2, <1>3, <1>5 DEF LogicalCount, Held
    <2>2. \E k \in Nat : k >= 1 /\ k <= Size /\ NthSlot(n) = Place(k)
      <3>1. NthSlot(n) \in 0 .. Size - 1
        BY CodeSlots DEF IInv, Slots
      <3> DEFINE s == NthSlot(n)
      <3>2. s + 1 \in Nat /\ s + 1 >= 1 /\ s + 1 <= Size /\ (s + 1) - 1 = s /\ s % Size = s
        BY <1>2, <3>1, SmallMod
      <3>3. Place(s + 1) = s
        BY <3>2 DEF Place
      <3> QED
        BY <3>2, <3>3
    <2>3. PICK k \in Nat : k >= 1 /\ k <= Size /\ NthSlot(n) = Place(k)
      BY <2>2
    <2>4. buf[Place(k)] >= k /\ buf[Place(k)] \in Nat
      <3>1. Place(k) \in Slots
        BY <2>3, PlaceTypes
      <3>2. k <= inserted
        BY <1>2, <2>1, <2>3
      <3> QED
        BY <2>3, <3>1, <3>2, BoundAssumption DEF IInv, Placed, TypeOK
    <2> QED
      BY <2>3, <2>4
  <1> QED
    BY <1>2, <1>4, <1>5

(* The oldest element held after k insertions, less one; and the latest    *)
(* moment at which this read has looked at the head.                       *)
Base(k) == k - Held(k)
Looked == IF loaded_head # NotLoaded THEN head_at ELSE inserted

(* What a read in the thread has copied so far, while the insertions since *)
(* it began fit beside the n elements it was asked for.                    *)
CopiedBy(d) ==
  /\ \A i, j \in 1 .. Len(d) : i < j => d[i] < d[j]
  /\ \A i \in 1 .. Len(d) :
       /\ d[i] >= begun - wanted + i
       /\ d[i] <= Base(Looked) + Held(begun) - wanted + i

ThreadReads ==
  /\ read_pc = "nth" => position = Held(begun) - wanted + Len(dest)
  /\ begun = inserted => ~torn
  /\ ~torn /\ inserted - begun <= Size - wanted => CopiedBy(dest)

NothingUnwritten == ~torn => \A i \in 1 .. Len(dest) : dest[i] >= 1

ReadInv == NothingUnwritten /\ (preempting = "insert" => ThreadReads)

LEMMA ReadInvInit == Init => ReadInv
  BY DEF Init, ReadInv, NothingUnwritten, ThreadReads, CopiedBy

(* Base never falls.                                                       *)
LEMMA BaseRises ==
  ASSUME NEW k \in Nat, NEW m \in Nat, k <= m
  PROVE  Base(k) \in Nat /\ Base(m) \in Nat /\ Base(k) <= Base(m)
  BY HeldIs DEF Base

(* A later look allows what an earlier one allowed.                        *)
LEMMA CopiedStays ==
  ASSUME IInv, IInv', CopiedBy(dest), UNCHANGED <<dest, begun, wanted>>,
         Looked \in Nat, Looked' \in Nat, Looked <= Looked'
  PROVE  CopiedBy(dest)'
  <1>1. /\ Len(dest) \in Nat /\ \A i \in 1 .. Len(dest) : dest[i] \in Nat
        /\ begun \in Nat /\ wanted \in Nat /\ Held(begun) \in Nat
    BY DestTypes, CountIs, HeldIs DEF IInv
  <1>2. Base(Looked) \in Nat /\ Base(Looked') \in Nat /\ Base(Looked) <= Base(Looked')
    BY BaseRises
  <1>3. Held(begun)' = Held(begun) /\ Base(Looked)' = Base(Looked')
    BY DEF Held, Base
  <1>4. ASSUME NEW i \in 1 .. Len(dest)
        PROVE  dest[i] <= Base(Looked') + Held(begun) - wanted + i
    <2>1. dest[i] <= Base(Looked) + Held(begun) - wanted + i
      BY DEF CopiedBy
    <2> HIDE DEF Looked
    <2> QED
      BY <1>1, <1>2, <2>1
  <1> QED
    BY <1>3, <1>4 DEF CopiedBy

(* The moment of the last look.                                            *)
LEMMA LookedTypes ==
  ASSUME IInv
  PROVE  Looked \in Nat /\ Looked <= inserted
  BY CountIs DEF Looked, IInv, LoadsMade

(* The arithmetic of the next lemmas: b and d are Base of the look at the  *)
(* head and of the beginning, h and c the counts then, p the position, w   *)
(* the elements wanted and l those copied.                                 *)
LEMMA NextElement ==
  ASSUME NEW b \in Nat, NEW h \in Nat, NEW c \in Nat, NEW w \in Nat, NEW l \in Nat,
         NEW p \in Nat, p = c - w + l, l < w, c <= h
  PROVE  /\ b + p + 1 \in Nat /\ b + p + 1 >= 1 /\ b + p + 1 <= b + h
         /\ b + p + 1 = b + c - w + (l + 1)
  OBVIOUS

LEMMA OnlyOne ==
  ASSUME NEW d \in Nat, NEW b \in Nat, NEW h \in Nat, NEW k \in Nat, NEW w \in Nat,
         NEW i \in Nat, b + h = k, d >= k - w + i, d <= b + h - w + i
  PROVE  d = k - w + i
  OBVIOUS

(* What one iteration of rb_get_last_n's loop copies, in the thread.       *)
LEMMA ThreadCopies ==
  ASSUME IInv, ReadInv, preempting = "insert", ReadCopy, ~LoadsTorn,
         NEW v, v = Base(head_at) + position + 1
  PROVE  /\ v \in Nat /\ v >= 1 /\ v <= inserted
         /\ begun <= head_at /\ head_at <= inserted
         /\ buf[NthSlot(position)] \in Nat
         /\ buf[NthSlot(position)] >= v
         /\ inserted < v + Size => buf[NthSlot(position)] = v
  <1>1. /\ read_pc = "nth" /\ loaded_head # NotLoaded /\ loaded_count # NotLoaded
    BY DEF ReadCopy, Loaded
  <1>2. /\ loaded_head = head_at % Size /\ loaded_count = Held(count_at)
        /\ begun <= head_at /\ head_at <= inserted
    BY <1>1 DEF IInv, LoadsMade, LoadedThen
  <1>3. loaded_count = Held(head_at)
    BY <1>2 DEF LoadsTorn
  <1>4. /\ head_at \in Nat /\ begun \in Nat /\ inserted \in Nat
        /\ wanted \in Nat /\ position \in Nat /\ Len(dest) \in Nat
    BY CountIs, DestTypes DEF IInv
  <1>5. position = Held(begun) - wanted + Len(dest) /\ Len(dest) < wanted
    BY <1>1 DEF IInv, ReadProgress, ReadInv, ThreadReads
  <1>6. /\ Held(begun) \in Nat /\ Held(head_at) \in Nat /\ Held(head_at) <= head_at
        /\ Held(begun) <= Held(head_at)
    BY <1>2, <1>4, SizeAssumption DEF Held
  <1>7. v = head_at - Held(head_at) + position + 1
    BY <1>4, <1>6 DEF Base
  <1>8. v \in Nat /\ v >= 1 /\ v <= inserted
    <2>1. Base(head_at) \in Nat /\ Base(head_at) + Held(head_at) = head_at
      BY <1>4, <1>6 DEF Base
    <2>2. v \in Nat /\ v >= 1 /\ v <= head_at
      BY <1>4, <1>5, <1>6, <2>1, NextElement
    <2> QED
      BY <1>2, <1>4, <2>2
  <1>9. NthSlot(position) = Place(v)
    BY <1>2, <1>3, <1>4, <1>7, IndexIsPlace
  <1>10. buf[Place(v)] >= v /\ (inserted < v + Size => buf[Place(v)] = v)
    BY <1>8 DEF IInv, Placed
  <1>11. buf[Place(v)] \in Nat
    <2>1. Place(v) \in Slots
      BY <1>8, PlaceTypes
    <2> QED
      BY <2>1, BoundAssumption DEF IInv, TypeOK
  <1> QED
    BY <1>2, <1>8, <1>9, <1>10, <1>11

(* A copy appends one element.                                             *)
LEMMA CopyAppends ==
  ASSUME IInv, ReadCopy
  PROVE  /\ buf[NthSlot(position)] \in Nat
         /\ Len(dest) \in Nat /\ Len(dest') = Len(dest) + 1
         /\ \A i \in 1 .. Len(dest) : dest'[i] = dest[i]
         /\ dest'[Len(dest) + 1] = buf[NthSlot(position)]
  <1>1. NthSlot(position) \in Slots
    BY CodeSlots, CountIs DEF IInv, ReadCopy
  <1>2. buf[NthSlot(position)] \in Nat
    BY <1>1, BoundAssumption DEF IInv, TypeOK
  <1>3. dest \in Seq(Nat) /\ Len(dest) \in Nat
    BY DestTypes DEF IInv
  <1>4. dest' = Append(dest, buf[NthSlot(position)])
    BY DEF ReadCopy
  <1> QED
    BY <1>2, <1>3, <1>4, AppendProperties

LEMMA ReadInvCopy ==
  ASSUME IInv, IInv', ReadInv, ReadCopy, UNCHANGED preempting
  PROVE  ReadInv'
  <1> DEFINE e == buf[NthSlot(position)]
             last == Len(dest) + 1
             v == Base(head_at) + position + 1
  <1>1. /\ e \in Nat /\ Len(dest) \in Nat /\ Len(dest') = last
        /\ \A i \in 1 .. Len(dest) : dest'[i] = dest[i]
        /\ dest'[last] = e
    BY CopyAppends
  <1>2. /\ begun \in Nat /\ wanted \in Nat /\ inserted \in Nat /\ position \in Nat
        /\ head_at \in Nat /\ count_at \in Nat /\ wanted <= Size /\ Size \in Nat
        /\ \A i \in 1 .. Len(dest) : dest[i] \in Nat
        /\ begun <= inserted
    BY CountIs, DestTypes, IndexTypes DEF IInv, LoadsMade
  <1>3. /\ position' = position + 1 /\ wanted' = wanted /\ begun' = begun
        /\ inserted' = inserted /\ torn' = (torn \/ LoadsTorn) /\ read_pc = "nth"
        /\ loaded_head # NotLoaded /\ loaded_count # NotLoaded
        /\ loaded_head' = NotLoaded
    BY DEF ReadCopy, insertVars, Loaded, Unload
  <1>4. \A i \in 1 .. last : i \in 1 .. Len(dest) \/ i = last
    BY <1>1
  <1>5. preempting = "insert" /\ ~LoadsTorn =>
          /\ v \in Nat /\ v >= 1 /\ v <= inserted
          /\ begun <= head_at /\ head_at <= inserted
          /\ e >= v /\ (inserted < v + Size => e = v)
    BY ThreadCopies
  <1>6. preempting = "read" => e >= 1
    <2>1. position < curr_elements
      BY <1>1, <1>2, <1>3, IndexTypes DEF IInv, ReadProgress
    <2> QED
      BY <1>2, <2>1, InterruptReadsWritten DEF ReadCopy
  <1>7. preempting \in {"insert", "read"}
    BY DEF IInv, LoadsMade
  <1> HIDE DEF e, last, v
  <1>8. NothingUnwritten'
    <2> SUFFICES ASSUME ~torn', NEW i \in 1 .. last PROVE dest'[i] >= 1
      BY <1>1 DEF NothingUnwritten
    <2>1. ~torn /\ ~LoadsTorn
      BY <1>3
    <2>2. CASE i \in 1 .. Len(dest)
      BY <1>1, <2>1, <2>2 DEF ReadInv, NothingUnwritten
    <2>3. CASE i = last
      <3>1. e >= 1
        BY <1>1, <1>5, <1>6, <1>7, <2>1
      <3> QED
        BY <1>1, <2>3, <3>1
    <2> QED
      BY <1>4, <2>2, <2>3
  <1>9. ASSUME preempting = "insert" PROVE ThreadReads'
    <2>1. /\ position = Held(begun) - wanted + Len(dest)
          /\ begun = inserted => ~torn
          /\ ~torn /\ inserted - begun <= Size - wanted => CopiedBy(dest)
      BY <1>3, <1>9 DEF ReadInv, ThreadReads
    <2>2. Held(begun) \in Nat /\ Held(begun) <= begun /\ Held(begun)' = Held(begun)
      BY <1>2, <1>3, HeldIs DEF Held
    <2>3. position' = Held(begun) - wanted + Len(dest')
      BY <1>1, <1>2, <1>3, <2>1, <2>2 DEF last
    <2>4. ASSUME begun' = inserted' PROVE ~torn'
      <3>1. head_at = inserted /\ count_at = inserted
        <4>1. /\ begun <= head_at /\ head_at <= inserted
              /\ begun <= count_at /\ count_at <= inserted
          BY <1>3, <1>9 DEF IInv, LoadsMade, LoadedThen
        <4> QED
          BY <1>2, <1>3, <2>4, <4>1
      <3> QED
        BY <1>3, <2>1, <2>4, <3>1 DEF LoadsTorn
    <2>5. ASSUME ~torn', inserted' - begun' <= Size - wanted'
          PROVE  CopiedBy(dest)'
      <3>1. ~torn /\ ~LoadsTorn /\ inserted - begun <= Size - wanted
        BY <1>3, <2>5
      <3>2. /\ \A i, j \in 1 .. Len(dest) : i < j => dest[i] < dest[j]
            /\ \A i \in 1 .. Len(dest) :
                 /\ dest[i] >= begun - wanted + i
                 /\ dest[i] <= Base(head_at) + Held(begun) - wanted + i
        BY <1>3, <2>1, <3>1 DEF CopiedBy, Looked
      <3>3. /\ Base(head_at) \in Nat /\ Base(inserted) \in Nat /\ Base(begun) \in Nat
            /\ Base(head_at) <= Base(inserted) /\ Base(begun) <= Base(head_at)
        BY <1>2, <1>5, <1>9, <3>1, BaseRises
      <3>4. Base(begun) + Held(begun) = begun
        BY <1>2, <2>2 DEF Base
      <3>5. v = Base(head_at) + Held(begun) - wanted + last
        <4>1. v = Base(head_at) + position + 1
          BY DEF v
        <4>2. position = Held(begun) - wanted + Len(dest)
          BY <2>1
        <4>3. Len(dest) < wanted /\ Held(begun) <= Held(head_at) /\ Held(head_at) \in Nat
          BY <1>2, <1>3, <1>5, <1>9, <3>1, SizeAssumption DEF Held, IInv, ReadProgress
        <4>4. /\ Base(head_at) \in Nat /\ Held(head_at) \in Nat /\ Held(begun) \in Nat
              /\ wanted \in Nat /\ Len(dest) \in Nat /\ position \in Nat
          BY <1>1, <1>2, <2>2, <3>3, <4>3
        <4>5. PICK b \in Nat, h \in Nat, c \in Nat, w \in Nat, l \in Nat, p \in Nat :
                 /\ b = Base(head_at) /\ h = Held(head_at) /\ c = Held(begun)
                 /\ w = wanted /\ l = Len(dest) /\ p = position
          BY <4>4
        <4>6. p = c - w + l /\ l < w /\ c <= h
          BY <4>2, <4>3, <4>5
        <4>7. b + p + 1 = b + c - w + (l + 1)
          BY <4>6, NextElement
        <4> QED
          BY <4>1, <4>5, <4>7 DEF last
      <3>6. v >= begun - wanted + last
        BY <1>1, <1>2, <2>2, <3>3, <3>4, <3>5 DEF last
      <3>7. e = v
        <4>1. inserted < v + Size
          BY <1>1, <1>2, <1>5, <1>9, <3>1, <3>6 DEF last
        <4> QED
          BY <1>5, <1>9, <3>1, <4>1
      <3>8. v \in Nat /\ last \in Nat
        BY <1>1, <1>5, <1>9, <3>1 DEF last
      <3>9. \A i \in 1 .. Len(dest) : dest[i] < e
        <4> SUFFICES ASSUME NEW i \in 1 .. Len(dest) PROVE dest[i] < e
          OBVIOUS
        <4>1. dest[i] <= Base(head_at) + Held(begun) - wanted + i /\ i < last
          BY <1>1, <3>2 DEF last
        <4> QED
          BY <1>1, <1>2, <2>2, <3>3, <3>5, <3>7, <3>8, <4>1
      <3>10. ASSUME NEW i \in 1 .. last, NEW j \in 1 .. last, i < j
             PROVE  dest'[i] < dest'[j]
        <4>1. i \in 1 .. Len(dest)
          BY <1>1, <3>10 DEF last
        <4>2. CASE j = last
          BY <1>1, <3>9, <4>1, <4>2
        <4>3. CASE j \in 1 .. Len(dest)
          BY <1>1, <3>2, <3>10, <4>1, <4>3
        <4> QED
          BY <1>4, <4>2, <4>3
      <3>11. ASSUME NEW i \in 1 .. last
             PROVE  /\ dest'[i] >= begun - wanted + i
                    /\ dest'[i] <= Base(inserted) + Held(begun) - wanted + i
        <4>1. CASE i = last
          BY <1>1, <1>2, <2>2, <3>3, <3>5, <3>6, <3>7, <3>8, <4>1
        <4>2. CASE i \in 1 .. Len(dest)
          <5>1. /\ dest[i] >= begun - wanted + i
                /\ dest[i] <= Base(head_at) + Held(begun) - wanted + i
                /\ dest'[i] = dest[i] /\ dest[i] \in Nat
            BY <1>1, <1>2, <3>2, <4>2
          <5> QED
            BY <1>2, <2>2, <3>3, <5>1
        <4> QED
          BY <1>4, <4>1, <4>2
      <3>12. Looked' = inserted /\ Base(Looked)' = Base(inserted)
        BY <1>3 DEF Looked, Base, Held
      <3> QED
        BY <1>1, <1>3, <2>2, <3>10, <3>11, <3>12 DEF CopiedBy
    <2> QED
      BY <1>3, <2>2, <2>3, <2>4, <2>5 DEF ThreadReads
  <1> QED
    BY <1>8, <1>9 DEF ReadInv

(* An insertion while the loop stands.                                     *)
LEMMA ReadInvInsert ==
  ASSUME IInv, IInv', ReadInv, Insert, UNCHANGED preempting
  PROVE  ReadInv'
  <1>1. /\ UNCHANGED readVars
        /\ inserted \in Nat /\ inserted' \in Nat /\ inserted <= inserted'
        /\ begun \in Nat /\ wanted \in Nat /\ Size \in Nat /\ begun <= inserted
    BY CountIs, IndexTypes
       DEF Insert, InsertCopy, InsertAdvance, InsertCount, IInv, LoadsMade
  <1>2. NothingUnwritten'
    BY <1>1 DEF ReadInv, NothingUnwritten, readVars, copyVars
  <1>3. ASSUME preempting = "insert" PROVE ThreadReads'
    <2>1. Looked \in Nat /\ Looked' \in Nat /\ Looked <= Looked'
      <3>1. Looked \in Nat /\ Looked <= inserted
        BY LookedTypes
      <3>2. Looked' = Looked \/ Looked' = inserted'
        BY <1>1 DEF Looked, readVars, loadVars
      <3> QED
        BY <1>1, <3>1, <3>2
    <2>2. ASSUME ~torn', inserted' - begun' <= Size - wanted'
          PROVE  CopiedBy(dest)'
      <3>1. ~torn /\ inserted - begun <= Size - wanted
        <4>1. begun' = begun /\ wanted' = wanted
          BY <1>1 DEF readVars, copyVars
        <4>2. ~torn
          BY <1>1, <2>2 DEF readVars, copyVars
        <4>3. inserted' - begun <= Size - wanted
          BY <2>2, <4>1
        <4>5. PICK x \in Nat, y \in Nat, z \in Nat, w \in Nat, n \in Nat :
                 x = inserted /\ y = inserted' /\ z = begun /\ w = wanted /\ n = Size
          BY <1>1
        <4>6. x <= y /\ y - z <= n - w
          BY <1>1, <4>3, <4>5
        <4>7. x - z <= n - w
          BY <4>6
        <4>4. inserted - begun <= Size - wanted
          BY <4>5, <4>7
        <4> QED
          BY <4>2, <4>4
      <3>2. CopiedBy(dest)
        BY <1>3, <3>1 DEF ReadInv, ThreadReads
      <3> QED
        BY <1>1, <2>1, <3>2, CopiedStays DEF readVars, copyVars
    <2>3. begun' = inserted' => ~torn'
      BY <1>1, <1>3 DEF ReadInv, ThreadReads, readVars, copyVars
    <2>4. read_pc' = "nth" => position' = Held(begun)' - wanted' + Len(dest')
      BY <1>1, <1>3 DEF ReadInv, ThreadReads, readVars, copyVars, Held
    <2> QED
      BY <2>2, <2>3, <2>4 DEF ThreadReads
  <1> QED
    BY <1>2, <1>3 DEF ReadInv

(* Before its first copy a read has copied nothing.                        *)
LEMMA ReadInvStart ==
  ASSUME IInv, ReadInv, UNCHANGED preempting,
         (\E n \in 0 .. Size : ReadTest(n)) \/ ReadClamp \/ ReadStart
  PROVE  ReadInv'
  <1>1. dest' = << >> /\ ~torn' /\ inserted' = inserted
    BY DEF ReadTest, ReadClamp, ReadStart, IInv, ReadProgress, insertVars
  <1>2. Len(dest') = 0
    BY <1>1
  <1>3. ASSUME preempting = "insert", read_pc' = "nth"
        PROVE  position' = Held(begun)' - wanted' + Len(dest')
    <2>1. ReadStart
      BY <1>3 DEF ReadTest, ReadClamp
    <2>2. /\ position' = curr_elements - wanted /\ begun' = inserted /\ wanted' = wanted
          /\ curr_elements = Held(inserted)
      BY <1>3, <2>1, CountIs DEF ReadStart, ReadMayRun
    <2>3. Held(begun)' = Held(inserted) /\ wanted \in Nat /\ curr_elements \in Nat
      BY <2>2, CountIs, IndexTypes DEF Held, IInv
    <2> QED
      BY <1>2, <2>2, <2>3
  <1> QED
    BY <1>1, <1>2, <1>3 DEF ReadInv, NothingUnwritten, ThreadReads, CopiedBy

LEMMA ReadInvStep == IInv /\ IInv' /\ ReadInv /\ [Next]_vars => ReadInv'
  <1> SUFFICES ASSUME IInv, IInv', ReadInv, [Next]_vars PROVE ReadInv'
    OBVIOUS
  <1>1. CASE Insert /\ UNCHANGED preempting
    BY <1>1, ReadInvInsert
  <1>2. CASE /\ (\E n \in 0 .. Size : ReadTest(n)) \/ ReadClamp \/ ReadStart
             /\ UNCHANGED preempting
    BY <1>2, ReadInvStart
  <1>3. CASE ReadCopy /\ UNCHANGED preempting
    BY <1>3, ReadInvCopy
  <1>4. CASE /\ LoadHead \/ LoadCount \/ GetHead \/ TailBegin \/ TailReturn \/ UNCHANGED vars
             /\ UNCHANGED preempting
    <2>1. /\ UNCHANGED <<position, dest, wanted, begun, torn, preempting, inserted>>
          /\ read_pc' = "nth" => read_pc = "nth"
      BY <1>4 DEF LoadHead, LoadCount, GetHead, TailBegin, TailReturn,
                  copyVars, insertVars, readVars, vars
    <2>2. Looked \in Nat /\ Looked' \in Nat /\ Looked <= Looked'
      <3>1. Looked \in Nat /\ Looked <= inserted /\ inserted \in Nat
        BY LookedTypes, CountIs
      <3>2. Looked' = Looked \/ Looked' = inserted
        BY <1>4 DEF LoadHead, LoadCount, GetHead, TailBegin, TailReturn, Looked, Unload,
                    loadVars, copyVars, insertVars, readVars, vars, NotLoaded
      <3> QED
        BY <3>1, <3>2
    <2>3. CopiedBy(dest) => CopiedBy(dest)'
      BY <2>1, <2>2, CopiedStays
    <2>4. Held(begun)' = Held(begun)
      BY <2>1 DEF Held
    <2>5. NothingUnwritten'
      BY <2>1 DEF ReadInv, NothingUnwritten
    <2>6. preempting = "insert" => ThreadReads'
      BY <2>1, <2>3, <2>4 DEF ReadInv, ThreadReads
    <2> QED
      BY <2>1, <2>5, <2>6 DEF ReadInv
  <1> QED
    BY <1>1, <1>2, <1>3, <1>4 DEF Next, Read, vars

(* What the read invariant says of the promises of rb_get_last_n.          *)
LEMMA ReadInvSound == IInv /\ ReadInv => ReadSound
  <1> SUFFICES ASSUME IInv, ReadInv PROVE ReadSound
    OBVIOUS
  <1>1. /\ Len(dest) \in Nat /\ \A i \in 1 .. Len(dest) : dest[i] \in Nat
        /\ begun \in Nat /\ wanted \in Nat /\ inserted \in Nat /\ Size \in Nat
        /\ wanted <= Size /\ position \in Nat /\ curr_elements \in Nat
    BY CountIs, DestTypes, IndexTypes DEF IInv
  <1>2. InBounds
    BY <1>1 DEF InBounds, IInv, ReadProgress
  <1>3. NoGarbage
    BY <1>1 DEF NoGarbage, ReadInv, NothingUnwritten
  <1>4. InOrder
    BY DEF InOrder, ReadInv, ThreadReads, CopiedBy
  <1>5. ReadExact
    <2> SUFFICES ASSUME preempting = "insert", begun = inserted, NEW i \in 1 .. Len(dest)
                 PROVE  dest[i] = inserted - wanted + i
      BY DEF ReadExact
    <2>1. CopiedBy(dest)
      BY <1>1 DEF ReadInv, ThreadReads
    <2>2. Looked = begun
      <3>1. Looked <= inserted /\ Looked \in Nat
        BY LookedTypes
      <3>2. begun <= Looked
        BY <1>1 DEF Looked, IInv, LoadsMade, LoadedThen
      <3> HIDE DEF Looked
      <3> QED
        BY <1>1, <3>1, <3>2
    <2>3. Held(begun) \in Nat /\ Base(begun) + Held(begun) = begun /\ Base(begun) \in Nat
      <3>1. Held(begun) \in Nat /\ Held(begun) <= begun
        BY <1>1, HeldIs
      <3> QED
        BY <1>1, <3>1 DEF Base
    <2>4. /\ dest[i] >= begun - wanted + i
          /\ dest[i] <= Base(begun) + Held(begun) - wanted + i
      BY <2>1, <2>2 DEF CopiedBy
    <2>5. dest[i] \in Nat /\ i \in Nat
      BY <1>1
    <2>6. wanted \in Nat /\ begun \in Nat
      BY <1>1
    <2>8. PICK d \in Nat, b \in Nat, h \in Nat, k \in Nat, w \in Nat :
             d = dest[i] /\ b = Base(begun) /\ h = Held(begun) /\ k = begun /\ w = wanted
      BY <2>3, <2>5, <2>6
    <2>9. b + h = k /\ d >= k - w + i /\ d <= b + h - w + i
      BY <2>3, <2>4, <2>8
    <2>7. dest[i] = begun - wanted + i
      <3>1. d = k - w + i
        BY <2>5, <2>9, OnlyOne
      <3> QED
        BY <2>8, <3>1
    <2> QED
      BY <2>7
  <1> QED
    BY <1>2, <1>3, <1>4, <1>5 DEF ReadSound

-------------------------------------------------------------------------------
(* The pointer of rb_get_head or rb_get_tail leads to the place of the     *)
(* element asked for; slack counts the insertions until that place is due. *)
PointerHeld ==
  preempting = "insert" =>
    /\ pointer.taken <= inserted
    /\ \/ pointer.slack = -1
       \/ /\ pointer.value + Size - 1 = pointer.taken + pointer.slack
          /\ pointer.value >= 1 /\ pointer.value <= pointer.taken
          /\ pointer.slot = Place(pointer.value)

LEMMA PointerTypes ==
  ASSUME TypeOK
  PROVE  /\ pointer.slot \in Slots /\ pointer.value \in Nat
         /\ pointer.slack \in Int /\ pointer.taken \in Nat
  BY SizeAssumption, BoundAssumption DEF TypeOK, Slots

LEMMA PointerInit == Init => PointerHeld
  BY DEF Init, PointerHeld, NoPointer

(* rb_get_head leads to the newest element.                                *)
LEMMA HeadPointer ==
  ASSUME IInv, GetHead, UNCHANGED preempting
  PROVE  PointerHeld'
  <1> SUFFICES ASSUME preempting = "insert" PROVE PointerHeld'
    BY DEF PointerHeld
  <1>1. /\ pointer'.slot = HeadSlot /\ pointer'.value = inserted
        /\ pointer'.slack = Size - 1 /\ pointer'.taken = inserted
        /\ inserted' = inserted /\ insert_pc = "idle" /\ curr_elements > 0
    BY DEF GetHead, insertVars, ReadMayRun
  <1>2. inserted \in Nat /\ inserted >= 1 /\ Size \in Nat /\ Size > 0
    BY <1>1, CountIs, IndexTypes DEF IInv
  <1>3. head_idx = inserted % Size
    <2>1. (inserted + 1) - 1 = inserted
      BY <1>2
    <2> QED
      BY <1>1, <2>1 DEF IInv, Placed, Place
  <1>4. HeadSlot = Place(inserted)
    <2>1. /\ Size - 1 \in Nat /\ inserted - 1 \in Nat
          /\ inserted + (Size - 1) = (inserted - 1) + Size
      BY <1>2
    <2>2. inserted % Size \in Nat
      BY <1>2, DivIs
    <2>3. HeadSlot = ((inserted % Size) + (Size - 1)) % Size
      <3>1. head_idx + Size - 1 = (inserted % Size) + (Size - 1)
        BY <1>2, <1>3, <2>2
      <3> QED
        BY <3>1 DEF HeadSlot
    <2>4. ((inserted % Size) + (Size - 1)) % Size = (inserted + (Size - 1)) % Size
      BY <1>2, <2>1, SumMod
    <2>5. ((inserted - 1) + Size) % Size = (inserted - 1) % Size
      BY <2>1, RoundMod
    <2> QED
      BY <2>1, <2>3, <2>4, <2>5 DEF Place
  <1> QED
    BY <1>1, <1>2, <1>4 DEF PointerHeld, Place

(* rb_get_tail leads to the oldest element held when it loaded head_idx,   *)
(* unless its index was torn.                                              *)
LEMMA TailPointer ==
  ASSUME IInv, TailReturn, UNCHANGED preempting
  PROVE  PointerHeld'
  <1> SUFFICES ASSUME preempting = "insert" PROVE PointerHeld'
    BY DEF PointerHeld
  <1> DEFINE v == head_at - Held(head_at) + 1
  <1>1. /\ pointer'.slot = NthSlot(0) /\ pointer'.value = v
        /\ pointer'.slack = (IF LoadsTorn THEN -1 ELSE Size - Held(head_at))
        /\ pointer'.taken = head_at /\ inserted' = inserted
        /\ read_pc = "tail" /\ loaded_head # NotLoaded /\ loaded_count # NotLoaded
    BY DEF TailReturn, insertVars, Loaded
  <1>2. /\ loaded_head = head_at % Size /\ loaded_count = Held(count_at)
        /\ head_at <= inserted /\ head_at >= 1
    BY <1>1 DEF IInv, LoadsMade, LoadedThen
  <1>3. /\ head_at \in Nat /\ Held(head_at) \in Nat /\ Held(head_at) >= 1
        /\ Held(head_at) <= head_at /\ Size \in Nat
    BY <1>2, CountIs, HeldIs, IndexTypes DEF IInv
  <1>4. CASE LoadsTorn
    BY <1>1, <1>2, <1>4 DEF PointerHeld
  <1>5. CASE ~LoadsTorn
    <2>1. loaded_count = Held(head_at)
      BY <1>2, <1>5 DEF LoadsTorn
    <2>2. NthSlot(0) = Place(head_at - Held(head_at) + 0 + 1)
      BY <1>2, <1>3, <2>1, IndexIsPlace
    <2>3. head_at - Held(head_at) + 0 + 1 = v
      BY <1>3
    <2>4. v \in Nat /\ v >= 1 /\ v <= head_at /\ v + Size - 1 = head_at + (Size - Held(head_at))
      BY <1>3
    <2>5. Place(pointer.value)' = Place(pointer'.value)
      BY DEF Place
    <2> HIDE DEF v
    <2> QED
      BY <1>1, <1>2, <1>5, <2>2, <2>3, <2>4, <2>5 DEF PointerHeld
  <1> QED
    BY <1>4, <1>5

LEMMA PointerStep == IInv /\ PointerHeld /\ [Next]_vars => PointerHeld'
  <1> SUFFICES ASSUME IInv, PointerHeld, [Next]_vars PROVE PointerHeld'
    OBVIOUS
  <1>1. CASE GetHead /\ UNCHANGED preempting
    BY <1>1, HeadPointer
  <1>2. CASE TailReturn /\ UNCHANGED preempting
    BY <1>2, TailPointer
  <1>3. CASE UNCHANGED <<pointer, preempting>> /\ inserted' \in Nat /\ inserted <= inserted'
    <2>1. inserted \in Nat /\ pointer.taken \in Nat
      BY CountIs, PointerTypes DEF IInv
    <2> QED
      BY <1>3, <2>1 DEF PointerHeld, Place
  <1>4. inserted \in Nat
    BY CountIs
  <1> QED
    BY <1>1, <1>2, <1>3, <1>4
       DEF Next, Insert, Read, InsertCopy, InsertAdvance, InsertCount, ReadTest, ReadClamp,
           ReadStart, LoadHead, LoadCount, ReadCopy, TailBegin, insertVars, vars

(* Until slack insertions have begun the place holds the element.          *)
LEMMA PointerHeldStable == IInv /\ PointerHeld => PointerStable
  <1> SUFFICES ASSUME IInv, PointerHeld, preempting = "insert",
                      inserted - pointer.taken <= pointer.slack
               PROVE  buf[pointer.slot] = pointer.value
    BY DEF PointerStable
  <1>1. /\ pointer.value \in Nat /\ pointer.slack \in Int /\ pointer.taken \in Nat
        /\ inserted \in Nat /\ Size \in Nat /\ pointer.taken <= inserted
    BY PointerTypes, CountIs, IndexTypes DEF IInv, PointerHeld
  <1>2. pointer.slack # -1
    BY <1>1
  <1>3. /\ pointer.value + Size - 1 = pointer.taken + pointer.slack
        /\ pointer.value >= 1 /\ pointer.value <= pointer.taken
        /\ pointer.slot = Place(pointer.value)
    BY <1>2 DEF PointerHeld
  <1>4. pointer.value <= inserted /\ inserted < pointer.value + Size
    BY <1>1, <1>3
  <1> QED
    BY <1>1, <1>3, <1>4 DEF IInv, Placed

-------------------------------------------------------------------------------
(* The refinement of LastN.                                                *)
ContentsHeld ==
  /\ Contents \in Seq(Nat) /\ Len(Contents) = LogicalCount
  /\ \A i \in 1 .. LogicalCount : Contents[i] = inserted - LogicalCount + i

LEMMA ContentsAre == IInv => ContentsHeld
  <1> SUFFICES ASSUME IInv PROVE ContentsHeld
    OBVIOUS
  <1>1. /\ LogicalCount \in Nat /\ inserted \in Nat /\ Size \in Nat
        /\ LogicalCount <= inserted
    BY DestTypes, IndexTypes DEF IInv, HoldsLastInsertions
  <1>2. ASSUME NEW i \in 1 .. LogicalCount
        PROVE  buf[LogicalSlot(i - 1)] = inserted - LogicalCount + i
    <2>1. i - 1 \in 0 .. LogicalCount - 1
      BY <1>1
    <2>2. buf[LogicalSlot(i - 1)] = inserted - LogicalCount + (i - 1) + 1
      BY <2>1 DEF IInv, HoldsLastInsertions
    <2> QED
      BY <1>1, <2>2
  <1>3. Contents \in [1 .. LogicalCount -> Nat]
    BY <1>1, <1>2 DEF Contents
  <1>4. Contents \in Seq(Nat)
    BY <1>1, <1>3, SeqDef
  <1>5. Len(Contents) \in Nat /\ DOMAIN Contents = 1 .. Len(Contents)
    BY <1>4, LenProperties
  <1>6. Len(Contents) = LogicalCount
    BY <1>1, <1>3, <1>5
  <1> QED
    BY <1>2, <1>4, <1>6 DEF Contents, ContentsHeld

LEMMA PromiseInit == Init => Promise!Init
  <1> SUFFICES ASSUME Init PROVE Contents = << >> /\ inserted = 0
    BY DEF Promise!Init
  <1>1. Contents \in Seq(Nat) /\ Len(Contents) = 0
    BY InitIInv, ContentsAre DEF Init, LogicalCount, ContentsHeld
  <1> QED
    BY <1>1, EmptySeq DEF Init

LEMMA PromiseStep ==
  IInv /\ IInv' /\ [Next]_vars => [Promise!Next]_<<Contents, inserted>>
  <1> SUFFICES ASSUME IInv, IInv', [Next]_vars
               PROVE  [Promise!Next]_<<Contents, inserted>>
    OBVIOUS
  <1>1. /\ Contents \in Seq(Nat) /\ Len(Contents) = LogicalCount
        /\ \A i \in 1 .. LogicalCount : Contents[i] = inserted - LogicalCount + i
    BY ContentsAre DEF ContentsHeld
  <1>2. /\ Contents' \in Seq(Nat) /\ Len(Contents') = LogicalCount'
        /\ \A i \in 1 .. LogicalCount' :
             Contents'[i] = inserted' - LogicalCount' + i
    <2>1. ContentsHeld'
      BY ContentsAre, PTL
    <2> QED
      BY <2>1 DEF ContentsHeld
  <1>3. CASE InsertCopy
    <2>1. /\ inserted \in Nat /\ inserted' = inserted + 1 /\ inserted < MaxInserts
          /\ LogicalCount \in Nat /\ LogicalCount <= Size /\ Size \in Nat
          /\ Size > 0
          /\ LogicalCount' = IF LogicalCount < Size
                             THEN LogicalCount + 1 ELSE LogicalCount
      BY <1>3, DestTypes, LogicalTypes, IndexTypes, CopyMovesContents
         DEF IInv, InsertCopy
    <2>2. CASE LogicalCount < Size
      <3>1. /\ Append(Contents, inserted') \in Seq(Nat)
            /\ Len(Append(Contents, inserted')) = LogicalCount + 1
            /\ \A i \in 1 .. LogicalCount : Append(Contents, inserted')[i] = Contents[i]
            /\ Append(Contents, inserted')[LogicalCount + 1] = inserted'
        BY <1>1, <2>1, AppendProperties
      <3>2. ASSUME NEW i \in 1 .. LogicalCount + 1
            PROVE  Contents'[i] = Append(Contents, inserted')[i]
        <4>0. LogicalCount' = LogicalCount + 1
          BY <2>1, <2>2
        <4>1. Contents'[i] = inserted - LogicalCount + i
          <5>1. i \in 1 .. LogicalCount' /\ i \in Nat
            BY <2>1, <4>0
          <5>2. Contents'[i] = inserted' - LogicalCount' + i
            BY <1>2, <5>1
          <5> QED
            BY <2>1, <4>0, <5>1, <5>2
        <4>2. CASE i = LogicalCount + 1
          <5>1. Contents'[i] = inserted + 1
            BY <2>1, <4>1, <4>2
          <5> QED
            BY <2>1, <3>1, <4>2, <5>1
        <4>3. CASE i \in 1 .. LogicalCount
          BY <1>1, <3>1, <4>1, <4>3
        <4>4. i = LogicalCount + 1 \/ i \in 1 .. LogicalCount
          BY <2>1
        <4> QED
          BY <4>2, <4>3, <4>4
      <3>3. Contents' = Append(Contents, inserted')
        BY <1>2, <2>1, <2>2, <3>1, <3>2, SeqEqual
      <3> QED
        BY <1>1, <2>1, <2>2, <3>3 DEF Promise!Next, Promise!Insert
    <2>3. CASE LogicalCount = Size
      <3>1. /\ Tail(Contents) \in Seq(Nat) /\ Len(Tail(Contents)) = Size - 1
            /\ \A i \in 1 .. Size - 1 : Tail(Contents)[i] = Contents[i + 1]
        <4>1. Contents # << >>
          BY <1>1, <2>1, <2>3
        <4>2. /\ Tail(Contents) \in Seq(Nat)
              /\ Len(Tail(Contents)) = Len(Contents) - 1
              /\ \A i \in 1 .. Len(Tail(Contents)) : Tail(Contents)[i] = Contents[i + 1]
          BY <1>1, <4>1, HeadTailProperties
        <4> QED
          BY <1>1, <2>3, <4>2
      <3> DEFINE t == Tail(Contents)
      <3>2. /\ Append(t, inserted') \in Seq(Nat)
            /\ Len(Append(t, inserted')) = Size
            /\ \A i \in 1 .. Size - 1 : Append(t, inserted')[i] = t[i]
            /\ Append(t, inserted')[Size] = inserted'
        <4>1. inserted' \in Nat /\ Len(t) + 1 = Size /\ Len(t) = Size - 1
          BY <2>1, <3>1
        <4>2. /\ Append(t, inserted') \in Seq(Nat)
              /\ Len(Append(t, inserted')) = Len(t) + 1
              /\ \A i \in 1 .. Len(t) : Append(t, inserted')[i] = t[i]
              /\ Append(t, inserted')[Len(t) + 1] = inserted'
          BY <3>1, <4>1, AppendProperties
        <4> QED
          BY <4>1, <4>2
      <3> HIDE DEF t
      <3>3. ASSUME NEW i \in 1 .. Size
            PROVE  Contents'[i] = Append(t, inserted')[i]
        <4>0. LogicalCount' = Size
          BY <2>1, <2>3
        <4>1. Contents'[i] = inserted + 1 - Size + i
          <5>1. i \in 1 .. LogicalCount' /\ i \in Nat
            BY <2>1, <4>0
          <5>2. Contents'[i] = inserted' - LogicalCount' + i
            BY <1>2, <5>1
          <5> QED
            BY <2>1, <4>0, <5>1, <5>2
        <4>2. CASE i = Size
          <5>1. Contents'[i] = inserted + 1
            BY <2>1, <4>1, <4>2
          <5> QED
            BY <2>1, <3>2, <4>2, <5>1
        <4>3. CASE i \in 1 .. Size - 1
          <5>1. i + 1 \in 1 .. LogicalCount
            BY <2>1, <2>3, <4>3
          <5>2. t[i] = inserted - Size + (i + 1)
            BY <1>1, <2>3, <3>1, <4>3, <5>1 DEF t
          <5>3. inserted - Size + (i + 1) = inserted + 1 - Size + i
            BY <2>1, <4>3
          <5> QED
            BY <3>2, <4>1, <4>3, <5>2, <5>3
        <4>4. i = Size \/ i \in 1 .. Size - 1
          BY <2>1
        <4> QED
          BY <4>2, <4>3, <4>4
      <3>4. Len(Contents') = Size
        BY <1>2, <2>1, <2>3
      <3>5. Contents' = Append(t, inserted')
        BY <1>2, <3>2, <3>3, <3>4, SeqEqual
      <3> QED
        BY <1>1, <2>1, <2>3, <3>5 DEF Promise!Next, Promise!Insert, t
    <2> QED
      BY <2>1, <2>2, <2>3
  <1>4. CASE InsertAdvance \/ InsertCount
    <2>1. inserted' = inserted /\ LogicalCount' = LogicalCount
      BY <1>4, LaterStoresKeepContents DEF IInv
    <2>2. Contents' = Contents
      BY <1>1, <1>2, <2>1, SeqEqual
    <2> QED
      BY <2>1, <2>2
  <1>5. CASE UNCHANGED insertVars
    BY <1>5 DEF insertVars, Contents, LogicalSlot, LogicalHead, LogicalCount
  <1> QED
    BY <1>3, <1>4, <1>5
       DEF Next, Insert, Read, ReadTest, ReadClamp, ReadStart, LoadHead, LoadCount,
           ReadCopy, GetHead, TailBegin, TailReturn, vars

(* The indices of the ring buffer stay inside the buffer and the count     *)
(* inside its capacity, for every capacity and interleaving.               *)
THEOREM TypeCorrect == Spec => []TypeOK
  BY Invariance, PTL DEF IInv

(* For every capacity, the slots from tail to head hold the last           *)
(* insertions, oldest first.                                               *)
THEOREM LastInsertionsHeld == Spec => []HoldsLastInsertions
  BY Invariance, PTL DEF IInv

(* Split at its loads and copies and interrupted anywhere, rb_get_last_n   *)
(* copies no slot that was never written, unless an index was torn; while  *)
(* the insertions that interrupt it fit beside the n elements asked for,   *)
(* none twice and none after a newer one; and without any, the newest.     *)
THEOREM ReadsSound == Spec => []ReadSound
  <1>1. Init => ReadInv
    BY ReadInvInit
  <1> QED
    BY <1>1, Invariance, ReadInvStep, ReadInvSound, PTL DEF Spec

(* For every capacity, the pointer rb_get_head or rb_get_tail returned     *)
(* stays good until the insertions that were due before its slot are done, *)
(* also when they come between rb_get_tail's loads and its return.         *)
THEOREM PointersStable == Spec => []PointerStable
  BY PointerInit, Invariance, PointerStep, PointerHeldStable, PTL DEF Spec

(* rb_insert, split at its stores and preempted anywhere, implements the   *)
(* promise of ringbuffer.h: it appends, and drops the oldest when full.    *)
THEOREM ImplementsLastN == Spec => KeepsLastN
  <1>1. Spec => Promise!Init /\ [][Promise!Next]_<<Contents, inserted>>
    BY PromiseInit, Invariance, PromiseStep, PTL DEF Spec
  <1> QED
    BY <1>1 DEF KeepsLastN, Promise!Spec

-------------------------------------------------------------------------------
(***************************************************************************)
(* The timer and the debounce.                                             *)
(***************************************************************************)
(* The timer's fields against its history.                                 *)
TimerInv ==
  /\ TimerTypeOK
  /\ active => armed /\ end_time = deadline
  /\ completed => armed /\ uptime >= deadline
  /\ armed => active \/ completed
  /\ ~(active /\ completed)
  /\ AnswersTruthfully

(* No started timer ends after the first wrap of the tick.                 *)
EndsBeforeWrap ==
  MaxUptime < Modulus /\ \A d \in Durations : MaxUptime + d < Modulus

(* Before the first wrap the tick is the uptime.                           *)
LEMMA TickIsUptime ==
  ASSUME uptime \in Nat, uptime < Modulus
  PROVE  HAL_GetTick = uptime
  BY ModulusAssumption, SMT DEF HAL_GetTick

LEMMA EndIsDeadline ==
  ASSUME uptime \in Nat, NEW d \in Nat, uptime + d < Modulus
  PROVE  (HAL_GetTick + d) % Modulus = uptime + d
  <1>1. HAL_GetTick = uptime
    BY ModulusAssumption, TickIsUptime
  <1>2. (uptime + d) % Modulus = uptime + d
    BY ModulusAssumption, SMT
  <1> QED
    BY <1>1, <1>2

(* While no started timer ends after the first wrap of the tick,           *)
(* is_timer_expired tells the truth.                                       *)
THEOREM TimerCorrect ==
  ASSUME EndsBeforeWrap
  PROVE  TimerSpec => []AnswersTruthfully
  <1> USE ModulusAssumption, UptimeAssumption
  <1>1. TimerInit => TimerInv
    <2> SUFFICES ASSUME TimerInit PROVE TimerInv
      OBVIOUS
    <2>0. 0 \in 0 .. MaxUptime /\ 0 \in 0 .. Modulus - 1 /\ 0 \in Nat
      OBVIOUS
    <2>1. TimerTypeOK
      BY <2>0 DEF TimerInit, TimerTypeOK
    <2>2. AnswersTruthfully
      BY DEF TimerInit, AnswersTruthfully
    <2> QED
      BY <2>1, <2>2 DEF TimerInit, TimerInv
  <1>2. TimerInv /\ [TimerNext]_timerVars => TimerInv'
    <2> SUFFICES ASSUME TimerInv, [TimerNext]_timerVars PROVE TimerInv'
      OBVIOUS
    <2> USE DEF TimerInv, TimerTypeOK, AnswersTruthfully, timerFields, timerHistory
    <2>0. HAL_GetTick = uptime /\ uptime \in Nat /\ uptime <= MaxUptime
      BY TickIsUptime DEF EndsBeforeWrap
    <2>1. ASSUME NEW d \in Durations, start_timer(d), answer' = "none",
                 UNCHANGED uptime
          PROVE  TimerInv'
      <3>1. d \in Nat /\ uptime + d < Modulus
        BY <2>0, DurationsAssumption DEF EndsBeforeWrap
      <3>2. (HAL_GetTick + d) % Modulus = uptime + d
        BY <3>1, <2>0, EndIsDeadline
      <3>3. uptime' = uptime /\ start_time' = uptime /\ end_time' = uptime + d
            /\ active' = TRUE /\ completed' = FALSE /\ armed' = TRUE
            /\ deadline' = uptime + d /\ answer' = "none"
        BY <2>0, <2>1, <3>2 DEF start_timer
      <3>4. start_time' \in 0 .. Modulus - 1 /\ end_time' \in 0 .. Modulus - 1
            /\ deadline' \in Nat
        BY <2>0, <3>1, <3>3, SMT
      <3>5. TimerTypeOK'
        BY <3>3, <3>4
      <3> QED
        BY <3>3, <3>5
    <2>2. CASE Cancel
      BY <2>2 DEF Cancel, cancel_timer
    <2>3. CASE Ask
      BY <2>0, <2>3 DEF Ask, is_timer_expired
    <2>4. CASE Wait
      BY <2>4 DEF Wait, Tick
    <2>5. CASE UNCHANGED timerVars
      BY <2>5 DEF timerVars
    <2> QED
      BY <2>1, <2>2, <2>3, <2>4, <2>5 DEF TimerNext, Start
  <1> QED
    BY <1>1, <1>2, PTL DEF TimerSpec, TimerInv

-------------------------------------------------------------------------------
(* What the debounce adds: an active timer was started at last_start, all  *)
(* samples since then were high, and it ends a period later.               *)
HeldInv ==
  /\ DebounceTypeOK
  /\ active => /\ end_time = last_start + Period
               /\ is_high
               /\ high_since <= last_start
               /\ ~completed
  /\ last_start <= uptime /\ high_since <= uptime
  /\ CallbackMeansHeld

(* The numbers of DebounceTypeOK, apart from its Boolean conjuncts.                 *)
NumbersOK ==
  /\ uptime \in 0 .. MaxUptime
  /\ start_time \in 0 .. Modulus - 1 /\ end_time \in 0 .. Modulus - 1
  /\ deadline \in Nat
  /\ high_since \in 0 .. MaxUptime /\ last_sample \in 0 .. MaxUptime
  /\ last_start \in 0 .. MaxUptime /\ last_call \in 0 .. MaxUptime

FlagsOK ==
  /\ active \in BOOLEAN /\ completed \in BOOLEAN /\ armed \in BOOLEAN
  /\ answer \in {"none", "yes", "no"}
  /\ called \in BOOLEAN /\ is_high \in BOOLEAN

TimerInvariant ==
  /\ active => /\ end_time = last_start + Period
               /\ is_high
               /\ high_since <= last_start
               /\ ~completed
  /\ last_start <= uptime /\ high_since <= uptime
  /\ CallbackMeansHeld

LEMMA Parts == HeldInv <=> NumbersOK /\ FlagsOK /\ TimerInvariant
  BY DEF HeldInv, NumbersOK, FlagsOK, TimerInvariant, DebounceTypeOK, TimerTypeOK

LEMMA PartsNext == HeldInv' <=> NumbersOK' /\ FlagsOK' /\ TimerInvariant'
  BY DEF HeldInv, NumbersOK, FlagsOK, TimerInvariant, DebounceTypeOK, TimerTypeOK

LEMMA DebounceStep ==
  ASSUME MaxUptime + Period < Modulus, HeldInv, [DebounceNext]_debounceVars
  PROVE  HeldInv'
  <1> USE DEF timerFields, timerHistory, CallbackMeansHeld
  <1>0. NumbersOK /\ FlagsOK /\ TimerInvariant
    BY Parts
  <1>t. HAL_GetTick = uptime /\ uptime \in Nat /\ uptime <= MaxUptime
    BY <1>0, ModulusAssumption, UptimeAssumption, PeriodAssumption, TickIsUptime
       DEF NumbersOK
  <1>1. CASE DebounceStart
    <2>1. (HAL_GetTick + Period) % Modulus = uptime + Period
      <3>1. uptime + Period < Modulus
        BY <1>t, PeriodAssumption, UptimeAssumption, ModulusAssumption
      <3> QED
        BY <1>t, <3>1, PeriodAssumption, EndIsDeadline
    <2>2. /\ uptime' = uptime /\ start_time' = uptime
          /\ end_time' = uptime + Period /\ deadline' = uptime + Period
          /\ last_start' = uptime /\ last_call' = last_call
          /\ high_since' \in {uptime, high_since} /\ last_sample' = uptime
          /\ called' = FALSE /\ is_high' = TRUE /\ answer' = "none"
          /\ active' = TRUE /\ completed' = FALSE /\ armed' = TRUE
      BY <1>1, <1>t, <2>1 DEF DebounceStart, Sample, start_timer
    <2>3. NumbersOK'
      BY <1>0, <1>t, <2>2, ModulusAssumption, UptimeAssumption,
         PeriodAssumption, SMT DEF NumbersOK
    <2>4. FlagsOK'
      BY <1>0, <2>2 DEF FlagsOK
    <2>5. TimerInvariant'
      BY <1>0, <1>t, <2>2, SMT DEF TimerInvariant, NumbersOK
    <2> QED
      BY <2>3, <2>4, <2>5, PartsNext
  <1>2. CASE DebounceCancel
    <2> USE <1>0, <1>2 DEF DebounceCancel, Sample, cancel_timer
    <2>1. NumbersOK'
      BY DEF NumbersOK
    <2>2. FlagsOK'
      BY DEF FlagsOK
    <2>3. TimerInvariant'
      BY DEF TimerInvariant
    <2> QED
      BY <2>1, <2>2, <2>3, PartsNext
  <1>3. CASE DebounceCheck
    <2>0. /\ UNCHANGED <<uptime, start_time, end_time, deadline, armed>>
          /\ answer' = (IF completed' THEN "yes" ELSE "no")
          /\ last_start' = last_start /\ last_call' \in {uptime, last_call}
          /\ last_sample' = uptime
          /\ is_high' = TRUE /\ called' = completed'
          /\ active /\ high_since' \in {uptime, high_since}
          /\ is_high => high_since' = high_since
      BY <1>3, <1>0 DEF DebounceCheck, Sample, is_timer_expired, is_timer_active,
         FlagsOK
    <2>1. \/ HAL_GetTick >= end_time /\ active' = FALSE /\ completed' = TRUE
          \/ ~(HAL_GetTick >= end_time) /\ UNCHANGED <<active, completed>>
      BY <1>3, <2>0 DEF DebounceCheck, is_timer_expired
    <2>2. NumbersOK'
      BY <1>0, <2>0 DEF NumbersOK
    <2>3. FlagsOK'
      BY <1>0, <2>0, <2>1 DEF FlagsOK
    <2>4. TimerInvariant'
      <3>1. end_time = last_start + Period /\ is_high /\ high_since <= last_start
            /\ ~completed /\ last_start <= uptime /\ high_since' = high_since
        BY <1>0, <2>0 DEF TimerInvariant
      <3>2. CASE uptime >= end_time /\ active' = FALSE /\ completed' = TRUE
        <4>1. uptime - high_since >= Period
          BY <1>0, <3>1, <3>2, PeriodAssumption DEF NumbersOK
        <4> QED
          BY <2>0, <3>1, <3>2, <4>1, <1>0 DEF TimerInvariant, NumbersOK
      <3>3. CASE UNCHANGED <<active, completed>>
        BY <2>0, <3>1, <3>3, <1>0 DEF TimerInvariant, NumbersOK
      <3> QED
        BY <2>1, <1>t, <3>2, <3>3
    <2> QED
      BY <2>2, <2>3, <2>4, PartsNext
  <1>4. CASE DebounceNothing
    <2> USE <1>0, <1>4 DEF DebounceNothing, Sample, is_timer_active
    <2>1. NumbersOK'
      BY DEF NumbersOK
    <2>2. FlagsOK'
      BY DEF FlagsOK
    <2>3. TimerInvariant'
      BY DEF TimerInvariant
    <2> QED
      BY <2>1, <2>2, <2>3, PartsNext
  <1>5. CASE Pass
    <2>0. /\ uptime' = uptime + 1 /\ uptime < MaxUptime /\ called' = FALSE
          /\ answer' = "none"
          /\ UNCHANGED <<start_time, end_time, active, completed, armed,
                         deadline, high_since, is_high,
                         last_sample, last_start, last_call>>
      BY <1>5 DEF Pass, Tick, history
    <2>1. NumbersOK'
      BY <1>0, <2>0, UptimeAssumption DEF NumbersOK
    <2>2. FlagsOK'
      BY <1>0, <2>0 DEF FlagsOK
    <2>3. TimerInvariant'
      BY <1>0, <1>t, <2>0 DEF TimerInvariant, NumbersOK
    <2> QED
      BY <2>1, <2>2, <2>3, PartsNext
  <1>6. CASE UNCHANGED debounceVars
    <2>1. NumbersOK'
      BY <1>0, <1>6 DEF NumbersOK, debounceVars, timerVars, history
    <2>2. FlagsOK'
      BY <1>0, <1>6 DEF FlagsOK, debounceVars, timerVars, history
    <2>3. TimerInvariant'
      BY <1>0, <1>6 DEF TimerInvariant, debounceVars, timerVars, history
    <2> QED
      BY <2>1, <2>2, <2>3, PartsNext
  <1> QED
    BY <1>1, <1>2, <1>3, <1>4, <1>5, <1>6 DEF DebounceNext, debounce

LEMMA HeldInit == DebounceInit => HeldInv
  <1> SUFFICES ASSUME DebounceInit PROVE HeldInv
    OBVIOUS
  <1>0. 0 \in 0 .. MaxUptime /\ 0 \in 0 .. Modulus - 1 /\ 0 \in Nat /\ 0 <= 0
    BY ModulusAssumption, UptimeAssumption
  <1>1. NumbersOK
    BY <1>0 DEF DebounceInit, TimerInit, NumbersOK
  <1>2. FlagsOK
    BY DEF DebounceInit, TimerInit, FlagsOK
  <1>3. TimerInvariant
    BY <1>0 DEF DebounceInit, TimerInit, TimerInvariant, CallbackMeansHeld
  <1> QED
    BY <1>1, <1>2, <1>3, Parts

(* Before the tick wraps, a callback is called only for a signal that was  *)
(* high in every sample of the last period.                                *)
THEOREM CallbackJustified ==
  ASSUME MaxUptime + Period < Modulus
  PROVE  DebounceSpec => []CallbackMeansHeld
  <1>1. HeldInv /\ [DebounceNext]_debounceVars => HeldInv'
    BY DebounceStep
  <1> QED
    BY HeldInit, <1>1, PTL DEF DebounceSpec, HeldInv

(* No callback since the running timer was started.                        *)
CallInv == last_call <= uptime /\ (active => last_call <= last_start)

LEMMA CallStep ==
  ASSUME MaxUptime + Period < Modulus, HeldInv, CallInv, [DebounceNext]_debounceVars
  PROVE  CallInv'
  <1>0. NumbersOK /\ FlagsOK
    BY Parts
  <1>t. uptime \in Nat /\ last_call \in Nat /\ last_start \in Nat
    BY <1>0 DEF NumbersOK
  <1>1. CASE DebounceStart
    BY <1>1, <1>t DEF CallInv, DebounceStart, Sample, start_timer
  <1>2. CASE DebounceCancel
    BY <1>2 DEF CallInv, DebounceCancel, Sample, cancel_timer
  <1>3. CASE DebounceCheck
    <2>1. /\ active /\ last_call' = IF completed' THEN uptime ELSE last_call
          /\ UNCHANGED <<uptime, last_start>>
          /\ \/ active' = FALSE /\ completed' = TRUE
             \/ UNCHANGED <<active, completed>>
      BY <1>3 DEF DebounceCheck, Sample, is_timer_expired, is_timer_active
    <2>2. completed = FALSE /\ last_call <= uptime /\ last_call <= last_start
      BY <1>0, <2>1 DEF HeldInv, CallInv, FlagsOK
    <2>3. CASE active' = FALSE /\ completed' = TRUE
      BY <1>t, <2>1, <2>3 DEF CallInv
    <2>4. CASE UNCHANGED <<active, completed>>
      BY <2>1, <2>2, <2>4 DEF CallInv
    <2> QED
      BY <2>1, <2>3, <2>4
  <1>4. CASE DebounceNothing
    BY <1>4 DEF CallInv, DebounceNothing, Sample, timerFields
  <1>5. CASE Pass
    BY <1>5, <1>t DEF CallInv, Pass, Tick, timerFields, history
  <1>6. CASE UNCHANGED debounceVars
    BY <1>6 DEF CallInv, debounceVars, timerVars, timerFields, history
  <1> QED
    BY <1>1, <1>2, <1>3, <1>4, <1>5, <1>6 DEF DebounceNext, debounce

(* What a step that samples a high signal under a running timer does.      *)
LEMMA CallbackStep ==
  ASSUME MaxUptime + Period < Modulus, HeldInv, CallInv, DebounceNext
  PROVE  /\ called' /\ last_call # 0 => uptime - last_call >= Period
         /\ active /\ is_high' /\ uptime' = uptime /\ uptime - last_start >= Period => called'
  <1>0. NumbersOK /\ FlagsOK
    BY Parts
  <1>t. /\ HAL_GetTick = uptime /\ uptime \in Nat /\ last_call \in Nat /\ last_start \in Nat
        /\ Period \in Nat
    BY <1>0, ModulusAssumption, UptimeAssumption, PeriodAssumption, TickIsUptime DEF NumbersOK
  <1>1. CASE DebounceCheck
    <2>1. /\ active /\ called' = completed'
          /\ IF uptime >= end_time THEN completed' = TRUE ELSE completed' = completed
      BY <1>1, <1>t DEF DebounceCheck, is_timer_expired, is_timer_active
    <2>2. completed = FALSE /\ end_time = last_start + Period /\ last_call <= last_start
      BY <1>0, <2>1 DEF HeldInv, CallInv, FlagsOK
    <2>3. CASE uptime >= end_time
      <3>1. uptime - last_call >= Period
        BY <1>t, <2>2, <2>3
      <3> QED
        BY <2>1, <2>3, <3>1
    <2>4. CASE ~(uptime >= end_time)
      <3>1. ~(uptime - last_start >= Period)
        BY <1>t, <2>2, <2>4
      <3> QED
        BY <2>1, <2>2, <2>4, <3>1
    <2> QED
      BY <2>3, <2>4
  <1>2. CASE DebounceStart \/ DebounceCancel \/ DebounceNothing
    BY <1>2 DEF DebounceStart, DebounceCancel, DebounceNothing, Sample, is_timer_active
  <1>3. CASE Pass
    BY <1>3, <1>t DEF Pass, Tick
  <1> QED
    BY <1>1, <1>2, <1>3 DEF DebounceNext, debounce

(* Before the tick wraps: two callbacks are a period or more apart, and a  *)
(* high sample a period or more after the timer's start calls back.        *)
THEOREM CallbacksEachPeriod ==
  ASSUME MaxUptime + Period < Modulus
  PROVE  DebounceSpec => CallbackEachPeriod
  <1>1. DebounceInit => CallInv
    BY DEF DebounceInit, TimerInit, CallInv
  <1>2. HeldInv /\ [DebounceNext]_debounceVars => HeldInv'
    BY DebounceStep
  <1>3. HeldInv /\ CallInv /\ [DebounceNext]_debounceVars => CallInv'
    BY CallStep
  <1>4. HeldInv /\ CallInv /\ [DebounceNext]_debounceVars =>
          [called' /\ last_call # 0 => uptime - last_call >= Period]_debounceVars
    BY CallbackStep
  <1>5. HeldInv /\ CallInv /\ [DebounceNext]_debounceVars =>
          [active /\ is_high' /\ uptime' = uptime /\ uptime - last_start >= Period
             => called']_debounceVars
    BY CallbackStep
  <1> QED
    BY HeldInit, <1>1, <1>2, <1>3, <1>4, <1>5, PTL
       DEF DebounceSpec, CallbackEachPeriod, CallbacksSpaced, ExpiryNotMissed
================================================================================
