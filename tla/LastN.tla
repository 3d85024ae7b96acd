-------------------------------- MODULE LastN --------------------------------
(***************************************************************************)
(* What middleware's ring buffer promises (middleware/include/ringbuffer.h:*)
(* "Insert an element at the head of the ringbuffer.  Overwrites data at   *)
(* the tail if the RB is full."): its contents are the last Size elements  *)
(* inserted, oldest first.  Elements are told apart by their insertion     *)
(* number, the strongest distinction a client can make.                    *)
(***************************************************************************)
EXTENDS Naturals, Sequences

CONSTANTS Size, MaxInserts

VARIABLES contents, inserted

Init ==
  /\ contents = << >>
  /\ inserted = 0

(* An insertion appends; the oldest element goes when there is no room.    *)
Insert ==
  /\ inserted < MaxInserts
  /\ inserted' = inserted + 1
  /\ contents' = IF Len(contents) < Size
                 THEN Append(contents, inserted')
                 ELSE Append(Tail(contents), inserted')

Next == Insert

Spec == Init /\ [][Next]_<<contents, inserted>>
==============================================================================
