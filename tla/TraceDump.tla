------------------------------ MODULE TraceDump ------------------------------
(***************************************************************************)
(* What a trace dump is to whoever reads the serial line: chunks that      *)
(* follow each other without gap or repetition and together are the trace  *)
(* buffer, byte for byte, before the dump is declared over.  out is what   *)
(* has been handed to the transmitter since the dump began, each byte      *)
(* named by its offset in the buffer.                                      *)
(***************************************************************************)
EXTENDS Naturals, Sequences

CONSTANTS ChunkBytes, Sizes

VARIABLES length, dumping, out

Init == length = 0 /\ dumping = FALSE /\ out = << >>

Provide ==
  /\ ~dumping /\ length = 0
  /\ length' \in Sizes
  /\ UNCHANGED <<dumping, out>>

Begin ==
  /\ ~dumping
  /\ dumping' = TRUE
  /\ out' = << >>
  /\ UNCHANGED length

SendChunk ==
  /\ dumping
  /\ \E k \in 1 .. ChunkBytes :
       /\ Len(out) + k <= length
       /\ out' = [i \in 1 .. Len(out) + k |-> i - 1]
  /\ UNCHANGED <<length, dumping>>

End ==
  /\ dumping
  /\ Len(out) = length
  /\ dumping' = FALSE
  /\ UNCHANGED <<length, out>>

Next == Provide \/ Begin \/ SendChunk \/ End

Spec == Init /\ [][Next]_<<length, dumping, out>>
==============================================================================
