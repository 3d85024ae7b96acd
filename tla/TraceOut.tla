------------------------------- MODULE TraceOut -------------------------------
(***************************************************************************)
(* traceX/src/tracex.c and traceX/src/traceout.c: recording a ThreadX trace*)
(* into a buffer and dumping that buffer, chunk by chunk, from interrupts. *)
(* A suffixed name (Trigger_NoStop) is a fault seeded in the definition of *)
(* the name before the suffix; no behaviour of the specification uses it.  *)
(*                                                                         *)
(* Three contexts share the static variables: a thread that calls the      *)
(* tracex functions, the interrupt that asks for a dump                    *)
(* (traceout_start_from_isr) and the interrupt of the transmitter          *)
(* (traceout_on_tx_complete_from_isr).  stack holds the contexts that have *)
(* begun, the running one last: an interrupt preempts the thread at any    *)
(* step, and the other interrupt when its priority is the higher one.      *)
(***************************************************************************)
EXTENDS Naturals, Sequences, SequencesExt

CONSTANTS
  ChunkBytes,       \* TRACEOUT_CHUNK_BYTES
  Sizes,            \* buffer sizes an application may give tracex_init
  Modulus,          \* 2^32, the range of s_remaining and of a pointer
  HigherPriority,   \* "trigger", "complete" or "none"
  CallsAfterArming  \* "start", "stop": what threads call once traceout_init
                    \* has been called and dumps may happen

ASSUME ChunkAssumption == ChunkBytes \in Nat \ {0}
ASSUME SizesAssumption ==
  Modulus \in Nat \ {0} /\ Sizes \subseteq Nat /\ \A s \in Sizes : s < Modulus
ASSUME PriorityAssumption == HigherPriority \in {"trigger", "complete", "none"}
ASSUME CallsAssumption == CallsAfterArming \subseteq {"start", "stop"}

VARIABLES
  s_trace_size,      \* s_trace_buffer is set exactly when this is not 0
  s_tracex_started,
  tracing,           \* ThreadX is writing trace events into the buffer
  s_tx_fn,           \* TRUE when the transmit callback is set
  s_output_active,
  s_dp,              \* offset of s_dp in the buffer
  s_remaining,
  in_flight,         \* the transmitter is sending a chunk
  out,               \* history: offsets handed to the transmitter
  stack, pc,
  n                  \* the local n of start_next_chunk, per context

traceVars == <<s_trace_size, s_tracex_started, tracing>>
outVars == <<s_tx_fn, s_output_active, s_dp, s_remaining, in_flight, out, n>>
vars == <<traceVars, outVars, stack, pc>>

Contexts == {"thread", "trigger", "complete"}
Running == Last(stack)

Init ==
  /\ s_trace_size = 0
  /\ s_tracex_started = FALSE
  /\ tracing = FALSE
  /\ s_tx_fn = FALSE
  /\ s_output_active = FALSE
  /\ s_dp = 0
  /\ s_remaining = 0
  /\ in_flight = FALSE
  /\ out = << >>
  /\ stack = <<"thread">>
  /\ pc = [c \in Contexts |-> "idle"]
  /\ n = [c \in Contexts |-> 0]

MayInterrupt(c) ==
  \/ Running = "thread"
  \/ HigherPriority = c /\ ~Contains(stack, c)

(* The interrupt c begins at a label. *)
Enter(c, label) ==
  /\ stack' = Append(stack, c)
  /\ pc' = [pc EXCEPT ![c] = label]

(* The running context goes on at a label, or returns.                     *)
Goto(label) ==
  /\ pc' = [pc EXCEPT ![Running] = label]
  /\ stack' = IF label = "idle" /\ Running # "thread" THEN Front(stack) ELSE stack

At(label) == pc[Running] = label

-------------------------------------------------------------------------------
(* The calls a thread makes. *)
ThreadIdle == Running = "thread" /\ At("idle")

tracex_init ==
  /\ ThreadIdle
  /\ s_trace_size = 0
  /\ s_trace_size' \in Sizes
  /\ UNCHANGED <<s_tracex_started, tracing, outVars, stack, pc>>

traceout_init ==
  /\ ThreadIdle
  /\ ~s_tx_fn /\ s_trace_size # 0
  /\ s_tx_fn' = TRUE
  /\ UNCHANGED <<traceVars, s_output_active, s_dp, s_remaining, in_flight, out, n,
                 stack, pc>>

(* The guards of tracex_start and tracex_stop, where they are called.      *)
StartLabel == IF s_tracex_started \/ s_trace_size = 0 THEN "idle" ELSE "enable"

ThreadStart ==
  /\ ThreadIdle
  /\ s_tx_fn => "start" \in CallsAfterArming
  /\ StartLabel # "idle"
  /\ Goto(StartLabel)
  /\ UNCHANGED <<traceVars, outVars>>

ThreadStop ==
  /\ ThreadIdle
  /\ s_tx_fn => "stop" \in CallsAfterArming
  /\ s_tracex_started
  /\ Goto("disable")
  /\ UNCHANGED <<traceVars, outVars>>

(* tracex_start: tx_trace_enable, then the flag. *)
Enable ==
  /\ At("enable")
  /\ tracing' = TRUE
  /\ Goto("started")
  /\ UNCHANGED <<s_trace_size, s_tracex_started, outVars>>

Started ==
  /\ At("started")
  /\ s_tracex_started' = TRUE
  /\ Goto("idle")
  /\ UNCHANGED <<s_trace_size, tracing, outVars>>

(* tracex_stop: tx_trace_disable, then the flag; traceout_start_from_isr   *)
(* goes on to load the buffer.                                             *)
Disable ==
  /\ At("disable")
  /\ tracing' = FALSE
  /\ Goto("stopped")
  /\ UNCHANGED <<s_trace_size, s_tracex_started, outVars>>

Stopped ==
  /\ At("stopped")
  /\ s_tracex_started' = FALSE
  /\ Goto(IF Running = "trigger" THEN "load" ELSE "idle")
  /\ UNCHANGED <<s_trace_size, tracing, outVars>>

-------------------------------------------------------------------------------
Trigger_NoStop ==
  /\ MayInterrupt("trigger")
  /\ s_tx_fn
  /\ ~s_output_active
  /\ Enter("trigger", "load")
  /\ UNCHANGED <<traceVars, outVars>>

(* traceout_start_from_isr up to its call of tracex_stop. *)
Trigger ==
  /\ MayInterrupt("trigger")
  /\ s_tx_fn
  /\ ~s_output_active
  /\ Enter("trigger", IF s_tracex_started THEN "disable" ELSE "load")
  /\ UNCHANGED <<traceVars, outVars>>

Load ==
  /\ At("load")
  /\ s_dp' = 0
  /\ s_remaining' = s_trace_size
  /\ s_output_active' = TRUE
  /\ out' = << >>
  /\ Goto("chunk")
  /\ UNCHANGED <<traceVars, s_tx_fn, in_flight, n>>

Finish_StaysActive ==
  /\ At("chunk")
  /\ s_remaining = 0
  /\ Goto("restart")
  /\ UNCHANGED <<traceVars, outVars>>

Restart_Forgotten ==
  /\ At("restart")
  /\ Goto("idle")
  /\ UNCHANGED <<traceVars, outVars>>

Transmit_NoChunkLimit ==
  /\ At("chunk")
  /\ s_remaining # 0
  /\ n' = [n EXCEPT ![Running] = s_remaining]
  /\ out' = out \o [i \in 1 .. s_remaining |-> s_dp + i - 1]
  /\ in_flight' = TRUE
  /\ Goto("account")
  /\ UNCHANGED <<traceVars, s_tx_fn, s_output_active, s_dp, s_remaining>>

Account_KeepsPointer ==
  /\ At("account")
  /\ s_remaining' = (s_remaining + Modulus - n[Running]) % Modulus
  /\ n' = [n EXCEPT ![Running] = 0]
  /\ Goto("idle")
  /\ UNCHANGED <<traceVars, s_tx_fn, s_output_active, s_dp, in_flight, out>>

Account_KeepsRemaining ==
  /\ At("account")
  /\ s_dp' = (s_dp + n[Running]) % Modulus
  /\ n' = [n EXCEPT ![Running] = 0]
  /\ Goto("idle")
  /\ UNCHANGED <<traceVars, s_tx_fn, s_output_active, s_remaining, in_flight, out>>

(* start_next_chunk: the end of the dump, or a call of the transmit        *)
(* callback followed by the accounting of the bytes it was given.          *)
Finish ==
  /\ At("chunk")
  /\ s_remaining = 0
  /\ s_output_active' = FALSE
  /\ Goto("restart")
  /\ UNCHANGED <<traceVars, s_tx_fn, s_dp, s_remaining, in_flight, out, n>>

Restart ==
  /\ At("restart")
  /\ Goto(StartLabel)
  /\ UNCHANGED <<traceVars, outVars>>

Transmit ==
  LET k == IF s_remaining > ChunkBytes THEN ChunkBytes ELSE s_remaining
  IN  /\ At("chunk")
      /\ s_remaining # 0
      /\ n' = [n EXCEPT ![Running] = k]
      /\ out' = out \o [i \in 1 .. k |-> s_dp + i - 1]
      /\ in_flight' = TRUE
      /\ Goto("account")
      /\ UNCHANGED <<traceVars, s_tx_fn, s_output_active, s_dp, s_remaining>>

Account ==
  /\ At("account")
  /\ s_dp' = (s_dp + n[Running]) % Modulus
  /\ s_remaining' = (s_remaining + Modulus - n[Running]) % Modulus
  /\ n' = [n EXCEPT ![Running] = 0]
  /\ Goto("idle")
  /\ UNCHANGED <<traceVars, s_tx_fn, s_output_active, in_flight, out>>

(* traceout_on_tx_complete_from_isr, when the transmitter has finished.    *)
TxComplete ==
  /\ in_flight
  /\ MayInterrupt("complete")
  /\ in_flight' = FALSE
  /\ IF s_output_active THEN Enter("complete", "chunk") ELSE UNCHANGED <<stack, pc>>
  /\ UNCHANGED <<traceVars, s_tx_fn, s_output_active, s_dp, s_remaining, out, n>>

-------------------------------------------------------------------------------
Step == Enable \/ Started \/ Disable \/ Stopped
          \/ Load \/ Finish \/ Restart \/ Transmit \/ Account
Call == tracex_init \/ traceout_init \/ ThreadStart \/ ThreadStop
Next == Step \/ Call \/ Trigger \/ TxComplete

Spec == Init /\ [][Next]_vars

(* The processor runs, and the transmitter finishes what it was given.     *)
FairSpec == Spec /\ WF_vars(Step) /\ WF_vars(TxComplete)
-------------------------------------------------------------------------------
TypeOK ==
  /\ s_trace_size \in Sizes \cup {0}
  /\ s_tracex_started \in BOOLEAN /\ tracing \in BOOLEAN
  /\ s_tx_fn \in BOOLEAN /\ s_output_active \in BOOLEAN /\ in_flight \in BOOLEAN
  /\ s_dp \in 0 .. Modulus - 1 /\ s_remaining \in 0 .. Modulus - 1
  /\ out \in Seq(Nat)
  /\ stack \in Seq(Contexts)
  /\ pc \in [Contexts -> {"idle", "enable", "started", "disable", "stopped",
                          "load", "chunk", "account", "restart"}]
  /\ n \in [Contexts -> 0 .. ChunkBytes]

(* Nothing writes the trace buffer while it is being sent: the interrupt   *)
(* handlers stop recording before the dump and restart it only after.      *)
NotTracedWhileDumped == s_output_active => ~tracing

(* A transfer under way belongs to the dump under way, and what is left to *)
(* send (s_remaining) is what has not been handed out yet (s_dp), so that  *)
(* no two completions can work on the same chunk.                          *)
OneTransferPerDump ==
  /\ in_flight => s_output_active
  /\ s_output_active /\ pc["complete"] = "idle" /\ pc["trigger"] = "idle" =>
       in_flight /\ s_dp + s_remaining = s_trace_size

(* The chunks handed to the transmit callback are the trace buffer, byte   *)
(* for byte, and the dump ends only with the last one.                     *)
Dump == INSTANCE TraceDump WITH length <- s_trace_size, dumping <- s_output_active
DumpsBuffer == Dump!Spec

(* Every dump comes to its end, and recording is running again then.       *)
DumpEnds == s_output_active ~> ~s_output_active
RecordingResumes == s_output_active ~> tracing
DumpsComplete == DumpEnds /\ RecordingResumes

(* traceout.h: the callback is given a pointer into the data buffer and    *)
(* the number of bytes to transmit from there.                             *)
ChunkInBuffer == \A i \in 1 .. Len(out) : out[i] < s_trace_size
===============================================================================
