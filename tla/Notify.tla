-------------------------------- MODULE Notify --------------------------------
(***************************************************************************)
(* os/src/rtos_utils.c: queue_and_set_flag puts a message in a CMSIS queue *)
(* without waiting and then sets a flag of the thread that empties it.     *)
(* Producers (threads and interrupts) interleave between the two calls.    *)
(* The consumer is application code: it waits for the flag, clears it and  *)
(* takes messages until the queue is empty.                                *)
(***************************************************************************)
EXTENDS Naturals, Sequences

CONSTANTS
  Producers,
  Capacity,   \* of the queue
  MaxCalls    \* bound on the calls of each producer

NotifyAssumption == Capacity \in Nat \ {0} /\ MaxCalls \in Nat

VARIABLES
  queue, flag,
  calls,      \* calls made by each producer
  between,    \* the producers between the two calls of queue_and_set_flag
  status,     \* what each producer's last osMessageQueuePut returned
  consumer,   \* "waiting" for the flag or "draining" the queue
  accepted,   \* history: messages that were put with osOK
  received    \* history: messages the consumer took

vars == <<queue, flag, calls, between, status, consumer, accepted, received>>

Init ==
  /\ queue = <<>> /\ flag = FALSE
  /\ calls = [p \in Producers |-> 0]
  /\ between = {}
  /\ status = [p \in Producers |-> "osOK"]
  /\ consumer = "waiting"
  /\ accepted = {} /\ received = {}

(* osMessageQueuePut with a timeout of 0.                                  *)
Enqueue_NoLimit(p) ==
  LET message == <<p, calls[p] + 1>> IN
  /\ queue' = Append(queue, message)
  /\ accepted' = accepted \union {message}
  /\ status' = [status EXCEPT ![p] = "osOK"]

Enqueue(p) ==
  LET message == <<p, calls[p] + 1>> IN
  \/ /\ Len(queue) < Capacity
     /\ queue' = Append(queue, message)
     /\ accepted' = accepted \union {message}
     /\ status' = [status EXCEPT ![p] = "osOK"]
  \/ /\ Len(queue) = Capacity
     /\ status' = [status EXCEPT ![p] = "osErrorResource"]
     /\ UNCHANGED <<queue, accepted>>

NewCall(p) ==
  /\ p \notin between
  /\ calls[p] < MaxCalls

osMessageQueuePut(p) ==
  /\ NewCall(p)
  /\ Enqueue(p)
  /\ calls' = [calls EXCEPT ![p] = @ + 1]
  /\ between' = between \union {p}
  /\ UNCHANGED <<flag, consumer, received>>

(* The flag is set whether or not the message was accepted.                *)
osThreadFlagsSet_OnlyWhenFirst(p) ==
  /\ p \in between
  /\ flag' = (flag \/ Len(queue) = 1)
  /\ between' = between \ {p}
  /\ UNCHANGED <<queue, calls, status, consumer, accepted, received>>

osThreadFlagsSet(p) ==
  /\ p \in between
  /\ flag' = TRUE
  /\ between' = between \ {p}
  /\ UNCHANGED <<queue, calls, status, consumer, accepted, received>>

queue_and_set_flag_FlagFirst(p) ==
  \/ /\ NewCall(p)
     /\ flag' = TRUE /\ between' = between \union {p}
     /\ UNCHANGED <<queue, calls, status, consumer, accepted, received>>
  \/ /\ p \in between
     /\ Enqueue(p)
     /\ calls' = [calls EXCEPT ![p] = @ + 1]
     /\ between' = between \ {p}
     /\ UNCHANGED <<flag, consumer, received>>

queue_and_set_flag(p) == osMessageQueuePut(p) \/ osThreadFlagsSet(p)

Wake ==
  /\ consumer = "waiting" /\ flag
  /\ flag' = FALSE /\ consumer' = "draining"
  /\ UNCHANGED <<queue, calls, between, status, accepted, received>>

Take ==
  /\ consumer = "draining" /\ queue # <<>>
  /\ queue' = Tail(queue) /\ received' = received \union {Head(queue)}
  /\ UNCHANGED <<flag, calls, between, status, consumer, accepted>>

Wait ==
  /\ consumer = "draining" /\ queue = <<>>
  /\ consumer' = "waiting"
  /\ UNCHANGED <<queue, flag, calls, between, status, accepted, received>>

Next == Wake \/ Take \/ Wait \/ \E p \in Producers : queue_and_set_flag(p)

(* A producer finishes its call and the consumer runs when it can: the     *)
(* scheduler is preemptive and the consumer is the only one that waits.    *)
Fairness ==
  /\ WF_vars(Wake \/ Take \/ Wait)
  /\ \A p \in Producers : WF_vars(p \in between /\ queue_and_set_flag(p))

Spec == Init /\ [][Next]_vars /\ Fairness

-------------------------------------------------------------------------------
TypeOK ==
  /\ queue \in Seq(Producers \X (1 .. MaxCalls)) /\ Len(queue) <= Capacity
  /\ flag \in BOOLEAN
  /\ calls \in [Producers -> 0 .. MaxCalls]
  /\ between \subseteq Producers
  /\ status \in [Producers -> {"osOK", "osErrorResource"}]
  /\ consumer \in {"waiting", "draining"}

(* A consumer that goes to sleep with no flag set, and no producer about   *)
(* to set it, leaves no message behind in the queue: the flag is set after *)
(* the message is in, so the wake-up cannot be lost.                       *)
NothingStranded ==
  consumer = "waiting" /\ ~flag /\ between = {} => queue = <<>>

(* Every message that was accepted reaches the consumer.                   *)
Delivered ==
  \A p \in Producers, n \in 1 .. MaxCalls :
    <<p, n>> \in accepted ~> <<p, n>> \in received
===============================================================================
