-------------------------------- MODULE TxQueue --------------------------------
(***************************************************************************)
(* threadX/src/u_tx_queues.c: queues of messages of any size in bytes on   *)
(* top of ThreadX queues, whose messages are whole 32-bit words.  Threads  *)
(* create objects from the byte pool (TxCreate), one of them the queue;    *)
(* once it exists they send and receive: each copies a message into a      *)
(* buffer on its stack and hands that to ThreadX.                          *)
(*                                                                         *)
(* What a message holds is abstracted to which message it is and how many  *)
(* of its bytes survive the copies.  ThreadX's queue is external: a send   *)
(* or receive is atomic, and one that waits ends when it can.              *)
(* A suffixed name is a fault seeded in the definition before the suffix.  *)
(***************************************************************************)
EXTENDS TxCreate, Sequences, FiniteSetsExt

CONSTANTS
  TheQueue,      \* the queue_t the threads send on
  message_size,  \* bytes of a message
  capacity,      \* messages the queue is to hold
  MaxWords       \* the longest message ThreadX accepts, in words

QueueAssumption ==
  TheQueue \in Objects /\ message_size \in Nat \ {0} /\ capacity \in Nat \ {0}

VARIABLES
  queue,
  buffer, got,        \* of each thread: on its stack, and the caller's
  accepted, received  \* history: messages in ThreadX's order

poolVars == <<blocks, memory, object>>
queueVars == <<queue, buffer, got, accepted, received>>
vars == <<poolVars, pc, calls, result, queueVars>>

NoMessage == [msg |-> <<>>, bytes |-> 0]

Words == (message_size + 3) \div 4

QueueBytes == Words * 4 * capacity

(* The messages ThreadX finds room for in the storage create_queue gave it.*)
Slots == QueueBytes \div (Words * 4)

Init ==
  /\ CreateInit
  /\ Words > MaxWords => TheQueue \in Invalid
  /\ queue = <<>>
  /\ buffer = [t \in Threads |-> NoMessage]
  /\ got = [t \in Threads |-> NoMessage]
  /\ accepted = <<>> /\ received = <<>>

(* queue_send: the copy to the stack, then tx_queue_send.                  *)
Message(t) == [msg |-> <<t, calls[t] + 1>>, bytes |-> Min({message_size, Words * 4})]

CopyIn_StaticBuffer(t) ==
  /\ Exists(TheQueue)
  /\ Begin(t, "send")
  /\ buffer' = [u \in Threads |-> Message(t)]
  /\ UNCHANGED <<poolVars, queue, got, accepted, received>>

CopyIn(t) ==
  /\ Exists(TheQueue)
  /\ Begin(t, "send")
  /\ buffer' = [buffer EXCEPT ![t] = Message(t)]
  /\ UNCHANGED <<poolVars, queue, got, accepted, received>>

Send(t) ==
  /\ pc[t] = "send"
  /\ Len(queue) < Slots
  /\ queue' = Append(queue, buffer[t])
  /\ accepted' = Append(accepted, <<t, calls[t]>>)
  /\ Return(t, "U_SUCCESS")
  /\ UNCHANGED <<poolVars, buffer, got, received>>

SendFails(t) ==
  /\ pc[t] = "send"
  /\ Len(queue) >= Slots
  /\ Return(t, "U_ERROR")
  /\ UNCHANGED <<poolVars, queueVars>>

(* queue_receive: tx_queue_receive into a buffer on the stack, then the    *)
(* copy of message_size bytes to the caller.                               *)
BeginReceive(t) ==
  /\ Exists(TheQueue)
  /\ Begin(t, "receive")
  /\ UNCHANGED <<poolVars, queueVars>>

Receive(t) ==
  /\ pc[t] = "receive"
  /\ queue # <<>>
  /\ queue' = Tail(queue) /\ buffer' = [buffer EXCEPT ![t] = Head(queue)]
  /\ received' = Append(received, Head(queue).msg)
  /\ GoTo(t, "copy")
  /\ UNCHANGED <<poolVars, got, accepted>>

ReceiveEmpty(t) ==
  /\ pc[t] = "receive"
  /\ queue = <<>>
  /\ Return(t, "U_QUEUE_EMPTY")
  /\ UNCHANGED <<poolVars, queueVars>>

CopyOut(t) ==
  /\ pc[t] = "copy"
  /\ got' = [got EXCEPT ![t] = buffer[t]]
  /\ Return(t, "U_SUCCESS")
  /\ UNCHANGED <<poolVars, queue, buffer, accepted, received>>

queue_send(t) == CopyIn(t) \/ Send(t) \/ SendFails(t)

queue_receive(t) == BeginReceive(t) \/ Receive(t) \/ ReceiveEmpty(t) \/ CopyOut(t)

Next ==
  \E t \in Threads :
    \/ CreateStep(t) /\ UNCHANGED queueVars
    \/ queue_send(t)
    \/ queue_receive(t)

Spec == Init /\ [][Next]_vars

-------------------------------------------------------------------------------
(* Whatever the threads do at the same time, the messages come out of the  *)
(* queue in the order in which their senders were told U_SUCCESS, each     *)
(* once, none lost and none mixed up with another thread's.                *)
ReceivedInOrder ==
  accepted = received \o [i \in DOMAIN queue |-> queue[i].msg]

(* A receiver gets all the bytes of a message and not one more than its    *)
(* buffer of message_size holds.                                           *)
WholeMessages ==
  \A t \in Threads : got[t] # NoMessage => got[t].bytes = message_size

(* Both: a message is received as it was sent.                             *)
MessagesIntact == ReceivedInOrder /\ WholeMessages

===============================================================================
