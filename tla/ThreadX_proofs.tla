----------------------------- MODULE ThreadX_proofs -----------------------------
(***************************************************************************)
(* Proofs about the wrappers of the kernels' objects, for any number of    *)
(* threads, producers and objects and any size: the byte pool and the      *)
(* messages of threadX/src/u_tx_queues.c and u_tx_threads.c, the timer of  *)
(* u_tx_timers.c, and the wake-up of os/src/rtos_utils.c.                  *)
(***************************************************************************)
EXTENDS ThreadX, SequenceTheorems, TLAPS

-------------------------------------------------------------------------------
(* The byte pool of u_tx_threads.c and u_tx_queues.c.                      *)

Labels == {"idle", "allocate", "create", "release", "send", "receive", "copy"}
Creating(t) == pc[t] \in {"allocate", "create", "release"}

(* A block is named by a call: those of objects by calls that have ended,  *)
(* so that no two calls ever free or use the same one.                     *)
OfEndedCall(block) ==
  \E t \in Threads : \E n \in Nat :
    /\ block = <<t, n>> /\ n <= calls[t]
    /\ Creating(t) => n < calls[t]

PoolInv ==
  /\ pc \in [Threads -> Labels]
  /\ calls \in [Threads -> Nat]
  /\ object \in [Threads -> Objects]
  /\ DOMAIN memory = Objects
  /\ \A o \in Objects : Exists(o) => OfEndedCall(memory[o])
  /\ PoolAccounted

LEMMA BlocksDiffer ==
  ASSUME PoolInv, NEW t \in Threads
  PROVE  /\ Block(t) # NoBlock
         /\ \A u \in Threads : Block(u) = Block(t) => u = t
         /\ Creating(t) => \A o \in Objects : memory[o] # Block(t)
  <1>1. Block(t) # NoBlock /\ \A u \in Threads : Block(u) = Block(t) => u = t
    BY DEF Block, NoBlock
  <1>2. ASSUME Creating(t), NEW o \in Objects, memory[o] = Block(t) PROVE FALSE
    <2>1. PICK u \in Threads, n \in Nat :
            /\ memory[o] = <<u, n>> /\ (Creating(u) => n < calls[u])
      BY <1>1, <1>2 DEF PoolInv, Exists, OfEndedCall
    <2>2. u = t /\ n = calls[t]
      BY <1>2, <2>1 DEF Block
    <2> QED
      BY <1>2, <2>1, <2>2 DEF PoolInv
  <1> QED
    BY <1>1, <1>2

LEMMA PoolInit == Init => PoolInv
  <1> SUFFICES ASSUME Init PROVE PoolInv
    OBVIOUS
  <1>1. \A o \in Objects : ~Exists(o)
    BY DEF Init, CreateInit, Exists
  <1> QED
    BY <1>1 DEF Init, CreateInit, PoolInv, PoolAccounted, Labels

(* Calls that have nothing to do with the pool.                            *)
LEMMA PoolElsewhere ==
  ASSUME PoolInv, UNCHANGED poolVars, NEW t \in Threads,
         ~Creating(t), pc[t] \notin {"create", "release"},
         NEW label \in Labels \ {"create", "release"}, pc' = [pc EXCEPT ![t] = label],
         calls' = [calls EXCEPT ![t] = @ + 1] \/ (UNCHANGED calls /\ label # "allocate")
  PROVE  PoolInv'
  <1> USE DEF PoolInv, poolVars
  <1>1. /\ pc' \in [Threads -> Labels] /\ calls' \in [Threads -> Nat]
        /\ \A u \in Threads \ {t} : pc'[u] = pc[u] /\ calls'[u] = calls[u]
        /\ pc'[t] = label
        /\ calls'[t] = calls[t] + 1 \/ (calls'[t] = calls[t] /\ label # "allocate")
    OBVIOUS
  <1>2. \A o \in Objects : Exists(o)' => OfEndedCall(memory[o])'
    <2> SUFFICES ASSUME NEW o \in Objects, Exists(o) PROVE OfEndedCall(memory[o])'
      BY DEF Exists
    <2>1. PICK u \in Threads, n \in Nat :
            /\ memory[o] = <<u, n>> /\ n <= calls[u] /\ (Creating(u) => n < calls[u])
      BY DEF OfEndedCall
    <2>2. n <= calls'[u] /\ (Creating(u)' => n < calls'[u])
      BY <1>1, <2>1 DEF Creating
    <2> QED
      BY <2>1, <2>2 DEF OfEndedCall
  <1>3. {u \in Threads : pc'[u] \in {"create", "release"}}
          = {u \in Threads : pc[u] \in {"create", "release"}}
    BY <1>1
  <1>4. \A u \in Threads : pc[u] \in {"create", "release"} => Block(u)' = Block(u)
    BY <1>1 DEF Block
  <1>5. PoolAccounted'
    BY <1>3, <1>4 DEF PoolAccounted, Exists
  <1> QED
    BY <1>1, <1>2, <1>5

(* A step of a creation.                                                   *)
LEMMA CreateStepPool == ASSUME PoolInv, NEW t \in Threads, CreateStep(t) PROVE PoolInv'
  <1> USE DEF PoolInv
  <1> DEFINE Holds(u) == pc[u] \in {"create", "release"}
  <1>1. CASE BeginCreate(t)
    <2>1. /\ ~Holds(t) /\ ~Creating(t)
          /\ pc' = [pc EXCEPT ![t] = "allocate"] /\ calls' = [calls EXCEPT ![t] = @ + 1]
          /\ object' \in [Threads -> Objects]
          /\ UNCHANGED <<blocks, memory>>
      BY <1>1 DEF BeginCreate, Begin, Idle, Creating
    <2>2. /\ pc' \in [Threads -> Labels] /\ calls' \in [Threads -> Nat]
          /\ \A u \in Threads \ {t} : pc'[u] = pc[u] /\ calls'[u] = calls[u]
          /\ pc'[t] = "allocate" /\ calls'[t] = calls[t] + 1
      BY <2>1 DEF Labels
    <2>3. \A o \in Objects : Exists(o)' => OfEndedCall(memory[o])'
      <3> SUFFICES ASSUME NEW o \in Objects, Exists(o) PROVE OfEndedCall(memory[o])'
        BY <2>1 DEF Exists
      <3>1. PICK u \in Threads, n \in Nat :
              /\ memory[o] = <<u, n>> /\ n <= calls[u] /\ (Creating(u) => n < calls[u])
        BY DEF OfEndedCall
      <3>2. n <= calls'[u] /\ (Creating(u)' => n < calls'[u])
        BY <2>2, <3>1 DEF Creating
      <3> QED
        BY <2>1, <3>1, <3>2 DEF OfEndedCall
    <2>4. {u \in Threads : pc'[u] \in {"create", "release"}} = {u \in Threads : Holds(u)}
      BY <2>1, <2>2
    <2>5. \A u \in Threads : Holds(u) => Block(u)' = Block(u)
      BY <2>1, <2>2 DEF Block
    <2>6. PoolAccounted'
      BY <2>1, <2>4, <2>5 DEF PoolAccounted, Exists
    <2> QED
      BY <2>1, <2>2, <2>3, <2>6
  <1>2. ASSUME NEW label \in Labels, pc' = [pc EXCEPT ![t] = label], Creating(t),
               UNCHANGED <<calls, object>>, DOMAIN memory' = Objects,
               \A o \in Objects : Exists(o)' => memory'[o] = memory[o] \/
                                    (memory'[o] = Block(t) /\ label = "idle"),
               PoolAccounted'
        PROVE  PoolInv'
    <2>1. /\ pc' \in [Threads -> Labels] /\ pc'[t] = label
          /\ \A u \in Threads \ {t} : pc'[u] = pc[u]
      BY <1>2
    <2>2. ASSUME NEW o \in Objects, Exists(o)' PROVE OfEndedCall(memory[o])'
      <3>1. CASE memory'[o] = memory[o]
        <4>1. PICK u \in Threads, n \in Nat :
                /\ memory[o] = <<u, n>> /\ n <= calls[u] /\ (Creating(u) => n < calls[u])
          BY <2>2, <3>1 DEF OfEndedCall, Exists
        <4>2. Creating(u)' => Creating(u)
          BY <1>2, <2>1 DEF Creating
        <4> QED
          BY <1>2, <3>1, <4>1, <4>2 DEF OfEndedCall
      <3>2. CASE memory'[o] = Block(t) /\ label = "idle"
        <4>1. ~Creating(t)' /\ calls[t] \in Nat
          BY <2>1, <3>2 DEF Creating
        <4> QED
          BY <1>2, <3>2, <4>1 DEF OfEndedCall, Block
      <3> QED
        BY <1>2, <2>2, <3>1, <3>2
    <2> QED
      BY <1>2, <2>1, <2>2
  <1>3. \A u \in Threads : UNCHANGED calls => Block(u)' = Block(u)
    BY DEF Block
  <1>4. CASE Allocate(t)
    <2>1. UNCHANGED <<calls, object, memory>> /\ Creating(t) /\ ~Holds(t)
      BY <1>4 DEF Allocate, GoTo, Return, Creating
    <2>2. PICK label \in {"create", "idle"} :
            /\ pc' = [pc EXCEPT ![t] = label]
            /\ blocks' = blocks \cup (IF label = "create" THEN {Block(t)} ELSE {})
      BY <1>4 DEF Allocate, GoTo, Return
    <2>3. {u \in Threads : pc'[u] \in {"create", "release"}}
            = {u \in Threads : Holds(u)} \cup (IF label = "create" THEN {t} ELSE {})
      BY <2>1, <2>2
    <2>4. PoolAccounted'
      BY <1>3, <2>1, <2>2, <2>3 DEF PoolAccounted, Exists
    <2> QED
      BY <1>2, <2>1, <2>2, <2>4 DEF Labels
  <1>5. CASE Create(t)
    <2>1. UNCHANGED <<calls, object, blocks>> /\ Creating(t) /\ Holds(t) /\ object[t] \in Objects
      BY <1>5 DEF Create, GoTo, Return, Creating
    <2>2. CASE GoTo(t, "release") /\ UNCHANGED memory
      <3>1. {u \in Threads : pc'[u] \in {"create", "release"}} = {u \in Threads : Holds(u)}
        BY <2>1, <2>2 DEF GoTo
      <3>2. PoolAccounted'
        BY <1>3, <2>1, <2>2, <3>1 DEF PoolAccounted, Exists
      <3> QED
        BY <1>2, <2>1, <2>2, <3>2 DEF GoTo, Labels
    <2>3. CASE /\ ~Exists(object[t])
               /\ memory' = [memory EXCEPT ![object[t]] = Block(t)]
               /\ Return(t, "U_SUCCESS")
      <3>1. {u \in Threads : pc'[u] \in {"create", "release"}} = {u \in Threads : Holds(u)} \ {t}
        BY <2>3 DEF Return
      <3>2. /\ DOMAIN memory' = Objects
            /\ memory'[object[t]] = Block(t)
            /\ \A o \in Objects \ {object[t]} : memory'[o] = memory[o]
        BY <2>1, <2>3
      <3>3. {q \in Objects : Exists(q)'} = {q \in Objects : Exists(q)} \cup {object[t]}
        BY <2>1, <3>2, BlocksDiffer DEF Exists
      <3>4. {memory'[o] : o \in {q \in Objects : Exists(q)'}}
              = {memory[o] : o \in {q \in Objects : Exists(q)}} \cup {Block(t)}
        BY <2>1, <2>3, <3>2, <3>3
      <3>5. PoolAccounted'
        BY <1>3, <2>1, <3>1, <3>4 DEF PoolAccounted
      <3> QED
        BY <1>2, <2>1, <2>3, <3>2, <3>5 DEF Return, Labels
    <2> QED
      BY <1>5, <2>2, <2>3 DEF Create
  <1>6. CASE Release(t)
    <2>1. /\ UNCHANGED <<calls, object, memory>> /\ Creating(t) /\ Holds(t)
          /\ blocks' = blocks \ {Block(t)} /\ pc' = [pc EXCEPT ![t] = "idle"]
      BY <1>6 DEF Release, Return, Creating
    <2>2. {u \in Threads : pc'[u] \in {"create", "release"}} = {u \in Threads : Holds(u)} \ {t}
      BY <2>1
    <2>3. \A o \in Objects : memory[o] # Block(t)
      BY <2>1, BlocksDiffer
    <2>4. \A u \in Threads \ {t} : Block(u) # Block(t)
      BY BlocksDiffer
    <2>5. PoolAccounted'
      BY <1>3, <2>1, <2>2, <2>3, <2>4 DEF PoolAccounted, Exists
    <2> QED
      BY <1>2, <2>1, <2>5 DEF Labels
  <1> QED
    BY <1>1, <1>4, <1>5, <1>6 DEF CreateStep

LEMMA PoolStep == PoolInv /\ [Next]_vars => PoolInv'
  <1> SUFFICES ASSUME PoolInv, [Next]_vars PROVE PoolInv'
    OBVIOUS
  <1>1. ASSUME NEW t \in Threads, queue_send(t) \/ queue_receive(t) PROVE PoolInv'
    <2>1. PICK label \in Labels \ {"create", "release"} :
            /\ pc' = [pc EXCEPT ![t] = label]
            /\ calls' = [calls EXCEPT ![t] = @ + 1] \/ (UNCHANGED calls /\ label # "allocate")
      BY <1>1 DEF queue_send, queue_receive, CopyIn, Send, SendFails, BeginReceive, Receive,
        ReceiveEmpty, CopyOut, Begin, Return, GoTo, Labels
    <2>2. pc[t] \in {"idle", "send", "receive", "copy"} /\ UNCHANGED poolVars
      BY <1>1 DEF queue_send, queue_receive, CopyIn, Send, SendFails, BeginReceive, Receive,
        ReceiveEmpty, CopyOut, Begin, Idle
    <2> QED
      BY <2>1, <2>2, PoolElsewhere DEF Creating
  <1>2. CASE UNCHANGED vars
    BY <1>2 DEF vars, poolVars, PoolInv, PoolAccounted, Exists, OfEndedCall, Creating, Block
  <1> QED
    BY <1>1, <1>2, CreateStepPool DEF Next

(* The pool holds the blocks of the objects that exist and of the calls    *)
(* that create one, whatever ThreadX refuses.                              *)
THEOREM PoolIsAccounted == Spec => []PoolAccounted
  <1>1. PoolInv => PoolAccounted
    BY DEF PoolInv
  <1> QED
    BY PoolInit, PoolStep, <1>1, PTL DEF Spec

-------------------------------------------------------------------------------
MessageIds == Threads \X Nat
Whole == [msg : MessageIds, bytes : {message_size}]

MessageTypes ==
  /\ pc \in [Threads -> Labels]
  /\ calls \in [Threads -> Nat]
  /\ queue \in Seq(Whole)
  /\ accepted \in Seq(MessageIds) /\ received \in Seq(MessageIds)
  /\ buffer \in [Threads -> Whole \cup {NoMessage}]
  /\ got \in [Threads -> Whole \cup {NoMessage}]

(* ReceivedInOrder, element by element.                                    *)
InOrder ==
  /\ Len(accepted) = Len(received) + Len(queue)
  /\ \A i \in 1 .. Len(received) : accepted[i] = received[i]
  /\ \A i \in 1 .. Len(queue) : accepted[Len(received) + i] = queue[i].msg

(* A thread's buffer holds its own message, from the copy on.              *)
MessageInv ==
  /\ MessageTypes
  /\ InOrder
  /\ \A t \in Threads : pc[t] = "send" => buffer[t] \in Whole /\ buffer[t].msg = <<t, calls[t]>>
  /\ \A t \in Threads : pc[t] = "copy" => buffer[t] \in Whole

(* The words of a message hold all its bytes.                              *)
LEMMA MessageIsWhole ==
  ASSUME QueueAssumption, NEW t \in Threads, calls[t] \in Nat
  PROVE  Message(t) \in Whole
  <1>1. Words * 4 \in Nat /\ message_size \in Nat /\ message_size <= Words * 4
    BY DEF QueueAssumption, Words
  <1>2. Min({message_size, Words * 4}) = message_size
    BY <1>1 DEF Min
  <1> QED
    BY <1>2 DEF Message, Whole, MessageIds

LEMMA MessageInit == Init => MessageInv
  BY DEF Init, CreateInit, MessageInv, MessageTypes, InOrder, Labels

(* A call that begins counts itself and no other thread's.                 *)
LEMMA CallsCounted ==
  ASSUME MessageInv, NEW t \in Threads,
         calls' = [calls EXCEPT ![t] = @ + 1] \/ UNCHANGED calls
  PROVE  calls' \in [Threads -> Nat] /\ \A u \in Threads \ {t} : calls'[u] = calls[u]
  <1>1. calls \in [Threads -> Nat]
    BY DEF MessageInv, MessageTypes
  <1> QED
    BY <1>1

LEMMA MessageStep ==
  ASSUME QueueAssumption, MessageInv, [Next]_vars
  PROVE  MessageInv'
  <1> USE DEF MessageInv
  <1>1. ASSUME NEW t \in Threads, UNCHANGED queueVars,
               NEW label \in Labels \ {"send", "copy"}, pc' = [pc EXCEPT ![t] = label],
               calls' \in [Threads -> Nat],
               \A u \in Threads \ {t} : calls'[u] = calls[u]
        PROVE  MessageInv'
    BY <1>1 DEF MessageTypes, InOrder, queueVars
  <1>2. ASSUME NEW t \in Threads, CreateStep(t), UNCHANGED queueVars PROVE MessageInv'
    <2>1. PICK label \in Labels \ {"send", "copy"} : pc' = [pc EXCEPT ![t] = label]
      BY <1>2 DEF CreateStep, BeginCreate, Allocate, Create, Release, Begin, GoTo, Return, Labels
    <2>2. calls' = [calls EXCEPT ![t] = @ + 1] \/ UNCHANGED calls
      BY <1>2 DEF CreateStep, BeginCreate, Allocate, Create, Release, Begin, GoTo, Return
    <2>3. calls' \in [Threads -> Nat] /\ \A u \in Threads \ {t} : calls'[u] = calls[u]
      BY <2>2, CallsCounted
    <2> QED
      BY <1>1, <1>2, <2>1, <2>3
  <1>3. ASSUME NEW t \in Threads, SendFails(t) \/ BeginReceive(t) \/ ReceiveEmpty(t)
        PROVE  MessageInv'
    <2>1. PICK label \in {"idle", "receive"} : pc' = [pc EXCEPT ![t] = label]
      BY <1>3 DEF SendFails, BeginReceive, ReceiveEmpty, Begin, Return
    <2>2. calls' = [calls EXCEPT ![t] = @ + 1] \/ UNCHANGED calls
      BY <1>3 DEF SendFails, BeginReceive, ReceiveEmpty, Begin, Return
    <2>3. UNCHANGED queueVars
      BY <1>3 DEF SendFails, BeginReceive, ReceiveEmpty
    <2>4. calls' \in [Threads -> Nat] /\ \A u \in Threads \ {t} : calls'[u] = calls[u]
      BY <2>2, CallsCounted
    <2> QED
      BY <1>1, <2>1, <2>3, <2>4 DEF Labels
  <1>4. ASSUME NEW t \in Threads, CopyIn(t) PROVE MessageInv'
    <2>1. Message(t) \in Whole /\ Message(t).msg = <<t, calls[t] + 1>>
      BY MessageIsWhole DEF MessageTypes, Message
    <2>2. /\ buffer' = [buffer EXCEPT ![t] = Message(t)]
          /\ pc' = [pc EXCEPT ![t] = "send"] /\ calls' = [calls EXCEPT ![t] = @ + 1]
          /\ UNCHANGED <<queue, got, accepted, received>>
      BY <1>4 DEF CopyIn, Begin
    <2>3. MessageTypes'
      BY <2>1, <2>2 DEF MessageTypes, Labels
    <2>4. InOrder'
      BY <2>2 DEF InOrder
    <2> QED
      BY <2>1, <2>2, <2>3, <2>4 DEF MessageTypes
  <1>5. ASSUME NEW t \in Threads, Send(t) PROVE MessageInv'
    <2>1. /\ buffer[t] \in Whole /\ buffer[t].msg = <<t, calls[t]>>
          /\ queue' = Append(queue, buffer[t]) /\ accepted' = Append(accepted, <<t, calls[t]>>)
          /\ pc' = [pc EXCEPT ![t] = "idle"] /\ UNCHANGED <<calls, buffer, got, received>>
      BY <1>5 DEF Send, Return
    <2>2. <<t, calls[t]>> \in MessageIds
      BY DEF MessageTypes, MessageIds
    <2>3. MessageTypes'
      BY <2>1, <2>2 DEF MessageTypes, Labels
    <2>4. InOrder'
      <3>1. /\ Len(queue') = Len(queue) + 1
            /\ \A i \in 1 .. Len(queue) : queue'[i] = queue[i]
            /\ queue'[Len(queue) + 1].msg = <<t, calls[t]>>
        BY <2>1, AppendProperties DEF MessageTypes
      <3>2. /\ Len(accepted') = Len(accepted) + 1
            /\ \A i \in 1 .. Len(accepted) : accepted'[i] = accepted[i]
            /\ accepted'[Len(accepted) + 1] = <<t, calls[t]>>
        BY <2>1, <2>2, AppendProperties DEF MessageTypes
      <3>3. Len(queue) \in Nat /\ Len(accepted) \in Nat /\ Len(received) \in Nat
        BY LenProperties DEF MessageTypes
      <3>4. \A i \in 1 .. Len(received) : accepted'[i] = received[i]
        BY <3>2, <3>3 DEF InOrder
      <3>5. ASSUME NEW i \in 1 .. Len(queue')
            PROVE  accepted'[Len(received) + i] = queue'[i].msg
        <4>1. CASE i \in 1 .. Len(queue)
          <5>1. Len(received) + i \in 1 .. Len(accepted)
            BY <3>3, <4>1 DEF InOrder
          <5> QED
            BY <3>1, <3>2, <4>1, <5>1 DEF InOrder
        <4>2. CASE i = Len(queue) + 1
          <5>1. Len(received) + i = Len(accepted) + 1
            BY <3>3, <4>2 DEF InOrder
          <5> QED
            BY <3>1, <3>2, <4>2, <5>1
        <4> QED
          BY <3>1, <3>3, <4>1, <4>2
      <3>6. Len(accepted') = Len(received) + Len(queue')
        BY <3>1, <3>2, <3>3 DEF InOrder
      <3>7. received' = received
        BY <2>1
      <3> QED
        BY <3>4, <3>5, <3>6, <3>7 DEF InOrder
    <2> QED
      BY <2>1, <2>3, <2>4 DEF MessageTypes
  <1>6. ASSUME NEW t \in Threads, Receive(t) PROVE MessageInv'
    <2>1. /\ queue # <<>> /\ queue' = Tail(queue)
          /\ buffer' = [buffer EXCEPT ![t] = Head(queue)]
          /\ received' = Append(received, Head(queue).msg)
          /\ pc' = [pc EXCEPT ![t] = "copy"] /\ UNCHANGED <<calls, got, accepted>>
      BY <1>6 DEF Receive, GoTo
    <2>2. /\ Head(queue) \in Whole /\ Head(queue).msg \in MessageIds /\ Head(queue) = queue[1]
          /\ Tail(queue) \in Seq(Whole) /\ Len(Tail(queue)) = Len(queue) - 1
          /\ \A i \in 1 .. Len(Tail(queue)) : Tail(queue)[i] = queue[i + 1]
      <3>1. queue \in Seq(Whole)
        BY DEF MessageTypes
      <3>2. /\ Head(queue) \in Whole
            /\ Tail(queue) \in Seq(Whole) /\ Len(Tail(queue)) = Len(queue) - 1
            /\ \A i \in 1 .. Len(Tail(queue)) : Tail(queue)[i] = queue[i + 1]
        BY <2>1, <3>1, HeadTailProperties, Zenon
      <3>3. Head(queue) = queue[1]
        BY <2>1, <3>1
      <3>4. Head(queue).msg \in MessageIds
        BY <3>2 DEF Whole
      <3> QED
        BY <3>2, <3>3, <3>4
    <2>3. MessageTypes'
      BY <2>1, <2>2 DEF MessageTypes, Labels
    <2>4. InOrder'
      <3>1. /\ Len(received') = Len(received) + 1
            /\ \A i \in 1 .. Len(received) : received'[i] = received[i]
            /\ received'[Len(received) + 1] = queue[1].msg
        BY <2>1, <2>2, AppendProperties DEF MessageTypes
      <3>2. Len(queue) \in Nat /\ Len(queue) > 0 /\ Len(received) \in Nat
        BY <2>1, EmptySeq, LenProperties DEF MessageTypes
      <3>3. accepted[Len(received) + 1] = queue[1].msg
        BY <3>2 DEF InOrder
      <3>4. \A i \in 1 .. Len(received') : accepted[i] = received'[i]
        BY <3>1, <3>2, <3>3 DEF InOrder
      <3>5. \A i \in 1 .. Len(queue') : accepted[Len(received') + i] = queue'[i].msg
        <4> SUFFICES ASSUME NEW i \in 1 .. Len(queue')
                     PROVE  accepted[Len(received') + i] = queue'[i].msg
          OBVIOUS
        <4>1. i + 1 \in 1 .. Len(queue) /\ queue'[i] = queue[i + 1]
          BY <2>1, <2>2, <3>2
        <4>2. Len(received') + i = Len(received) + (i + 1)
          BY <3>1, <3>2
        <4> QED
          BY <4>1, <4>2 DEF InOrder
      <3> QED
        BY <2>1, <2>2, <3>1, <3>2, <3>4, <3>5 DEF InOrder
    <2> QED
      BY <2>1, <2>2, <2>3, <2>4 DEF MessageTypes
  <1>7. ASSUME NEW t \in Threads, CopyOut(t) PROVE MessageInv'
    <2>1. /\ got' = [got EXCEPT ![t] = buffer[t]]
          /\ pc' = [pc EXCEPT ![t] = "idle"]
          /\ UNCHANGED <<calls, queue, buffer, accepted, received>>
      BY <1>7 DEF CopyOut, Return
    <2>2. MessageTypes' /\ InOrder'
      BY <2>1 DEF MessageTypes, InOrder, Labels
    <2> QED
      BY <2>1, <2>2 DEF MessageTypes
  <1>8. CASE UNCHANGED vars
    BY <1>8 DEF vars, queueVars, MessageTypes, InOrder
  <1> QED
    BY <1>2, <1>3, <1>4, <1>5, <1>6, <1>7, <1>8 DEF Next, queue_send, queue_receive

(* Messages come out whole and in the order in which they were accepted.   *)
THEOREM MessagesStayIntact == Spec => []MessagesIntact
  <1>0. QueueAssumption
    BY ThreadXAssumption
  <1>1. ASSUME MessageInv PROVE MessagesIntact
    <2> USE <1>1 DEF MessageInv
    <2>1. WholeMessages
      BY DEF MessageTypes, WholeMessages, Whole
    <2> DEFINE ids == [i \in DOMAIN queue |-> queue[i].msg]
    <2>2. Len(queue) \in Nat /\ DOMAIN queue = 1 .. Len(queue)
      BY LenProperties DEF MessageTypes
    <2>3. ASSUME NEW i \in 1 .. Len(queue) PROVE queue[i].msg \in MessageIds
      <3>1. queue[i] \in Whole
        BY ElementOfSeq DEF MessageTypes
      <3> QED
        BY <3>1 DEF Whole
    <2>4. ids \in [1 .. Len(queue) -> MessageIds]
      BY <2>2, <2>3
    <2>5. ids \in Seq(MessageIds) /\ Len(ids) = Len(queue)
      BY <2>2, <2>4
    <2>6. \A i \in 1 .. Len(queue) : ids[i] = queue[i].msg
      BY <2>2
    <2> HIDE DEF ids
    <2>7. /\ received \o ids \in Seq(MessageIds)
          /\ Len(received \o ids) = Len(received) + Len(ids)
          /\ \A i \in 1 .. Len(received) + Len(ids) :
               (received \o ids)[i] = IF i <= Len(received) THEN received[i]
                                      ELSE ids[i - Len(received)]
      BY <2>5, ConcatProperties DEF MessageTypes
    <2>8. Len(received) \in Nat
      BY LenProperties DEF MessageTypes
    <2>9. ASSUME NEW i \in 1 .. Len(accepted) PROVE accepted[i] = (received \o ids)[i]
      <3>1. i \in 1 .. Len(received) + Len(ids)
        BY <2>5 DEF InOrder
      <3>2. CASE i <= Len(received)
        BY <2>7, <2>8, <3>1, <3>2 DEF InOrder
      <3>3. CASE ~(i <= Len(received))
        <4>1. i - Len(received) \in 1 .. Len(queue) /\ Len(received) + (i - Len(received)) = i
          BY <2>2, <2>5, <2>8, <3>1, <3>3
        <4>2. accepted[i] = queue[i - Len(received)].msg
          BY <4>1 DEF InOrder
        <4> QED
          BY <2>6, <2>7, <3>1, <3>3, <4>1, <4>2
      <3> QED
        BY <3>2, <3>3
    <2>10. accepted = received \o ids
      <3>1. Len(accepted) = Len(received \o ids)
        BY <2>5, <2>7 DEF InOrder
      <3> QED
        BY <2>7, <2>9, <3>1, SeqEqual DEF MessageTypes
    <2> QED
      BY <2>1, <2>10 DEF ReceivedInOrder, MessagesIntact, ids
  <1> QED
    BY <1>0, MessageInit, MessageStep, <1>1, PTL DEF Spec

-------------------------------------------------------------------------------
(* The timer of u_tx_timers.c.  It has run for what it is short of its     *)
(* duration, unless it stands expired.                                     *)
TimerLabels == {"idle", "isActive", "activate", "deactivate", "change"}

TimerInv ==
  /\ type \in Timers!Types
  /\ active \in BOOLEAN /\ remaining \in 0 .. Duration
  /\ run \in Nat /\ fired \in Nat
  /\ reschedule = Timers!reschedule_ticks
  /\ active => remaining > 0
  /\ remaining + run = Duration \/ (remaining = 0 /\ ~active)
  /\ type = "ONESHOT" /\ active => fired = 0

LEMMA TimerInit == Timers!Init => TimerInv
  BY ThreadXAssumption DEF Timers!TimerAssumption, Timers!Init, Timers!timer_init, TimerInv

(* reschedule_ticks depends on the timer's type alone.                     *)
LEMMA RescheduleTicks ==
  ASSUME TimerInv
  PROVE  /\ Duration \in Nat /\ Duration > 0
         /\ type = "ONESHOT" => reschedule = 0
         /\ type # "ONESHOT" => reschedule = Duration
  BY ThreadXAssumption DEF Timers!TimerAssumption, Timers!reschedule_ticks, TimerInv

LEMMA TimerTick ==
  ASSUME TimerInv, Timers!Tick, UNCHANGED type
  PROVE  /\ TimerInv'
         /\ fired' > fired =>
              /\ run + 1 = Duration
              /\ IF type = "ONESHOT" THEN fired' = 1 /\ ~active' ELSE active'
  <1>1. Timers!reschedule_ticks' = Timers!reschedule_ticks
    BY DEF Timers!reschedule_ticks
  <1>2. CASE UNCHANGED <<active, remaining, reschedule, run, fired>>
    BY <1>1, <1>2 DEF TimerInv
  <1>3. CASE /\ active /\ remaining > 1
             /\ remaining' = remaining - 1 /\ run' = run + 1
             /\ UNCHANGED <<active, reschedule, fired>>
    <2>1. remaining' \in 0 .. Duration /\ run' \in Nat /\ remaining' + run' = Duration
          /\ remaining' > 0
      BY <1>3, RescheduleTicks DEF TimerInv
    <2>2. fired' = fired /\ fired \in Nat
      BY <1>3 DEF TimerInv
    <2> QED
      BY <1>1, <1>3, <2>1, <2>2 DEF TimerInv
  <1>4. CASE /\ active /\ remaining = 1
             /\ remaining' = reschedule /\ active' = (reschedule > 0)
             /\ fired' = fired + 1 /\ run' = 0
             /\ UNCHANGED reschedule
    <2>1. run + 1 = Duration /\ fired \in Nat
      BY <1>4, RescheduleTicks DEF TimerInv
    <2>2. CASE type = "ONESHOT"
      <3>1. reschedule = 0 /\ fired = 0
        BY <1>4, <2>2, RescheduleTicks DEF TimerInv
      <3>2. remaining' = 0 /\ active' = FALSE /\ fired' = 1
        <4>1. ~(reschedule > 0) /\ remaining' = 0 /\ fired' = 1
          BY <1>4, <3>1
        <4>2. active' = FALSE
          <5>1. (reschedule > 0) = FALSE
            BY <4>1
          <5>2. active' = (reschedule > 0)
            BY <1>4
          <5> QED
            BY <5>1, <5>2, Zenon
        <4> QED
          BY <4>1, <4>2
      <3> QED
        BY <1>1, <1>4, <2>1, <2>2, <3>2, RescheduleTicks DEF TimerInv
    <2>3. CASE type # "ONESHOT"
      <3>1. remaining' = Duration /\ active' = TRUE
        BY <1>4, <2>3, RescheduleTicks
      <3> QED
        BY <1>1, <1>4, <2>1, <2>3, <3>1, RescheduleTicks DEF TimerInv
    <2> QED
      BY <2>2, <2>3
  <1> QED
    BY <1>2, <1>3, <1>4 DEF Timers!Tick, Timers!timer

LEMMA TimerStep ==
  TimerInv /\ [Timers!Next]_(Timers!vars) =>
    /\ TimerInv'
    /\ fired' > fired =>
         /\ run + 1 = Duration
         /\ IF type = "ONESHOT" THEN fired' = 1 /\ ~active' ELSE active'
  <1> SUFFICES ASSUME TimerInv, [Timers!Next]_(Timers!vars)
               PROVE  /\ TimerInv'
                      /\ fired' > fired =>
                           /\ run + 1 = Duration
                           /\ IF type = "ONESHOT" THEN fired' = 1 /\ ~active' ELSE active'
    OBVIOUS
  <1>1. type' = type
    BY DEF Timers!Next, Timers!vars
  <1>2. Timers!reschedule_ticks' = Timers!reschedule_ticks
    BY <1>1 DEF Timers!reschedule_ticks
  <1>3. CASE Timers!Tick
    BY <1>1, <1>3, TimerTick
  <1>4. CASE UNCHANGED <<active, remaining, reschedule, run, fired>>
    BY <1>1, <1>2, <1>4 DEF TimerInv
  <1>5. ASSUME NEW t \in Threads, Timers!Activate(t), ~UNCHANGED <<active, fired>>
        PROVE  TimerInv' /\ fired' <= fired
    <2>1. /\ ~active /\ remaining > 0 /\ active' = TRUE /\ fired' = 0
          /\ UNCHANGED <<remaining, reschedule, run>>
      BY <1>5 DEF Timers!Activate
    <2>2. fired' <= fired
      BY <2>1 DEF TimerInv
    <2> QED
      BY <1>1, <1>2, <2>1, <2>2, RescheduleTicks DEF TimerInv
  <1>6. ASSUME NEW t \in Threads, Timers!Deactivate(t)
        PROVE  TimerInv' /\ fired' <= fired
    <2>1. active' = FALSE /\ UNCHANGED <<remaining, reschedule, run, fired>>
      BY <1>6 DEF Timers!Deactivate
    <2>2. fired' <= fired
      BY <2>1 DEF TimerInv
    <2>3. remaining + run = Duration \/ remaining = 0
      BY DEF TimerInv
    <2> QED
      BY <1>1, <1>2, <2>1, <2>2, <2>3 DEF TimerInv
  <1>7. ASSUME NEW t \in Threads, Timers!Change(t), ~active
        PROVE  TimerInv' /\ fired' <= fired
    <2>1. /\ remaining' = Duration /\ reschedule' = Timers!reschedule_ticks /\ run' = 0
          /\ UNCHANGED <<active, fired>>
      BY <1>7 DEF Timers!Change
    <2>2. fired' <= fired
      BY <2>1 DEF TimerInv
    <2>3. remaining' + run' = Duration /\ remaining' \in 0 .. Duration
      BY <2>1, RescheduleTicks
    <2> QED
      BY <1>1, <1>2, <1>7, <2>1, <2>2, <2>3 DEF TimerInv
  <1>8. fired \in Nat
    BY DEF TimerInv
  <1>9. ASSUME TimerInv', fired' <= fired
        PROVE  ~(fired' > fired)
    BY <1>8, <1>9 DEF TimerInv
  <1>10. ASSUME NEW t \in Threads, Timers!Step(t)
         PROVE  \/ UNCHANGED <<active, remaining, reschedule, run, fired>>
                \/ TimerInv' /\ fired' <= fired
    BY <1>5, <1>6, <1>7, <1>10 DEF Timers!Step, Timers!CheckActive, Timers!Activate,
                                   Timers!Change, Timers!timer
  <1>11. CASE UNCHANGED Timers!vars \/ \E t \in Threads : Timers!Call(t)
    BY <1>4, <1>11 DEF Timers!Call, Timers!vars, Timers!timer, Timers!history
  <1> QED
    BY <1>3, <1>4, <1>9, <1>10, <1>11 DEF Timers!Next

(* For every duration and any calls in between: the callback comes when    *)
(* the timer has run for its whole duration, and then a one-shot timer     *)
(* stops and a periodic one goes on.                                       *)
THEOREM CallbacksOnTime == Timers!Spec => CallbackOnTime
  <1>1. Timers!Spec => []TimerInv /\ [][Timers!Next]_(Timers!vars)
    BY TimerInit, TimerStep, PTL DEF Timers!Spec
  <1>2. TimerInv /\ [Timers!Next]_(Timers!vars) =>
          [fired' > fired =>
             /\ run + 1 = Duration
             /\ IF type = "ONESHOT" THEN fired' = 1 /\ ~active' ELSE active']_(Timers!vars)
    BY TimerStep
  <1> QED
    BY <1>1, <1>2, PTL DEF CallbackOnTime, Timers!CallbackOnTime

-------------------------------------------------------------------------------
(* Which function is in which of its ThreadX calls.                        *)
CallsInv ==
  /\ timer_pc \in [Threads -> TimerLabels]
  /\ fn \in [Threads -> Timers!Functions]
  /\ timer_result \in [Threads -> {"none", "U_SUCCESS", "U_ERROR"}]
  /\ alone \subseteq Threads
  /\ \A t \in Threads :
       /\ timer_pc[t] = "deactivate" => fn[t] # "timer_start"
       /\ timer_pc[t] = "change" => fn[t] \in {"timer_reset", "timer_restart"}
       /\ timer_pc[t] \in {"isActive", "activate"} => fn[t] \in {"timer_start", "timer_restart"}

(* A call that is alone finds the timer as its last ThreadX call left it.  *)
AloneInv ==
  \A t \in alone :
    /\ \A u \in Threads : u # t => timer_pc[u] = "idle"
    /\ timer_pc[t] = "change" => ~active
    /\ timer_pc[t] \in {"isActive", "activate"} /\ fn[t] = "timer_restart" =>
         ~active /\ remaining = Duration /\ t \in inactive_full

ResetInv == TimerInv /\ CallsInv /\ AloneInv

ResetsWell(t) ==
  Timers!Finished(t) =>
    /\ timer_result'[t] = "U_SUCCESS" /\ fn[t] \in {"timer_reset", "timer_restart"}
       => t \in inactive_full'
    /\ fn[t] = "timer_restart"
       => timer_result'[t] = "U_SUCCESS" /\ active' /\ remaining' = Duration

LEMMA CallsInit == Timers!Init => CallsInv /\ AloneInv
  BY DEF Timers!Init, CallsInv, AloneInv, TimerLabels, Timers!Functions

LEMMA CallStep ==
  ASSUME ResetInv, NEW t \in Threads, Timers!Call(t)
  PROVE  CallsInv' /\ AloneInv' /\ \A u \in alone : ResetsWell(u)
  <1> USE DEF ResetInv
  <1>1. PICK f \in Timers!Functions :
          /\ fn' = [fn EXCEPT ![t] = f]
          /\ timer_pc' = [timer_pc EXCEPT ![t] = Timers!FirstCall[f]]
    BY DEF Timers!Call
  <1>2. Timers!FirstCall[f] = IF f = "timer_start" THEN "isActive" ELSE "deactivate"
    BY DEF Timers!FirstCall, Timers!Functions
  <1>3. timer_result' = [timer_result EXCEPT ![t] = "none"] /\ timer_pc[t] = "idle"
    BY DEF Timers!Call
  <1>4. alone' \subseteq {t} /\ (t \in alone' => \A u \in Threads : timer_pc[u] = "idle")
    BY DEF Timers!Call
  <1>5. CallsInv'
    BY <1>1, <1>2, <1>3, <1>4 DEF CallsInv, TimerLabels, Timers!Functions
  <1>6. AloneInv'
    BY <1>1, <1>2, <1>4 DEF AloneInv, CallsInv, Timers!Functions
  <1>7. \A u \in alone : ~Timers!Finished(u)
    BY <1>1, <1>2, <1>3 DEF CallsInv, Timers!Finished
  <1> QED
    BY <1>5, <1>6, <1>7 DEF ResetsWell

(* A ThreadX call of one thread.  If another one is alone, this thread     *)
(* makes none.                                                             *)
LEMMA ThreadStep ==
  ASSUME ResetInv, NEW t \in Threads, Timers!Step(t), UNCHANGED alone
  PROVE  CallsInv' /\ AloneInv' /\ \A u \in alone : ResetsWell(u)
  <1> USE DEF ResetInv
  <1>1. timer_pc[t] \in TimerLabels /\ timer_pc[t] # "idle" /\ fn' = fn
        /\ fn[t] \in Timers!Functions
    BY DEF Timers!Step, Timers!CheckActive, Timers!Activate, Timers!Deactivate, Timers!Change,
           Timers!Return, Timers!GoTo, CallsInv
  <1>2. PICK label \in TimerLabels, answer \in {"none", "U_SUCCESS", "U_ERROR"} :
          /\ timer_pc' = [timer_pc EXCEPT ![t] = label]
          /\ timer_result' = [timer_result EXCEPT ![t] = answer]
          /\ label = "activate" => timer_pc[t] = "isActive"
          /\ label = "change" => timer_pc[t] = "deactivate" /\ fn[t] # "timer_stop"
          /\ label = "isActive" => timer_pc[t] = "change" /\ fn[t] # "timer_reset"
          /\ label # "deactivate"
    <2>1. timer_result[t] \in {"none", "U_SUCCESS", "U_ERROR"}
          /\ timer_result = [timer_result EXCEPT ![t] = timer_result[t]]
      BY DEF CallsInv
    <2>2. CASE Timers!CheckActive(t)
      BY <2>1, <2>2 DEF Timers!CheckActive, Timers!Return, Timers!GoTo, TimerLabels
    <2>3. CASE Timers!Activate(t)
      BY <2>1, <2>3 DEF Timers!Activate, Timers!Return, TimerLabels
    <2>4. CASE Timers!Deactivate(t)
      BY <2>1, <2>4 DEF Timers!Deactivate, Timers!Return, Timers!GoTo, TimerLabels
    <2>5. CASE Timers!Change(t)
      BY <2>1, <2>5 DEF Timers!Change, Timers!Return, Timers!GoTo, TimerLabels
    <2> QED
      BY <2>2, <2>3, <2>4, <2>5 DEF Timers!Step
  <1>3. CallsInv'
    BY <1>1, <1>2 DEF CallsInv, Timers!Functions
  <1>4. alone \subseteq {t}
    BY <1>1 DEF AloneInv, CallsInv
  <1>5. \A u \in Threads : u # t => timer_pc'[u] = timer_pc[u]
    BY <1>2 DEF CallsInv
  <1>6. ASSUME t \in alone PROVE AloneInv' /\ ResetsWell(t)
    <2>1. \A u \in Threads : u # t => timer_pc'[u] = "idle"
      BY <1>5, <1>6 DEF AloneInv
    <2>2. timer_pc[t] = "change" => ~active
      BY <1>6 DEF AloneInv
    <2>3. timer_pc[t] \in {"isActive", "activate"} /\ fn[t] = "timer_restart" =>
            ~active /\ remaining = Duration /\ t \in inactive_full
      BY <1>6 DEF AloneInv
    <2>4. Duration \in Nat /\ Duration > 0
      BY RescheduleTicks
    <2>5. CASE Timers!CheckActive(t)
      <3>1. /\ timer_pc[t] = "isActive" /\ UNCHANGED <<active, remaining>>
            /\ inactive_full \subseteq inactive_full'
            /\ \/ active /\ timer_pc' = [timer_pc EXCEPT ![t] = "idle"]
               \/ ~active /\ timer_pc' = [timer_pc EXCEPT ![t] = "activate"]
        BY <2>5 DEF Timers!CheckActive, Timers!Return, Timers!GoTo, Timers!Witness, Timers!timer
      <3>2. timer_pc'[t] = IF active THEN "idle" ELSE "activate"
        BY <3>1 DEF CallsInv
      <3>3. fn[t] \in {"timer_start", "timer_restart"}
        BY <3>1 DEF CallsInv
      <3>4. ResetsWell(t)
        BY <2>3, <3>1, <3>2, <3>3 DEF ResetsWell, Timers!Finished
      <3>5. AloneInv'
        BY <1>1, <1>4, <2>1, <2>3, <3>1, <3>2 DEF AloneInv
      <3> QED
        BY <3>4, <3>5
    <2>6. CASE Timers!Activate(t)
      <3>1. timer_pc[t] = "activate" /\ timer_pc' = [timer_pc EXCEPT ![t] = "idle"]
        BY <2>6 DEF Timers!Activate, Timers!Return
      <3>2. timer_pc'[t] = "idle" /\ fn[t] \in {"timer_start", "timer_restart"}
        BY <3>1 DEF CallsInv
      <3>3. inactive_full \subseteq inactive_full' /\ remaining' = remaining
        BY <2>6 DEF Timers!Activate, Timers!Witness
      <3>4. fn[t] = "timer_restart" => active' /\ timer_result'[t] = "U_SUCCESS"
        BY <2>3, <2>4, <2>6, <3>1 DEF Timers!Activate, Timers!Return, CallsInv
      <3>5. ResetsWell(t)
        BY <2>3, <3>1, <3>2, <3>3, <3>4 DEF ResetsWell
      <3>6. AloneInv'
        BY <1>4, <2>1, <3>2 DEF AloneInv
      <3> QED
        BY <3>5, <3>6
    <2>7. CASE Timers!Deactivate(t)
      <3>1. timer_pc[t] = "deactivate" /\ ~active'
        BY <2>7 DEF Timers!Deactivate
      <3>2. timer_pc'[t] = IF fn[t] = "timer_stop" THEN "idle" ELSE "change"
        BY <2>7 DEF Timers!Deactivate, Timers!Return, Timers!GoTo, CallsInv
      <3>3. ResetsWell(t)
        BY <3>2 DEF ResetsWell, Timers!Finished
      <3>4. AloneInv'
        BY <1>4, <2>1, <3>1, <3>2 DEF AloneInv
      <3> QED
        BY <3>3, <3>4
    <2>8. CASE Timers!Change(t)
      <3>1. timer_pc[t] = "change" /\ ~active /\ active' = active /\ remaining' = Duration
        BY <2>2, <2>8 DEF Timers!Change
      <3>2. inactive_full' = inactive_full \union {u \in Threads : timer_pc[u] # "idle"}
        BY <2>8, <3>1 DEF Timers!Change, Timers!Witness
      <3>3. t \in inactive_full'
        BY <3>1, <3>2
      <3>4. timer_pc'[t] = IF fn[t] = "timer_reset" THEN "idle" ELSE "isActive"
        BY <2>8 DEF Timers!Change, Timers!Return, Timers!GoTo, CallsInv
      <3>5. ResetsWell(t)
        BY <3>3, <3>4 DEF ResetsWell, Timers!Finished
      <3>6. AloneInv'
        BY <1>4, <2>1, <3>1, <3>3, <3>4 DEF AloneInv
      <3> QED
        BY <3>5, <3>6
    <2> QED
      BY <2>5, <2>6, <2>7, <2>8 DEF Timers!Step
  <1>7. t \notin alone => alone' = {}
    BY <1>4
  <1> QED
    BY <1>3, <1>4, <1>6, <1>7 DEF AloneInv

LEMMA TickStep ==
  ASSUME ResetInv, Timers!Tick, UNCHANGED alone
  PROVE  CallsInv' /\ AloneInv' /\ \A u \in alone : ResetsWell(u)
  <1> USE DEF ResetInv
  <1>1. /\ UNCHANGED <<timer_pc, fn, timer_result>>
        /\ ~active => UNCHANGED <<active, remaining>>
        /\ inactive_full \subseteq inactive_full'
    BY DEF Timers!Tick, Timers!threads, Timers!timer, Timers!Witness
  <1>2. CallsInv'
    BY <1>1 DEF CallsInv
  <1>3. AloneInv'
    BY <1>1 DEF AloneInv
  <1>4. \A u \in alone : ~Timers!Finished(u)
    BY <1>1 DEF Timers!Finished
  <1> QED
    BY <1>2, <1>3, <1>4 DEF ResetsWell

LEMMA ResetStep ==
  ResetInv /\ [Timers!Next]_(Timers!vars) =>
    ResetInv' /\ [\A u \in alone : ResetsWell(u)]_(Timers!vars)
  <1> SUFFICES ASSUME ResetInv, [Timers!Next]_(Timers!vars)
               PROVE  CallsInv' /\ AloneInv' /\ [\A u \in alone : ResetsWell(u)]_(Timers!vars)
    BY TimerStep DEF ResetInv
  <1>1. CASE UNCHANGED Timers!vars
    BY <1>1 DEF Timers!vars, Timers!timer, Timers!threads, Timers!history, ResetInv, CallsInv,
                AloneInv
  <1>2. CASE Timers!Next
    BY <1>2, CallStep, ThreadStep, TickStep DEF Timers!Next
  <1> QED
    BY <1>1, <1>2

(* For every number of threads and every duration: a reset or restart that *)
(* no other call overlaps stops the timer with its full duration left,     *)
(* whatever the tick does, and such a restart never fails.                 *)
THEOREM ResetsAloneTakeEffect == Timers!Spec => ResetAloneTakesEffect
  <1>1. Timers!Init => ResetInv
    BY TimerInit, CallsInit DEF ResetInv
  <1>2. Timers!Spec => [][\A u \in alone : ResetsWell(u)]_(Timers!vars)
    BY <1>1, ResetStep, PTL DEF Timers!Spec
  <1>3. [\A u \in alone : ResetsWell(u)]_(Timers!vars) =>
          [\A t \in alone : Timers!Finished(t) =>
             /\ timer_result'[t] = "U_SUCCESS" /\ fn[t] \in {"timer_reset", "timer_restart"}
                => t \in inactive_full'
             /\ fn[t] = "timer_restart"
                => timer_result'[t] = "U_SUCCESS" /\ active' /\ remaining' = Duration
          ]_(Timers!vars)
    BY DEF ResetsWell
  <1> QED
    BY <1>2, <1>3, PTL DEF ResetAloneTakesEffect, Timers!ResetAloneTakesEffect

-------------------------------------------------------------------------------
(* While a message is queued, somebody is going to act on it: the consumer *)
(* is taking messages, or its flag is set, or a producer is about to set   *)
(* it.                                                                     *)
Attended ==
  /\ consumer \in {"waiting", "draining"}
  /\ message_queue # <<>> => consumer = "draining" \/ flag \/ between # {}

LEMMA AttendedInit == Notified!Init => Attended
  BY DEF Notified!Init, Attended

LEMMA AttendedStep == Attended /\ [Notified!Next]_(Notified!vars) => Attended'
  <1> SUFFICES ASSUME Attended, [Notified!Next]_(Notified!vars) PROVE Attended'
    OBVIOUS
  <1> USE DEF Attended
  <1>1. ASSUME NEW p \in Producers, Notified!osMessageQueuePut(p) PROVE Attended'
    BY <1>1 DEF Notified!osMessageQueuePut
  <1>2. ASSUME NEW p \in Producers, Notified!osThreadFlagsSet(p) PROVE Attended'
    BY <1>2 DEF Notified!osThreadFlagsSet
  <1>3. CASE Notified!Wake
    BY <1>3 DEF Notified!Wake
  <1>4. CASE Notified!Take
    BY <1>4 DEF Notified!Take
  <1>5. CASE Notified!Wait
    BY <1>5 DEF Notified!Wait
  <1>6. CASE UNCHANGED Notified!vars
    BY <1>6 DEF Notified!vars
  <1> QED
    BY <1>1, <1>2, <1>3, <1>4, <1>5, <1>6 DEF Notified!Next, Notified!queue_and_set_flag

(* A consumer that sleeps with no flag set and no producer about to set it *)
(* has left no message in the queue.                                       *)
THEOREM WakeUpNotLost == Notified!Spec => []NothingStranded
  <1>1. Attended => NothingStranded
    BY DEF Attended, NothingStranded, Notified!NothingStranded
  <1> QED
    BY AttendedInit, AttendedStep, <1>1, PTL DEF Notified!Spec

-------------------------------------------------------------------------------
(* The three components side by side are each of them, so that what was    *)
(* proved of each holds where they are checked together.                   *)
THEOREM SideBySide == ThreadXSpec => Spec /\ Timers!Spec /\ Notified!Spec
  <1>1. ThreadXInit => Init /\ Timers!Init /\ Notified!Init
    BY DEF ThreadXInit
  <1>2. [ThreadXNext]_allVars => [Next]_vars
    BY DEF ThreadXNext, allVars
  <1>3. [ThreadXNext]_allVars => [Timers!Next]_(Timers!vars)
    BY DEF ThreadXNext, allVars, timersVars, Timers!vars, Timers!timer, Timers!threads,
      Timers!history
  <1>4. [ThreadXNext]_allVars => [Notified!Next]_(Notified!vars)
    BY DEF ThreadXNext, allVars, notifyVars, Notified!vars
  <1> QED
    BY <1>1, <1>2, <1>3, <1>4, PTL DEF ThreadXSpec, Spec, Timers!Spec, Notified!Spec
================================================================================
