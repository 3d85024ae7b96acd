------------------------------- MODULE TxCreate -------------------------------
(***************************************************************************)
(* create_thread of threadX/src/u_tx_threads.c and create_queue of         *)
(* threadX/src/u_tx_queues.c: both take memory from a byte pool, give it   *)
(* to ThreadX, and release it when ThreadX refuses.  Threads that set up   *)
(* the application call them at the same time, on the same pool, and may   *)
(* create the same object twice.                                           *)
(*                                                                         *)
(* A block of the pool is named by the call that allocated it.  ThreadX    *)
(* (external) refuses an object that exists already or whose settings are  *)
(* invalid.  A suffixed name is a seeded fault.  TxQueue adds what threads *)
(* do with a queue once it exists.                                         *)
(***************************************************************************)
EXTENDS Naturals, FiniteSets

CONSTANTS
  Threads,
  Objects,   \* thread_t and queue_t instances
  Invalid,   \* those ThreadX refuses to create
  PoolSize,  \* blocks the byte pool holds
  MaxCalls   \* bound on the calls of each thread

CreateAssumption == Invalid \subseteq Objects /\ PoolSize \in Nat /\ MaxCalls \in Nat

VARIABLES
  blocks,   \* blocks allocated from the pool
  memory,   \* of each object that exists, its block
  object,   \* the object each thread creates or created last
  pc, calls, result

NoBlock == <<>>
Block(t) == <<t, calls[t]>>
Exists(o) == memory[o] # NoBlock

CreateInit ==
  /\ blocks = {}
  /\ memory = [o \in Objects |-> NoBlock]
  /\ object \in [Threads -> Objects]
  /\ pc = [t \in Threads |-> "idle"]
  /\ calls = [t \in Threads |-> 0]
  /\ result = [t \in Threads |-> "U_SUCCESS"]

Idle(t) == pc[t] = "idle" /\ calls[t] < MaxCalls

Begin(t, label) ==
  /\ Idle(t)
  /\ calls' = [calls EXCEPT ![t] = @ + 1]
  /\ pc' = [pc EXCEPT ![t] = label]
  /\ UNCHANGED result

Return(t, status) ==
  /\ pc' = [pc EXCEPT ![t] = "idle"]
  /\ result' = [result EXCEPT ![t] = status]
  /\ UNCHANGED calls

GoTo(t, label) ==
  /\ pc' = [pc EXCEPT ![t] = label]
  /\ UNCHANGED <<calls, result>>

BeginCreate(t) ==
  /\ Begin(t, "allocate")
  /\ \E o \in Objects : object' = [object EXCEPT ![t] = o]
  /\ UNCHANGED <<blocks, memory>>

(* tx_byte_allocate with TX_NO_WAIT.                                       *)
Allocate(t) ==
  /\ pc[t] = "allocate"
  /\ \/ /\ Cardinality(blocks) < PoolSize
        /\ blocks' = blocks \union {Block(t)}
        /\ GoTo(t, "create")
     \/ /\ Cardinality(blocks) >= PoolSize
        /\ Return(t, "U_ERROR")
        /\ UNCHANGED blocks
  /\ UNCHANGED <<memory, object>>

(* tx_queue_create, tx_thread_create.                                      *)
Create(t) ==
  /\ pc[t] = "create"
  /\ IF object[t] \in Invalid \/ Exists(object[t])
     THEN GoTo(t, "release") /\ UNCHANGED memory
     ELSE memory' = [memory EXCEPT ![object[t]] = Block(t)] /\ Return(t, "U_SUCCESS")
  /\ UNCHANGED <<blocks, object>>

(* tx_byte_release.                                                        *)
Release_Forgotten(t) ==
  /\ pc[t] = "release"
  /\ Return(t, "U_ERROR")
  /\ UNCHANGED <<blocks, memory, object>>

Release(t) ==
  /\ pc[t] = "release"
  /\ blocks' = blocks \ {Block(t)}
  /\ Return(t, "U_ERROR")
  /\ UNCHANGED <<memory, object>>

CreateStep(t) == BeginCreate(t) \/ Allocate(t) \/ Create(t) \/ Release(t)

-------------------------------------------------------------------------------
(* The pool holds a block for each object that exists and for each call    *)
(* between its allocation and its end, and nothing else: a creation that   *)
(* fails leaves the pool as it found it, and never takes the memory of an  *)
(* object that exists.                                                     *)
PoolAccounted ==
  blocks = {memory[o] : o \in {q \in Objects : Exists(q)}}
             \union {Block(t) : t \in {u \in Threads : pc[u] \in {"create", "release"}}}
===============================================================================
