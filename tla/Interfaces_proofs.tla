--------------------------- MODULE Interfaces_proofs ---------------------------
(***************************************************************************)
(* Proofs about the interfaces to other boards.  CAN: the filters and the  *)
(* reception of stm32h563/src/fdcan.c, for every set of calls that may     *)
(* fail and any number of failures, and the room in the Tx FIFO that a     *)
(* sender found, for any number of senders.  Ethernet: an initialized device of NetX/src/u_nx_ethernet.c is *)
(* complete, for any number of threads that initialize, reconnect and send *)
(* at the same time, and any number of failures and drops.                 *)
(***************************************************************************)
EXTENDS Fdcan, EthernetDevice, TLAPS

-------------------------------------------------------------------------------
(***************************************************************************)
(* CAN.                                                                    *)
(***************************************************************************)
FilterTypes ==
  /\ startup \in {"init", "standard", "extended", "done"}
  /\ filter_index \in [Kinds -> Nat]
  /\ added \in [Kinds -> Seq(IdPairs)]
  /\ filters \in [Kinds -> [0 .. MaxFilters - 1 -> IdPairs \cup {None}]]

(* The first n filters of a kind are those added, and there is room for    *)
(* them.                                                                   *)
Kept(kind) ==
  /\ filter_index[kind] = Len(added[kind])
  /\ filter_index[kind] <= MaxFilters
  /\ \A i \in 1 .. Len(added[kind]) : filters[kind][i - 1] = added[kind][i]

(* can_init resets the indices: it must not succeed when a filter has been *)
(* added.  It does not, since filters are added to a peripheral that it    *)
(* has started, and a started peripheral it refuses.                       *)
NoneAdded(kind) == filter_index[kind] = 0 /\ added[kind] = << >>

FilterInv ==
  /\ FilterTypes
  /\ startup # "init" => \A k \in Kinds : Kept(k)
  /\ (startup = "init" /\ hal = "ready") \/ startup = "standard" => \A k \in Kinds : NoneAdded(k)
  /\ startup = "extended" => NoneAdded("extended")
  /\ startup \in {"standard", "extended"} => hal = "started"
  /\ startup # "done" => recovery = "idle"
  /\ hal \in {"ready", "started"}

(* Where a recovery is, and what it has restored.                          *)
ReceiveInv ==
  /\ startup # "done" => recovery = "idle" /\ recovered = "none"
  /\ startup # "init" => rejects
  /\ startup # "init" /\ recovery = "idle" /\ recovered # "error" =>
       hal = "started" /\ "rx" \in notify
  /\ recovery = "notify" => hal = "started"

(* The room that a sender found stays until another one adds a frame.      *)
RoomInv ==
  /\ send \in [Senders -> {"idle", "busy", "add", "ok", "error"}]
  /\ fifo \in 0 .. FifoDepth
  /\ \A s \in Senders : send[s] = "add" /\ s \notin overtaken => fifo < FifoDepth

-------------------------------------------------------------------------------
(* One more filter, at the index that comes next.                          *)
LEMMA KeptStep ==
  ASSUME FilterTypes, NEW kind \in Kinds, NEW ids \in IdPairs,
         Kept(kind), filter_index[kind] < MaxFilters,
         filters' = [filters EXCEPT ![kind][filter_index[kind]] = ids],
         filter_index' = [filter_index EXCEPT ![kind] = @ + 1],
         added' = [added EXCEPT ![kind] = Append(@, ids)]
  PROVE  /\ Kept(kind)'
         /\ filter_index' \in [Kinds -> Nat]
         /\ added' \in [Kinds -> Seq(IdPairs)]
         /\ filters' \in [Kinds -> [0 .. MaxFilters - 1 -> IdPairs \cup {None}]]
         /\ \A k \in Kinds \ {kind} : /\ Kept(k) => Kept(k)'
                                      /\ NoneAdded(k) => NoneAdded(k)'
  <1> USE FiltersAssumption
  <1> DEFINE n == filter_index[kind]
  <1>1. n \in 0 .. MaxFilters - 1 /\ n = Len(added[kind]) /\ added[kind] \in Seq(IdPairs)
    BY DEF FilterTypes, Kept
  <1>2. filters[kind] \in [0 .. MaxFilters - 1 -> IdPairs \cup {None}]
    BY DEF FilterTypes
  <1>3. filters'[kind] = [filters[kind] EXCEPT ![n] = ids]
    BY <1>1 DEF FilterTypes
  <1>4. /\ added'[kind] = Append(added[kind], ids)
        /\ filter_index'[kind] = n + 1
    BY <1>1 DEF FilterTypes
  <1>5. /\ Len(added'[kind]) = n + 1
        /\ \A i \in 1 .. n + 1 :
             added'[kind][i] = IF i = n + 1 THEN ids ELSE added[kind][i]
    BY <1>1, <1>4
  <1>6. \A i \in 1 .. n + 1 :
          filters'[kind][i - 1] = IF i = n + 1 THEN ids ELSE filters[kind][i - 1]
    BY <1>1, <1>2, <1>3
  <1>7. Kept(kind)'
    BY <1>1, <1>4, <1>5, <1>6 DEF Kept
  <1>8. /\ filter_index' \in [Kinds -> Nat]
        /\ added' \in [Kinds -> Seq(IdPairs)]
    BY <1>1 DEF FilterTypes
  <1>9. filters' \in [Kinds -> [0 .. MaxFilters - 1 -> IdPairs \cup {None}]]
    <2>1. filters' = [filters EXCEPT ![kind] = [filters[kind] EXCEPT ![n] = ids]]
      BY DEF FilterTypes
    <2>2. [filters[kind] EXCEPT ![n] = ids] \in [0 .. MaxFilters - 1 -> IdPairs \cup {None}]
      BY <1>1, <1>2
    <2> QED
      BY <2>1, <2>2 DEF FilterTypes
  <1>10. \A k \in Kinds \ {kind} : /\ Kept(k) => Kept(k)'
                                   /\ NoneAdded(k) => NoneAdded(k)'
    BY DEF Kept, NoneAdded, FilterTypes
  <1> QED
    BY <1>7, <1>8, <1>9, <1>10

-------------------------------------------------------------------------------
LEMMA FilterInit == FdcanInit => FilterInv
  <1> SUFFICES ASSUME FdcanInit PROVE FilterInv
    OBVIOUS
  <1>1. FilterTypes
    BY FiltersAssumption DEF FdcanInit, FilterTypes, None
  <1>2. \A k \in Kinds : NoneAdded(k)
    BY DEF FdcanInit, NoneAdded
  <1> QED
    BY <1>1, <1>2 DEF FdcanInit, FilterInv

LEMMA FilterStep == FilterInv /\ [FdcanNext]_fdcanVars => FilterInv'
  <1> SUFFICES ASSUME FilterInv, [FdcanNext]_fdcanVars PROVE FilterInv'
    OBVIOUS
  <1> USE DEF FilterInv
  <1>1. ASSUME NEW failed \in 1 .. 7, StartInit(failed) PROVE FilterInv'
    <2>1. FilterTypes'
      BY <1>1 DEF StartInit, can_init, FilterTypes
    <2>2. hal = "ready" => \A k \in Kinds : NoneAdded(k)'
      BY <1>1 DEF StartInit, can_init, NoneAdded
    <2>3. startup' = "standard" => hal = "ready" /\ hal' = "started"
      BY <1>1 DEF StartInit, can_init
    <2>4. startup' \in {"init", "standard"} /\ hal' \in {"ready", "started"}
          /\ (hal' = "ready" => hal = "ready") /\ recovery' = "idle"
      BY <1>1 DEF StartInit, can_init
    <2>5. \A k \in Kinds : NoneAdded(k)' => Kept(k)'
      BY FiltersAssumption DEF NoneAdded, Kept
    <2> QED
      BY <2>1, <2>2, <2>3, <2>4, <2>5
  <1>2. ASSUME NEW ids \in IdPairs, NEW fault \in BOOLEAN, StartFilter(ids, fault)
        PROVE  FilterInv'
    <2>1. /\ startup \in {"standard", "extended"} /\ hal = "started"
          /\ UNCHANGED <<hal, recovery>>
      BY <1>2 DEF StartFilter
    <2>2. CASE fault
      BY <1>2, <2>1, <2>2 DEF StartFilter, AddFilter, can_add_filter_standard,
        can_add_filter_extended, canVars, FilterTypes, Kept, NoneAdded
    <2>3. CASE ~fault
      <3>1. PICK kind \in Kinds :
              /\ filters' = [filters EXCEPT ![kind][filter_index[kind]] = ids]
              /\ filter_index' = [filter_index EXCEPT ![kind] = @ + 1]
              /\ added' = [added EXCEPT ![kind] = Append(@, ids)]
              /\ NoneAdded(kind) /\ Kept(kind)
              /\ \/ startup = "standard" /\ startup' = "extended" /\ kind = "standard"
                 \/ startup = "extended" /\ startup' = "done" /\ kind = "extended"
        BY <1>2, <2>1, <2>3 DEF StartFilter, AddFilter, can_add_filter_standard,
          can_add_filter_extended, Kinds
      <3>2. filter_index[kind] < MaxFilters
        BY <3>1, FiltersAssumption DEF NoneAdded
      <3>3. /\ FilterTypes'
            /\ Kept(kind)'
            /\ \A k \in Kinds \ {kind} : /\ Kept(k) => Kept(k)'
                                         /\ NoneAdded(k) => NoneAdded(k)'
        BY <3>1, <3>2, KeptStep DEF FilterTypes
      <3> QED
        BY <2>1, <3>1, <3>3 DEF Kinds
    <2> QED
      BY <2>2, <2>3
  <1>3. ASSUME NEW ids \in IdPairs, NEW fault \in BOOLEAN, MoreFilters(ids, fault)
        PROVE  FilterInv'
    <2>1. startup = "done" /\ UNCHANGED <<hal, recovery, startup>>
      BY <1>3 DEF MoreFilters
    <2>2. CASE fault
      BY <1>3, <2>1, <2>2 DEF MoreFilters, AddFilter, can_add_filter_standard,
        can_add_filter_extended, canVars, FilterTypes, Kept, NoneAdded
    <2>3. CASE ~fault
      <3>1. PICK kind \in Kinds :
              /\ filters' = [filters EXCEPT ![kind][filter_index[kind]] = ids]
              /\ filter_index' = [filter_index EXCEPT ![kind] = @ + 1]
              /\ added' = [added EXCEPT ![kind] = Append(@, ids)]
              /\ filter_index[kind] < MaxFilters
        BY <1>3, <2>3 DEF MoreFilters, AddFilter, can_add_filter_standard,
          can_add_filter_extended, Kinds
      <3>2. /\ FilterTypes'
            /\ Kept(kind)'
            /\ \A k \in Kinds \ {kind} : Kept(k) => Kept(k)'
        BY <2>1, <3>1, KeptStep DEF FilterTypes
      <3> QED
        BY <2>1, <3>2
    <2> QED
      BY <2>2, <2>3
  <1>4. ASSUME UNCHANGED canVars, UNCHANGED startup,
               hal' \in {"ready", "started"}, startup # "done" => UNCHANGED <<hal, recovery>>
        PROVE  FilterInv'
    BY <1>4 DEF canVars, FilterTypes, Kept, NoneAdded
  <1>5. ASSUME NEW s \in Senders, SendCheck(s) \/ SendAdd(s) PROVE FilterInv'
    BY <1>4, <1>5 DEF SendCheck, SendAdd
  <1>6. CASE Transmit \/ BusOff
    BY <1>4, <1>6 DEF Transmit, BusOff
  <1>7. CASE Recover
    BY <1>4, <1>7 DEF Recover, RecoverBegin, RecoverStop, RecoverStart, RecoverNotify
  <1>8. CASE UNCHANGED fdcanVars
    BY <1>4, <1>8 DEF fdcanVars
  <1> QED
    BY <1>1, <1>2, <1>3, <1>5, <1>6, <1>7, <1>8 DEF FdcanNext, Startup

(* Every filter whose addition was reported successful stays, whatever     *)
(* fails in startups, additions and recoveries.                            *)
THEOREM FiltersStay == FdcanSpec => []FiltersKept
  <1>1. FilterInv => FiltersKept
    BY DEF FilterInv, FiltersKept, Kept
  <1> QED
    BY FilterInit, FilterStep, <1>1, PTL DEF FdcanSpec

-------------------------------------------------------------------------------
LEMMA ReceiveInit == FdcanInit => ReceiveInv
  BY DEF FdcanInit, ReceiveInv

LEMMA ReceiveStep == ReceiveInv /\ [FdcanNext]_fdcanVars => ReceiveInv'
  <1> SUFFICES ASSUME ReceiveInv, [FdcanNext]_fdcanVars PROVE ReceiveInv'
    OBVIOUS
  <1> USE DEF ReceiveInv
  <1>1. ASSUME NEW failed \in 1 .. 7, StartInit(failed) PROVE ReceiveInv'
    <2>1. CASE failed = 7
      <3>1. hal' = "started" /\ "rx" \in notify'
        BY <1>1, <2>1 DEF StartInit, can_init
      <3>2. failed > 5
        BY <2>1
      <3>3. rejects'
        BY <1>1, <3>2, Zenon DEF StartInit, can_init
      <3>4. startup = "init" /\ UNCHANGED <<recovery, recovered>>
        BY <1>1 DEF StartInit
      <3> QED
        BY <3>1, <3>3, <3>4
    <2>2. CASE failed # 7
      <3>1. startup = "init" /\ startup' = "init" /\ UNCHANGED <<hal, recovery, recovered>>
        BY <1>1, <2>2 DEF StartInit, can_init
      <3> QED
        BY <3>1
    <2> QED
      BY <2>1, <2>2
  <1>2. ASSUME NEW ids \in IdPairs, NEW fault \in BOOLEAN,
               StartFilter(ids, fault) \/ MoreFilters(ids, fault)
        PROVE  ReceiveInv'
    BY <1>2 DEF StartFilter, MoreFilters
  <1>3. ASSUME NEW s \in Senders, SendCheck(s) \/ SendAdd(s) PROVE ReceiveInv'
    BY <1>3 DEF SendCheck, SendAdd
  <1>4. CASE Transmit \/ BusOff
    BY <1>4 DEF Transmit, BusOff
  <1>5. CASE RecoverBegin
    BY <1>5 DEF RecoverBegin
  <1>6. CASE RecoverStop
    BY <1>6 DEF RecoverStop
  <1>7. CASE RecoverStart
    BY <1>7 DEF RecoverStart
  <1>8. CASE RecoverNotify
    BY <1>8 DEF RecoverNotify
  <1>9. CASE UNCHANGED fdcanVars
    BY <1>9 DEF fdcanVars
  <1> QED
    BY <1>1, <1>2, <1>3, <1>4, <1>5, <1>6, <1>7, <1>8, <1>9 DEF FdcanNext, Startup, Recover

(* A startup and a last recovery that reported success left the peripheral *)
(* started, notifying, and rejecting what no filter accepts.               *)
THEOREM HealthyReceives == FdcanSpec => []ReceivesWhenHealthy
  <1>1. ReceiveInv => ReceivesWhenHealthy
    BY DEF ReceiveInv, ReceivesWhenHealthy
  <1> QED
    BY ReceiveInit, ReceiveStep, <1>1, PTL DEF FdcanSpec

-------------------------------------------------------------------------------
LEMMA RoomStep == RoomInv /\ [FdcanNext]_fdcanVars => RoomInv'
  <1> SUFFICES ASSUME RoomInv, [FdcanNext]_fdcanVars PROVE RoomInv'
    OBVIOUS
  <1> USE DepthAssumption DEF RoomInv
  <1>1. ASSUME NEW failed \in 1 .. 7, StartInit(failed) PROVE RoomInv'
    BY <1>1 DEF StartInit, busVars, sendVars
  <1>2. ASSUME NEW ids \in IdPairs, NEW fault \in BOOLEAN,
               StartFilter(ids, fault) \/ MoreFilters(ids, fault)
        PROVE  RoomInv'
    BY <1>2 DEF StartFilter, MoreFilters, busVars, sendVars
  <1>3. ASSUME NEW s \in Senders, SendCheck(s) PROVE RoomInv'
    BY <1>3 DEF SendCheck, busVars
  <1>4. ASSUME NEW s \in Senders, SendAdd(s) PROVE RoomInv'
    <2>1. CASE hal = "started" /\ fifo < FifoDepth
      <3>1. /\ fifo' \in 0 .. FifoDepth
            /\ send' = [send EXCEPT ![s] = "ok"]
            /\ overtaken' = (overtaken \cup {t \in Senders : send[t] = "add"}) \ {s}
        BY <1>4, <2>1 DEF SendAdd
      <3>2. \A t \in Senders : send'[t] = "add" => t \in overtaken'
        BY <3>1
      <3> QED
        BY <3>1, <3>2
    <2>2. CASE ~(hal = "started" /\ fifo < FifoDepth)
      BY <1>4, <2>2 DEF SendAdd
    <2> QED
      BY <2>1, <2>2
  <1>5. CASE Transmit \/ BusOff
    BY <1>5 DEF Transmit, BusOff, sendVars
  <1>6. CASE Recover
    BY <1>6 DEF Recover, RecoverBegin, RecoverStop, RecoverStart, RecoverNotify, busVars, sendVars
  <1>7. CASE UNCHANGED fdcanVars
    BY <1>7 DEF fdcanVars, busVars, sendVars
  <1> QED
    BY <1>1, <1>2, <1>3, <1>4, <1>5, <1>6, <1>7 DEF FdcanNext, Startup

(* For any number of senders: a frame for which can_send_msg found room    *)
(* gets an error only if a recovery stopped the peripheral in between, or  *)
(* another sender added a frame.                                           *)
THEOREM RoomFoundStays == FdcanSpec => RefusedOnlyIfOvertaken
  <1> DEFINE Refusal == \A s \in Senders : send[s] = "add" /\ send'[s] = "error" =>
                                           hal # "started" \/ s \in overtaken
  <1>1. FdcanInit => RoomInv
    BY DepthAssumption DEF FdcanInit, RoomInv
  <1>2. RoomInv /\ [FdcanNext]_fdcanVars => [Refusal]_fdcanVars
    <2> SUFFICES ASSUME RoomInv, FdcanNext, NEW s \in Senders, send[s] = "add", send'[s] = "error"
                 PROVE  hal # "started" \/ s \in overtaken
      OBVIOUS
    <2>1. send' # send
      OBVIOUS
    <2>2. PICK t \in Senders : SendCheck(t) \/ SendAdd(t)
      BY <2>1 DEF FdcanNext, Startup, StartInit, StartFilter, MoreFilters, Transmit, BusOff,
        Recover, RecoverBegin, RecoverStop, RecoverStart, RecoverNotify, sendVars
    <2>3. t = s /\ SendAdd(s)
      BY <2>2 DEF SendCheck, SendAdd, RoomInv
    <2> QED
      BY <2>3 DEF SendAdd, RoomInv
  <1>3. FdcanSpec => [][Refusal]_fdcanVars
    BY <1>1, RoomStep, <1>2, PTL DEF FdcanSpec
  <1> QED
    BY <1>3, PTL DEF RefusedOnlyIfOvertaken

-------------------------------------------------------------------------------
(***************************************************************************)
(* Ethernet.                                                               *)
(***************************************************************************)
N == 14

(* The thread t has got past the first call of ethernet_init, which is     *)
(* refused the second time: at most one thread ever has.                   *)
Past(t) == pc[t] \in {InitCalls[i] : i \in 2 .. N} \cup {"mark"}

(* What the calls before the i-th have set up; the loop sets up nothing.   *)
SetUpBefore(i) == \A j \in 1 .. i - 1 : InitCalls[j] \in works \cup {"link", "connect"}

Progress(t) ==
  /\ \A i \in 2 .. N : pc[t] = InitCalls[i] => SetUpBefore(i) /\ (i > 3 => link)
  /\ pc[t] = "mark" => SetUpBefore(N + 1)

Labels == {InitCalls[i] : i \in 1 .. N} \cup {"idle", "store", "mark", "recreate", "reconnect",
                                              "send", "publish"}

(* The device as ReadyMeansComplete wants it, but for its names.           *)
Complete ==
  is_initialized => /\ Base \subseteq works
                    /\ deleted \/ "mqtt_client" \in works

ReadyInv ==
  /\ pc \in [Threads -> Labels]
  /\ \A t \in Threads : Past(t) => ~is_initialized /\ "packet_pool" \in works /\ Progress(t)
  /\ \A t, u \in Threads : Past(t) /\ Past(u) => t = u
  /\ is_initialized => "packet_pool" \in works
  /\ \A t \in Threads : pc[t] \in {"recreate", "reconnect"} => is_initialized
  /\ Complete

-------------------------------------------------------------------------------
(* The calls are all different, so that After goes to the next.            *)
LEMMA Distinct == \A i, j \in 1 .. N : InitCalls[i] = InitCalls[j] => i = j
  BY DEF InitCalls, N

LEMMA AfterIsNext == \A i \in 1 .. N - 1 : After(InitCalls[i]) = InitCalls[i + 1]
  <1> SUFFICES ASSUME NEW k \in 1 .. N - 1 PROVE After(InitCalls[k]) = InitCalls[k + 1]
    OBVIOUS
  <1>1. DOMAIN InitCalls = 1 .. N
    BY DEF InitCalls, N
  <1>2. k \in 1 .. N
    BY DEF N
  <1>3. (CHOOSE i \in 1 .. N : InitCalls[i] = InitCalls[k]) = k
    BY <1>2, Distinct
  <1> QED
    BY <1>1, <1>3 DEF After

LEMMA Places ==
  /\ Range(InitCalls) = {InitCalls[i] : i \in 1 .. N}
  /\ InitCalls[1] = "packet_pool" /\ InitCalls[3] = "link" /\ InitCalls[N] = "connect"
  /\ \A i \in 1 .. N : /\ InitCalls[i] \in NeedsLink => i > 3
                       /\ InitCalls[i] \notin {"idle", "store", "mark", "recreate", "reconnect",
                                            "send", "publish"}
                       /\ InitCalls[i] = "link" => i = 3
                       /\ InitCalls[i] = "connect" => i = N
  <1>1. DOMAIN InitCalls = 1 .. N
    BY DEF InitCalls, N
  <1>2. Range(InitCalls) = {InitCalls[i] : i \in 1 .. N}
    BY <1>1 DEF Range
  <1> QED
    BY <1>2 DEF InitCalls, N, NeedsLink

-------------------------------------------------------------------------------
LEMMA ReadyInit == Init => ReadyInv
  <1> SUFFICES ASSUME Init PROVE ReadyInv
    OBVIOUS
  <1>1. \A t \in Threads : ~Past(t)
    BY Places DEF Init, Past, N
  <1> QED
    BY <1>1 DEF Init, ReadyInv, Labels, Complete

(* Steps that do not touch what the invariant is about.                    *)
LEMMA ReadyElsewhere ==
  ASSUME ReadyInv, NEW t \in Threads,
         UNCHANGED <<works, is_initialized, deleted>>, link => link',
         NEW label \in {"idle", "send", "publish", "store", "packet_pool"},
         pc' = [pc EXCEPT ![t] = label]
  PROVE  ReadyInv'
  <1> USE DEF ReadyInv
  <1>1. pc' \in [Threads -> Labels] /\ pc'[t] = label /\ \A u \in Threads \ {t} : pc'[u] = pc[u]
    BY Places DEF Labels, N
  <1>2. ~Past(t)'
    BY <1>1, Places, Distinct DEF Past, N
  <1>3. \A u \in Threads \ {t} : Past(u)' => Past(u) /\ (Progress(u) => Progress(u)')
    BY <1>1 DEF Past, Progress, SetUpBefore
  <1>4. Complete'
    BY DEF Complete
  <1> QED
    BY <1>1, <1>2, <1>3, <1>4

LEMMA ReadyStep == ReadyInv /\ [Next]_vars => ReadyInv'
  <1> SUFFICES ASSUME ReadyInv, [Next]_vars PROVE ReadyInv'
    OBVIOUS
  <1> USE DEF ReadyInv
  <1>1. ASSUME NEW t \in Threads, BeginInit(t) \/ StoreParameters(t) PROVE ReadyInv'
    BY <1>1, ReadyElsewhere DEF BeginInit, StoreParameters, Return, GoTo
  <1>2. ASSUME NEW t \in Threads, SetUp(t) PROVE ReadyInv'
    <2>0. PICK i \in 1 .. N - 1 : pc[t] = InitCalls[i] /\ i # 3
      BY <1>2, Places DEF SetUp, N
    <2>1. CASE Return(t, "NX_ERROR") /\ UNCHANGED works
      BY <1>2, <2>1, ReadyElsewhere DEF SetUp, Return
    <2>2. CASE /\ pc[t] \notin works
               /\ works' = IF pc[t] \in NeedsLink /\ ~link THEN works ELSE works \union {pc[t]}
               /\ GoTo(t, After(pc[t]))
      <3>1. /\ pc' \in [Threads -> Labels] /\ pc'[t] = InitCalls[i + 1]
            /\ \A u \in Threads \ {t} : pc'[u] = pc[u]
            /\ i + 1 \in 2 .. N
        BY <2>0, <2>2, AfterIsNext DEF GoTo, Labels, N
      <3>2. UNCHANGED <<link, is_initialized, deleted>>
        BY <1>2 DEF SetUp
      <3>3. i # 1 => Past(t)
        BY <2>0 DEF Past, N
      <3>4. ~is_initialized /\ \A u \in Threads \ {t} : ~Past(u)
        <4>1. CASE i = 1
          BY <2>0, <2>2, <4>1, Places
        <4>2. CASE i # 1
          BY <3>3, <4>2
        <4> QED
          BY <4>1, <4>2
      <3>5. \A u \in Threads \ {t} : ~Past(u)'
        BY <3>1, <3>4 DEF Past
      <3>6. works' = works \union {InitCalls[i]}
        <4>1. CASE i \in {1, 2}
          BY <2>0, <2>2, <4>1, Places DEF N
        <4>2. CASE i > 3
          <5>1. link
            BY <2>0, <3>3, <4>2 DEF Progress, N
          <5> QED
            BY <2>0, <2>2, <5>1
        <4> QED
          BY <2>0, <4>1, <4>2
      <3>7. "packet_pool" \in works'
        BY <2>0, <3>3, <3>6, Places DEF N
      <3>8. Progress(t)'
        <4>1. pc'[t] # "mark"
          BY <3>1, Places DEF N
        <4>2. SetUpBefore(i)
          <5>1. CASE i = 1
            BY <5>1 DEF SetUpBefore
          <5>2. CASE i # 1
            BY <2>0, <3>3, <5>2 DEF Progress, N
          <5> QED
            BY <5>1, <5>2
        <4>3. SetUpBefore(i + 1)'
          BY <3>6, <4>2 DEF SetUpBefore, N
        <4>4. i + 1 > 3 => link'
          <5>1. i + 1 > 3 => i > 3
            BY <2>0
          <5> QED
            BY <2>0, <3>2, <3>3, <5>1 DEF Progress, N
        <4>5. \A k \in 2 .. N : pc'[t] = InitCalls[k] => k = i + 1
          <5>1. i + 1 \in 1 .. N /\ 2 .. N \subseteq 1 .. N
            BY <2>0 DEF N
          <5> QED
            BY <3>1, <5>1, Distinct, Zenon
        <4> QED
          BY <4>1, <4>3, <4>4, <4>5 DEF Progress
      <3>9. pc'[t] \notin {"recreate", "reconnect"}
        BY <3>1, Places DEF N
      <3> QED
        BY <3>1, <3>2, <3>4, <3>5, <3>7, <3>8, <3>9 DEF Complete
    <2> QED
      BY <1>2, <2>1, <2>2 DEF SetUp
  <1>3. ASSUME NEW t \in Threads, PollLink(t) PROVE ReadyInv'
    <2>1. /\ pc' \in [Threads -> Labels] /\ pc'[t] = InitCalls[4]
          /\ \A u \in Threads \ {t} : pc'[u] = pc[u]
      BY <1>3, AfterIsNext, Places DEF PollLink, GoTo, Labels, N
    <2>2. Past(t) /\ pc[t] = InitCalls[3] /\ link
      BY <1>3, Places DEF PollLink, Past, N
    <2>3. UNCHANGED <<works, link, is_initialized, deleted>>
      BY <1>3 DEF PollLink
    <2>4. Progress(t)'
      <3>1. SetUpBefore(3)
        BY <2>2 DEF Progress, N
      <3>2. SetUpBefore(4)'
        BY <2>3, <3>1, Places DEF SetUpBefore
      <3>3. \A k \in 2 .. N : pc'[t] = InitCalls[k] => k = 4
        <4>1. 4 \in 1 .. N /\ 2 .. N \subseteq 1 .. N
          BY DEF N
        <4> QED
          BY <2>1, <4>1, Distinct, Zenon
      <3>4. pc'[t] # "mark"
        BY <2>1, Places DEF N
      <3> QED
        BY <2>2, <2>3, <3>2, <3>3, <3>4 DEF Progress
    <2>5. \A u \in Threads \ {t} : ~Past(u)'
      BY <2>1, <2>2 DEF Past
    <2>6. pc'[t] \notin {"recreate", "reconnect"}
      BY <2>1, Places DEF N
    <2> QED
      BY <2>1, <2>2, <2>3, <2>4, <2>5, <2>6 DEF Complete
  <1>4. ASSUME NEW t \in Threads, Connect(t) PROVE ReadyInv'
    <2>1. /\ pc' \in [Threads -> Labels] /\ pc'[t] = "mark"
          /\ \A u \in Threads \ {t} : pc'[u] = pc[u]
      BY <1>4 DEF Connect, GoTo, Labels
    <2>2. Past(t) /\ pc[t] = InitCalls[N]
      BY <1>4, Places DEF Connect, Past, N
    <2>3. UNCHANGED <<works, link, is_initialized, deleted>>
      BY <1>4 DEF Connect
    <2>4. Progress(t)'
      <3>1. SetUpBefore(N)
        BY <2>2 DEF Progress, N
      <3>2. SetUpBefore(N + 1)'
        BY <2>3, <3>1, Places DEF SetUpBefore, N
      <3>3. \A k \in 2 .. N : pc'[t] # InitCalls[k]
        BY <2>1, Places DEF N
      <3> QED
        BY <3>2, <3>3 DEF Progress
    <2>5. \A u \in Threads \ {t} : ~Past(u)'
      BY <2>1, <2>2 DEF Past
    <2> QED
      BY <2>1, <2>2, <2>3, <2>4, <2>5 DEF Complete
  <1>5. ASSUME NEW t \in Threads, MarkInitialized(t) PROVE ReadyInv'
    <2>1. /\ pc' \in [Threads -> Labels] /\ pc'[t] = "idle"
          /\ \A u \in Threads \ {t} : pc'[u] = pc[u]
      BY <1>5 DEF MarkInitialized, Return, Labels
    <2>2. Past(t) /\ SetUpBefore(N + 1)
      BY <1>5 DEF MarkInitialized, Past, Progress
    <2>3. UNCHANGED <<works, link, deleted>> /\ is_initialized'
      BY <1>5 DEF MarkInitialized
    <2>4. \A u \in Threads : ~Past(u)'
      BY <2>1, <2>2, Places DEF Past, N
    <2>5. Range(InitCalls) \ {"link", "connect"} \subseteq works
      BY <2>2, Places DEF SetUpBefore, N
    <2>6. "mqtt_client" \in Range(InitCalls)
      BY Places DEF InitCalls, N
    <2> QED
      BY <2>1, <2>2, <2>3, <2>4, <2>5, <2>6 DEF Complete, Base, Mqtt
  <1>6. ASSUME NEW t \in Threads, Delete(t) PROVE ReadyInv'
    <2>1. /\ pc' \in [Threads -> Labels] /\ pc'[t] = "recreate"
          /\ \A u \in Threads \ {t} : pc'[u] = pc[u]
      BY <1>6 DEF Delete, GoTo, Labels
    <2>2. /\ is_initialized /\ is_initialized'
          /\ UNCHANGED <<works, deleted>> \/ (deleted' /\ works' = works \ Mqtt)
      BY <1>6 DEF Delete
    <2>3. \A u \in Threads : ~Past(u)'
      BY <2>1, <2>2, Places DEF Past, N
    <2>4. "packet_pool" \notin Mqtt
      BY DEF Mqtt, Callbacks
    <2> QED
      BY <2>1, <2>2, <2>3, <2>4 DEF Complete, Base
  <1>7. ASSUME NEW t \in Threads, Recreate(t) PROVE ReadyInv'
    <2>1. /\ pc' \in [Threads -> Labels] /\ pc'[t] \in {"idle", "reconnect"}
          /\ \A u \in Threads \ {t} : pc'[u] = pc[u]
      BY <1>7 DEF Recreate, GoTo, Return, Labels
    <2>2. /\ is_initialized /\ is_initialized' /\ works \subseteq works'
          /\ UNCHANGED deleted \/ "mqtt_client" \in works'
      BY <1>7 DEF Recreate
    <2>3. \A u \in Threads : ~Past(u)'
      BY <2>1, <2>2, Places DEF Past, N
    <2> QED
      BY <2>1, <2>2, <2>3 DEF Complete
  <1>8. ASSUME NEW t \in Threads, Reconnect(t) PROVE ReadyInv'
    BY <1>8, ReadyElsewhere DEF Reconnect, Return
  <1>9. ASSUME NEW t \in Threads, Send(t) PROVE ReadyInv'
    BY <1>9, ReadyElsewhere DEF Send, CreateMessage, Encode, Publish, Return, GoTo
  <1>10. ASSUME UNCHANGED <<works, is_initialized, deleted, pc>>, link => link' PROVE ReadyInv'
    BY <1>10 DEF Past, Progress, SetUpBefore, Complete
  <1>11. CASE LinkUp \/ Drop \/ PtpEvent
    BY <1>10, <1>11 DEF LinkUp, Drop, PtpEvent
  <1>12. CASE UNCHANGED vars
    BY <1>10, <1>12 DEF vars
  <1> QED
    BY <1>1, <1>2, <1>3, <1>4, <1>5, <1>6, <1>7, <1>8, <1>9, <1>11, <1>12
       DEF Next, ethernet_init, ethernet_mqtt_reconnect

-------------------------------------------------------------------------------
(* Whose node id the device, its IP instance and its MQTT client have,     *)
(* while no call of ethernet_init began inside another: one thread at most *)
(* is in ethernet_init, none on an initialized device.                     *)
Beyond(t, k) == pc[t] \in {InitCalls[i] : i \in k + 1 .. N} \cup {"mark"}

NameInv ==
  /\ node_id \in [device : Threads \cup {Nobody}, ip : Threads \cup {Nobody},
                  mqtt_client : Threads \cup {Nobody}]
  /\ ~overlapped =>
       /\ \A t, u \in Initializing : t = u
       /\ is_initialized => /\ Initializing = {}
                            /\ node_id.ip = node_id.device
                            /\ node_id.mqtt_client = node_id.device
       /\ \A t \in Threads : Beyond(t, 2) => node_id.ip = node_id.device
       /\ \A t \in Threads : Beyond(t, 11) => node_id.mqtt_client = node_id.device

LEMMA NameInit == Init => NameInv
  <1> SUFFICES ASSUME Init PROVE NameInv
    OBVIOUS
  <1>1. Initializing = {}
    BY Places DEF Init, Initializing, N
  <1>2. \A t \in Threads : ~Beyond(t, 2) /\ ~Beyond(t, 11)
    BY Places DEF Init, Beyond, N
  <1> QED
    BY <1>1, <1>2 DEF Init, NameInv, Nobody

(* A thread goes elsewhere, or starts a call that nobody else is in.       *)
LEMMA NameElsewhere ==
  ASSUME ReadyInv, NameInv, UNCHANGED <<node_id, is_initialized, overlapped>>,
         \A u \in Threads : u \in Initializing' => u \in Initializing,
         \A u \in Threads : /\ Beyond(u, 2)' => Beyond(u, 2)
                            /\ Beyond(u, 11)' => Beyond(u, 11)
  PROVE  NameInv'
  BY DEF NameInv, Initializing

LEMMA NameStep == ReadyInv /\ ReadyInv' /\ NameInv /\ [Next]_vars => NameInv'
  <1> SUFFICES ASSUME ReadyInv, ReadyInv', NameInv, [Next]_vars PROVE NameInv'
    OBVIOUS
  <1>0. pc \in [Threads -> Labels] /\ pc' \in [Threads -> Labels]
    BY DEF ReadyInv
  <1>1. ASSUME NEW t \in Threads, BeginInit(t) PROVE NameInv'
    <2>1. /\ pc[t] = "idle" /\ pc'[t] \in {"idle", "store"}
          /\ \A u \in Threads \ {t} : pc'[u] = pc[u]
          /\ UNCHANGED <<node_id, is_initialized>>
      BY <1>0, <1>1 DEF BeginInit, Return, GoTo
    <2>2. \A u \in Threads : /\ Beyond(u, 2)' => Beyond(u, 2)
                             /\ Beyond(u, 11)' => Beyond(u, 11)
      BY <2>1, Places DEF Beyond, N
    <2>3. CASE is_initialized
      <3>1. UNCHANGED overlapped /\ pc'[t] = "idle"
        BY <1>0, <1>1, <2>3 DEF BeginInit, Return
      <3>2. \A u \in Threads : u \in Initializing' => u \in Initializing
        BY <2>1, <3>1, Places DEF Initializing, N
      <3> QED
        BY <2>1, <2>2, <3>1, <3>2, NameElsewhere
    <2>4. CASE ~is_initialized
      <3>1. overlapped' = (overlapped \/ Initializing # {})
        BY <1>1, <2>4 DEF BeginInit
      <3>2. ~overlapped' => ~overlapped /\ Initializing = {}
        BY <3>1
      <3>3. Initializing = {} => \A u \in Initializing' : u = t
        BY <2>1 DEF Initializing
      <3> QED
        BY <2>1, <2>2, <2>4, <3>2, <3>3 DEF NameInv
    <2> QED
      BY <2>3, <2>4
  <1>2. ASSUME NEW t \in Threads, StoreParameters(t) PROVE NameInv'
    <2>1. /\ pc[t] = "store" /\ pc'[t] = "packet_pool"
          /\ \A u \in Threads \ {t} : pc'[u] = pc[u]
          /\ UNCHANGED <<is_initialized, overlapped>>
      BY <1>0, <1>2 DEF StoreParameters, GoTo
    <2>2. t \in Initializing /\ Initializing' = Initializing
      BY <2>1, Places DEF Initializing, N
    <2>3. node_id' \in [device : Threads \cup {Nobody}, ip : Threads \cup {Nobody},
                        mqtt_client : Threads \cup {Nobody}]
      BY <1>2 DEF StoreParameters, NameInv
    <2>4. \A u \in Threads : Beyond(u, 2)' \/ Beyond(u, 11)' => u # t /\ u \in Initializing
      <3>1. ~Beyond(t, 2)' /\ ~Beyond(t, 11)'
        BY <2>1, Places, Distinct DEF Beyond, N
      <3>2. \A u \in Threads : Beyond(u, 2)' \/ Beyond(u, 11)' => u \in Initializing'
        BY Places DEF Beyond, Initializing, N
      <3> QED
        BY <2>2, <3>1, <3>2
    <2> QED
      BY <2>1, <2>2, <2>3, <2>4 DEF NameInv
  <1>3. ASSUME NEW t \in Threads, SetUp(t) PROVE NameInv'
    <2>0. PICK i \in 1 .. N - 1 : pc[t] = InitCalls[i] /\ i # 3
      BY <1>3, Places DEF SetUp, N
    <2>1. UNCHANGED <<is_initialized, overlapped>>
      BY <1>3 DEF SetUp
    <2>2. CASE Return(t, "NX_ERROR") /\ UNCHANGED <<works, node_id>>
      <3>1. pc'[t] = "idle" /\ \A u \in Threads \ {t} : pc'[u] = pc[u]
        BY <1>0, <2>2 DEF Return
      <3>2. \A u \in Threads : u \in Initializing' => u \in Initializing
        BY <3>1, Places DEF Initializing, N
      <3>3. \A u \in Threads : /\ Beyond(u, 2)' => Beyond(u, 2)
                               /\ Beyond(u, 11)' => Beyond(u, 11)
        BY <3>1, Places DEF Beyond, N
      <3> QED
        BY <2>1, <2>2, <3>2, <3>3, NameElsewhere
    <2>3. CASE GoTo(t, After(pc[t])) /\ NameOf(pc[t])
      <3>1. /\ pc'[t] = InitCalls[i + 1] /\ i + 1 \in 1 .. N
            /\ \A u \in Threads \ {t} : pc'[u] = pc[u]
        BY <1>0, <2>0, <2>3, AfterIsNext DEF GoTo, N
      <3>2. t \in Initializing /\ Initializing' = Initializing
        BY <2>0, <3>1, Places DEF Initializing, N
      <3>3. node_id' \in [device : Threads \cup {Nobody}, ip : Threads \cup {Nobody},
                          mqtt_client : Threads \cup {Nobody}]
        BY <2>3 DEF NameOf, Named, NameInv
      <3>4. InitCalls[2] = "ip" /\ InitCalls[11] = "mqtt_client"
        BY DEF InitCalls
      <3>5. \A u \in Threads : Beyond(u, 2) \/ Beyond(u, 11) => u \in Initializing
        BY Places DEF Beyond, Initializing, N
      <3>6. ~overlapped => \A u \in Threads \ {t} : ~Beyond(u, 2)' /\ ~Beyond(u, 11)'
        <4>1. \A u \in Threads \ {t} : (Beyond(u, 2)' => Beyond(u, 2)) /\ (Beyond(u, 11)' => Beyond(u, 11))
          BY <3>1 DEF Beyond
        <4> QED
          BY <3>2, <3>5, <4>1 DEF NameInv
      <3>7. ~overlapped /\ Beyond(t, 2)' => node_id'.ip = node_id'.device
        <4>1. CASE i = 2
          BY <2>0, <2>3, <3>4, <4>1 DEF NameOf, Named, NameInv
        <4>2. CASE i # 2
          <5>1. pc[t] # "ip"
            BY <2>0, <3>4, <4>2, Distinct DEF N
          <5>2. node_id'.ip = node_id.ip /\ node_id'.device = node_id.device
            BY <2>3, <5>1 DEF NameOf, Named, NameInv
          <5>3. i = 1 => ~Beyond(t, 2)'
            BY <3>1, Places, Distinct DEF Beyond, N
          <5>4. i > 2 => Beyond(t, 2)
            BY <2>0 DEF Beyond, N
          <5> QED
            BY <4>2, <5>2, <5>3, <5>4 DEF NameInv
        <4> QED
          BY <4>1, <4>2
      <3>8. ~overlapped /\ Beyond(t, 11)' => node_id'.mqtt_client = node_id'.device
        <4>1. CASE i = 11
          BY <2>0, <2>3, <3>4, <4>1 DEF NameOf, Named, NameInv
        <4>2. CASE i # 11
          <5>1. pc[t] # "mqtt_client"
            BY <2>0, <3>4, <4>2, Distinct DEF N
          <5>2. node_id'.mqtt_client = node_id.mqtt_client /\ node_id'.device = node_id.device
            BY <2>3, <5>1 DEF NameOf, Named, NameInv
          <5>3. i < 11 => ~Beyond(t, 11)'
            BY <3>1, Places, Distinct DEF Beyond, N
          <5>4. i > 11 => Beyond(t, 11)
            BY <2>0 DEF Beyond, N
          <5> QED
            BY <4>2, <5>2, <5>3, <5>4 DEF NameInv
        <4> QED
          BY <4>1, <4>2
      <3> QED
        BY <2>1, <3>2, <3>3, <3>6, <3>7, <3>8 DEF NameInv
    <2> QED
      BY <1>3, <2>2, <2>3 DEF SetUp
  <1>4. ASSUME NEW t \in Threads, PollLink(t) \/ Connect(t) PROVE NameInv'
    <2>1. /\ pc[t] \in {InitCalls[3], InitCalls[N]} /\ pc'[t] \in {InitCalls[4], "mark"}
          /\ pc[t] = InitCalls[3] => pc'[t] = InitCalls[4]
          /\ \A u \in Threads \ {t} : pc'[u] = pc[u]
          /\ UNCHANGED <<node_id, is_initialized, overlapped>>
      <3>1. After("link") = InitCalls[4] /\ InitCalls[3] # InitCalls[N]
        BY AfterIsNext, Places, Distinct DEF N
      <3>2. CASE PollLink(t)
        BY <1>0, <3>1, <3>2, Places DEF PollLink, GoTo, nodeVars
      <3>3. CASE Connect(t)
        BY <1>0, <3>1, <3>3, Places DEF Connect, GoTo, nodeVars
      <3> QED
        BY <1>4, <3>2, <3>3
    <2>2. \A u \in Threads : u \in Initializing' => u \in Initializing
      BY <2>1, Places DEF Initializing, N
    <2>3. Beyond(t, 2) /\ (pc[t] = InitCalls[N] => Beyond(t, 11))
      BY <2>1 DEF Beyond, N
    <2>4. pc'[t] = InitCalls[4] => ~Beyond(t, 11)'
      BY Places, Distinct DEF Beyond, N
    <2>5. \A u \in Threads : /\ Beyond(u, 2)' => Beyond(u, 2)
                             /\ Beyond(u, 11)' => Beyond(u, 11)
      BY <2>1, <2>3, <2>4 DEF Beyond
    <2> QED
      BY <2>1, <2>2, <2>5, NameElsewhere
  <1>5. ASSUME NEW t \in Threads, MarkInitialized(t) PROVE NameInv'
    <2>1. /\ pc[t] = "mark" /\ pc'[t] = "idle"
          /\ \A u \in Threads \ {t} : pc'[u] = pc[u]
          /\ UNCHANGED <<node_id, overlapped>>
      BY <1>0, <1>5 DEF MarkInitialized, Return, nodeVars
    <2>2. t \in Initializing /\ Beyond(t, 2) /\ Beyond(t, 11)
      BY <2>1 DEF Initializing, Beyond
    <2>3. Initializing' = Initializing \ {t}
      BY <2>1, Places DEF Initializing, N
    <2>4. \A u \in Threads : /\ Beyond(u, 2)' => Beyond(u, 2)
                             /\ Beyond(u, 11)' => Beyond(u, 11)
      BY <2>1, Places DEF Beyond, N
    <2> QED
      BY <2>1, <2>2, <2>3, <2>4 DEF NameInv
  <1>6. ASSUME NEW t \in Threads, Recreate(t) PROVE NameInv'
    <2>1. /\ pc[t] = "recreate" /\ pc'[t] \in {"idle", "reconnect"}
          /\ \A u \in Threads \ {t} : pc'[u] = pc[u]
          /\ UNCHANGED <<is_initialized, overlapped>>
      BY <1>0, <1>6 DEF Recreate, GoTo, Return
    <2>2. Initializing' = Initializing
      BY <2>1, Places DEF Initializing, N
    <2>3. \A u \in Threads : /\ Beyond(u, 2)' => Beyond(u, 2)
                             /\ Beyond(u, 11)' => Beyond(u, 11)
      BY <2>1, Places DEF Beyond, N
    <2>4. node_id' \in {node_id, [node_id EXCEPT !["mqtt_client"] = node_id.device]}
      BY <1>6 DEF Recreate, NameOf, Named
    <2>5. is_initialized
      BY <2>1 DEF ReadyInv
    <2> QED
      BY <2>1, <2>2, <2>3, <2>4, <2>5 DEF NameInv
  <1>7. ASSUME NEW t \in Threads, Delete(t) \/ Reconnect(t) \/ Send(t) PROVE NameInv'
    <2>1. /\ pc'[t] \in {"idle", "recreate", "send", "publish"}
          /\ \A u \in Threads \ {t} : pc'[u] = pc[u]
          /\ UNCHANGED <<node_id, is_initialized, overlapped>>
      BY <1>0, <1>7 DEF Delete, Reconnect, Send, CreateMessage, Encode, Publish, Return, GoTo, nodeVars
    <2>2. \A u \in Threads : u \in Initializing' => u \in Initializing
      BY <2>1, Places DEF Initializing, N
    <2>3. \A u \in Threads : /\ Beyond(u, 2)' => Beyond(u, 2)
                             /\ Beyond(u, 11)' => Beyond(u, 11)
      BY <2>1, Places DEF Beyond, N
    <2> QED
      BY <2>1, <2>2, <2>3, NameElsewhere
  <1>8. CASE LinkUp \/ Drop \/ PtpEvent \/ UNCHANGED vars
    <2>1. UNCHANGED <<pc, node_id, is_initialized, overlapped>>
      BY <1>8 DEF LinkUp, Drop, PtpEvent, vars, nodeVars
    <2> QED
      BY <2>1, NameElsewhere DEF Initializing, Beyond
  <1> QED
    BY <1>1, <1>2, <1>3, <1>4, <1>5, <1>6, <1>7, <1>8
       DEF Next, ethernet_init, ethernet_mqtt_reconnect

(* A device that is_initialized has everything set up that ethernet_init   *)
(* sets up, but for an MQTT client that a reconnect has deleted; a client  *)
(* it has bears the node id of its address, unless one call of             *)
(* ethernet_init began inside another.                                     *)
THEOREM ReadyIsComplete == Spec => []ReadyMeansComplete
  <1>1. ReadyInv /\ NameInv => ReadyMeansComplete
    BY DEF ReadyInv, NameInv, Complete, ReadyMeansComplete
  <1> QED
    BY ReadyInit, ReadyStep, NameInit, NameStep, <1>1, PTL DEF Spec

-------------------------------------------------------------------------------
(* A message that says it is initialized was created on an initialized     *)
(* device, and only such a message gets as far as being published.         *)
MessageInv ==
  /\ pc \in [Threads -> Labels]
  /\ message \in [Threads -> [initialized : BOOLEAN, unit : UnitLengths \cup {0}]]
  /\ \A t \in Threads : message[t].initialized => is_initialized
  /\ \A t \in Threads : pc[t] = "publish" => message[t].initialized

LEMMA MessageInit == Init => MessageInv
  BY DEF Init, MessageInv, NoMessage, Labels

LEMMA MessageStep == MessageInv /\ ReadyInv' /\ [Next]_vars => MessageInv'
  <1> SUFFICES ASSUME MessageInv, ReadyInv', [Next]_vars PROVE MessageInv'
    OBVIOUS
  <1>0. pc' \in [Threads -> Labels]
    BY DEF ReadyInv
  <1>1. ASSUME UNCHANGED message, is_initialized => is_initialized',
               \A t \in Threads : pc'[t] = "publish" => pc[t] = "publish"
        PROVE  MessageInv'
    BY <1>0, <1>1 DEF MessageInv
  <1>2. ASSUME NEW t \in Threads, BeginInit(t) \/ StoreParameters(t) PROVE MessageInv'
    BY <1>1, <1>2 DEF BeginInit, StoreParameters, Return, GoTo, MessageInv
  <1>3. ASSUME NEW t \in Threads, SetUp(t) PROVE MessageInv'
    <2>1. PICK i \in 1 .. N - 1 : pc[t] = InitCalls[i]
      BY <1>3, Places DEF SetUp, N
    <2>2. After(pc[t]) # "publish"
      BY <2>1, AfterIsNext, Places DEF N
    <2> QED
      BY <1>1, <1>3, <2>2 DEF SetUp, Return, GoTo, MessageInv
  <1>4. ASSUME NEW t \in Threads, PollLink(t) PROVE MessageInv'
    <2>1. After("link") # "publish"
      BY AfterIsNext, Places DEF N
    <2> QED
      BY <1>1, <1>4, <2>1 DEF PollLink, GoTo, MessageInv
  <1>5. ASSUME NEW t \in Threads, Connect(t) \/ MarkInitialized(t) PROVE MessageInv'
    BY <1>1, <1>5 DEF Connect, MarkInitialized, Return, GoTo, MessageInv
  <1>6. ASSUME NEW t \in Threads, ethernet_mqtt_reconnect(t) PROVE MessageInv'
    BY <1>1, <1>6 DEF ethernet_mqtt_reconnect, Delete, Recreate, Reconnect, Return, GoTo, MessageInv
  <1>7. ASSUME NEW t \in Threads, NEW valid \in BOOLEAN, NEW unit \in UnitLengths,
               CreateMessage(t, valid, unit)
        PROVE  MessageInv'
    <2>1. /\ UNCHANGED is_initialized
          /\ \A u \in Threads : pc'[u] = "publish" => u # t /\ pc[u] = "publish"
      BY <1>7 DEF CreateMessage, GoTo, MessageInv
    <2>2. CASE NotCreated(t)
      BY <1>0, <2>1, <2>2 DEF NotCreated, NoMessage, MessageInv
    <2>3. CASE is_initialized /\ Created(t, unit)
      BY <1>0, <2>1, <2>3 DEF Created, MessageInv
    <2> QED
      BY <1>7, <2>2, <2>3 DEF CreateMessage
  <1>8. ASSUME NEW t \in Threads, Encode(t) PROVE MessageInv'
    <2>1. UNCHANGED <<message, is_initialized>>
      BY <1>8 DEF Encode
    <2>2. \A u \in Threads : pc'[u] = "publish" => pc[u] = "publish" \/ message[u].initialized
      BY <1>8 DEF Encode, GoTo, Return, MessageInv
    <2> QED
      BY <1>0, <2>1, <2>2 DEF MessageInv
  <1>9. ASSUME NEW t \in Threads, Publish(t) PROVE MessageInv'
    BY <1>1, <1>9 DEF Publish, Return, MessageInv
  <1>10. CASE LinkUp \/ Drop \/ PtpEvent \/ UNCHANGED vars
    BY <1>1, <1>10 DEF LinkUp, Drop, PtpEvent, vars
  <1> QED
    BY <1>2, <1>3, <1>4, <1>5, <1>6, <1>7, <1>8, <1>9, <1>10 DEF Next, ethernet_init, Send

(* What the broker is sent was created in full, on an initialized device.  *)
THEOREM SentWasComplete == Spec => SentIsComplete
  <1> DEFINE Sent == \A t \in Threads :
                pc[t] = "publish" /\ pc'[t] = "idle" /\ result'[t] = "U_SUCCESS"
                => message[t].initialized /\ is_initialized
  <1>1. MessageInv /\ [Next]_vars => [Sent]_vars
    BY DEF MessageInv
  <1>2. Spec => [][Sent]_vars
    BY ReadyInit, ReadyStep, MessageInit, MessageStep, <1>1, PTL DEF Spec
  <1> QED
    BY <1>2, PTL DEF SentIsComplete
================================================================================
