----------------------------- MODULE Devices_proofs -----------------------------
(***************************************************************************)
(* Proofs about what is behind a bus, in whatever order calls come and     *)
(* whatever transfers fail: EEPROM writes land at their place and nowhere  *)
(* else; the fields of the PHY and the pins of the expanders are what they *)
(* were set to; paged accesses reach their bytes and close behind them.    *)
(* And about time: the PTP client's clock follows the master's, and the    *)
(* dates of its times the calendar.  The sensors are in Sensors_proofs.    *)
(***************************************************************************)
EXTENDS Devices, Arithmetic_proofs

(* Nothing in the code compares the partitions with the memory, or a clear *)
(* with its page: that they fit is the application's to see to.            *)
LayoutAssumption ==
  /\ Lengths \subseteq Nat
  /\ \A p \in Partitions : address[p] \in Nat /\ address[p] + sizes[p] <= MemorySize
  /\ \A c \in Clears : (c[1] % PAGE_SIZE) + c[2] <= PAGE_SIZE

Types ==
  /\ DOMAIN memory = Addresses
  /\ addr \in [Threads -> Nat]
  /\ len \in [Threads -> Nat]
  /\ bytes_written \in [Threads -> Nat]
  /\ pc \in [Threads -> {"idle", "write", "clear"}]
  /\ calls \in Nat
  /\ call \in [Threads -> Nat]
  /\ region \in [Threads -> Nat \X Nat]
  /\ undisturbed \subseteq Threads

(* Also after it ended, a call's data lies in its region, and what it has  *)
(* written of it in the memory.                                            *)
InRegion(t) ==
  /\ bytes_written[t] <= addr[t] /\ bytes_written[t] <= len[t]
  /\ region[t][1] <= Start(t)
  /\ Start(t) + len[t] <= region[t][1] + region[t][2]
  /\ addr[t] <= MemorySize

Positioned(t) ==
  /\ pc[t] = "write" => Start(t) + len[t] <= MemorySize
  /\ pc[t] = "clear" => bytes_written[t] = 0 /\ (addr[t] % PAGE_SIZE) + len[t] <= PAGE_SIZE

Inv ==
  /\ Types
  /\ \A t \in Threads : InRegion(t) /\ Positioned(t)
  /\ WrittenSoFar

-------------------------------------------------------------------------------
(* Up to the end of the page the device writes where it was told to.       *)
LEMMA TargetInPage ==
  ASSUME NEW a \in Nat, NEW i \in Nat, (a % PAGE_SIZE) + i < PAGE_SIZE
  PROVE  Target(a, i) = a + i
  <1> DEFINE r == a % PAGE_SIZE
             q == a \div PAGE_SIZE
  <1>1. PAGE_SIZE \in Nat /\ PAGE_SIZE > 0
    BY PageAssumption
  <1>2. r \in Nat /\ q \in Nat /\ a = q * PAGE_SIZE + r
    BY <1>1
  <1>3. (r + i) % PAGE_SIZE = r + i
    BY <1>1, <1>2
  <1>4. Target(a, i) = q * PAGE_SIZE + (r + i)
    BY <1>3 DEF Target
  <1>5. q * PAGE_SIZE \in Nat
    BY <1>1, <1>2
  <1> HIDE DEF q, r
  <1> QED
    BY <1>2, <1>4, <1>5

(* A write that ends in its page puts each byte at its address and leaves  *)
(* the others as they were.                                                *)
LEMMA WriteInPage ==
  ASSUME NEW t \in Threads, NEW a \in Nat, NEW n \in Nat, NEW data,
         DOMAIN data = 0 .. n - 1, (a % PAGE_SIZE) + n <= PAGE_SIZE,
         DeviceWrite(t, a, data)
  PROVE  /\ DOMAIN memory' = Addresses
         /\ \A x \in Addresses :
              memory'[x] = IF x \in a .. a + n - 1 THEN data[x - a] ELSE memory[x]
         /\ undisturbed' \subseteq undisturbed
         /\ \A u \in undisturbed' \ {t} :
              u \in Threads => \A x \in a .. a + n - 1 : ~In(x, region[u])
  <1>1. \A i \in 0 .. n - 1 : Target(a, i) = a + i
    <2> SUFFICES ASSUME NEW i \in 0 .. n - 1 PROVE Target(a, i) = a + i
      OBVIOUS
    <2>1. i \in Nat /\ (a % PAGE_SIZE) + i < PAGE_SIZE
      BY PageAssumption
    <2> QED
      BY <2>1, TargetInPage
  <1>2. ASSUME NEW x \in Addresses
        PROVE  memory'[x] = IF x \in a .. a + n - 1 THEN data[x - a] ELSE memory[x]
    <2> DEFINE I == {i \in 0 .. n - 1 : Target(a, i) = x}
    <2>1. memory'[x] = IF I = {} THEN memory[x] ELSE data[Max(I)]
      BY DEF DeviceWrite
    <2>2. x \in Nat
      BY MemoryAssumption DEF Addresses
    <2>3. CASE x \in a .. a + n - 1
      <3>1. I = {x - a}
        BY <1>1, <2>2, <2>3
      <3>2. Max({x - a}) = x - a
        BY <2>2 DEF Max
      <3> QED
        BY <2>1, <2>3, <3>1, <3>2
    <2>4. CASE x \notin a .. a + n - 1
      <3>1. I = {}
        BY <1>1, <2>2, <2>4
      <3> QED
        BY <2>1, <2>4, <3>1
    <2> QED
      BY <2>3, <2>4
  <1>3. ASSUME NEW u \in undisturbed' \ {t}, u \in Threads, NEW x \in a .. a + n - 1
        PROVE  ~In(x, region[u])
    <2>1. x - a \in 0 .. n - 1 /\ a + (x - a) = x
      OBVIOUS
    <2>2. Target(a, x - a) = x
      BY <1>1, <2>1
    <2> QED
      BY <1>3, <2>1, <2>2 DEF DeviceWrite
  <1> QED
    BY <1>2, <1>3 DEF DeviceWrite

-------------------------------------------------------------------------------
LEMMA DirectoryInit == Init => Inv
  BY PageAssumption, MemoryAssumption DEF Init, DriverInit, Inv, Types, InRegion, Positioned,
    Start, WrittenSoFar

(* A page write makes progress, within its data and its page.              *)
LEMMA WriteLength ==
  ASSUME NEW t \in Threads, addr[t] \in Nat, len[t] \in Nat, bytes_written[t] \in Nat,
         bytes_written[t] < len[t]
  PROVE  /\ write_len(t) \in Nat /\ write_len(t) > 0
         /\ bytes_written[t] + write_len(t) <= len[t]
         /\ (addr[t] % PAGE_SIZE) + write_len(t) <= PAGE_SIZE
  <1> DEFINE x == len[t] - bytes_written[t]
             y == PAGE_SIZE - (addr[t] % PAGE_SIZE)
  <1>1. x \in Nat /\ x > 0 /\ y \in Nat /\ y > 0
    BY PageAssumption
  <1>2. Min({x, y}) \in {x, y} /\ Min({x, y}) <= x /\ Min({x, y}) <= y
    <2> HIDE DEF x, y
    <2> QED
      BY <1>1 DEF Min
  <1>3. write_len(t) = Min({x, y})
    BY DEF write_len
  <1>4. (addr[t] % PAGE_SIZE) \in Nat /\ PAGE_SIZE \in Nat
    BY PageAssumption
  <1> QED
    BY <1>1, <1>2, <1>3, <1>4

(* What a call has written is in its region.                               *)
LEMMA WrittenInRegion ==
  ASSUME Inv, NEW u \in Threads, NEW i \in 0 .. bytes_written[u] - 1
  PROVE  Start(u) + i \in Addresses /\ In(Start(u) + i, region[u])
  <1>1. /\ addr[u] \in Nat /\ len[u] \in Nat /\ bytes_written[u] \in Nat
        /\ region[u][1] \in Nat /\ region[u][2] \in Nat
    BY DEF Inv, Types
  <1>2. InRegion(u)
    BY DEF Inv
  <1> QED
    BY <1>1, <1>2, MemoryAssumption DEF InRegion, Start, In, Addresses

LEMMA DirectoryStep ==
  ASSUME LayoutAssumption, Inv, [Next]_vars
  PROVE  Inv'
  <1> USE DEF Inv
  <1>1. ASSUME NEW t \in Threads, WritePage(t) PROVE Inv'
    <2> DEFINE a == addr[t]
               n == write_len(t)
    <2>1. /\ pc[t] = "write" /\ bytes_written[t] < len[t]
          /\ DeviceWrite(t, a, Chunk(t))
          /\ addr' = [addr EXCEPT ![t] = a + n]
          /\ bytes_written' = [bytes_written EXCEPT ![t] = bytes_written[t] + n]
          /\ UNCHANGED <<len, pc, calls, call, region>>
      BY <1>1 DEF WritePage, DeviceWrite, callVars, Types
    <2>2. /\ a \in Nat /\ len[t] \in Nat /\ bytes_written[t] \in Nat /\ call[t] \in Nat
          /\ region[t] \in Nat \X Nat
      BY DEF Types
    <2>3. n \in Nat /\ n > 0 /\ bytes_written[t] + n <= len[t] /\ (a % PAGE_SIZE) + n <= PAGE_SIZE
      BY <2>1, <2>2, WriteLength
    <2> HIDE DEF n
    <2>4. /\ DOMAIN Chunk(t) = 0 .. n - 1
          /\ \A i \in 0 .. n - 1 : Chunk(t)[i] = Byte(t, bytes_written[t] + i)
      BY DEF Chunk, n
    <2>5. /\ DOMAIN memory' = Addresses
          /\ \A x \in Addresses :
               memory'[x] = IF x \in a .. a + n - 1 THEN Chunk(t)[x - a] ELSE memory[x]
          /\ undisturbed' \subseteq undisturbed
          /\ \A u \in undisturbed' \ {t} :
               u \in Threads => \A x \in a .. a + n - 1 : ~In(x, region[u])
      BY <2>1, <2>2, <2>3, <2>4, WriteInPage
    <2>6. Types'
      BY <2>1, <2>2, <2>3, <2>5 DEF Types
    <2>7. Start(t)' = Start(t) /\ Start(t) = a - bytes_written[t]
      BY <2>1, <2>2, <2>3 DEF Start, Types
    <2>8. InRegion(t)' /\ Positioned(t)'
      <3>1. /\ addr'[t] = a + n /\ bytes_written'[t] = bytes_written[t] + n
            /\ len'[t] = len[t] /\ region'[t] = region[t] /\ pc'[t] = "write"
        BY <2>1 DEF Types
      <3>2. /\ region[t][1] \in Nat /\ region[t][2] \in Nat
            /\ MemorySize \in Nat
        BY <2>2, MemoryAssumption
      <3>3. /\ bytes_written[t] <= a /\ region[t][1] <= Start(t)
            /\ Start(t) + len[t] <= region[t][1] + region[t][2]
            /\ Start(t) + len[t] <= MemorySize
        BY <2>1 DEF InRegion, Positioned
      <3>4. bytes_written[t] + n <= a + n /\ a + n <= MemorySize
        BY <2>2, <2>3, <2>7, <3>2, <3>3
      <3> QED
        BY <2>3, <2>7, <3>1, <3>3, <3>4 DEF InRegion, Positioned
    <2>9. \A u \in Threads \ {t} : InRegion(u)' /\ Positioned(u)'
      BY <2>1 DEF InRegion, Positioned, Start, Types
    <2>10. ASSUME NEW u \in undisturbed', NEW i \in 0 .. bytes_written'[u] - 1
           PROVE  memory'[Start(u)' + i] = Byte(u, i)'
      <3>1. CASE u = t
        <4>1. i \in Nat /\ i < bytes_written[t] + n
          BY <2>1, <2>2, <2>3, <3>1 DEF Types
        <4>2. Start(t) + i \in Addresses
          BY <2>1, <2>2, <2>3, <2>7, <4>1, MemoryAssumption DEF Positioned, InRegion, Addresses
        <4>3. CASE i < bytes_written[t]
          BY <2>1, <2>2, <2>3, <2>5, <2>7, <3>1, <4>1, <4>2, <4>3 DEF WrittenSoFar, Byte
        <4>4. CASE i >= bytes_written[t]
          <5>1. Start(t) + i \in a .. a + n - 1 /\ (Start(t) + i) - a = i - bytes_written[t]
            BY <2>2, <2>3, <2>7, <4>1, <4>4
          <5>2. i - bytes_written[t] \in 0 .. n - 1
                /\ bytes_written[t] + (i - bytes_written[t]) = i
            BY <2>2, <2>3, <4>1, <4>4
          <5>3. memory'[Start(t) + i] = Byte(t, i)
            BY <2>4, <2>5, <4>2, <5>1, <5>2
          <5> QED
            BY <2>1, <2>7, <3>1, <5>3 DEF Byte
        <4> QED
          BY <2>2, <4>1, <4>3, <4>4
      <3>2. CASE u # t
        <4>1. /\ u \in Threads /\ u \in undisturbed /\ i \in 0 .. bytes_written[u] - 1
              /\ Start(u)' = Start(u) /\ Byte(u, i)' = Byte(u, i)
          BY <2>1, <2>5, <2>10, <3>2 DEF Types, Start, Byte
        <4>2. Start(u) + i \in Addresses /\ In(Start(u) + i, region[u])
          BY <4>1, WrittenInRegion
        <4>3. memory'[Start(u) + i] = memory[Start(u) + i]
          BY <2>5, <2>10, <3>2, <4>1, <4>2
        <4> QED
          BY <4>1, <4>3 DEF WrittenSoFar
      <3> QED
        BY <3>1, <3>2
    <2> QED
      BY <2>6, <2>8, <2>9, <2>10 DEF WrittenSoFar
  <1>2. ASSUME NEW t \in Threads, WriteFails(t) \/ WriteDone(t) PROVE Inv'
    <2>1. /\ pc' = [pc EXCEPT ![t] = "idle"]
          /\ UNCHANGED <<memory, addr, len, bytes_written, calls, call, region, undisturbed>>
      BY <1>2 DEF WriteFails, WriteDone, DeviceFails, Return, driverVars, history
    <2> QED
      BY <2>1 DEF Types, InRegion, Positioned, Start, WrittenSoFar, Byte
  <1>3. ASSUME NEW t \in Threads, m24c32_clear(t) PROVE Inv'
    <2>1. /\ pc[t] = "clear" /\ pc' = [pc EXCEPT ![t] = "idle"]
          /\ UNCHANGED <<addr, len, bytes_written, calls, call, region>>
      BY <1>3 DEF m24c32_clear, DeviceWrite, DeviceFails, Return, driverVars, history
    <2>2. CASE UNCHANGED <<memory, undisturbed>>
      BY <2>1, <2>2 DEF Types, InRegion, Positioned, Start, WrittenSoFar, Byte
    <2>3. CASE DeviceWrite(t, addr[t], [i \in 0 .. len[t] - 1 |-> Zero])
      <3>1. /\ DOMAIN memory' = Addresses
            /\ \A x \in Addresses :
                 x \notin addr[t] .. addr[t] + len[t] - 1 => memory'[x] = memory[x]
            /\ undisturbed' \subseteq undisturbed
            /\ \A u \in undisturbed' \ {t} :
                 u \in Threads => \A x \in addr[t] .. addr[t] + len[t] - 1 : ~In(x, region[u])
        BY <2>1, <2>3, WriteInPage DEF Types, Positioned
      <3>2. ASSUME NEW u \in undisturbed', NEW i \in 0 .. bytes_written'[u] - 1
            PROVE  memory'[Start(u)' + i] = Byte(u, i)'
        <4>1. /\ u \in Threads /\ u \in undisturbed /\ i \in 0 .. bytes_written[u] - 1
              /\ Start(u)' = Start(u) /\ Byte(u, i)' = Byte(u, i)
          BY <2>1, <3>1, <3>2 DEF Types, Start, Byte
        <4>2. u # t
          BY <2>1, <4>1 DEF Positioned
        <4>3. Start(u) + i \in Addresses /\ In(Start(u) + i, region[u])
          BY <4>1, WrittenInRegion
        <4>4. memory'[Start(u) + i] = memory[Start(u) + i]
          BY <3>1, <3>2, <4>1, <4>2, <4>3
        <4> QED
          BY <4>1, <4>4 DEF WrittenSoFar
      <3>3. Types'
        BY <2>1, <3>1 DEF Types
      <3>4. \A u \in Threads : InRegion(u)' /\ Positioned(u)'
        BY <2>1 DEF Types, InRegion, Positioned, Start
      <3> QED
        BY <3>2, <3>3, <3>4 DEF WrittenSoFar
    <2> QED
      BY <1>3, <2>2, <2>3 DEF m24c32_clear, DeviceFails, history
  <1>4. ASSUME NEW t \in Threads, m24c32_directory_write(t) \/ BeginClear(t) PROVE Inv'
    <2>1. CASE UNCHANGED <<memory, addr, len, bytes_written, pc, call, region, undisturbed>>
               /\ calls' = calls + 1
      BY <2>1 DEF Types, InRegion, Positioned, Start, WrittenSoFar, Byte
    <2>2. ASSUME NEW label \in {"write", "clear"}, NEW a \in Nat, NEW n \in Nat,
                 NEW r \in Nat \X Nat, Begin(t, label, a, n, r),
                 r[1] <= a, a + n <= r[1] + r[2], a <= MemorySize,
                 label = "write" => a + n <= MemorySize,
                 label = "clear" => (a % PAGE_SIZE) + n <= PAGE_SIZE
          PROVE  Inv'
      <3>1. /\ UNCHANGED memory /\ calls' = calls + 1
            /\ call' = [call EXCEPT ![t] = calls'] /\ pc' = [pc EXCEPT ![t] = label]
            /\ addr' = [addr EXCEPT ![t] = a] /\ len' = [len EXCEPT ![t] = n]
            /\ bytes_written' = [bytes_written EXCEPT ![t] = 0]
            /\ region' = [region EXCEPT ![t] = r] /\ undisturbed' = undisturbed \cup {t}
        BY <2>2 DEF Begin
      <3>2. Types'
        BY <3>1 DEF Types
      <3>3. InRegion(t)' /\ Positioned(t)'
        BY <2>2, <3>1 DEF Types, InRegion, Positioned, Start
      <3>4. \A u \in Threads \ {t} : InRegion(u)' /\ Positioned(u)'
        BY <3>1 DEF Types, InRegion, Positioned, Start
      <3>5. WrittenSoFar'
        <4> SUFFICES ASSUME NEW u \in undisturbed', NEW i \in 0 .. bytes_written'[u] - 1
                     PROVE  memory'[Start(u)' + i] = Byte(u, i)'
          BY DEF WrittenSoFar
        <4>1. u # t /\ u \in undisturbed
          BY <3>1 DEF Types
        <4>2. /\ bytes_written'[u] = bytes_written[u]
              /\ Start(u)' = Start(u) /\ Byte(u, i)' = Byte(u, i)
          BY <3>1, <4>1 DEF Types, Start, Byte
        <4> QED
          BY <3>1, <4>1, <4>2 DEF WrittenSoFar
      <3> QED
        BY <3>2, <3>3, <3>4, <3>5
    <2>3. ASSUME NEW p \in Partitions, NEW n \in Lengths, NEW offset \in 0 .. sizes[p],
                 BeginWrite(t, p, n, offset)
          PROVE  Inv'
      <3>1. /\ address[p] \in Nat /\ sizes[p] \in Nat /\ n \in Nat
            /\ address[p] + sizes[p] <= MemorySize
        <4>1. sizes[p] \in Nat
          BY SizesAssumption DEF Partitions
        <4> QED
          BY <4>1 DEF LayoutAssumption
      <3>2. offset + n <= sizes[p] /\ Begin(t, "write", address[p] + offset, n, Partition(p))
        BY <2>3, <3>1 DEF BeginWrite, Overruns
      <3>3. Partition(p) \in Nat \X Nat /\ Partition(p)[1] = address[p]
            /\ Partition(p)[2] = sizes[p]
        BY <3>1 DEF Partition
      <3> QED
        BY <2>2, <3>1, <3>2, <3>3, MemoryAssumption
    <2>4. ASSUME NEW c \in Clears, Begin(t, "clear", c[1], c[2], c) PROVE Inv'
      <3>1. /\ c \in Nat \X Nat /\ c[1] \in Nat /\ c[2] \in Nat /\ c[1] <= MemorySize
        BY ClearsAssumption, MemoryAssumption DEF Addresses
      <3>2. (c[1] % PAGE_SIZE) + c[2] <= PAGE_SIZE
        BY DEF LayoutAssumption
      <3> QED
        BY <2>2, <2>4, <3>1, <3>2
    <2>5. ASSUME NEW p \in Partitions, NEW n \in Lengths, NEW offset \in 0 .. sizes[p],
                 Refuse(t, p, n, offset)
          PROVE  Inv'
      BY <2>1, <2>5 DEF Refuse, driverVars, history
    <2> QED
      BY <1>4, <2>3, <2>4, <2>5 DEF m24c32_directory_write, BeginClear
  <1>5. CASE UNCHANGED vars
    BY <1>5 DEF vars, driverVars, callVars, history, Types, InRegion, Positioned, Start,
      WrittenSoFar, Byte
  <1> QED
    BY <1>1, <1>2, <1>3, <1>4, <1>5 DEF Next, m24c32_write

(* Until somebody else writes there, what a write has written so far lies  *)
(* at its place, whichever pages it crosses and transfers fail.            *)
THEOREM WrittenIsThere == LayoutAssumption => (Spec => []WrittenSoFar)
  <1> SUFFICES ASSUME LayoutAssumption PROVE Spec => []WrittenSoFar
    OBVIOUS
  <1>1. Inv => WrittenSoFar
    BY DEF Inv
  <1>2. Inv /\ [Next]_vars => Inv'
    BY DirectoryStep
  <1> QED
    BY DirectoryInit, <1>1, <1>2, PTL DEF Spec

-------------------------------------------------------------------------------
(* A step of a call to the device is that thread's own, and changes only   *)
(* bytes of its region, to those of its data.                              *)
LEMMA DeviceStep ==
  ASSUME Inv, Next, NEW t \in Threads, pc[t] # "idle", Steps(t),
         NEW x \in Addresses, memory'[x] # memory[x]
  PROVE  /\ In(x, region[t])
         /\ memory'[x] = IF pc[t] = "write" THEN Byte(t, x - Start(t)) ELSE Zero
  <1> USE DEF Inv
  <1>1. /\ addr[t] \in Nat /\ len[t] \in Nat /\ bytes_written[t] \in Nat /\ x \in Nat
        /\ region[t][1] \in Nat /\ region[t][2] \in Nat
    BY MemoryAssumption DEF Types, Addresses
  <1>2. InRegion(t) /\ Positioned(t)
    OBVIOUS
  <1>3. m24c32_write(t) \/ m24c32_clear(t)
    <2>1. PICK u \in Threads :
            m24c32_directory_write(u) \/ m24c32_write(u) \/ BeginClear(u) \/ m24c32_clear(u)
      BY DEF Next
    <2>2. CASE m24c32_directory_write(u) \/ BeginClear(u)
      BY <2>2 DEF m24c32_directory_write, BeginClear, BeginWrite, Refuse, Begin
    <2>3. CASE (m24c32_write(u) \/ m24c32_clear(u)) /\ u # t
      <3>1. bytes_written'[t] = bytes_written[t] /\ pc'[t] = pc[t]
        BY <2>3 DEF m24c32_write, m24c32_clear, WritePage, WriteFails, WriteDone, Return,
          callVars, driverVars, Types
      <3> QED
        BY <3>1 DEF Steps
    <2> QED
      BY <2>1, <2>2, <2>3
  <1>4. CASE WritePage(t)
    <2> DEFINE a == addr[t]
               n == write_len(t)
    <2>1. pc[t] = "write" /\ bytes_written[t] < len[t] /\ DeviceWrite(t, a, Chunk(t))
      BY <1>4 DEF WritePage
    <2>2. n \in Nat /\ bytes_written[t] + n <= len[t] /\ (a % PAGE_SIZE) + n <= PAGE_SIZE
      BY <1>1, <2>1, WriteLength
    <2> HIDE DEF n
    <2>3. /\ DOMAIN Chunk(t) = 0 .. n - 1
          /\ \A i \in 0 .. n - 1 : Chunk(t)[i] = Byte(t, bytes_written[t] + i)
      BY DEF Chunk, n
    <2>4. memory'[x] = IF x \in a .. a + n - 1 THEN Chunk(t)[x - a] ELSE memory[x]
      <3> DEFINE data == Chunk(t)
      <3>1. a \in Nat /\ DOMAIN data = 0 .. n - 1 /\ DeviceWrite(t, a, data)
        BY <1>1, <2>1, <2>3
      <3> HIDE DEF a, data
      <3>2. memory'[x] = IF x \in a .. a + n - 1 THEN data[x - a] ELSE memory[x]
        BY <1>1, <2>2, <3>1, WriteInPage
      <3> QED
        BY <3>2 DEF data
    <2>5. x \in a .. a + n - 1 /\ memory'[x] = Chunk(t)[x - a]
      BY <2>4
    <2>6. x - a \in 0 .. n - 1 /\ bytes_written[t] + (x - a) = x - Start(t)
      BY <1>1, <2>2, <2>5 DEF Start
    <2>7. memory'[x] = Byte(t, x - Start(t))
      BY <2>3, <2>5, <2>6
    <2>8. region[t][1] <= x /\ x < region[t][1] + region[t][2]
      BY <1>1, <1>2, <2>2, <2>5 DEF InRegion, Start
    <2> QED
      BY <1>1, <2>1, <2>7, <2>8 DEF In
  <1>5. CASE m24c32_clear(t)
    <2> DEFINE zeros == [i \in 0 .. len[t] - 1 |-> Zero]
    <2>1. pc[t] = "clear" /\ DeviceWrite(t, addr[t], zeros)
      BY <1>5 DEF m24c32_clear, DeviceFails
    <2>2. DOMAIN zeros = 0 .. len[t] - 1 /\ \A i \in 0 .. len[t] - 1 : zeros[i] = Zero
      OBVIOUS
    <2> HIDE DEF zeros
    <2>3. memory'[x] = IF x \in addr[t] .. addr[t] + len[t] - 1 THEN zeros[x - addr[t]] ELSE memory[x]
      BY <1>1, <1>2, <2>1, <2>2, WriteInPage DEF Positioned
    <2>4. x \in addr[t] .. addr[t] + len[t] - 1 /\ x - addr[t] \in 0 .. len[t] - 1
      BY <1>1, <2>3
    <2>5. memory'[x] = Zero
      BY <2>2, <2>3, <2>4
    <2>6. region[t][1] <= x /\ x < region[t][1] + region[t][2]
      BY <1>1, <1>2, <2>1, <2>4 DEF InRegion, Positioned, Start
    <2> QED
      BY <1>1, <2>1, <2>5, <2>6 DEF In
  <1> QED
    BY <1>3, <1>4, <1>5 DEF m24c32_write, WriteFails, WriteDone, DeviceFails

(* A call changes no byte outside the partition it writes or the section   *)
(* it clears, for every size of the pages, the partitions and the data.    *)
THEOREM OthersUntouched == LayoutAssumption => (Spec => NothingElseChanges)
  <1> SUFFICES ASSUME LayoutAssumption PROVE Spec => NothingElseChanges
    OBVIOUS
  <1> DEFINE Own ==
        \A t \in Threads : pc[t] # "idle" /\ Steps(t) =>
          \A a \in Addresses : memory'[a] # memory[a] =>
            /\ In(a, region[t])
            /\ memory'[a] = IF pc[t] = "write" THEN Byte(t, a - Start(t)) ELSE Zero
  <1>1. Inv /\ [Next]_vars => [Own]_vars
    BY DeviceStep
  <1>2. Inv /\ [Next]_vars => Inv'
    BY DirectoryStep
  <1> QED
    BY DirectoryInit, <1>1, <1>2, PTL DEF Spec, NothingElseChanges

-------------------------------------------------------------------------------
(***************************************************************************)
(* The pins of the expanders.                                               *)
(***************************************************************************)
PinCalls == [port : Pinning!Ports, bit : Pinning!Bits \cup {Pinning!Undefined}, state : BOOLEAN]

PinTypes ==
  /\ high \in [Pinning!Ports -> SUBSET Pinning!Bits]
  /\ pin_call \in [Threads -> PinCalls]
  /\ pin_pc \in [Threads -> {"idle", "read", "write"}]
  /\ pin_data \in [Threads -> SUBSET Pinning!Bits]
  /\ pin_allowed \in [Pinning!Ports -> [Pinning!Bits -> SUBSET BOOLEAN]]

(* Of a port that is not mixed at most one thread is in a call, and then   *)
(* what it read is still what the device holds.                            *)
OneAtATime ==
  \A u, v \in Threads :
    u # v /\ pin_pc[u] # "idle" /\ pin_pc[v] # "idle" /\ pin_call[u].port = pin_call[v].port =>
      pin_call[u].port \in mixed

CopyIsCurrent ==
  \A u \in Threads : pin_pc[u] = "write" /\ pin_call[u].port \notin mixed =>
    pin_data[u] = high[pin_call[u].port]

AsAllowed ==
  \A p \in Pinning!Ports \ mixed : \A b \in Pinning!Bits :
    IF b \in high[p] THEN TRUE \in pin_allowed[p][b] ELSE FALSE \in pin_allowed[p][b]

PinsInv == PinTypes /\ OneAtATime /\ CopyIsCurrent /\ AsAllowed

LEMMA PinCallsTyped == \A c : Pinning!CallsOf(c) \subseteq PinCalls
  <1>1. Width \in Nat /\ Width > 0
    BY DevicesAssumption DEF Pinning!PinsAssumption
  <1>2. ASSUME NEW p \in {0, 1}, NEW b \in 0 .. Width, NEW s \in BOOLEAN
        PROVE  Pinning!WritePin(p, b, s) \in PinCalls
    BY <1>1 DEF Pinning!WritePin, PinCalls, Pinning!Ports, Pinning!Bits, Pinning!Undefined
  <1>3. Pinning!tca9539_write_pin \subseteq PinCalls
    BY <1>1, <1>2 DEF Pinning!tca9539_write_pin, Pinning!Ports, Pinning!Bits
  <1>4. \A q \in 0 .. 2 * Width - 1 : q % Width \in 0 .. Width
    BY <1>1
  <1>5. Pinning!max7314_set_pin_state \subseteq PinCalls
    BY <1>2, <1>4 DEF Pinning!max7314_set_pin_state
  <1>6. Pinning!max7314_set_pin_mode \subseteq PinCalls
    BY <1>1, <1>2, <1>4 DEF Pinning!max7314_set_pin_mode, Pinning!Undefined
  <1> QED
    BY <1>3, <1>5, <1>6 DEF Pinning!CallsOf

LEMMA PinsInit == DevicesInit => PinsInv
  <1> SUFFICES ASSUME Pinning!Init PROVE PinsInv
    BY DEF DevicesInit
  <1>1. Width \in Nat /\ Width > 0
    BY DevicesAssumption DEF Pinning!PinsAssumption
  <1>2. high \in [Pinning!Ports -> SUBSET Pinning!Bits]
    <2>1. Width \div 2 \in Nat
      BY <1>1
    <2>2. Width \div 2 .. Width - 1 \subseteq Pinning!Bits
      BY <1>1, <2>1 DEF Pinning!Bits
    <2> QED
      BY <2>2 DEF Pinning!Init
  <1>3. Pinning!WritePin(0, 0, FALSE) \in PinCalls
    BY <1>1 DEF Pinning!WritePin, PinCalls, Pinning!Ports, Pinning!Bits
  <1>4. /\ pin_pc = [u \in Threads |-> "idle"] /\ pin_data = [u \in Threads |-> {}]
        /\ pin_call \in [Threads -> PinCalls]
    BY <1>3 DEF Pinning!Init
  <1>5. pin_allowed = [p \in Pinning!Ports |->
                         [b \in Pinning!Bits |-> IF b \in high[p] THEN {TRUE} ELSE {FALSE}]]
    BY DEF Pinning!Init
  <1>6. pin_allowed \in [Pinning!Ports -> [Pinning!Bits -> SUBSET BOOLEAN]]
    BY <1>5
  <1>7. AsAllowed
    BY <1>5 DEF AsAllowed
  <1> QED
    BY <1>2, <1>4, <1>6, <1>7 DEF PinsInv, PinTypes, OneAtATime, CopyIsCurrent

LEMMA PinsNext ==
  ASSUME part = "pins", [DevicesNext]_allVars
  PROVE  part' = part /\ [Pinning!Next]_pinsVars
  BY DEF DevicesNext, allVars

LEMMA PinsStep ==
  ASSUME PinsInv, [Pinning!Next]_pinsVars
  PROVE  PinsInv'
  <1> USE DEF PinsInv, PinTypes
  <1>1. ASSUME NEW u \in Threads, Pinning!Call(u) PROVE PinsInv'
    <2>1. PICK c \in Pinning!CallsOf(expander) : pin_call' = [pin_call EXCEPT ![u] = c]
      BY <1>1 DEF Pinning!Call
    <2>2. c \in PinCalls
      BY <2>1, PinCallsTyped
    <2>3. /\ pin_pc[u] = "idle" /\ pin_pc' = [pin_pc EXCEPT ![u] = "read"]
          /\ mixed' = mixed \cup {p \in Pinning!Ports : \E v \in Threads \ {u} :
                          pin_pc[v] # "idle" /\ p = pin_call[v].port /\ p = pin_call'[u].port}
          /\ UNCHANGED <<high, pin_data, pin_allowed>>
      BY <1>1 DEF Pinning!Call
    <2>4. PinTypes'
      BY <2>1, <2>2, <2>3
    <2>5. pin_call'[u] = c /\ c.port \in Pinning!Ports
      BY <2>1, <2>2 DEF PinCalls
    <2>6. ASSUME NEW v \in Threads \ {u}, pin_pc[v] # "idle", pin_call[v].port = c.port
          PROVE  c.port \in mixed'
      BY <2>3, <2>5, <2>6
    <2>7. mixed \subseteq mixed'
      BY <2>3
    <2>8. \A v \in Threads \ {u} : pin_call'[v] = pin_call[v] /\ pin_pc'[v] = pin_pc[v]
      BY <2>1, <2>3
    <2>9. OneAtATime'
      BY <2>5, <2>6, <2>7, <2>8 DEF OneAtATime
    <2>10. pin_pc'[u] = "read"
      BY <2>3
    <2>11. CopyIsCurrent'
      BY <2>3, <2>7, <2>8, <2>10 DEF CopyIsCurrent
    <2>12. AsAllowed'
      BY <2>3, <2>7 DEF AsAllowed
    <2> QED
      BY <2>4, <2>9, <2>11, <2>12
  <1>2. ASSUME NEW u \in Threads, Pinning!Read(u) PROVE PinsInv'
    <2>1. /\ pin_pc[u] = "read" /\ UNCHANGED <<high, pin_call, pin_allowed, mixed>>
          /\ \/ /\ pin_data' = [pin_data EXCEPT ![u] = high[pin_call[u].port]]
                /\ pin_pc' = [pin_pc EXCEPT ![u] = "write"]
             \/ pin_pc' = [pin_pc EXCEPT ![u] = "idle"] /\ UNCHANGED pin_data
      BY <1>2 DEF Pinning!Read
    <2>2. PinTypes'
      <3>1. high[pin_call[u].port] \in SUBSET Pinning!Bits
        BY DEF PinCalls
      <3> QED
        BY <2>1, <3>1
    <2>3. OneAtATime'
      BY <2>1 DEF OneAtATime
    <2>4. CopyIsCurrent'
      BY <2>1 DEF CopyIsCurrent
    <2>5. AsAllowed'
      BY <2>1 DEF AsAllowed
    <2> QED
      BY <2>2, <2>3, <2>4, <2>5
  <1>3. ASSUME NEW u \in Threads, Pinning!Write(u) PROVE PinsInv'
    <2> DEFINE c == pin_call[u]
               old == pin_data[u]
    <2>1. PICK new \in Pinning!Modified(c, old), missed \in BOOLEAN :
            /\ \/ high' = [high EXCEPT ![c.port] = new]
               \/ missed /\ UNCHANGED high
            /\ pin_allowed' = [pin_allowed EXCEPT ![c.port] = [b \in Pinning!Bits |->
                  CASE c.bit = Pinning!Undefined -> BOOLEAN
                    [] c.bit = b -> IF missed THEN pin_allowed[c.port][b] \cup {c.state} ELSE {c.state}
                    [] OTHER -> pin_allowed[c.port][b]]]
      BY <1>3 DEF Pinning!Write
    <2>2. /\ pin_pc[u] = "write" /\ pin_pc' = [pin_pc EXCEPT ![u] = "idle"]
          /\ UNCHANGED <<pin_call, pin_data, mixed>>
      BY <1>3 DEF Pinning!Write
    <2>3. c \in PinCalls
      OBVIOUS
    <2>4. c.port \in Pinning!Ports /\ c.bit \in Pinning!Bits \cup {Pinning!Undefined}
          /\ c.state \in BOOLEAN
      BY <2>3 DEF PinCalls
    <2> HIDE DEF c
    <2> DEFINE may == pin_allowed[c.port]
               now_may == [b \in Pinning!Bits |->
                  CASE c.bit = Pinning!Undefined -> BOOLEAN
                    [] c.bit = b -> IF missed THEN may[b] \cup {c.state} ELSE {c.state}
                    [] OTHER -> may[b]]
    <2>5. /\ may \in [Pinning!Bits -> SUBSET BOOLEAN]
          /\ now_may \in [Pinning!Bits -> SUBSET BOOLEAN]
      <3>1. may \in [Pinning!Bits -> SUBSET BOOLEAN]
        BY <2>4
      <3> HIDE DEF may
      <3>2. \A b \in Pinning!Bits : now_may[b] \in SUBSET BOOLEAN
        BY <2>4, <3>1
      <3> QED
        BY <3>1, <3>2
    <2> HIDE DEF may, now_may
    <2>6. pin_pc'[u] = "idle" /\ \A v \in Threads \ {u} : pin_pc'[v] = pin_pc[v]
      BY <2>2
    <2>7. CopyIsCurrent'
      <3> SUFFICES ASSUME NEW v \in Threads, pin_pc'[v] = "write", pin_call[v].port \notin mixed
                   PROVE  pin_data[v] = high'[pin_call[v].port]
        BY <2>2 DEF CopyIsCurrent
      <3>1. v # u /\ pin_pc[v] = "write" /\ pin_call[v] \in PinCalls
        BY <2>6
      <3>2. pin_call[v].port # c.port
        BY <2>2, <3>1 DEF OneAtATime, c
      <3>3. high'[pin_call[v].port] = high[pin_call[v].port]
        BY <2>1, <3>1, <3>2 DEF PinCalls
      <3> QED
        BY <3>1, <3>3 DEF CopyIsCurrent
    <2>8. c.port \notin mixed => old = high[c.port]
      BY <2>2 DEF CopyIsCurrent, c
    <2>9. new \subseteq Pinning!Bits
      <3>1. old \subseteq Pinning!Bits
        OBVIOUS
      <3> HIDE DEF old
      <3>2. CASE c.bit = Pinning!Undefined
        BY <2>1, <3>2 DEF Pinning!Modified
      <3>3. CASE c.bit # Pinning!Undefined
        <4>1. new = (old \ {c.bit}) \cup (IF c.state THEN {c.bit} ELSE {})
          BY <2>1, <3>3 DEF Pinning!Modified
        <4> QED
          BY <2>4, <3>1, <3>3, <4>1
      <3> QED
        BY <3>2, <3>3
    <2>10. /\ high' \in [Pinning!Ports -> SUBSET Pinning!Bits]
           /\ pin_allowed' \in [Pinning!Ports -> [Pinning!Bits -> SUBSET BOOLEAN]]
      <3>1. pin_allowed' = [pin_allowed EXCEPT ![c.port] = now_may]
        BY <2>1 DEF now_may, may
      <3> QED
        BY <2>1, <2>4, <2>5, <2>9, <3>1
    <2>11. PinTypes' /\ OneAtATime'
      BY <2>2, <2>6, <2>10 DEF OneAtATime
    <2>12. AsAllowed'
      <3> SUFFICES ASSUME NEW p \in Pinning!Ports \ mixed, NEW b \in Pinning!Bits
                   PROVE  IF b \in high'[p] THEN TRUE \in pin_allowed'[p][b]
                                           ELSE FALSE \in pin_allowed'[p][b]
        BY <2>2 DEF AsAllowed
      <3>1. IF b \in high[p] THEN TRUE \in pin_allowed[p][b] ELSE FALSE \in pin_allowed[p][b]
        BY DEF AsAllowed
      <3>2. CASE p # c.port
        <4>1. high'[p] = high[p] /\ pin_allowed'[p] = pin_allowed[p]
          BY <2>1, <3>2
        <4> QED
          BY <3>1, <4>1
      <3>3. CASE p = c.port
        <4>1. pin_allowed'[p] = now_may /\ may = pin_allowed[p]
          BY <2>1, <2>4, <3>3 DEF now_may, may
        <4>2. old = high[p] /\ (high'[p] = new \/ (missed /\ high'[p] = high[p]))
          BY <2>1, <2>4, <2>8, <3>3
        <4>3. CASE c.bit = Pinning!Undefined
          <5>1. b # Pinning!Undefined
            BY DevicesAssumption DEF Pinning!PinsAssumption, Pinning!Bits, Pinning!Undefined
          <5>2. now_may[b] = BOOLEAN
            BY <4>3, <5>1 DEF now_may
          <5> QED
            BY <4>1, <5>2
        <4>4. CASE c.bit # Pinning!Undefined /\ b # c.bit
          <5>1. now_may[b] = may[b]
            BY <4>4 DEF now_may
          <5>2. new = (old \ {c.bit}) \cup (IF c.state THEN {c.bit} ELSE {})
            BY <2>1, <4>4 DEF Pinning!Modified
          <5>3. b \in high'[p] <=> b \in high[p]
            BY <4>2, <4>4, <5>2
          <5> QED
            BY <3>1, <4>1, <5>1, <5>3
        <4>5. CASE c.bit # Pinning!Undefined /\ b = c.bit
          <5>1. now_may[b] = IF missed THEN may[b] \cup {c.state} ELSE {c.state}
            BY <4>5 DEF now_may
          <5>2. new = (old \ {c.bit}) \cup (IF c.state THEN {c.bit} ELSE {})
            BY <2>1, <4>5 DEF Pinning!Modified
          <5>3. b \in new <=> c.state
            BY <4>5, <5>2
          <5>4. IF c.state THEN TRUE \in now_may[b] ELSE FALSE \in now_may[b]
            BY <2>4, <5>1
          <5>5. CASE high'[p] = new
            BY <4>1, <5>3, <5>4, <5>5
          <5>6. CASE missed /\ high'[p] = high[p]
            BY <3>1, <4>1, <5>1, <5>6
          <5> QED
            BY <4>2, <5>5, <5>6
        <4> QED
          BY <4>3, <4>4, <4>5
      <3> QED
        BY <3>2, <3>3
    <2> QED
      BY <2>11, <2>7, <2>12
  <1>4. CASE UNCHANGED pinsVars
    BY <1>4 DEF pinsVars, OneAtATime, CopyIsCurrent, AsAllowed
  <1> QED
    BY <1>1, <1>2, <1>3, <1>4 DEF Pinning!Next

LEMMA PinsSound == PinsInv => Pinning!PinsAsSet
  <1> SUFFICES ASSUME PinsInv, NEW p \in Pinning!Ports \ mixed, NEW b \in Pinning!Bits
               PROVE  (b \in high[p]) \in pin_allowed[p][b]
    BY DEF Pinning!PinsAsSet
  <1>1. IF b \in high[p] THEN TRUE \in pin_allowed[p][b] ELSE FALSE \in pin_allowed[p][b]
    BY DEF PinsInv, AsAllowed
  <1>2. CASE b \in high[p]
    <2>1. (b \in high[p]) = TRUE
      BY <1>2
    <2> QED
      BY <1>1, <1>2, <2>1
  <1>3. CASE b \notin high[p]
    <2>1. (b \in high[p]) = FALSE
      BY <1>3
    <2> QED
      BY <1>1, <1>3, <2>1
  <1> QED
    BY <1>2, <1>3

-------------------------------------------------------------------------------
(***************************************************************************)
(* The PHY.                                                                 *)
(***************************************************************************)
LegalCall(c) ==
  /\ c.kind \in {"set", "get", "reset"} /\ c.bus \in {"smi", "mmd"}
  /\ c.targets \subseteq Linking!Fields /\ Linking!Layout[c.register] \subseteq Linking!Fields
  /\ c.kind # "reset" => \E f \in Linking!Layout[c.register] : c.targets = {f}
  /\ c.kind = "set" => "link" \notin c.targets /\ "link" \notin Linking!Layout[c.register]

LinkCall(c) ==
  /\ c.kind = "get" /\ c.bus = "smi" /\ c.register = "BASIC_STATUS" /\ c.targets = {"link"}

PhyTypes ==
  /\ DOMAIN phy_call = Linking!Callers /\ DOMAIN phy_pc = Linking!Callers
  /\ DOMAIN phy_data = Linking!Callers /\ DOMAIN got = Linking!Callers
  /\ \A t \in Linking!Callers :
       /\ LegalCall(phy_call[t])
       /\ phy_pc[t] \in {Linking!Idle} \cup ({"read", "write"} \X (1 .. 4))

(* A call reads before it writes, and has reported nothing before it ends. *)
InCall(t) ==
  phy_pc[t] # Linking!Idle =>
    /\ got[t] = None
    /\ phy_pc[t][1] = "write" => phy_call[t].kind # "get"
    /\ phy_pc[t][1] = "read" => phy_call[t].kind # "reset"
    /\ phy_pc[t][2] \in 1 .. 3 => phy_call[t].bus = "mmd"

(* The driver only asks for the link, which no call can change.            *)
OnlyLink ==
  /\ LinkCall(phy_call["driver"]) /\ phy_pc["driver"] \in {Linking!Idle, <<"read", 4>>}
  /\ got["driver"] \in {None, 1}
  /\ fields["link"] = 1 /\ phy_allowed["link"] = {1}

(* Of the application's call: what MMD has selected, and what it read.     *)
Selection ==
  phy_call["app"].bus = "mmd" =>
    /\ phy_pc["app"][2] \in {3, 4} => selected = phy_call["app"].register
    /\ phy_pc["app"][2] = 4 => mode = "data"

CopyUpToDate ==
  phy_pc["app"][1] = "write" /\ phy_call["app"].kind = "set" =>
    \A f \in Linking!Layout[phy_call["app"].register] : phy_data["app"][f] = fields[f]

ReportAllowed ==
  got["app"] # None =>
    \A f \in phy_call["app"].targets :
      got["app"] \in {Linking!Reported(f, v) : v \in phy_allowed[f]}

PhyInv ==
  /\ PhyTypes /\ \A t \in Linking!Callers : InCall(t)
  /\ OnlyLink /\ Selection /\ CopyUpToDate /\ ReportAllowed
  /\ \A f \in Linking!Fields : fields[f] \in phy_allowed[f]

LEMMA LayoutFacts ==
  /\ Linking!Layout["BASIC_CONTROL"] = {"loopback", "low_power"}
  /\ Linking!Layout["BASIC_STATUS"] = {"link"} /\ Linking!Layout["CDCTL0"] = {"detection"}
  /\ Linking!Layout["PLCA_CTRL0"] = {"plca"} /\ Linking!Layout["PLCA_STS"] = {"beacon"}
  /\ Linking!Layout["PLCA_CTRL1"] = {"node_count", "node_id"}
  /\ Linking!Layout["PLCA_TOTMR"] = {"totmr"}
  /\ Linking!Fields = {"loopback", "low_power", "link", "detection", "plca", "beacon",
                       "node_count", "node_id", "totmr"}
  <1>1. DOMAIN Linking!Layout
          = {"BASIC_CONTROL", "BASIC_STATUS", "CDCTL0", "PLCA_CTRL0", "PLCA_STS",
                          "PLCA_CTRL1", "PLCA_TOTMR"}
    BY DEF Linking!Layout
  <1>2. /\ Linking!Layout["BASIC_CONTROL"] = {"loopback", "low_power"}
        /\ Linking!Layout["BASIC_STATUS"] = {"link"} /\ Linking!Layout["CDCTL0"] = {"detection"}
        /\ Linking!Layout["PLCA_CTRL0"] = {"plca"} /\ Linking!Layout["PLCA_STS"] = {"beacon"}
        /\ Linking!Layout["PLCA_CTRL1"] = {"node_count", "node_id"}
        /\ Linking!Layout["PLCA_TOTMR"] = {"totmr"}
    BY DEF Linking!Layout
  <1> QED
    BY <1>1, <1>2 DEF Linking!Fields

LEMMA CallsLegal ==
  /\ \A c \in Linking!CallsOf["app"] : LegalCall(c)
  /\ \A c \in Linking!CallsOf["driver"] : LegalCall(c) /\ LinkCall(c)
  <1> USE LayoutFacts DEF LegalCall, Linking!Set, Linking!Get, Linking!Reset, Linking!Calls
  <1>1. \A c \in Linking!LAN8670_Reset \cup Linking!LAN8670_PLCA_Reset : LegalCall(c)
    BY DEF Linking!LAN8670_Reset, Linking!LAN8670_PLCA_Reset
  <1>2. \A c \in Linking!LAN8670_Loopback \cup Linking!LAN8670_Low_Power_Mode : LegalCall(c)
    BY DEF Linking!LAN8670_Loopback, Linking!LAN8670_Low_Power_Mode
  <1>3. \A c \in Linking!LAN8670_Collision_Detection \cup Linking!LAN8670_PLCA_On : LegalCall(c)
    BY DEF Linking!LAN8670_Collision_Detection, Linking!LAN8670_PLCA_On
  <1>4. \A c \in Linking!LAN8670_PLCA_Set_Node_Count \cup Linking!LAN8670_PLCA_Set_Node_Id :
          LegalCall(c)
    BY DEF Linking!LAN8670_PLCA_Set_Node_Count, Linking!LAN8670_PLCA_Set_Node_Id
  <1>5. \A c \in Linking!LAN8670_PLCA_WriteTOTMR \cup Linking!LAN8670_PLCA_ReadTOTMR : LegalCall(c)
    BY DEF Linking!LAN8670_PLCA_WriteTOTMR, Linking!LAN8670_PLCA_ReadTOTMR
  <1>6. \A c \in Linking!LAN8670_PLCA_Get_Status : LegalCall(c)
    BY DEF Linking!LAN8670_PLCA_Get_Status
  <1>7. \A c \in Linking!LAN8670_Get_Link_State : LegalCall(c) /\ LinkCall(c)
    BY DEF Linking!LAN8670_Get_Link_State, LinkCall
  <1> QED
    BY <1>1, <1>2, <1>3, <1>4, <1>5, <1>6, <1>7 DEF Linking!CallsOf

LEMMA PhyInit == DevicesInit => PhyInv
  <1> SUFFICES ASSUME Linking!Init PROVE PhyInv
    BY DEF DevicesInit
  <1>1. \A t \in Linking!Callers : /\ LegalCall(phy_call[t]) /\ LinkCall(phy_call[t])
                                   /\ phy_pc[t] = Linking!Idle /\ got[t] = None
    BY CallsLegal DEF Linking!Init, Linking!CallsOf
  <1>2. PhyTypes
    BY <1>1 DEF Linking!Init, PhyTypes
  <1>3. \A f \in Linking!Fields : phy_allowed[f] = {fields[f]}
    BY DEF Linking!Init, Linking!Defaults
  <1>4. fields["link"] = 1 /\ "link" \in Linking!Fields
    BY LayoutFacts DEF Linking!Init, Linking!Defaults
  <1>5. Linking!Idle[1] = "idle" /\ Linking!Idle[2] = 0
    BY DEF Linking!Idle
  <1> QED
    BY <1>1, <1>2, <1>3, <1>4, <1>5
      DEF PhyInv, InCall, OnlyLink, Selection, CopyUpToDate, ReportAllowed, Linking!Callers

LEMMA PhyNext ==
  ASSUME part = "phy", [DevicesNext]_allVars
  PROVE  part' = part /\ [Linking!Next]_phyVars
  BY DEF DevicesNext, allVars

LEMMA PhyCallStep ==
  ASSUME PhyInv, NEW t \in Linking!Callers, Linking!Call(t)
  PROVE  PhyInv'
  <1> USE DEF PhyInv, PhyTypes
  <1>1. PICK c \in Linking!CallsOf[t] :
          /\ phy_call' = [phy_call EXCEPT ![t] = c]
          /\ phy_pc' = [phy_pc EXCEPT ![t] =
                          Linking!Begin(IF c.kind = "reset" THEN "write" ELSE "read", c)]
    BY DEF Linking!Call
  <1>2. got' = [got EXCEPT ![t] = None]
        /\ UNCHANGED <<fields, mode, selected, phy_data, phy_allowed>>
    BY DEF Linking!Call, Linking!device
  <1> DEFINE access == IF c.kind = "reset" THEN "write" ELSE "read"
             first_step == IF c.bus = "smi" THEN 4 ELSE 1
  <1>3. LegalCall(c) /\ (t = "driver" => LinkCall(c))
    BY CallsLegal DEF Linking!Callers
  <1>4. /\ phy_call'[t] = c /\ phy_pc'[t] = <<access, first_step>> /\ got'[t] = None
        /\ \A u \in Linking!Callers \ {t} :
             phy_call'[u] = phy_call[u] /\ phy_pc'[u] = phy_pc[u] /\ got'[u] = got[u]
    BY <1>1, <1>2 DEF Linking!Begin
  <1>5. access \in {"read", "write"} /\ first_step \in {1, 4} /\ (first_step = 1 => c.bus = "mmd")
        /\ (c.bus = "mmd" => first_step = 1)
        /\ (access = "write" <=> c.kind = "reset")
    BY <1>3 DEF LegalCall
  <1> HIDE DEF access, first_step
  <1>6. PhyTypes'
    <2>1. phy_pc'[t] \in {"read", "write"} \X (1 .. 4)
      BY <1>4, <1>5
    <2>2. \A u \in Linking!Callers :
            LegalCall(phy_call'[u])
              /\ phy_pc'[u] \in {Linking!Idle} \cup ({"read", "write"} \X (1 .. 4))
      BY <1>3, <1>4, <2>1
    <2> QED
      BY <1>1, <1>2, <2>2
  <1>7. \A u \in Linking!Callers : InCall(u)'
    BY <1>3, <1>4, <1>5 DEF InCall
  <1>8. phy_pc'["driver"] \in {Linking!Idle, <<"read", 4>>} /\ LinkCall(phy_call'["driver"])
        /\ got'["driver"] \in {None, 1}
    <2>1. CASE t = "driver"
      <3>1. c.bus = "smi" /\ access = "read"
        BY <1>3, <1>5, <2>1 DEF LinkCall
      <3> QED
        BY <1>3, <1>4, <2>1, <3>1 DEF first_step
    <2>2. CASE t # "driver"
      BY <1>4, <2>2 DEF OnlyLink, Linking!Callers
    <2> QED
      BY <2>1, <2>2
  <1>9. OnlyLink'
    BY <1>2, <1>8 DEF OnlyLink
  <1>10. CASE t = "driver"
    <2>1. phy_call'["app"] = phy_call["app"] /\ phy_pc'["app"] = phy_pc["app"]
          /\ got'["app"] = got["app"]
      BY <1>4, <1>10 DEF Linking!Callers
    <2>2. Selection' /\ CopyUpToDate' /\ ReportAllowed'
      BY <1>2, <2>1 DEF Selection, CopyUpToDate, ReportAllowed, Linking!Reported
    <2> QED
      BY <1>2, <1>6, <1>7, <1>9, <2>2
  <1>11. CASE t = "app"
    <2>1. phy_call'["app"] = c /\ phy_pc'["app"][1] = access /\ phy_pc'["app"][2] = first_step
          /\ got'["app"] = None
      BY <1>4, <1>11
    <2>2. Selection' /\ CopyUpToDate' /\ ReportAllowed'
      BY <1>3, <1>5, <2>1 DEF Selection, CopyUpToDate, ReportAllowed, LegalCall
    <2> QED
      BY <1>2, <1>6, <1>7, <1>9, <2>2
  <1> QED
    BY <1>10, <1>11 DEF Linking!Callers

LEMMA PhySelectStep ==
  ASSUME PhyInv, NEW t \in Linking!Callers, Linking!Select(t)
  PROVE  PhyInv'
  <1> USE DEF PhyInv, PhyTypes
  <1> DEFINE where == phy_pc[t][1]
             k == phy_pc[t][2]
  <1>1. k \in {1, 2, 3} /\ UNCHANGED <<phy_call, phy_data, got, phy_allowed>>
    BY DEF Linking!Select
  <1>2. t = "app"
    BY <1>1 DEF OnlyLink, Linking!Idle, Linking!Callers
  <1>3. phy_pc[t] = <<where, k>> /\ where \in {"read", "write"}
    BY <1>1 DEF Linking!Idle
  <1>4. [phy_pc EXCEPT ![t][2] = @ + 1] = [phy_pc EXCEPT ![t] = <<where, k + 1>>]
    <2>1. \A x, y : [<<x, y>> EXCEPT ![2] = @ + 1] = <<x, y + 1>>
      OBVIOUS
    <2>2. [phy_pc[t] EXCEPT ![2] = @ + 1] = <<where, k + 1>>
      BY <1>3, <2>1
    <2> QED
      BY <2>2
  <1>5. /\ UNCHANGED fields
        /\ \/ /\ phy_pc' = [phy_pc EXCEPT ![t] = <<where, k + 1>>]
              /\ k = 1 => mode' = "address" /\ UNCHANGED selected
              /\ k = 2 => selected' = phy_call[t].register /\ UNCHANGED mode
              /\ k = 3 => mode' = "data" /\ UNCHANGED selected
           \/ phy_pc' = [phy_pc EXCEPT ![t] = Linking!Idle]
    <2>1. CASE k = 1
      BY <1>4, <2>1 DEF Linking!Select, Linking!Return, Linking!device
    <2>2. CASE k = 2
      BY <1>4, <2>2 DEF Linking!Select, Linking!Return, Linking!device
    <2>3. CASE k = 3
      BY <1>4, <2>3 DEF Linking!Select, Linking!Return, Linking!device
    <2> QED
      BY <1>1, <2>1, <2>2, <2>3
  <1>6. phy_pc'["driver"] = phy_pc["driver"]
    BY <1>2, <1>5 DEF Linking!Callers
  <1>7. OnlyLink'
    BY <1>1, <1>5, <1>6 DEF OnlyLink
  <1>8. ReportAllowed' /\ \A f \in Linking!Fields : fields'[f] \in phy_allowed'[f]
    BY <1>1, <1>5 DEF ReportAllowed, Linking!Reported
  <1>9. phy_call[t].bus = "mmd" /\ got[t] = None
    BY <1>1, <1>3 DEF InCall, Linking!Idle
  <1>10. CASE phy_pc' = [phy_pc EXCEPT ![t] = Linking!Idle]
    <2>1. phy_pc'["app"] = Linking!Idle /\ Linking!Idle[1] = "idle" /\ Linking!Idle[2] = 0
      BY <1>2, <1>10 DEF Linking!Callers, Linking!Idle
    <2>2. Selection' /\ CopyUpToDate'
      BY <2>1 DEF Selection, CopyUpToDate
    <2>3. PhyTypes'
      BY <1>1, <1>10
    <2>4. \A u \in Linking!Callers : InCall(u)'
      BY <1>1, <1>2, <1>6, <2>1 DEF InCall, Linking!Callers
    <2> QED
      BY <1>7, <1>8, <2>2, <2>3, <2>4
  <1>11. CASE /\ phy_pc' = [phy_pc EXCEPT ![t] = <<where, k + 1>>]
              /\ k = 1 => mode' = "address" /\ UNCHANGED selected
              /\ k = 2 => selected' = phy_call[t].register /\ UNCHANGED mode
              /\ k = 3 => mode' = "data" /\ UNCHANGED selected
    <2>1. phy_pc'["app"] = <<where, k + 1>> /\ where = phy_pc["app"][1] /\ phy_pc["app"][2] = k
      BY <1>2, <1>3, <1>11 DEF Linking!Callers
    <2>2. Selection'
      BY <1>1, <1>2, <1>3, <1>9, <1>11, <2>1 DEF Selection
    <2>3. CopyUpToDate'
      BY <1>1, <1>5, <2>1 DEF CopyUpToDate
    <2>4. PhyTypes'
      BY <1>1, <1>3, <1>11
    <2>5. \A u \in Linking!Callers : InCall(u)'
      <3>1. InCall("driver")'
        BY <1>1, <1>6 DEF InCall, Linking!Callers
      <3>2. InCall("app") /\ phy_pc["app"] # Linking!Idle
        BY <1>1, <1>2 DEF Linking!Idle, Linking!Callers
      <3>3. phy_pc'["app"][1] = phy_pc["app"][1] /\ got'["app"] = None
            /\ phy_call'["app"] = phy_call["app"] /\ phy_call["app"].bus = "mmd"
        BY <1>1, <1>2, <1>9, <2>1
      <3>4. InCall("app")'
        BY <3>2, <3>3 DEF InCall
      <3> QED
        BY <3>1, <3>4 DEF Linking!Callers
    <2> QED
      BY <1>7, <1>8, <2>2, <2>3, <2>4, <2>5
  <1> QED
    BY <1>5, <1>10, <1>11

LEMMA PhyReadStep ==
  ASSUME PhyInv, NEW t \in Linking!Callers, Linking!Read(t)
  PROVE  PhyInv'
  <1> USE DEF PhyInv, PhyTypes
  <1> DEFINE c == phy_call[t]
             copy == [f \in Linking!Fields |->
                        IF f \in Linking!Reached(c) THEN fields[f] ELSE phy_data[t][f]]
             written == [phy_data EXCEPT ![t] = copy]
  <1>1. /\ phy_pc[t] = <<"read", 4>>
           /\ UNCHANGED <<fields, mode, selected, phy_call, phy_allowed>>
        /\ \/ /\ c.kind = "get" /\ phy_data' = written
              /\ \E f \in c.targets :
                    got' = [got EXCEPT ![t] = Linking!Reported(f, phy_data'[t][f])]
              /\ phy_pc' = [phy_pc EXCEPT ![t] = Linking!Idle]
           \/ /\ c.kind # "get" /\ phy_data' = written /\ UNCHANGED got
              /\ phy_pc' = [phy_pc EXCEPT ![t] = Linking!Begin("write", c)]
           \/ phy_pc' = [phy_pc EXCEPT ![t] = Linking!Idle] /\ UNCHANGED <<phy_data, got>>
    BY DEF Linking!Read, Linking!Return, Linking!device
  <1>2. LegalCall(c) /\ (t = "driver" => LinkCall(c))
    BY DEF OnlyLink
  <1>3. c.bus = "mmd" => t = "app" /\ selected = c.register
    BY <1>1, <1>2 DEF OnlyLink, LinkCall, Selection, Linking!Callers
  <1>4. Linking!Reached(c) = Linking!Layout[c.register]
    BY <1>2, <1>3 DEF Linking!Reached, LegalCall
  <1>5. \A f \in Linking!Fields \cap Linking!Layout[c.register] : copy[f] = fields[f]
    BY <1>4
  <1>6. /\ Linking!Idle[1] = "idle" /\ Linking!Idle[2] = 0 /\ phy_pc[t] # Linking!Idle
        /\ InCall(t)
    BY <1>1 DEF Linking!Idle
  <1>7. \A f \in Linking!Fields : fields'[f] \in phy_allowed'[f]
    BY <1>1
  <1> HIDE DEF copy, c
  <1>8. CASE /\ c.kind = "get" /\ phy_data' = written
             /\ \E f \in c.targets :
                   got' = [got EXCEPT ![t] = Linking!Reported(f, phy_data'[t][f])]
             /\ phy_pc' = [phy_pc EXCEPT ![t] = Linking!Idle]
    <2>1. PICK f \in c.targets :
            got' = [got EXCEPT ![t] = Linking!Reported(f, phy_data'[t][f])]
      BY <1>8
    <2>2. c.targets = {f} /\ f \in Linking!Layout[c.register] /\ f \in Linking!Fields
      BY <1>2, <1>8, <2>1 DEF LegalCall
    <2>3. got'[t] = Linking!Reported(f, fields[f]) /\ fields[f] \in phy_allowed[f]
      BY <1>5, <1>8, <2>1, <2>2
    <2>4. phy_pc'[t] = Linking!Idle /\ \A u \in Linking!Callers \ {t} :
            phy_pc'[u] = phy_pc[u] /\ got'[u] = got[u] /\ phy_data'[u] = phy_data[u]
      BY <1>8, <2>1
    <2>5. PhyTypes'
      BY <1>1, <1>8, <2>1
    <2>6. \A u \in Linking!Callers : InCall(u)'
      BY <1>1, <1>8, <2>4 DEF InCall
    <2>7. OnlyLink'
      <3>1. CASE t = "driver"
        <4>1. f = "link"
          BY <1>2, <2>2, <3>1 DEF LinkCall
        <4>2. got'["driver"] = 1
          BY <2>3, <3>1, <4>1 DEF OnlyLink, Linking!Reported
        <4> QED
          BY <1>1, <2>4, <3>1, <4>2 DEF OnlyLink
      <3>2. CASE t # "driver"
        BY <1>1, <2>4, <3>2 DEF OnlyLink, Linking!Callers
      <3> QED
        BY <3>1, <3>2
    <2>8. CASE t = "driver"
      <3>1. phy_pc'["app"] = phy_pc["app"] /\ got'["app"] = got["app"]
            /\ phy_data'["app"] = phy_data["app"]
        BY <2>4, <2>8 DEF Linking!Callers
      <3>2. Selection' /\ CopyUpToDate' /\ ReportAllowed'
        BY <1>1, <3>1 DEF Selection, CopyUpToDate, ReportAllowed, Linking!Reported
      <3> QED
        BY <1>7, <2>5, <2>6, <2>7, <3>2
    <2>9. CASE t = "app"
      <3>1. Selection' /\ CopyUpToDate'
        BY <1>6, <2>4, <2>9 DEF Selection, CopyUpToDate
      <3>2. phy_call'["app"].targets = {f}
        BY <1>1, <2>2, <2>9 DEF c
      <3>3. ReportAllowed'
        BY <1>1, <2>3, <2>9, <3>2 DEF ReportAllowed
      <3> QED
        BY <1>7, <2>5, <2>6, <2>7, <3>1, <3>3
    <2> QED
      BY <2>8, <2>9 DEF Linking!Callers
  <1>9. CASE /\ c.kind # "get" /\ phy_data' = written /\ UNCHANGED got
             /\ phy_pc' = [phy_pc EXCEPT ![t] = Linking!Begin("write", c)]
    <2> DEFINE n == IF c.bus = "smi" THEN 4 ELSE 1
    <2>1. t = "app"
      BY <1>2, <1>9 DEF LinkCall, Linking!Callers
    <2>2. n \in {1, 4} /\ (n = 1 <=> c.bus = "mmd")
      BY <1>2 DEF LegalCall
    <2>3. phy_pc' = [phy_pc EXCEPT ![t] = <<"write", n>>]
      BY <1>9 DEF Linking!Begin
    <2> HIDE DEF n
    <2>4. /\ phy_pc'["app"][1] = "write" /\ phy_pc'["app"][2] = n /\ phy_call'["app"] = c
          /\ phy_pc'["driver"] = phy_pc["driver"]
      BY <1>1, <2>1, <2>3 DEF Linking!Callers, c
    <2>5. PhyTypes'
      <3>1. phy_pc'[t] \in {"read", "write"} \X (1 .. 4)
        BY <2>2, <2>3
      <3>2. \A u \in Linking!Callers :
              phy_pc'[u] \in {Linking!Idle} \cup ({"read", "write"} \X (1 .. 4))
        BY <2>3, <3>1
      <3> QED
        BY <1>1, <1>9, <2>3, <3>2
    <2>6. \A u \in Linking!Callers : InCall(u)'
      <3>1. InCall("driver")'
        BY <1>1, <1>9, <2>4 DEF InCall, Linking!Callers
      <3>2. InCall("app")'
        BY <1>6, <1>9, <2>1, <2>2, <2>4 DEF InCall
      <3> QED
        BY <3>1, <3>2 DEF Linking!Callers
    <2>7. OnlyLink' /\ ReportAllowed'
      BY <1>1, <1>9, <2>4 DEF OnlyLink, ReportAllowed, Linking!Reported
    <2>8. Selection'
      BY <2>2, <2>4 DEF Selection
    <2>9. CopyUpToDate'
      <3>1. phy_data'["app"] = copy
        BY <1>9, <2>1
      <3>2. Linking!Layout[c.register] \subseteq Linking!Fields
        BY <1>2 DEF LegalCall
      <3>3. \A f \in Linking!Layout[c.register] : phy_data'["app"][f] = fields'[f]
        BY <1>1, <1>5, <3>1, <3>2
      <3> QED
        BY <2>4, <3>3 DEF CopyUpToDate
    <2> QED
      BY <1>7, <2>5, <2>6, <2>7, <2>8, <2>9
  <1>10. CASE phy_pc' = [phy_pc EXCEPT ![t] = Linking!Idle] /\ UNCHANGED <<phy_data, got>>
    <2>1. phy_pc'[t] = Linking!Idle /\ \A u \in Linking!Callers \ {t} : phy_pc'[u] = phy_pc[u]
      BY <1>10
    <2>2. PhyTypes'
      BY <1>1, <1>10
    <2>3. \A u \in Linking!Callers : InCall(u)'
      BY <1>1, <1>10, <2>1 DEF InCall
    <2>4. OnlyLink' /\ ReportAllowed'
      BY <1>1, <1>10, <2>1 DEF OnlyLink, ReportAllowed, Linking!Reported, Linking!Callers
    <2>5. Selection' /\ CopyUpToDate'
      BY <1>1, <1>6, <1>10, <2>1 DEF Selection, CopyUpToDate, Linking!Callers
    <2> QED
      BY <1>7, <2>2, <2>3, <2>4, <2>5
  <1> QED
    BY <1>1, <1>8, <1>9, <1>10

LEMMA PhyWriteStep ==
  ASSUME PhyInv, NEW t \in Linking!Callers, Linking!Write(t)
  PROVE  PhyInv'
  <1> USE DEF PhyInv, PhyTypes
  <1> DEFINE c == phy_call["app"]
             asked_of(f) == Linking!Wanted(c, f)
             new == Linking!Written("app")
  <1>1. /\ phy_pc[t] = <<"write", 4>> /\ UNCHANGED <<mode, selected, phy_call, phy_data, got>>
        /\ phy_pc' = [phy_pc EXCEPT ![t] = Linking!Idle]
    BY DEF Linking!Write, Linking!Return
  <1>2. t = "app" /\ phy_pc["app"] = <<"write", 4>>
    BY <1>1 DEF OnlyLink, Linking!Callers, Linking!Idle
  <1>3. \/ /\ fields' = new
           /\ phy_allowed' = [f \in Linking!Fields |->
                                 IF f \in c.targets THEN {asked_of(f)} ELSE phy_allowed[f]]
        \/ /\ fields' = new \/ UNCHANGED fields
           /\ phy_allowed' = [f \in Linking!Fields |-> phy_allowed[f] \cup
                                 (IF f \in c.targets THEN {asked_of(f)} ELSE {})]
    BY <1>2 DEF Linking!Write
  <1>4. LegalCall(c) /\ InCall("app") /\ c.kind # "get" /\ got["app"] = None
    BY <1>2 DEF InCall, Linking!Idle, Linking!Callers
  <1>5. Linking!Reached(c) = Linking!Layout[c.register]
    BY <1>2, <1>4 DEF Linking!Reached, LegalCall, Selection
  <1>6. \A f \in Linking!Fields :
          new[f] = CASE f \in c.targets -> asked_of(f)
                     [] f \notin c.targets /\ c.kind = "set" /\ f \in Linking!Layout[c.register] -> phy_data["app"][f]
                     [] OTHER -> fields[f]
    BY <1>5 DEF Linking!Written
  <1>7. \A f \in Linking!Fields : f \notin c.targets => new[f] = fields[f]
    BY <1>2, <1>6 DEF CopyUpToDate
  <1>8. \A f \in Linking!Fields : f \in c.targets => new[f] = asked_of(f)
    BY <1>6
  <1>9. "link" \in Linking!Fields /\ ("link" \in c.targets => asked_of("link") = 1)
    BY <1>4, LayoutFacts DEF LegalCall, Linking!Wanted, Linking!Defaults
  <1> HIDE DEF asked_of, new
  <1>10. \A f \in Linking!Fields : fields'[f] \in phy_allowed'[f]
    BY <1>3, <1>7, <1>8
  <1>11. fields'["link"] = 1 /\ phy_allowed'["link"] = {1}
    BY <1>3, <1>7, <1>8, <1>9 DEF OnlyLink
  <1>12. phy_pc'["app"] = Linking!Idle /\ phy_pc'["driver"] = phy_pc["driver"]
    BY <1>1, <1>2 DEF Linking!Callers
  <1>13. OnlyLink'
    BY <1>1, <1>11, <1>12 DEF OnlyLink
  <1>14. PhyTypes'
    BY <1>1
  <1>15. \A u \in Linking!Callers : InCall(u)'
    BY <1>1, <1>12 DEF InCall, Linking!Callers
  <1>16. Selection' /\ CopyUpToDate'
    BY <1>12 DEF Selection, CopyUpToDate, Linking!Idle
  <1>17. ReportAllowed'
    BY <1>1, <1>4 DEF ReportAllowed
  <1> QED
    BY <1>10, <1>13, <1>14, <1>15, <1>16, <1>17

LEMMA PhyStep ==
  ASSUME PhyInv, [Linking!Next]_phyVars
  PROVE  PhyInv'
  <1>1. CASE UNCHANGED phyVars
    BY <1>1 DEF phyVars, PhyInv, PhyTypes, InCall, OnlyLink, Selection, CopyUpToDate,
      ReportAllowed, Linking!Reported
  <1> QED
    BY <1>1, PhyCallStep, PhySelectStep, PhyReadStep, PhyWriteStep DEF Linking!Next

(* Whatever fails and whichever calls overlap: a field of the PHY has the  *)
(* value it was last given or one that a failed call may have given it     *)
(* since, a getter reports such a value, and an access through MMD reaches *)
(* the register it selected; the pins of an expander's port, of any number *)
(* of bits and for any number of threads, are as last set as long as no    *)
(* two calls for that port overlapped.                                     *)
THEOREM FieldsAreAsSet == DevicesSpec => []FieldsAsSet
  <1> DEFINE I == (part = "phy" => PhyInv) /\ (part = "pins" => PinsInv)
  <1>1. DevicesInit => I
    BY PhyInit, PinsInit
  <1>2. I /\ [DevicesNext]_allVars => I'
    <2> SUFFICES ASSUME I, [DevicesNext]_allVars PROVE I'
      OBVIOUS
    <2>1. part' = part
      BY DEF DevicesNext, allVars
    <2>2. part = "phy" => PhyInv'
      BY PhyNext, PhyStep
    <2>3. part = "pins" => PinsInv'
      BY PinsNext, PinsStep
    <2> QED
      BY <2>1, <2>2, <2>3
  <1>3. PhyInv => Linking!FieldsAsSet
    <2> SUFFICES ASSUME PhyInv PROVE Linking!FieldsAsSet
      OBVIOUS
    <2> USE DEF PhyInv
    <2>1. ASSUME NEW t \in Linking!Callers, got[t] # None, NEW f \in phy_call[t].targets
          PROVE  got[t] \in {Linking!Reported(f, v) : v \in phy_allowed[f]}
      <3>1. CASE t = "app"
        BY <2>1, <3>1 DEF ReportAllowed
      <3>2. CASE t = "driver"
        BY <2>1, <3>2 DEF OnlyLink, LinkCall, Linking!Reported
      <3> QED
        BY <3>1, <3>2 DEF Linking!Callers
    <2>2. ASSUME NEW t \in Linking!Callers, phy_pc[t][2] = 4, phy_call[t].bus = "mmd"
          PROVE  mode = "data" /\ selected = phy_call[t].register
      BY <2>2 DEF Selection, OnlyLink, LinkCall, Linking!Callers
    <2> QED
      BY <2>1, <2>2 DEF Linking!FieldsAsSet
  <1>4. I => FieldsAsSet
    BY <1>3, PinsSound DEF FieldsAsSet
  <1> QED
    BY <1>1, <1>2, <1>4, PTL DEF DevicesSpec

-------------------------------------------------------------------------------
(***************************************************************************)
(* The paged memory.                                                        *)
(***************************************************************************)
Bytes == Pages * PageSize

LEMMA PagesPositive ==
  /\ PageSize \in Nat /\ PageSize > 0 /\ Pages \in Nat /\ Pages > 0
  /\ Bytes \in Nat /\ Bytes > 0 /\ PagedLengths \subseteq 0 .. Bytes
  <1>1. PageSize \in Nat /\ PageSize > 0 /\ Pages \in Nat /\ Pages > 0
    BY DevicesAssumption DEF Paging!PagesAssumption
  <1>2. Bytes \in Nat /\ Bytes > 0
    BY <1>1 DEF Bytes
  <1> QED
    BY <1>1, <1>2, DevicesAssumption DEF Paging!PagesAssumption, Bytes

(* The device's next address: within the page by itself, over its end in   *)
(* the page that the driver selects.                                       *)
LEMMA NextAddress ==
  ASSUME NEW x \in 0 .. Bytes - 1, NEW y \in Nat,
         y = IF x + 1 = Bytes THEN 0 ELSE x + 1
  PROVE  /\ ((x % PageSize) + 1) % PageSize = y % PageSize
         /\ y % PageSize # 0 => y \div PageSize = x \div PageSize
  <1> DEFINE q == x \div PageSize
             r == x % PageSize
  <1>1. q \in Nat /\ r \in Nat /\ r < PageSize /\ x = q * PageSize + r /\ x \in Nat
    BY PagesPositive
  <1> HIDE DEF q, r
  <1>2. 0 % PageSize = 0
    <2>1. 0 * PageSize + 0 = 0
      BY PagesPositive
    <2> QED
      BY <2>1, DivMod, PagesPositive
  <1>3. CASE r + 1 < PageSize
    <2>1. /\ (q * PageSize + (r + 1)) \div PageSize = q
             /\ (q * PageSize + (r + 1)) % PageSize = r + 1
      BY <1>1, <1>3, DivMod, PagesPositive
    <2>2. x + 1 = q * PageSize + (r + 1)
      <3>1. q * PageSize \in Nat
        BY <1>1, PagesPositive
      <3> QED
        BY <1>1, <3>1
    <2>3. (r + 1) % PageSize = r + 1
      BY <1>1, <1>3, PagesPositive
    <2>4. x + 1 # Bytes
      <3>1. Pages * PageSize + 0 = Bytes
        BY PagesPositive DEF Bytes
      <3>2. Bytes % PageSize = 0
        BY <3>1, DivMod, PagesPositive
      <3> QED
        BY <1>1, <2>1, <2>2, <3>2
    <2> QED
      BY <2>1, <2>2, <2>3, <2>4 DEF q, r
  <1>4. CASE r + 1 = PageSize
    <2>1. x + 1 = (q + 1) * PageSize + 0
      <3>1. (q + 1) * PageSize = q * PageSize + PageSize /\ q * PageSize \in Nat
        BY <1>1, PagesPositive
      <3> QED
        BY <1>1, <1>4, <3>1
    <2>2. ((q + 1) * PageSize + 0) % PageSize = 0
      BY <1>1, DivMod, PagesPositive
    <2>3. y % PageSize = 0
      BY <1>2, <2>1, <2>2
    <2>4. PageSize = 1 * PageSize + 0
      BY PagesPositive
    <2>5. (1 * PageSize + 0) % PageSize = 0
      BY DivMod, PagesPositive
    <2>6. (r + 1) % PageSize = 0
      BY <1>4, <2>4, <2>5
    <2> QED
      BY <2>3, <2>6 DEF r
  <1> QED
    BY <1>1, <1>3, <1>4, PagesPositive

(* The addresses of a call's bytes, one after the other around the memory. *)
LEMMA PointedTo ==
  ASSUME paged_call.address \in 0 .. Bytes - 1, NEW k \in Nat, k <= Bytes
  PROVE  LET x == paged_call.address + k
         IN  Paging!Pointed(k) = IF x < Bytes THEN x ELSE x - Bytes
  <1> DEFINE x == paged_call.address + k
  <1>1. x \in Nat /\ x < 2 * Bytes
    BY PagesPositive
  <1>2. Paging!Pointed(k) = x % Bytes
    BY DEF Paging!Pointed, Bytes
  <1>3. CASE x < Bytes
    BY <1>1, <1>2, <1>3, PagesPositive
  <1>4. CASE x >= Bytes
    <2>1. x = 1 * Bytes + (x - Bytes) /\ x - Bytes \in Nat /\ x - Bytes < Bytes
      BY <1>1, <1>4, PagesPositive
    <2>2. (1 * Bytes + (x - Bytes)) % Bytes = x - Bytes
      BY <2>1, DivMod, PagesPositive
    <2> QED
      BY <1>2, <1>4, <2>1, <2>2, PagesPositive
  <1> QED
    BY <1>1, <1>3, <1>4, PagesPositive

FirstSteps == {"bank", "mode", "page", "address"}
PagedSteps == FirstSteps \cup {"value", "next", "unpage", "off", "user"}

PagedTypes ==
  /\ paged_call.f \in Paging!FunctionsOf /\ paged_call.address \in Paging!Addresses
  /\ paged_call.len \in 0 .. Bytes /\ (paged_call.f.single => paged_call.len = 1)
  /\ paged_pc \in {"idle"} \cup PagedSteps /\ paged_i \in 0 .. paged_call.len
  /\ paged_ret \in BOOLEAN /\ paged_failed \in BOOLEAN /\ paged_calls \in Nat
  /\ paged_memory \in [Paging!Addresses -> Nat \X Nat]

(* While it transfers, a call has the device point at its next byte.       *)
Pointing ==
  /\ paged_pc \in FirstSteps => paged_i = 0
  /\ paged_pc \in FirstSteps \cup {"value", "next"} => ~paged_failed
  /\ paged_pc \in {"mode", "page", "address", "value", "next"} => paged_bank = "embedded"
  /\ paged_pc \in {"page", "address", "value", "next"} => page_rw = paged_call.f.direction
  /\ paged_pc \in {"address", "value"} => page_sel = Paging!PageOf(Paging!Pointed(paged_i))
  /\ paged_pc \in {"value", "next"} => page_address = Paging!Pointed(paged_i) % PageSize
  /\ paged_pc = "value" => paged_i < paged_call.len

(* What a call has undone, and read, when it is about to return 0.         *)
Ending ==
  /\ paged_pc \in {"user", "idle"} /\ paged_ret => page_rw = "off"
  /\ paged_pc = "idle" /\ paged_ret => paged_bank = "user"
  /\ ~Paging!Writing /\ paged_pc \in {"unpage", "off"} => paged_i = paged_call.len
  /\ ~Paging!Writing /\ paged_pc \in {"user", "idle"} /\ paged_ret /\ paged_calls > 0 =>
       paged_i = paged_call.len

(* What the bytes transferred so far have done to the memory, or stored.   *)
Contents ==
  /\ Paging!Writing =>
       \A n \in 0 .. paged_i - 1 : paged_memory[Paging!Pointed(n)] = Paging!Byte(n)
  /\ \A a \in Paging!Addresses : paged_memory[a] # paged_first[a] =>
       /\ Paging!Writing
       /\ \/ \E n \in 0 .. paged_i - 1 : a = Paging!Pointed(n)
          \/ /\ paged_failed /\ paged_i < paged_call.len /\ a = Paging!Pointed(paged_i)
             /\ paged_memory[a] = Paging!Byte(paged_i)
  /\ ~Paging!Writing =>
       /\ paged_bytes \in Seq(Nat \X Nat) /\ Len(paged_bytes) = paged_i
       /\ \A n \in 1 .. paged_i : paged_bytes[n] = paged_memory[Paging!Pointed(n - 1)]

PagedInv == PagedTypes /\ Pointing /\ Ending /\ Contents

LEMMA FunctionsFacts ==
  \A f \in Paging!FunctionsOf :
    /\ f.direction \in {"write", "read"}
    /\ ~f.cleansUp /\ ~f.single => f.direction = "write"
  <1>1. /\ Paging!lsm6dso_ln_pg_write_byte.direction = "write"
        /\ Paging!lsm6dso_ln_pg_write.direction = "write"
        /\ Paging!lsm6dsv_ln_pg_write.direction = "write"
    BY DEF Paging!Function, Paging!lsm6dso_ln_pg_write_byte, Paging!lsm6dso_ln_pg_write,
      Paging!lsm6dsv_ln_pg_write
  <1>2. /\ Paging!lsm6dso_ln_pg_read_byte.direction = "read"
        /\ Paging!lsm6dso_ln_pg_read_byte.single
    BY DEF Paging!Function, Paging!lsm6dso_ln_pg_read_byte
  <1>3. /\ Paging!lsm6dsv_ln_pg_read.direction = "read"
        /\ Paging!lsm6dsv_ln_pg_read.cleansUp
    BY DEF Paging!Function, Paging!lsm6dsv_ln_pg_read
  <1> QED
    BY <1>1, <1>2, <1>3 DEF Paging!FunctionsOf

LEMMA PagedInit == DevicesInit => PagedInv
  <1> SUFFICES ASSUME Paging!Init PROVE PagedInv
    BY DEF DevicesInit
  <1>1. paged_call.f = Paging!lsm6dso_ln_pg_write /\ paged_call.address = 0 /\ paged_call.len = 0
    BY DEF Paging!Init
  <1>2. /\ paged_call.f \in Paging!FunctionsOf /\ ~paged_call.f.single
        /\ paged_call.f.direction = "write"
    BY <1>1 DEF Paging!FunctionsOf, Paging!lsm6dso_ln_pg_write, Paging!Function
  <1>3. /\ paged_pc = "idle" /\ paged_ret = TRUE /\ paged_i = 0 /\ paged_bank = "user"
        /\ page_rw = "off" /\ paged_calls = 0 /\ paged_failed = FALSE
           /\ paged_first = paged_memory
        /\ paged_memory = [a \in Paging!Addresses |-> <<0, 0>>]
    BY DEF Paging!Init
  <1>4. 0 \in Paging!Addresses
    BY PagesPositive DEF Paging!Addresses, Bytes
  <1>5. PagedTypes
    <2>1. paged_memory \in [Paging!Addresses -> Nat \X Nat]
      BY <1>3
    <2>2. paged_call.len \in 0 .. Bytes /\ paged_i \in 0 .. paged_call.len
      BY <1>1, <1>3, PagesPositive
    <2> QED
      BY <1>1, <1>2, <1>3, <1>4, <2>1, <2>2 DEF PagedTypes
  <1>6. Pointing
    BY <1>3 DEF Pointing, FirstSteps
  <1> QED
    BY <1>2, <1>3, <1>5, <1>6 DEF PagedInv, Ending, Contents, Paging!Writing

LEMMA PagedNext ==
  ASSUME part = "pages", [DevicesNext]_allVars
  PROVE  part' = part /\ [Paging!Next]_pagesVars
  BY DEF DevicesNext, allVars

LEMMA PagedCallStep ==
  ASSUME PagedInv, NEW f \in Paging!FunctionsOf, NEW a \in Paging!Addresses,
         NEW n \in PagedLengths, Paging!Call(f, a, n)
  PROVE  PagedInv'
  <1> USE DEF PagedInv, PagedTypes
  <1>1. /\ f.single => n = 1
        /\ paged_call' = [f |-> f, address |-> a, len |-> n]
        /\ paged_pc' = "bank" /\ paged_ret' = TRUE /\ paged_i' = 0 /\ paged_bytes' = <<>>
        /\ paged_calls' = paged_calls + 1 /\ paged_failed' = FALSE /\ paged_first' = paged_memory
        /\ UNCHANGED <<paged_bank, page_rw, page_sel, page_address, paged_memory>>
    BY DEF Paging!Call, Paging!device
  <1>2. paged_call'.f = f /\ paged_call'.address = a /\ paged_call'.len = n /\ n \in 0 .. Bytes
    BY <1>1, PagesPositive
  <1>3. PagedTypes'
    <2>1. 0 \in 0 .. n
      BY <1>2, PagesPositive
    <2>2. paged_pc' \in {"idle"} \cup PagedSteps
      BY <1>1 DEF PagedSteps, FirstSteps
    <2>3. paged_ret' \in BOOLEAN /\ paged_failed' \in BOOLEAN
      BY <1>1
    <2>4. paged_calls' \in Nat /\ paged_memory' \in [Paging!Addresses -> Nat \X Nat]
      BY <1>1
    <2>5. /\ paged_call'.f \in Paging!FunctionsOf /\ paged_call'.address \in Paging!Addresses
          /\ paged_call'.len \in 0 .. Bytes /\ (paged_call'.f.single => paged_call'.len = 1)
      BY <1>1, <1>2
    <2>6. paged_i' \in 0 .. paged_call'.len
      BY <1>1, <1>2, <2>1
    <2> QED
      BY <2>2, <2>3, <2>4, <2>5, <2>6
  <1>4. Pointing' /\ Ending'
    BY <1>1 DEF Pointing, Ending, FirstSteps
  <1>5. paged_bytes' \in Seq(Nat \X Nat) /\ Len(paged_bytes') = 0
    BY <1>1
  <1>6. Contents'
    BY <1>1, <1>5 DEF Contents
  <1> QED
    BY <1>3, <1>4, <1>6

(* A transfer that fails leaves nothing to point at, and is not forgotten  *)
(* by a call that reads.                                                   *)
LEMMA PagedFailure ==
  ASSUME PagedInv, PagedTypes', Contents', UNCHANGED paged_call,
         paged_pc' = Paging!AfterFailure, paged_ret' = FALSE
  PROVE  PagedInv'
  <1>1. paged_pc' \in {"idle", "user", "unpage"}
    BY DEF Paging!AfterFailure
  <1>2. paged_pc' = "unpage" => ~paged_call.f.cleansUp /\ ~paged_call.f.single
    BY DEF Paging!AfterFailure
  <1>3. paged_pc' = "unpage" => Paging!Writing'
    BY <1>2, FunctionsFacts DEF Paging!Writing, PagedInv, PagedTypes
  <1>4. Pointing'
    BY <1>1 DEF Pointing, FirstSteps
  <1>5. Ending'
    BY <1>1, <1>3 DEF Ending
  <1> QED
    BY <1>4, <1>5 DEF PagedInv

(* The transfers of registers, which leave the memory alone.               *)
LEMMA RegisterTransfer ==
  ASSUME PagedInv, UNCHANGED <<paged_call, paged_calls, paged_first, paged_memory, paged_i, paged_bytes>>,
         paged_failed' \in BOOLEAN, paged_failed => paged_failed'
  PROVE  Contents'
  BY DEF PagedInv, Contents, Paging!Writing, Paging!Pointed, Paging!Byte

LEMMA LoopedFacts ==
  ASSUME PagedInv, NEW n \in 0 .. paged_call.len
  PROVE  \/ Paging!Looped(n) = "value" /\ n < paged_call.len
         \/ Paging!Looped(n) \in {"off", "unpage"} /\ n = paged_call.len
  BY DEF PagedInv, PagedTypes, Paging!Looped

LEMMA PagedRegisterStep ==
  ASSUME PagedInv,
         \/ Paging!SelectBank \/ Paging!EnablePageAccess \/ Paging!SelectPage \/ Paging!SetAddress
         \/ Paging!NextPage \/ Paging!UnselectPage \/ Paging!DisablePageAccess
  PROVE  PagedInv'
  <1> DEFINE Kept == UNCHANGED <<paged_call, paged_calls, paged_first, paged_memory, paged_i, paged_bytes>>
             Done(next) == paged_pc' = next /\ paged_ret' = TRUE /\ paged_failed' = paged_failed
             Failed == paged_pc' = Paging!AfterFailure /\ paged_ret' = FALSE /\ paged_failed' = TRUE
  <1>1. CASE Failed /\ Kept
    <2>1. Contents'
      BY <1>1, RegisterTransfer
    <2>2. PagedTypes'
      BY <1>1 DEF PagedInv, PagedTypes, PagedSteps, Paging!AfterFailure
    <2> QED
      BY <1>1, <2>1, <2>2, PagedFailure
  <1>2. ASSUME NEW next \in PagedSteps, Done(next), Kept, Pointing', Ending'
        PROVE  PagedInv'
    <2>1. paged_failed' \in BOOLEAN /\ (paged_failed => paged_failed')
      BY <1>2 DEF PagedInv, PagedTypes
    <2>2. Contents'
      BY <1>2, <2>1, RegisterTransfer
    <2>3. PagedTypes'
      BY <1>2, <2>1 DEF PagedInv, PagedTypes
    <2> QED
      BY <1>2, <2>2, <2>3 DEF PagedInv
  <1>3. CASE Paging!SelectBank
    <2>1. /\ paged_pc = "bank" /\ Kept
          /\ \/ Failed
             \/ Done("mode") /\ paged_bank' = "embedded"
                /\ UNCHANGED <<page_rw, page_sel, page_address>>
      BY <1>3 DEF Paging!SelectBank, Paging!Transfer, Paging!device, Paging!history
    <2>2. CASE Done("mode") /\ paged_bank' = "embedded"
               /\ UNCHANGED <<page_rw, page_sel, page_address>>
      <3>1. Pointing' /\ Ending'
        BY <2>1, <2>2 DEF PagedInv, Pointing, Ending, FirstSteps, PagedSteps, Paging!Pointed,
           Paging!Writing
      <3> QED
        BY <1>2, <2>1, <2>2, <3>1 DEF PagedSteps, FirstSteps
    <2> QED
      BY <1>1, <2>1, <2>2
  <1>4. CASE Paging!EnablePageAccess
    <2>1. /\ paged_pc = "mode" /\ Kept
          /\ \/ Failed
             \/ Done("page") /\ page_rw' = paged_call.f.direction
                /\ UNCHANGED <<paged_bank, page_sel, page_address>>
      BY <1>4 DEF Paging!EnablePageAccess, Paging!Transfer, Paging!device, Paging!history
    <2>2. CASE Done("page") /\ page_rw' = paged_call.f.direction
               /\ UNCHANGED <<paged_bank, page_sel, page_address>>
      <3>1. Pointing' /\ Ending'
        BY <2>1, <2>2 DEF PagedInv, Pointing, Ending, FirstSteps, PagedSteps, Paging!Pointed,
           Paging!Writing
      <3> QED
        BY <1>2, <2>1, <2>2, <3>1 DEF PagedSteps, FirstSteps
    <2> QED
      BY <1>1, <2>1, <2>2
  <1>5. CASE Paging!SelectPage
    <2>1. /\ paged_pc = "page" /\ Kept
          /\ \/ Failed
             \/ Done("address") /\ page_sel' = Paging!PageOf(Paging!Pointed(0))
                /\ UNCHANGED <<paged_bank, page_rw, page_address>>
      BY <1>5 DEF Paging!SelectPage, Paging!Transfer, Paging!device, Paging!history
    <2>2. CASE Done("address") /\ page_sel' = Paging!PageOf(Paging!Pointed(0))
               /\ UNCHANGED <<paged_bank, page_rw, page_address>>
      <3>1. Pointing' /\ Ending'
        BY <2>1, <2>2 DEF PagedInv, Pointing, Ending, FirstSteps, PagedSteps, Paging!Pointed,
           Paging!Writing
      <3> QED
        BY <1>2, <2>1, <2>2, <3>1 DEF PagedSteps, FirstSteps
    <2> QED
      BY <1>1, <2>1, <2>2
  <1>6. CASE Paging!SetAddress
    <2>1. /\ paged_pc = "address" /\ Kept
          /\ \/ Failed
             \/ Done(Paging!Looped(0)) /\ page_address' = Paging!Pointed(0) % PageSize
                /\ UNCHANGED <<paged_bank, page_rw, page_sel>>
      BY <1>6 DEF Paging!SetAddress, Paging!Transfer, Paging!device, Paging!history
    <2>2. \/ Paging!Looped(0) = "value" /\ 0 < paged_call.len
          \/ Paging!Looped(0) \in {"off", "unpage"} /\ 0 = paged_call.len
      <3>1. 0 \in 0 .. paged_call.len
        BY PagesPositive DEF PagedInv, PagedTypes
      <3> QED
        BY <3>1, LoopedFacts
    <2>3. CASE Done(Paging!Looped(0)) /\ page_address' = Paging!Pointed(0) % PageSize
               /\ UNCHANGED <<paged_bank, page_rw, page_sel>>
      <3>1. Pointing' /\ Ending'
        BY <2>1, <2>2, <2>3 DEF PagedInv, Pointing, Ending, FirstSteps, PagedSteps,
           Paging!Pointed, Paging!Writing
      <3> QED
        BY <1>2, <2>1, <2>2, <2>3, <3>1 DEF PagedSteps
    <2> QED
      BY <1>1, <2>1, <2>3
  <1>7. CASE Paging!NextPage
    <2>1. /\ paged_pc = "next" /\ Kept
          /\ \/ Failed
             \/ Done(Paging!Looped(paged_i))
                /\ page_sel' = Paging!PageOf(Paging!Pointed(paged_i))
                   /\ UNCHANGED <<paged_bank, page_rw, page_address>>
      BY <1>7 DEF Paging!NextPage, Paging!Transfer, Paging!device, Paging!history
    <2>2. \/ Paging!Looped(paged_i) = "value" /\ paged_i < paged_call.len
          \/ Paging!Looped(paged_i) \in {"off", "unpage"} /\ paged_i = paged_call.len
      <3>1. paged_i \in 0 .. paged_call.len
        BY PagesPositive DEF PagedInv, PagedTypes
      <3> QED
        BY <3>1, LoopedFacts
    <2>3. CASE Done(Paging!Looped(paged_i)) /\ page_sel' = Paging!PageOf(Paging!Pointed(paged_i))
               /\ UNCHANGED <<paged_bank, page_rw, page_address>>
      <3>1. Pointing' /\ Ending'
        BY <2>1, <2>2, <2>3 DEF PagedInv, Pointing, Ending, FirstSteps, PagedSteps,
           Paging!Pointed, Paging!Writing
      <3> QED
        BY <1>2, <2>1, <2>2, <2>3, <3>1 DEF PagedSteps
    <2> QED
      BY <1>1, <2>1, <2>3
  <1>8. CASE Paging!UnselectPage
    <2>1. /\ paged_pc = "unpage" /\ Kept
          /\ \/ Failed
             \/ Done("off") /\ UNCHANGED <<paged_bank, page_rw, page_address>>
      BY <1>8 DEF Paging!UnselectPage, Paging!Transfer, Paging!device, Paging!history
    <2>2. CASE Done("off") /\ UNCHANGED <<paged_bank, page_rw, page_address>>
      <3>1. Pointing' /\ Ending'
        BY <2>1, <2>2 DEF PagedInv, Pointing, Ending, FirstSteps, PagedSteps, Paging!Pointed,
           Paging!Writing
      <3> QED
        BY <1>2, <2>1, <2>2, <3>1 DEF PagedSteps, FirstSteps
    <2> QED
      BY <1>1, <2>1, <2>2
  <1>9. CASE Paging!DisablePageAccess
    <2>1. /\ paged_pc = "off" /\ Kept
          /\ \/ Failed
             \/ Done("user") /\ page_rw' = "off"
                /\ UNCHANGED <<paged_bank, page_sel, page_address>>
      BY <1>9 DEF Paging!DisablePageAccess, Paging!Transfer, Paging!device, Paging!history
    <2>2. CASE Done("user") /\ page_rw' = "off"
               /\ UNCHANGED <<paged_bank, page_sel, page_address>>
      <3>1. Pointing' /\ Ending'
        BY <2>1, <2>2 DEF PagedInv, Pointing, Ending, FirstSteps, PagedSteps, Paging!Pointed,
           Paging!Writing
      <3> QED
        BY <1>2, <2>1, <2>2, <3>1 DEF PagedSteps, FirstSteps
    <2> QED
      BY <1>1, <2>1, <2>2
  <1> QED
    BY <1>3, <1>4, <1>5, <1>6, <1>7, <1>8, <1>9

LEMMA PointedNext ==
  ASSUME paged_call.address \in 0 .. Bytes - 1, NEW k \in Nat, k + 1 <= Bytes
  PROVE  /\ Paging!Pointed(k) \in 0 .. Bytes - 1 /\ Paging!Pointed(k + 1) \in Nat
         /\ Paging!Pointed(k + 1)
              = IF Paging!Pointed(k) + 1 = Bytes THEN 0 ELSE Paging!Pointed(k) + 1
  <1>1. paged_call.address \in Nat /\ paged_call.address < Bytes /\ Bytes \in Nat
    BY PagesPositive
  <1>2. Paging!Pointed(k) = IF paged_call.address + k < Bytes THEN paged_call.address + k
                                                             ELSE paged_call.address + k - Bytes
    BY <1>1, PointedTo
  <1>3. Paging!Pointed(k + 1)
          = IF paged_call.address + k + 1 < Bytes THEN paged_call.address + k + 1
                                                                     ELSE paged_call.address + k + 1 - Bytes
    BY <1>1, PointedTo
  <1> QED
    BY <1>1, <1>2, <1>3

(* A buffer no longer than the memory: no two of its bytes have one address. *)
LEMMA PointedOnce ==
  ASSUME paged_call.address \in 0 .. Bytes - 1, NEW m \in Nat, NEW n \in Nat, m < Bytes, n < Bytes,
         Paging!Pointed(m) = Paging!Pointed(n)
  PROVE  m = n
  <1>1. paged_call.address \in Nat /\ paged_call.address < Bytes /\ Bytes \in Nat
    BY PagesPositive
  <1>2. \A k \in {m, n} : Paging!Pointed(k) = IF paged_call.address + k < Bytes
          THEN paged_call.address + k ELSE paged_call.address + k - Bytes
    BY <1>1, PointedTo
  <1> QED
    BY <1>1, <1>2

LEMMA PagedByteStep ==
  ASSUME PagedInv, Paging!TransferByte
  PROVE  PagedInv'
  <1> DEFINE x == Paging!Pointed(paged_i)
             y == Paging!Pointed(paged_i + 1)
             Written == paged_memory' = IF Paging!Writing THEN [paged_memory EXCEPT ![x] = Paging!Byte(paged_i)]
                                                          ELSE paged_memory
  <1>1. /\ paged_pc = "value" /\ paged_bank = "embedded" /\ page_rw = paged_call.f.direction
        /\ page_sel = Paging!PageOf(x) /\ page_address = x % PageSize /\ ~paged_failed
    BY DEF Paging!TransferByte, Paging!Transfer, PagedInv, Pointing, FirstSteps
  <1>2. /\ paged_i \in Nat /\ paged_i < paged_call.len /\ paged_call.len <= Bytes
        /\ paged_call.len \in Nat /\ Bytes \in Nat
    BY <1>1, PagesPositive DEF PagedInv, Pointing, PagedTypes
  <1>3. paged_call.address \in 0 .. Bytes - 1 /\ Paging!Addresses = 0 .. Bytes - 1
    BY DEF PagedInv, PagedTypes, Paging!Addresses, Bytes
  <1>4. x \in 0 .. Bytes - 1 /\ y \in Nat /\ y = IF x + 1 = Bytes THEN 0 ELSE x + 1
    <2>1. paged_i + 1 <= Bytes
      BY <1>2
    <2> QED
      BY <1>2, <1>3, <2>1, PointedNext
  <1>5. Paging!DeviceAt = x
    <2>1. (x \div PageSize) * PageSize + (x % PageSize) = x
      <3> HIDE DEF x
      <3> QED
        BY <1>2, <1>4, PagesPositive
    <2> QED
      BY <1>1, <2>1 DEF Paging!DeviceAt, Paging!PageOf
  <1>6. /\ (page_address + 1) % PageSize = y % PageSize
        /\ y % PageSize # 0 => page_sel = Paging!PageOf(y)
    BY <1>1, <1>4, NextAddress DEF Paging!PageOf
  <1>7. paged_call.f.direction \in {"write", "read"}
    BY FunctionsFacts DEF PagedInv, PagedTypes
  <1>8. /\ UNCHANGED <<paged_call, paged_calls, paged_first>>
        /\ \/ /\ page_address' = (page_address + 1) % PageSize /\ Written
              /\ UNCHANGED <<paged_bank, page_rw, page_sel, paged_failed>>
              /\ paged_pc' = IF Paging!Crosses THEN "next" ELSE Paging!Looped(paged_i + 1)
              /\ paged_ret' = TRUE
           \/ /\ Written \/ paged_memory' = paged_memory
              /\ paged_pc' = Paging!AfterFailure /\ paged_ret' = FALSE /\ paged_failed' = TRUE
    BY <1>1, <1>5, <1>7 DEF Paging!TransferByte, Paging!Transfer, Paging!device, Paging!history,
       Paging!Writing
  <1>9. /\ paged_i' = IF paged_ret' THEN paged_i + 1 ELSE paged_i
        /\ paged_bytes' = IF paged_ret' /\ ~Paging!Writing THEN Append(paged_bytes, paged_memory[x])
                                                           ELSE paged_bytes
    BY <1>5, <1>7 DEF Paging!TransferByte, Paging!Writing
  <1>10. /\ \A n : Paging!Pointed(n)' = Paging!Pointed(n) /\ Paging!Byte(n)' = Paging!Byte(n)
         /\ Paging!Writing' = Paging!Writing
    BY <1>8 DEF Paging!Pointed, Paging!Byte, Paging!Writing
  <1>11. \A n \in 0 .. paged_i - 1 : Paging!Pointed(n) # x
    BY <1>2, <1>3, PointedOnce
  <1>12. paged_memory' \in [Paging!Addresses -> Nat \X Nat]
    <2>1. Paging!Byte(paged_i) \in Nat \X Nat
      BY <1>2 DEF Paging!Byte, PagedInv, PagedTypes
    <2> HIDE DEF x
    <2> QED
      BY <1>8, <2>1 DEF PagedInv, PagedTypes
  <1>13. /\ x \in Paging!Addresses /\ DOMAIN paged_memory = Paging!Addresses
         /\ paged_memory[x] \in Nat \X Nat
    BY <1>3, <1>4 DEF PagedInv, PagedTypes
  <1> HIDE DEF x, y
  \* What a transfer that took effect leaves in the memory.
  <1>14. ASSUME Written
         PROVE  /\ \A a \in Paging!Addresses : a # x => paged_memory'[a] = paged_memory[a]
                /\ Paging!Writing => paged_memory'[x] = Paging!Byte(paged_i)
                /\ ~Paging!Writing => paged_memory' = paged_memory
    <2>1. CASE ~Paging!Writing
      BY <1>14, <2>1
    <2>2. CASE Paging!Writing
      <3>1. paged_memory' = [paged_memory EXCEPT ![x] = Paging!Byte(paged_i)]
        BY <1>14, <2>2
      <3> QED
        BY <1>13, <2>2, <3>1
    <2> QED
      BY <2>1, <2>2
  <1>15. \A n \in 0 .. paged_i - 1 : Paging!Pointed(n) \in Paging!Addresses
    <2>1. ASSUME NEW n \in 0 .. paged_i - 1
          PROVE  Paging!Pointed(n) \in Paging!Addresses
      <3>1. n \in Nat /\ n + 1 <= Bytes
        BY <1>2
      <3> QED
        BY <1>3, <3>1, PointedNext
    <2> QED
      BY <2>1
  <1>16. \A a \in Paging!Addresses : paged_memory[a] # paged_first[a] =>
           Paging!Writing /\ \E n \in 0 .. paged_i - 1 : a = Paging!Pointed(n)
    BY <1>1 DEF PagedInv, Contents
  <1>17. Paging!Writing =>
           \A n \in 0 .. paged_i - 1 : paged_memory[Paging!Pointed(n)] = Paging!Byte(n)
    BY DEF PagedInv, Contents
  <1>18. ~Paging!Writing =>
           /\ paged_bytes \in Seq(Nat \X Nat) /\ Len(paged_bytes) = paged_i
           /\ \A n \in 1 .. paged_i : paged_bytes[n] = paged_memory[Paging!Pointed(n - 1)]
    BY DEF PagedInv, Contents
  <1>19. CASE paged_ret' = TRUE
    <2>1. /\ page_address' = y % PageSize /\ Written
          /\ UNCHANGED <<paged_bank, page_rw, page_sel, paged_failed>>
          /\ paged_pc' = IF Paging!Crosses THEN "next" ELSE Paging!Looped(paged_i + 1)
          /\ paged_i' = paged_i + 1
      BY <1>6, <1>8, <1>9, <1>19
    <2>2. paged_pc' \in {"next", "value", "off", "unpage"}
      BY <2>1 DEF Paging!Looped
    <2>3. paged_pc' = "value" => paged_i + 1 < paged_call.len /\ ~Paging!Crosses
      BY <2>1 DEF Paging!Looped
    <2>4. paged_pc' \in {"off", "unpage"} => paged_i + 1 = paged_call.len
      BY <1>2, <2>1 DEF Paging!Looped
    <2>5. paged_pc' = "value" => page_sel' = Paging!PageOf(y)
      <3>1. paged_pc' = "value" => ~paged_call.f.single
        BY <1>2, <2>3 DEF PagedInv, PagedTypes
      <3> QED
        BY <1>6, <2>1, <2>3, <3>1 DEF Paging!Crosses, y
    <2>6. paged_i' \in 0 .. paged_call.len
      BY <1>2, <2>1
    <2>7. PagedTypes'
      BY <1>8, <1>12, <1>19, <2>1, <2>2, <2>6 DEF PagedInv, PagedTypes, PagedSteps, FirstSteps
    <2>8. Pointing'
      <3>1. Paging!Pointed(paged_i)' = y
        BY <1>10, <2>1 DEF y, Paging!Pointed
      <3>2. page_rw' = paged_call'.f.direction /\ paged_bank' = "embedded" /\ ~paged_failed'
        BY <1>1, <1>8, <2>1
      <3>3. paged_pc' = "value" => paged_i' < paged_call'.len
        BY <1>8, <2>1, <2>3
      <3>4. Paging!PageOf(Paging!Pointed(paged_i))' = Paging!PageOf(y)
        BY <3>1 DEF Paging!PageOf
      <3> QED
        BY <2>1, <2>2, <2>5, <3>1, <3>2, <3>3, <3>4 DEF Pointing, FirstSteps
    <2>9. Ending'
      BY <1>8, <2>1, <2>2, <2>4 DEF Ending
    <2>10. Paging!Writing =>
             \A n \in 0 .. paged_i : paged_memory'[Paging!Pointed(n)] = Paging!Byte(n)
      <3>1. ASSUME Paging!Writing, NEW n \in 0 .. paged_i
            PROVE  paged_memory'[Paging!Pointed(n)] = Paging!Byte(n)
        <4>1. CASE n = paged_i
          BY <1>14, <2>1, <3>1, <4>1 DEF x
        <4>2. CASE n # paged_i
          <5>1. n \in 0 .. paged_i - 1
            BY <1>2, <3>1, <4>2
          <5> QED
            BY <1>11, <1>14, <1>15, <1>17, <2>1, <3>1, <5>1
        <4> QED
          BY <4>1, <4>2
      <3> QED
        BY <3>1
    <2>11. \A a \in Paging!Addresses : paged_memory'[a] # paged_first[a] =>
             Paging!Writing /\ \E n \in 0 .. paged_i : a = Paging!Pointed(n)
      <3>1. ASSUME NEW a \in Paging!Addresses, paged_memory'[a] # paged_first[a]
            PROVE  Paging!Writing /\ \E n \in 0 .. paged_i : a = Paging!Pointed(n)
        <4>1. CASE paged_memory[a] # paged_first[a]
          <5>1. PICK n \in 0 .. paged_i - 1 : a = Paging!Pointed(n)
            BY <1>16, <4>1
          <5>2. n \in 0 .. paged_i
            BY <1>2
          <5> QED
            BY <1>16, <4>1, <5>1, <5>2
        <4>2. CASE paged_memory[a] = paged_first[a]
          <5>1. a = x /\ Paging!Writing
            BY <1>14, <2>1, <3>1, <4>2
          <5>2. paged_i \in 0 .. paged_i
            BY <1>2
          <5> QED
            BY <5>1, <5>2 DEF x
        <4> QED
          BY <4>1, <4>2
      <3> QED
        BY <3>1
    <2>12. ~Paging!Writing =>
             /\ paged_bytes' \in Seq(Nat \X Nat) /\ Len(paged_bytes') = paged_i + 1
             /\ \A n \in 1 .. paged_i + 1 : paged_bytes'[n] = paged_memory'[Paging!Pointed(n - 1)]
      <3> SUFFICES ASSUME ~Paging!Writing
                   PROVE  /\ paged_bytes' \in Seq(Nat \X Nat) /\ Len(paged_bytes') = paged_i + 1
                          /\ \A n \in 1 .. paged_i + 1 : paged_bytes'[n]
                               = paged_memory'[Paging!Pointed(n - 1)]
        OBVIOUS
      <3>1. paged_bytes' = Append(paged_bytes, paged_memory[x]) /\ paged_memory' = paged_memory
        BY <1>9, <1>14, <1>19, <2>1
      <3>2. /\ paged_bytes' \in Seq(Nat \X Nat) /\ Len(paged_bytes') = paged_i + 1
            /\ paged_bytes'[paged_i + 1] = paged_memory[x]
            /\ \A n \in 1 .. paged_i : paged_bytes'[n] = paged_bytes[n]
        BY <1>2, <1>13, <1>18, <3>1
      <3>3. ASSUME NEW n \in 1 .. paged_i + 1
            PROVE  paged_bytes'[n] = paged_memory'[Paging!Pointed(n - 1)]
        <4>1. CASE n = paged_i + 1
          <5>1. n - 1 = paged_i
            BY <1>2, <4>1
          <5> QED
            BY <3>1, <3>2, <4>1, <5>1 DEF x
        <4>2. CASE n # paged_i + 1
          <5>1. n \in 1 .. paged_i
            BY <1>2, <4>2
          <5> QED
            BY <1>18, <3>1, <3>2, <5>1
        <4> QED
          BY <4>1, <4>2
      <3> QED
        BY <3>2, <3>3
    <2>13. Contents'
      <3>1. paged_i' - 1 = paged_i
        BY <1>2, <2>1
      <3> QED
        BY <1>8, <1>10, <2>1, <2>10, <2>11, <2>12, <3>1 DEF Contents
    <2> QED
      BY <2>7, <2>8, <2>9, <2>13 DEF PagedInv
  <1>20. CASE paged_ret' = FALSE
    <2>1. /\ Written \/ paged_memory' = paged_memory
          /\ paged_pc' = Paging!AfterFailure /\ paged_failed' = TRUE
          /\ UNCHANGED <<paged_i, paged_bytes>>
      BY <1>8, <1>9, <1>20
    <2>2. PagedTypes'
      BY <1>8, <1>12, <1>20, <2>1 DEF PagedInv, PagedTypes, PagedSteps, Paging!AfterFailure
    <2>3. Paging!Writing =>
             \A n \in 0 .. paged_i - 1 : paged_memory'[Paging!Pointed(n)] = Paging!Byte(n)
      BY <1>11, <1>14, <1>15, <1>17, <2>1
    <2>4. \A a \in Paging!Addresses : paged_memory'[a] # paged_first[a] =>
            /\ Paging!Writing
            /\ \/ \E n \in 0 .. paged_i - 1 : a = Paging!Pointed(n)
               \/ a = x /\ paged_memory'[a] = Paging!Byte(paged_i)
      BY <1>14, <1>16, <2>1
    <2>5. ~Paging!Writing => paged_memory' = paged_memory
      BY <1>14, <2>1
    <2>6. Contents'
      BY <1>2, <1>8, <1>10, <1>18, <2>1, <2>3, <2>4, <2>5 DEF Contents, x
    <2> QED
      BY <1>8, <1>20, <2>1, <2>2, <2>6, PagedFailure
  <1> QED
    BY <1>8, <1>19, <1>20

LEMMA PagedUserStep ==
  ASSUME PagedInv, Paging!SelectUser
  PROVE  PagedInv'
  <1>1. /\ paged_pc = "user" /\ paged_pc' = "idle" /\ paged_bank' \in {paged_bank, "user"}
        /\ UNCHANGED <<page_rw, page_sel, page_address, paged_memory, paged_call, paged_calls,
                       paged_first, paged_i, paged_bytes>>
        /\ \/ paged_bank' = "user" /\ UNCHANGED <<paged_ret, paged_failed>>
           \/ paged_ret' = FALSE /\ paged_failed' = TRUE
    BY DEF Paging!SelectUser, Paging!history
  <1>2. paged_ret' \in BOOLEAN /\ paged_failed' \in BOOLEAN /\ (paged_failed => paged_failed')
    <2>1. paged_ret \in BOOLEAN /\ paged_failed \in BOOLEAN
      BY DEF PagedInv, PagedTypes
    <2>2. CASE paged_bank' = "user" /\ UNCHANGED <<paged_ret, paged_failed>>
      BY <2>1, <2>2
    <2>3. CASE paged_ret' = FALSE /\ paged_failed' = TRUE
      BY <2>3
    <2> QED
      BY <1>1, <2>2, <2>3
  <1>3. Contents'
    BY <1>1, <1>2, RegisterTransfer
  <1>4. PagedTypes'
    BY <1>1, <1>2 DEF PagedInv, PagedTypes
  <1>5. Pointing'
    BY <1>1 DEF Pointing, FirstSteps
  <1>6. Paging!Writing' = Paging!Writing
    BY <1>1 DEF Paging!Writing
  <1>7. Ending'
    BY <1>1, <1>6 DEF PagedInv, Ending
  <1> QED
    BY <1>3, <1>4, <1>5, <1>7 DEF PagedInv

LEMMA PagedStep ==
  ASSUME PagedInv, [Paging!Next]_pagesVars
  PROVE  PagedInv'
  <1>1. CASE UNCHANGED pagesVars
    BY <1>1 DEF pagesVars, PagedInv, PagedTypes, Pointing, Ending, Contents, Paging!Writing,
      Paging!Pointed, Paging!Byte
  <1>2. CASE Paging!Next
    BY <1>2, PagedCallStep, PagedRegisterStep, PagedByteStep, PagedUserStep DEF Paging!Next
  <1> QED
    BY <1>1, <1>2

LEMMA PagedInvSound == PagedInv => Paging!PagedSound
  <1> SUFFICES ASSUME PagedInv PROVE Paging!PagedSound
    OBVIOUS
  <1>1. /\ paged_i \in Nat /\ paged_i <= paged_call.len /\ paged_call.len <= Bytes
        /\ paged_call.len \in Nat /\ Bytes \in Nat /\ paged_call.address \in 0 .. Bytes - 1
    BY PagesPositive DEF PagedInv, PagedTypes, Paging!Addresses, Bytes
  <1>2. Paging!PagedBytesInPlace
    <2> SUFFICES ASSUME NEW a \in Paging!Addresses
                 PROVE  LET k == {n \in 0 .. paged_i - 1 : Paging!Pointed(n) = a}
                        IN  IF Paging!Writing /\ k # {}
                            THEN paged_memory[a] = Paging!Byte(CHOOSE n \in k : \A m \in k : m <= n)
                            ELSE \/ paged_memory[a] = paged_first[a]
                                 \/ /\ Paging!Writing /\ paged_failed /\ paged_i < paged_call.len
                                    /\ a = Paging!Pointed(paged_i)
                                    /\ paged_memory[a] = Paging!Byte(paged_i)
      BY DEF Paging!PagedBytesInPlace
    <2> DEFINE k == {n \in 0 .. paged_i - 1 : Paging!Pointed(n) = a}
    <2>1. CASE Paging!Writing /\ k # {}
      <3>1. PICK n \in k : TRUE
        BY <2>1
      <3>2. n \in 0 .. paged_i - 1 /\ Paging!Pointed(n) = a
        OBVIOUS
      <3>3. \A m \in k : m = n
        BY <1>1, <3>2, PointedOnce
      <3>4. n <= n
        BY <1>1, <3>2
      <3>5. (CHOOSE m \in k : \A l \in k : l <= m) = n
        BY <3>1, <3>3, <3>4
      <3>6. paged_memory[a] = Paging!Byte(n)
        BY <2>1, <3>2 DEF PagedInv, Contents
      <3> QED
        BY <2>1, <3>5, <3>6
    <2>2. CASE ~(Paging!Writing /\ k # {})
      <3>1. CASE paged_memory[a] # paged_first[a]
        <4>1. Paging!Writing
          BY <3>1 DEF PagedInv, Contents
        <4>2. ~\E n \in 0 .. paged_i - 1 : a = Paging!Pointed(n)
          BY <2>2, <4>1
        <4> QED
          BY <2>2, <3>1, <4>1, <4>2 DEF PagedInv, Contents
      <3> QED
        BY <2>2, <3>1
    <2> QED
      BY <2>1, <2>2
  <1>3. Paging!PagedReadExact
    <2> SUFFICES ASSUME Paging!Returned, paged_ret, ~Paging!Writing
                 PROVE  paged_bytes = [k \in 1 .. paged_call.len |-> paged_memory[Paging!Pointed(k - 1)]]
      BY DEF Paging!PagedReadExact
    <2>1. paged_i = paged_call.len
      BY DEF PagedInv, Ending, Paging!Returned
    <2>2. /\ paged_bytes \in Seq(Nat \X Nat) /\ Len(paged_bytes) = paged_call.len
          /\ \A n \in 1 .. paged_call.len : paged_bytes[n] = paged_memory[Paging!Pointed(n - 1)]
      BY <2>1 DEF PagedInv, Contents
    <2>3. paged_bytes = [n \in 1 .. Len(paged_bytes) |-> paged_bytes[n]]
      BY <2>2
    <2> QED
      BY <2>2, <2>3
  <1>4. Paging!PagedAccessClosed
    BY DEF PagedInv, Ending, Paging!PagedAccessClosed, Paging!Returned
  <1> QED
    BY <1>2, <1>3, <1>4 DEF Paging!PagedSound

(* Whatever transfers fail, and in whatever state earlier calls have left  *)
(* the device: what a paged write has transferred is in place and nothing  *)
(* else changed but the byte whose transfer failed, a read that returns 0  *)
(* stored its addresses' bytes, and a call that returns 0 leaves the       *)
(* user's bank selected and page access off.                               *)
THEOREM PagedAccessIsSound == DevicesSpec => []PagedSound
  <1> DEFINE I == part = "pages" => PagedInv
  <1>1. DevicesInit => I
    BY PagedInit
  <1>2. I /\ [DevicesNext]_allVars => I'
    <2> SUFFICES ASSUME I, [DevicesNext]_allVars, part' = "pages" PROVE PagedInv'
      OBVIOUS
    <2>1. part = "pages"
      BY DEF DevicesNext, allVars
    <2> QED
      BY <2>1, PagedNext, PagedStep
  <1>3. I => PagedSound
    BY PagedInvSound DEF PagedSound
  <1> QED
    BY <1>1, <1>2, <1>3, PTL DEF DevicesSpec

-------------------------------------------------------------------------------
(***************************************************************************)
(* The PTP client's clock.                                                  *)
(***************************************************************************)
LEMMA WordFacts ==
  /\ Word \in Nat /\ Word \div 2 \in Nat /\ 2 * (Word \div 2) = Word /\ Word >= 2
  /\ Nanos \in Nat /\ Nanos \div 2 \in Nat /\ 2 * (Nanos \div 2) = Nanos /\ Nanos >= 2
  BY DevicesAssumption DEF Timing!TimeAssumption

(* Seconds as the code keeps them, and the times that begin with them.  A  *)
(* time needs a few bits of the high half only, which sums and differences *)
(* do not leave.                                                           *)
SecondsOf(x) == [high |-> x \div Word, low |-> x % Word]
TimeAt(x, n) == [sec |-> SecondsOf(x), ns |-> n]
Count == -4 * Word .. 4 * Word - 1

LEMMA HighOf ==
  ASSUME NEW x \in Count
  PROVE  /\ x \in Int /\ x = (x \div Word) * Word + (x % Word)
         /\ x \div Word \in -4 .. 3 /\ x % Word \in 0 .. Word - 1
  <1> DEFINE h == x \div Word
             l == x % Word
  <1>1. x \in Int /\ h \in Int /\ l \in 0 .. Word - 1 /\ x = h * Word + l
    BY WordFacts DEF Count
  <1>2. -4 * Word <= x /\ x < 4 * Word
    BY WordFacts DEF Count
  <1> HIDE DEF h, l
  <1>3. h <= 3
    <2> SUFFICES ASSUME h > 3 PROVE FALSE
      BY <1>1
    <2>1. PICK e \in Nat : h = 4 + e
      BY <1>1
    <2>2. h * Word = 4 * Word + e * Word /\ e * Word \in Nat
      BY <2>1, WordFacts
    <2> QED
      BY <1>1, <1>2, <2>2, WordFacts
  <1>4. h >= -4
    <2> SUFFICES ASSUME h < -4 PROVE FALSE
      BY <1>1
    <2>1. PICK e \in Nat : h = -5 - e
      BY <1>1
    <2>2. h * Word = -5 * Word - e * Word /\ e * Word \in Nat
      BY <2>1, WordFacts
    <2> QED
      BY <1>1, <1>2, <2>2, WordFacts
  <1> QED
    BY <1>1, <1>3, <1>4 DEF h, l

LEMMA Wrapped ==
  ASSUME NEW l \in Int, NEW c \in {-1, 0, 1}, l + c * Word \in 0 .. Word - 1
  PROVE  Timing!ULONG(l) = l + c * Word
  <1>1. PICK q \in {-1, 0, 1} : q = -c
    OBVIOUS
  <1>2. PICK r \in Nat : r = l + c * Word
    BY WordFacts
  <1>3. l = q * Word + r /\ r < Word
    BY <1>1, <1>2, WordFacts
  <1>4. l % Word = r
    BY <1>3, WordFacts, IntDivMod
  <1> QED
    BY <1>2, <1>4 DEF Timing!ULONG

(* What is stored into the two halves is what was meant.                   *)
LEMMA Stored ==
  ASSUME Word >= 8, NEW x \in Count, NEW h \in Int, NEW l \in Int, NEW c \in {-1, 0, 1},
         l + c * Word \in 0 .. Word - 1, x = h * Word + l + c * Word
  PROVE  Timing!Seconds(h, l) = SecondsOf(x)
  <1>1. PICK r \in Nat : r = l + c * Word
    BY WordFacts
  <1>2. r < Word /\ x = h * Word + r
    BY <1>1, WordFacts
  <1>3. x \div Word = h /\ x % Word = r
    BY <1>2, WordFacts, IntDivMod
  <1>4. h \in -4 .. 3
    BY <1>3, HighOf
  <1>5. Timing!LONG(h) = h
    <2>1. PICK y \in Nat : y = h + Word \div 2
      BY <1>4, WordFacts
    <2>2. y < Word /\ y = 0 * Word + y
      BY <1>4, <2>1, WordFacts
    <2>3. y % Word = y
      BY <2>2, WordFacts, IntDivMod
    <2> QED
      BY <1>4, <2>1, <2>3, WordFacts DEF Timing!LONG
  <1>6. Timing!ULONG(l) = r
    BY <1>1, Wrapped
  <1> QED
    BY <1>3, <1>5, <1>6 DEF Timing!Seconds, SecondsOf

(* The operations of 64 bits on seconds are those of the integers.         *)
LEMMA AddSeconds ==
  ASSUME Word >= 8, NEW x \in Count, NEW y \in Count, x + y \in Count
  PROVE  Timing!add64(SecondsOf(x), SecondsOf(y)) = SecondsOf(x + y)
  <1> DEFINE hx == x \div Word
             hy == y \div Word
             lx == x % Word
             ly == y % Word
             r_lo == Timing!ULONG(lx + ly)
             c == IF lx + ly < Word THEN 0 ELSE 1
  <1>1. /\ x = hx * Word + lx /\ hx \in -4 .. 3 /\ lx \in 0 .. Word - 1
        /\ y = hy * Word + ly /\ hy \in -4 .. 3 /\ ly \in 0 .. Word - 1
    <2>1. x = hx * Word + lx /\ hx \in -4 .. 3 /\ lx \in 0 .. Word - 1
      BY HighOf
    <2>2. y = hy * Word + ly /\ hy \in -4 .. 3 /\ ly \in 0 .. Word - 1
      BY HighOf
    <2> QED
      BY <2>1, <2>2
  <1>2. /\ c \in {0, 1} /\ lx + ly - c * Word \in 0 .. Word - 1
        /\ c = 1 <=> lx + ly >= Word
    <2> HIDE DEF hx, hy, lx, ly, r_lo
    <2> QED
      BY <1>1, WordFacts
  <1>3. Timing!add64(SecondsOf(x), SecondsOf(y)) =
          Timing!Seconds(hx + hy + Timing!Carry(r_lo < lx \/ r_lo < ly), r_lo)
    BY DEF Timing!add64, SecondsOf
  <1> HIDE DEF hx, hy, lx, ly, r_lo, c
  <1>4. r_lo = lx + ly - c * Word
    <2>1. PICK d \in {-1, 0} : d = -c
      BY <1>2
    <2>2. lx + ly + d * Word \in 0 .. Word - 1
      BY <1>1, <1>2, <2>1, WordFacts
    <2>3. lx + ly \in Int /\ d \in {-1, 0, 1} /\ d * Word = -(c * Word)
      BY <1>1, <1>2, <2>1, WordFacts
    <2>4. r_lo = lx + ly + d * Word
      BY <2>2, <2>3, Wrapped DEF r_lo
    <2> QED
      BY <1>1, <1>2, <2>3, <2>4, WordFacts
  <1>5. Timing!Carry(r_lo < lx \/ r_lo < ly) = c
    BY <1>1, <1>2, <1>4, WordFacts DEF Timing!Carry
  <1>6. x + y = (hx + hy + c) * Word + r_lo + 0 * Word
    <2>1. (hx + hy + c) * Word = hx * Word + hy * Word + c * Word
      BY <1>1, <1>2, WordFacts
    <2> QED
      BY <1>1, <1>2, <1>4, <2>1, WordFacts
  <1>7. Timing!Seconds(hx + hy + c, r_lo) = SecondsOf(x + y)
    <2>1. hx + hy + c \in Int /\ r_lo \in Int /\ r_lo + 0 * Word \in 0 .. Word - 1
      BY <1>1, <1>2, <1>4, WordFacts
    <2> QED
      BY <1>6, <2>1, Stored
  <1> QED
    BY <1>3, <1>5, <1>7

LEMMA SubSeconds ==
  ASSUME Word >= 8, NEW x \in Count, NEW y \in Count, x - y \in Count
  PROVE  Timing!sub64(SecondsOf(x), SecondsOf(y)) = SecondsOf(x - y)
  <1> DEFINE hx == x \div Word
             hy == y \div Word
             lx == x % Word
             ly == y % Word
             c == IF lx < ly THEN 1 ELSE 0
  <1>1. /\ x = hx * Word + lx /\ hx \in -4 .. 3 /\ lx \in 0 .. Word - 1
        /\ y = hy * Word + ly /\ hy \in -4 .. 3 /\ ly \in 0 .. Word - 1
    <2>1. x = hx * Word + lx /\ hx \in -4 .. 3 /\ lx \in 0 .. Word - 1
      BY HighOf
    <2>2. y = hy * Word + ly /\ hy \in -4 .. 3 /\ ly \in 0 .. Word - 1
      BY HighOf
    <2> QED
      BY <2>1, <2>2
  <1>2. c \in {0, 1} /\ lx - ly + c * Word \in 0 .. Word - 1
    <2> HIDE DEF hx, hy, lx, ly
    <2> QED
      BY <1>1, WordFacts
  <1>3. Timing!sub64(SecondsOf(x), SecondsOf(y)) = Timing!Seconds(hx - hy - c, lx - ly)
    BY DEF Timing!sub64, Timing!Carry, SecondsOf
  <1> HIDE DEF hx, hy, lx, ly, c
  <1>4. x - y = (hx - hy - c) * Word + (lx - ly) + c * Word
    <2>1. (hx - hy - c) * Word = hx * Word - hy * Word - c * Word
      BY <1>1, <1>2, WordFacts
    <2> QED
      BY <1>1, <1>2, <2>1, WordFacts
  <1> QED
    <2>1. hx - hy - c \in Int /\ lx - ly \in Int /\ c \in {-1, 0, 1}
      BY <1>1, <1>2, WordFacts
    <2> QED
      BY <1>2, <1>3, <1>4, <2>1, Stored

LEMMA IncSeconds ==
  ASSUME Word >= 8, NEW x \in Count, x + 1 \in Count
  PROVE  Timing!inc64(SecondsOf(x)) = SecondsOf(x + 1)
  <1> DEFINE h == x \div Word
             l == x % Word
             c == IF l + 1 = Word THEN 1 ELSE 0
  <1>1. x = h * Word + l /\ h \in -4 .. 3 /\ l \in 0 .. Word - 1
    BY HighOf
  <1>2. Timing!inc64(SecondsOf(x))
          = Timing!Seconds(h + Timing!Carry(Timing!ULONG(l + 1) = 0), l + 1)
    BY DEF Timing!inc64, SecondsOf
  <1> HIDE DEF h, l
  <1>3. c \in {0, 1} /\ l + 1 - c * Word \in 0 .. Word - 1
    BY <1>1, WordFacts
  <1>4. PICK d \in {-1, 0} : d = -c
    <2> HIDE DEF c
    <2> QED
      BY <1>3
  <1>5. l + 1 + d * Word = l + 1 - c * Word
    BY <1>1, <1>3, <1>4, WordFacts
  <1>6. Timing!ULONG(l + 1) = l + 1 + d * Word
    BY <1>1, <1>3, <1>4, <1>5, Wrapped
  <1>7. Timing!Carry(Timing!ULONG(l + 1) = 0) = c
    BY <1>1, <1>5, <1>6, WordFacts DEF Timing!Carry
  <1>8. x + 1 = (h + c) * Word + (l + 1) + d * Word
    <2>1. (h + c) * Word = h * Word + c * Word
      BY <1>1, <1>3, WordFacts
    <2> QED
      BY <1>1, <1>3, <1>5, <2>1, WordFacts
  <1> HIDE DEF c
  <1> QED
    <2>1. h + c \in Int /\ l + 1 \in Int /\ d \in {-1, 0, 1} /\ l + 1 + d * Word \in 0 .. Word - 1
      BY <1>1, <1>3, <1>4, <1>5
    <2> QED
      BY <1>2, <1>7, <1>8, <2>1, Stored

LEMMA DecSeconds ==
  ASSUME Word >= 8, NEW x \in Count, x - 1 \in Count
  PROVE  Timing!dec64(SecondsOf(x)) = SecondsOf(x - 1)
  <1> DEFINE h == x \div Word
             l == x % Word
             c == IF l = 0 THEN 1 ELSE 0
  <1>1. x = h * Word + l /\ h \in -4 .. 3 /\ l \in 0 .. Word - 1
    BY HighOf
  <1>2. Timing!dec64(SecondsOf(x)) = Timing!Seconds(h - c, l - 1)
    BY DEF Timing!dec64, Timing!Carry, SecondsOf
  <1> HIDE DEF h, l
  <1>3. c \in {-1, 0, 1} /\ l - 1 + c * Word \in 0 .. Word - 1
    BY <1>1, WordFacts
  <1> HIDE DEF c
  <1>4. x - 1 = (h - c) * Word + (l - 1) + c * Word
    <2>1. (h - c) * Word = h * Word - c * Word
      BY <1>1, <1>3, WordFacts
    <2> QED
      BY <1>1, <1>3, <2>1, WordFacts
  <1> QED
    <2>1. h - c \in Int /\ l - 1 \in Int
      BY <1>1, <1>3
    <2> QED
      BY <1>2, <1>3, <1>4, <2>1, Stored

LEMMA NegSeconds ==
  ASSUME Word >= 8, NEW x \in Count, -x \in Count
  PROVE  Timing!neg64(SecondsOf(x)) = SecondsOf(-x)
  <1> DEFINE h == x \div Word
             l == x % Word
             c == IF l = 0 THEN 0 ELSE 1
  <1>1. x = h * Word + l /\ h \in -4 .. 3 /\ l \in 0 .. Word - 1
    BY HighOf
  <1>2. Timing!neg64(SecondsOf(x)) = Timing!Seconds(-h - c, -l)
    BY DEF Timing!neg64, Timing!Carry, SecondsOf
  <1> HIDE DEF h, l
  <1>3. c \in {-1, 0, 1} /\ -l + c * Word \in 0 .. Word - 1
    BY <1>1, WordFacts
  <1> HIDE DEF c
  <1>4. -x = (-h - c) * Word + (-l) + c * Word
    <2>1. (-h - c) * Word = -(h * Word) - c * Word
      BY <1>1, <1>3, WordFacts
    <2> QED
      BY <1>1, <1>3, <2>1, WordFacts
  <1> QED
    <2>1. -h - c \in Int /\ -l \in Int
      BY <1>1, <1>3
    <2> QED
      BY <1>2, <1>3, <1>4, <2>1, Stored

-------------------------------------------------------------------------------
(* The time of an amount of nanoseconds: both fields have its sign.        *)
SignedTime(v) ==
  IF v >= 0 THEN TimeAt(v \div Nanos, v % Nanos) ELSE TimeAt(-((-v) \div Nanos), -((-v) % Nanos))
Normal(x, n) == n \in -Nanos + 1 .. Nanos - 1 /\ (x > 0 => n >= 0) /\ (x < 0 => n <= 0)
Amounts(k) == -(k * (Word * Nanos)) .. k * (Word * Nanos)

LEMMA SignedIs ==
  ASSUME NEW x \in Int, NEW n \in Int, Normal(x, n)
  PROVE  SignedTime(x * Nanos + n) = TimeAt(x, n)
  <1>1. n > -Nanos /\ n < Nanos
    BY WordFacts DEF Normal
  <1>2. PICK v \in Int : v = x * Nanos + n
    BY WordFacts
  <1>3. CASE x >= 0 /\ n >= 0
    <2>1. x * Nanos >= 0
      BY <1>3, WordFacts
    <2>2. n \in Nat /\ n < Nanos /\ v = x * Nanos + n /\ Nanos \in Nat
      BY <1>1, <1>2, <1>3, WordFacts
    <2>3. v \div Nanos = x /\ v % Nanos = n
      BY <2>2, IntDivMod
    <2> QED
      BY <1>2, <1>3, <2>1, <2>3, WordFacts DEF SignedTime
  <1>4. CASE x <= 0 /\ n <= 0 /\ ~(x = 0 /\ n = 0)
    <2>1. PICK y \in Nat, m \in Nat, w \in Int : y = -x /\ m = -n /\ w = -v
      BY <1>4
    <2>2. y * Nanos = -(x * Nanos) /\ y * Nanos >= 0 /\ (y > 0 => y * Nanos > 0)
      BY <2>1, WordFacts
    <2>3. w = y * Nanos + m /\ w > 0
      BY <1>2, <1>4, <2>1, <2>2, WordFacts
    <2>4. w \div Nanos = y /\ w % Nanos = m
      <3>1. m < Nanos /\ Nanos \in Nat
        BY <1>1, <2>1, WordFacts
      <3> QED
        BY <2>3, <3>1, IntDivMod
    <2> QED
      BY <1>2, <2>1, <2>3, <2>4 DEF SignedTime
  <1> QED
    BY <1>3, <1>4 DEF Normal

LEMMA SignedFields ==
  ASSUME NEW v \in Int
  PROVE  \E x \in Int, n \in Int :
           /\ SignedTime(v) = TimeAt(x, n) /\ v = x * Nanos + n /\ Normal(x, n)
           /\ v >= 0 => x >= 0 /\ n >= 0
           /\ v <= 0 => x <= 0 /\ n <= 0
  <1>1. CASE v >= 0
    <2>1. PICK x \in Nat, n \in Nat : x = v \div Nanos /\ n = v % Nanos
      BY <1>1, WordFacts
    <2>2. v = x * Nanos + n /\ n < Nanos
      BY <1>1, <2>1, WordFacts
    <2>3. SignedTime(v) = TimeAt(x, n)
      BY <1>1, <2>1 DEF SignedTime
    <2>4. v = 0 => x = 0 /\ n = 0
      <3>1. x > 0 => x * Nanos > 0
        BY WordFacts
      <3> QED
        BY <2>2, <3>1, WordFacts
    <2> QED
      BY <1>1, <2>2, <2>3, <2>4, WordFacts DEF Normal
  <1>2. CASE v < 0
    <2>1. PICK w \in Nat : w = -v
      BY <1>2
    <2>2. PICK y \in Nat, m \in Nat : y = w \div Nanos /\ m = w % Nanos
      BY WordFacts
    <2>3. w = y * Nanos + m /\ m < Nanos
      BY <2>2, WordFacts
    <2>4. PICK x \in Int, n \in Int : x = -y /\ n = -m
      OBVIOUS
    <2>5. x * Nanos = -(y * Nanos)
      BY <2>4, WordFacts
    <2>6. SignedTime(v) = TimeAt(x, n)
      BY <1>2, <2>1, <2>2, <2>4 DEF SignedTime
    <2> QED
      BY <1>2, <2>1, <2>3, <2>4, <2>5, <2>6, WordFacts DEF Normal
  <1> QED
    BY <1>1, <1>2

(* An amount has not more seconds than its range has.                      *)
LEMMA SecondsInRange ==
  ASSUME NEW k \in {1, 2}, NEW v \in Amounts(k), NEW x \in Int, NEW n \in Int,
         v = x * Nanos + n, Normal(x, n)
  PROVE  x \in -(k * Word) .. k * Word /\ v \in Int
  <1>1. n > -Nanos /\ n < Nanos
    BY WordFacts DEF Normal
  <1>2. v \in Int /\ -(k * (Word * Nanos)) <= v /\ v <= k * (Word * Nanos)
    BY WordFacts DEF Amounts
  <1>3. Word * Nanos \in Nat
    BY WordFacts
  <1>4. ASSUME NEW y \in Int, y > k * Word PROVE y * Nanos >= k * (Word * Nanos) + Nanos
    <2>1. PICK e \in Nat : y = k * Word + 1 + e
      BY <1>4, WordFacts
    <2>2. CASE k = 1
      <3>1. y * Nanos = Word * Nanos + Nanos + e * Nanos /\ e * Nanos \in Nat
        BY <2>1, <2>2, WordFacts
      <3> QED
        BY <2>2, <3>1, <1>3, WordFacts
    <2>3. CASE k = 2
      <3>1. y * Nanos = 2 * (Word * Nanos) + Nanos + e * Nanos /\ e * Nanos \in Nat
        BY <2>1, <2>3, WordFacts
      <3> QED
        BY <2>3, <3>1, <1>3, WordFacts
    <2> QED
      BY <2>2, <2>3
  <1>5. x <= k * Word
    <2> SUFFICES ASSUME x > k * Word PROVE FALSE
      BY WordFacts
    <2> QED
      BY <1>1, <1>2, <1>3, <1>4, WordFacts
  <1>6. -x <= k * Word
    <2> SUFFICES ASSUME -x > k * Word PROVE FALSE
      BY WordFacts
    <2>1. (-x) * Nanos >= k * (Word * Nanos) + Nanos
      BY <1>4
    <2>2. (-x) * Nanos = -(x * Nanos)
      BY WordFacts
    <2> QED
      BY <1>1, <1>2, <1>3, <2>1, <2>2, WordFacts
  <1> QED
    BY <1>2, <1>5, <1>6, WordFacts

LEMMA ValueAt ==
  ASSUME NEW x \in Count, NEW n \in Int
  PROVE  Timing!Value(TimeAt(x, n)) = x * Nanos + n
  <1>1. x = (x \div Word) * Word + (x % Word)
    BY HighOf
  <1>2. Timing!Value(TimeAt(x, n)) = ((x \div Word) * Word + (x % Word)) * Nanos + n
    BY DEF Timing!Value, TimeAt, SecondsOf
  <1> QED
    BY <1>1, <1>2

LEMMA SignOf ==
  ASSUME Word >= 8, NEW x \in Count
  PROVE  /\ SecondsOf(x) = Timing!Zero <=> x = 0
         /\ SecondsOf(x).high < 0 <=> x < 0
  <1> DEFINE h == x \div Word
             l == x % Word
  <1>1. x = h * Word + l /\ h \in -4 .. 3 /\ l \in 0 .. Word - 1
    BY HighOf
  <1>2. SecondsOf(x) = [high |-> h, low |-> l]
    BY DEF SecondsOf
  <1>3. Timing!Zero = SecondsOf(0) /\ SecondsOf(0) = [high |-> 0, low |-> 0]
    <2>1. 0 \in Count /\ 0 = 0 * Word + 0 + 0 * Word /\ 0 + 0 * Word \in 0 .. Word - 1
      BY WordFacts DEF Count
    <2>2. Timing!Zero = SecondsOf(0)
      BY <2>1, Stored DEF Timing!Zero
    <2>3. 0 \div Word = 0 /\ 0 % Word = 0
      BY <2>1, WordFacts, IntDivMod
    <2> QED
      BY <2>2, <2>3 DEF SecondsOf
  <1> HIDE DEF h, l
  <1>4. h < 0 <=> x < 0
    <2>1. h < 0 => h * Word <= -Word
      BY <1>1, WordFacts
    <2>2. h >= 0 => h * Word >= 0
      BY <1>1, WordFacts
    <2> QED
      BY <1>1, <2>1, <2>2, WordFacts
  <1>5. x = 0 <=> h = 0 /\ l = 0
    <2>1. h > 0 => h * Word >= Word
      BY <1>1, WordFacts
    <2> QED
      BY <1>1, <1>4, <2>1, WordFacts
  <1> QED
    BY <1>2, <1>3, <1>4, <1>5

(* Carrying a second over or borrowing one keeps the amount.               *)
LEMMA CarryBorrow ==
  ASSUME Word >= 8, NEW x \in Int, NEW n \in Int
  PROVE  /\ x \in Count /\ x - 1 \in Count =>
              Timing!Borrow(TimeAt(x, n)) = TimeAt(x - 1, n + Nanos)
         /\ x \in Count /\ x + 1 \in Count =>
              Timing!CarryOver(TimeAt(x, n)) = TimeAt(x + 1, n - Nanos)
         /\ (x - 1) * Nanos + (n + Nanos) = x * Nanos + n
         /\ (x + 1) * Nanos + (n - Nanos) = x * Nanos + n
  <1>1. ASSUME x \in Count, x - 1 \in Count
        PROVE  Timing!Borrow(TimeAt(x, n)) = TimeAt(x - 1, n + Nanos)
    BY <1>1, DecSeconds DEF Timing!Borrow, Timing!Time, TimeAt
  <1>2. ASSUME x \in Count, x + 1 \in Count
        PROVE  Timing!CarryOver(TimeAt(x, n)) = TimeAt(x + 1, n - Nanos)
    BY <1>2, IncSeconds DEF Timing!CarryOver, Timing!Time, TimeAt
  <1>3. (x - 1) * Nanos = x * Nanos - Nanos /\ (x + 1) * Nanos = x * Nanos + Nanos
        /\ x * Nanos \in Int
    BY WordFacts
  <1> QED
    BY <1>1, <1>2, <1>3, WordFacts

LEMMA Normalised ==
  ASSUME Word >= 8, NEW x \in -2 * Word .. 2 * Word, NEW n \in -2 * Nanos + 1 .. 2 * Nanos - 1
  PROVE  Timing!OneSign(Timing!InRange(TimeAt(x, n))) = SignedTime(x * Nanos + n)
  <1>1. x \in Int /\ n \in Int /\ \A i \in -2 .. 2 : x + i \in Count
    BY WordFacts DEF Count
  <1>2. PICK y \in x - 1 .. x + 1, m \in -Nanos + 1 .. Nanos - 1 :
           /\ Timing!InRange(TimeAt(x, n)) = TimeAt(y, m)
           /\ y * Nanos + m = x * Nanos + n
    <2>1. TimeAt(x, n).ns = n
      BY DEF TimeAt
    <2>2. x \in Count /\ x - 1 \in Count /\ x + 1 \in Count
      BY <1>1
    <2>3. CASE n <= -Nanos
      <3>1. Timing!InRange(TimeAt(x, n)) = TimeAt(x - 1, n + Nanos)
        BY <1>1, <2>1, <2>2, <2>3, CarryBorrow, WordFacts DEF Timing!InRange
      <3>2. (x - 1) * Nanos + (n + Nanos) = x * Nanos + n
        BY <1>1, CarryBorrow
      <3>3. x - 1 \in x - 1 .. x + 1 /\ n + Nanos \in -Nanos + 1 .. Nanos - 1
        BY <1>1, <2>3, WordFacts
      <3> QED
        BY <3>1, <3>2, <3>3
    <2>4. CASE n >= Nanos
      <3>1. Timing!InRange(TimeAt(x, n)) = TimeAt(x + 1, n - Nanos)
        BY <1>1, <2>1, <2>2, <2>4, CarryBorrow, WordFacts DEF Timing!InRange
      <3>2. (x + 1) * Nanos + (n - Nanos) = x * Nanos + n
        BY <1>1, CarryBorrow
      <3>3. x + 1 \in x - 1 .. x + 1 /\ n - Nanos \in -Nanos + 1 .. Nanos - 1
        BY <1>1, <2>4, WordFacts
      <3> QED
        BY <3>1, <3>2, <3>3
    <2>5. CASE n > -Nanos /\ n < Nanos
      <3>1. Timing!InRange(TimeAt(x, n)) = TimeAt(x, n)
        BY <1>1, <2>1, <2>5, WordFacts DEF Timing!InRange
      <3>2. x \in x - 1 .. x + 1 /\ n \in -Nanos + 1 .. Nanos - 1
        BY <1>1, <2>5, WordFacts
      <3> QED
        BY <3>1, <3>2
    <2> QED
      BY <1>1, <2>3, <2>4, <2>5, WordFacts
  <1>3. PICK z \in Int, o \in Int :
           /\ Timing!OneSign(TimeAt(y, m)) = TimeAt(z, o)
           /\ z * Nanos + o = y * Nanos + m /\ Normal(z, o)
    <2>1. y \in Int /\ m \in Int /\ m > -Nanos /\ m < Nanos
      BY <1>1, WordFacts
    <2>2. y \in Count /\ y - 1 \in Count /\ y + 1 \in Count
      BY <1>1, WordFacts DEF Count
    <2>3. /\ TimeAt(y, m).ns = m /\ TimeAt(y, m).sec = SecondsOf(y)
          /\ SecondsOf(y) = Timing!Zero <=> y = 0
          /\ SecondsOf(y).high < 0 <=> y < 0
          /\ SecondsOf(y).high \in Int
      BY <2>2, SignOf, HighOf DEF TimeAt, SecondsOf
    <2>4. CASE y > 0 /\ m < 0
      <3>1. Timing!OneSign(TimeAt(y, m)) = TimeAt(y - 1, m + Nanos)
        BY <2>1, <2>2, <2>3, <2>4, CarryBorrow DEF Timing!OneSign
      <3>2. (y - 1) * Nanos + (m + Nanos) = y * Nanos + m
        BY <2>1, CarryBorrow
      <3>3. y - 1 \in Int /\ m + Nanos \in Int /\ Normal(y - 1, m + Nanos)
        BY <2>1, <2>4, WordFacts DEF Normal
      <3> QED
        BY <3>1, <3>2, <3>3
    <2>5. CASE y < 0 /\ m > 0
      <3>1. Timing!OneSign(TimeAt(y, m)) = TimeAt(y + 1, m - Nanos)
        BY <2>1, <2>2, <2>3, <2>5, CarryBorrow DEF Timing!OneSign
      <3>2. (y + 1) * Nanos + (m - Nanos) = y * Nanos + m
        BY <2>1, CarryBorrow
      <3>3. y + 1 \in Int /\ m - Nanos \in Int /\ Normal(y + 1, m - Nanos)
        BY <2>1, <2>5, WordFacts DEF Normal
      <3> QED
        BY <3>1, <3>2, <3>3
    <2>6. CASE ~(y > 0 /\ m < 0) /\ ~(y < 0 /\ m > 0)
      <3>1. Timing!OneSign(TimeAt(y, m)) = TimeAt(y, m)
        BY <2>1, <2>2, <2>3, <2>6 DEF Timing!OneSign
      <3> QED
        BY <2>1, <2>6, <3>1, WordFacts DEF Normal
    <2> QED
      BY <2>4, <2>5, <2>6
  <1>4. SignedTime(z * Nanos + o) = TimeAt(z, o)
    BY <1>3, SignedIs
  <1> QED
    BY <1>2, <1>3, <1>4

(* Sums, differences and halves of times are those of their nanoseconds.   *)
LEMMA DiffOf ==
  ASSUME Word >= 8, NEW u \in Amounts(1), NEW v \in Amounts(1)
  PROVE  Timing!time_diff(SignedTime(u), SignedTime(v)) = SignedTime(u - v)
  <1>0. u \in Int /\ v \in Int
    BY WordFacts DEF Amounts
  <1>1. PICK x \in Int, n \in Int :
           SignedTime(u) = TimeAt(x, n) /\ u = x * Nanos + n /\ Normal(x, n)
    BY <1>0, SignedFields
  <1>2. PICK y \in Int, m \in Int :
           SignedTime(v) = TimeAt(y, m) /\ v = y * Nanos + m /\ Normal(y, m)
    BY <1>0, SignedFields
  <1>3. x \in -Word .. Word /\ y \in -Word .. Word
    <2>1. x \in -(1 * Word) .. 1 * Word
      BY <1>1, SecondsInRange
    <2>2. y \in -(1 * Word) .. 1 * Word
      BY <1>2, SecondsInRange
    <2> QED
      BY <2>1, <2>2, WordFacts
  <1>4. x \in Count /\ y \in Count /\ x - y \in Count
    BY <1>3, WordFacts DEF Count
  <1>5. Timing!Time(Timing!sub64(TimeAt(x, n).sec, TimeAt(y, m).sec), TimeAt(x, n).ns - TimeAt(y, m).ns)
          = TimeAt(x - y, n - m)
    BY <1>4, SubSeconds DEF Timing!Time, TimeAt
  <1>6. x - y \in -2 * Word .. 2 * Word /\ n - m \in -2 * Nanos + 1 .. 2 * Nanos - 1
    BY <1>1, <1>2, <1>3, WordFacts DEF Normal
  <1>7. (x - y) * Nanos + (n - m) = u - v
    <2>1. (x - y) * Nanos = x * Nanos - y * Nanos /\ x * Nanos \in Int /\ y * Nanos \in Int
      BY WordFacts
    <2> QED
      BY <1>1, <1>2, <2>1
  <1> QED
    BY <1>1, <1>2, <1>5, <1>6, <1>7, Normalised DEF Timing!time_diff

LEMMA SumOf ==
  ASSUME Word >= 8, NEW u \in Amounts(1), NEW v \in Amounts(1)
  PROVE  Timing!time_sum(SignedTime(u), SignedTime(v)) = SignedTime(u + v)
  <1>0. u \in Int /\ v \in Int
    BY WordFacts DEF Amounts
  <1>1. PICK x \in Int, n \in Int :
           SignedTime(u) = TimeAt(x, n) /\ u = x * Nanos + n /\ Normal(x, n)
    BY <1>0, SignedFields
  <1>2. PICK y \in Int, m \in Int :
           SignedTime(v) = TimeAt(y, m) /\ v = y * Nanos + m /\ Normal(y, m)
    BY <1>0, SignedFields
  <1>3. x \in -Word .. Word /\ y \in -Word .. Word
    <2>1. x \in -(1 * Word) .. 1 * Word
      BY <1>1, SecondsInRange
    <2>2. y \in -(1 * Word) .. 1 * Word
      BY <1>2, SecondsInRange
    <2> QED
      BY <2>1, <2>2, WordFacts
  <1>4. x \in Count /\ y \in Count /\ x + y \in Count
    BY <1>3, WordFacts DEF Count
  <1>5. Timing!Time(Timing!add64(TimeAt(x, n).sec, TimeAt(y, m).sec), TimeAt(x, n).ns + TimeAt(y, m).ns)
          = TimeAt(x + y, n + m)
    BY <1>4, AddSeconds DEF Timing!Time, TimeAt
  <1>6. x + y \in -2 * Word .. 2 * Word /\ n + m \in -2 * Nanos + 1 .. 2 * Nanos - 1
    BY <1>1, <1>2, <1>3, WordFacts DEF Normal
  <1>7. (x + y) * Nanos + (n + m) = u + v
    <2>1. (x + y) * Nanos = x * Nanos + y * Nanos /\ x * Nanos \in Int /\ y * Nanos \in Int
      BY WordFacts
    <2> QED
      BY <1>1, <1>2, <2>1
  <1> QED
    BY <1>1, <1>2, <1>5, <1>6, <1>7, Normalised DEF Timing!time_sum

HalfOf(v) == IF v >= 0 THEN v \div 2 ELSE -((-v) \div 2)

LEMMA HalfBound ==
  ASSUME NEW v \in Int
  PROVE  HalfOf(v) \in Int /\ 2 * HalfOf(v) - v \in -1 .. 1
  BY DEF HalfOf

LEMMA HalvedAt ==
  ASSUME Word >= 8, NEW x \in 0 .. 2 * Word, NEW n \in 0 .. Nanos - 1
  PROVE  \E y \in 0 .. 2 * Word, m \in 0 .. Nanos - 1 :
           /\ Timing!Halved(TimeAt(x, n)) = TimeAt(y, m)
           /\ y * Nanos + m = (x * Nanos + n) \div 2
  <1>0. x \in Int /\ n \in Int /\ x \in Count /\ x >= 0 /\ x <= 2 * Word /\ n >= 0 /\ n < Nanos
    BY WordFacts DEF Count
  <1>1. PICK h \in -4 .. 3, l \in 0 .. Word - 1 :
           x = h * Word + l /\ SecondsOf(x) = [high |-> h, low |-> l]
    BY <1>0, HighOf DEF SecondsOf
  <1>2. h >= 0
    <2>1. h < 0 => h * Word <= -Word
      BY <1>1, WordFacts
    <2> QED
      BY <1>0, <1>1, <2>1, WordFacts
  <1>3. PICK hq \in Nat, hb \in {0, 1} : hq = h \div 2 /\ hb = h % 2 /\ h = 2 * hq + hb
    BY <1>1, <1>2
  <1>4. PICK lq \in Nat, lb \in {0, 1} : lq = l \div 2 /\ lb = l % 2 /\ l = 2 * lq + lb
    <2>1. l \in Nat
      BY <1>1, WordFacts
    <2> QED
      BY <2>1
  <1>5. PICK nq \in Nat, nb \in {0, 1} : nq = n \div 2 /\ nb = n % 2 /\ n = 2 * nq + nb
    <2>1. n \in Nat
      BY <1>0
    <2> QED
      BY <2>1
  <1>6. PICK w \in Nat, a \in Nat : w = Word \div 2 /\ 2 * w = Word /\ a = Nanos \div 2 /\ 2 * a = Nanos
    BY WordFacts
  <1>7. PICK low \in Nat, m \in Nat : low = lq + w * hb /\ m = nq + a * lb
    BY <1>3, <1>4, <1>5, <1>6
  <1>8. low \in 0 .. Word - 1 /\ m \in 0 .. Nanos - 1
    BY <1>0, <1>1, <1>3, <1>4, <1>5, <1>6, <1>7, WordFacts
  <1>9. PICK y \in Int : y = hq * Word + low
    BY <1>3, <1>7, WordFacts
  <1>10. x = 2 * y + lb
    <2>1. h * Word = 2 * (hq * Word) + hb * Word /\ hq * Word \in Int
      BY <1>3, WordFacts
    <2>2. hb * Word = 2 * (w * hb)
      BY <1>3, <1>6, WordFacts
    <2> QED
      BY <1>1, <1>3, <1>4, <1>6, <1>7, <1>9, <2>1, <2>2, WordFacts
  <1>11. y \in 0 .. 2 * Word /\ y \in Count
    BY <1>0, <1>4, <1>10, WordFacts DEF Count
  <1>12. Timing!Seconds(hq, low) = SecondsOf(y)
    <2>1. low + 0 * Word \in 0 .. Word - 1 /\ y = hq * Word + low + 0 * Word
      BY <1>8, <1>9, <1>3, WordFacts
    <2> QED
      BY <1>3, <1>7, <1>11, <2>1, Stored
  <1>13. Timing!Halved(TimeAt(x, n)) = TimeAt(y, m)
    BY <1>1, <1>3, <1>4, <1>5, <1>6, <1>7, <1>12 DEF Timing!Halved, Timing!Time, TimeAt
  <1>14. y * Nanos + m = (x * Nanos + n) \div 2
    <2>1. PICK p \in Int : p = y * Nanos
      BY WordFacts
    <2>2. x * Nanos = 2 * p + lb * Nanos
      BY <1>4, <1>10, <2>1, WordFacts
    <2>3. lb * Nanos = 2 * (a * lb)
      BY <1>4, <1>6
    <2>4. x * Nanos + n = 2 * (p + m) + nb
      BY <1>4, <1>5, <1>6, <1>7, <2>1, <2>2, <2>3, WordFacts
    <2>5. \A q \in Int : (2 * q + nb) \div 2 = q
      BY <1>5
    <2>6. p + m \in Int
      BY <1>7, <2>1
    <2> QED
      BY <2>1, <2>4, <2>5, <2>6
  <1> QED
    BY <1>8, <1>11, <1>13, <1>14

LEMMA HalfOfTime ==
  ASSUME Word >= 8, NEW v \in Amounts(2)
  PROVE  Timing!time_div_by_2(SignedTime(v)) = SignedTime(HalfOf(v))
  <1>0. v \in Int
    BY WordFacts DEF Amounts
  <1>1. PICK x \in Int, n \in Int :
           /\ SignedTime(v) = TimeAt(x, n) /\ v = x * Nanos + n /\ Normal(x, n)
           /\ v >= 0 => x >= 0 /\ n >= 0
           /\ v <= 0 => x <= 0 /\ n <= 0
    BY <1>0, SignedFields
  <1>2. x \in -(2 * Word) .. 2 * Word /\ n > -Nanos /\ n < Nanos
    BY <1>1, SecondsInRange, WordFacts DEF Normal
  <1>3. x \in Count /\ -x \in Count
    BY <1>2, WordFacts DEF Count
  <1>4. /\ TimeAt(x, n).sec = SecondsOf(x) /\ TimeAt(x, n).ns = n
        /\ SecondsOf(x).high < 0 <=> x < 0
    BY <1>3, SignOf DEF TimeAt
  <1>5. CASE x >= 0 /\ n >= 0
    <2>1. Timing!time_div_by_2(TimeAt(x, n)) = Timing!Halved(TimeAt(x, n))
      <3>1. ~(SecondsOf(x).high < 0) /\ ~(n < 0)
        BY <1>1, <1>4, <1>5
      <3> QED
        BY <1>4, <3>1 DEF Timing!time_div_by_2
    <2>2. x \in 0 .. 2 * Word /\ n \in 0 .. Nanos - 1
      BY <1>2, <1>5, WordFacts
    <2>3. PICK y \in 0 .. 2 * Word, m \in 0 .. Nanos - 1 :
             Timing!Halved(TimeAt(x, n)) = TimeAt(y, m) /\ y * Nanos + m = v \div 2
      BY <1>1, <2>2, HalvedAt
    <2>4. Normal(y, m) /\ y \in Int /\ m \in Int
      BY WordFacts DEF Normal
    <2>5. SignedTime(v \div 2) = TimeAt(y, m)
      BY <2>3, <2>4, SignedIs
    <2>6. HalfOf(v) = v \div 2
      <3>1. v >= 0
        BY <1>0, <1>1, <1>5, WordFacts
      <3> QED
        BY <3>1 DEF HalfOf
    <2> QED
      BY <1>1, <2>1, <2>3, <2>5, <2>6
  <1>6. CASE ~(x >= 0 /\ n >= 0)
    <2>1. x <= 0 /\ n <= 0 /\ v < 0
      BY <1>0, <1>1, <1>6
    <2>2. PICK x2 \in 0 .. 2 * Word, n2 \in 0 .. Nanos - 1 : x2 = -x /\ n2 = -n
      BY <1>2, <2>1, WordFacts
    <2>3. Timing!Time(Timing!neg64(TimeAt(x, n).sec), -TimeAt(x, n).ns) = TimeAt(x2, n2)
      BY <1>3, <1>4, <2>2, NegSeconds DEF Timing!Time, TimeAt
    <2>4. PICK w \in Int : w = -v /\ w = x2 * Nanos + n2
      <3>1. x2 * Nanos = -(x * Nanos)
        BY <2>2, WordFacts
      <3> QED
        BY <1>0, <1>1, <2>2, <3>1, WordFacts
    <2>5. PICK y \in 0 .. 2 * Word, m \in 0 .. Nanos - 1 :
             Timing!Halved(TimeAt(x2, n2)) = TimeAt(y, m) /\ y * Nanos + m = w \div 2
      BY <2>4, HalvedAt
    <2>6. y \in Count /\ -y \in Count /\ y \in Int /\ m \in Int
      BY WordFacts DEF Count
    <2>7. Timing!Time(Timing!neg64(TimeAt(y, m).sec), -TimeAt(y, m).ns) = TimeAt(-y, -m)
      BY <2>6, NegSeconds DEF Timing!Time, TimeAt
    <2>8. Timing!time_div_by_2(TimeAt(x, n)) = TimeAt(-y, -m)
      <3>1. SecondsOf(x).high < 0 \/ n < 0
        BY <1>1, <1>4, <1>6
      <3> QED
        BY <1>4, <2>3, <2>5, <2>7, <3>1 DEF Timing!time_div_by_2
    <2>9. PICK y2 \in Int, m2 \in Int : y2 = -y /\ m2 = -m
      BY <2>6
    <2>10. y2 * Nanos + m2 = HalfOf(v)
      <3>1. y2 * Nanos = -(y * Nanos)
        BY <2>6, <2>9, WordFacts
      <3>2. HalfOf(v) = -(w \div 2)
        BY <1>0, <2>1, <2>4 DEF HalfOf
      <3>3. w \div 2 \in Int /\ y * Nanos \in Int
        BY <2>4, <2>6, WordFacts
      <3> QED
        BY <2>5, <2>6, <2>9, <3>1, <3>2, <3>3
    <2>11. Normal(y2, m2)
      BY <2>6, <2>9, WordFacts DEF Normal
    <2> QED
      BY <1>1, <2>8, <2>9, <2>10, <2>11, SignedIs
  <1> QED
    BY <1>5, <1>6

(* The times of the clock: those from 0 to the end of the low half.        *)
Instant == {TimeAt(x, n) : x \in 0 .. Word - 1, n \in 0 .. Nanos - 1}

LEMMA InstantAt ==
  ASSUME NEW x \in 0 .. Word - 1, NEW n \in 0 .. Nanos - 1
  PROVE  /\ SecondsOf(x) = [high |-> 0, low |-> x]
         /\ Timing!Value(TimeAt(x, n)) = x * Nanos + n
         /\ x * Nanos + n \in 0 .. Word * Nanos - 1
         /\ SignedTime(x * Nanos + n) = TimeAt(x, n)
         /\ x \in Count /\ x \in Nat /\ n \in Nat /\ n < Nanos
  <1>1. x \in Count /\ x \in Nat /\ x < Word /\ n \in Nat /\ n < Nanos /\ x \in Int /\ n \in Int
    BY WordFacts DEF Count
  <1>2. x = 0 * Word + x
    BY <1>1, WordFacts
  <1>3. x \div Word = 0 /\ x % Word = x
    BY <1>1, <1>2, WordFacts, IntDivMod
  <1>4. x * Nanos >= 0 /\ x * Nanos <= Word * Nanos - Nanos
    <2>1. PICK e \in Nat : Word = x + 1 + e
      BY <1>1, WordFacts
    <2>2. Word * Nanos = x * Nanos + Nanos + e * Nanos /\ e * Nanos \in Nat /\ x * Nanos \in Nat
      BY <1>1, <2>1, WordFacts
    <2> QED
      BY <2>2, WordFacts
  <1>5. Normal(x, n)
    BY <1>1, WordFacts DEF Normal
  <1>6. x * Nanos + n \in 0 .. Word * Nanos - 1
    BY <1>1, <1>4, WordFacts
  <1> QED
    BY <1>1, <1>3, <1>5, <1>6, ValueAt, SignedIs DEF SecondsOf

LEMMA InstantOf ==
  ASSUME Word >= 8, NEW v \in 0 .. Word * Nanos - 1
  PROVE  /\ v \in Int
         /\ Timing!TimeOf(v) \in Instant /\ Timing!TimeOf(v) = SignedTime(v)
         /\ Timing!Value(Timing!TimeOf(v)) = v
         /\ v \div Nanos \in 0 .. Word - 1 /\ v % Nanos \in 0 .. Nanos - 1
         /\ v = (v \div Nanos) * Nanos + (v % Nanos)
         /\ Timing!TimeOf(v) = TimeAt(v \div Nanos, v % Nanos)
  <1>1. v \in Nat /\ v < Word * Nanos
    BY WordFacts
  <1>2. PICK x \in Nat, n \in Nat : x = v \div Nanos /\ n = v % Nanos
    BY <1>1, WordFacts
  <1>3. v = x * Nanos + n /\ n < Nanos
    BY <1>1, <1>2, WordFacts
  <1>4. x < Word
    <2> SUFFICES ASSUME x >= Word PROVE FALSE
      BY WordFacts
    <2>1. PICK e \in Nat : x = Word + e
      BY WordFacts
    <2>2. x * Nanos = Word * Nanos + e * Nanos /\ e * Nanos \in Nat
      BY <2>1, WordFacts
    <2> QED
      BY <1>1, <1>3, <2>2, WordFacts
  <1>5. x \in 0 .. Word - 1 /\ n \in 0 .. Nanos - 1
    BY <1>3, <1>4, WordFacts
  <1>6. Timing!Seconds(0, x) = SecondsOf(x)
    <2>1. x \in Count /\ x + 0 * Word \in 0 .. Word - 1 /\ x = 0 * Word + x + 0 * Word
      BY <1>5, WordFacts DEF Count
    <2> QED
      BY <2>1, Stored
  <1>7. Timing!TimeOf(v) = TimeAt(x, n)
    BY <1>2, <1>6 DEF Timing!TimeOf, Timing!Time, TimeAt
  <1> QED
    BY <1>1, <1>2, <1>3, <1>5, <1>7, InstantAt DEF Instant

LEMMA InstantValue ==
  ASSUME Word >= 8, NEW i \in Instant
  PROVE  /\ Timing!Value(i) \in 0 .. Word * Nanos - 1 /\ Timing!Value(i) \in Int
         /\ i = Timing!TimeOf(Timing!Value(i)) /\ i = SignedTime(Timing!Value(i))
         /\ Timing!Value(i) \in Amounts(1)
         /\ i.sec = [high |-> 0, low |-> i.sec.low]
         /\ i.sec.low \in 0 .. Word - 1 /\ i.ns \in 0 .. Nanos - 1
         /\ i = TimeAt(i.sec.low, i.ns)
         /\ Timing!Value(i) = i.sec.low * Nanos + i.ns
         /\ i.sec = Timing!Zero <=> i.sec.low = 0
  <1>1. PICK x \in 0 .. Word - 1, n \in 0 .. Nanos - 1 : i = TimeAt(x, n)
    BY DEF Instant
  <1>2. PICK v \in 0 .. Word * Nanos - 1 : v = x * Nanos + n
    BY InstantAt
  <1>3. Timing!Value(i) = v /\ i = SignedTime(v)
    BY <1>1, <1>2, InstantAt
  <1>4. i = Timing!TimeOf(v)
    BY <1>3, InstantOf
  <1>5. v \in Amounts(1)
    <2>1. Word * Nanos \in Nat
      BY WordFacts
    <2> QED
      BY <2>1 DEF Amounts
  <1>6. i.sec = [high |-> 0, low |-> x] /\ i.ns = n
    BY <1>1, InstantAt DEF TimeAt
  <1>7. i.sec = Timing!Zero <=> x = 0
    BY <1>1, InstantAt, SignOf DEF TimeAt
  <1>8. i.sec.low = x /\ v \in Int
    BY <1>2, <1>6, InstantOf
  <1>9. /\ Timing!Value(i) = v /\ i = Timing!TimeOf(v) /\ i = SignedTime(v) /\ v \in Amounts(1)
        /\ i.sec = [high |-> 0, low |-> x] /\ i.ns = n /\ i.sec.low = x /\ v \in Int
        /\ i = TimeAt(x, n) /\ v = x * Nanos + n /\ (i.sec = Timing!Zero <=> x = 0)
    BY <1>1, <1>2, <1>3, <1>4, <1>5, <1>6, <1>7, <1>8
  <1> QED
    BY <1>9

LEMMA InstantFields ==
  ASSUME NEW i \in Instant
  PROVE  \E x \in 0 .. Word - 1, n \in 0 .. Nanos - 1 :
           /\ i = TimeAt(x, n) /\ Timing!Value(i) = x * Nanos + n
           /\ i.sec = SecondsOf(x) /\ i.ns = n /\ i.sec.low = x
  <1>1. PICK x \in 0 .. Word - 1, n \in 0 .. Nanos - 1 : i = TimeAt(x, n)
    BY DEF Instant
  <1>2. i.sec = SecondsOf(x) /\ i.ns = n
    BY <1>1 DEF TimeAt
  <1>3. i.sec.low = x /\ Timing!Value(i) = x * Nanos + n
    BY <1>1, <1>2, InstantAt
  <1> QED
    BY <1>1, <1>2, <1>3

LEMMA IsInstant ==
  ASSUME Word >= 8, NEW x \in Int, NEW n \in 0 .. Nanos - 1, x * Nanos + n \in 0 .. Word * Nanos - 1
  PROVE  /\ x \in 0 .. Word - 1 /\ TimeAt(x, n) \in Instant
         /\ Timing!Value(TimeAt(x, n)) = x * Nanos + n
  <1>1. PICK v \in 0 .. Word * Nanos - 1 : v = x * Nanos + n
    OBVIOUS
  <1>2. n \in Nat /\ n < Nanos /\ Nanos \in Nat
    BY WordFacts
  <1>3. v \div Nanos = x
    BY <1>1, <1>2, IntDivMod
  <1>4. x \in 0 .. Word - 1
    BY <1>3, InstantOf
  <1> QED
    BY <1>4, InstantAt DEF Instant

(* The clock a nanosecond later.                                           *)
LEMMA LaterIs ==
  ASSUME Word >= 8, NEW i \in Instant, Timing!Value(i) + 1 < Word * Nanos
  PROVE  Timing!Later(i) \in Instant /\ Timing!Value(Timing!Later(i)) = Timing!Value(i) + 1
  <1>1. PICK x \in 0 .. Word - 1, n \in 0 .. Nanos - 1 :
           /\ i = TimeAt(x, n) /\ Timing!Value(i) = x * Nanos + n
           /\ i.sec = SecondsOf(x) /\ i.ns = n
    BY InstantFields
  <1>2. /\ x \in Int /\ n \in Int /\ n >= 0 /\ n < Nanos /\ x * Nanos \in Int
           /\ Word * Nanos \in Int
        /\ Timing!Value(i) >= 0
    BY <1>1, InstantAt, WordFacts
  <1>4. CASE n + 1 >= Nanos
    <2>1. n = Nanos - 1
      BY <1>2, <1>4, WordFacts
    <2>2. x + 1 \in Count /\ x \in Count
      BY <1>1, WordFacts DEF Count
    <2>3. Timing!Later(i) = TimeAt(x + 1, 0)
      BY <1>1, <1>2, <1>4, <2>1, <2>2, IncSeconds, WordFacts DEF Timing!Later, Timing!Time, TimeAt
    <2>4. (x + 1) * Nanos = x * Nanos + Nanos
      BY <1>2, WordFacts
    <2>5. (x + 1) * Nanos + 0 = Timing!Value(i) + 1
      BY <1>1, <1>2, <2>1, <2>4, WordFacts
    <2>6. (x + 1) * Nanos + 0 \in 0 .. Word * Nanos - 1
      BY <1>1, <1>2, <2>1, <2>4, <2>5, WordFacts
    <2>7. x + 1 \in Int /\ 0 \in 0 .. Nanos - 1
      BY <1>2, WordFacts
    <2> QED
      BY <2>3, <2>5, <2>6, <2>7, IsInstant
  <1>5. CASE ~(n + 1 >= Nanos)
    <2>1. n + 1 \in 0 .. Nanos - 1
      BY <1>2, <1>5, WordFacts
    <2>2. Timing!Later(i) = TimeAt(x, n + 1)
      BY <1>1, <1>5 DEF Timing!Later, Timing!Time, TimeAt
    <2>3. x * Nanos + (n + 1) = Timing!Value(i) + 1
      BY <1>1, <1>2
    <2>4. x * Nanos + (n + 1) \in 0 .. Word * Nanos - 1
      BY <1>1, <1>2, <2>3
    <2> QED
      BY <1>2, <2>1, <2>2, <2>3, <2>4, IsInstant
  <1> QED
    BY <1>4, <1>5

(* An adjustment by less than a second moves either clock by just that.    *)
LEMMA AdjustStep ==
  ASSUME Word >= 8, clock \in Instant, macstsur = 0, kind \in {"hard", "soft"},
         NEW ns \in -Nanos + 1 .. Nanos - 1,
         Timing!Value(clock) + ns \in 0 .. Word * Nanos - 1, Timing!Adjust(ns)
  PROVE  /\ clock' \in Instant /\ Timing!Value(clock') = Timing!Value(clock) + ns
         /\ macstsur' = 0
  <1>1. PICK x \in 0 .. Word - 1, n \in 0 .. Nanos - 1 :
           /\ clock.ns = n /\ clock = TimeAt(x, n)
           /\ Timing!Value(clock) = x * Nanos + n /\ clock.sec = SecondsOf(x)
    BY InstantFields
  <1>2. /\ x \in Int /\ n \in Int /\ n >= 0 /\ n < Nanos /\ x * Nanos \in Int
           /\ Word * Nanos \in Int
        /\ ns \in Int /\ ns > -Nanos /\ ns < Nanos
    BY <1>1, WordFacts
  <1>3. macstsur' = 0
    BY DEF Timing!Adjust
  <1>4. CASE kind = "soft"
    <2>1. clock' = Timing!SoftAdjusted(ns)
      BY <1>4 DEF Timing!Adjust
    <2>2. Timing!Clamped(ns) = ns
      BY <1>2, WordFacts DEF Timing!Clamped
    <2>3. x \in Count /\ x - 1 \in Count /\ x + 1 \in Count
      BY <1>1, WordFacts DEF Count
    <2>4. (x + 1) * Nanos = x * Nanos + Nanos /\ (x - 1) * Nanos = x * Nanos - Nanos
      BY <1>2, WordFacts
    <2>5. PICK y \in Int, m \in 0 .. Nanos - 1 :
             /\ Timing!SoftAdjusted(ns) = TimeAt(y, m)
             /\ y * Nanos + m = x * Nanos + n + ns
      <3>1. CASE n + ns >= Nanos
        <4>1. Timing!SoftAdjusted(ns) = TimeAt(x + 1, n + ns - Nanos)
          BY <1>1, <1>2, <2>2, <2>3, <3>1, IncSeconds, WordFacts
             DEF Timing!SoftAdjusted, Timing!Time, TimeAt
        <4>2. (x + 1) * Nanos + (n + ns - Nanos) = x * Nanos + n + ns
          BY <1>2, <2>4, WordFacts
        <4>3. x + 1 \in Int /\ n + ns - Nanos \in 0 .. Nanos - 1
          BY <1>2, <3>1, WordFacts
        <4> QED
          BY <4>1, <4>2, <4>3
      <3>2. CASE n + ns < 0
        <4>1. Timing!SoftAdjusted(ns) = TimeAt(x - 1, n + ns + Nanos)
          BY <1>1, <1>2, <2>2, <2>3, <3>2, DecSeconds, WordFacts
             DEF Timing!SoftAdjusted, Timing!Time, TimeAt
        <4>2. (x - 1) * Nanos + (n + ns + Nanos) = x * Nanos + n + ns
          BY <1>2, <2>4, WordFacts
        <4>3. x - 1 \in Int /\ n + ns + Nanos \in 0 .. Nanos - 1
          BY <1>2, <3>2, WordFacts
        <4> QED
          BY <4>1, <4>2, <4>3
      <3>3. CASE n + ns >= 0 /\ n + ns < Nanos
        <4>1. Timing!SoftAdjusted(ns) = TimeAt(x, n + ns)
          BY <1>1, <1>2, <2>2, <3>3, WordFacts DEF Timing!SoftAdjusted, Timing!Time, TimeAt
        <4>2. x * Nanos + (n + ns) = x * Nanos + n + ns /\ n + ns \in 0 .. Nanos - 1
          BY <1>2, <3>3, WordFacts
        <4> QED
          BY <1>2, <4>1, <4>2
      <3> QED
        BY <1>2, <3>1, <3>2, <3>3, WordFacts
    <2>6. y * Nanos + m \in 0 .. Word * Nanos - 1
      BY <1>1, <2>5
    <2> QED
      BY <1>1, <1>3, <2>1, <2>5, <2>6, IsInstant
  <1>5. CASE kind = "hard"
    <2>1. PICK v \in 0 .. Word * Nanos - 1 : v = Timing!Value(clock) + ns
      OBVIOUS
    <2>2. Timing!Value(clock) \in Int /\ v \in Int /\ v \in Nat /\ v < Word * Nanos
      <3>1. Timing!Value(clock) \in Int /\ v \in Int
        BY InstantValue, InstantOf
      <3> QED
        BY <3>1, WordFacts
    <2>3. v % (Word * Nanos) = v
      <3>1. PICK k \in Nat : k = Word * Nanos
        BY WordFacts
      <3>2. PICK q \in Int, r \in Nat : q = 0 /\ r = v
        BY <2>2
      <3>3. v = q * k + r /\ r < k
        BY <2>2, <3>1, <3>2
      <3>4. v % k = r
        BY <3>3, IntDivMod
      <3> QED
        BY <3>1, <3>2, <3>4
    <2>4. CASE ns >= 0
      <3>1. clock' = Timing!Update(FALSE, 0, ns)
        <4>1. ~(ns < 0) /\ ~(kind = "soft")
          BY <1>5, <1>2, <2>4
        <4>2. clock' = Timing!Update(FALSE, macstsur, ns)
          BY <1>5, <2>4, <4>1 DEF Timing!Adjust
        <4> QED
          BY <4>2
      <3>2. Timing!Value(clock) + 0 * Nanos + ns = v
        BY <1>2, <2>1, <2>2, WordFacts
      <3>3. clock' = Timing!TimeOf(v)
        BY <2>3, <3>1, <3>2 DEF Timing!Update
      <3> QED
        BY <1>3, <2>1, <3>3, InstantOf
    <2>5. CASE ns < 0
      <3>1. clock' = Timing!Update(TRUE, 0, Nanos + ns)
        BY <1>5, <1>2, <2>5 DEF Timing!Adjust
      <3>2. (Word - 0) % Word = 0
        <4>1. Word - 0 = 1 * Word + 0 /\ Word - 0 \in Int
          BY WordFacts
        <4>2. 0 \in Nat /\ 0 < Word /\ Word \in Nat
          BY WordFacts
        <4> QED
          BY <4>1, <4>2, IntDivMod
      <3>3. Timing!Value(clock) - 0 * Nanos - (Nanos - (Nanos + ns)) = v
        BY <1>2, <2>1, <2>2, WordFacts
      <3>4. clock' = Timing!TimeOf(v)
        BY <2>3, <3>1, <3>2, <3>3 DEF Timing!Update
      <3> QED
        BY <1>3, <2>1, <3>4, InstantOf
    <2> QED
      BY <1>2, <2>4, <2>5
  <1> QED
    BY <1>4, <1>5

(* Setting either clock to a time of the clock sets it to that time.       *)
LEMMA SetStep ==
  ASSUME Word >= 8, macstsur = 0, NEW i \in Instant, Timing!Set(i)
  PROVE  clock' = i /\ macstsur' = 0
  <1>1. i.sec.low \in 0 .. Word - 1 /\ i = TimeAt(i.sec.low, i.ns)
    BY InstantValue
  <1>2. PICK x \in 0 .. Word - 1 : x = i.sec.low
    BY <1>1
  <1>3. x \in Count /\ x \in Int /\ x + 0 * Word \in 0 .. Word - 1 /\ x = 0 * Word + x + 0 * Word
    BY WordFacts DEF Count
  <1>4. Timing!Seconds(0, x) = SecondsOf(x)
    BY <1>3, Stored
  <1>5. Timing!Time(Timing!Seconds(0, i.sec.low), i.ns) = i
    BY <1>1, <1>2, <1>4 DEF Timing!Time, TimeAt
  <1> QED
    BY <1>5 DEF Timing!Set

(* A reading and the offset added up in two steps, the nanoseconds first.  *)
LEMMA JumpTo ==
  ASSUME Word >= 8, NEW i \in Instant, NEW v \in Amounts(1),
         Timing!Value(i) + v \in 0 .. Word * Nanos - 1
  PROVE  LET c == Timing!Carried(Timing!Time(i.sec, i.ns + SignedTime(v).ns))
             j == Timing!Time(Timing!add64(c.sec, SignedTime(v).sec), c.ns)
         IN  j \in Instant /\ Timing!Value(j) = Timing!Value(i) + v
  <1>0. v \in Int
    BY WordFacts DEF Amounts
  <1>1. PICK x \in 0 .. Word - 1, n \in 0 .. Nanos - 1 :
           i = TimeAt(x, n) /\ Timing!Value(i) = x * Nanos + n /\ i.sec = SecondsOf(x) /\ i.ns = n
    BY InstantFields
  <1>2. PICK y \in Int, m \in Int :
           SignedTime(v) = TimeAt(y, m) /\ v = y * Nanos + m /\ Normal(y, m)
    BY <1>0, SignedFields
  <1>3. y \in -Word .. Word /\ m > -Nanos /\ m < Nanos
    <2>1. y \in -(1 * Word) .. 1 * Word
      BY <1>2, SecondsInRange
    <2> QED
      BY <1>2, <2>1, WordFacts DEF Normal
  <1>4. x \in Int /\ n \in Int /\ n >= 0 /\ n < Nanos
    BY WordFacts
  <1> DEFINE s == n + m
  <1>s. s \in Int /\ s > -Nanos /\ s < 2 * Nanos /\ s = n + m
    BY <1>2, <1>3, <1>4, WordFacts
  <1> HIDE DEF s
  <1>5. PICK z \in x - 1 .. x + 1, o \in 0 .. Nanos - 1 :
           /\ Timing!Carried(TimeAt(x, s)) = TimeAt(z, o)
           /\ z * Nanos + o = x * Nanos + s
    <2>1. TimeAt(x, s).ns = s
      BY DEF TimeAt
    <2>2. x \in Count /\ x - 1 \in Count /\ x + 1 \in Count
      BY WordFacts DEF Count
    <2>3. CASE s < 0
      <3>1. Timing!Carried(TimeAt(x, s)) = TimeAt(x - 1, s + Nanos)
        <4>1. Timing!Carried(TimeAt(x, s)) = Timing!Borrow(TimeAt(x, s))
          BY <1>s, <2>1, <2>3, WordFacts DEF Timing!Carried
        <4>2. Timing!Borrow(TimeAt(x, s)) = TimeAt(x - 1, s + Nanos)
          BY <1>4, <1>s, <2>2, CarryBorrow
        <4> QED
          BY <4>1, <4>2
      <3>2. (x - 1) * Nanos + (s + Nanos) = x * Nanos + s
        BY <1>4, <1>s, CarryBorrow
      <3>3. x - 1 \in x - 1 .. x + 1 /\ s + Nanos \in 0 .. Nanos - 1
        BY <1>4, <1>s, <2>3, WordFacts
      <3> QED
        BY <3>1, <3>2, <3>3
    <2>4. CASE s >= Nanos
      <3>1. Timing!Carried(TimeAt(x, s)) = TimeAt(x + 1, s - Nanos)
        <4>1. Timing!Carried(TimeAt(x, s)) = Timing!CarryOver(TimeAt(x, s))
          BY <1>s, <2>1, <2>4, WordFacts DEF Timing!Carried
        <4>2. Timing!CarryOver(TimeAt(x, s)) = TimeAt(x + 1, s - Nanos)
          BY <1>4, <1>s, <2>2, CarryBorrow
        <4> QED
          BY <4>1, <4>2
      <3>2. (x + 1) * Nanos + (s - Nanos) = x * Nanos + s
        BY <1>4, <1>s, CarryBorrow
      <3>3. x + 1 \in x - 1 .. x + 1 /\ s - Nanos \in 0 .. Nanos - 1
        BY <1>4, <1>s, <2>4, WordFacts
      <3> QED
        BY <3>1, <3>2, <3>3
    <2>5. CASE s >= 0 /\ s < Nanos
      <3>1. Timing!Carried(TimeAt(x, s)) = TimeAt(x, s)
        BY <1>4, <1>s, <2>1, <2>5, WordFacts DEF Timing!Carried
      <3>2. x \in x - 1 .. x + 1 /\ s \in 0 .. Nanos - 1
        BY <1>4, <1>s, <2>5, WordFacts
      <3> QED
        BY <3>1, <3>2
    <2> QED
      BY <1>4, <1>s, <2>3, <2>4, <2>5, WordFacts
  <1>6. z \in Count /\ y \in Count /\ z + y \in Count /\ z \in Int /\ o \in Int
    BY <1>3, <1>4, WordFacts DEF Count
  <1>7. (z + y) * Nanos + o = Timing!Value(i) + v
    <2>1. (z + y) * Nanos = z * Nanos + y * Nanos
      BY <1>2, <1>6, WordFacts
    <2>2. z * Nanos \in Int /\ y * Nanos \in Int /\ x * Nanos \in Int
      BY <1>2, <1>4, <1>6, WordFacts
    <2> QED
      BY <1>1, <1>2, <1>4, <1>5, <1>s, <1>6, <2>1, <2>2
  <1>8. TimeAt(z + y, o) \in Instant /\ Timing!Value(TimeAt(z + y, o)) = (z + y) * Nanos + o
    BY <1>2, <1>6, <1>7, IsInstant
  <1>9. Timing!Time(i.sec, i.ns + SignedTime(v).ns) = TimeAt(x, s)
    BY <1>1, <1>2, <1>s DEF Timing!Time, TimeAt
  <1>10. Timing!Time(Timing!add64(TimeAt(z, o).sec, SignedTime(v).sec), TimeAt(z, o).ns)
           = TimeAt(z + y, o)
    BY <1>2, <1>6, AddSeconds DEF Timing!Time, TimeAt
  <1> QED
    BY <1>5, <1>7, <1>8, <1>9, <1>10

-------------------------------------------------------------------------------
(* The clock's times fit the low half of the seconds, however the requests *)
(* go: the master's from its start on, with the error that a reading across *)
(* two seconds may cause, and the client's setting.                         *)
ClockFits ==
  /\ Word >= 8 /\ MaxTicks \in Nat
  /\ \A s \in Starts : s \in Nat /\ s + 2 * MaxTicks + 2 * Nanos < Word * Nanos
  /\ \A v \in Settings : v \in Nat /\ v + MaxTicks < Word * Nanos

Amount(r) == Timing!Value(clock_times[r])
Error == Timing!Value(clock) - now

(* How far a reading is ahead of the clock when the reading began: a       *)
(* second, at most, of which the time until u is left; not at all unless it *)
(* was torn.                                                                *)
Lead(r) == Amount(r) - at[r] - Error
Ahead(r, u) ==
  /\ 0 <= Lead(r) /\ Lead(r) <= Nanos - 1 + u - at[r]
  /\ ~torn => Lead(r) = 0

(* The client's own clock, copied for t3, may also be behind: by a second   *)
(* at most, to which comes the time that the copy had taken when its        *)
(* nanoseconds were read.                                                   *)
Around(u) ==
  /\ at["t2"] - at["t3"] - (Nanos - 1) <= Lead("t3")
  /\ Lead("t3") <= Nanos - 1 + u - at["t3"]
  /\ ~torn => Lead("t3") = 0

ClockTypes ==
  /\ kind \in {"hard", "soft"} /\ half \in BOOLEAN /\ torn \in BOOLEAN
  /\ clock_pc \in {"init", "idle", "t2", "t3", "copy", "t4", "response", "current", "set"}
  /\ words \in SUBSET Timing!Words
  /\ now \in Int /\ ticks \in 0 .. MaxTicks /\ now - ticks \in Starts /\ requests \in Nat
  /\ clock \in Instant /\ macstsur = 0
  /\ clock_times \in [Timing!Times -> Instant] /\ at \in [Timing!Times -> Int]
  /\ began \in Int /\ lost \in Int

(* The clock is as far from its end as ticks may come.                     *)
Room == Timing!Value(clock) - ticks < Word * Nanos - MaxTicks

Initially == clock_pc = "init" => ticks = 0 /\ requests = 0 /\ ~half

(* Until a request is applied: when its times were taken, and what the     *)
(* readings are.                                                            *)
Requested ==
  clock_pc \notin {"init", "idle"} =>
    lost = 0 /\ Amount("t1") = at["t1"] /\ now - ticks <= at["t1"] /\ at["t1"] <= now

FirstRead ==
  /\ clock_pc = "t2" /\ half => at["t1"] <= at["t2"] /\ at["t2"] <= now
  /\ clock_pc = "t3" =>
       /\ at["t1"] <= at["t2"]
       /\ half => at["t2"] <= at["t3"] /\ at["t3"] <= now /\ Ahead("t2", at["t3"])
       /\ ~half => at["t2"] <= now /\ Ahead("t2", now)
  /\ clock_pc = "copy" =>
       at["t1"] <= at["t2"] /\ at["t2"] <= at["t3"] /\ at["t3"] <= now /\ Ahead("t2", at["t3"])

BothRead ==
  /\ clock_pc = "t4" =>
       /\ at["t1"] <= at["t2"] /\ at["t2"] <= at["t3"] /\ at["t3"] <= now
       /\ Ahead("t2", at["t3"]) /\ Around(now)
  /\ clock_pc \in {"response", "current", "set"} =>
       /\ at["t1"] <= at["t2"] /\ at["t2"] <= at["t3"] /\ at["t3"] <= at["t4"] /\ at["t4"] <= now
       /\ Ahead("t2", at["t3"]) /\ Around(at["t4"]) /\ Amount("t4") = at["t4"]

Lag == (Amount("t4") - Amount("t3")) - (Amount("t2") - Amount("t1"))

Setting ==
  /\ clock_pc \in {"current", "set"} =>
       clock_times["t1"].sec # Timing!Zero /\ clock_offset = SignedTime(HalfOf(Lag))
  /\ clock_pc = "current" /\ half => at["t4"] <= at["current"] /\ at["current"] <= now
  /\ clock_pc = "set" =>
       at["t4"] <= at["current"] /\ at["current"] <= now /\ Ahead("current", now)

LastReading ==
  /\ half =>
       /\ kind = "hard" /\ clock_pc \in Timing!Readings
       /\ began = at[clock_pc] + Error /\ began \in 0 .. Word * Nanos - 1
       /\ clock_times[clock_pc].ns = began % Nanos
  /\ ~half =>
       /\ clock_pc = "t3" => began = at["t2"] + Error
       /\ clock_pc = "t4" => began - (IF kind = "soft" THEN Nanos - 1 ELSE 0) <= Amount("t3")
       /\ clock_pc = "set" => began = at["current"] + Error

(* What was copied of the client's own clock: seconds that it had since     *)
(* the copy began, and the nanoseconds that it had when they were read.     *)
Copying ==
  clock_pc = "copy" =>
    /\ kind = "soft" /\ began \in 0 .. Word * Nanos - 1
    /\ at["t2"] + Error <= began /\ began <= at["t3"] + Error
    /\ "low" \notin words =>
         /\ clock_times["t3"].sec.low * Nanos <= Timing!Value(clock)
         /\ began < clock_times["t3"].sec.low * Nanos + Nanos
    /\ "ns" \notin words => clock_times["t3"].ns = (at["t3"] + Error) % Nanos

Stages == Requested /\ FirstRead /\ BothRead /\ Setting /\ LastReading /\ Copying
ClockInv == ClockTypes /\ Room /\ Initially /\ Stages /\ Timing!SetByRequest

LEMMA OffsetIs ==
  ASSUME Word >= 8, clock_times \in [Timing!Times -> Instant]
  PROVE  /\ Lag \in Int /\ HalfOf(Lag) \in Int /\ 2 * HalfOf(Lag) - Lag \in -1 .. 1
         /\ HalfOf(Lag) \in Amounts(1) /\ Timing!Offset = SignedTime(HalfOf(Lag))
  <1>1. ASSUME NEW r \in Timing!Times
        PROVE  /\ clock_times[r] = SignedTime(Amount(r)) /\ Amount(r) \in Int
               /\ 0 <= Amount(r) /\ Amount(r) <= Word * Nanos - 1
    <2>1. clock_times[r] \in Instant
      BY <1>1
    <2>2. Amount(r) \in 0 .. Word * Nanos - 1 /\ clock_times[r] = SignedTime(Amount(r))
          /\ Amount(r) \in Int
      BY <2>1, InstantValue DEF Amount
    <2> QED
      BY <2>2, WordFacts
  <1>2. {"t1", "t2", "t3", "t4"} \subseteq Timing!Times
    BY DEF Timing!Times, Timing!Readings
  <1> DEFINE late == Amount("t4") - Amount("t3")
             early == Amount("t2") - Amount("t1")
  <1>3. PICK k \in Nat : k = Word * Nanos
    BY WordFacts
  <1>4. /\ Amount("t1") \in Amounts(1) /\ Amount("t2") \in Amounts(1)
        /\ Amount("t3") \in Amounts(1) /\ Amount("t4") \in Amounts(1)
    BY <1>1, <1>2, <1>3 DEF Amounts
  <1>5. /\ late \in Int /\ early \in Int /\ Lag \in Int /\ Lag = late - early
        /\ late \in Amounts(1) /\ early \in Amounts(1)
    BY <1>1, <1>2, <1>3 DEF Amounts, Lag
  <1>6. Lag \in Amounts(2)
    BY <1>1, <1>2, <1>3, <1>5 DEF Amounts, Lag
  <1>7. HalfOf(Lag) \in Int /\ 2 * HalfOf(Lag) - Lag \in -1 .. 1
    BY <1>5, HalfBound
  <1>8. HalfOf(Lag) \in Amounts(1)
    <2>1. -(2 * k) <= Lag /\ Lag <= 2 * k
      BY <1>3, <1>5, <1>6 DEF Amounts
    <2>2. PICK g \in Int : g = Lag
      BY <1>5
    <2>3. HalfOf(g) \in -k .. k
      BY <2>1, <2>2 DEF HalfOf
    <2> QED
      BY <1>3, <2>2, <2>3 DEF Amounts
  <1>9. Timing!time_diff(clock_times["t4"], clock_times["t3"]) = SignedTime(late)
    BY <1>1, <1>2, <1>4, DiffOf
  <1>10. Timing!time_diff(clock_times["t2"], clock_times["t1"]) = SignedTime(early)
    BY <1>1, <1>2, <1>4, DiffOf
  <1> HIDE DEF late, early
  <1>11. Timing!time_diff(SignedTime(late), SignedTime(early)) = SignedTime(Lag)
    BY <1>5, DiffOf
  <1>12. Timing!Offset = SignedTime(HalfOf(Lag))
    BY <1>6, <1>9, <1>10, <1>11, HalfOfTime DEF Timing!Offset
  <1> QED
    BY <1>5, <1>7, <1>8, <1>12

LEMMA Differences ==
  ASSUME Word >= 8, clock_times \in [Timing!Times -> Instant]
  PROVE  Timing!DifferencesExact
  <1> SUFFICES ASSUME NEW a \in Timing!Times, NEW b \in Timing!Times
               PROVE  LET d == Timing!time_diff(clock_times[a], clock_times[b])
                      IN  /\ Timing!Value(d) = Timing!Value(clock_times[a]) - Timing!Value(clock_times[b])
                          /\ d.sec.high < 0 => d.ns <= 0
                          /\ d.sec.high >= 0 /\ d.sec # Timing!Zero => d.ns >= 0
                          /\ Timing!time_sum(d, clock_times[b]) = clock_times[a]
    BY DEF Timing!DifferencesExact
  <1> DEFINE u == Amount(a)
             v == Amount(b)
             d == Timing!time_diff(clock_times[a], clock_times[b])
  <1>1. /\ clock_times[a] = SignedTime(u) /\ u \in Int /\ u \in Amounts(1)
           /\ u \in 0 .. Word * Nanos - 1
        /\ clock_times[b] = SignedTime(v) /\ v \in Int /\ v \in Amounts(1)
           /\ v \in 0 .. Word * Nanos - 1
    <2>1. clock_times[a] \in Instant /\ clock_times[b] \in Instant
      OBVIOUS
    <2> QED
      BY <2>1, InstantValue DEF Amount
  <1> HIDE DEF u, v
  <1>2. d = SignedTime(u - v)
    BY <1>1, DiffOf
  <1>3. u - v \in Amounts(1) /\ u - v \in Int /\ (u - v) + v = u
    <2>1. PICK k \in Nat : k = Word * Nanos
      BY WordFacts
    <2> QED
      BY <1>1, <2>1 DEF Amounts
  <1> HIDE DEF d
  <1>4. Timing!time_sum(d, clock_times[b]) = clock_times[a]
    BY <1>1, <1>2, <1>3, SumOf
  <1>5. PICK x \in Int, n \in Int :
           SignedTime(u - v) = TimeAt(x, n) /\ u - v = x * Nanos + n /\ Normal(x, n)
    BY <1>3, SignedFields
  <1>6. x \in Count
    <2>1. x \in -(1 * Word) .. 1 * Word
      BY <1>3, <1>5, SecondsInRange
    <2> QED
      BY <2>1, WordFacts DEF Count
  <1>7. d.sec = SecondsOf(x) /\ d.ns = n /\ Timing!Value(d) = x * Nanos + n
    BY <1>2, <1>5, <1>6, ValueAt DEF TimeAt
  <1>8. SecondsOf(x).high \in Int /\ (SecondsOf(x).high < 0 <=> x < 0)
        /\ (SecondsOf(x) = Timing!Zero <=> x = 0)
    BY <1>6, SignOf, HighOf DEF SecondsOf
  <1>9. (d.sec.high < 0 => d.ns <= 0) /\ (d.sec.high >= 0 /\ d.sec # Timing!Zero => d.ns >= 0)
    BY <1>5, <1>7, <1>8 DEF Normal
  <1>10. Timing!Value(d) = Timing!Value(clock_times[a]) - Timing!Value(clock_times[b])
    BY <1>5, <1>7 DEF Amount, u, v
  <1> QED
    BY <1>4, <1>9, <1>10 DEF d

LEMMA ClockFacts ==
  ASSUME ClockFits, ClockTypes
  PROVE  /\ Word >= 8 /\ Nanos \in Nat /\ Nanos >= 2 /\ Word * Nanos \in Nat /\ MaxTicks \in Nat
         /\ Timing!Value(clock) \in Int /\ 0 <= Timing!Value(clock)
         /\ Timing!Value(clock) < Word * Nanos /\ Error \in Int
         /\ now \in Int /\ ticks \in Int /\ 0 <= ticks /\ ticks <= MaxTicks /\ 0 <= now - ticks
         /\ now - ticks + 2 * MaxTicks + 2 * Nanos < Word * Nanos
         /\ \A r \in {"t1", "t2", "t3", "t4", "current"} :
              /\ r \in Timing!Times /\ Amount(r) \in Int /\ at[r] \in Int /\ Lead(r) \in Int
              /\ 0 <= Amount(r) /\ Amount(r) < Word * Nanos
  <1>1. Word >= 8 /\ Nanos \in Nat /\ Nanos >= 2 /\ Word * Nanos \in Nat /\ MaxTicks \in Nat
    BY WordFacts DEF ClockFits
  <1>2. /\ Timing!Value(clock) \in Int /\ 0 <= Timing!Value(clock)
        /\ Timing!Value(clock) < Word * Nanos
    <2>1. Timing!Value(clock) \in Int /\ Timing!Value(clock) \in 0 .. Word * Nanos - 1
      BY <1>1, InstantValue DEF ClockTypes
    <2> QED
      BY <1>1, <2>1
  <1>3. now \in Int /\ ticks \in Int /\ 0 <= ticks /\ ticks <= MaxTicks /\ now - ticks \in Starts
    BY <1>1 DEF ClockTypes
  <1>4. PICK s \in Nat : s = now - ticks /\ s + 2 * MaxTicks + 2 * Nanos < Word * Nanos
    BY <1>3 DEF ClockFits
  <1>5. Error \in Int
    BY <1>2, <1>3 DEF Error
  <1>6. ASSUME NEW r \in {"t1", "t2", "t3", "t4", "current"}
        PROVE  /\ r \in Timing!Times /\ Amount(r) \in Int /\ at[r] \in Int /\ Lead(r) \in Int
               /\ 0 <= Amount(r) /\ Amount(r) < Word * Nanos
    <2>1. r \in Timing!Times
      BY <1>6 DEF Timing!Times, Timing!Readings
    <2>2. clock_times[r] \in Instant /\ at[r] \in Int
      BY <2>1 DEF ClockTypes
    <2>3. Amount(r) \in Int /\ Amount(r) \in 0 .. Word * Nanos - 1
      BY <1>1, <2>2, InstantValue DEF Amount
    <2> QED
      BY <1>1, <1>5, <2>1, <2>2, <2>3 DEF Lead
  <1> QED
    BY <1>1, <1>2, <1>3, <1>4, <1>5, <1>6

LEMMA ClockInit == ClockFits /\ DevicesInit => ClockInv
  <1> SUFFICES ASSUME ClockFits, Timing!Init PROVE ClockInv
    BY DEF DevicesInit
  <1> DEFINE zero == Timing!Time(Timing!Zero, 0)
  <1>1. 0 \in 0 .. Word * Nanos - 1 /\ Word >= 8
    <2>1. PICK w \in Nat : Word = 1 + w
      BY WordFacts
    <2>2. Word * Nanos = Nanos + w * Nanos /\ w * Nanos \in Nat
      BY <2>1, WordFacts
    <2> QED
      BY <2>2, WordFacts DEF ClockFits
  <1>2. zero \in Instant /\ Timing!Value(zero) = 0
    <2>1. 0 \in 0 .. Word - 1 /\ 0 \in 0 .. Nanos - 1
      BY WordFacts
    <2>2. TimeAt(0, 0) \in Instant /\ Timing!Value(TimeAt(0, 0)) = 0
      <3>1. Timing!Value(TimeAt(0, 0)) = 0 * Nanos + 0
        BY <2>1, InstantAt
      <3> QED
        BY <2>1, <3>1, WordFacts DEF Instant
    <2>3. Timing!Zero = SecondsOf(0)
      <3>1. 0 \in Count
        BY WordFacts DEF Count
      <3> QED
        BY <1>1, <3>1, SignOf
    <2> QED
      BY <2>2, <2>3 DEF Timing!Time, TimeAt
  <1>3. now \in Starts /\ now \in Nat /\ now + 2 * MaxTicks + 2 * Nanos < Word * Nanos
        /\ MaxTicks \in Nat
    BY DEF Timing!Init, ClockFits
  <1>4. /\ clock_pc = "init" /\ half = FALSE /\ words = {} /\ clock = zero /\ ticks = 0 /\ requests = 0
           /\ macstsur = 0
        /\ kind \in {"hard", "soft"} /\ torn = FALSE /\ began = 0 /\ lost = 0
        /\ clock_times = [r \in Timing!Times |-> zero] /\ at = [r \in Timing!Times |-> 0]
    BY DEF Timing!Init
  <1> HIDE DEF zero
  <1>5. ClockTypes
    <2>1. clock_times \in [Timing!Times -> Instant] /\ at \in [Timing!Times -> Int]
      BY <1>2, <1>4
    <2>2. now - ticks \in Starts /\ ticks \in 0 .. MaxTicks /\ now \in Int /\ requests \in Nat
      BY <1>3, <1>4
    <2>3. half \in BOOLEAN /\ torn \in BOOLEAN
      BY <1>4
    <2> QED
      BY <1>2, <1>4, <2>1, <2>2, <2>3 DEF ClockTypes
  <1>6. Room
    BY <1>2, <1>3, <1>4, WordFacts DEF Room
  <1>7. Stages
    BY <1>4 DEF Stages, Requested, FirstRead, BothRead, Setting, LastReading, Copying
  <1> QED
    BY <1>4, <1>5, <1>6, <1>7 DEF ClockInv, Initially, Timing!SetByRequest

(* The clock's error, and with it every lead, stays while nobody sets it.  *)
LEMMA TickStep ==
  ASSUME ClockFits, ClockInv, Timing!Tick
  PROVE  ClockInv'
  <1>0. /\ clock_pc # "init" /\ ticks < MaxTicks /\ ticks' = ticks + 1 /\ now' = now + 1
        /\ clock' = Timing!Later(clock)
        /\ UNCHANGED <<kind, macstsur, clock_pc, half, words, clock_times, clock_offset, requests, at,
                       began, torn, lost>>
    BY DEF Timing!Tick
  <1>1. ClockTypes /\ Room
    BY DEF ClockInv
  <1> USE ClockFacts
  <1>2. clock' \in Instant /\ Timing!Value(clock') = Timing!Value(clock) + 1
    <2>1. clock \in Instant /\ Timing!Value(clock) + 1 < Word * Nanos
      BY <1>0, <1>1 DEF Room, ClockTypes
    <2> QED
      BY <1>0, <1>1, <2>1, LaterIs
  <1>3. Error' = Error /\ \A r : Amount(r)' = Amount(r) /\ at'[r] = at[r] /\ Lead(r)' = Lead(r)
    BY <1>0, <1>1, <1>2 DEF Error, Amount, Lead
  <1>4. ClockTypes'
    BY <1>0, <1>1, <1>2 DEF ClockTypes
  <1>5. Room'
    BY <1>0, <1>1, <1>2 DEF Room
  <1>6. Requested' /\ FirstRead' /\ BothRead' /\ Setting' /\ LastReading' /\ Copying'
    <2>1. Requested /\ FirstRead /\ BothRead /\ Setting /\ LastReading /\ Copying
      BY DEF ClockInv, Stages
    <2>2. Requested'
      BY <1>0, <1>1, <1>3, <2>1 DEF Requested
    <2>3. FirstRead'
      BY <1>0, <1>1, <1>3, <2>1 DEF FirstRead, Ahead
    <2>4. BothRead'
      BY <1>0, <1>1, <1>3, <2>1 DEF BothRead, Ahead, Around
    <2>5. Setting'
      BY <1>0, <1>1, <1>3, <2>1 DEF Setting, Ahead, Lag
    <2>6. LastReading'
      BY <1>0, <1>1, <1>3, <2>1 DEF LastReading
    <2>7. Copying'
      <3>1. CASE clock_pc = "copy"
        <4>1. PICK x \in Int : x = clock_times["t3"].sec.low * Nanos
          <5>1. clock_times["t3"] \in Instant
            BY <1>1 DEF ClockTypes, Timing!Times, Timing!Readings
          <5>2. PICK y \in 0 .. Word - 1 : y = clock_times["t3"].sec.low
            BY <5>1, InstantFields
          <5> QED
            BY <5>2, WordFacts
        <4>2. /\ kind' = "soft" /\ began' \in 0 .. Word * Nanos - 1
              /\ at'["t2"] + Error' <= began' /\ began' <= at'["t3"] + Error'
              /\ "ns" \notin words' => clock_times'["t3"].ns = (at'["t3"] + Error') % Nanos
          BY <1>0, <1>3, <2>1, <3>1 DEF Copying
        <4>3. "low" \notin words' => x <= Timing!Value(clock') /\ began' < x + Nanos
          <5>1. "low" \notin words => x <= Timing!Value(clock) /\ began < x + Nanos
            BY <2>1, <3>1, <4>1 DEF Copying
          <5>2. x <= Timing!Value(clock) => x <= Timing!Value(clock')
            BY <1>1, <1>2
          <5> QED
            BY <1>0, <5>1, <5>2
        <4> QED
          BY <1>0, <4>1, <4>2, <4>3 DEF Copying
      <3>2. CASE clock_pc # "copy"
        BY <1>0, <3>2 DEF Copying
      <3> QED
        BY <3>1, <3>2
    <2> QED
      BY <2>2, <2>3, <2>4, <2>5, <2>6, <2>7
  <1>7. Timing!SetByRequest'
    <2>1. Timing!SetByRequest
      BY DEF ClockInv
    <2> QED
      BY <1>0, <1>1, <1>2, <2>1 DEF Timing!SetByRequest
  <1> QED
    BY <1>0, <1>4, <1>5, <1>6, <1>7 DEF ClockInv, Initially, Stages

LEMMA StartStep ==
  ASSUME ClockFits, ClockInv, Timing!Start
  PROVE  ClockInv'
  <1>1. ClockTypes /\ Initially /\ Room
    BY DEF ClockInv
  <1>2. PICK v \in Settings : Timing!Set(Timing!TimeOf(v))
    BY DEF Timing!Start
  <1>3. /\ clock_pc = "init" /\ clock_pc' = "idle"
        /\ UNCHANGED <<kind, now, half, words, clock_times, clock_offset, ticks, requests, at, began, torn, lost>>
    BY DEF Timing!Start
  <1> USE ClockFacts
  <1>4. v \in 0 .. Word * Nanos - 1 /\ v \in Nat /\ v + MaxTicks < Word * Nanos
    BY <1>1 DEF ClockFits
  <1>5. Timing!TimeOf(v) \in Instant /\ Timing!Value(Timing!TimeOf(v)) = v
    BY <1>1, <1>4, InstantOf
  <1>6. clock' = Timing!TimeOf(v) /\ macstsur' = 0
    BY <1>1, <1>2, <1>5, SetStep DEF ClockTypes
  <1>7. ClockTypes'
    BY <1>1, <1>3, <1>5, <1>6 DEF ClockTypes
  <1>8. Room'
    BY <1>1, <1>3, <1>4, <1>5, <1>6 DEF Room, Initially
  <1>9. requests' = 0 /\ ~half'
    BY <1>1, <1>3 DEF Initially
  <1>10. Stages'
    BY <1>3, <1>9 DEF Stages, Requested, FirstRead, BothRead, Setting, LastReading, Copying
  <1> QED
    BY <1>3, <1>7, <1>8, <1>9, <1>10 DEF ClockInv, Initially, Timing!SetByRequest

LEMMA SyncStep ==
  ASSUME ClockFits, ClockInv, Timing!Sync
  PROVE  ClockInv'
  <1>0. /\ clock_pc = "idle" /\ clock_pc' = "t2"
        /\ clock_times' = [clock_times EXCEPT !["t1"] = Timing!TimeOf(now)]
        /\ at' = [at EXCEPT !["t1"] = now] /\ torn' = FALSE /\ lost' = 0
        /\ UNCHANGED <<kind, now, clock, macstsur, half, words, clock_offset, ticks, requests, began>>
    BY DEF Timing!Sync
  <1>1. ClockTypes /\ Room /\ LastReading
    BY DEF ClockInv, Stages
  <1> USE ClockFacts
  <1>2. Timing!TimeOf(now) \in Instant /\ Timing!Value(Timing!TimeOf(now)) = now
    <2>1. now \in 0 .. Word * Nanos - 1
      BY <1>1
    <2> QED
      BY <1>1, <2>1, InstantOf
  <1>3. ClockTypes'
    <2>1. clock_times' \in [Timing!Times -> Instant] /\ at' \in [Timing!Times -> Int]
      BY <1>0, <1>1, <1>2 DEF ClockTypes
    <2>2. torn' \in BOOLEAN
      BY <1>0
    <2> QED
      BY <1>0, <1>1, <2>1, <2>2 DEF ClockTypes
  <1>4. ~half'
    BY <1>0, <1>1 DEF LastReading, Timing!Readings
  <1>5. Amount("t1")' = now /\ at'["t1"] = now
    BY <1>0, <1>1, <1>2 DEF ClockTypes, Amount
  <1>6. Requested'
    BY <1>0, <1>1, <1>5 DEF Requested
  <1>7. Stages'
    BY <1>0, <1>4, <1>6 DEF Stages, FirstRead, BothRead, Setting, LastReading, Copying
  <1> QED
    BY <1>0, <1>1, <1>3, <1>7 DEF ClockInv, Room, Initially, Timing!SetByRequest

LEMMA AnswerStep ==
  ASSUME ClockFits, ClockInv, Timing!Answer
  PROVE  ClockInv'
  <1>0. /\ clock_pc = "t4" /\ clock_pc' = "response"
        /\ clock_times' = [clock_times EXCEPT !["t4"] = Timing!TimeOf(now)]
        /\ at' = [at EXCEPT !["t4"] = now]
        /\ UNCHANGED <<kind, now, clock, macstsur, half, words, clock_offset, ticks, requests, began, torn, lost>>
    BY DEF Timing!Answer
  <1>1. ClockTypes /\ Room /\ LastReading /\ Requested /\ BothRead
    BY DEF ClockInv, Stages
  <1> USE ClockFacts
  <1>2. Timing!TimeOf(now) \in Instant /\ Timing!Value(Timing!TimeOf(now)) = now
    <2>1. now \in 0 .. Word * Nanos - 1
      BY <1>1
    <2> QED
      BY <1>1, <2>1, InstantOf
  <1>3. ClockTypes'
    BY <1>0, <1>1, <1>2 DEF ClockTypes
  <1>4. ~half'
    BY <1>0, <1>1 DEF LastReading, Timing!Readings
  <1>5. Amount("t4")' = now /\ at'["t4"] = now /\ Error' = Error
    BY <1>0, <1>1, <1>2 DEF ClockTypes, Amount, Error
  <1>6. \A r \in {"t1", "t2", "t3"} :
           Amount(r)' = Amount(r) /\ at'[r] = at[r] /\ Lead(r)' = Lead(r)
    BY <1>0, <1>1, <1>5 DEF Amount, Lead, ClockTypes
  <1>7. Requested'
    BY <1>0, <1>1, <1>6 DEF Requested
  <1>8. BothRead'
    BY <1>0, <1>1, <1>5, <1>6 DEF BothRead, Ahead, Around
  <1>9. Stages'
    BY <1>0, <1>4, <1>7, <1>8 DEF Stages, FirstRead, Setting, LastReading, Copying
  <1> QED
    BY <1>0, <1>1, <1>3, <1>9 DEF ClockInv, Room, Initially, Timing!SetByRequest

(* Reading the MAC's nanoseconds begins a reading, CLOCK_GET of the        *)
(* client's own clock is one.                                               *)
LEMMA ReadStep ==
  ASSUME ClockFits, ClockInv, Timing!Read
  PROVE  ClockInv'
  <1>0. /\ clock_pc \in Timing!Readings /\ ~half
        /\ began' = Timing!Value(clock) /\ at' = [at EXCEPT ![clock_pc] = now]
        /\ UNCHANGED <<kind, now, clock, macstsur, words, clock_offset, ticks, requests, torn, lost>>
        /\ Timing!ReadNanoseconds \/ Timing!Get
    BY DEF Timing!Read
  <1>1. ClockTypes /\ Room /\ Requested /\ FirstRead /\ BothRead /\ Setting /\ LastReading
    BY DEF ClockInv, Stages
  <1> USE ClockFacts
  <1>2. /\ clock_pc \in {"t2", "t3", "current"} /\ clock_pc \in Timing!Times
        /\ clock \in Instant /\ clock_times[clock_pc] \in Instant
    BY <1>0, <1>1 DEF Timing!Readings, Timing!Times, ClockTypes
  <1>3. at'[clock_pc] = now /\ Error' = Error /\ began' = now + Error
    BY <1>0, <1>1, <1>2 DEF ClockTypes, Error
  <1>4. CASE Timing!ReadNanoseconds
    <2>1. /\ kind = "hard" /\ clock_times' = [clock_times EXCEPT ![clock_pc].ns = clock.ns]
          /\ half' = TRUE /\ clock_pc' = clock_pc
      BY <1>4 DEF Timing!ReadNanoseconds
    <2>2. clock.ns = Timing!Value(clock) % Nanos /\ clock.ns \in 0 .. Nanos - 1
      <3>1. Timing!Value(clock) \in 0 .. Word * Nanos - 1
            /\ clock = Timing!TimeOf(Timing!Value(clock))
        BY <1>2, InstantValue, <1>1
      <3>2. clock = TimeAt(Timing!Value(clock) \div Nanos, Timing!Value(clock) % Nanos)
        BY <1>1, <3>1, InstantOf
      <3>3. Timing!Value(clock) % Nanos \in 0 .. Nanos - 1
        BY <1>1, <3>1, InstantOf
      <3> QED
        BY <3>2, <3>3 DEF TimeAt
    <2>3. clock_times'[clock_pc] \in Instant /\ clock_times'[clock_pc].ns = clock.ns
      <3>1. PICK x \in 0 .. Word - 1, n \in 0 .. Nanos - 1 : clock_times[clock_pc] = TimeAt(x, n)
        BY <1>2, InstantFields
      <3>2. clock_times'[clock_pc] = TimeAt(x, clock.ns)
        BY <1>1, <1>2, <2>1, <3>1 DEF ClockTypes, TimeAt
      <3> QED
        BY <2>2, <3>2 DEF Instant, TimeAt
    <2>4. \A r \in Timing!Times \ {clock_pc} : clock_times'[r] = clock_times[r] /\ at'[r] = at[r]
      BY <1>0, <1>1, <2>1 DEF ClockTypes
    <2>5. ClockTypes'
      <3>1. clock_times' \in [Timing!Times -> Instant]
        BY <1>1, <2>1, <2>3, <2>4 DEF ClockTypes
      <3>2. at' \in [Timing!Times -> Int] /\ began' \in Int
        BY <1>0, <1>1 DEF ClockTypes
      <3> QED
        BY <1>0, <1>1, <2>1, <3>1, <3>2 DEF ClockTypes
    <2>6. \A r \in {"t1", "t2", "t3", "t4", "current"} \ {clock_pc} :
             Amount(r)' = Amount(r) /\ at'[r] = at[r] /\ Lead(r)' = Lead(r)
      BY <1>1, <1>3, <2>4 DEF Amount, Lead
    <2>7. Requested'
      BY <1>0, <1>1, <1>2, <2>1, <2>6 DEF Requested
    <2>8. FirstRead'
      BY <1>0, <1>1, <1>2, <1>3, <2>1, <2>6 DEF FirstRead, Ahead, Requested
    <2>9. BothRead'
      BY <1>0, <1>1, <1>2, <1>3, <2>1, <2>6 DEF BothRead, Ahead, Around
    <2>10. Setting'
      <3>1. CASE clock_pc = "current"
        <4>1. Lag' = Lag
          BY <2>6, <3>1 DEF Lag
        <4>2. clock_times'["t1"] = clock_times["t1"]
          BY <1>1, <2>4, <3>1
        <4> QED
          BY <1>0, <1>1, <1>3, <2>1, <2>6, <3>1, <4>1, <4>2 DEF Setting, BothRead
      <3>2. CASE clock_pc # "current"
        BY <1>2, <2>1, <3>2 DEF Setting
      <3> QED
        BY <3>1, <3>2
    <2>11. LastReading'
      <3>1. began' \in 0 .. Word * Nanos - 1
        BY <1>0, <1>1
      <3> QED
        BY <1>0, <1>3, <2>1, <2>2, <2>3, <3>1 DEF LastReading
    <2>12. Copying'
      BY <1>2, <2>1 DEF Copying
    <2> QED
      BY <1>0, <1>1, <1>2, <2>1, <2>5, <2>7, <2>8, <2>9, <2>10, <2>11, <2>12
         DEF ClockInv, Stages, Room, Initially, Timing!SetByRequest
  <1>5. CASE Timing!Get
    <2>1. /\ clock_pc # "t3" /\ clock_times' = [clock_times EXCEPT ![clock_pc] = clock]
          /\ half' = half /\ clock_pc' = Timing!AfterReading[clock_pc]
      BY <1>5 DEF Timing!Get
    <2>2. PICK p \in {"t2", "current"} : p = clock_pc
      BY <1>2, <2>1
    <2>3. clock_times'[p] = clock /\ at'[p] = now
      BY <1>1, <1>2, <1>3, <2>1, <2>2 DEF ClockTypes
    <2>4. Amount(p)' = Timing!Value(clock) /\ Lead(p)' = 0
      <3>1. Amount(p)' = Timing!Value(clock)
        BY <2>3 DEF Amount
      <3> QED
        BY <1>1, <1>3, <2>3, <3>1 DEF Lead, Error
    <2>5. \A r \in Timing!Times \ {p} : clock_times'[r] = clock_times[r] /\ at'[r] = at[r]
      BY <1>0, <1>1, <2>1, <2>2 DEF ClockTypes
    <2>6. ~half' /\ clock_pc' = (CASE p = "t2" -> "t3" [] p = "current" -> "set")
      BY <1>0, <2>1, <2>2 DEF Timing!AfterReading
    <2>7. ClockTypes'
      <3>1. clock_times' \in [Timing!Times -> Instant]
        BY <1>1, <1>2, <2>1 DEF ClockTypes
      <3>2. at' \in [Timing!Times -> Int] /\ began' \in Int
        BY <1>0, <1>1 DEF ClockTypes
      <3>3. clock_pc' \in {"t3", "set"} /\ half' \in BOOLEAN
        BY <1>1, <2>1, <2>6 DEF ClockTypes
      <3> QED
        BY <1>0, <1>1, <3>1, <3>2, <3>3 DEF ClockTypes
    <2>8. \A r \in {"t1", "t2", "t3", "t4", "current"} \ {p} :
             Amount(r)' = Amount(r) /\ at'[r] = at[r] /\ Lead(r)' = Lead(r)
      BY <1>1, <1>3, <2>5 DEF Amount, Lead
    <2>9. Requested'
      BY <1>0, <1>1, <2>2, <2>6, <2>8 DEF Requested
    <2>10. FirstRead'
      BY <1>0, <1>1, <2>2, <2>3, <2>4, <2>6, <2>8 DEF FirstRead, Ahead, Requested
    <2>11. BothRead'
      BY <1>0, <1>1, <2>2, <2>3, <2>4, <2>6, <2>8 DEF BothRead, FirstRead, Ahead, Around
    <2>12. Setting'
      <3>1. CASE p = "current"
        <4>1. Lag' = Lag
          BY <2>8, <3>1 DEF Lag
        <4>2. clock_times'["t1"] = clock_times["t1"]
          BY <1>1, <2>5, <3>1
        <4> QED
          BY <1>0, <1>1, <2>2, <2>3, <2>4, <2>6, <2>8, <3>1, <4>1, <4>2 DEF Setting, BothRead,
             Ahead
      <3>2. CASE p # "current"
        BY <2>2, <2>6, <3>2 DEF Setting
      <3> QED
        BY <3>1, <3>2
    <2>13. LastReading'
      BY <1>3, <2>2, <2>3, <2>6 DEF LastReading
    <2>14. Copying'
      BY <2>6, <2>2 DEF Copying
    <2> QED
      BY <1>0, <1>1, <2>2, <2>6, <2>7, <2>9, <2>10, <2>11, <2>12, <2>13, <2>14
         DEF ClockInv, Stages, Room, Initially, Timing!SetByRequest
  <1> QED
    BY <1>0, <1>4, <1>5

(* The seconds of the clock and the nanoseconds of an earlier time of it.  *)
LEMMA ReadingJoined ==
  ASSUME Word >= 8, NEW i \in Instant, NEW b \in 0 .. Word * Nanos - 1, b <= Timing!Value(i),
         NEW j, j = Timing!Time(Timing!Seconds(0, i.sec.low), b % Nanos)
  PROVE  /\ j \in Instant /\ Timing!Value(j) \in Int
         /\ b <= Timing!Value(j) /\ Timing!Value(j) <= Timing!Value(i) + Nanos - 1
         /\ Timing!Value(i) \div Nanos = b \div Nanos => Timing!Value(j) = b
  <1>1. PICK x \in 0 .. Word - 1, n \in 0 .. Nanos - 1 :
           Timing!Value(i) = x * Nanos + n /\ i.sec.low = x
    BY InstantFields
  <1>2. PICK y \in 0 .. Word - 1, m \in 0 .. Nanos - 1 :
           y = b \div Nanos /\ m = b % Nanos /\ b = y * Nanos + m
    BY InstantOf
  <1>3. /\ x \in Int /\ y \in Int /\ n \in Int /\ m \in Int /\ 0 <= n /\ n < Nanos /\ 0 <= m
           /\ m < Nanos
        /\ x * Nanos \in Int /\ y * Nanos \in Int
    BY WordFacts
  <1>4. y <= x
    <2> SUFFICES ASSUME y > x PROVE FALSE
      BY <1>3
    <2>1. PICK e \in Nat : y = x + 1 + e
      BY <1>3
    <2>2. y * Nanos = x * Nanos + Nanos + e * Nanos /\ e * Nanos \in Nat
      BY <1>3, <2>1, WordFacts
    <2> QED
      BY <1>1, <1>2, <1>3, <2>2, WordFacts
  <1>5. y * Nanos <= x * Nanos
    <2>1. PICK e \in Nat : x = y + e
      BY <1>3, <1>4
    <2>2. x * Nanos = y * Nanos + e * Nanos /\ e * Nanos \in Nat
      BY <1>3, <2>1, WordFacts
    <2> QED
      BY <1>3, <2>2
  <1>6. j = TimeAt(x, m)
    <2>1. x \in Count /\ x + 0 * Word \in 0 .. Word - 1 /\ x = 0 * Word + x + 0 * Word
      BY WordFacts DEF Count
    <2>2. Timing!Seconds(0, x) = SecondsOf(x)
      BY <1>3, <2>1, Stored
    <2> QED
      BY <1>1, <1>2, <2>2 DEF Timing!Time, TimeAt
  <1>7. j \in Instant /\ Timing!Value(j) = x * Nanos + m
    BY <1>6, InstantAt DEF Instant
  <1>8. Timing!Value(i) \div Nanos = x
    <2>1. n \in Nat /\ n < Nanos /\ Nanos \in Nat
      BY <1>3, WordFacts
    <2> QED
      BY <1>1, <1>3, <2>1, IntDivMod
  <1> QED
    BY <1>1, <1>2, <1>3, <1>5, <1>7, <1>8, WordFacts

LEMMA ReadSecondsStep ==
  ASSUME ClockFits, ClockInv, Timing!ReadSeconds
  PROVE  ClockInv'
  <1>0. /\ half /\ ~half' /\ clock_pc' = Timing!AfterReading[clock_pc]
        /\ clock_times' = [clock_times EXCEPT ![clock_pc].sec = Timing!Seconds(0, clock.sec.low)]
        /\ torn' = (torn \/ Timing!Value(clock) \div Nanos # began \div Nanos)
        /\ UNCHANGED <<kind, now, clock, macstsur, words, clock_offset, ticks, requests, at, began, lost>>
    BY DEF Timing!ReadSeconds
  <1>1. ClockTypes /\ Room /\ Requested /\ FirstRead /\ BothRead /\ Setting /\ LastReading
    BY DEF ClockInv, Stages
  <1> USE ClockFacts
  <1>2. PICK p \in {"t2", "t3", "current"} : p = clock_pc
    BY <1>0, <1>1 DEF LastReading, Timing!Readings
  <1>3. /\ began = at[p] + Error /\ began \in 0 .. Word * Nanos - 1
           /\ clock_times[p].ns = began % Nanos
        /\ at[p] <= now /\ p \in Timing!Times /\ clock_times[p] \in Instant /\ clock \in Instant
        /\ at[p] \in Int /\ began \in Int
    <2>1. at[p] <= now
      BY <1>0, <1>1, <1>2 DEF FirstRead, Setting
    <2>2. p \in Timing!Times
      BY <1>2 DEF Timing!Times, Timing!Readings
    <2> QED
      BY <1>0, <1>1, <1>2, <2>1, <2>2 DEF LastReading, ClockTypes
  <1>4. began <= Timing!Value(clock)
    BY <1>1, <1>3 DEF Error
  <1> DEFINE j == Timing!Time(Timing!Seconds(0, clock.sec.low), began % Nanos)
  <1>5. /\ j \in Instant /\ Timing!Value(j) \in Int
        /\ began <= Timing!Value(j) /\ Timing!Value(j) <= Timing!Value(clock) + Nanos - 1
        /\ Timing!Value(clock) \div Nanos = began \div Nanos => Timing!Value(j) = began
    <2>1. Word >= 8
      BY <1>1
    <2> HIDE DEF j
    <2>2. j = Timing!Time(Timing!Seconds(0, clock.sec.low), began % Nanos)
      BY DEF j
    <2> QED
      BY <1>3, <1>4, <2>1, <2>2, ReadingJoined
  <1>6. clock_times'[p] = j
    <2>1. PICK x \in 0 .. Word - 1, n \in 0 .. Nanos - 1 : clock_times[p] = TimeAt(x, n)
      BY <1>3, InstantFields
    <2> QED
      BY <1>0, <1>1, <1>2, <1>3, <2>1 DEF ClockTypes, TimeAt, Timing!Time
  <1> HIDE DEF j
  <1>7. \A r \in Timing!Times \ {p} : clock_times'[r] = clock_times[r]
    BY <1>0, <1>1, <1>2 DEF ClockTypes
  <1>8. Error' = Error
    BY <1>0 DEF Error
  <1>9. /\ Amount(p)' = Timing!Value(j) /\ 0 <= Lead(p)' /\ Lead(p)' <= Nanos - 1 + now - at[p]
        /\ ~torn' => Lead(p)' = 0
        /\ began <= Amount(p)' /\ Lead(p)' \in Int
    <2>1. Amount(p)' = Timing!Value(j)
      BY <1>6 DEF Amount
    <2>2. Lead(p)' = Timing!Value(j) - at[p] - Error
      BY <1>0, <1>8, <2>1 DEF Lead
    <2>3. ~torn' => Timing!Value(clock) \div Nanos = began \div Nanos
      BY <1>0
    <2> QED
      BY <1>1, <1>3, <1>5, <2>1, <2>2, <2>3 DEF Error
  <1>10. \A r \in {"t1", "t2", "t3", "t4", "current"} \ {p} :
            Amount(r)' = Amount(r) /\ at'[r] = at[r] /\ Lead(r)' = Lead(r)
    BY <1>0, <1>1, <1>7, <1>8 DEF Amount, Lead
  <1>11. ~torn' => ~torn
    BY <1>0
  <1>12. clock_pc' = (CASE p = "t2" -> "t3" [] p = "t3" -> "t4" [] p = "current" -> "set")
    BY <1>0, <1>2 DEF Timing!AfterReading
  <1>13. ClockTypes'
    <2>1. clock_times' \in [Timing!Times -> Instant]
      <3>1. DOMAIN clock_times' = Timing!Times
            /\ clock_times' = [r \in Timing!Times |-> clock_times'[r]]
        BY <1>0, <1>1 DEF ClockTypes
      <3> QED
        BY <1>1, <1>5, <1>6, <1>7, <3>1 DEF ClockTypes
    <2>2. torn' \in BOOLEAN /\ half' \in BOOLEAN
      BY <1>0, <1>1 DEF ClockTypes, Timing!ReadSeconds
    <2>3. clock_pc' \in {"t3", "t4", "set"}
      BY <1>12
    <2> QED
      BY <1>0, <1>1, <2>1, <2>2, <2>3 DEF ClockTypes
  <1>14. Requested'
    BY <1>0, <1>1, <1>2, <1>10 DEF Requested
  <1>15. FirstRead'
    BY <1>0, <1>1, <1>2, <1>3, <1>9, <1>10, <1>12 DEF FirstRead, Ahead
  <1>16. BothRead'
    <2>1. CASE p = "t3"
      <3>1. clock_pc' = "t4"
        BY <1>12, <2>1
      <3>2. /\ at["t1"] <= at["t2"] /\ at["t2"] <= at["t3"] /\ at["t3"] <= now
            /\ Ahead("t2", at["t3"])
        BY <1>0, <1>1, <1>2, <2>1 DEF FirstRead
      <3>3. Ahead("t2", at["t3"])'
        BY <1>0, <1>10, <1>11, <2>1, <3>2 DEF Ahead
      <3>4. Around(now)'
        <4>1. at'["t2"] = at["t2"] /\ at'["t3"] = at["t3"] /\ now' = now
          BY <1>0
        <4>2. at["t2"] - at["t3"] - (Nanos - 1) <= Lead("t3")'
          <5>1. PICK f \in Int, g \in Int, l \in Int :
                   f = at["t2"] /\ g = at["t3"] /\ l = Lead("t3")' /\ f <= g /\ 0 <= l
            <6>1. at["t2"] \in Int /\ at["t3"] \in Int
              BY <1>1
            <6>2. Lead("t3")' \in Int /\ 0 <= Lead("t3")'
              BY <1>9, <2>1
            <6> QED
              BY <3>2, <6>1, <6>2
          <5>2. f - g - (Nanos - 1) <= l
            BY <5>1, WordFacts
          <5> QED
            BY <5>1, <5>2
        <4>3. Lead("t3")' <= Nanos - 1 + now - at["t3"]
          BY <1>9, <2>1
        <4>4. (~torn)' => Lead("t3")' = 0
          BY <1>9, <2>1
        <4> QED
          BY <4>1, <4>2, <4>3, <4>4 DEF Around
      <3>5. at'["t1"] = at["t1"] /\ at'["t2"] = at["t2"] /\ at'["t3"] = at["t3"] /\ now' = now
        BY <1>0
      <3> HIDE <1>1
      <3> QED
        BY <3>1, <3>2, <3>3, <3>4, <3>5 DEF BothRead
    <2>2. CASE p = "current"
      BY <1>0, <1>1, <1>2, <1>10, <1>11, <1>12, <2>2 DEF BothRead, Ahead, Around
    <2>3. CASE p = "t2"
      BY <1>12, <2>3 DEF BothRead
    <2> QED
      BY <2>1, <2>2, <2>3
  <1>17. Setting'
    <2>1. CASE p = "current"
      <3>1. Lag' = Lag
        BY <1>10, <2>1 DEF Lag
      <3>2. clock_times'["t1"] = clock_times["t1"]
        BY <1>1, <1>7, <2>1
      <3> QED
        BY <1>0, <1>1, <1>2, <1>3, <1>9, <1>10, <1>12, <2>1, <3>1, <3>2 DEF Setting, Ahead
    <2>2. CASE p # "current"
      BY <1>12, <2>2 DEF Setting
    <2> QED
      BY <2>1, <2>2
  <1>18. LastReading'
    <2>1. kind' = "hard"
      BY <1>0, <1>1 DEF LastReading
    <2>2. clock_pc' = "t4" => p = "t3" /\ began - 0 <= Amount("t3")'
      BY <1>2, <1>3, <1>9, <1>12
    <2>3. clock_pc' # "t4" => p # "t3"
      BY <1>2, <1>12
    <2> QED
      BY <1>0, <1>2, <1>3, <1>8, <1>12, <2>1, <2>2, <2>3 DEF LastReading
  <1>19. Room' /\ Initially' /\ Timing!SetByRequest'
    BY <1>0, <1>1, <1>12 DEF Room, Initially, Timing!SetByRequest
  <1>20. Copying'
    BY <1>2, <1>12 DEF Copying
  <1> QED
    BY <1>13, <1>14, <1>15, <1>16, <1>17, <1>18, <1>19, <1>20 DEF ClockInv, Stages

(* Passing the client's own clock to the notification.                      *)
LEMMA PrepareStep ==
  ASSUME ClockFits, ClockInv, Timing!Prepare
  PROVE  ClockInv'
  <1>0. /\ kind = "soft" /\ clock_pc = "t3" /\ clock_pc' = "copy" /\ words' = Timing!Words
        /\ began' = Timing!Value(clock) /\ at' = [at EXCEPT !["t3"] = now]
        /\ UNCHANGED <<kind, now, clock, macstsur, half, clock_times, clock_offset, ticks, requests,
                       torn, lost>>
    BY DEF Timing!Prepare
  <1>1. ClockTypes /\ Room /\ Requested /\ FirstRead /\ LastReading
    BY DEF ClockInv, Stages
  <1> USE ClockFacts
  <1>2. ~half /\ ~half'
    BY <1>0, <1>1 DEF LastReading
  <1>3. at'["t3"] = now /\ Error' = Error /\ began' = now + Error
    BY <1>0, <1>1 DEF ClockTypes, Error
  <1>4. \A r \in {"t1", "t2", "t4", "current"} :
           Amount(r)' = Amount(r) /\ at'[r] = at[r] /\ Lead(r)' = Lead(r)
    BY <1>0, <1>1, <1>3 DEF ClockTypes, Amount, Lead
  <1>5. ClockTypes'
    <2>1. at' \in [Timing!Times -> Int] /\ began' \in Int
      BY <1>0, <1>1 DEF ClockTypes
    <2> QED
      BY <1>0, <1>1, <2>1 DEF ClockTypes
  <1>6. Requested'
    BY <1>0, <1>1, <1>4 DEF Requested
  <1>7. at["t1"] <= at["t2"] /\ at["t2"] <= now /\ Ahead("t2", now)
    BY <1>0, <1>1, <1>2 DEF FirstRead
  <1>8. FirstRead'
    BY <1>0, <1>1, <1>3, <1>4, <1>7 DEF FirstRead, Ahead
  <1>9. Copying'
    <2>1. began' \in 0 .. Word * Nanos - 1
      BY <1>0, <1>1
    <2>2. at'["t2"] + Error' <= began' /\ began' <= at'["t3"] + Error'
      BY <1>1, <1>3, <1>4, <1>7
    <2>3. "low" \in words' /\ "ns" \in words'
      BY <1>0 DEF Timing!Words
    <2> QED
      BY <1>0, <2>1, <2>2, <2>3 DEF Copying
  <1>10. Stages'
    BY <1>0, <1>2, <1>6, <1>8, <1>9 DEF Stages, BothRead, Setting, LastReading
  <1> QED
    BY <1>0, <1>1, <1>5, <1>10 DEF ClockInv, Room, Initially, Timing!SetByRequest

(* One word of the clock, in the reading.                                   *)
LEMMA WordCopied ==
  ASSUME Word >= 8, NEW i \in Instant, clock \in Instant, NEW w \in Timing!Words,
         NEW j, j = Timing!Copied(i, w)
  PROVE  /\ j \in Instant
         /\ j.sec.low = IF w = "low" THEN clock.sec.low ELSE i.sec.low
         /\ j.ns = IF w = "ns" THEN clock.ns ELSE i.ns
  <1>1. PICK x \in 0 .. Word - 1, n \in 0 .. Nanos - 1 :
           i = TimeAt(x, n) /\ i.sec = SecondsOf(x) /\ i.ns = n /\ i.sec.low = x
    BY InstantFields
  <1>2. PICK y \in 0 .. Word - 1, m \in 0 .. Nanos - 1 :
           clock = TimeAt(y, m) /\ clock.sec = SecondsOf(y) /\ clock.ns = m /\ clock.sec.low = y
    BY InstantFields
  <1>3. SecondsOf(x) = [high |-> 0, low |-> x] /\ SecondsOf(y) = [high |-> 0, low |-> y]
    BY InstantAt
  <1>4. CASE w = "ns"
    <2>1. j = TimeAt(x, m)
      BY <1>1, <1>2, <1>4 DEF Timing!Copied, Timing!Time, TimeAt
    <2> QED
      BY <1>1, <1>2, <1>3, <1>4, <2>1 DEF Instant, TimeAt
  <1>5. CASE w = "low"
    <2>1. [i.sec EXCEPT !["low"] = clock.sec["low"]] = SecondsOf(y)
      BY <1>1, <1>2, <1>3
    <2>2. j = TimeAt(y, n)
      BY <1>1, <1>5, <2>1 DEF Timing!Copied, Timing!Time, TimeAt
    <2> QED
      BY <1>1, <1>2, <1>3, <1>5, <2>2 DEF Instant, TimeAt
  <1>6. CASE w = "high"
    <2>1. [i.sec EXCEPT !["high"] = clock.sec["high"]] = SecondsOf(x)
      BY <1>1, <1>2, <1>3
    <2>2. j = TimeAt(x, n)
      BY <1>1, <1>6, <2>1 DEF Timing!Copied, Timing!Time, TimeAt
    <2> QED
      BY <1>1, <1>3, <1>6, <2>2 DEF Instant, TimeAt
  <1> QED
    BY <1>4, <1>5, <1>6 DEF Timing!Words

(* Of the multiples of Nanos, one is less than Nanos from any other only if  *)
(* it is that.                                                              *)
LEMMA NoMultipleBetween ==
  ASSUME NEW x \in Int, NEW y \in Int, x * Nanos - Nanos < y * Nanos,
         y * Nanos < x * Nanos + Nanos
  PROVE  x = y
  <1>1. x * Nanos \in Int /\ y * Nanos \in Int
    BY WordFacts
  <1>2. ASSUME y > x PROVE FALSE
    <2>1. PICK e \in Nat : y = x + 1 + e
      BY <1>2
    <2>2. y * Nanos = x * Nanos + Nanos + e * Nanos /\ e * Nanos \in Nat
      BY <2>1, WordFacts
    <2> QED
      BY <1>1, <2>2, WordFacts
  <1>3. ASSUME y < x PROVE FALSE
    <2>1. PICK e \in Nat : x = y + 1 + e
      BY <1>3
    <2>2. x * Nanos = y * Nanos + Nanos + e * Nanos /\ e * Nanos \in Nat
      BY <2>1, WordFacts
    <2> QED
      BY <1>1, <2>2, WordFacts
  <1> QED
    BY <1>2, <1>3

(* The nanoseconds of one time and the seconds of another, of those from b  *)
(* to v.                                                                    *)
LEMMA WordsJoined ==
  ASSUME Word >= 8, NEW i \in Instant, NEW b \in 0 .. Word * Nanos - 1,
         NEW m \in 0 .. Word * Nanos - 1, NEW v \in 0 .. Word * Nanos - 1, b <= m, m <= v,
         i.sec.low * Nanos <= v, b < i.sec.low * Nanos + Nanos, i.ns = m % Nanos
  PROVE  /\ Timing!Value(i) \in Int
         /\ b - (Nanos - 1) <= Timing!Value(i) /\ Timing!Value(i) <= v + Nanos - 1
         /\ v \div Nanos = b \div Nanos => Timing!Value(i) = m
  <1>1. PICK x \in 0 .. Word - 1, n \in 0 .. Nanos - 1 :
           Timing!Value(i) = x * Nanos + n /\ i.sec.low = x /\ i.ns = n
    BY InstantFields
  <1>2. PICK k \in Int : k = x * Nanos
    BY <1>1, WordFacts
  <1>3. /\ n \in Int /\ 0 <= n /\ n < Nanos /\ Nanos \in Int
        /\ b \in Int /\ m \in Int /\ v \in Int /\ k <= v /\ b < k + Nanos
    <2>1. k <= v /\ b < k + Nanos
      BY <1>1, <1>2
    <2>2. PICK e \in Nat : e = Word * Nanos
      BY WordFacts
    <2> QED
      BY <2>1, <2>2, WordFacts
  <1>4. ASSUME v \div Nanos = b \div Nanos PROVE k + n = m
    <2>1. PICK y \in 0 .. Word - 1, o \in 0 .. Nanos - 1 :
             y = m \div Nanos /\ o = m % Nanos /\ m = y * Nanos + o
      BY InstantOf
    <2>2. PICK z \in 0 .. Word - 1, p \in 0 .. Nanos - 1 : z = b \div Nanos /\ b = z * Nanos + p
      BY InstantOf
    <2>3. PICK q \in 0 .. Nanos - 1 : v = z * Nanos + q
      BY <1>4, <2>2, InstantOf
    <2>4. PICK g \in Int : g = z * Nanos
      BY <2>2, WordFacts
    <2>5. PICK h \in Int : h = y * Nanos
      BY <2>1, WordFacts
    <2>6. /\ g - Nanos < h /\ h < g + Nanos /\ g - Nanos < k /\ k < g + Nanos
      BY <1>3, <2>1, <2>2, <2>3, <2>4, <2>5, WordFacts
    <2>7. x \in Int /\ y \in Int /\ z \in Int
      BY <1>1, <2>1, <2>2, WordFacts
    <2>8. y = z /\ x = z
      <3>1. y = z
        BY <2>4, <2>5, <2>6, <2>7, NoMultipleBetween
      <3>2. x = z
        BY <1>2, <2>4, <2>6, <2>7, NoMultipleBetween
      <3> QED
        BY <3>1, <3>2
    <2>9. n = o
      BY <1>1, <2>1
    <2> QED
      BY <1>2, <2>1, <2>4, <2>8, <2>9
  <1> QED
    BY <1>1, <1>2, <1>3, <1>4

LEMMA CopyStep ==
  ASSUME ClockFits, ClockInv, Timing!Copy
  PROVE  ClockInv'
  <1>0. PICK w \in words :
          /\ clock_times' = [clock_times EXCEPT !["t3"] = Timing!Copied(clock_times["t3"], w)]
          /\ at' = [at EXCEPT !["t3"] = IF w = "ns" THEN now ELSE at["t3"]]
          /\ words' = words \ {w}
    BY DEF Timing!Copy
  <1>a. /\ clock_pc = "copy"
        /\ IF words' = {}
           THEN clock_pc' = "t4"
                /\ torn' = (torn \/ Timing!Value(clock) \div Nanos # began \div Nanos)
           ELSE UNCHANGED <<clock_pc, torn>>
        /\ UNCHANGED <<kind, now, clock, macstsur, half, clock_offset, ticks, requests, began, lost>>
    BY DEF Timing!Copy
  <1>1. ClockTypes /\ Room /\ Requested /\ FirstRead /\ LastReading /\ Copying
    BY DEF ClockInv, Stages
  <1> USE ClockFacts
  <1>2. w \in Timing!Words /\ "t3" \in Timing!Times /\ clock \in Instant
        /\ clock_times["t3"] \in Instant
    BY <1>0, <1>1 DEF ClockTypes, Timing!Times, Timing!Readings
  <1> DEFINE j == clock_times'["t3"]
             u == at'["t3"]
  <1>3. /\ j \in Instant
        /\ j.sec.low = IF w = "low" THEN clock.sec.low ELSE clock_times["t3"].sec.low
        /\ j.ns = IF w = "ns" THEN clock.ns ELSE clock_times["t3"].ns
    <2>1. j = Timing!Copied(clock_times["t3"], w)
      BY <1>0, <1>1, <1>2 DEF ClockTypes
    <2> HIDE DEF j
    <2> QED
      BY <1>1, <1>2, <2>1, WordCopied
  <1>4. ~half /\ ~half' /\ Error' = Error /\ kind = "soft"
    BY <1>a, <1>1 DEF LastReading, Copying, Error, Timing!Readings
  <1>5. u \in Int /\ u = (IF w = "ns" THEN now ELSE at["t3"]) /\ at["t3"] <= u /\ u <= now
    <2>1. at["t3"] <= now
      BY <1>a, <1>1 DEF FirstRead
    <2>2. u = (IF w = "ns" THEN now ELSE at["t3"])
      BY <1>0, <1>1, <1>2 DEF ClockTypes
    <2> HIDE DEF u
    <2> QED
      BY <1>1, <2>1, <2>2
  <1>6. \A r \in Timing!Times \ {"t3"} : clock_times'[r] = clock_times[r] /\ at'[r] = at[r]
    BY <1>0, <1>1, <1>2 DEF ClockTypes
  <1>7. \A r \in {"t1", "t2", "t4", "current"} :
           Amount(r)' = Amount(r) /\ at'[r] = at[r] /\ Lead(r)' = Lead(r)
    BY <1>1, <1>4, <1>6 DEF Amount, Lead
  <1>8. ClockTypes'
    <2>1. clock_times' \in [Timing!Times -> Instant]
      <3>1. clock_times' = [r \in Timing!Times |-> clock_times'[r]]
        BY <1>0, <1>1 DEF ClockTypes
      <3> QED
        BY <1>1, <1>3, <1>6, <3>1 DEF ClockTypes
    <2>2. at' \in [Timing!Times -> Int]
      BY <1>0, <1>1 DEF ClockTypes
    <2>3. torn' \in BOOLEAN /\ clock_pc' \in {"copy", "t4"}
      BY <1>a, <1>1 DEF ClockTypes
    <2>4. words' \in SUBSET Timing!Words
      BY <1>0, <1>1 DEF ClockTypes
    <2> QED
      BY <1>a, <1>1, <2>1, <2>2, <2>3, <2>4 DEF ClockTypes
  <1>9. Requested'
    BY <1>a, <1>1, <1>7 DEF Requested
  <1>10. at["t1"] <= at["t2"] /\ at["t2"] <= at["t3"] /\ Ahead("t2", at["t3"])
    BY <1>a, <1>1 DEF FirstRead
  <1>11. /\ began \in Int /\ began \in 0 .. Word * Nanos - 1
         /\ at["t2"] + Error <= began /\ began <= at["t3"] + Error
    <2>1. began \in 0 .. Word * Nanos - 1 /\ at["t2"] + Error <= began
          /\ began <= at["t3"] + Error
      BY <1>a, <1>1 DEF Copying
    <2> QED
      BY <1>1, <2>1 DEF ClockTypes
  <1>12. began <= u + Error /\ u + Error <= Timing!Value(clock) /\ 0 <= u + Error
    <2> HIDE DEF u
    <2>1. PICK e \in Int : e = Error /\ Timing!Value(clock) = now + e
      BY <1>1 DEF Error
    <2>2. 0 <= began
      BY <1>11, <1>1
    <2> QED
      BY <1>1, <1>5, <1>11, <2>1, <2>2
  <1>13. "low" \notin words' =>
           j.sec.low * Nanos <= Timing!Value(clock) /\ began < j.sec.low * Nanos + Nanos
    <2> HIDE DEF j, u
    <2>1. CASE w = "low"
      <3>1. PICK x \in 0 .. Word - 1, n \in 0 .. Nanos - 1 :
               Timing!Value(clock) = x * Nanos + n /\ clock.sec.low = x
        BY <1>2, InstantFields
      <3>2. PICK k \in Int : k = x * Nanos
        BY <3>1, WordFacts
      <3>3. k <= Timing!Value(clock) /\ began < k + Nanos
        <4>1. Timing!Value(clock) = k + n /\ n \in Int /\ 0 <= n /\ n < Nanos
          BY <3>1, <3>2, WordFacts
        <4>2. began <= k + n
          BY <1>1, <1>5, <1>11, <1>12, <4>1
        <4> QED
          BY <1>11, <4>1, <4>2, WordFacts
      <3> QED
        BY <1>3, <2>1, <3>1, <3>2, <3>3
    <2>2. CASE w # "low"
      <3>1. "low" \notin words' => "low" \notin words
        BY <1>0, <2>2
      <3>2. j.sec.low = clock_times["t3"].sec.low
        BY <1>3, <2>2
      <3> QED
        BY <1>a, <1>1, <3>1, <3>2 DEF Copying
    <2> QED
      BY <2>1, <2>2
  <1>14. "ns" \notin words' => j.ns = (u + Error) % Nanos
    <2> HIDE DEF j, u
    <2>1. CASE w = "ns"
      <3>1. u + Error = Timing!Value(clock)
        BY <1>1, <1>5, <2>1 DEF Error
      <3>2. clock.ns = Timing!Value(clock) % Nanos
        <4>1. Timing!Value(clock) \in 0 .. Word * Nanos - 1
              /\ clock = Timing!TimeOf(Timing!Value(clock))
          BY <1>1, <1>2, InstantValue
        <4>2. clock = TimeAt(Timing!Value(clock) \div Nanos, Timing!Value(clock) % Nanos)
          BY <1>1, <4>1, InstantOf
        <4> QED
          BY <4>2 DEF TimeAt
      <3> QED
        BY <1>3, <2>1, <3>1, <3>2
    <2>2. CASE w # "ns"
      <3>1. "ns" \notin words' => "ns" \notin words
        BY <1>0, <2>2
      <3>2. j.ns = clock_times["t3"].ns /\ u = at["t3"]
        BY <1>3, <1>5, <2>2
      <3> QED
        BY <1>a, <1>1, <3>1, <3>2 DEF Copying
    <2> QED
      BY <2>1, <2>2
  <1>15. FirstRead'
    <2>0. clock_pc' \in {"copy", "t4"}
      BY <1>a
    <2>1. Ahead("t2", at["t3"])'
      <3>0. Lead("t2")' = Lead("t2") /\ at'["t2"] = at["t2"] /\ u = at'["t3"]
        BY <1>7
      <3>1. 0 <= Lead("t2") /\ Lead("t2") <= Nanos - 1 + u - at["t2"]
        <4> HIDE DEF u
        <4> QED
          BY <1>1, <1>5, <1>10 DEF Ahead
      <3>2. (~torn') => Lead("t2") = 0
        BY <1>a, <1>10 DEF Ahead
      <3> HIDE DEF u
      <3> QED
        BY <3>0, <3>1, <3>2 DEF Ahead
    <2>2. at'["t1"] <= at'["t2"] /\ at'["t2"] <= at'["t3"] /\ at'["t3"] <= now'
      <3>1. at'["t1"] = at["t1"] /\ at'["t2"] = at["t2"] /\ now' = now
        BY <1>a, <1>7
      <3>2. PICK f \in Int : f = u
        BY <1>5
      <3> QED
        BY <1>1, <1>5, <1>10, <3>1, <3>2
    <2> QED
      BY <2>0, <2>1, <2>2 DEF FirstRead
  <1>16. CASE words' # {}
    <2>1. clock_pc' = "copy" /\ torn' = torn
      BY <1>a, <1>16
    <2>2. Copying'
      BY <1>a, <1>4, <1>5, <1>7, <1>11, <1>12, <1>13, <1>14, <2>1 DEF Copying
    <2>3. Stages'
      BY <1>4, <1>9, <1>15, <2>1, <2>2 DEF Stages, BothRead, Setting, LastReading
    <2> QED
      BY <1>a, <1>1, <1>8, <2>1, <2>3 DEF ClockInv, Room, Initially, Timing!SetByRequest
  <1>17. CASE words' = {}
    <2>1. clock_pc' = "t4"
      BY <1>a, <1>17
    <2>2. PICK m \in Int : m = u + Error
      BY <1>1, <1>5
    <2>3. /\ Timing!Value(j) \in Int
          /\ began - (Nanos - 1) <= Timing!Value(j)
          /\ Timing!Value(j) <= Timing!Value(clock) + Nanos - 1
          /\ Timing!Value(clock) \div Nanos = began \div Nanos => Timing!Value(j) = m
      <3>1. m \in 0 .. Word * Nanos - 1 /\ Timing!Value(clock) \in 0 .. Word * Nanos - 1
            /\ began <= m /\ m <= Timing!Value(clock)
        BY <1>1, <1>12, <2>2
      <3>2. /\ j.sec.low * Nanos <= Timing!Value(clock) /\ began < j.sec.low * Nanos + Nanos
            /\ j.ns = m % Nanos
        BY <1>13, <1>14, <1>17, <2>2
      <3> HIDE DEF j, u
      <3> QED
        BY <1>1, <1>3, <1>11, <3>1, <3>2, WordsJoined
    <2>4. Amount("t3")' = Timing!Value(j)
      BY DEF Amount
    <2>5. Lead("t3")' = Timing!Value(j) - m
      <3>1. Lead("t3")' = Timing!Value(j) - u - Error
        BY <1>4, <2>4 DEF Lead
      <3> HIDE DEF j, u
      <3> QED
        BY <1>1, <1>5, <2>2, <2>3, <3>1
    <2>6. /\ at["t2"] - u - (Nanos - 1) <= Lead("t3")'
          /\ Lead("t3")' <= Nanos - 1 + now - u
      <3> HIDE DEF j, u
      <3>1. PICK e \in Int : e = Error /\ Timing!Value(clock) = now + e
        BY <1>1 DEF Error
      <3>2. PICK y \in Int : y = Timing!Value(j)
        BY <2>3
      <3> QED
        BY <1>1, <1>5, <1>11, <2>2, <2>3, <2>5, <3>1, <3>2
    <2>7. (~torn') => Lead("t3")' = 0
      <3>1. (~torn') => Timing!Value(clock) \div Nanos = began \div Nanos
        BY <1>a, <1>17
      <3>2. Timing!Value(j) = m => Lead("t3")' = 0
        <4> HIDE DEF j
        <4> QED
          BY <2>2, <2>5
      <3> QED
        BY <2>3, <3>1, <3>2
    <2>8. Around(now)'
      <3>1. at'["t2"] = at["t2"] /\ now' = now
        BY <1>a, <1>7
      <3> QED
        BY <2>6, <2>7, <3>1 DEF Around
    <2>9. BothRead'
      <3>1. Ahead("t2", at["t3"])' /\ at'["t1"] <= at'["t2"] /\ at'["t2"] <= at'["t3"]
            /\ at'["t3"] <= now'
        <4>1. at["t1"] <= at["t2"] /\ at["t2"] <= u /\ u <= now
          <5> HIDE DEF u
          <5> QED
            BY <1>1, <1>5, <1>10
        <4>2. 0 <= Lead("t2") /\ Lead("t2") <= Nanos - 1 + u - at["t2"]
          <5> HIDE DEF u
          <5> QED
            BY <1>1, <1>5, <1>10 DEF Ahead
        <4>3. (~torn') => Lead("t2") = 0
          BY <1>a, <1>10 DEF Ahead
        <4> QED
          BY <1>a, <1>7, <4>1, <4>2, <4>3 DEF Ahead
      <3> QED
        BY <2>1, <2>8, <3>1 DEF BothRead
    <2>10. LastReading'
      BY <1>a, <1>4, <2>1, <2>3, <2>4 DEF LastReading
    <2>11. Stages'
      BY <1>4, <1>9, <1>15, <2>1, <2>9, <2>10 DEF Stages, Setting, Copying
    <2> QED
      BY <1>a, <1>1, <1>8, <2>1, <2>11 DEF ClockInv, Room, Initially, Timing!SetByRequest
  <1> QED
    BY <1>16, <1>17

(* The error that the times of a request leave, doubled.                   *)
LEMMA LagIs ==
  ASSUME ClockFits, ClockTypes, Requested, BothRead, clock_pc \in {"response", "current", "set"}
  PROVE  /\ Lag = (at["t4"] - at["t3"]) - (at["t2"] - at["t1"]) - 2 * Error - Lead("t2") - Lead("t3")
         /\ 0 <= Lead("t2") /\ Lead("t2") <= Nanos - 1 + at["t3"] - at["t2"]
         /\ at["t2"] - at["t3"] - (Nanos - 1) <= Lead("t3")
         /\ Lead("t3") <= Nanos - 1 + at["t4"] - at["t3"]
         /\ ~torn => Lead("t2") = 0 /\ Lead("t3") = 0
         /\ now - ticks <= at["t1"] /\ at["t1"] <= at["t2"] /\ at["t2"] <= at["t3"]
         /\ at["t3"] <= at["t4"] /\ at["t4"] <= now
         /\ clock_times["t1"].sec # Timing!Zero => at["t1"] >= Nanos
  <1>1. Amount("t1") = at["t1"] /\ Amount("t4") = at["t4"]
    BY DEF Requested, BothRead
  <1>2. Lag = (at["t4"] - at["t3"]) - (at["t2"] - at["t1"]) - 2 * Error - Lead("t2") - Lead("t3")
    BY <1>1, ClockFacts DEF Lag, Lead
  <1>3. clock_times["t1"].sec # Timing!Zero => at["t1"] >= Nanos
    <2> SUFFICES ASSUME clock_times["t1"].sec # Timing!Zero PROVE Amount("t1") >= Nanos
      BY <1>1
    <2> DEFINE i == clock_times["t1"]
    <2>1. i \in Instant /\ Word >= 8
      BY ClockFacts DEF ClockTypes
    <2> HIDE DEF i
    <2>2. PICK x \in 0 .. Word - 1, n \in 0 .. Nanos - 1 :
            i = TimeAt(x, n) /\ Timing!Value(i) = x * Nanos + n /\ i.sec.low = x
      BY <2>1, InstantFields
    <2>3. x # 0
      BY <2>1, <2>2, InstantValue DEF i
    <2>4. PICK e \in Nat : x = 1 + e
      BY <2>3, WordFacts
    <2>5. x * Nanos = Nanos + e * Nanos /\ e * Nanos \in Nat
      BY <2>4, WordFacts
    <2> QED
      BY <2>2, <2>5, WordFacts DEF Amount, i
  <1> QED
    BY <1>2, <1>3 DEF Requested, BothRead, Ahead, Around

(* Wherever the clock is put by the half of the lag, from a time u of the  *)
(* request on, it is within its range; a second after the first there was. *)
LEMMA PutInRange ==
  ASSUME ClockFits, ClockTypes, Requested, BothRead, clock_pc \in {"response", "current", "set"},
         clock_times["t1"].sec # Timing!Zero,
         NEW u \in Int, at["t4"] <= u, u <= now, NEW e \in Int, 0 <= e, e <= Nanos - 1 + now - u
  PROVE  /\ u + Error + e + HalfOf(Lag) \in 0 .. Word * Nanos - 1
         /\ u + Error + e + HalfOf(Lag) - ticks < Word * Nanos - MaxTicks
         /\ ~torn => 2 * (Error + HalfOf(Lag)) - ((at["t4"] - at["t3"]) - (at["t2"] - at["t1"])) \in -1 .. 1
  <1>1. /\ HalfOf(Lag) \in Int /\ Lag \in Int
        /\ -1 <= 2 * HalfOf(Lag) - Lag /\ 2 * HalfOf(Lag) - Lag <= 1
    <2>1. 2 * HalfOf(Lag) - Lag \in -1 .. 1 /\ HalfOf(Lag) \in Int /\ Lag \in Int
      BY OffsetIs, ClockFacts DEF ClockTypes
    <2> QED
      BY <2>1
  <1>2. PICK h \in Int : h = HalfOf(Lag)
    BY <1>1
  <1>3. PICK v \in Int : v = u + Error + e + h
    BY <1>2, ClockFacts
  <1>4. 0 <= v
    BY <1>1, <1>2, <1>3, LagIs, ClockFacts
  <1>5. v - ticks < Word * Nanos - MaxTicks
    BY <1>1, <1>2, <1>3, LagIs, ClockFacts
  <1>6. v \in 0 .. Word * Nanos - 1
    BY <1>3, <1>4, <1>5, ClockFacts
  <1>7. ~torn => 2 * (Error + h) - ((at["t4"] - at["t3"]) - (at["t2"] - at["t1"])) \in -1 .. 1
    <2>1. PICK g \in Int : g = 2 * h - Lag /\ -1 <= g /\ g <= 1
      BY <1>1, <1>2
    <2>2. 2 * (Error + h) - ((at["t4"] - at["t3"]) - (at["t2"] - at["t1"]))
            = g - Lead("t2") - Lead("t3")
      <3>1. PICK f \in Int, k \in Int, l \in Int, r \in Int :
               /\ f = Lead("t2") /\ k = Lead("t3") /\ l = Error
               /\ r = (at["t4"] - at["t3"]) - (at["t2"] - at["t1"])
        <4>1. Lead("t2") \in Int /\ Lead("t3") \in Int /\ Error \in Int
          BY ClockFacts
        <4>2. (at["t4"] - at["t3"]) - (at["t2"] - at["t1"]) \in Int
          BY ClockFacts
        <4> QED
          BY <4>1, <4>2
      <3>2. Lag = r - 2 * l - f - k
        BY <3>1, LagIs
      <3>3. 2 * (l + h) - r = g - f - k
        BY <2>1, <3>2
      <3> QED
        BY <3>1, <3>3
    <2>3. ~torn => g - Lead("t2") - Lead("t3") = g
      BY <2>1, LagIs, ClockFacts
    <2>4. g \in -1 .. 1
      BY <2>1
    <2> QED
      BY <2>2, <2>3, <2>4
  <1>8. u + Error + e + HalfOf(Lag) = v
    BY <1>2, <1>3
  <1>9. ~torn => 2 * (Error + HalfOf(Lag)) - ((at["t4"] - at["t3"]) - (at["t2"] - at["t1"])) \in -1 .. 1
    BY <1>2, <1>7
  <1>10. u + Error + e + HalfOf(Lag) \in 0 .. Word * Nanos - 1
    BY <1>6, <1>8, Zenon
  <1>11. u + Error + e + HalfOf(Lag) - ticks < Word * Nanos - MaxTicks
    BY <1>1, <1>3, <1>5, <1>8, ClockFacts
  <1> QED
    BY <1>9, <1>10, <1>11, Zenon

LEMMA DelayRespStep ==
  ASSUME ClockFits, ClockInv, Timing!DelayResp
  PROVE  ClockInv'
  <1>0. /\ clock_pc = "response"
        /\ UNCHANGED <<kind, now, half, words, clock_times, ticks, at, began, torn, lost>>
    BY DEF Timing!DelayResp
  <1>1. ClockTypes /\ Room /\ Requested /\ FirstRead /\ BothRead /\ Setting /\ LastReading
    BY DEF ClockInv, Stages
  <1> USE ClockFacts
  <1>2. ~half' /\ ~half
    BY <1>0, <1>1 DEF LastReading, Timing!Readings
  <1>3. CASE clock_times["t1"].sec = Timing!Zero
    <2>1. clock_pc' = "idle" /\ UNCHANGED <<clock, macstsur, clock_offset, requests>>
      BY <1>3 DEF Timing!DelayResp
    <2>2. ClockTypes' /\ Room'
      BY <1>0, <1>1, <2>1 DEF ClockTypes, Room
    <2>3. Stages'
      BY <1>2, <2>1 DEF Stages, Requested, FirstRead, BothRead, Setting, LastReading, Copying
    <2> QED
      BY <1>0, <1>3, <2>1, <2>2, <2>3 DEF ClockInv, Initially, Timing!SetByRequest
  <1>4. CASE clock_times["t1"].sec # Timing!Zero
    <2>1. /\ clock_offset' = Timing!Offset
          /\ IF Timing!Offset.sec = Timing!Zero
             THEN Timing!Adjust(Timing!Offset.ns) /\ clock_pc' = "idle" /\ requests' = requests + 1
             ELSE clock_pc' = "current" /\ UNCHANGED <<clock, macstsur, requests>>
      BY <1>4 DEF Timing!DelayResp
    <2>2. PICK h \in Int : h = HalfOf(Lag) /\ Timing!Offset = SignedTime(h)
      BY <1>1, OffsetIs DEF ClockTypes
    <2>3. CASE Timing!Offset.sec # Timing!Zero
      <3>1. clock_pc' = "current" /\ UNCHANGED <<clock, macstsur, requests>>
        BY <2>1, <2>3
      <3>2. ClockTypes' /\ Room'
        BY <1>0, <1>1, <3>1 DEF ClockTypes, Room
      <3>3. \A r : Amount(r)' = Amount(r) /\ at'[r] = at[r] /\ Lead(r)' = Lead(r)
        BY <1>0, <3>1 DEF Amount, Lead, Error
      <3>4. Requested' /\ FirstRead' /\ LastReading' /\ Copying'
        BY <1>0, <1>1, <1>2, <3>1, <3>3 DEF Requested, FirstRead, LastReading, Copying
      <3>5. BothRead'
        BY <1>0, <1>1, <3>1, <3>3 DEF BothRead, Ahead, Around
      <3>6. Setting'
        <4>1. Lag' = Lag
          BY <3>3 DEF Lag
        <4> QED
          BY <1>0, <1>2, <1>4, <2>1, <2>2, <3>1, <4>1 DEF Setting
      <3> QED
        BY <1>0, <3>1, <3>2, <3>4, <3>5, <3>6 DEF ClockInv, Stages, Initially, Timing!SetByRequest
    <2>4. CASE Timing!Offset.sec = Timing!Zero
      <3>1. Timing!Adjust(Timing!Offset.ns) /\ clock_pc' = "idle" /\ requests' = requests + 1
        BY <2>1, <2>4
      <3>2. Timing!Offset.ns = h /\ h \in -Nanos + 1 .. Nanos - 1
        <4>1. PICK x \in Int, n \in Int :
                 SignedTime(h) = TimeAt(x, n) /\ h = x * Nanos + n /\ Normal(x, n)
          BY SignedFields
        <4>2. x \in Count
          <5>1. h \in Amounts(1)
            BY <1>1, <2>2, OffsetIs DEF ClockTypes
          <5>2. x \in -(1 * Word) .. 1 * Word
            BY <4>1, <5>1, SecondsInRange
          <5> QED
            BY <5>2, WordFacts DEF Count
        <4>3. x = 0
          <5>1. SecondsOf(x) = Timing!Zero
            BY <2>2, <2>4, <4>1 DEF TimeAt
          <5> QED
            BY <1>1, <4>2, <5>1, SignOf
        <4>4. h = n
          BY <4>1, <4>3, WordFacts
        <4> QED
          BY <2>2, <4>1, <4>4 DEF TimeAt, Normal
      <3>3. /\ Timing!Value(clock) + h \in 0 .. Word * Nanos - 1
            /\ Timing!Value(clock) + h - ticks < Word * Nanos - MaxTicks
            /\ ~torn => 2 * (Error + h) - ((at["t4"] - at["t3"]) - (at["t2"] - at["t1"])) \in -1 .. 1
        <4>1. PICK v \in Int : v = Timing!Value(clock) + h /\ v = now + Error + 0 + h
          BY <1>1, <2>2 DEF Error
        <4>2. at["t4"] <= now /\ now <= now /\ 0 <= Nanos - 1 + now - now /\ now \in Int
          BY <1>0, <1>1 DEF BothRead
        <4>3. /\ now + Error + 0 + h \in 0 .. Word * Nanos - 1
              /\ now + Error + 0 + h - ticks < Word * Nanos - MaxTicks
              /\ ~torn => 2 * (Error + h) - ((at["t4"] - at["t3"]) - (at["t2"] - at["t1"])) \in -1 .. 1
          BY <1>0, <1>1, <1>4, <2>2, <4>2, PutInRange
        <4>4. now + Error + 0 + h = Timing!Value(clock) + h
          BY <4>1
        <4>5. Timing!Value(clock) + h \in 0 .. Word * Nanos - 1
          BY <4>3, <4>4, Zenon
        <4>6. Timing!Value(clock) + h - ticks < Word * Nanos - MaxTicks
          BY <1>1, <2>2, <4>1, <4>3, <4>4
        <4> QED
          BY <4>3, <4>5, <4>6, Zenon
      <3>4. clock' \in Instant /\ Timing!Value(clock') = Timing!Value(clock) + h /\ macstsur' = 0
        BY <1>1, <3>1, <3>2, <3>3, AdjustStep DEF ClockTypes
      <3>5. ClockTypes'
        BY <1>0, <1>1, <3>1, <3>4 DEF ClockTypes
      <3>6. Room'
        BY <1>0, <1>1, <3>3, <3>4 DEF Room
      <3>7. Timing!SetByRequest'
        <4> SUFFICES ASSUME ~torn
                     PROVE  2 * (Timing!Value(clock') - now + 0)
                              - ((at["t4"] - at["t3"]) - (at["t2"] - at["t1"])) \in -1 .. 1
          BY <1>0, <1>1, <3>1 DEF Timing!SetByRequest, Requested
        <4> QED
          BY <1>1, <3>2, <3>3, <3>4 DEF Error
      <3>8. Stages'
        BY <1>2, <3>1 DEF Stages, Requested, FirstRead, BothRead, Setting, LastReading, Copying
      <3> QED
        BY <3>1, <3>5, <3>6, <3>7, <3>8 DEF ClockInv, Initially
    <2> QED
      BY <2>3, <2>4
  <1> QED
    BY <1>3, <1>4

LEMMA JumpStep ==
  ASSUME ClockFits, ClockInv, Timing!Jump
  PROVE  ClockInv'
  <1> DEFINE i == clock_times["current"]
             c == Timing!Carried(Timing!Time(i.sec, i.ns + clock_offset.ns))
             j == Timing!Time(Timing!add64(c.sec, clock_offset.sec), c.ns)
  <1>0. /\ clock_pc = "set" /\ clock_pc' = "idle" /\ requests' = requests + 1
        /\ Timing!Set(j) /\ lost' = now - at["current"]
        /\ UNCHANGED <<kind, now, half, words, clock_times, clock_offset, ticks, at, began, torn>>
    BY DEF Timing!Jump
  <1>1. ClockTypes /\ Room /\ Requested /\ FirstRead /\ BothRead /\ Setting /\ LastReading
    BY DEF ClockInv, Stages
  <1> USE ClockFacts
  <1>2. ~half'
    BY <1>0, <1>1 DEF LastReading, Timing!Readings
  <1>3. PICK h \in Int : h = HalfOf(Lag) /\ clock_offset = SignedTime(h) /\ h \in Amounts(1)
    BY <1>0, <1>1, OffsetIs DEF ClockTypes, Setting
  <1>4. PICK u \in Int, e \in Int :
           /\ u = at["current"] /\ e = Lead("current") /\ at["t4"] <= u /\ u <= now
           /\ 0 <= e /\ e <= Nanos - 1 + now - u /\ (~torn => e = 0)
           /\ Amount("current") = u + Error + e
    <2>1. Ahead("current", now) /\ at["t4"] <= at["current"] /\ at["current"] <= now
      BY <1>0, <1>1 DEF Setting
    <2>2. at["current"] \in Int /\ Lead("current") \in Int
      BY <1>1
    <2>3. Amount("current") = at["current"] + Error + Lead("current")
      BY <1>1 DEF Lead
    <2> QED
      BY <2>1, <2>2, <2>3 DEF Ahead
  <1>5. clock_times["t1"].sec # Timing!Zero
    BY <1>0, <1>1 DEF Setting
  <1>6. /\ u + Error + e + h \in 0 .. Word * Nanos - 1
        /\ u + Error + e + h - ticks < Word * Nanos - MaxTicks
        /\ ~torn => 2 * (Error + h) - ((at["t4"] - at["t3"]) - (at["t2"] - at["t1"])) \in -1 .. 1
    BY <1>0, <1>1, <1>3, <1>4, <1>5, PutInRange
  <1>7. j \in Instant /\ Timing!Value(j) = Timing!Value(i) + h
    <2>1. i \in Instant /\ Timing!Value(i) = u + Error + e
      BY <1>1, <1>4 DEF ClockTypes, Amount
    <2> QED
      BY <1>1, <1>3, <1>6, <2>1, JumpTo
  <1>8. clock' = j /\ macstsur' = 0
    <2> HIDE DEF j
    <2> QED
      BY <1>0, <1>1, <1>7, SetStep DEF ClockTypes
  <1>9. Timing!Value(clock') = u + Error + e + h /\ clock' \in Instant
    <2> HIDE DEF j
    <2> QED
      BY <1>4, <1>7, <1>8 DEF Amount
  <1> HIDE DEF j, c, i
  <1>10. ClockTypes'
    BY <1>0, <1>1, <1>8, <1>9 DEF ClockTypes
  <1>11. Room'
    BY <1>0, <1>1, <1>6, <1>9 DEF Room
  <1>12. Timing!SetByRequest'
    <2> SUFFICES ASSUME ~torn
                 PROVE  2 * (Timing!Value(clock') - now + (now - u))
                          - ((at["t4"] - at["t3"]) - (at["t2"] - at["t1"])) \in -1 .. 1
      BY <1>0, <1>1, <1>4 DEF Timing!SetByRequest
    <2> QED
      BY <1>1, <1>3, <1>4, <1>6, <1>9
  <1>13. Stages'
    BY <1>0, <1>2 DEF Stages, Requested, FirstRead, BothRead, Setting, LastReading, Copying
  <1> QED
    BY <1>0, <1>10, <1>11, <1>12, <1>13 DEF ClockInv, Initially

LEMMA ClockStep ==
  ASSUME ClockFits, ClockInv, [Timing!Next]_clockVars
  PROVE  ClockInv'
  <1>1. CASE UNCHANGED clockVars
    BY <1>1 DEF clockVars, ClockInv, ClockTypes, Room, Initially, Stages, Requested, FirstRead,
       BothRead,
      Setting, LastReading, Copying, Timing!SetByRequest, Ahead, Around, Lead, Amount, Error, Lag
  <1> QED
    BY <1>1, TickStep, StartStep, SyncStep, ReadStep, ReadSecondsStep, PrepareStep, CopyStep,
       AnswerStep, DelayRespStep, JumpStep
       DEF Timing!Next

LEMMA ClockSound == ClockFits /\ ClockInv => Timing!ClockFollows
  <1> SUFFICES ASSUME ClockFits, ClockInv PROVE Timing!ClockFollows
    OBVIOUS
  <1>1. ClockTypes /\ Stages /\ Timing!SetByRequest
    BY DEF ClockInv
  <1>2. Timing!DifferencesExact
    BY <1>1, Differences, ClockFacts DEF ClockTypes
  <1>3. Timing!ReadingNear
    <2>1. ASSUME NEW r \in {"t2", "t3", "current"}, began = at[r] + Error, Ahead(r, now)
          PROVE  Amount(r) \in began - 0 .. Timing!Value(clock) + Nanos - 1
      BY <1>1, <2>1, ClockFacts DEF Ahead, Lead, Error
    <2>2. CASE clock_pc = "t3" /\ ~half
      <3>1. began = at["t2"] + Error /\ Ahead("t2", now)
        BY <1>1, <2>2 DEF Stages, FirstRead, LastReading
      <3> QED
        BY <2>1, <2>2, <3>1 DEF Timing!ReadingNear, Timing!Behind, Amount
    <2>3. CASE clock_pc = "t4" /\ ~half
      <3>1. began - Timing!Behind <= Amount("t3") /\ Around(now)
        BY <1>1, <2>3 DEF Stages, BothRead, LastReading, Timing!Behind
      <3>2. Amount("t3") <= Timing!Value(clock) + Nanos - 1
        BY <1>1, <3>1, ClockFacts DEF Around, Lead, Error
      <3>3. began - Timing!Behind \in Int
        BY <1>1, ClockFacts DEF ClockTypes, Timing!Behind
      <3>4. Amount("t3") \in began - Timing!Behind .. Timing!Value(clock) + Nanos - 1
        BY <1>1, <3>1, <3>2, <3>3, ClockFacts
      <3> QED
        BY <2>3, <3>4 DEF Timing!ReadingNear, Amount
    <2>4. CASE clock_pc = "set" /\ ~half
      <3>1. began = at["current"] + Error /\ Ahead("current", now)
        BY <1>1, <2>4 DEF Stages, Setting, LastReading
      <3> QED
        BY <2>1, <2>4, <3>1 DEF Timing!ReadingNear, Timing!Behind, Amount
    <2> QED
      BY <2>2, <2>3, <2>4 DEF Timing!ReadingNear
  <1> QED
    BY <1>1, <1>2, <1>3 DEF Timing!ClockFollows

(* For every width of a word and number of nanoseconds in a second, every  *)
(* start of the master and setting of the client that leave the clock room: *)
(* whatever the messages take and however ticks fall between the two halves *)
(* of a reading of the MAC's clock, an applied request leaves the clock off *)
(* by half the difference of the ways, a nanosecond of rounding and what    *)
(* passed while it was set; a reading is less than a second ahead; and the  *)
(* differences of a request's times are exact.  Ticks between the words of  *)
(* t3, copied from the client's own clock in any order, make the reading    *)
(* less than a second wrong either way.                                     *)
THEOREM ClockFollowsMaster == ClockFits => (DevicesSpec => []ClockFollows)
  <1> SUFFICES ASSUME ClockFits PROVE DevicesSpec => []ClockFollows
    OBVIOUS
  <1>1. DevicesInit => ClockInv
    BY ClockInit
  <1>2. ClockInv /\ [DevicesNext]_allVars => ClockInv'
    <2> SUFFICES ASSUME ClockInv, [DevicesNext]_allVars PROVE ClockInv'
      OBVIOUS
    <2>1. [Timing!Next]_clockVars
      BY DEF DevicesNext, allVars, clockVars
    <2> QED
      BY <2>1, ClockStep
  <1>3. ClockInv => ClockFollows
    BY ClockSound DEF ClockFollows
  <1> QED
    BY <1>1, <1>2, <1>3, PTL DEF DevicesSpec

-------------------------------------------------------------------------------
(***************************************************************************)
(* The dates of PTP times.                                                  *)
(***************************************************************************)
(* A year's seconds fit a ULONG, the offsets from UTC a LONG, and the times *)
(* 64 bits with sign.                                                       *)
DatesFit ==
  /\ SecsPerDay \in Nat \ {0} /\ 366 * SecsPerDay <= DateWord
  /\ FirstDays \subseteq Nat /\ Span \in Nat
  /\ \A o \in Offsets : o \in Int /\ -DateWord <= o /\ o < DateWord
  /\ \A d \in FirstDays : (d + Span + 1) * SecsPerDay + DateWord < (DateWord \div 2) * DateWord

(* The months of a year.                                                   *)

MonthTimes == [year : Nat, month : Nat, secs : Nat]

LEMMA MonthLengths ==
  ASSUME NEW m \in Nat, NEW y \in Nat
  PROVE  /\ Dating!DaysOfMonth(m, y) \in {28, 29, 30, 31}
         /\ Dating!DaysOfYear(y) \in {365, 366}
         /\ m \in 1 .. 12 => Dating!Length(y, m) = Dating!DaysOfMonth(m, y)
  <1>1. Dating!IS_LEAP(y) <=> Dating!LeapDay(y)
    BY DEF Dating!IS_LEAP, Dating!LeapDay
  <1>2. Dating!DaysOfMonth(m, y) \in {28, 29, 30, 31} /\ Dating!DaysOfYear(y) \in {365, 366}
    BY DEF Dating!DaysOfMonth, Dating!DaysOfYear
  <1>3. ASSUME m \in 1 .. 12 PROVE Dating!Length(y, m) = Dating!DaysOfMonth(m, y)
    <2>1. \/ m = 1 \/ m = 2 \/ m = 3 \/ m = 4 \/ m = 5 \/ m = 6
          \/ m = 7 \/ m = 8 \/ m = 9 \/ m = 10 \/ m = 11 \/ m = 12
      BY <1>3
    <2> QED
      BY <1>1, <2>1 DEF Dating!Length, Dating!DaysOfMonth, Dating!Knuckles, Dating!Carry
  <1> QED
    BY <1>2, <1>3

LEMMA MonthLoop ==
  ASSUME DatesFit, NEW t \in MonthTimes
  PROVE  /\ Dating!MonthFrom[t] =
               IF Dating!MonthEnds(t) THEN Dating!MonthFrom[Dating!NextMonth(t)] ELSE t
         /\ Dating!MonthEnds(t) => Dating!NextMonth(t) \in MonthTimes
  <1> DEFINE X == MonthTimes
             more == {x \in X : Dating!MonthEnds(x)}
             step == [x \in X |-> IF Dating!MonthEnds(x) THEN Dating!NextMonth(x) ELSE x]
             secs == [x \in X |-> x.secs]
  <1>1. ASSUME NEW x \in X, Dating!MonthEnds(x)
        PROVE  Dating!NextMonth(x) \in X /\ Dating!NextMonth(x).secs < x.secs
    <2> DEFINE n == Dating!DaysOfMonth(x.month, x.year) * SecsPerDay
    <2>1. x.year \in Nat /\ x.month \in Nat /\ x.secs \in Nat
      BY DEF MonthTimes
    <2>2. n \in Nat /\ n > 0
      BY <2>1, MonthLengths DEF DatesFit
    <2>3. x.secs >= n
      BY <1>1 DEF Dating!MonthEnds
    <2>4. Dating!NextMonth(x) = [year |-> x.year, month |-> x.month + 1, secs |-> x.secs - n]
      BY DEF Dating!NextMonth
    <2> HIDE DEF n
    <2> QED
      BY <2>1, <2>2, <2>3, <2>4 DEF MonthTimes
  <1>2. step \in [X -> X] /\ secs \in [X -> Nat]
    BY <1>1 DEF MonthTimes
  <1>3. Descends(X, more, step, secs)
    BY <1>1 DEF Descends
  <1>4. \E f \in [X -> X] : Ends(X, more, step, f)
    <2> HIDE DEF X, more, step, secs
    <2> QED
      BY <1>2, <1>3, LoopDefined
  <1>5. PICK f \in [X -> X] : Ends(X, more, step, f)
    BY <1>4
  <1>6. f = [x \in X |-> IF Dating!MonthEnds(x) THEN f[Dating!NextMonth(x)] ELSE x]
    <2>1. \A x \in X : f[x] = IF Dating!MonthEnds(x) THEN f[Dating!NextMonth(x)] ELSE x
      BY <1>5 DEF Ends
    <2> HIDE DEF X
    <2> QED
      BY <2>1
  <1>7. Dating!MonthFrom =
          [x \in X |-> IF Dating!MonthEnds(x) THEN Dating!MonthFrom[Dating!NextMonth(x)] ELSE x]
    BY <1>6 DEF Dating!MonthFrom, MonthTimes
  <1> QED
    BY <1>1, <1>7

Rest(k, y) ==
  CASE k = 1 -> Dating!DaysOfYear(y)
    [] k = 2 -> Dating!DaysOfYear(y) - 31
    [] k = 3 -> 306 [] k = 4 -> 275 [] k = 5 -> 245 [] k = 6 -> 214
    [] k = 7 -> 184 [] k = 8 -> 153 [] k = 9 -> 122 [] k = 10 -> 92
    [] k = 11 -> 61 [] k = 12 -> 31 [] k = 13 -> 0

LEMMA RestOfYear ==
  ASSUME NEW y \in Nat, NEW k \in 1 .. 12
  PROVE  /\ Rest(k, y) = Dating!DaysOfMonth(k, y) + Rest(k + 1, y)
         /\ Rest(k, y) \in Nat /\ Rest(k + 1, y) \in Nat
  <1>1. \/ k = 1 \/ k = 2 \/ k = 3 \/ k = 4 \/ k = 5 \/ k = 6
        \/ k = 7 \/ k = 8 \/ k = 9 \/ k = 10 \/ k = 11 \/ k = 12
    OBVIOUS
  <1>2. CASE k <= 2
    BY <1>1, <1>2 DEF Rest, Dating!DaysOfMonth, Dating!DaysOfYear
  <1>3. CASE k > 2
    BY <1>1, <1>3 DEF Rest, Dating!DaysOfMonth
  <1> QED
    BY <1>2, <1>3

InMonth(y, k, s) == [year |-> y, month |-> k, secs |-> s]

(* r is where s seconds from month k of a year on fall, q where s + 1 do;  *)
(* the year has left seconds.                                              *)
SecondAfter(y, k, s, left, r, q) ==
  /\ r \in MonthTimes /\ r.month \in k .. 12
  /\ r.secs < Dating!DaysOfMonth(r.month, y) * SecsPerDay
  /\ \E d \in Nat : s = r.secs + d * SecsPerDay
  /\ s + 1 < left =>
       IF r.secs + 1 < Dating!DaysOfMonth(r.month, y) * SecsPerDay
       THEN q.month = r.month /\ q.secs = r.secs + 1
       ELSE r.month < 12 /\ q.month = r.month + 1 /\ q.secs = 0
  /\ s + 1 = left => r.month = 12 /\ r.secs + 1 = 31 * SecsPerDay

MonthsFollow(y, k) ==
  \A s \in Nat : s < Rest(k, y) * SecsPerDay =>
    SecondAfter(y, k, s, Rest(k, y) * SecsPerDay,
                Dating!MonthFrom[InMonth(y, k, s)], Dating!MonthFrom[InMonth(y, k, s + 1)])

LEMMA MonthLength ==
  ASSUME DatesFit, NEW y \in Nat, NEW k \in Nat
  PROVE  Dating!DaysOfMonth(k, y) * SecsPerDay \in Nat
         /\ Dating!DaysOfMonth(k, y) * SecsPerDay > 0
  <1>1. Dating!DaysOfMonth(k, y) \in {28, 29, 30, 31}
    BY MonthLengths
  <1> QED
    BY <1>1 DEF DatesFit

LEMMA MonthStays ==
  ASSUME DatesFit, NEW y \in Nat, NEW k \in Nat, NEW s \in Nat,
         s < Dating!DaysOfMonth(k, y) * SecsPerDay
  PROVE  Dating!MonthFrom[InMonth(y, k, s)] = InMonth(y, k, s)
  <1> DEFINE t == InMonth(y, k, s)
             n == Dating!DaysOfMonth(k, y) * SecsPerDay
  <1>1. t \in MonthTimes /\ t.year = y /\ t.month = k /\ t.secs = s
    BY DEF InMonth, MonthTimes
  <1>2. Dating!MonthEnds(t) <=> s >= n
    BY <1>1 DEF Dating!MonthEnds
  <1>3. ~(s >= n)
    <2>1. n \in Nat /\ s < n
      BY MonthLength
    <2> HIDE DEF n
    <2> QED
      BY <2>1
  <1> HIDE DEF t, n
  <1>4. Dating!MonthFrom[t] = t
    BY <1>1, <1>2, <1>3, MonthLoop
  <1> QED
    BY <1>4 DEF t

LEMMA MonthPasses ==
  ASSUME DatesFit, NEW y \in Nat, NEW k \in Nat, NEW s \in Nat, NEW u \in Nat,
         s = u + Dating!DaysOfMonth(k, y) * SecsPerDay
  PROVE  Dating!MonthFrom[InMonth(y, k, s)] = Dating!MonthFrom[InMonth(y, k + 1, u)]
  <1> DEFINE t == InMonth(y, k, s)
             n == Dating!DaysOfMonth(k, y) * SecsPerDay
  <1>1. t \in MonthTimes /\ t.year = y /\ t.month = k /\ t.secs = s
    BY DEF InMonth, MonthTimes
  <1>2. Dating!MonthEnds(t) <=> s >= n
    BY <1>1 DEF Dating!MonthEnds
  <1>3. Dating!NextMonth(t) = InMonth(y, k + 1, s - n)
    BY <1>1 DEF Dating!NextMonth, InMonth
  <1>4. s >= n /\ s - n = u
    <2>1. n \in Nat /\ s = u + n
      BY MonthLength
    <2> HIDE DEF n
    <2> QED
      BY <2>1
  <1> HIDE DEF t, n
  <1>5. Dating!MonthFrom[t] = Dating!MonthFrom[Dating!NextMonth(t)]
    BY <1>1, <1>2, <1>4, MonthLoop
  <1> QED
    BY <1>3, <1>4, <1>5 DEF t

LEMMA MonthBefore ==
  ASSUME DatesFit, NEW y \in Nat, NEW k \in 1 .. 12, k = 12 \/ MonthsFollow(y, k + 1)
  PROVE  MonthsFollow(y, k)
  <1> DEFINE n == Dating!DaysOfMonth(k, y) * SecsPerDay
             rest == Rest(k + 1, y) * SecsPerDay
  <1>0. k \in Nat /\ k + 1 \in Nat
    OBVIOUS
  <1>1. n \in Nat /\ n > 0 /\ rest \in Nat /\ Rest(k, y) * SecsPerDay = n + rest
    <2>1. /\ Rest(k, y) = Dating!DaysOfMonth(k, y) + Rest(k + 1, y)
          /\ Rest(k + 1, y) \in Nat
      BY RestOfYear
    <2>2. Dating!DaysOfMonth(k, y) \in Nat /\ Dating!DaysOfMonth(k, y) > 0
      BY <1>0, MonthLengths
    <2>3. \A a, b, c \in Nat : (a + b) * c = a * c + b * c
      OBVIOUS
    <2>4. SecsPerDay \in Nat /\ SecsPerDay > 0
      BY DEF DatesFit
    <2>5. \A a, b \in Nat : a * b \in Nat /\ (a > 0 /\ b > 0 => a * b > 0)
      OBVIOUS
    <2> QED
      BY <2>1, <2>2, <2>3, <2>4, <2>5
  <1>2. k = 12 => rest = 0 /\ n = 31 * SecsPerDay
    BY DEF Rest, Dating!DaysOfMonth, DatesFit
  <1>3. k < 12 => rest > 0
    <2> SUFFICES ASSUME k < 12 PROVE rest > 0
      OBVIOUS
    <2>1. k + 1 \in 1 .. 12 /\ k + 1 \in Nat
      OBVIOUS
    <2>2. Rest(k + 1, y) \in Nat /\ Rest(k + 1, y) > 0
      <3>1. Rest(k + 1, y) = Dating!DaysOfMonth(k + 1, y) + Rest((k + 1) + 1, y)
        BY <2>1, RestOfYear
      <3>2. Rest((k + 1) + 1, y) \in Nat
        BY <2>1, RestOfYear
      <3>3. Dating!DaysOfMonth(k + 1, y) \in {28, 29, 30, 31}
        BY <2>1, MonthLengths
      <3> QED
        BY <3>1, <3>2, <3>3
    <2>3. \A a, b \in Nat : a > 0 /\ b > 0 => a * b > 0
      OBVIOUS
    <2> QED
      BY <2>2, <2>3 DEF DatesFit
  <1> SUFFICES ASSUME NEW s \in Nat, s < n + rest
               PROVE  SecondAfter(y, k, s, n + rest, Dating!MonthFrom[InMonth(y, k, s)],
                                  Dating!MonthFrom[InMonth(y, k, s + 1)])
    BY <1>1 DEF MonthsFollow
  <1> DEFINE r == Dating!MonthFrom[InMonth(y, k, s)]
             q == Dating!MonthFrom[InMonth(y, k, s + 1)]
  <1>n. n = Dating!DaysOfMonth(k, y) * SecsPerDay
    OBVIOUS
  <1> HIDE DEF rest, n
  <1>4. CASE s < n
    <2>1. r = InMonth(y, k, s)
      BY <1>0, <1>4, <1>n, MonthStays
    <2>2. r \in MonthTimes /\ r.month = k /\ r.secs = s
      BY <1>0, <2>1 DEF InMonth, MonthTimes
    <2>3. s = r.secs + 0 * SecsPerDay
      BY <2>2 DEF DatesFit
    <2>4. ASSUME s + 1 < n PROVE q.month = r.month /\ q.secs = r.secs + 1
      <3>1. s + 1 \in Nat
        OBVIOUS
      <3>2. q = InMonth(y, k, s + 1)
        BY <1>0, <1>n, <2>4, <3>1, MonthStays
      <3> QED
        BY <2>2, <3>2 DEF InMonth
    <2>5. ASSUME s + 1 = n, k < 12 PROVE q.month = k + 1 /\ q.secs = 0
      <3>1. s + 1 \in Nat /\ s + 1 = 0 + n
        BY <1>1, <2>5
      <3>2. q = Dating!MonthFrom[InMonth(y, k + 1, 0)]
        BY <1>0, <1>n, <3>1, MonthPasses
      <3>3. Dating!MonthFrom[InMonth(y, k + 1, 0)] = InMonth(y, k + 1, 0)
        BY <1>0, MonthLength, MonthStays
      <3>4. q = InMonth(y, k + 1, 0)
        BY <3>2, <3>3
      <3> QED
        BY <3>4 DEF InMonth
    <2> HIDE DEF r, q
    <2>6. n = Dating!DaysOfMonth(r.month, y) * SecsPerDay
      BY <1>n, <2>2
    <2>7. /\ s + 1 < n + rest => IF r.secs + 1 < n THEN q.month = r.month /\ q.secs = r.secs + 1
                                 ELSE r.month < 12 /\ q.month = r.month + 1 /\ q.secs = 0
          /\ s + 1 = n + rest => r.month = 12 /\ r.secs + 1 = 31 * SecsPerDay
      BY <1>1, <1>2, <1>3, <1>4, <2>2, <2>4, <2>5
    <2>8. \E d \in Nat : s = r.secs + d * SecsPerDay
      BY <2>3
    <2>9. r.month \in k .. 12 /\ r.secs < n
      BY <1>4, <2>2
    <2>10. SecondAfter(y, k, s, n + rest, r, q)
      BY <2>2, <2>6, <2>7, <2>8, <2>9 DEF SecondAfter
    <2> QED
      BY <2>10 DEF r, q
  <1>5. CASE s >= n
    <2> DEFINE u == s - n
    <2>1. k < 12
      BY <1>1, <1>2, <1>5
    <2>u. u \in Nat /\ s = u + n /\ s + 1 = (u + 1) + n
      BY <1>1, <1>5
    <2>2. /\ u \in Nat /\ r = Dating!MonthFrom[InMonth(y, k + 1, u)]
          /\ q = Dating!MonthFrom[InMonth(y, k + 1, u + 1)]
      <3> HIDE DEF u
      <3>1. r = Dating!MonthFrom[InMonth(y, k + 1, u)]
        BY <1>0, <1>n, <2>u, MonthPasses
      <3>2. u + 1 \in Nat /\ s + 1 \in Nat
        BY <2>u
      <3>3. q = Dating!MonthFrom[InMonth(y, k + 1, u + 1)]
        BY <1>0, <1>n, <2>u, <3>2, MonthPasses
      <3> QED
        BY <2>u, <3>1, <3>3
    <2>3. u < rest /\ (u + 1 < rest <=> s + 1 < n + rest) /\ (u + 1 = rest <=> s + 1 = n + rest)
      BY <1>1, <1>5, <2>2
    <2> HIDE DEF u, r, q
    <2>4. SecondAfter(y, k + 1, u, rest, r, q)
      BY <2>1, <2>2, <2>3 DEF MonthsFollow, rest
    <2>5. \E d \in Nat : s = r.secs + d * SecsPerDay
      <3>1. PICK d \in Nat : u = r.secs + d * SecsPerDay
        BY <2>4 DEF SecondAfter
      <3>2. Dating!DaysOfMonth(k, y) \in Nat /\ SecsPerDay \in Nat
        BY <1>0, MonthLengths DEF DatesFit
      <3>3. r.secs \in Nat
        BY <2>4 DEF SecondAfter, MonthTimes
      <3>4. \A a, b, c \in Nat : (a + b) * c = a * c + b * c
        OBVIOUS
      <3>5. (d + Dating!DaysOfMonth(k, y)) * SecsPerDay = d * SecsPerDay + n
        BY <1>n, <3>2, <3>4
      <3>6. \A a, b \in Nat : a * b \in Nat
        OBVIOUS
      <3>7. d * SecsPerDay \in Nat
        BY <3>2, <3>6
      <3>8. s = r.secs + (d + Dating!DaysOfMonth(k, y)) * SecsPerDay
        BY <1>1, <2>u, <3>1, <3>3, <3>5, <3>7
      <3>9. d + Dating!DaysOfMonth(k, y) \in Nat
        BY <3>2
      <3> QED
        BY <3>8, <3>9
    <2>6. r.month \in k .. 12
      BY <2>4 DEF SecondAfter
    <2>7. SecondAfter(y, k, s, n + rest, r, q)
      BY <2>3, <2>4, <2>5, <2>6 DEF SecondAfter
    <2> QED
      BY <2>7 DEF r, q
  <1> QED
    BY <1>1, <1>4, <1>5

LEMMA MonthsOfYear ==
  ASSUME DatesFit, NEW y \in Nat
  PROVE  MonthsFollow(y, 1)
  <1> DEFINE S == {j \in Nat : j < 12 => MonthsFollow(y, 12 - j)}
  <1>1. 0 \in S
    BY MonthBefore
  <1>2. ASSUME NEW j \in Nat, j \in S PROVE j + 1 \in S
    <2> SUFFICES ASSUME j + 1 < 12 PROVE MonthsFollow(y, 12 - (j + 1))
      OBVIOUS
    <2> DEFINE k == 12 - (j + 1)
    <2>1. k \in 1 .. 12 /\ k + 1 = 12 - j
      OBVIOUS
    <2>2. MonthsFollow(y, k + 1)
      BY <1>2, <2>1
    <2> QED
      BY <2>1, <2>2, MonthBefore
  <1>3. \A j \in Nat : j \in S
    <2> HIDE DEF S
    <2> QED
      BY <1>1, <1>2, NatSetInduction
  <1>4. 11 \in S /\ 12 - 11 = 1
    BY <1>3
  <1> QED
    BY <1>4

YearTimes == [year : Nat, secs : Dating!Halves, weekday : Nat]
Whole(s) == s.high * DateWord + s.low

LEMMA DateWordIs ==
  ASSUME DatesFit
  PROVE  /\ DateWord \in Nat /\ DateWord > 0 /\ DateWord \div 2 \in Nat /\ DateWord \div 2 > 0
         /\ DateWord = DateWord \div 2 + DateWord \div 2
         /\ SecsPerDay \in Nat /\ SecsPerDay > 0
         /\ \A y \in Nat :
              Dating!SecsOfYear(y) \in Nat /\ Dating!SecsOfYear(y) > 0
              /\ Dating!SecsOfYear(y) <= DateWord
  <1>1. /\ DateWord \in Nat /\ DateWord > 0 /\ DateWord \div 2 \in Nat /\ DateWord \div 2 > 0
        /\ DateWord = DateWord \div 2 + DateWord \div 2
        /\ SecsPerDay \in Nat /\ SecsPerDay > 0
    BY DevicesAssumption DEF DatesFit, Dating!TimeAssumption
  <1>2. ASSUME NEW y \in Nat
        PROVE  Dating!SecsOfYear(y) \in Nat /\ Dating!SecsOfYear(y) > 0
               /\ Dating!SecsOfYear(y) <= DateWord
    <2>1. Dating!DaysOfYear(y) \in {365, 366}
      BY DEF Dating!DaysOfYear
    <2>2. Dating!SecsOfYear(y) = 365 * SecsPerDay \/ Dating!SecsOfYear(y) = 366 * SecsPerDay
      BY <2>1 DEF Dating!SecsOfYear
    <2> QED
      BY <1>1, <2>2 DEF DatesFit
  <1> QED
    BY <1>1, <1>2

LEMMA HalvesKept ==
  ASSUME DatesFit, NEW h \in -(DateWord \div 2) .. DateWord \div 2 - 1, NEW l \in 0 .. DateWord - 1,
         NEW q \in Int, NEW x, x = q * DateWord + l
  PROVE  /\ Dating!Seconds(h, x) = [high |-> h, low |-> l]
         /\ Dating!Seconds(h, x) \in Dating!Halves
  <1> DEFINE H == DateWord \div 2
  <1>1. Dating!LONG(h) = h
    <2>1. (h + H) % DateWord = h + H
      <3> DEFINE z == h + H
      <3>1. z \in Nat /\ z < DateWord
        BY DateWordIs
      <3> HIDE DEF H, z
      <3>2. z % DateWord = z
        BY <3>1, DateWordIs, SmallMod
      <3> QED
        BY <3>2 DEF z
    <2> QED
      BY <2>1, DateWordIs DEF Dating!LONG
  <1>2. Dating!ULONG(x) = l
    <2>1. l \in Nat /\ l < DateWord
      BY DateWordIs
    <2> QED
      BY <2>1, DateWordIs, IntDivMod DEF Dating!ULONG
  <1> QED
    BY <1>1, <1>2 DEF Dating!Seconds, Dating!Halves

LEMMA YearStep ==
  ASSUME DatesFit, NEW t \in YearTimes, Dating!YearEnds(t)
  PROVE  LET n == Dating!SecsOfYear(t.year)
             u == Dating!NextYear(t)
         IN  /\ u \in YearTimes
             /\ u.year = t.year + 1 /\ u.weekday = t.weekday + Dating!DaysOfYear(t.year)
             /\ IF t.secs.low < n
                THEN t.secs.high > 0 /\ u.secs.high = t.secs.high - 1
                                     /\ u.secs.low = t.secs.low - n + DateWord
                ELSE u.secs.high = t.secs.high /\ u.secs.low = t.secs.low - n
  <1> DEFINE n == Dating!SecsOfYear(t.year)
             H == DateWord \div 2
             h == t.secs.high
             l == t.secs.low
  <1>1. /\ t.year \in Nat /\ t.weekday \in Nat /\ t.secs \in Dating!Halves
        /\ h \in -H .. H - 1 /\ l \in 0 .. DateWord - 1
    BY DEF YearTimes, Dating!Halves
  <1>2. n \in Nat /\ n > 0 /\ n <= DateWord
    BY <1>1, DateWordIs
  <1>3. Dating!NextYear(t) = [year |-> t.year + 1, secs |-> Dating!Seconds(h - Dating!Carry(l < n), l - n),
                       weekday |-> t.weekday + Dating!DaysOfYear(t.year)]
    BY DEF Dating!NextYear
  <1>4. h > 0 \/ l >= n
    BY DEF Dating!YearEnds
  <1>5. t.year + 1 \in Nat /\ t.weekday + Dating!DaysOfYear(t.year) \in Nat
    BY <1>1 DEF Dating!DaysOfYear
  <1> HIDE DEF n, h, l, H
  <1>6. CASE l < n
    <2>1. h > 0 /\ h - 1 \in -H .. H - 1 /\ Dating!Carry(l < n) = 1
      BY <1>1, <1>2, <1>4, <1>6, DateWordIs DEF H, Dating!Carry
    <2>w. DateWord \in Nat
      BY DateWordIs
    <2>2. (l - n + DateWord) \in 0 .. DateWord - 1 /\ l - n = (-1) * DateWord + (l - n + DateWord)
      BY <1>1, <1>2, <1>6, <2>w
    <2>3. /\ Dating!Seconds(h - 1, l - n) = [high |-> h - 1, low |-> l - n + DateWord]
          /\ Dating!Seconds(h - 1, l - n) \in Dating!Halves
      BY <2>1, <2>2, HalvesKept DEF H
    <2> QED
      BY <1>3, <1>5, <1>6, <2>1, <2>3 DEF YearTimes, n, h, l
  <1>7. CASE ~(l < n)
    <2>1. h - Dating!Carry(l < n) = h
      BY <1>1, <1>7, DateWordIs DEF Dating!Carry, H
    <2>w. DateWord \in Nat
      BY DateWordIs
    <2>2. l - n \in 0 .. DateWord - 1 /\ l - n = 0 * DateWord + (l - n)
      BY <1>1, <1>2, <1>7, <2>w
    <2>3. /\ Dating!Seconds(h, l - n) = [high |-> h, low |-> l - n]
          /\ Dating!Seconds(h, l - n) \in Dating!Halves
      BY <1>1, <2>2, HalvesKept DEF H
    <2> QED
      BY <1>3, <1>5, <1>7, <2>1, <2>3 DEF YearTimes, n, h, l
  <1> QED
    BY <1>6, <1>7

LEMMA YearLoop ==
  ASSUME DatesFit, NEW t \in YearTimes
  PROVE  Dating!YearFrom[t] =
           IF Dating!YearEnds(t) THEN Dating!YearFrom[Dating!NextYear(t)] ELSE t
  <1> DEFINE X == YearTimes
             Left(x) == IF x.secs.high > 0 THEN Whole(x.secs) ELSE x.secs.low
             more == {x \in X : Dating!YearEnds(x)}
             step == [x \in X |-> IF Dating!YearEnds(x) THEN Dating!NextYear(x) ELSE x]
             left == [x \in X |-> Left(x)]
  <1>1. \A a \in Int : a > 0 => a * DateWord \in Nat /\ (a - 1) * DateWord = a * DateWord - DateWord
                                /\ (a - 1 > 0 => (a - 1) * DateWord \in Nat)
    <2>1. \A a \in Int, b \in Nat : (a - 1) * b = a * b - b /\ (a > 0 => a * b \in Nat)
      OBVIOUS
    <2>2. DateWord \in Nat
      BY DateWordIs
    <2> QED
      BY <2>1, <2>2
  <1>2. ASSUME NEW x \in X PROVE Left(x) \in Nat
    <2>1. x.secs.high \in Int /\ x.secs.low \in Nat
      BY DateWordIs DEF YearTimes, Dating!Halves
    <2> QED
      BY <1>1, <2>1 DEF Whole
  <1>3. ASSUME NEW x \in X, Dating!YearEnds(x)
        PROVE  Dating!NextYear(x) \in X /\ Left(Dating!NextYear(x)) < Left(x)
    <2> DEFINE n == Dating!SecsOfYear(x.year)
               u == Dating!NextYear(x)
    <2>1. x.secs.high \in Int /\ x.secs.low \in 0 .. DateWord - 1 /\ n \in Nat /\ n > 0
          /\ n <= DateWord
      BY DateWordIs DEF YearTimes, Dating!Halves
    <2>2. /\ u \in YearTimes
          /\ IF x.secs.low < n
             THEN x.secs.high > 0 /\ u.secs.high = x.secs.high - 1
                                  /\ u.secs.low = x.secs.low - n + DateWord
             ELSE u.secs.high = x.secs.high /\ u.secs.low = x.secs.low - n
      BY <1>3, YearStep
    <2> HIDE DEF n, u
    <2>w. DateWord \in Nat
      BY DateWordIs
    <2>3. ASSUME x.secs.low < n PROVE Left(u) < Left(x)
      <3>1. x.secs.high > 0 /\ u.secs.high = x.secs.high - 1
            /\ u.secs.low = x.secs.low - n + DateWord
        BY <2>2, <2>3
      <3>2. Left(x) = x.secs.high * DateWord + x.secs.low
        BY <3>1 DEF Whole
      <3>3. Whole(u.secs) = x.secs.high * DateWord - DateWord + x.secs.low - n + DateWord
        BY <1>1, <2>1, <2>w, <3>1 DEF Whole
      <3>4. x.secs.high * DateWord \in Nat
        BY <1>1, <2>1, <3>1
      <3>5. Whole(u.secs) < Left(x)
        BY <2>1, <2>w, <3>2, <3>3, <3>4
      <3>6. CASE u.secs.high > 0
        BY <3>5, <3>6
      <3>7. CASE ~(u.secs.high > 0)
        <4>1. x.secs.high = 1
          BY <2>1, <3>1, <3>7
        <4>2. Left(x) = DateWord + x.secs.low
          BY <2>1, <2>w, <3>2, <4>1
        <4> QED
          BY <2>1, <2>w, <3>1, <3>7, <4>2
      <3> QED
        BY <3>6, <3>7
    <2>4. ASSUME ~(x.secs.low < n) PROVE Left(u) < Left(x)
      <3>1. u.secs.high = x.secs.high /\ u.secs.low = x.secs.low - n
        BY <2>2, <2>4
      <3>2. x.secs.high > 0 => x.secs.high * DateWord \in Nat
        BY <1>1, <2>1
      <3> QED
        BY <2>1, <3>1, <3>2 DEF Whole
    <2>5. Left(u) < Left(x)
      BY <2>3, <2>4
    <2> QED
      BY <2>2, <2>5 DEF u
  <1>4. step \in [X -> X] /\ left \in [X -> Nat]
    BY <1>2, <1>3
  <1>5. Descends(X, more, step, left)
    <2> HIDE DEF Left
    <2> QED
      BY <1>3 DEF Descends
  <1>6. \E f \in [X -> X] : Ends(X, more, step, f)
    <2> HIDE DEF X, more, step, left
    <2> QED
      BY <1>4, <1>5, LoopDefined
  <1>7. PICK f \in [X -> X] : Ends(X, more, step, f)
    BY <1>6
  <1>8. f = [x \in X |-> IF Dating!YearEnds(x) THEN f[Dating!NextYear(x)] ELSE x]
    <2>1. \A x \in X : f[x] = IF Dating!YearEnds(x) THEN f[Dating!NextYear(x)] ELSE x
      BY <1>7 DEF Ends
    <2> HIDE DEF X
    <2> QED
      BY <2>1
  <1>9. Dating!YearFrom =
          [x \in X |-> IF Dating!YearEnds(x) THEN Dating!YearFrom[Dating!NextYear(x)] ELSE x]
    BY <1>8 DEF Dating!YearFrom, YearTimes
  <1> QED
    BY <1>9

(* Times since the epoch.                                                  *)
Past(t) == t \in YearTimes /\ t.secs.high >= 0

LEMMA PastIs ==
  ASSUME DatesFit, NEW t, Past(t)
  PROVE  /\ t.year \in Nat /\ t.weekday \in Nat
         /\ t.secs.high \in Nat /\ t.secs.low \in Nat /\ t.secs.low < DateWord
         /\ Whole(t.secs) \in Nat
         /\ Dating!YearEnds(t) <=> Whole(t.secs) >= Dating!SecsOfYear(t.year)
         /\ Dating!YearEnds(t) => /\ Past(Dating!NextYear(t))
                           /\ Dating!NextYear(t).year = t.year + 1
                           /\ Dating!NextYear(t).weekday = t.weekday + Dating!DaysOfYear(t.year)
                           /\ Whole(Dating!NextYear(t).secs)
                                = Whole(t.secs) - Dating!SecsOfYear(t.year)
         /\ ~Dating!YearEnds(t) => t.secs.low = Whole(t.secs)
  <1> DEFINE h == t.secs.high
             l == t.secs.low
             n == Dating!SecsOfYear(t.year)
             u == Dating!NextYear(t)
  <1>1. t.year \in Nat /\ t.weekday \in Nat /\ h \in Nat /\ l \in Nat /\ l < DateWord
    BY DateWordIs DEF Past, YearTimes, Dating!Halves
  <1>2. n \in Nat /\ n > 0 /\ n <= DateWord /\ DateWord \in Nat
    BY <1>1, DateWordIs
  <1>3. \A a \in Nat, b \in Nat : a * b \in Nat /\ (a > 0 => (a - 1) * b = a * b - b /\ a * b >= b)
                                  /\ 0 * b = 0
    OBVIOUS
  <1>4. Whole(t.secs) = h * DateWord + l
    BY DEF Whole
  <1>5. Dating!YearEnds(t) <=> h > 0 \/ l >= n
    BY DEF Dating!YearEnds
  <1>6. Dating!YearEnds(t) => /\ u \in YearTimes
                       /\ u.year = t.year + 1 /\ u.weekday = t.weekday + Dating!DaysOfYear(t.year)
                       /\ IF l < n
                          THEN h > 0 /\ u.secs.high = h - 1 /\ u.secs.low = l - n + DateWord
                          ELSE u.secs.high = h /\ u.secs.low = l - n
    BY YearStep DEF Past
  <1>7. Whole(u.secs) = u.secs.high * DateWord + u.secs.low
    BY DEF Whole
  <1> HIDE DEF h, l, n, u
  <1>8. h * DateWord \in Nat /\ (h > 0 => h * DateWord >= DateWord) /\ (h = 0 => h * DateWord = 0)
    BY <1>1, <1>2, <1>3
  <1>9. Dating!YearEnds(t) <=> Whole(t.secs) >= n
    BY <1>1, <1>2, <1>4, <1>5, <1>8
  <1>10. ASSUME Dating!YearEnds(t) PROVE u.secs.high >= 0 /\ Whole(u.secs) = Whole(t.secs) - n
    <2>1. CASE l < n
      <3>1. h > 0 /\ u.secs.high = h - 1 /\ u.secs.low = l - n + DateWord
        BY <1>6, <1>10, <2>1
      <3>2. u.secs.high * DateWord = h * DateWord - DateWord
        BY <1>1, <1>2, <1>3, <3>1
      <3> QED
        BY <1>1, <1>2, <1>4, <1>7, <1>8, <3>1, <3>2
    <2>2. CASE ~(l < n)
      <3>1. u.secs.high = h /\ u.secs.low = l - n
        BY <1>6, <1>10, <2>2
      <3> QED
        BY <1>1, <1>2, <1>4, <1>7, <1>8, <3>1
    <2> QED
      BY <2>1, <2>2
  <1>11. ~Dating!YearEnds(t) => l = Whole(t.secs)
    BY <1>1, <1>4, <1>5, <1>8
  <1> QED
    BY <1>1, <1>4, <1>6, <1>8, <1>9, <1>10, <1>11 DEF h, l, n, u, Past

(* a is where a time falls, b where the next second does.                  *)
YearAfter(a, b) ==
  /\ Past(a) /\ a.secs.low < Dating!SecsOfYear(a.year)
  /\ IF a.secs.low + 1 < Dating!SecsOfYear(a.year)
     THEN b.year = a.year /\ b.weekday = a.weekday /\ b.secs.low = a.secs.low + 1
     ELSE /\ b.year = a.year + 1 /\ b.weekday = a.weekday + Dating!DaysOfYear(a.year)
          /\ b.secs.low = 0

LEMMA YearAfterStays ==
  ASSUME DatesFit, NEW t, NEW u, Past(t), Past(u), ~Dating!YearEnds(t),
         u.year = t.year, u.weekday = t.weekday, Whole(u.secs) = Whole(t.secs) + 1
  PROVE  YearAfter(Dating!YearFrom[t], Dating!YearFrom[u])
  <1> DEFINE n == Dating!SecsOfYear(t.year)
  <1>1. n \in Nat /\ n > 0
    BY PastIs, DateWordIs
  <1>2. /\ Dating!YearFrom[t] = t /\ t.secs.low = Whole(t.secs) /\ t.secs.low \in Nat
           /\ t.secs.low < n
    <2>1. Dating!YearFrom[t] = t
      BY YearLoop DEF Past
    <2>2. t.secs.low = Whole(t.secs) /\ t.secs.low \in Nat /\ ~(Whole(t.secs) >= n)
      BY PastIs
    <2> HIDE DEF n
    <2> QED
      BY <1>1, <2>1, <2>2
  <1>3. Dating!YearEnds(u) <=> Whole(u.secs) >= n
    BY PastIs
  <1>4. CASE t.secs.low + 1 < n
    <2>1. ~Dating!YearEnds(u)
      <3> HIDE DEF n
      <3> QED
        BY <1>1, <1>2, <1>3, <1>4
    <2>2. Dating!YearFrom[u] = u
      BY <2>1, YearLoop DEF Past
    <2>3. u.secs.low = t.secs.low + 1
      BY <1>2, <2>1, PastIs
    <2> QED
      BY <1>2, <1>4, <2>2, <2>3 DEF YearAfter
  <1>5. CASE ~(t.secs.low + 1 < n)
    <2> DEFINE v == Dating!NextYear(u)
    <2>1. Dating!YearEnds(u) /\ Whole(u.secs) - n = 0
      <3> HIDE DEF n
      <3> QED
        BY <1>1, <1>2, <1>3, <1>5
    <2>2. /\ Past(v) /\ v.year = t.year + 1 /\ v.weekday = t.weekday + Dating!DaysOfYear(t.year)
          /\ Whole(v.secs) = 0
      BY <2>1, PastIs
    <2>3. Dating!YearFrom[u] = Dating!YearFrom[v]
      BY <2>1, YearLoop DEF Past
    <2> HIDE DEF v
    <2>4. ~Dating!YearEnds(v)
      <3>1. v.year \in Nat
        BY <2>2, PastIs
      <3>2. Dating!SecsOfYear(v.year) \in Nat /\ Dating!SecsOfYear(v.year) > 0
        BY <3>1, DateWordIs
      <3>3. Dating!YearEnds(v) <=> 0 >= Dating!SecsOfYear(v.year)
        BY <2>2, PastIs
      <3> QED
        BY <3>2, <3>3
    <2>5. Dating!YearFrom[v] = v
      BY <2>2, <2>4, YearLoop DEF Past
    <2>6. v.secs.low = 0
      BY <2>2, <2>4, PastIs
    <2> QED
      BY <1>2, <1>5, <2>2, <2>3, <2>5, <2>6 DEF YearAfter
  <1> QED
    BY <1>4, <1>5

YearsFollow(v) ==
  \A t, u \in YearTimes :
    /\ Past(t) /\ Past(u) /\ Whole(t.secs) <= v
    /\ u.year = t.year /\ u.weekday = t.weekday /\ Whole(u.secs) = Whole(t.secs) + 1
    => YearAfter(Dating!YearFrom[t], Dating!YearFrom[u])

LEMMA SecondsFollow ==
  ASSUME DatesFit, NEW v \in Nat
  PROVE  YearsFollow(v)
  <1> DEFINE S == {n \in Nat : YearsFollow(n)}
  <1>1. ASSUME NEW n \in Nat, n = 0 \/ YearsFollow(n - 1) PROVE YearsFollow(n)
    <2> SUFFICES ASSUME NEW t \in YearTimes, NEW u \in YearTimes, Past(t), Past(u),
                        Whole(t.secs) <= n, u.year = t.year, u.weekday = t.weekday,
                        Whole(u.secs) = Whole(t.secs) + 1
                 PROVE  YearAfter(Dating!YearFrom[t], Dating!YearFrom[u])
      BY DEF YearsFollow
    <2> DEFINE d == Dating!SecsOfYear(t.year)
    <2>1. d \in Nat /\ d > 0
      BY PastIs, DateWordIs
    <2>2. CASE ~Dating!YearEnds(t)
      BY <2>2, YearAfterStays
    <2>3. CASE Dating!YearEnds(t)
      <3>1. /\ Past(Dating!NextYear(t)) /\ Dating!NextYear(t).year = t.year + 1
            /\ Dating!NextYear(t).weekday = t.weekday + Dating!DaysOfYear(t.year)
            /\ Whole(Dating!NextYear(t).secs) = Whole(t.secs) - d
            /\ Whole(t.secs) \in Nat /\ Whole(t.secs) >= d
        BY <2>3, PastIs
      <3>2. Dating!YearEnds(u) <=> Whole(u.secs) >= d
        BY PastIs
      <3>3. Dating!YearEnds(u)
        BY <2>1, <3>1, <3>2
      <3>4. /\ Past(Dating!NextYear(u)) /\ Dating!NextYear(u).year = t.year + 1
            /\ Dating!NextYear(u).weekday = t.weekday + Dating!DaysOfYear(t.year)
            /\ Whole(Dating!NextYear(u).secs) = Whole(u.secs) - d
        BY <3>3, PastIs
      <3> HIDE DEF d
      <3>5. n > 0 /\ Whole(Dating!NextYear(t).secs) <= n - 1
        BY <2>1, <3>1
      <3>6. Whole(Dating!NextYear(u).secs) = Whole(Dating!NextYear(t).secs) + 1
        BY <2>1, <3>1, <3>4
      <3>7. Dating!YearFrom[t] = Dating!YearFrom[Dating!NextYear(t)]
            /\ Dating!YearFrom[u] = Dating!YearFrom[Dating!NextYear(u)]
        BY <2>3, <3>3, YearLoop
      <3>8. YearAfter(Dating!YearFrom[Dating!NextYear(t)], Dating!YearFrom[Dating!NextYear(u)])
        <4>1. YearsFollow(n - 1)
          BY <1>1, <3>5
        <4>2. Dating!NextYear(t) \in YearTimes /\ Dating!NextYear(u) \in YearTimes
          BY <3>1, <3>4 DEF Past
        <4> QED
          BY <3>1, <3>4, <3>5, <3>6, <4>1, <4>2 DEF YearsFollow
      <3> QED
        BY <3>7, <3>8
    <2> QED
      BY <2>2, <2>3
  <1>2. 0 \in S
    BY <1>1
  <1>3. ASSUME NEW n \in Nat, n \in S PROVE n + 1 \in S
    <2>1. YearsFollow((n + 1) - 1)
      BY <1>3
    <2>2. n + 1 \in Nat
      OBVIOUS
    <2>3. YearsFollow(n + 1)
      BY <1>1, <2>1, <2>2
    <2> QED
      BY <2>2, <2>3
  <1>4. \A n \in Nat : n \in S
    <2> HIDE DEF S
    <2> QED
      BY <1>2, <1>3, NatSetInduction
  <1> QED
    BY <1>4

(* The date of a time that falls in a's year.                              *)
DateAt(a) ==
  LET m == Dating!MonthOf(a.secs.low, a.year)
  IN  <<a.year, m.month, m.secs \div SecsPerDay + 1, m.secs % SecsPerDay,
        (a.weekday + a.secs.low \div SecsPerDay) % 7>>

LEMMA WithinYear ==
  ASSUME DatesFit, NEW y \in Nat, NEW s \in Nat, s < Dating!SecsOfYear(y)
  PROVE  SecondAfter(y, 1, s, Dating!SecsOfYear(y), Dating!MonthOf(s, y), Dating!MonthOf(s + 1, y))
  <1>1. Dating!SecsOfYear(y) = Rest(1, y) * SecsPerDay
    BY DEF Dating!SecsOfYear, Rest
  <1>2. Dating!MonthOf(s, y) = Dating!MonthFrom[InMonth(y, 1, s)]
        /\ Dating!MonthOf(s + 1, y) = Dating!MonthFrom[InMonth(y, 1, s + 1)]
    BY DEF Dating!MonthOf, InMonth
  <1> QED
    BY <1>1, <1>2, MonthsOfYear DEF MonthsFollow

(* The date that is read from the two loops' results, and the date after.  *)
LEMMA Weekdays ==
  ASSUME NEW w \in Nat
  PROVE  (w + 1) % 7 = ((w % 7) + 1) % 7
  OBVIOUS

LEMMA FirstOfYear ==
  ASSUME DatesFit, NEW y \in Nat
  PROVE  Dating!MonthOf(0, y).month = 1 /\ Dating!MonthOf(0, y).secs = 0
  <1>1. Dating!MonthFrom[InMonth(y, 1, 0)] = InMonth(y, 1, 0)
    BY MonthLength, MonthStays
  <1> QED
    BY <1>1 DEF Dating!MonthOf, InMonth

LEMMA Successor ==
  ASSUME NEW y, NEW m, NEW d, NEW s, NEW w
  PROVE  LET later == Dating!Following(<<y, m, d, s, w>>)
         IN  /\ s < SecsPerDay - 1 /\ s # SecsPerDay - 1 => later = <<y, m, d, s + 1, w>>
             /\ ~(s < SecsPerDay - 1) /\ s = SecsPerDay - 1 =>
                  /\ d < Dating!Length(y, m) /\ d # Dating!Length(y, m) =>
                       later = <<y, m, d + 1, 0, (w + 1) % 7>>
                  /\ ~(d < Dating!Length(y, m)) /\ d = Dating!Length(y, m) =>
                       IF m < 12 THEN later = <<y, m + 1, 1, 0, (w + 1) % 7>>
                                 ELSE later = <<y + 1, 1, 1, 0, (w + 1) % 7>>
  <1> DEFINE date == <<y, m, d, s, w>>
  <1>1. date[1] = y /\ date[2] = m /\ date[3] = d /\ date[4] = s /\ date[5] = w
    OBVIOUS
  <1> HIDE DEF date
  <1>2. Dating!Following(date) = CASE s < SecsPerDay - 1 -> <<y, m, d, s + 1, w>>
                            [] s = SecsPerDay - 1 /\ d < Dating!Length(y, m) ->
                                 <<y, m, d + 1, 0, (w + 1) % 7>>
                            [] s = SecsPerDay - 1 /\ d = Dating!Length(y, m) /\ m < 12 ->
                                 <<y, m + 1, 1, 0, (w + 1) % 7>>
                            [] OTHER -> <<y + 1, 1, 1, 0, (w + 1) % 7>>
    BY <1>1, Zenon DEF Dating!Following
  <1>3. s < SecsPerDay - 1 /\ s # SecsPerDay - 1 => Dating!Following(date) = <<y, m, d, s + 1, w>>
    BY <1>2
  <1>4. ~(s < SecsPerDay - 1) /\ s = SecsPerDay - 1
        /\ d < Dating!Length(y, m) /\ d # Dating!Length(y, m) =>
          Dating!Following(date) = <<y, m, d + 1, 0, (w + 1) % 7>>
    BY <1>2
  <1>5. ~(s < SecsPerDay - 1) /\ s = SecsPerDay - 1
        /\ ~(d < Dating!Length(y, m)) /\ d = Dating!Length(y, m) =>
          IF m < 12 THEN Dating!Following(date) = <<y, m + 1, 1, 0, (w + 1) % 7>>
                    ELSE Dating!Following(date) = <<y + 1, 1, 1, 0, (w + 1) % 7>>
    BY <1>2
  <1> QED
    BY <1>3, <1>4, <1>5 DEF date

LEMMA DateFollows ==
  ASSUME DatesFit, NEW a, NEW b, YearAfter(a, b)
  PROVE  DateAt(b) = Dating!Following(DateAt(a))
  <1> DEFINE y == a.year
             s == a.secs.low
             w == a.weekday
             n == Dating!SecsOfYear(y)
             r == Dating!MonthOf(s, y)
             D == r.secs \div SecsPerDay
             R == r.secs % SecsPerDay
             M == Dating!DaysOfMonth(r.month, y)
             e == s \div SecsPerDay
  <1>1. y \in Nat /\ s \in Nat /\ w \in Nat /\ s < n /\ n \in Nat
    BY PastIs, DateWordIs DEF YearAfter
  <1>2. SecsPerDay \in Nat /\ SecsPerDay > 0
    BY DateWordIs
  <1>3. SecondAfter(y, 1, s, n, r, Dating!MonthOf(s + 1, y))
    BY <1>1, WithinYear
  <1>4. r.month \in 1 .. 12 /\ r.month \in Nat /\ r.secs \in Nat /\ r.secs < M * SecsPerDay
    BY <1>3 DEF SecondAfter, MonthTimes
  <1>5. M \in {28, 29, 30, 31} /\ Dating!Length(y, r.month) = M
    BY <1>1, <1>4, MonthLengths
  <1>6. D \in Nat /\ R \in Nat /\ R < SecsPerDay /\ r.secs = D * SecsPerDay + R
    BY <1>2, <1>4, DivIs
  <1>7. PICK d \in Nat : s = r.secs + d * SecsPerDay
    BY <1>3 DEF SecondAfter
  <1> HIDE DEF y, s, w, n, r, D, R, M, e
  <1>8. \A i, j, k \in Nat : (i + j) * k = i * k + j * k /\ i * k \in Nat
    OBVIOUS
  <1>9. s = (D + d) * SecsPerDay + R /\ D + d \in Nat
    BY <1>2, <1>6, <1>7, <1>8
  <1>10. e = D + d
    BY <1>2, <1>6, <1>9, IntDivMod DEF e
  <1>11. DateAt(a) = <<y, r.month, D + 1, R, (w + e) % 7>>
    BY DEF DateAt, y, r, s, D, R, w, e
  <1>12. (w + e + 1) % 7 = (((w + e) % 7) + 1) % 7 /\ (w + e) % 7 \in Nat
    BY <1>1, <1>6, <1>10, Weekdays
  <1>13. CASE s + 1 < n
    <2> DEFINE q == Dating!MonthOf(s + 1, y)
    <2>1. b.year = y /\ b.weekday = w /\ b.secs.low = s + 1
      BY <1>13 DEF YearAfter, y, s, w, n
    <2>2. DateAt(b) = <<y, q.month, q.secs \div SecsPerDay + 1, q.secs % SecsPerDay,
                        (w + (s + 1) \div SecsPerDay) % 7>>
      BY <2>1 DEF DateAt
    <2>3. IF r.secs + 1 < M * SecsPerDay
          THEN q.month = r.month /\ q.secs = r.secs + 1
          ELSE r.month < 12 /\ q.month = r.month + 1 /\ q.secs = 0
      BY <1>3, <1>13 DEF SecondAfter, M
    <2> HIDE DEF q
    <2>4. CASE R + 1 < SecsPerDay
      <3>1. r.secs + 1 = D * SecsPerDay + (R + 1) /\ s + 1 = (D + d) * SecsPerDay + (R + 1)
        BY <1>2, <1>6, <1>8, <1>9
      <3>2. (r.secs + 1) \div SecsPerDay = D /\ (r.secs + 1) % SecsPerDay = R + 1
        <4>1. r.secs + 1 \in Nat /\ R + 1 \in Nat /\ D \in Int
          BY <1>4, <1>6
        <4> DEFINE x == r.secs + 1
                   z == R + 1
        <4>2. x \in Nat /\ z \in Nat /\ z < SecsPerDay /\ x = D * SecsPerDay + z
          BY <2>4, <3>1, <4>1
        <4> HIDE DEF x, z
        <4>3. x \div SecsPerDay = D /\ x % SecsPerDay = z
          BY <1>2, <4>1, <4>2, IntDivMod
        <4> QED
          BY <4>3 DEF x, z
      <3>3. (s + 1) \div SecsPerDay = e
        BY <1>2, <1>6, <1>9, <1>10, <2>4, <3>1, IntDivMod
      <3>4. r.secs + 1 < M * SecsPerDay
        <4> SUFFICES ASSUME r.secs + 1 = M * SecsPerDay PROVE FALSE
          BY <1>2, <1>4, <1>5
        <4>1. r.secs + 1 = M * SecsPerDay + 0 /\ M \in Int /\ 0 < SecsPerDay
          BY <1>2, <1>5
        <4>2. (r.secs + 1) % SecsPerDay = 0
          BY <1>2, <4>1, IntDivMod
        <4> QED
          BY <1>6, <3>2, <4>2
      <3>5. DateAt(b) = <<y, r.month, D + 1, R + 1, (w + e) % 7>>
        BY <2>2, <2>3, <3>2, <3>3, <3>4
      <3>6. Dating!Following(DateAt(a)) = <<y, r.month, D + 1, R + 1, (w + e) % 7>>
        <4>1. R < SecsPerDay - 1 /\ R # SecsPerDay - 1
          BY <1>2, <1>6, <2>4
        <4> QED
          BY <1>11, <4>1, Successor
      <3> QED
        BY <3>5, <3>6
    <2>5. CASE R + 1 = SecsPerDay
      <3>1. r.secs + 1 = (D + 1) * SecsPerDay + 0 /\ s + 1 = (D + d + 1) * SecsPerDay + 0
        BY <1>2, <1>6, <1>7, <1>8, <1>9, <2>5
      <3>2. (r.secs + 1) \div SecsPerDay = D + 1 /\ (r.secs + 1) % SecsPerDay = 0
        <4>1. D + 1 \in Int
          BY <1>6
        <4> QED
          BY <1>2, <3>1, <4>1, IntDivMod
      <3>3. (s + 1) \div SecsPerDay = e + 1
        BY <1>2, <1>6, <1>9, <1>10, <3>1, IntDivMod
      <3>4. ~(R < SecsPerDay - 1) /\ R = SecsPerDay - 1
        BY <1>2, <1>6, <2>5
      <3>5. D + 1 <= M
        <4>1. D + 1 > M => (D + 1) * SecsPerDay >= (M + 1) * SecsPerDay
          <5>1. ASSUME D + 1 > M PROVE (D + 1) * SecsPerDay >= (M + 1) * SecsPerDay
            <6>1. PICK z \in Nat : D + 1 = (M + 1) + z
              <7>1. D + 1 = (M + 1) + (D - M) /\ D - M \in Nat
                BY <1>5, <1>6, <5>1
              <7> QED
                BY <7>1
            <6>2. ((M + 1) + z) * SecsPerDay = (M + 1) * SecsPerDay + z * SecsPerDay
                  /\ z * SecsPerDay \in Nat /\ (M + 1) * SecsPerDay \in Nat
              BY <1>2, <1>5, <1>8
            <6> QED
              BY <6>1, <6>2
          <5> QED
            BY <5>1
        <4>2. (M + 1) * SecsPerDay = M * SecsPerDay + SecsPerDay /\ M * SecsPerDay \in Nat
          BY <1>2, <1>5
        <4>3. r.secs + 1 = (D + 1) * SecsPerDay /\ r.secs + 1 <= M * SecsPerDay
          BY <1>2, <1>4, <1>6, <3>1, <4>2
        <4> QED
          BY <1>2, <1>4, <1>5, <1>6, <4>1, <4>2, <4>3
      <3>6. (w + (e + 1)) % 7 = (((w + e) % 7) + 1) % 7
        BY <1>1, <1>6, <1>10, <1>12
      <3>7. CASE r.secs + 1 < M * SecsPerDay
        <4>1. DateAt(b) = <<y, r.month, (D + 1) + 1, 0, (w + (e + 1)) % 7>>
          BY <2>2, <2>3, <3>2, <3>3, <3>7
        <4>2. D + 1 # M
          BY <1>2, <1>4, <1>5, <3>1, <3>7
        <4>3. D + 1 < Dating!Length(y, r.month) /\ D + 1 # Dating!Length(y, r.month)
          BY <1>5, <1>6, <3>5, <4>2
        <4> QED
          BY <1>11, <3>4, <3>6, <4>1, <4>3, Successor
      <3>8. CASE ~(r.secs + 1 < M * SecsPerDay)
        <4>1. r.month < 12 /\ q.month = r.month + 1 /\ q.secs = 0
          BY <2>3, <3>8
        <4>2. 0 \div SecsPerDay = 0 /\ 0 % SecsPerDay = 0
          BY <1>2
        <4>3. DateAt(b) = <<y, r.month + 1, 0 + 1, 0, (w + (e + 1)) % 7>>
          BY <2>2, <3>3, <4>1, <4>2
        <4>4. D + 1 = Dating!Length(y, r.month)
          <5>1. M * SecsPerDay \in Nat
            BY <1>2, <1>5
          <5>2. r.secs + 1 = M * SecsPerDay + 0 /\ M \in Int
            BY <1>4, <1>5, <3>8, <5>1
          <5>3. (r.secs + 1) \div SecsPerDay = M
            BY <1>2, <5>2, IntDivMod
          <5> QED
            BY <1>5, <3>2, <5>3
        <4>5. ~(D + 1 < Dating!Length(y, r.month))
          BY <1>6, <4>4
        <4> QED
          BY <1>11, <3>4, <3>6, <4>1, <4>3, <4>4, <4>5, Successor
      <3> QED
        BY <3>7, <3>8
    <2> QED
      BY <1>2, <1>6, <2>4, <2>5
  <1>14. CASE ~(s + 1 < n)
    <2>1. b.year = y + 1 /\ b.weekday = w + Dating!DaysOfYear(y) /\ b.secs.low = 0
      BY <1>14 DEF YearAfter, y, s, w, n
    <2>2. s + 1 = n
      BY <1>1, <1>14
    <2>3. r.month = 12 /\ r.secs + 1 = 31 * SecsPerDay
      BY <1>3, <2>2 DEF SecondAfter
    <2>4. 0 \div SecsPerDay = 0 /\ 0 % SecsPerDay = 0 /\ y + 1 \in Nat
      BY <1>1, <1>2
    <2>5. DateAt(b) = <<y + 1, 1, 0 + 1, 0, (w + Dating!DaysOfYear(y) + 0) % 7>>
      <3>1. Dating!MonthOf(0, y + 1).month = 1 /\ Dating!MonthOf(0, y + 1).secs = 0
        BY <2>4, FirstOfYear
      <3> QED
        BY <2>1, <2>4, <3>1 DEF DateAt
    <2>6. M = 31 /\ Dating!Length(y, 12) = 31
      BY <1>5, <2>3 DEF M, Dating!DaysOfMonth
    <2>7. D = 30 /\ R = SecsPerDay - 1
      <3>1. r.secs = 30 * SecsPerDay + (SecsPerDay - 1) /\ SecsPerDay - 1 \in Nat
        BY <1>2, <1>4, <2>3
      <3> QED
        BY <1>2, <3>1, IntDivMod DEF D, R
    <2>8. e + 1 = Dating!DaysOfYear(y)
      <3>1. Dating!DaysOfYear(y) \in {365, 366}
        BY <1>1, MonthLengths
      <3>2. n = Dating!DaysOfYear(y) * SecsPerDay
        BY DEF n, Dating!SecsOfYear
      <3>3. s = (Dating!DaysOfYear(y) - 1) * SecsPerDay + (SecsPerDay - 1)
        BY <1>1, <1>2, <2>2, <3>1, <3>2
      <3>4. Dating!DaysOfYear(y) - 1 \in Int /\ SecsPerDay - 1 \in Nat
        BY <1>2, <3>1
      <3>5. e = Dating!DaysOfYear(y) - 1
        BY <1>2, <3>3, <3>4, IntDivMod DEF e
      <3> QED
        BY <3>1, <3>5
    <2>9. (w + Dating!DaysOfYear(y) + 0) % 7 = (((w + e) % 7) + 1) % 7
      <3>1. w + Dating!DaysOfYear(y) + 0 = w + e + 1
        BY <1>1, <1>6, <1>10, <2>8
      <3> QED
        BY <1>12, <3>1
    <2>10. /\ ~(R < SecsPerDay - 1) /\ R = SecsPerDay - 1
           /\ ~(D + 1 < Dating!Length(y, r.month)) /\ D + 1 = Dating!Length(y, r.month)
              /\ ~(r.month < 12)
      BY <1>2, <2>3, <2>6, <2>7
    <2> QED
      BY <1>11, <2>5, <2>9, <2>10, Successor
  <1> QED
    BY <1>13, <1>14

(* The seconds that convert_time_to_date is given and what it adds to them. *)
LEMMA SinceIs ==
  ASSUME DatesFit, NEW d \in Nat, NEW s \in Nat,
         d * SecsPerDay + s + DateWord < (DateWord \div 2) * DateWord
  PROVE  LET x == Dating!Since(d, s)
         IN  /\ x.high \in 0 .. DateWord \div 2 - 1 /\ x.low \in 0 .. DateWord - 1
             /\ x \in Dating!Halves /\ Whole(x) = d * SecsPerDay + s
  <1> DEFINE v == d * SecsPerDay + s
             h == v \div DateWord
             l == v % DateWord
             H == DateWord \div 2
  <1>1. v \in Nat /\ v < H * DateWord
    <2>1. d * SecsPerDay \in Nat /\ H * DateWord \in Nat
      BY DateWordIs
    <2> HIDE DEF H
    <2> QED
      BY <2>1, DateWordIs DEF H
  <1>2. Dating!Since(d, s) = Dating!Seconds(h, v)
    BY DEF Dating!Since
  <1> HIDE DEF v
  <1>3. h \in Nat /\ l \in Nat /\ l < DateWord /\ v = h * DateWord + l
    BY <1>1, DateWordIs, DivIs
  <1> HIDE DEF h, l
  <1>4. h < H
    <2> SUFFICES ASSUME h >= H PROVE FALSE
      BY <1>3, DateWordIs
    <2>1. PICK k \in Nat : h = H + k
      <3>1. h = H + (h - H) /\ h - H \in Nat
        BY <1>3, DateWordIs
      <3> QED
        BY <3>1
    <2>2. H \in Nat /\ DateWord \in Nat
      BY DateWordIs
    <2> HIDE DEF H
    <2>3. h * DateWord = H * DateWord + k * DateWord /\ k * DateWord \in Nat
          /\ H * DateWord \in Nat
      BY <2>1, <2>2
    <2> QED
      BY <1>1, <1>3, <2>3
  <1>5. h \in -H .. H - 1 /\ l \in 0 .. DateWord - 1 /\ h \in Int
    BY <1>3, <1>4, DateWordIs
  <1>6. Dating!Seconds(h, v) = [high |-> h, low |-> l] /\ Dating!Seconds(h, v) \in Dating!Halves
    BY <1>3, <1>5, HalvesKept
  <1>7. h \in 0 .. H - 1
    BY <1>3, <1>5
  <1> QED
    BY <1>2, <1>3, <1>5, <1>6, <1>7 DEF Whole, v

LEMMA ZoneIs ==
  ASSUME DatesFit, NEW o \in Int, -DateWord <= o, o < DateWord
  PROVE  LET x == Dating!Seconds(-Dating!Carry(o < 0), o)
         IN  x.high \in {-1, 0} /\ x.low \in 0 .. DateWord - 1 /\ Whole(x) = o
  <1>1. DateWord \in Nat /\ DateWord > 0 /\ -1 \in -(DateWord \div 2) .. DateWord \div 2 - 1
        /\ 0 \in -(DateWord \div 2) .. DateWord \div 2 - 1
    BY DateWordIs
  <1>2. CASE o < 0
    <2>1. o + DateWord \in 0 .. DateWord - 1 /\ o = (-1) * DateWord + (o + DateWord)
          /\ -Dating!Carry(o < 0) = -1
      BY <1>1, <1>2 DEF Dating!Carry
    <2>2. Dating!Seconds(-1, o) = [high |-> -1, low |-> o + DateWord]
      <3> DEFINE m == -1
      <3>1. m \in -(DateWord \div 2) .. DateWord \div 2 - 1 /\ m \in Int
            /\ o = m * DateWord + (o + DateWord)
        BY <1>1, <2>1
      <3> HIDE DEF m
      <3>2. Dating!Seconds(m, o) = [high |-> m, low |-> o + DateWord]
        BY <2>1, <3>1, HalvesKept
      <3> QED
        BY <3>2 DEF m
    <2> QED
      BY <1>1, <2>1, <2>2 DEF Whole
  <1>3. CASE ~(o < 0)
    <2>1. o \in 0 .. DateWord - 1 /\ o = 0 * DateWord + o /\ -Dating!Carry(o < 0) = 0
      <3>1. -Dating!Carry(o < 0) = 0
        <4> DEFINE c == Dating!Carry(o < 0)
                   m == -c
        <4>1. c = 0
          BY <1>3 DEF Dating!Carry
        <4> HIDE DEF c
        <4>2. m + c = 0 /\ m \in Int
          BY <4>1
        <4> HIDE DEF m
        <4>3. m = 0
          BY <4>1, <4>2
        <4> QED
          BY <4>3 DEF m, c
      <3>2. o >= 0 /\ DateWord \in Nat /\ 0 * DateWord = 0
        BY <1>1, <1>3
      <3> QED
        BY <3>1, <3>2
    <2>2. Dating!Seconds(0, o) = [high |-> 0, low |-> o]
      <3> DEFINE z == 0
      <3>1. z \in -(DateWord \div 2) .. DateWord \div 2 - 1 /\ z \in Int /\ o = z * DateWord + o
        BY <1>1, <2>1
      <3> HIDE DEF z
      <3>2. Dating!Seconds(z, o) = [high |-> z, low |-> o]
        BY <2>1, <3>1, HalvesKept
      <3> QED
        BY <3>2 DEF z
    <2> QED
      BY <1>1, <2>1, <2>2 DEF Whole
  <1> QED
    BY <1>2, <1>3

LEMMA Added ==
  ASSUME DatesFit, NEW a, NEW b,
         a.high \in 0 .. DateWord \div 2 - 1, a.low \in 0 .. DateWord - 1,
         b.high \in {-1, 0}, b.low \in 0 .. DateWord - 1,
         Whole(a) + Whole(b) < (DateWord \div 2) * DateWord
  PROVE  Dating!add64(a, b) \in Dating!Halves /\ Whole(Dating!add64(a, b)) = Whole(a) + Whole(b)
  <1> DEFINE H == DateWord \div 2
             r_lo == Dating!ULONG(a.low + b.low)
             c == IF a.low + b.low < DateWord THEN 0 ELSE 1
             h == a.high + b.high + c
             l == a.low + b.low - c * DateWord
  <1>1. DateWord \in Nat /\ DateWord > 0 /\ H \in Nat /\ H > 0 /\ DateWord = H + H
    BY DateWordIs
  <1>2. /\ a.high \in Int /\ b.high \in Int /\ a.low \in Nat /\ b.low \in Nat
        /\ a.low < DateWord /\ b.low < DateWord /\ a.high >= 0 /\ b.high >= -1
    BY <1>1
  <1>3. /\ c \in {0, 1} /\ l \in Nat /\ l < DateWord
        /\ c = 1 <=> l < a.low \/ l < b.low
    BY <1>1, <1>2
  <1>4. r_lo = l
    <2> DEFINE z == a.low + b.low
    <2>1. z = c * DateWord + l /\ c \in Int /\ l \in Nat /\ l < DateWord
      BY <1>1, <1>2, <1>3
    <2>2. r_lo = z % DateWord
      BY DEF Dating!ULONG
    <2> HIDE DEF c, l, z, r_lo
    <2>3. z % DateWord = l
      BY <1>1, <2>1, IntDivMod
    <2> QED
      BY <2>2, <2>3
  <1>5. Dating!add64(a, b) = Dating!Seconds(h, l)
    <2>1. Dating!add64(a, b) =
            Dating!Seconds(a.high + b.high + Dating!Carry(r_lo < a.low \/ r_lo < b.low), r_lo)
      BY DEF Dating!add64
    <2>2. Dating!Carry(l < a.low \/ l < b.low) = c
      BY <1>3 DEF Dating!Carry
    <2> HIDE DEF r_lo, l, c
    <2> QED
      BY <1>4, <2>1, <2>2
  <1>6. h * DateWord + l = Whole(a) + Whole(b)
    <2> DEFINE i == a.high
               j == b.high
               m == a.low
               n == b.low
    <2>1. i \in Int /\ j \in Int /\ c \in Int /\ m \in Int /\ n \in Int /\ DateWord \in Int
      BY <1>1, <1>2, <1>3
    <2>2. h = i + j + c /\ l = m + n - c * DateWord /\ Whole(a) = i * DateWord + m
          /\ Whole(b) = j * DateWord + n
      BY DEF Whole
    <2> HIDE DEF h, c, l, i, j, m, n
    <2>3. h * DateWord = i * DateWord + j * DateWord + c * DateWord
          /\ i * DateWord \in Int /\ j * DateWord \in Int /\ c * DateWord \in Int
      BY <2>1, <2>2
    <2> QED
      BY <2>1, <2>2, <2>3
  <1>7. h \in Int /\ h >= -1
    BY <1>2, <1>3
  <1> HIDE DEF h, l, c, r_lo
  <1>8. h < H
    <2> SUFFICES ASSUME h >= H PROVE FALSE
      BY <1>1, <1>7
    <2>1. PICK k \in Nat : h = H + k
      <3>1. h = H + (h - H) /\ h - H \in Nat
        BY <1>1, <1>7
      <3> QED
        BY <3>1
    <2> HIDE DEF H
    <2>2. h * DateWord = H * DateWord + k * DateWord /\ k * DateWord \in Nat
          /\ H * DateWord \in Nat
      BY <1>1, <2>1
    <2>3. h * DateWord + l < H * DateWord
      BY <1>6 DEF H
    <2> QED
      BY <1>3, <2>2, <2>3
  <1>9. h \in -H .. H - 1 /\ l \in 0 .. DateWord - 1 /\ l = 0 * DateWord + l
    BY <1>1, <1>3, <1>7, <1>8
  <1>10. Dating!Seconds(h, l) = [high |-> h, low |-> l] /\ Dating!Seconds(h, l) \in Dating!Halves
    BY <1>9, HalvesKept
  <1> QED
    BY <1>5, <1>6, <1>10 DEF Whole

LEMMA DateSign ==
  ASSUME DatesFit, NEW x \in Dating!Halves
  PROVE  x.high \in Int /\ x.low \in Nat /\ Whole(x) \in Int /\ (x.high < 0 <=> Whole(x) < 0)
  <1>1. /\ x.high \in Int /\ x.low \in Nat /\ x.low < DateWord /\ DateWord \in Nat
    BY DateWordIs DEF Dating!Halves
  <1>2. \A i \in Int, j \in Nat : i * j \in Int /\ (i >= 0 => i * j \in Nat)
                                  /\ (i < 0 => i * j <= -j)
    <2>1. \A i \in Int, j \in Nat : i * j \in Int /\ (i >= 0 => i * j \in Nat)
      OBVIOUS
    <2>2. ASSUME NEW i \in Int, NEW j \in Nat, i < 0 PROVE i * j <= -j
      <3>1. -i - 1 \in Nat /\ (-i - 1) * j \in Nat /\ (-i - 1) * j = -(i * j) - j /\ i * j \in Int
        BY <2>2
      <3> QED
        BY <3>1
    <2> QED
      BY <2>1, <2>2
  <1>3. x.high * DateWord \in Int /\ (x.high >= 0 => x.high * DateWord \in Nat)
        /\ (x.high < 0 => x.high * DateWord <= -DateWord)
    BY <1>1, <1>2
  <1> QED
    BY <1>1, <1>3 DEF Whole

(* The time from which convert_time_to_date begins to count.               *)
Local(sec, offset) ==
    IF offset = 0 THEN sec
    ELSE Dating!add64(sec, Dating!Seconds(-Dating!Carry(offset < 0), offset))
Epoch(local) == [year |-> 1970, secs |-> local, weekday |-> 4]

LEMMA LocalIs ==
  ASSUME DatesFit, NEW d \in Nat, NEW s \in Nat, NEW o \in Int, -DateWord <= o, o < DateWord,
         d * SecsPerDay + s + DateWord < (DateWord \div 2) * DateWord
  PROVE  LET x == Local(Dating!Since(d, s), o)
         IN  x \in Dating!Halves /\ Whole(x) = d * SecsPerDay + s + o
  <1> DEFINE a == Dating!Since(d, s)
             b == Dating!Seconds(-Dating!Carry(o < 0), o)
             v == d * SecsPerDay + s
  <1>1. /\ a.high \in 0 .. DateWord \div 2 - 1 /\ a.low \in 0 .. DateWord - 1
        /\ a \in Dating!Halves /\ Whole(a) = v
    BY SinceIs
  <1>2. b.high \in {-1, 0} /\ b.low \in 0 .. DateWord - 1 /\ Whole(b) = o
    BY ZoneIs
  <1>3. v \in Nat /\ v + DateWord < (DateWord \div 2) * DateWord /\ DateWord \in Nat
        /\ (DateWord \div 2) * DateWord \in Nat
    <2>1. d * SecsPerDay \in Nat /\ DateWord \in Nat /\ (DateWord \div 2) * DateWord \in Nat
      BY DateWordIs
    <2> QED
      BY <2>1
  <1> HIDE DEF a, b, v
  <1>4. CASE o = 0
    BY <1>1, <1>3, <1>4 DEF Local, a, v
  <1>5. CASE o # 0
    <2>1. Whole(a) + Whole(b) < (DateWord \div 2) * DateWord
      BY <1>1, <1>2, <1>3
    <2>2. Dating!add64(a, b) \in Dating!Halves /\ Whole(Dating!add64(a, b)) = v + o
      BY <1>1, <1>2, <2>1, Added
    <2> QED
      BY <1>5, <2>2 DEF Local, a, b, v
  <1> QED
    BY <1>4, <1>5

LEMMA DateIs ==
  ASSUME DatesFit, NEW sec, NEW o, Local(sec, o) \in Dating!Halves
  PROVE  Dating!convert_time_to_date(sec, o) =
           IF Local(sec, o).high < 0 THEN <<>> ELSE DateAt(Dating!YearFrom[Epoch(Local(sec, o))])
  BY DEF Dating!convert_time_to_date, Local, Epoch, DateAt, Dating!YearOf

LEMMA Calendar ==
  ASSUME DatesFit, NEW d \in Nat, NEW s \in Nat, NEW o \in Int, -DateWord <= o, o < DateWord,
         d * SecsPerDay + (s + 1) + DateWord < (DateWord \div 2) * DateWord
  PROVE  LET date == Dating!convert_time_to_date(Dating!Since(d, s), o)
             later == Dating!convert_time_to_date(Dating!Since(d, s + 1), o)
             elapsed == d * SecsPerDay + s + o
         IN  /\ elapsed = 0 => date = <<1970, 1, 1, 0, 4>>
             /\ elapsed < 0 => date = <<>>
             /\ elapsed >= 0 => later = Dating!Following(date)
  <1> DEFINE x == Local(Dating!Since(d, s), o)
             y == Local(Dating!Since(d, s + 1), o)
             t == Epoch(x)
             u == Epoch(y)
             v == d * SecsPerDay + s + o
  <1>1. /\ d * SecsPerDay \in Nat /\ (DateWord \div 2) * DateWord \in Nat /\ DateWord \in Nat
        /\ v \in Int
    BY DateWordIs
  <1>2. x \in Dating!Halves /\ Whole(x) = v
    <2>1. d * SecsPerDay + s + DateWord < (DateWord \div 2) * DateWord
      BY <1>1
    <2> QED
      BY <2>1, LocalIs
  <1>3. y \in Dating!Halves /\ Whole(y) = v + 1
    <2>1. s + 1 \in Nat
      OBVIOUS
    <2>2. y \in Dating!Halves /\ Whole(y) = d * SecsPerDay + (s + 1) + o
      BY <2>1, LocalIs
    <2> QED
      BY <1>1, <2>2
  <1>4. /\ Dating!convert_time_to_date(Dating!Since(d, s), o)
             = IF x.high < 0 THEN <<>> ELSE DateAt(Dating!YearFrom[t])
        /\ Dating!convert_time_to_date(Dating!Since(d, s + 1), o)
             = IF y.high < 0 THEN <<>> ELSE DateAt(Dating!YearFrom[u])
    BY <1>2, <1>3, DateIs
  <1>5. /\ x.high \in Int /\ y.high \in Int
        /\ x.high < 0 <=> v < 0
        /\ y.high < 0 <=> v + 1 < 0
    BY <1>2, <1>3, DateSign
  <1>6. /\ t.year = 1970 /\ t.secs = x /\ t.weekday = 4 /\ t \in YearTimes
        /\ u.year = 1970 /\ u.secs = y /\ u.weekday = 4 /\ u \in YearTimes
    BY <1>2, <1>3 DEF Epoch, YearTimes
  <1> HIDE DEF x, y, t, u, v
  <1>7. ASSUME v >= 0
        PROVE  /\ DateAt(Dating!YearFrom[u]) = Dating!Following(DateAt(Dating!YearFrom[t]))
               /\ Past(t) /\ Past(u)
    <2>1. Past(t) /\ Past(u)
      BY <1>1, <1>5, <1>6, <1>7 DEF Past
    <2>2. YearAfter(Dating!YearFrom[t], Dating!YearFrom[u])
      <3>1. v \in Nat /\ v <= v
        BY <1>1, <1>7
      <3>2. YearsFollow(v)
        BY <3>1, SecondsFollow
      <3> QED
        BY <1>2, <1>3, <1>6, <2>1, <3>1, <3>2 DEF YearsFollow
    <2> QED
      BY <2>1, <2>2, DateFollows
  <1>8. ASSUME v = 0 PROVE DateAt(Dating!YearFrom[t]) = <<1970, 1, 1, 0, 4>>
    <2>1. Past(t)
      BY <1>7, <1>8
    <2>2. Dating!SecsOfYear(1970) \in Nat /\ Dating!SecsOfYear(1970) > 0 /\ SecsPerDay \in Nat
          /\ SecsPerDay > 0
      BY DateWordIs
    <2>3. ~Dating!YearEnds(t) /\ t.secs.low = 0
      <3>1. Dating!YearEnds(t) <=> 0 >= Dating!SecsOfYear(1970)
        BY <1>2, <1>6, <1>8, <2>1, PastIs
      <3>2. ~Dating!YearEnds(t)
        BY <2>2, <3>1
      <3> QED
        BY <1>2, <1>6, <1>8, <2>1, <3>2, PastIs
    <2>4. Dating!YearFrom[t] = t
      BY <1>6, <2>3, YearLoop
    <2>5. Dating!MonthOf(0, 1970).month = 1 /\ Dating!MonthOf(0, 1970).secs = 0
      BY FirstOfYear
    <2>6. 0 \div SecsPerDay = 0 /\ 0 % SecsPerDay = 0
      BY <2>2
    <2>7. DateAt(t) = <<1970, 1, 0 + 1, 0, (4 + 0) % 7>>
      BY <1>6, <2>3, <2>5, <2>6 DEF DateAt
    <2> QED
      BY <2>4, <2>7
  <1>9. v >= 0 => ~(x.high < 0) /\ ~(y.high < 0)
    BY <1>1, <1>5
  <1>10. /\ v = 0 => Dating!convert_time_to_date(Dating!Since(d, s), o) = <<1970, 1, 1, 0, 4>>
         /\ v < 0 => Dating!convert_time_to_date(Dating!Since(d, s), o) = <<>>
         /\ v >= 0 => Dating!convert_time_to_date(Dating!Since(d, s + 1), o)
                        = Dating!Following(Dating!convert_time_to_date(Dating!Since(d, s), o))
    BY <1>1, <1>4, <1>5, <1>7, <1>8, <1>9
  <1> QED
    BY <1>10 DEF v

(* Time passes within the days that DatesFit is about.                     *)
DatesInv ==
  /\ day \in Nat /\ second \in 0 .. SecsPerDay - 1 /\ utc \in Offsets
  /\ \E start \in FirstDays : day \in start .. start + Span

LEMMA DatesSound ==
  ASSUME DatesFit, DatesInv
  PROVE  Dating!DatesFollow
  <1>1. PICK start \in FirstDays : day \in start .. start + Span
    BY DEF DatesInv
  <1>2. /\ start \in Nat /\ Span \in Nat /\ day \in Nat /\ second \in Nat /\ second < SecsPerDay
        /\ SecsPerDay \in Nat /\ DateWord \in Nat
        /\ utc \in Int /\ -DateWord <= utc /\ utc < DateWord
        /\ (start + Span + 1) * SecsPerDay + DateWord < (DateWord \div 2) * DateWord
    BY DateWordIs DEF DatesFit, DatesInv
  <1>3. day * SecsPerDay + (second + 1) + DateWord < (DateWord \div 2) * DateWord
    <2>1. PICK k \in Nat : start + Span = day + k
      <3>1. start + Span = day + (start + Span - day) /\ start + Span - day \in Nat
        BY <1>1, <1>2
      <3> QED
        BY <3>1
    <2>2. start + Span + 1 = day + k + 1
      BY <1>2, <2>1
    <2>3. \A i, j, m \in Nat : (i + j + 1) * m = i * m + j * m + m /\ i * m \in Nat
      OBVIOUS
    <2>4. (start + Span + 1) * SecsPerDay = day * SecsPerDay + k * SecsPerDay + SecsPerDay
          /\ day * SecsPerDay \in Nat /\ k * SecsPerDay \in Nat
      BY <1>2, <2>2, <2>3
    <2>5. (DateWord \div 2) * DateWord \in Nat
      BY DateWordIs
    <2> QED
      BY <1>2, <2>4, <2>5
  <1> QED
    BY <1>2, <1>3, Calendar DEF Dating!DatesFollow

LEMMA DatesStep ==
  ASSUME DatesFit, DatesInv, Dating!Next
  PROVE  DatesInv'
  <1>1. SecsPerDay \in Nat /\ SecsPerDay > 0
    BY DateWordIs
  <1>2. second' \in 0 .. SecsPerDay - 1
    <2>1. second + 1 \in Nat /\ second' = (second + 1) % SecsPerDay
      BY <1>1 DEF Dating!Next, DatesInv
    <2>2. \A i, j \in Nat : j > 0 => i % j \in 0 .. j - 1
      OBVIOUS
    <2> QED
      BY <1>1, <2>1, <2>2
  <1>3. day' \in Nat /\ utc' = utc /\ \E start \in FirstDays : day' \in start .. start + Span
    BY DEF Dating!Next, DatesInv
  <1> QED
    BY <1>2, <1>3 DEF DatesInv

(***************************************************************************)
(* The date of a second is followed by the date that follows it in the      *)
(* calendar, over the ends of days, months and years and where the seconds  *)
(* no longer fit a ULONG; the epoch is a Thursday, and a time before it has *)
(* no date (DatesFollow).                                                   *)
(***************************************************************************)
THEOREM DatesFollowCalendar == DatesFit => (DevicesSpec => []DatesFollow)
  <1> SUFFICES ASSUME DatesFit PROVE DevicesSpec => []DatesFollow
    OBVIOUS
  <1>1. DevicesInit => DatesInv
    <2> SUFFICES ASSUME DevicesInit PROVE DatesInv
      OBVIOUS
    <2>1. day \in FirstDays /\ second = 0 /\ utc \in Offsets
      BY DEF DevicesInit, Dating!Init
    <2>2. day \in Nat /\ day \in day .. day + Span
      BY <2>1 DEF DatesFit
    <2> QED
      BY <2>1, <2>2, DateWordIs DEF DatesInv
  <1>2. DatesInv /\ [DevicesNext]_allVars => DatesInv'
    <2> SUFFICES ASSUME DatesInv, [DevicesNext]_allVars PROVE DatesInv'
      OBVIOUS
    <2>1. Dating!Next \/ UNCHANGED datesVars
      BY DEF DevicesNext, allVars
    <2>2. CASE Dating!Next
      BY <2>2, DatesStep
    <2>3. CASE UNCHANGED datesVars
      BY <2>3 DEF DatesInv, datesVars
    <2> QED
      BY <2>1, <2>2, <2>3
  <1>3. DatesInv => DatesFollow
    BY DatesSound DEF DatesFollow
  <1> QED
    BY <1>1, <1>2, <1>3, PTL DEF DevicesSpec

-------------------------------------------------------------------------------
(* Where the devices are checked side by side, the EEPROM is the EEPROM's  *)
(* specification, of which the first two theorems speak.                   *)
THEOREM EepromAmongDevices == DevicesSpec => Spec
  <1>1. DevicesInit => Init
    BY DEF DevicesInit
  <1>2. [DevicesNext]_allVars => [Next]_vars
    BY DEF DevicesNext, allVars, eepromVars
  <1> QED
    BY <1>1, <1>2, PTL DEF DevicesSpec, Spec
================================================================================
