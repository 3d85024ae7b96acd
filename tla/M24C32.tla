-------------------------------- MODULE M24C32 --------------------------------
(***************************************************************************)
(* general/src/m24c32.c: writing and clearing bytes of an EEPROM whose     *)
(* pages a single write must not cross.  The device (external) writes what *)
(* goes beyond the end of a page to the start of the same page, and a      *)
(* write to it may fail, leaving the memory as it was.                     *)
(*                                                                         *)
(* Threads use the driver at the same time; each device->write is one bus  *)
(* transfer, and others come between two of them.  A byte is named by the  *)
(* call that wrote it and its index in the caller's data.                  *)
(* A suffixed name is a fault seeded in the definition before the suffix.  *)
(***************************************************************************)
EXTENDS Naturals, FiniteSetsExt

CONSTANTS
  Threads,
  PAGE_SIZE,
  MemorySize,
  MaxCalls,   \* bound on the calls of all threads
  MaxFaults   \* bound on the bus transfers that fail

ASSUME PageAssumption == PAGE_SIZE \in Nat \ {0}
ASSUME MemoryAssumption == MemorySize \in Nat \ {0} /\ MemorySize % PAGE_SIZE = 0

VARIABLES
  memory,
  addr, len, bytes_written,  \* of the write or clear each thread is in
  pc, result, faults,
  calls,      \* calls so far
  call,       \* the number of each thread's call
  \* history
  region,     \* the bytes each thread's call names, <<first, length>>
  undisturbed \* threads since whose last call began nobody else wrote to its region

Addresses == 0 .. MemorySize - 1

driverVars == <<addr, len, bytes_written>>
callVars == <<pc, calls, call, result>>
history == <<region, undisturbed>>
vars == <<memory, driverVars, callVars, faults, history>>

Zero == <<>>
Byte(t, i) == <<call[t], i>>
In(a, r) == a \in r[1] .. r[1] + r[2] - 1

DriverInit ==
  /\ memory = [a \in Addresses |-> Zero]
  /\ addr = [t \in Threads |-> 0]
  /\ len = [t \in Threads |-> 0]
  /\ bytes_written = [t \in Threads |-> 0]
  /\ pc = [t \in Threads |-> "idle"]
  /\ calls = 0 /\ call = [t \in Threads |-> 0]
  /\ result = [t \in Threads |-> "none"]
  /\ faults = 0
  /\ region = [t \in Threads |-> <<0, 0>>]
  /\ undisturbed = {}

(* Byte i of a write to the device at address a.                           *)
Target(a, i) == ((a \div PAGE_SIZE) * PAGE_SIZE) + (((a % PAGE_SIZE) + i) % PAGE_SIZE)

DeviceWrite(t, a, data) ==
  /\ memory' = [x \in Addresses |->
       LET I == {i \in DOMAIN data : Target(a, i) = x}
       IN  IF I = {} THEN memory[x] ELSE data[Max(I)]]
  /\ undisturbed' = undisturbed \ {u \in Threads \ {t} :
       \E i \in DOMAIN data : In(Target(a, i), region[u])}
  /\ UNCHANGED <<region, faults>>

DeviceFails ==
  /\ faults < MaxFaults
  /\ faults' = faults + 1
  /\ UNCHANGED <<memory, history>>

Return(t, status) ==
  /\ pc' = [pc EXCEPT ![t] = "idle"]
  /\ result' = [result EXCEPT ![t] = status]
  /\ UNCHANGED <<calls, call>>

(* A call that comes to writing n bytes at address a, in the bytes r it    *)
(* may touch.                                                              *)
Begin(t, label, a, n, r) ==
  /\ pc[t] = "idle" /\ calls < MaxCalls
  /\ calls' = calls + 1
  /\ call' = [call EXCEPT ![t] = calls']
  /\ pc' = [pc EXCEPT ![t] = label]
  /\ addr' = [addr EXCEPT ![t] = a]
  /\ len' = [len EXCEPT ![t] = n]
  /\ bytes_written' = [bytes_written EXCEPT ![t] = 0]
  /\ region' = [region EXCEPT ![t] = r]
  /\ undisturbed' = undisturbed \union {t}
  /\ UNCHANGED <<memory, result, faults>>

-------------------------------------------------------------------------------
(* m24c32_write: the part of what is left that fits in the page.           *)
write_len_WholeRest(t) == len[t] - bytes_written[t]

write_len(t) ==
  Min({len[t] - bytes_written[t], PAGE_SIZE - (addr[t] % PAGE_SIZE)})

Chunk_FromStart(t) == [i \in 0 .. write_len(t) - 1 |-> Byte(t, i)]

Chunk(t) == [i \in 0 .. write_len(t) - 1 |-> Byte(t, bytes_written[t] + i)]

WritePage(t) ==
  /\ pc[t] = "write"
  /\ bytes_written[t] < len[t]
  /\ DeviceWrite(t, addr[t], Chunk(t))
  /\ addr' = [addr EXCEPT ![t] = @ + write_len(t)]
  /\ bytes_written' = [bytes_written EXCEPT ![t] = @ + write_len(t)]
  /\ UNCHANGED <<len, callVars>>

WriteFails(t) ==
  /\ pc[t] = "write"
  /\ bytes_written[t] < len[t]
  /\ DeviceFails
  /\ Return(t, "EEPROM_ERROR")
  /\ UNCHANGED driverVars

WriteDone(t) ==
  /\ pc[t] = "write"
  /\ bytes_written[t] = len[t]
  /\ Return(t, "EEPROM_OK")
  /\ UNCHANGED <<memory, driverVars, faults, history>>

m24c32_write(t) == WritePage(t) \/ WriteFails(t) \/ WriteDone(t)

(* m24c32_clear: zeroes in a single write, whatever the page.              *)
m24c32_clear(t) ==
  /\ pc[t] = "clear"
  /\ \/ /\ DeviceWrite(t, addr[t], [i \in 0 .. len[t] - 1 |-> Zero])
        /\ Return(t, "EEPROM_OK")
     \/ /\ DeviceFails
        /\ Return(t, "EEPROM_ERROR")
  /\ UNCHANGED driverVars

-------------------------------------------------------------------------------
(* Until somebody else writes there, all that a write has written so far   *)
(* is in the memory at its place, also when a transfer has failed and when *)
(* the write crosses the end of a page.                                    *)
Start(t) == addr[t] - bytes_written[t]

WrittenSoFar ==
  \A t \in undisturbed : \A i \in 0 .. bytes_written[t] - 1 :
    memory[Start(t) + i] = Byte(t, i)

(* A call changes no byte outside the region it names, the partition a     *)
(* write is for or the section a clear is for, and in there only the bytes *)
(* of the caller's data.                                                   *)
Steps(t) == <<bytes_written[t], pc[t]>>' # <<bytes_written[t], pc[t]>>

NothingElseChanges ==
  [][\A t \in Threads : pc[t] # "idle" /\ Steps(t) =>
       \A a \in Addresses : memory'[a] # memory[a] =>
         /\ In(a, region[t])
         /\ memory'[a] = IF pc[t] = "write" THEN Byte(t, a - Start(t)) ELSE Zero]_vars
===============================================================================
