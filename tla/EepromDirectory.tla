---------------------------- MODULE EepromDirectory ----------------------------
(***************************************************************************)
(* middleware/src/eeprom_directory.c and m24c32_eeprom_directory.c: an     *)
(* EEPROM divided into named partitions, over the driver of M24C32.        *)
(***************************************************************************)
EXTENDS M24C32, Sequences

CONSTANTS
  Lengths,  \* lengths of what is written
  sizes,    \* the sizes of the partitions, in the order of directory_init
  Clears    \* what m24c32_clear is called with, pairs of address and length

ASSUME SizesAssumption == sizes \in Seq(Nat)
ASSUME ClearsAssumption == Clears \subseteq Addresses \X (Nat \ {0})

Partitions == DOMAIN sizes

(* directory_init: the accumulated addresses of the partitions.            *)
address[i \in Nat] == IF i <= 1 THEN 0 ELSE address[i - 1] + sizes[i - 1]

Partition(p) == <<address[p], sizes[p]>>

Init == DriverInit

(* m24c32_directory_write.                                                 *)
OutOfBounds(p, n, offset) == offset >= sizes[p]
Overruns(p, n, offset) == offset + n > sizes[p]

BeginWrite(t, p, n, offset) ==
  /\ ~OutOfBounds(p, n, offset) /\ ~Overruns(p, n, offset)
  /\ Begin(t, "write", address[p] + offset, n, Partition(p))

Refuse(t, p, n, offset) ==
  /\ pc[t] = "idle" /\ calls < MaxCalls
  /\ OutOfBounds(p, n, offset) \/ Overruns(p, n, offset)
  /\ calls' = calls + 1
  /\ result' = [result EXCEPT ![t] =
       IF OutOfBounds(p, n, offset) THEN "EEPROM_ERROR_OUT_OF_BOUNDS" ELSE "EEPROM_ERROR_ALIGNMENT"]
  /\ UNCHANGED <<memory, driverVars, pc, call, faults, history>>

m24c32_directory_write(t) ==
  \E p \in Partitions : \E n \in Lengths, offset \in 0 .. sizes[p] :
    BeginWrite(t, p, n, offset) \/ Refuse(t, p, n, offset)

BeginClear(t) ==
  \E c \in Clears : Begin(t, "clear", c[1], c[2], c)

Next ==
  \E t \in Threads :
    m24c32_directory_write(t) \/ m24c32_write(t) \/ BeginClear(t) \/ m24c32_clear(t)

Spec == Init /\ [][Next]_vars

================================================================================
