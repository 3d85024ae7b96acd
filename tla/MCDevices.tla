------------------------------- MODULE MCDevices -------------------------------
(***************************************************************************)
(* Devices for TLC: the values of the constants that a .cfg cannot write.   *)
(***************************************************************************)
EXTENDS Devices, TLC

Dso == INSTANCE Lsm6dso
Dsv == INSTANCE Lsm6dsv
Mdl == INSTANCE Lis2mdl

MCAccessors == Dso!Accessors \cup Dsv!Accessors \cup Mdl!Accessors

\* Rates below, at and above those of the machines; of each family, the
\* lowest and the highest.
MCRates == [LSM6DSO |-> 0..5 \cup {11}, LSM6DSV |-> {0, 1, 3, 12, 19, 28, 35}]

MCOffsets == {-3, 0, 1}

\* Rates of the two sensors; events that share fields, pins or the embedded
\* functions.
MCUses == {{"rates"}, {"free_fall", "wake_up", "sleep_change"},
           {"single_tap", "double_tap", "drdy"}, {"tilt", "step_detector", "drdy"},
           {"six_d", "wake_up", "tilt"}}

\* Partitions of four bytes and of two, that share a page of three; sections
\* within a page.
MCSizes == <<4, 2>>
MCClears == {<<0, 2>>, <<4, 2>>}
MCSymmetry == Permutations(Threads)
================================================================================
