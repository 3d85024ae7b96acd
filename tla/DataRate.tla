-------------------------------- MODULE DataRate --------------------------------
(***************************************************************************)
(* The output data rates of the accelerometer and the gyroscope, which are  *)
(* no field of their own: in LSM6DSO the rate set is raised to that of the  *)
(* finite state machines when one is enabled; in LSM6DSV the rates of both  *)
(* sensors share the register that chooses between the rates of high        *)
(* accuracy.  Rates are the enumerations' values, lsm6dso_odr_xl_t,         *)
(* lsm6dso_odr_g_t, lsm6dso_fsm_odr_t and lsm6dsv_data_rate_t.              *)
(*                                                                         *)
(* A call may fail in any of its transfers, and one that writes may fail    *)
(* after it took effect.                                                    *)
(* A suffixed name is a seeded fault.                                       *)
(***************************************************************************)
EXTENDS Naturals

CONSTANTS Rates,    \* the rates asked of each chip, [chip -> set of rates]
          None      \* no rate, or one whose setting failed

\* The enumerations' values: of LSM6DSV's, family and rate in half a byte each.
RatesAssumption ==
    /\ Rates["LSM6DSO"] \subseteq Nat
    /\ \A val \in Rates["LSM6DSV"] : val \in Nat /\ val % 16 \in 0..12

VARIABLES
    chip,           \* "LSM6DSO" or "LSM6DSV"
    odr,            \* odr_xl and odr_g
    haodr_sel,      \* LSM6DSV: the family of high accuracy rates
    fsm_enable,     \* LSM6DSO: some finite state machine is enabled
    fsm_odr,        \* LSM6DSO: their rate
    asked,          \* history: the last rate set
    covered         \* history: sensors whose rate was set after the machines'

vars == <<chip, odr, haodr_sel, fsm_enable, fsm_odr, asked, covered>>

Sensors == {"xl", "gy"}

Init ==
    /\ chip \in {"LSM6DSO", "LSM6DSV"}
    /\ odr = [s \in Sensors |-> 0] /\ haodr_sel = 0
    /\ fsm_enable = FALSE /\ fsm_odr = 0
    /\ asked = [s \in Sensors |-> None] /\ covered = {}

-------------------------------------------------------------------------------
\* LSM6DSO.
XL_ODR_1Hz6 == 11
FsmRates == 0..3    \* 12.5 Hz to 104 Hz, the rates 1 to 4 of the sensors

fsm_enable_set ==
    /\ chip = "LSM6DSO"
    /\ fsm_enable' \in BOOLEAN
    /\ covered' = {}
    /\ UNCHANGED <<chip, odr, haodr_sel, fsm_odr, asked>>

fsm_data_rate_set ==
    /\ chip = "LSM6DSO"
    /\ fsm_odr' \in FsmRates
    /\ covered' = {}
    /\ UNCHANGED <<chip, odr, haodr_sel, fsm_enable, asked>>

\* The rate stored for the rate asked: the nested switches of the setter.
Raised_OffByOne(val) == IF fsm_enable /\ val < fsm_odr THEN fsm_odr + 1 ELSE val

Raised(val) == IF fsm_enable /\ val <= fsm_odr THEN fsm_odr + 1 ELSE val

lsm6dso_data_rate_set(s, val) ==
    /\ chip = "LSM6DSO"
    /\ s = "gy" => val # XL_ODR_1Hz6
    /\ \/ /\ odr' = [odr EXCEPT ![s] = Raised(val)]
          /\ asked' = [asked EXCEPT ![s] = val]
          /\ covered' = covered \cup {s}
       \/ /\ odr' \in {odr, [odr EXCEPT ![s] = Raised(val)]}
          /\ asked' = [asked EXCEPT ![s] = None]
          /\ UNCHANGED covered
    /\ UNCHANGED <<chip, haodr_sel, fsm_enable, fsm_odr>>

-------------------------------------------------------------------------------
\* LSM6DSV: the low half of a rate is the sensor's, the high half the family,
\* which is written only if there is one.
lsm6dsv_data_rate_set(s, val) ==
    LET family == IF val \div 16 # 0 THEN val \div 16 ELSE haodr_sel
        set == [odr EXCEPT ![s] = val % 16]
    IN  /\ chip = "LSM6DSV"
        /\ \/ /\ odr' = set /\ haodr_sel' = family
              /\ asked' = [asked EXCEPT ![s] = val]
           \/ /\ \/ odr' \in {odr, set} /\ UNCHANGED haodr_sel
                 \/ odr' = set /\ haodr_sel' = family
              /\ asked' = [asked EXCEPT ![s] = None]
        /\ UNCHANGED <<chip, fsm_enable, fsm_odr, covered>>

\* The nested switches of the getter.
lsm6dsv_data_rate_get(s) ==
    CASE odr[s] \in 3..12 /\ haodr_sel \in {1, 2} -> 16 * haodr_sel + odr[s]
      [] odr[s] \in 3..12 /\ haodr_sel \notin {1, 2} -> odr[s]
      [] odr[s] \in 0..2 -> odr[s]
      [] OTHER -> 0

Next ==
    \/ fsm_enable_set \/ fsm_data_rate_set
    \/ \E s \in Sensors, val \in Rates[chip] :
          lsm6dso_data_rate_set(s, val) \/ lsm6dsv_data_rate_set(s, val)

Spec == Init /\ [][Next]_vars

(***************************************************************************)
(* Properties.                                                              *)
(***************************************************************************)

\* "Check the Finite State Machine data rate constraints" (lsm6dso_reg.c): a
\* sensor whose rate was set after the machines' runs at least as fast as
\* they do, and no slower than asked.  1.6 Hz, the slowest rate with the
\* greatest value, is passed through.
FsmRateMet ==
    chip = "LSM6DSO" =>
        \A s \in covered :
            asked[s] \notin {None, XL_ODR_1Hz6} =>
                odr[s] >= asked[s] /\ (fsm_enable => odr[s] > fsm_odr)

\* Setting the other sensor's rate changes no more of a rate than its family.
OnlyFamilyShared ==
    chip = "LSM6DSV" =>
        \A s \in Sensors :
            asked[s] # None => lsm6dsv_data_rate_get(s) % 16 = asked[s] % 16

\* Both.
RatesMet == FsmRateMet /\ OnlyFamilyShared

\* "Accelerometer output data rate (ODR) selection.[get]" (lsm6dsv_reg.c): the
\* rate reported is the rate set.  Violated.
RateAsSet ==
    chip = "LSM6DSV" =>
        \A s \in Sensors : asked[s] # None => lsm6dsv_data_rate_get(s) = asked[s]
================================================================================
