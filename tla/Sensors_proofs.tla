----------------------------- MODULE Sensors_proofs -----------------------------
(***************************************************************************)
(* Proofs about the sensors and the bit stream, in whatever order calls    *)
(* come and whatever transfers fail: accessors of registers report         *)
(* failures, restore the bank, change their own fields only, and get what   *)
(* was set; data rates meet the state machines' constraint; the events of   *)
(* the object keep their routes and its sensors their rates; and a stream   *)
(* holds the values that were added.                                        *)
(***************************************************************************)
EXTENDS Devices, Arithmetic_proofs

-------------------------------------------------------------------------------
(***************************************************************************)
(* The registers of the sensors.                                            *)
(***************************************************************************)
(* A function that takes the status of its last selection for that of the  *)
(* whole call hides failures by itself.                                    *)
NoneForgets == \A a \in AllAccessors : ~a.forgets

RegistersInv ==
  /\ op \in AllAccessors /\ ret \in BOOLEAN /\ bank \in Accessing!Banks
  /\ reg_pc \in {"idle", "select", "read", "write", "restore"}
  /\ reg_pc # "idle" => reg_call \in {"set", "get"}
  /\ reg_call = "none" => reg_pc = "idle" /\ bank = "user"
  /\ reg_pc \in {"select", "restore"} => Accessing!Selects
  /\ ~Accessing!Selects /\ ~Accessing!Paged => bank = "user"
  /\ reg_call # "none" => (ret <=> failed = {} /\ ~Accessing!Refused(reg_call, value))
  /\ Accessing!BankRestored

LEMMA RegistersInit == DevicesInit => RegistersInv
  BY DEF DevicesInit, Accessing!Init, RegistersInv, Accessing!Banks, Accessing!BankRestored,
    Accessing!Returned

LEMMA RegistersNext ==
  ASSUME part = "registers", [DevicesNext]_allVars
  PROVE  part' = part /\ [Accessing!Next]_registersVars
  BY DEF DevicesNext, allVars

LEMMA RegistersStep ==
  ASSUME NoneForgets, RegistersInv, [Accessing!Next]_registersVars
  PROVE  RegistersInv'
  <1> USE DEF RegistersInv
  <1>1. /\ op.bank.name \in Accessing!Banks /\ op.bank.restores \in BOOLEAN
        /\ \A c \in {"set", "get"} : op.unselected[c] \in {"idle", "read", "restore"}
        /\ ~op.forgets
    BY DevicesAssumption DEF Accessing!AccessorsAssumption, NoneForgets
  <1>2. \A c : Accessing!FirstTransfer(c) \in {"read", "write"}
    BY DEF Accessing!FirstTransfer
  <1>3. \A ok : Accessing!Finish(ok) = IF Accessing!Selects /\ (ok \/ op.bank.restores)
                                       THEN "restore" ELSE "idle"
    BY DEF Accessing!Finish
  <1>4. ASSUME NEW c \in {"set", "get"}, NEW v, Accessing!Call(c, v) PROVE RegistersInv'
    <2>1. /\ reg_pc = "idle" /\ reg_call' = c /\ value' = v
          /\ ret' = ~Accessing!Refused(c, v)
          /\ reg_pc' = CASE Accessing!Refused(c, v) -> "idle"
                         [] ~Accessing!Refused(c, v) /\ Accessing!Selects -> "select"
                         [] OTHER -> Accessing!FirstTransfer(c)
          /\ failed' = {} /\ UNCHANGED <<op, bank>>
          /\ reg_call # "none" => c = "get"
      BY <1>4 DEF Accessing!Call
    <2>2. Accessing!Refused(c, v) => bank = "user"
      BY <2>1 DEF Accessing!Refused
    <2>3. Accessing!Refused(reg_call, value)' = Accessing!Refused(c, v)
      BY <2>1 DEF Accessing!Refused
    <2>4. Accessing!Paged' = Accessing!Paged /\ Accessing!Selects' = Accessing!Selects
      BY <2>1 DEF Accessing!Paged, Accessing!Selects
    <2>5. Accessing!Refused(c, v) \in BOOLEAN
      BY DEF Accessing!Refused
    <2>6. CASE Accessing!Refused(c, v)
      BY <2>1, <2>2, <2>3, <2>4, <2>6 DEF Accessing!BankRestored, Accessing!Returned
    <2>7. CASE ~Accessing!Refused(c, v)
      <3>1. reg_pc' \in {"select", "read", "write"} /\ (reg_pc' = "select" => Accessing!Selects)
        BY <1>2, <2>1, <2>7
      <3> QED
        BY <2>1, <2>3, <2>4, <2>7, <3>1 DEF Accessing!BankRestored, Accessing!Returned
    <2> QED
      BY <2>6, <2>7
  <1>5. ASSUME Accessing!Select \/ Accessing!Read \/ Accessing!Write \/ Accessing!Restore
        PROVE  RegistersInv'
    <2>1. /\ UNCHANGED <<op, reg_call, value>> /\ reg_pc # "idle" /\ reg_call \in {"set", "get"}
      BY <1>5 DEF Accessing!Select, Accessing!Read, Accessing!Write, Accessing!Restore
    <2>2. /\ Accessing!Paged' = Accessing!Paged /\ Accessing!Selects' = Accessing!Selects
          /\ Accessing!Refused(reg_call, value)' = Accessing!Refused(reg_call, value)
      BY <2>1 DEF Accessing!Paged, Accessing!Selects, Accessing!Refused
    <2>3. Accessing!Selects <=> op.bank.name \in {"embedded", "hub"}
      BY DEF Accessing!Selects
    <2>4. Accessing!Paged <=> op.bank.name = "paged"
      BY DEF Accessing!Paged
    <2>5. \/ ret' = ret /\ failed' = failed
          \/ ret' = FALSE /\ failed' # {}
      BY <1>1, <1>5 DEF Accessing!Select, Accessing!Read, Accessing!Write, Accessing!Restore
    <2>6. /\ op' \in AllAccessors /\ ret' \in BOOLEAN /\ reg_call' \in {"set", "get"}
          /\ ret' <=> failed' = {} /\ ~Accessing!Refused(reg_call, value)'
      <3>1. ret <=> failed = {} /\ ~Accessing!Refused(reg_call, value)
        BY <2>1
      <3>2. ret' \in BOOLEAN
        BY <2>5
      <3>3. ret' <=> failed' = {} /\ ~Accessing!Refused(reg_call, value)'
        BY <2>2, <2>5, <3>1
      <3> QED
        BY <2>1, <3>2, <3>3
    <2> DEFINE Moved ==
          /\ bank' \in Accessing!Banks
          /\ reg_pc' \in {"idle", "read", "write", "restore"}
          /\ reg_pc' = "restore" => Accessing!Selects
          /\ ~Accessing!Selects /\ ~Accessing!Paged => bank' = "user"
          /\ reg_pc' = "idle" /\ bank' # "user" =>
                /\ ~ret'
                /\ op.bank.restores => Accessing!Paged \/ failed' \cap {"select", "restore"} # {}
    <2>7. Moved => RegistersInv'
      BY <2>1, <2>2, <2>6 DEF Accessing!BankRestored, Accessing!Returned
    <2>8. CASE Accessing!Select
      <3>1. Accessing!Selects /\ op.bank.name \in Accessing!Banks
            /\ op.unselected[reg_call] \in {"idle", "read", "restore"}
        BY <1>1, <2>1, <2>8 DEF Accessing!Select
      <3>2. CASE /\ bank' = op.bank.name
                 /\ reg_pc' = Accessing!FirstTransfer(reg_call)
        BY <1>2, <2>7, <3>1, <3>2
      <3>3. CASE /\ bank' \in {bank, op.bank.name} /\ ret' = FALSE
                 /\ failed' = failed \cup {"select"}
                 /\ reg_pc' = IF op.unselected[reg_call] = "read"
                              THEN Accessing!FirstTransfer(reg_call) ELSE op.unselected[reg_call]
        <4>1. reg_pc' \in {"idle", "read", "write", "restore"}
          BY <1>2, <3>1, <3>3
        <4> QED
          BY <2>7, <3>1, <3>3, <4>1
      <3> QED
        BY <2>8, <3>2, <3>3 DEF Accessing!Select
    <2>9. CASE Accessing!Read \/ Accessing!Write
      <3>1. /\ \/ bank' = IF Accessing!Paged THEN "user" ELSE bank
               \/ ret' = FALSE /\ (bank' = bank \/ (Accessing!Paged /\ bank' = "embedded"))
            /\ (reg_pc' = "write" \/ reg_pc' = Accessing!Finish(ret'))
        BY <2>9 DEF Accessing!Read, Accessing!Write
      <3>2. reg_pc' \in {"idle", "write", "restore"} /\ (reg_pc' = "restore" => Accessing!Selects)
        BY <1>3, <3>1
      <3>3. bank' \in Accessing!Banks
            /\ (~Accessing!Selects /\ ~Accessing!Paged => bank' = "user")
        BY <3>1 DEF Accessing!Banks
      <3>4. reg_pc' = "idle" /\ bank' # "user" =>
              ~ret' /\ (op.bank.restores => Accessing!Paged)
        BY <1>3, <2>3, <2>4, <2>6, <3>1
      <3> QED
        BY <2>7, <3>2, <3>3, <3>4
    <2>10. CASE Accessing!Restore
      <3>1. /\ reg_pc' = "idle"
            /\ \/ bank' = "user"
               \/ bank' \in {bank, "user"} /\ ret' = FALSE /\ failed' = failed \cup {"restore"}
        BY <2>10 DEF Accessing!Restore
      <3>2. bank' \in Accessing!Banks /\ Accessing!Selects
        BY <2>10, <3>1 DEF Accessing!Banks, Accessing!Restore
      <3> QED
        BY <2>7, <3>1, <3>2
    <2> QED
      BY <1>5, <2>8, <2>9, <2>10
  <1>6. CASE UNCHANGED registersVars
    BY <1>6 DEF registersVars, Accessing!Paged, Accessing!Selects, Accessing!Refused,
      Accessing!BankRestored, Accessing!Returned
  <1> QED
    BY <1>4, <1>5, <1>6 DEF Accessing!Next

(* A call returns 0 exactly when no transfer failed and its argument was   *)
(* not refused, and a bank that is not the user's is left selected only by *)
(* a call that failed, of a driver that does not clean up or in a selection *)
(* itself: for every table of accessors, of any registers and fields, whose *)
(* functions keep their status.                                            *)
THEOREM FailuresAreMet == NoneForgets => (DevicesSpec => []FailuresMet)
  <1> SUFFICES ASSUME NoneForgets PROVE DevicesSpec => []FailuresMet
    OBVIOUS
  <1> DEFINE I == part = "registers" => RegistersInv
  <1>1. DevicesInit => I
    BY RegistersInit
  <1>2. I /\ [DevicesNext]_allVars => I'
    <2> SUFFICES ASSUME I, [DevicesNext]_allVars, part' = "registers" PROVE RegistersInv'
      OBVIOUS
    <2>1. part = "registers"
      BY DEF DevicesNext, allVars
    <2> QED
      BY <2>1, RegistersNext, RegistersStep
  <1>3. I => FailuresMet
    BY DEF RegistersInv, FailuresMet, Accessing!NoFailureHidden, Accessing!Returned
  <1> QED
    BY <1>1, <1>2, <1>3, PTL DEF DevicesSpec

-------------------------------------------------------------------------------
(***************************************************************************)
(* The data rates.                                                          *)
(***************************************************************************)
RateTypes ==
  /\ chip \in {"LSM6DSO", "LSM6DSV"}
  /\ odr \in [Rating!Sensors -> Nat] /\ asked \in [Rating!Sensors -> Rates[chip] \cup {None}]
  /\ haodr_sel \in Nat /\ fsm_enable \in BOOLEAN /\ fsm_odr \in Nat
  /\ covered \subseteq Rating!Sensors

(* An LSM6DSV sensor's field holds the low half of the rate asked for.     *)
RateStored ==
  chip = "LSM6DSV" =>
    \A s \in Rating!Sensors :
      odr[s] \in 0 .. 12 /\ (asked[s] # None => odr[s] = asked[s] % 16)

RatesInv == RateTypes /\ Rating!FsmRateMet /\ RateStored

LEMMA RatesInit == DevicesInit => RatesInv
  <1> SUFFICES ASSUME Rating!Init PROVE RatesInv
    BY DEF DevicesInit
  <1>1. RateTypes
    BY DEF Rating!Init, RateTypes
  <1>2. RateStored
    BY DEF Rating!Init, RateStored
  <1>3. Rating!FsmRateMet
    BY DEF Rating!Init, Rating!FsmRateMet
  <1> QED
    BY <1>1, <1>2, <1>3 DEF RatesInv

LEMMA RatesNext ==
  ASSUME part = "rates", [DevicesNext]_allVars
  PROVE  part' = part /\ [Rating!Next]_ratesVars
  BY DEF DevicesNext, allVars

(* The rate stored is at least that asked for, and above the machines'.    *)
LEMMA RaisedEnough ==
  ASSUME NEW val \in Nat, fsm_odr \in Nat, fsm_enable \in BOOLEAN
  PROVE  /\ Rating!Raised(val) \in Nat /\ Rating!Raised(val) >= val
         /\ fsm_enable => Rating!Raised(val) > fsm_odr
  BY DEF Rating!Raised

LEMMA RatesStep ==
  ASSUME RatesInv, [Rating!Next]_ratesVars
  PROVE  RatesInv'
  <1> USE DEF RatesInv, RateTypes
  <1>1. CASE Rating!fsm_enable_set \/ Rating!fsm_data_rate_set
    BY <1>1 DEF Rating!fsm_enable_set, Rating!fsm_data_rate_set, Rating!FsmRates,
      Rating!FsmRateMet, RateStored
  <1>2. ASSUME NEW s \in Rating!Sensors, NEW val \in Rates[chip],
               Rating!lsm6dso_data_rate_set(s, val)
        PROVE  RatesInv'
    <2> DEFINE up == Rating!Raised(val)
    <2>1. val \in Nat
      BY <1>2, DevicesAssumption DEF Rating!RatesAssumption, Rating!lsm6dso_data_rate_set
    <2>2. up \in Nat /\ up >= val /\ (fsm_enable => up > fsm_odr)
      BY <2>1, RaisedEnough
    <2>3. /\ chip = "LSM6DSO" /\ UNCHANGED <<chip, haodr_sel, fsm_enable, fsm_odr>>
          /\ \/ odr' = [odr EXCEPT ![s] = up] /\ asked' = [asked EXCEPT ![s] = val]
                /\ covered' = covered \cup {s}
             \/ odr' \in {odr, [odr EXCEPT ![s] = up]} /\ asked' = [asked EXCEPT ![s] = None]
                /\ covered' = covered
      BY <1>2 DEF Rating!lsm6dso_data_rate_set
    <2> HIDE DEF up
    <2>4. RateTypes'
      BY <2>2, <2>3
    <2>5. Rating!FsmRateMet'
      BY <2>2, <2>3 DEF Rating!FsmRateMet
    <2> QED
      BY <2>3, <2>4, <2>5 DEF RateStored
  <1>3. ASSUME NEW s \in Rating!Sensors, NEW val \in Rates[chip],
               Rating!lsm6dsv_data_rate_set(s, val)
        PROVE  RatesInv'
    <2> DEFINE family == IF val \div 16 # 0 THEN val \div 16 ELSE haodr_sel
               low == val % 16
    <2>1. /\ chip = "LSM6DSV" /\ UNCHANGED <<chip, fsm_enable, fsm_odr, covered>>
          /\ odr' \in {odr, [odr EXCEPT ![s] = low]} /\ haodr_sel' \in {haodr_sel, family}
          /\ \/ asked' = [asked EXCEPT ![s] = val] /\ odr' = [odr EXCEPT ![s] = low]
             \/ asked' = [asked EXCEPT ![s] = None]
      BY <1>3 DEF Rating!lsm6dsv_data_rate_set
    <2>2. val \in Nat /\ low \in 0 .. 12
      BY <2>1, DevicesAssumption DEF Rating!RatesAssumption
    <2>3. family \in Nat
      BY <2>2
    <2>4. low = val % 16
      OBVIOUS
    <2> HIDE DEF family, low
    <2>5. RateTypes'
      BY <2>1, <2>2, <2>3
    <2>6. RateStored'
      BY <2>1, <2>2, <2>4 DEF RateStored
    <2> QED
      BY <2>1, <2>5, <2>6 DEF Rating!FsmRateMet
  <1>4. CASE UNCHANGED ratesVars
    BY <1>4 DEF ratesVars, Rating!FsmRateMet, RateStored
  <1> QED
    BY <1>1, <1>2, <1>3, <1>4 DEF Rating!Next

(* Whatever rates are asked for and whichever calls fail: a sensor of the  *)
(* LSM6DSO whose rate was set after the state machines' runs as fast as    *)
(* asked and faster than they do; the rate the LSM6DSV reports is, but for *)
(* its family, the last asked for of that sensor.                          *)
THEOREM RatesAreMet == DevicesSpec => []RatesMet
  <1> DEFINE I == part = "rates" => RatesInv
  <1>1. DevicesInit => I
    BY RatesInit
  <1>2. I /\ [DevicesNext]_allVars => I'
    <2> SUFFICES ASSUME I, [DevicesNext]_allVars, part' = "rates" PROVE RatesInv'
      OBVIOUS
    <2>1. part = "rates"
      BY DEF DevicesNext, allVars
    <2> QED
      BY <2>1, RatesNext, RatesStep
  <1>3. I => RatesMet
    <2> SUFFICES ASSUME RatesInv PROVE Rating!OnlyFamilyShared
      BY DEF RatesMet, Rating!RatesMet, RatesInv
    <2> SUFFICES ASSUME chip = "LSM6DSV", NEW s \in Rating!Sensors, asked[s] # None
                 PROVE  Rating!lsm6dsv_data_rate_get(s) % 16 = asked[s] % 16
      BY DEF Rating!OnlyFamilyShared
    <2>1. odr[s] \in 0 .. 12 /\ odr[s] = asked[s] % 16 /\ haodr_sel \in Nat
      BY DEF RatesInv, RateTypes, RateStored
    <2>2. Rating!lsm6dsv_data_rate_get(s) \in {16 + odr[s], 32 + odr[s], odr[s]}
      BY <2>1 DEF Rating!lsm6dsv_data_rate_get
    <2>3. \A k \in 0 .. 12 : (16 + k) % 16 = k /\ (32 + k) % 16 = k /\ k % 16 = k
      OBVIOUS
    <2> QED
      BY <2>1, <2>2, <2>3
  <1> QED
    BY <1>1, <1>2, <1>3, PTL DEF DevicesSpec

-------------------------------------------------------------------------------
(***************************************************************************)
(* The events and sensors of the sensor object.                             *)
(***************************************************************************)
(* The steps of the object's functions, one after another.                  *)
SensorIsFunction == sensor = [f \in DOMAIN sensor |-> sensor[f]]
SensorStages(steps, n, e) ==
  /\ e[0] = sensor
  /\ \A k \in 1..n : e[k] = [e[k - 1] EXCEPT ![steps[k].field] = steps[k].value]
  /\ Sensing!After(steps) = e[n]

LEMMA AfterStages ==
  ASSUME NEW steps, NEW n \in Nat, DOMAIN steps = 1..n, SensorIsFunction
  PROVE  \E e : SensorStages(steps, n, e)
  <1> DEFINE W == {sensor[f] : f \in DOMAIN sensor} \cup {steps[k].value : k \in 1..n}
             V == [DOMAIN sensor -> W]
             g == [p \in (1..n) \X V |-> [p[2] EXCEPT ![steps[p[1]].field] = steps[p[1]].value]]
             Fold(iter) == iter = [s \in SUBSET (DOMAIN steps) |->
                               IF s = {} THEN sensor
                               ELSE [iter[s \ {Top(s)}] EXCEPT
                                        ![steps[Top(s)].field] = steps[Top(s)].value]]
             J == CHOOSE iter : Fold(iter)
  <1>1. sensor \in V
    BY DEF SensorIsFunction
  <1>2. g \in [(1..n) \X V -> V]
    OBVIOUS
  <1>3. PICK it \in [SUBSET (1..n) -> V] : Folds(n, sensor, g, it)
    <2> HIDE DEF g, V
    <2> QED
      BY <1>1, <1>2, FoldDefined
  <1>4. Fold(it)
    <2>1. ASSUME NEW s \in SUBSET (1..n), s # {}
          PROVE  it[s] = [it[s \ {Top(s)}] EXCEPT ![steps[Top(s)].field] = steps[Top(s)].value]
      <3>1. Top(s) \in 1..n
        BY <2>1, TopIn
      <3>2. it[s \ {Top(s)}] \in V
        OBVIOUS
      <3>3. it[s] = g[<<Top(s), it[s \ {Top(s)}]>>]
        BY <1>3, <2>1 DEF Folds
      <3> HIDE DEF V
      <3> QED
        BY <3>1, <3>2, <3>3
    <2>2. it[{}] = sensor
      BY <1>3 DEF Folds
    <2>3. \A s \in SUBSET (1..n) : it[s] = IF s = {} THEN sensor
                               ELSE [it[s \ {Top(s)}] EXCEPT
                                        ![steps[Top(s)].field] = steps[Top(s)].value]
      BY <2>1, <2>2
    <2> HIDE DEF V
    <2> QED
      BY <2>3
  <1>5. Fold(J)
    <2> HIDE DEF Fold
    <2> QED
      BY <1>4
  <1>6. Sensing!After(steps) = J[1..n]
    BY DEF Sensing!After, Sensing!FoldLeft, Sensing!MapThenFoldSet, Sensing!Max, Top
  <1> HIDE DEF J
  <1>7. J[1..0] = sensor
    <2>1. 1..0 = {} /\ {} \in SUBSET (1..n)
      OBVIOUS
    <2> QED
      BY <1>5, <2>1
  <1>8. ASSUME NEW k \in 1..n
        PROVE  J[1..k] = [J[1..(k - 1)] EXCEPT ![steps[k].field] = steps[k].value]
    <2>1. 1..k \in SUBSET (1..n) /\ 1..k # {}
      <3>1. k \in 1..k /\ \A i \in 1..k : i \in 1..n
        OBVIOUS
      <3> QED
        BY <3>1
    <2>2. Top(1..k) = k
      <3>1. k \in 1..k /\ \A y \in 1..k : k >= y
        OBVIOUS
      <3> QED
        BY <2>1, <3>1, TopIs
    <2>3. (1..k) \ {k} = 1..(k - 1)
      OBVIOUS
    <2> QED
      BY <1>5, <2>1, <2>2, <2>3
  <1> DEFINE e == [k \in 0..n |-> J[1..k]]
  <1>9. e[0] = sensor /\ \A k \in 1..n :
             e[k] = [e[k - 1] EXCEPT ![steps[k].field] = steps[k].value]
    <2>1. \A k \in 1..n : k \in 0..n /\ k - 1 \in 0..n
      OBVIOUS
    <2>2. 0 \in 0..n
      OBVIOUS
    <2> QED
      BY <1>7, <1>8, <2>1, <2>2
  <1>10. Sensing!After(steps) = e[n]
    BY <1>6
  <1> HIDE DEF e
  <1> QED
    BY <1>9, <1>10 DEF SensorStages

(* A sequence of steps; one whose steps that write a field write a value of  *)
(* a set, and one that ends with the field in that set.                     *)
IsSteps(s) == \E n \in Nat : s \in [1..n -> {s[k] : k \in 1..n}]
Keeps(s, f, A) ==
  \A k \in DOMAIN s : s[k].field = f => s[k].value \in A /\ s[k].wrong \subseteq A
Untouched(s, f) == \A k \in DOMAIN s : s[k].field # f
EndsIn(s, f, A) ==
  \E k \in DOMAIN s :
     /\ s[k].field = f
     /\ \A j \in DOMAIN s : k <= j /\ s[j].field = f => s[j].value \in A

LEMMA StepsConcat ==
  ASSUME NEW s, NEW t, IsSteps(s), IsSteps(t)
  PROVE  /\ IsSteps(s \o t)
         /\ \A k \in DOMAIN (s \o t) : \/ k \in DOMAIN s /\ (s \o t)[k] = s[k]
                                       \/ k - Len(s) \in DOMAIN t /\ (s \o t)[k] = t[k - Len(s)]
         /\ DOMAIN s = 1..Len(s) /\ DOMAIN t = 1..Len(t) /\ Len(s) \in Nat /\ Len(t) \in Nat
         /\ DOMAIN (s \o t) = 1..(Len(s) + Len(t))
         /\ \A k \in DOMAIN s : (s \o t)[k] = s[k]
         /\ \A k \in DOMAIN t : (s \o t)[Len(s) + k] = t[k]
  <1>1. PICK n \in Nat : s \in [1..n -> {s[k] : k \in 1..n}]
    BY DEF IsSteps
  <1>2. PICK m \in Nat : t \in [1..m -> {t[k] : k \in 1..m}]
    BY DEF IsSteps
  <1> DEFINE U == {s[k] : k \in 1..n} \cup {t[k] : k \in 1..m}
  <1>3. s \in Seq(U) /\ Len(s) = n
    BY <1>1
  <1>4. t \in Seq(U) /\ Len(t) = m
    BY <1>2
  <1> DEFINE u == s \o t
  <1>5. /\ u \in Seq(U) /\ Len(u) = n + m
        /\ \A k \in 1..(n + m) : u[k] = IF k <= n THEN s[k] ELSE t[k - n]
    <2> HIDE DEF U
    <2> QED
      BY <1>3, <1>4
  <1>6. DOMAIN u = 1..(n + m)
    <2> HIDE DEF u, U
    <2> QED
      BY <1>5
  <1>7. u \in [1..(n + m) -> {u[k] : k \in 1..(n + m)}]
    <2> HIDE DEF u, U
    <2> QED
      BY <1>5, <1>6
  <1> HIDE DEF u
  <1>8. IsSteps(u)
    BY <1>7 DEF IsSteps
  <1>9. DOMAIN s = 1..n /\ DOMAIN t = 1..m
    BY <1>1, <1>2
  <1> QED
    BY <1>3, <1>4, <1>5, <1>6, <1>8, <1>9 DEF u

LEMMA KeepsConcat ==
  ASSUME NEW s, NEW t, IsSteps(s), IsSteps(t), NEW f, NEW A, Keeps(s, f, A), Keeps(t, f, A)
  PROVE  Keeps(s \o t, f, A)
  <1> DEFINE u == s \o t
  <1>1. \A k \in DOMAIN u : \/ k \in DOMAIN s /\ u[k] = s[k]
                            \/ k - Len(s) \in DOMAIN t /\ u[k] = t[k - Len(s)]
    BY StepsConcat
  <1> HIDE DEF u
  <1>2. Keeps(u, f, A)
    BY <1>1 DEF Keeps
  <1> QED
    BY <1>2 DEF u

LEMMA UntouchedConcat ==
  ASSUME NEW s, NEW t, IsSteps(s), IsSteps(t), NEW f, Untouched(s, f), Untouched(t, f)
  PROVE  Untouched(s \o t, f)
  BY StepsConcat DEF Untouched

LEMMA UntouchedKeeps ==
  ASSUME NEW s, NEW f, NEW A, Untouched(s, f)
  PROVE  Keeps(s, f, A)
  BY DEF Untouched, Keeps

LEMMA EndsConcat ==
  ASSUME NEW s, NEW t, IsSteps(s), IsSteps(t), NEW f, NEW A
  PROVE  /\ EndsIn(t, f, A) => EndsIn(s \o t, f, A)
         /\ EndsIn(s, f, A) /\ Keeps(t, f, A) => EndsIn(s \o t, f, A)
  <1> DEFINE u == s \o t
  <1>1. /\ \A k \in DOMAIN u : \/ k \in DOMAIN s /\ u[k] = s[k]
                               \/ k - Len(s) \in DOMAIN t /\ u[k] = t[k - Len(s)]
        /\ DOMAIN s = 1..Len(s) /\ DOMAIN t = 1..Len(t) /\ Len(s) \in Nat /\ Len(t) \in Nat
        /\ DOMAIN u = 1..(Len(s) + Len(t))
        /\ \A k \in DOMAIN s : u[k] = s[k]
        /\ \A k \in DOMAIN t : u[Len(s) + k] = t[k]
    BY StepsConcat
  <1> HIDE DEF u
  <1>2. ASSUME EndsIn(t, f, A) PROVE EndsIn(u, f, A)
    <2>1. PICK k \in DOMAIN t :
             /\ t[k].field = f
             /\ \A j \in DOMAIN t : k <= j /\ t[j].field = f => t[j].value \in A
      BY <1>2 DEF EndsIn
    <2>2. Len(s) + k \in DOMAIN u /\ u[Len(s) + k].field = f
      BY <1>1, <2>1
    <2>3. ASSUME NEW j \in DOMAIN u, Len(s) + k <= j, u[j].field = f PROVE u[j].value \in A
      <3>1. j - Len(s) \in DOMAIN t /\ u[j] = t[j - Len(s)] /\ k <= j - Len(s)
        BY <1>1, <2>3
      <3> QED
        BY <2>1, <2>3, <3>1
    <2> QED
      BY <2>2, <2>3 DEF EndsIn
  <1>3. ASSUME EndsIn(s, f, A), Keeps(t, f, A) PROVE EndsIn(u, f, A)
    <2>1. PICK k \in DOMAIN s :
             /\ s[k].field = f
             /\ \A j \in DOMAIN s : k <= j /\ s[j].field = f => s[j].value \in A
      BY <1>3 DEF EndsIn
    <2>2. k \in DOMAIN u /\ u[k].field = f
      BY <1>1, <2>1
    <2>3. ASSUME NEW j \in DOMAIN u, k <= j, u[j].field = f PROVE u[j].value \in A
      BY <1>1, <1>3, <2>1, <2>3 DEF Keeps
    <2> QED
      BY <2>2, <2>3 DEF EndsIn
  <1> QED
    BY <1>2, <1>3 DEF u

(* What the steps leave in a field.                                         *)
LEMMA FieldAfter ==
  ASSUME NEW s, IsSteps(s), SensorIsFunction
  PROVE  LET a == Sensing!After(s)
         IN  /\ DOMAIN a = DOMAIN sensor
             /\ a = [f \in DOMAIN sensor |-> a[f]]
             /\ \A f \in DOMAIN sensor : \A A : sensor[f] \in A /\ Keeps(s, f, A) => a[f] \in A
             /\ \A f \in DOMAIN sensor : \A A : EndsIn(s, f, A) => a[f] \in A
  <1>1. PICK n \in Nat : s \in [1..n -> {s[k] : k \in 1..n}]
    BY DEF IsSteps
  <1>2. DOMAIN s = 1..n
    BY <1>1
  <1>3. PICK e : SensorStages(s, n, e)
    BY <1>2, AfterStages
  <1> DEFINE Shape(k) == DOMAIN e[k] = DOMAIN sensor /\ e[k] = [f \in DOMAIN sensor |-> e[k][f]]
  <1>4. Shape(0)
    BY <1>3 DEF SensorIsFunction, SensorStages
  <1>5. ASSUME NEW k \in Nat, k + 1 \in 1..n, Shape(k) PROVE Shape(k + 1)
    <2>1. e[k + 1] = [e[k] EXCEPT ![s[k + 1].field] = s[k + 1].value]
      BY <1>3, <1>5 DEF SensorStages
    <2> QED
      BY <1>5, <2>1
  <1> HIDE DEF Shape
  <1> DEFINE S == {k \in Nat : k <= n => Shape(k)}
  <1>6. 0 \in S /\ \A k \in Nat : k \in S => k + 1 \in S
    BY <1>4, <1>5
  <1>7. \A k \in 0..n : Shape(k)
    <2> HIDE DEF S
    <2>1. \A k \in Nat : k \in S
      BY <1>6, NatSetInduction
    <2> USE DEF S
    <2> QED
      BY <2>1
  <1>8. ASSUME NEW k \in 1..n, NEW f \in DOMAIN sensor
        PROVE  e[k][f] = IF s[k].field = f THEN s[k].value ELSE e[k - 1][f]
    <2>1. k - 1 \in 0..n
      OBVIOUS
    <2> QED
      BY <1>3, <1>7, <1>8, <2>1 DEF Shape, SensorStages
  <1>9. ASSUME NEW f \in DOMAIN sensor, NEW A, NEW m \in 0..n, e[m][f] \in A,
               \A k \in (m + 1)..n : s[k].field = f => s[k].value \in A
        PROVE  e[n][f] \in A
    <2> DEFINE T == {k \in Nat : m <= k /\ k <= n => e[k][f] \in A}
    <2>1. 0 \in T
      BY <1>9
    <2>2. ASSUME NEW k \in Nat, k \in T PROVE k + 1 \in T
      <3> SUFFICES ASSUME m <= k + 1, k + 1 <= n PROVE e[k + 1][f] \in A
        OBVIOUS
      <3>1. CASE m = k + 1
        BY <1>9, <3>1
      <3>2. CASE m <= k
        <4>1. e[k][f] \in A /\ k + 1 \in 1..n /\ k + 1 \in (m + 1)..n /\ (k + 1) - 1 = k
          BY <2>2, <3>2
        <4> QED
          BY <1>8, <1>9, <4>1
      <3> QED
        BY <3>1, <3>2
    <2> HIDE DEF T
    <2>3. n \in T
      BY <2>1, <2>2, NatSetInduction
    <2> USE DEF T
    <2> QED
      BY <2>3
  <1>10. \A f \in DOMAIN sensor : \A A : sensor[f] \in A /\ Keeps(s, f, A) => e[n][f] \in A
    BY <1>2, <1>3, <1>9 DEF Keeps, SensorStages
  <1>11. ASSUME NEW f \in DOMAIN sensor, NEW A, EndsIn(s, f, A) PROVE e[n][f] \in A
    <2>1. PICK k \in 1..n : /\ s[k].field = f
                            /\ \A j \in 1..n : k <= j /\ s[j].field = f => s[j].value \in A
      BY <1>2, <1>11 DEF EndsIn
    <2>2. e[k][f] \in A /\ k \in 0..n
      BY <1>8, <2>1
    <2>3. \A j \in (k + 1)..n : s[j].field = f => s[j].value \in A
      BY <2>1
    <2> QED
      BY <1>9, <2>2, <2>3
  <1>12. Shape(n)
    BY <1>7
  <1> QED
    BY <1>3, <1>10, <1>11, <1>12 DEF Shape, SensorStages

(* The step at which a call fails, and what was done before it.              *)
LEMMA FailsAt ==
  ASSUME NEW s, IsSteps(s), NEW b \in Sensing!Failing(s)
  PROVE  \E k \in DOMAIN s : \E u, v :
           /\ IsSteps(u) /\ DOMAIN u = 1..(k - 1) /\ \A j \in 1..(k - 1) : u[j] = s[j]
           /\ v \in s[k].wrong \cup (IF s[k].bus THEN {Sensing!After(u)[s[k].field]} ELSE {})
           /\ b = [Sensing!After(u) EXCEPT ![s[k].field] = v]
  <1>1. PICK n \in Nat : s \in [1..n -> {s[k] : k \in 1..n}]
    BY DEF IsSteps
  <1>2. DOMAIN s = 1..n
    BY <1>1
  <1> DEFINE a(k) == Sensing!After(SubSeq(s, 1, k - 1))
  <1>3. PICK k \in 1..n : \E v \in s[k].wrong \cup (IF s[k].bus THEN {a(k)[s[k].field]} ELSE {}) :
                 b = [a(k) EXCEPT ![s[k].field] = v]
    <2>1. PICK k \in DOMAIN s :
             b \in {[a(k) EXCEPT ![s[k].field] = v] :
                     v \in s[k].wrong \cup (IF s[k].bus THEN {a(k)[s[k].field]} ELSE {})}
      BY DEF Sensing!Failing
    <2> QED
      BY <1>2, <2>1, Zenon
  <1>4. PICK v \in s[k].wrong \cup (IF s[k].bus THEN {a(k)[s[k].field]} ELSE {}) :
                 b = [a(k) EXCEPT ![s[k].field] = v]
    BY <1>3, Zenon
  <1> DEFINE u == SubSeq(s, 1, k - 1)
  <1>5. DOMAIN u = 1..(k - 1) /\ \A j \in 1..(k - 1) : u[j] = s[j]
    <2>1. s \in Seq({s[j] : j \in 1..n})
      BY <1>1
    <2>2. Len(s) = n
      BY <1>1
    <2> QED
      BY <2>1, <2>2
  <1>6. u \in [1..(k - 1) -> {u[j] : j \in 1..(k - 1)}]
    <2>1. s \in Seq({s[j] : j \in 1..n})
      BY <1>1
    <2>2. Len(s) = n
      BY <1>1
    <2>3. u \in Seq({s[j] : j \in 1..n})
      BY <2>1, <2>2
    <2>4. Len(u) = k - 1
      BY <2>1, <2>2
    <2> HIDE DEF u
    <2> QED
      BY <1>5, <2>3, <2>4
  <1>7. IsSteps(u)
    <2>1. k - 1 \in Nat
      OBVIOUS
    <2> HIDE DEF u
    <2> QED
      BY <1>6, <2>1 DEF IsSteps
  <1> QED
    BY <1>2, <1>4, <1>5, <1>7

LEMMA FieldFailing ==
  ASSUME NEW s, IsSteps(s), SensorIsFunction, NEW b \in Sensing!Failing(s)
  PROVE  /\ DOMAIN b = DOMAIN sensor
         /\ b = [f \in DOMAIN sensor |-> b[f]]
         /\ \A f \in DOMAIN sensor : \A A : sensor[f] \in A /\ Keeps(s, f, A) => b[f] \in A
  <1>1. PICK k \in DOMAIN s : \E u, v :
           /\ IsSteps(u) /\ DOMAIN u = 1..(k - 1) /\ \A j \in 1..(k - 1) : u[j] = s[j]
           /\ v \in s[k].wrong \cup (IF s[k].bus THEN {Sensing!After(u)[s[k].field]} ELSE {})
           /\ b = [Sensing!After(u) EXCEPT ![s[k].field] = v]
    BY FailsAt
  <1>2. PICK u, v :
           /\ IsSteps(u) /\ DOMAIN u = 1..(k - 1) /\ \A j \in 1..(k - 1) : u[j] = s[j]
           /\ v \in s[k].wrong \cup (IF s[k].bus THEN {Sensing!After(u)[s[k].field]} ELSE {})
           /\ b = [Sensing!After(u) EXCEPT ![s[k].field] = v]
    BY <1>1
  <1>3. PICK n \in Nat : DOMAIN s = 1..n
    BY DEF IsSteps
  <1>8. ASSUME NEW f, NEW A, Keeps(s, f, A) PROVE Keeps(u, f, A)
    BY <1>2, <1>3, <1>8 DEF Keeps
  <1> DEFINE c == Sensing!After(u)
  <1>9. /\ DOMAIN c = DOMAIN sensor
        /\ c = [f \in DOMAIN sensor |-> c[f]]
        /\ \A f \in DOMAIN sensor : \A A : sensor[f] \in A /\ Keeps(u, f, A) => c[f] \in A
    BY <1>2, FieldAfter
  <1>10. v \in s[k].wrong \cup (IF s[k].bus THEN {c[s[k].field]} ELSE {})
         /\ b = [c EXCEPT ![s[k].field] = v]
    BY <1>2
  <1> HIDE DEF c
  <1>11. DOMAIN b = DOMAIN sensor /\ b = [f \in DOMAIN sensor |-> b[f]]
    BY <1>9, <1>10
  <1>12. ASSUME NEW f \in DOMAIN sensor, NEW A, sensor[f] \in A, Keeps(s, f, A) PROVE b[f] \in A
    <2>1. c[f] \in A
      BY <1>8, <1>9, <1>12
    <2>2. CASE s[k].field = f
      <3>1. s[k].wrong \subseteq A
        BY <1>12, <2>2 DEF Keeps
      <3>2. b[f] = v
        BY <1>9, <1>10, <2>2
      <3>3. v \in s[k].wrong \/ v = c[f]
        BY <1>10, <2>2
      <3> QED
        BY <2>1, <3>1, <3>2, <3>3
    <2>3. CASE s[k].field # f
      BY <1>9, <1>10, <2>1, <2>3
    <2> QED
      BY <2>2, <2>3
  <1> QED
    BY <1>11, <1>12

(* What the steps of a call leave, whether it returns 0 or fails.           *)
LEMMA FieldReturns ==
  ASSUME NEW s, IsSteps(s), SensorIsFunction, NEW ok \in BOOLEAN, Sensing!Returns(s, ok)
  PROVE  /\ DOMAIN sensor' = DOMAIN sensor
         /\ SensorIsFunction'
         /\ \A f \in DOMAIN sensor : \A A : sensor[f] \in A /\ Keeps(s, f, A) => sensor'[f] \in A
         /\ \A f \in DOMAIN sensor : \A A : ok /\ EndsIn(s, f, A) => sensor'[f] \in A
         /\ \A f \in DOMAIN sensor : Untouched(s, f) => sensor'[f] = sensor[f]
  <1>1. CASE ok /\ sensor' = Sensing!After(s)
    <2> DEFINE a == Sensing!After(s)
    <2>1. /\ DOMAIN a = DOMAIN sensor
          /\ a = [f \in DOMAIN sensor |-> a[f]]
          /\ \A f \in DOMAIN sensor : \A A : sensor[f] \in A /\ Keeps(s, f, A) => a[f] \in A
          /\ \A f \in DOMAIN sensor : \A A : EndsIn(s, f, A) => a[f] \in A
      BY FieldAfter
    <2>2. sensor' = a
      BY <1>1
    <2> HIDE DEF a
    <2>3. SensorIsFunction'
      BY <2>1, <2>2 DEF SensorIsFunction
    <2>4. ASSUME NEW f \in DOMAIN sensor, Untouched(s, f) PROVE a[f] = sensor[f]
      <3>1. Keeps(s, f, {sensor[f]})
        BY <2>4, UntouchedKeeps
      <3>2. a[f] \in {sensor[f]}
        BY <2>1, <3>1
      <3> QED
        BY <3>2
    <2> QED
      BY <2>1, <2>2, <2>3, <2>4
  <1>2. CASE ~ok /\ sensor' \in Sensing!Failing(s)
    <2> DEFINE b == sensor'
    <2>1. /\ DOMAIN b = DOMAIN sensor
          /\ b = [f \in DOMAIN sensor |-> b[f]]
          /\ \A f \in DOMAIN sensor : \A A : sensor[f] \in A /\ Keeps(s, f, A) => b[f] \in A
      BY <1>2, FieldFailing
    <2>3. SensorIsFunction'
      BY <2>1 DEF SensorIsFunction
    <2>4. ASSUME NEW f \in DOMAIN sensor, Untouched(s, f) PROVE b[f] = sensor[f]
      <3>1. Keeps(s, f, {sensor[f]})
        BY <2>4, UntouchedKeeps
      <3>2. b[f] \in {sensor[f]}
        BY <2>1, <3>1
      <3> QED
        BY <3>2
    <2> QED
      BY <1>2, <2>1, <2>3, <2>4
  <1> QED
    BY <1>1, <1>2 DEF Sensing!Returns

(* The fields of the object that rates, and those that events, are about.    *)
RateFields ==
  {"is_initialized", "acc_is_enabled", "gyro_is_enabled", "acc_odr", "gyro_odr", "odr_xl", "odr_g",
   "fs_xl", "fs_g", "xl_ulp_en", "xl_hm_mode", "g_hm_mode"}
RouteFields == {"int1", "int2", "emb_int1", "emb_int2", "interrupts_enable"}
ResetFields ==
  {"ff_dur", "ff_ths", "wake_dur", "sleep_dur", "wk_ths", "tap_x_en", "tap_y_en", "tap_z_en",
   "tap_ths_x", "shock", "quiet", "dur", "single_double_tap", "sixd_ths", "inact_en"}
EventFields == RouteFields \cup {"emb"} \cup ResetFields
OnlyRates(s) == IsSteps(s) /\ \A k \in DOMAIN s : s[k].field \in RateFields

LEMMA StepRecords ==
  \A f, v : /\ Sensing!Write(f, v).field = f /\ Sensing!Write(f, v).value = v
            /\ Sensing!Write(f, v).wrong = {v}
            /\ Sensing!WriteEmbedded(f, v).field = f /\ Sensing!WriteEmbedded(f, v).value = v
            /\ Sensing!WriteEmbedded(f, v).wrong = {}
            /\ Sensing!Assign(f, v).field = f /\ Sensing!Assign(f, v).value = v
            /\ Sensing!Assign(f, v).wrong = {}
            /\ Sensing!Read(f).field = f /\ Sensing!Read(f).value = sensor[f]
            /\ Sensing!Read(f).wrong = {}
  BY DEF Sensing!Write, Sensing!WriteEmbedded, Sensing!Assign, Sensing!Read

LEMMA ShortSteps ==
  /\ IsSteps(<<>>) /\ DOMAIN <<>> = {}
  /\ \A a : IsSteps(<<a>>) /\ DOMAIN <<a>> = {1}
  /\ \A a, b : IsSteps(<<a, b>>)
  /\ \A a, b, c : IsSteps(<<a, b, c>>)
  /\ \A a, b, c, d : IsSteps(<<a, b, c, d>>)
  <1>1. IsSteps(<<>>)
    <2>1. <<>> \in [1..0 -> {<<>>[k] : k \in 1..0}]
      OBVIOUS
    <2> QED
      BY <2>1 DEF IsSteps
  <1>2. ASSUME NEW a PROVE IsSteps(<<a>>)
    <2>1. <<a>> \in [1..1 -> {<<a>>[k] : k \in 1..1}]
      OBVIOUS
    <2> QED
      BY <2>1 DEF IsSteps
  <1>3. ASSUME NEW a, NEW b PROVE IsSteps(<<a, b>>)
    <2>1. <<a, b>> \in [1..2 -> {<<a, b>>[k] : k \in 1..2}]
      OBVIOUS
    <2> QED
      BY <2>1 DEF IsSteps
  <1>4. ASSUME NEW a, NEW b, NEW c PROVE IsSteps(<<a, b, c>>)
    <2>1. <<a, b, c>> \in [1..3 -> {<<a, b, c>>[k] : k \in 1..3}]
      OBVIOUS
    <2> QED
      BY <2>1 DEF IsSteps
  <1>5. ASSUME NEW a, NEW b, NEW c, NEW d PROVE IsSteps(<<a, b, c, d>>)
    <2>1. <<a, b, c, d>> \in [1..4 -> {<<a, b, c, d>>[k] : k \in 1..4}]
      OBVIOUS
    <2> QED
      BY <2>1 DEF IsSteps
  <1> QED
    BY <1>1, <1>2, <1>3, <1>4, <1>5

LEMMA OnlyRatesConcat ==
  ASSUME NEW s, NEW t, OnlyRates(s), OnlyRates(t)
  PROVE  OnlyRates(s \o t)
  <1> DEFINE u == s \o t
  <1>1. /\ IsSteps(u)
        /\ \A k \in DOMAIN u : \/ k \in DOMAIN s /\ u[k] = s[k]
                               \/ k - Len(s) \in DOMAIN t /\ u[k] = t[k - Len(s)]
    BY StepsConcat DEF OnlyRates
  <1> HIDE DEF u
  <1>2. OnlyRates(u)
    BY <1>1 DEF OnlyRates
  <1> QED
    BY <1>2 DEF u

LEMMA OnlyRatesShort ==
  /\ OnlyRates(<<>>)
  /\ \A a : a.field \in RateFields => OnlyRates(<<a>>)
  /\ \A a, b : a.field \in RateFields /\ b.field \in RateFields => OnlyRates(<<a, b>>)
  /\ \A a, b, c : a.field \in RateFields /\ b.field \in RateFields /\ c.field \in RateFields
        => OnlyRates(<<a, b, c>>)
  BY ShortSteps DEF OnlyRates

LEMMA RateStepsFields ==
  ASSUME NEW x \in {Sensing!acc, Sensing!gyro}
  PROVE  /\ OnlyRates(Sensing!EnableSteps(x))
         /\ OnlyRates(Sensing!DisableSteps(x))
         /\ \A odr_, mode_ : OnlyRates(Sensing!RateSteps(x, odr_, mode_))
  <1>1. /\ x.rate \in RateFields /\ x.odr \in RateFields /\ x.flag \in RateFields
        /\ Sensing!acc.rate \in RateFields
        /\ Sensing!gyro \in {Sensing!acc, Sensing!gyro}
    BY DEF Sensing!acc, Sensing!gyro, RateFields
  <1>2. OnlyRates(Sensing!EnableSteps(x))
    <2>1. /\ Sensing!Write(x.rate, sensor[x.odr]).field \in RateFields
          /\ Sensing!Assign(x.flag, TRUE).field \in RateFields
      BY <1>1 DEF Sensing!Write, Sensing!Assign
    <2>2. OnlyRates(<<Sensing!Write(x.rate, sensor[x.odr]), Sensing!Assign(x.flag, TRUE)>>)
      BY <2>1, OnlyRatesShort
    <2> QED
      BY <2>2, OnlyRatesShort DEF Sensing!EnableSteps
  <1>3. ASSUME NEW y \in {Sensing!acc, Sensing!gyro} PROVE OnlyRates(Sensing!DisableSteps(y))
    <2>1. y.rate \in RateFields /\ y.odr \in RateFields /\ y.flag \in RateFields
      BY DEF Sensing!acc, Sensing!gyro, RateFields
    <2>2. [Sensing!Write(y.odr, sensor[y.rate]) EXCEPT !.wrong = Unread].field = y.odr
      BY DEF Sensing!Write
    <2> DEFINE a == [Sensing!Write(y.odr, sensor[y.rate]) EXCEPT !.wrong = Unread]
               b == Sensing!Write(y.rate, Sensing!ODR_OFF)
               c == Sensing!Assign(y.flag, FALSE)
    <2>3. a.field \in RateFields /\ b.field \in RateFields /\ c.field \in RateFields
      BY <2>1 DEF Sensing!Write, Sensing!Assign
    <2>4. Sensing!DisableSteps(y) = IF ~sensor[y.flag] THEN <<>> ELSE <<a, b, c>>
      BY DEF Sensing!DisableSteps
    <2> HIDE DEF a, b, c
    <2> QED
      BY <2>3, <2>4, OnlyRatesShort
  <1>4. ASSUME NEW field, field \in RateFields, NEW v, NEW before, OnlyRates(before)
        PROVE  OnlyRates(Sensing!Change(field, v, before))
    <2>1. OnlyRates(<<Sensing!Read(field)>>) /\ OnlyRates(<<Sensing!Write(field, v)>>)
          /\ OnlyRates(<<>>)
      BY <1>4, OnlyRatesShort, StepRecords
    <2>2. OnlyRates(before \o <<Sensing!Write(field, v)>>)
      BY <1>4, <2>1, OnlyRatesConcat
    <2> DEFINE rest == IF sensor[field] = v THEN <<>> ELSE before \o <<Sensing!Write(field, v)>>
    <2>3. OnlyRates(rest)
      BY <2>1, <2>2
    <2>4. Sensing!Change(field, v, before) = <<Sensing!Read(field)>> \o rest
      BY DEF Sensing!Change
    <2> HIDE DEF rest
    <2> QED
      BY <2>1, <2>3, <2>4, OnlyRatesConcat
  <1>5. OnlyRates(Sensing!PowerOff) /\ OnlyRates(<<>>)
    BY <1>1, OnlyRatesShort, StepRecords DEF Sensing!PowerOff
  <1>6. \A odr_ : OnlyRates(Sensing!SetRate(x, odr_))
    BY <1>1, OnlyRatesShort, StepRecords DEF Sensing!SetRate
  <1>7. ASSUME NEW mode_ PROVE OnlyRates(Sensing!ModeSteps(x, mode_))
    <2>1. /\ "g_hm_mode" \in RateFields /\ "xl_hm_mode" \in RateFields
          /\ "xl_ulp_en" \in RateFields
      BY DEF RateFields
    <2>2. /\ \A v : OnlyRates(Sensing!Change("g_hm_mode", v, <<>>))
          /\ \A v : OnlyRates(Sensing!Change("xl_hm_mode", v, <<>>))
          /\ \A v : OnlyRates(Sensing!Change("xl_ulp_en", v, Sensing!PowerOff))
      <3>1. \A v : OnlyRates(Sensing!Change("g_hm_mode", v, <<>>))
        BY <1>4, <1>5, <2>1
      <3>2. \A v : OnlyRates(Sensing!Change("xl_hm_mode", v, <<>>))
        BY <1>4, <1>5, <2>1
      <3>3. \A v : OnlyRates(Sensing!Change("xl_ulp_en", v, Sensing!PowerOff))
        BY <1>4, <1>5, <2>1
      <3> QED
        BY <3>1, <3>2, <3>3
    <2>3. OnlyRates(Sensing!DisableSteps(Sensing!gyro))
      BY <1>1, <1>3
    <2>6. Sensing!acc # Sensing!gyro
      BY DEF Sensing!acc, Sensing!gyro
    <2>4. CASE x = Sensing!gyro
      BY <2>2, <2>4, <2>6 DEF Sensing!ModeSteps
    <2>5. CASE x = Sensing!acc
      <3>2. OnlyRates(Sensing!Change("xl_hm_mode", 0, <<>>) \o Sensing!DisableSteps(Sensing!gyro))
        BY <2>2, <2>3, OnlyRatesConcat
      <3>3. OnlyRates((Sensing!Change("xl_hm_mode", 0, <<>>) \o Sensing!DisableSteps(Sensing!gyro))
                      \o Sensing!Change("xl_ulp_en", 1, Sensing!PowerOff))
        BY <2>2, <3>2, OnlyRatesConcat
      <3>4. \A v : OnlyRates(Sensing!Change("xl_ulp_en", 0, Sensing!PowerOff)
                             \o Sensing!Change("xl_hm_mode", v, <<>>))
        BY <2>2, OnlyRatesConcat
      <3> QED
        BY <2>5, <2>6, <3>3, <3>4 DEF Sensing!ModeSteps
    <2> QED
      BY <2>4, <2>5
  <1>8. \A odr_, mode_ : OnlyRates(Sensing!RateSteps(x, odr_, mode_))
    BY <1>6, <1>7, OnlyRatesConcat DEF Sensing!RateSteps
  <1> QED
    BY <1>2, <1>3, <1>8

(* Signals: what may be routed in the pins' own registers; those of the      *)
(* embedded functions are routed in the embedded bank.                      *)
Basic == (Sensing!Events \ Sensing!EmbeddedEvents) \cup {"emb_func", "drdy_xl", "drdy_g"}
EmbRoute(pin, add, remove) ==
  (sensor[Sensing!Embedded(pin)] \ remove) \cup (add \cap Sensing!EmbeddedEvents)
PinRoute(pin, add, remove) ==
  (sensor[pin] \ (remove \cup {"emb_func"})) \cup (add \ Sensing!EmbeddedEvents)
     \cup (IF EmbRoute(pin, add, remove) = {} THEN {} ELSE {"emb_func"})
Enabled(pin, add, remove, earlier) ==
  Sensing!Interrupts(PinRoute(pin, add, remove), sensor[Sensing!Other(pin)] \ earlier)

LEMMA PinNames ==
  /\ Sensing!Pins = {"int1", "int2"}
  /\ Sensing!Other("int1") = "int2" /\ Sensing!Other("int2") = "int1"
  /\ Sensing!Embedded("int1") = "emb_int1" /\ Sensing!Embedded("int2") = "emb_int2"
  <1>1. Sensing!Pins = {"int1", "int2"} /\ "int1" # "int2"
    BY DEF Sensing!Pins
  <1>2. Sensing!Other("int1") = "int2"
    BY <1>1 DEF Sensing!Other
  <1>3. Sensing!Other("int2") = "int1"
    BY <1>1 DEF Sensing!Other
  <1> QED
    BY <1>1, <1>2, <1>3 DEF Sensing!Embedded

LEMMA RouteSteps ==
  ASSUME NEW pin \in Sensing!Pins, NEW add, NEW remove, NEW earlier
  PROVE  LET R == Sensing!Route(pin, add, remove, earlier)
             basic == PinRoute(pin, add, remove)
             emb == EmbRoute(pin, add, remove)
             enabled == Enabled(pin, add, remove, earlier)
         IN  /\ IsSteps(R)
             /\ Keeps(R, pin, {sensor[pin], basic}) /\ EndsIn(R, pin, {basic})
             /\ Keeps(R, Sensing!Embedded(pin), {emb})
             /\ EndsIn(R, Sensing!Embedded(pin), {emb})
             /\ Keeps(R, "interrupts_enable", {enabled})
             /\ EndsIn(R, "interrupts_enable", {enabled})
             /\ \A f : f \notin {pin, Sensing!Embedded(pin), "interrupts_enable"} => Untouched(R, f)
  <1> DEFINE R == Sensing!Route(pin, add, remove, earlier)
             basic == PinRoute(pin, add, remove)
             emb == EmbRoute(pin, add, remove)
             enabled == Enabled(pin, add, remove, earlier)
             a == Sensing!Read(pin)
             b == Sensing!WriteEmbedded(Sensing!Embedded(pin), emb)
             c == Sensing!Write(pin, basic)
             d == Sensing!Write("interrupts_enable", enabled)
  <1>1. R = <<a, b, c, d>>
    BY DEF Sensing!Route, PinRoute, EmbRoute, Enabled
  <1>2. /\ a.field = pin /\ a.value = sensor[pin] /\ a.wrong = {}
        /\ b.field = Sensing!Embedded(pin) /\ b.value = emb /\ b.wrong = {}
        /\ c.field = pin /\ c.value = basic /\ c.wrong = {basic}
        /\ d.field = "interrupts_enable" /\ d.value = enabled /\ d.wrong = {enabled}
    <2> HIDE DEF basic, emb, enabled
    <2> QED
      BY StepRecords
  <1>3. /\ pin # Sensing!Embedded(pin) /\ pin # "interrupts_enable"
        /\ Sensing!Embedded(pin) # "interrupts_enable"
    BY PinNames
  <1> DEFINE s == <<a, b, c, d>>
  <1>4. DOMAIN s = 1..4 /\ s[1] = a /\ s[2] = b /\ s[3] = c /\ s[4] = d
    OBVIOUS
  <1>5. IsSteps(s)
    BY ShortSteps
  <1> HIDE DEF R, basic, emb, enabled, a, b, c, d, s
  <1>6. Keeps(s, pin, {sensor[pin], basic})
    BY <1>2, <1>3, <1>4 DEF Keeps
  <1>7. Keeps(s, Sensing!Embedded(pin), {emb}) /\ Keeps(s, "interrupts_enable", {enabled})
    BY <1>2, <1>3, <1>4 DEF Keeps
  <1>8. EndsIn(s, pin, {basic})
    <2>1. \A j \in DOMAIN s : 3 <= j /\ s[j].field = pin => s[j].value \in {basic}
      BY <1>2, <1>3, <1>4
    <2>2. 3 \in DOMAIN s /\ s[3].field = pin
      BY <1>2, <1>4
    <2> QED
      BY <2>1, <2>2 DEF EndsIn
  <1>9. EndsIn(s, Sensing!Embedded(pin), {emb})
    <2>1. \A j \in DOMAIN s : 2 <= j /\ s[j].field = Sensing!Embedded(pin) => s[j].value \in {emb}
      BY <1>2, <1>3, <1>4
    <2>2. 2 \in DOMAIN s /\ s[2].field = Sensing!Embedded(pin)
      BY <1>2, <1>4
    <2> QED
      BY <2>1, <2>2 DEF EndsIn
  <1>10. EndsIn(s, "interrupts_enable", {enabled})
    <2>1. \A j \in DOMAIN s : 4 <= j /\ s[j].field = "interrupts_enable" => s[j].value \in {enabled}
      BY <1>2, <1>3, <1>4
    <2>2. 4 \in DOMAIN s /\ s[4].field = "interrupts_enable"
      BY <1>2, <1>4
    <2> QED
      BY <2>1, <2>2 DEF EndsIn
  <1>11. \A f : f \notin {pin, Sensing!Embedded(pin), "interrupts_enable"} => Untouched(s, f)
    BY <1>2, <1>4 DEF Untouched
  <1>12. R = s
    BY <1>1 DEF s
  <1> QED
    BY <1>5, <1>6, <1>7, <1>8, <1>9, <1>10, <1>11, <1>12 DEF R, basic, emb, enabled

(* What each event sets; its marks are the fields it leaves other than 0.    *)
Marks ==
  [free_fall |-> {"ff_dur", "ff_ths"}, wake_up |-> {"wk_ths"},
   single_tap |-> {"tap_x_en", "tap_y_en", "tap_z_en", "tap_ths_x", "shock", "quiet"},
   double_tap |-> {"tap_x_en", "tap_y_en", "tap_z_en", "tap_ths_x", "shock", "quiet", "dur",
                   "single_double_tap"},
   six_d |-> {"sixd_ths"}, sleep_change |-> {"sleep_dur", "inact_en"},
   tilt |-> {}, step_detector |-> {}]

LEMMA EventNames ==
  /\ Sensing!EmbeddedEvents = {"tilt", "step_detector"}
  /\ Sensing!Events = {"tilt", "step_detector", "free_fall", "wake_up", "single_tap", "double_tap",
                       "six_d", "sleep_change"}
  BY DEF Sensing!EmbeddedEvents, Sensing!Events

(* A list of fields and values is written in its order.                     *)
LEMMA WritesSteps ==
  ASSUME NEW fs, NEW n \in Nat, DOMAIN fs = 1..n
  PROVE  /\ IsSteps(Sensing!Writes(fs))
         /\ DOMAIN Sensing!Writes(fs) = 1..n
         /\ \A k \in 1..n : /\ Sensing!Writes(fs)[k].field = fs[k][1]
                            /\ Sensing!Writes(fs)[k].value = fs[k][2]
                            /\ Sensing!Writes(fs)[k].wrong = {fs[k][2]}
  <1> DEFINE w == [k \in 1..n |-> Sensing!Write(fs[k][1], fs[k][2])]
  <1>1. Sensing!Writes(fs) = w
    BY DEF Sensing!Writes
  <1>2. w \in [1..n -> {w[k] : k \in 1..n}]
    OBVIOUS
  <1>3. \A k \in 1..n : w[k] = Sensing!Write(fs[k][1], fs[k][2])
    OBVIOUS
  <1>4. DOMAIN w = 1..n
    OBVIOUS
  <1> HIDE DEF w
  <1>5. IsSteps(w)
    BY <1>2 DEF IsSteps
  <1> QED
    BY <1>1, <1>3, <1>4, <1>5, StepRecords

LEMMA TapLists ==
  ASSUME NEW p, NEW q
  PROVE  /\ DOMAIN Sensing!Taps(p, q) = 1..4
         /\ IsSteps(Sensing!Taps(p, q))
         /\ Sensing!Taps(p, q)[1] = <<"tap_x_en", p>> /\ Sensing!Taps(p, q)[2] = <<"tap_y_en", p>>
         /\ Sensing!Taps(p, q)[3] = <<"tap_z_en", p>> /\ Sensing!Taps(p, q)[4] = <<"tap_ths_x", q>>
         /\ DOMAIN Sensing!Reverse(Sensing!Taps(p, q)) = 1..4
         /\ IsSteps(Sensing!Reverse(Sensing!Taps(p, q)))
         /\ Sensing!Reverse(Sensing!Taps(p, q))[1] = <<"tap_ths_x", q>>
         /\ Sensing!Reverse(Sensing!Taps(p, q))[2] = <<"tap_z_en", p>>
         /\ Sensing!Reverse(Sensing!Taps(p, q))[3] = <<"tap_y_en", p>>
         /\ Sensing!Reverse(Sensing!Taps(p, q))[4] = <<"tap_x_en", p>>
  <1> DEFINE taps == Sensing!Taps(p, q)
             back == Sensing!Reverse(taps)
  <1>1. /\ taps = <<<<"tap_x_en", p>>, <<"tap_y_en", p>>, <<"tap_z_en", p>>, <<"tap_ths_x", q>>>>
        /\ IsSteps(taps)
    BY ShortSteps DEF Sensing!Taps
  <1>2. DOMAIN taps = 1..4 /\ Len(taps) = 4
    BY <1>1
  <1>3. back = [i \in 1..4 |-> taps[4 - i + 1]]
    <2> HIDE DEF taps
    <2>1. back = [i \in 1..Len(taps) |-> taps[(Len(taps) - i) + 1]]
      BY DEF Sensing!Reverse
    <2> QED
      BY <1>2, <2>1
  <1>4. back[1] = taps[4] /\ back[2] = taps[3] /\ back[3] = taps[2] /\ back[4] = taps[1]
    <2> HIDE DEF taps, back
    <2>1. \A i \in 1..4 : back[i] = taps[4 - i + 1]
      BY <1>3
    <2> QED
      BY <2>1
  <1>5. IsSteps(back) /\ DOMAIN back = 1..4
    <2> HIDE DEF taps, back
    <2>1. back \in [1..4 -> {back[k] : k \in 1..4}]
      BY <1>3
    <2> QED
      BY <1>3, <2>1 DEF IsSteps
  <1>6. /\ taps[1] = <<"tap_x_en", p>> /\ taps[2] = <<"tap_y_en", p>>
        /\ taps[3] = <<"tap_z_en", p>> /\ taps[4] = <<"tap_ths_x", q>>
    BY <1>1
  <1> HIDE DEF taps, back
  <1>7. /\ DOMAIN taps = 1..4 /\ IsSteps(taps) /\ DOMAIN back = 1..4 /\ IsSteps(back)
        /\ back[1] = <<"tap_ths_x", q>> /\ back[2] = <<"tap_z_en", p>>
        /\ back[3] = <<"tap_y_en", p>> /\ back[4] = <<"tap_x_en", p>>
    BY <1>1, <1>2, <1>4, <1>5, <1>6
  <1> QED
    BY <1>6, <1>7 DEF taps, back

SetsMarks(fs, e) ==
  /\ IsSteps(fs)
  /\ \A k \in DOMAIN fs : /\ fs[k][1] \in ResetFields \cup {"fs_g"}
                          /\ fs[k][1] \in ResetFields \ Marks[e] => fs[k][2] = 0
ClearsMarks(fs, e) ==
  /\ IsSteps(fs)
  /\ \A k \in DOMAIN fs : fs[k][1] \in ResetFields /\ fs[k][2] = 0
  /\ \A f \in Marks[e] : \E k \in DOMAIN fs : fs[k][1] = f

LEMMA MarksAre ==
  /\ Marks["free_fall"] = {"ff_dur", "ff_ths"} /\ Marks["wake_up"] = {"wk_ths"}
  /\ Marks["single_tap"] = {"tap_x_en", "tap_y_en", "tap_z_en", "tap_ths_x", "shock", "quiet"}
  /\ Marks["double_tap"] = {"tap_x_en", "tap_y_en", "tap_z_en", "tap_ths_x", "shock", "quiet",
                            "dur", "single_double_tap"}
  /\ Marks["six_d"] = {"sixd_ths"} /\ Marks["sleep_change"] = {"sleep_dur", "inact_en"}
  /\ Marks["tilt"] = {} /\ Marks["step_detector"] = {}
  BY DEF Marks

LEMMA OnLists ==
  /\ SetsMarks(Sensing!FreeFallOn, "free_fall")
  /\ SetsMarks(Sensing!WakeUpOn, "wake_up")
  /\ SetsMarks(Sensing!SingleTapOn, "single_tap")
  /\ SetsMarks(Sensing!DoubleTapOn, "double_tap")
  /\ SetsMarks(Sensing!SixDOn, "six_d")
  /\ \A m : SetsMarks(Sensing!InactivityOn(m), "sleep_change")
  <1>1. SetsMarks(Sensing!FreeFallOn, "free_fall")
    <2> DEFINE s == <<<<"ff_dur", 6>>, <<"wake_dur", 0>>, <<"sleep_dur", 0>>, <<"ff_ths", 3>>>>
    <2>1. IsSteps(s)
      BY ShortSteps
    <2>2. \A k \in DOMAIN s : /\ s[k][1] \in ResetFields \cup {"fs_g"}
                              /\ s[k][1] \in ResetFields \ Marks["free_fall"] => s[k][2] = 0
      BY MarksAre DEF ResetFields
    <2> QED
      BY <2>1, <2>2 DEF SetsMarks, Sensing!FreeFallOn
  <1>2. SetsMarks(Sensing!WakeUpOn, "wake_up")
    <2> DEFINE s == <<<<"wake_dur", 0>>, <<"wk_ths", 2>>>>
    <2>1. IsSteps(s)
      BY ShortSteps
    <2>2. \A k \in DOMAIN s : /\ s[k][1] \in ResetFields \cup {"fs_g"}
                              /\ s[k][1] \in ResetFields \ Marks["wake_up"] => s[k][2] = 0
      BY MarksAre DEF ResetFields
    <2> QED
      BY <2>1, <2>2 DEF SetsMarks, Sensing!WakeUpOn
  <1>3. SetsMarks(Sensing!SingleTapOn, "single_tap")
    <2> DEFINE t == <<<<"shock", 2>>, <<"quiet", 1>>>>
               u == Sensing!Taps(1, 8) \o t
    <2>1. IsSteps(t) /\ DOMAIN t = 1..2 /\ t[1] = <<"shock", 2>> /\ t[2] = <<"quiet", 1>>
      BY ShortSteps
    <2>2. IsSteps(u)
          /\ \A k \in DOMAIN u : \/ k \in 1..4 /\ u[k] = Sensing!Taps(1, 8)[k]
                                 \/ \E j \in 1..2 : u[k] = t[j]
      <3> HIDE DEF t
      <3>1. IsSteps(t)
        BY <2>1
      <3>2. IsSteps(Sensing!Taps(1, 8)) /\ DOMAIN Sensing!Taps(1, 8) = 1..4
        BY TapLists
      <3>3. /\ IsSteps(u)
            /\ \A k \in DOMAIN u :
                  \/ k \in DOMAIN Sensing!Taps(1, 8) /\ u[k] = Sensing!Taps(1, 8)[k]
                  \/ k - Len(Sensing!Taps(1, 8)) \in DOMAIN t
                     /\ u[k] = t[k - Len(Sensing!Taps(1, 8))]
        BY <3>1, <3>2, StepsConcat
      <3> HIDE DEF u
      <3> QED
        BY <2>1, <3>2, <3>3
    <2>3. Sensing!SingleTapOn = u
      BY DEF Sensing!SingleTapOn
    <2> HIDE DEF t, u
    <2>4. \A k \in DOMAIN u : /\ u[k][1] \in ResetFields
                              /\ u[k][1] \in Marks["single_tap"]
      BY <2>1, <2>2, TapLists, MarksAre DEF ResetFields
    <2> QED
      BY <2>2, <2>3, <2>4 DEF SetsMarks
  <1>4. SetsMarks(Sensing!DoubleTapOn, "double_tap")
    <2> DEFINE t == <<<<"shock", 3>>, <<"quiet", 3>>, <<"dur", 8>>, <<"single_double_tap", 1>>>>
               u == Sensing!Taps(1, 8) \o t
    <2>1. IsSteps(t) /\ DOMAIN t = 1..4 /\ t[1] = <<"shock", 3>> /\ t[2] = <<"quiet", 3>>
          /\ t[3] = <<"dur", 8>> /\ t[4] = <<"single_double_tap", 1>>
      BY ShortSteps
    <2>2. IsSteps(u)
          /\ \A k \in DOMAIN u : \/ k \in 1..4 /\ u[k] = Sensing!Taps(1, 8)[k]
                                 \/ \E j \in 1..4 : u[k] = t[j]
      <3> HIDE DEF t
      <3>1. IsSteps(t)
        BY <2>1
      <3>2. IsSteps(Sensing!Taps(1, 8)) /\ DOMAIN Sensing!Taps(1, 8) = 1..4
        BY TapLists
      <3>3. /\ IsSteps(u)
            /\ \A k \in DOMAIN u :
                  \/ k \in DOMAIN Sensing!Taps(1, 8) /\ u[k] = Sensing!Taps(1, 8)[k]
                  \/ k - Len(Sensing!Taps(1, 8)) \in DOMAIN t
                     /\ u[k] = t[k - Len(Sensing!Taps(1, 8))]
        BY <3>1, <3>2, StepsConcat
      <3> HIDE DEF u
      <3> QED
        BY <2>1, <3>2, <3>3
    <2>3. Sensing!DoubleTapOn = u
      BY DEF Sensing!DoubleTapOn
    <2> HIDE DEF t, u
    <2>4. \A k \in DOMAIN u : /\ u[k][1] \in ResetFields
                              /\ u[k][1] \in Marks["double_tap"]
      BY <2>1, <2>2, TapLists, MarksAre DEF ResetFields
    <2> QED
      BY <2>2, <2>3, <2>4 DEF SetsMarks
  <1>5. SetsMarks(Sensing!SixDOn, "six_d")
    <2> DEFINE s == <<<<"sixd_ths", 2>>>>
    <2>1. IsSteps(s)
      BY ShortSteps
    <2>2. \A k \in DOMAIN s : /\ s[k][1] \in ResetFields \cup {"fs_g"}
                              /\ s[k][1] \in ResetFields \ Marks["six_d"] => s[k][2] = 0
      BY MarksAre DEF ResetFields
    <2> QED
      BY <2>1, <2>2 DEF SetsMarks, Sensing!SixDOn
  <1>6. ASSUME NEW m PROVE SetsMarks(Sensing!InactivityOn(m), "sleep_change")
    <2> DEFINE s == <<<<"fs_g", 0>>, <<"sleep_dur", 1>>, <<"inact_en", m>>>>
    <2>1. IsSteps(s)
      BY ShortSteps
    <2>2. \A k \in DOMAIN s : /\ s[k][1] \in ResetFields \cup {"fs_g"}
                              /\ s[k][1] \in ResetFields \ Marks["sleep_change"] => s[k][2] = 0
      BY MarksAre DEF ResetFields
    <2> QED
      BY <2>1, <2>2 DEF SetsMarks, Sensing!InactivityOn
  <1> QED
    BY <1>1, <1>2, <1>3, <1>4, <1>5, <1>6

LEMMA OffLists ==
  /\ ClearsMarks(Sensing!FreeFallOff, "free_fall")
  /\ ClearsMarks(Sensing!WakeUpOff, "wake_up")
  /\ ClearsMarks(Sensing!SingleTapOff, "single_tap")
  /\ ClearsMarks(Sensing!DoubleTapOff, "double_tap")
  /\ ClearsMarks(Sensing!SixDOff, "six_d")
  /\ ClearsMarks(Sensing!InactivityOff, "sleep_change")
  <1>1. ASSUME NEW a, NEW b, NEW e, a \in ResetFields, b \in ResetFields, Marks[e] \subseteq {a, b}
        PROVE  ClearsMarks(<<<<a, 0>>, <<b, 0>>>>, e)
    <2> DEFINE s == <<<<a, 0>>, <<b, 0>>>>
    <2>1. /\ IsSteps(s) /\ DOMAIN s = 1..2
          /\ s[1][1] = a /\ s[1][2] = 0 /\ s[2][1] = b /\ s[2][2] = 0
      BY ShortSteps
    <2> HIDE DEF s
    <2>2. ClearsMarks(s, e)
      BY <1>1, <2>1 DEF ClearsMarks
    <2> QED
      BY <2>2 DEF s
  <1>2. ClearsMarks(Sensing!FreeFallOff, "free_fall")
    BY <1>1, MarksAre DEF Sensing!FreeFallOff, ResetFields
  <1>3. ClearsMarks(Sensing!WakeUpOff, "wake_up")
    BY <1>1, MarksAre DEF Sensing!WakeUpOff, ResetFields
  <1>4. ClearsMarks(Sensing!InactivityOff, "sleep_change")
    BY <1>1, MarksAre DEF Sensing!InactivityOff, ResetFields
  <1>5. ClearsMarks(Sensing!SixDOff, "six_d")
    <2> DEFINE s == <<<<"sixd_ths", 0>>>>
    <2>1. /\ IsSteps(s) /\ DOMAIN s = {1} /\ s[1][1] = "sixd_ths" /\ s[1][2] = 0
      BY ShortSteps
    <2>2. Sensing!SixDOff = s
      BY DEF Sensing!SixDOff
    <2> HIDE DEF s
    <2>3. ClearsMarks(s, "six_d")
      BY <2>1, MarksAre DEF ClearsMarks, ResetFields
    <2> QED
      BY <2>2, <2>3
  <1> DEFINE back == Sensing!Reverse(Sensing!Taps(0, 0))
  <1>6. ASSUME NEW t, IsSteps(t), NEW e,
               \A k \in DOMAIN t : t[k][1] \in ResetFields /\ t[k][2] = 0,
               \A f \in Marks[e] : \/ f \in {"tap_x_en", "tap_y_en", "tap_z_en", "tap_ths_x"}
                                   \/ \E k \in DOMAIN t : t[k][1] = f
        PROVE  ClearsMarks(t \o back, e)
    <2> DEFINE u == t \o back
    <2>1. /\ IsSteps(back) /\ DOMAIN back = 1..4
          /\ back[1] = <<"tap_ths_x", 0>> /\ back[2] = <<"tap_z_en", 0>>
          /\ back[3] = <<"tap_y_en", 0>> /\ back[4] = <<"tap_x_en", 0>>
      BY TapLists
    <2> HIDE DEF back
    <2>2. /\ IsSteps(u)
          /\ \A k \in DOMAIN u : \/ k \in DOMAIN t /\ u[k] = t[k]
                                 \/ k - Len(t) \in DOMAIN back /\ u[k] = back[k - Len(t)]
          /\ DOMAIN t = 1..Len(t) /\ Len(t) \in Nat
          /\ DOMAIN back = 1..Len(back) /\ Len(back) \in Nat
          /\ DOMAIN u = 1..(Len(t) + Len(back))
          /\ \A k \in DOMAIN t : u[k] = t[k]
          /\ \A k \in DOMAIN back : u[Len(t) + k] = back[k]
      <3>1. IsSteps(t) /\ IsSteps(back)
        BY <1>6, <2>1
      <3> QED
        BY <3>1, StepsConcat
    <2> HIDE DEF u
    <2>3. \A k \in 1..4 : back[k][1] \in ResetFields /\ back[k][2] = 0
      BY <2>1 DEF ResetFields
    <2>4. ASSUME NEW k \in DOMAIN u PROVE u[k][1] \in ResetFields /\ u[k][2] = 0
      <3>1. CASE k \in DOMAIN t
        BY <1>6, <2>2, <3>1
      <3>2. CASE k \notin DOMAIN t
        <4>1. k - Len(t) \in 1..4 /\ u[k] = back[k - Len(t)]
          BY <2>1, <2>2, <3>2
        <4> QED
          BY <2>3, <4>1
      <3> QED
        BY <3>1, <3>2
    <2>5. \A k \in DOMAIN t : k \in DOMAIN u
      BY <2>2
    <2>6. \A k \in DOMAIN back : Len(t) + k \in DOMAIN u
      BY <2>2
    <2>7. ASSUME NEW f \in Marks[e] PROVE \E k \in DOMAIN u : u[k][1] = f
      <3>1. CASE \E k \in DOMAIN t : t[k][1] = f
        BY <1>6, <2>2, <2>5, <3>1
      <3>2. CASE f \in {"tap_x_en", "tap_y_en", "tap_z_en", "tap_ths_x"}
        <4>1. \E k \in DOMAIN back : back[k][1] = f
          BY <2>1, <3>2
        <4> QED
          BY <2>2, <2>6, <4>1
      <3> QED
        BY <1>6, <3>1, <3>2
    <2>8. ClearsMarks(u, e)
      BY <2>2, <2>4, <2>7 DEF ClearsMarks
    <2> QED
      BY <2>8 DEF u
  <1> HIDE DEF back
  <1>7. ClearsMarks(Sensing!SingleTapOff, "single_tap")
    <2> DEFINE t == <<<<"quiet", 0>>, <<"shock", 0>>>>
    <2>1. IsSteps(t) /\ DOMAIN t = 1..2 /\ t[1] = <<"quiet", 0>> /\ t[2] = <<"shock", 0>>
      BY ShortSteps
    <2>2. Sensing!SingleTapOff = t \o back
      BY DEF Sensing!SingleTapOff, back
    <2> HIDE DEF t
    <2>3. \A k \in DOMAIN t : t[k][1] \in ResetFields /\ t[k][2] = 0
      BY <2>1 DEF ResetFields
    <2>4. \A f \in Marks["single_tap"] : \/ f \in {"tap_x_en", "tap_y_en", "tap_z_en", "tap_ths_x"}
                                         \/ \E k \in DOMAIN t : t[k][1] = f
      BY <2>1, MarksAre
    <2> QED
      BY <1>6, <2>1, <2>2, <2>3, <2>4
  <1>8. ClearsMarks(Sensing!DoubleTapOff, "double_tap")
    <2> DEFINE t == <<<<"single_double_tap", 0>>, <<"dur", 0>>, <<"quiet", 0>>, <<"shock", 0>>>>
    <2>1. IsSteps(t) /\ DOMAIN t = 1..4 /\ t[1] = <<"single_double_tap", 0>> /\ t[2] = <<"dur", 0>>
          /\ t[3] = <<"quiet", 0>> /\ t[4] = <<"shock", 0>>
      BY ShortSteps
    <2>2. Sensing!DoubleTapOff = t \o back
      BY DEF Sensing!DoubleTapOff, back
    <2> HIDE DEF t
    <2>3. \A k \in DOMAIN t : t[k][1] \in ResetFields /\ t[k][2] = 0
      BY <2>1 DEF ResetFields
    <2>4. \A f \in Marks["double_tap"] : \/ f \in {"tap_x_en", "tap_y_en", "tap_z_en", "tap_ths_x"}
                                         \/ \E k \in DOMAIN t : t[k][1] = f
      BY <2>1, MarksAre
    <2> QED
      BY <1>6, <2>1, <2>2, <2>3, <2>4
  <1> QED
    BY <1>2, <1>3, <1>4, <1>5, <1>7, <1>8

(* What the first part of an event's enabling, before its route, and the     *)
(* second of its disabling, after its routes, do to the fields of events.    *)
EventFacts(s, e, emb) ==
  /\ IsSteps(s)
  /\ \A f \in RouteFields : Untouched(s, f)
  /\ e \notin Sensing!EmbeddedEvents => Untouched(s, "emb")
  /\ e \in Sensing!EmbeddedEvents => EndsIn(s, "emb", {emb})

LEMMA Disjoint ==
  /\ RateFields \cap EventFields = {} /\ RouteFields \cap ResetFields = {}
  /\ "emb" \notin RouteFields \cup ResetFields \cup RateFields
  /\ EventFields = RouteFields \cup {"emb"} \cup ResetFields
  BY DEF RateFields, EventFields, RouteFields, ResetFields

LEMMA WrittenOn ==
  ASSUME NEW e \in Sensing!Events, NEW fs, SetsMarks(fs, e)
  PROVE  LET s == Sensing!Writes(fs)
         IN  /\ IsSteps(s)
             /\ \A f \in RouteFields \cup {"emb"} : Untouched(s, f)
             /\ \A f \in ResetFields \ Marks[e] : Keeps(s, f, {0})
  <1>1. PICK n \in Nat : DOMAIN fs = 1..n
    BY DEF SetsMarks, IsSteps
  <1> DEFINE s == Sensing!Writes(fs)
  <1>2. /\ IsSteps(s)
        /\ DOMAIN s = 1..n
        /\ \A k \in 1..n : /\ s[k].field = fs[k][1]
                           /\ s[k].value = fs[k][2]
                           /\ s[k].wrong = {fs[k][2]}
    BY <1>1, WritesSteps
  <1> HIDE DEF s
  <1>3. ASSUME NEW f \in RouteFields \cup {"emb"} PROVE Untouched(s, f)
    BY <1>1, <1>2, Disjoint DEF Untouched, SetsMarks, RouteFields
  <1>4. ASSUME NEW f \in ResetFields \ Marks[e] PROVE Keeps(s, f, {0})
    BY <1>1, <1>2 DEF Keeps, SetsMarks
  <1> QED
    BY <1>2, <1>3, <1>4 DEF s

LEMMA WrittenOff ==
  ASSUME NEW e \in Sensing!Events, NEW fs, ClearsMarks(fs, e)
  PROVE  LET s == Sensing!Writes(fs)
         IN  /\ IsSteps(s)
             /\ \A f \in RouteFields \cup {"emb"} : Untouched(s, f)
             /\ \A f \in ResetFields : Keeps(s, f, {0})
             /\ \A f \in Marks[e] : EndsIn(s, f, {0})
  <1>1. PICK n \in Nat : DOMAIN fs = 1..n
    BY DEF ClearsMarks, IsSteps
  <1> DEFINE s == Sensing!Writes(fs)
  <1>2. /\ IsSteps(s)
        /\ DOMAIN s = 1..n
        /\ \A k \in 1..n : /\ s[k].field = fs[k][1]
                           /\ s[k].value = fs[k][2]
                           /\ s[k].wrong = {fs[k][2]}
    BY <1>1, WritesSteps
  <1> HIDE DEF s
  <1>3. ASSUME NEW f \in RouteFields \cup {"emb"} PROVE Untouched(s, f)
    BY <1>1, <1>2, Disjoint DEF Untouched, ClearsMarks
  <1>4. ASSUME NEW f \in ResetFields PROVE Keeps(s, f, {0})
    BY <1>1, <1>2 DEF Keeps, ClearsMarks
  <1>5. ASSUME NEW f \in Marks[e] PROVE EndsIn(s, f, {0})
    BY <1>1, <1>2 DEF EndsIn, ClearsMarks
  <1> QED
    BY <1>2, <1>3, <1>4, <1>5 DEF s

LEMMA RatesUntouched ==
  ASSUME NEW s, OnlyRates(s)
  PROVE  IsSteps(s) /\ \A f \in EventFields : Untouched(s, f)
  BY Disjoint DEF OnlyRates, Untouched

LEMMA EmbeddedSteps ==
  ASSUME NEW e
  PROVE  /\ IsSteps(Sensing!EmbeddedOn(e))
         /\ Keeps(Sensing!EmbeddedOn(e), "emb", {sensor.emb, {}, sensor.emb \cup {e}})
         /\ EndsIn(Sensing!EmbeddedOn(e), "emb", {sensor.emb \cup {e}})
         /\ \A f : f # "emb" => Untouched(Sensing!EmbeddedOn(e), f)
         /\ IsSteps(Sensing!EmbeddedOff(e))
         /\ Keeps(Sensing!EmbeddedOff(e), "emb", {sensor.emb, sensor.emb \ {e}})
         /\ EndsIn(Sensing!EmbeddedOff(e), "emb", {sensor.emb \ {e}})
         /\ \A f : f # "emb" => Untouched(Sensing!EmbeddedOff(e), f)
  <1> DEFINE r == Sensing!Read("emb")
             z == Sensing!WriteEmbedded("emb", {})
             w == Sensing!WriteEmbedded("emb", sensor.emb \cup {e})
             o == Sensing!WriteEmbedded("emb", sensor.emb \ {e})
  <1>1. /\ r.field = "emb" /\ r.value = sensor.emb /\ r.wrong = {}
        /\ z.field = "emb" /\ z.value = {} /\ z.wrong = {}
        /\ w.field = "emb" /\ w.value = sensor.emb \cup {e} /\ w.wrong = {}
        /\ o.field = "emb" /\ o.value = sensor.emb \ {e} /\ o.wrong = {}
    BY StepRecords
  <1> HIDE DEF r, z, w, o
  <1> DEFINE off_ == <<r, o>>
  <1>2. Sensing!EmbeddedOff(e) = off_ /\ IsSteps(off_)
        /\ DOMAIN off_ = 1..2 /\ off_[1] = r /\ off_[2] = o
    BY ShortSteps DEF Sensing!EmbeddedOff, r, o
  <1> HIDE DEF off_
  <1>3. EndsIn(off_, "emb", {sensor.emb \ {e}})
    <2>1. 2 \in DOMAIN off_ /\ off_[2].field = "emb"
          /\ \A j \in DOMAIN off_ : 2 <= j => off_[j].value = sensor.emb \ {e}
      BY <1>1, <1>2
    <2> QED
      BY <2>1 DEF EndsIn
  <1>4. /\ Keeps(off_, "emb", {sensor.emb, sensor.emb \ {e}})
        /\ \A f : f # "emb" => Untouched(off_, f)
    BY <1>1, <1>2 DEF Keeps, Untouched
  <1> DEFINE a == <<r, z>>
             b == IF e = "step_detector" THEN <<r>> ELSE <<>>
             c == <<w>>
             T == {sensor.emb, {}, sensor.emb \cup {e}}
  <1>5. Sensing!EmbeddedOn(e) = (a \o b) \o c
    BY DEF Sensing!EmbeddedOn, r, z, w
  <1>6. IsSteps(a) /\ DOMAIN a = 1..2 /\ a[1] = r /\ a[2] = z
    BY ShortSteps
  <1>7. IsSteps(b) /\ \A k \in DOMAIN b : b[k] = r
    BY ShortSteps
  <1>8. IsSteps(c) /\ DOMAIN c = {1} /\ c[1] = w
    BY ShortSteps
  <1> HIDE DEF a, b, c
  <1>9. Keeps(a, "emb", T) /\ \A f : f # "emb" => Untouched(a, f)
    BY <1>1, <1>6 DEF Keeps, Untouched
  <1>10. Keeps(b, "emb", T) /\ \A f : f # "emb" => Untouched(b, f)
    BY <1>1, <1>7 DEF Keeps, Untouched
  <1>11. Keeps(c, "emb", T) /\ \A f : f # "emb" => Untouched(c, f)
    BY <1>1, <1>8 DEF Keeps, Untouched
  <1>12. EndsIn(c, "emb", {sensor.emb \cup {e}})
    BY <1>1, <1>8 DEF EndsIn
  <1> HIDE DEF T
  <1>13. IsSteps(a \o b) /\ IsSteps((a \o b) \o c)
    BY <1>6, <1>7, <1>8, StepsConcat
  <1>14. Keeps(a \o b, "emb", T) /\ \A f : f # "emb" => Untouched(a \o b, f)
    BY <1>6, <1>7, <1>9, <1>10, KeepsConcat, UntouchedConcat
  <1>15. Keeps((a \o b) \o c, "emb", T) /\ \A f : f # "emb" => Untouched((a \o b) \o c, f)
    BY <1>8, <1>11, <1>13, <1>14, KeepsConcat, UntouchedConcat
  <1>16. EndsIn((a \o b) \o c, "emb", {sensor.emb \cup {e}})
    BY <1>8, <1>12, <1>13, EndsConcat
  <1> QED
    BY <1>2, <1>3, <1>4, <1>5, <1>13, <1>15, <1>16 DEF T

(* The steps of an event's own, after those of its rate and scale.           *)
OwnSteps(e, m) ==
  CASE e \in Sensing!EmbeddedEvents -> Sensing!EmbeddedOn(e)
    [] e = "free_fall" -> Sensing!Writes(Sensing!FreeFallOn)
    [] e = "wake_up" -> Sensing!Writes(Sensing!WakeUpOn)
    [] e = "single_tap" -> Sensing!Writes(Sensing!SingleTapOn)
    [] e = "double_tap" -> Sensing!Writes(Sensing!DoubleTapOn)
    [] e = "six_d" -> Sensing!Writes(Sensing!SixDOn)
    [] e = "sleep_change" -> Sensing!Writes(Sensing!InactivityOn(m))

LEMMA OwnStepsAre ==
  ASSUME NEW e \in Sensing!Events, NEW m
  PROVE  /\ e \in Sensing!EmbeddedEvents => OwnSteps(e, m) = Sensing!EmbeddedOn(e)
         /\ e \notin Sensing!EmbeddedEvents =>
               \E fs : SetsMarks(fs, e) /\ OwnSteps(e, m) = Sensing!Writes(fs)
  <1>0. e \in Sensing!EmbeddedEvents => OwnSteps(e, m) = Sensing!EmbeddedOn(e)
    BY EventNames DEF OwnSteps
  <1> SUFFICES ASSUME e \notin Sensing!EmbeddedEvents
               PROVE  \E fs : SetsMarks(fs, e) /\ OwnSteps(e, m) = Sensing!Writes(fs)
    BY <1>0
  <1>1. CASE e = "free_fall"
    BY <1>1, OnLists DEF OwnSteps
  <1>2. CASE e = "wake_up"
    BY <1>2, OnLists DEF OwnSteps
  <1>3. CASE e = "single_tap"
    BY <1>3, OnLists DEF OwnSteps
  <1>4. CASE e = "double_tap"
    BY <1>4, OnLists DEF OwnSteps
  <1>5. CASE e = "six_d"
    BY <1>5, OnLists DEF OwnSteps
  <1>6. CASE e = "sleep_change"
    BY <1>6, OnLists DEF OwnSteps
  <1> QED
    BY <1>1, <1>2, <1>3, <1>4, <1>5, <1>6, EventNames

LEMMA EventStepsFacts ==
  ASSUME NEW e \in Sensing!Events, NEW m
  PROVE  LET s == Sensing!EventSteps(e, m)
         IN  /\ EventFacts(s, e, sensor.emb \cup {e})
             /\ e \in Sensing!EmbeddedEvents
                   => Keeps(s, "emb", {sensor.emb, {}, sensor.emb \cup {e}})
             /\ \A f \in ResetFields \ Marks[e] : Keeps(s, f, {0})
  <1> DEFINE a == IF e = "sleep_change" THEN <<>>
                  ELSE Sensing!RateSteps(Sensing!acc, Sensing!EventOdr(e), "high_performance")
             b == <<Sensing!Write("fs_xl", 0)>>
             c == OwnSteps(e, m)
             T == {sensor.emb, {}, sensor.emb \cup {e}}
  <1>1. Sensing!EventSteps(e, m) = (a \o b) \o c
    BY DEF Sensing!EventSteps, OwnSteps
  <1>2. OnlyRates(a)
    BY OnlyRatesShort, RateStepsFields
  <1>3. OnlyRates(b)
    <2>1. Sensing!Write("fs_xl", 0).field \in RateFields
      BY DEF Sensing!Write, RateFields
    <2> QED
      BY <2>1, OnlyRatesShort
  <1>4. ASSUME e \in Sensing!EmbeddedEvents
        PROVE  /\ EventFacts(c, e, sensor.emb \cup {e})
               /\ Keeps(c, "emb", T)
               /\ \A f \in ResetFields : Keeps(c, f, {0})
    <2>1. c = Sensing!EmbeddedOn(e)
      BY <1>4, OwnStepsAre
    <2> HIDE DEF c
    <2> QED
      BY <1>4, <2>1, EmbeddedSteps, Disjoint, UntouchedKeeps DEF EventFacts
  <1>5. ASSUME e \notin Sensing!EmbeddedEvents
        PROVE  /\ EventFacts(c, e, sensor.emb \cup {e})
               /\ \A f \in ResetFields \ Marks[e] : Keeps(c, f, {0})
    <2>1. \E fs : SetsMarks(fs, e) /\ c = Sensing!Writes(fs)
      BY <1>5, OwnStepsAre
    <2>2. PICK fs : SetsMarks(fs, e) /\ c = Sensing!Writes(fs)
      BY <2>1
    <2> HIDE DEF c
    <2>3. /\ IsSteps(c)
          /\ \A f \in RouteFields \cup {"emb"} : Untouched(c, f)
          /\ \A f \in ResetFields \ Marks[e] : Keeps(c, f, {0})
      BY <2>2, WrittenOn
    <2> QED
      BY <1>5, <2>3 DEF EventFacts
  <1> HIDE DEF a, b, c
  <1>6. OnlyRates(a \o b)
    BY <1>2, <1>3, OnlyRatesConcat
  <1> DEFINE ab == a \o b
  <1>7. IsSteps(ab) /\ \A f \in EventFields : Untouched(ab, f)
    BY <1>6, RatesUntouched
  <1> HIDE DEF ab
  <1>8. IsSteps(c)
    BY <1>4, <1>5 DEF EventFacts
  <1>9. IsSteps(ab \o c)
    BY <1>7, <1>8, StepsConcat
  <1>10. \A f \in RouteFields : Untouched(ab \o c, f)
    BY <1>4, <1>5, <1>7, <1>8, UntouchedConcat, Disjoint DEF EventFacts
  <1>11. e \notin Sensing!EmbeddedEvents => Untouched(ab \o c, "emb")
    BY <1>5, <1>7, <1>8, UntouchedConcat, Disjoint DEF EventFacts
  <1>12. e \in Sensing!EmbeddedEvents => EndsIn(ab \o c, "emb", {sensor.emb \cup {e}})
    BY <1>4, <1>7, <1>8, EndsConcat DEF EventFacts
  <1>13. ASSUME e \in Sensing!EmbeddedEvents PROVE Keeps(ab \o c, "emb", T)
    <2>1. Keeps(ab, "emb", T) /\ Keeps(c, "emb", T)
      BY <1>4, <1>7, <1>13, UntouchedKeeps, Disjoint
    <2> QED
      BY <1>7, <1>8, <2>1, KeepsConcat
  <1>14. ASSUME NEW f \in ResetFields \ Marks[e] PROVE Keeps(ab \o c, f, {0})
    <2>1. Keeps(ab, f, {0}) /\ Keeps(c, f, {0})
      BY <1>4, <1>5, <1>7, UntouchedKeeps, Disjoint
    <2> QED
      BY <1>7, <1>8, <2>1, KeepsConcat
  <1> QED
    BY <1>1, <1>9, <1>10, <1>11, <1>12, <1>13, <1>14 DEF EventFacts, ab

LEMMA ResetStepsAre ==
  ASSUME NEW e \in Sensing!Events
  PROVE  /\ e \in Sensing!EmbeddedEvents => Sensing!ResetSteps(e) = Sensing!EmbeddedOff(e)
         /\ e \notin Sensing!EmbeddedEvents =>
               \E fs : ClearsMarks(fs, e) /\ Sensing!ResetSteps(e) = Sensing!Writes(fs)
  <1>0. e \in Sensing!EmbeddedEvents => Sensing!ResetSteps(e) = Sensing!EmbeddedOff(e)
    BY EventNames DEF Sensing!ResetSteps
  <1> SUFFICES ASSUME e \notin Sensing!EmbeddedEvents
               PROVE  \E fs : ClearsMarks(fs, e) /\ Sensing!ResetSteps(e) = Sensing!Writes(fs)
    BY <1>0
  <1>1. CASE e = "free_fall"
    BY <1>1, OffLists DEF Sensing!ResetSteps
  <1>2. CASE e = "wake_up"
    BY <1>2, OffLists DEF Sensing!ResetSteps
  <1>3. CASE e = "single_tap"
    BY <1>3, OffLists DEF Sensing!ResetSteps
  <1>4. CASE e = "double_tap"
    BY <1>4, OffLists DEF Sensing!ResetSteps
  <1>5. CASE e = "six_d"
    BY <1>5, OffLists DEF Sensing!ResetSteps
  <1>6. CASE e = "sleep_change"
    BY <1>6, OffLists DEF Sensing!ResetSteps
  <1> QED
    BY <1>1, <1>2, <1>3, <1>4, <1>5, <1>6, EventNames

LEMMA ResetStepsFacts ==
  ASSUME NEW e \in Sensing!Events
  PROVE  LET s == Sensing!ResetSteps(e)
         IN  /\ EventFacts(s, e, sensor.emb \ {e})
             /\ e \in Sensing!EmbeddedEvents => Keeps(s, "emb", {sensor.emb, sensor.emb \ {e}})
             /\ \A f \in ResetFields : Keeps(s, f, {0})
             /\ \A f \in Marks[e] : EndsIn(s, f, {0})
  <1> DEFINE s == Sensing!ResetSteps(e)
  <1>1. CASE e \in Sensing!EmbeddedEvents
    <2>1. s = Sensing!EmbeddedOff(e)
      BY <1>1, ResetStepsAre
    <2>2. Marks[e] = {}
      BY <1>1, EventNames, MarksAre
    <2> HIDE DEF s
    <2>3. /\ EventFacts(s, e, sensor.emb \ {e})
          /\ Keeps(s, "emb", {sensor.emb, sensor.emb \ {e}})
          /\ \A f \in ResetFields : Keeps(s, f, {0})
      BY <1>1, <2>1, EmbeddedSteps, Disjoint, UntouchedKeeps DEF EventFacts
    <2> QED
      BY <2>2, <2>3 DEF s
  <1>2. CASE e \notin Sensing!EmbeddedEvents
    <2>1. \E fs : ClearsMarks(fs, e) /\ s = Sensing!Writes(fs)
      BY <1>2, ResetStepsAre
    <2>2. PICK fs : ClearsMarks(fs, e) /\ s = Sensing!Writes(fs)
      BY <2>1
    <2> HIDE DEF s
    <2>3. /\ IsSteps(s)
          /\ \A f \in RouteFields \cup {"emb"} : Untouched(s, f)
          /\ \A f \in ResetFields : Keeps(s, f, {0})
          /\ \A f \in Marks[e] : EndsIn(s, f, {0})
      BY <2>2, WrittenOff
    <2> QED
      BY <1>2, <2>3 DEF EventFacts, s
  <1> QED
    BY <1>1, <1>2

RoutesTyped ==
  \A p \in Sensing!Pins : /\ sensor[p] \in SUBSET Basic
                          /\ sensor[Sensing!Embedded(p)] \in SUBSET Sensing!EmbeddedEvents

ObjectInv ==
  /\ SensorIsFunction /\ EventFields \subseteq DOMAIN sensor
  /\ RoutesTyped
  /\ sensor["emb"] \in SUBSET (Sensing!EmbeddedEvents \cap begun)
  /\ \A f \in ResetFields : sensor[f] = 0 \/ \E e \in begun : f \in Marks[e]
  /\ on \in [Sensing!Events -> SUBSET Sensing!Pins]
  /\ off \in [Sensing!Events -> SUBSET Sensing!Pins]
  /\ begun \in SUBSET Sensing!Events
  /\ "int2" \in off["step_detector"]
  /\ Sensing!EventsRouted

(* What a route adds to and removes from a pin's signals.                   *)
Signals == Sensing!Events \cup {"drdy_xl", "drdy_g"}

LEMMA SignalNames ==
  /\ "emb_func" \notin Signals
  /\ Basic = (Signals \ Sensing!EmbeddedEvents) \cup {"emb_func"}
  /\ Sensing!EmbeddedEvents \subseteq Sensing!Events /\ Sensing!Events \subseteq Signals
  BY EventNames DEF Signals, Basic

LEMMA RouteValues ==
  ASSUME RoutesTyped, NEW pin \in Sensing!Pins, NEW add \in SUBSET Signals,
         NEW remove \in SUBSET Signals, NEW earlier
  PROVE  LET basic == PinRoute(pin, add, remove)
             emb == EmbRoute(pin, add, remove)
             enabled == Enabled(pin, add, remove, earlier)
             other == Sensing!Other(pin)
             emb0 == sensor[Sensing!Embedded(pin)]
         IN  /\ basic \in SUBSET Basic /\ emb \in SUBSET Sensing!EmbeddedEvents
             /\ \A d \in Sensing!Events \ remove :
                   /\ d \in sensor[pin] => d \in basic
                   /\ d \in emb0 => d \in emb /\ "emb_func" \in basic
             /\ \A d \in Sensing!Events \ add :
                   /\ d \notin sensor[pin] => d \notin basic
                   /\ d \notin emb0 => d \notin emb
                   /\ d \in remove => d \notin basic /\ d \notin emb
             /\ \A d \in Sensing!Events \cap add :
                   IF d \in Sensing!EmbeddedEvents THEN d \in emb /\ "emb_func" \in basic
                                                   ELSE d \in basic /\ enabled
             /\ \A d \in Sensing!Events \ remove : d \in sensor[pin] => enabled
             /\ \A d \in Sensing!Events \ earlier : d \in sensor[other] => enabled
  <1> DEFINE basic == PinRoute(pin, add, remove)
             emb == EmbRoute(pin, add, remove)
             enabled == Enabled(pin, add, remove, earlier)
             other == Sensing!Other(pin)
             emb0 == sensor[Sensing!Embedded(pin)]
  <1>1. /\ emb = (emb0 \ remove) \cup (add \cap Sensing!EmbeddedEvents)
        /\ basic = (sensor[pin] \ (remove \cup {"emb_func"})) \cup (add \ Sensing!EmbeddedEvents)
                      \cup (IF emb = {} THEN {} ELSE {"emb_func"})
        /\ enabled <=> (basic \cup (sensor[other] \ earlier)) \ {"emb_func"} # {}
    BY DEF PinRoute, EmbRoute, Enabled, Sensing!Interrupts
  <1>2. sensor[pin] \in SUBSET Basic /\ emb0 \in SUBSET Sensing!EmbeddedEvents
    BY DEF RoutesTyped
  <1> HIDE DEF basic, emb, enabled, other, emb0
  <1>3. basic \in SUBSET Basic /\ emb \in SUBSET Sensing!EmbeddedEvents
    BY <1>1, <1>2, SignalNames
  <1>4. \A d \in Sensing!Events : d # "emb_func"
    BY SignalNames
  <1>5. \A d \in Sensing!Events \ remove :
           /\ d \in sensor[pin] => d \in basic
           /\ d \in emb0 => d \in emb /\ "emb_func" \in basic
    BY <1>1, <1>4
  <1>6. \A d \in Sensing!Events \ add :
           /\ d \notin sensor[pin] => d \notin basic
           /\ d \notin emb0 => d \notin emb
           /\ d \in remove => d \notin basic /\ d \notin emb
    BY <1>1, <1>4
  <1>7. \A d \in Sensing!Events : d \in basic => enabled
    BY <1>1, <1>4
  <1>8. \A d \in Sensing!Events \ earlier : d \in sensor[other] => enabled
    BY <1>1, <1>4
  <1>9. \A d \in Sensing!Events \cap add :
           IF d \in Sensing!EmbeddedEvents THEN d \in emb /\ "emb_func" \in basic
                                           ELSE d \in basic /\ enabled
    BY <1>1, <1>7
  <1>10. \A d \in Sensing!Events \ remove : d \in sensor[pin] => enabled
    BY <1>5, <1>7
  <1> QED
    BY <1>3, <1>5, <1>6, <1>8, <1>9, <1>10 DEF basic, emb, enabled, other, emb0

(* A call that leaves the fields of events alone.                           *)
LEMMA EventsStay ==
  ASSUME ObjectInv, SensorIsFunction', DOMAIN sensor' = DOMAIN sensor,
         \A f \in EventFields : sensor'[f] = sensor[f],
         on' = on, off' = off, begun' = begun
  PROVE  ObjectInv'
  <1>1. \A p \in Sensing!Pins : /\ p \in EventFields /\ Sensing!Embedded(p) \in EventFields
                                /\ sensor'[p] = sensor[p]
                                /\ sensor'[Sensing!Embedded(p)] = sensor[Sensing!Embedded(p)]
    BY PinNames DEF EventFields, RouteFields
  <1>2. /\ sensor'["emb"] = sensor["emb"]
        /\ sensor'["interrupts_enable"] = sensor["interrupts_enable"]
        /\ \A f \in ResetFields : sensor'[f] = sensor[f]
    BY DEF EventFields, RouteFields
  <1>3. RoutesTyped'
    BY <1>1 DEF ObjectInv, RoutesTyped
  <1>4. Sensing!EventsRouted'
    BY <1>1, <1>2 DEF ObjectInv, Sensing!EventsRouted
  <1> QED
    BY <1>2, <1>3, <1>4 DEF ObjectInv

LEMMA RatesOnly ==
  ASSUME ObjectInv, NEW s, OnlyRates(s), NEW ok \in BOOLEAN, Sensing!Returns(s, ok),
         on' = on, off' = off, begun' = begun
  PROVE  ObjectInv'
  <1>1. SensorIsFunction /\ EventFields \subseteq DOMAIN sensor
    BY DEF ObjectInv
  <1>2. IsSteps(s) /\ \A f \in EventFields : Untouched(s, f)
    BY RatesUntouched
  <1>3. /\ DOMAIN sensor' = DOMAIN sensor /\ SensorIsFunction'
        /\ \A f \in DOMAIN sensor : Untouched(s, f) => sensor'[f] = sensor[f]
    BY <1>1, <1>2, FieldReturns
  <1> QED
    BY <1>1, <1>2, <1>3, EventsStay

(* Data ready is routed beside the events.                                  *)
LEMMA DrdyRoute ==
  ASSUME ObjectInv, NEW pin \in Sensing!Pins, NEW add \in SUBSET {"drdy_xl", "drdy_g"},
         NEW remove \in SUBSET {"drdy_xl", "drdy_g"}, NEW ok \in BOOLEAN,
         Sensing!Returns(Sensing!Route(pin, add, remove, {}), ok),
         on' = on, off' = off, begun' = begun
  PROVE  ObjectInv'
  <1> DEFINE s == Sensing!Route(pin, add, remove, {})
             basic == PinRoute(pin, add, remove)
             emb == EmbRoute(pin, add, remove)
             enabled == Enabled(pin, add, remove, {})
             other == Sensing!Other(pin)
             emb0 == sensor[Sensing!Embedded(pin)]
  <1>1. SensorIsFunction /\ EventFields \subseteq DOMAIN sensor /\ RoutesTyped
    BY DEF ObjectInv
  <1>2. /\ IsSteps(s)
        /\ Keeps(s, pin, {sensor[pin], basic})
        /\ Keeps(s, Sensing!Embedded(pin), {emb})
        /\ Keeps(s, "interrupts_enable", {enabled})
        /\ \A f : f \notin {pin, Sensing!Embedded(pin), "interrupts_enable"} => Untouched(s, f)
    BY RouteSteps
  <1>3. /\ add \in SUBSET Signals /\ remove \in SUBSET Signals
        /\ \A d \in Sensing!Events : d \notin add /\ d \notin remove /\ d # "emb_func"
    BY EventNames DEF Signals
  <1>4. /\ basic \in SUBSET Basic /\ emb \in SUBSET Sensing!EmbeddedEvents
        /\ \A d \in Sensing!Events : /\ d \in sensor[pin] <=> d \in basic
                                     /\ d \in emb0 <=> d \in emb
                                     /\ d \in emb0 => "emb_func" \in basic
                                     /\ d \in sensor[pin] \/ d \in sensor[other] => enabled
    <2> HIDE DEF basic, emb, enabled, other, emb0
    <2>1. /\ basic \in SUBSET Basic /\ emb \in SUBSET Sensing!EmbeddedEvents
          /\ \A d \in Sensing!Events \ remove :
                /\ d \in sensor[pin] => d \in basic
                /\ d \in emb0 => d \in emb /\ "emb_func" \in basic
          /\ \A d \in Sensing!Events \ add :
                /\ d \notin sensor[pin] => d \notin basic
                /\ d \notin emb0 => d \notin emb
          /\ \A d \in Sensing!Events \ remove : d \in sensor[pin] => enabled
          /\ \A d \in Sensing!Events \ {} : d \in sensor[other] => enabled
      <3> USE DEF basic, emb, enabled, other, emb0
      <3> QED
        BY <1>1, <1>3, RouteValues
    <2> QED
      BY <1>3, <2>1
  <1> HIDE DEF s, basic, emb, enabled
  <1>5. /\ pin \in DOMAIN sensor /\ Sensing!Embedded(pin) \in DOMAIN sensor
        /\ other \in DOMAIN sensor /\ Sensing!Embedded(other) \in DOMAIN sensor
        /\ "interrupts_enable" \in DOMAIN sensor
        /\ Sensing!Pins = {pin, other} /\ other # pin
        /\ Sensing!Embedded(other) \notin {pin, Sensing!Embedded(pin), "interrupts_enable"}
        /\ other \notin {pin, Sensing!Embedded(pin), "interrupts_enable"}
        /\ \A f \in ResetFields \cup {"emb"} :
              f \in DOMAIN sensor /\ f \notin {pin, Sensing!Embedded(pin), "interrupts_enable"}
    BY <1>1, PinNames DEF EventFields, RouteFields, ResetFields
  <1>6. /\ DOMAIN sensor' = DOMAIN sensor /\ SensorIsFunction'
        /\ \A f \in DOMAIN sensor : \A A : sensor[f] \in A /\ Keeps(s, f, A) => sensor'[f] \in A
        /\ \A f \in DOMAIN sensor : Untouched(s, f) => sensor'[f] = sensor[f]
    <2>1. Sensing!Returns(s, ok)
      BY DEF s
    <2> QED
      BY <1>1, <1>2, <2>1, FieldReturns
  <1>7. /\ sensor'[pin] \in {sensor[pin], basic}
        /\ sensor'[other] = sensor[other]
        /\ sensor'[Sensing!Embedded(other)] = sensor[Sensing!Embedded(other)]
        /\ \A f \in ResetFields \cup {"emb"} : sensor'[f] = sensor[f]
    BY <1>2, <1>5, <1>6
  <1>8. sensor'[Sensing!Embedded(pin)] \in {emb0, emb}
    <2>1. Keeps(s, Sensing!Embedded(pin), {emb0, emb})
      BY <1>2 DEF Keeps
    <2> QED
      BY <1>5, <1>6, <2>1
  <1>9. sensor'["interrupts_enable"] \in {sensor["interrupts_enable"], enabled}
    <2>1. Keeps(s, "interrupts_enable", {sensor["interrupts_enable"], enabled})
      BY <1>2 DEF Keeps
    <2> QED
      BY <1>5, <1>6, <2>1
  <1>10. RoutesTyped'
    <2>1. sensor'[pin] \in SUBSET Basic
          /\ sensor'[Sensing!Embedded(pin)] \in SUBSET Sensing!EmbeddedEvents
      BY <1>1, <1>4, <1>7, <1>8 DEF RoutesTyped
    <2>2. sensor'[other] \in SUBSET Basic
          /\ sensor'[Sensing!Embedded(other)] \in SUBSET Sensing!EmbeddedEvents
      BY <1>1, <1>5, <1>7 DEF RoutesTyped
    <2> QED
      BY <1>5, <2>1, <2>2 DEF RoutesTyped
  <1> HIDE DEF other
  <1>11. ASSUME NEW d \in Sensing!Events, NEW p \in Sensing!Pins
         PROVE  /\ d \in sensor'[p] <=> d \in sensor[p]
                /\ d \in sensor'[Sensing!Embedded(p)] <=> d \in sensor[Sensing!Embedded(p)]
                /\ d \in sensor[Sensing!Embedded(p)] /\ "emb_func" \in sensor[p]
                      => "emb_func" \in sensor'[p]
                /\ d \in sensor[p] /\ sensor["interrupts_enable"] => sensor'["interrupts_enable"]
    <2>1. CASE p = pin
      BY <1>4, <1>7, <1>8, <1>9, <2>1
    <2>2. CASE p = other
      BY <1>4, <1>7, <1>9, <2>2
    <2> QED
      BY <1>5, <2>1, <2>2
  <1>12. Sensing!EventsRouted'
    <2> SUFFICES ASSUME NEW d \in Sensing!Events, NEW p \in Sensing!Pins
        PROVE  LET routed == d \in sensor'[p] \cup sensor'[Sensing!Embedded(p)]
               IN  /\ p \in on'[d] =>
                         /\ routed
                         /\ IF d \in Sensing!EmbeddedEvents
                            THEN "emb_func" \in sensor'[p] /\ d \in sensor'["emb"]
                            ELSE sensor'["interrupts_enable"]
                   /\ p \in off'[d] => ~routed
      BY DEF Sensing!EventsRouted
    <2>1. /\ p \in on[d] =>
                /\ d \in sensor[p] \cup sensor[Sensing!Embedded(p)]
                /\ IF d \in Sensing!EmbeddedEvents
                   THEN "emb_func" \in sensor[p] /\ d \in sensor["emb"]
                   ELSE sensor["interrupts_enable"]
          /\ p \in off[d] => d \notin sensor[p] \cup sensor[Sensing!Embedded(p)]
      BY DEF ObjectInv, Sensing!EventsRouted
    <2>2. /\ d \in Sensing!EmbeddedEvents => d \notin sensor[p]
          /\ d \notin Sensing!EmbeddedEvents => d \notin sensor[Sensing!Embedded(p)]
      BY <1>1, SignalNames DEF RoutesTyped
    <2>3. sensor'["emb"] = sensor["emb"]
      BY <1>7
    <2> QED
      BY <1>11, <2>1, <2>2, <2>3
  <1> QED
    BY <1>6, <1>7, <1>10, <1>12 DEF ObjectInv

(* An event is enabled on a pin: it is routed there last.                   *)
LEMMA EnableStep ==
  ASSUME ObjectInv, NEW e \in Sensing!Events, NEW pin \in Sensing!Pins, NEW m,
         Sensing!EnableEvent(e, pin, m)
  PROVE  ObjectInv'
  <1>1. PICK ok \in BOOLEAN :
           /\ Sensing!Returns(Sensing!EventSteps(e, m) \o Sensing!Route(pin, {e}, {}, {}), ok)
           /\ on' = [d \in Sensing!Events |->
                       IF d = e /\ ok THEN on[d] \cup {pin}
                       ELSE IF d \in Sensing!EmbeddedEvents
                                   /\ e \in Sensing!EmbeddedEvents /\ ~ok
                            THEN {} ELSE on[d]]
    BY DEF Sensing!EnableEvent
  <1>2. /\ e = "step_detector" => pin = "int1"
        /\ off' = [off EXCEPT ![e] = @ \ {pin}]
        /\ begun' = begun \cup {e}
    BY DEF Sensing!EnableEvent
  <1> DEFINE a == Sensing!EventSteps(e, m)
             r == Sensing!Route(pin, {e}, {}, {})
             s == a \o r
             basic == PinRoute(pin, {e}, {})
             emb == EmbRoute(pin, {e}, {})
             enabled == Enabled(pin, {e}, {}, {})
             other == Sensing!Other(pin)
             emb0 == sensor[Sensing!Embedded(pin)]
             epin == Sensing!Embedded(pin)
             eother == Sensing!Embedded(other)
             Three == {pin, epin, "interrupts_enable"}
             grown == sensor["emb"] \cup {e}
  <1>3. SensorIsFunction /\ EventFields \subseteq DOMAIN sensor /\ RoutesTyped
    BY DEF ObjectInv
  <1>4. /\ IsSteps(r)
        /\ Keeps(r, pin, {sensor[pin], basic}) /\ EndsIn(r, pin, {basic})
        /\ Keeps(r, epin, {emb}) /\ EndsIn(r, epin, {emb})
        /\ Keeps(r, "interrupts_enable", {enabled}) /\ EndsIn(r, "interrupts_enable", {enabled})
        /\ \A f : f \notin Three => Untouched(r, f)
    BY RouteSteps
  <1>5. /\ IsSteps(a)
        /\ \A f \in RouteFields : Untouched(a, f)
        /\ e \notin Sensing!EmbeddedEvents => Untouched(a, "emb")
        /\ e \in Sensing!EmbeddedEvents =>
              Keeps(a, "emb", {sensor["emb"], {}, grown}) /\ EndsIn(a, "emb", {grown})
        /\ \A f \in ResetFields \ Marks[e] : Keeps(a, f, {0})
    BY EventStepsFacts DEF EventFacts
  <1>6. {e} \in SUBSET Signals /\ {} \in SUBSET Signals
    BY SignalNames
  <1>7. /\ basic \in SUBSET Basic /\ emb \in SUBSET Sensing!EmbeddedEvents
        /\ \A d \in Sensing!Events \ {} :
              /\ d \in sensor[pin] => d \in basic
              /\ d \in emb0 => d \in emb /\ "emb_func" \in basic
        /\ \A d \in Sensing!Events \ {e} :
              /\ d \notin sensor[pin] => d \notin basic
              /\ d \notin emb0 => d \notin emb
              /\ d \in {} => d \notin basic /\ d \notin emb
        /\ \A d \in Sensing!Events \cap {e} :
              IF d \in Sensing!EmbeddedEvents THEN d \in emb /\ "emb_func" \in basic
                                              ELSE d \in basic /\ enabled
        /\ \A d \in Sensing!Events \ {} : d \in sensor[pin] => enabled
        /\ \A d \in Sensing!Events \ {} : d \in sensor[other] => enabled
    BY <1>3, <1>6, RouteValues, Zenon
  <1> HIDE DEF a, r, basic, emb, enabled, other
  <1>8. /\ pin \in RouteFields /\ epin \in RouteFields /\ "interrupts_enable" \in RouteFields
        /\ other \in RouteFields /\ eother \in RouteFields
        /\ Sensing!Pins = {pin, other} /\ other # pin
        /\ other \notin Three /\ eother \notin Three
    <2>1. CASE pin = "int1"
      BY <2>1, PinNames DEF RouteFields, other
    <2>2. CASE pin = "int2"
      BY <2>2, PinNames DEF RouteFields, other
    <2> QED
      BY <2>1, <2>2, PinNames
  <1>9. /\ RouteFields \subseteq DOMAIN sensor /\ "emb" \in DOMAIN sensor
        /\ ResetFields \subseteq DOMAIN sensor
        /\ \A f \in ResetFields \cup {"emb"} : f \notin Three
    BY <1>3, <1>8, Disjoint
  <1> HIDE DEF Three, epin, eother
  <1>10. IsSteps(s)
    BY <1>4, <1>5, StepsConcat
  <1>11. /\ DOMAIN sensor' = DOMAIN sensor /\ SensorIsFunction'
         /\ \A f \in DOMAIN sensor : \A A : sensor[f] \in A /\ Keeps(s, f, A) => sensor'[f] \in A
         /\ \A f \in DOMAIN sensor : \A A : ok /\ EndsIn(s, f, A) => sensor'[f] \in A
         /\ \A f \in DOMAIN sensor : Untouched(s, f) => sensor'[f] = sensor[f]
    <2>1. Sensing!Returns(s, ok)
      BY <1>1 DEF a, r
    <2> HIDE DEF s
    <2> QED
      BY <1>3, <1>10, <2>1, FieldReturns
  <1>12. ASSUME NEW f \in RouteFields, NEW A, Keeps(r, f, A) PROVE Keeps(s, f, A)
    BY <1>4, <1>5, <1>12, UntouchedKeeps, KeepsConcat
  <1>13. ASSUME NEW f, NEW A, EndsIn(r, f, A) PROVE EndsIn(s, f, A)
    BY <1>4, <1>5, <1>13, EndsConcat
  <1>14. sensor'[other] = sensor[other] /\ sensor'[eother] = sensor[eother]
    <2>1. Untouched(s, other) /\ Untouched(s, eother)
      BY <1>4, <1>5, <1>8, UntouchedConcat
    <2> HIDE DEF s
    <2> QED
      BY <1>8, <1>9, <1>11, <2>1
  <1>15. sensor'[pin] \in {sensor[pin], basic} /\ (ok => sensor'[pin] = basic)
    <2>1. Keeps(s, pin, {sensor[pin], basic}) /\ EndsIn(s, pin, {basic})
      BY <1>4, <1>8, <1>12, <1>13
    <2> HIDE DEF s
    <2> QED
      BY <1>8, <1>9, <1>11, <2>1
  <1>16. sensor'[epin] \in {sensor[epin], emb} /\ (ok => sensor'[epin] = emb)
    <2>1. Keeps(r, epin, {sensor[epin], emb})
      BY <1>4 DEF Keeps
    <2>2. Keeps(s, epin, {sensor[epin], emb}) /\ EndsIn(s, epin, {emb})
      BY <1>4, <1>8, <1>12, <1>13, <2>1
    <2> HIDE DEF s
    <2> QED
      BY <1>8, <1>9, <1>11, <2>2
  <1>17. /\ sensor'["interrupts_enable"] \in {sensor["interrupts_enable"], enabled}
         /\ ok => sensor'["interrupts_enable"] = enabled
    <2>1. Keeps(r, "interrupts_enable", {sensor["interrupts_enable"], enabled})
      BY <1>4 DEF Keeps
    <2>2. /\ Keeps(s, "interrupts_enable", {sensor["interrupts_enable"], enabled})
          /\ EndsIn(s, "interrupts_enable", {enabled})
      BY <1>4, <1>8, <1>12, <1>13, <2>1
    <2> HIDE DEF s
    <2> QED
      BY <1>8, <1>9, <1>11, <2>2
  <1>18. /\ e \notin Sensing!EmbeddedEvents => sensor'["emb"] = sensor["emb"]
         /\ e \in Sensing!EmbeddedEvents =>
               /\ sensor'["emb"] \in {sensor["emb"], {}, grown}
               /\ ok => sensor'["emb"] = grown
    <2>1. Untouched(r, "emb")
      BY <1>4, <1>9
    <2>2. e \notin Sensing!EmbeddedEvents => Untouched(s, "emb")
      BY <1>4, <1>5, <2>1, UntouchedConcat
    <2>3. ASSUME e \in Sensing!EmbeddedEvents
          PROVE  Keeps(s, "emb", {sensor["emb"], {}, grown}) /\ EndsIn(s, "emb", {grown})
      <3>1. Keeps(r, "emb", {sensor["emb"], {}, grown}) /\ Keeps(r, "emb", {grown})
        BY <2>1, UntouchedKeeps
      <3>2. Keeps(a, "emb", {sensor["emb"], {}, grown}) /\ EndsIn(a, "emb", {grown})
        BY <1>5, <2>3
      <3> HIDE DEF grown
      <3>3. Keeps(s, "emb", {sensor["emb"], {}, grown})
        BY <1>4, <1>5, <3>1, <3>2, KeepsConcat
      <3>4. EndsIn(s, "emb", {grown})
        BY <1>4, <1>5, <3>1, <3>2, EndsConcat
      <3> QED
        BY <3>3, <3>4
    <2> HIDE DEF s, grown
    <2> QED
      BY <1>9, <1>11, <2>2, <2>3
  <1>19. ASSUME NEW f \in ResetFields
         PROVE  sensor'[f] = 0 \/ \E d \in begun' : f \in Marks[d]
    <2>1. CASE f \in Marks[e]
      BY <1>2, <2>1
    <2>2. CASE f \notin Marks[e]
      <3>1. Keeps(a, f, {0, sensor[f]}) /\ Keeps(r, f, {0, sensor[f]})
        <4>1. Keeps(a, f, {0})
          BY <1>5, <2>2
        <4>2. Untouched(r, f)
          BY <1>4, <1>9
        <4> QED
          BY <4>1, <4>2, UntouchedKeeps DEF Keeps
      <3>2. Keeps(s, f, {0, sensor[f]})
        BY <1>4, <1>5, <3>1, KeepsConcat
      <3> HIDE DEF s
      <3>3. sensor'[f] \in {0, sensor[f]}
        BY <1>9, <1>11, <3>2
      <3>4. sensor[f] = 0 \/ \E d \in begun : f \in Marks[d]
        BY DEF ObjectInv
      <3> QED
        BY <1>2, <3>3, <3>4
    <2> QED
      BY <2>1, <2>2
  <1>20. RoutesTyped'
    <2>1. sensor'[pin] \in SUBSET Basic /\ sensor'[epin] \in SUBSET Sensing!EmbeddedEvents
      BY <1>3, <1>7, <1>15, <1>16 DEF RoutesTyped, epin
    <2>2. sensor'[other] \in SUBSET Basic /\ sensor'[eother] \in SUBSET Sensing!EmbeddedEvents
      BY <1>3, <1>8, <1>14 DEF RoutesTyped, eother
    <2> QED
      BY <1>8, <2>1, <2>2 DEF RoutesTyped, epin, eother
  <1>21. sensor'["emb"] \in SUBSET (Sensing!EmbeddedEvents \cap begun')
    BY <1>2, <1>18 DEF ObjectInv
  <1>22. /\ on' \in [Sensing!Events -> SUBSET Sensing!Pins]
         /\ off' \in [Sensing!Events -> SUBSET Sensing!Pins]
         /\ begun' \in SUBSET Sensing!Events
         /\ \A d \in Sensing!Events :
               /\ on'[d] = IF d = e /\ ok THEN on[d] \cup {pin}
                           ELSE IF d \in Sensing!EmbeddedEvents
                                   /\ e \in Sensing!EmbeddedEvents /\ ~ok
                                THEN {} ELSE on[d]
               /\ off'[d] = IF d = e THEN off[d] \ {pin} ELSE off[d]
    BY <1>1, <1>2 DEF ObjectInv
  <1>23. "int2" \in off'["step_detector"]
    <2>1. "step_detector" \in Sensing!Events /\ "int2" \in off["step_detector"]
      BY EventNames DEF ObjectInv
    <2> QED
      BY <1>2, <1>22, <2>1
  <1>24. ASSUME NEW d \in Sensing!Events, NEW p \in Sensing!Pins
         PROVE  LET routed == d \in sensor'[p] \cup sensor'[Sensing!Embedded(p)]
                IN  /\ p \in on'[d] =>
                          /\ routed
                          /\ IF d \in Sensing!EmbeddedEvents
                             THEN "emb_func" \in sensor'[p] /\ d \in sensor'["emb"]
                             ELSE sensor'["interrupts_enable"]
                    /\ p \in off'[d] => ~routed
    <2> DEFINE ep == Sensing!Embedded(p)
    <2>1. /\ p \in on[d] =>
                /\ d \in sensor[p] \cup sensor[ep]
                /\ IF d \in Sensing!EmbeddedEvents
                   THEN "emb_func" \in sensor[p] /\ d \in sensor["emb"]
                   ELSE sensor["interrupts_enable"]
          /\ p \in off[d] => d \notin sensor[p] \cup sensor[ep]
      BY DEF ObjectInv, Sensing!EventsRouted
    <2>2. /\ d \in Sensing!EmbeddedEvents => d \notin sensor[p]
          /\ d \notin Sensing!EmbeddedEvents => d \notin sensor[ep]
      BY <1>3, SignalNames DEF RoutesTyped
    <2>3. /\ d \in sensor[p] => d \in sensor'[p]
          /\ d \in sensor[ep] => d \in sensor'[ep]
          /\ d \in sensor[ep] /\ "emb_func" \in sensor[p] => "emb_func" \in sensor'[p]
          /\ d \in sensor[p] /\ sensor["interrupts_enable"] => sensor'["interrupts_enable"]
      <3>1. CASE p = pin
        BY <1>7, <1>15, <1>16, <1>17, <3>1 DEF epin
      <3>2. CASE p = other
        BY <1>7, <1>14, <1>17, <3>2 DEF eother
      <3> QED
        BY <1>8, <3>1, <3>2
    <2>4. d # e \/ p # pin =>
             /\ d \notin sensor[p] => d \notin sensor'[p]
             /\ d \notin sensor[ep] => d \notin sensor'[ep]
      <3>1. CASE p = pin
        BY <1>7, <1>15, <1>16, <3>1 DEF epin
      <3>2. CASE p = other
        BY <1>14, <3>2 DEF eother
      <3> QED
        BY <1>8, <3>1, <3>2
    <2>5. p \in off'[d] => d \notin sensor'[p] \cup sensor'[ep]
      BY <1>22, <2>1, <2>4
    <2>6. ASSUME p \in on'[d], d \in Sensing!EmbeddedEvents => e \notin Sensing!EmbeddedEvents \/ ok
          PROVE  d \in Sensing!EmbeddedEvents /\ d \in sensor["emb"] => d \in sensor'["emb"]
      BY <1>18, <2>6
    <2>7. CASE d = e /\ ok /\ p = pin
      <3>1. IF d \in Sensing!EmbeddedEvents
            THEN d \in sensor'[ep] /\ "emb_func" \in sensor'[p]
            ELSE d \in sensor'[p] /\ sensor'["interrupts_enable"]
        BY <1>7, <1>15, <1>16, <1>17, <2>7 DEF epin
      <3>2. d \in Sensing!EmbeddedEvents => d \in sensor'["emb"]
        BY <1>18, <2>7
      <3> QED
        BY <2>5, <3>1, <3>2
    <2>8. CASE ~(d = e /\ ok /\ p = pin)
      <3>1. p \in on'[d] =>
               p \in on[d]
                 /\ (d \in Sensing!EmbeddedEvents => e \notin Sensing!EmbeddedEvents \/ ok)
        BY <1>22, <2>8
      <3> QED
        BY <2>1, <2>2, <2>3, <2>5, <2>6, <3>1
    <2> QED
      BY <2>7, <2>8
  <1>25. Sensing!EventsRouted'
    BY <1>24 DEF Sensing!EventsRouted
  <1> QED
    BY <1>3, <1>11, <1>19, <1>20, <1>21, <1>22, <1>23, <1>25 DEF ObjectInv

(* The routes an event is removed from.                                     *)
LEMMA UnrouteSteps ==
  ASSUME RoutesTyped, NEW e \in Sensing!Events
  PROVE  LET s == Sensing!Unroute(e)
             I1 == Enabled("int1", {}, {e}, {})
             I2 == Enabled("int2", {}, {e}, {e})
             route == [f \in {"int1", "int2", "emb_int1", "emb_int2"} |->
                          CASE f = "int1" -> PinRoute("int1", {}, {e})
                            [] f = "int2" -> PinRoute("int2", {}, {e})
                            [] f = "emb_int1" -> EmbRoute("int1", {}, {e})
                            [] f = "emb_int2" -> EmbRoute("int2", {}, {e})]
         IN  /\ IsSteps(s)
             /\ \A f \in {"int1", "int2", "emb_int1", "emb_int2"} :
                   /\ Keeps(s, f, {sensor[f], route[f]})
                   /\ e # "step_detector" \/ f \in {"int1", "emb_int1"} => EndsIn(s, f, {route[f]})
             /\ Keeps(s, "interrupts_enable", {I1, I2})
             /\ \A f : f \notin RouteFields => Untouched(s, f)
  <1> DEFINE a == Sensing!Route("int1", {}, {e}, {})
             r == Sensing!Route("int2", {}, {e}, {e})
             b == IF e = "step_detector" THEN <<>> ELSE r
             s == a \o b
             B1 == PinRoute("int1", {}, {e})
             B2 == PinRoute("int2", {}, {e})
             E1 == EmbRoute("int1", {}, {e})
             E2 == EmbRoute("int2", {}, {e})
             I1 == Enabled("int1", {}, {e}, {})
             I2 == Enabled("int2", {}, {e}, {e})
  <1>1. Sensing!Unroute(e) = s
    BY DEF Sensing!Unroute
  <1>2. /\ IsSteps(a)
        /\ Keeps(a, "int1", {sensor["int1"], B1}) /\ EndsIn(a, "int1", {B1})
        /\ Keeps(a, "emb_int1", {E1}) /\ EndsIn(a, "emb_int1", {E1})
        /\ Keeps(a, "interrupts_enable", {I1})
        /\ \A f : f \notin {"int1", "emb_int1", "interrupts_enable"} => Untouched(a, f)
    <2>1. "int1" \in Sensing!Pins /\ Sensing!Embedded("int1") = "emb_int1"
      BY PinNames
    <2>2. LET ep == Sensing!Embedded("int1")
          IN  /\ IsSteps(a)
              /\ Keeps(a, "int1", {sensor["int1"], B1}) /\ EndsIn(a, "int1", {B1})
              /\ Keeps(a, ep, {E1}) /\ EndsIn(a, ep, {E1})
              /\ Keeps(a, "interrupts_enable", {I1})
              /\ \A f : f \notin {"int1", ep, "interrupts_enable"} => Untouched(a, f)
      BY <2>1, RouteSteps
    <2> HIDE DEF a, B1, E1, I1
    <2> QED
      BY <2>1, <2>2
  <1>3. /\ IsSteps(r)
        /\ Keeps(r, "int2", {sensor["int2"], B2}) /\ EndsIn(r, "int2", {B2})
        /\ Keeps(r, "emb_int2", {E2}) /\ EndsIn(r, "emb_int2", {E2})
        /\ Keeps(r, "interrupts_enable", {I2})
        /\ \A f : f \notin {"int2", "emb_int2", "interrupts_enable"} => Untouched(r, f)
    <2>1. "int2" \in Sensing!Pins /\ Sensing!Embedded("int2") = "emb_int2"
      BY PinNames
    <2>2. LET ep == Sensing!Embedded("int2")
          IN  /\ IsSteps(r)
              /\ Keeps(r, "int2", {sensor["int2"], B2}) /\ EndsIn(r, "int2", {B2})
              /\ Keeps(r, ep, {E2}) /\ EndsIn(r, ep, {E2})
              /\ Keeps(r, "interrupts_enable", {I2})
              /\ \A f : f \notin {"int2", ep, "interrupts_enable"} => Untouched(r, f)
      BY <2>1, RouteSteps
    <2> HIDE DEF r, B2, E2, I2
    <2> QED
      BY <2>1, <2>2
  <1> HIDE DEF a, r, B1, B2, E1, E2, I1, I2
  <1>4. /\ IsSteps(b)
        /\ Keeps(b, "int2", {sensor["int2"], B2})
        /\ Keeps(b, "emb_int2", {sensor["emb_int2"], E2})
        /\ e # "step_detector" => EndsIn(b, "int2", {B2}) /\ EndsIn(b, "emb_int2", {E2})
        /\ Keeps(b, "interrupts_enable", {I1, I2})
        /\ \A f : f \notin {"int2", "emb_int2", "interrupts_enable"} => Untouched(b, f)
    <2>1. CASE e = "step_detector"
      <3>1. b = <<>> /\ IsSteps(b) /\ DOMAIN b = {}
        BY <2>1, ShortSteps
      <3> HIDE DEF b
      <3> QED
        BY <2>1, <3>1 DEF Keeps, Untouched
    <2>2. CASE e # "step_detector"
      <3>1. b = r
        BY <2>2
      <3> HIDE DEF b
      <3>2. /\ Keeps(r, "emb_int2", {sensor["emb_int2"], E2})
            /\ Keeps(r, "interrupts_enable", {I1, I2})
        BY <1>3 DEF Keeps
      <3> QED
        BY <1>3, <2>2, <3>1, <3>2
    <2> QED
      BY <2>1, <2>2
  <1> HIDE DEF b
  <1>5. IsSteps(s)
    BY <1>2, <1>4, StepsConcat
  <1>6. /\ Keeps(a, "emb_int1", {sensor["emb_int1"], E1})
        /\ Keeps(a, "interrupts_enable", {I1, I2})
    BY <1>2 DEF Keeps
  <1>7. /\ Keeps(b, "int1", {sensor["int1"], B1}) /\ Keeps(b, "int1", {B1})
        /\ Keeps(b, "emb_int1", {sensor["emb_int1"], E1}) /\ Keeps(b, "emb_int1", {E1})
        /\ Keeps(a, "int2", {sensor["int2"], B2})
        /\ Keeps(a, "emb_int2", {sensor["emb_int2"], E2})
    <2>1. Untouched(b, "int1") /\ Untouched(b, "emb_int1")
          /\ Untouched(a, "int2") /\ Untouched(a, "emb_int2")
      BY <1>2, <1>4
    <2> QED
      BY <2>1, UntouchedKeeps
  <1>8. Keeps(s, "int1", {sensor["int1"], B1}) /\ EndsIn(s, "int1", {B1})
    BY <1>2, <1>4, <1>7, KeepsConcat, EndsConcat
  <1>9. Keeps(s, "emb_int1", {sensor["emb_int1"], E1}) /\ EndsIn(s, "emb_int1", {E1})
    BY <1>2, <1>4, <1>6, <1>7, KeepsConcat, EndsConcat
  <1>10. Keeps(s, "int2", {sensor["int2"], B2})
         /\ (e # "step_detector" => EndsIn(s, "int2", {B2}))
    BY <1>2, <1>4, <1>7, KeepsConcat, EndsConcat
  <1>11. Keeps(s, "emb_int2", {sensor["emb_int2"], E2})
         /\ (e # "step_detector" => EndsIn(s, "emb_int2", {E2}))
    BY <1>2, <1>4, <1>7, KeepsConcat, EndsConcat
  <1>12. Keeps(s, "interrupts_enable", {I1, I2})
    BY <1>2, <1>4, <1>6, KeepsConcat
  <1>13. ASSUME NEW f, f \notin RouteFields PROVE Untouched(s, f)
    <2>1. Untouched(a, f) /\ Untouched(b, f)
      BY <1>2, <1>4, <1>13 DEF RouteFields
    <2> QED
      BY <1>2, <1>4, <2>1, UntouchedConcat
  <1> HIDE DEF s
  <1> DEFINE four == {"int1", "int2", "emb_int1", "emb_int2"}
             route == [f \in four |-> CASE f = "int1" -> B1
                                        [] f = "int2" -> B2
                                        [] f = "emb_int1" -> E1
                                        [] f = "emb_int2" -> E2]
  <1>14. /\ route["int1"] = B1 /\ route["int2"] = B2
         /\ route["emb_int1"] = E1 /\ route["emb_int2"] = E2
    OBVIOUS
  <1> HIDE DEF route
  <1>15. ASSUME NEW f \in four
         PROVE  /\ Keeps(s, f, {sensor[f], route[f]})
                /\ e # "step_detector" \/ f \in {"int1", "emb_int1"} => EndsIn(s, f, {route[f]})
    BY <1>8, <1>9, <1>10, <1>11, <1>14
  <1> QED
    BY <1>1, <1>5, <1>12, <1>13, <1>15 DEF route, B1, B2, E1, E2, I1, I2

(* An event is disabled: it is removed from the pins, and what it set reset.  *)
LEMMA DisableStep ==
  ASSUME ObjectInv, NEW e \in Sensing!Events, Sensing!DisableEvent(e)
  PROVE  ObjectInv'
  <1>1. PICK ok \in BOOLEAN :
           /\ Sensing!Returns(Sensing!Unroute(e) \o Sensing!ResetSteps(e), ok)
           /\ on' = [on EXCEPT ![e] = {}]
           /\ off' = IF ok THEN [off EXCEPT ![e] = Sensing!Pins] ELSE off
           /\ begun' = IF ok THEN begun \ {e} ELSE begun
    BY DEF Sensing!DisableEvent
  <1> DEFINE a == Sensing!Unroute(e)
             r == Sensing!ResetSteps(e)
             s == a \o r
             four == {"int1", "int2", "emb_int1", "emb_int2"}
             route == [f \in four |->
                          CASE f = "int1" -> PinRoute("int1", {}, {e})
                            [] f = "int2" -> PinRoute("int2", {}, {e})
                            [] f = "emb_int1" -> EmbRoute("int1", {}, {e})
                            [] f = "emb_int2" -> EmbRoute("int2", {}, {e})]
             I1 == Enabled("int1", {}, {e}, {})
             I2 == Enabled("int2", {}, {e}, {e})
             shrunk == sensor["emb"] \ {e}
  <1>2. SensorIsFunction /\ EventFields \subseteq DOMAIN sensor /\ RoutesTyped
    BY DEF ObjectInv
  <1>3. /\ IsSteps(a)
        /\ \A f \in four :
              /\ Keeps(a, f, {sensor[f], route[f]})
              /\ e # "step_detector" \/ f \in {"int1", "emb_int1"} => EndsIn(a, f, {route[f]})
        /\ Keeps(a, "interrupts_enable", {I1, I2})
        /\ \A f : f \notin RouteFields => Untouched(a, f)
    BY <1>2, UnrouteSteps, Zenon
  <1>4. /\ IsSteps(r)
        /\ \A f \in RouteFields : Untouched(r, f)
        /\ e \notin Sensing!EmbeddedEvents => Untouched(r, "emb")
        /\ e \in Sensing!EmbeddedEvents =>
              Keeps(r, "emb", {sensor["emb"], shrunk}) /\ EndsIn(r, "emb", {shrunk})
        /\ \A f \in ResetFields : Keeps(r, f, {0})
        /\ \A f \in Marks[e] : EndsIn(r, f, {0})
    BY ResetStepsFacts DEF EventFacts
  <1>5. {e} \in SUBSET Signals /\ {} \in SUBSET Signals
    BY SignalNames
  <1>6. /\ route["int1"] = PinRoute("int1", {}, {e}) /\ route["int2"] = PinRoute("int2", {}, {e})
        /\ route["emb_int1"] = EmbRoute("int1", {}, {e})
        /\ route["emb_int2"] = EmbRoute("int2", {}, {e})
    <2>1. /\ "int1" \in four /\ "int2" \in four /\ "emb_int1" \in four /\ "emb_int2" \in four
      OBVIOUS
    <2>2. \A f \in four : route[f] = CASE f = "int1" -> PinRoute("int1", {}, {e})
                            [] f = "int2" -> PinRoute("int2", {}, {e})
                            [] f = "emb_int1" -> EmbRoute("int1", {}, {e})
                            [] f = "emb_int2" -> EmbRoute("int2", {}, {e})
      OBVIOUS
    <2> HIDE DEF route
    <2> QED
      BY <2>1, <2>2
  <1>7. /\ \A p \in Sensing!Pins :
              /\ route[p] \in SUBSET Basic
              /\ route[Sensing!Embedded(p)] \in SUBSET Sensing!EmbeddedEvents
              /\ \A d \in Sensing!Events \ {e} :
                    /\ d \in sensor[p] => d \in route[p]
                    /\ d \in sensor[Sensing!Embedded(p)] =>
                          d \in route[Sensing!Embedded(p)] /\ "emb_func" \in route[p]
              /\ \A d \in Sensing!Events \ {} :
                    /\ d \notin sensor[p] => d \notin route[p]
                    /\ d \notin sensor[Sensing!Embedded(p)] => d \notin route[Sensing!Embedded(p)]
                    /\ d \in {e} => d \notin route[p] /\ d \notin route[Sensing!Embedded(p)]
        /\ \A p \in Sensing!Pins : \A d \in Sensing!Events \ {e} : d \in sensor[p] => I1 /\ I2
    <2>1. "int1" \in Sensing!Pins /\ "int2" \in Sensing!Pins
          /\ \A p \in Sensing!Pins : p = "int1" \/ p = "int2"
      BY PinNames
    <2>2. ASSUME NEW p \in Sensing!Pins, NEW earlier \in {{}, {e}}
          PROVE  LET basic == PinRoute(p, {}, {e})
                     emb == EmbRoute(p, {}, {e})
                     enabled == Enabled(p, {}, {e}, earlier)
                     other == Sensing!Other(p)
                     emb0 == sensor[Sensing!Embedded(p)]
                 IN  /\ basic \in SUBSET Basic /\ emb \in SUBSET Sensing!EmbeddedEvents
                     /\ \A d \in Sensing!Events \ {e} :
                           /\ d \in sensor[p] => d \in basic
                           /\ d \in emb0 => d \in emb /\ "emb_func" \in basic
                     /\ \A d \in Sensing!Events \ {} :
                           /\ d \notin sensor[p] => d \notin basic
                           /\ d \notin emb0 => d \notin emb
                           /\ d \in {e} => d \notin basic /\ d \notin emb
                     /\ \A d \in Sensing!Events \cap {} :
                           IF d \in Sensing!EmbeddedEvents THEN d \in emb /\ "emb_func" \in basic
                                                           ELSE d \in basic /\ enabled
                     /\ \A d \in Sensing!Events \ {e} : d \in sensor[p] => enabled
                     /\ \A d \in Sensing!Events \ earlier : d \in sensor[other] => enabled
      BY <1>2, <1>5, RouteValues, Zenon
    <2> HIDE DEF route
    <2>3. ASSUME NEW p \in Sensing!Pins
          PROVE  /\ route[p] = PinRoute(p, {}, {e})
                 /\ route[Sensing!Embedded(p)] = EmbRoute(p, {}, {e})
      BY <1>6, <2>1, PinNames
    <2>4. ASSUME NEW p \in Sensing!Pins, NEW d \in Sensing!Events \ {e}, d \in sensor[p]
          PROVE  I1 /\ I2
      <3>1. /\ \A x \in Sensing!Events \ {e} : x \in sensor["int1"] => I1
            /\ \A x \in Sensing!Events \ {} : x \in sensor["int2"] => I1
        BY <2>1, <2>2, PinNames
      <3>2. /\ \A x \in Sensing!Events \ {e} : x \in sensor["int2"] => I2
            /\ \A x \in Sensing!Events \ {e} : x \in sensor["int1"] => I2
        BY <2>1, <2>2, PinNames
      <3> HIDE DEF I1, I2
      <3> QED
        BY <2>1, <2>4, <3>1, <3>2
    <2>5. ASSUME NEW p \in Sensing!Pins
          PROVE  /\ route[p] \in SUBSET Basic
                 /\ route[Sensing!Embedded(p)] \in SUBSET Sensing!EmbeddedEvents
                 /\ \A d \in Sensing!Events \ {e} :
                       /\ d \in sensor[p] => d \in route[p]
                       /\ d \in sensor[Sensing!Embedded(p)] =>
                             d \in route[Sensing!Embedded(p)] /\ "emb_func" \in route[p]
                 /\ \A d \in Sensing!Events \ {} :
                       /\ d \notin sensor[p] => d \notin route[p]
                       /\ d \notin sensor[Sensing!Embedded(p)] => d \notin route[Sensing!Embedded(p)]
                       /\ d \in {e} => d \notin route[p] /\ d \notin route[Sensing!Embedded(p)]
      <3> DEFINE basic == PinRoute(p, {}, {e})
                 emb == EmbRoute(p, {}, {e})
                 ep == Sensing!Embedded(p)
      <3>1. /\ basic \in SUBSET Basic /\ emb \in SUBSET Sensing!EmbeddedEvents
            /\ \A d \in Sensing!Events \ {e} :
                  /\ d \in sensor[p] => d \in basic
                  /\ d \in sensor[ep] => d \in emb /\ "emb_func" \in basic
            /\ \A d \in Sensing!Events \ {} :
                  /\ d \notin sensor[p] => d \notin basic
                  /\ d \notin sensor[ep] => d \notin emb
                  /\ d \in {e} => d \notin basic /\ d \notin emb
        <4>1. {e} \in {{}, {e}}
          OBVIOUS
        <4> QED
          BY <2>2, <4>1, Zenon
      <3>2. route[p] = basic /\ route[ep] = emb
        BY <2>3
      <3> HIDE DEF basic, emb, ep
      <3>3. /\ route[p] \in SUBSET Basic /\ route[ep] \in SUBSET Sensing!EmbeddedEvents
            /\ \A d \in Sensing!Events \ {e} :
                  /\ d \in sensor[p] => d \in route[p]
                  /\ d \in sensor[ep] => d \in route[ep] /\ "emb_func" \in route[p]
            /\ \A d \in Sensing!Events \ {} :
                  /\ d \notin sensor[p] => d \notin route[p]
                  /\ d \notin sensor[ep] => d \notin route[ep]
                  /\ d \in {e} => d \notin route[p] /\ d \notin route[ep]
        BY <3>1, <3>2
      <3> QED
        BY <3>3 DEF ep
    <2> HIDE DEF I1, I2
    <2> QED
      BY <2>4, <2>5, Zenon
  <1> HIDE DEF a, r, route, I1, I2
  <1>8. /\ RouteFields = four \cup {"interrupts_enable"} /\ four \subseteq DOMAIN sensor
        /\ \A p \in Sensing!Pins : p \in four /\ Sensing!Embedded(p) \in four
        /\ "interrupts_enable" \in DOMAIN sensor /\ "emb" \in DOMAIN sensor
        /\ ResetFields \subseteq DOMAIN sensor
        /\ \A f \in ResetFields \cup {"emb"} : f \notin RouteFields
        /\ four \subseteq RouteFields /\ "interrupts_enable" \in RouteFields
    BY <1>2, PinNames, Disjoint DEF RouteFields
  <1> HIDE DEF four
  <1>9. IsSteps(s)
    BY <1>3, <1>4, StepsConcat
  <1>10. /\ DOMAIN sensor' = DOMAIN sensor /\ SensorIsFunction'
         /\ \A f \in DOMAIN sensor : \A A : sensor[f] \in A /\ Keeps(s, f, A) => sensor'[f] \in A
         /\ \A f \in DOMAIN sensor : \A A : ok /\ EndsIn(s, f, A) => sensor'[f] \in A
         /\ \A f \in DOMAIN sensor : Untouched(s, f) => sensor'[f] = sensor[f]
    <2>1. Sensing!Returns(s, ok)
      BY <1>1 DEF a, r
    <2> HIDE DEF s
    <2> QED
      BY <1>2, <1>9, <2>1, FieldReturns
  <1>11. ASSUME NEW f \in four
         PROVE  /\ sensor'[f] \in {sensor[f], route[f]}
                /\ ok /\ (e # "step_detector" \/ f \in {"int1", "emb_int1"}) => sensor'[f] = route[f]
    <2>1. /\ Keeps(a, f, {sensor[f], route[f]}) /\ f \in RouteFields /\ f \in DOMAIN sensor
          /\ e # "step_detector" \/ f \in {"int1", "emb_int1"} => EndsIn(a, f, {route[f]})
      BY <1>3, <1>8
    <2>2. Keeps(r, f, {sensor[f], route[f]}) /\ Keeps(r, f, {route[f]})
      BY <1>4, <2>1, UntouchedKeeps
    <2>3. Keeps(s, f, {sensor[f], route[f]})
      BY <1>3, <1>4, <2>1, <2>2, KeepsConcat
    <2>4. e # "step_detector" \/ f \in {"int1", "emb_int1"} => EndsIn(s, f, {route[f]})
      BY <1>3, <1>4, <2>1, <2>2, EndsConcat
    <2> HIDE DEF s
    <2> QED
      BY <1>10, <2>1, <2>3, <2>4
  <1>12. sensor'["interrupts_enable"] \in {sensor["interrupts_enable"], I1, I2}
    <2>1. Keeps(a, "interrupts_enable", {sensor["interrupts_enable"], I1, I2})
      BY <1>3 DEF Keeps
    <2>2. Keeps(r, "interrupts_enable", {sensor["interrupts_enable"], I1, I2})
      BY <1>4, <1>8, UntouchedKeeps
    <2>3. Keeps(s, "interrupts_enable", {sensor["interrupts_enable"], I1, I2})
      BY <1>3, <1>4, <2>1, <2>2, KeepsConcat
    <2> HIDE DEF s
    <2> QED
      BY <1>8, <1>10, <2>3
  <1>13. /\ e \notin Sensing!EmbeddedEvents => sensor'["emb"] = sensor["emb"]
         /\ e \in Sensing!EmbeddedEvents =>
               /\ sensor'["emb"] \in {sensor["emb"], shrunk}
               /\ ok => sensor'["emb"] = shrunk
    <2>1. Untouched(a, "emb")
      BY <1>3, <1>8
    <2>2. e \notin Sensing!EmbeddedEvents => Untouched(s, "emb")
      BY <1>3, <1>4, <2>1, UntouchedConcat
    <2>3. ASSUME e \in Sensing!EmbeddedEvents
          PROVE  Keeps(s, "emb", {sensor["emb"], shrunk}) /\ EndsIn(s, "emb", {shrunk})
      <3>1. Keeps(a, "emb", {sensor["emb"], shrunk})
        BY <2>1, UntouchedKeeps
      <3>2. Keeps(r, "emb", {sensor["emb"], shrunk}) /\ EndsIn(r, "emb", {shrunk})
        BY <1>4, <2>3
      <3> HIDE DEF shrunk
      <3> QED
        BY <1>3, <1>4, <3>1, <3>2, KeepsConcat, EndsConcat
    <2> HIDE DEF s, shrunk
    <2> QED
      BY <1>8, <1>10, <2>2, <2>3
  <1>14. ASSUME NEW f \in ResetFields
         PROVE  sensor'[f] = 0 \/ \E d \in begun' : f \in Marks[d]
    <2>1. Untouched(a, f) /\ f \in DOMAIN sensor
      BY <1>3, <1>8
    <2>2. Keeps(a, f, {0, sensor[f]}) /\ Keeps(r, f, {0, sensor[f]})
      <3>1. Keeps(r, f, {0})
        BY <1>4
      <3> QED
        BY <2>1, <3>1, UntouchedKeeps DEF Keeps
    <2>3. Keeps(s, f, {0, sensor[f]})
      BY <1>3, <1>4, <2>2, KeepsConcat
    <2>4. f \in Marks[e] => EndsIn(s, f, {0})
      BY <1>3, <1>4, EndsConcat
    <2> HIDE DEF s
    <2>5. sensor'[f] \in {0, sensor[f]} /\ (ok /\ f \in Marks[e] => sensor'[f] = 0)
      BY <1>10, <2>1, <2>3, <2>4
    <2>6. sensor[f] = 0 \/ \E d \in begun : f \in Marks[d]
      BY DEF ObjectInv
    <2> QED
      BY <1>1, <2>5, <2>6
  <1>15. RoutesTyped'
    <2> SUFFICES ASSUME NEW p \in Sensing!Pins
                 PROVE  /\ sensor'[p] \in SUBSET Basic
                        /\ sensor'[Sensing!Embedded(p)] \in SUBSET Sensing!EmbeddedEvents
      BY DEF RoutesTyped
    <2> QED
      BY <1>2, <1>7, <1>8, <1>11 DEF RoutesTyped
  <1>16. sensor'["emb"] \in SUBSET (Sensing!EmbeddedEvents \cap begun')
    BY <1>1, <1>13 DEF ObjectInv
  <1>17. /\ on' \in [Sensing!Events -> SUBSET Sensing!Pins]
         /\ off' \in [Sensing!Events -> SUBSET Sensing!Pins]
         /\ begun' \in SUBSET Sensing!Events
         /\ \A d \in Sensing!Events :
               /\ on'[d] = IF d = e THEN {} ELSE on[d]
               /\ off'[d] = IF d = e /\ ok THEN Sensing!Pins ELSE off[d]
    BY <1>1 DEF ObjectInv
  <1>18. "int2" \in off'["step_detector"]
    <2>1. "step_detector" \in Sensing!Events /\ "int2" \in off["step_detector"]
      BY EventNames DEF ObjectInv
    <2> QED
      BY <1>17, <2>1, PinNames
  <1>19. ASSUME NEW d \in Sensing!Events, NEW p \in Sensing!Pins
         PROVE  LET routed == d \in sensor'[p] \cup sensor'[Sensing!Embedded(p)]
                IN  /\ p \in on'[d] =>
                          /\ routed
                          /\ IF d \in Sensing!EmbeddedEvents
                             THEN "emb_func" \in sensor'[p] /\ d \in sensor'["emb"]
                             ELSE sensor'["interrupts_enable"]
                    /\ p \in off'[d] => ~routed
    <2> DEFINE ep == Sensing!Embedded(p)
    <2>1. /\ p \in on[d] =>
                /\ d \in sensor[p] \cup sensor[ep]
                /\ IF d \in Sensing!EmbeddedEvents
                   THEN "emb_func" \in sensor[p] /\ d \in sensor["emb"]
                   ELSE sensor["interrupts_enable"]
          /\ p \in off[d] => d \notin sensor[p] \cup sensor[ep]
      BY DEF ObjectInv, Sensing!EventsRouted
    <2>2. /\ d \in Sensing!EmbeddedEvents => d \notin sensor[p]
          /\ d \notin Sensing!EmbeddedEvents => d \notin sensor[ep]
      BY <1>2, SignalNames DEF RoutesTyped
    <2>3. /\ sensor'[p] \in {sensor[p], route[p]} /\ sensor'[ep] \in {sensor[ep], route[ep]}
          /\ ok /\ (e # "step_detector" \/ p = "int1") =>
                sensor'[p] = route[p] /\ sensor'[ep] = route[ep]
      BY <1>8, <1>11, PinNames
    <2>4. /\ d \notin sensor[p] => d \notin sensor'[p]
          /\ d \notin sensor[ep] => d \notin sensor'[ep]
      BY <1>7, <2>3
    <2>5. p \in off'[d] => d \notin sensor'[p] \cup sensor'[ep]
      <3>1. CASE d = e /\ ok
        <4>1. CASE e # "step_detector" \/ p = "int1"
          BY <1>7, <2>3, <3>1, <4>1
        <4>2. CASE e = "step_detector" /\ p = "int2"
          <5>1. p \in off[d]
            BY <3>1, <4>2 DEF ObjectInv
          <5> QED
            BY <2>1, <2>4, <5>1
        <4> QED
          BY <4>1, <4>2, PinNames
      <3>2. CASE ~(d = e /\ ok)
        BY <1>17, <2>1, <2>4, <3>2
      <3> QED
        BY <3>1, <3>2
    <2>6. CASE d = e
      BY <1>17, <2>5, <2>6
    <2>7. CASE d # e
      <3>1. /\ d \in sensor[p] => d \in sensor'[p]
            /\ d \in sensor[ep] => d \in sensor'[ep]
            /\ d \in sensor[ep] /\ "emb_func" \in sensor[p] => "emb_func" \in sensor'[p]
        BY <1>7, <2>3, <2>7
      <3>2. d \in sensor[p] /\ sensor["interrupts_enable"] => sensor'["interrupts_enable"]
        BY <1>7, <1>12, <2>7
      <3>3. d \in sensor["emb"] => d \in sensor'["emb"]
        BY <1>13, <2>7
      <3>4. on'[d] = on[d]
        BY <1>17, <2>7
      <3> QED
        BY <2>1, <2>2, <2>5, <3>1, <3>2, <3>3, <3>4
    <2> QED
      BY <2>6, <2>7
  <1>20. Sensing!EventsRouted'
    BY <1>19 DEF Sensing!EventsRouted
  <1> QED
    BY <1>2, <1>10, <1>14, <1>15, <1>16, <1>17, <1>18, <1>20 DEF ObjectInv

LEMMA ObjectInit == DevicesInit => ObjectInv
  <1> SUFFICES ASSUME Sensing!Init PROVE ObjectInv
    BY DEF DevicesInit
  <1> DEFINE all == Sensing!Flags \cup Sensing!Routes \cup Sensing!Numbers \cup DOMAIN Sensing!Reset
             start(f) == CASE f \in Sensing!Flags -> FALSE
                           [] f \in Sensing!Routes -> {}
                           [] f \in Sensing!Numbers -> 0
                           [] f \in DOMAIN Sensing!Reset -> Sensing!Reset[f]
  <1>1. sensor = [f \in all |-> start(f)]
    BY DEF Sensing!Init
  <1>2. DOMAIN Sensing!Reset = ResetFields /\ \A f \in ResetFields : Sensing!Reset[f] = 0
    BY DEF Sensing!Reset, ResetFields
  <1>3. EventFields \subseteq all
    BY <1>2 DEF EventFields, RouteFields, Sensing!Flags, Sensing!Routes
  <1>4. SensorIsFunction /\ DOMAIN sensor = all
    <2> HIDE DEF all, start
    <2> QED
      BY <1>1 DEF SensorIsFunction
  <1>5. ASSUME NEW f \in Sensing!Routes PROVE sensor[f] = {}
    <2>1. /\ f \notin Sensing!Flags /\ f \notin Sensing!Numbers /\ f \notin DOMAIN Sensing!Reset
      BY <1>2 DEF ResetFields, Sensing!Flags, Sensing!Routes, Sensing!Numbers
    <2>2. f \in all
      OBVIOUS
    <2>3. start(f) = {}
      BY <2>1
    <2> HIDE DEF all, start
    <2> QED
      BY <1>1, <2>2, <2>3
  <1>6. ASSUME NEW f \in ResetFields PROVE sensor[f] = 0
    <2>1. f \notin Sensing!Flags /\ f \notin Sensing!Routes /\ f \notin Sensing!Numbers
      BY DEF ResetFields, Sensing!Flags, Sensing!Routes, Sensing!Numbers
    <2>2. f \in all
      BY <1>2
    <2>3. start(f) = 0
      BY <1>2, <2>1
    <2> HIDE DEF all, start
    <2> QED
      BY <1>1, <2>2, <2>3
  <1>7. /\ "emb" \in Sensing!Routes
        /\ \A p \in Sensing!Pins : p \in Sensing!Routes /\ Sensing!Embedded(p) \in Sensing!Routes
    BY PinNames DEF Sensing!Routes
  <1>8. /\ on = [e \in Sensing!Events |-> {}] /\ off = [e \in Sensing!Events |-> Sensing!Pins]
        /\ begun = {}
    BY DEF Sensing!Init
  <1> HIDE DEF all, start
  <1>9. "int2" \in off["step_detector"]
    BY <1>8, EventNames, PinNames
  <1>10. Sensing!EventsRouted
    BY <1>5, <1>7, <1>8 DEF Sensing!EventsRouted
  <1>11. RoutesTyped
    BY <1>5, <1>7 DEF RoutesTyped
  <1> QED
    BY <1>3, <1>4, <1>5, <1>6, <1>7, <1>8, <1>9, <1>10, <1>11 DEF ObjectInv

LEMMA ObjectNext ==
  ASSUME [DevicesNext]_allVars
  PROVE  [Sensing!Next]_objectVars
  BY DEF DevicesNext, allVars

LEMMA InitObjectStep ==
  ASSUME ObjectInv, Sensing!InitObject
  PROVE  ObjectInv'
  <1> DEFINE a == <<Sensing!Read("odr_xl"), Sensing!Assign("acc_odr", Sensing!ODR_104Hz),
                    Sensing!Write("odr_xl", Sensing!ODR_OFF), Sensing!Write("fs_xl", 0),
                    Sensing!Assign("gyro_odr", Sensing!ODR_104Hz),
                    Sensing!Write("odr_g", Sensing!ODR_OFF), Sensing!Write("fs_g", 6),
                    Sensing!Assign("is_initialized", TRUE)>>
  <1>1. PICK ok \in BOOLEAN : Sensing!Returns(a, ok)
    BY DEF Sensing!InitObject
  <1>2. on' = on /\ off' = off /\ begun' = begun
    BY DEF Sensing!InitObject, Sensing!eventHistory
  <1>3. \A k \in 1..8 : a[k].field \in RateFields
    <2>1. /\ a[1].field = "odr_xl" /\ a[2].field = "acc_odr" /\ a[3].field = "odr_xl"
          /\ a[4].field = "fs_xl" /\ a[5].field = "gyro_odr" /\ a[6].field = "odr_g"
          /\ a[7].field = "fs_g" /\ a[8].field = "is_initialized"
      BY DEF Sensing!Read, Sensing!WriteEmbedded, Sensing!Write, Sensing!Assign
    <2> HIDE DEF a
    <2> QED
      BY <2>1 DEF RateFields
  <1>4. DOMAIN a = 1..8 /\ a \in [1..8 -> {a[k] : k \in 1..8}]
    OBVIOUS
  <1> HIDE DEF a
  <1>5. OnlyRates(a)
    BY <1>3, <1>4 DEF OnlyRates, IsSteps
  <1> QED
    BY <1>1, <1>2, <1>5, RatesOnly

LEMMA DeInitObjectStep ==
  ASSUME ObjectInv, Sensing!DeInitObject
  PROVE  ObjectInv'
  <1> DEFINE a == Sensing!DisableSteps(Sensing!acc)
             b == Sensing!DisableSteps(Sensing!gyro)
             c == <<Sensing!Assign("acc_odr", Sensing!ODR_OFF),
                    Sensing!Assign("gyro_odr", Sensing!ODR_OFF),
                    Sensing!Assign("is_initialized", FALSE)>>
  <1>1. PICK ok \in BOOLEAN : Sensing!Returns((a \o b) \o c, ok)
    BY DEF Sensing!DeInitObject
  <1>2. on' = on /\ off' = off /\ begun' = begun
    BY DEF Sensing!DeInitObject, Sensing!eventHistory
  <1>3. OnlyRates(a) /\ OnlyRates(b)
    BY RateStepsFields
  <1>4. OnlyRates(c)
    <2>1. /\ Sensing!Assign("acc_odr", Sensing!ODR_OFF).field \in RateFields
          /\ Sensing!Assign("gyro_odr", Sensing!ODR_OFF).field \in RateFields
          /\ Sensing!Assign("is_initialized", FALSE).field \in RateFields
      BY DEF Sensing!Assign, Sensing!Write, RateFields
    <2> QED
      BY <2>1, OnlyRatesShort
  <1> HIDE DEF a, b, c
  <1>5. OnlyRates((a \o b) \o c)
    BY <1>3, <1>4, OnlyRatesConcat
  <1> QED
    BY <1>1, <1>2, <1>5, RatesOnly

LEMMA RatesStepObject ==
  ASSUME ObjectInv, NEW x \in {Sensing!acc, Sensing!gyro}, NEW r, NEW m,
         Sensing!Enable(x) \/ Sensing!Disable(x) \/ Sensing!SetOutputDataRate(x, r, m)
  PROVE  ObjectInv'
  <1>1. on' = on /\ off' = off /\ begun' = begun
    BY DEF Sensing!Enable, Sensing!Disable, Sensing!SetOutputDataRate, Sensing!eventHistory
  <1>2. \E ok \in BOOLEAN : \/ Sensing!Returns(Sensing!EnableSteps(x), ok)
                            \/ Sensing!Returns(Sensing!DisableSteps(x), ok)
                            \/ Sensing!Returns(Sensing!RateSteps(x, r, m), ok)
    BY DEF Sensing!Enable, Sensing!Disable, Sensing!SetOutputDataRate
  <1>3. PICK ok \in BOOLEAN : \/ Sensing!Returns(Sensing!EnableSteps(x), ok)
                              \/ Sensing!Returns(Sensing!DisableSteps(x), ok)
                              \/ Sensing!Returns(Sensing!RateSteps(x, r, m), ok)
    BY <1>2
  <1>4. /\ OnlyRates(Sensing!EnableSteps(x)) /\ OnlyRates(Sensing!DisableSteps(x))
        /\ OnlyRates(Sensing!RateSteps(x, r, m))
    BY RateStepsFields
  <1> QED
    BY <1>1, <1>3, <1>4, RatesOnly

LEMMA DataReadyStep ==
  ASSUME ObjectInv, Sensing!DataReady
  PROVE  ObjectInv'
  <1>1. on' = on /\ off' = off /\ begun' = begun
    BY DEF Sensing!DataReady, Sensing!eventHistory
  <1>2. PICK ok \in BOOLEAN :
           \/ Sensing!Returns(Sensing!Route("int1", {"drdy_xl"}, {"drdy_g"}, {}), ok)
           \/ Sensing!Returns(Sensing!Route("int1", {}, {"drdy_xl"}, {}), ok)
           \/ Sensing!Returns(Sensing!Route("int2", {"drdy_g"}, {"drdy_xl"}, {}), ok)
    BY DEF Sensing!DataReady
  <1>3. /\ "int1" \in Sensing!Pins /\ "int2" \in Sensing!Pins
        /\ {} \in SUBSET {"drdy_xl", "drdy_g"} /\ {"drdy_xl"} \in SUBSET {"drdy_xl", "drdy_g"}
        /\ {"drdy_g"} \in SUBSET {"drdy_xl", "drdy_g"}
    BY PinNames
  <1> QED
    BY <1>1, <1>2, <1>3, DrdyRoute

LEMMA ObjectStep ==
  ASSUME ObjectInv, [Sensing!Next]_objectVars
  PROVE  ObjectInv'
  <1>1. CASE UNCHANGED objectVars
    <2>1. sensor' = sensor /\ on' = on /\ off' = off /\ begun' = begun
      BY <1>1 DEF objectVars
    <2>2. SensorIsFunction' /\ DOMAIN sensor' = DOMAIN sensor
      BY <2>1 DEF ObjectInv, SensorIsFunction
    <2> QED
      BY <2>1, <2>2, EventsStay
  <1>2. CASE Sensing!InitObject
    BY <1>2, InitObjectStep
  <1>3. CASE Sensing!DeInitObject
    BY <1>3, DeInitObjectStep
  <1>4. CASE Sensing!DataReady
    BY <1>4, DataReadyStep
  <1>5. ASSUME NEW x \in {Sensing!acc, Sensing!gyro}, NEW r, NEW m,
               Sensing!Enable(x) \/ Sensing!Disable(x) \/ Sensing!SetOutputDataRate(x, r, m)
        PROVE  ObjectInv'
    BY <1>5, RatesStepObject
  <1>6. ASSUME NEW e \in Sensing!Events, Sensing!DisableEvent(e) PROVE ObjectInv'
    BY <1>6, DisableStep
  <1>7. ASSUME NEW e \in Sensing!Events, NEW p \in Sensing!Pins, NEW m, Sensing!EnableEvent(e, p, m)
        PROVE  ObjectInv'
    BY <1>7, EnableStep
  <1> QED
    BY <1>1, <1>2, <1>3, <1>4, <1>5, <1>6, <1>7 DEF Sensing!Next

LEMMA ObjectSound == ObjectInv => Sensing!EventsRouted /\ Sensing!NothingLeft
  <1> SUFFICES ASSUME ObjectInv PROVE Sensing!NothingLeft
    BY DEF ObjectInv
  <1>1. DOMAIN Sensing!Reset = ResetFields /\ \A f \in ResetFields : Sensing!Reset[f] = 0
    BY DEF Sensing!Reset, ResetFields
  <1> QED
    BY <1>1 DEF ObjectInv, Sensing!NothingLeft

-------------------------------------------------------------------------------
(***************************************************************************)
(* The registers' fields.                                                   *)
(***************************************************************************)
(* Fields assigned one after another.                                       *)
PutStages(b, parts, v, n, e) ==
  /\ e[0] = b
  /\ \A k \in 1..n : e[k] = Accessing!PutPart(e[k - 1], parts[k], v)
  /\ Accessing!Put(b, parts, v) = e[n]

LEMMA PutByStages ==
  ASSUME NEW n \in Nat, NEW parts, DOMAIN parts = 1..n, NEW V, NEW b \in V, NEW v,
         \A c \in V, k \in 1..n : Accessing!PutPart(c, parts[k], v) \in V
  PROVE  \E e \in [0..n -> V] : PutStages(b, parts, v, n, e)
  <1> DEFINE g == [p \in (1..n) \X V |-> Accessing!PutPart(p[2], parts[p[1]], v)]
             Fold(iter) == iter = [s \in SUBSET (DOMAIN parts) |->
                               IF s = {} THEN b
                               ELSE Accessing!PutPart(iter[s \ {Top(s)}], parts[Top(s)], v)]
             J == CHOOSE iter : Fold(iter)
  <1>1. g \in [(1..n) \X V -> V]
    OBVIOUS
  <1>2. PICK it \in [SUBSET (1..n) -> V] : Folds(n, b, g, it)
    <2> HIDE DEF g
    <2> QED
      BY <1>1, FoldDefined
  <1>3. Fold(it)
    <2>1. ASSUME NEW s \in SUBSET (1..n), s # {}
          PROVE  it[s] = Accessing!PutPart(it[s \ {Top(s)}], parts[Top(s)], v)
      <3>1. Top(s) \in 1..n
        BY <2>1, TopIn
      <3>2. it[s \ {Top(s)}] \in V
        OBVIOUS
      <3>3. it[s] = g[<<Top(s), it[s \ {Top(s)}]>>]
        BY <1>2, <2>1 DEF Folds
      <3> QED
        BY <3>1, <3>2, <3>3
    <2>2. it[{}] = b
      BY <1>2 DEF Folds
    <2>3. \A s \in SUBSET (1..n) :
             it[s] = IF s = {} THEN b
                     ELSE Accessing!PutPart(it[s \ {Top(s)}], parts[Top(s)], v)
      BY <2>1, <2>2
    <2> QED
      BY <2>3
  <1>4. Fold(J)
    <2> HIDE DEF Fold
    <2> QED
      BY <1>3
  <1>5. Accessing!Put(b, parts, v) = J[1..n]
    BY DEF Accessing!Put, Accessing!FoldLeft, Accessing!MapThenFoldSet, Accessing!Max, Top
  <1> HIDE DEF J
  <1>6. J[1..0] = b
    <2>1. 1..0 = {} /\ {} \in SUBSET (1..n)
      OBVIOUS
    <2> QED
      BY <1>4, <2>1
  <1>7. ASSUME NEW k \in 1..n
        PROVE  J[1..k] = Accessing!PutPart(J[1..(k - 1)], parts[k], v)
    <2>1. 1..k \in SUBSET (1..n) /\ 1..k # {}
      <3>1. k \in 1..k /\ \A i \in 1..k : i \in 1..n
        OBVIOUS
      <3> QED
        BY <3>1
    <2>2. Top(1..k) = k
      <3>1. k \in 1..k /\ \A y \in 1..k : k >= y
        OBVIOUS
      <3> QED
        BY <2>1, <3>1, TopIs
    <2>3. (1..k) \ {k} = 1..(k - 1)
      OBVIOUS
    <2> QED
      BY <1>4, <2>1, <2>2, <2>3
  <1> DEFINE e == [k \in 0..n |-> J[1..k]]
             S == {k \in Nat : k <= n => J[1..k] \in V}
  <1>8. \A k \in Nat : k \in S
    <2>1. 0 \in S
      BY <1>6
    <2>2. ASSUME NEW k \in Nat, k \in S PROVE k + 1 \in S
      <3> SUFFICES ASSUME k + 1 <= n PROVE J[1..(k + 1)] \in V
        OBVIOUS
      <3>1. k + 1 \in 1..n /\ (k + 1) - 1 = k /\ J[1..k] \in V
        BY <2>2
      <3> QED
        BY <1>7, <3>1
    <2> HIDE DEF S
    <2> QED
      BY <2>1, <2>2, NatSetInduction
  <1>9. e \in [0..n -> V]
    BY <1>8
  <1>10. e[0] = b /\ \A k \in 1..n : e[k] = Accessing!PutPart(e[k - 1], parts[k], v)
    <2>1. \A k \in 1..n : k \in 0..n /\ k - 1 \in 0..n
      OBVIOUS
    <2>2. 0 \in 0..n
      OBVIOUS
    <2> QED
      BY <1>6, <1>7, <2>1, <2>2
  <1>11. Accessing!Put(b, parts, v) = e[n]
    BY <1>5
  <1> HIDE DEF e
  <1> QED
    BY <1>9, <1>10, <1>11 DEF PutStages

(* The fields of a byte, and the bits in them.                              *)
BytePart(p) ==
  \E lo \in 0..8, w \in 0..8, from \in 0..16 : p = <<lo, w, from>> /\ lo + w <= 8
ByteParts(parts) == \E n \in Nat : DOMAIN parts = 1..n /\ \A k \in 1..n : BytePart(parts[k])
InParts(parts, n) == {i \in 0..7 : \E k \in 1..n : i \in FieldIn(parts[k][1], parts[k][2])}

\* The part of a value that goes into a field.
PartOf(v, p) == (v \div TwoTo(p[3])) % TwoTo(p[2])

LEMMA PutPartAssigns ==
  ASSUME NEW p, BytePart(p), NEW b, NEW v \in Nat
  PROVE  \E lo \in 0..8, w \in 0..8, x \in Nat :
           /\ p[1] = lo /\ p[2] = w /\ lo + w <= 8 /\ x < TwoTo(w) /\ (v = 0 => x = 0)
           /\ x = PartOf(v, p) /\ Accessing!PutPart(b, p, v) = Assigned(b, lo, w, x)
  <1>1. PICK lo \in 0..8, w \in 0..8, from \in 0..16 : p = <<lo, w, from>> /\ lo + w <= 8
    BY DEF BytePart
  <1>2. lo \in 0..16 /\ w \in 0..16
    OBVIOUS
  <1>3. PICK F \in Nat : F = TwoTo(from) /\ F > 0
    BY PowersPositive
  <1>4. PICK W \in Nat : W = TwoTo(w) /\ W > 0
    BY <1>2, PowersPositive
  <1>5. PICK x \in Nat : x = (v \div F) % W /\ x < W /\ (v = 0 => x = 0)
    <2>1. v \div F \in Nat
      BY <1>3, DivIs
    <2>2. (v \div F) % W \in Nat /\ (v \div F) % W < W
      BY <1>4, <2>1, DivIs
    <2>3. ASSUME v = 0 PROVE (v \div F) % W = 0
      <3>1. 0 \div F = 0
        BY <1>3, IntDivMod
      <3>2. 0 % W = 0
        BY <1>4, IntDivMod
      <3> QED
        BY <2>3, <3>1, <3>2
    <2> QED
      BY <2>2, <2>3
  <1>6. p[1] = lo /\ p[2] = w /\ p[3] = from
    BY <1>1
  <1>7. Accessing!PutPart(b, p, v) = Assigned(b, lo, w, x)
    BY <1>3, <1>4, <1>5, <1>6 DEF Accessing!PutPart, Accessing!Holds, Assigned, TwoTo
  <1>8. x = PartOf(v, p) /\ x < TwoTo(w) /\ lo + w <= 8
    BY <1>1, <1>3, <1>4, <1>5, <1>6 DEF PartOf
  <1> QED
    BY <1>5, <1>6, <1>7, <1>8

LEMMA PutPartBits ==
  ASSUME NEW p, BytePart(p), NEW b \in 0..255, NEW v \in Nat
  PROVE  Assigns(Accessing!PutPart(b, p, v), b, FieldIn(p[1], p[2]), v)
  <1>1. PICK lo \in 0..8, w \in 0..8, x \in Nat :
          /\ p[1] = lo /\ p[2] = w /\ lo + w <= 8 /\ x < TwoTo(w) /\ (v = 0 => x = 0)
          /\ Accessing!PutPart(b, p, v) = Assigned(b, lo, w, x)
    BY PutPartAssigns
  <1>2. Assigns(Assigned(b, lo, w, x), b, FieldIn(lo, w), x)
    BY <1>1, FieldBits
  <1>3. Assigns(Assigned(b, lo, w, x), b, FieldIn(lo, w), v)
    BY <1>1, <1>2 DEF Assigns
  <1> QED
    BY <1>1, <1>3, Zenon

LEMMA PutBits ==
  ASSUME NEW parts, NEW n \in Nat, DOMAIN parts = 1..n, \A k \in 1..n : BytePart(parts[k]),
         NEW b \in 0..255, NEW v \in Nat
  PROVE  Assigns(Accessing!Put(b, parts, v), b, InParts(parts, n), v)
  <1>1. \A c \in 0..255, k \in 1..n : Accessing!PutPart(c, parts[k], v) \in 0..255
    BY PutPartBits DEF Assigns
  <1>2. PICK e \in [0..n -> 0..255] : PutStages(b, parts, v, n, e)
    BY <1>1, PutByStages
  <1>3. /\ e[0] = b /\ Accessing!Put(b, parts, v) = e[n]
        /\ \A k \in 1..n : e[k] = Accessing!PutPart(e[k - 1], parts[k], v)
    BY <1>2 DEF PutStages
  <1> DEFINE S == {k \in Nat : k <= n => Assigns(e[k], b, InParts(parts, k), v)}
  <1>4. 0 \in S
    <2>1. InParts(parts, 0) = {}
      BY DEF InParts
    <2> HIDE DEF S
    <2>2. Assigns(e[0], b, {}, v)
      BY <1>3 DEF Assigns
    <2> USE DEF S
    <2> QED
      BY <2>1, <2>2
  <1>5. ASSUME NEW k \in Nat, k \in S PROVE k + 1 \in S
    <2> SUFFICES ASSUME k + 1 <= n PROVE Assigns(e[k + 1], b, InParts(parts, k + 1), v)
      OBVIOUS
    <2>1. k + 1 \in 1..n /\ (k + 1) - 1 = k /\ k \in 0..n /\ k <= n
      OBVIOUS
    <2>2. e[k + 1] = Accessing!PutPart(e[k], parts[k + 1], v) /\ BytePart(parts[k + 1])
          /\ e[k] \in 0..255
      BY <1>3, <2>1
    <2> DEFINE f == FieldIn(parts[k + 1][1], parts[k + 1][2])
    <2>3. Assigns(e[k + 1], e[k], f, v)
      BY <2>2, PutPartBits
    <2>4. Assigns(e[k], b, InParts(parts, k), v)
      BY <1>5, <2>1
    <2>5. \A i \in 0..7 : i \in InParts(parts, k + 1) <=> i \in InParts(parts, k) \/ i \in f
      <3>1. \A j : j \in 1..(k + 1) <=> j \in 1..k \/ j = k + 1
        OBVIOUS
      <3> QED
        BY <3>1 DEF InParts
    <2> HIDE DEF f
    <2> QED
      BY <2>3, <2>4, <2>5 DEF Assigns
  <1>6. n \in S
    <2> HIDE DEF S
    <2> QED
      BY <1>4, <1>5, NatSetInduction
  <1>7. n <= n
    OBVIOUS
  <1> QED
    BY <1>3, <1>6, <1>7

(* Assigning fields of a byte leaves the bits outside them.                 *)
LEMMA OthersOfByte ==
  ASSUME NEW parts, ByteParts(parts), NEW b \in 0..255, NEW v \in Nat
  PROVE  /\ Accessing!Put(b, parts, v) \in 0..255
         /\ Accessing!OtherBits(Accessing!Put(b, parts, v), parts) = Accessing!OtherBits(b, parts)
  <1>1. PICK n \in Nat : DOMAIN parts = 1..n /\ \A k \in 1..n : BytePart(parts[k])
    BY DEF ByteParts
  <1> DEFINE c == Accessing!Put(b, parts, v)
             x == Accessing!Put(b, parts, 0)
             y == Accessing!Put(c, parts, 0)
             I == InParts(parts, n)
  <1>2. Assigns(c, b, I, v)
    BY <1>1, PutBits
  <1>3. c \in 0..255
    BY <1>2 DEF Assigns
  <1>4. Assigns(x, b, I, 0)
    BY <1>1, PutBits
  <1> HIDE DEF c
  <1>5. Assigns(y, c, I, 0)
    BY <1>1, <1>3, PutBits
  <1> HIDE DEF x, y, I
  <1>6. \A i \in 0..7 : BitOf(x, i) = BitOf(y, i)
    BY <1>2, <1>4, <1>5 DEF Assigns
  <1>7. x \in 0..255 /\ y \in 0..255
    BY <1>4, <1>5 DEF Assigns
  <1>8. x = y
    BY <1>6, <1>7, BitsDetermine
  <1> QED
    BY <1>3, <1>8 DEF c, x, y, Accessing!OtherBits

LEMMA PutOne ==
  ASSUME NEW parts, DOMAIN parts = 1..1, NEW V, NEW b \in V, NEW v,
         \A c \in V : Accessing!PutPart(c, parts[1], v) \in V
  PROVE  Accessing!Put(b, parts, v) = Accessing!PutPart(b, parts[1], v)
  <1>1. \A c \in V, k \in 1..1 : Accessing!PutPart(c, parts[k], v) \in V
    OBVIOUS
  <1>2. PICK n \in Nat : n = 1
    OBVIOUS
  <1>3. DOMAIN parts = 1..n /\ \A c \in V, k \in 1..n : Accessing!PutPart(c, parts[k], v) \in V
    BY <1>1, <1>2
  <1>4. PICK e \in [0..n -> V] : PutStages(b, parts, v, n, e)
    BY <1>3, PutByStages
  <1> QED
    BY <1>2, <1>4 DEF PutStages

(* Nothing of a register that is one field is outside it.                   *)
LEMMA NothingElse ==
  ASSUME NEW w \in {8, 16}, NEW parts, DOMAIN parts = 1..1, parts[1] = <<0, w, 0>>,
         NEW b \in 0..(TwoTo(w) - 1), NEW v \in Nat
  PROVE  Accessing!Put(b, parts, v) = v % TwoTo(w) /\ Accessing!OtherBits(b, parts) = 0
  <1>1. PICK W \in Nat : W = TwoTo(w) /\ W > 0
    <2>1. w \in 0..16
      OBVIOUS
    <2> QED
      BY <2>1, PowersPositive
  <1>2. TwoTo(0) = 1
    BY PowersAre
  <1>3. DOMAIN parts = 1..1 /\ parts[1] = <<0, w, 0>>
    OBVIOUS
  <1>4. ASSUME NEW u \in Nat, NEW c \in 0..(W - 1)
        PROVE  Accessing!PutPart(c, parts[1], u) = u % W
    <2>1. Accessing!PutPart(c, parts[1], u)
             = c + (((u \div 1) % W) - ((c \div 1) % W)) * 1
      BY <1>1, <1>2, <1>3 DEF Accessing!PutPart, Accessing!Holds, TwoTo
    <2>2. u \div 1 = u /\ c \div 1 = c
      OBVIOUS
    <2>3. c % W = c
      <3>1. c \in Nat /\ c < W
        OBVIOUS
      <3> QED
        BY <3>1, SmallMod
    <2>4. u % W \in Nat /\ u % W < W
      BY <1>1, DivIs
    <2> QED
      BY <2>1, <2>2, <2>3, <2>4
  <1>5. ASSUME NEW u \in Nat PROVE Accessing!Put(b, parts, u) = u % W
    <2> DEFINE V == 0..(W - 1)
    <2>1. u % W \in V
      BY <1>1, DivIs
    <2>2. b \in V
      BY <1>1
    <2>3. \A c \in V : Accessing!PutPart(c, parts[1], u) \in V
      BY <1>4, <2>1
    <2>4. Accessing!PutPart(b, parts[1], u) = u % W
      BY <1>4, <2>2
    <2>5. DOMAIN parts = 1..1
      BY <1>3
    <2> HIDE DEF V
    <2>6. Accessing!Put(b, parts, u) = Accessing!PutPart(b, parts[1], u)
      BY <2>2, <2>3, PutOne
    <2> QED
      BY <2>4, <2>6
  <1>6. 0 % W = 0
    BY <1>1, IntDivMod
  <1> QED
    BY <1>1, <1>5, <1>6 DEF Accessing!OtherBits

(* A register is a byte, or a word that is one field and written whole.     *)
Word16 == <<<<0, 16, 0>>>>
Word8 == <<<<0, 8, 0>>>>
WordValues == 0..(TwoTo(16) - 1)
ByteValues == 0..255
Contained(a) == IF a.parts = Word16 THEN WordValues ELSE ByteValues

(* What follows from the assumption on the tables of accessors.             *)
AccessorsFit ==
  \A a \in AllAccessors :
     /\ a.parts = Word16 => a.whole
     /\ a.parts # Word16 => ByteParts(a.parts) /\ (a.whole => a.parts = Word8)
     /\ Accessing!Contents(a) \subseteq Contained(a)
     /\ a.values \subseteq Int /\ a.modulus \in Nat \ {0}
     /\ "set" \in a.calls /\ a.unselected["set"] = "read" /\ (a.whole \/ ~a.guarded) =>
           a.bank.name \in {"user", "paged"}

LEMMA AccessorsAreFit == AccessorsFit
  <1> DEFINE Parts == {p \in (0..8) \X (0..8) \X (0..16) : p[1] + p[2] <= 8}
             Packed(a) == /\ a.parts \in Seq(Parts) /\ Accessing!WidthOf(a.parts) \in 0..8
                          /\ a.whole => a.parts = Word8
  <1>1. \A a \in AllAccessors :
          /\ (a.parts = Word16 /\ a.whole) \/ Packed(a)
          /\ a.values \subseteq Int /\ a.modulus \in Nat \ {0}
          /\ "set" \in a.calls /\ a.unselected["set"] = "read" /\ (a.whole \/ ~a.guarded) =>
                a.bank.name \in {"user", "paged"}
    BY DevicesAssumption DEF Accessing!FieldsAssumption, Word16, Word8
  <1>2. \A p \in Parts : BytePart(p)
    BY DEF BytePart
  <1>3. ASSUME NEW a \in AllAccessors, Packed(a)
        PROVE  /\ ByteParts(a.parts) /\ (a.whole => a.parts = Word8)
               /\ Accessing!Contents(a) \subseteq Contained(a) /\ a.parts # Word16
    <2>1. DOMAIN a.parts = 1..Len(a.parts) /\ Len(a.parts) \in Nat
      BY <1>3
    <2>2. \A k \in 1..Len(a.parts) : a.parts[k] \in Parts
      BY <1>3
    <2>3. ByteParts(a.parts)
      BY <1>2, <2>1, <2>2 DEF ByteParts
    <2>4. a.parts # Word16
      <3>1. SUFFICES ASSUME a.parts = Word16 PROVE FALSE
        OBVIOUS
      <3>2. 1 \in DOMAIN a.parts /\ a.parts[1] = <<0, 16, 0>>
        BY <3>1 DEF Word16
      <3>3. a.parts[1] \in Parts
        BY <2>1, <2>2, <3>2
      <3> QED
        BY <3>2, <3>3
    <2>5. Accessing!Contents(a) = {0, 255}
      BY <1>3 DEF Accessing!Contents
    <2> QED
      BY <1>3, <2>3, <2>4, <2>5 DEF Contained, ByteValues
  <1>4. ASSUME NEW a \in AllAccessors, a.parts = Word16
        PROVE  Accessing!Contents(a) \subseteq Contained(a)
    <2>1. Accessing!Contents(a) \subseteq {0, 255, 65535}
      BY DEF Accessing!Contents
    <2>2. {0, 255, 65535} \subseteq WordValues
      BY PowersAre DEF WordValues
    <2> QED
      BY <1>4, <2>1, <2>2 DEF Contained
  <1> HIDE DEF Packed
  <1> QED
    BY <1>1, <1>3, <1>4 DEF AccessorsFit

LEMMA TornByte ==
  ASSUME NEW x \in ByteValues, NEW y \in ByteValues
  PROVE  (x \div 256) * 256 + (y % 256) = y
  BY SMT DEF ByteValues

LEMMA TornWord ==
  ASSUME NEW x \in WordValues, NEW y \in WordValues
  PROVE  /\ (x \div 256) * 256 + (y % 256) \in WordValues
         /\ (x \div 256) * 256 + (x % 256) = x
  <1>1. PICK B \in Nat : B = 256 /\ B > 0 /\ TwoTo(16) = B * B
    BY PowersAre
  <1>2. x \in Nat /\ y \in Nat /\ x < B * B
    BY <1>1 DEF WordValues
  <1>3. PICK a \in Nat, r \in Nat : a = x \div B /\ r = x % B /\ r < B /\ x = a * B + r
    BY <1>1, <1>2, Divided
  <1>4. PICK s \in Nat : s = y % B /\ s < B
    BY <1>1, <1>2, DivIs
  <1>5. a < B
    <2> SUFFICES ASSUME a >= B PROVE FALSE
      OBVIOUS
    <2>1. PICK e \in Nat : a = B + e
      <3>1. a = B + (a - B) /\ a - B \in Nat
        OBVIOUS
      <3> QED
        BY <3>1
    <2>2. a * B = B * B + e * B /\ e * B \in Nat
      BY <2>1
    <2> QED
      BY <1>2, <1>3, <2>2
  <1>6. a * B + s \in Nat /\ a * B + s < B * B
    BY <1>4, <1>5, Digits
  <1>7. a * B + s \in WordValues
    BY <1>1, <1>6 DEF WordValues
  <1> QED
    BY <1>1, <1>3, <1>4, <1>7

LEMMA NothingElseOfByte ==
  ASSUME NEW parts, DOMAIN parts = 1..1, parts[1] = <<0, 8, 0>>, NEW x \in ByteValues
  PROVE  Accessing!OtherBits(x, parts) = 0
  <1>1. x \in 0..(TwoTo(8) - 1) /\ 0 \in Nat /\ 8 \in {8, 16}
    BY PowersAre, SMT DEF ByteValues
  <1> QED
    BY <1>1, NothingElse, Zenon

LEMMA NothingElseOfWord ==
  ASSUME NEW parts, DOMAIN parts = 1..1, parts[1] = <<0, 16, 0>>, NEW x \in WordValues,
         NEW u \in Nat
  PROVE  Accessing!Put(x, parts, u) \in WordValues /\ Accessing!OtherBits(x, parts) = 0
  <1>1. x \in 0..(TwoTo(16) - 1) /\ 16 \in {8, 16}
    BY DEF WordValues
  <1>2. Accessing!Put(x, parts, u) = u % TwoTo(16) /\ Accessing!OtherBits(x, parts) = 0
    BY <1>1, NothingElse, Zenon
  <1>3. u % TwoTo(16) \in WordValues
    <2>1. PICK W \in Nat : W = TwoTo(16) /\ W > 0
      BY PowersPositive
    <2>2. u % W \in Nat /\ u % W < W
      BY <2>1, DivIs
    <2> QED
      BY <2>1, <2>2 DEF WordValues
  <1> QED
    BY <1>2, <1>3

LEMMA StoreKeeps ==
  ASSUME AccessorsFit, NEW a \in AllAccessors, NEW b \in Contained(a), NEW old \in Contained(a),
         NEW v \in a.values, NEW new \in Accessing!Torn(old, Accessing!Store(a, b, v))
  PROVE  /\ Accessing!Store(a, b, v) \in Accessing!Torn(old, Accessing!Store(a, b, v))
         /\ new \in Contained(a)
         /\ a.whole \/ b = old =>
               Accessing!OtherBits(new, a.parts) = Accessing!OtherBits(old, a.parts)
  <1> DEFINE u == v % a.modulus
             c == Accessing!Store(a, b, v)
  <1>1. u \in Nat
    <2>1. v \in Int /\ a.modulus \in Nat /\ a.modulus > 0
      BY DEF AccessorsFit
    <2> QED
      BY <2>1, SMT
  <1>2. c = Accessing!Put(b, a.parts, u)
    BY DEF Accessing!Store
  <1> HIDE DEF u, c
  <1>3. PICK upper \in {old, c}, lower \in {old, c} : new = (upper \div 256) * 256 + (lower % 256)
    BY DEF Accessing!Torn, c
  <1>4. (c \div 256) * 256 + (c % 256) \in Accessing!Torn(old, c)
    BY DEF Accessing!Torn
  <1>5. CASE a.parts = Word16
    <2>1. DOMAIN a.parts = 1..1 /\ a.parts[1] = <<0, 16, 0>>
      BY <1>5 DEF Word16
    <2>2. \A x \in WordValues : /\ Accessing!Put(x, a.parts, u) \in WordValues
                                /\ Accessing!OtherBits(x, a.parts) = 0
      BY <1>1, <2>1, NothingElseOfWord
    <2>3. b \in WordValues /\ old \in WordValues
      BY <1>5 DEF Contained
    <2>4. c \in WordValues
      BY <1>2, <2>2, <2>3
    <2>5. upper \in WordValues /\ lower \in WordValues
      BY <2>3, <2>4
    <2>6. new \in WordValues
      BY <1>3, <2>5, TornWord
    <2>7. c \in Accessing!Torn(old, c)
      BY <1>4, <2>4, TornWord
    <2>8. a.whole \/ b = old =>
             Accessing!OtherBits(new, a.parts) = Accessing!OtherBits(old, a.parts)
      BY <2>2, <2>3, <2>6
    <2> QED
      BY <1>5, <2>6, <2>7, <2>8 DEF c, Contained
  <1>6. CASE a.parts # Word16
    <2>1. ByteParts(a.parts) /\ (a.whole => a.parts = Word8)
      BY <1>6 DEF AccessorsFit
    <2>2. b \in ByteValues /\ old \in ByteValues
      BY <1>6 DEF Contained
    <2>3. /\ c \in ByteValues
          /\ Accessing!OtherBits(c, a.parts) = Accessing!OtherBits(b, a.parts)
      BY <1>1, <1>2, <2>1, <2>2, OthersOfByte DEF ByteValues
    <2>4. upper \in ByteValues /\ lower \in ByteValues
      BY <2>2, <2>3
    <2>5. new = lower
      BY <1>3, <2>4, TornByte
    <2>6. c \in Accessing!Torn(old, c)
      BY <1>4, <2>3, TornByte
    <2>7. ASSUME a.whole PROVE \A x \in ByteValues : Accessing!OtherBits(x, a.parts) = 0
      <3>1. DOMAIN a.parts = 1..1 /\ a.parts[1] = <<0, 8, 0>>
        BY <2>1, <2>7 DEF Word8
      <3> QED
        BY <3>1, NothingElseOfByte
    <2>8. new \in ByteValues
      BY <2>4, <2>5
    <2>9. a.whole => Accessing!OtherBits(new, a.parts) = Accessing!OtherBits(old, a.parts)
      BY <2>2, <2>7, <2>8
    <2>10. b = old => Accessing!OtherBits(new, a.parts) = Accessing!OtherBits(old, a.parts)
      BY <1>3, <2>3, <2>5
    <2> QED
      BY <1>6, <2>6, <2>8, <2>9, <2>10 DEF c, Contained
  <1> QED
    BY <1>5, <1>6

(* Before the register is written the device is as it was; it is written in *)
(* the accessor's bank, with what was read of it unless it is written whole *)
(* or was written blindly.                                                  *)
KeptInv ==
  /\ op \in AllAccessors /\ bank \in Accessing!Banks
  /\ device \in [Accessing!Banks -> Contained(op)]
  /\ first \in [Accessing!Banks -> Contained(op)]
  /\ register \in Contained(op)
  /\ reg_pc \in {"idle", "select", "read", "write", "restore"}
  /\ reg_pc # "idle" =>
        /\ reg_call \in {"set", "get"}
        /\ reg_call = "set" => value \in op.values /\ "set" \in op.calls
  /\ reg_pc \in {"select", "read", "write"} => device = first
  /\ reg_pc \in {"select", "restore"} => Accessing!Selects
  /\ ~Accessing!Selects /\ ~Accessing!Paged => bank = op.bank.name
  /\ reg_pc = "read" /\ Accessing!Selects /\ bank # op.bank.name =>
        ret = FALSE /\ op.unselected[reg_call] = "read"
  /\ reg_pc = "write" =>
        /\ reg_call = "set" /\ (Accessing!Paged \/ bank = op.bank.name)
        /\ op.guarded \/ "read" \notin failed => op.whole \/ register = device[op.bank.name]
  /\ Accessing!OthersKept

LEMMA KeptInit == AccessorsFit => (DevicesInit => KeptInv)
  <1> SUFFICES ASSUME AccessorsFit, DevicesInit PROVE KeptInv
    OBVIOUS
  <1>1. Accessing!Init
    BY DEF DevicesInit
  <1>2. op \in AllAccessors /\ reg_call = "none" /\ reg_pc = "idle" /\ bank = "user"
        /\ register = 0 /\ first = device
    BY <1>1 DEF Accessing!Init
  <1>3. op.bank.name \in Accessing!Banks
    BY <1>2, DevicesAssumption DEF Accessing!AccessorsAssumption
  <1>4. device \in [Accessing!Banks -> Contained(op)]
    BY <1>1, <1>2 DEF Accessing!Init, AccessorsFit
  <1>5. ~Accessing!Selects /\ ~Accessing!Paged => bank = op.bank.name
    BY <1>2, <1>3 DEF Accessing!Banks, Accessing!Selects, Accessing!Paged
  <1>6. register \in Contained(op)
    <2>1. 0 \in WordValues /\ 0 \in ByteValues
      BY PowersAre DEF WordValues, ByteValues
    <2> QED
      BY <1>2, <2>1 DEF Contained
  <1>7. Accessing!OthersKept
    BY <1>2 DEF Accessing!OthersKept
  <1>8. bank \in Accessing!Banks
    BY <1>2 DEF Accessing!Banks
  <1> QED
    BY <1>2, <1>4, <1>5, <1>6, <1>7, <1>8 DEF KeptInv

LEMMA KeptStep ==
  ASSUME AccessorsFit, KeptInv, [Accessing!Next]_registersVars
  PROVE  KeptInv'
  <1> USE DEF KeptInv
  <1>1. /\ op.bank.name \in Accessing!Banks
        /\ op.guarded \in BOOLEAN /\ op.whole \in BOOLEAN
        /\ \A c \in {"set", "get"} : op.unselected[c] \in {"idle", "read", "restore"}
    BY DevicesAssumption DEF Accessing!AccessorsAssumption
  <1>2. "set" \in op.calls /\ op.unselected["set"] = "read" /\ (op.whole \/ ~op.guarded) =>
           ~Accessing!Selects
    BY DEF AccessorsFit, Accessing!Selects
  <1>3. Accessing!Contents(op) \subseteq Contained(op)
    BY DEF AccessorsFit
  <1>4. \A c : Accessing!FirstTransfer(c) \in {"read", "write"}
               /\ (Accessing!FirstTransfer(c) = "write" => c = "set" /\ op.whole)
    BY DEF Accessing!FirstTransfer
  <1>5. \A ok : Accessing!Finish(ok) \in {"idle", "restore"}
                /\ (Accessing!Finish(ok) = "restore" => Accessing!Selects)
    BY DEF Accessing!Finish
  <1>6. ASSUME NEW c \in {"set", "get"}, NEW v, c = "set" => v \in op.values, Accessing!Call(c, v)
        PROVE  KeptInv'
    <2>1. /\ UNCHANGED <<op, bank, device, register>> /\ first' = device
          /\ reg_call' = c /\ value' = v /\ c \in op.calls
          /\ reg_pc' = CASE Accessing!Refused(c, v) -> "idle"
                         [] ~Accessing!Refused(c, v) /\ Accessing!Selects -> "select"
                         [] OTHER -> Accessing!FirstTransfer(c)
      BY <1>6 DEF Accessing!Call
    <2>2. Accessing!Refused(c, v) \in BOOLEAN /\ Accessing!Selects \in BOOLEAN
      BY DEF Accessing!Refused, Accessing!Selects
    <2>3. \/ reg_pc' = "idle"
          \/ reg_pc' = "select" /\ Accessing!Selects
          \/ reg_pc' = Accessing!FirstTransfer(c) /\ ~Accessing!Selects
      BY <2>1, <2>2
    <2>4. Accessing!Paged' = Accessing!Paged /\ Accessing!Selects' = Accessing!Selects
      BY <2>1 DEF Accessing!Paged, Accessing!Selects
    <2>5. Contained(op)' = Contained(op)
      BY <2>1
    <2>6. Accessing!OthersKept'
      BY <2>1 DEF Accessing!OthersKept
    <2>7. reg_pc' \in {"idle", "select", "read", "write"}
      BY <1>4, <2>3
    <2>8. reg_pc' = "write" => reg_call' = "set" /\ op.whole /\ ~Accessing!Selects
      BY <1>4, <2>1, <2>3
    <2>9. reg_pc' = "read" => ~Accessing!Selects
      BY <2>3
    <2>10. reg_pc' = "select" => Accessing!Selects
      BY <1>4, <2>3
    <2> QED
      BY <1>6, <2>1, <2>4, <2>5, <2>6, <2>7, <2>8, <2>9, <2>10
  <1>7. ASSUME Accessing!Select \/ Accessing!Read \/ Accessing!Write \/ Accessing!Restore
        PROVE  KeptInv'
    <2>1. /\ UNCHANGED <<op, reg_call, value, first>> /\ reg_pc # "idle"
          /\ reg_call \in {"set", "get"}
      BY <1>7 DEF Accessing!Select, Accessing!Read, Accessing!Write, Accessing!Restore
    <2>2. /\ Accessing!Paged' = Accessing!Paged /\ Accessing!Selects' = Accessing!Selects
          /\ Contained(op)' = Contained(op)
      BY <2>1 DEF Accessing!Paged, Accessing!Selects
    <2>3. Accessing!Selects => ~Accessing!Paged
      BY DEF Accessing!Selects, Accessing!Paged
    <2>4. reg_call = "set" => value \in op.values /\ "set" \in op.calls
      BY <2>1
    <2>5. device' = first => Accessing!OthersKept'
      BY <2>1 DEF Accessing!OthersKept
    <2> DEFINE Moved ==
          /\ bank' \in Accessing!Banks /\ device' \in [Accessing!Banks -> Contained(op)]
          /\ register' \in Contained(op)
          /\ reg_pc' \in {"idle", "read", "write", "restore"}
          /\ reg_pc' \in {"read", "write"} => device' = first
          /\ reg_pc' = "restore" => Accessing!Selects
          /\ ~Accessing!Selects /\ ~Accessing!Paged => bank' = op.bank.name
          /\ reg_pc' = "read" /\ Accessing!Selects /\ bank' # op.bank.name =>
                ret' = FALSE /\ op.unselected[reg_call] = "read"
          /\ reg_pc' = "write" =>
                /\ reg_call = "set" /\ (Accessing!Paged \/ bank' = op.bank.name)
                /\ op.guarded \/ "read" \notin failed' =>
                      op.whole \/ register' = device'[op.bank.name]
          /\ Accessing!OthersKept'
    <2>10. Moved => KeptInv'
      BY <2>1, <2>2, <2>4
    <2>6. CASE Accessing!Select
      <3>1. /\ UNCHANGED <<device, register>> /\ reg_pc = "select" /\ Accessing!Selects
            /\ device = first
        BY <2>6 DEF Accessing!Select
      <3>2. CASE bank' = op.bank.name /\ reg_pc' = Accessing!FirstTransfer(reg_call)
        <4>1. reg_pc' \in {"read", "write"} /\ (reg_pc' = "write" => reg_call = "set" /\ op.whole)
          BY <1>4, <3>2
        <4> QED
          BY <1>1, <2>5, <2>10, <3>1, <3>2, <4>1
      <3>3. CASE /\ bank' \in {bank, op.bank.name} /\ ret' = FALSE
                 /\ reg_pc' = IF op.unselected[reg_call] = "read"
                              THEN Accessing!FirstTransfer(reg_call) ELSE op.unselected[reg_call]
        <4>1. \/ reg_pc' \in {"idle", "restore"}
              \/ reg_pc' = "read" /\ op.unselected[reg_call] = "read"
          <5>1. CASE op.unselected[reg_call] = "read"
            <6>1. reg_pc' = Accessing!FirstTransfer(reg_call)
              BY <3>3, <5>1
            <6>2. Accessing!FirstTransfer(reg_call) # "write"
              BY <1>2, <1>4, <2>4, <3>1, <5>1
            <6> QED
              BY <1>4, <5>1, <6>1, <6>2
          <5>2. CASE op.unselected[reg_call] # "read"
            BY <1>1, <2>1, <3>3, <5>2
          <5> QED
            BY <5>1, <5>2
        <4> QED
          BY <1>1, <2>5, <2>10, <3>1, <3>3, <4>1
      <3> QED
        BY <2>6, <3>2, <3>3 DEF Accessing!Select
    <2>7. CASE Accessing!Read
      <3>1. /\ UNCHANGED device /\ reg_pc = "read" /\ device = first
            /\ reg_pc' = IF reg_call = "set" /\ (ret' \/ ~op.guarded) THEN "write"
                         ELSE Accessing!Finish(ret')
        BY <2>7 DEF Accessing!Read
      <3>2. /\ \/ UNCHANGED <<ret, failed>>
                  /\ register' = device[IF Accessing!Paged THEN "paged" ELSE bank]
               \/ ret' = FALSE /\ "read" \in failed' /\ register' \in Accessing!Contents(op)
            /\ bank' \in Accessing!Banks /\ (bank' = bank \/ Accessing!Paged)
        BY <2>7 DEF Accessing!Read, Accessing!Banks
      <3>3. register' \in Contained(op)
        <4>1. (IF Accessing!Paged THEN "paged" ELSE bank) \in Accessing!Banks
          BY DEF Accessing!Banks
        <4> QED
          BY <1>3, <3>2, <4>1
      <3>4. ASSUME reg_pc' = "write"
            PROVE  /\ reg_call = "set" /\ (ret' \/ ~op.guarded)
                   /\ Accessing!Paged \/ (bank = op.bank.name /\ bank' = bank)
        <4>1. reg_call = "set" /\ (ret' \/ ~op.guarded)
          BY <1>5, <3>1, <3>4
        <4>2. CASE Accessing!Selects /\ bank # op.bank.name
          <5>1. ret = FALSE /\ op.unselected["set"] = "read" /\ "set" \in op.calls
            BY <2>4, <3>1, <4>1, <4>2
          <5>2. ~op.guarded
            BY <3>2, <4>1, <5>1
          <5> QED
            BY <1>2, <4>2, <5>1, <5>2
        <4>3. CASE ~Accessing!Selects \/ bank = op.bank.name
          BY <3>2, <4>1, <4>3
        <4> QED
          BY <4>2, <4>3
      <3>5. ASSUME reg_pc' = "write", op.guarded \/ "read" \notin failed'
            PROVE  register' = device[op.bank.name]
        <4>1. register' = device[IF Accessing!Paged THEN "paged" ELSE bank]
          BY <3>2, <3>4, <3>5
        <4> QED
          BY <3>4, <3>5, <4>1 DEF Accessing!Paged
      <3>6. reg_pc' \in {"idle", "write", "restore"}
            /\ (reg_pc' = "restore" => Accessing!Selects)
        BY <1>5, <3>1
      <3> QED
        BY <2>5, <2>10, <3>1, <3>2, <3>3, <3>4, <3>5, <3>6
    <2>8. CASE Accessing!Write
      <3> DEFINE written == Accessing!Store(op, register, value)
      <3>1. /\ UNCHANGED register /\ reg_pc = "write" /\ reg_call = "set" /\ device = first
            /\ reg_pc' = Accessing!Finish(ret')
            /\ ("read" \in failed' <=> "read" \in failed)
            /\ bank' \in Accessing!Banks /\ (bank' = bank \/ Accessing!Paged)
        BY <2>8 DEF Accessing!Write, Accessing!Banks
      <3>2. (IF Accessing!Paged THEN "paged" ELSE bank) = op.bank.name
        BY <3>1 DEF Accessing!Paged
      <3>3. device[op.bank.name] \in Contained(op) /\ value \in op.values
        BY <1>1, <2>4, <3>1
      <3>4. written \in Accessing!Torn(device[op.bank.name], written)
        <4>1. \A new \in Accessing!Torn(device[op.bank.name], written) :
                written \in Accessing!Torn(device[op.bank.name], written)
          BY <3>3, StoreKeeps
        <4>2. \E new : new \in Accessing!Torn(device[op.bank.name], written)
          BY DEF Accessing!Torn
        <4> QED
          BY <4>1, <4>2
      <3>5. PICK new \in Accessing!Torn(device[op.bank.name], written) :
              device' = [device EXCEPT ![op.bank.name] = new]
        BY <2>8, <3>2, <3>4 DEF Accessing!Write
      <3>6. /\ new \in Contained(op)
            /\ op.whole \/ register = device[op.bank.name] =>
                 Accessing!OtherBits(new, op.parts)
                   = Accessing!OtherBits(device[op.bank.name], op.parts)
        BY <3>3, <3>5, StoreKeeps
      <3> HIDE DEF written
      <3>7. device' \in [Accessing!Banks -> Contained(op)]
        BY <3>5, <3>6
      <3>8. /\ device'[op.bank.name] = new
            /\ \A b \in Accessing!Banks : b # op.bank.name => device'[b] = device[b]
        BY <1>1, <3>5
      <3>9. Accessing!OthersKept'
        <4> SUFFICES ASSUME op.guarded \/ "read" \notin failed, NEW b \in Accessing!Banks
                     PROVE  IF b = op.bank.name
                            THEN Accessing!OtherBits(device'[b], op.parts)
                                   = Accessing!OtherBits(first[b], op.parts)
                            ELSE device'[b] = first[b]
          BY <2>1, <3>1 DEF Accessing!OthersKept
        <4>1. op.whole \/ register = device[op.bank.name]
          BY <3>1
        <4> QED
          BY <3>1, <3>6, <3>8, <4>1
      <3>10. reg_pc' \in {"idle", "restore"} /\ (reg_pc' = "restore" => Accessing!Selects)
        BY <1>5, <3>1
      <3>11. /\ bank' \in Accessing!Banks /\ register' \in Contained(op)
             /\ ~Accessing!Selects /\ ~Accessing!Paged => bank' = op.bank.name
        <4>1. ~Accessing!Selects /\ ~Accessing!Paged => bank = op.bank.name
          OBVIOUS
        <4>2. bank' \in Accessing!Banks /\ (bank' = bank \/ Accessing!Paged) /\ register' = register
          BY <3>1, Zenon
        <4>3. register \in Contained(op)
          OBVIOUS
        <4> HIDE DEF KeptInv
        <4> QED
          BY <4>1, <4>2, <4>3
      <3>12. Moved
        BY <3>7, <3>9, <3>10, <3>11, Zenon
      <3> QED
        BY <2>10, <3>12, Zenon
    <2>9. CASE Accessing!Restore
      <3>1. /\ UNCHANGED <<device, register>> /\ reg_pc = "restore" /\ reg_pc' = "idle"
            /\ Accessing!Selects /\ ("read" \in failed' <=> "read" \in failed)
            /\ bank' \in Accessing!Banks
        BY <2>9 DEF Accessing!Restore, Accessing!Banks
      <3>2. Accessing!OthersKept'
        BY <2>1, <3>1 DEF Accessing!OthersKept
      <3>3. Moved
        BY <3>1, <3>2
      <3> QED
        BY <2>10, <3>3, Zenon
    <2> QED
      BY <1>7, <2>6, <2>7, <2>8, <2>9
  <1>8. CASE UNCHANGED registersVars
    BY <1>8 DEF registersVars, Accessing!Paged, Accessing!Selects, Accessing!OthersKept
  <1> QED
    BY <1>6, <1>7, <1>8 DEF Accessing!Next

(* A call about one sensor or event, or one register's field, changes no    *)
(* other, whichever transfers fail: every accessor function leaves the bits *)
(* outside its fields, in its own register and every other, for every table *)
(* of accessors; and every call of the sensor object leaves the routes of   *)
(* the other events, and nothing of an event it disabled, for every set of  *)
(* uses and any failures.                                                   *)
THEOREM OthersAreKept == DevicesSpec => []OthersKept
  <1> DEFINE I == /\ part = "registers" => KeptInv
                  /\ part = "object" => ObjectInv
  <1>1. DevicesInit => I
    BY AccessorsAreFit, KeptInit, ObjectInit
  <1>2. I /\ [DevicesNext]_allVars => I'
    <2> SUFFICES ASSUME I, [DevicesNext]_allVars PROVE I'
      OBVIOUS
    <2>1. part' = part
      BY DEF DevicesNext, allVars
    <2>2. ASSUME part = "registers" PROVE KeptInv'
      <3>1. [Accessing!Next]_registersVars
        BY <2>2, RegistersNext
      <3> QED
        BY <2>2, <3>1, AccessorsAreFit, KeptStep
    <2>3. ASSUME part = "object" PROVE ObjectInv'
      <3>1. [Sensing!Next]_objectVars
        BY <2>3, ObjectNext
      <3> QED
        BY <2>3, <3>1, ObjectStep
    <2> QED
      BY <2>1, <2>2, <2>3
  <1>3. I => OthersKept
    <2>1. KeptInv => Accessing!OthersKept
      BY DEF KeptInv
    <2> QED
      BY <2>1, ObjectSound DEF OthersKept
  <1> QED
    BY <1>1, <1>2, <1>3, PTL DEF DevicesSpec

-------------------------------------------------------------------------------
(***************************************************************************)
(* What is stored in fields is what they hold.                              *)
(***************************************************************************)
\* r holds in the fields apart from p what b does.
LeavesOthers(r, b, p) ==
  \A q : BytePart(q) /\ Accessing!Apart(q, p) => Accessing!Holds(r, q) = Accessing!Holds(b, q)

LEMMA PutPartHolds ==
  ASSUME NEW p, BytePart(p), NEW b \in 0..255, NEW v \in Nat
  PROVE  /\ Accessing!PutPart(b, p, v) \in 0..255
         /\ Accessing!Holds(Accessing!PutPart(b, p, v), p) = PartOf(v, p)
         /\ LeavesOthers(Accessing!PutPart(b, p, v), b, p)
  <1>1. PICK lo \in 0..8, w \in 0..8, x \in Nat :
          /\ p[1] = lo /\ p[2] = w /\ lo + w <= 8 /\ x < TwoTo(w)
          /\ x = PartOf(v, p) /\ Accessing!PutPart(b, p, v) = Assigned(b, lo, w, x)
    BY PutPartAssigns DEF PartOf
  <1> DEFINE r == Accessing!PutPart(b, p, v)
  <1>2. r = Assigned(b, lo, w, x)
    BY <1>1
  <1>3. \A c, q : Accessing!Holds(c, q) = FieldOf(c, q[1], q[2])
    BY DEF Accessing!Holds, FieldOf, TwoTo
  <1> HIDE DEF r
  <1>4. Fills(r, b, lo, w, x)
    <2>1. lo + w <= 8 /\ x < TwoTo(w)
      BY <1>1
    <2> QED
      BY <1>2, <2>1, FieldHolds
  <1>5. r \in 0..255
    BY PutPartBits DEF r, Assigns
  <1>6. Accessing!Holds(r, p) = PartOf(v, p)
    BY <1>1, <1>3, <1>4 DEF Fills
  <1>7. ASSUME NEW q, BytePart(q), Accessing!Apart(q, p)
        PROVE  Accessing!Holds(r, q) = Accessing!Holds(b, q)
    <2>1. PICK l \in 0..8, u \in 0..8 : q[1] = l /\ q[2] = u /\ l + u <= 8
      BY <1>7 DEF BytePart
    <2>2. l + u <= lo \/ lo + w <= l
      BY <1>1, <1>7, <2>1 DEF Accessing!Apart
    <2>3. FieldOf(r, l, u) = FieldOf(b, l, u)
      BY <1>4, <2>1, <2>2 DEF Fills
    <2> QED
      BY <1>3, <2>1, <2>3
  <1> QED
    BY <1>5, <1>6, <1>7 DEF r, LeavesOthers

(* Fields that lie apart hold what was assigned to each.                    *)
LEMMA PutHolds ==
  ASSUME NEW parts, NEW n \in Nat, DOMAIN parts = 1..n, \A k \in 1..n : BytePart(parts[k]),
         \A i, j \in 1..n : i # j => Accessing!Apart(parts[i], parts[j]),
         NEW b \in 0..255, NEW v \in Nat
  PROVE  \A k \in 1..n : Accessing!Holds(Accessing!Put(b, parts, v), parts[k]) = PartOf(v, parts[k])
  <1>1. \A c \in 0..255, k \in 1..n : Accessing!PutPart(c, parts[k], v) \in 0..255
    BY PutPartBits DEF Assigns
  <1>2. PICK e \in [0..n -> 0..255] : PutStages(b, parts, v, n, e)
    BY <1>1, PutByStages
  <1>3. /\ Accessing!Put(b, parts, v) = e[n]
        /\ \A k \in 1..n : e[k] = Accessing!PutPart(e[k - 1], parts[k], v)
    BY <1>2 DEF PutStages
  <1> DEFINE Held(m) == \A k \in 1..m : Accessing!Holds(e[m], parts[k]) = PartOf(v, parts[k])
             S == {m \in Nat : m <= n => Held(m)}
  <1>4. 0 \in S
    OBVIOUS
  <1>5. ASSUME NEW m \in Nat, m \in S PROVE m + 1 \in S
    <2> SUFFICES ASSUME m + 1 <= n PROVE Held(m + 1)
      OBVIOUS
    <2>1. m + 1 \in 1..n /\ (m + 1) - 1 = m /\ m \in 0..n /\ m <= n
      OBVIOUS
    <2>2. e[m + 1] = Accessing!PutPart(e[m], parts[m + 1], v) /\ BytePart(parts[m + 1])
          /\ e[m] \in 0..255
      BY <1>3, <2>1
    <2>3. Held(m)
      BY <1>5, <2>1
    <2>4. Accessing!Holds(e[m + 1], parts[m + 1]) = PartOf(v, parts[m + 1])
      <3>1. Accessing!Holds(Accessing!PutPart(e[m], parts[m + 1], v), parts[m + 1])
              = PartOf(v, parts[m + 1])
        BY <2>2, PutPartHolds, Zenon
      <3> QED
        BY <2>2, <3>1, Zenon
    <2>5. ASSUME NEW k \in 1..m PROVE Accessing!Holds(e[m + 1], parts[k]) = PartOf(v, parts[k])
      <3>1. k \in 1..n /\ k # m + 1
        BY <2>1
      <3>2. BytePart(parts[k]) /\ Accessing!Apart(parts[k], parts[m + 1])
        BY <2>1, <3>1
      <3>3. Accessing!Holds(e[m + 1], parts[k]) = Accessing!Holds(e[m], parts[k])
        <4>1. LeavesOthers(Accessing!PutPart(e[m], parts[m + 1], v), e[m], parts[m + 1])
          BY <2>2, PutPartHolds, Zenon
        <4>2. Accessing!Holds(Accessing!PutPart(e[m], parts[m + 1], v), parts[k])
                = Accessing!Holds(e[m], parts[k])
          BY <3>2, <4>1 DEF LeavesOthers
        <4> QED
          BY <2>2, <4>2, Zenon
      <3> QED
        BY <2>3, <3>3
    <2>6. \A k \in 1..(m + 1) : k \in 1..m \/ k = m + 1
      OBVIOUS
    <2> QED
      BY <2>4, <2>5, <2>6
  <1> HIDE DEF Held
  <1>6. n \in S
    <2> HIDE DEF S
    <2> QED
      BY <1>4, <1>5, NatSetInduction
  <1>7. Held(n)
    BY <1>6
  <1> QED
    BY <1>3, <1>7 DEF Held

(* A getter sees what the fields hold.                                      *)
LEMMA TakeSame ==
  ASSUME NEW n \in Nat, NEW parts, DOMAIN parts = 1..n, NEW b, NEW c,
         \A k \in 1..n : Accessing!Holds(b, parts[k]) = Accessing!Holds(c, parts[k])
  PROVE  Accessing!Take(b, parts) = Accessing!Take(c, parts)
  <1> DEFINE F(iter) == iter = [s \in SUBSET (DOMAIN parts) |->
                           IF s = {} THEN 0
                           ELSE iter[s \ {Top(s)}]
                                  + Accessing!Holds(b, parts[Top(s)]) * 2^parts[Top(s)][3]]
             G(iter) == iter = [s \in SUBSET (DOMAIN parts) |->
                           IF s = {} THEN 0
                           ELSE iter[s \ {Top(s)}]
                                  + Accessing!Holds(c, parts[Top(s)]) * 2^parts[Top(s)][3]]
  <1>1. Accessing!Take(b, parts) = (CHOOSE iter : F(iter))[DOMAIN parts]
    BY DEF Accessing!Take, Accessing!FoldLeft, Accessing!MapThenFoldSet, Accessing!Max, Top
  <1>2. Accessing!Take(c, parts) = (CHOOSE iter : G(iter))[DOMAIN parts]
    BY DEF Accessing!Take, Accessing!FoldLeft, Accessing!MapThenFoldSet, Accessing!Max, Top
  <1>3. \A s \in SUBSET (DOMAIN parts) : s # {} =>
          Accessing!Holds(b, parts[Top(s)]) = Accessing!Holds(c, parts[Top(s)])
    <2>1. \A s \in SUBSET (1..n) : s # {} => Top(s) \in 1..n
      BY TopIn
    <2> QED
      BY <2>1
  <1>4. \A iter : F(iter) <=> G(iter)
    BY <1>3
  <1> HIDE DEF F, G
  <1>5. (CHOOSE iter : F(iter)) = (CHOOSE iter : G(iter))
    BY <1>4, Zenon
  <1> QED
    BY <1>1, <1>2, <1>5

(* What a setter stores, the getter reports, whatever the register held.   *)
LEMMA StoredIsReported ==
  ASSUME AccessorsFit, NEW a \in AllAccessors, "set" \in a.calls, "get" \in a.calls,
         NEW v \in a.values, v \notin a.refused, NEW b \in Contained(a)
  PROVE  Accessing!Report(a, Accessing!Store(a, b, v)) = v
  <1>1. PICK u \in Nat : u = v % a.modulus
    <2>1. v \in Int /\ a.modulus \in Nat \ {0}
      BY DEF AccessorsFit
    <2> QED
      BY <2>1
  <1>2. Accessing!Told(a, Accessing!Take(Accessing!Put(0, a.parts, u), a.parts)) = v
    BY <1>1, DevicesAssumption DEF Accessing!FieldsAssumption
  <1>3. Accessing!Take(Accessing!Put(b, a.parts, u), a.parts)
          = Accessing!Take(Accessing!Put(0, a.parts, u), a.parts)
    <2>1. CASE a.parts = Word16
      <3>1. b \in WordValues /\ 0 \in WordValues
        BY <2>1, PowersAre DEF Contained, WordValues
      <3>2. DOMAIN a.parts = 1..1 /\ a.parts[1] = <<0, 16, 0>> /\ 16 \in {8, 16}
        BY <2>1 DEF Word16
      <3>3. ASSUME NEW x \in WordValues PROVE Accessing!Put(x, a.parts, u) = u % TwoTo(16)
        <4>1. x \in 0..(TwoTo(16) - 1)
          BY DEF WordValues
        <4> QED
          BY <3>2, <4>1, NothingElse, Zenon
      <3> QED
        BY <3>1, <3>3
    <2>2. CASE a.parts # Word16
      <3>1. ByteParts(a.parts) /\ b \in 0..255 /\ 0 \in 0..255
        BY <2>2 DEF AccessorsFit, Contained, ByteValues
      <3>2. PICK n \in Nat : DOMAIN a.parts = 1..n /\ \A k \in 1..n : BytePart(a.parts[k])
        BY <3>1 DEF ByteParts
      <3>3. \A i, j \in 1..n : i # j => Accessing!Apart(a.parts[i], a.parts[j])
        BY <2>2, <3>2, DevicesAssumption DEF Accessing!FieldsAssumption, Word16
      <3>4. ASSUME NEW x \in 0..255, NEW k \in 1..n
            PROVE  Accessing!Holds(Accessing!Put(x, a.parts, u), a.parts[k]) = PartOf(u, a.parts[k])
        BY <3>2, <3>3, PutHolds
      <3> QED
        <4> DEFINE x == Accessing!Put(b, a.parts, u)
                   y == Accessing!Put(0, a.parts, u)
        <4>1. \A k \in 1..n : Accessing!Holds(x, a.parts[k]) = Accessing!Holds(y, a.parts[k])
          BY <3>1, <3>4
        <4> HIDE DEF x, y
        <4>2. Accessing!Take(x, a.parts) = Accessing!Take(y, a.parts)
          BY <3>2, <4>1, TakeSame, Zenon
        <4> QED
          BY <4>2 DEF x, y
    <2> QED
      BY <2>1, <2>2
  <1> QED
    BY <1>1, <1>2, <1>3 DEF Accessing!Report, Accessing!Store

(* What was stored is in the register from the write on, and what a getter *)
(* without a failure has read is in its result.                            *)
StoredInv ==
  LET told == Accessing!Report(op, device[op.bank.name])
  IN  /\ reg_call = "none" \/ (reg_call = "set" /\ reg_pc # "idle") => stored = None
      /\ reg_call = "set" /\ reg_pc # "idle" => value \notin op.refused
      /\ "get" \in op.calls =>
            /\ stored # None => told = stored
            /\ reg_call = "set" /\ reg_pc = "restore" /\ ret => told = value
      /\ reg_call = "get" /\ reg_pc \in {"restore", "idle"} /\ ret /\ stored # None =>
            reg_result = stored
      /\ reg_call = "get" => "get" \in op.calls

LEMMA StoredInit == DevicesInit => StoredInv
  <1> SUFFICES ASSUME DevicesInit PROVE StoredInv
    OBVIOUS
  <1>1. reg_call = "none" /\ stored = None /\ reg_pc = "idle"
    BY DEF DevicesInit, Accessing!Init
  <1> QED
    BY <1>1 DEF StoredInv

LEMMA StoredStep ==
  ASSUME NoneForgets, AccessorsFit, KeptInv, StoredInv, [Accessing!Next]_registersVars
  PROVE  StoredInv'
  <1> DEFINE told == Accessing!Report(op, device[op.bank.name])
  <1>0. op.forgets = FALSE
    BY DevicesAssumption DEF KeptInv, NoneForgets, Accessing!AccessorsAssumption
  <1>1. CASE UNCHANGED registersVars
    BY <1>1 DEF registersVars, StoredInv
  <1>2. ASSUME NEW c \in {"set", "get"}, NEW v, Accessing!Call(c, v)
        PROVE  StoredInv'
    <2>1. /\ UNCHANGED <<op, device, stored>> /\ reg_pc = "idle" /\ reg_call' = c /\ value' = v
          /\ c \in op.calls /\ reg_result' = None
          /\ IF reg_call = "none" THEN c = "set" \/ "set" \notin op.calls
             ELSE reg_call = "set" /\ c = "get"
          /\ reg_pc' = CASE Accessing!Refused(c, v) -> "idle"
                         [] ~Accessing!Refused(c, v) /\ Accessing!Selects -> "select"
                         [] OTHER -> Accessing!FirstTransfer(c)
      BY <1>2 DEF Accessing!Call
    <2>2. Accessing!FirstTransfer(c) \in {"read", "write"}
      BY DEF Accessing!FirstTransfer
    <2>3. Accessing!Refused(c, v) <=> c = "set" /\ v \in op.refused
      BY DEF Accessing!Refused
    <2>4. /\ reg_pc' \in {"idle", "select", "read", "write"}
          /\ reg_pc' = "idle" <=> c = "set" /\ v \in op.refused
      BY <2>1, <2>2, <2>3
    <2>5. told' = told
      BY <2>1
    <2>6. c = "set" => stored = None
      BY <2>1 DEF StoredInv
    <2>7. "get" \in op.calls /\ stored # None => told = stored
      BY DEF StoredInv
    <2> QED
      BY <2>1, <2>4, <2>5, <2>6, <2>7 DEF StoredInv
  <1>3. CASE Accessing!Select
    <2>1. /\ UNCHANGED <<op, reg_call, value, device, stored>> /\ reg_pc = "select"
          /\ reg_call \in {"set", "get"}
          /\ \/ reg_pc' = Accessing!FirstTransfer(reg_call)
             \/ /\ ret' = FALSE
                /\ \/ reg_pc' = Accessing!FirstTransfer(reg_call)
                   \/ reg_pc' \in {"idle", "restore"}
      <3>1. op.unselected[reg_call] \in {"idle", "read", "restore"} /\ reg_call \in {"set", "get"}
        BY <1>3, DevicesAssumption DEF KeptInv, Accessing!Select, Accessing!AccessorsAssumption
      <3> QED
        BY <1>3, <3>1 DEF Accessing!Select
    <2>2. Accessing!FirstTransfer(reg_call) \in {"read", "write"}
      BY DEF Accessing!FirstTransfer
    <2>3. told' = told
      BY <2>1
    <2> QED
      BY <2>1, <2>2, <2>3 DEF StoredInv
  <1>4. CASE Accessing!Read
    <2>1. /\ UNCHANGED <<op, reg_call, value, device, stored>> /\ reg_pc = "read"
          /\ reg_call \in {"set", "get"}
          /\ \/ UNCHANGED ret /\ register' = device[IF Accessing!Paged THEN "paged" ELSE bank]
             \/ ret' = FALSE
          /\ reg_result' = IF reg_call = "get" /\ ret' THEN Accessing!Report(op, register') ELSE None
          /\ reg_pc' = IF reg_call = "set" /\ (ret' \/ ~op.guarded) THEN "write"
                       ELSE Accessing!Finish(ret')
      BY <1>4 DEF KeptInv, Accessing!Read
    <2>2. Accessing!Finish(ret') \in {"idle", "restore"}
      BY DEF Accessing!Finish
    <2>3. told' = told
      BY <2>1
    <2>4. ASSUME reg_call = "get", ret' PROVE reg_result' = told
      <3>1. ret /\ register' = device[IF Accessing!Paged THEN "paged" ELSE bank]
        BY <2>1, <2>4
      <3>2. (IF Accessing!Paged THEN "paged" ELSE bank) = op.bank.name
        BY <2>1, <3>1 DEF KeptInv, Accessing!Paged
      <3> QED
        BY <2>1, <2>4, <3>1, <3>2
    <2>5. reg_call = "set" /\ reg_pc' = "restore" => ~ret'
      BY <2>1
    <2>6. reg_call = "get" /\ stored # None => told = stored
      BY DEF StoredInv
    <2>7. reg_call = "set" => stored = None /\ value \notin op.refused
      BY <2>1 DEF StoredInv
    <2> HIDE DEF told
    <2>8. /\ "get" \in op.calls /\ stored # None => told = stored
          /\ reg_call = "get" => "get" \in op.calls
      BY DEF StoredInv, told
    <2> QED
      BY <2>1, <2>2, <2>3, <2>4, <2>5, <2>6, <2>7, <2>8 DEF StoredInv, told
  <1>5. CASE Accessing!Write
    <2> DEFINE written == Accessing!Store(op, register, value)
               where == IF Accessing!Paged THEN "paged" ELSE bank
    <2>1. /\ UNCHANGED <<op, reg_call, value, register, reg_result>> /\ reg_pc = "write"
          /\ \/ UNCHANGED ret /\ device' = [device EXCEPT ![where] = written]
             \/ ret' = FALSE
          /\ reg_pc' = Accessing!Finish(ret')
          /\ IF reg_pc' = "idle" THEN Accessing!Ended(ret') ELSE UNCHANGED stored
      BY <1>5 DEF Accessing!Write
    <2>2. reg_call = "set" /\ where = op.bank.name /\ op.bank.name \in Accessing!Banks
      BY <2>1, DevicesAssumption DEF KeptInv, Accessing!Paged, Accessing!AccessorsAssumption
    <2>3. Accessing!Finish(ret') \in {"idle", "restore"}
      BY DEF Accessing!Finish
    <2>4. ASSUME ret', "get" \in op.calls PROVE told' = value
      <3>1. device'[op.bank.name] = written
        BY <2>1, <2>2, <2>4 DEF KeptInv
      <3>2. /\ op \in AllAccessors /\ "set" \in op.calls /\ value \in op.values
            /\ value \notin op.refused /\ register \in Contained(op)
        BY <2>1, <2>2 DEF KeptInv, StoredInv
      <3>3. Accessing!Report(op, written) = value
        BY <2>4, <3>2, StoredIsReported
      <3> QED
        BY <2>1, <3>1, <3>3
    <2>5. /\ reg_pc' = "idle" => stored' = IF ret' THEN value ELSE None
          /\ reg_pc' # "idle" => stored' = None
      <3>1. stored = None
        BY <2>1, <2>2 DEF StoredInv
      <3> QED
        BY <2>1, <2>2, <3>1 DEF Accessing!Ended
    <2>6. value \notin op.refused
      BY <2>1, <2>2 DEF StoredInv
    <2> HIDE DEF told, written, where
    <2> QED
      BY <2>1, <2>2, <2>3, <2>4, <2>5, <2>6 DEF StoredInv, told
  <1>6. CASE Accessing!Restore
    <2>1. /\ UNCHANGED <<op, reg_call, value, device, reg_result>>
          /\ reg_pc = "restore" /\ reg_pc' = "idle" /\ (ret' => ret)
          /\ Accessing!Ended(ret')
      BY <1>0, <1>6 DEF Accessing!Restore
    <2>2. stored' = IF reg_call = "set" THEN (IF ret' THEN value ELSE None) ELSE stored
      BY <2>1 DEF Accessing!Ended
    <2>3. told' = told
      BY <2>1
    <2> HIDE DEF told
    <2>4. /\ "get" \in op.calls =>
               /\ stored # None => told = stored
               /\ reg_call = "set" /\ reg_pc = "restore" /\ ret => told = value
          /\ reg_call = "get" => "get" \in op.calls
          /\ reg_call = "get" /\ reg_pc = "restore" /\ ret /\ stored # None => reg_result = stored
          /\ reg_call \in {"set", "get"}
      BY <2>1 DEF StoredInv, told, KeptInv
    <2> QED
      BY <2>1, <2>2, <2>3, <2>4 DEF StoredInv, told
  <1> QED
    BY <1>1, <1>2, <1>3, <1>4, <1>5, <1>6 DEF Accessing!Next

-------------------------------------------------------------------------------
(***************************************************************************)
(* The rates and modes of the sensor object.                                *)
(***************************************************************************)
(* A sequence of steps that turns a sensor off before it clears its flag,    *)
(* and one in which nothing fails once it has come to a field.               *)
OffFirst(s, r, f) ==
  \E i \in DOMAIN s :
     /\ s[i].field = r /\ s[i].value = 0
     /\ \A j \in DOMAIN s : /\ j <= i => s[j].field # f
                            /\ j > i /\ s[j].field = r => s[j].value = 0 /\ s[j].wrong \subseteq {0}
Settled(s, f) ==
  \A j, k \in DOMAIN s : s[j].field = f /\ j <= k => ~s[k].bus /\ s[k].wrong = {}

LEMMA OffReturns ==
  ASSUME NEW s, IsSteps(s), SensorIsFunction, NEW ok \in BOOLEAN, Sensing!Returns(s, ok),
         NEW r \in DOMAIN sensor, NEW f \in DOMAIN sensor, OffFirst(s, r, f), r # f
  PROVE  sensor'[f] = sensor[f] \/ sensor'[r] = 0
  <1>1. PICK i \in DOMAIN s :
     /\ s[i].field = r /\ s[i].value = 0
     /\ \A j \in DOMAIN s : /\ j <= i => s[j].field # f
                            /\ j > i /\ s[j].field = r => s[j].value = 0 /\ s[j].wrong \subseteq {0}
    BY DEF OffFirst
  <1>2. PICK n \in Nat : DOMAIN s = 1..n
    BY DEF IsSteps
  <1>3. CASE ok
    <2>1. EndsIn(s, r, {0})
      <3>1. \A j \in DOMAIN s : i <= j /\ s[j].field = r => s[j].value \in {0}
        BY <1>1, <1>2
      <3> QED
        BY <1>1, <3>1 DEF EndsIn
    <2>2. sensor'[r] \in {0}
      BY <1>3, <2>1, FieldReturns
    <2> QED
      BY <2>2
  <1>4. CASE ~ok /\ sensor' \in Sensing!Failing(s)
    <2>1. PICK k \in DOMAIN s : \E u, v :
           /\ IsSteps(u) /\ DOMAIN u = 1..(k - 1) /\ \A j \in 1..(k - 1) : u[j] = s[j]
           /\ v \in s[k].wrong \cup (IF s[k].bus THEN {Sensing!After(u)[s[k].field]} ELSE {})
           /\ sensor' = [Sensing!After(u) EXCEPT ![s[k].field] = v]
      BY <1>4, FailsAt
    <2>2. PICK u, v :
           /\ IsSteps(u) /\ DOMAIN u = 1..(k - 1) /\ \A j \in 1..(k - 1) : u[j] = s[j]
           /\ v \in s[k].wrong \cup (IF s[k].bus THEN {Sensing!After(u)[s[k].field]} ELSE {})
           /\ sensor' = [Sensing!After(u) EXCEPT ![s[k].field] = v]
      BY <2>1
    <2> DEFINE c == Sensing!After(u)
    <2>3. /\ DOMAIN c = DOMAIN sensor
          /\ \A g \in DOMAIN sensor : \A A : sensor[g] \in A /\ Keeps(u, g, A) => c[g] \in A
          /\ \A g \in DOMAIN sensor : \A A : EndsIn(u, g, A) => c[g] \in A
      BY <2>2, FieldAfter
    <2>4. /\ v \in s[k].wrong \cup (IF s[k].bus THEN {c[s[k].field]} ELSE {})
          /\ sensor' = [c EXCEPT ![s[k].field] = v]
      BY <2>2
    <2> HIDE DEF c
    <2>5. CASE k <= i
      <3>1. Untouched(u, f)
        BY <1>1, <1>2, <2>2, <2>5 DEF Untouched
      <3>2. Keeps(u, f, {sensor[f]})
        BY <3>1, UntouchedKeeps
      <3>3. c[f] \in {sensor[f]}
        BY <2>3, <3>2
      <3>4. s[k].field # f
        BY <1>1, <2>5
      <3>5. sensor'[f] = c[f]
        BY <2>3, <2>4, <3>4
      <3> QED
        BY <3>3, <3>5
    <2>6. CASE k > i
      <3>1. EndsIn(u, r, {0})
        <4>1. i \in DOMAIN u /\ u[i].field = r
          BY <1>1, <1>2, <2>2, <2>6
        <4>2. \A j \in DOMAIN u : i <= j /\ u[j].field = r => u[j].value \in {0}
          BY <1>1, <1>2, <2>2, <2>6
        <4> QED
          BY <4>1, <4>2 DEF EndsIn
      <3>2. c[r] \in {0}
        BY <2>3, <3>1
      <3>3. CASE s[k].field = r
        <4>1. s[k].wrong \subseteq {0}
          BY <1>1, <2>6, <3>3
        <4>2. v = 0
          BY <2>4, <3>2, <3>3, <4>1
        <4> QED
          BY <2>3, <2>4, <3>3, <4>2
      <3>4. CASE s[k].field # r
        BY <2>3, <2>4, <3>2, <3>4
      <3> QED
        BY <3>3, <3>4
    <2> QED
      BY <1>2, <2>5, <2>6
  <1> QED
    BY <1>3, <1>4 DEF Sensing!Returns

LEMMA SettledReturns ==
  ASSUME NEW s, IsSteps(s), SensorIsFunction, Sensing!Returns(s, FALSE),
         NEW f \in DOMAIN sensor, Settled(s, f)
  PROVE  sensor'[f] = sensor[f]
  <1>1. sensor' \in Sensing!Failing(s)
    BY DEF Sensing!Returns
  <1>2. PICK n \in Nat : DOMAIN s = 1..n
    BY DEF IsSteps
  <1>3. PICK k \in DOMAIN s : \E u, v :
           /\ IsSteps(u) /\ DOMAIN u = 1..(k - 1) /\ \A j \in 1..(k - 1) : u[j] = s[j]
           /\ v \in s[k].wrong \cup (IF s[k].bus THEN {Sensing!After(u)[s[k].field]} ELSE {})
           /\ sensor' = [Sensing!After(u) EXCEPT ![s[k].field] = v]
    BY <1>1, FailsAt
  <1>4. PICK u, v :
           /\ IsSteps(u) /\ DOMAIN u = 1..(k - 1) /\ \A j \in 1..(k - 1) : u[j] = s[j]
           /\ v \in s[k].wrong \cup (IF s[k].bus THEN {Sensing!After(u)[s[k].field]} ELSE {})
           /\ sensor' = [Sensing!After(u) EXCEPT ![s[k].field] = v]
    BY <1>3
  <1>5. \A j \in 1..k : s[j].field # f
    <2>1. s[k].bus \/ s[k].wrong # {}
      BY <1>4
    <2> QED
      BY <1>2, <2>1 DEF Settled
  <1>6. Untouched(u, f)
    BY <1>2, <1>4, <1>5 DEF Untouched
  <1>7. Keeps(u, f, {sensor[f]})
    BY <1>6, UntouchedKeeps
  <1> DEFINE c == Sensing!After(u)
  <1>8. DOMAIN c = DOMAIN sensor /\ c[f] \in {sensor[f]}
    BY <1>4, <1>7, FieldAfter
  <1>9. sensor' = [c EXCEPT ![s[k].field] = v]
    BY <1>4
  <1> HIDE DEF c
  <1> QED
    BY <1>2, <1>5, <1>8, <1>9

LEMMA OffConcat ==
  ASSUME NEW s, NEW t, IsSteps(s), IsSteps(t), NEW r, NEW f
  PROVE  /\ OffFirst(s, r, f) /\ Untouched(t, r) => OffFirst(s \o t, r, f)
         /\ Untouched(s, f) /\ OffFirst(t, r, f) => OffFirst(s \o t, r, f)
         /\ Untouched(s, f) /\ Settled(t, f) => Settled(s \o t, f)
  <1> DEFINE u == s \o t
  <1>1. /\ \A k \in DOMAIN u : \/ k \in DOMAIN s /\ u[k] = s[k]
                               \/ k - Len(s) \in DOMAIN t /\ u[k] = t[k - Len(s)]
        /\ DOMAIN s = 1..Len(s) /\ DOMAIN t = 1..Len(t) /\ Len(s) \in Nat /\ Len(t) \in Nat
        /\ DOMAIN u = 1..(Len(s) + Len(t))
        /\ \A k \in DOMAIN s : u[k] = s[k]
        /\ \A k \in DOMAIN t : u[Len(s) + k] = t[k]
    BY StepsConcat
  <1> HIDE DEF u
  <1>2. ASSUME OffFirst(s, r, f), Untouched(t, r) PROVE OffFirst(u, r, f)
    <2>1. PICK i \in DOMAIN s :
       /\ s[i].field = r /\ s[i].value = 0
       /\ \A j \in DOMAIN s : /\ j <= i => s[j].field # f
                              /\ j > i /\ s[j].field = r => s[j].value = 0 /\ s[j].wrong \subseteq {0}
      BY <1>2 DEF OffFirst
    <2>2. i \in DOMAIN u /\ u[i].field = r /\ u[i].value = 0
      BY <1>1, <2>1
    <2>3. ASSUME NEW j \in DOMAIN u, j <= i PROVE u[j].field # f
      <3>1. j \in DOMAIN s /\ u[j] = s[j]
        BY <1>1, <2>1, <2>3
      <3> QED
        BY <2>1, <2>3, <3>1
    <2>4. ASSUME NEW j \in DOMAIN u, j > i, u[j].field = r
          PROVE  u[j].value = 0 /\ u[j].wrong \subseteq {0}
      <3>1. j \in DOMAIN s /\ u[j] = s[j]
        BY <1>1, <1>2, <2>4 DEF Untouched
      <3> QED
        BY <2>1, <2>4, <3>1
    <2> QED
      BY <2>2, <2>3, <2>4 DEF OffFirst
  <1>3. ASSUME Untouched(s, f), OffFirst(t, r, f) PROVE OffFirst(u, r, f)
    <2>1. PICK i \in DOMAIN t :
       /\ t[i].field = r /\ t[i].value = 0
       /\ \A j \in DOMAIN t : /\ j <= i => t[j].field # f
                              /\ j > i /\ t[j].field = r => t[j].value = 0 /\ t[j].wrong \subseteq {0}
      BY <1>3 DEF OffFirst
    <2>2. Len(s) + i \in DOMAIN u /\ u[Len(s) + i].field = r /\ u[Len(s) + i].value = 0
      BY <1>1, <2>1
    <2>3. ASSUME NEW j \in DOMAIN u, j <= Len(s) + i PROVE u[j].field # f
      BY <1>1, <1>3, <2>1, <2>3 DEF Untouched
    <2>4. ASSUME NEW j \in DOMAIN u, j > Len(s) + i, u[j].field = r
          PROVE  u[j].value = 0 /\ u[j].wrong \subseteq {0}
      <3>1. j - Len(s) \in DOMAIN t /\ u[j] = t[j - Len(s)] /\ j - Len(s) > i
        BY <1>1, <2>4
      <3> QED
        BY <2>1, <2>4, <3>1
    <2> QED
      BY <2>2, <2>3, <2>4 DEF OffFirst
  <1>4. ASSUME Untouched(s, f), Settled(t, f) PROVE Settled(u, f)
    <2> SUFFICES ASSUME NEW j \in DOMAIN u, NEW k \in DOMAIN u, u[j].field = f, j <= k
                 PROVE  ~u[k].bus /\ u[k].wrong = {}
      BY DEF Settled
    <2>1. j - Len(s) \in DOMAIN t /\ u[j] = t[j - Len(s)]
      BY <1>1, <1>4 DEF Untouched
    <2>2. k - Len(s) \in DOMAIN t /\ u[k] = t[k - Len(s)] /\ j - Len(s) <= k - Len(s)
      BY <1>1, <2>1
    <2> QED
      BY <1>4, <2>1, <2>2 DEF Settled
  <1> QED
    BY <1>2, <1>3, <1>4 DEF u

(* Sequences that write these fields only.                                  *)
Only(s, A) == IsSteps(s) /\ \A k \in DOMAIN s : s[k].field \in A

LEMMA OnlyFacts ==
  ASSUME NEW s, NEW A, Only(s, A)
  PROVE  IsSteps(s) /\ \A f : f \notin A => Untouched(s, f) /\ \A V : Keeps(s, f, V)
  BY DEF Only, Untouched, Keeps

LEMMA OnlyConcat ==
  ASSUME NEW s, NEW t, NEW A, NEW B, Only(s, A), Only(t, B)
  PROVE  Only(s \o t, A \cup B)
  <1> DEFINE u == s \o t
  <1>1. /\ IsSteps(u)
        /\ \A k \in DOMAIN u : \/ k \in DOMAIN s /\ u[k] = s[k]
                               \/ k - Len(s) \in DOMAIN t /\ u[k] = t[k - Len(s)]
    BY StepsConcat DEF Only
  <1> HIDE DEF u
  <1>2. Only(u, A \cup B)
    BY <1>1 DEF Only
  <1> QED
    BY <1>2 DEF u

LEMMA OneStep ==
  ASSUME NEW a
  PROVE  /\ Only(<<a>>, {a.field}) /\ EndsIn(<<a>>, a.field, {a.value})
         /\ Only(<<>>, {})
  <1> DEFINE s == <<a>>
  <1>1. IsSteps(s) /\ DOMAIN s = {1} /\ s[1] = a /\ Only(<<>>, {})
    BY ShortSteps DEF Only
  <1> HIDE DEF s
  <1>2. Only(s, {a.field}) /\ EndsIn(s, a.field, {a.value})
    BY <1>1 DEF Only, EndsIn
  <1> QED
    BY <1>1, <1>2 DEF s

LEMMA DisableFacts ==
  ASSUME NEW x \in {Sensing!acc, Sensing!gyro}
  PROVE  LET s == Sensing!DisableSteps(x)
         IN  /\ Only(s, {x.odr, x.rate, x.flag})
             /\ ~sensor[x.flag] => s = <<>>
             /\ sensor[x.flag] => /\ EndsIn(s, x.odr, {sensor[x.rate]})
                                  /\ EndsIn(s, x.rate, {0})
                                  /\ EndsIn(s, x.flag, {FALSE})
                                  /\ OffFirst(s, x.rate, x.flag)
             /\ Keeps(s, x.flag, {sensor[x.flag], FALSE})
  <1> DEFINE a == [Sensing!Write(x.odr, sensor[x.rate]) EXCEPT !.wrong = Unread]
             b == Sensing!Write(x.rate, Sensing!ODR_OFF)
             c == Sensing!Assign(x.flag, FALSE)
             s == <<a, b, c>>
  <1>1. /\ a.field = x.odr /\ a.value = sensor[x.rate]
        /\ b.field = x.rate /\ b.value = 0 /\ b.wrong = {0}
        /\ c.field = x.flag /\ c.value = FALSE /\ c.wrong = {}
    BY DEF Sensing!Write, Sensing!Assign, Sensing!ODR_OFF
  <1>2. Sensing!DisableSteps(x) = IF ~sensor[x.flag] THEN <<>> ELSE s
    BY DEF Sensing!DisableSteps
  <1>3. x.odr # x.rate /\ x.odr # x.flag /\ x.rate # x.flag
    BY DEF Sensing!acc, Sensing!gyro
  <1> HIDE DEF a, b, c
  <1>4. IsSteps(s) /\ DOMAIN s = 1..3 /\ s[1] = a /\ s[2] = b /\ s[3] = c
    BY ShortSteps
  <1> HIDE DEF s
  <1>5. Only(s, {x.odr, x.rate, x.flag}) /\ Keeps(s, x.flag, {sensor[x.flag], FALSE})
    <2>1. Only(s, {x.odr, x.rate, x.flag})
      BY <1>1, <1>4 DEF Only
    <2>2. \A k \in DOMAIN s : s[k].field = x.flag => s[k] = c
      BY <1>1, <1>3, <1>4
    <2>3. \A V : FALSE \in V => c.value \in V /\ c.wrong \subseteq V
      BY <1>1, Zenon
    <2>4. FALSE \in {sensor[x.flag], FALSE}
      BY Zenon
    <2>5. c.value \in {sensor[x.flag], FALSE} /\ c.wrong \subseteq {sensor[x.flag], FALSE}
      BY <2>3, <2>4, Zenon
    <2>6. Keeps(s, x.flag, {sensor[x.flag], FALSE})
      BY <2>2, <2>5, Zenon DEF Keeps
    <2> QED
      BY <2>1, <2>6
  <1>6. EndsIn(s, x.odr, {sensor[x.rate]})
    <2>1. 1 \in DOMAIN s /\ s[1].field = x.odr
      BY <1>1, <1>4
    <2>2. \A j \in DOMAIN s : 1 <= j /\ s[j].field = x.odr => s[j].value \in {sensor[x.rate]}
      BY <1>1, <1>3, <1>4
    <2> QED
      BY <2>1, <2>2 DEF EndsIn
  <1>7. EndsIn(s, x.rate, {0})
    <2>1. 2 \in DOMAIN s /\ s[2].field = x.rate
      BY <1>1, <1>4
    <2>2. \A j \in DOMAIN s : 2 <= j /\ s[j].field = x.rate => s[j].value \in {0}
      BY <1>1, <1>3, <1>4
    <2> QED
      BY <2>1, <2>2 DEF EndsIn
  <1>8. EndsIn(s, x.flag, {FALSE})
    <2>1. 3 \in DOMAIN s /\ s[3].field = x.flag
      BY <1>1, <1>4
    <2>2. \A j \in DOMAIN s : s[j].field = x.flag => s[j] = c
      BY <1>1, <1>3, <1>4
    <2>3. c.value \in {FALSE}
      BY <1>1, Zenon
    <2> QED
      BY <2>1, <2>2, <2>3, Zenon DEF EndsIn
  <1>9. OffFirst(s, x.rate, x.flag)
    <2>1. 2 \in DOMAIN s /\ s[2].field = x.rate /\ s[2].value = 0
      BY <1>1, <1>4
    <2>2. \A j \in DOMAIN s : /\ j <= 2 => s[j].field # x.flag
                              /\ j > 2 => s[j].field # x.rate
      BY <1>1, <1>3, <1>4
    <2> QED
      BY <2>1, <2>2 DEF OffFirst
  <1>10. Only(<<>>, {x.odr, x.rate, x.flag}) /\ Keeps(<<>>, x.flag, {sensor[x.flag], FALSE})
    BY ShortSteps DEF Only, Keeps
  <1> QED
    BY <1>2, <1>5, <1>6, <1>7, <1>8, <1>9, <1>10

LEMMA ChangeFacts ==
  ASSUME NEW field, NEW v, NEW before, NEW A, Only(before, A)
  PROVE  LET s == Sensing!Change(field, v, before)
         IN  Only(s, A \cup {field}) /\ EndsIn(s, field, {v})
  <1> DEFINE r == <<Sensing!Read(field)>>
             w == <<Sensing!Write(field, v)>>
  <1>1. /\ Only(r, {field}) /\ EndsIn(r, field, {sensor[field]})
        /\ Only(w, {field}) /\ EndsIn(w, field, {v})
        /\ Only(<<>>, {})
    <2>1. /\ Sensing!Read(field).field = field /\ Sensing!Read(field).value = sensor[field]
          /\ Sensing!Write(field, v).field = field /\ Sensing!Write(field, v).value = v
      BY StepRecords
    <2>2. Only(r, {Sensing!Read(field).field}) /\ EndsIn(r, Sensing!Read(field).field, {Sensing!Read(field).value})
      BY OneStep
    <2>3. Only(w, {Sensing!Write(field, v).field})
          /\ EndsIn(w, Sensing!Write(field, v).field, {Sensing!Write(field, v).value})
      BY OneStep
    <2> QED
      BY <2>1, <2>2, <2>3, OneStep
  <1>2. Sensing!Change(field, v, before) = r \o (IF sensor[field] = v THEN <<>> ELSE before \o w)
    BY DEF Sensing!Change
  <1> HIDE DEF r, w
  <1>3. IsSteps(r) /\ IsSteps(w) /\ IsSteps(<<>>) /\ IsSteps(before)
    BY <1>1 DEF Only
  <1>4. CASE sensor[field] = v
    <2>1. Only(r \o <<>>, {field} \cup {})
      BY <1>1, OnlyConcat
    <2>2. Keeps(<<>>, field, {v})
      BY ShortSteps DEF Keeps
    <2>3. EndsIn(r \o <<>>, field, {v})
      BY <1>1, <1>3, <1>4, <2>2, EndsConcat
    <2>4. Only(r \o <<>>, A \cup {field})
      BY <2>1 DEF Only
    <2> QED
      BY <1>2, <1>4, <2>3, <2>4
  <1>5. CASE sensor[field] # v
    <2>1. Only(before \o w, A \cup {field})
      BY <1>1, OnlyConcat
    <2>2. EndsIn(before \o w, field, {v})
      BY <1>1, <1>3, EndsConcat
    <2>3. IsSteps(before \o w)
      BY <2>1 DEF Only
    <2>4. EndsIn(r \o (before \o w), field, {v})
      BY <1>3, <2>2, <2>3, EndsConcat
    <2>5. Only(r \o (before \o w), {field} \cup (A \cup {field}))
      BY <1>1, <2>1, OnlyConcat
    <2>6. {field} \cup (A \cup {field}) = A \cup {field}
      OBVIOUS
    <2> QED
      BY <1>2, <1>5, <2>4, <2>5, <2>6
  <1> QED
    BY <1>4, <1>5

(* What setting the accelerometer's rate does, which turns the gyroscope off *)
(* when the mode is the one of ultra low power, and what setting the        *)
(* gyroscope's does.                                                        *)
Modes == {"high_performance", "low_power", "ultra_low_power"}
GyroFields == {"gyro_odr", "odr_g", "gyro_is_enabled"}
CoreFields == {"is_initialized", "acc_is_enabled", "acc_odr", "odr_xl", "xl_ulp_en", "xl_hm_mode",
               "g_hm_mode"} \cup GyroFields
UlpOf(m) == IF m = "ultra_low_power" THEN 1 ELSE 0
HmOf(m) == IF m = "low_power" THEN 1 ELSE 0
AccFacts(s, r, m) ==
  /\ IsSteps(s)
  /\ \A f \in {"is_initialized", "acc_is_enabled", "g_hm_mode"} : Untouched(s, f)
  /\ sensor["acc_is_enabled"] => EndsIn(s, "odr_xl", {r})
  /\ ~sensor["acc_is_enabled"] => Untouched(s, "odr_xl") /\ EndsIn(s, "acc_odr", {r})
  /\ EndsIn(s, "xl_ulp_en", {UlpOf(m)}) /\ EndsIn(s, "xl_hm_mode", {HmOf(m)})
  /\ m = "ultra_low_power" /\ sensor["gyro_is_enabled"] =>
        /\ EndsIn(s, "gyro_odr", {sensor["odr_g"]}) /\ EndsIn(s, "odr_g", {0})
        /\ EndsIn(s, "gyro_is_enabled", {FALSE})
        /\ OffFirst(s, "odr_g", "gyro_is_enabled")
        /\ Keeps(s, "gyro_is_enabled", {sensor["gyro_is_enabled"], FALSE})
  /\ ~(m = "ultra_low_power" /\ sensor["gyro_is_enabled"]) =>
        \A f \in GyroFields : Untouched(s, f)
GyroFacts(s, r, m) ==
  /\ IsSteps(s)
  /\ \A f \in CoreFields \ {"gyro_odr", "odr_g", "g_hm_mode"} : Untouched(s, f)
  /\ sensor["gyro_is_enabled"] => EndsIn(s, "odr_g", {r})
  /\ ~sensor["gyro_is_enabled"] => Untouched(s, "odr_g") /\ EndsIn(s, "gyro_odr", {r})
  /\ EndsIn(s, "g_hm_mode", {HmOf(m)})

LEMMA SensorNames ==
  /\ Sensing!acc.name = "acc" /\ Sensing!acc.flag = "acc_is_enabled"
  /\ Sensing!acc.odr = "acc_odr" /\ Sensing!acc.rate = "odr_xl"
  /\ Sensing!gyro.name = "gyro" /\ Sensing!gyro.flag = "gyro_is_enabled"
  /\ Sensing!gyro.odr = "gyro_odr" /\ Sensing!gyro.rate = "odr_g"
  /\ Sensing!acc # Sensing!gyro
  /\ Sensing!Unknown.rate = -1 /\ Sensing!Unknown.mode = "unknown"
  BY DEF Sensing!acc, Sensing!gyro, Sensing!Unknown

LEMMA SetRateFacts ==
  ASSUME NEW x \in {Sensing!acc, Sensing!gyro}, NEW o
  PROVE  LET s == Sensing!SetRate(x, o)
             r == Sensing!RateFor(x, o)
         IN  /\ sensor[x.flag] => Only(s, {x.rate}) /\ EndsIn(s, x.rate, {r})
             /\ ~sensor[x.flag] => Only(s, {x.odr}) /\ EndsIn(s, x.odr, {r})
  <1> DEFINE r == Sensing!RateFor(x, o)
  <1>1. CASE sensor[x.flag]
    <2>1. Sensing!SetRate(x, o) = <<Sensing!Write(x.rate, r)>>
      BY <1>1 DEF Sensing!SetRate
    <2>2. Sensing!Write(x.rate, r).field = x.rate /\ Sensing!Write(x.rate, r).value = r
      BY StepRecords
    <2> HIDE DEF r
    <2> DEFINE a == Sensing!Write(x.rate, r)
    <2>3. Only(<<a>>, {a.field}) /\ EndsIn(<<a>>, a.field, {a.value})
      BY OneStep
    <2> QED
      BY <1>1, <2>1, <2>2, <2>3 DEF r
  <1>2. CASE ~sensor[x.flag]
    <2>1. Sensing!SetRate(x, o) = <<Sensing!Assign(x.odr, r)>>
      BY <1>2 DEF Sensing!SetRate
    <2>2. Sensing!Assign(x.odr, r).field = x.odr /\ Sensing!Assign(x.odr, r).value = r
      BY StepRecords
    <2> HIDE DEF r
    <2> DEFINE a == Sensing!Assign(x.odr, r)
    <2>3. Only(<<a>>, {a.field}) /\ EndsIn(<<a>>, a.field, {a.value})
      BY OneStep
    <2> QED
      BY <1>2, <2>1, <2>2, <2>3 DEF r
  <1> QED
    BY <1>1, <1>2

LEMMA PowerOffFacts ==
  /\ Only(Sensing!PowerOff, {"odr_xl"})
  /\ ~sensor["acc_is_enabled"] => Only(Sensing!PowerOff, {})
  <1> DEFINE a == Sensing!Write("odr_xl", 0)
  <1>1. Sensing!PowerOff = IF sensor["acc_is_enabled"] THEN <<a>> ELSE <<>>
    BY SensorNames DEF Sensing!PowerOff, Sensing!ODR_OFF
  <1>2. a.field = "odr_xl"
    BY StepRecords
  <1> HIDE DEF a
  <1>3. Only(<<a>>, {a.field}) /\ Only(<<>>, {})
    BY OneStep
  <1>4. Only(<<>>, {"odr_xl"})
    BY <1>3 DEF Only
  <1> QED
    BY <1>1, <1>2, <1>3, <1>4

LEMMA GyroRateFacts ==
  ASSUME NEW o, NEW m \in {"high_performance", "low_power"}
  PROVE  GyroFacts(Sensing!RateSteps(Sensing!gyro, o, m),
                   Sensing!RateFor(Sensing!gyro, Sensing!Limited(Sensing!gyro, o, m)), m)
  <1> DEFINE l == Sensing!Limited(Sensing!gyro, o, m)
             r == Sensing!RateFor(Sensing!gyro, l)
             a == Sensing!Change("g_hm_mode", HmOf(m), <<>>)
             d == Sensing!SetRate(Sensing!gyro, l)
             F == IF sensor["gyro_is_enabled"] THEN "odr_g" ELSE "gyro_odr"
  <1>1. Sensing!RateSteps(Sensing!gyro, o, m) = a \o d
    <2>1. HmOf(m) = IF m = "high_performance" THEN 0 ELSE 1
      BY DEF HmOf
    <2>2. Sensing!ModeSteps(Sensing!gyro, m) = a
      BY <2>1, SensorNames DEF Sensing!ModeSteps
    <2> QED
      BY <2>2 DEF Sensing!RateSteps
  <1>2. Only(a, {"g_hm_mode"}) /\ EndsIn(a, "g_hm_mode", {HmOf(m)})
    <2>1. Only(<<>>, {})
      BY OneStep
    <2>2. Only(a, {} \cup {"g_hm_mode"}) /\ EndsIn(a, "g_hm_mode", {HmOf(m)})
      BY <2>1, ChangeFacts
    <2>3. {} \cup {"g_hm_mode"} = {"g_hm_mode"}
      OBVIOUS
    <2> HIDE DEF a
    <2> QED
      BY <2>2, <2>3
  <1>3. Only(d, {F}) /\ EndsIn(d, F, {r})
    BY SetRateFacts, SensorNames
  <1> HIDE DEF a, d, r
  <1>4. IsSteps(a) /\ IsSteps(d)
    BY <1>2, <1>3 DEF Only
  <1>5. Only(a \o d, {"g_hm_mode"} \cup {F})
    BY <1>2, <1>3, OnlyConcat
  <1>6. F \in {"odr_g", "gyro_odr"} /\ F # "g_hm_mode"
    OBVIOUS
  <1>7. EndsIn(a \o d, "g_hm_mode", {HmOf(m)})
    <2>1. Keeps(d, "g_hm_mode", {HmOf(m)})
      BY <1>3, <1>6, OnlyFacts
    <2> QED
      BY <1>2, <1>4, <2>1, EndsConcat
  <1>8. EndsIn(a \o d, F, {r})
    BY <1>3, <1>4, EndsConcat
  <1>9. IsSteps(a \o d) /\ \A f : f \notin {"g_hm_mode"} \cup {F} => Untouched(a \o d, f)
    BY <1>5, OnlyFacts
  <1>10. GyroFacts(a \o d, r, m)
    BY <1>6, <1>7, <1>8, <1>9 DEF GyroFacts
  <1> QED
    BY <1>1, <1>10 DEF r

LEMMA AccRateFacts ==
  ASSUME NEW o, NEW m \in Modes, sensor["gyro_is_enabled"] \in BOOLEAN
  PROVE  AccFacts(Sensing!RateSteps(Sensing!acc, o, m),
                  Sensing!RateFor(Sensing!acc, Sensing!Limited(Sensing!acc, o, m)), m)
  <1> DEFINE l == Sensing!Limited(Sensing!acc, o, m)
             r == Sensing!RateFor(Sensing!acc, l)
             d == Sensing!SetRate(Sensing!acc, l)
             F == IF sensor["acc_is_enabled"] THEN "odr_xl" ELSE "acc_odr"
             P == IF sensor["acc_is_enabled"] THEN {"odr_xl"} ELSE {}
  <1>1. Only(d, {F}) /\ EndsIn(d, F, {r})
    BY SetRateFacts, SensorNames
  <1>2. Only(Sensing!PowerOff, P)
    BY PowerOffFacts
  <1>3. ASSUME NEW v
        PROVE  LET s == Sensing!Change("xl_hm_mode", v, <<>>)
               IN  Only(s, {"xl_hm_mode"}) /\ EndsIn(s, "xl_hm_mode", {v})
    <2> DEFINE s == Sensing!Change("xl_hm_mode", v, <<>>)
    <2>1. Only(<<>>, {})
      BY OneStep
    <2>2. Only(s, {} \cup {"xl_hm_mode"}) /\ EndsIn(s, "xl_hm_mode", {v})
      BY <2>1, ChangeFacts
    <2>3. {} \cup {"xl_hm_mode"} = {"xl_hm_mode"}
      OBVIOUS
    <2> HIDE DEF s
    <2>4. Only(s, {"xl_hm_mode"}) /\ EndsIn(s, "xl_hm_mode", {v})
      BY <2>2, <2>3
    <2> QED
      BY <2>4 DEF s
  <1>4. ASSUME NEW v
        PROVE  LET s == Sensing!Change("xl_ulp_en", v, Sensing!PowerOff)
               IN  Only(s, P \cup {"xl_ulp_en"}) /\ EndsIn(s, "xl_ulp_en", {v})
    <2> HIDE DEF P
    <2> QED
      BY <1>2, ChangeFacts
  <1>5. F \in {"odr_xl", "acc_odr"} /\ P \subseteq {"odr_xl"}
    OBVIOUS
  <1>6. CASE m = "ultra_low_power"
    <2> DEFINE a == Sensing!Change("xl_hm_mode", 0, <<>>)
               b == Sensing!DisableSteps(Sensing!gyro)
               c == Sensing!Change("xl_ulp_en", 1, Sensing!PowerOff)
               abc == (a \o b) \o c
               s == abc \o d
               B == IF sensor["gyro_is_enabled"] THEN GyroFields ELSE {}
    <2>1. Sensing!RateSteps(Sensing!acc, o, m) = s
      <3>1. Sensing!ModeSteps(Sensing!acc, m) = abc
        BY <1>6, SensorNames DEF Sensing!ModeSteps
      <3> QED
        BY <3>1 DEF Sensing!RateSteps
    <2>2. Only(a, {"xl_hm_mode"}) /\ EndsIn(a, "xl_hm_mode", {0})
      BY <1>3
    <2>3. Only(c, P \cup {"xl_ulp_en"}) /\ EndsIn(c, "xl_ulp_en", {1})
      BY <1>4
    <2>4. /\ Only(b, {"gyro_odr", "odr_g", "gyro_is_enabled"})
          /\ ~sensor["gyro_is_enabled"] => b = <<>>
          /\ sensor["gyro_is_enabled"] => /\ EndsIn(b, "gyro_odr", {sensor["odr_g"]})
                                          /\ EndsIn(b, "odr_g", {0})
                                          /\ EndsIn(b, "gyro_is_enabled", {FALSE})
                                          /\ OffFirst(b, "odr_g", "gyro_is_enabled")
          /\ Keeps(b, "gyro_is_enabled", {sensor["gyro_is_enabled"], FALSE})
      BY DisableFacts, SensorNames
    <2>5. Only(b, B)
      <3>1. Only(<<>>, {})
        BY OneStep
      <3> HIDE DEF b
      <3> QED
        BY <2>4, <3>1 DEF GyroFields
    <2> HIDE DEF a, b, c, d, r
    <2>6. Only(a \o b, {"xl_hm_mode"} \cup B)
      BY <2>2, <2>5, OnlyConcat
    <2>7. Only(abc, ({"xl_hm_mode"} \cup B) \cup (P \cup {"xl_ulp_en"}))
      BY <2>3, <2>6, OnlyConcat
    <2>8. Only(s, (({"xl_hm_mode"} \cup B) \cup (P \cup {"xl_ulp_en"})) \cup {F})
      BY <1>1, <2>7, OnlyConcat
    <2>9. IsSteps(a) /\ IsSteps(b) /\ IsSteps(a \o b) /\ IsSteps(c) /\ IsSteps(abc) /\ IsSteps(d)
      BY <1>1, <2>2, <2>3, <2>5, <2>6, <2>7 DEF Only
    <2>10. EndsIn(s, F, {r})
      BY <1>1, <2>9, EndsConcat
    <2>11. EndsIn(s, "xl_hm_mode", {0})
      <3>1. /\ Keeps(b, "xl_hm_mode", {0}) /\ Keeps(c, "xl_hm_mode", {0})
            /\ Keeps(d, "xl_hm_mode", {0})
        BY <1>1, <1>5, <2>3, <2>5, OnlyFacts DEF GyroFields
      <3>2. EndsIn(a \o b, "xl_hm_mode", {0})
        BY <2>2, <2>9, <3>1, EndsConcat
      <3>3. EndsIn(abc, "xl_hm_mode", {0})
        BY <2>9, <3>1, <3>2, EndsConcat
      <3> HIDE DEF abc
      <3> QED
        BY <2>9, <3>1, <3>3, EndsConcat
    <2>12. EndsIn(s, "xl_ulp_en", {1})
      <3>1. Keeps(d, "xl_ulp_en", {1})
        BY <1>1, <1>5, OnlyFacts
      <3>2. EndsIn(abc, "xl_ulp_en", {1})
        BY <2>3, <2>9, EndsConcat
      <3> HIDE DEF abc
      <3> QED
        BY <2>9, <3>1, <3>2, EndsConcat
    <2>13. ASSUME NEW f \in GyroFields
           PROVE  /\ Untouched(a, f) /\ Untouched(c, f) /\ Untouched(d, f)
                  /\ \A V : Keeps(a, f, V) /\ Keeps(c, f, V) /\ Keeps(d, f, V)
      <3>1. f \notin {"xl_hm_mode"} /\ f \notin P \cup {"xl_ulp_en"} /\ f \notin {F}
        BY <1>5 DEF GyroFields
      <3> QED
        BY <1>1, <2>2, <2>3, <3>1, OnlyFacts
    <2>14. ASSUME NEW f \in GyroFields, NEW V, EndsIn(b, f, V) PROVE EndsIn(s, f, V)
      <3>1. EndsIn(a \o b, f, V)
        BY <2>9, <2>14, EndsConcat
      <3>2. EndsIn(abc, f, V)
        BY <2>9, <2>13, <3>1, EndsConcat
      <3> HIDE DEF abc
      <3> QED
        BY <2>9, <2>13, <3>2, EndsConcat
    <2>15. "gyro_is_enabled" \in GyroFields /\ "odr_g" \in GyroFields /\ "gyro_odr" \in GyroFields
      BY DEF GyroFields
    <2>16. ASSUME sensor["gyro_is_enabled"] PROVE OffFirst(s, "odr_g", "gyro_is_enabled")
      <3>1. OffFirst(a \o b, "odr_g", "gyro_is_enabled")
        BY <2>4, <2>9, <2>13, <2>15, <2>16, OffConcat
      <3>2. OffFirst(abc, "odr_g", "gyro_is_enabled")
        BY <2>9, <2>13, <2>15, <3>1, OffConcat
      <3> HIDE DEF abc
      <3> QED
        BY <2>9, <2>13, <2>15, <3>2, OffConcat
    <2>17. Keeps(s, "gyro_is_enabled", {sensor["gyro_is_enabled"], FALSE})
      <3> DEFINE V == {sensor["gyro_is_enabled"], FALSE}
      <3>1. Keeps(b, "gyro_is_enabled", V)
        BY <2>4
      <3> HIDE DEF V
      <3>2. Keeps(a \o b, "gyro_is_enabled", V)
        BY <2>9, <2>13, <2>15, <3>1, KeepsConcat
      <3>3. Keeps(abc, "gyro_is_enabled", V)
        BY <2>9, <2>13, <2>15, <3>2, KeepsConcat
      <3> HIDE DEF abc
      <3>4. Keeps(s, "gyro_is_enabled", V)
        BY <2>9, <2>13, <2>15, <3>3, KeepsConcat
      <3> QED
        BY <3>4 DEF V
    <2>18. IsSteps(s) /\ \A f : f \notin (({"xl_hm_mode"} \cup B) \cup (P \cup {"xl_ulp_en"})) \cup {F}
                                   => Untouched(s, f)
      BY <2>8, OnlyFacts
    <2>19. /\ \A f \in {"is_initialized", "acc_is_enabled", "g_hm_mode"} : Untouched(s, f)
           /\ ~sensor["acc_is_enabled"] => Untouched(s, "odr_xl")
           /\ ~sensor["gyro_is_enabled"] => \A f \in GyroFields : Untouched(s, f)
      BY <2>18 DEF GyroFields
    <2>20. UlpOf(m) = 1 /\ HmOf(m) = 0
      BY <1>6 DEF UlpOf, HmOf
    <2>21. sensor["gyro_is_enabled"] =>
              /\ EndsIn(s, "gyro_odr", {sensor["odr_g"]}) /\ EndsIn(s, "odr_g", {0})
              /\ EndsIn(s, "gyro_is_enabled", {FALSE})
      BY <2>4, <2>14, <2>15
    <2>22. /\ sensor["acc_is_enabled"] => EndsIn(s, "odr_xl", {r})
           /\ ~sensor["acc_is_enabled"] => EndsIn(s, "acc_odr", {r})
      BY <2>10
    <2> HIDE DEF s
    <2>23. AccFacts(s, r, m)
      BY <1>6, <2>11, <2>12, <2>16, <2>17, <2>18, <2>19, <2>20, <2>21, <2>22, Zenon DEF AccFacts
    <2> QED
      BY <2>1, <2>23 DEF r
  <1>7. CASE m # "ultra_low_power"
    <2> DEFINE a == Sensing!Change("xl_ulp_en", 0, Sensing!PowerOff)
               b == Sensing!Change("xl_hm_mode", HmOf(m), <<>>)
               ab == a \o b
               s == ab \o d
    <2>1. Sensing!RateSteps(Sensing!acc, o, m) = s
      <3>1. HmOf(m) = IF m = "high_performance" THEN 0 ELSE 1
        BY <1>7 DEF HmOf, Modes
      <3>2. Sensing!ModeSteps(Sensing!acc, m) = ab
        BY <1>7, <3>1, SensorNames DEF Sensing!ModeSteps
      <3> QED
        BY <3>2 DEF Sensing!RateSteps
    <2>2. Only(b, {"xl_hm_mode"}) /\ EndsIn(b, "xl_hm_mode", {HmOf(m)})
      BY <1>3
    <2>3. Only(a, P \cup {"xl_ulp_en"}) /\ EndsIn(a, "xl_ulp_en", {0})
      BY <1>4
    <2> HIDE DEF a, b, d, r
    <2>4. Only(ab, (P \cup {"xl_ulp_en"}) \cup {"xl_hm_mode"})
      BY <2>2, <2>3, OnlyConcat
    <2>5. Only(s, ((P \cup {"xl_ulp_en"}) \cup {"xl_hm_mode"}) \cup {F})
      BY <1>1, <2>4, OnlyConcat
    <2>6. IsSteps(a) /\ IsSteps(b) /\ IsSteps(ab) /\ IsSteps(d)
      BY <1>1, <2>2, <2>3, <2>4 DEF Only
    <2>7. EndsIn(s, F, {r})
      BY <1>1, <2>6, EndsConcat
    <2>8. EndsIn(s, "xl_hm_mode", {HmOf(m)})
      <3>0. "xl_hm_mode" \notin {F}
        BY <1>5
      <3>1. Keeps(d, "xl_hm_mode", {HmOf(m)})
        <4>1. \A V : Keeps(d, "xl_hm_mode", V)
          BY <1>1, <3>0, OnlyFacts
        <4> QED
          BY <4>1
      <3>2. EndsIn(ab, "xl_hm_mode", {HmOf(m)})
        BY <2>2, <2>6, EndsConcat
      <3> HIDE DEF ab
      <3> QED
        BY <2>6, <3>1, <3>2, EndsConcat
    <2>9. EndsIn(s, "xl_ulp_en", {0})
      <3>1. Keeps(b, "xl_ulp_en", {0}) /\ Keeps(d, "xl_ulp_en", {0})
        BY <1>1, <1>5, <2>2, OnlyFacts
      <3>2. EndsIn(ab, "xl_ulp_en", {0})
        BY <2>3, <2>6, <3>1, EndsConcat
      <3> HIDE DEF ab
      <3> QED
        BY <2>6, <3>1, <3>2, EndsConcat
    <2>10. IsSteps(s) /\ \A f : f \notin ((P \cup {"xl_ulp_en"}) \cup {"xl_hm_mode"}) \cup {F}
                                   => Untouched(s, f)
      BY <2>5, OnlyFacts
    <2>11. /\ \A f \in {"is_initialized", "acc_is_enabled", "g_hm_mode"} : Untouched(s, f)
           /\ ~sensor["acc_is_enabled"] => Untouched(s, "odr_xl")
           /\ \A f \in GyroFields : Untouched(s, f)
      BY <2>10 DEF GyroFields
    <2>12. UlpOf(m) = 0
      BY <1>7 DEF UlpOf
    <2>13. /\ sensor["acc_is_enabled"] => EndsIn(s, "odr_xl", {r})
           /\ ~sensor["acc_is_enabled"] => EndsIn(s, "acc_odr", {r})
      BY <2>7
    <2> HIDE DEF s
    <2>14. AccFacts(s, r, m)
      BY <1>7, <2>8, <2>9, <2>10, <2>11, <2>12, <2>13, Zenon DEF AccFacts
    <2> QED
      BY <2>1, <2>14 DEF r
  <1> QED
    BY <1>6, <1>7

(* An object that is not initialised has its sensors off, and no rate is     *)
(* known of it.                                                             *)
RateInv ==
  /\ SensorIsFunction /\ CoreFields \subseteq DOMAIN sensor
  /\ sensor["acc_is_enabled"] \in BOOLEAN /\ sensor["gyro_is_enabled"] \in BOOLEAN
  /\ DOMAIN last_asked = {"acc", "gyro"} /\ last_asked = [n \in DOMAIN last_asked |-> last_asked[n]]
  /\ \A n \in {"acc", "gyro"} : last_asked[n] = [rate |-> last_asked[n].rate, mode |-> last_asked[n].mode]
  /\ ~sensor["is_initialized"] =>
        /\ ~sensor["acc_is_enabled"] /\ ~sensor["gyro_is_enabled"]
        /\ last_asked["acc"].rate = -1 /\ last_asked["gyro"].rate = -1
  /\ Sensing!RateKept

(* RateKept of either sensor, in the names of its fields.                   *)
AccKept ==
  /\ last_asked["acc"].rate # -1 =>
        IF sensor["acc_is_enabled"] THEN sensor["odr_xl"] = last_asked["acc"].rate
                                    ELSE sensor["acc_odr"] = last_asked["acc"].rate
  /\ ~sensor["acc_is_enabled"] /\ "acc" \notin stray => sensor["odr_xl"] = 0
  /\ last_asked["acc"].mode # "unknown" =>
        /\ sensor["xl_ulp_en"] = UlpOf(last_asked["acc"].mode)
        /\ sensor["xl_hm_mode"] = HmOf(last_asked["acc"].mode)
GyroKept ==
  /\ last_asked["gyro"].rate # -1 =>
        IF sensor["gyro_is_enabled"] THEN sensor["odr_g"] = last_asked["gyro"].rate
                                     ELSE sensor["gyro_odr"] = last_asked["gyro"].rate
  /\ ~sensor["gyro_is_enabled"] /\ "gyro" \notin stray => sensor["odr_g"] = 0
  /\ last_asked["gyro"].mode # "unknown" => sensor["g_hm_mode"] = HmOf(last_asked["gyro"].mode)

LEMMA RateKeptIs == Sensing!RateKept <=> AccKept /\ GyroKept
  <1>1. Sensing!RateKept <=>
          \A x \in {Sensing!acc, Sensing!gyro} :
            /\ last_asked[x.name].rate # -1 =>
                  sensor[IF sensor[x.flag] THEN x.rate ELSE x.odr] = last_asked[x.name].rate
            /\ ~sensor[x.flag] /\ x.name \notin stray => sensor[x.rate] = 0
            /\ /\ last_asked[x.name].mode # "unknown" /\ x = Sensing!acc =>
                     /\ sensor["xl_ulp_en"] = UlpOf(last_asked[x.name].mode)
                     /\ sensor["xl_hm_mode"] = HmOf(last_asked[x.name].mode)
               /\ last_asked[x.name].mode # "unknown" /\ x = Sensing!gyro =>
                     sensor["g_hm_mode"] = HmOf(last_asked[x.name].mode)
    BY SensorNames DEF Sensing!RateKept, Sensing!ODR_OFF, UlpOf, HmOf
  <1>2. Sensing!RateKept <=>
          /\ /\ last_asked["acc"].rate # -1 =>
                  sensor[IF sensor["acc_is_enabled"] THEN "odr_xl" ELSE "acc_odr"] = last_asked["acc"].rate
             /\ ~sensor["acc_is_enabled"] /\ "acc" \notin stray => sensor["odr_xl"] = 0
             /\ last_asked["acc"].mode # "unknown" =>
                  /\ sensor["xl_ulp_en"] = UlpOf(last_asked["acc"].mode)
                  /\ sensor["xl_hm_mode"] = HmOf(last_asked["acc"].mode)
          /\ /\ last_asked["gyro"].rate # -1 =>
                  sensor[IF sensor["gyro_is_enabled"] THEN "odr_g" ELSE "gyro_odr"] = last_asked["gyro"].rate
             /\ ~sensor["gyro_is_enabled"] /\ "gyro" \notin stray => sensor["odr_g"] = 0
             /\ last_asked["gyro"].mode # "unknown" =>
                  sensor["g_hm_mode"] = HmOf(last_asked["gyro"].mode)
    BY <1>1, SensorNames
  <1> QED
    BY <1>2 DEF AccKept, GyroKept

(* The fields that a call of an accelerometer's or of events leaves.        *)
LEMMA ReturnsFacts ==
  ASSUME RateInv, NEW s, IsSteps(s), NEW ok \in BOOLEAN, Sensing!Returns(s, ok)
  PROVE  /\ SensorIsFunction' /\ DOMAIN sensor' = DOMAIN sensor
         /\ \A f \in CoreFields : /\ \A A : sensor[f] \in A /\ Keeps(s, f, A) => sensor'[f] \in A
                                  /\ \A v : ok /\ EndsIn(s, f, {v}) => sensor'[f] = v
                                  /\ Untouched(s, f) => sensor'[f] = sensor[f]
  <1>1. SensorIsFunction /\ CoreFields \subseteq DOMAIN sensor
    BY DEF RateInv
  <1>2. /\ DOMAIN sensor' = DOMAIN sensor
        /\ SensorIsFunction'
        /\ \A f \in DOMAIN sensor : \A A : sensor[f] \in A /\ Keeps(s, f, A) => sensor'[f] \in A
        /\ \A f \in DOMAIN sensor : \A A : ok /\ EndsIn(s, f, A) => sensor'[f] \in A
        /\ \A f \in DOMAIN sensor : Untouched(s, f) => sensor'[f] = sensor[f]
    BY <1>1, FieldReturns
  <1>3. ASSUME NEW f \in CoreFields, NEW v, ok, EndsIn(s, f, {v}) PROVE sensor'[f] = v
    <2>1. sensor'[f] \in {v}
      BY <1>1, <1>2, <1>3
    <2> QED
      BY <2>1
  <1> QED
    BY <1>1, <1>2, <1>3

LEMMA RateKeptNext == (Sensing!RateKept <=> AccKept /\ GyroKept)'
  BY RateKeptIs, PTL

LEMMA RateStay ==
  ASSUME RateInv, SensorIsFunction', DOMAIN sensor' = DOMAIN sensor,
         \A f \in CoreFields : sensor'[f] = sensor[f],
         last_asked' = last_asked, stray' = stray
  PROVE  RateInv'
  <1>1. AccKept /\ GyroKept
    BY RateKeptIs DEF RateInv
  <1>2. /\ \A f \in {"is_initialized", "acc_is_enabled", "acc_odr", "odr_xl", "xl_ulp_en", "xl_hm_mode",
                     "g_hm_mode", "gyro_odr", "odr_g", "gyro_is_enabled"} : sensor'[f] = sensor[f]
    BY DEF CoreFields, GyroFields
  <1>3. AccKept'
    BY <1>1, <1>2 DEF AccKept
  <1>4. GyroKept'
    BY <1>1, <1>2 DEF GyroKept
  <1>5. Sensing!RateKept'
    BY <1>3, <1>4, RateKeptNext
  <1> QED
    BY <1>2, <1>5 DEF RateInv

LEMMA CoreNames ==
  /\ "is_initialized" \in CoreFields /\ "acc_is_enabled" \in CoreFields /\ "acc_odr" \in CoreFields
  /\ "odr_xl" \in CoreFields /\ "xl_ulp_en" \in CoreFields /\ "xl_hm_mode" \in CoreFields
  /\ "g_hm_mode" \in CoreFields /\ "gyro_odr" \in CoreFields /\ "odr_g" \in CoreFields
  /\ "gyro_is_enabled" \in CoreFields /\ GyroFields \subseteq CoreFields
  /\ GyroFields = {"gyro_odr", "odr_g", "gyro_is_enabled"}
  BY DEF CoreFields, GyroFields

(* What is known of the rates after a call that sets the accelerometer's.    *)
AccAsked(r, m, ok) ==
  last_asked' = IF ok THEN [last_asked EXCEPT !["acc"] = [rate |-> r, mode |-> m]]
                ELSE [last_asked EXCEPT !["acc"] = Sensing!Unknown,
                         !["gyro"].rate = IF m = "ultra_low_power" THEN -1 ELSE @]

LEMMA AccSet ==
  ASSUME RateInv, NEW m \in Modes, NEW r, NEW s, AccFacts(s, r, m), NEW ok \in BOOLEAN,
         Sensing!Returns(s, ok), sensor["is_initialized"], stray' = stray,
         AccAsked(r, m, ok)
  PROVE  RateInv'
  <1> DEFINE gyroOff == m = "ultra_low_power" /\ sensor["gyro_is_enabled"]
  <1>1. IsSteps(s)
    BY DEF AccFacts
  <1>2. /\ SensorIsFunction' /\ DOMAIN sensor' = DOMAIN sensor
        /\ \A f \in CoreFields : /\ \A A : sensor[f] \in A /\ Keeps(s, f, A) => sensor'[f] \in A
                                 /\ \A v : ok /\ EndsIn(s, f, {v}) => sensor'[f] = v
                                 /\ Untouched(s, f) => sensor'[f] = sensor[f]
    BY <1>1, ReturnsFacts
  <1>3. /\ sensor'["is_initialized"] = sensor["is_initialized"]
        /\ sensor'["acc_is_enabled"] = sensor["acc_is_enabled"]
        /\ sensor'["g_hm_mode"] = sensor["g_hm_mode"]
        /\ ~sensor["acc_is_enabled"] => sensor'["odr_xl"] = sensor["odr_xl"]
    BY <1>2, CoreNames DEF AccFacts
  <1>4. ASSUME ok
        PROVE  /\ sensor["acc_is_enabled"] => sensor'["odr_xl"] = r
               /\ ~sensor["acc_is_enabled"] => sensor'["acc_odr"] = r
               /\ sensor'["xl_ulp_en"] = UlpOf(m) /\ sensor'["xl_hm_mode"] = HmOf(m)
    BY <1>2, <1>4, CoreNames DEF AccFacts
  <1>5. ASSUME ~gyroOff
        PROVE  /\ sensor'["gyro_is_enabled"] = sensor["gyro_is_enabled"]
               /\ sensor'["gyro_odr"] = sensor["gyro_odr"] /\ sensor'["odr_g"] = sensor["odr_g"]
    BY <1>2, <1>5, CoreNames DEF AccFacts
  <1>6. ASSUME gyroOff, ok
        PROVE  /\ sensor'["gyro_is_enabled"] = FALSE
               /\ sensor'["gyro_odr"] = sensor["odr_g"] /\ sensor'["odr_g"] = 0
    <2>1. /\ EndsIn(s, "gyro_odr", {sensor["odr_g"]}) /\ EndsIn(s, "odr_g", {0})
          /\ EndsIn(s, "gyro_is_enabled", {FALSE})
      BY <1>6 DEF AccFacts
    <2>2. sensor'["gyro_is_enabled"] = FALSE
      BY <1>2, <1>6, <2>1, CoreNames, Zenon
    <2>3. sensor'["gyro_odr"] = sensor["odr_g"] /\ sensor'["odr_g"] = 0
      BY <1>2, <1>6, <2>1, CoreNames
    <2> QED
      BY <2>2, <2>3
  <1>7. ASSUME gyroOff
        PROVE  /\ sensor'["gyro_is_enabled"] = sensor["gyro_is_enabled"] \/ sensor'["odr_g"] = 0
               /\ sensor'["gyro_is_enabled"] \in BOOLEAN
    <2>1. /\ OffFirst(s, "odr_g", "gyro_is_enabled")
          /\ Keeps(s, "gyro_is_enabled", {sensor["gyro_is_enabled"], FALSE})
      BY <1>7 DEF AccFacts
    <2>2. "odr_g" \in DOMAIN sensor /\ "gyro_is_enabled" \in DOMAIN sensor /\ SensorIsFunction
      BY CoreNames DEF RateInv
    <2>3. sensor'["gyro_is_enabled"] = sensor["gyro_is_enabled"] \/ sensor'["odr_g"] = 0
      BY <1>1, <2>1, <2>2, OffReturns
    <2>4. sensor["gyro_is_enabled"] \in BOOLEAN /\ FALSE \in BOOLEAN
      BY DEF RateInv
    <2>5. sensor'["gyro_is_enabled"] \in {sensor["gyro_is_enabled"], FALSE}
      BY <1>2, <2>1, CoreNames, Zenon
    <2>6. sensor'["gyro_is_enabled"] \in BOOLEAN
      BY <2>4, <2>5, Zenon
    <2> QED
      BY <2>3, <2>6
  <1>8. sensor'["gyro_is_enabled"] \in BOOLEAN
    BY <1>5, <1>7 DEF RateInv
  <1>9. /\ DOMAIN last_asked = {"acc", "gyro"}
        /\ \A n \in {"acc", "gyro"} : last_asked[n] = [rate |-> last_asked[n].rate, mode |-> last_asked[n].mode]
        /\ AccKept /\ GyroKept
    BY RateKeptIs DEF RateInv
  <1> DEFINE g == last_asked["gyro"]
             a2 == last_asked'["acc"]
             g2 == last_asked'["gyro"]
  <1>10. /\ DOMAIN last_asked' = {"acc", "gyro"}
         /\ last_asked' = [n \in {"acc", "gyro"} |-> last_asked'[n]]
         /\ a2 = IF ok THEN [rate |-> r, mode |-> m] ELSE Sensing!Unknown
         /\ g2 = IF ok \/ m # "ultra_low_power" THEN g ELSE [g EXCEPT !.rate = -1]
    BY <1>9 DEF RateInv, AccAsked
  <1>11. /\ g = [rate |-> g.rate, mode |-> g.mode]
         /\ g2 = [rate |-> g2.rate, mode |-> g2.mode] /\ g2.mode = g.mode
         /\ g2.rate = IF ok \/ m # "ultra_low_power" THEN g.rate ELSE -1
    <2>1. g = [rate |-> g.rate, mode |-> g.mode]
      BY <1>9
    <2> HIDE DEF g, g2
    <2> QED
      BY <1>10, <2>1
  <1>12. /\ a2 = [rate |-> a2.rate, mode |-> a2.mode]
         /\ ok => a2.rate = r /\ a2.mode = m
         /\ ~ok => a2.rate = -1 /\ a2.mode = "unknown"
    <2>1. Sensing!Unknown = [rate |-> -1, mode |-> "unknown"]
      BY DEF Sensing!Unknown
    <2> HIDE DEF a2
    <2> QED
      BY <1>10, <2>1
  <1>13. AccKept'
    <2>1. ~sensor["acc_is_enabled"] /\ "acc" \notin stray => sensor["odr_xl"] = 0
      BY <1>9 DEF AccKept
    <2>2. /\ ok => a2.rate = r /\ a2.mode = m
          /\ ~ok => a2.rate = -1 /\ a2.mode = "unknown"
      BY <1>12
    <2> QED
      BY <1>3, <1>4, <2>1, <2>2 DEF AccKept
  <1>14. GyroKept'
    <2>1. /\ g.rate # -1 => IF sensor["gyro_is_enabled"] THEN sensor["odr_g"] = g.rate
                                                         ELSE sensor["gyro_odr"] = g.rate
          /\ ~sensor["gyro_is_enabled"] /\ "gyro" \notin stray => sensor["odr_g"] = 0
          /\ g.mode # "unknown" => sensor["g_hm_mode"] = HmOf(g.mode)
      BY <1>9 DEF GyroKept
    <2>2. g2.mode = g.mode /\ g2.rate = IF ok \/ m # "ultra_low_power" THEN g.rate ELSE -1
      BY <1>11
    <2>3. g2.mode # "unknown" => sensor'["g_hm_mode"] = HmOf(g2.mode)
      BY <1>3, <2>1, <2>2
    <2>4. g2.rate # -1 => IF sensor'["gyro_is_enabled"] THEN sensor'["odr_g"] = g2.rate
                                                        ELSE sensor'["gyro_odr"] = g2.rate
      BY <1>5, <1>6, <2>1, <2>2
    <2>5. ~sensor'["gyro_is_enabled"] /\ "gyro" \notin stray => sensor'["odr_g"] = 0
      BY <1>5, <1>7, <2>1
    <2> QED
      BY <2>3, <2>4, <2>5 DEF GyroKept
  <1>15. Sensing!RateKept'
    BY <1>13, <1>14, RateKeptNext
  <1>16. \A n \in {"acc", "gyro"} :
           last_asked'[n] = [rate |-> last_asked'[n].rate, mode |-> last_asked'[n].mode]
    BY <1>11, <1>12
  <1> HIDE DEF a2, g2, g
  <1> QED
    BY <1>2, <1>3, <1>8, <1>10, <1>15, <1>16 DEF RateInv

LEMMA GyroSet ==
  ASSUME RateInv, NEW m \in Modes, NEW r, NEW s, GyroFacts(s, r, m), NEW ok \in BOOLEAN,
         Sensing!Returns(s, ok), sensor["is_initialized"], stray' = stray,
         last_asked' = [last_asked EXCEPT !["gyro"] = IF ok THEN [rate |-> r, mode |-> m]
                                                      ELSE Sensing!Unknown]
  PROVE  RateInv'
  <1>1. IsSteps(s)
    BY DEF GyroFacts
  <1>2. /\ SensorIsFunction' /\ DOMAIN sensor' = DOMAIN sensor
        /\ \A f \in CoreFields : /\ \A v : ok /\ EndsIn(s, f, {v}) => sensor'[f] = v
                                 /\ Untouched(s, f) => sensor'[f] = sensor[f]
    BY <1>1, ReturnsFacts
  <1>3. /\ \A f \in CoreFields \ {"gyro_odr", "odr_g", "g_hm_mode"} : sensor'[f] = sensor[f]
        /\ ~sensor["gyro_is_enabled"] => sensor'["odr_g"] = sensor["odr_g"]
    BY <1>2, CoreNames DEF GyroFacts
  <1>4. ASSUME ok
        PROVE  /\ sensor["gyro_is_enabled"] => sensor'["odr_g"] = r
               /\ ~sensor["gyro_is_enabled"] => sensor'["gyro_odr"] = r
               /\ sensor'["g_hm_mode"] = HmOf(m)
    BY <1>2, <1>4, CoreNames DEF GyroFacts
  <1>5. /\ sensor'["is_initialized"] = sensor["is_initialized"]
        /\ sensor'["acc_is_enabled"] = sensor["acc_is_enabled"]
        /\ sensor'["gyro_is_enabled"] = sensor["gyro_is_enabled"]
        /\ sensor'["acc_odr"] = sensor["acc_odr"] /\ sensor'["odr_xl"] = sensor["odr_xl"]
        /\ sensor'["xl_ulp_en"] = sensor["xl_ulp_en"] /\ sensor'["xl_hm_mode"] = sensor["xl_hm_mode"]
    BY <1>3, CoreNames
  <1>6. /\ DOMAIN last_asked = {"acc", "gyro"}
        /\ \A n \in {"acc", "gyro"} : last_asked[n] = [rate |-> last_asked[n].rate, mode |-> last_asked[n].mode]
        /\ AccKept /\ GyroKept
    BY RateKeptIs DEF RateInv
  <1> DEFINE g2 == last_asked'["gyro"]
  <1>7. /\ DOMAIN last_asked' = {"acc", "gyro"}
        /\ last_asked' = [n \in {"acc", "gyro"} |-> last_asked'[n]]
        /\ last_asked'["acc"] = last_asked["acc"]
        /\ g2 = IF ok THEN [rate |-> r, mode |-> m] ELSE Sensing!Unknown
    BY <1>6 DEF RateInv
  <1>8. /\ g2 = [rate |-> g2.rate, mode |-> g2.mode]
        /\ ok => g2.rate = r /\ g2.mode = m
        /\ ~ok => g2.rate = -1 /\ g2.mode = "unknown"
    <2>1. Sensing!Unknown = [rate |-> -1, mode |-> "unknown"]
      BY DEF Sensing!Unknown
    <2> HIDE DEF g2
    <2> QED
      BY <1>7, <2>1
  <1>9. AccKept'
    BY <1>5, <1>6, <1>7 DEF AccKept
  <1>10. GyroKept'
    <2>1. ~sensor["gyro_is_enabled"] /\ "gyro" \notin stray => sensor["odr_g"] = 0
      BY <1>6 DEF GyroKept
    <2>2. /\ ok => g2.rate = r /\ g2.mode = m
          /\ ~ok => g2.rate = -1 /\ g2.mode = "unknown"
      BY <1>8
    <2> QED
      BY <1>3, <1>4, <1>5, <2>1, <2>2 DEF GyroKept
  <1>11. Sensing!RateKept'
    BY <1>9, <1>10, RateKeptNext
  <1>12. \A n \in {"acc", "gyro"} :
           last_asked'[n] = [rate |-> last_asked'[n].rate, mode |-> last_asked'[n].mode]
    BY <1>6, <1>7, <1>8
  <1> HIDE DEF g2
  <1> QED
    BY <1>2, <1>5, <1>7, <1>11, <1>12 DEF RateInv

(* A call that leaves the modes and one of the sensors, and of which a rate  *)
(* is known afterwards only if it was.                                      *)
AskedStays(x, ok) ==
  last_asked' = IF ok THEN last_asked ELSE [last_asked EXCEPT ![x.name].rate = -1]

LEMMA OneSensor ==
  ASSUME RateInv, SensorIsFunction', DOMAIN sensor' = DOMAIN sensor, NEW ok \in BOOLEAN,
         NEW x \in {Sensing!acc, Sensing!gyro}, sensor["is_initialized"],
         \A f \in CoreFields \ {x.flag, x.odr, x.rate} : sensor'[f] = sensor[f],
         sensor'[x.flag] \in BOOLEAN, AskedStays(x, ok), \A n : n # x.name => (n \in stray' <=> n \in stray),
         last_asked'[x.name].rate # -1 =>
            IF sensor'[x.flag] THEN sensor'[x.rate] = last_asked[x.name].rate
                               ELSE sensor'[x.odr] = last_asked[x.name].rate,
         ~sensor'[x.flag] /\ x.name \notin stray' => sensor'[x.rate] = 0
  PROVE  RateInv'
  <1>1. /\ DOMAIN last_asked = {"acc", "gyro"}
        /\ \A n \in {"acc", "gyro"} : last_asked[n] = [rate |-> last_asked[n].rate, mode |-> last_asked[n].mode]
        /\ AccKept /\ GyroKept
    BY RateKeptIs DEF RateInv
  <1>2. x.name \in {"acc", "gyro"}
    BY SensorNames
  <1>3. /\ DOMAIN last_asked' = {"acc", "gyro"}
        /\ last_asked' = [n \in {"acc", "gyro"} |-> last_asked'[n]]
        /\ \A n \in {"acc", "gyro"} :
             last_asked'[n] = [rate |-> last_asked'[n].rate, mode |-> last_asked'[n].mode]
        /\ \A n \in {"acc", "gyro"} :
             /\ last_asked'[n].mode = last_asked[n].mode
             /\ last_asked'[n].rate = IF ok \/ n # x.name THEN last_asked[n].rate ELSE -1
    <2>1. CASE ok
      BY <1>1, <2>1 DEF AskedStays, RateInv
    <2>2. CASE ~ok
      <3>1. last_asked' = [last_asked EXCEPT ![x.name].rate = -1]
        BY <2>2 DEF AskedStays
      <3> DEFINE y == x.name
                 a == last_asked[y]
                 b == [a EXCEPT !.rate = -1]
      <3>2. last_asked' = [last_asked EXCEPT ![y] = b]
        BY <3>1
      <3>3. a = [rate |-> a.rate, mode |-> a.mode] /\ y \in {"acc", "gyro"}
        BY <1>1, <1>2
      <3> HIDE DEF a, y
      <3>4. b = [rate |-> b.rate, mode |-> b.mode] /\ b.rate = -1 /\ b.mode = a.mode
        BY <3>3
      <3> HIDE DEF b
      <3>5. /\ DOMAIN last_asked' = {"acc", "gyro"}
            /\ last_asked' = [n \in {"acc", "gyro"} |-> last_asked'[n]]
            /\ \A n \in {"acc", "gyro"} : last_asked'[n] = IF n = y THEN b ELSE last_asked[n]
        BY <1>1, <3>2, <3>3 DEF RateInv
      <3>6. last_asked[y] = a
        BY DEF a
      <3>7. \A n \in {"acc", "gyro"} :
             /\ last_asked'[n] = [rate |-> last_asked'[n].rate, mode |-> last_asked'[n].mode]
             /\ last_asked'[n].mode = last_asked[n].mode
             /\ last_asked'[n].rate = IF n # y THEN last_asked[n].rate ELSE -1
        BY <1>1, <3>4, <3>5, <3>6
      <3> QED
        BY <2>2, <3>5, <3>7 DEF y
    <2> QED
      BY <2>1, <2>2
  <1>4. CASE x = Sensing!acc
    <2>1. /\ sensor'["is_initialized"] = sensor["is_initialized"]
          /\ sensor'["gyro_is_enabled"] = sensor["gyro_is_enabled"]
          /\ sensor'["gyro_odr"] = sensor["gyro_odr"] /\ sensor'["odr_g"] = sensor["odr_g"]
          /\ sensor'["xl_ulp_en"] = sensor["xl_ulp_en"] /\ sensor'["xl_hm_mode"] = sensor["xl_hm_mode"]
          /\ sensor'["g_hm_mode"] = sensor["g_hm_mode"]
      BY <1>4, CoreNames, SensorNames
    <2>2. GyroKept'
      BY <1>1, <1>3, <1>4, <2>1, SensorNames DEF GyroKept
    <2>3. AccKept'
      BY <1>1, <1>3, <1>4, <2>1, SensorNames DEF AccKept
    <2>4. Sensing!RateKept'
      BY <2>2, <2>3, RateKeptNext
    <2>5. sensor'["acc_is_enabled"] \in BOOLEAN
      BY <1>4, SensorNames
    <2> QED
      BY <1>3, <2>1, <2>4, <2>5 DEF RateInv
  <1>5. CASE x = Sensing!gyro
    <2>1. /\ sensor'["is_initialized"] = sensor["is_initialized"]
          /\ sensor'["acc_is_enabled"] = sensor["acc_is_enabled"]
          /\ sensor'["acc_odr"] = sensor["acc_odr"] /\ sensor'["odr_xl"] = sensor["odr_xl"]
          /\ sensor'["xl_ulp_en"] = sensor["xl_ulp_en"] /\ sensor'["xl_hm_mode"] = sensor["xl_hm_mode"]
          /\ sensor'["g_hm_mode"] = sensor["g_hm_mode"]
      BY <1>5, CoreNames, SensorNames
    <2>2. GyroKept'
      BY <1>1, <1>3, <1>5, <2>1, SensorNames DEF GyroKept
    <2>3. AccKept'
      BY <1>1, <1>3, <1>5, <2>1, SensorNames DEF AccKept
    <2>4. Sensing!RateKept'
      BY <2>2, <2>3, RateKeptNext
    <2>5. sensor'["gyro_is_enabled"] \in BOOLEAN
      BY <1>5, SensorNames
    <2> QED
      BY <1>3, <2>1, <2>4, <2>5 DEF RateInv
  <1> QED
    BY <1>4, <1>5

LEMMA KeptOf ==
  ASSUME RateInv, NEW x \in {Sensing!acc, Sensing!gyro}
  PROVE  /\ sensor[x.flag] \in BOOLEAN
         /\ last_asked[x.name].rate # -1 =>
              IF sensor[x.flag] THEN sensor[x.rate] = last_asked[x.name].rate
                                ELSE sensor[x.odr] = last_asked[x.name].rate
         /\ ~sensor[x.flag] /\ x.name \notin stray => sensor[x.rate] = 0
         /\ x.flag \in CoreFields /\ x.rate \in CoreFields /\ x.odr \in CoreFields
         /\ x.flag \in DOMAIN sensor /\ x.rate \in DOMAIN sensor
         /\ x.odr # x.rate /\ x.odr # x.flag /\ x.rate # x.flag
  <1>1. AccKept /\ GyroKept
    BY RateKeptIs DEF RateInv
  <1>2. CoreFields \subseteq DOMAIN sensor
    BY DEF RateInv
  <1>3. x.flag \in CoreFields /\ x.rate \in CoreFields /\ x.odr \in CoreFields
        /\ x.odr # x.rate /\ x.odr # x.flag /\ x.rate # x.flag
    BY SensorNames, CoreNames
  <1>4. CASE x = Sensing!acc
    BY <1>1, <1>2, <1>3, <1>4, SensorNames DEF RateInv, AccKept
  <1>5. CASE x = Sensing!gyro
    BY <1>1, <1>2, <1>3, <1>5, SensorNames DEF RateInv, GyroKept
  <1> QED
    BY <1>4, <1>5

LEMMA EnableFacts ==
  ASSUME NEW x \in {Sensing!acc, Sensing!gyro}
  PROVE  LET s == Sensing!EnableSteps(x)
         IN  /\ Only(s, {x.rate, x.flag})
             /\ sensor[x.flag] => s = <<>>
             /\ ~sensor[x.flag] => /\ EndsIn(s, x.rate, {sensor[x.odr]})
                                   /\ EndsIn(s, x.flag, {TRUE})
                                   /\ Settled(s, x.flag)
  <1> DEFINE a == Sensing!Write(x.rate, sensor[x.odr])
             b == Sensing!Assign(x.flag, TRUE)
             s == <<a, b>>
  <1>1. /\ a.field = x.rate /\ a.value = sensor[x.odr]
        /\ b.field = x.flag /\ b.value = TRUE /\ b.wrong = {} /\ ~b.bus
    BY DEF Sensing!Write, Sensing!Assign
  <1>2. Sensing!EnableSteps(x) = IF sensor[x.flag] THEN <<>> ELSE s
    BY DEF Sensing!EnableSteps
  <1>3. x.rate # x.flag
    BY DEF Sensing!acc, Sensing!gyro
  <1> HIDE DEF a, b
  <1>4. IsSteps(s) /\ DOMAIN s = 1..2 /\ s[1] = a /\ s[2] = b
    BY ShortSteps
  <1> HIDE DEF s
  <1>5. Only(s, {x.rate, x.flag}) /\ Only(<<>>, {x.rate, x.flag})
    BY <1>1, <1>4, ShortSteps DEF Only
  <1>6. EndsIn(s, x.rate, {sensor[x.odr]})
    <2>1. 1 \in DOMAIN s /\ s[1].field = x.rate
      BY <1>1, <1>4
    <2>2. \A j \in DOMAIN s : 1 <= j /\ s[j].field = x.rate => s[j].value \in {sensor[x.odr]}
      BY <1>1, <1>3, <1>4
    <2> QED
      BY <2>1, <2>2 DEF EndsIn
  <1>7. EndsIn(s, x.flag, {TRUE})
    <2>1. 2 \in DOMAIN s /\ s[2].field = x.flag
      BY <1>1, <1>4
    <2>2. \A j \in DOMAIN s : s[j].field = x.flag => s[j] = b
      BY <1>1, <1>3, <1>4
    <2>3. b.value \in {TRUE}
      BY <1>1, Zenon
    <2> QED
      BY <2>1, <2>2, <2>3, Zenon DEF EndsIn
  <1>8. Settled(s, x.flag)
    <2>1. \A j, k \in DOMAIN s : s[j].field = x.flag /\ j <= k => s[k] = b
      BY <1>1, <1>3, <1>4
    <2> QED
      BY <1>1, <2>1, Zenon DEF Settled
  <1> QED
    BY <1>2, <1>5, <1>6, <1>7, <1>8

LEMMA EnableRates ==
  ASSUME RateInv, NEW x \in {Sensing!acc, Sensing!gyro}, Sensing!Enable(x)
  PROVE  RateInv'
  <1> DEFINE s == Sensing!EnableSteps(x)
  <1>1. PICK ok \in BOOLEAN : Sensing!Returns(s, ok)
          /\ stray' = IF ok THEN stray \ {x.name} ELSE stray \cup {x.name}
    BY DEF Sensing!Enable
  <1>2. sensor["is_initialized"] /\ last_asked' = last_asked
    BY DEF Sensing!Enable
  <1>3. /\ Only(s, {x.rate, x.flag})
        /\ sensor[x.flag] => s = <<>>
        /\ ~sensor[x.flag] => /\ EndsIn(s, x.rate, {sensor[x.odr]})
                              /\ EndsIn(s, x.flag, {TRUE})
                              /\ Settled(s, x.flag)
    BY EnableFacts
  <1>4. Only(<<>>, {})
    BY OneStep
  <1> HIDE DEF s
  <1>5. IsSteps(s) /\ SensorIsFunction
    BY <1>3 DEF Only, RateInv
  <1>6. /\ SensorIsFunction' /\ DOMAIN sensor' = DOMAIN sensor
        /\ \A f \in CoreFields : /\ \A v : ok /\ EndsIn(s, f, {v}) => sensor'[f] = v
                                 /\ Untouched(s, f) => sensor'[f] = sensor[f]
    BY <1>1, <1>5, ReturnsFacts
  <1>7. /\ sensor[x.flag] \in BOOLEAN
        /\ last_asked[x.name].rate # -1 =>
              IF sensor[x.flag] THEN sensor[x.rate] = last_asked[x.name].rate
                                ELSE sensor[x.odr] = last_asked[x.name].rate
        /\ x.flag \in CoreFields /\ x.rate \in CoreFields /\ x.odr \in CoreFields
        /\ x.flag \in DOMAIN sensor
        /\ x.odr # x.rate /\ x.odr # x.flag /\ x.rate # x.flag
    BY KeptOf
  <1>8. \A f \in CoreFields \ {x.rate, x.flag} : sensor'[f] = sensor[f]
    BY <1>3, <1>6, OnlyFacts
  <1>9. ASSUME sensor[x.flag] PROVE sensor'[x.rate] = sensor[x.rate] /\ sensor'[x.flag] = sensor[x.flag]
    <2>1. s = <<>>
      BY <1>3, <1>9
    <2>2. Untouched(s, x.rate) /\ Untouched(s, x.flag)
      BY <1>4, <2>1, OnlyFacts
    <2> QED
      BY <1>6, <1>7, <2>2
  <1>10. ASSUME ~sensor[x.flag], ok PROVE sensor'[x.rate] = sensor[x.odr] /\ sensor'[x.flag] = TRUE
    <2>1. sensor'[x.rate] = sensor[x.odr]
      BY <1>3, <1>6, <1>7, <1>10
    <2>2. sensor'[x.flag] = TRUE
      BY <1>3, <1>6, <1>7, <1>10, Zenon
    <2> QED
      BY <2>1, <2>2
  <1>11. ASSUME ~sensor[x.flag], ~ok PROVE sensor'[x.flag] = sensor[x.flag]
    <2>1. Sensing!Returns(s, FALSE)
      <3>1. ok = FALSE
        BY <1>11
      <3> QED
        BY <1>1, <3>1, Zenon
    <2> QED
      BY <1>3, <1>5, <1>7, <1>11, <2>1, SettledReturns
  <1>12. sensor'[x.flag] \in BOOLEAN
    BY <1>7, <1>9, <1>10, <1>11
  <1>13. sensor'[x.odr] = sensor[x.odr]
    BY <1>7, <1>8
  <1>14. last_asked'[x.name].rate # -1 =>
            IF sensor'[x.flag] THEN sensor'[x.rate] = last_asked[x.name].rate
                               ELSE sensor'[x.odr] = last_asked[x.name].rate
    <2>1. CASE sensor[x.flag]
      BY <1>2, <1>7, <1>9, <2>1
    <2>2. CASE ~sensor[x.flag] /\ ok
      BY <1>2, <1>7, <1>10, <2>2
    <2>3. CASE ~sensor[x.flag] /\ ~ok
      BY <1>2, <1>7, <1>11, <1>13, <2>3
    <2> QED
      BY <2>1, <2>2, <2>3
  <1>15. ~sensor'[x.flag] /\ x.name \notin stray' => sensor'[x.rate] = 0
    <2>1. ok => sensor'[x.flag]
      BY <1>9, <1>10
    <2>2. ~ok => x.name \in stray'
      BY <1>1
    <2> QED
      BY <2>1, <2>2
  <1>16. \A n : n # x.name => (n \in stray' <=> n \in stray)
    BY <1>1
  <1>17. \A f \in CoreFields \ {x.flag, x.odr, x.rate} : sensor'[f] = sensor[f]
    BY <1>8
  <1>18. AskedStays(x, TRUE)
    BY <1>2 DEF AskedStays
  <1>19. TRUE \in BOOLEAN
    OBVIOUS
  <1> QED
    BY <1>2, <1>6, <1>12, <1>14, <1>15, <1>16, <1>17, <1>18, <1>19, OneSensor

LEMMA DisableRates ==
  ASSUME RateInv, NEW x \in {Sensing!acc, Sensing!gyro}, Sensing!Disable(x)
  PROVE  RateInv'
  <1> DEFINE s == Sensing!DisableSteps(x)
  <1>1. PICK ok \in BOOLEAN : Sensing!Returns(s, ok)
          /\ last_asked' = IF ok THEN last_asked ELSE Sensing!Forget(x)
    BY DEF Sensing!Disable
  <1>2. sensor["is_initialized"] /\ stray' = stray
    BY DEF Sensing!Disable
  <1>3. AskedStays(x, ok)
    BY <1>1, SensorNames DEF AskedStays, Sensing!Forget
  <1>4. /\ Only(s, {x.odr, x.rate, x.flag})
        /\ ~sensor[x.flag] => s = <<>>
        /\ sensor[x.flag] => /\ EndsIn(s, x.odr, {sensor[x.rate]})
                             /\ EndsIn(s, x.rate, {0})
                             /\ EndsIn(s, x.flag, {FALSE})
                             /\ OffFirst(s, x.rate, x.flag)
        /\ Keeps(s, x.flag, {sensor[x.flag], FALSE})
    BY DisableFacts
  <1>5. Only(<<>>, {})
    BY OneStep
  <1> HIDE DEF s
  <1>6. IsSteps(s) /\ SensorIsFunction
    BY <1>4 DEF Only, RateInv
  <1>7. /\ SensorIsFunction' /\ DOMAIN sensor' = DOMAIN sensor
        /\ \A f \in CoreFields : /\ \A A : sensor[f] \in A /\ Keeps(s, f, A) => sensor'[f] \in A
                                 /\ \A v : ok /\ EndsIn(s, f, {v}) => sensor'[f] = v
                                 /\ Untouched(s, f) => sensor'[f] = sensor[f]
    BY <1>1, <1>6, ReturnsFacts
  <1>8. /\ sensor[x.flag] \in BOOLEAN
        /\ last_asked[x.name].rate # -1 =>
              IF sensor[x.flag] THEN sensor[x.rate] = last_asked[x.name].rate
                                ELSE sensor[x.odr] = last_asked[x.name].rate
        /\ ~sensor[x.flag] /\ x.name \notin stray => sensor[x.rate] = 0
        /\ x.flag \in CoreFields /\ x.rate \in CoreFields /\ x.odr \in CoreFields
        /\ x.flag \in DOMAIN sensor /\ x.rate \in DOMAIN sensor
        /\ x.odr # x.rate /\ x.odr # x.flag /\ x.rate # x.flag
    BY KeptOf
  <1>9. \A f \in CoreFields \ {x.flag, x.odr, x.rate} : sensor'[f] = sensor[f]
    BY <1>4, <1>7, OnlyFacts
  <1>10. sensor'[x.flag] \in BOOLEAN
    <2>1. sensor[x.flag] \in {sensor[x.flag], FALSE}
      BY Zenon
    <2>2. sensor'[x.flag] \in {sensor[x.flag], FALSE}
      BY <1>4, <1>7, <1>8, <2>1, Zenon
    <2>3. FALSE \in BOOLEAN
      OBVIOUS
    <2> QED
      BY <1>8, <2>2, <2>3, Zenon
  <1>11. ASSUME ~sensor[x.flag]
         PROVE  /\ sensor'[x.rate] = sensor[x.rate] /\ sensor'[x.flag] = sensor[x.flag]
                /\ sensor'[x.odr] = sensor[x.odr]
    <2>1. s = <<>>
      BY <1>4, <1>11
    <2>2. Untouched(s, x.rate) /\ Untouched(s, x.flag) /\ Untouched(s, x.odr)
      BY <1>5, <2>1, OnlyFacts
    <2> QED
      BY <1>7, <1>8, <2>2
  <1>12. ASSUME sensor[x.flag], ok
         PROVE  sensor'[x.odr] = sensor[x.rate] /\ sensor'[x.rate] = 0 /\ sensor'[x.flag] = FALSE
    <2>1. sensor'[x.odr] = sensor[x.rate] /\ sensor'[x.rate] = 0
      BY <1>4, <1>7, <1>8, <1>12
    <2>2. sensor'[x.flag] = FALSE
      BY <1>4, <1>7, <1>8, <1>12, Zenon
    <2> QED
      BY <2>1, <2>2
  <1>13. ASSUME sensor[x.flag] PROVE sensor'[x.flag] = sensor[x.flag] \/ sensor'[x.rate] = 0
    BY <1>1, <1>4, <1>6, <1>8, <1>13, OffReturns
  <1>14. last_asked[x.name].rate # -1 /\ ok =>
            IF sensor'[x.flag] THEN sensor'[x.rate] = last_asked[x.name].rate
                               ELSE sensor'[x.odr] = last_asked[x.name].rate
    BY <1>8, <1>11, <1>12
  <1>15. ~ok => last_asked'[x.name].rate = -1
    <2>1. /\ DOMAIN last_asked = {"acc", "gyro"}
          /\ \A n \in {"acc", "gyro"} :
               last_asked[n] = [rate |-> last_asked[n].rate, mode |-> last_asked[n].mode]
      BY DEF RateInv
    <2>2. x.name \in {"acc", "gyro"}
      BY SensorNames
    <2> SUFFICES ASSUME ~ok PROVE last_asked'[x.name].rate = -1
      OBVIOUS
    <2> DEFINE a == last_asked[x.name]
               b == [a EXCEPT !.rate = -1]
    <2>3. last_asked' = [last_asked EXCEPT ![x.name] = b]
      BY <1>3 DEF AskedStays
    <2>4. a = [rate |-> a.rate, mode |-> a.mode]
      BY <2>1, <2>2
    <2> HIDE DEF a
    <2>5. b.rate = -1
      BY <2>4
    <2> HIDE DEF b
    <2> QED
      BY <2>1, <2>2, <2>3, <2>5
  <1>16. ok => last_asked' = last_asked
    BY <1>1
  <1>17. last_asked'[x.name].rate # -1 =>
            IF sensor'[x.flag] THEN sensor'[x.rate] = last_asked[x.name].rate
                               ELSE sensor'[x.odr] = last_asked[x.name].rate
    BY <1>14, <1>15, <1>16
  <1>18. ~sensor'[x.flag] /\ x.name \notin stray' => sensor'[x.rate] = 0
    BY <1>2, <1>8, <1>11, <1>13
  <1>19. \A n : n # x.name => (n \in stray' <=> n \in stray)
    BY <1>2
  <1> QED
    BY <1>2, <1>3, <1>7, <1>9, <1>10, <1>17, <1>18, <1>19, OneSensor

LEMMA InitRates ==
  ASSUME RateInv, Sensing!InitObject
  PROVE  RateInv'
  <1> DEFINE s == <<Sensing!Read("odr_xl"), Sensing!Assign("acc_odr", Sensing!ODR_104Hz),
                    Sensing!Write("odr_xl", Sensing!ODR_OFF), Sensing!Write("fs_xl", 0),
                    Sensing!Assign("gyro_odr", Sensing!ODR_104Hz),
                    Sensing!Write("odr_g", Sensing!ODR_OFF), Sensing!Write("fs_g", 6),
                    Sensing!Assign("is_initialized", TRUE)>>
  <1>1. PICK ok \in BOOLEAN :
          /\ Sensing!Returns(s, ok)
          /\ last_asked' = IF ok THEN [x \in DOMAIN last_asked |->
                                          [last_asked[x] EXCEPT !.rate = Sensing!ODR_104Hz]]
                                 ELSE last_asked
          /\ stray' = IF ok THEN {} ELSE stray
    BY DEF Sensing!InitObject
  <1>2. ~sensor["is_initialized"]
    BY DEF Sensing!InitObject
  <1>3. /\ s[1].field = "odr_xl" /\ s[2].field = "acc_odr" /\ s[3].field = "odr_xl"
        /\ s[4].field = "fs_xl" /\ s[5].field = "gyro_odr" /\ s[6].field = "odr_g"
        /\ s[7].field = "fs_g" /\ s[8].field = "is_initialized"
        /\ s[1].value = sensor["odr_xl"] /\ s[1].wrong = {}
        /\ s[2].value = 4 /\ s[3].value = 0 /\ s[3].wrong = {0} /\ s[5].value = 4
        /\ s[6].value = 0 /\ s[6].wrong = {0}
    BY DEF Sensing!Read, Sensing!WriteEmbedded, Sensing!Write, Sensing!Assign, Sensing!ODR_104Hz,
           Sensing!ODR_OFF
  <1>4. DOMAIN s = 1..8 /\ s \in [1..8 -> {s[k] : k \in 1..8}]
    OBVIOUS
  <1>5. Sensing!ODR_104Hz = 4
    BY DEF Sensing!ODR_104Hz
  <1> HIDE DEF s
  <1>6. IsSteps(s)
    BY <1>4 DEF IsSteps
  <1>7. /\ EndsIn(s, "acc_odr", {4}) /\ EndsIn(s, "odr_xl", {0})
        /\ EndsIn(s, "gyro_odr", {4}) /\ EndsIn(s, "odr_g", {0})
    <2>1. EndsIn(s, "acc_odr", {4})
      <3>1. 2 \in DOMAIN s /\ \A j \in DOMAIN s : 2 <= j /\ s[j].field = "acc_odr" => s[j].value \in {4}
        BY <1>3, <1>4
      <3> QED
        BY <1>3, <3>1 DEF EndsIn
    <2>2. EndsIn(s, "odr_xl", {0})
      <3>1. 3 \in DOMAIN s /\ \A j \in DOMAIN s : 3 <= j /\ s[j].field = "odr_xl" => s[j].value \in {0}
        BY <1>3, <1>4
      <3> QED
        BY <1>3, <3>1 DEF EndsIn
    <2>3. EndsIn(s, "gyro_odr", {4})
      <3>1. 5 \in DOMAIN s /\ \A j \in DOMAIN s : 5 <= j /\ s[j].field = "gyro_odr" => s[j].value \in {4}
        BY <1>3, <1>4
      <3> QED
        BY <1>3, <3>1 DEF EndsIn
    <2>4. EndsIn(s, "odr_g", {0})
      <3>1. 6 \in DOMAIN s /\ \A j \in DOMAIN s : 6 <= j /\ s[j].field = "odr_g" => s[j].value \in {0}
        BY <1>3, <1>4
      <3> QED
        BY <1>3, <3>1 DEF EndsIn
    <2> QED
      BY <2>1, <2>2, <2>3, <2>4
  <1>8. /\ sensor["odr_xl"] = 0 => Keeps(s, "odr_xl", {0})
        /\ Keeps(s, "odr_g", {0})
    BY <1>3, <1>4 DEF Keeps
  <1>9. /\ Untouched(s, "acc_is_enabled") /\ Untouched(s, "gyro_is_enabled")
        /\ Untouched(s, "xl_ulp_en") /\ Untouched(s, "xl_hm_mode") /\ Untouched(s, "g_hm_mode")
    BY <1>3, <1>4 DEF Untouched
  <1>10. /\ SensorIsFunction' /\ DOMAIN sensor' = DOMAIN sensor
         /\ \A f \in CoreFields : /\ \A A : sensor[f] \in A /\ Keeps(s, f, A) => sensor'[f] \in A
                                  /\ \A v : ok /\ EndsIn(s, f, {v}) => sensor'[f] = v
                                  /\ Untouched(s, f) => sensor'[f] = sensor[f]
    BY <1>1, <1>6, ReturnsFacts
  <1>11. /\ sensor'["acc_is_enabled"] = sensor["acc_is_enabled"]
         /\ sensor'["gyro_is_enabled"] = sensor["gyro_is_enabled"]
         /\ sensor'["xl_ulp_en"] = sensor["xl_ulp_en"]
         /\ sensor'["xl_hm_mode"] = sensor["xl_hm_mode"]
         /\ sensor'["g_hm_mode"] = sensor["g_hm_mode"]
    BY <1>9, <1>10, CoreNames
  <1>12. /\ ok => sensor'["acc_odr"] = 4 /\ sensor'["odr_xl"] = 0
         /\ ok => sensor'["gyro_odr"] = 4 /\ sensor'["odr_g"] = 0
    BY <1>7, <1>10, CoreNames
  <1>13. /\ sensor["odr_xl"] = 0 => sensor'["odr_xl"] = 0
         /\ sensor["odr_g"] = 0 => sensor'["odr_g"] = 0
    <2>1. sensor["odr_xl"] = 0 => sensor'["odr_xl"] \in {0}
      BY <1>8, <1>10, CoreNames
    <2>2. sensor["odr_g"] = 0 => sensor'["odr_g"] \in {0}
      BY <1>8, <1>10, CoreNames
    <2> QED
      BY <2>1, <2>2
  <1>14. /\ DOMAIN last_asked = {"acc", "gyro"}
         /\ \A n \in {"acc", "gyro"} : last_asked[n] = [rate |-> last_asked[n].rate, mode |-> last_asked[n].mode]
         /\ AccKept /\ GyroKept
         /\ ~sensor["acc_is_enabled"] /\ ~sensor["gyro_is_enabled"]
         /\ last_asked["acc"].rate = -1 /\ last_asked["gyro"].rate = -1
    BY <1>2, RateKeptIs DEF RateInv
  <1>15. /\ DOMAIN last_asked' = {"acc", "gyro"}
         /\ last_asked' = [n \in DOMAIN last_asked' |-> last_asked'[n]]
         /\ \A n \in {"acc", "gyro"} :
              /\ last_asked'[n] = [rate |-> last_asked'[n].rate, mode |-> last_asked'[n].mode]
              /\ last_asked'[n].mode = last_asked[n].mode
              /\ last_asked'[n].rate = IF ok THEN 4 ELSE -1
    <2>1. CASE ok
      <3>1. last_asked' = [x \in {"acc", "gyro"} |-> [last_asked[x] EXCEPT !.rate = 4]]
        BY <1>1, <1>5, <1>14, <2>1
      <3>2. ASSUME NEW n \in {"acc", "gyro"}
            PROVE  /\ last_asked'[n] = [rate |-> last_asked'[n].rate, mode |-> last_asked'[n].mode]
                   /\ last_asked'[n].mode = last_asked[n].mode
                   /\ last_asked'[n].rate = 4
        <4> DEFINE a == last_asked[n]
                   b == last_asked'[n]
        <4>1. b = [a EXCEPT !.rate = 4] /\ a = [rate |-> a.rate, mode |-> a.mode]
          BY <1>14, <3>1
        <4> HIDE DEF a, b
        <4>2. b = [rate |-> b.rate, mode |-> b.mode] /\ b.mode = a.mode /\ b.rate = 4
          BY <4>1
        <4> QED
          BY <4>2 DEF a, b
      <3> QED
        BY <2>1, <3>1, <3>2
    <2>2. CASE ~ok
      BY <1>1, <1>14, <2>2 DEF RateInv
    <2> QED
      BY <2>1, <2>2
  <1>16. AccKept'
    BY <1>1, <1>11, <1>12, <1>13, <1>14, <1>15 DEF AccKept
  <1>17. GyroKept'
    BY <1>1, <1>11, <1>12, <1>13, <1>14, <1>15 DEF GyroKept
  <1>18. Sensing!RateKept'
    BY <1>16, <1>17, RateKeptNext
  <1>19. ~sensor'["is_initialized"] => ~ok
    <2>1. EndsIn(s, "is_initialized", {TRUE})
      <3>1. 8 \in DOMAIN s /\ \A j \in DOMAIN s : 8 <= j => s[j] = s[8]
        BY <1>4
      <3>2. s[8].value \in {TRUE}
        BY DEF s, Sensing!Assign, Sensing!Write
      <3> QED
        BY <1>3, <3>1, <3>2, Zenon DEF EndsIn
    <2>2. ok => sensor'["is_initialized"] = TRUE
      BY <1>10, <2>1, CoreNames, Zenon
    <2> QED
      BY <2>2
  <1> QED
    BY <1>10, <1>11, <1>14, <1>15, <1>18, <1>19 DEF RateInv

LEMMA DeInitRates ==
  ASSUME RateInv, Sensing!DeInitObject
  PROVE  RateInv'
  <1> DEFINE a == Sensing!DisableSteps(Sensing!acc)
             b == Sensing!DisableSteps(Sensing!gyro)
             c == <<Sensing!Assign("acc_odr", Sensing!ODR_OFF),
                    Sensing!Assign("gyro_odr", Sensing!ODR_OFF),
                    Sensing!Assign("is_initialized", FALSE)>>
             ab == a \o b
             s == ab \o c
  <1>1. PICK ok \in BOOLEAN : Sensing!Returns(s, ok)
    BY DEF Sensing!DeInitObject
  <1>2. /\ last_asked' = [x \in DOMAIN last_asked |-> [last_asked[x] EXCEPT !.rate = -1]]
        /\ stray' = stray /\ sensor["is_initialized"]
    BY SensorNames DEF Sensing!DeInitObject
  <1>3. /\ Only(a, {"acc_odr", "odr_xl", "acc_is_enabled"})
        /\ ~sensor["acc_is_enabled"] => a = <<>>
        /\ sensor["acc_is_enabled"] => /\ EndsIn(a, "acc_is_enabled", {FALSE})
                                       /\ OffFirst(a, "odr_xl", "acc_is_enabled")
        /\ Keeps(a, "acc_is_enabled", {sensor["acc_is_enabled"], FALSE})
    BY DisableFacts, SensorNames
  <1>4. /\ Only(b, GyroFields)
        /\ ~sensor["gyro_is_enabled"] => b = <<>>
        /\ sensor["gyro_is_enabled"] => /\ EndsIn(b, "gyro_is_enabled", {FALSE})
                                        /\ OffFirst(b, "odr_g", "gyro_is_enabled")
        /\ Keeps(b, "gyro_is_enabled", {sensor["gyro_is_enabled"], FALSE})
    <2>1. GyroFields = {Sensing!gyro.odr, Sensing!gyro.rate, Sensing!gyro.flag}
      BY SensorNames DEF GyroFields
    <2> QED
      BY <2>1, DisableFacts, SensorNames
  <1>5. /\ Only(c, {"acc_odr", "gyro_odr", "is_initialized"})
        /\ Settled(c, "is_initialized") /\ EndsIn(c, "is_initialized", {FALSE})
    <2> DEFINE p == Sensing!Assign("acc_odr", Sensing!ODR_OFF)
               q == Sensing!Assign("gyro_odr", Sensing!ODR_OFF)
               r == Sensing!Assign("is_initialized", FALSE)
    <2>1. /\ p.field = "acc_odr" /\ q.field = "gyro_odr" /\ r.field = "is_initialized"
          /\ ~r.bus /\ r.wrong = {}
      BY DEF Sensing!Write, Sensing!Assign
    <2>2. r.value \in {FALSE}
      BY DEF Sensing!Write, Sensing!Assign
    <2> HIDE DEF p, q, r
    <2> DEFINE t == <<p, q, r>>
    <2>3. c = t
      BY DEF p, q, r
    <2>10. IsSteps(t)
      BY ShortSteps
    <2>11. DOMAIN t = 1..3 /\ t[1] = p /\ t[2] = q /\ t[3] = r
      OBVIOUS
    <2> HIDE DEF t, c
    <2>4. IsSteps(c) /\ DOMAIN c = 1..3 /\ c[1] = p /\ c[2] = q /\ c[3] = r
      BY <2>3, <2>10, <2>11
    <2>5. Only(c, {"acc_odr", "gyro_odr", "is_initialized"})
      BY <2>1, <2>4 DEF Only
    <2>6. \A j, k \in DOMAIN c : c[j].field = "is_initialized" /\ j <= k => c[k] = r
      BY <2>1, <2>4
    <2>7. Settled(c, "is_initialized")
      BY <2>1, <2>6, Zenon DEF Settled
    <2>8. 3 \in DOMAIN c /\ c[3].field = "is_initialized"
          /\ \A j \in DOMAIN c : c[j].field = "is_initialized" => c[j] = r
      BY <2>1, <2>4
    <2>9. EndsIn(c, "is_initialized", {FALSE})
      BY <2>2, <2>8, Zenon DEF EndsIn
    <2> QED
      BY <2>5, <2>7, <2>9
  <1> HIDE DEF a, b, c
  <1> DEFINE A == IF sensor["acc_is_enabled"] THEN {"acc_odr", "odr_xl", "acc_is_enabled"} ELSE {}
             B == IF sensor["gyro_is_enabled"] THEN GyroFields ELSE {}
             C == {"acc_odr", "gyro_odr", "is_initialized"}
  <1>6. Only(a, A) /\ Only(b, B) /\ Only(c, C)
    BY <1>3, <1>4, <1>5, OneStep
  <1>7. Only(ab, A \cup B)
    BY <1>6, OnlyConcat
  <1>8. Only(s, (A \cup B) \cup C)
    BY <1>6, <1>7, OnlyConcat
  <1>9. IsSteps(a) /\ IsSteps(b) /\ IsSteps(c) /\ IsSteps(ab) /\ IsSteps(s) /\ SensorIsFunction
    BY <1>6, <1>7, <1>8 DEF Only, RateInv
  <1>10. /\ \A f \in {"odr_xl", "acc_is_enabled", "is_initialized"} : f \notin B
         /\ \A f \in GyroFields \cup {"is_initialized"} : f \notin A
         /\ \A f \in {"odr_xl", "acc_is_enabled", "odr_g", "gyro_is_enabled"} : f \notin C
         /\ "odr_g" \in GyroFields /\ "gyro_is_enabled" \in GyroFields
    BY DEF GyroFields
  <1>11. /\ Untouched(b, "odr_xl") /\ Untouched(b, "acc_is_enabled") /\ Untouched(b, "is_initialized")
         /\ Untouched(a, "odr_g") /\ Untouched(a, "gyro_is_enabled") /\ Untouched(a, "is_initialized")
         /\ Untouched(c, "odr_xl") /\ Untouched(c, "acc_is_enabled")
         /\ Untouched(c, "odr_g") /\ Untouched(c, "gyro_is_enabled")
    BY <1>6, <1>10, OnlyFacts
  <1> HIDE DEF A, B, C
  <1>12. \A f, V : Untouched(a, f) => Keeps(a, f, V)
    BY UntouchedKeeps
  <1>13. \A f, V : Untouched(b, f) => Keeps(b, f, V)
    BY UntouchedKeeps
  <1>14. \A f, V : Untouched(c, f) => Keeps(c, f, V)
    BY UntouchedKeeps
  <1>15. Settled(s, "is_initialized") /\ EndsIn(s, "is_initialized", {FALSE})
    <2>1. Untouched(ab, "is_initialized")
      BY <1>9, <1>11, UntouchedConcat
    <2> HIDE DEF ab
    <2> QED
      BY <1>5, <1>9, <2>1, OffConcat, EndsConcat
  <1>16. ASSUME sensor["acc_is_enabled"]
         PROVE  /\ OffFirst(s, "odr_xl", "acc_is_enabled") /\ EndsIn(s, "acc_is_enabled", {FALSE})
    <2>1. OffFirst(ab, "odr_xl", "acc_is_enabled")
      BY <1>3, <1>9, <1>11, <1>16, OffConcat
    <2>2. EndsIn(ab, "acc_is_enabled", {FALSE})
      <3>1. Keeps(b, "acc_is_enabled", {FALSE})
        BY <1>11, <1>13
      <3> QED
        BY <1>3, <1>9, <1>16, <3>1, EndsConcat
    <2>3. Keeps(c, "acc_is_enabled", {FALSE})
      BY <1>11, <1>14
    <2> HIDE DEF ab
    <2>4. OffFirst(s, "odr_xl", "acc_is_enabled")
      BY <1>9, <1>11, <2>1, OffConcat
    <2>5. EndsIn(s, "acc_is_enabled", {FALSE})
      BY <1>9, <2>2, <2>3, EndsConcat
    <2> QED
      BY <2>4, <2>5
  <1>17. ASSUME sensor["gyro_is_enabled"]
         PROVE  /\ OffFirst(s, "odr_g", "gyro_is_enabled") /\ EndsIn(s, "gyro_is_enabled", {FALSE})
    <2>1. OffFirst(ab, "odr_g", "gyro_is_enabled")
      BY <1>4, <1>9, <1>11, <1>17, OffConcat
    <2>2. EndsIn(ab, "gyro_is_enabled", {FALSE})
      BY <1>4, <1>9, <1>17, EndsConcat
    <2>3. Keeps(c, "gyro_is_enabled", {FALSE})
      BY <1>11, <1>14
    <2> HIDE DEF ab
    <2>4. OffFirst(s, "odr_g", "gyro_is_enabled")
      BY <1>9, <1>11, <2>1, OffConcat
    <2>5. EndsIn(s, "gyro_is_enabled", {FALSE})
      BY <1>9, <2>2, <2>3, EndsConcat
    <2> QED
      BY <2>4, <2>5
  <1>18. /\ Keeps(s, "acc_is_enabled", {sensor["acc_is_enabled"], FALSE})
         /\ Keeps(s, "gyro_is_enabled", {sensor["gyro_is_enabled"], FALSE})
    <2> DEFINE V == {sensor["acc_is_enabled"], FALSE}
               W == {sensor["gyro_is_enabled"], FALSE}
    <2>1. Keeps(a, "acc_is_enabled", V) /\ Keeps(b, "gyro_is_enabled", W)
      BY <1>3, <1>4
    <2> HIDE DEF V, W
    <2>2. Keeps(ab, "acc_is_enabled", V) /\ Keeps(ab, "gyro_is_enabled", W)
      BY <1>9, <1>11, <1>12, <1>13, <2>1, KeepsConcat
    <2> HIDE DEF ab
    <2>3. Keeps(s, "acc_is_enabled", V) /\ Keeps(s, "gyro_is_enabled", W)
      BY <1>9, <1>11, <1>14, <2>2, KeepsConcat
    <2> QED
      BY <2>3 DEF V, W
  <1>19. /\ ~sensor["acc_is_enabled"] => Untouched(s, "odr_xl") /\ Untouched(s, "acc_is_enabled")
         /\ ~sensor["gyro_is_enabled"] => Untouched(s, "odr_g") /\ Untouched(s, "gyro_is_enabled")
         /\ Untouched(s, "xl_ulp_en") /\ Untouched(s, "xl_hm_mode") /\ Untouched(s, "g_hm_mode")
    <2>1. \A f : f \notin (A \cup B) \cup C => Untouched(s, f)
      BY <1>8, OnlyFacts
    <2>2. /\ ~sensor["acc_is_enabled"] => "odr_xl" \notin (A \cup B) \cup C
          /\ ~sensor["acc_is_enabled"] => "acc_is_enabled" \notin (A \cup B) \cup C
          /\ ~sensor["gyro_is_enabled"] => "odr_g" \notin (A \cup B) \cup C
          /\ ~sensor["gyro_is_enabled"] => "gyro_is_enabled" \notin (A \cup B) \cup C
          /\ \A f \in {"xl_ulp_en", "xl_hm_mode", "g_hm_mode"} : f \notin (A \cup B) \cup C
      BY DEF A, B, C, GyroFields
    <2> HIDE DEF s
    <2> QED
      BY <2>1, <2>2
  <1> HIDE DEF s
  <1>20. /\ SensorIsFunction' /\ DOMAIN sensor' = DOMAIN sensor
         /\ \A f \in CoreFields : /\ \A V : sensor[f] \in V /\ Keeps(s, f, V) => sensor'[f] \in V
                                  /\ \A v : ok /\ EndsIn(s, f, {v}) => sensor'[f] = v
                                  /\ Untouched(s, f) => sensor'[f] = sensor[f]
    BY <1>1, <1>9, ReturnsFacts
  <1>21. /\ DOMAIN last_asked = {"acc", "gyro"}
         /\ \A n \in {"acc", "gyro"} : last_asked[n] = [rate |-> last_asked[n].rate, mode |-> last_asked[n].mode]
         /\ AccKept /\ GyroKept /\ CoreFields \subseteq DOMAIN sensor
         /\ sensor["acc_is_enabled"] \in BOOLEAN /\ sensor["gyro_is_enabled"] \in BOOLEAN
    BY RateKeptIs DEF RateInv
  <1>22. /\ DOMAIN last_asked' = {"acc", "gyro"}
         /\ last_asked' = [n \in DOMAIN last_asked' |-> last_asked'[n]]
         /\ \A n \in {"acc", "gyro"} :
              /\ last_asked'[n] = [rate |-> last_asked'[n].rate, mode |-> last_asked'[n].mode]
              /\ last_asked'[n].mode = last_asked[n].mode
              /\ last_asked'[n].rate = -1
    <2>1. last_asked' = [x \in {"acc", "gyro"} |-> [last_asked[x] EXCEPT !.rate = -1]]
      BY <1>2, <1>21
    <2>2. ASSUME NEW n \in {"acc", "gyro"}
          PROVE  /\ last_asked'[n] = [rate |-> last_asked'[n].rate, mode |-> last_asked'[n].mode]
                 /\ last_asked'[n].mode = last_asked[n].mode
                 /\ last_asked'[n].rate = -1
      <3> DEFINE x == last_asked[n]
                 y == last_asked'[n]
      <3>1. y = [x EXCEPT !.rate = -1] /\ x = [rate |-> x.rate, mode |-> x.mode]
        BY <1>21, <2>1
      <3> HIDE DEF x, y
      <3>2. y = [rate |-> y.rate, mode |-> y.mode] /\ y.mode = x.mode /\ y.rate = -1
        BY <3>1
      <3> QED
        BY <3>2 DEF x, y
    <2> QED
      BY <2>1, <2>2
  <1>23. /\ sensor'["xl_ulp_en"] = sensor["xl_ulp_en"] /\ sensor'["xl_hm_mode"] = sensor["xl_hm_mode"]
         /\ sensor'["g_hm_mode"] = sensor["g_hm_mode"]
         /\ ~sensor["acc_is_enabled"] => /\ sensor'["odr_xl"] = sensor["odr_xl"]
                                         /\ sensor'["acc_is_enabled"] = sensor["acc_is_enabled"]
         /\ ~sensor["gyro_is_enabled"] => /\ sensor'["odr_g"] = sensor["odr_g"]
                                          /\ sensor'["gyro_is_enabled"] = sensor["gyro_is_enabled"]
    BY <1>19, <1>20, CoreNames
  <1>24. sensor["acc_is_enabled"] =>
            sensor'["acc_is_enabled"] = sensor["acc_is_enabled"] \/ sensor'["odr_xl"] = 0
    <2> SUFFICES ASSUME sensor["acc_is_enabled"]
                 PROVE  sensor'["acc_is_enabled"] = sensor["acc_is_enabled"] \/ sensor'["odr_xl"] = 0
      OBVIOUS
    <2>1. "odr_xl" \in DOMAIN sensor /\ "acc_is_enabled" \in DOMAIN sensor /\ "odr_xl" # "acc_is_enabled"
      BY <1>21, CoreNames
    <2> QED
      BY <1>1, <1>9, <1>16, <2>1, OffReturns
  <1>25. sensor["gyro_is_enabled"] =>
            sensor'["gyro_is_enabled"] = sensor["gyro_is_enabled"] \/ sensor'["odr_g"] = 0
    <2> SUFFICES ASSUME sensor["gyro_is_enabled"]
                 PROVE  sensor'["gyro_is_enabled"] = sensor["gyro_is_enabled"] \/ sensor'["odr_g"] = 0
      OBVIOUS
    <2>1. "odr_g" \in DOMAIN sensor /\ "gyro_is_enabled" \in DOMAIN sensor /\ "odr_g" # "gyro_is_enabled"
      BY <1>21, CoreNames
    <2> QED
      BY <1>1, <1>9, <1>17, <2>1, OffReturns
  <1>26. sensor'["acc_is_enabled"] \in BOOLEAN /\ sensor'["gyro_is_enabled"] \in BOOLEAN
    <2>1. /\ sensor["acc_is_enabled"] \in {sensor["acc_is_enabled"], FALSE}
          /\ sensor["gyro_is_enabled"] \in {sensor["gyro_is_enabled"], FALSE}
      BY Zenon
    <2>2. /\ sensor'["acc_is_enabled"] \in {sensor["acc_is_enabled"], FALSE}
          /\ sensor'["gyro_is_enabled"] \in {sensor["gyro_is_enabled"], FALSE}
      BY <1>18, <1>20, <2>1, CoreNames, Zenon
    <2>3. FALSE \in BOOLEAN
      OBVIOUS
    <2> QED
      BY <1>21, <2>2, <2>3, Zenon
  <1>27. ~sensor'["is_initialized"] => ~sensor'["acc_is_enabled"] /\ ~sensor'["gyro_is_enabled"]
    <2>1. CASE ok
      <3>1. sensor["acc_is_enabled"] => sensor'["acc_is_enabled"] = FALSE
        BY <1>16, <1>20, <2>1, CoreNames, Zenon
      <3>2. sensor["gyro_is_enabled"] => sensor'["gyro_is_enabled"] = FALSE
        BY <1>17, <1>20, <2>1, CoreNames, Zenon
      <3> QED
        BY <1>23, <3>1, <3>2
    <2>2. CASE ~ok
      <3>1. ok = FALSE
        BY <2>2
      <3>2. Sensing!Returns(s, FALSE)
        BY <1>1, <3>1, Zenon
      <3>3. "is_initialized" \in DOMAIN sensor
        BY <1>21, CoreNames
      <3>4. sensor'["is_initialized"] = sensor["is_initialized"]
        BY <1>9, <1>15, <3>2, <3>3, SettledReturns
      <3> QED
        BY <1>2, <3>4
    <2> QED
      BY <2>1, <2>2
  <1>28. AccKept'
    BY <1>2, <1>21, <1>22, <1>23, <1>24 DEF AccKept
  <1>29. GyroKept'
    BY <1>2, <1>21, <1>22, <1>23, <1>25 DEF GyroKept
  <1>30. Sensing!RateKept'
    BY <1>28, <1>29, RateKeptNext
  <1> QED
    BY <1>20, <1>21, <1>22, <1>26, <1>27, <1>30 DEF RateInv

(* What the other steps of a call do to the rates: nothing.                 *)
LeavesCore(t) == IsSteps(t) /\ \A f \in CoreFields : Untouched(t, f)

LEMMA CoreApart ==
  ASSUME NEW f \in CoreFields
  PROVE  /\ f \notin EventFields /\ f \notin RouteFields /\ f \notin ResetFields
         /\ f # "emb" /\ f # "fs_xl" /\ f # "fs_g"
  BY DEF CoreFields, GyroFields, EventFields, RouteFields, ResetFields

LEMMA CoreConcat ==
  ASSUME NEW s, NEW t, LeavesCore(s), LeavesCore(t)
  PROVE  LeavesCore(s \o t)
  <1>1. IsSteps(s) /\ IsSteps(t)
    BY DEF LeavesCore
  <1>2. IsSteps(s \o t)
    BY <1>1, StepsConcat
  <1>3. ASSUME NEW f \in CoreFields PROVE Untouched(s \o t, f)
    BY <1>1, UntouchedConcat DEF LeavesCore
  <1> QED
    BY <1>2, <1>3 DEF LeavesCore

LEMMA OtherSteps ==
  ASSUME NEW e \in Sensing!Events
  PROVE  /\ LeavesCore(<<>>) /\ LeavesCore(<<Sensing!Write("fs_xl", 0)>>)
         /\ \A m : LeavesCore(OwnSteps(e, m))
         /\ LeavesCore(Sensing!ResetSteps(e))
  <1>1. ASSUME NEW fs, IsSteps(fs), \A k \in DOMAIN fs : fs[k][1] \in ResetFields \cup {"fs_g"}
        PROVE  LeavesCore(Sensing!Writes(fs))
    <2>1. PICK n \in Nat : DOMAIN fs = 1..n
      BY <1>1 DEF IsSteps
    <2> DEFINE w == Sensing!Writes(fs)
    <2>2. /\ IsSteps(w) /\ DOMAIN w = 1..n
          /\ \A k \in 1..n : w[k].field = fs[k][1]
      BY <2>1, WritesSteps
    <2> HIDE DEF w
    <2>3. ASSUME NEW f \in CoreFields PROVE Untouched(w, f)
      <3>1. f \notin ResetFields \cup {"fs_g"}
        BY CoreApart
      <3> QED
        BY <1>1, <2>1, <2>2, <3>1 DEF Untouched
    <2>4. LeavesCore(w)
      BY <2>2, <2>3 DEF LeavesCore
    <2> QED
      BY <2>4 DEF w
  <1>2. LeavesCore(<<>>)
    BY OneStep, OnlyFacts, Zenon DEF LeavesCore, Only
  <1>3. LeavesCore(<<Sensing!Write("fs_xl", 0)>>)
    <2> DEFINE a == Sensing!Write("fs_xl", 0)
    <2>1. a.field = "fs_xl"
      BY DEF Sensing!Write
    <2> HIDE DEF a
    <2>2. Only(<<a>>, {a.field})
      BY OneStep
    <2>3. \A f \in CoreFields : f \notin {a.field}
      BY <2>1, CoreApart
    <2>4. LeavesCore(<<a>>)
      BY <2>2, <2>3, OnlyFacts DEF LeavesCore
    <2> QED
      BY <2>4 DEF a
  <1>4. LeavesCore(Sensing!EmbeddedOn(e)) /\ LeavesCore(Sensing!EmbeddedOff(e))
    BY EmbeddedSteps, CoreApart DEF LeavesCore
  <1>5. ASSUME NEW m PROVE LeavesCore(OwnSteps(e, m))
    <2>1. CASE e \in Sensing!EmbeddedEvents
      BY <1>4, <2>1, OwnStepsAre
    <2>2. CASE e \notin Sensing!EmbeddedEvents
      <3>1. PICK fs : SetsMarks(fs, e) /\ OwnSteps(e, m) = Sensing!Writes(fs)
        BY <2>2, OwnStepsAre
      <3> QED
        BY <1>1, <3>1 DEF SetsMarks
    <2> QED
      BY <2>1, <2>2
  <1>6. LeavesCore(Sensing!ResetSteps(e))
    <2>1. CASE e \in Sensing!EmbeddedEvents
      BY <1>4, <2>1, ResetStepsAre
    <2>2. CASE e \notin Sensing!EmbeddedEvents
      <3>1. PICK fs : ClearsMarks(fs, e) /\ Sensing!ResetSteps(e) = Sensing!Writes(fs)
        BY <2>2, ResetStepsAre
      <3> QED
        BY <1>1, <3>1 DEF ClearsMarks
    <2> QED
      BY <2>1, <2>2
  <1> QED
    BY <1>2, <1>3, <1>5, <1>6

LEMMA RouteLeaves ==
  ASSUME NEW p \in Sensing!Pins, NEW add, NEW remove, NEW earlier
  PROVE  LeavesCore(Sensing!Route(p, add, remove, earlier))
  <1> DEFINE R == Sensing!Route(p, add, remove, earlier)
  <1>1. IsSteps(R) /\ \A f : f \notin {p, Sensing!Embedded(p), "interrupts_enable"} => Untouched(R, f)
    BY RouteSteps
  <1>2. p \in RouteFields /\ Sensing!Embedded(p) \in RouteFields /\ "interrupts_enable" \in RouteFields
    BY DEF Sensing!Pins, Sensing!Embedded, RouteFields
  <1> HIDE DEF R
  <1>3. \A f \in CoreFields : Untouched(R, f)
    BY <1>1, <1>2, CoreApart
  <1> QED
    BY <1>1, <1>3 DEF LeavesCore, R

LEMMA CallLeaves ==
  ASSUME RateInv, NEW s, LeavesCore(s), NEW ok \in BOOLEAN, Sensing!Returns(s, ok),
         last_asked' = last_asked, stray' = stray
  PROVE  RateInv'
  <1>1. /\ SensorIsFunction' /\ DOMAIN sensor' = DOMAIN sensor
        /\ \A f \in CoreFields : Untouched(s, f) => sensor'[f] = sensor[f]
    BY ReturnsFacts DEF LeavesCore
  <1>2. \A f \in CoreFields : sensor'[f] = sensor[f]
    BY <1>1 DEF LeavesCore
  <1> QED
    BY <1>1, <1>2, RateStay

(* The steps that set an accelerometer's rate may be followed by others.     *)
LEMMA AccFactsConcat ==
  ASSUME NEW s, NEW t, NEW r, NEW m, AccFacts(s, r, m), LeavesCore(t)
  PROVE  AccFacts(s \o t, r, m)
  <1> DEFINE u == s \o t
  <1>1. IsSteps(s) /\ IsSteps(t) /\ IsSteps(u)
    BY StepsConcat DEF AccFacts, LeavesCore
  <1>2. \A f \in CoreFields : Untouched(s, f) => Untouched(u, f)
    BY <1>1, UntouchedConcat DEF LeavesCore
  <1>3. \A f \in CoreFields : \A A : Keeps(t, f, A)
    BY UntouchedKeeps DEF LeavesCore
  <1>4. \A f \in CoreFields : \A A : EndsIn(s, f, A) => EndsIn(u, f, A)
    BY <1>1, <1>3, EndsConcat
  <1>5. \A f \in CoreFields : \A A : Keeps(s, f, A) => Keeps(u, f, A)
    BY <1>1, <1>3, KeepsConcat
  <1>6. OffFirst(s, "odr_g", "gyro_is_enabled") => OffFirst(u, "odr_g", "gyro_is_enabled")
    BY <1>1, CoreNames, OffConcat DEF LeavesCore
  <1> HIDE DEF u
  <1>7. AccFacts(u, r, m)
    <2>1. \A f \in {"is_initialized", "acc_is_enabled", "g_hm_mode"} : Untouched(u, f)
      BY <1>2, CoreNames DEF AccFacts
    <2>2. sensor["acc_is_enabled"] => EndsIn(u, "odr_xl", {r})
      BY <1>4, CoreNames DEF AccFacts
    <2>3. ~sensor["acc_is_enabled"] => Untouched(u, "odr_xl") /\ EndsIn(u, "acc_odr", {r})
      BY <1>2, <1>4, CoreNames DEF AccFacts
    <2>4. EndsIn(u, "xl_ulp_en", {UlpOf(m)}) /\ EndsIn(u, "xl_hm_mode", {HmOf(m)})
      BY <1>4, CoreNames DEF AccFacts
    <2>5. ASSUME m = "ultra_low_power" /\ sensor["gyro_is_enabled"]
          PROVE  /\ EndsIn(u, "gyro_odr", {sensor["odr_g"]}) /\ EndsIn(u, "odr_g", {0})
                 /\ EndsIn(u, "gyro_is_enabled", {FALSE})
                 /\ OffFirst(u, "odr_g", "gyro_is_enabled")
                 /\ Keeps(u, "gyro_is_enabled", {sensor["gyro_is_enabled"], FALSE})
      BY <1>4, <1>5, <1>6, <2>5, CoreNames DEF AccFacts
    <2>6. ASSUME ~(m = "ultra_low_power" /\ sensor["gyro_is_enabled"])
          PROVE  \A f \in GyroFields : Untouched(u, f)
      BY <1>2, <2>6, CoreNames DEF AccFacts
    <2> QED
      BY <1>1, <2>1, <2>2, <2>3, <2>4, <2>5, <2>6 DEF AccFacts
  <1> QED
    BY <1>7 DEF u

(* The rate that AskedOfAcc notes.                                          *)
AccRate(o, m) == Sensing!RateFor(Sensing!acc, Sensing!Limited(Sensing!acc, o, m))

(* A call that sets a rate of the accelerometer, whatever follows its steps. *)
LEMMA AccCall ==
  ASSUME RateInv, NEW o, NEW m \in Modes, NEW s, AccFacts(s, AccRate(o, m), m), NEW ok \in BOOLEAN,
         Sensing!Returns(s, ok), sensor["is_initialized"],
         stray' = stray, last_asked' = Sensing!AskedOfAcc(o, m, ok)
  PROVE  RateInv'
  <1>1. AccAsked(AccRate(o, m), m, ok)
    BY SensorNames DEF Sensing!AskedOfAcc, Sensing!Asked, AccRate, AccAsked
  <1> QED
    BY <1>1, AccSet

LEMMA AccSteps ==
  ASSUME RateInv, NEW o, NEW m \in Modes
  PROVE  AccFacts(Sensing!RateSteps(Sensing!acc, o, m), AccRate(o, m), m)
  BY AccRateFacts DEF RateInv, AccRate

LEMMA SetOutputRates ==
  ASSUME RateInv, NEW x \in {Sensing!acc, Sensing!gyro}, NEW o, NEW m \in Modes,
         Sensing!SetOutputDataRate(x, o, m)
  PROVE  RateInv'
  <1>1. PICK ok \in BOOLEAN :
          /\ Sensing!Returns(Sensing!RateSteps(x, o, m), ok)
          /\ last_asked' = IF x = Sensing!acc THEN Sensing!AskedOfAcc(o, m, ok)
                           ELSE [last_asked EXCEPT !["gyro"] =
                                    IF ok THEN Sensing!Asked(Sensing!gyro, o, m) ELSE Sensing!Unknown]
    BY DEF Sensing!SetOutputDataRate
  <1>2. /\ sensor["is_initialized"] /\ stray' = stray
        /\ x = Sensing!gyro => m # "ultra_low_power"
    BY DEF Sensing!SetOutputDataRate
  <1>3. CASE x = Sensing!acc
    BY <1>1, <1>2, <1>3, AccSteps, AccCall
  <1>4. CASE x = Sensing!gyro
    <2> DEFINE r == Sensing!RateFor(Sensing!gyro, Sensing!Limited(Sensing!gyro, o, m))
               s == Sensing!RateSteps(Sensing!gyro, o, m)
    <2>1. m \in {"high_performance", "low_power"}
      BY <1>2, <1>4 DEF Modes
    <2>2. GyroFacts(s, r, m)
      BY <2>1, GyroRateFacts
    <2>3. Sensing!Returns(s, ok)
      BY <1>1, <1>4
    <2>4. last_asked' = [last_asked EXCEPT !["gyro"] =
                            IF ok THEN [rate |-> r, mode |-> m] ELSE Sensing!Unknown]
      BY <1>1, <1>4, SensorNames DEF Sensing!Asked
    <2> HIDE DEF r, s
    <2> QED
      BY <1>2, <2>2, <2>3, <2>4, GyroSet
  <1> QED
    BY <1>3, <1>4

LEMMA EventRates ==
  ASSUME RateInv, NEW e \in Sensing!Events, NEW p \in Sensing!Pins, NEW m, Sensing!EnableEvent(e, p, m)
  PROVE  RateInv'
  <1> DEFINE o == Sensing!EventOdr(e)
             a == Sensing!RateSteps(Sensing!acc, o, "high_performance")
             b == <<Sensing!Write("fs_xl", 0)>>
             c == OwnSteps(e, m)
             d == Sensing!Route(p, {e}, {}, {})
             z == IF e = "sleep_change" THEN <<>> ELSE a
             zb == z \o b
             zbc == zb \o c
             s == zbc \o d
  <1>1. Sensing!EventSteps(e, m) = zbc
    BY DEF Sensing!EventSteps, OwnSteps
  <1>2. PICK ok \in BOOLEAN :
          /\ Sensing!Returns(Sensing!EventSteps(e, m) \o d, ok)
          /\ last_asked' = IF e = "sleep_change" THEN last_asked
                           ELSE Sensing!AskedOfAcc(o, "high_performance", ok)
    BY DEF Sensing!EnableEvent
  <1>3. sensor["is_initialized"] /\ stray' = stray
    BY DEF Sensing!EnableEvent
  <1>4. LeavesCore(<<>>) /\ LeavesCore(b) /\ LeavesCore(c) /\ LeavesCore(d)
    BY OtherSteps, RouteLeaves
  <1>5. "high_performance" \in Modes
    BY DEF Modes
  <1>6. AccFacts(a, AccRate(o, "high_performance"), "high_performance")
    BY <1>5, AccSteps
  <1>7. Sensing!Returns(s, ok)
    BY <1>1, <1>2
  <1> HIDE DEF a, b, c, d, o
  <1>8. CASE e = "sleep_change"
    <2>1. LeavesCore(z)
      BY <1>4, <1>8
    <2> HIDE DEF z
    <2>2. LeavesCore(zb)
      BY <1>4, <2>1, CoreConcat
    <2> HIDE DEF zb
    <2>3. LeavesCore(zbc)
      BY <1>4, <2>2, CoreConcat
    <2> HIDE DEF zbc
    <2>4. LeavesCore(s)
      BY <1>4, <2>3, CoreConcat
    <2> HIDE DEF s
    <2> QED
      BY <1>2, <1>3, <1>7, <1>8, <2>4, CallLeaves
  <1>9. CASE e # "sleep_change"
    <2> DEFINE r == AccRate(o, "high_performance")
               F(t) == AccFacts(t, r, "high_performance")
    <2>1. F(z)
      BY <1>6, <1>9
    <2> HIDE DEF z
    <2>2. F(zb)
      BY <1>4, <2>1, AccFactsConcat
    <2> HIDE DEF zb
    <2>3. F(zbc)
      BY <1>4, <2>2, AccFactsConcat
    <2> HIDE DEF zbc
    <2>4. F(s)
      BY <1>4, <2>3, AccFactsConcat
    <2> HIDE DEF s
    <2> QED
      BY <1>2, <1>3, <1>5, <1>7, <1>9, <2>4, AccCall
  <1> QED
    BY <1>8, <1>9

LEMMA DisableEventRates ==
  ASSUME ObjectInv, RateInv, NEW e \in Sensing!Events, Sensing!DisableEvent(e)
  PROVE  RateInv'
  <1> DEFINE a == Sensing!Unroute(e)
             b == Sensing!ResetSteps(e)
             s == a \o b
  <1>1. PICK ok \in BOOLEAN : Sensing!Returns(s, ok)
    BY DEF Sensing!DisableEvent
  <1>2. last_asked' = last_asked /\ stray' = stray
    BY DEF Sensing!DisableEvent, Sensing!rateHistory
  <1>3. RoutesTyped
    BY DEF ObjectInv
  <1>4. IsSteps(a) /\ \A f : f \notin RouteFields => Untouched(a, f)
    BY <1>3, UnrouteSteps
  <1>5. LeavesCore(b)
    BY OtherSteps
  <1> HIDE DEF a, b
  <1>6. LeavesCore(a)
    BY <1>4, CoreApart DEF LeavesCore
  <1>7. LeavesCore(s)
    BY <1>5, <1>6, CoreConcat
  <1> HIDE DEF s
  <1> QED
    BY <1>1, <1>2, <1>7, CallLeaves

LEMMA DataReadyRates ==
  ASSUME RateInv, Sensing!DataReady
  PROVE  RateInv'
  <1>1. PICK ok \in BOOLEAN :
          \/ Sensing!Returns(Sensing!Route("int1", {"drdy_xl"}, {"drdy_g"}, {}), ok)
          \/ Sensing!Returns(Sensing!Route("int1", {}, {"drdy_xl"}, {}), ok)
          \/ Sensing!Returns(Sensing!Route("int2", {"drdy_g"}, {"drdy_xl"}, {}), ok)
    BY DEF Sensing!DataReady
  <1>2. last_asked' = last_asked /\ stray' = stray
    BY DEF Sensing!DataReady, Sensing!rateHistory
  <1>3. "int1" \in Sensing!Pins /\ "int2" \in Sensing!Pins
    BY DEF Sensing!Pins
  <1>4. \E s : LeavesCore(s) /\ Sensing!Returns(s, ok)
    BY <1>1, <1>3, RouteLeaves
  <1> QED
    BY <1>2, <1>4, CallLeaves

LEMMA RateInit == DevicesInit => RateInv
  <1> SUFFICES ASSUME Sensing!Init PROVE RateInv
    BY DEF DevicesInit
  <1> DEFINE all == Sensing!Flags \cup Sensing!Routes \cup Sensing!Numbers \cup DOMAIN Sensing!Reset
             start(f) == CASE f \in Sensing!Flags -> FALSE
                           [] f \in Sensing!Routes -> {}
                           [] f \in Sensing!Numbers -> 0
                           [] f \in DOMAIN Sensing!Reset -> Sensing!Reset[f]
  <1>1. sensor = [f \in all |-> start(f)]
    BY DEF Sensing!Init
  <1>2. DOMAIN Sensing!Reset = ResetFields
    BY DEF Sensing!Reset, ResetFields
  <1>3. CoreFields \subseteq all
    BY DEF CoreFields, GyroFields, Sensing!Flags, Sensing!Numbers
  <1>4. SensorIsFunction /\ DOMAIN sensor = all
    <2> HIDE DEF all, start
    <2> QED
      BY <1>1 DEF SensorIsFunction
  <1>5. /\ sensor["is_initialized"] = FALSE /\ sensor["acc_is_enabled"] = FALSE
        /\ sensor["gyro_is_enabled"] = FALSE
    <2>1. ASSUME NEW f \in Sensing!Flags PROVE f \in all /\ start(f) = FALSE
      <3>1. /\ f \notin Sensing!Routes /\ f \notin Sensing!Numbers /\ f \notin DOMAIN Sensing!Reset
        BY <1>2 DEF ResetFields, Sensing!Flags, Sensing!Routes, Sensing!Numbers
      <3> QED
        BY <3>1, Zenon
    <2> HIDE DEF all, start
    <2>2. \A f \in Sensing!Flags : sensor[f] = start(f)
      BY <1>1, <2>1
    <2>3. \A f \in Sensing!Flags : sensor[f] = FALSE
      BY <2>1, <2>2, Zenon
    <2> QED
      BY <2>3 DEF Sensing!Flags
  <1>6. sensor["odr_xl"] = 0 /\ sensor["odr_g"] = 0
    <2>1. ASSUME NEW f \in Sensing!Numbers PROVE f \in all /\ start(f) = 0
      <3>1. /\ f \notin Sensing!Routes /\ f \notin Sensing!Flags /\ f \notin DOMAIN Sensing!Reset
        BY <1>2 DEF ResetFields, Sensing!Flags, Sensing!Routes, Sensing!Numbers
      <3> QED
        BY <3>1
    <2> HIDE DEF all, start
    <2> QED
      BY <1>1, <2>1 DEF Sensing!Numbers
  <1> HIDE DEF all, start
  <1>7. last_asked = [acc |-> Sensing!Unknown, gyro |-> Sensing!Unknown]
    BY DEF Sensing!Init
  <1>8. Sensing!Unknown = [rate |-> -1, mode |-> "unknown"]
    BY DEF Sensing!Unknown
  <1>9. /\ DOMAIN last_asked = {"acc", "gyro"} /\ last_asked = [n \in DOMAIN last_asked |-> last_asked[n]]
        /\ last_asked["acc"] = Sensing!Unknown /\ last_asked["gyro"] = Sensing!Unknown
    BY <1>7
  <1>10. /\ last_asked["acc"].rate = -1 /\ last_asked["acc"].mode = "unknown"
         /\ last_asked["gyro"].rate = -1 /\ last_asked["gyro"].mode = "unknown"
    BY <1>8, <1>9
  <1>11. \A n \in {"acc", "gyro"} :
           last_asked[n] = [rate |-> last_asked[n].rate, mode |-> last_asked[n].mode]
    BY <1>8, <1>9
  <1>12. Sensing!RateKept
    BY <1>6, <1>10, RateKeptIs DEF AccKept, GyroKept
  <1> QED
    BY <1>3, <1>4, <1>5, <1>9, <1>10, <1>11, <1>12 DEF RateInv

LEMMA RateStep ==
  ASSUME ObjectInv, RateInv, [Sensing!Next]_objectVars
  PROVE  RateInv'
  <1>1. CASE UNCHANGED objectVars
    <2>1. sensor' = sensor /\ last_asked' = last_asked /\ stray' = stray
      BY <1>1 DEF objectVars
    <2>2. SensorIsFunction' /\ DOMAIN sensor' = DOMAIN sensor
      BY <2>1 DEF RateInv, SensorIsFunction
    <2> QED
      BY <2>1, <2>2, RateStay
  <1>2. CASE Sensing!InitObject
    BY <1>2, InitRates
  <1>3. CASE Sensing!DeInitObject
    BY <1>3, DeInitRates
  <1>4. CASE Sensing!DataReady
    BY <1>4, DataReadyRates
  <1>5. ASSUME NEW x \in {Sensing!acc, Sensing!gyro}, Sensing!Enable(x) \/ Sensing!Disable(x)
        PROVE  RateInv'
    BY <1>5, EnableRates, DisableRates
  <1>6. ASSUME NEW x \in {Sensing!acc, Sensing!gyro}, NEW o, NEW m \in Modes,
               Sensing!SetOutputDataRate(x, o, m)
        PROVE  RateInv'
    BY <1>6, SetOutputRates
  <1>7. ASSUME NEW e \in Sensing!Events, Sensing!DisableEvent(e) PROVE RateInv'
    BY <1>7, DisableEventRates
  <1>8. ASSUME NEW e \in Sensing!Events, NEW p \in Sensing!Pins, NEW m, Sensing!EnableEvent(e, p, m)
        PROVE  RateInv'
    BY <1>8, EventRates
  <1> QED
    BY <1>1, <1>2, <1>3, <1>4, <1>5, <1>6, <1>7, <1>8 DEF Sensing!Next, Modes

-------------------------------------------------------------------------------
(***************************************************************************)
(* The bit stream.                                                          *)
(***************************************************************************)
Pow(n) == Streaming!Power[n]

LEMMA StreamFits == Streaming!WidthAssumption
  BY DevicesAssumption

LEMMA WidthsAre == ByteBits \in Nat /\ ByteBits > 0 /\ WordBits \in Nat /\ WordBits > 0 /\ StreamBytes \in Nat
  BY StreamFits DEF Streaming!WidthAssumption

LEMMA PowIs ==
  /\ Pow(0) = 1
  /\ \A n \in 0..WordBits : /\ Pow(n) \in Nat /\ Pow(n) > 0
                            /\ n # 0 => n - 1 \in 0..WordBits /\ Pow(n) = 2 * Pow(n - 1)
  <1> DEFINE N == WordBits
             V == Nat \ {0}
             g == [x \in (1..N) \X V |-> 2 * x[2]]
  <1>1. N \in Nat
    BY WidthsAre
  <1>2. 1 \in V /\ g \in [(1..N) \X V -> V]
    OBVIOUS
  <1>3. \E f \in [0..N -> V] : Counts(N, 1, g, f)
    <2> HIDE DEF N, V, g
    <2> QED
      BY <1>1, <1>2, CountDefined
  <1>4. PICK f \in [0..N -> V] : Counts(N, 1, g, f)
    BY <1>3
  <1>5. \A k \in 0..N : f[k] = IF k = 0 THEN 1 ELSE 2 * f[k - 1]
    <2> SUFFICES ASSUME NEW k \in 0..N PROVE f[k] = IF k = 0 THEN 1 ELSE 2 * f[k - 1]
      OBVIOUS
    <2>1. f[k] = IF k = 0 THEN 1 ELSE g[<<k, f[k - 1]>>]
      BY <1>4 DEF Counts
    <2>2. k # 0 => <<k, f[k - 1]>> \in (1..N) \X V
      BY <1>1
    <2>3. k # 0 => g[<<k, f[k - 1]>>] = 2 * f[k - 1]
      BY <2>2
    <2> QED
      BY <2>1, <2>3
  <1>6. f = [k \in 0..N |-> IF k = 0 THEN 1 ELSE 2 * f[k - 1]]
    BY <1>5
  <1>7. Streaming!Power = [k \in 0..N |-> IF k = 0 THEN 1 ELSE 2 * Streaming!Power[k - 1]]
    BY <1>6 DEF Streaming!Power
  <1> DEFINE P == Streaming!Power
  <1>8. \A k \in 0..N : P[k] = IF k = 0 THEN 1 ELSE 2 * P[k - 1]
    BY <1>7
  <1> HIDE DEF P
  <1> DEFINE S == {k \in Nat : k <= N => P[k] \in Nat /\ P[k] > 0}
  <1>9. 0 \in S
    BY <1>1, <1>8
  <1>10. ASSUME NEW k \in Nat, k \in S PROVE k + 1 \in S
    <2> SUFFICES ASSUME k + 1 <= N PROVE P[k + 1] \in Nat /\ P[k + 1] > 0
      OBVIOUS
    <2>1. k + 1 \in 0..N /\ k + 1 # 0 /\ (k + 1) - 1 = k /\ k <= N
      BY <1>1
    <2>2. P[k + 1] = 2 * P[k]
      BY <1>8, <2>1
    <2> QED
      BY <1>10, <2>1, <2>2
  <1>11. \A k \in Nat : k \in S
    <2> HIDE DEF S
    <2> QED
      BY <1>9, <1>10, NatSetInduction
  <1>12. P[0] = 1
    BY <1>1, <1>8
  <1>13. \A k \in 0..N : P[k] \in Nat /\ P[k] > 0
    BY <1>11
  <1>14. \A k \in 0..N : k # 0 => k - 1 \in 0..N /\ P[k] = 2 * P[k - 1]
    BY <1>1, <1>8
  <1> QED
    BY <1>12, <1>13, <1>14 DEF Pow, P

LEMMA ValuesAre == \A v \in Values : v \in Nat
  <1>1. Values \subseteq 0..(Pow(WordBits) - 1)
    BY StreamFits DEF Streaming!WidthAssumption, Pow
  <1>2. Pow(WordBits) \in Nat
    BY PowIs, WidthsAre
  <1> QED
    BY <1>1, <1>2

(* Reading goes from bit to bit.                                            *)
Reads(d, p, n, f) ==
  /\ f[0] = 0
  /\ \A m \in Nat : m + 1 <= n => f[m + 1] = 2 * f[m] + Streaming!BitAt(d, p + m)
  /\ Streaming!Read(d, p, n) = f[n]

LEMMA ReadIs ==
  ASSUME NEW d, NEW p \in Nat, NEW n \in Nat
  PROVE  \E f \in [0..n -> Nat] : Reads(d, p, n, f)
  <1> DEFINE bit(q) == Streaming!BitAt(d, q)
             g == [x \in (1..n) \X Nat |-> 2 * x[2] + bit(p + x[1] - 1)]
             R == CHOOSE f : f = [m \in 0..n |-> IF m = 0 THEN 0
                                                 ELSE 2 * f[m - 1] + bit(p + m - 1)]
  <1>1. Streaming!Read(d, p, n) = R[n]
    BY DEF Streaming!Read
  <1>2. \A q : bit(q) \in Nat
    BY DEF Streaming!BitAt
  <1> HIDE DEF bit
  <1>3. g \in [(1..n) \X Nat -> Nat]
    BY <1>2
  <1>4. \E f \in [0..n -> Nat] : Counts(n, 0, g, f)
    <2> HIDE DEF g
    <2>1. 0 \in Nat
      OBVIOUS
    <2> QED
      BY <1>3, <2>1, CountDefined
  <1>5. PICK f \in [0..n -> Nat] : Counts(n, 0, g, f)
    BY <1>4
  <1>6. \A k \in 0..n : f[k] = IF k = 0 THEN 0 ELSE 2 * f[k - 1] + bit(p + k - 1)
    <2> SUFFICES ASSUME NEW k \in 0..n PROVE f[k] = IF k = 0 THEN 0 ELSE 2 * f[k - 1] + bit(p + k - 1)
      OBVIOUS
    <2>1. f[k] = IF k = 0 THEN 0 ELSE g[<<k, f[k - 1]>>]
      BY <1>5 DEF Counts
    <2>2. k # 0 => <<k, f[k - 1]>> \in (1..n) \X Nat
      OBVIOUS
    <2>3. k # 0 => g[<<k, f[k - 1]>>] = 2 * f[k - 1] + bit(p + k - 1)
      BY <2>2
    <2> QED
      BY <2>1, <2>3
  <1>7. f = [k \in 0..n |-> IF k = 0 THEN 0 ELSE 2 * f[k - 1] + bit(p + k - 1)]
    BY <1>6
  <1>8. R = [k \in 0..n |-> IF k = 0 THEN 0 ELSE 2 * R[k - 1] + bit(p + k - 1)]
    BY <1>7
  <1> HIDE DEF R
  <1>9. \A k \in 0..n : R[k] = IF k = 0 THEN 0 ELSE 2 * R[k - 1] + bit(p + k - 1)
    BY <1>8
  <1> DEFINE S == {k \in Nat : k <= n => R[k] \in Nat}
  <1>10. 0 \in S
    BY <1>9
  <1>11. ASSUME NEW k \in Nat PROVE k + 1 <= n => R[k + 1] = 2 * R[k] + bit(p + k)
    <2>1. k + 1 <= n => k + 1 \in 0..n /\ (k + 1) - 1 = k /\ p + (k + 1) - 1 = p + k /\ k + 1 # 0
      OBVIOUS
    <2> QED
      BY <1>9, <2>1
  <1>12. ASSUME NEW k \in Nat, k \in S PROVE k + 1 \in S
    <2> SUFFICES ASSUME k + 1 <= n PROVE R[k + 1] \in Nat
      OBVIOUS
    <2> DEFINE b == bit(p + k)
    <2>1. R[k] \in Nat
      BY <1>12
    <2>2. b \in Nat
      BY <1>2
    <2>3. R[k + 1] = 2 * R[k] + b
      BY <1>11
    <2> HIDE DEF b, S
    <2> QED
      BY <2>1, <2>2, <2>3
  <1>13. \A k \in Nat : k \in S
    <2> HIDE DEF S
    <2> QED
      BY <1>10, <1>12, NatSetInduction
  <1>14. R \in [0..n -> Nat]
    BY <1>8, <1>13
  <1>15. R[0] = 0
    BY <1>9
  <1>16. Reads(d, p, n, R)
    BY <1>1, <1>11, <1>15 DEF Reads, bit
  <1> QED
    BY <1>14, <1>16

LEMMA ReadSame ==
  ASSUME NEW d, NEW e, NEW p \in Nat, NEW n \in Nat,
         \A i \in 0..(n - 1) : Streaming!BitAt(d, p + i) = Streaming!BitAt(e, p + i)
  PROVE  Streaming!Read(d, p, n) = Streaming!Read(e, p, n)
  <1>1. PICK f \in [0..n -> Nat] : Reads(d, p, n, f)
    BY ReadIs
  <1>2. PICK g \in [0..n -> Nat] : Reads(e, p, n, g)
    BY ReadIs
  <1> DEFINE S == {m \in Nat : m <= n => f[m] = g[m]}
  <1>3. 0 \in S
    BY <1>1, <1>2 DEF Reads
  <1>4. ASSUME NEW m \in Nat, m \in S PROVE m + 1 \in S
    <2> SUFFICES ASSUME m + 1 <= n PROVE f[m + 1] = g[m + 1]
      OBVIOUS
    <2>1. m \in 0..(n - 1) /\ f[m] = g[m]
      BY <1>4
    <2>2. f[m + 1] = 2 * f[m] + Streaming!BitAt(d, p + m)
      BY <1>1 DEF Reads
    <2>3. g[m + 1] = 2 * g[m] + Streaming!BitAt(e, p + m)
      BY <1>2 DEF Reads
    <2> QED
      BY <2>1, <2>2, <2>3
  <1>5. \A m \in Nat : m \in S
    <2> HIDE DEF S
    <2> QED
      BY <1>3, <1>4, NatSetInduction
  <1>6. f[n] = g[n]
    BY <1>5
  <1> QED
    BY <1>1, <1>2, <1>6 DEF Reads

(* The bits of w, the most significant first, are read as w.                *)
LEMMA ReadBack ==
  ASSUME NEW d, NEW p \in Nat, NEW n \in 0..WordBits, NEW w \in Nat, w < Pow(n),
         \A i \in 0..(n - 1) : Streaming!BitAt(d, p + i) = IF Streaming!Bit(w, n - 1 - i) THEN 1 ELSE 0
  PROVE  Streaming!Read(d, p, n) = w
  <1>0. n \in Nat
    OBVIOUS
  <1>1. PICK f \in [0..n -> Nat] : Reads(d, p, n, f)
    BY <1>0, ReadIs
  <1> DEFINE S == {m \in Nat : m <= n => f[m] = w \div Pow(n - m)}
  <1>2. 0 \in S
    <2>1. Pow(n) \in Nat /\ w = 0 * Pow(n) + w
      BY PowIs
    <2>2. w \div Pow(n) = 0
      BY <2>1, IntDivMod
    <2> QED
      BY <1>0, <1>1, <2>2 DEF Reads
  <1>3. ASSUME NEW m \in Nat, m \in S PROVE m + 1 \in S
    <2> SUFFICES ASSUME m + 1 <= n PROVE f[m + 1] = w \div Pow(n - (m + 1))
      OBVIOUS
    <2> DEFINE k == n - (m + 1)
               P == Pow(k)
               x == w \div P
               b == Streaming!BitAt(d, p + m)
    <2>1. k \in 0..WordBits /\ n - m \in 0..WordBits /\ n - m # 0 /\ (n - m) - 1 = k
          /\ m \in 0..(n - 1) /\ n - 1 - m = k /\ m <= n
      BY <1>0, WidthsAre
    <2>2. P \in Nat /\ P > 0 /\ Pow(n - m) = 2 * P
      BY <2>1, PowIs
    <2>3. f[m] = w \div (2 * P)
      BY <1>3, <2>1, <2>2
    <2>4. f[m + 1] = 2 * f[m] + b
      BY <1>1 DEF Reads
    <2>5. b = IF x % 2 = 1 THEN 1 ELSE 0
      BY <2>1 DEF Streaming!Bit, Pow
    <2> HIDE DEF P, b, k
    <2>6. w \div (2 * P) = x \div 2
      BY <2>2, DivDiv
    <2>7. x \in Nat
      BY <2>2, DivIs
    <2> HIDE DEF x
    <2>8. f[m] = x \div 2
      BY <2>3, <2>6
    <2>9. x = 2 * (x \div 2) + IF x % 2 = 1 THEN 1 ELSE 0
      BY <2>7
    <2>10. f[m + 1] = x
      BY <2>4, <2>5, <2>8, <2>9
    <2> QED
      BY <2>10 DEF x, P, k
  <1>4. \A m \in Nat : m \in S
    <2> HIDE DEF S
    <2> QED
      BY <1>2, <1>3, NatSetInduction
  <1>5. f[n] = w \div Pow(n - n)
    BY <1>0, <1>4
  <1>6. n - n = 0 /\ w \div 1 = w
    BY <1>0
  <1>7. f[n] = w
    BY <1>5, <1>6, PowIs
  <1> QED
    BY <1>1, <1>7 DEF Reads

(* Values follow one another: each begins where the one before it ends.     *)
Added == Int \X (0..WordBits) \X BOOLEAN

LEMMA StartIs ==
  ASSUME NEW a \in Seq(Added)
  PROVE  /\ Streaming!Start(a, 1) = 0
         /\ \A j \in 1..Len(a) : Streaming!Start(a, j + 1) = Streaming!Start(a, j) + a[j][2]
         /\ \A j \in 1..(Len(a) + 1) : Streaming!Start(a, j) \in Nat
  <1> DEFINE n == Len(a)
             g == [x \in (1..n) \X Nat |-> x[2] + a[x[1]][2]]
             s == CHOOSE f : f = [k \in 0..n |-> IF k = 0 THEN 0 ELSE f[k - 1] + a[k][2]]
  <1>1. n \in Nat /\ \A k \in 1..n : a[k][2] \in Nat
    <2>1. \A k \in 1..n : a[k] \in Added
      OBVIOUS
    <2>2. \A x \in Added : x[2] \in Nat
      BY WidthsAre DEF Added
    <2>3. n \in Nat
      OBVIOUS
    <2> HIDE DEF n
    <2> QED
      BY <2>1, <2>2, <2>3
  <1>2. \A j : Streaming!Start(a, j) = s[j - 1]
    BY DEF Streaming!Start
  <1> HIDE DEF n
  <1>3. g \in [(1..n) \X Nat -> Nat]
    BY <1>1
  <1>4. \E f \in [0..n -> Nat] : Counts(n, 0, g, f)
    <2> HIDE DEF g
    <2>1. 0 \in Nat
      OBVIOUS
    <2> QED
      BY <1>1, <1>3, <2>1, CountDefined
  <1>5. PICK f \in [0..n -> Nat] : Counts(n, 0, g, f)
    BY <1>4
  <1>6. \A k \in 0..n : f[k] = IF k = 0 THEN 0 ELSE f[k - 1] + a[k][2]
    <2> SUFFICES ASSUME NEW k \in 0..n PROVE f[k] = IF k = 0 THEN 0 ELSE f[k - 1] + a[k][2]
      OBVIOUS
    <2>1. f[k] = IF k = 0 THEN 0 ELSE g[<<k, f[k - 1]>>]
      BY <1>5 DEF Counts
    <2>2. k # 0 => <<k, f[k - 1]>> \in (1..n) \X Nat
      BY <1>1
    <2>3. k # 0 => g[<<k, f[k - 1]>>] = f[k - 1] + a[k][2]
      BY <2>2
    <2> QED
      BY <2>1, <2>3
  <1>7. f = [k \in 0..n |-> IF k = 0 THEN 0 ELSE f[k - 1] + a[k][2]]
    BY <1>6
  <1>8. s = [k \in 0..n |-> IF k = 0 THEN 0 ELSE s[k - 1] + a[k][2]]
    BY <1>7
  <1> HIDE DEF s
  <1>9. \A k \in 0..n : s[k] = IF k = 0 THEN 0 ELSE s[k - 1] + a[k][2]
    BY <1>8
  <1> DEFINE S == {k \in Nat : k <= n => s[k] \in Nat}
  <1>10. 0 \in S
    BY <1>1, <1>9
  <1>11. ASSUME NEW k \in Nat, k \in S PROVE k + 1 \in S
    <2> SUFFICES ASSUME k + 1 <= n PROVE s[k + 1] \in Nat
      OBVIOUS
    <2>1. k + 1 \in 1..n /\ k + 1 \in 0..n /\ (k + 1) - 1 = k /\ k + 1 # 0 /\ k <= n
      BY <1>1
    <2>2. s[k + 1] = s[k] + a[k + 1][2] /\ s[k] \in Nat
      BY <1>9, <1>11, <2>1
    <2>3. a[k + 1][2] \in Nat
      BY <1>1, <2>1
    <2> QED
      BY <2>2, <2>3
  <1>12. \A k \in Nat : k \in S
    <2> HIDE DEF S
    <2> QED
      BY <1>10, <1>11, NatSetInduction
  <1>13. s[0] = 0
    BY <1>1, <1>9
  <1>14. \A j \in 1..n : s[j] = s[j - 1] + a[j][2]
    BY <1>1, <1>9
  <1>15. \A j \in 1..(n + 1) : s[j - 1] \in Nat
    BY <1>1, <1>12
  <1> QED
    <2>1. 1 - 1 = 0 /\ \A j \in 1..n : (j + 1) - 1 = j
      BY <1>1
    <2> QED
      BY <1>2, <1>13, <1>14, <1>15, <2>1 DEF n

LEMMA StartAppend ==
  ASSUME NEW a \in Seq(Added), NEW x \in Added
  PROVE  /\ Append(a, x) \in Seq(Added) /\ Len(Append(a, x)) = Len(a) + 1
         /\ \A j \in 1..Len(a) : Append(a, x)[j] = a[j]
         /\ Append(a, x)[Len(a) + 1] = x
         /\ \A j \in 1..(Len(a) + 1) : Streaming!Start(Append(a, x), j) = Streaming!Start(a, j)
         /\ Streaming!Start(Append(a, x), Len(a) + 2) = Streaming!Start(a, Len(a) + 1) + x[2]
  <1> DEFINE n == Len(a)
             b == Append(a, x)
  <1>1. /\ b \in Seq(Added) /\ Len(b) = n + 1 /\ n \in Nat
        /\ (\A j \in 1..n : b[j] = a[j]) /\ b[n + 1] = x
    OBVIOUS
  <1> HIDE DEF b
  <1>2. /\ Streaming!Start(a, 1) = 0
        /\ \A j \in 1..n : Streaming!Start(a, j + 1) = Streaming!Start(a, j) + a[j][2]
    BY StartIs
  <1>3. /\ Streaming!Start(b, 1) = 0
        /\ \A j \in 1..(n + 1) : Streaming!Start(b, j + 1) = Streaming!Start(b, j) + b[j][2]
    BY <1>1, StartIs
  <1> DEFINE S == {k \in Nat : k <= n => Streaming!Start(b, k + 1) = Streaming!Start(a, k + 1)}
  <1> HIDE DEF n
  <1>4. 0 \in S
    BY <1>2, <1>3
  <1>5. ASSUME NEW k \in Nat, k \in S PROVE k + 1 \in S
    <2> SUFFICES ASSUME k + 1 <= n
                 PROVE  Streaming!Start(b, (k + 1) + 1) = Streaming!Start(a, (k + 1) + 1)
      OBVIOUS
    <2>1. k + 1 \in 1..n /\ k + 1 \in 1..(n + 1) /\ k <= n
      BY <1>1
    <2> QED
      BY <1>1, <1>2, <1>3, <1>5, <2>1
  <1>6. \A k \in Nat : k \in S
    <2> HIDE DEF S
    <2> QED
      BY <1>4, <1>5, NatSetInduction
  <1>7. ASSUME NEW j \in 1..(n + 1) PROVE Streaming!Start(b, j) = Streaming!Start(a, j)
    <2>1. j - 1 \in Nat /\ j - 1 <= n /\ (j - 1) + 1 = j
      BY <1>1
    <2> QED
      BY <1>6, <2>1
  <1>8. Streaming!Start(b, n + 2) = Streaming!Start(a, n + 1) + x[2]
    <2>1. n + 1 \in 1..(n + 1) /\ (n + 1) + 1 = n + 2
      BY <1>1
    <2> QED
      BY <1>1, <1>3, <1>7, <2>1
  <1> QED
    BY <1>1, <1>7, <1>8 DEF b, n

(* The nearest value is the value itself, or the limit that it is beyond.    *)
LEMMA NearestIs ==
  ASSUME NEW v \in Int, NEW n, NEW signed, NEW least \in Int, NEW most \in Int, least <= most,
         Streaming!Representable(n, signed) = least..most
  PROVE  Streaming!Nearest(v, n, signed) = IF v < least THEN least ELSE IF v > most THEN most ELSE v
  <1> DEFINE R == least..most
             c == IF v < least THEN least ELSE IF v > most THEN most ELSE v
             Near(x) == \A y \in R : Streaming!Distance(x, v) <= Streaming!Distance(y, v)
  <1>1. c \in R
    OBVIOUS
  <1>2. Near(c)
    BY DEF Streaming!Distance
  <1>3. \A x \in R : Near(x) => x = c
    <2> SUFFICES ASSUME NEW x \in R, Near(x) PROVE x = c
      OBVIOUS
    <2>1. Streaming!Distance(x, v) <= Streaming!Distance(c, v)
      BY <1>1
    <2> QED
      BY <2>1 DEF Streaming!Distance
  <1>4. Streaming!Nearest(v, n, signed) = CHOOSE x \in R : Near(x)
    BY DEF Streaming!Nearest
  <1> HIDE DEF R, c, Near
  <1> QED
    BY <1>1, <1>2, <1>3, <1>4 DEF c

(* The byte that a position falls in.                                       *)
LEMMA PositionIn ==
  ASSUME NEW p \in Nat, p < StreamBytes * ByteBits
  PROVE  p \div ByteBits \in 0..(StreamBytes - 1)
  <1> DEFINE k == p \div ByteBits
             r == p % ByteBits
  <1>1. ByteBits \in Nat /\ ByteBits > 0 /\ StreamBytes \in Nat
    BY WidthsAre
  <1>2. k \in Nat /\ r \in Nat /\ p = k * ByteBits + r
    BY <1>1, DivIs
  <1> HIDE DEF k, r
  <1>3. ASSUME k >= StreamBytes PROVE FALSE
    <2>1. PICK e \in Nat : k = StreamBytes + e
      <3>1. k - StreamBytes \in Nat /\ k = StreamBytes + (k - StreamBytes)
        BY <1>1, <1>2, <1>3
      <3> QED
        BY <3>1
    <2>2. k * ByteBits = StreamBytes * ByteBits + e * ByteBits /\ e * ByteBits \in Nat
      BY <1>1, <2>1
    <2>3. StreamBytes * ByteBits \in Nat
      BY <1>1
    <2> QED
      BY <1>2, <2>2, <2>3
  <1>4. k \in 0..(StreamBytes - 1)
    BY <1>1, <1>2, <1>3
  <1> QED
    BY <1>4 DEF k

(* The bits of a value, and those of before.                                *)
LEMMA PackedBits ==
  ASSUME DOMAIN stream = 0..(StreamBytes - 1), total_bits \in Nat, NEW n \in Nat, NEW w,
         total_bits + n <= StreamBytes * ByteBits, NEW p \in Nat, p < StreamBytes * ByteBits
  PROVE  Streaming!BitAt(Streaming!Packed(w, n), p) =
           IF \/ Streaming!BitAt(stream, p) = 1
              \/ p >= total_bits /\ p < total_bits + n /\ Streaming!Bit(w, n - 1 - (p - total_bits))
           THEN 1 ELSE 0
  <1> DEFINE k == p \div ByteBits
             r == p % ByteBits
             J == {j \in 0..(n - 1) : /\ Streaming!Bit(w, n - 1 - j)
                                      /\ (total_bits + j) \div ByteBits = k}
             Set == {ByteBits - 1 - ((total_bits + i) % ByteBits) : i \in J}
  <1>1. ByteBits \in Nat /\ ByteBits > 0 /\ StreamBytes \in Nat
    BY WidthsAre
  <1>2. k \in Nat /\ r \in Nat /\ r < ByteBits /\ p = k * ByteBits + r
    BY <1>1, DivIs
  <1>3. ASSUME NEW j \in Nat
        PROVE  /\ (total_bits + j) \div ByteBits \in Nat /\ (total_bits + j) % ByteBits \in Nat
               /\ total_bits + j = ((total_bits + j) \div ByteBits) * ByteBits
                                     + ((total_bits + j) % ByteBits)
    <2>1. total_bits + j \in Nat
      OBVIOUS
    <2> QED
      BY <1>1, <2>1, DivIs
  <1>4. k \in 0..(StreamBytes - 1)
    BY PositionIn
  <1>5. Streaming!Packed(w, n)[k] = stream[k] \cup Set
    BY <1>4 DEF Streaming!Packed
  <1>6. ByteBits - 1 - r \in Set <=>
          p >= total_bits /\ p < total_bits + n /\ Streaming!Bit(w, n - 1 - (p - total_bits))
    <2>1. ASSUME ByteBits - 1 - r \in Set
          PROVE  p >= total_bits /\ p < total_bits + n /\ Streaming!Bit(w, n - 1 - (p - total_bits))
      <3>1. PICK i \in J : ByteBits - 1 - r = ByteBits - 1 - ((total_bits + i) % ByteBits)
        BY <2>1
      <3>2. i \in Nat /\ i < n /\ Streaming!Bit(w, n - 1 - i) /\ (total_bits + i) \div ByteBits = k
        OBVIOUS
      <3>3. (total_bits + i) % ByteBits \in Nat
        BY <1>3, <3>2
      <3>4. (total_bits + i) % ByteBits = r
        BY <1>1, <1>2, <3>1, <3>3
      <3>5. total_bits + i = p
        BY <1>2, <1>3, <3>2, <3>4
      <3>6. i = p - total_bits
        BY <3>2, <3>5
      <3> QED
        BY <3>2, <3>5, <3>6
    <2>2. ASSUME p >= total_bits, p < total_bits + n, Streaming!Bit(w, n - 1 - (p - total_bits))
          PROVE  ByteBits - 1 - r \in Set
      <3>1. p - total_bits \in 0..(n - 1) /\ total_bits + (p - total_bits) = p
        BY <2>2
      <3>2. p - total_bits \in J
        BY <2>2, <3>1
      <3>3. r = (total_bits + (p - total_bits)) % ByteBits
        BY <3>1
      <3> HIDE DEF J, r
      <3> QED
        BY <3>2, <3>3
    <2> QED
      BY <2>1, <2>2
  <1>7. Streaming!BitAt(stream, p) = 1 <=> ByteBits - 1 - r \in stream[k]
    BY DEF Streaming!BitAt
  <1>8. Streaming!BitAt(Streaming!Packed(w, n), p) =
          IF ByteBits - 1 - r \in Streaming!Packed(w, n)[k] THEN 1 ELSE 0
    BY DEF Streaming!BitAt
  <1> HIDE DEF Set, k, r
  <1> QED
    BY <1>5, <1>6, <1>7, <1>8

(* What a reader finds of a value: the bits of its encoding, decoded.        *)
Decoded(bits, n, signed) == IF signed /\ bits >= Pow(n - 1) THEN bits - Pow(n) ELSE bits

StreamInv ==
  /\ DOMAIN stream = 0..(StreamBytes - 1)
  /\ total_bits \in Nat /\ total_bits <= StreamBytes * ByteBits
  /\ overflow \in BOOLEAN
  /\ added \in Seq(Added)
  /\ total_bits = Streaming!Start(added, Len(added) + 1)
  /\ \A j \in 1..Len(added) : Streaming!Start(added, j) + added[j][2] <= total_bits
  /\ Streaming!StreamAsAdded

LEMMA StreamInit == Streaming!bitstream_init => StreamInv
  <1> SUFFICES ASSUME Streaming!bitstream_init PROVE StreamInv
    OBVIOUS
  <1>1. /\ stream = [k \in 0..(StreamBytes - 1) |-> {}] /\ total_bits = 0 /\ overflow = FALSE
        /\ added = <<>>
    BY DEF Streaming!bitstream_init
  <1>2. added \in Seq(Added) /\ Len(added) = 0 /\ DOMAIN added = {}
    BY <1>1
  <1>3. Streaming!Start(added, Len(added) + 1) = 0
    <2>1. Len(added) + 1 = 1
      BY <1>2
    <2>2. Streaming!Start(added, 1) = 0
      BY <1>2, StartIs
    <2> QED
      BY <2>1, <2>2
  <1>4. StreamBytes * ByteBits \in Nat /\ ByteBits \in Nat /\ ByteBits > 0 /\ StreamBytes \in Nat
    BY WidthsAre
  <1>5. ASSUME NEW p \in total_bits..(StreamBytes * ByteBits - 1) PROVE Streaming!BitAt(stream, p) = 0
    <2> DEFINE k == p \div ByteBits
    <2>1. p \in Nat /\ p < StreamBytes * ByteBits
      BY <1>1, <1>4
    <2>2. k \in 0..(StreamBytes - 1)
      BY <2>1, PositionIn
    <2>3. stream[k] = {}
      BY <1>1, <2>2
    <2> QED
      BY <2>3 DEF Streaming!BitAt
  <1>6. Streaming!StreamAsAdded
    BY <1>1, <1>2, <1>5 DEF Streaming!StreamAsAdded
  <1> QED
    <2>1. \A j \in 1..Len(added) : FALSE
      BY <1>2
    <2>2. total_bits \in Nat /\ total_bits <= StreamBytes * ByteBits
      BY <1>1, <1>4
    <2>3. overflow \in BOOLEAN /\ DOMAIN stream = 0..(StreamBytes - 1)
      BY <1>1
    <2>4. total_bits = Streaming!Start(added, Len(added) + 1)
      BY <1>1, <1>3
    <2> QED
      BY <1>2, <1>6, <2>1, <2>2, <2>3, <2>4 DEF StreamInv

(* A value whose bits stand for the nearest to it is appended.               *)
LEMMA AppendStep ==
  ASSUME StreamInv, NEW v \in Int, NEW n \in 0..WordBits, NEW signed \in BOOLEAN,
         NEW bits \in Nat, bits < Pow(n), NEW capped \in BOOLEAN,
         Decoded(bits, n, signed) = Streaming!Nearest(v, n, signed),
         capped <=> v \notin Streaming!Representable(n, signed),
         Streaming!Append_bits(v, n, bits, capped, signed)
  PROVE  StreamInv'
  <1> DEFINE t == Streaming!Packed(bits, n)
             x == <<v, n, signed>>
             a == Append(added, x)
             N == Len(added)
             T == StreamBytes * ByteBits
  <1>1. /\ total_bits + n <= T /\ stream' = t /\ total_bits' = total_bits + n
        /\ overflow' = (overflow \/ capped) /\ added' = a
    BY DEF Streaming!Append_bits
  <1>2. /\ DOMAIN stream = 0..(StreamBytes - 1) /\ total_bits \in Nat /\ added \in Seq(Added)
        /\ overflow \in BOOLEAN
        /\ total_bits = Streaming!Start(added, N + 1)
        /\ \A j \in 1..N : Streaming!Start(added, j) + added[j][2] <= total_bits
    BY DEF StreamInv
  <1>3. n \in Nat /\ T \in Nat
    BY WidthsAre
  <1>4. x \in Added /\ x[1] = v /\ x[2] = n /\ x[3] = signed
    BY DEF Added
  <1>5. DOMAIN t = 0..(StreamBytes - 1)
    BY <1>2 DEF Streaming!Packed
  <1>6. \A p \in Nat : p < T =>
          Streaming!BitAt(t, p) =
            IF \/ Streaming!BitAt(stream, p) = 1
               \/ p >= total_bits /\ p < total_bits + n /\ Streaming!Bit(bits, n - 1 - (p - total_bits))
            THEN 1 ELSE 0
    BY <1>1, <1>2, <1>3, PackedBits
  <1>7. \A p : Streaming!BitAt(stream, p) \in {0, 1}
    BY DEF Streaming!BitAt
  <1>8. \A p \in total_bits..(T - 1) : Streaming!BitAt(stream, p) = 0
    BY DEF StreamInv, Streaming!StreamAsAdded
  <1> HIDE DEF t, x, T
  <1>9. /\ a \in Seq(Added) /\ Len(a) = N + 1 /\ N \in Nat
        /\ (\A j \in 1..N : a[j] = added[j]) /\ a[N + 1] = x
        /\ \A j \in 1..(N + 1) : Streaming!Start(a, j) = Streaming!Start(added, j)
        /\ Streaming!Start(a, N + 2) = Streaming!Start(added, N + 1) + x[2]
        /\ \A j \in 1..(N + 1) : Streaming!Start(added, j) \in Nat
    BY <1>2, <1>4, StartAppend, StartIs
  <1> HIDE DEF a, N
  <1>10. /\ DOMAIN a = 1..(N + 1)
         /\ \A j \in 1..N : added[j][2] \in Nat
    <2>1. DOMAIN a = 1..Len(a)
      BY <1>9
    <2>2. \A j \in 1..N : added[j] \in Added
      BY <1>2 DEF N
    <2>3. \A y \in Added : y[2] \in Nat
      BY WidthsAre DEF Added
    <2> QED
      BY <1>9, <2>1, <2>2, <2>3
  (* The values added before are read as before. *)
  <1>11. ASSUME NEW j \in 1..N
         PROVE  Streaming!Read(t, Streaming!Start(a, j), a[j][2])
                  = Streaming!Read(stream, Streaming!Start(added, j), added[j][2])
    <2> DEFINE s == Streaming!Start(added, j)
               m == added[j][2]
    <2>1. s \in Nat /\ m \in Nat /\ s + m <= total_bits
      BY <1>2, <1>9, <1>10
    <2>2. Streaming!Start(a, j) = s /\ a[j][2] = m
      BY <1>9
    <2> HIDE DEF s, m
    <2>3. ASSUME NEW i \in 0..(m - 1) PROVE Streaming!BitAt(t, s + i) = Streaming!BitAt(stream, s + i)
      <3>1. s + i \in Nat /\ s + i < T /\ s + i < total_bits
        BY <1>1, <1>2, <1>3, <2>1
      <3> QED
        BY <1>2, <1>6, <1>7, <3>1
    <2>4. Streaming!Read(t, s, m) = Streaming!Read(stream, s, m)
      BY <2>1, <2>3, ReadSame
    <2> QED
      BY <2>2, <2>4 DEF s, m
  (* The new one is read as its bits. *)
  <1>12. Streaming!Read(t, Streaming!Start(a, N + 1), n) = bits
    <2>1. Streaming!Start(a, N + 1) = total_bits
      BY <1>2, <1>9
    <2>2. ASSUME NEW i \in 0..(n - 1)
          PROVE  Streaming!BitAt(t, total_bits + i) = IF Streaming!Bit(bits, n - 1 - i) THEN 1 ELSE 0
      <3>1. /\ total_bits + i \in Nat /\ total_bits + i < T /\ total_bits + i >= total_bits
            /\ total_bits + i < total_bits + n /\ (total_bits + i) - total_bits = i
            /\ total_bits + i \in total_bits..(T - 1)
        BY <1>1, <1>2, <1>3
      <3>2. Streaming!BitAt(stream, total_bits + i) = 0
        BY <1>8, <3>1
      <3> QED
        BY <1>6, <3>1, <3>2
    <2>3. Streaming!Read(t, total_bits, n) = bits
      BY <1>2, <2>2, ReadBack
    <2> QED
      BY <2>1, <2>3
  <1>13. ASSUME NEW p \in (total_bits + n)..(T - 1) PROVE Streaming!BitAt(t, p) = 0
    <2>1. p \in Nat /\ p < T /\ ~(p < total_bits + n) /\ p \in total_bits..(T - 1)
      BY <1>1, <1>2, <1>3
    <2>2. Streaming!BitAt(stream, p) = 0
      BY <1>8, <2>1
    <2> QED
      BY <1>6, <2>1, <2>2
  <1>14. \A j \in 1..N : Decoded(Streaming!Read(stream, Streaming!Start(added, j), added[j][2]),
                                 added[j][2], added[j][3])
                           = Streaming!Nearest(added[j][1], added[j][2], added[j][3])
    <2>1. DOMAIN added = 1..N
      BY <1>2 DEF N
    <2> QED
      BY <2>1 DEF StreamInv, Streaming!StreamAsAdded, Streaming!Field, Decoded, Pow
  <1>15. ASSUME NEW j \in 1..(N + 1)
         PROVE  Decoded(Streaming!Read(t, Streaming!Start(a, j), a[j][2]), a[j][2], a[j][3])
                  = Streaming!Nearest(a[j][1], a[j][2], a[j][3])
    <2>1. CASE j \in 1..N
      BY <1>9, <1>11, <1>14, <2>1
    <2>2. CASE j = N + 1
      BY <1>4, <1>9, <1>12, <2>2
    <2> QED
      BY <1>9, <2>1, <2>2
  <1>16. overflow' <=> \E j \in 1..(N + 1) : a[j][1] \notin Streaming!Representable(a[j][2], a[j][3])
    <2>1. overflow <=> \E j \in 1..N : added[j][1] \notin Streaming!Representable(added[j][2], added[j][3])
      <3>1. DOMAIN added = 1..N
        BY <1>2 DEF N
      <3> QED
        BY <3>1 DEF StreamInv, Streaming!StreamAsAdded
    <2>2. 1..(N + 1) = 1..N \cup {N + 1}
      BY <1>9
    <2>3. a[N + 1][1] \notin Streaming!Representable(a[N + 1][2], a[N + 1][3]) <=> capped
      BY <1>4, <1>9
    <2>4. \A j \in 1..N : a[j] = added[j]
      BY <1>9
    <2> QED
      BY <1>1, <2>1, <2>2, <2>3, <2>4, Zenon
  <1>17. Streaming!StreamAsAdded'
    <2>1. /\ \A j \in DOMAIN added' :
               Streaming!Field(j)' = Streaming!Nearest(added'[j][1], added'[j][2], added'[j][3])
      BY <1>1, <1>10, <1>15 DEF Streaming!Field, Decoded, Pow
    <2>2. \A p \in total_bits'..(T - 1) : Streaming!BitAt(stream', p) = 0
      BY <1>1, <1>13
    <2>3. overflow' <=> \E j \in DOMAIN added' :
                          added'[j][1] \notin Streaming!Representable(added'[j][2], added'[j][3])
      BY <1>1, <1>10, <1>16
    <2> QED
      BY <2>1, <2>2, <2>3 DEF Streaming!StreamAsAdded, T
  <1>18. \A j \in 1..(N + 1) : Streaming!Start(a, j) + a[j][2] <= total_bits + n
    <2> TAKE j \in 1..(N + 1)
    <2>1. CASE j \in 1..N
      <3> DEFINE s == Streaming!Start(added, j)
                 m == added[j][2]
      <3>1. s \in Nat /\ m \in Nat /\ s + m <= total_bits
        BY <1>2, <1>9, <1>10, <2>1
      <3>2. Streaming!Start(a, j) = s /\ a[j][2] = m
        BY <1>9, <2>1
      <3> HIDE DEF s, m
      <3>3. s + m <= total_bits + n
        BY <1>2, <1>3, <3>1
      <3> QED
        BY <3>2, <3>3
    <2>2. CASE j = N + 1
      BY <1>2, <1>3, <1>4, <1>9, <2>2
    <2> QED
      BY <1>9, <2>1, <2>2
  <1>19. total_bits + n = Streaming!Start(a, (N + 1) + 1)
    BY <1>2, <1>4, <1>9
  <1> QED
    BY <1>1, <1>2, <1>3, <1>5, <1>9, <1>17, <1>18, <1>19 DEF StreamInv, T

LEMMA Capped ==
  ASSUME NEW v \in Int, NEW least \in Int, NEW most \in Int, least <= most,
         NEW c, c = IF v < least THEN least ELSE IF v > most THEN most ELSE v
  PROVE  c \in Int /\ least <= c /\ c <= most /\ (c # v <=> v \notin least..most)
  OBVIOUS

LEMMA PlainDecoded ==
  ASSUME NEW v \in Nat, NEW n \in 0..WordBits, NEW c, c = IF v > Pow(n) - 1 THEN Pow(n) - 1 ELSE v
  PROVE  /\ c \in Nat /\ c < Pow(n)
         /\ Decoded(c, n, FALSE) = Streaming!Nearest(v, n, FALSE)
         /\ v > Pow(n) - 1 <=> v \notin Streaming!Representable(n, FALSE)
  <1> DEFINE P == Pow(n)
  <1>1. P \in Nat /\ P > 0
    BY PowIs
  <1>2. Streaming!Representable(n, FALSE) = 0..(P - 1)
    BY DEF Streaming!Representable, Pow
  <1> HIDE DEF P
  <1> DEFINE most == P - 1
             near == IF v < 0 THEN 0 ELSE IF v > most THEN most ELSE v
  <1>3. v \in Int /\ 0 \in Int /\ most \in Int /\ 0 <= most
    BY <1>1
  <1>4. c = IF v > most THEN most ELSE v
    BY DEF P
  <1>5. Decoded(c, n, FALSE) = c
    BY DEF Decoded
  <1>6. c = near
    <2> HIDE DEF most
    <2>1. ~(v < 0)
      OBVIOUS
    <2> QED
      BY <1>4, <2>1
  <1>7. Streaming!Nearest(v, n, FALSE) = near
    <2> HIDE DEF most
    <2> QED
      BY <1>2, <1>3, NearestIs DEF most
  <1>8. c \in Nat /\ c < P
    <2>1. c \in Int /\ 0 <= c /\ c <= most
      <3> HIDE DEF most
      <3> QED
        BY <1>3, <1>6, Capped
    <2> QED
      BY <1>1, <2>1
  <1>9. v > most <=> v \notin Streaming!Representable(n, FALSE)
    <2> HIDE DEF most
    <2>1. v > most <=> v \notin 0..most
      BY <1>3
    <2> QED
      BY <1>2, <2>1 DEF most
  <1> QED
    BY <1>5, <1>6, <1>7, <1>8, <1>9 DEF P

LEMMA NegativeMod ==
  ASSUME NEW Q \in Nat, NEW c \in Int, c < 0, -Q <= c
  PROVE  c % Q = c + Q
  <1> DEFINE y == c + Q
             q == -1
  <1>1. y \in Nat /\ y < Q /\ q \in Int /\ c = q * Q + y
    OBVIOUS
  <1> HIDE DEF y, q
  <1>2. c % Q = y
    BY <1>1, IntDivMod
  <1> QED
    BY <1>2 DEF y

\* The value whose bits are added of a signed one.
SignedLimited(v, n) ==
  CASE v < -Pow(n - 1) -> -Pow(n - 1)
    [] v > Pow(n - 1) - 1 -> Pow(n - 1) - 1
    [] OTHER -> v

LEMMA SignedDecoded ==
  ASSUME NEW v \in Int, NEW n \in 1..WordBits, NEW c, c = SignedLimited(v, n)
  PROVE  /\ c % Pow(n) \in Nat /\ c % Pow(n) < Pow(n)
         /\ Decoded(c % Pow(n), n, TRUE) = Streaming!Nearest(v, n, TRUE)
         /\ c # v <=> v \notin Streaming!Representable(n, TRUE)
  <1> DEFINE P == Pow(n - 1)
             Q == Pow(n)
             b == c % Q
  <1>1. P \in Nat /\ P > 0 /\ Q \in Nat /\ Q = 2 * P
    <2>1. n \in 0..WordBits /\ n # 0
      OBVIOUS
    <2>2. n - 1 \in 0..WordBits /\ Q = 2 * P
      BY <2>1, PowIs
    <2>3. P \in Nat /\ P > 0
      BY <2>2, PowIs
    <2> QED
      BY <2>2, <2>3
  <1>2. Streaming!Representable(n, TRUE) = (-P)..(P - 1)
    BY DEF Streaming!Representable, Pow
  <1>3. c = IF v < -P THEN -P ELSE IF v > P - 1 THEN P - 1 ELSE v
    BY <1>1 DEF SignedLimited
  <1>4. Decoded(b, n, TRUE) = IF b >= P THEN b - Q ELSE b
    BY DEF Decoded
  <1> HIDE DEF P, Q
  <1> DEFINE least == -P
             most == P - 1
             near == IF v < least THEN least ELSE IF v > most THEN most ELSE v
  <1>10. least \in Int /\ most \in Int /\ least <= most
    BY <1>1
  <1>11. c = near
    BY <1>3
  <1>5. Streaming!Nearest(v, n, TRUE) = c
    <2>1. Streaming!Representable(n, TRUE) = least..most
      BY <1>2
    <2> HIDE DEF least, most
    <2>2. Streaming!Nearest(v, n, TRUE) = near
      BY <1>10, <2>1, NearestIs
    <2> QED
      BY <1>11, <2>2
  <1>6. c \in Int /\ -P <= c /\ c <= P - 1
    <2>1. c \in Int /\ least <= c /\ c <= most
      <3> HIDE DEF least, most
      <3> QED
        BY <1>10, <1>11, Capped
    <2> QED
      BY <2>1
  <1>7. b \in Nat /\ b < Q /\ (IF b >= P THEN b - Q ELSE b) = c
    <2>1. CASE c >= 0
      <3>1. c \in Nat /\ c < Q
        BY <1>1, <1>6, <2>1
      <3>2. b = c
        BY <1>1, <3>1, SmallMod
      <3> HIDE DEF b
      <3> QED
        BY <1>1, <1>6, <2>1, <3>2
    <2>2. CASE c < 0
      <3>1. -Q <= c
        BY <1>1, <1>6
      <3>2. b = c + Q
        BY <1>1, <1>6, <2>2, <3>1, NegativeMod
      <3> HIDE DEF b
      <3> QED
        BY <1>1, <1>6, <2>2, <3>2
    <2> QED
      BY <1>6, <2>1, <2>2
  <1>8. c # v <=> v \notin Streaming!Representable(n, TRUE)
    <2>1. Streaming!Representable(n, TRUE) = least..most
      BY <1>2
    <2> HIDE DEF least, most
    <2>2. c # v <=> v \notin least..most
      BY <1>10, <1>11, Capped
    <2> QED
      BY <2>1, <2>2
  <1> HIDE DEF b
  <1>9. Decoded(b, n, TRUE) = Streaming!Nearest(v, n, TRUE)
    BY <1>4, <1>5, <1>7
  <1> QED
    BY <1>7, <1>8, <1>9 DEF b, Q

LEMMA StreamStep ==
  ASSUME StreamInv, [Streaming!Next]_streamVars
  PROVE  StreamInv'
  <1>1. CASE UNCHANGED streamVars
    BY <1>1 DEF streamVars, StreamInv, Streaming!StreamAsAdded, Streaming!Field
  <1>2. ASSUME NEW v \in Values, NEW n \in 0..WordBits, Streaming!bitstream_add(v, n)
        PROVE  StreamInv'
    <2> DEFINE c == IF v > Pow(n) - 1 THEN Pow(n) - 1 ELSE v
               capped == v > Pow(n) - 1
    <2>1. Streaming!Append_bits(v, n, c, capped, FALSE)
      BY <1>2 DEF Streaming!bitstream_add, Pow
    <2>2. v \in Nat
      BY ValuesAre
    <2>3. /\ c \in Nat /\ c < Pow(n)
          /\ Decoded(c, n, FALSE) = Streaming!Nearest(v, n, FALSE)
          /\ capped <=> v \notin Streaming!Representable(n, FALSE)
      BY <2>2, PlainDecoded
    <2>4. capped \in BOOLEAN /\ v \in Int /\ FALSE \in BOOLEAN
      BY <2>2
    <2> HIDE DEF c, capped
    <2> QED
      BY <2>1, <2>3, <2>4, AppendStep
  <1>3. ASSUME NEW w \in Values, NEW n \in 1..(WordBits - 1),
               Streaming!bitstream_add_signed(Streaming!AsSigned(w), n)
        PROVE  StreamInv'
    <2> DEFINE v == Streaming!AsSigned(w)
               c == SignedLimited(v, n)
               b == c % Pow(n)
               capped == c # v
    <2>1. Streaming!Limits(n)[1] = -Pow(n - 1) /\ Streaming!Limits(n)[2] = Pow(n - 1) - 1
      BY DEF Streaming!Limits, Pow
    <2>2. Streaming!Append_bits(v, n, b, capped, TRUE)
      BY <1>3, <2>1 DEF Streaming!bitstream_add_signed, Pow, SignedLimited
    <2>3. v \in Int /\ n \in 1..WordBits /\ n \in 0..WordBits
      <3>1. n \in 1..WordBits /\ n \in 0..WordBits
        BY WidthsAre
      <3>2. Pow(WordBits) \in Nat /\ w \in Nat
        BY PowIs, ValuesAre, WidthsAre
      <3>3. v = IF w >= Pow(WordBits - 1) THEN w - Pow(WordBits) ELSE w
        BY DEF Streaming!AsSigned, Pow
      <3> QED
        BY <3>1, <3>2, <3>3
    <2> HIDE DEF v, c
    <2>0. c = SignedLimited(v, n)
      BY DEF c
    <2>4. /\ b \in Nat /\ b < Pow(n)
          /\ Decoded(b, n, TRUE) = Streaming!Nearest(v, n, TRUE)
          /\ capped <=> v \notin Streaming!Representable(n, TRUE)
      BY <2>0, <2>3, SignedDecoded
    <2>5. capped \in BOOLEAN /\ TRUE \in BOOLEAN
      OBVIOUS
    <2> HIDE DEF b, capped
    <2> QED
      BY <2>2, <2>3, <2>4, <2>5, AppendStep
  <1>4. ASSUME NEW n, Streaming!Refuse(n) PROVE StreamInv'
    <2>1. UNCHANGED streamVars
      BY <1>4 DEF Streaming!Refuse, Streaming!vars, streamVars
    <2> QED
      BY <1>1, <2>1
  <1> QED
    BY <1>1, <1>2, <1>3, <1>4 DEF Streaming!Next

LEMMA StreamNext ==
  ASSUME part = "stream", [DevicesNext]_allVars
  PROVE  [Streaming!Next]_streamVars
  BY DEF DevicesNext, allVars

(* What is put in is what comes out, whatever is done between: after any    *)
(* setter and getter of a register that returned 0, the getter reports what *)
(* the setter was given; whatever values were added to a bit stream, a      *)
(* reader finds each of them, or the nearest that its bits stand for; and   *)
(* after any calls of the sensor object, an enabled sensor has the rate and *)
(* mode last asked for, and a disabled one keeps them until it is enabled.  *)
THEOREM SetIsThenGot == NoneForgets => (DevicesSpec => []SetThenGet)
  <1> SUFFICES ASSUME NoneForgets PROVE DevicesSpec => []SetThenGet
    OBVIOUS
  <1> DEFINE I == /\ part = "registers" => KeptInv /\ StoredInv
                  /\ part = "stream" => StreamInv
                  /\ part = "object" => ObjectInv /\ RateInv
  <1>1. DevicesInit => I
    <2>1. DevicesInit => KeptInv /\ StoredInv /\ ObjectInv /\ RateInv
      BY AccessorsAreFit, KeptInit, StoredInit, ObjectInit, RateInit
    <2>2. DevicesInit => StreamInv
      BY StreamInit DEF DevicesInit
    <2> QED
      BY <2>1, <2>2
  <1>2. I /\ [DevicesNext]_allVars => I'
    <2> SUFFICES ASSUME I, [DevicesNext]_allVars PROVE I'
      OBVIOUS
    <2>1. part' = part
      BY DEF DevicesNext, allVars
    <2>2. ASSUME part = "registers" PROVE KeptInv' /\ StoredInv'
      <3>1. [Accessing!Next]_registersVars
        BY <2>2, RegistersNext
      <3> QED
        BY <2>2, <3>1, AccessorsAreFit, KeptStep, StoredStep
    <2>3. ASSUME part = "object" PROVE ObjectInv' /\ RateInv'
      <3>1. [Sensing!Next]_objectVars
        BY <2>3, ObjectNext
      <3> QED
        BY <2>3, <3>1, ObjectStep, RateStep
    <2>4. ASSUME part = "stream" PROVE StreamInv'
      <3>1. [Streaming!Next]_streamVars
        BY <2>4, StreamNext
      <3> QED
        BY <2>4, <3>1, StreamStep
    <2> QED
      BY <2>1, <2>2, <2>3, <2>4
  <1>3. I => SetThenGet
    <2>1. KeptInv /\ StoredInv => Accessing!SetThenGet
      BY DEF StoredInv, Accessing!SetThenGet, Accessing!Returned
    <2>2. StreamInv => Streaming!StreamAsAdded
      BY DEF StreamInv
    <2>3. RateInv => Sensing!RateKept
      BY DEF RateInv
    <2> QED
      BY <2>1, <2>2, <2>3 DEF SetThenGet
  <1> QED
    BY <1>1, <1>2, <1>3, PTL DEF DevicesSpec
================================================================================
