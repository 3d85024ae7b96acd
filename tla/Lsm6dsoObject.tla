----------------------------- MODULE Lsm6dsoObject -----------------------------
(***************************************************************************)
(* LSM6DSO_Object_t (lsm6dso.c): the sensor as the application sees it, an   *)
(* accelerometer and a gyroscope to be enabled and given a rate, and the     *)
(* accelerometer's events, routed to the two interrupt pins.  A function is  *)
(* a sequence of steps, calls of the register functions and assignments to   *)
(* the object; it returns at the first step that fails.  One thread uses the *)
(* object, so a call is one action.                                         *)
(*                                                                         *)
(* A step may fail before or after its write took effect.  The registers of  *)
(* the embedded bank are written here without failing in between, since a    *)
(* call that fails there leaves that bank selected (RegisterDriver).  The    *)
(* finite state machines are off, so rates are stored as asked (DataRate).   *)
(* Rates are the enumerations' values, but asked for in tenths of a hertz.   *)
(* A suffixed name is a seeded fault.                                       *)
(***************************************************************************)
EXTENDS Integers, Sequences, SequencesExt

CONSTANTS
    Uses,           \* what applications use: sets of events, "rates" and "drdy"
    Unread,         \* the rates found in a copy of a register that was not read
    MaxFailures     \* bound on the calls that fail

VARIABLES
    uses,           \* what this application uses
    sensor,         \* the object's fields and the device's, by name
    failures,       \* calls that failed
    asked,          \* history: of each sensor, the rate and mode last set
    stray,          \* history: sensors an enabling of which failed
    on,             \* history: of each event, the pins it was enabled on since
    off,            \* history: of each event, the pins it cannot be on
    begun           \* history: events enabled, or half enabled, and not disabled

vars == <<uses, sensor, failures, asked, stray, on, off, begun>>

Pins == {"int1", "int2"}
Other(pin) == CHOOSE p \in Pins : p # pin
EmbeddedEvents == {"tilt", "step_detector"}
Events == EmbeddedEvents \cup
    {"free_fall", "wake_up", "single_tap", "double_tap", "six_d", "sleep_change"}
acc == [name |-> "acc", flag |-> "acc_is_enabled", odr |-> "acc_odr", rate |-> "odr_xl"]
gyro == [name |-> "gyro", flag |-> "gyro_is_enabled", odr |-> "gyro_odr", rate |-> "odr_g"]
Unknown == [rate |-> -1, mode |-> "unknown"]

ODR_OFF == 0
ODR_104Hz == 4
XL_ODR_1Hz6 == 11
\* The rates 1 to 9 of both sensors; faster is 10.
Bounds == <<125, 260, 520, 1040, 2080, 4170, 8330, 16670, 33330>>
RateFor(x, odr) ==
    IF x = acc /\ odr <= 16 THEN XL_ODR_1Hz6
    ELSE CHOOSE r \in 1..10 : (r = 10 \/ odr <= Bounds[r]) /\ \A q \in 1..(r - 1) : odr > Bounds[q]

\* The fields that events set, with their values after a reset.
Reset == [ff_dur |-> 0, ff_ths |-> 0, wake_dur |-> 0, sleep_dur |-> 0, wk_ths |-> 0,
          tap_x_en |-> 0, tap_y_en |-> 0, tap_z_en |-> 0, tap_ths_x |-> 0, shock |-> 0,
          quiet |-> 0, dur |-> 0, single_double_tap |-> 0, sixd_ths |-> 0, inact_en |-> 0]

\* The other fields, by what they hold.
Flags == {"is_initialized", "acc_is_enabled", "gyro_is_enabled", "interrupts_enable"}
Routes == {"int1", "int2", "emb_int1", "emb_int2", "emb"}
Numbers == {"acc_odr", "gyro_odr", "odr_xl", "odr_g", "fs_xl", "fs_g",
            "xl_ulp_en", "xl_hm_mode", "g_hm_mode"}

TypeOK ==
    /\ failures \in 0..MaxFailures
    /\ \A x \in {acc, gyro} : sensor[x.rate] \in 0..11 /\ sensor[x.flag] \in BOOLEAN
    /\ \A e \in Events : on[e] \cup off[e] \subseteq Pins

Init ==
    /\ uses \in Uses
    /\ sensor = [f \in Flags \cup Routes \cup Numbers \cup DOMAIN Reset |->
                   CASE f \in Flags -> FALSE
                     [] f \in Routes -> {}
                     [] f \in Numbers -> 0
                     [] f \in DOMAIN Reset -> Reset[f]]
    /\ failures = 0
    /\ asked = [acc |-> Unknown, gyro |-> Unknown] /\ stray = {}
    /\ on = [e \in Events |-> {}] /\ off = [e \in Events |-> Pins] /\ begun = {}

-------------------------------------------------------------------------------
(***************************************************************************)
(* Steps: a field, its new value, and what it may be if the step fails: as   *)
(* it was ("bus"), or one of "wrong".                                       *)
(***************************************************************************)
Write(field, value) == [field |-> field, value |-> value, bus |-> TRUE, wrong |-> {value}]
WriteEmbedded(field, value) == [Write(field, value) EXCEPT !.wrong = {}]
Read(field) == WriteEmbedded(field, sensor[field])
Assign(field, value) == [Write(field, value) EXCEPT !.bus = FALSE, !.wrong = {}]

After(steps) == FoldLeft(LAMBDA s, step : [s EXCEPT ![step.field] = step.value], sensor, steps)
Failing(steps) ==
    UNION {LET s == After(SubSeq(steps, 1, k - 1))
               step == steps[k]
           IN  {[s EXCEPT ![step.field] = v] :
                    v \in step.wrong \cup (IF step.bus THEN {s[step.field]} ELSE {})} :
           k \in DOMAIN steps}

Returns(steps, ok) ==
    \/ ok /\ sensor' = After(steps) /\ UNCHANGED failures
    \/ /\ ~ok /\ failures < MaxFailures
       /\ sensor' \in Failing(steps) /\ failures' = failures + 1

-------------------------------------------------------------------------------
\* LSM6DSO_ACC_Enable, LSM6DSO_GYRO_Enable.
EnableSteps(x) ==
    IF sensor[x.flag] THEN <<>>
    ELSE <<Write(x.rate, sensor[x.odr]), Assign(x.flag, TRUE)>>

\* LSM6DSO_ACC_Disable, LSM6DSO_GYRO_Disable; data_rate_get stores something
\* even if it could not read the register.
DisableSteps_OffFirst(x) ==
    IF ~sensor[x.flag] THEN <<>>
    ELSE <<Write(x.rate, ODR_OFF), [Write(x.odr, ODR_OFF) EXCEPT !.wrong = Unread],
           Assign(x.flag, FALSE)>>

DisableSteps(x) ==
    IF ~sensor[x.flag] THEN <<>>
    ELSE <<[Write(x.odr, sensor[x.rate]) EXCEPT !.wrong = Unread], Write(x.rate, ODR_OFF),
           Assign(x.flag, FALSE)>>

\* A mode's bit is written if it is not as it should be.
Change(field, value, before) ==
    <<Read(field)>> \o (IF sensor[field] = value THEN <<>> ELSE before \o <<Write(field, value)>>)
PowerOff == IF sensor[acc.flag] THEN <<Write(acc.rate, ODR_OFF)>> ELSE <<>>

\* SetOutputDataRate_When_Enabled and SetOutputDataRate_When_Disabled.
SetRate(x, odr) ==
    <<(IF sensor[x.flag] THEN Write(x.rate, RateFor(x, odr)) ELSE Assign(x.odr, RateFor(x, odr)))>>

Least(odr) == IF odr < 125 THEN 125 ELSE odr
Most(odr) == IF odr > 2080 THEN 2080 ELSE odr
Limited(x, odr, mode) ==
    CASE mode # "high_performance" -> Most(odr)
      [] mode = "high_performance" /\ x = acc -> Least(odr)
      [] OTHER -> odr

ModeSteps(x, mode) ==
    CASE x = gyro ->
            Change("g_hm_mode", IF mode = "high_performance" THEN 0 ELSE 1, <<>>)
      [] x = acc /\ mode = "ultra_low_power" ->
            Change("xl_hm_mode", 0, <<>>) \o DisableSteps(gyro) \o Change("xl_ulp_en", 1, PowerOff)
      [] OTHER ->
            Change("xl_ulp_en", 0, PowerOff)
                \o Change("xl_hm_mode", IF mode = "high_performance" THEN 0 ELSE 1, <<>>)

\* SetOutputDataRate_With_Mode of either sensor; SetOutputDataRate takes the
\* mode of high performance.
RateSteps(x, odr, mode) == ModeSteps(x, mode) \o SetRate(x, Limited(x, odr, mode))

Asked(x, odr, mode) == [rate |-> RateFor(x, Limited(x, odr, mode)), mode |-> mode]

-------------------------------------------------------------------------------
(***************************************************************************)
(* Routes.  int1 stands for INT1_CTRL and MD1_CFG, emb_int1 for              *)
(* EMB_FUNC_INT1; md1_cfg.int1_emb_func lets the latter through.             *)
(***************************************************************************)
Embedded(pin) == IF pin = "int1" THEN "emb_int1" ELSE "emb_int2"

\* pin_int1_route_get and pin_int1_route_set, and those of INT2: what is
\* routed but these signals, and these; "earlier" is what the call has
\* changed of the other pin.
Interrupts_OwnPin(signals, others) == signals \ {"emb_func"} # {}

Interrupts(signals, others) == (signals \cup others) \ {"emb_func"} # {}

Route(pin, add, remove, earlier) ==
    LET emb == (sensor[Embedded(pin)] \ remove) \cup (add \cap EmbeddedEvents)
        basic == (sensor[pin] \ (remove \cup {"emb_func"})) \cup (add \ EmbeddedEvents)
                     \cup (IF emb = {} THEN {} ELSE {"emb_func"})
    IN  <<Read(pin), WriteEmbedded(Embedded(pin), emb), Write(pin, basic),
          Write("interrupts_enable", Interrupts(basic, sensor[Other(pin)] \ earlier))>>

\* An event is disabled on both pins, the pedometer's on the first.
Unroute(e) ==
    Route("int1", {}, {e}, {})
        \o (IF e = "step_detector" THEN <<>> ELSE Route("int2", {}, {e}, {e}))

\* The embedded functions are saved, turned off, and turned on with one more.
EmbeddedOn_Alone(e) ==
    <<Read("emb"), WriteEmbedded("emb", {}), WriteEmbedded("emb", {e})>>

EmbeddedOn(e) ==
    <<Read("emb"), WriteEmbedded("emb", {})>>
        \o (IF e = "step_detector" THEN <<Read("emb")>> ELSE <<>>)      \* pedo_sens_set
        \o <<WriteEmbedded("emb", sensor.emb \cup {e})>>
EmbeddedOff(e) == <<Read("emb"), WriteEmbedded("emb", sensor.emb \ {e})>>

Writes(fields) == [k \in DOMAIN fields |-> Write(fields[k][1], fields[k][2])]
Taps(enable, ths) ==
    <<<<"tap_x_en", enable>>, <<"tap_y_en", enable>>, <<"tap_z_en", enable>>, <<"tap_ths_x", ths>>>>

\* What each LSM6DSO_ACC_Enable_... sets, in its order.
FreeFallOn == <<<<"ff_dur", 6>>, <<"wake_dur", 0>>, <<"sleep_dur", 0>>, <<"ff_ths", 3>>>>
WakeUpOn == <<<<"wake_dur", 0>>, <<"wk_ths", 2>>>>
SingleTapOn == Taps(1, 8) \o <<<<"shock", 2>>, <<"quiet", 1>>>>
DoubleTapOn == Taps(1, 8) \o <<<<"shock", 3>>, <<"quiet", 3>>, <<"dur", 8>>, <<"single_double_tap", 1>>>>
SixDOn == <<<<"sixd_ths", 2>>>>
InactivityOn(mode) == <<<<"fs_g", 0>>, <<"sleep_dur", 1>>, <<"inact_en", mode>>>>

\* What each LSM6DSO_ACC_Disable_... resets, in its order.
FreeFallOff == <<<<"ff_dur", 0>>, <<"ff_ths", 0>>>>
WakeUpOff == <<<<"wk_ths", 0>>, <<"wake_dur", 0>>>>
SingleTapOff == <<<<"quiet", 0>>, <<"shock", 0>>>> \o Reverse(Taps(0, 0))
DoubleTapOff_KeepsMode == <<<<"dur", 0>>, <<"quiet", 0>>, <<"shock", 0>>>> \o Reverse(Taps(0, 0))

DoubleTapOff ==
    <<<<"single_double_tap", 0>>, <<"dur", 0>>, <<"quiet", 0>>, <<"shock", 0>>>> \o Reverse(Taps(0, 0))
SixDOff == <<<<"sixd_ths", 0>>>>
InactivityOff == <<<<"inact_en", 0>>, <<"sleep_dur", 0>>>>

\* The rate an event's enabling sets, in tenths of a hertz; inactivity sets none.
EventOdr(e) == IF e \in EmbeddedEvents THEN 260 ELSE 4170

EventSteps(e, mode) ==
    (IF e = "sleep_change" THEN <<>> ELSE RateSteps(acc, EventOdr(e), "high_performance"))
        \o <<Write("fs_xl", 0)>>
        \o CASE e \in EmbeddedEvents -> EmbeddedOn(e)
             [] e = "free_fall" -> Writes(FreeFallOn)
             [] e = "wake_up" -> Writes(WakeUpOn)
             [] e = "single_tap" -> Writes(SingleTapOn)
             [] e = "double_tap" -> Writes(DoubleTapOn)
             [] e = "six_d" -> Writes(SixDOn)
             [] e = "sleep_change" -> Writes(InactivityOn(mode))

ResetSteps(e) ==
    CASE e \in EmbeddedEvents -> EmbeddedOff(e)
      [] e = "free_fall" -> Writes(FreeFallOff)
      [] e = "wake_up" -> Writes(WakeUpOff)
      [] e = "single_tap" -> Writes(SingleTapOff)
      [] e = "double_tap" -> Writes(DoubleTapOff)
      [] e = "six_d" -> Writes(SixDOff)
      [] e = "sleep_change" -> Writes(InactivityOff)

-------------------------------------------------------------------------------
(***************************************************************************)
(* The functions.                                                           *)
(***************************************************************************)
eventHistory == <<on, off, begun>>
rateHistory == <<asked, stray>>

\* Four fields nothing else touches, then rates and scales.
InitObject ==
    /\ ~sensor.is_initialized
    /\ \E ok \in BOOLEAN :
          /\ Returns(<<Read("odr_xl"), Assign("acc_odr", ODR_104Hz), Write("odr_xl", ODR_OFF),
                       Write("fs_xl", 0), Assign("gyro_odr", ODR_104Hz), Write("odr_g", ODR_OFF),
                       Write("fs_g", 6), Assign("is_initialized", TRUE)>>, ok)
          /\ asked' = IF ok THEN [x \in DOMAIN asked |-> [asked[x] EXCEPT !.rate = ODR_104Hz]]
                            ELSE asked
          /\ stray' = IF ok THEN {} ELSE stray
    /\ UNCHANGED <<uses, eventHistory>>

DeInitObject ==
    /\ sensor.is_initialized /\ "rates" \in uses
    /\ \E ok \in BOOLEAN :
          /\ Returns(DisableSteps(acc) \o DisableSteps(gyro)
                         \o <<Assign("acc_odr", ODR_OFF), Assign("gyro_odr", ODR_OFF),
                              Assign("is_initialized", FALSE)>>, ok)
          /\ asked' = [x \in DOMAIN asked |-> [asked[x] EXCEPT !.rate = Unknown.rate]]
    /\ UNCHANGED <<uses, stray, eventHistory>>

Enable(x) ==
    /\ sensor.is_initialized /\ "rates" \in uses
    /\ \E ok \in BOOLEAN :
          /\ Returns(EnableSteps(x), ok)
          /\ stray' = IF ok THEN stray \ {x.name} ELSE stray \cup {x.name}
    /\ UNCHANGED <<uses, asked, eventHistory>>

Forget(x) == [asked EXCEPT ![x.name].rate = Unknown.rate]

Disable(x) ==
    /\ sensor.is_initialized /\ "rates" \in uses
    /\ \E ok \in BOOLEAN :
          /\ Returns(DisableSteps(x), ok)
          /\ asked' = IF ok THEN asked ELSE Forget(x)
    /\ UNCHANGED <<uses, stray, eventHistory>>

\* What is known of the rates once the accelerometer's was set, or failed.
AskedOfAcc(odr, mode, ok) ==
    IF ok THEN [asked EXCEPT !.acc = Asked(acc, odr, mode)]
    ELSE [asked EXCEPT !.acc = Unknown,
                       !.gyro.rate = IF mode = "ultra_low_power" THEN Unknown.rate ELSE @]

SetOutputDataRate(x, odr, mode) ==
    /\ sensor.is_initialized /\ "rates" \in uses
    /\ x = gyro => mode # "ultra_low_power"
    /\ \E ok \in BOOLEAN :
          /\ Returns(RateSteps(x, odr, mode), ok)
          /\ asked' = IF x = acc THEN AskedOfAcc(odr, mode, ok)
                      ELSE [asked EXCEPT !.gyro = IF ok THEN Asked(gyro, odr, mode) ELSE Unknown]
    /\ UNCHANGED <<uses, stray, eventHistory>>

EnableEvent(e, pin, mode) ==
    /\ sensor.is_initialized /\ e \in uses
    /\ e = "step_detector" => pin = "int1"
    /\ mode # 0 => e = "sleep_change"
    /\ \E ok \in BOOLEAN :
          /\ Returns(EventSteps(e, mode) \o Route(pin, {e}, {}, {}), ok)
          /\ asked' = IF e = "sleep_change" THEN asked
                      ELSE AskedOfAcc(EventOdr(e), "high_performance", ok)
          /\ on' = [d \in Events |->
                       IF d = e /\ ok THEN on[d] \cup {pin}
                       ELSE IF d \in EmbeddedEvents /\ e \in EmbeddedEvents /\ ~ok THEN {}
                       ELSE on[d]]
    /\ off' = [off EXCEPT ![e] = @ \ {pin}]
    /\ begun' = begun \cup {e}
    /\ UNCHANGED <<uses, stray>>

DisableEvent(e) ==
    /\ sensor.is_initialized /\ e \in uses
    /\ \E ok \in BOOLEAN :
          /\ Returns(Unroute(e) \o ResetSteps(e), ok)
          /\ on' = [on EXCEPT ![e] = {}]
          /\ off' = IF ok THEN [off EXCEPT ![e] = Pins] ELSE off
          /\ begun' = IF ok THEN begun \ {e} ELSE begun
    /\ UNCHANGED <<uses, rateHistory>>

\* LSM6DSO_ACC_Enable_DRDY_On_INT1, LSM6DSO_ACC_Disable_DRDY_On_INT1 and
\* LSM6DSO_GYRO_Enable_DRDY_On_INT2.
DataReady ==
    /\ sensor.is_initialized /\ "drdy" \in uses
    /\ \E ok \in BOOLEAN :
          \/ Returns(Route("int1", {"drdy_xl"}, {"drdy_g"}, {}), ok)
          \/ Returns(Route("int1", {}, {"drdy_xl"}, {}), ok)
          \/ Returns(Route("int2", {"drdy_g"}, {"drdy_xl"}, {}), ok)
    /\ UNCHANGED <<uses, rateHistory, eventHistory>>

Next ==
    \/ InitObject \/ DeInitObject \/ DataReady
    \/ \E x \in {acc, gyro} :
          \/ Enable(x) \/ Disable(x)
          \/ \E odr \in {10, 8330}, mode \in {"high_performance", "low_power", "ultra_low_power"} :
                SetOutputDataRate(x, odr, mode)
    \/ \E e \in Events :
          \/ DisableEvent(e)
          \/ \E pin \in Pins, mode \in {0, 2} : EnableEvent(e, pin, mode)

Spec == Init /\ [][Next]_vars

(***************************************************************************)
(* Properties.                                                              *)
(***************************************************************************)
\* A sensor runs at the rate last asked for, in the mode asked for and within
\* its limit, as long as it is enabled and whenever it is enabled again; a
\* disabled one is powered down.  Excepted: a rate whose setting failed, until
\* it is set again, and a sensor whose enabling failed, until it is enabled.
RateKept ==
    \A x \in {acc, gyro} :
        /\ asked[x.name].rate # Unknown.rate =>
              sensor[IF sensor[x.flag] THEN x.rate ELSE x.odr] = asked[x.name].rate
        /\ ~sensor[x.flag] /\ x.name \notin stray => sensor[x.rate] = ODR_OFF
        /\ LET mode == asked[x.name].mode
           IN  /\ mode # "unknown" /\ x = acc =>
                     /\ sensor.xl_ulp_en = (IF mode = "ultra_low_power" THEN 1 ELSE 0)
                     /\ sensor.xl_hm_mode = (IF mode = "low_power" THEN 1 ELSE 0)
               /\ mode # "unknown" /\ x = gyro =>
                     sensor.g_hm_mode = (IF mode = "low_power" THEN 1 ELSE 0)

\* An event that was enabled, and not disabled since, reaches its pin: it is
\* routed, interrupts or the embedded function are on.  One that was disabled
\* is on no pin.  Calls about other events, successful or not, change neither;
\* but when an embedded function cannot be enabled, the others may be lost.
EventsRouted ==
    \A e \in Events, pin \in Pins :
        LET routed == e \in sensor[pin] \cup sensor[Embedded(pin)]
        IN  /\ pin \in on[e] =>
                  /\ routed
                  /\ IF e \in EmbeddedEvents THEN "emb_func" \in sensor[pin] /\ e \in sensor.emb
                                             ELSE sensor.interrupts_enable
            /\ pin \in off[e] => ~routed

\* When every event has been disabled, nothing is left of any: each field has
\* its value after a reset, and no embedded function is on.
NothingLeft ==
    begun = {} => /\ \A f \in DOMAIN Reset : sensor[f] = Reset[f]
                  /\ sensor.emb = {}
================================================================================
