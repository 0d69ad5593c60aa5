--------------------------- MODULE Battery_proofs ---------------------------
(***************************************************************************)
(* Proofs about battery.c.  The search and interpolation in the discharge  *)
(* table compute, for every voltage, a curve of three straight pieces; it  *)
(* follows that percentages stay within 0..100 and keep the order of the   *)
(* voltages, whatever the ADC returns.                                     *)
(***************************************************************************)
EXTENDS Battery, TLAPS

\* What the table says, without a table.
Curve(v) == IF v >= 4200 THEN 100
            ELSE IF v > 3300 THEN 10 + (v - 3300) \div 10
            ELSE IF v > 3200 THEN 5 + (v - 3200) \div 20
            ELSE IF v > 3000 THEN (v - 3000) \div 40
            ELSE 0

\* The 21 voltages: 19 at equal distances, then two of their own.
LEMMA TableVoltages ==
    /\ \A i \in 1 .. 19 : voltage_mv[i] = 4250 - 50 * i
    /\ voltage_mv[20] = 3200 /\ voltage_mv[21] = 3000
<1>1. /\ voltage_mv[1] = 4200 /\ voltage_mv[2] = 4150 /\ voltage_mv[3] = 4100
      /\ voltage_mv[4] = 4050 /\ voltage_mv[5] = 4000 /\ voltage_mv[6] = 3950
      /\ voltage_mv[7] = 3900 /\ voltage_mv[8] = 3850 /\ voltage_mv[9] = 3800
      /\ voltage_mv[10] = 3750 /\ voltage_mv[11] = 3700 /\ voltage_mv[12] = 3650
      /\ voltage_mv[13] = 3600 /\ voltage_mv[14] = 3550 /\ voltage_mv[15] = 3500
      /\ voltage_mv[16] = 3450 /\ voltage_mv[17] = 3400 /\ voltage_mv[18] = 3350
      /\ voltage_mv[19] = 3300 /\ voltage_mv[20] = 3200 /\ voltage_mv[21] = 3000
    BY DEF voltage_mv
<1>2. ASSUME NEW i \in 1 .. 19 PROVE voltage_mv[i] = 4250 - 50 * i
    <2>1. \/ i = 1 \/ i = 2 \/ i = 3 \/ i = 4 \/ i = 5 \/ i = 6 \/ i = 7 \/ i = 8 \/ i = 9
          \/ i = 10 \/ i = 11 \/ i = 12 \/ i = 13 \/ i = 14 \/ i = 15 \/ i = 16 \/ i = 17
          \/ i = 18 \/ i = 19
        OBVIOUS
    <2> QED BY <1>1, <2>1
<1> QED BY <1>1, <1>2

\* A segment that encloses v interpolates to the curve.
LEMMA SegmentIsCurve ==
    ASSUME NEW v \in Int, 3000 < v, v < 4200, NEW i \in 1 .. 20, Encloses(i, v)
    PROVE  Interpolate(v, i) = Curve(v)
<1> USE DEF Encloses, Interpolate, percentage, Curve
<1>1. CASE i \in 1 .. 18
    <2>1. voltage_mv[i] = 4250 - 50 * i /\ voltage_mv[i + 1] = 4200 - 50 * i
        BY <1>1, TableVoltages
    <2> HIDE DEF Interpolate, Curve
    <2>2. Interpolate(v, i) = 100 - 5 * i + ((v - 4200 + 50 * i) * 5) \div 50
        BY <1>1, <2>1 DEF Interpolate
    <2>3. v > 3300
        BY <1>1, <2>1
    <2>4. Curve(v) = 10 + (v - 3300) \div 10
        BY <2>3 DEF Curve
    <2>5. ((v - 4200 + 50 * i) * 5) \div 50 = (v - 3300) \div 10 - 90 + 5 * i
        BY <1>1
    <2> QED BY <1>1, <2>2, <2>4, <2>5
<1>2. CASE i = 19
    <2>1. voltage_mv[i] = 3300 /\ voltage_mv[i + 1] = 3200
        BY <1>2, TableVoltages
    <2>2. ((v - 3200) * 5) \div 100 = (v - 3200) \div 20
        OBVIOUS
    <2> QED BY <1>2, <2>1, <2>2
<1>3. CASE i = 20
    <2>1. voltage_mv[i] = 3200 /\ voltage_mv[i + 1] = 3000
        BY <1>3, TableVoltages
    <2>2. ((v - 3000) * 5) \div 200 = (v - 3000) \div 40
        OBVIOUS
    <2> QED BY <1>3, <2>1, <2>2
<1> QED BY <1>1, <1>2, <1>3

\* Some segment encloses every voltage between the ends of the table.
LEMMA SegmentExists ==
    ASSUME NEW v \in Int, 3000 < v, v < 4200
    PROVE  \E i \in 1 .. 20 : Encloses(i, v)
<1>1. CASE v > 3300
    <2> DEFINE i == (4250 - v) \div 50
    <2>1. i \in 1 .. 18 /\ v <= 4250 - 50 * i /\ v > 4200 - 50 * i
        BY <1>1
    <2> HIDE DEF i
    <2>2. voltage_mv[i] = 4250 - 50 * i /\ voltage_mv[i + 1] = 4200 - 50 * i
        BY <2>1, TableVoltages
    <2>3. Encloses(i, v)
        BY <2>1, <2>2 DEF Encloses
    <2> QED BY <2>1, <2>3
<1>2. CASE v > 3200 /\ v <= 3300
    BY <1>2, TableVoltages, Encloses(19, v) DEF Encloses
<1>3. CASE v <= 3200
    BY <1>3, TableVoltages, Encloses(20, v) DEF Encloses
<1> QED BY <1>1, <1>2, <1>3

\* voltage_to_percentage of battery.c computes the curve, for every voltage.
THEOREM TableIsCurve == \A v \in Int : voltage_to_percentage(v) = Curve(v)
<1> TAKE v \in Int
<1>1. voltage_mv[1] = 4200 /\ voltage_mv[LIPO_TABLE_SIZE] = 3000
    BY TableVoltages DEF LIPO_TABLE_SIZE
<1>2. CASE v >= 4200 \/ v <= 3000
    BY <1>1, <1>2 DEF voltage_to_percentage, Curve
<1>3. CASE v < 4200 /\ v > 3000
    <2> DEFINE i == CHOOSE i \in 1 .. LIPO_TABLE_SIZE - 1 : Encloses(i, v)
    <2>1. i \in 1 .. 20 /\ Encloses(i, v)
        BY <1>3, SegmentExists DEF LIPO_TABLE_SIZE
    <2>2. voltage_to_percentage(v) = Interpolate(v, i)
        BY <1>1, <1>3 DEF voltage_to_percentage
    <2> HIDE DEF i
    <2> QED BY <1>3, <2>1, <2>2, SegmentIsCurve
<1> QED BY <1>2, <1>3

LEMMA CurveInRange == \A v \in Int : Curve(v) \in 0 .. 100
BY DEF Curve

LEMMA CurveKeepsOrder == \A v, w \in Int : v <= w => Curve(v) <= Curve(w)
BY DEF Curve

\* Every voltage has a percentage, and a higher voltage no lower one.
THEOREM PercentagesAreOrdered ==
    \A v, w \in Int : /\ voltage_to_percentage(v) \in 0 .. 100
                      /\ v <= w => voltage_to_percentage(v) <= voltage_to_percentage(w)
BY TableIsCurve, CurveInRange, CurveKeepsOrder

-----------------------------------------------------------------------------
\* The inductive invariant.  The switch has failed to go off only after it was
\* set up, and a measured percentage is that of the measured voltage.
Flags == /\ measured \in BOOLEAN /\ battery_adc_initialized \in BOOLEAN
         /\ vbat_enable \in BOOLEAN /\ stuck \in BOOLEAN /\ failed \in BOOLEAN

Values == /\ battery_voltage_mv \in Int /\ battery_percentage \in 0 .. 100
          /\ age \in 0 .. Stale + 1
          /\ pc \in Locations /\ asked \in Resources
          /\ measured => battery_percentage = voltage_to_percentage(battery_voltage_mv)

Switched == /\ SwitchReleased
            /\ ~battery_adc_initialized => ~stuck /\ pc \in {"idle", "init", "answer"}

IInv == Flags /\ Values /\ Switched /\ AnswersAreFresh

LEMMA BatteryInit == Init => IInv
<1> SUFFICES ASSUME Init PROVE IInv
    OBVIOUS
<1>1. Flags /\ Switched
    BY Zenon DEF Init, Flags, Switched, SwitchReleased
<1> QED BY <1>1, BatteryAssumption
        DEF Init, IInv, Values, AnswersAreFresh, Locations, Resources

LEMMA FlagsPreserved == Flags /\ [Next]_vars => Flags'
BY Zenon DEF Flags, Next, vars, cache, switch, battery_handler_get, voltage_handler_get,
    battery_measure, battery_adc_init, EnableSwitch, ReadFails, ReadSample, Respond, Tick,
    Fail, DisableSwitch

LEMMA SwitchedPreserved == Flags /\ Switched /\ [Next]_vars => Switched'
<1> SUFFICES ASSUME Flags, Switched, [Next]_vars PROVE Switched'
    OBVIOUS
<1> USE DEF Flags, Switched, SwitchReleased, cache, switch
<1>1. CASE battery_handler_get
    BY <1>1, Zenon DEF battery_handler_get
<1>2. CASE voltage_handler_get
    <2>1. pc = "idle" /\ pc' \in {"init", "answer"} /\ UNCHANGED switch
        BY <1>2 DEF voltage_handler_get
    <2> QED BY <2>1
<1>3. CASE battery_adc_init
    <2>1. CASE battery_adc_initialized
        BY <1>3, <2>1 DEF battery_adc_init
    <2>2. CASE ~battery_adc_initialized
        <3>1. stuck = FALSE /\ vbat_enable = FALSE
            BY <1>3, <2>2 DEF battery_adc_init
        <3>2. stuck' = FALSE /\ vbat_enable' = FALSE
            BY <1>3, <2>2, <3>1 DEF battery_adc_init
        <3>3. pc' = "answer" \/ (pc' = "enable" /\ battery_adc_initialized')
            BY <1>3, <2>2 DEF battery_adc_init, Fail
        <3> QED BY <3>2, <3>3
    <2> QED BY <2>1, <2>2
<1>4. CASE EnableSwitch
    BY <1>4 DEF EnableSwitch, Fail
<1>5. ASSUME pc = "settle", DisableSwitch, UNCHANGED battery_adc_initialized
      PROVE  Switched'
    BY <1>5 DEF DisableSwitch
<1>6. CASE ReadFails
    BY <1>5, <1>6 DEF ReadFails
<1>7. ASSUME NEW mv \in Samples, ReadSample(mv) PROVE Switched'
    BY <1>5, <1>7 DEF ReadSample
<1>8. CASE Respond
    BY <1>8 DEF Respond
<1>9. CASE Tick \/ UNCHANGED vars
    BY <1>9 DEF Tick, vars
<1> QED BY <1>1, <1>2, <1>3, <1>4, <1>6, <1>7, <1>8, <1>9 DEF Next, battery_measure

LEMMA ValuesPreserved == Flags /\ Values /\ [Next]_vars => Values'
<1> SUFFICES ASSUME Flags, Values, [Next]_vars PROVE Values'
    OBVIOUS
<1> USE DEF Values, Locations, Resources, cache, switch, Fail
<1>1. CASE battery_handler_get \/ voltage_handler_get
    BY <1>1 DEF battery_handler_get, voltage_handler_get
<1>2. CASE battery_adc_init \/ EnableSwitch
    BY <1>2 DEF battery_adc_init, EnableSwitch
<1>3. CASE ReadFails
    BY <1>3 DEF ReadFails
<1>4. ASSUME NEW mv \in Samples, ReadSample(mv) PROVE Values'
    <2>1. VBAT(mv) \in Int
        BY BatteryAssumption DEF VBAT
    <2>2. voltage_to_percentage(VBAT(mv)) \in 0 .. 100
        BY <2>1, PercentagesAreOrdered
    <2> QED BY <1>4, <2>1, <2>2, BatteryAssumption DEF ReadSample
<1>5. CASE Respond
    BY <1>5 DEF Respond
<1>6. CASE Tick \/ UNCHANGED vars
    BY <1>6, BatteryAssumption DEF Tick, vars
<1> QED BY <1>1, <1>2, <1>3, <1>4, <1>5, <1>6 DEF Next, battery_measure

LEMMA FreshPreserved == Flags /\ Values /\ AnswersAreFresh /\ [Next]_vars => AnswersAreFresh'
<1> SUFFICES ASSUME Flags, Values, AnswersAreFresh, [Next]_vars PROVE AnswersAreFresh'
    OBVIOUS
<1> USE DEF Flags, Values, AnswersAreFresh, cache, switch, Fail
<1>1. CASE battery_handler_get
    BY <1>1 DEF battery_handler_get
<1>2. CASE voltage_handler_get
    BY <1>2, BatteryAssumption DEF voltage_handler_get
<1>3. CASE battery_adc_init \/ EnableSwitch \/ ReadFails
    BY <1>3 DEF battery_adc_init, EnableSwitch, ReadFails
<1>4. ASSUME NEW mv \in Samples, ReadSample(mv) PROVE AnswersAreFresh'
    BY <1>4, BatteryAssumption DEF ReadSample
<1>5. CASE Respond \/ Tick \/ UNCHANGED vars
    BY <1>5 DEF Respond, Tick, vars
<1> QED BY <1>1, <1>2, <1>3, <1>4, <1>5 DEF Next, battery_measure

LEMMA BatteryStep == IInv /\ [Next]_vars => IInv'
BY FlagsPreserved, SwitchedPreserved, ValuesPreserved, FreshPreserved DEF IInv

LEMMA BatteryInvariant == Spec => []IInv
BY BatteryInit, BatteryStep, PTL DEF Spec

\* The variables of battery.c keep their types; the percentage stays one.
THEOREM BatteryTypes == Spec => []TypeOK
<1>1. IInv => TypeOK
    BY DEF IInv, Flags, Values, TypeOK
<1> QED BY <1>1, BatteryInvariant, PTL

\* No failing step of a measurement leaves the divider powered.
THEOREM SwitchIsReleased == Spec => []SwitchReleased
<1>1. IInv => SwitchReleased
    BY DEF IInv, Switched
<1> QED BY <1>1, BatteryInvariant, PTL

\* The resources of battery.c answer with fresh values unless the measurement
\* they made has failed.
THEOREM FreshAnswers == Spec => []AnswersAreFresh
<1>1. IInv => AnswersAreFresh
    BY DEF IInv
<1> QED BY <1>1, BatteryInvariant, PTL

\* From one measurement of battery.c to the next, percentage and voltage move
\* the same way.
THEOREM OrderIsKept == Spec => OrderKept
<1> DEFINE A == measured => /\ battery_voltage_mv <= battery_voltage_mv'
                                => battery_percentage <= battery_percentage'
                            /\ battery_voltage_mv >= battery_voltage_mv'
                                => battery_percentage >= battery_percentage'
<1>1. IInv /\ [Next]_vars => [A]_vars
    <2> SUFFICES ASSUME IInv, [Next]_vars, measured PROVE A
        OBVIOUS
    <2>1. battery_voltage_mv \in Int /\ battery_percentage \in 0 .. 100
          /\ battery_percentage = voltage_to_percentage(battery_voltage_mv)
        BY DEF IInv, Values
    <2>2. ASSUME UNCHANGED <<battery_voltage_mv, battery_percentage>> PROVE A
        BY <2>1, <2>2
    <2>3. ASSUME NEW mv \in Samples, ReadSample(mv) PROVE A
        <3>1. VBAT(mv) \in Int
            BY BatteryAssumption DEF VBAT
        <3>2. battery_voltage_mv' = VBAT(mv)
              /\ battery_percentage' = voltage_to_percentage(VBAT(mv))
            BY <2>3 DEF ReadSample
        <3> QED BY <2>1, <3>1, <3>2, PercentagesAreOrdered
    <2> QED BY <2>2, <2>3 DEF Next, battery_measure, battery_handler_get, voltage_handler_get,
               battery_adc_init, EnableSwitch, ReadFails, Respond, Tick, vars, cache
<1>2. Spec => [][Next]_vars
    BY PTL DEF Spec
<1> QED BY <1>1, <1>2, BatteryInvariant, PTL DEF OrderKept
=============================================================================
