------------------------------ MODULE Battery ------------------------------
(***************************************************************************)
(* The battery and voltage resources, battery.c, on a board with the       *)
(* divider and its load switch.  All of it runs in the OpenThread thread,  *)
(* one request at a time; time passes between requests and in the sleep of *)
(* a measurement.  A request that is no GET changes nothing: left out.     *)
(***************************************************************************)
EXTENDS Integers, Sequences

CONSTANTS Samples,  \* millivolts the ADC may return
          Stale     \* VOLTAGE_STALE_THRESHOLD_MS, in ticks

ASSUME BatteryAssumption == Samples \subseteq Int /\ Stale \in Nat

VARIABLES battery_voltage_mv,
          battery_percentage,
          measured,                 \* last_measurement_time_ms is not 0
          age,                      \* ticks since that time, Stale + 1 when more
          battery_adc_initialized,
          vbat_enable,              \* the load switch is on
          pc,                       \* where the handler is
          asked,                    \* the resource it answers for
          failed,                   \* history: the measurement it made failed
          stuck                     \* history: the latest switching off failed

cache  == <<battery_voltage_mv, battery_percentage, measured, age>>
switch == <<battery_adc_initialized, vbat_enable, stuck>>
vars   == <<cache, switch, pc, asked, failed>>

Locations == {"idle", "init", "enable", "settle", "answer"}
Resources == {"battery", "voltage"}

-----------------------------------------------------------------------------
\* lipo_discharge_table: voltages, and the percentage of the i-th of them.
voltage_mv == <<4200, 4150, 4100, 4050, 4000, 3950, 3900, 3850, 3800, 3750, 3700,
                3650, 3600, 3550, 3500, 3450, 3400, 3350, 3300, 3200, 3000>>
LIPO_TABLE_SIZE == 21
percentage(i)   == 105 - 5 * i

\* Mutant: the difference to the upper end of the segment is added.
InterpolateDown(v, i) ==
    percentage(i + 1) + ((voltage_mv[i] - v) * (percentage(i) - percentage(i + 1)))
                            \div (voltage_mv[i] - voltage_mv[i + 1])

Interpolate(v, i) ==
    percentage(i + 1) + ((v - voltage_mv[i + 1]) * (percentage(i) - percentage(i + 1)))
                            \div (voltage_mv[i] - voltage_mv[i + 1])

\* Entries i and i + 1 enclose v.
Encloses(i, v) == v <= voltage_mv[i] /\ v > voltage_mv[i + 1]

\* Mutant: a voltage above the table is extrapolated from its first segment.
ExtrapolateAbove(v) ==
    IF v <= voltage_mv[LIPO_TABLE_SIZE] THEN 0
    ELSE IF v >= voltage_mv[1] THEN Interpolate(v, 1)
    ELSE Interpolate(v, CHOOSE i \in 1 .. LIPO_TABLE_SIZE - 1 : Encloses(i, v))

voltage_to_percentage(v) ==
    IF v >= voltage_mv[1] THEN 100
    ELSE IF v <= voltage_mv[LIPO_TABLE_SIZE] THEN 0
    ELSE Interpolate(v, CHOOSE i \in 1 .. LIPO_TABLE_SIZE - 1 : Encloses(i, v))

\* The divider of the board, full_ohms over output_ohms.
VBAT(mv) == (mv * 20000) \div 10000

-----------------------------------------------------------------------------
Init == /\ battery_voltage_mv = 3800 /\ battery_percentage = 70
        /\ measured = FALSE /\ age = 0
        /\ battery_adc_initialized = FALSE /\ vbat_enable = FALSE /\ stuck = FALSE
        /\ pc = "idle" /\ asked = "battery" /\ failed = FALSE

battery_handler_get ==
    /\ pc = "idle"
    /\ pc' = "init" /\ asked' = "battery" /\ failed' = FALSE
    /\ UNCHANGED <<cache, switch>>

\* Mutant: the time stamp of boot passes for one of a measurement.
VoltageByAgeOnly ==
    /\ pc = "idle"
    /\ pc' = IF age > Stale THEN "init" ELSE "answer"
    /\ asked' = "voltage" /\ failed' = FALSE
    /\ UNCHANGED <<cache, switch>>

voltage_handler_get ==
    /\ pc = "idle"
    /\ pc' = IF ~measured \/ age > Stale THEN "init" ELSE "answer"
    /\ asked' = "voltage" /\ failed' = FALSE
    /\ UNCHANGED <<cache, switch>>

\* battery_measure, up to its end.  An early return leaves the cache as it is
\* and the handlers ignore the result.
Fail == pc' = "answer" /\ failed' = TRUE

battery_adc_init ==
    /\ pc = "init"
    /\ \/ battery_adc_initialized /\ pc' = "enable" /\ UNCHANGED <<switch, failed>>
       \/ ~battery_adc_initialized /\ Fail /\ UNCHANGED switch
       \/ /\ ~battery_adc_initialized
          /\ battery_adc_initialized' = TRUE /\ vbat_enable' = FALSE
          /\ pc' = "enable" /\ UNCHANGED <<stuck, failed>>
    /\ UNCHANGED <<cache, asked>>

EnableSwitch ==
    /\ pc = "enable"
    /\ \/ vbat_enable' = TRUE /\ pc' = "settle" /\ UNCHANGED failed
       \/ Fail /\ UNCHANGED vbat_enable
    /\ UNCHANGED <<cache, battery_adc_initialized, stuck, asked>>

DisableSwitch == stuck' \in BOOLEAN /\ vbat_enable' = stuck'

\* Mutant: an error of the ADC returns before the switch is off.
ReturnBeforeSwitch ==
    /\ pc = "settle"
    /\ Fail
    /\ UNCHANGED <<cache, switch, asked>>

\* After the sleep: the ADC is read and the switch goes off whatever it said;
\* the reading or its conversion fails.
ReadFails ==
    /\ pc = "settle"
    /\ DisableSwitch
    /\ Fail
    /\ UNCHANGED <<cache, battery_adc_initialized, asked>>

ReadSample(mv) ==
    /\ pc = "settle"
    /\ DisableSwitch
    /\ battery_voltage_mv' = VBAT(mv)
    /\ battery_percentage' = voltage_to_percentage(VBAT(mv))
    /\ measured' = TRUE /\ age' = 0
    /\ pc' = "answer"
    /\ UNCHANGED <<battery_adc_initialized, asked, failed>>

\* The response shows the cached value of the resource.
Respond ==
    /\ pc = "answer"
    /\ pc' = "idle"
    /\ UNCHANGED <<cache, switch, asked, failed>>

Tick ==
    /\ pc \in {"idle", "settle"}
    /\ age <= Stale
    /\ age' = age + 1
    /\ UNCHANGED <<battery_voltage_mv, battery_percentage, measured, switch, pc, asked, failed>>

battery_measure == \/ battery_adc_init \/ EnableSwitch \/ ReadFails
                   \/ \E mv \in Samples : ReadSample(mv)

Next == battery_handler_get \/ voltage_handler_get \/ battery_measure \/ Respond \/ Tick

Spec == Init /\ [][Next]_vars

-----------------------------------------------------------------------------
\* The variables of battery.c keep their types, and the percentage is one.
TypeOK ==
    /\ battery_voltage_mv \in Int /\ battery_percentage \in 0 .. 100
    /\ measured \in BOOLEAN /\ age \in 0 .. Stale + 1
    /\ battery_adc_initialized \in BOOLEAN /\ vbat_enable \in BOOLEAN /\ stuck \in BOOLEAN
    /\ pc \in Locations /\ asked \in Resources /\ failed \in BOOLEAN

\* Whatever step of a measurement fails, the divider draws no current after
\* it, unless the very call that switches it off failed.
SwitchReleased == pc # "settle" => vbat_enable = stuck

\* A value that is sent stems from a measurement, the percentage from this
\* request and the voltage from the last threshold of time; older values and
\* the defaults go out only when the measurement just made has failed.
AnswersAreFresh ==
    pc = "answer" /\ ~failed =>
        measured /\ age <= (IF asked = "battery" THEN 0 ELSE Stale)

\* From one measurement to the next the percentage moves the way the voltage
\* does, over the ends and joints of the curve.
OrderKept ==
    [][measured => /\ battery_voltage_mv <= battery_voltage_mv'
                        => battery_percentage <= battery_percentage'
                   /\ battery_voltage_mv >= battery_voltage_mv'
                        => battery_percentage >= battery_percentage']_vars
=============================================================================
