------------------------- MODULE LedResource_proofs -------------------------
(***************************************************************************)
(* Proofs about the LED resource, for any number of LEDs, clients, slots   *)
(* and any widths of the counters.  The table's part of the invariant is   *)
(* carried by the lemmas about CoapObserve.                            *)
(***************************************************************************)
EXTENDS LedResource, CoapObserve_refinement

\* The variables of led.c alone, without table and history.
Flags == alarm_pin_ready \in BOOLEAN /\ pulse_timer \in BOOLEAN

LedTypes == /\ state \in [Leds -> {0, 1}] /\ ordered \in {0, 1}
            /\ alarm_pin \in PinModes /\ step \in Steps
            /\ request \in Requests \cup {NoRequest} /\ unannounced \subseteq Leds

\* Only observers have an entry; it is one of LED states, and right.
Entries == \A p \in DOMAIN view : view[p] \in [Leds -> {0, 1}]
Viewed  == DOMAIN view \subseteq ObserverPeers /\ Entries /\ ObserversKnow

\* Where in a PUT the pin may be driven without a timer, and where a pulse
\* may be left although LED 0 was switched off.
Alarm ==
    /\ alarm_pin # "input" /\ ~pulse_timer => step \in {"start", "release"}
    /\ step \in {"drive", "start"} => ordered = 1
    /\ step = "release" => ~pulse_timer
    /\ ordered = 0 /\ step \notin {"stop", "release"} => alarm_pin = "input" /\ ~pulse_timer
    /\ ~alarm_pin_ready => alarm_pin = "input" /\ ~pulse_timer /\ step \in {"idle", "answer"}

IInv == TableInv /\ Flags /\ LedTypes /\ Viewed /\ Alarm

-----------------------------------------------------------------------------
\* A round to all leaves no entry with older content.
LEMMA RoundInforms ==
    ASSUME NEW c, Informs(c, {})
    PROVE  DOMAIN view' \subseteq ObserverPeers' /\ \A p \in DOMAIN view' : view'[p] = c
BY DEF Informs

\* A response adds an entry and keeps others as they were.
LEMMA ResponseInforms ==
    ASSUME NEW c, Informs(c, DOMAIN view)
    PROVE  /\ DOMAIN view' \subseteq ObserverPeers'
           /\ \A p \in DOMAIN view' : view'[p] = c \/ (p \in DOMAIN view /\ view'[p] = view[p])
<1> DEFINE reached == {m.to : m \in sent'}
<1>1. view' = [p \in ObserverPeers' \cap (reached \cup DOMAIN view) |->
                 IF p \in reached THEN c ELSE view[p]]
    BY DEF Informs
<1> HIDE DEF reached
<1>2. DOMAIN view' = ObserverPeers' \cap (reached \cup DOMAIN view)
    BY <1>1
<1>3. \A p \in DOMAIN view' : view'[p] = IF p \in reached THEN c ELSE view[p]
    BY <1>1, <1>2
<1> QED BY <1>2, <1>3

\* A table with the count 0 has no observers.
LEMMA NobodyListens ==
    ASSUME TableInv, observer_count = 0
    PROVE  ObserverPeers = {}
<1>1. Active \in SUBSET Slots /\ Cardinality(Active) = 0
    BY DEF TableInv, CountMatches, Active
<1>2. Active = {}
    BY <1>1, SlotSets, FS_EmptySet
<1> QED BY <1>2 DEF ObserverPeers

\* An answer without content leaves table and entries alone.
LEMMA SameObservers ==
    ASSUME UNCHANGED observers
    PROVE  ObserverPeers' = ObserverPeers
BY DEF ObserverPeers, Active

LEMMA LevelType ==
    ASSUME LedTypes, NEW l \in Leds, NEW c \in Commands
    PROVE  Level(l, c) \in {0, 1}
<1>1. state[l] \in {0, 1}
    BY DEF LedTypes
<1> QED BY <1>1 DEF Level, Commands, Off, On, Toggle

-----------------------------------------------------------------------------
\* The observer table: every step of the resource is a step of the table, a
\* plain message or no table step at all.
LEMMA TablePreserved == IInv /\ [Next]_vars => TableInv'
<1> SUFFICES ASSUME IInv, [Next]_vars PROVE TableInv'
    OBVIOUS
<1>0. TableInv
    BY DEF IInv
<1>1. CASE UNCHANGED tableVars
    BY <1>0, <1>1, StepPreserves
<1>2. ASSUME NEW p \in Peers, NEW t \in Tokens, coap_error_send(p, t),
             UNCHANGED <<observers, observer_count>>
      PROVE  TableInv'
    <2>1. sent' \subseteq Message
        BY <1>2, ResponseType DEF coap_error_send, coap_resp_send
    <2> QED BY <1>0, <1>2, <2>1, SameTablePreserves
<1>3. ASSUME UNCHANGED <<observers, observer_count>>, sent' = {}
      PROVE  TableInv'
    BY <1>0, <1>3, SameTablePreserves
<1>4. ASSUME NEW r \in Requests \cup {NoRequest}, NEW l \in Leds, NEW c \in Commands,
             SetLed(r, l, c)
      PROVE  TableInv'
    <2>1. led_notify_observers(state')
        BY <1>4 DEF SetLed
    <2>2. CASE Notify
        BY <1>0, <2>2, NotifyPreserves DEF Notify
    <2> QED BY <1>3, <2>1, <2>2 DEF led_notify_observers
<1>5. ASSUME AnswerPut PROVE TableInv'
    <2>1. CASE request = NoRequest
        BY <1>3, <1>5, <2>1 DEF AnswerPut
    <2>2. CASE request # NoRequest
        <3>1. request \in Requests
            BY <2>2 DEF IInv, LedTypes
        <3>2. coap_observe_handle(request.peer, request.token, request.observe)
            BY <1>5, <2>2 DEF AnswerPut, led_handler_get
        <3> QED BY <1>0, <3>1, <3>2, GetPreserves DEF Requests
    <2> QED BY <2>1, <2>2
<1>6. ASSUME NEW p \in Peers, NEW t \in Tokens, NEW v \in OptionValues \cup {NoObserve},
             Get_led(p, t, v)
      PROVE  TableInv'
    BY <1>0, <1>6, GetPreserves DEF Get_led, led_handler_get
<1>7. CASE coap_req_handler
    BY <1>2, <1>4, <1>6, <1>7 DEF coap_req_handler, Refuse, SetFails
<1>8. CASE DrivePin \/ StartTimer \/ StopTimer \/ ReleasePin \/ alarm_pulse_timer_handler
    BY <1>1, <1>8 DEF DrivePin, StartTimer, StopTimer, ReleasePin, alarm_pulse_timer_handler
<1> QED BY <1>1, <1>5, <1>7, <1>8 DEF Next, PutGoesOn, vars

\* The entries of the observers.
LEMMA ViewPreserved == IInv /\ [Next]_vars => Viewed'
<1> SUFFICES ASSUME IInv, [Next]_vars PROVE Viewed'
    OBVIOUS
<1>0. Viewed /\ TableInv /\ LedTypes
    BY DEF IInv
<1> USE DEF Viewed, Entries, ObserversKnow
<1>1. ASSUME UNCHANGED <<observers, view, ledVars>> PROVE Viewed'
    BY <1>0, <1>1, SameObservers DEF ledVars
<1>2. ASSUME NEW p, NEW t, NEW v, led_handler_get(p, t, v), UNCHANGED ledVars PROVE Viewed'
    <2>1. /\ DOMAIN view' \subseteq ObserverPeers'
          /\ \A q \in DOMAIN view' : view'[q] = state \/ (q \in DOMAIN view /\ view'[q] = view[q])
        BY <1>2, ResponseInforms DEF led_handler_get
    <2> QED BY <1>0, <1>2, <2>1 DEF ledVars, LedTypes
<1>3. ASSUME NEW p, NEW t, NEW l, NEW c, SetFails(p, t, l, c) PROVE Viewed'
    <2>1. UNCHANGED <<observers, view>>
        BY <1>3 DEF SetFails
    <2>2. \A k \in Leds \ unannounced' : k \notin unannounced /\ state'[k] = state[k]
        BY <1>0, <1>3 DEF SetFails, LedTypes
    <2> QED BY <1>0, <2>1, <2>2, SameObservers
<1>4. ASSUME NEW r, NEW l \in Leds, NEW c \in Commands, SetLed(r, l, c) PROVE Viewed'
    <2>1. led_notify_observers(state') /\ state' \in [Leds -> {0, 1}]
        BY <1>0, <1>4, LevelType DEF SetLed, LedTypes
    <2>2. CASE observer_count = 0
        <3>1. DOMAIN view = {}
            BY <1>0, <2>2, NobodyListens
        <3> QED BY <2>1, <2>2, <3>1 DEF led_notify_observers
    <2>3. CASE observer_count # 0
        BY <2>1, <2>3, RoundInforms DEF led_notify_observers
    <2> QED BY <2>2, <2>3
<1>5. CASE coap_req_handler
    BY <1>1, <1>2, <1>3, <1>4, <1>5 DEF coap_req_handler, Refuse, Get_led
<1>6. CASE AnswerPut
    BY <1>1, <1>2, <1>6 DEF AnswerPut
<1>7. CASE DrivePin \/ StartTimer \/ StopTimer \/ ReleasePin \/ alarm_pulse_timer_handler
    BY <1>1, <1>7 DEF DrivePin, StartTimer, StopTimer, ReleasePin,
                      alarm_pulse_timer_handler, tableVars
<1> QED BY <1>1, <1>5, <1>6, <1>7 DEF Next, PutGoesOn, vars, tableVars

-----------------------------------------------------------------------------
\* Types of the variables of led.c.
LEMMA FlagsPreserved == Flags /\ [Next]_vars => Flags'
BY Zenon DEF Flags, Next, vars, alarmVars, coap_req_handler, Refuse, Get_led, SetFails, SetLed,
    PutGoesOn, DrivePin, StartTimer, StopTimer, ReleasePin, AnswerPut, alarm_pulse_timer_handler

LEMMA TypesPreserved == LedTypes /\ [Next]_vars => LedTypes'
<1> SUFFICES ASSUME LedTypes, [Next]_vars PROVE LedTypes'
    OBVIOUS
<1> USE DEF LedTypes, ledVars, alarmVars, Steps, PinModes
<1>1. ASSUME NEW p \in Peers, NEW t \in Tokens, NEW l \in Leds, NEW c \in Commands,
             SetFails(p, t, l, c)
      PROVE  LedTypes'
    BY <1>1, LevelType DEF SetFails
<1>2. ASSUME NEW r \in Requests \cup {NoRequest}, NEW l \in Leds, NEW c \in Commands,
             SetLed(r, l, c)
      PROVE  LedTypes'
    <2>1. state' \in [Leds -> {0, 1}]
        BY <1>2, LevelType DEF SetLed
    <2>2. ordered' \in {0, 1}
        BY <1>2, <2>1, LedAssumption DEF SetLed, Leds
    <2>3. alarm_pin' \in PinModes
        BY <1>2 DEF SetLed, gpio_pin_set
    <2>4. step' \in Steps
        BY <1>2 DEF SetLed
    <2> QED BY <1>2, <2>1, <2>2, <2>3, <2>4 DEF SetLed
<1>3. CASE coap_req_handler
    BY <1>1, <1>2, <1>3 DEF coap_req_handler, Refuse, Get_led
<1>4. CASE PutGoesOn \/ alarm_pulse_timer_handler \/ UNCHANGED vars
    BY <1>4 DEF PutGoesOn, DrivePin, StartTimer, StopTimer, ReleasePin, AnswerPut,
                alarm_pulse_timer_handler, vars
<1> QED BY <1>3, <1>4 DEF Next

-----------------------------------------------------------------------------
\* The alarm: one step for each action that touches the pin, the timer or the
\* position in a PUT.
LEMMA AlarmPreserved == IInv /\ [Next]_vars => Alarm'
<1> SUFFICES ASSUME IInv, [Next]_vars PROVE Alarm'
    OBVIOUS
<1>0. Alarm /\ Flags /\ LedTypes
    BY DEF IInv
<1> USE <1>0 DEF Alarm, Flags
<1>1. ASSUME UNCHANGED <<alarm_pin, pulse_timer, alarm_pin_ready, step, ordered>>
      PROVE  Alarm'
    BY <1>1
<1>2. ASSUME NEW r, NEW l \in Leds, NEW c \in Commands, SetLed(r, l, c) PROVE Alarm'
    <2>1. alarm_pin = "input" => alarm_pin' = "input"
        BY <1>2 DEF SetLed, gpio_pin_set
    <2>2. step = "idle" /\ UNCHANGED <<pulse_timer, alarm_pin_ready>>
        BY <1>2 DEF SetLed
    <2>3. 0 \in Leds
        BY LedAssumption DEF Leds
    <2>4. state'[0] \in {0, 1}
        BY <1>2, <2>3, LevelType DEF SetLed, LedTypes
    <2>5. CASE l = 0 /\ alarm_pin_ready
        <3>1. ordered' = state'[0] /\ step' = IF state'[0] = 1 THEN "drive" ELSE "stop"
            BY <1>2, <2>5 DEF SetLed
        <3> QED BY <2>1, <2>2, <2>4, <2>5, <3>1
    <2>6. CASE ~(l = 0 /\ alarm_pin_ready)
        <3>1. step' = "answer"
            BY <1>2, <2>6 DEF SetLed
        <3>2. ordered' = ordered \/ ~alarm_pin_ready
            BY <1>2, <2>6 DEF SetLed
        <3> QED BY <2>1, <2>2, <3>1, <3>2
    <2> QED BY <2>5, <2>6
<1>3. CASE coap_req_handler
    BY <1>1, <1>2, <1>3 DEF coap_req_handler, Refuse, Get_led, SetFails, alarmVars
<1>4. CASE DrivePin
    BY <1>4 DEF DrivePin
<1>5. CASE StartTimer
    BY <1>5 DEF StartTimer
<1>6. CASE StopTimer
    BY <1>6 DEF StopTimer
<1>7. CASE ReleasePin
    BY <1>7 DEF ReleasePin
<1>8. CASE AnswerPut
    BY <1>8 DEF AnswerPut, alarmVars
<1>9. CASE alarm_pulse_timer_handler
    BY <1>9 DEF alarm_pulse_timer_handler
<1>10. CASE UNCHANGED vars
    BY <1>1, <1>10 DEF vars, alarmVars
<1> QED BY <1>3, <1>4, <1>5, <1>6, <1>7, <1>8, <1>9, <1>10 DEF Next, PutGoesOn

LEMMA LedInit == Init => IInv
<1> SUFFICES ASSUME Init PROVE IInv
    OBVIOUS
<1>1. TableInv
    BY InitEstablishes DEF Init
<1>2. Flags
    BY Zenon DEF Init, Flags
<1>3. LedTypes
    BY DEF Init, LedTypes, PinModes, Steps
<1>4. DOMAIN view = {}
    BY DEF Init
<1>5. Viewed
    BY <1>4 DEF Viewed, Entries, ObserversKnow
<1>6. Alarm
    BY DEF Init, Alarm
<1> QED BY <1>1, <1>2, <1>3, <1>5, <1>6 DEF IInv

LEMMA LedStep == IInv /\ [Next]_vars => IInv'
BY TablePreserved, ViewPreserved, FlagsPreserved, TypesPreserved, AlarmPreserved DEF IInv

LEMMA LedInvariant == Spec => []IInv
BY LedInit, LedStep, PTL DEF Spec

-----------------------------------------------------------------------------
\* The variables of led.c and its observer table keep their types.
THEOREM LedTypesHold == Spec => []TypeOK
<1>1. ASSUME IInv PROVE TypeOK
    <2>1. TableTypeOK
        BY <1>1 DEF IInv, TableInv
    <2>2. ObserverPeers \subseteq Peers
        BY <2>1 DEF TableTypeOK, ObserverPeers
    <2> QED BY <1>1, <2>1, <2>2 DEF TypeOK, IInv, Flags, LedTypes, Viewed, Entries
<1> QED BY <1>1, LedInvariant, PTL

\* The siren is never left on: led.c drives the pin between requests only while
\* a timer runs that releases it.
THEOREM SirenIsReleased == Spec => []DrivenOnlyWithTimer
<1>1. ASSUME IInv PROVE DrivenOnlyWithTimer
    BY <1>1 DEF IInv, Alarm, DrivenOnlyWithTimer
<1> QED BY <1>1, LedInvariant, PTL

\* A PUT that switches LED 0 off cancels every pulse of led.c.
THEOREM OffSilences == Spec => []SilentWhenOff
<1>1. ASSUME IInv PROVE SilentWhenOff
    BY <1>1 DEF IInv, Alarm, SilentWhenOff
<1> QED BY <1>1, LedInvariant, PTL

\* Observers of the LED resource hold the states of its LEDs, but for those
\* that a command with a failing pin has changed since the last notification.
THEOREM ObserversAreTold == Spec => []ObserversKnow
<1>1. ASSUME IInv PROVE ObserversKnow
    BY <1>1 DEF IInv, Viewed
<1> QED BY <1>1, LedInvariant, PTL

\* Whatever makes the alarm pin sound, the pulse of LED 0 or the level of
\* another LED whose pin it is, LED 0 has last been switched on: no PUT on
\* another LED sets off the siren.
SoundIsOrdered == [][alarm_pin # "high" /\ alarm_pin' = "high" => ordered' = 1]_vars

THEOREM OnlyLedZeroSounds == Spec => SoundIsOrdered
<1> DEFINE Ordered == alarm_pin # "high" /\ alarm_pin' = "high" => ordered' = 1
<1>1. IInv /\ [Next]_vars => [Ordered]_vars
    <2> SUFFICES ASSUME IInv, [Next]_vars, alarm_pin # "high", alarm_pin' = "high"
                 PROVE  ordered' = 1
        OBVIOUS
    <2>0. Alarm /\ LedTypes
        BY DEF IInv
    <2>1. ASSUME NEW r, NEW l \in Leds, NEW c \in Commands, SetLed(r, l, c)
          PROVE  ordered' = 1
        <3>1. step = "idle" /\ l \in AlarmLeds /\ alarm_pin # "input" /\ state'[l] = 1
            BY <2>1 DEF SetLed, gpio_pin_set
        <3>2. ordered = 1
            BY <2>0, <3>1 DEF Alarm, LedTypes
        <3>3. CASE l = 0
            BY <2>1, <3>1, <3>3 DEF SetLed
        <3>4. CASE l # 0
            BY <2>1, <3>2, <3>4 DEF SetLed
        <3> QED BY <3>3, <3>4
    <2>2. CASE coap_req_handler
        BY <2>1, <2>2 DEF coap_req_handler, Refuse, Get_led, SetFails, alarmVars
    <2>3. CASE DrivePin
        BY <2>0, <2>3 DEF DrivePin, Alarm
    <2> QED BY <2>2, <2>3 DEF Next, PutGoesOn, StartTimer, StopTimer, ReleasePin, AnswerPut,
                              alarm_pulse_timer_handler, vars, alarmVars
<1> QED BY <1>1, LedInvariant, PTL DEF Spec, SoundIsOrdered

-----------------------------------------------------------------------------
\* What led.c does to its table and puts on the air, one step for each kind
\* of action, is what Observation allows.
LEMMA LedStepIsPromised == IInv /\ [Next]_vars => [Promise!Next]_(Promise!vars)
<1> SUFFICES ASSUME IInv, [Next]_vars PROVE [Promise!Next]_(Promise!vars)
    OBVIOUS
<1>0. TableInv /\ LedTypes
    BY DEF IInv
<1>1. CASE UNCHANGED tableVars
    BY <1>1, SameSubs DEF tableVars, Promise!vars
<1>2. ASSUME NEW p \in Peers, NEW t \in Tokens,
             Refuse(p, t) \/ \E l \in Leds, c \in Commands : SetFails(p, t, l, c)
      PROVE  Promise!Next
    <2>1. coap_resp_send(p, t) /\ UNCHANGED <<observers, observer_count>>
        BY <1>2 DEF Refuse, SetFails, coap_error_send
    <2> QED BY <2>1, ResponseIsPromised
<1>3. ASSUME NEW p \in Peers, NEW t \in Tokens, NEW v, Get_led(p, t, v)
      PROVE  Promise!Next
    BY <1>0, <1>3, HandleIsPromised DEF Get_led, led_handler_get
<1>4. ASSUME NEW r, NEW l, NEW c, SetLed(r, l, c)
      PROVE  Promise!Next
    <2>1. led_notify_observers(state')
        BY <1>4 DEF SetLed
    <2>2. CASE observer_count = 0
        BY <2>1, <2>2, SilenceIsPromised DEF led_notify_observers
    <2>3. CASE Notify
        BY <1>0, <2>3, NotifyNotifies DEF Notify, Promise!Next
    <2> QED BY <2>1, <2>2, <2>3 DEF led_notify_observers
<1>5. CASE AnswerPut
    <2>1. CASE request = NoRequest
        BY <1>5, <2>1, SilenceIsPromised DEF AnswerPut
    <2>2. CASE request # NoRequest
        <3>1. request.peer \in Peers /\ request.token \in Tokens
            BY <1>0, <2>2 DEF LedTypes, Requests
        <3>2. coap_observe_handle(request.peer, request.token, request.observe)
            BY <1>5, <2>2 DEF AnswerPut, led_handler_get
        <3> QED BY <1>0, <3>1, <3>2, HandleIsPromised
    <2> QED BY <2>1, <2>2
<1>6. CASE coap_req_handler
    BY <1>2, <1>3, <1>4, <1>6 DEF coap_req_handler
<1>7. CASE DrivePin \/ StartTimer \/ StopTimer \/ ReleasePin \/ alarm_pulse_timer_handler
    BY <1>1, <1>7 DEF DrivePin, StartTimer, StopTimer, ReleasePin, alarm_pulse_timer_handler
<1> QED BY <1>1, <1>5, <1>6, <1>7 DEF Next, PutGoesOn, vars

\* The LED resource as a whole keeps the promise of an observable resource:
\* neither PUTs, nor failed pins, nor answers that carry an Observe option,
\* nor the timer in between, make it miscount, number or address a message.
THEOREM LedKeepsPromise == Spec => KeepsPromise
<1>1. Init => Promise!Init
    BY InitIsPromised DEF Init
<1> QED BY <1>1, LedInvariant, LedStepIsPromised, PTL DEF Spec, KeepsPromise, Promise!Spec
=============================================================================
