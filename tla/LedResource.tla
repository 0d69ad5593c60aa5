---------------------------- MODULE LedResource ----------------------------
(***************************************************************************)
(* The LED resource, server half of led.c, behind coap_req_handler, with   *)
(* its observer table and the alarm pin.  Requests are handled one at a    *)
(* time in the OpenThread thread; the interrupt of the pulse timer may     *)
(* come between any two steps of a PUT.  Init is the state that            *)
(* coap_led_reg_rsc leaves, before any request can arrive.                 *)
(***************************************************************************)
EXTENDS ClientView

CONSTANTS LedCount,  \* entries of led_rsc_data
          AlarmLeds  \* those of them that are the alarm pin

\* The overlay makes the alarm pin a child of a second gpio-leds node, after
\* the node of the board, so that it is also the last LED of the resource.
ASSUME LedAssumption == LedCount \in Nat \ {0, 1} /\ AlarmLeds \subseteq {LedCount - 1}

VARIABLES state,            \* led->state of each LED
          alarm_pin,        \* high-impedance input, or the level it drives
          alarm_pin_ready,
          pulse_timer,      \* alarm_pulse_timer runs
          step,             \* where the OpenThread thread is in a PUT
          request,          \* who waits for its answer
          ordered,          \* history: LED 0 as the last accepted PUT left it
          unannounced       \* history: LEDs changed since observers were last notified

ledVars   == <<state, unannounced>>
alarmVars == <<alarm_pin, pulse_timer>>
vars      == <<tableVars, view, ledVars, alarmVars, alarm_pin_ready, step, request, ordered>>

Leds     == 0 .. LedCount - 1
Off      == 0  \* LED_MSG_STATE_OFF
On       == 1  \* LED_MSG_STATE_ON
Toggle   == 2  \* LED_MSG_STATE_TOGGLE
Commands == {Off, On, Toggle}

PinModes == {"input", "low", "high"}
Steps    == {"idle", "drive", "start", "stop", "release", "answer"}

\* What a confirmable PUT leaves for its answer, and what any other does.
Requests  == [peer : Peers, token : Tokens, observe : OptionValues \cup {NoObserve}]
NoRequest == [peer |-> NoPeer, token |-> NoToken, observe |-> NoObserve]

\* led_init stops at a LED that cannot be set up and its result is ignored:
\* the resource works on, without an alarm.
Init == /\ TableInit /\ view = <<>>
        /\ state = [l \in Leds |-> 0] /\ unannounced = {}
        /\ alarm_pin = "input" /\ alarm_pin_ready \in BOOLEAN
        /\ pulse_timer = FALSE
        /\ step = "idle" /\ request = NoRequest /\ ordered = 0

-----------------------------------------------------------------------------
\* A request that changes no LED and is answered with an error: its type or
\* method is wrong, its payload too large, its LED unknown or its command
\* unsupported.
coap_error_send(p, t) == coap_resp_send(p, t)

Refuse(p, t) ==
    /\ step = "idle"
    /\ coap_error_send(p, t)
    /\ UNCHANGED <<observers, observer_count, view, ledVars, alarmVars, alarm_pin_ready,
                   step, request, ordered>>

led_handler_get(p, t, v) ==
    /\ coap_observe_handle(p, t, v)
    /\ Informs(state, DOMAIN view)

Get_led(p, t, v) ==
    /\ step = "idle"
    /\ led_handler_get(p, t, v)
    /\ UNCHANGED <<ledVars, alarmVars, alarm_pin_ready, step, request, ordered>>

-----------------------------------------------------------------------------
\* Mutant: TOGGLE counts up.
LevelUp(l, c) == CASE c = Off -> 0 [] c = On -> 1 [] c = Toggle -> 1 + state[l]

\* led_handler_put.  The result of the parser is ignored: a field that the
\* payload lacks has whatever value the stack held, so that any LED and any
\* command may be what is executed.
Level(l, c) == CASE c = Off -> 0 [] c = On -> 1 [] c = Toggle -> 1 - state[l]

\* The state of the LED is assigned although its pin could not be set, and
\* nobody is told before the next command that works.
SetFails(p, t, l, c) ==
    /\ step = "idle"
    /\ state' = [state EXCEPT ![l] = Level(l, c)]
    /\ unannounced' = IF state' = state THEN unannounced ELSE unannounced \cup {l}
    /\ coap_error_send(p, t)
    /\ UNCHANGED <<observers, observer_count, view, alarmVars, alarm_pin_ready, step, request,
                   ordered>>

led_notify_observers(leds) ==
    IF observer_count = 0
      THEN UNCHANGED <<observers, observer_count, view>> /\ sent' = {}
      ELSE Notify /\ Informs(leds, {})

\* A LED that is the alarm pin shows only while the pin is an output.
gpio_pin_set(l, level) ==
    alarm_pin' = IF l \notin AlarmLeds \/ alarm_pin = "input" THEN alarm_pin
                 ELSE IF level = 1 THEN "high" ELSE "low"

\* Mutant: the payload is built before the state is assigned.
NotifyThenSet(r, l, c) ==
    /\ step = "idle"
    /\ state' = [state EXCEPT ![l] = Level(l, c)]
    /\ gpio_pin_set(l, state'[l])
    /\ led_notify_observers(state) /\ unannounced' = {}
    /\ request' = r
    /\ ordered' = IF l = 0 THEN state'[0] ELSE ordered
    /\ step' = IF alarm_pin_ready /\ l = 0 THEN IF state'[0] = 1 THEN "drive" ELSE "stop"
                                           ELSE "answer"
    /\ UNCHANGED <<pulse_timer, alarm_pin_ready>>

\* Mutant: the alarm looks at the command, not at the resulting state.
AlarmUnlessOff(r, l, c) ==
    /\ step = "idle"
    /\ state' = [state EXCEPT ![l] = Level(l, c)]
    /\ gpio_pin_set(l, state'[l])
    /\ led_notify_observers(state') /\ unannounced' = {}
    /\ request' = r
    /\ ordered' = IF l = 0 THEN state'[0] ELSE ordered
    /\ step' = IF alarm_pin_ready /\ l = 0 THEN IF c # Off THEN "drive" ELSE "stop"
                                           ELSE "answer"
    /\ UNCHANGED <<pulse_timer, alarm_pin_ready>>

\* The pin is set, the state assigned and the observers notified; LED 0 goes
\* on to the alarm.
SetLed(r, l, c) ==
    /\ step = "idle"
    /\ state' = [state EXCEPT ![l] = Level(l, c)]
    /\ gpio_pin_set(l, state'[l])
    /\ led_notify_observers(state') /\ unannounced' = {}
    /\ request' = r
    /\ ordered' = IF l = 0 THEN state'[0] ELSE ordered
    /\ step' = IF alarm_pin_ready /\ l = 0 THEN IF state'[0] = 1 THEN "drive" ELSE "stop"
                                           ELSE "answer"
    /\ UNCHANGED <<pulse_timer, alarm_pin_ready>>

DrivePin ==
    /\ step = "drive"
    /\ alarm_pin' = "high"
    /\ step' = "start"
    /\ UNCHANGED <<tableVars, view, ledVars, pulse_timer, alarm_pin_ready, request, ordered>>

StartTimer ==
    /\ step = "start"
    /\ pulse_timer' = TRUE
    /\ step' = "answer"
    /\ UNCHANGED <<tableVars, view, ledVars, alarm_pin, alarm_pin_ready, request, ordered>>

StopTimer ==
    /\ step = "stop"
    /\ pulse_timer' = FALSE
    /\ step' = "release"
    /\ UNCHANGED <<tableVars, view, ledVars, alarm_pin, alarm_pin_ready, request, ordered>>

\* Mutant: the cancelled timer was to release the pin.
StopIsEnough ==
    /\ step = "release"
    /\ step' = "answer"
    /\ UNCHANGED <<tableVars, view, ledVars, alarmVars, alarm_pin_ready, request, ordered>>

ReleasePin ==
    /\ step = "release"
    /\ alarm_pin' = "input"
    /\ step' = "answer"
    /\ UNCHANGED <<tableVars, view, ledVars, pulse_timer, alarm_pin_ready, request, ordered>>

\* A confirmable PUT is answered by the GET handler, which also obeys an
\* Observe option in the PUT; one that is not confirmable gets no answer.
AnswerPut ==
    /\ step = "answer"
    /\ IF request # NoRequest
         THEN led_handler_get(request.peer, request.token, request.observe)
         ELSE UNCHANGED <<observers, observer_count, view>> /\ sent' = {}
    /\ step' = "idle" /\ request' = NoRequest
    /\ UNCHANGED <<ledVars, alarmVars, alarm_pin_ready, ordered>>

\* Mutant: the handler leaves the pin to the next command.
TimerWithoutRelease ==
    /\ pulse_timer
    /\ pulse_timer' = FALSE
    /\ UNCHANGED <<tableVars, view, ledVars, alarm_pin, alarm_pin_ready, step, request, ordered>>

alarm_pulse_timer_handler ==
    /\ pulse_timer
    /\ pulse_timer' = FALSE
    /\ alarm_pin' = "input"
    /\ UNCHANGED <<tableVars, view, ledVars, alarm_pin_ready, step, request, ordered>>

coap_req_handler ==
    \/ \E p \in Peers, t \in Tokens :
          \/ Refuse(p, t)
          \/ \E v \in OptionValues \cup {NoObserve} : Get_led(p, t, v)
          \/ \E l \in Leds, c \in Commands : SetFails(p, t, l, c)
    \/ \E r \in Requests \cup {NoRequest}, l \in Leds, c \in Commands : SetLed(r, l, c)

PutGoesOn == DrivePin \/ StartTimer \/ StopTimer \/ ReleasePin \/ AnswerPut

Next == coap_req_handler \/ PutGoesOn \/ alarm_pulse_timer_handler

Spec == Init /\ [][Next]_vars

\* A handler runs to its end: its thread is cooperative and it never blocks.
\* A started timer expires unless it is started again within its second.
FairSpec == Spec /\ WF_vars(PutGoesOn) /\ WF_vars(alarm_pulse_timer_handler)

-----------------------------------------------------------------------------
\* The variables of led.c keep their types, the table included.
TypeOK ==
    /\ TableTypeOK
    /\ DOMAIN view \subseteq Peers /\ \A p \in DOMAIN view : view[p] \in [Leds -> {0, 1}]
    /\ state \in [Leds -> {0, 1}]
    /\ alarm_pin \in PinModes /\ alarm_pin_ready \in BOOLEAN
    /\ pulse_timer \in BOOLEAN
    /\ step \in Steps /\ request \in Requests \cup {NoRequest}
    /\ ordered \in {0, 1} /\ unannounced \subseteq Leds

\* Between requests the alarm pin is driven only while a timer runs that will
\* release it, wherever in a PUT the timer of an earlier pulse expired: the
\* siren is never left on.
DrivenOnlyWithTimer == step = "idle" /\ ~pulse_timer => alarm_pin = "input"

\* After a PUT that switched LED 0 off, no pulse sounds and none is to come
\* before a PUT switches it on, whatever calls failed in between.
SilentWhenOff == step = "idle" /\ ordered = 0 => alarm_pin = "input" /\ ~pulse_timer

\* Every observer holds the state of each LED, through PUTs of other clients,
\* registrations by GET or PUT, refused notifications and commands whose pin
\* failed; only a LED that such a command changed may differ, and only until the
\* next command that works, on whichever LED.
ObserversKnow == \A p \in DOMAIN view, l \in Leds \ unannounced : view[p][l] = state[l]

\* When no more PUTs come, the alarm pin ends in high impedance.
PulseEnds == <>[](step = "idle") => <>[](alarm_pin = "input")
=============================================================================
