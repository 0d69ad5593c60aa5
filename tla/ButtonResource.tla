--------------------------- MODULE ButtonResource ---------------------------
(***************************************************************************)
(* The button resource, server half of button.c, with its observer table.  *)
(* An edge on a pin interrupts and submits a work item; the workqueue      *)
(* wakes the radio, sleeps, reads the pins, notifies and sleeps again,     *)
(* while requests reach the table between its sleeps.  The main thread,    *)
(* which sets all of this up, can be interrupted after any step of it.     *)
(***************************************************************************)
EXTENDS ClientView

CONSTANTS ButtonCount

ASSUME ButtonAssumption == ButtonCount \in Nat \ {0}

VARIABLES stage,        \* where main is in coap_btn_reg_rsc
          armed,        \* buttons whose interrupt and callback are set up
          pins,         \* levels of the pins
          work_init,    \* k_work_init has run on notify_work
          work_queued,  \* notify_work waits in the queue
          worker,       \* where btn_notify_work_handler is
          payload       \* its buf

setupVars == <<stage, armed, work_init>>
vars      == <<tableVars, setupVars, pins, work_queued, worker, payload, view>>

Buttons   == 0 .. ButtonCount - 1
Levels    == [Buttons -> {0, 1}]
Nothing   == [b \in Buttons |-> 0]  \* the buffer before its first use

Stages  == {"buttons", "observe", "work", "add", "ready"}
Workers == {"idle", "poll", "notify", "send", "settle"}

\* The workqueue and the OpenThread thread are cooperative.  Main runs when
\* the workqueue has nothing to do or sleeps; a request is handled when the
\* workqueue is not between two of its sleeps.
WorkerHoldsCpu == worker \in {"notify", "send"} \/ (worker = "idle" /\ work_queued)

Init == /\ TableInit
        /\ stage = "buttons" /\ armed = {} /\ work_init = FALSE
        /\ pins \in Levels
        /\ work_queued = FALSE /\ worker = "idle" /\ payload = Nothing
        /\ view = <<>>

-----------------------------------------------------------------------------
\* coap_btn_reg_rsc.  The result of button_init_rsc is ignored: a button that
\* cannot be set up ends the loop, and the rest of the set-up goes on.
button_init_rsc ==
    /\ stage = "buttons" /\ ~WorkerHoldsCpu
    /\ \/ armed' = armed \cup {Cardinality(armed)}
       \/ UNCHANGED armed
    /\ stage' = IF armed' = armed \/ armed' = Buttons THEN "observe" ELSE "buttons"
    /\ UNCHANGED <<tableVars, work_init, pins, work_queued, worker, payload, view>>

InitObserve ==
    /\ stage = "observe" /\ ~WorkerHoldsCpu
    /\ coap_observe_init
    /\ stage' = "work"
    /\ UNCHANGED <<armed, work_init, pins, work_queued, worker, payload, view>>

InitWork ==
    /\ stage = "work" /\ ~WorkerHoldsCpu
    /\ work_init' = TRUE /\ work_queued' = FALSE
    /\ stage' = "add"
    /\ UNCHANGED <<tableVars, armed, pins, worker, payload, view>>

AddResource ==
    /\ stage = "add" /\ ~WorkerHoldsCpu
    /\ stage' = "ready"
    /\ UNCHANGED <<tableVars, armed, work_init, pins, work_queued, worker, payload, view>>

-----------------------------------------------------------------------------
\* Mutant: nothing is submitted while the handler runs.
CallbackWhenIdle(b) ==
    /\ pins' = [pins EXCEPT ![b] = 1 - @]
    /\ work_queued' = (work_queued \/ (b \in armed /\ worker = "idle"))
    /\ UNCHANGED <<tableVars, setupVars, worker, payload, view>>

\* A pin changes; btn_gpio_callback submits the work item, which queues it
\* once, also while its handler runs.
btn_gpio_callback(b) ==
    /\ pins' = [pins EXCEPT ![b] = 1 - @]
    /\ work_queued' = (work_queued \/ b \in armed)
    /\ UNCHANGED <<tableVars, setupVars, worker, payload, view>>

\* The handler starts with a data request to the parent; only when the link
\* layer accepts it does the handler sleep for 100 ms.
StartHandler ==
    /\ worker = "idle" /\ work_queued /\ work_init
    /\ work_queued' = FALSE
    /\ worker' \in {"poll", "notify"}
    /\ UNCHANGED <<tableVars, setupVars, pins, payload, view>>

PollDone ==
    /\ worker = "poll"
    /\ worker' = "notify"
    /\ UNCHANGED <<tableVars, setupVars, pins, work_queued, payload, view>>

\* btn_notify_observers: nothing to do without observers, or read the pins.
BuildPayload ==
    /\ worker = "notify"
    /\ IF observer_count = 0 THEN worker' = "settle" /\ UNCHANGED payload
                             ELSE worker' = "send" /\ payload' = pins
    /\ UNCHANGED <<tableVars, setupVars, pins, work_queued, view>>

SendNotifications ==
    /\ worker = "send"
    /\ Notify
    /\ Informs(payload, {})
    /\ worker' = "settle" /\ payload' = Nothing
    /\ UNCHANGED <<setupVars, pins, work_queued>>

\* Mutant: the item leaves the queue when its handler ends.
SettleClearsQueue ==
    /\ worker = "settle"
    /\ worker' = "idle" /\ work_queued' = FALSE
    /\ UNCHANGED <<tableVars, setupVars, pins, payload, view>>

SettleDone ==
    /\ worker = "settle"
    /\ worker' = "idle"
    /\ UNCHANGED <<tableVars, setupVars, pins, work_queued, payload, view>>

\* Before k_work_init the item has no handler: the workqueue calls address 0
\* and the device restarts.
FaultAndRestart ==
    /\ worker = "idle" /\ work_queued /\ ~work_init
    /\ coap_observe_init
    /\ stage' = "buttons" /\ armed' = {} /\ work_init' = FALSE
    /\ work_queued' = FALSE /\ payload' = Nothing
    /\ view' = <<>>
    /\ UNCHANGED <<pins, worker>>

Worker == \/ StartHandler \/ PollDone \/ BuildPayload \/ SendNotifications \/ SettleDone
          \/ FaultAndRestart

\* Mutant: while a round is under way a client is answered and not registered.
AnswerOnly(p, t, v) ==
    /\ stage = "ready" /\ ~WorkerHoldsCpu
    /\ IF worker = "idle" THEN coap_observe_handle(p, t, v)
                          ELSE /\ UNCHANGED <<observers, observer_count>>
                               /\ coap_resp_send_observe(p, t, 0)
    /\ Informs(pins, DOMAIN view)
    /\ UNCHANGED <<setupVars, pins, work_queued, worker, payload>>

\* btn_handler_get in the OpenThread thread: the table, then the response with
\* the levels of now.
btn_handler_get(p, t, v) ==
    /\ stage = "ready" /\ ~WorkerHoldsCpu
    /\ coap_observe_handle(p, t, v)
    /\ Informs(pins, DOMAIN view)
    /\ UNCHANGED <<setupVars, pins, work_queued, worker, payload>>

Setup   == button_init_rsc \/ InitObserve \/ InitWork \/ AddResource
Edge    == \E b \in Buttons : btn_gpio_callback(b)
Request == \E p \in Peers, t \in Tokens, v \in OptionValues \cup {NoObserve} :
              btn_handler_get(p, t, v)

Next == Setup \/ Edge \/ Worker \/ Request

Spec == Init /\ [][Next]_vars

\* The workqueue thread runs whenever it has something to do: its priority is
\* above main's, and OpenThread's cooperative thread yields between events.
FairSpec == Spec /\ WF_vars(Worker)

-----------------------------------------------------------------------------
\* The variables of button.c keep their types, the table included.
TypeOK ==
    /\ TableTypeOK
    /\ stage \in Stages /\ armed \subseteq Buttons /\ work_init \in BOOLEAN
    /\ pins \in Levels /\ work_queued \in BOOLEAN
    /\ worker \in Workers /\ payload \in Levels
    /\ DOMAIN view \subseteq Peers /\ \A p \in DOMAIN view : view[p] \in Levels

\* What observers were last sent, as far as the stack took it, is what the
\* armed buttons read.
Current == \A p \in DOMAIN view : \A b \in armed : view[p][b] = pins[b]

\* When no notification is queued or under way, every observer has been sent
\* the final levels: edges that fall together, fall between the read of the
\* pins and the send, or fall while the handler sleeps are not lost, and
\* neither are registrations that arrive in the middle of a round.
QuietMeansCurrent ==
    stage = "ready" /\ ~work_queued /\ worker \in {"idle", "settle"} => Current

\* Once the pins rest, observers get their final levels and keep them.
SettledMeansCurrent == <>[][UNCHANGED pins]_vars => <>[](stage = "ready" => Current)

\* The interrupt hands the workqueue only an item that k_work_init has set up
\* "for deferred notification from ISR" (button.c:226).
OnlyInitialisedWork == work_queued => work_init
=============================================================================
