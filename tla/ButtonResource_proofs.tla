----------------------- MODULE ButtonResource_proofs -----------------------
(***************************************************************************)
(* Proofs about the button resource, for any number of buttons, clients    *)
(* and slots and any widths of the counters: no edge is lost.              *)
(***************************************************************************)
EXTENDS ButtonResource, CoapObserve_refinement

Flags == work_init \in BOOLEAN /\ work_queued \in BOOLEAN

\* The loop of button_init_rsc sets the buttons up in their order.
Prefix == /\ armed \subseteq Buttons
          /\ \E k \in 0 .. ButtonCount : armed = 0 .. k - 1
          /\ stage = "buttons" => armed # Buttons

ButtonTypes == stage \in Stages /\ pins \in Levels /\ payload \in Levels /\ worker \in Workers

\* Before k_work_init nobody observes and the handler does not run.
Order == /\ work_init <=> stage \in {"add", "ready"}
         /\ ~work_init => DOMAIN view = {} /\ worker = "idle"

Viewed == /\ DOMAIN view \subseteq ObserverPeers
          /\ \A p \in DOMAIN view : view[p] \in Levels

\* What is about to be sent is what the armed buttons read, unless another
\* round is queued behind it; and so is what was sent.
Fresh == /\ worker = "send" /\ ~work_queued => \A b \in armed : payload[b] = pins[b]
         /\ worker \in {"idle", "settle"} /\ ~work_queued => Current

IInv == TableInv /\ Flags /\ Prefix /\ ButtonTypes /\ Order /\ Viewed /\ Fresh

-----------------------------------------------------------------------------
\* A round to all leaves no entry with older content.
LEMMA RoundInforms ==
    ASSUME NEW c, Informs(c, {})
    PROVE  DOMAIN view' \subseteq ObserverPeers' /\ \A p \in DOMAIN view' : view'[p] = c
BY DEF Informs

\* A response adds its content and leaves the other entries as they are.
LEMMA ResponseInforms ==
    ASSUME NEW c, Informs(c, DOMAIN view)
    PROVE  /\ DOMAIN view' \subseteq ObserverPeers'
           /\ \A p \in DOMAIN view' : view'[p] = c \/ (p \in DOMAIN view /\ view'[p] = view[p])
BY DEF Informs

\* A table with the count 0 has no observers.
LEMMA NobodyListens ==
    ASSUME TableInv, observer_count = 0
    PROVE  ObserverPeers = {}
<1>1. Active \in SUBSET Slots /\ Cardinality(Active) = 0
    BY DEF TableInv, CountMatches, Active
<1>2. Active = {}
    BY <1>1, SlotSets, FS_EmptySet
<1> QED BY <1>2 DEF ObserverPeers

LEMMA SameObservers ==
    ASSUME UNCHANGED observers
    PROVE  ObserverPeers' = ObserverPeers
BY DEF ObserverPeers, Active

\* Buttons set up so far, and the next one.
LEMMA NextButton ==
    ASSUME Prefix, stage = "buttons"
    PROVE  /\ Cardinality(armed) \in Buttons
           /\ \E k \in 0 .. ButtonCount : armed \cup {Cardinality(armed)} = 0 .. k - 1
<1>1. PICK k \in 0 .. ButtonCount : armed = 0 .. k - 1
    BY DEF Prefix
<1>2. k # ButtonCount
    BY <1>1 DEF Prefix, Buttons
<1>3. Cardinality(armed) = k
    BY <1>1, FS_Interval, ButtonAssumption
<1>4. armed \cup {k} = 0 .. (k + 1) - 1 /\ k + 1 \in 0 .. ButtonCount
    BY <1>1, <1>2, ButtonAssumption
<1>5. Cardinality(armed) \in Buttons
    BY <1>2, <1>3, ButtonAssumption DEF Buttons
<1>6. armed \cup {Cardinality(armed)} = 0 .. (k + 1) - 1
    BY <1>3, <1>4
<1>7. \E n \in 0 .. ButtonCount : armed \cup {Cardinality(armed)} = 0 .. n - 1
    BY <1>4, <1>6, Zenon
<1> QED BY <1>5, <1>7

-----------------------------------------------------------------------------
\* The observer table: main's set-up empties it, the work handler notifies,
\* requests register and deregister.
LEMMA TablePreserved == IInv /\ [Next]_vars => TableInv'
<1> SUFFICES ASSUME IInv, [Next]_vars PROVE TableInv'
    OBVIOUS
<1>0. TableInv
    BY DEF IInv
<1>1. CASE UNCHANGED tableVars
    BY <1>0, <1>1, StepPreserves
<1>2. CASE coap_observe_init
    BY <1>0, <1>2, EmptiedPreserves
<1>3. CASE Setup
    BY <1>1, <1>2, <1>3 DEF Setup, button_init_rsc, InitObserve, InitWork, AddResource
<1>4. CASE Edge
    BY <1>1, <1>4 DEF Edge, btn_gpio_callback
<1>5. CASE Worker
    <2>1. CASE SendNotifications
        BY <1>0, <2>1, NotifyPreserves DEF SendNotifications, Notify
    <2> QED BY <1>1, <1>2, <1>5, <2>1
            DEF Worker, StartHandler, PollDone, BuildPayload, SettleDone, FaultAndRestart
<1>6. CASE Request
    BY <1>0, <1>6, GetPreserves DEF Request, btn_handler_get
<1> QED BY <1>1, <1>3, <1>4, <1>5, <1>6 DEF Next, vars

\* Types of the variables of button.c.
LEMMA FlagsPreserved == Flags /\ [Next]_vars => Flags'
BY Zenon DEF Flags, Next, vars, setupVars, Setup, button_init_rsc, InitObserve, InitWork,
    AddResource, Edge, btn_gpio_callback, Worker, StartHandler, PollDone, BuildPayload,
    SendNotifications, SettleDone, FaultAndRestart, Request, btn_handler_get

LEMMA TypesPreserved == ButtonTypes /\ [Next]_vars => ButtonTypes'
<1> SUFFICES ASSUME ButtonTypes, [Next]_vars PROVE ButtonTypes'
    OBVIOUS
<1> USE DEF ButtonTypes, setupVars, Stages, Workers
<1>1. CASE Setup
    BY <1>1 DEF Setup, button_init_rsc, InitObserve, InitWork, AddResource
<1>2. ASSUME NEW b \in Buttons, btn_gpio_callback(b) PROVE ButtonTypes'
    BY <1>2 DEF btn_gpio_callback, Levels
<1>3. CASE Worker
    <2>1. Nothing \in Levels
        BY DEF Nothing, Levels
    <2> QED BY <1>3, <2>1 DEF Worker, StartHandler, PollDone, BuildPayload, SendNotifications,
                              SettleDone, FaultAndRestart
<1>4. CASE Request \/ UNCHANGED vars
    BY <1>4 DEF Request, btn_handler_get, vars
<1> QED BY <1>1, <1>2, <1>3, <1>4 DEF Next, Edge

LEMMA PrefixPreserved == IInv /\ [Next]_vars => Prefix'
<1> SUFFICES ASSUME IInv, [Next]_vars PROVE Prefix'
    OBVIOUS
<1>0. Prefix /\ stage \in Stages
    BY DEF IInv, ButtonTypes
<1>1. CASE UNCHANGED <<armed, stage>>
    BY <1>0, <1>1 DEF Prefix
<1>2. CASE button_init_rsc
    <2>1. stage = "buttons"
        BY <1>2 DEF button_init_rsc
    <2>2. armed' \subseteq Buttons /\ \E k \in 0 .. ButtonCount : armed' = 0 .. k - 1
        BY <1>0, <1>2, <2>1, NextButton DEF button_init_rsc, Prefix
    <2>3. stage' = "buttons" => armed' # Buttons
        BY <1>2 DEF button_init_rsc
    <2> QED BY <2>2, <2>3 DEF Prefix
<1>3. CASE InitObserve \/ InitWork \/ AddResource
    BY <1>0, <1>3 DEF InitObserve, InitWork, AddResource, Prefix
<1>4. CASE FaultAndRestart
    <2>1. armed' = {} /\ 0 .. 0 - 1 = {} /\ 0 \in Buttons /\ 0 \in 0 .. ButtonCount
        BY <1>4, ButtonAssumption DEF FaultAndRestart, Buttons
    <2> QED BY <2>1 DEF Prefix
<1> QED BY <1>1, <1>2, <1>3, <1>4
        DEF Next, Setup, Edge, btn_gpio_callback, Worker, StartHandler, PollDone, BuildPayload,
            SendNotifications, SettleDone, Request, btn_handler_get, vars, setupVars

LEMMA OrderPreserved == IInv /\ [Next]_vars => Order'
<1> SUFFICES ASSUME IInv, [Next]_vars PROVE Order'
    OBVIOUS
<1>0. Order /\ stage \in Stages /\ worker \in Workers
    BY DEF IInv, ButtonTypes
<1> USE <1>0 DEF Order, Stages, Workers, setupVars
<1>1. CASE Setup
    BY <1>1 DEF Setup, button_init_rsc, InitObserve, InitWork, AddResource
<1>2. CASE Edge
    BY <1>2 DEF Edge, btn_gpio_callback
<1>3. CASE SendNotifications
    BY <1>3 DEF SendNotifications
<1>4. CASE FaultAndRestart
    <2>1. DOMAIN view' = {}
        BY <1>4 DEF FaultAndRestart
    <2> QED BY <1>4, <2>1 DEF FaultAndRestart
<1>5. CASE StartHandler \/ PollDone \/ BuildPayload \/ SettleDone
    BY <1>5 DEF StartHandler, PollDone, BuildPayload, SettleDone
<1>6. CASE Request
    BY <1>6 DEF Request, btn_handler_get
<1>7. CASE UNCHANGED vars
    BY <1>7 DEF vars
<1> QED BY <1>1, <1>2, <1>3, <1>4, <1>5, <1>6, <1>7 DEF Next, Worker

-----------------------------------------------------------------------------
\* The entries: their holders observe, and their content is a set of levels.
LEMMA ViewPreserved == IInv /\ [Next]_vars => Viewed'
<1> SUFFICES ASSUME IInv, [Next]_vars PROVE Viewed'
    OBVIOUS
<1>0. Viewed /\ Order /\ pins \in Levels /\ payload \in Levels
    BY DEF IInv, ButtonTypes
<1>1. CASE UNCHANGED <<observers, view>>
    BY <1>0, <1>1, SameObservers DEF Viewed
<1>2. CASE InitObserve
    BY <1>0, <1>2 DEF InitObserve, Order, Viewed
<1>3. CASE SendNotifications
    BY <1>0, <1>3, RoundInforms DEF SendNotifications, Viewed
<1>4. CASE FaultAndRestart
    <2>1. DOMAIN view' = {}
        BY <1>4 DEF FaultAndRestart
    <2> QED BY <2>1 DEF Viewed
<1>5. CASE Request
    BY <1>0, <1>5, ResponseInforms DEF Request, btn_handler_get, Viewed
<1> QED BY <1>1, <1>2, <1>3, <1>4, <1>5
        DEF Next, Setup, button_init_rsc, InitWork, AddResource, Edge, btn_gpio_callback, Worker,
            StartHandler, PollDone, BuildPayload, SettleDone, vars, tableVars

\* No edge is lost: one step for each action that touches pins, work item,
\* buffer or entries.
LEMMA FreshPreserved == IInv /\ [Next]_vars => Fresh'
<1> SUFFICES ASSUME IInv, [Next]_vars PROVE Fresh'
    OBVIOUS
<1>0. Fresh /\ Order /\ Viewed /\ stage \in Stages /\ worker \in Workers /\ pins \in Levels
      /\ armed \subseteq Buttons
    BY DEF IInv, ButtonTypes, Prefix
<1>1. CASE UNCHANGED <<worker, work_queued, payload, pins, armed, view>>
    BY <1>0, <1>1 DEF Fresh, Current
<1>2. CASE button_init_rsc \/ InitWork
    <2>1. DOMAIN view' = {} /\ worker' = "idle"
        BY <1>0, <1>2 DEF button_init_rsc, InitWork, Order
    <2> QED BY <2>1 DEF Fresh, Current
<1>3. ASSUME NEW b \in Buttons, btn_gpio_callback(b) PROVE Fresh'
    <2>1. CASE b \in armed
        BY <1>3, <2>1 DEF btn_gpio_callback, Fresh
    <2>2. CASE b \notin armed
        <3>1. \A a \in armed : pins'[a] = pins[a]
            BY <1>0, <1>3, <2>2 DEF btn_gpio_callback, Levels
        <3> QED BY <1>0, <1>3, <2>2, <3>1 DEF btn_gpio_callback, Fresh, Current, setupVars
    <2> QED BY <2>1, <2>2
<1>4. CASE StartHandler \/ PollDone
    BY <1>4 DEF StartHandler, PollDone, Fresh
<1>5. CASE BuildPayload
    <2>1. CASE observer_count = 0
        <3>1. DOMAIN view = {}
            BY <1>0, <2>1, NobodyListens DEF IInv, Viewed
        <3> QED BY <1>5, <2>1, <3>1 DEF BuildPayload, Fresh, Current
    <2>2. CASE observer_count # 0
        BY <1>5, <2>2 DEF BuildPayload, Fresh, setupVars
    <2> QED BY <2>1, <2>2
<1>6. CASE SendNotifications
    <2>1. \A p \in DOMAIN view' : view'[p] = payload
        BY <1>6, RoundInforms DEF SendNotifications
    <2> QED BY <1>0, <1>6, <2>1 DEF SendNotifications, Fresh, Current, setupVars
<1>7. CASE SettleDone
    BY <1>0, <1>7 DEF SettleDone, Fresh, Current, setupVars
<1>8. CASE FaultAndRestart
    <2>1. DOMAIN view' = {} /\ worker' = "idle"
        BY <1>8 DEF FaultAndRestart
    <2> QED BY <2>1 DEF Fresh, Current
<1>9. ASSUME NEW p, NEW t, NEW v, btn_handler_get(p, t, v) PROVE Fresh'
    <2>1. \A q \in DOMAIN view' : view'[q] = pins \/ (q \in DOMAIN view /\ view'[q] = view[q])
        BY <1>9, ResponseInforms DEF btn_handler_get
    <2>2. Current => Current'
        BY <1>9, <2>1 DEF btn_handler_get, Current, setupVars
    <2> QED BY <1>0, <1>9, <2>2 DEF btn_handler_get, Fresh, setupVars
<1>10. CASE InitObserve \/ AddResource \/ UNCHANGED vars
    BY <1>1, <1>10 DEF InitObserve, AddResource, vars, setupVars
<1> QED BY <1>2, <1>3, <1>4, <1>5, <1>6, <1>7, <1>8, <1>9, <1>10
        DEF Next, Setup, Edge, Worker, Request

LEMMA ButtonInit == Init => IInv
<1> SUFFICES ASSUME Init PROVE IInv
    OBVIOUS
<1>1. TableInv
    BY InitEstablishes DEF Init
<1>2. Flags
    BY Zenon DEF Init, Flags
<1>3. Prefix
    <2>1. armed = {} /\ 0 .. 0 - 1 = {} /\ 0 \in Buttons /\ 0 \in 0 .. ButtonCount
        BY ButtonAssumption DEF Init, Buttons
    <2> QED BY <2>1 DEF Prefix
<1>4. ButtonTypes
    BY DEF Init, ButtonTypes, Stages, Workers, Nothing, Levels
<1>5. DOMAIN view = {}
    BY DEF Init
<1> QED BY <1>1, <1>2, <1>3, <1>4, <1>5 DEF Init, IInv, Order, Viewed, Fresh, Current

LEMMA ButtonInvariant == Spec => []IInv
<1>1. IInv /\ [Next]_vars => IInv'
    BY TablePreserved, FlagsPreserved, PrefixPreserved, TypesPreserved, OrderPreserved,
       ViewPreserved, FreshPreserved DEF IInv
<1> QED BY <1>1, ButtonInit, PTL DEF Spec

-----------------------------------------------------------------------------
\* The variables of button.c and its observer table keep their types; the
\* loop of button_init_rsc never sets up a button that does not exist.
THEOREM ButtonTypesHold == Spec => []TypeOK
<1>1. ASSUME IInv PROVE TypeOK
    <2>1. TableTypeOK
        BY <1>1 DEF IInv, TableInv
    <2>2. ObserverPeers \subseteq Peers
        BY <2>1 DEF TableTypeOK, ObserverPeers
    <2> QED BY <1>1, <2>1, <2>2 DEF TypeOK, IInv, Flags, Prefix, ButtonTypes, Viewed
<1> QED BY <1>1, ButtonInvariant, PTL

\* No edge is lost: whenever no notification is queued or under way, what
\* observers were sent is what the buttons of button.c read.
THEOREM NoEdgeIsLost == Spec => []QuietMeansCurrent
<1>1. ASSUME IInv PROVE QuietMeansCurrent
    BY <1>1 DEF IInv, Fresh, QuietMeansCurrent
<1> QED BY <1>1, ButtonInvariant, PTL

-----------------------------------------------------------------------------
\* What button.c does to its table and puts on the air is what Observation
\* allows; the set-up and the restart empty a table.
LEMMA ButtonStepIsPromised == IInv /\ [Next]_vars => [Promise!Next]_(Promise!vars)
<1> SUFFICES ASSUME IInv, [Next]_vars PROVE [Promise!Next]_(Promise!vars)
    OBVIOUS
<1>0. TableInv
    BY DEF IInv
<1>1. CASE UNCHANGED tableVars
    BY <1>1, SameSubs DEF tableVars, Promise!vars
<1>2. CASE coap_observe_init
    BY <1>0, <1>2, EmptiedClears DEF Promise!Next
<1>3. CASE Setup
    BY <1>1, <1>2, <1>3 DEF Setup, button_init_rsc, InitObserve, InitWork, AddResource
<1>4. CASE Edge
    BY <1>1, <1>4 DEF Edge, btn_gpio_callback
<1>5. CASE SendNotifications
    BY <1>0, <1>5, NotifyNotifies DEF SendNotifications, Notify, Promise!Next
<1>6. CASE Worker /\ ~SendNotifications
    BY <1>1, <1>2, <1>6 DEF Worker, StartHandler, PollDone, BuildPayload, SettleDone,
                            FaultAndRestart
<1>7. CASE Request
    BY <1>0, <1>7, HandleIsPromised DEF Request, btn_handler_get
<1> QED BY <1>1, <1>3, <1>4, <1>5, <1>6, <1>7 DEF Next, vars

\* The button resource as a whole keeps the promise of an observable resource,
\* with its work item, its sleeps, its set-up and its restart.
THEOREM ButtonKeepsPromise == Spec => KeepsPromise
<1>1. Init => Promise!Init
    BY InitIsPromised DEF Init
<1> QED BY <1>1, ButtonInvariant, ButtonStepIsPromised, PTL DEF Spec, KeepsPromise, Promise!Spec

\* The fault of an uninitialised work item is a matter of the set-up alone: a
\* device on which coap_btn_reg_rsc has returned never restarts by it, and a
\* work item queued from then on is set up.
THEOREM ReadyStaysReady ==
    Spec => [](stage = "ready" => OnlyInitialisedWork) /\ [][stage = "ready" => stage' = "ready"]_vars
<1>1. IInv => (stage = "ready" => OnlyInitialisedWork)
    BY DEF IInv, Order, OnlyInitialisedWork
<1>2. IInv /\ [Next]_vars => [stage = "ready" => stage' = "ready"]_vars
    <2> SUFFICES ASSUME IInv, [Next]_vars, stage = "ready" PROVE stage' = "ready"
        OBVIOUS
    <2>1. work_init
        BY DEF IInv, Order
    <2> QED BY <2>1 DEF Next, vars, setupVars, Setup, button_init_rsc, InitObserve, InitWork,
                AddResource, Edge, btn_gpio_callback, Worker, StartHandler, PollDone,
                BuildPayload, SendNotifications, SettleDone, FaultAndRestart, Request,
                btn_handler_get
<1> QED BY <1>1, <1>2, ButtonInvariant, PTL DEF Spec
=============================================================================
