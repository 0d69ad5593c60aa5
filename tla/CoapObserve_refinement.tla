----------------------- MODULE CoapObserve_refinement -----------------------
(***************************************************************************)
(* The table of slots implements the promise of an observable resource:    *)
(* every operation of CoapObserve is a step of Observation on the          *)
(* subscriptions that the active slots stand for.                          *)
(***************************************************************************)
EXTENDS CoapObserve_proofs

-----------------------------------------------------------------------------
\* Arithmetic of the two widths.

LEMMA RemainderIsUnique ==
    ASSUME NEW w \in Nat \ {0}, NEW q \in Nat, NEW s \in Nat,
           NEW r \in 0 .. w - 1, NEW x \in 0 .. w - 1, w * q + r = w * s + x
    PROVE  r = x
<1>1. CASE q = s
    BY <1>1
<1>2. CASE q < s
    <2>1. s >= q + 1
        BY <1>2
    <2>2. w * s >= w * (q + 1)
        BY <2>1
    <2>3. w * (q + 1) = w * q + w
        OBVIOUS
    <2> QED BY <2>2, <2>3
<1>3. CASE q > s
    <2>1. q >= s + 1
        BY <1>3
    <2>2. w * q >= w * (s + 1)
        BY <2>1
    <2>3. w * (s + 1) = w * s + w
        OBVIOUS
    <2> QED BY <2>2, <2>3
<1> QED BY <1>1, <1>2, <1>3

LEMMA Division ==
    ASSUME NEW a \in Nat, NEW w \in Nat \ {0}
    PROVE  a \div w \in Nat /\ a % w \in 0 .. w - 1 /\ a = w * (a \div w) + (a % w)
OBVIOUS

LEMMA RemainderOf ==
    ASSUME NEW w \in Nat \ {0}, NEW q \in Nat, NEW r \in 0 .. w - 1
    PROVE  (w * q + r) % w = r
<1>1. w * q \in Nat
    OBVIOUS
<1>2. w * q + r \in Nat
    BY <1>1
<1> QED BY <1>2, Division, RemainderIsUnique

\* The number on the wire advances by one, also where the uint32_t wraps.
LEMMA WireAdvances ==
    ASSUME NEW n \in 0 .. Width32 - 1
    PROVE  OnWire(Bump(n)) = (OnWire(n) + 1) % Width24
<1> DEFINE w == Width24
           q == n \div w
           r == n % w
<1>0. w \in Nat \ {0} /\ Width32 \in Nat \ {0} /\ n \in Nat
    BY WidthAssumption
<1>1. q \in Nat /\ r \in 0 .. w - 1 /\ n = w * q + r
    BY <1>0, Division
<1> HIDE DEF w, q, r
<1>2. (n + 1) % w = (r + 1) % w
    <2>1. CASE r + 1 < w
        <3>1. n + 1 = w * q + (r + 1) /\ r + 1 \in 0 .. w - 1
            BY <1>0, <1>1, <2>1
        <3>2. (n + 1) % w = r + 1
            BY <1>0, <1>1, <3>1, RemainderOf
        <3>3. (w * 0 + (r + 1)) % w = r + 1 /\ w * 0 = 0
            BY <1>0, <3>1, RemainderOf
        <3> QED BY <1>1, <3>2, <3>3
    <2>2. CASE r + 1 = w
        <3>1. n + 1 = w * (q + 1) + 0 /\ q + 1 \in Nat /\ 0 \in 0 .. w - 1
            BY <1>0, <1>1, <2>2
        <3>2. (n + 1) % w = 0
            BY <1>0, <3>1, RemainderOf
        <3>3. (w * 1 + 0) % w = 0 /\ w * 1 + 0 = w
            BY <1>0, <3>1, RemainderOf
        <3> QED BY <2>2, <3>2, <3>3
    <2> QED BY <1>0, <1>1, <2>1, <2>2
<1>3. CASE n + 1 < Width32
    <2>1. (n + 1) % Width32 = n + 1
        <3>1. (Width32 * 0 + (n + 1)) % Width32 = n + 1 /\ Width32 * 0 = 0
            BY <1>0, <1>3, RemainderOf
        <3> QED BY <1>0, <3>1
    <2> QED BY <1>2, <2>1 DEF Bump, OnWire, w, r
<1>4. CASE n + 1 = Width32
    <2>1. (n + 1) % Width32 = 0
        <3>1. (Width32 * 1 + 0) % Width32 = 0 /\ Width32 * 1 + 0 = Width32
            BY <1>0, RemainderOf
        <3> QED BY <1>4, <3>1
    <2>2. 0 % w = 0
        <3>1. (w * 0 + 0) % w = 0 /\ w * 0 + 0 = 0
            BY <1>0, RemainderOf
        <3> QED BY <3>1
    <2>3. (n + 1) % w = 0
        BY <1>4, WidthAssumption DEF w
    <2> QED BY <1>2, <2>1, <2>2, <2>3 DEF Bump, OnWire, w, r
<1> QED BY <1>0, <1>3, <1>4

-----------------------------------------------------------------------------
\* The subscription an active slot stands for.
Seen(i) == [peer |-> observers[i].peer, token |-> observers[i].token,
            seq |-> OnWire(observers[i].seq)]

LEMMA SubsOfActive ==
    /\ Subs = {Seen(i) : i \in Active}
    /\ Subs' = {Seen(i)' : i \in Active'}
BY DEF Subs, Seen

\* Different active slots stand for different subscriptions.
LEMMA SeenIsInjective ==
    ASSUME TableInv, NEW i \in Active, NEW j \in Active, Seen(i).peer = Seen(j).peer
    PROVE  i = j
BY DEF Seen, TableInv, OneSlotPerPeer

LEMMA SubsCount ==
    ASSUME TableInv
    PROVE  Cardinality(Subs) = Cardinality(Active)
<1> DEFINE f == [i \in Active |-> Seen(i)]
<1>1. IsFiniteSet(Active)
    BY SlotSets DEF Active
<1>2. f \in Surjection(Active, Subs)
    BY SubsOfActive DEF Surjection
<1>3. f \in Injection(Active, Subs)
    <2>1. f \in [Active -> Subs]
        BY SubsOfActive
    <2>2. \A i, j \in Active : f[i] = f[j] => i = j
        BY SeenIsInjective
    <2> QED BY <2>1, <2>2 DEF Injection, IsInjective
<1>4. ExistsBijection(Active, Subs)
    BY <1>2, <1>3 DEF ExistsBijection, Bijection
<1> QED BY <1>1, <1>4, FS_Bijection

\* Observation counts with the Cardinality of its own instance.
LEMMA SameCardinality ==
    ASSUME NEW S
    PROVE  Promise!Cardinality(S) = Cardinality(S)
BY DEF Cardinality, Promise!Cardinality

\* The search finds a peer exactly if the peer is subscribed.
LEMMA FoundIsSubscribed ==
    ASSUME TableInv, NEW p \in Peers
    PROVE  /\ find_observer(p) = {} => Promise!Of(p) = {}
           /\ find_observer(p) # {} =>
                /\ First(find_observer(p)) \in Active
                /\ observers[First(find_observer(p))].peer = p
                /\ Promise!Of(p) = {Seen(First(find_observer(p)))}
<1>1. Promise!Of(p) = {s \in Subs : s.peer = p}
    BY DEF Promise!Of
<1>2. \A i \in Active : Seen(i).peer = p <=> i \in find_observer(p)
    BY DEF Seen, find_observer
<1>3. CASE find_observer(p) = {}
    BY <1>1, <1>2, <1>3, SubsOfActive
<1>4. CASE find_observer(p) # {}
    <2> DEFINE i == First(find_observer(p))
    <2>1. i \in find_observer(p)
        <3>1. find_observer(p) \in SUBSET Slots
            BY DEF find_observer, Active
        <3> QED BY <1>4, <3>1, FirstIsLeast
    <2>2. i \in Active /\ observers[i].peer = p
        BY <2>1 DEF find_observer
    <2> HIDE DEF i
    <2>3. \A j \in Active : Seen(j).peer = p => j = i
        BY <1>2, <2>1, <2>2, SeenIsInjective
    <2>4. Promise!Of(p) = {Seen(i)}
        BY <1>1, <1>2, <2>1, <2>2, <2>3, SubsOfActive
    <2> QED BY <1>4, <2>2, <2>4 DEF i
<1> QED BY <1>3, <1>4

LEMMA ResponseIsResponse ==
    ASSUME NEW p \in Peers, NEW t \in Tokens, NEW n, coap_resp_send_observe(p, t, n)
    PROVE  Promise!Respond(p, t, n)
BY DEF coap_resp_send_observe, Promise!Respond

LEMMA UpdateTokenRenews ==
    ASSUME TableInv, NEW p \in Peers, NEW t \in Tokens, UpdateToken(p, t)
    PROVE  Promise!Renew(p, t)
<1> PICK i : i = First(find_observer(p))
    OBVIOUS
<1> PICK s : s = Seen(i)
    OBVIOUS
<1>1. i \in Active /\ i \in Slots /\ Promise!Of(p) = {s}
    BY FoundIsSubscribed DEF UpdateToken, Active
<1>2. observers' = [observers EXCEPT ![i].token = t] /\ coap_resp_send_observe(p, t, OnWire(observers[i].seq))
    BY DEF UpdateToken
<1>3. \A j \in Slots : observers[j] \in Observer
    BY DEF TableInv, TableTypeOK
<1>4. /\ observers'[i] = [observers[i] EXCEPT !.token = t]
      /\ \A j \in Slots \ {i} : observers'[j] = observers[j]
    BY <1>1, <1>2 DEF TableInv, TableTypeOK
<1>5. Active' = Active
    BY <1>1, <1>3, <1>4 DEF Active, Observer
<1>6. Seen(i)' = [s EXCEPT !.token = t]
    BY <1>1, <1>3, <1>4 DEF Seen, Observer
<1>7. \A j \in Active \ {i} : Seen(j)' = Seen(j) /\ Seen(j) # s
    BY <1>1, <1>4, SeenIsInjective DEF Seen, Active
<1>8. Subs' = (Subs \ {s}) \cup {[s EXCEPT !.token = t]}
    <2>1. Subs = {Seen(j) : j \in Active \ {i}} \cup {s}
        BY <1>1, SubsOfActive
    <2>2. Subs' = {Seen(j) : j \in Active \ {i}} \cup {[s EXCEPT !.token = t]}
        BY <1>1, <1>5, <1>6, <1>7, SubsOfActive
    <2>3. s \notin {Seen(j) : j \in Active \ {i}}
        BY <1>7
    <2> QED BY <2>1, <2>2, <2>3
<1>9. Promise!Respond(p, t, s.seq)
    BY <1>2, ResponseIsResponse DEF Seen
<1> QED BY <1>1, <1>8, <1>9 DEF Promise!Renew

LEMMA NewObserverSubscribes ==
    ASSUME TableInv, NEW p \in Peers, NEW t \in Tokens, NewObserver(p, t)
    PROVE  Promise!Subscribe(p, t)
<1> PICK i : i = alloc_observer
    OBVIOUS
<1> DEFINE new == [active |-> TRUE, peer |-> p, token |-> t, seq |-> 0]
<1>1. i \in Slots /\ i \notin Active
    <2>1. Free \in SUBSET Slots /\ Free # {}
        BY DEF Free, NewObserver
    <2>2. i \in Free
        BY <2>1, FirstIsLeast DEF alloc_observer
    <2> QED BY <2>2 DEF Free
<1>2. observers' = [observers EXCEPT ![i] = new]
    BY DEF NewObserver
<1>3. observers'[i] = new /\ \A j \in Slots \ {i} : observers'[j] = observers[j]
    BY <1>1, <1>2 DEF TableInv, TableTypeOK
<1>4. Active' = Active \cup {i}
    BY <1>1, <1>3 DEF Active
<1>5. OnWire(0) = 0
    <2>1. 0 \in 0 .. Width24 - 1 /\ Width24 \in Nat \ {0} /\ Width24 * 0 + 0 = 0
        BY WidthAssumption
    <2> QED BY <2>1, RemainderOf DEF OnWire
<1>6. Seen(i)' = [peer |-> p, token |-> t, seq |-> 0]
    BY <1>3, <1>5 DEF Seen, OnWire
<1>7. \A j \in Active : Seen(j)' = Seen(j)
    BY <1>1, <1>3 DEF Seen, Active
<1>8. Subs' = Subs \cup {[peer |-> p, token |-> t, seq |-> 0]}
    BY <1>4, <1>6, <1>7, SubsOfActive
<1>9. Promise!Cardinality(Subs) < MaxObservers
    <2>1. Active \in SUBSET Slots /\ Active # Slots
        BY <1>1 DEF Active
    <2>2. Cardinality(Active) < MaxObservers
        BY <2>1, SlotSets, TableAssumption
    <2> QED BY <2>2, SubsCount, SameCardinality
<1>10. Promise!Of(p) = {}
    BY FoundIsSubscribed DEF NewObserver
<1>11. Promise!Respond(p, t, 0)
    BY <1>5, ResponseIsResponse DEF NewObserver
<1> QED BY <1>8, <1>9, <1>10, <1>11 DEF Promise!Subscribe

\* Steps that leave the table alone leave the subscriptions alone.
LEMMA SameSubs ==
    ASSUME UNCHANGED observers
    PROVE  Subs' = Subs
BY DEF Subs, Active

LEMMA FullTableRefuses ==
    ASSUME TableInv, NEW p \in Peers, NEW t \in Tokens, TableFull(p, t)
    PROVE  Promise!Refuse(p, t)
<1>1. Active = Slots
    BY DEF TableFull, coap_resp_send, Free, Active
<1>2. Cardinality(Active) = MaxObservers
    BY <1>1, TableAssumption, FS_Interval DEF Slots
<1>3. Promise!Cardinality(Subs) = MaxObservers
    BY <1>2, SubsCount, SameCardinality
<1>4. Promise!Of(p) = {}
    BY FoundIsSubscribed DEF TableFull, coap_resp_send
<1> QED BY <1>3, <1>4, SameSubs, ResponseIsResponse
        DEF TableFull, coap_resp_send, Promise!Refuse, NoObserve, Promise!NoObserve

LEMMA DeregisterUnsubscribes ==
    ASSUME TableInv, NEW p \in Peers, NEW t \in Tokens, deregister_observer(p, t)
    PROVE  Promise!Unsubscribe(p, t)
<1>1. Promise!Respond(p, t, Promise!NoObserve)
    BY ResponseIsResponse DEF deregister_observer, coap_resp_send, NoObserve, Promise!NoObserve
<1>2. CASE find_observer(p) = {}
    <2>1. Promise!Of(p) = {} /\ Subs' = Subs
        BY <1>2, FoundIsSubscribed, SameSubs DEF deregister_observer, coap_resp_send
    <2> QED BY <1>1, <2>1 DEF Promise!Unsubscribe
<1>3. CASE find_observer(p) # {}
    <2> PICK i : i = First(find_observer(p))
        OBVIOUS
    <2>1. i \in Active /\ i \in Slots /\ Promise!Of(p) = {Seen(i)}
        BY <1>3, FoundIsSubscribed DEF Active
    <2>2. observers' = [observers EXCEPT ![i].active = FALSE]
        BY <1>3 DEF deregister_observer, coap_resp_send
    <2>3. ~ observers'[i].active /\ \A j \in Slots \ {i} : observers'[j] = observers[j]
        BY <2>1, <2>2 DEF TableInv, TableTypeOK, Observer
    <2>4. Active' = Active \ {i}
        BY <2>1, <2>3 DEF Active
    <2>5. \A j \in Active \ {i} : Seen(j)' = Seen(j) /\ Seen(j) # Seen(i)
        BY <2>1, <2>3, SeenIsInjective DEF Seen, Active
    <2>6. Subs' = {Seen(j) : j \in Active \ {i}}
        BY <2>4, <2>5, SubsOfActive
    <2>7. Subs' = Subs \ Promise!Of(p)
        BY <2>1, <2>5, <2>6, SubsOfActive
    <2> QED BY <1>1, <2>7 DEF Promise!Unsubscribe
<1> QED BY <1>2, <1>3

LEMMA PlainGetReads ==
    ASSUME NEW p \in Peers, NEW t \in Tokens, PlainGet(p, t)
    PROVE  Promise!Read(p, t)
BY SameSubs, ResponseIsResponse DEF PlainGet, coap_resp_send, Promise!Read, NoObserve, Promise!NoObserve

\* One round of notifications, slot by slot: what a slot stands for afterwards
\* is what it stood for before, advanced unless no message could be allocated.
LEMMA NotifyNotifies ==
    ASSUME TableInv, NEW outcome \in [Active -> Outcomes], coap_observe_notify(outcome)
    PROVE  Promise!Notify
<1> DEFINE With(r) == {i \in Active : outcome[i] = r}
           S(r)    == {Seen(i) : i \in With(r)}
<1>1. \A i \in Active : i \in Slots /\ observers[i] \in Observer /\ outcome[i] \in Outcomes
    BY DEF Active, TableInv, TableTypeOK
<1>2. \A i \in Slots \ Active : observers'[i] = observers[i]
    BY DEF coap_observe_notify
<1>3. \A i \in Active : /\ observers'[i].active = (outcome[i] # "refused")
                        /\ observers'[i].peer = observers[i].peer
                        /\ observers'[i].token = observers[i].token
                        /\ observers'[i].seq = IF outcome[i] = "unallocated" THEN observers[i].seq
                                                                         ELSE Bump(observers[i].seq)
    <2> TAKE i \in Active
    <2>1. observers'[i] = Notified(observers[i], outcome[i]) /\ observers[i] \in Observer
        BY <1>1 DEF coap_observe_notify
    <2> QED BY <2>1 DEF Notified, Observer
<1>4. Active' = Active \ With("refused")
    BY <1>1, <1>2, <1>3 DEF Active
<1>5. \A i \in Active : OnWire(Bump(observers[i].seq)) = (OnWire(observers[i].seq) + 1) % Width24
    BY <1>1, WireAdvances DEF Observer
<1>6. \A i \in Active : outcome[i] \in {"sent", "unfinished"} => Seen(i)' = Promise!Advance(Seen(i))
    <2> TAKE i \in Active
    <2> HAVE outcome[i] \in {"sent", "unfinished"}
    <2>1. Seen(i)' = [peer |-> observers[i].peer, token |-> observers[i].token,
                      seq |-> OnWire(Bump(observers[i].seq))]
        BY <1>3 DEF Seen, OnWire
    <2>2. Promise!Advance(Seen(i)) = [peer |-> observers[i].peer, token |-> observers[i].token,
                                      seq |-> (OnWire(observers[i].seq) + 1) % Width24]
        BY DEF Promise!Advance, Seen
    <2> QED BY <1>5, <2>1, <2>2
<1>7. \A i \in With("unallocated") : Seen(i)' = Seen(i)
    BY <1>3 DEF Seen, OnWire
<1>8. S("sent") \in SUBSET Subs /\ S("refused") \in SUBSET Subs /\ S("unfinished") \in SUBSET Subs
    BY SubsOfActive
<1>9. ASSUME NEW q \in Outcomes, NEW r \in Outcomes, q # r
      PROVE  S(q) \cap S(r) = {}
    BY <1>9, SeenIsInjective
<1>10. Active' = With("sent") \cup With("unfinished") \cup With("unallocated")
    BY <1>1, <1>4 DEF Outcomes
<1>11. Subs' = S("unallocated") \cup {Promise!Advance(s) : s \in S("sent") \cup S("unfinished")}
    BY <1>6, <1>7, <1>10, SubsOfActive
<1>12. Subs = S("sent") \cup S("refused") \cup S("unfinished") \cup S("unallocated")
    BY <1>1, SubsOfActive DEF Outcomes
<1>13. Subs \ (S("sent") \cup S("refused") \cup S("unfinished")) = S("unallocated")
    <2>1. /\ S("unallocated") \cap S("sent") = {}
          /\ S("unallocated") \cap S("refused") = {}
          /\ S("unallocated") \cap S("unfinished") = {}
        BY <1>9 DEF Outcomes
    <2> QED BY <1>12, <2>1
<1>14. sent' = {[to |-> s.peer, token |-> s.token, observe |-> Promise!Advance(s).seq] : s \in S("sent")}
    <2>1. \A i \in Active : Notification(observers[i]) =
             [to |-> Seen(i).peer, token |-> Seen(i).token, observe |-> Promise!Advance(Seen(i)).seq]
        BY <1>5 DEF Notification, Seen, Promise!Advance
    <2> QED BY <2>1 DEF coap_observe_notify
<1>15. /\ S("sent") \cap S("refused") = {}
       /\ S("sent") \cap S("unfinished") = {}
       /\ S("refused") \cap S("unfinished") = {}
    BY <1>9 DEF Outcomes
<1> HIDE DEF S
<1> QED BY <1>8, <1>11, <1>13, <1>14, <1>15 DEF Promise!Notify

LEMMA EmptiedClears ==
    ASSUME TableInv, coap_observe_clear \/ coap_observe_init
    PROVE  Promise!Clear
<1>1. Active' = {}
    BY EmptiedSlots DEF Active
<1>2. Subs' = {} /\ sent' = {}
    BY <1>1, SubsOfActive DEF coap_observe_clear, coap_observe_init
<1> QED BY <1>2 DEF Promise!Clear

\* The steps a resource that embeds the table is made of: a GET with or
\* without an Observe option, a response that leaves the table alone, and a
\* step without any message.
LEMMA HandleIsPromised ==
    ASSUME TableInv, NEW p \in Peers, NEW t \in Tokens, NEW v, coap_observe_handle(p, t, v)
    PROVE  Promise!Next
<1>1. \/ UpdateToken(p, t) \/ NewObserver(p, t) \/ TableFull(p, t)
      \/ deregister_observer(p, t) \/ PlainGet(p, t)
    BY DEF coap_observe_handle, register_observer
<1>2. \/ Promise!Renew(p, t) \/ Promise!Subscribe(p, t) \/ Promise!Refuse(p, t)
      \/ Promise!Unsubscribe(p, t) \/ Promise!Read(p, t)
    BY <1>1, UpdateTokenRenews, NewObserverSubscribes, FullTableRefuses,
       DeregisterUnsubscribes, PlainGetReads
<1> QED BY <1>2 DEF Promise!Next

LEMMA ResponseIsPromised ==
    ASSUME NEW p \in Peers, NEW t \in Tokens, coap_resp_send(p, t),
           UNCHANGED <<observers, observer_count>>
    PROVE  Promise!Next
<1>1. Promise!Read(p, t)
    BY PlainGetReads DEF PlainGet
<1> QED BY <1>1 DEF Promise!Next

\* A round that reaches nobody and costs nobody anything.
LEMMA SilenceIsPromised ==
    ASSUME UNCHANGED observers, sent' = {}
    PROVE  Promise!Next
<1> PICK none : none = {}
    OBVIOUS
<1>1. none \in SUBSET Subs
    OBVIOUS
<1>2. Subs' = (Subs \ (none \cup none \cup none)) \cup {Promise!Advance(s) : s \in none \cup none}
    BY SameSubs
<1>3. sent' = {[to |-> s.peer, token |-> s.token, observe |-> Promise!Advance(s).seq] : s \in none}
    OBVIOUS
<1>4. Promise!Notify
    BY <1>1, <1>2, <1>3 DEF Promise!Notify
<1> QED BY <1>4 DEF Promise!Next

LEMMA StepIsPromised == TableInv /\ [TableNext]_tableVars => [Promise!Next]_(Promise!vars)
<1> SUFFICES ASSUME TableInv, [TableNext]_tableVars PROVE [Promise!Next]_(Promise!vars)
    OBVIOUS
<1>1. CASE Get
    BY <1>1, HandleIsPromised DEF Get
<1>2. CASE Notify
    BY <1>2, NotifyNotifies DEF Notify, Promise!Next
<1>3. CASE coap_observe_clear \/ coap_observe_init
    BY <1>3, EmptiedClears DEF Promise!Next
<1>4. CASE UNCHANGED tableVars
    BY <1>4, SameSubs DEF tableVars, Promise!vars
<1> QED BY <1>1, <1>2, <1>3, <1>4 DEF TableNext

LEMMA InitIsPromised == TableInit => Promise!Init
<1> SUFFICES ASSUME TableInit PROVE Promise!Init
    OBVIOUS
<1>1. Active = {}
    BY DEF TableInit, EmptyTable, Active
<1> QED BY <1>1, SubsOfActive DEF TableInit, Promise!Init

\* coap_observe.c implements the promise of an observable resource, for every
\* table size and number of clients, across the wrap of both counters.
THEOREM TableKeepsPromise == TableSpec => KeepsPromise
<1>1. TableSpec => []TableInv
    BY InitEstablishes, StepPreserves, PTL DEF TableSpec
<1> QED BY <1>1, InitIsPromised, StepIsPromised, PTL DEF TableSpec, KeepsPromise, Promise!Spec

-----------------------------------------------------------------------------
\* What the promise is worth: consequences of Observation alone, which every
\* specification that keeps the promise inherits.
PromiseTypes == Subs \subseteq Promise!Subscription
OnePerPeer   == \A r, s \in Subs : r.peer = s.peer => r = s
PInv         == PromiseTypes /\ OnePerPeer /\ Promise!NumberedReachSubscribers

LEMMA PromiseInit == Promise!Init => PInv
BY DEF Promise!Init, PInv, PromiseTypes, OnePerPeer, Promise!NumberedReachSubscribers

LEMMA AdvanceType ==
    ASSUME NEW s \in Promise!Subscription
    PROVE  /\ Promise!Advance(s) \in Promise!Subscription
           /\ Promise!Advance(s).peer = s.peer /\ Promise!Advance(s).token = s.token
           /\ Promise!Advance(s).seq = (s.seq + 1) % Width24
<1>1. (s.seq + 1) % Width24 \in 0 .. Width24 - 1
    BY WidthAssumption DEF Promise!Subscription, Promise!Numbers
<1> QED BY <1>1 DEF Promise!Advance, Promise!Subscription, Promise!Numbers

\* What a round makes of the subscriptions: each one afterwards was one before,
\* of the same peer, and its number stayed or advanced.
LEMMA NotifiedStem ==
    ASSUME PromiseTypes, Promise!Notify, NEW s \in Subs'
    PROVE  \E r \in Subs : s = r \/ s = Promise!Advance(r)
BY DEF Promise!Notify

LEMMA PromiseNext == PInv /\ [Promise!Next]_(Promise!vars) => PInv'
<1> SUFFICES ASSUME PInv, [Promise!Next]_(Promise!vars) PROVE PInv'
    OBVIOUS
<1>0. PromiseTypes /\ OnePerPeer /\ Promise!NumberedReachSubscribers
    BY DEF PInv
<1> USE <1>0 DEF PInv, PromiseTypes, OnePerPeer, Promise!NumberedReachSubscribers
<1>1. ASSUME NEW p \in Peers, NEW t \in Tokens, Promise!Subscribe(p, t) PROVE PInv'
    <2>1. [peer |-> p, token |-> t, seq |-> 0] \in Promise!Subscription
        BY WidthAssumption DEF Promise!Subscription, Promise!Numbers
    <2>2. \A s \in Subs : s.peer # p
        BY <1>1 DEF Promise!Subscribe, Promise!Of
    <2> QED BY <1>1, <2>1, <2>2 DEF Promise!Subscribe, Promise!Respond
<1>2. ASSUME NEW p \in Peers, NEW t \in Tokens, Promise!Renew(p, t) PROVE PInv'
    <2>1. PICK s \in Promise!Of(p) : /\ Subs' = (Subs \ {s}) \cup {[s EXCEPT !.token = t]}
                                     /\ Promise!Respond(p, t, s.seq)
        BY <1>2 DEF Promise!Renew
    <2>2. s \in Subs /\ s.peer = p /\ s \in Promise!Subscription
        BY DEF Promise!Of
    <2>3. /\ [s EXCEPT !.token = t] = [peer |-> p, token |-> t, seq |-> s.seq]
          /\ [s EXCEPT !.token = t] \in Promise!Subscription
        BY <2>2 DEF Promise!Subscription
    <2> PICK new : new = [peer |-> p, token |-> t, seq |-> s.seq]
        OBVIOUS
    <2>4. Subs' = (Subs \ {s}) \cup {new} /\ new \in Promise!Subscription /\ new.peer = p
        BY <2>1, <2>3
    <2>5. \A r \in Subs \ {s} : r.peer # p
        BY <2>2
    <2>6. PromiseTypes' /\ OnePerPeer'
        BY <2>4, <2>5
    <2>7. sent' \in {{}, {[to |-> p, token |-> t, observe |-> s.seq]}}
        BY <2>1 DEF Promise!Respond
    <2>8. Promise!NumberedReachSubscribers'
        BY <2>4, <2>7
    <2> QED BY <2>6, <2>8
<1>3. ASSUME NEW p \in Peers, NEW t \in Tokens,
             Promise!Refuse(p, t) \/ Promise!Unsubscribe(p, t) \/ Promise!Read(p, t)
      PROVE  PInv'
    <2>1. Subs' \subseteq Subs /\ Promise!Respond(p, t, Promise!NoObserve)
        BY <1>3 DEF Promise!Refuse, Promise!Unsubscribe, Promise!Read
    <2> QED BY <2>1 DEF Promise!Respond
<1>4. CASE Promise!Notify
    <2>1. PromiseTypes' /\ OnePerPeer'
        <3>1. \A s \in Subs' : s \in Promise!Subscription
            BY <1>4, NotifiedStem, AdvanceType
        <3>2. ASSUME NEW r \in Subs', NEW s \in Subs', r.peer = s.peer PROVE r = s
            <4>1. PICK got \in SUBSET Subs, lost \in SUBSET Subs, burnt \in SUBSET Subs :
                     Subs' = (Subs \ (got \cup lost \cup burnt))
                               \cup {Promise!Advance(x) : x \in got \cup burnt}
                BY <1>4 DEF Promise!Notify
            <4>2. PICK u \in Subs : u.peer = r.peer /\ r = IF u \in got \cup burnt
                                                            THEN Promise!Advance(u) ELSE u
                BY <4>1, AdvanceType
            <4>3. PICK v \in Subs : v.peer = s.peer /\ s = IF v \in got \cup burnt
                                                            THEN Promise!Advance(v) ELSE v
                BY <4>1, AdvanceType
            <4> QED BY <3>2, <4>2, <4>3
        <3> QED BY <3>1, <3>2
    <2>2. Promise!NumberedReachSubscribers'
        <3>1. PICK got \in SUBSET Subs, burnt \in SUBSET Subs :
                 /\ {Promise!Advance(x) : x \in got \cup burnt} \subseteq Subs'
                 /\ sent' = {[to |-> x.peer, token |-> x.token, observe |-> Promise!Advance(x).seq] :
                                x \in got}
            BY <1>4 DEF Promise!Notify
        <3>2. ASSUME NEW x \in got
              PROVE  [peer |-> x.peer, token |-> x.token, seq |-> Promise!Advance(x).seq] \in Subs'
            <4>1. Promise!Advance(x) \in Subs' /\ x \in Promise!Subscription
                BY <3>1
            <4>2. Promise!Advance(x) = [peer |-> x.peer, token |-> x.token, seq |-> Promise!Advance(x).seq]
                BY <4>1, AdvanceType DEF Promise!Subscription
            <4> QED BY <4>1, <4>2
        <3> QED BY <3>1, <3>2
    <2> QED BY <2>1, <2>2
<1>5. CASE Promise!Clear
    BY <1>5 DEF Promise!Clear
<1>6. CASE UNCHANGED Promise!vars
    BY <1>6 DEF Promise!vars
<1> QED BY <1>1, <1>2, <1>3, <1>4, <1>5, <1>6 DEF Promise!Next

\* A peer that stays subscribed sees its number stay or advance by one.
LEMMA PromiseAdvances == PInv /\ [Promise!Next]_(Promise!vars) => [Promise!AdvancesByOne]_(Promise!vars)
<1> SUFFICES ASSUME PInv, Promise!Next, NEW r \in Subs, NEW s \in Subs', r.peer = s.peer
             PROVE  s.seq \in {r.seq, (r.seq + 1) % Width24}
    BY DEF Promise!AdvancesByOne
<1>0. PromiseTypes /\ OnePerPeer
    BY DEF PInv
<1>1. ASSUME NEW p \in Peers, NEW t \in Tokens, Promise!Subscribe(p, t) PROVE s.seq = r.seq
    BY <1>0, <1>1 DEF Promise!Subscribe, Promise!Of, OnePerPeer
<1>2. ASSUME NEW p \in Peers, NEW t \in Tokens, Promise!Renew(p, t) PROVE s.seq = r.seq
    <2>1. PICK x \in Promise!Of(p) : Subs' = (Subs \ {x}) \cup {[x EXCEPT !.token = t]}
        BY <1>2 DEF Promise!Renew
    <2>2. x \in Subs /\ x \in Promise!Subscription
        BY <1>0 DEF Promise!Of, PromiseTypes
    <2>3. [x EXCEPT !.token = t].peer = x.peer /\ [x EXCEPT !.token = t].seq = x.seq
        BY <2>2 DEF Promise!Subscription
    <2> QED BY <1>0, <2>1, <2>2, <2>3 DEF OnePerPeer
<1>3. ASSUME NEW p \in Peers, NEW t \in Tokens,
             Promise!Refuse(p, t) \/ Promise!Unsubscribe(p, t) \/ Promise!Read(p, t)
      PROVE  s.seq = r.seq
    BY <1>0, <1>3 DEF Promise!Refuse, Promise!Unsubscribe, Promise!Read, OnePerPeer
<1>4. CASE Promise!Notify
    <2>1. PICK x \in Subs : s = x \/ s = Promise!Advance(x)
        BY <1>0, <1>4, NotifiedStem
    <2>2. x.peer = s.peer /\ s.seq \in {x.seq, (x.seq + 1) % Width24}
        BY <1>0, <2>1, AdvanceType DEF PromiseTypes
    <2> QED BY <1>0, <2>2 DEF OnePerPeer
<1>5. CASE Promise!Clear
    BY <1>5 DEF Promise!Clear
<1> QED BY <1>1, <1>2, <1>3, <1>4, <1>5 DEF Promise!Next

\* The promise means something to a client: a numbered message finds it
\* subscribed, and while it stays subscribed its numbers leave out none.  Every
\* resource that keeps the promise inherits both.
THEOREM PromiseIsWorth ==
    KeepsPromise => []NumberedReachSubscribers /\ [][Promise!AdvancesByOne]_(Promise!vars)
<1>1. PInv => NumberedReachSubscribers
    BY DEF PInv, NumberedReachSubscribers
<1> QED BY <1>1, PromiseInit, PromiseNext, PromiseAdvances, PTL DEF KeepsPromise, Promise!Spec

\* The table of coap_observe.c sends numbers to current observers only, under
\* their latest token.
THEOREM NumbersReachObservers == TableSpec => []NumberedReachSubscribers
BY TableKeepsPromise, PromiseIsWorth, PTL
=============================================================================
