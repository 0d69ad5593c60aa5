------------------------- MODULE CoapObserve_proofs -------------------------
(***************************************************************************)
(* Proofs about the observer table: its types, the cached count, one slot  *)
(* for each peer, for any number of slots, peers and tokens and for any    *)
(* widths of the counters.                                                 *)
(***************************************************************************)
EXTENDS CoapObserve, FiniteSetTheorems, WellFoundedInduction, TLAPS

\* A search that has a hit returns a slot, the lowest one.
LEMMA FirstIsLeast ==
    ASSUME NEW S \in SUBSET Slots, S # {}
    PROVE  First(S) \in S /\ \A j \in S : First(S) <= j
<1>1. S \subseteq Nat
    BY TableAssumption DEF Slots
<1>2. PICK x \in S : \A y \in S : ~ (<<y, x>> \in OpToRel(<, Nat))
    BY <1>1, NatLessThanWellFounded, WFMin, Zenon
<1>3. \A y \in S : ~ (y < x)
    BY <1>1, <1>2 DEF OpToRel
<1>4. \A y \in S : x <= y
    BY <1>1, <1>3
<1> QED BY <1>4 DEF First

\* A table has finitely many slots, so its sets of slots have cardinalities.
LEMMA SlotSets ==
    ASSUME NEW S \in SUBSET Slots
    PROVE  /\ IsFiniteSet(S)
           /\ Cardinality(S) \in 0 .. MaxObservers
           /\ Cardinality(S) = MaxObservers => S = Slots
<1>1. IsFiniteSet(Slots) /\ Cardinality(Slots) = MaxObservers
    BY TableAssumption, FS_Interval DEF Slots
<1>2. IsFiniteSet(S) /\ Cardinality(S) <= Cardinality(Slots)
      /\ (Cardinality(Slots) = Cardinality(S) => S = Slots)
    BY <1>1, FS_Subset
<1>3. Cardinality(S) \in Nat
    BY <1>2, FS_CardinalityType
<1> QED BY <1>1, <1>2, <1>3, TableAssumption

\* The numbers a slot shows and takes stay inside their widths.
LEMMA NumbersInRange ==
    ASSUME NEW n \in 0 .. Width32 - 1
    PROVE  /\ Bump(n) \in 0 .. Width32 - 1
           /\ OnWire(n) \in 0 .. Width24 - 1
BY WidthAssumption DEF Bump, OnWire

-----------------------------------------------------------------------------
\* The inductive invariant: the count is the number of active slots, which
\* bounds it, and a new slot is taken only when no slot has the peer yet.
TableInv == TableTypeOK /\ CountMatches /\ OneSlotPerPeer

LEMMA InitEstablishes == TableInit => TableInv
<1> SUFFICES ASSUME TableInit PROVE TableInv
    OBVIOUS
<1>1. Active = {}
    BY DEF TableInit, EmptyTable, Active
<1>2. Cardinality(Active) = 0
    BY <1>1, FS_EmptySet
<1>3. observers \in [Slots -> Observer]
    BY WidthAssumption DEF TableInit, EmptyTable, Observer
<1> QED
    BY <1>1, <1>2, <1>3, TableAssumption
    DEF TableInv, TableTypeOK, CountMatches, OneSlotPerPeer, TableInit

\* A response is a message with a known peer, token and number.
LEMMA ResponseType ==
    ASSUME NEW p \in Peers, NEW t \in Tokens, NEW n \in (0 .. Width24 - 1) \cup {NoObserve},
           coap_resp_send_observe(p, t, n)
    PROVE  sent' \subseteq Message
BY DEF coap_resp_send_observe, Message

LEMMA UpdateTokenPreserves ==
    ASSUME TableInv, NEW p \in Peers, NEW t \in Tokens, UpdateToken(p, t)
    PROVE  TableInv'
<1> DEFINE i == First(find_observer(p))
<1>1. i \in Active /\ i \in Slots
    <2>1. find_observer(p) \in SUBSET Slots /\ find_observer(p) \subseteq Active
        BY DEF find_observer, Active
    <2> QED BY <2>1, FirstIsLeast DEF UpdateToken, Active
<1>2. observers' = [observers EXCEPT ![i].token = t]
    BY DEF UpdateToken
<1>3. observers' \in [Slots -> Observer]
    BY <1>1, <1>2 DEF TableInv, TableTypeOK, Observer
<1>4. \A j \in Slots : observers'[j].active = observers[j].active
                       /\ observers'[j].peer = observers[j].peer
                       /\ observers'[j].token \in {t, observers[j].token}
    BY <1>1, <1>2 DEF TableInv, TableTypeOK, Observer
<1>5. Active' = Active
    BY <1>4 DEF Active
<1>6. sent' \subseteq Message
    <2>1. OnWire(observers[i].seq) \in 0 .. Width24 - 1
        BY <1>1, NumbersInRange DEF TableInv, TableTypeOK, Observer
    <2> QED BY <2>1, ResponseType DEF UpdateToken
<1>7. observer_count' = observer_count
    BY DEF UpdateToken
<1>8. TableTypeOK'
    BY <1>3, <1>4, <1>5, <1>6, <1>7 DEF TableInv, TableTypeOK, Active
<1>9. CountMatches'
    BY <1>5, <1>7 DEF TableInv, CountMatches
<1>10. OneSlotPerPeer'
    BY <1>4, <1>5 DEF TableInv, OneSlotPerPeer, Active
<1> QED BY <1>8, <1>9, <1>10 DEF TableInv

LEMMA NewObserverPreserves ==
    ASSUME TableInv, NEW p \in Peers, NEW t \in Tokens, NewObserver(p, t)
    PROVE  TableInv'
<1> DEFINE i == alloc_observer
           new == [active |-> TRUE, peer |-> p, token |-> t, seq |-> 0]
<1>1. i \in Slots /\ i \notin Active
    <2>1. Free \in SUBSET Slots /\ Free # {}
        BY DEF Free, NewObserver
    <2>2. i \in Free
        BY <2>1, FirstIsLeast DEF alloc_observer
    <2> QED BY <2>2 DEF Free
<1>2. observers' = [observers EXCEPT ![i] = new] /\ observer_count' = observer_count + 1
    BY DEF NewObserver
<1>3. new \in Observer
    BY WidthAssumption DEF Observer
<1> HIDE DEF i
<1>4. observers' \in [Slots -> Observer]
    BY <1>1, <1>2, <1>3 DEF TableInv, TableTypeOK
<1>5. observers'[i] = new /\ \A j \in Slots \ {i} : observers'[j] = observers[j]
    BY <1>1, <1>2 DEF TableInv, TableTypeOK
<1>6. Active' = Active \cup {i}
    BY <1>1, <1>5 DEF Active
<1>7. Cardinality(Active') = Cardinality(Active) + 1 /\ Cardinality(Active') \in 0 .. MaxObservers
    <2>1. IsFiniteSet(Active)
        BY SlotSets DEF Active
    <2>2. Cardinality(Active \cup {i}) = Cardinality(Active) + 1
        BY <1>1, <2>1, FS_AddElement
    <2>3. Active' \in SUBSET Slots
        BY DEF Active
    <2>4. Cardinality(Active') \in 0 .. MaxObservers
        BY <2>3, SlotSets
    <2> QED BY <1>6, <2>2, <2>4
<1>8. CountMatches' /\ observer_count' \in 0 .. MaxObservers
    BY <1>2, <1>7 DEF TableInv, CountMatches
<1>9. sent' \subseteq Message
    <2>1. OnWire(0) \in 0 .. Width24 - 1
        BY NumbersInRange, WidthAssumption
    <2> QED BY <2>1, ResponseType DEF NewObserver
<1>10. \A j \in Active' : observers'[j].peer \in Peers /\ observers'[j].token \in Tokens
    <2>1. \A j \in Active : j \in Slots \ {i}
        BY <1>1 DEF Active
    <2> QED BY <1>5, <1>6, <2>1 DEF TableInv, TableTypeOK
<1>11. OneSlotPerPeer'
    <2>1. \A j \in Active : observers'[j].peer = observers[j].peer /\ observers[j].peer # p
        BY <1>1, <1>5 DEF NewObserver, find_observer, Active
    <2> QED BY <1>5, <1>6, <2>1 DEF TableInv, OneSlotPerPeer
<1> QED BY <1>4, <1>8, <1>9, <1>10, <1>11 DEF TableInv, TableTypeOK

\* Steps that leave the table alone: a full table, a plain GET.
LEMMA SameTablePreserves ==
    ASSUME TableInv, UNCHANGED <<observers, observer_count>>, sent' \subseteq Message
    PROVE  TableInv'
<1>1. Active' = Active
    BY DEF Active
<1> QED BY <1>1 DEF TableInv, TableTypeOK, CountMatches, OneSlotPerPeer

LEMMA DeregisterPreserves ==
    ASSUME TableInv, NEW p \in Peers, NEW t \in Tokens, deregister_observer(p, t)
    PROVE  TableInv'
<1> DEFINE i == First(find_observer(p))
<1>1. sent' \subseteq Message
    BY ResponseType DEF deregister_observer, coap_resp_send
<1>2. CASE find_observer(p) = {}
    BY <1>1, <1>2, SameTablePreserves DEF deregister_observer, coap_resp_send
<1>3. CASE find_observer(p) # {}
    <2>1. i \in Active /\ i \in Slots
        <3>1. find_observer(p) \in SUBSET Slots /\ find_observer(p) \subseteq Active
            BY DEF find_observer, Active
        <3> QED BY <1>3, <3>1, FirstIsLeast DEF Active
    <2>2. observers' = [observers EXCEPT ![i].active = FALSE] /\ observer_count' = observer_count - 1
        BY <1>3 DEF deregister_observer, coap_resp_send
    <2> HIDE DEF i
    <2>3. observers' \in [Slots -> Observer]
        BY <2>1, <2>2 DEF TableInv, TableTypeOK, Observer
    <2>4. ~ observers'[i].active /\ \A j \in Slots \ {i} : observers'[j] = observers[j]
        BY <2>1, <2>2 DEF TableInv, TableTypeOK, Observer
    <2>5. Active' = Active \ {i}
        BY <2>1, <2>4 DEF Active
    <2>6. Cardinality(Active') = Cardinality(Active) - 1 /\ Cardinality(Active') \in 0 .. MaxObservers
        <3>1. IsFiniteSet(Active)
            BY SlotSets DEF Active
        <3>2. Cardinality(Active \ {i}) = Cardinality(Active) - 1
            BY <2>1, <3>1, FS_RemoveElement
        <3>3. Active' \in SUBSET Slots
            BY DEF Active
        <3>4. Cardinality(Active') \in 0 .. MaxObservers
            BY <3>3, SlotSets
        <3> QED BY <2>5, <3>2, <3>4
    <2>7. CountMatches' /\ observer_count' \in 0 .. MaxObservers
        BY <2>2, <2>6 DEF TableInv, CountMatches
    <2>8. \A j \in Active' : j \in Active /\ observers'[j] = observers[j]
        BY <2>4, <2>5 DEF Active
    <2> QED BY <1>1, <2>3, <2>7, <2>8 DEF TableInv, TableTypeOK, OneSlotPerPeer
<1> QED BY <1>2, <1>3

LEMMA NotifyPreserves ==
    ASSUME TableInv, NEW outcome \in [Active -> Outcomes], coap_observe_notify(outcome)
    PROVE  TableInv'
<1> DEFINE Refused == {i \in Active : outcome[i] = "refused"}
<1>1. \A i \in Slots : observers'[i] = IF i \in Active THEN Notified(observers[i], outcome[i])
                                                       ELSE observers[i]
    BY DEF coap_observe_notify
<1>2. \A i \in Active : i \in Slots
    BY DEF Active
<1>3. \A i \in Slots : observers[i] \in Observer
    BY DEF TableInv, TableTypeOK
<1>4. \A i \in Active : /\ observers'[i].active = (outcome[i] # "refused")
                        /\ observers'[i].peer = observers[i].peer
                        /\ observers'[i].token = observers[i].token
                        /\ observers'[i] \in Observer
    <2> TAKE i \in Active
    <2>1. observers'[i] = Notified(observers[i], outcome[i]) /\ observers[i] \in Observer
        BY <1>1, <1>2, <1>3
    <2>2. Bump(observers[i].seq) \in 0 .. Width32 - 1
        BY <2>1, NumbersInRange DEF Observer
    <2> QED BY <2>1, <2>2 DEF Notified, Observer
<1>5. observers' \in [Slots -> Observer]
    BY <1>1, <1>3, <1>4 DEF coap_observe_notify
<1>6. Active' = Active \ Refused
    BY <1>1, <1>2, <1>4 DEF Active
<1>7. CountMatches' /\ observer_count' \in 0 .. MaxObservers
    <2>1. IsFiniteSet(Active) /\ Refused \subseteq Active /\ Active \in SUBSET Slots
        BY SlotSets DEF Active
    <2>2. Cardinality(Active \ Refused) = Cardinality(Active) - Cardinality(Refused)
        <3>1. Active \cap Refused = Refused
            BY <2>1
        <3> QED BY <2>1, <3>1, FS_Difference
    <2>3. observer_count' = Cardinality(Active) - Cardinality(Refused)
        BY DEF coap_observe_notify, TableInv, CountMatches
    <2>4. Active' \in SUBSET Slots
        BY <1>6, <2>1
    <2>5. Cardinality(Active') \in 0 .. MaxObservers
        BY <2>4, SlotSets
    <2> QED BY <1>6, <2>2, <2>3, <2>5 DEF CountMatches
<1>8. sent' \subseteq Message
    <2>1. \A i \in Active : Notification(observers[i]) \in Message
        <3> TAKE i \in Active
        <3>1. observers[i] \in Observer /\ observers[i].peer \in Peers /\ observers[i].token \in Tokens
            BY <1>2, <1>3 DEF TableInv, TableTypeOK
        <3>2. OnWire(Bump(observers[i].seq)) \in 0 .. Width24 - 1
            BY <3>1, NumbersInRange DEF Observer
        <3> QED BY <3>1, <3>2 DEF Notification, Message
    <2> QED BY <2>1 DEF coap_observe_notify
<1>9. \A i \in Active' : observers'[i].peer \in Peers /\ observers'[i].token \in Tokens
    BY <1>4, <1>6 DEF TableInv, TableTypeOK
<1>10. OneSlotPerPeer'
    BY <1>4, <1>6 DEF TableInv, OneSlotPerPeer
<1> QED BY <1>5, <1>7, <1>8, <1>9, <1>10 DEF TableInv, TableTypeOK

LEMMA EmptiedSlots ==
    ASSUME TableInv, coap_observe_clear \/ coap_observe_init
    PROVE  observers' \in [Slots -> Observer] /\ \A i \in Slots : ~ observers'[i].active
<1>1. CASE coap_observe_init
    BY <1>1, WidthAssumption DEF coap_observe_init, EmptyTable, Observer
<1>2. CASE coap_observe_clear
    <2>1. \A i \in Slots : observers[i] \in Observer
        BY DEF TableInv, TableTypeOK
    <2>2. \A i \in Slots : [observers[i] EXCEPT !.active = FALSE] \in Observer
                           /\ ~ [observers[i] EXCEPT !.active = FALSE].active
        BY <2>1 DEF Observer
    <2> QED BY <1>2, <2>2 DEF coap_observe_clear
<1> QED BY <1>1, <1>2

LEMMA EmptiedPreserves ==
    ASSUME TableInv, coap_observe_clear \/ coap_observe_init
    PROVE  TableInv'
<1>1. observers' \in [Slots -> Observer]
    BY EmptiedSlots
<1>2. Active' = {}
    BY EmptiedSlots DEF Active
<1>3. Cardinality(Active') = 0 /\ observer_count' = 0 /\ sent' = {}
    BY <1>2, FS_EmptySet DEF coap_observe_clear, coap_observe_init
<1> QED BY <1>1, <1>2, <1>3, TableAssumption DEF TableInv, TableTypeOK, CountMatches, OneSlotPerPeer

LEMMA GetPreserves ==
    ASSUME TableInv, NEW p \in Peers, NEW t \in Tokens,
           NEW v \in OptionValues \cup {NoObserve}, coap_observe_handle(p, t, v)
    PROVE  TableInv'
<1>1. CASE UpdateToken(p, t)
    BY <1>1, UpdateTokenPreserves
<1>2. CASE NewObserver(p, t)
    BY <1>2, NewObserverPreserves
<1>3. CASE TableFull(p, t) \/ PlainGet(p, t)
    <2>1. sent' \subseteq Message
        BY <1>3, ResponseType DEF TableFull, PlainGet, coap_resp_send
    <2> QED BY <1>3, <2>1, SameTablePreserves DEF TableFull, PlainGet, coap_resp_send
<1>4. CASE deregister_observer(p, t)
    BY <1>4, DeregisterPreserves
<1> QED BY <1>1, <1>2, <1>3, <1>4 DEF coap_observe_handle, register_observer

LEMMA StepPreserves == TableInv /\ [TableNext]_tableVars => TableInv'
<1> SUFFICES ASSUME TableInv, [TableNext]_tableVars PROVE TableInv'
    OBVIOUS
<1>1. CASE Get
    BY <1>1, GetPreserves DEF Get
<1>2. CASE Notify
    BY <1>2, NotifyPreserves DEF Notify
<1>3. CASE coap_observe_clear \/ coap_observe_init
    BY <1>3, EmptiedPreserves
<1>4. CASE UNCHANGED tableVars
    <2>1. sent' \subseteq Message
        BY <1>4 DEF tableVars, TableInv, TableTypeOK
    <2> QED BY <1>4, <2>1, SameTablePreserves DEF tableVars
<1> QED BY <1>1, <1>2, <1>3, <1>4 DEF TableNext

LEMMA TableInvariant == TableSpec => []TableInv
BY InitEstablishes, StepPreserves, PTL DEF TableSpec

\* The observer table keeps its types, its count is the number of active slots
\* and no peer has two slots, in every behaviour of coap_observe.c.
THEOREM TableIsSound == TableSpec => [](TableTypeOK /\ CountMatches /\ OneSlotPerPeer)
<1>1. TableInv => TableTypeOK /\ CountMatches /\ OneSlotPerPeer
    BY DEF TableInv
<1> QED BY <1>1, TableInvariant, PTL

\* Slots, count and messages of coap_observe.c stay inside their C types, the
\* numbers inside uint32_t and the 24 bits of the wire.
THEOREM TableTypesHold == TableSpec => []TableTypeOK
BY TableIsSound, PTL

\* The count that notifiers test before they build a payload is the number of
\* active slots.
THEOREM CountIsExact == TableSpec => []CountMatches
BY TableIsSound, PTL

\* However a client registers again, coap_observe.c never gives it two slots.
THEOREM PeersAreUnique == TableSpec => []OneSlotPerPeer
BY TableIsSound, PTL
=============================================================================
