---------------------------- MODULE CoapObserve ----------------------------
(***************************************************************************)
(* The observer table of one resource, coap_observe.c.  All callers run in *)
(* cooperative threads and the operations never block, so each operation   *)
(* is one step.  last_notify is written and never read: left out.          *)
(***************************************************************************)
EXTENDS Integers, FiniteSets

CONSTANTS Peers,         \* address and port of a client
          Tokens,        \* tokens of client requests
          NoPeer,        \* the zeroed peer_info of a slot never used
          NoToken,       \* its zeroed token
          MaxObservers,  \* COAP_MAX_OBSERVERS
          Width32,       \* 2^32, the range of the uint32_t counters
          Width24,       \* 2^24, the range of an Observe option
          OptionValues   \* values clients put in an Observe option

ASSUME TableAssumption == MaxObservers \in Nat \ {0}
ASSUME WidthAssumption == /\ Width24 \in Nat \ {0} /\ Width32 \in Nat \ {0}
                          /\ Width32 % Width24 = 0
ASSUME FreshAssumption == NoPeer \notin Peers /\ NoToken \notin Tokens
ASSUME OptionAssumption == OptionValues \subseteq Nat

VARIABLES observers,       \* the table
          observer_count,  \* the cached number of active slots
          sent             \* messages the latest operation handed to the stack

tableVars == <<observers, observer_count, sent>>

Slots     == 0 .. MaxObservers - 1
NoObserve == -1           \* no Observe option, or one that cannot be read
OnWire(n) == n % Width24  \* otCoapMessageAppendObserveOption keeps 24 bits

Observer == [active : BOOLEAN, peer : Peers \cup {NoPeer},
             token : Tokens \cup {NoToken}, seq : 0 .. Width32 - 1]
Message  == [to : Peers, token : Tokens,
             observe : (0 .. Width24 - 1) \cup {NoObserve}]

EmptyTable == [i \in Slots |-> [active |-> FALSE, peer |-> NoPeer,
                                token |-> NoToken, seq |-> 0]]

Active == {i \in Slots : observers[i].active}
Free   == Slots \ Active

\* Both searches walk the table upwards and return the first hit.
First(S) == CHOOSE i \in S : \A j \in S : i <= j
\* Mutant: the search stops after observer_count slots.
FindAmongCounted(p) == {i \in Active : i < observer_count /\ observers[i].peer = p}

find_observer(p) == {i \in Active : observers[i].peer = p}

alloc_observer == First(Free)

\* The response to a GET: one message, or none when a call of the stack fails.
coap_resp_send_observe(p, t, n) ==
    sent' \in {{}, {[to |-> p, token |-> t, observe |-> n]}}

coap_resp_send(p, t) == coap_resp_send_observe(p, t, NoObserve)

-----------------------------------------------------------------------------
\* register_observer, one definition for each of its three outcomes.  The
\* response carries the Observe number of the slot.
UpdateToken(p, t) ==
    /\ find_observer(p) # {}
    /\ LET i == First(find_observer(p)) IN
          /\ observers' = [observers EXCEPT ![i].token = t]
          /\ coap_resp_send_observe(p, t, OnWire(observers[i].seq))
    /\ UNCHANGED observer_count

\* Mutant: a reused slot keeps its number.
NewObserverOldNumber(p, t) ==
    /\ find_observer(p) = {} /\ Free # {}
    /\ LET n == observers[alloc_observer].seq IN
          /\ observers' = [observers EXCEPT ![alloc_observer] =
                              [active |-> TRUE, peer |-> p, token |-> t, seq |-> n]]
          /\ coap_resp_send_observe(p, t, OnWire(n))
    /\ observer_count' = observer_count + 1

NewObserver(p, t) ==
    /\ find_observer(p) = {}
    /\ Free # {}
    /\ observers' = [observers EXCEPT ![alloc_observer] =
                        [active |-> TRUE, peer |-> p, token |-> t, seq |-> 0]]
    /\ observer_count' = observer_count + 1
    /\ coap_resp_send_observe(p, t, OnWire(0))

TableFull(p, t) ==
    /\ find_observer(p) = {}
    /\ Free = {}
    /\ UNCHANGED <<observers, observer_count>>
    /\ coap_resp_send(p, t)

register_observer(p, t) ==
    \/ UpdateToken(p, t)
    \/ NewObserver(p, t)
    \/ TableFull(p, t)

\* Mutant: the search for the slot to free does not compare the peer.
DeregisterFirst(p, t) ==
    /\ IF Active # {}
         THEN /\ observers' = [observers EXCEPT ![First(Active)].active = FALSE]
              /\ observer_count' = observer_count - 1
         ELSE UNCHANGED <<observers, observer_count>>
    /\ coap_resp_send(p, t)

deregister_observer(p, t) ==
    /\ IF find_observer(p) # {}
         THEN /\ observers' = [observers EXCEPT ![First(find_observer(p))].active = FALSE]
              /\ observer_count' = observer_count - 1
         ELSE UNCHANGED <<observers, observer_count>>
    /\ coap_resp_send(p, t)

PlainGet(p, t) ==
    /\ UNCHANGED <<observers, observer_count>>
    /\ coap_resp_send(p, t)

\* A GET that carries option v: coap_observe_handle, then the response the
\* resource's handler sends.  The 64-bit option value is cut to uint32_t.
coap_observe_handle(p, t, v) ==
    \/ v # NoObserve /\ v % Width32 = 0 /\ register_observer(p, t)
    \/ v # NoObserve /\ v % Width32 = 1 /\ deregister_observer(p, t)
    \/ (v = NoObserve \/ v % Width32 > 1) /\ PlainGet(p, t)

-----------------------------------------------------------------------------
\* What becomes of one notification: the message cannot be allocated or take
\* the token; it cannot be completed after observe_seq++; it is sent; the
\* stack refuses to send it.
Outcomes == {"unallocated", "unfinished", "sent", "refused"}

\* Mutant: the counter is wider than uint32_t.
BumpWide(n) == n + 1

Bump(n) == (n + 1) % Width32

Notified(o, r) == [o EXCEPT !.seq    = IF r = "unallocated" THEN @ ELSE Bump(@),
                            !.active = r # "refused"]

\* Mutant: the option is appended before observe_seq++.
NumberBefore(o) == [to |-> o.peer, token |-> o.token, observe |-> OnWire(o.seq)]

Notification(o) == [to |-> o.peer, token |-> o.token, observe |-> OnWire(Bump(o.seq))]

\* Mutant: a refused observer is dropped and still counted.
NotifyKeepingCount(outcome) ==
    /\ observers' = [i \in Slots |-> IF i \in Active THEN Notified(observers[i], outcome[i])
                                                     ELSE observers[i]]
    /\ sent' = {Notification(observers[i]) : i \in {j \in Active : outcome[j] = "sent"}}
    /\ UNCHANGED observer_count

coap_observe_notify(outcome) ==
    /\ observers' = [i \in Slots |-> IF i \in Active THEN Notified(observers[i], outcome[i])
                                                     ELSE observers[i]]
    /\ observer_count' = observer_count - Cardinality({i \in Active : outcome[i] = "refused"})
    /\ sent' = {Notification(observers[i]) : i \in {j \in Active : outcome[j] = "sent"}}

coap_observe_init == observers' = EmptyTable /\ observer_count' = 0 /\ sent' = {}

coap_observe_clear ==
    /\ observers' = [i \in Slots |-> [observers[i] EXCEPT !.active = FALSE]]
    /\ observer_count' = 0
    /\ sent' = {}

-----------------------------------------------------------------------------
TableInit == observers = EmptyTable /\ observer_count = 0 /\ sent = {}

Get    == \E p \in Peers, t \in Tokens, v \in OptionValues \cup {NoObserve} :
             coap_observe_handle(p, t, v)
Notify == \E outcome \in [Active -> Outcomes] : coap_observe_notify(outcome)

TableNext == Get \/ Notify \/ coap_observe_clear \/ coap_observe_init

TableSpec == TableInit /\ [][TableNext]_tableVars

-----------------------------------------------------------------------------
\* Every slot, the count and the messages have the values their C types and
\* the protocol allow; observe_seq stays inside uint32_t.
TableTypeOK ==
    /\ observers \in [Slots -> Observer]
    /\ \A i \in Active : observers[i].peer \in Peers /\ observers[i].token \in Tokens
    /\ observer_count \in 0 .. MaxObservers
    /\ sent \subseteq Message

\* observer_count, which the notifiers test before they build a payload, is
\* the number of active slots however registrations, refused sends and
\* deregistrations follow one another.
CountMatches == observer_count = Cardinality(Active)

\* A peer (address and port) never occupies two slots: a second registration
\* updates the first one, so no client is notified twice or left behind by a
\* deregistration.
OneSlotPerPeer ==
    \A i, j \in Active : observers[i].peer = observers[j].peer => i = j

\* The table implements the promise of an observable resource.  A slot is
\* seen as a subscription with the number a client reads from the wire.
Subs == {[peer |-> observers[i].peer, token |-> observers[i].token,
          seq |-> OnWire(observers[i].seq)] : i \in Active}

Promise == INSTANCE Observation WITH subs <- Subs, Capacity <- MaxObservers,
                                     Modulus <- Width24

\* Each operation of coap_observe.c is a step of Observation: subscribers
\* only, their own token, a number that advances by one across the uint32_t
\* wrap, refusal only when the table is full of other peers.
KeepsPromise == Promise!Spec

\* What follows for a client: a response or notification with an Observe
\* number finds it in the table, under that token and at that number; nobody
\* who was dropped, replaced or refused is sent one.
NumberedReachSubscribers == Promise!NumberedReachSubscribers
=============================================================================
