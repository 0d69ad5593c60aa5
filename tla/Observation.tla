---------------------------- MODULE Observation ----------------------------
(***************************************************************************)
(* What an observable CoAP resource promises the peers that read it: a     *)
(* bounded set of subscriptions, at most one for each peer, and            *)
(* notifications that go to subscribers only, under the token of the       *)
(* subscription and with an Observe number that advances by one.  Slots,   *)
(* counters and C integers do not appear; CoapObserve implements this.     *)
(***************************************************************************)
EXTENDS Integers, FiniteSets

CONSTANTS Peers,        \* address and port of a client
          Tokens,       \* tokens of client requests
          Capacity,     \* the number of subscriptions a resource takes
          Modulus       \* Observe numbers live in 0 .. Modulus - 1

VARIABLES subs,         \* the subscriptions
          sent          \* what the latest operation put on the air

vars == <<subs, sent>>

NoObserve == -1         \* a message without an Observe option

Numbers      == 0 .. Modulus - 1
Subscription == [peer : Peers, token : Tokens, seq : Numbers]
Message      == [to : Peers, token : Tokens, observe : Numbers \cup {NoObserve}]

Of(p) == {s \in subs : s.peer = p}

\* A response is one message, or none when the stack has no room for it.
Respond(p, t, n) == sent' \in {{}, {[to |-> p, token |-> t, observe |-> n]}}

Init == subs = {} /\ sent = {}

Subscribe(p, t) ==
    /\ Of(p) = {}
    /\ Cardinality(subs) < Capacity
    /\ subs' = subs \cup {[peer |-> p, token |-> t, seq |-> 0]}
    /\ Respond(p, t, 0)

Renew(p, t) ==
    \E s \in Of(p) :
        /\ subs' = (subs \ {s}) \cup {[s EXCEPT !.token = t]}
        /\ Respond(p, t, s.seq)

Refuse(p, t) ==
    /\ Of(p) = {}
    /\ Cardinality(subs) = Capacity
    /\ UNCHANGED subs
    /\ Respond(p, t, NoObserve)

Unsubscribe(p, t) ==
    /\ subs' = subs \ Of(p)
    /\ Respond(p, t, NoObserve)

Read(p, t) ==
    /\ UNCHANGED subs
    /\ Respond(p, t, NoObserve)

Advance(s) == [s EXCEPT !.seq = (@ + 1) % Modulus]

\* Of the subscriptions some get the message, some lose their place because
\* the stack refused it, some burn a number without a message, and the rest
\* are left alone.
Notify ==
    \E got, lost, burnt \in SUBSET subs :
        /\ got \cap lost = {} /\ got \cap burnt = {} /\ lost \cap burnt = {}
        /\ subs' = (subs \ (got \cup lost \cup burnt))
                     \cup {Advance(s) : s \in got \cup burnt}
        /\ sent' = {[to |-> s.peer, token |-> s.token, observe |-> Advance(s).seq] :
                        s \in got}

Clear == subs' = {} /\ sent' = {}

Next == \/ \E p \in Peers, t \in Tokens :
              \/ Subscribe(p, t) \/ Renew(p, t) \/ Refuse(p, t)
              \/ Unsubscribe(p, t) \/ Read(p, t)
        \/ Notify
        \/ Clear

Spec == Init /\ [][Next]_vars

-----------------------------------------------------------------------------
\* A message that carries an Observe number reaches a subscriber, under the
\* token of the subscription, and the number is the one it stands at.
NumberedReachSubscribers ==
    \A m \in sent : m.observe # NoObserve =>
        [peer |-> m.to, token |-> m.token, seq |-> m.observe] \in subs

\* A peer that keeps its subscription sees its number stay or advance by one.
AdvancesByOne ==
    \A r \in subs, s \in subs' :
        r.peer = s.peer => s.seq \in {r.seq, (r.seq + 1) % Modulus}

=============================================================================
