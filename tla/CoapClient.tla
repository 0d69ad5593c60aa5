----------------------------- MODULE CoapClient -----------------------------
(***************************************************************************)
(* The GET requests of the shell: coap_led_get_state, coap_btn_get_state   *)
(* and their callbacks.  One shell thread makes one call at a time; the    *)
(* OpenThread thread ends each exchange once, with an answer or an error,  *)
(* whether the call still waits or not.  A PUT of the shell waits for      *)
(* nothing and its callback only logs: left out.                           *)
(***************************************************************************)
EXTENDS Integers

CONSTANTS Kinds,       \* the resources that are read, a semaphore for each
          MaxOpen      \* bound: requests that have not ended

ASSUME ClientAssumption == MaxOpen \in Nat \ {0}

VARIABLES sem,        \* led_get_sem and btn_get_sem
          call,       \* the current or latest call
          waiting,    \* it is in k_sem_take
          frame,      \* what its struct on the stack holds
          exchanges,  \* requests that OpenThread has not ended
          result,     \* what the latest call returned
          abandoned   \* history: kinds of which a call returned before its answer

vars == <<sem, call, waiting, frame, exchanges, result, abandoned>>

\* Numbers tell requests apart; one is used again after its exchange ended.
Ids     == 1 .. MaxOpen
Nobody  == 0
Calls   == [id : Ids, kind : Kinds]
Returns == {"sent", "error", "ok", "nodev", "timeout"}

\* What the struct holds: whose exchange filled it last, and how.  A response
\* that lacks a field still parses; where it lacks the list, neither count nor
\* states are written and the struct keeps what the stack held.
Structs == [of : Ids \cup {Nobody}, data : {"whole", "partly", "none"}]
Junk    == [of |-> Nobody, data |-> "partly"]   \* not initialised
Struct(e, d) == [of |-> e.id, data |-> d]

Init == /\ sem = [k \in Kinds |-> 0]
        /\ call \in [id : {1}, kind : Kinds]
        /\ waiting = FALSE /\ frame = Junk
        /\ exchanges = {}
        /\ result = [ret |-> "error", held |-> Junk]
        /\ abandoned = {}

\* coap_get_req_send: the request goes out, or an error comes back at once
\* and nothing is left behind.
SendFails ==
    /\ ~waiting
    /\ result' = [ret |-> "error", held |-> Junk]
    /\ UNCHANGED <<sem, call, waiting, frame, exchanges, abandoned>>

coap_get_req_send(n, k) ==
    /\ ~waiting
    /\ n \notin {e.id : e \in exchanges \cup {call}}
    /\ call' = [id |-> n, kind |-> k]
    /\ exchanges' = exchanges \cup {call'}
    /\ waiting' = TRUE /\ frame' = Junk
    /\ result' = [ret |-> "sent", held |-> Junk]
    /\ UNCHANGED <<sem, abandoned>>

\* led_id is compared with count: an answer knows the LED or not, a count that
\* nobody wrote may pass or fail the test, and count = 0 fails it.
TakeSemaphore ==
    /\ waiting /\ sem[call.kind] = 1
    /\ sem' = [sem EXCEPT ![call.kind] = 0]
    /\ waiting' = FALSE
    /\ \/ result' = [ret |-> "nodev", held |-> Junk]
       \/ frame.data # "none" /\ result' = [ret |-> "ok", held |-> frame]
    /\ UNCHANGED <<call, frame, exchanges, abandoned>>

\* k_sem_take gives up after 10 s; the request is not cancelled.
Timeout ==
    /\ waiting /\ sem[call.kind] = 0
    /\ waiting' = FALSE
    /\ result' = [ret |-> "timeout", held |-> Junk]
    /\ abandoned' = abandoned \cup {call.kind}
    /\ UNCHANGED <<sem, call, frame, exchanges>>

\* Mutant: the semaphore counts further than its limit of 1.
GiveUnlimited(k) == sem' = [sem EXCEPT ![k] = @ + 1]

\* Mutant: both callbacks give the same semaphore.
GiveFirst(k) == sem' = [sem EXCEPT ![CHOOSE j \in Kinds : TRUE] = 1]

k_sem_give(k) == sem' = [sem EXCEPT ![k] = 1]

\* Mutant: the callback wakes the call without count = 0 after an error.
WriteOnSuccess(e) == frame' \in {Struct(e, "whole"), Struct(e, "partly"), frame}

\* The callback writes to the struct of its call: all of it, what a response
\* without some field brings, or count = 0 on an error.  When that call has
\* returned, its place on the stack may overlap the struct of the current one.
WriteOwn(e)  == frame' \in {Struct(e, d) : d \in {"whole", "partly", "none"}}
WriteDead(e) == WriteOwn(e) \/ frame' \in {frame, Junk}

get_state_cb(e) ==
    /\ exchanges' = exchanges \ {e}
    /\ IF waiting /\ e = call THEN WriteOwn(e) ELSE WriteDead(e)
    /\ k_sem_give(e.kind)
    /\ UNCHANGED <<call, waiting, result, abandoned>>

Next == \/ \E n \in Ids, k \in Kinds : coap_get_req_send(n, k)
        \/ SendFails \/ TakeSemaphore \/ Timeout
        \/ \E e \in exchanges : get_state_cb(e)

Spec == Init /\ [][Next]_vars

-----------------------------------------------------------------------------
\* Semaphores, requests and results keep their types; a semaphore is binary.
TypeOK ==
    /\ sem \in [Kinds -> {0, 1}]
    /\ call \in Calls /\ waiting \in BOOLEAN /\ frame \in Structs
    /\ exchanges \subseteq Calls
    /\ result \in [ret : Returns, held : Structs]
    /\ abandoned \subseteq Kinds

\* As long as no call timed out, a call succeeds only on a response to its own
\* request: no error and no other exchange passes for one.  (A response without
\* the list is a response too: it leaves in the struct what the stack held.)
OwnAnswerUnlessAbandoned ==
    abandoned = {} /\ result.ret = "ok" => result.held.of = call.id

\* A call is woken by the end of its own exchange, whatever happens to calls
\* of other kinds, as long as none of its own kind timed out.
WokenByOwnExchange ==
    call.kind \notin abandoned /\ result.ret \in {"ok", "nodev"} => call \notin exchanges

\* "Wait up to 10 seconds for CoAP response" (led.c:333): a call that
\* succeeds has waited for the response to its request.
AnswersOwnRequest == result.ret = "ok" => result.held.of = call.id
=============================================================================
