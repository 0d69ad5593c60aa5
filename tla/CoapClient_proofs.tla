------------------------- MODULE CoapClient_proofs -------------------------
(***************************************************************************)
(* Proofs about the client requests of the shell: what holds as long as    *)
(* no call has timed out, for any kinds of request.                        *)
(***************************************************************************)
EXTENDS CoapClient, TLAPS

\* Of a kind that was never abandoned only the waiting call has an exchange.
OnlyCurrent == \A e \in exchanges : e.kind \notin abandoned => waiting /\ e = call

\* Its semaphore is given only for the waiting call, after its exchange.
GivenForCurrent ==
    \A k \in Kinds : k \notin abandoned /\ sem[k] = 1 =>
        waiting /\ call.kind = k /\ call \notin exchanges

\* Without abandoned calls the call's own exchange ends, with or without a whole
\* answer, before the semaphore is given.
FilledWhenGiven ==
    abandoned = {} /\ waiting /\ sem[call.kind] = 1 => frame.of = call.id

IInv == /\ TypeOK /\ OnlyCurrent /\ GivenForCurrent /\ FilledWhenGiven
        /\ OwnAnswerUnlessAbandoned /\ WokenByOwnExchange

LEMMA ClientInit == Init => IInv
<1> SUFFICES ASSUME Init PROVE IInv
    OBVIOUS
<1> USE DEF Init
<1>1. TypeOK
    <2>1. 1 \in Ids
        BY ClientAssumption DEF Ids
    <2>2. call \in Calls
        BY <2>1 DEF Calls
    <2>3. waiting \in BOOLEAN
        BY Zenon
    <2> QED BY <2>2, <2>3 DEF TypeOK, Structs, Junk, Returns
<1> QED BY <1>1 DEF IInv, OnlyCurrent, GivenForCurrent, FilledWhenGiven,
                    OwnAnswerUnlessAbandoned, WokenByOwnExchange

LEMMA SendPreserves ==
    ASSUME IInv, NEW n \in Ids, NEW k \in Kinds, coap_get_req_send(n, k)
    PROVE  IInv'
<1> USE DEF coap_get_req_send
<1>1. call' = [id |-> n, kind |-> k] /\ call' \in Calls /\ call'.kind = k
    BY DEF Calls
<1>2. TypeOK'
    BY <1>1 DEF IInv, TypeOK, Structs, Junk, Returns
<1>3. OnlyCurrent'
    BY <1>1 DEF IInv, OnlyCurrent
<1>4. \A j \in Kinds : j \notin abandoned => sem[j] # 1
    BY DEF IInv, GivenForCurrent
<1>5. GivenForCurrent' /\ FilledWhenGiven'
    BY <1>1, <1>4 DEF GivenForCurrent, FilledWhenGiven
<1>6. OwnAnswerUnlessAbandoned' /\ WokenByOwnExchange'
    BY DEF OwnAnswerUnlessAbandoned, WokenByOwnExchange
<1> QED BY <1>2, <1>3, <1>5, <1>6 DEF IInv

LEMMA TakePreserves == ASSUME IInv, TakeSemaphore PROVE IInv'
<1> USE DEF TakeSemaphore
<1>1. call \in Calls /\ call.kind \in Kinds /\ call.id \in Ids
    BY DEF IInv, TypeOK, Calls
<1>2. TypeOK'
    <2>1. sem' \in [Kinds -> {0, 1}]
        BY <1>1 DEF IInv, TypeOK
    <2>2. result' \in [ret : Returns, held : Structs]
        BY DEF IInv, TypeOK, Returns, Structs, Junk
    <2> QED BY <2>1, <2>2 DEF IInv, TypeOK
<1>3. call.kind \notin abandoned => call \notin exchanges
    BY <1>1 DEF IInv, GivenForCurrent
<1>4. OnlyCurrent'
    BY <1>3 DEF IInv, OnlyCurrent
<1>5. GivenForCurrent' /\ FilledWhenGiven'
    BY <1>1 DEF IInv, TypeOK, GivenForCurrent, FilledWhenGiven
<1>6. WokenByOwnExchange'
    BY <1>3 DEF WokenByOwnExchange
<1>7. OwnAnswerUnlessAbandoned'
    BY DEF IInv, FilledWhenGiven, OwnAnswerUnlessAbandoned
<1> QED BY <1>2, <1>4, <1>5, <1>6, <1>7 DEF IInv

LEMMA TimeoutPreserves == ASSUME IInv, Timeout PROVE IInv'
<1> USE DEF Timeout
<1>1. call.kind \in Kinds /\ abandoned' # {} /\ abandoned \subseteq abandoned'
    BY DEF IInv, TypeOK, Calls
<1>2. TypeOK'
    BY <1>1 DEF IInv, TypeOK, Returns, Structs, Junk
<1>3. OnlyCurrent' /\ GivenForCurrent'
    BY <1>1 DEF IInv, OnlyCurrent, GivenForCurrent
<1>4. FilledWhenGiven' /\ OwnAnswerUnlessAbandoned' /\ WokenByOwnExchange'
    BY <1>1 DEF FilledWhenGiven, OwnAnswerUnlessAbandoned, WokenByOwnExchange
<1> QED BY <1>2, <1>3, <1>4 DEF IInv

LEMMA CallbackPreserves ==
    ASSUME IInv, NEW e \in exchanges, get_state_cb(e)
    PROVE  IInv'
<1> USE DEF get_state_cb, k_sem_give
<1>1. e.kind \in Kinds /\ e.id \in Ids /\ call.kind \in Kinds
    BY DEF IInv, TypeOK, Calls
<1>2. TypeOK'
    <2>1. sem' \in [Kinds -> {0, 1}]
        BY <1>1 DEF IInv, TypeOK
    <2>2. frame' \in Structs
        BY <1>1 DEF IInv, TypeOK, WriteOwn, WriteDead, Structs, Junk, Struct
    <2> QED BY <2>1, <2>2 DEF IInv, TypeOK
<1>3. e.kind \notin abandoned => waiting /\ e = call
    BY DEF IInv, OnlyCurrent
<1>4. OnlyCurrent'
    BY DEF IInv, OnlyCurrent
<1>5. GivenForCurrent'
    BY <1>1, <1>3 DEF IInv, TypeOK, GivenForCurrent
<1>6. FilledWhenGiven'
    <2>1. WriteOwn(e) => frame'.of = e.id
        BY DEF WriteOwn, Struct
    <2> QED BY <1>3, <2>1 DEF FilledWhenGiven
<1>7. OwnAnswerUnlessAbandoned' /\ WokenByOwnExchange'
    BY DEF IInv, OwnAnswerUnlessAbandoned, WokenByOwnExchange
<1> QED BY <1>2, <1>4, <1>5, <1>6, <1>7 DEF IInv

LEMMA ClientStep == IInv /\ [Next]_vars => IInv'
<1> SUFFICES ASSUME IInv, [Next]_vars PROVE IInv'
    OBVIOUS
<1>1. CASE SendFails
    BY <1>1 DEF SendFails, IInv, TypeOK, Returns, Structs, Junk, OnlyCurrent, GivenForCurrent,
                FilledWhenGiven, OwnAnswerUnlessAbandoned, WokenByOwnExchange
<1>2. CASE UNCHANGED vars
    BY <1>2 DEF vars, IInv, TypeOK, OnlyCurrent, GivenForCurrent,
                FilledWhenGiven, OwnAnswerUnlessAbandoned, WokenByOwnExchange
<1> QED BY <1>1, <1>2, SendPreserves, TakePreserves, TimeoutPreserves, CallbackPreserves
        DEF Next

LEMMA ClientInvariant == Spec => []IInv
BY ClientInit, ClientStep, PTL DEF Spec

\* The client's semaphores stay binary and its variables keep their types.
THEOREM ClientTypes == Spec => []TypeOK
<1>1. IInv => TypeOK
    BY DEF IInv
<1> QED BY <1>1, ClientInvariant, PTL

\* Without a time-out a call of led.c or button.c succeeds only on a response to
\* its own request, be it whole or not: never after an error.
THEOREM AnswersAreOwn == Spec => []OwnAnswerUnlessAbandoned
<1>1. IInv => OwnAnswerUnlessAbandoned
    BY DEF IInv
<1> QED BY <1>1, ClientInvariant, PTL

\* A call is woken by its own exchange unless one of its kind timed out.
THEOREM WakeUpsAreOwn == Spec => []WokenByOwnExchange
<1>1. IInv => WokenByOwnExchange
    BY DEF IInv
<1> QED BY <1>1, ClientInvariant, PTL
=============================================================================
