----------------------------- MODULE ClientView -----------------------------
(***************************************************************************)
(* History of an observable resource: the content each observer was last   *)
(* sent.  A client whose message the stack dropped is promised nothing     *)
(* before its next message: it has no entry.                               *)
(***************************************************************************)
EXTENDS CoapObserve

VARIABLE view

ObserverPeers == {observers[i].peer : i \in Active}

\* The messages of this step carry content; of the other clients, those in
\* kept still hold what they had.
Informs(content, kept) ==
    LET reached == {m.to : m \in sent'}
    IN  view' = [p \in ObserverPeers' \cap (reached \cup kept) |->
                   IF p \in reached THEN content ELSE view[p]]
=============================================================================
