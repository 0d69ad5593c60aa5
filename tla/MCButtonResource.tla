-------------------------- MODULE MCButtonResource --------------------------
(***************************************************************************)
(* Two buttons and two clients; the counters wrap after two notifications. *)
(***************************************************************************)
EXTENDS ButtonResource, TLC

CONSTANTS p1, p2, t1

MCPeers        == {p1, p2}
MCTokens       == {t1}
MCOptionValues == {0, 1}
=============================================================================
