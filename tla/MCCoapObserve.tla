--------------------------- MODULE MCCoapObserve ---------------------------
(***************************************************************************)
(* Three clients compete for two slots; the counters wrap after four       *)
(* notifications and the option after two.  An option value of 4 is the   *)
(* model's 2^32, which the cast to uint32_t turns into a registration.     *)
(***************************************************************************)
EXTENDS CoapObserve, TLC

CONSTANTS p1, p2, p3, t1, t2

MCPeers        == {p1, p2, p3}
MCTokens       == {t1, t2}
MCOptionValues == {0, 1, 2, 4}
=============================================================================
