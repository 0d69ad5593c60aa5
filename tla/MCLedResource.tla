--------------------------- MODULE MCLedResource ---------------------------
(***************************************************************************)
(* The board's two LEDs, the second one being the alarm pin, and two        *)
(* clients with two tokens each that compete for one slot of the table.    *)
(***************************************************************************)
EXTENDS LedResource, TLC

CONSTANTS p1, p2, t1, t2

MCPeers        == {p1, p2}
MCTokens       == {t1, t2}
MCOptionValues == {0, 1}
MCAlarmLeds    == {1}
=============================================================================
