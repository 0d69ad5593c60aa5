----------------------------- MODULE MCBattery -----------------------------
(***************************************************************************)
(* Samples at, just below and just above every joint of the curve, noise   *)
(* below zero and a supply above the table.                                *)
(***************************************************************************)
EXTENDS Battery

MCSamples == {-2, 0, 2500} \cup {voltage_mv[i] \div 2 + d : i \in 1 .. LIPO_TABLE_SIZE, d \in -1 .. 1}
=============================================================================
