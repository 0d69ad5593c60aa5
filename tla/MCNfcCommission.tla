-------------------------- MODULE MCNfcCommission --------------------------
(***************************************************************************)
(* The dataset of a network and one that is none, such as the empty text,  *)
(* so that a stale one can be told from the latest and the boot meets both *)
(* answers of OpenThread; both kinds of build, preempting or not, are      *)
(* initial states of each run.                                             *)
(***************************************************************************)
EXTENDS NfcCommission, TLC

CONSTANTS d1, hollow

MCDatasets == {d1, hollow}
MCNetworks == {d1}
=============================================================================
