---------------------------- MODULE Commissioning ----------------------------
(***************************************************************************)
(* What commissioning promises the owner of a device.  Its storage is      *)
(* written to only while it holds no dataset of a network or after the     *)
(* owner, at this boot, has asked for it to be emptied, and never after a  *)
(* success was reported; and what is reported rests on a stored dataset    *)
(* and a started stack.  Threads, messages, locks and retries do not       *)
(* appear; NfcCommission implements it.                                    *)
(***************************************************************************)
CONSTANTS Datasets,   \* what a phone may write
          Networks,   \* those that are the dataset of a network
          NoData,     \* nothing stored
          Garbled     \* something stored that no phone wrote

VARIABLES stored,     \* what a restart finds
          up,         \* interface and stack are enabled
          asked,      \* at this boot the owner asked for the storage to be emptied
          reported    \* this boot has reported that it commissioned the device

vars == <<stored, up, asked, reported>>

Init == stored = NoData /\ up \in BOOLEAN /\ asked = FALSE /\ reported = FALSE

\* A stack with the dataset of a network starts by itself.
Restart ==
    /\ up' \in BOOLEAN /\ (stored \in Networks => up')
    /\ asked' = FALSE /\ reported' = FALSE
    /\ UNCHANGED stored

\* The owner holds the button while the device boots: both may fail, and the
\* device does not say so.
Erase ==
    /\ ~reported
    /\ asked' = TRUE
    /\ stored' \in {stored, NoData} /\ up' \in {up, FALSE}
    /\ UNCHANGED reported

Store ==
    /\ stored \notin Networks \/ asked
    /\ ~reported
    /\ stored' \in Datasets \cup {Garbled}
    /\ UNCHANGED <<up, asked, reported>>

Start ==
    /\ stored # NoData
    /\ up' = TRUE
    /\ UNCHANGED <<stored, asked, reported>>

Report ==
    /\ stored # NoData /\ up
    /\ reported' = TRUE
    /\ UNCHANGED <<stored, up, asked>>

Next == Restart \/ Erase \/ Store \/ Start \/ Report

Spec == Init /\ [][Next]_vars
=============================================================================
