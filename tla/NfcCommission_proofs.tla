------------------------ MODULE NfcCommission_proofs ------------------------
(***************************************************************************)
(* The safety of commissioning, for any set of datasets, any interleaving  *)
(* of main, callback, workqueue and OpenThread thread, and any resets.     *)
(***************************************************************************)
EXTENDS NfcCommission, TLAPS

\* Once the workqueue announces a dataset, it stays ready until it is applied.
ReadyUntilApplied ==
    /\ current_state = "COMMISSIONED" /\ pc \notin {"success", "stop", "stop2", "done"} => dataset_ready
    /\ dataset_ready => parsed_dataset # NoData
    /\ pc \in {"lock", "wait", "set"} => dataset_ready

\* How far apply_stored_dataset has come is what storage and stack show.
AppliedSoFar ==
    /\ ret # "none" => pc \in {"failed", "stop", "stop2", "done"}
    /\ pc \in {"ip6", "thread", "success"} => dataset # NoData
    /\ pc \in {"thread", "success"} => ip6
    /\ pc = "success" => thread
    /\ ret = "success" => pc \in {"stop", "stop2", "done"}

\* A queued message keeps main where it is, and PROCESSING means it is queued.
QueueHoldsMain ==
    /\ current_state = "PROCESSING" => work
    /\ ~preempts /\ work => pc \in {"take", "error", "wait", "set", "failed", "success", "done"}

\* At the loop condition and behind it a state other than the one main reacts
\* to, or a message on its way to one, is that of a late message, and those come
\* only where the callback preempts main.
LoopSeesErrors ==
    /\ pc \in {"loop", "take", "check", "error"} => current_state # "IDLE"
    /\ pc = "loop" /\ current_state \in {"ERROR", "PROCESSING"} => preempts /\ late
    /\ pc = "verdict" /\ current_state # "COMMISSIONED" => preempts /\ late
    /\ pc \in {"loop", "verdict"} /\ work => preempts /\ late
    /\ ret = "EIO" => pc \in {"stop", "stop2", "done"}

\* Until the tag is switched on, and between the two stops, the timer is off.
TimerOff ==
    /\ pc \in {"boot", "init", "start"} => blink = "off" /\ ~emulating
    /\ ~preempts /\ pc = "stop2" => blink = "off"

IInv == /\ TypeOK /\ MutexHeldAroundApi /\ NeverWithoutDataset /\ SuccessMeansStarted
        /\ SlowBlinkWhileWaiting /\ AbortOnlyByLateMessage /\ BlinkStaysOff
        /\ ReadyUntilApplied /\ AppliedSoFar /\ QueueHoldsMain /\ LoopSeesErrors /\ TimerOff
-----------------------------------------------------------------------------
USE DEF vars, appVars, bootVars, nfcVars, otVars, Messages, BadMessages, States, ApiCalls, Locations

\* The Boolean part of TypeOK.  It is proved apart: the SMT encoding loses the
\* type of a variable that is only ever compared with TRUE and FALSE.
Flags == /\ dataset_ready \in BOOLEAN /\ work \in BOOLEAN /\ emulating \in BOOLEAN
         /\ field \in BOOLEAN /\ preempts \in BOOLEAN /\ ip6 \in BOOLEAN /\ thread \in BOOLEAN
         /\ force_nfc \in BOOLEAN /\ late \in BOOLEAN

\* Initially and after every step of any actor the variables of
\* nfc_commission.c have their types.
LEMMA TypesInit == Init => TypeOK
<1>1. Init => Flags
  BY Zenon DEF Init, Flags
<1> QED
  BY <1>1 DEF Init, TypeOK, Flags

LEMMA TypesNext == TypeOK /\ [Next]_vars => TypeOK'
<1> SUFFICES ASSUME TypeOK, [Next]_vars PROVE TypeOK'
  OBVIOUS
<1> USE DEF TypeOK, Main
<1>1. CASE BootForced
  <2>1. Flags'
    BY <1>1, Zenon DEF BootForced, Flags
  <2> QED
    BY <1>1, <2>1 DEF BootForced, Flags
<1>2. CASE BootCheck
  BY <1>2 DEF BootCheck
<1>3. CASE nfc_commission_init
  BY <1>3 DEF nfc_commission_init
<1>4. CASE StartEmulation
  <2>1. Flags'
    BY <1>4, Zenon DEF StartEmulation, Flags
  <2> QED
    BY <1>4, <2>1 DEF StartEmulation, Flags
<1>5. CASE StartWaiting
  <2>1. Flags'
    BY <1>5, Zenon DEF StartWaiting, Flags
  <2> QED
    BY <1>5, <2>1 DEF StartWaiting, Flags
<1>6. CASE LoopTest
  BY <1>6 DEF LoopTest
<1>7. CASE TakeSemaphore
  BY <1>7 DEF TakeSemaphore
<1>8. CASE CheckError
  <2>1. Flags'
    BY <1>8, Zenon DEF CheckError, Flags
  <2> QED
    BY <1>8, <2>1 DEF CheckError, Flags
<1>9. CASE ReturnToWaiting
  <2>1. Flags'
    BY <1>9, Zenon DEF ReturnToWaiting, Flags
  <2> QED
    BY <1>9, <2>1 DEF ReturnToWaiting, Flags
<1>10. CASE Verdict
  BY <1>10 DEF Verdict
<1>11. CASE Lock
  BY <1>11 DEF Lock
<1>12. CASE CallFails
  BY <1>12 DEF CallFails
<1>13. CASE otDatasetSetActiveTlvs
  BY <1>13 DEF otDatasetSetActiveTlvs
<1>14. CASE otIp6SetEnabled
  <2>1. Flags'
    BY <1>14, Zenon DEF otIp6SetEnabled, Flags
  <2> QED
    BY <1>14, <2>1 DEF otIp6SetEnabled, Flags
<1>15. CASE otThreadSetEnabled
  <2>1. Flags'
    BY <1>15, Zenon DEF otThreadSetEnabled, Flags
  <2> QED
    BY <1>15, <2>1 DEF otThreadSetEnabled, Flags
<1>16. CASE Return
  BY <1>16 DEF Return
<1>17. CASE StopTimer
  BY <1>17 DEF StopTimer
<1>18. CASE StopEmulation
  <2>1. Flags'
    BY <1>18, Zenon DEF StopEmulation, Flags
  <2> QED
    BY <1>18, <2>1 DEF StopEmulation, Flags
<1>19. CASE FieldOn
  <2>1. Flags'
    BY <1>19, Zenon DEF FieldOn, Flags
  <2> QED
    BY <1>19, <2>1 DEF FieldOn, Flags
<1>20. CASE FieldOff
  <2>1. Flags'
    BY <1>20, Zenon DEF FieldOff, Flags
  <2> QED
    BY <1>20, <2>1 DEF FieldOff, Flags
<1>21. CASE EraseNdef
  BY <1>21 DEF EraseNdef
<1>22. ASSUME NEW m \in Messages, UpdateNdef(m) PROVE TypeOK'
  <2>1. Flags'
    BY <1>22, Zenon DEF UpdateNdef, Flags
  <2> QED
    BY <1>22, <2>1 DEF UpdateNdef, Flags
<1>23. CASE process_ndef_work_handler
  <2>1. Flags'
    BY <1>23, Zenon DEF process_ndef_work_handler, process_ndef_message, hex_to_binary, Flags
  <2> QED
    BY <1>23, <2>1 DEF process_ndef_work_handler, process_ndef_message, hex_to_binary, Flags
<1>24. CASE OtLock
  BY <1>24 DEF OtLock
<1>25. CASE OtUnlock
  BY <1>25 DEF OtUnlock
<1>26. CASE Reset
  <2>1. Flags'
    BY <1>26, Zenon DEF Reset, Flags
  <2> QED
    BY <1>26, <2>1 DEF Reset, Flags
<1>27. CASE UNCHANGED vars
  BY <1>27
<1> QED
  BY <1>1, <1>2, <1>3, <1>4, <1>5, <1>6, <1>7, <1>8, <1>9, <1>10, <1>11, <1>12, <1>13, <1>14, <1>15, <1>16, <1>17, <1>18, <1>19, <1>20, <1>21, <1>22, <1>23, <1>24, <1>25, <1>26, <1>27 DEF Next, MainStep, NfcEvent

-----------------------------------------------------------------------------
\* The invariant holds when a device first boots.
LEMMA SafeInit == Init => IInv
<1> USE DEF MutexHeldAroundApi, NeverWithoutDataset, SuccessMeansStarted, SlowBlinkWhileWaiting, AbortOnlyByLateMessage,
           BlinkStaysOff, ReadyUntilApplied, AppliedSoFar, QueueHoldsMain, LoopSeesErrors, TimerOff
<1> QED
  BY TypesInit, DatasetAssumption DEF Init, IInv

\* No step of main, callback, workqueue or OpenThread thread, and no reset,
\* breaks it.
LEMMA SafeNext == IInv /\ [Next]_vars => IInv'
<1> SUFFICES ASSUME IInv, [Next]_vars PROVE IInv'
  OBVIOUS
<1>0. TypeOK /\ TypeOK'
  BY TypesNext DEF IInv
<1> USE <1>0, DatasetAssumption
    DEF IInv, MutexHeldAroundApi, NeverWithoutDataset, SuccessMeansStarted, SlowBlinkWhileWaiting, AbortOnlyByLateMessage,
           BlinkStaysOff, ReadyUntilApplied, AppliedSoFar, QueueHoldsMain, LoopSeesErrors, TimerOff, Main, MainBlocked
<1>1. CASE BootForced
  BY <1>1 DEF TypeOK, BootForced
<1>2. CASE BootCheck
  BY <1>2 DEF TypeOK, BootCheck
<1>3. CASE nfc_commission_init
  BY <1>3 DEF TypeOK, nfc_commission_init
<1>4. CASE StartEmulation
  BY <1>4 DEF TypeOK, StartEmulation
<1>5. CASE StartWaiting
  BY <1>5 DEF TypeOK, StartWaiting
<1>6. CASE LoopTest
  BY <1>6 DEF TypeOK, LoopTest
<1>7. CASE TakeSemaphore
  BY <1>7 DEF TypeOK, TakeSemaphore
<1>8. CASE CheckError
  BY <1>8 DEF TypeOK, CheckError
<1>9. CASE ReturnToWaiting
  BY <1>9 DEF TypeOK, ReturnToWaiting
<1>10. CASE Verdict
  BY <1>10 DEF TypeOK, Verdict
<1>11. CASE Lock
  BY <1>11 DEF TypeOK, Lock
<1>12. CASE CallFails
  BY <1>12 DEF TypeOK, CallFails
<1>13. CASE otDatasetSetActiveTlvs
  BY <1>13 DEF TypeOK, otDatasetSetActiveTlvs
<1>14. CASE otIp6SetEnabled
  BY <1>14 DEF TypeOK, otIp6SetEnabled
<1>15. CASE otThreadSetEnabled
  BY <1>15 DEF TypeOK, otThreadSetEnabled
<1>16. CASE Return
  BY <1>16 DEF TypeOK, Return
<1>17. CASE StopTimer
  BY <1>17 DEF TypeOK, StopTimer
<1>18. CASE StopEmulation
  BY <1>18 DEF TypeOK, StopEmulation
<1>19. CASE FieldOn
  BY <1>19 DEF TypeOK, FieldOn, CallbackRuns
<1>20. CASE FieldOff
  BY <1>20 DEF TypeOK, FieldOff, CallbackRuns
<1>21. CASE EraseNdef
  BY <1>21 DEF TypeOK, EraseNdef, CallbackRuns
<1>22. ASSUME NEW m \in Messages, UpdateNdef(m) PROVE IInv'
  BY <1>22 DEF TypeOK, UpdateNdef, CallbackRuns
<1>23. CASE process_ndef_work_handler
  <2>1. ~preempts => pc \in {"take", "error", "wait", "set", "failed", "success", "done"}
    BY <1>23 DEF process_ndef_work_handler, process_ndef_message, hex_to_binary
  <2>2. CASE ndef \in Datasets
    <3>1. dataset_ready' /\ parsed_dataset' # NoData /\ current_state' = "COMMISSIONED"
      BY <1>23, <2>2 DEF process_ndef_work_handler, process_ndef_message, hex_to_binary
    <3> QED
      BY <1>23, <2>1, <3>1 DEF process_ndef_work_handler, process_ndef_message, hex_to_binary
  <2>3. CASE ndef \notin Datasets
    <3>1. dataset_ready' = dataset_ready /\ current_state' = "ERROR"
      BY <1>23, <2>3, Zenon DEF TypeOK, process_ndef_work_handler, process_ndef_message, hex_to_binary
    <3>2. dataset_ready' => parsed_dataset' # NoData
      BY <1>23, <2>3, <3>1 DEF process_ndef_work_handler, process_ndef_message, hex_to_binary
    <3> QED
      BY <1>23, <2>1, <3>1, <3>2 DEF process_ndef_work_handler, process_ndef_message, hex_to_binary
  <2> QED
    BY <2>2, <2>3
<1>24. CASE OtLock
  BY <1>24 DEF TypeOK, OtLock
<1>25. CASE OtUnlock
  BY <1>25 DEF TypeOK, OtUnlock
<1>26. CASE Reset
  BY <1>26 DEF TypeOK, Reset
<1>27. CASE UNCHANGED vars
  BY <1>27 DEF TypeOK
<1> QED
  BY <1>1, <1>2, <1>3, <1>4, <1>5, <1>6, <1>7, <1>8, <1>9, <1>10, <1>11, <1>12, <1>13, <1>14, <1>15, <1>16, <1>17, <1>18, <1>19, <1>20, <1>21, <1>22, <1>23, <1>24, <1>25, <1>26, <1>27 DEF Next, MainStep, NfcEvent

\* Commissioning is safe: for any set of datasets the API mutex is held exactly
\* around the API calls, main always finds the dataset it was told of, success
\* is only reported with the stack started, the LED shows what main does and a
\* bad message aborts only if it came after main had last looked for one.
THEOREM CommissioningIsSafe ==
    Spec => [](/\ TypeOK /\ MutexHeldAroundApi /\ NeverWithoutDataset /\ SuccessMeansStarted
               /\ SlowBlinkWhileWaiting /\ AbortOnlyByLateMessage /\ BlinkStaysOff)
<1>1. Init => IInv
  BY SafeInit
<1>2. IInv /\ [Next]_vars => IInv'
  BY SafeNext
<1>3. IInv => /\ TypeOK /\ MutexHeldAroundApi /\ NeverWithoutDataset /\ SuccessMeansStarted
              /\ SlowBlinkWhileWaiting /\ AbortOnlyByLateMessage /\ BlinkStaysOff
  BY DEF IInv
<1> QED
  BY <1>1, <1>2, <1>3, PTL DEF Spec

\* The variables of nfc_commission.c keep their types through every interleaving
\* and reset.
THEOREM CommissioningTypes == Spec => []TypeOK
BY CommissioningIsSafe, PTL

\* Every path of apply_stored_dataset, its error returns included, gives the API
\* mutex back.
THEOREM MutexIsReturned == Spec => []MutexHeldAroundApi
BY CommissioningIsSafe, PTL

\* COMMISSIONED is only seen by main with a converted dataset in the buffer.
THEOREM DatasetIsThere == Spec => []NeverWithoutDataset
BY CommissioningIsSafe, PTL

\* nfc_commission_start reports success only with dataset stored and stack up.
THEOREM SuccessIsReal == Spec => []SuccessMeansStarted
BY CommissioningIsSafe, PTL

\* While nfc_commission_start waits for a phone the LED blinks slowly, after
\* every retry too.
THEOREM WaitingIsShown == Spec => []SlowBlinkWhileWaiting
BY CommissioningIsSafe, PTL

\* Whatever the build, -EIO comes of one window only: a message between main's
\* last test for ERROR and the loop condition, or behind it.  Every bad message
\* that came before is retried.
THEOREM AbortNeedsLateMessage == Spec => []AbortOnlyByLateMessage
BY CommissioningIsSafe, PTL

\* After the call has turned the tag off no late field event leaves the blink
\* timer on, where the NFC callback does not preempt main.
THEOREM TimerStaysOff == Spec => []BlinkStaysOff
BY CommissioningIsSafe, PTL

\* The wait is never dead: the loop is neither left on IDLE nor held by a
\* PROCESSING that no queued work will end, in builds where the callback
\* preempts main too.
WaitCanEnd == pc \in {"loop", "take", "check", "error"} =>
                current_state # "IDLE" /\ (current_state = "PROCESSING" => work)

\* What RetryEndsTheWait says of nfc_commission_start, as far as it does not rest
\* on threads that run when they can.
THEOREM WaitIsNeverDead == Spec => []WaitCanEnd
<1>1. IInv => WaitCanEnd
  BY DEF IInv, LoopSeesErrors, QueueHoldsMain, WaitCanEnd
<1> QED
  BY <1>1, SafeInit, SafeNext, PTL DEF Spec

-----------------------------------------------------------------------------
\* What a phone may fill: main is on its way to the storage only on a device
\* that holds no dataset of a network, or that was booted with sw0 held.
EmptyUntilStored ==
    pc \in {"init", "start", "arm", "loop", "take", "check", "error", "verdict", "lock", "wait", "set"}
        => dataset \notin Networks \/ force_nfc

\* The buffer is whole for as long as the workqueue's announcement stands.
WholeBuffer == current_state = "COMMISSIONED" => parsed_dataset \in Datasets

\* Where the callback does not preempt main, no message comes before the wait.
IdleUntilArmed == ~preempts /\ pc \in {"start", "arm"} => current_state = "IDLE"

SInv == EmptyUntilStored /\ WholeBuffer /\ IdleUntilArmed

LEMMA StorageInit == Init => SInv
BY DatasetAssumption DEF Init, SInv, EmptyUntilStored, WholeBuffer, IdleUntilArmed

LEMMA StorageNext == IInv /\ SInv /\ [Next]_vars => SInv'
<1> SUFFICES ASSUME IInv, SInv, [Next]_vars PROVE SInv'
  OBVIOUS
<1>0. TypeOK /\ QueueHoldsMain
  BY DEF IInv
<1> USE <1>0, DatasetAssumption DEF SInv, EmptyUntilStored, WholeBuffer, IdleUntilArmed, Main, MainBlocked
<1>1. CASE BootForced \/ BootCheck \/ nfc_commission_init \/ StartEmulation \/ StartWaiting
  BY <1>1 DEF BootForced, BootCheck, nfc_commission_init, StartEmulation, StartWaiting
<1>2. CASE LoopTest \/ TakeSemaphore \/ CheckError \/ ReturnToWaiting \/ Verdict
  BY <1>2 DEF LoopTest, TakeSemaphore, CheckError, ReturnToWaiting, Verdict
<1>3. CASE Lock \/ CallFails \/ otDatasetSetActiveTlvs \/ otIp6SetEnabled \/ otThreadSetEnabled
  BY <1>3 DEF Lock, CallFails, otDatasetSetActiveTlvs, otIp6SetEnabled, otThreadSetEnabled
<1>4. CASE Return \/ StopTimer \/ StopEmulation
  BY <1>4 DEF Return, StopTimer, StopEmulation
<1>5. CASE FieldOn \/ FieldOff \/ EraseNdef
  BY <1>5 DEF FieldOn, FieldOff, EraseNdef
<1>6. ASSUME NEW m \in Messages, UpdateNdef(m) PROVE SInv'
  BY <1>6 DEF UpdateNdef, CallbackRuns
<1>7. CASE process_ndef_work_handler
  <2>1. ~preempts => pc \notin {"start", "arm"}
    BY <1>7 DEF process_ndef_work_handler, QueueHoldsMain
  <2>2. WholeBuffer'
    BY <1>7 DEF process_ndef_work_handler, process_ndef_message, hex_to_binary
  <2> QED
    BY <1>7, <2>1, <2>2 DEF process_ndef_work_handler
<1>8. CASE OtLock \/ OtUnlock
  BY <1>8 DEF OtLock, OtUnlock
<1>9. CASE Reset
  BY <1>9 DEF Reset
<1>10. CASE UNCHANGED vars
  BY <1>10
<1> QED
  BY <1>1, <1>2, <1>3, <1>4, <1>5, <1>6, <1>7, <1>8, <1>9, <1>10 DEF Next, MainStep, NfcEvent

LEMMA StorageInvariant == Spec => [](IInv /\ SInv)
BY SafeInit, SafeNext, StorageInit, StorageNext, PTL DEF Spec

-----------------------------------------------------------------------------
\* Steps that touch neither storage nor stack and report nothing.
LEMMA NothingPromised ==
    ASSUME UNCHANGED <<dataset, ip6, thread, force_nfc>>, (ret' = "success") <=> (ret = "success")
    PROVE  UNCHANGED Promise!vars
BY DEF Promise!vars

\* Every step of the four actors, and every reset, is a step of Commissioning
\* or invisible in it.
LEMMA StepIsPromised == IInv /\ SInv /\ [Next]_vars => [Promise!Next]_(Promise!vars)
<1> SUFFICES ASSUME IInv, SInv, [Next]_vars PROVE [Promise!Next]_(Promise!vars)
  OBVIOUS
<1>0. TypeOK /\ AppliedSoFar /\ ReadyUntilApplied /\ EmptyUntilStored
  BY DEF IInv, SInv
<1>f. ip6 \in BOOLEAN /\ thread \in BOOLEAN
  BY <1>0 DEF TypeOK
<1> USE DEF Main
<1>1. CASE Reset
  <2>1. Promise!Restart
    BY <1>1 DEF Reset, Promise!Restart
  <2> QED
    BY <2>1 DEF Promise!Next
<1>2. CASE BootForced
  <2>1. ret = "none"
    BY <1>0, <1>2 DEF BootForced, AppliedSoFar
  <2>2. (ip6 /\ thread)' \in {ip6 /\ thread, FALSE}
    <3>1. ip6' \in {ip6, FALSE} /\ thread' \in {thread, FALSE}
      BY <1>2 DEF BootForced
    <3>2. (ip6' /\ thread') => (ip6 /\ thread)
      BY <3>1, <1>f, Zenon
    <3> QED
      BY <3>2, Zenon
  <2>3. Promise!Erase
    BY <1>2, <2>1, <2>2 DEF BootForced, Promise!Erase
  <2> QED
    BY <2>3 DEF Promise!Next
<1>3. CASE otDatasetSetActiveTlvs
  <2>1. ret # "success" /\ (dataset \notin Networks \/ force_nfc) /\ parsed_dataset \in Datasets \cup {Garbled}
    BY <1>0, <1>3 DEF otDatasetSetActiveTlvs, AppliedSoFar, EmptyUntilStored, ReadyUntilApplied, TypeOK
  <2>2. Promise!Store
    BY <1>3, <2>1 DEF otDatasetSetActiveTlvs, Promise!Store
  <2> QED
    BY <2>2 DEF Promise!Next
<1>4. CASE otIp6SetEnabled \/ otThreadSetEnabled
  <2>1. dataset # NoData /\ UNCHANGED <<dataset, force_nfc, ret>>
    BY <1>0, <1>4 DEF otIp6SetEnabled, otThreadSetEnabled, AppliedSoFar
  <2>2. CASE ip6' /\ thread'
    <3>1. Promise!Start
      BY <2>1, <2>2 DEF Promise!Start
    <3> QED
      BY <3>1 DEF Promise!Next
  <2>3. CASE ~(ip6' /\ thread')
    <3>1. ~(ip6 /\ thread)
      BY <1>0, <1>4, <2>3 DEF otIp6SetEnabled, otThreadSetEnabled, AppliedSoFar
    <3> QED
      BY <2>1, <2>3, <3>1 DEF Promise!vars
  <2> QED
    BY <2>2, <2>3
<1>5. CASE Return
  <2>1. CASE pc = "success"
    <3>1. ret' = "success" /\ dataset # NoData /\ ip6 /\ thread /\ UNCHANGED <<dataset, ip6, thread, force_nfc>>
      BY <1>0, <1>5, <2>1 DEF Return, AppliedSoFar
    <3>2. Promise!Report
      BY <3>1 DEF Promise!Report
    <3> QED
      BY <3>2 DEF Promise!Next
  <2>2. CASE pc # "success"
    BY <1>5, <2>2, NothingPromised DEF Return
  <2> QED
    BY <2>1, <2>2
<1>6. CASE StartEmulation \/ Verdict \/ CallFails
  <2>1. ret # "success" /\ ret' # "success"
    BY <1>0, <1>6 DEF StartEmulation, Verdict, CallFails, AppliedSoFar
  <2>2. UNCHANGED <<dataset, ip6, thread, force_nfc>>
    BY <1>6 DEF StartEmulation, Verdict, CallFails
  <2> QED
    BY <2>1, <2>2, NothingPromised
<1>7. CASE BootCheck \/ nfc_commission_init \/ StartWaiting \/ LoopTest \/ TakeSemaphore
           \/ CheckError \/ ReturnToWaiting \/ Lock \/ StopTimer \/ StopEmulation
  <2>1. UNCHANGED <<dataset, ip6, thread, force_nfc, ret>>
    BY <1>7 DEF BootCheck, nfc_commission_init, StartWaiting, LoopTest, TakeSemaphore, CheckError,
                ReturnToWaiting, Lock, StopTimer, StopEmulation
  <2> QED
    BY <2>1, NothingPromised
<1>8. CASE NfcEvent \/ process_ndef_work_handler \/ OtLock \/ OtUnlock \/ UNCHANGED vars
  <2>1. UNCHANGED <<dataset, ip6, thread, force_nfc, ret>>
    BY <1>8 DEF NfcEvent, FieldOn, FieldOff, EraseNdef, UpdateNdef, process_ndef_work_handler,
                OtLock, OtUnlock
  <2> QED
    BY <2>1, NothingPromised
<1> QED
  BY <1>1, <1>2, <1>3, <1>4, <1>5, <1>6, <1>7, <1>8 DEF Next, MainStep

\* nfc_commission.c and the boot in main.c implement Commissioning, whatever
\* phones, threads and resets do: storage that holds a dataset is left alone,
\* and success is reported of a started stack only.
THEOREM CommissioningKeepsPromise == Spec => KeepsPromise
<1>1. Init => Promise!Init
  BY DEF Init, Promise!Init
<1> QED
  BY <1>1, StorageInvariant, StepIsPromised, PTL DEF Spec, KeepsPromise, Promise!Spec

\* Where a garbled dataset comes from: apply_stored_dataset goes on although
\* the state is no longer COMMISSIONED.  A second look at the state, under the
\* mutex, is all that is missing; this holds with a preempting callback too.
THEOREM GarbledMeansSuperseded == Spec => WholeWhileAnnounced
<1>1. IInv /\ SInv /\ [Next]_vars =>
        [dataset' = Garbled /\ dataset # Garbled => current_state # "COMMISSIONED"]_vars
  <2> SUFFICES ASSUME IInv, SInv, [Next]_vars, dataset' = Garbled, dataset # Garbled
               PROVE  current_state # "COMMISSIONED"
    OBVIOUS
  <2>1. otDatasetSetActiveTlvs
    BY DatasetAssumption DEF Next, MainStep, NfcEvent, Reset, BootForced, BootCheck, nfc_commission_init,
        StartEmulation, StartWaiting, LoopTest, TakeSemaphore, CheckError, ReturnToWaiting, Verdict,
        Lock, CallFails, otIp6SetEnabled, otThreadSetEnabled, Return, StopTimer, StopEmulation,
        FieldOn, FieldOff, EraseNdef, UpdateNdef, process_ndef_work_handler, OtLock, OtUnlock
  <2> QED
    BY <2>1, DatasetAssumption DEF otDatasetSetActiveTlvs, SInv, WholeBuffer
<1> QED
  BY <1>1, StorageInvariant, PTL DEF Spec, WholeWhileAnnounced

\* Where an accepted dataset is forgotten: only at the end of the error pattern
\* of an earlier bad message, if the callback does not preempt main.
LostInErrorPattern ==
    [][~preempts /\ current_state = "COMMISSIONED" /\ current_state' = "WAITING" => pc = "error"]_vars

\* ReturnToWaiting is the one place of nfc_commission.c where a COMMISSIONED
\* state gives way to the wait: a test of the state there would be enough.
THEOREM ForgottenOnlyInErrorPattern == Spec => LostInErrorPattern
<1>1. IInv /\ SInv /\ [Next]_vars =>
        [~preempts /\ current_state = "COMMISSIONED" /\ current_state' = "WAITING" => pc = "error"]_vars
  <2> SUFFICES ASSUME IInv, SInv, [Next]_vars, ~preempts, current_state = "COMMISSIONED",
                      current_state' = "WAITING"
               PROVE  pc = "error"
    OBVIOUS
  <2>1. StartWaiting \/ ReturnToWaiting
    BY DEF Next, MainStep, NfcEvent, Reset, BootForced, BootCheck, nfc_commission_init,
        StartEmulation, LoopTest, TakeSemaphore, CheckError, Verdict, otDatasetSetActiveTlvs,
        Lock, CallFails, otIp6SetEnabled, otThreadSetEnabled, Return, StopTimer, StopEmulation,
        FieldOn, FieldOff, EraseNdef, UpdateNdef, process_ndef_work_handler, process_ndef_message,
        OtLock, OtUnlock
  <2> QED
    BY <2>1 DEF StartWaiting, ReturnToWaiting, Main, SInv, IdleUntilArmed
<1> QED
  BY <1>1, StorageInvariant, PTL DEF Spec, LostInErrorPattern
=============================================================================
