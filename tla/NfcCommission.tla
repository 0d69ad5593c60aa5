--------------------------- MODULE NfcCommission ---------------------------
(***************************************************************************)
(* Commissioning over NFC: nfc_commission.c and the part of main.c that    *)
(* calls it.  Four actors meet here: the main thread, preemptible; the NFC *)
(* callback; the system workqueue, which outranks main; and the OpenThread *)
(* thread, which shares the API mutex.  A reset may strike at any step and *)
(* only the dataset OpenThread has stored survives it.                     *)
(***************************************************************************)
EXTENDS Naturals

CONSTANTS Datasets,   \* what a phone may write as hex, the empty text included
          Networks,   \* those among them that are the dataset of a network
          NoData,     \* nothing stored
          Garbled     \* bytes of a valid dataset partly overwritten by a bad one

ASSUME DatasetAssumption ==
    /\ NoData # Garbled /\ NoData \notin Datasets /\ Garbled \notin Datasets
    /\ Networks \subseteq Datasets

VARIABLES pc,             \* where the main thread is
          current_state,  \* enum nfc_commission_state
          dataset_ready, parsed_dataset,
          ndef,           \* ndef_msg_buf, what the phone left in the tag
          work,           \* process_ndef_work is queued
          sem,            \* ndef_updated_sem
          blink,          \* blink_timer: off, or its period
          emulating,      \* the tag answers the reader
          field,          \* a phone is near
          preempts,       \* the callback's context outranks main, as the system
                          \* workqueue does; fixed by the build
          force_nfc,      \* sw0 was held at this boot
          late,           \* history: a message came since main last looked for ERROR
          mutex,          \* the OpenThread API mutex
          dataset,        \* the active dataset in persistent storage
          ip6, thread,    \* OpenThread's interface and stack are enabled
          ret             \* what nfc_commission_start returned

appVars  == <<current_state, dataset_ready, parsed_dataset, late>>
bootVars == <<preempts, force_nfc>>
nfcVars  == <<ndef, emulating, field, bootVars>>
otVars   == <<dataset, ip6, thread>>
vars     == <<pc, appVars, nfcVars, work, sem, blink, mutex, otVars, ret>>

\* A message is a dataset, text that stops being hex after some bytes were
\* converted, or something rejected before the first byte; "erased" is NLEN = 0.
BadMessages == {"unhex", "unparsed"}
Messages    == Datasets \cup BadMessages

States    == {"IDLE", "WAITING", "PROCESSING", "COMMISSIONED", "ERROR"}
ApiCalls  == {"set", "ip6", "thread"}
Locations == {"boot", "init", "start", "arm", "loop", "take", "check", "error", "verdict",
              "lock", "wait", "failed", "success", "stop", "stop2", "done"} \cup ApiCalls

\* Main holds the CPU only while no work item is queued: the workqueue thread
\* is cooperative and process_ndef_work_handler never blocks.
Main(from) == pc = from /\ ~work

\* Main sleeps or waits, so that lower priorities run too.
MainBlocked == \/ pc \in {"error", "wait", "failed", "success", "done"}
               \/ pc = "take" /\ sem = 0

-----------------------------------------------------------------------------
Init ==
    /\ pc = "boot" /\ current_state = "IDLE" /\ ret = "none"
    /\ dataset_ready = FALSE /\ parsed_dataset = NoData
    /\ ndef = "erased" /\ work = FALSE /\ sem = 0 /\ blink = "off"
    /\ emulating = FALSE /\ mutex = "free" /\ field = FALSE
    /\ preempts \in BOOLEAN /\ force_nfc = FALSE /\ late = FALSE
    /\ dataset = NoData
    /\ ip6 \in BOOLEAN /\ thread \in BOOLEAN

\* OpenThread starts itself from the stored dataset of a network; without one
\* it is not said.
Reset ==
    /\ pc' = "boot" /\ current_state' = "IDLE" /\ ret' = "none"
    /\ dataset_ready' = FALSE /\ parsed_dataset' = NoData
    /\ ndef' = "erased" /\ work' = FALSE /\ sem' = 0 /\ blink' = "off"
    /\ emulating' = FALSE /\ mutex' = "free"
    /\ ip6' \in BOOLEAN /\ thread' \in BOOLEAN
    /\ dataset \in Networks => ip6' /\ thread'
    /\ force_nfc' = FALSE /\ late' = FALSE
    /\ UNCHANGED <<field, preempts, dataset>>

-----------------------------------------------------------------------------
\* main(): sw0 held erases the stored dataset, under the mutex, and nobody looks
\* whether the three calls worked; otherwise NFC starts only when OpenThread
\* finds no commissioned dataset.  Whether a garbled one counts is OpenThread's
\* decision; one that is no network's does not.
BootForced ==
    /\ Main("boot") /\ mutex = "free"
    /\ force_nfc' = TRUE
    /\ thread' \in {thread, FALSE} /\ ip6' \in {ip6, FALSE} /\ dataset' \in {dataset, NoData}
    /\ pc' = "init"
    /\ UNCHANGED <<appVars, ndef, emulating, field, preempts, work, sem, blink, mutex, ret>>

\* Mutant: the answer of otDatasetIsCommissioned is not used.
BootAlwaysInit ==
    /\ Main("boot") /\ mutex = "free"
    /\ pc' = "init"
    /\ UNCHANGED <<appVars, nfcVars, work, sem, blink, mutex, otVars, ret>>

BootCheck ==
    /\ Main("boot") /\ mutex = "free"
    /\ \/ dataset \notin Networks /\ pc' = "init"
       \/ dataset \in Networks \cup {Garbled} /\ pc' = "done"
    /\ UNCHANGED <<appVars, nfcVars, work, sem, blink, mutex, otVars, ret>>

\* nfc_commission_init: on an error main goes on without NFC.
nfc_commission_init ==
    /\ Main("init")
    /\ \/ pc' = "start" /\ current_state' = "IDLE"
       \/ pc' = "done"  /\ UNCHANGED current_state
    /\ UNCHANGED <<dataset_ready, parsed_dataset, late, nfcVars, work, sem, blink, mutex,
                   otVars, ret>>

StartEmulation ==
    /\ Main("start")
    /\ \/ emulating' = TRUE /\ pc' = "arm" /\ UNCHANGED ret
       \/ ret' = "emulation_error" /\ pc' = "stop" /\ UNCHANGED emulating
    /\ UNCHANGED <<appVars, ndef, field, bootVars, work, sem, blink, mutex, otVars>>

\* The state is set after the tag already answers.
StartWaiting ==
    /\ Main("arm")
    /\ current_state' = "WAITING" /\ late' = FALSE /\ blink' = "slow" /\ pc' = "loop"
    /\ UNCHANGED <<dataset_ready, parsed_dataset, nfcVars, work, sem, mutex, otVars, ret>>

LoopTest ==
    /\ Main("loop")
    /\ IF current_state \in {"WAITING", "PROCESSING"}
         THEN pc' = "take" /\ UNCHANGED blink
         ELSE pc' = "verdict" /\ blink' = "off"
    /\ UNCHANGED <<appVars, nfcVars, work, sem, mutex, otVars, ret>>

\* k_sem_take returns with the semaphore or after 100 ms; nobody looks which.
TakeSemaphore ==
    /\ Main("take")
    /\ sem' = 0 /\ pc' = "check"
    /\ UNCHANGED <<appVars, nfcVars, work, blink, mutex, otVars, ret>>

\* Mutant: the check for ERROR is missing.
NeverCheckError ==
    /\ Main("check") /\ pc' = "loop" /\ late' = FALSE
    /\ UNCHANGED <<current_state, dataset_ready, parsed_dataset, nfcVars, work, sem, blink,
                   mutex, otVars, ret>>

CheckError ==
    /\ Main("check")
    /\ pc' = IF current_state = "ERROR" THEN "error" ELSE "loop"
    /\ late' = FALSE
    /\ UNCHANGED <<current_state, dataset_ready, parsed_dataset, nfcVars, work, sem, blink,
                   mutex, otVars, ret>>

\* After 1.1 s of error pattern the state is overwritten, whatever it is now.
\* Mutant: the retry does not restart the slow pattern.
ReturnWithoutBlink ==
    /\ Main("error")
    /\ current_state' = "WAITING" /\ late' = FALSE /\ pc' = "loop"
    /\ UNCHANGED <<dataset_ready, parsed_dataset, nfcVars, work, sem, blink, mutex, otVars, ret>>

ReturnToWaiting ==
    /\ Main("error")
    /\ current_state' = "WAITING" /\ late' = FALSE /\ blink' = "slow" /\ pc' = "loop"
    /\ UNCHANGED <<dataset_ready, parsed_dataset, nfcVars, work, sem, mutex, otVars, ret>>

Verdict ==
    /\ Main("verdict")
    /\ IF current_state # "COMMISSIONED" THEN ret' = "EIO" /\ pc' = "stop"
       ELSE IF ~dataset_ready THEN ret' = "ENODATA" /\ pc' = "failed"
       ELSE pc' = "lock" /\ UNCHANGED ret
    /\ UNCHANGED <<appVars, nfcVars, work, sem, blink, mutex, otVars>>

\* apply_stored_dataset from openthread_mutex_lock on: main takes the mutex
\* or queues for it.
Lock ==
    /\ Main("lock")
    /\ \/ mutex = "free" /\ mutex' = "main" /\ pc' = "set"
       \/ mutex = "ot" /\ pc' = "wait" /\ UNCHANGED mutex
    /\ UNCHANGED <<appVars, nfcVars, work, sem, blink, otVars, ret>>

\* Mutant: an error return forgets to unlock.
CallFailsLocked ==
    /\ pc \in ApiCalls /\ ~work
    /\ ret' = "apply_error" /\ pc' = "failed"
    /\ UNCHANGED <<appVars, nfcVars, work, sem, blink, mutex, otVars>>

\* Each of the three calls may fail, and then unlocks before it returns.
CallFails ==
    /\ pc \in ApiCalls /\ ~work
    /\ mutex' = "free" /\ ret' = "apply_error" /\ pc' = "failed"
    /\ UNCHANGED <<appVars, nfcVars, work, sem, blink, otVars>>

otDatasetSetActiveTlvs ==
    /\ Main("set")
    /\ dataset' = parsed_dataset /\ pc' = "ip6"
    /\ UNCHANGED <<appVars, nfcVars, work, sem, blink, mutex, ip6, thread, ret>>

\* Mutant: the result of otIp6SetEnabled is ignored.
Ip6ErrorIgnored ==
    /\ Main("ip6")
    /\ ip6' \in {ip6, TRUE} /\ pc' = "thread"
    /\ UNCHANGED <<appVars, nfcVars, work, sem, blink, mutex, dataset, thread, ret>>

otIp6SetEnabled ==
    /\ Main("ip6")
    /\ ip6' = TRUE /\ pc' = "thread"
    /\ UNCHANGED <<appVars, nfcVars, work, sem, blink, mutex, dataset, thread, ret>>

otThreadSetEnabled ==
    /\ Main("thread")
    /\ thread' = TRUE /\ mutex' = "free" /\ dataset_ready' = FALSE /\ pc' = "success"
    /\ UNCHANGED <<current_state, parsed_dataset, late, nfcVars, work, sem, blink, dataset, ip6,
                   ret>>

\* The LED pattern that follows, and the return.
Return ==
    /\ pc \in {"failed", "success"} /\ ~work
    /\ ret' = IF pc = "success" THEN "success" ELSE ret
    /\ pc' = "stop"
    /\ UNCHANGED <<appVars, nfcVars, work, sem, blink, mutex, otVars>>

\* Mutant: the timer is not stopped.
StopWithoutTimer ==
    /\ Main("stop") /\ pc' = "stop2"
    /\ UNCHANGED <<appVars, nfcVars, work, sem, blink, mutex, otVars, ret>>

StopTimer ==
    /\ Main("stop")
    /\ blink' = "off" /\ pc' = "stop2"
    /\ UNCHANGED <<appVars, nfcVars, work, sem, mutex, otVars, ret>>

\* A failed emulation stop is only logged.
StopEmulation ==
    /\ Main("stop2")
    /\ emulating' \in {emulating, FALSE}
    /\ current_state' = "IDLE" /\ pc' = "done"
    /\ UNCHANGED <<dataset_ready, parsed_dataset, late, ndef, field, bootVars, work, sem, blink,
                   mutex, otVars, ret>>

MainStep == \/ BootForced \/ BootCheck \/ nfc_commission_init \/ StartEmulation \/ StartWaiting
            \/ LoopTest \/ TakeSemaphore \/ CheckError \/ ReturnToWaiting \/ Verdict
            \/ Lock \/ CallFails \/ otDatasetSetActiveTlvs \/ otIp6SetEnabled
            \/ otThreadSetEnabled \/ Return \/ StopTimer \/ StopEmulation

-----------------------------------------------------------------------------
\* nfc_callback, one action for each event, while the tag is emulated.
CallbackRuns == emulating /\ (preempts \/ MainBlocked)

FieldOn ==
    /\ CallbackRuns /\ ~field
    /\ field' = TRUE /\ blink' = "fast"
    /\ UNCHANGED <<pc, appVars, ndef, emulating, bootVars, work, sem, mutex, otVars, ret>>

FieldOff ==
    /\ CallbackRuns /\ field
    /\ field' = FALSE
    /\ blink' = IF current_state = "WAITING" THEN "slow" ELSE blink
    /\ UNCHANGED <<pc, appVars, ndef, emulating, bootVars, work, sem, mutex, otVars, ret>>

\* A writer first sets NLEN to 0: an update of length 0, which is ignored.
EraseNdef ==
    /\ CallbackRuns /\ field
    /\ ndef' = "erased"
    /\ UNCHANGED <<pc, appVars, emulating, field, bootVars, work, sem, blink, mutex, otVars, ret>>

\* Mutant: work is submitted only for a message that comes while waiting.
UpdateWhileWaiting(m) ==
    /\ CallbackRuns /\ field
    /\ ndef' = m
    /\ current_state' = "PROCESSING" /\ work' = (work \/ current_state = "WAITING")
    /\ late' = TRUE
    /\ UNCHANGED <<pc, dataset_ready, parsed_dataset, emulating, field, bootVars, sem, blink,
                   mutex, otVars, ret>>

UpdateNdef(m) ==
    /\ CallbackRuns /\ field
    /\ ndef' = m
    /\ current_state' = "PROCESSING" /\ work' = TRUE /\ late' = TRUE
    /\ UNCHANGED <<pc, dataset_ready, parsed_dataset, emulating, field, bootVars, sem, blink,
                   mutex, otVars, ret>>

\* Mutant: text that is not hex is stored as it stands.
StoreAnything == ndef

\* hex_to_binary writes the bytes before it meets one that is not hex.
hex_to_binary == IF ndef \in Datasets THEN ndef
                 ELSE IF ndef = "unhex" THEN Garbled ELSE parsed_dataset

\* Mutant: an error of hex_to_binary is not passed on.
AcceptUnhex == IF ndef \in Datasets \cup {"unhex"} THEN "COMMISSIONED" ELSE "ERROR"

process_ndef_message == IF ndef \in Datasets THEN "COMMISSIONED" ELSE "ERROR"

process_ndef_work_handler ==
    /\ work
    /\ work' = FALSE /\ sem' = 1
    /\ parsed_dataset' = hex_to_binary
    /\ dataset_ready' = (dataset_ready \/ ndef \in Datasets)
    /\ current_state' = process_ndef_message
    /\ UNCHANGED <<pc, late, nfcVars, blink, mutex, otVars, ret>>

\* The OpenThread thread takes the API mutex for its own work; unlocking a
\* k_mutex hands it to the thread that waits.
OtLock ==
    /\ mutex = "free" /\ mutex' = "ot"
    /\ UNCHANGED <<pc, appVars, nfcVars, work, sem, blink, otVars, ret>>

OtUnlock ==
    /\ mutex = "ot"
    /\ \/ pc = "wait" /\ mutex' = "main" /\ pc' = "set"
       \/ pc # "wait" /\ mutex' = "free" /\ UNCHANGED pc
    /\ UNCHANGED <<appVars, nfcVars, work, sem, blink, otVars, ret>>

NfcEvent == FieldOn \/ FieldOff \/ EraseNdef \/ \E m \in Messages : UpdateNdef(m)

Next == MainStep \/ NfcEvent \/ process_ndef_work_handler \/ OtLock \/ OtUnlock \/ Reset

Spec == Init /\ [][Next]_vars

\* Threads run when they can.  Main cannot while a work item is queued or, at
\* boot, the mutex is taken; messages are milliseconds apart and the mutex is
\* held briefly, so that main, enabled again and again, steps.
Fairness == SF_vars(MainStep) /\ WF_vars(process_ndef_work_handler) /\ WF_vars(OtUnlock)

FairSpec == Spec /\ Fairness

-----------------------------------------------------------------------------
\* Every variable of nfc_commission.c keeps its type.
TypeOK ==
    /\ pc \in Locations /\ current_state \in States
    /\ dataset_ready \in BOOLEAN /\ parsed_dataset \in Datasets \cup {NoData, Garbled}
    /\ ndef \in Messages \cup {"erased"} /\ work \in BOOLEAN /\ sem \in 0 .. 1
    /\ blink \in {"off", "slow", "fast"} /\ emulating \in BOOLEAN /\ field \in BOOLEAN
    /\ preempts \in BOOLEAN /\ force_nfc \in BOOLEAN /\ late \in BOOLEAN
    /\ mutex \in {"free", "main", "ot"}
    /\ dataset \in Datasets \cup {NoData, Garbled} /\ ip6 \in BOOLEAN /\ thread \in BOOLEAN
    /\ ret \in {"none", "success", "EIO", "ENODATA", "emulation_error", "apply_error"}

\* The API mutex is main's exactly while main is between lock and unlock of
\* apply_stored_dataset: no error return keeps it, no call is made without it.
MutexHeldAroundApi == mutex = "main" <=> pc \in ApiCalls

\* apply_stored_dataset always finds the dataset that the workqueue announced
\* by the COMMISSIONED state, whatever messages follow before it looks.
NeverWithoutDataset == ret # "ENODATA"

\* nfc_commission_start returns 0 only with a dataset in storage and both the
\* interface and the stack enabled, whatever the phone and resets did.
SuccessMeansStarted == ret = "success" => dataset # NoData /\ ip6 /\ thread

\* While main waits, no phone is near and no message is in work, the LED
\* shows the slow pattern: field events and the error pattern race for it.
SlowBlinkWhileWaiting ==
    pc \in {"loop", "take", "check"} /\ current_state = "WAITING" /\ ~field => blink = "slow"

\* A bad message is answered with a retry.  It ends the call with -EIO only if
\* it came after main had last looked for ERROR, between that test and the loop
\* condition or behind it, and the callback preempts main; so no bad message of
\* an earlier round is ever left unseen, in either kind of build.
AbortOnlyByLateMessage == ret = "EIO" => preempts /\ late

\* Where the callback cannot preempt main, the blink timer stays off once the
\* tag is off: no field event restarts it between the two stops.
BlinkStaysOff == ~preempts /\ pc = "done" /\ ~emulating => blink = "off"

\* If resets, bad messages and erasures that overtake the workqueue end one
\* day, then nfc_commission_start returns, unless phones stop writing datasets:
\* however often it retried, the loop is still able to see a good message.
WriteDataset == \E d \in Datasets : UpdateNdef(d)
Disturbance  == Reset \/ (\E m \in BadMessages : UpdateNdef(m)) \/ (EraseNdef /\ work)
RetryEndsTheWait ==
    <>[][~Disturbance]_vars => (<>[](pc = "done") \/ <>[][~WriteDataset]_vars)

\* Across resets, retries and failed calls: storage that holds the dataset of
\* a network is written to again only at a boot where sw0 is held, and a success
\* that is reported rests on a started stack.
Promise == INSTANCE Commissioning WITH stored <- dataset, up <- ip6 /\ thread,
                                       asked <- force_nfc, reported <- ret = "success"

KeepsPromise == Promise!Spec

\* A partly converted message is stored only if main no longer finds the state
\* that let it go on to apply_stored_dataset: while COMMISSIONED stands, the
\* buffer is whole, whatever came between.
WholeWhileAnnounced ==
    [][dataset' = Garbled /\ dataset # Garbled => current_state # "COMMISSIONED"]_vars

\* A dataset the workqueue has accepted is not forgotten: the COMMISSIONED
\* state gives way to success or to another message, never to the wait.  (Asked
\* of builds where the callback does not preempt main.)
AcceptedIsNotForgotten ==
    [][~preempts /\ current_state = "COMMISSIONED" => current_state' # "WAITING"]_vars

\* Only bytes that one message brought as a whole reach persistent storage.
OnlyWholeDatasets == ~preempts => dataset # Garbled
=============================================================================
