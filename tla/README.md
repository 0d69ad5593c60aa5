# Verification of coap_server_sed_nfc_alarm

TLA+ models of the firmware of a battery-powered Thread device (nRF54L15,
Zephyr, OpenThread): a CoAP server with observable button and LED resources,
commissioned over NFC, that sleeps between polls. The models are translated
from the C code under `src/src/`, checked with TLC and, where it says so, proved
with TLAPS for every value of the constants.

## 1. Inventory

Threads and contexts of the program, which the models interleave:

| Context | Priority | Code that runs in it |
|---|---|---|
| main | preemptible | `main.c`, `nfc_commission_start`, set-up of the resources |
| system workqueue | cooperative | `process_ndef_work_handler`, `btn_notify_work_handler` |
| OpenThread thread | cooperative | request handlers, `network_state_changed_callback` |
| network monitor | cooperative (7) | `monitor_thread_entry` |
| interrupts, timers | - | `btn_gpio_callback`, `blink_timer_handler`, `alarm_pulse_timer_handler` |
| NFC callback | set by the build | `nfc_callback` |
| shell | preemptible | client requests, `ot` commands (debug build) |

| Component | State | Operations | Hard part | Correct when |
|---|---|---|---|---|
| Observe table (`coap_observe.c`) | slots with peer, token, number; `observer_count` | handle a GET with an Observe option, notify, init, clear | refused sends, full table, 24/32-bit numbers, a cached count | the count is right, one slot per peer, numbers advance by one for subscribers only |
| Button resource (`button.c`) | pins, work item, its table | interrupt, work handler with two sleeps, GET, set-up | edges while the handler sleeps or between read and send; edges during set-up | observers end with the levels of the pins |
| NFC commissioning (`nfc_commission.c`) | `current_state`, `parsed_dataset`, `dataset_ready`, semaphore, timer, mutex | init, start, stop, callback events, parse | four contexts share variables without a lock; API calls fail; resets | a good message ends the wait; only a whole dataset is stored; success means started |
| Boot (`main.c`) | - | decide on NFC, register resources, start the monitor | reset between storing the dataset and the start | a stored dataset leads to a started stack |
| Network monitor (`network_monitor.c`) | `detached_count`, grace period, `sed_mode_active` | periodic check, restart in four steps, callback | callback and checks share the count; each call may fail; pauses inside the restart | restarts are earned, nothing stays down, sleep mode comes |
| LED and alarm (`led.c`) | LED states, alarm pin, pulse timer, table | PUT, GET, timer | the timer expires inside the PUT; the state changes though the pin did not | the pulse ends; observers know the state |
| Battery and voltage (`battery.c`) | cached values, time stamp, load switch | measure, two GETs, lookup table | failed measurement, stale value, a sleep in the OpenThread thread | switch off after each read; table monotone and within 0..100 |
| Client requests (`coap_shell.c`, `button.c`, `led.c`) | one semaphore for each kind of request | send, callback, wait with time-out | an answer after the time-out | an answer belongs to its request |
| Dispatch and responses (`coap_utils.c`) | - | check type and method, size, respond | confirmable PUT goes on to the GET handler | one response for each request |
| Discovery (`coap_discovery.c`), uptime (`uptime.c`) | - | GET | length of a fixed buffer | the text fits |

Components call each other directly: request handlers of the resources call the
observe table; the table calls OpenThread. `nfc_commission_start` is called by
`main`, before any resource exists and before the monitor runs. Button and LED
keep separate tables. The OpenThread API mutex is taken in `main.c` and
`nfc_commission.c` only; the workqueue and the monitor call OpenThread without.

Everything in this code that is hard to test is listed, at its line, in
`PROJECT.json` under `hazards`, with the properties that cover it.

## 2. Modules

| Module | Models |
|---|---|
| `Observation` | abstract: what an observable resource promises its clients |
| `CoapObserve` | `coap_observe.c`, and the two responses to a GET of `coap_utils.c` |
| `CoapObserve_proofs`, `CoapObserve_refinement` | proofs about it |
| `ClientView` | history shared by the two resources that follow: what each observer was last sent |
| `ButtonResource` | `button.c`, server half; extends `ClientView` and so the table |
| `LedResource` | `led.c`, server half, behind `coap_req_handler`; extends `ClientView` |
| `ButtonResource_proofs`, `LedResource_proofs` | proofs about them; extend `CoapObserve_refinement` |
| `Commissioning` | abstract: what commissioning promises the owner of a device |
| `NfcCommission`, `NfcCommission_proofs` | `nfc_commission.c` and the NFC part of `main.c`, proofs |
| `NetworkMonitor`, `NetworkMonitor_proofs` | `network_monitor.c`, proofs |
| `Battery`, `Battery_proofs` | `battery.c`, proofs |
| `CoapClient`, `CoapClient_proofs` | the GET requests of `led.c` and `button.c`, proofs |
| `MC...` | finite values for the constants of a module |

Names follow the source: an action has the name of the function it is, or of
the library call it makes (`otIp6SetEnabled`); a variable has the name of the
C variable. Operators marked "Mutant" are slips a programmer could make in the
definition that follows them; they belong to no specification. `PROJECT.json`
maps each definition to the lines it models and gives, for every property, a
mutant under which the property fails.

### CoapObserve

One action for each outcome of `register_observer` (token updated, new slot,
full), one for deregistration, one for a GET without a usable option, and
`coap_observe_notify`, one step over all slots. The callers are cooperative
threads and nothing in these functions blocks, so that the lack of a lock, which
the repository's README (line 607) mentions, does no harm as long as every caller
stays cooperative; the model rests on that. Each slot of a notification
meets one of four outcomes: not allocated (number unchanged), not completed
(number spent), sent, refused (slot freed). `sent` holds the messages of the
latest operation. `coap_observe_clear` has no caller; as part of the interface
it is an action all the same.

`Observation` knows neither slots nor C integers. It says that a client has at
most one subscription, that a notification goes to subscribers only, under
their token, with a number that advances by one modulo 2^24, and that a
subscription is refused only when the resource is full. `CoapObserve` implements
it under the mapping `Subs`, which reads a slot as a subscription. The two
resources implement it too (`KeepsPromise` of their runs): their interrupts, PUTs,
timers and restarts are steps of the table, plain messages, or nothing to it.
`Observation` also states what its promise is worth to a client,
`NumberedReachSubscribers` and `AdvancesByOne`.

### ButtonResource

Main sets up buttons, table and work item in the order of `coap_btn_reg_rsc`;
the handler has a step for each stretch between two sleeps; a pin may change at
any point. Requests arrive while the workqueue sleeps or idles. `view`, a
history variable of `ClientView`, is a partial function: what each observer was
last sent. An observer whose latest message the stack dropped has no entry, since
the code promises it nothing before its next message. An item
submitted before `k_work_init` has a null handler; the model restarts the device.

### LedResource

A PUT is handled in one go by the OpenThread thread, but the interrupt of the
pulse timer may come between any two of its steps: `step` says where the thread
is, and the timer's handler is enabled whenever the timer runs. The first step is the
pin, the state and the notification, which the timer does not touch; then
drive and start, or stop and release; then the answer. A confirmable PUT is
answered by the GET handler, with the effect of an Observe option in it
(`AnswerPut`). The ignored result of the JSON parser needs no action of its own:
any LED and any command can be what the handler finds in its struct. (A
`led_id` below zero is not modelled: its effect is undefined.)

`SetFails` is a `gpio_pin_set_dt` that fails: the state is assigned, nobody is
told, the alarm does not follow. Observers keep what they hold in `view`, which is
no longer the state of that LED; the history variable `unannounced` names such LEDs
until the next notification. `ObserversKnow` speaks of all other LEDs: it says how
far and how long the code leaves observers behind, not that it never does. The
results of `gpio_pin_configure_dt` are ignored by the code; on this SoC it fails for wrong
flags only, which are constants here, so that the model lets it succeed.

The overlay declares the alarm pin as a child of a second `gpio-leds` node, so that
`DT_COMPAT_FOREACH_STATUS_OKAY_VARGS` makes it the last LED of the resource too. A
PUT to that LED sets its level, which shows while the pin is an output
(`gpio_pin_set`; `AlarmLeds` says which LED it is, or none).

### Battery

One step for each part of `battery_measure` that can return early. It all runs in
the OpenThread thread; time passes between requests and in the 10 ms sleep. `age`
stops counting one tick above the threshold. `last_measurement_time_ms` is `age`
plus the flag `measured`, because 0 means "never". The discharge curve is a
function on integers with the table, the search and the interpolation of the
code. `stuck` remembers that the call that switches the divider off failed: its
result is ignored, so nothing can be promised then. The initial 70 % differs
from the table's 60 % at the initial 3800 mV; both go out only after a failed
measurement (`AnswersAreFresh`). The fallback without the divider is not compiled for
this board.

### CoapClient

One shell thread, one call at a time; OpenThread ends each exchange once, at any
time, also after the call gave up. The struct on the stack (`frame`) is
abstracted to the request whose exchange filled it last and to how: whole, with
nothing (count = 0, after an error), or partly. `json_obj_parse` returns an error for text
that is not JSON, but 0 or more for a response that lacks a field; without the list
neither count nor states are written, and whether the call then succeeds, with what
the stack held, or returns -ENODEV is open (`led.c:313-317`, `button.c:287-291`). The
properties therefore say that a call succeeds only on a response to its own request,
and promise nothing about the contents of an incomplete one. A late callback writes
through a pointer to a frame that has been left; what it hits is open, and the
model lets it hit the struct of the current call or not. Requests have numbers that are used again
after their exchange has ended. The default address of the shell is a multicast
one; who answers then is not modelled.

### NfcCommission

`pc` is the position of main between two points where other contexts can run.
Main steps only while no work is queued (the workqueue outranks it). The
callback runs whenever main is blocked and, in builds where its context
outranks main, at any point: `preempts` is fixed by `Init`, so that a run covers
both. The repository sets `CONFIG_NFC_THREAD_CALLBACK=y` and no more: whether the
callback gets a thread of its own, at what priority, or runs in the system workqueue,
which outranks main, is settled by defaults outside `src/`. `late` is a history
variable: a message came since main last looked for ERROR.
Messages are abstracted to what the code tells apart: a dataset, text that stops being
hex after some bytes were converted into `parsed_dataset`, anything rejected before that. A
record with empty text converts to zero bytes and is, to the code, a dataset, as is
hex of anything else: one of `Datasets`, but not of `Networks`, those that
`otDatasetIsCommissioned` accepts. Once stored it is reported as a success, and the next
boot goes back to NFC. The three calls of the boot with sw0 held ignore their results
(`main.c:92-94`): each may fail. A reset may strike at any step; only the stored dataset
survives, and OpenThread, which starts by itself (`OPENTHREAD_MANUAL_START=n`),
then brings the stack up if it is a network's. The levels of the LED are left out; the blink timer,
which two contexts start and stop, is kept.

`Commissioning` knows neither threads nor messages: storage that holds the dataset of
a network is written to only after the owner, at this boot, has asked for it to be
emptied, is emptied at no other time, and a success is reported of a started stack.
(That it was emptied cannot be promised: the erasure may fail and is not looked at.)
`NfcCommission` implements it with `stored` read as what OpenThread has stored, `up`
as interface and Thread enabled, `asked` as `force_nfc`, `reported` as a call that
returned success. Storage may hold `Garbled`, finding 2: the
specification admits it because the code does, and `WholeWhileAnnounced` says when.

### NetworkMonitor

One step of the thread from each `k_sleep` to the next; time passes in ticks
while it sleeps. Every OpenThread call may fail. Attachments, losses and shell
commands happen at any time; the callback is delivered after a role change and
reads the role of that moment. Roles "router" and "leader" cannot occur in an MTD
build. `grace` and `quiet` (history: time since an attachment or a restart) stop
counting at the largest value the code or a property tells apart. `last_role` is
only logged.

## 3. Runs

| Run | Result | What it shows |
|---|---|---|
| `observe_table` | passes | types, `CountMatches`, `OneSlotPerPeer`, `NumberedReachSubscribers`, `KeepsPromise` (refinement) |
| `nfc_commission` | passes | seven invariants, among them `AbortOnlyByLateMessage`; `WholeWhileAnnounced`, `KeepsPromise` (refinement of `Commissioning`), `RetryEndsTheWait` |
| `nfc_forgotten` | violated | a dataset written during the error pattern is forgotten (line 462) |
| `nfc_garbled` | violated | part of a bad message is stored when it arrives while main waits for the mutex |
| `button_resource` | passes | `QuietMeansCurrent`, `SettledMeansCurrent`, `KeepsPromise` |
| `button_work` | violated | an edge during set-up submits a work item without a handler |
| `network_monitor` | passes | two invariants, `RestartOnlyAfterDelays`, `RestartDrawsNear`, `LinkModeChangesTwice`, three liveness properties |
| `monitor_minute` | violated | the restart comes after 50 s, not after the documented minute |
| `led_resource` | passes | `DrivenOnlyWithTimer`, `SilentWhenOff`, `ObserversKnow`, `KeepsPromise`, `PulseEnds` |
| `battery` | passes | `SwitchReleased`, `AnswersAreFresh`, `OrderKept`, percentages in 0..100 |
| `client` | passes | before a time-out a call succeeds only on a response to its own request, and is woken by it |
| `client_late` | violated | a late answer wakes the next call |

Bounds, and why they are enough:

- `observe_table`: three clients and two slots (the code has four), so that the table
  fills while another client asks, and freed slots lie before and after used ones;
  `Width32 = 4`, `Width24 = 2`: both wraps occur, at different times. The option
  values 0, 1, 2 and 4 are register, deregister, unknown, and a value the cast to
  `uint32_t` turns into a registration.
- `button_resource`: two buttons, two clients, one token; the wraps are not of
  interest here and the counters are as small as they can be.
- `nfc_commission`: two datasets tell a stale one from the latest; one is a
  network's and one is not, for both answers of OpenThread at boot. Everything else
  is finite by itself.
- `network_monitor`: short delays and a limit of three keep the order of the real
  ones (pause < interval < delay). `monitor_minute` uses the real limit 6 and the
  real proportions of interval, delay and grace period in ticks of 5 s; a pause
  is one tick.
- `led_resource`: two LEDs, the second one the alarm pin, as on the board; two
  clients and one slot: one client observes while the other one commands, and is
  refused when it asks to observe as well. Two tokens and numbers that wrap at two,
  so that answers can be told apart. Two observers at a time are in `observe_table` and
  `button_resource`; the theorems about the LED resource hold for any number.
- `battery`: every joint of the curve with the voltages around it, so that all 20
  segments and both ends are hit; a threshold of three ticks. What holds
  for all integers is proved.
- `client`: `MaxOpen` = 4 requests that have not ended: two of one kind suffice for
  a late answer to meet the next call, the others are of the other kind.

Fairness:

- NFC: work and the release of the mutex are weakly fair; main is strongly fair,
  because messages and mutex hand-overs, which disable it, last for moments only.
  `RetryEndsTheWait` additionally assumes, in its statement, that resets and bad
  messages end one day, and concludes that the call returns or phones stop writing.
- Button: the workqueue runs when it has work (its priority is above main's).
- LED: a handler runs to its end (its thread is cooperative and never blocks in
  it), and a started timer expires, unless it is restarted within its second.
- Monitor: time, the thread and the callback are weakly fair. The setting of the
  link mode and the two re-enabling calls are strongly fair: retried for ever,
  they succeed one day. `IsReEnabled` assumes the shell stops taking the
  interface down.

No run switches deadlock checking off.

## 4. Proofs

All for every value of the constants, under the `ASSUME`s of the modules.

- `TableIsSound` (`CoapObserve_proofs`): types, `CountMatches`, `OneSlotPerPeer`. The
  conjunction is inductive. The lemmas are about cardinalities of the set of
  active slots when a slot is taken, freed, or several are freed in one round.
- `TableKeepsPromise` (`CoapObserve_refinement`): `TableSpec => Promise!Spec`.
  It needs the theorem above (uniqueness makes the slot of a peer its
  subscription; the count of active slots is the number of subscriptions) and
  `WireAdvances`, that the 24-bit number advances by one also where the 32-bit
  counter wraps, because one width divides the other.
- `PromiseIsWorth`: whatever implements `Observation` sends a numbered message to a
  subscriber only, and the number of a kept subscription advances by one. The proof is
  about the abstract specification alone; `NumbersReachObservers` follows
  from it and the refinement, with nothing said about slots again.
- `ButtonKeepsPromise`, `LedKeepsPromise`: both resources implement `Observation`. The
  lemmas `HandleIsPromised`, `ResponseIsPromised`, `SilenceIsPromised` and
  `NotifyNotifies` say which abstract step a call of the table is; one proof step for each
  action of the resource then names the call. The table part of the resources'
  invariants is what those lemmas assume.
- `CommissioningIsSafe` (`NfcCommission_proofs`): the type invariant and six safety
  invariants. They are not inductive alone; `IInv` adds how far
  `apply_stored_dataset` has come, that an announced dataset is ready, that queued
  work holds main at a point where it blocks, that an ERROR at the loop condition is
  that of a late message (`LoopSeesErrors`), and where the timer is off.
- `AbortNeedsLateMessage`: in both kinds of build -EIO comes of one window only, between
  main's last test for ERROR and the loop condition or behind it, and only where the
  callback preempts main. Every bad message before that window is retried.
- `CommissioningKeepsPromise`: `Spec => Promise!Spec`. `IInv` is not enough; `SInv` adds
  that storage holds no network's dataset until main stores one, unless sw0 was held
  and the erasure failed (`EmptyUntilStored`),
  that the buffer is whole while the state is COMMISSIONED (`WholeBuffer`) and that,
  where the callback does not preempt main, no message comes before the wait
  (`IdleUntilArmed`).
- `WaitIsNeverDead`: the loop never waits in IDLE, nor in PROCESSING without queued
  work: the part of `RetryEndsTheWait` that does not rest on fairness.
- `GarbledMeansSuperseded` and `ForgottenOnlyInErrorPattern` say how far findings 2
  and 1 reach: a mixture is stored only if a later message took the state away from
  COMMISSIONED before main's call, and, where the callback does not preempt main, an
  accepted dataset is forgotten at the end of the error pattern and nowhere else. A
  second look at the state in these two places would close both. In the same way
  `ReadyStaysReady` confines finding 3 to the set-up of the button, and
  `RestartIsEarned`, `AnswersAreOwn` say what holds of findings 4 and 5.
- `MonitorIsSafe`, `RestartIsEarned` (`NetworkMonitor_proofs`): `SleepyMeansGraceOver`
  and `RestartOnlyAfterDelays`. The strengthening is `CountedDelays`: time without
  an attachment plus the rest of the current sleep is at least the counted
  checks times the delay, except between an attachment and its callback.
- `RestartIsCountedDown`: while a device stays detached, `Rest`, the current sleep
  and the delays still to be counted, falls by one with each tick and never rises. It is
  the part of `StuckIsRestarted` that does not rest on fairness: given that time
  goes on, the restart comes after as many ticks as `Rest` says.
- `LinkModeIsPlanned`: whichever calls fail, the receiver goes on at the first
  attachment only and off after the grace period, which never starts anew.
- `NoEdgeIsLost`, `ButtonTypesHold` (`ButtonResource_proofs`). The strengthening
  (`Fresh`) says that the buffer about to be sent holds the levels of the armed
  buttons unless another round is queued, and (`Order`) that nobody observes before
  `k_work_init`. `Prefix`, that buttons are armed in their order, gives the types.
- `SirenIsReleased`, `OffSilences`, `ObserversAreTold`, `LedTypesHold`
  (`LedResource_proofs`). `Alarm` says for each position in a PUT what pin and timer
  may be; it is inductive because the order in the code is stop, then release. `Viewed`
  says that entries are right outside `unannounced`. From
  it also `OnlyLedZeroSounds`: the LED that shares the alarm pin can change the level
  of a pulse that LED 0 ordered, and never begin one.
- `TableIsCurve` (`Battery_proofs`): the table search equals a curve in three
  straight pieces, for every integer; hence `PercentagesAreOrdered`, and from it
  `OrderIsKept` and `BatteryTypes`. `SwitchIsReleased`, `FreshAnswers` follow
  from an invariant on the positions in a measurement.
- `AnswersAreOwn`, `WakeUpsAreOwn`, `ClientTypes` (`CoapClient_proofs`): of a kind of which no call
  timed out, only the exchange of the current call is open, and its
  semaphore is given only after that exchange ended and wrote to the struct what it
  brought, or count = 0.

The two resources carry the table's invariant through their own steps with the
lemmas of `CoapObserve_proofs`.

Only model-checked: the liveness properties (`RetryEndsTheWait`, `SettledMeansCurrent`,
`GraceEnds`, `StuckIsRestarted`, `IsReEnabled`, `PulseEnds`), which rest on fairness and
ENABLED and are out of the prover's reach. Every invariant, action property and
refinement of a passing run is proved. The theorems without a run of their own
(`PromiseIsWorth`, `WaitIsNeverDead`, `ReadyStaysReady`, `OnlyLedZeroSounds`, `ForgottenOnlyInErrorPattern`
and the two on the curve) are proved only.

## 5. Findings

The five violated runs, each quoted with its line in `PROJECT.json`:

1. `nfc_commission.c:462` overwrites COMMISSIONED with WAITING after the error pattern.
2. `nfc_commission.c:161` applies a buffer that a later bad message may have changed.
3. `button.c:223` enables interrupts before the work item exists.
4. `network_monitor.c:243` restarts after 50 s where comment and README say one minute.
5. `led.c:334` (and `button.c:308`) takes a semaphore that an earlier request of the same
   kind may have given after its time-out.

Noticed while modelling, single lines that need no model: `button.c:307` says 30
seconds where the code waits 10; `coap_shell.c:58` and `:91` test `argc <= 3`
where at most three arguments are accepted, so that the address given to a `get`
is never used; when the timer of an earlier pulse expires between `led.c:140` and
`:141`, the new pulse has no output (the model has this behaviour, and the
properties only say that the pin is not left driven); `uptime.c:18` describes a
64-bit number as a 32-bit one; where the NFC callback preempts main, as in the system
workqueue, a bad message between `nfc_commission.c:449` and `:444` ends the call
with -EIO, while the repository's README (line 284) says "Invalid data, retry"
(`AbortOnlyByLateMessage` says that it is the only way); a GET of the shell can succeed with
uninitialised contents when the response lacks its list (`led.c:313`, `button.c:287`); an
empty or incomplete dataset is reported as a success (`nfc_commission.c:107`).

## 6. Not modelled

- Logs, JSON text, LED colours, `last_notify` and `last_role` (written, never used),
  `network_monitor_stop` (never called), build files.
- Uptime: a stateless read. Discovery: a fixed text of 103 characters in a buffer of 128.
- The registration of the LED and battery resources: one call each in `main`,
  before a request can reach them. The fault before `k_work_init` is why the button's set-up
  is modelled. The default handler only logs; the device id is computed once.
- Contention for the OpenThread API mutex: the workqueue and the monitor call the
  API without it. What two calls at once do lies in OpenThread, outside this
  repository; the code here could only be shown not to lock, which a reader sees.
- The delivery order of notifications at a client: `Observation` states what the
  device promises, numbers that advance by one.
- The shell's PUT, which waits for nothing, and the parsing of its arguments.

What could be added: the safety part of the monitor's other liveness properties, as
`RestartIsCountedDown` is for one of them; a composition of commissioning, registration
and monitor over resets, with an abstract device that is commissioned, then joined,
then sleepy.
