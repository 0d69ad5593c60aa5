--------------------------- MODULE NetworkMonitor ---------------------------
(***************************************************************************)
(* network_monitor.c: the thread that watches the Thread role, restarts    *)
(* the stack when attachment fails and puts the device to sleep after the  *)
(* discovery grace period.  The thread is cooperative and OpenThread calls *)
(* do not block it, so a step reaches from one k_sleep to the next.  Time  *)
(* passes in ticks, and only while the thread sleeps.                      *)
(***************************************************************************)
EXTENDS Integers

CONSTANTS MonitorInterval, ReconnectDelay,  \* in ticks
          ShortPause,       \* the 100 and 500 ms pauses, in ticks
          MaxDetached,      \* MAX_DETACHED_COUNT
          GracePeriod       \* SED_DISCOVERY_GRACE_PERIOD_MS, in ticks

ASSUME DelayAssumption ==
    /\ MonitorInterval \in Nat \ {0} /\ ReconnectDelay \in Nat \ {0}
    /\ ShortPause \in Nat \ {0}
    /\ MaxDetached \in Nat \ {0} /\ GracePeriod \in Nat \ {0}

VARIABLES pc,               \* the next step of the monitor thread
          sleep,            \* ticks until the thread wakes
          detached_count,
          grace,            \* ticks since grace_period_start
          sed_mode_active,
          role, ip6,        \* OpenThread: device role, interface enabled
          rxOn,             \* OpenThread: RxOnWhenIdle of the link mode
          changed,          \* a role change whose callback is still to come
          quiet             \* history: ticks since an attachment or a restart

graceVars == <<grace, sed_mode_active, rxOn>>
vars == <<pc, sleep, detached_count, graceVars, role, ip6, changed, quiet>>

NotStarted == -1
Roles      == {"disabled", "detached", "child"}
Locations  == {"check", "ifdown", "ifup", "start"}
QuietBound == MaxDetached * ReconnectDelay   \* history beyond it is not told apart

\* An OpenThread device boots sleepy (CONFIG_OPENTHREAD_MTD_SED) and starts on
\* its own; the monitor finds it in any role.
Init == /\ pc = "check" /\ sleep = 0 /\ detached_count = 0
        /\ grace = NotStarted /\ sed_mode_active = FALSE /\ rxOn = FALSE
        /\ role \in Roles /\ ip6 \in BOOLEAN
        /\ changed = FALSE /\ quiet = 0

Awake(at) == pc = at /\ sleep = 0

Enter(r) == /\ role' = r
            /\ changed' = (changed \/ r # role)
            /\ quiet' = IF r = "child" THEN 0 ELSE quiet

-----------------------------------------------------------------------------
\* otThreadSetLinkMode may fail; only the second call is tried again.
sed_disable_sleep_mode == \/ rxOn' = TRUE /\ sed_mode_active' = FALSE
                          \/ UNCHANGED <<rxOn, sed_mode_active>>

\* Mutant: the flag is set whether or not the call succeeded.
SleepRegardless == rxOn' \in {rxOn, FALSE} /\ sed_mode_active' = TRUE

sed_enable_sleep_mode == \/ rxOn' = FALSE /\ sed_mode_active' = TRUE
                         \/ UNCHANGED <<rxOn, sed_mode_active>>

\* Mutant: each attachment that finds the receiver off starts the period anew.
GraceAtAttachment == role = "child" /\ ~rxOn

GraceStarts == grace = NotStarted /\ role = "child"

\* Mutant: the end of the grace period is looked for only while attached.
GraceOverAttached == grace >= GracePeriod /\ ~sed_mode_active /\ role = "child"

GraceOver == grace >= GracePeriod /\ ~sed_mode_active

GracePart ==
    \/ GraceStarts /\ grace' = 0 /\ sed_disable_sleep_mode
    \/ GraceOver /\ sed_enable_sleep_mode /\ UNCHANGED grace
    \/ ~GraceStarts /\ ~GraceOver /\ UNCHANGED graceVars

\* The five ways through the body of the loop.  Every OpenThread call may fail.
Ip6Down ==
    /\ Awake("check") /\ GracePart
    /\ ~ip6
    /\ ip6' \in BOOLEAN
    /\ sleep' = ShortPause
    /\ UNCHANGED <<pc, detached_count, role, changed, quiet>>

\* Mutant: the check is not counted.
StillDetachedUncounted ==
    /\ Awake("check") /\ GracePart
    /\ ip6 /\ role = "detached" /\ detached_count + 1 < MaxDetached
    /\ sleep' = ReconnectDelay
    /\ UNCHANGED <<pc, detached_count, role, ip6, changed, quiet>>

StillDetached ==
    /\ Awake("check") /\ GracePart
    /\ ip6 /\ role = "detached" /\ detached_count + 1 < MaxDetached
    /\ detached_count' = detached_count + 1
    /\ sleep' = ReconnectDelay
    /\ UNCHANGED <<pc, role, ip6, changed, quiet>>

\* thread_force_restart stops Thread; its pauses let the rest of the program
\* run before the interface goes down, goes up and Thread starts again.
ForceRestart ==
    /\ Awake("check") /\ GracePart
    /\ ip6 /\ role = "detached" /\ detached_count + 1 >= MaxDetached
    /\ detached_count' = detached_count + 1
    /\ \E r \in {role, "disabled"} : Enter(r)
    /\ pc' = "ifdown" /\ sleep' = ShortPause
    /\ UNCHANGED ip6

\* Mutant: Thread is not started again.
DisabledWaits ==
    /\ Awake("check") /\ GracePart
    /\ ip6 /\ role = "disabled"
    /\ detached_count' = 0
    /\ sleep' = ReconnectDelay
    /\ UNCHANGED <<pc, role, ip6, changed, quiet>>

Disabled ==
    /\ Awake("check") /\ GracePart
    /\ ip6 /\ role = "disabled"
    /\ \E r \in {role, "detached"} : Enter(r)
    /\ detached_count' = 0
    /\ sleep' = ReconnectDelay
    /\ UNCHANGED <<pc, ip6>>

Connected ==
    /\ Awake("check") /\ GracePart
    /\ ip6 /\ role = "child"
    /\ detached_count' = 0
    /\ sleep' = MonitorInterval
    /\ UNCHANGED <<pc, role, ip6, changed, quiet>>

\* An interface that goes down takes Thread with it.
Ip6Disabled == ip6' = FALSE /\ \E r \in {role, "disabled"} : Enter(r)

InterfaceDown ==
    /\ Awake("ifdown")
    /\ \/ UNCHANGED <<ip6, role, changed, quiet>>
       \/ Ip6Disabled
    /\ pc' = "ifup" /\ sleep' = ShortPause
    /\ UNCHANGED <<detached_count, graceVars>>

InterfaceUp ==
    /\ Awake("ifup")
    /\ ip6' \in {ip6, TRUE}
    /\ pc' = "start" /\ sleep' = ShortPause
    /\ UNCHANGED <<detached_count, graceVars, role, changed, quiet>>

\* Mutant: the count survives the restart.
StartKeepingCount ==
    /\ Awake("start")
    /\ role' \in {role} \cup (IF ip6 /\ role = "disabled" THEN {"detached"} ELSE {})
    /\ changed' = (changed \/ role' # role)
    /\ quiet' = 0
    /\ pc' = "check" /\ sleep' = ReconnectDelay
    /\ UNCHANGED <<detached_count, graceVars, ip6>>

\* OpenThread refuses to start Thread on an interface that is down.
StartThread ==
    /\ Awake("start")
    /\ role' \in {role} \cup (IF ip6 /\ role = "disabled" THEN {"detached"} ELSE {})
    /\ changed' = (changed \/ role' # role)
    /\ quiet' = 0
    /\ detached_count' = 0
    /\ pc' = "check" /\ sleep' = ReconnectDelay
    /\ UNCHANGED <<graceVars, ip6>>

Check   == Ip6Down \/ StillDetached \/ ForceRestart \/ Disabled \/ Connected
Monitor == Check \/ InterfaceDown \/ InterfaceUp \/ StartThread

-----------------------------------------------------------------------------
\* Mutant: the callback does not reset the count.
CallbackOnlyLogs ==
    /\ changed
    /\ changed' = FALSE
    /\ UNCHANGED <<pc, sleep, detached_count, graceVars, role, ip6, quiet>>

\* Mutant: any change of the role resets the count.
CallbackAlwaysResets ==
    /\ changed
    /\ changed' = FALSE
    /\ detached_count' = 0
    /\ UNCHANGED <<pc, sleep, graceVars, role, ip6, quiet>>

\* network_state_changed_callback, in the OpenThread thread, reads the role of
\* now.  OpenThread runs it before it changes the role again by itself.
network_state_changed_callback ==
    /\ changed
    /\ changed' = FALSE
    /\ detached_count' = IF role = "child" THEN 0 ELSE detached_count
    /\ UNCHANGED <<pc, sleep, graceVars, role, ip6, quiet>>

Attach == /\ ~changed /\ role = "detached" /\ Enter("child")
          /\ UNCHANGED <<pc, sleep, detached_count, graceVars, ip6>>

Lose   == /\ ~changed /\ role = "child" /\ Enter("detached")
          /\ UNCHANGED <<pc, sleep, detached_count, graceVars, ip6>>

\* Thread and the interface are also switched from the OpenThread shell.
ShellStop  == /\ ~changed /\ role # "disabled" /\ Enter("disabled")
              /\ UNCHANGED <<pc, sleep, detached_count, graceVars, ip6>>
ShellStart == /\ ~changed /\ role = "disabled" /\ ip6 /\ Enter("detached")
              /\ UNCHANGED <<pc, sleep, detached_count, graceVars, ip6>>
ShellDown  == /\ ~changed /\ ip6 /\ Ip6Disabled
              /\ UNCHANGED <<pc, sleep, detached_count, graceVars>>

OpenThread == network_state_changed_callback \/ Attach \/ Lose
Shell      == ShellStop \/ ShellStart \/ ShellDown

AtMost(bound, n) == IF n < bound THEN n ELSE bound

Tick ==
    /\ sleep > 0
    /\ sleep' = sleep - 1
    /\ grace' = IF grace = NotStarted THEN grace ELSE AtMost(GracePeriod, grace + 1)
    /\ quiet' = IF role = "child" THEN 0 ELSE AtMost(QuietBound, quiet + 1)
    /\ UNCHANGED <<pc, detached_count, sed_mode_active, role, ip6, rxOn, changed>>

Next == Monitor \/ OpenThread \/ Shell \/ Tick

Spec == Init /\ [][Next]_vars

\* Time passes, the thread runs when it wakes, callbacks are delivered, and
\* an OpenThread call that is tried again and again succeeds one day.
Fairness == /\ WF_vars(Tick) /\ WF_vars(Monitor) /\ WF_vars(network_state_changed_callback)
            /\ SF_vars(Check /\ sed_mode_active' # sed_mode_active)
            /\ SF_vars(Ip6Down /\ ip6') /\ SF_vars(Disabled /\ role' # role)

FairSpec == Spec /\ Fairness

-----------------------------------------------------------------------------
\* The thread's variables keep their types; detached_count stays within
\* MAX_DETACHED_COUNT.
TypeOK ==
    /\ pc \in Locations
    /\ sleep \in 0 .. MonitorInterval + ReconnectDelay + ShortPause
    /\ detached_count \in 0 .. MaxDetached
    /\ grace \in NotStarted .. GracePeriod /\ sed_mode_active \in BOOLEAN /\ rxOn \in BOOLEAN
    /\ role \in Roles /\ ip6 \in BOOLEAN /\ changed \in BOOLEAN
    /\ quiet \in 0 .. QuietBound

\* The stack is force-restarted only if the device has been without a parent,
\* and no earlier restart happened, for all the delays between the checks:
\* attachments that the callback or a check saw restart the count.
RestartOnlyAfterDelays ==
    [][pc = "check" /\ pc' = "ifdown" => quiet >= (MaxDetached - 1) * ReconnectDelay]_vars

\* The flag that stops the thread from repeating itself tells the truth: with
\* it set, the radio sleeps and the grace period is over.
SleepyMeansGraceOver == sed_mode_active => ~rxOn /\ grace >= GracePeriod

\* Between two boots the link mode changes at most twice: the receiver goes on
\* at the first attachment and off when the grace period is over, and no later
\* attachment, restart or failed call starts the period anew.
LinkModeChangesTwice ==
    [][/\ ~rxOn /\ rxOn' => grace = NotStarted /\ role = "child"
       /\ rxOn /\ ~rxOn' => grace >= GracePeriod
       /\ grace' >= grace
       /\ sed_mode_active => sed_mode_active']_vars

\* Once joined, the device ends up in sleep mode, whatever happens to the
\* network and to the interface in the meantime.
GraceEnds == grace # NotStarted ~> sed_mode_active

\* A device that stays detached is restarted.
StuckIsRestarted == role = "detached" /\ ip6 ~> role # "detached" \/ ~ip6 \/ pc # "check"

\* The time that is left to a device that stays detached before the restart.
Stuck == role = "detached" /\ ip6 /\ pc = "check"
Rest  == sleep + (MaxDetached - 1 - detached_count) * ReconnectDelay

\* The restart cannot be put off: while a device stays detached, each tick
\* brings it a tick nearer, and neither checks nor late callbacks set it back.
RestartDrawsNear ==
    [][Stuck /\ Stuck' => Rest' \in Nat /\ Rest' <= Rest /\ (Tick => Rest' = Rest - 1)]_vars

\* Thread does not stay disabled, be it by the shell or by a restart of which
\* a step failed, unless the shell keeps taking the interface down.
IsReEnabled == <>[][~ShellDown]_vars => (role = "disabled" ~> role # "disabled")

\* "Max detached checks before forcing restart (6 * 10s = 1 min)".
RestartOnlyAfterAMinute ==
    [][pc = "check" /\ pc' = "ifdown" => quiet >= MaxDetached * ReconnectDelay]_vars
=============================================================================
