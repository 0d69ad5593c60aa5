----------------------- MODULE NetworkMonitor_proofs -----------------------
(***************************************************************************)
(* The safety of network_monitor.c for all intervals, delays, counts and   *)
(* grace periods.                                                          *)
(***************************************************************************)
EXTENDS NetworkMonitor, TLAPS

\* The counter reaches MAX_DETACHED_COUNT only on the way to a restart.
BelowLimit == pc = "check" => detached_count < MaxDetached

\* Every detached check that was counted was followed by a whole delay; only
\* the latest one may still be running.  An attachment breaks this until the
\* callback or the next check has seen it.
CountedDelays ==
    pc = "check" /\ ~(role = "child" /\ changed) =>
        quiet + sleep >= detached_count * ReconnectDelay

\* Attached, and known to be: nothing is counted.
AttachmentResets == role = "child" /\ ~changed => detached_count = 0

MInv == TypeOK /\ BelowLimit /\ SleepyMeansGraceOver /\ CountedDelays /\ AttachmentResets

-----------------------------------------------------------------------------
\* The two facts about products that the counter needs.
LEMMA OneMoreDelay == ASSUME NEW n \in Nat, NEW d \in Nat
                      PROVE  (n + 1) * d = n * d + d /\ n * d \in Nat /\ 0 * d = 0
  BY SMT

LEMMA DelaysLeft == ASSUME NEW m \in Nat, NEW n \in Nat, n < m
                    PROVE  m - 1 - n \in Nat
  BY SMT

LEMMA FewerDelays == ASSUME NEW m \in Nat, NEW n \in Nat, NEW d \in Nat, m <= n
                     PROVE  m * d <= n * d
<1>1. PICK k \in Nat : n = m + k
  <2>1. n - m \in Nat /\ n = m + (n - m)
    BY SMT
  <2> QED
    BY <2>1
<1>2. n * d = m * d + k * d
  BY <1>1, SMT
<1>3. k * d \in Nat /\ m * d \in Nat
  BY OneMoreDelay
<1> QED
  BY <1>2, <1>3, SMT

USE DEF NotStarted, Roles, Locations, QuietBound, vars, graceVars

\* The Boolean part of TypeOK, proved apart because the SMT encoding loses the
\* type of a variable that is only ever compared with TRUE and FALSE.
Flags == sed_mode_active \in BOOLEAN /\ rxOn \in BOOLEAN /\ ip6 \in BOOLEAN /\ changed \in BOOLEAN

-----------------------------------------------------------------------------
\* Each check treats the grace period alike: whatever a link mode call returns,
\* the types and the truth of sed_mode_active survive.
LEMMA GraceIsSafe ==
    ASSUME TypeOK, SleepyMeansGraceOver, GracePart
    PROVE  /\ grace' \in NotStarted .. GracePeriod
           /\ sed_mode_active' \in BOOLEAN /\ rxOn' \in BOOLEAN
           /\ SleepyMeansGraceOver'
<1> USE DelayAssumption DEF TypeOK, SleepyMeansGraceOver
<1>0. sed_mode_active' \in BOOLEAN /\ rxOn' \in BOOLEAN
  BY Zenon DEF GracePart, sed_disable_sleep_mode, sed_enable_sleep_mode
<1>1. CASE GraceStarts /\ grace' = 0 /\ sed_disable_sleep_mode
  <2>1. ~sed_mode_active /\ ~sed_mode_active'
    BY <1>1 DEF GraceStarts, sed_disable_sleep_mode
  <2> QED
    BY <1>0, <1>1, <2>1
<1>2. CASE GraceOver /\ sed_enable_sleep_mode /\ UNCHANGED grace
  <2>1. sed_mode_active' => ~rxOn'
    BY <1>2 DEF GraceOver, sed_enable_sleep_mode
  <2> QED
    BY <1>0, <1>2, <2>1 DEF GraceOver
<1>3. CASE ~GraceStarts /\ ~GraceOver /\ UNCHANGED graceVars
  BY <1>3
<1> QED
  BY <1>1, <1>2, <1>3 DEF GracePart

\* The invariant holds when the monitor thread starts.
LEMMA MonitorInit == Init => MInv
<1>1. Init => Flags
  BY Zenon DEF Init, Flags
<1> QED
  BY <1>1, DelayAssumption, OneMoreDelay DEF Flags, Init, MInv, TypeOK, BelowLimit, SleepyMeansGraceOver, CountedDelays, AttachmentResets

\* No step of the monitor, of OpenThread, of the shell or of time breaks it.
LEMMA MonitorNext == MInv /\ [Next]_vars => MInv'
<1> SUFFICES ASSUME MInv, [Next]_vars PROVE MInv'
  OBVIOUS
<1>0. /\ detached_count \in Nat /\ detached_count + 1 \in Nat /\ ReconnectDelay \in Nat
      /\ detached_count * ReconnectDelay \in Nat /\ MaxDetached * ReconnectDelay \in Nat
      /\ 0 * ReconnectDelay = 0
      /\ (detached_count + 1) * ReconnectDelay = detached_count * ReconnectDelay + ReconnectDelay
      /\ detached_count * ReconnectDelay <= MaxDetached * ReconnectDelay
  <2>1. detached_count \in Nat /\ detached_count <= MaxDetached /\ MaxDetached \in Nat /\ ReconnectDelay \in Nat
    BY DelayAssumption DEF MInv, TypeOK
  <2> QED
    BY <2>1, OneMoreDelay, FewerDelays
<1>g. GracePart => /\ grace' \in NotStarted .. GracePeriod
                   /\ sed_mode_active' \in BOOLEAN /\ rxOn' \in BOOLEAN
                   /\ SleepyMeansGraceOver'
  BY GraceIsSafe DEF MInv
<1> USE <1>0, DelayAssumption DEF MInv, TypeOK, BelowLimit, CountedDelays, AttachmentResets, Awake, Enter
<1>1. CASE Ip6Down
  BY <1>1, <1>g DEF Ip6Down
<1>2. CASE StillDetached
  BY <1>2, <1>g DEF StillDetached
<1>3. CASE ForceRestart
  BY <1>3, <1>g DEF ForceRestart
<1>4. CASE Disabled
  BY <1>4, <1>g DEF Disabled
<1>5. CASE Connected
  BY <1>5, <1>g DEF Connected
<1>6. CASE InterfaceDown
  <2>1. Flags'
    BY <1>6, Zenon DEF InterfaceDown, Ip6Disabled, Enter, Flags
  <2> QED
    BY <1>6, <2>1 DEF Flags, SleepyMeansGraceOver, InterfaceDown, Ip6Disabled
<1>7. CASE InterfaceUp
  <2>1. Flags'
    BY <1>7, Zenon DEF InterfaceUp, Flags
  <2> QED
    BY <1>7, <2>1 DEF Flags, SleepyMeansGraceOver, InterfaceUp
<1>8. CASE StartThread
  BY <1>8 DEF SleepyMeansGraceOver, StartThread
<1>9. CASE network_state_changed_callback
  <2>1. Flags'
    BY <1>9, Zenon DEF network_state_changed_callback, Flags
  <2> QED
    BY <1>9, <2>1 DEF Flags, SleepyMeansGraceOver, network_state_changed_callback
<1>10. CASE Attach
  <2>1. Flags' /\ changed' /\ role' = "child"
    BY <1>10, Zenon DEF Attach, Flags
  <2>2. UNCHANGED <<pc, sleep, detached_count, graceVars, ip6>> /\ quiet' = 0
    BY <1>10 DEF Attach
  <2> QED
    BY <2>1, <2>2 DEF Flags, SleepyMeansGraceOver
<1>11. CASE Lose
  <2>1. Flags'
    BY <1>11, Zenon DEF Lose, Flags
  <2> QED
    BY <1>11, <2>1 DEF Flags, SleepyMeansGraceOver, Lose
<1>12. CASE ShellStop
  BY <1>12 DEF SleepyMeansGraceOver, ShellStop
<1>13. CASE ShellStart
  BY <1>13 DEF SleepyMeansGraceOver, ShellStart
<1>14. CASE ShellDown
  <2>1. Flags'
    BY <1>14, Zenon DEF ShellDown, Ip6Disabled, Flags
  <2>2. /\ role' \in {role, "disabled"} /\ changed' = (changed \/ role' # role)
        /\ quiet' = IF role' = "child" THEN 0 ELSE quiet
        /\ UNCHANGED <<pc, sleep, detached_count, graceVars>> /\ ~changed
    BY <1>14, Zenon DEF ShellDown, Ip6Disabled
  <2> QED
    BY <2>1, <2>2 DEF Flags, SleepyMeansGraceOver
<1>15. CASE Tick
  <2>1. Flags' /\ SleepyMeansGraceOver' /\ BelowLimit'
    BY <1>15 DEF Tick, AtMost, Flags, SleepyMeansGraceOver
  <2>2. /\ sleep' = sleep - 1 /\ sleep \in Nat \ {0} /\ quiet \in Nat
        /\ sleep' \in 0 .. MonitorInterval + ReconnectDelay + ShortPause
        /\ grace' \in NotStarted .. GracePeriod
        /\ UNCHANGED <<pc, detached_count, role, changed>>
    BY <1>15 DEF Tick, AtMost
  <2>3. quiet' = IF role = "child" THEN 0 ELSE AtMost(QuietBound, quiet + 1)
    BY <1>15 DEF Tick
  <2>4. quiet' \in 0 .. QuietBound
    BY <2>2, <2>3 DEF AtMost
  <2>5. CountedDelays'
    <3>1. CASE role = "child"
      BY <2>2, <2>3, <3>1
    <3>2. CASE role # "child"
      BY <2>2, <2>3, <3>2 DEF AtMost
    <3> QED
      BY <3>1, <3>2
  <2> QED
    BY <1>15, <2>1, <2>2, <2>4, <2>5 DEF Flags, Tick
<1>16. CASE UNCHANGED vars
  BY <1>16 DEF SleepyMeansGraceOver
<1> QED
  BY <1>1, <1>2, <1>3, <1>4, <1>5, <1>6, <1>7, <1>8, <1>9, <1>10, <1>11, <1>12, <1>13, <1>14, <1>15, <1>16 DEF Next, Monitor, Check, OpenThread, Shell

-----------------------------------------------------------------------------
\* The monitor's flag is true to the radio: whichever link mode calls fail, the
\* device is taken for sleepy only after the grace period and with the receiver
\* off.  The thread's variables keep their types.
THEOREM MonitorIsSafe == Spec => [](TypeOK /\ SleepyMeansGraceOver)
<1>1. MInv => TypeOK /\ SleepyMeansGraceOver
  BY DEF MInv
<1> QED
  BY <1>1, MonitorInit, MonitorNext, PTL DEF Spec

\* thread_force_restart only follows the delays of all earlier detached checks,
\* with no attachment in between: for every choice of the two limits.
THEOREM RestartIsEarned == Spec => RestartOnlyAfterDelays
<1>1. MInv /\ [Next]_vars =>
        [pc = "check" /\ pc' = "ifdown" => quiet >= (MaxDetached - 1) * ReconnectDelay]_vars
  <2> SUFFICES ASSUME MInv, [Next]_vars, pc = "check", pc' = "ifdown"
               PROVE  quiet >= (MaxDetached - 1) * ReconnectDelay
    OBVIOUS
  <2>1. ForceRestart
    BY DEF Next, Monitor, Check, OpenThread, Shell, Awake, Ip6Down, StillDetached, Disabled,
           Connected, InterfaceDown, InterfaceUp, StartThread, Tick, Attach, Lose, ShellStop,
           ShellStart, ShellDown, network_state_changed_callback
  <2>2. /\ detached_count = MaxDetached - 1 /\ sleep = 0 /\ quiet \in Nat
        /\ role = "detached"
    BY <2>1, DelayAssumption DEF ForceRestart, Awake, MInv, BelowLimit, TypeOK
  <2> QED
    BY <2>2 DEF MInv, CountedDelays
<1> QED
  BY <1>1, MonitorInit, MonitorNext, PTL DEF Spec, RestartOnlyAfterDelays

\* The monitor's count, timers and flags keep their types; the count never goes
\* beyond its limit.
THEOREM MonitorTypes == Spec => []TypeOK
BY MonitorIsSafe, PTL

\* sed_mode_active is believed by the monitor and never ahead of the radio.
THEOREM SleepIsEarned == Spec => []SleepyMeansGraceOver
BY MonitorIsSafe, PTL

\* What a check does to link mode and grace period.
LEMMA GracePartKeepsPlan ==
    ASSUME TypeOK, SleepyMeansGraceOver, GracePart
    PROVE  /\ ~rxOn /\ rxOn' => grace = NotStarted /\ role = "child"
           /\ rxOn /\ ~rxOn' => grace >= GracePeriod
           /\ grace' >= grace
           /\ sed_mode_active => sed_mode_active'
<1> USE DelayAssumption DEF TypeOK, SleepyMeansGraceOver
<1>1. CASE GraceStarts /\ grace' = 0 /\ sed_disable_sleep_mode
  BY <1>1 DEF GraceStarts, sed_disable_sleep_mode
<1>2. CASE GraceOver /\ sed_enable_sleep_mode /\ UNCHANGED grace
  BY <1>2 DEF GraceOver, sed_enable_sleep_mode
<1>3. CASE ~GraceStarts /\ ~GraceOver /\ UNCHANGED graceVars
  BY <1>3
<1> QED
  BY <1>1, <1>2, <1>3 DEF GracePart

\* However often the device loses and finds its parent, is restarted or has a
\* link mode call refused, network_monitor.c turns the receiver on at most once
\* and off at most once, after the grace period, for every choice of it.
THEOREM LinkModeIsPlanned == Spec => LinkModeChangesTwice
<1> DEFINE Plan == /\ ~rxOn /\ rxOn' => grace = NotStarted /\ role = "child"
                   /\ rxOn /\ ~rxOn' => grace >= GracePeriod
                   /\ grace' >= grace
                   /\ sed_mode_active => sed_mode_active'
<1>1. MInv /\ [Next]_vars => [Plan]_vars
  <2> SUFFICES ASSUME MInv, [Next]_vars PROVE Plan
    OBVIOUS
  <2>0. TypeOK /\ SleepyMeansGraceOver
    BY DEF MInv
  <2>1. CASE Check
    <3>1. GracePart
      BY <2>1 DEF Check, Ip6Down, StillDetached, ForceRestart, Disabled, Connected
    <3> QED
      BY <2>0, <3>1, GracePartKeepsPlan
  <2>2. CASE Tick
    BY <2>0, <2>2, DelayAssumption DEF Tick, AtMost, TypeOK
  <2>3. CASE UNCHANGED graceVars
    BY <2>0, <2>3 DEF TypeOK
  <2> QED
    BY <2>1, <2>2, <2>3 DEF Next, Monitor, OpenThread, Shell, InterfaceDown, InterfaceUp, StartThread,
       network_state_changed_callback, Attach, Lose, ShellStop, ShellStart, ShellDown
<1> QED
  BY <1>1, MonitorInit, MonitorNext, PTL DEF Spec, LinkModeChangesTwice

\* The restart of a device that stays detached is counted down in ticks, for
\* every choice of delays and limit: what StuckIsRestarted says, as far as it
\* does not rest on time going on.
THEOREM RestartIsCountedDown == Spec => RestartDrawsNear
<1> DEFINE Nearer == Stuck /\ Stuck' => Rest' \in Nat /\ Rest' <= Rest /\ (Tick => Rest' = Rest - 1)
<1>1. MInv /\ MInv' /\ [Next]_vars => [Nearer]_vars
  <2>a. SUFFICES ASSUME MInv, MInv', [Next]_vars, Stuck, Stuck'
               PROVE  Rest' \in Nat /\ Rest' <= Rest /\ (Tick => Rest' = Rest - 1)
    OBVIOUS
  <2> DEFINE left == MaxDetached - 1 - detached_count
  <2>0. /\ sleep \in Nat /\ sleep' \in Nat /\ ReconnectDelay \in Nat
        /\ left \in Nat /\ left' \in Nat
    <3>1. detached_count \in Nat /\ detached_count < MaxDetached
      BY <2>a, DelayAssumption DEF MInv, TypeOK, BelowLimit, Stuck
    <3>2. detached_count' \in Nat /\ detached_count' < MaxDetached
      BY <2>a, DelayAssumption DEF MInv, TypeOK, BelowLimit, Stuck
    <3>3. left \in Nat /\ left' \in Nat
      BY <3>1, <3>2, DelaysLeft, DelayAssumption
    <3>4. sleep \in Nat /\ sleep' \in Nat
      BY <2>a, DelayAssumption DEF MInv, TypeOK
    <3> QED
      BY <3>3, <3>4, DelayAssumption
  <2>1. left * ReconnectDelay \in Nat /\ left' * ReconnectDelay \in Nat
    BY <2>0, OneMoreDelay
  <2>r. Rest = sleep + left * ReconnectDelay /\ Rest' = sleep' + left' * ReconnectDelay
    BY DEF Rest
  <2>2. CASE UNCHANGED <<sleep, detached_count>>
    <3>1. sleep' = sleep /\ left' = left /\ ~Tick
      BY <2>0, <2>2 DEF Tick
    <3> HIDE DEF left
    <3> QED
      BY <2>0, <2>1, <2>r, <3>1
  <2>3. CASE StillDetached
    <3>1. sleep = 0 /\ sleep' = ReconnectDelay /\ left = left' + 1 /\ ~Tick
      BY <2>0, <2>3, <2>a, DelayAssumption DEF StillDetached, Awake, Tick, MInv, TypeOK
    <3> HIDE DEF left
    <3>2. left * ReconnectDelay = left' * ReconnectDelay + ReconnectDelay
      BY <2>0, <3>1, OneMoreDelay
    <3>3. PICK m \in Nat : m = left' * ReconnectDelay
      BY <2>1
    <3>4. Rest' = ReconnectDelay + m /\ Rest = 0 + (m + ReconnectDelay)
      BY <2>r, <3>1, <3>2, <3>3, Zenon
    <3>5. ReconnectDelay + m = 0 + (m + ReconnectDelay) /\ ReconnectDelay + m \in Nat
      BY <2>0
    <3>6. Rest' = Rest /\ Rest' \in Nat
      BY <3>4, <3>5, Zenon
    <3> QED
      BY <3>1, <3>6
  <2>4. CASE Tick
    <3>1. sleep' = sleep - 1 /\ left' = left
      BY <2>4 DEF Tick
    <3> HIDE DEF left
    <3> QED
      BY <2>0, <2>1, <2>r, <3>1
  <2> QED
    BY <2>a, <2>2, <2>3, <2>4
    DEF Next, Monitor, Check, OpenThread, Shell, Awake, Stuck, Ip6Down, ForceRestart, Disabled, Connected,
        InterfaceDown, InterfaceUp, StartThread, network_state_changed_callback, Attach, Lose,
        ShellStop, ShellStart, ShellDown
<1> QED
  BY <1>1, MonitorInit, MonitorNext, PTL DEF Spec, RestartDrawsNear
=============================================================================
