-------------------------- MODULE X11PollingProofs --------------------------
(***************************************************************************)
(* Proofs about X11Polling: the two delays hold for every choice of the    *)
(* intervals, the timeout and the time that pausing may take.              *)
(*                                                                         *)
(* The bound on the delay is a bound on idle + timer: what is left of a    *)
(* sleep is time by which the idle time may still grow unobserved.         *)
(***************************************************************************)
EXTENDS X11Polling, TLAPS

Times ==
  /\ elapsed_ms \in 0 .. start_monitor_after_ms
  /\ idle \in 0 .. IdleCap /\ sampled \in 0 .. IdleCap
  /\ sleep_time_ms \in Nat
  /\ timer \in Nat
  /\ pausing_time_ms \in 0 .. MaxPausingTime
  /\ unnoticed \in Nat

Flags ==
  /\ step \in {"iterate", "pausing", "sleep"}
  /\ command_paused \in BOOLEAN /\ monitoring_started \in BOOLEAN

LatestResume == user_idle_timeout_ms + POLLING_INTERVAL_MS + MaxPausingTime

\* While the tree is being paused the idle time grows with the stopwatch.
PausingIsTimed ==
  step = "pausing" =>
    /\ ~command_paused
    /\ sampled < user_idle_timeout_ms
    /\ timer <= pausing_time_ms
    /\ idle <= sampled + pausing_time_ms - timer

WakesForResume ==
  command_paused /\ step = "sleep" => idle + timer < LatestResume

\* A running command is never left for longer than a polling interval.
WakesForPause ==
  /\ ~command_paused /\ step # "pausing" => sleep_time_ms <= POLLING_INTERVAL_MS
  /\ ~command_paused /\ step = "sleep" => unnoticed + timer <= POLLING_INTERVAL_MS
  /\ ~command_paused /\ step = "pausing" => unnoticed = 0
  /\ command_paused /\ step = "sleep" => unnoticed = 0
  /\ step = "iterate" => unnoticed <= POLLING_INTERVAL_MS

PausesWhenMonitoring == command_paused \/ step = "pausing" => monitoring_started

NeverShort == sleep_time_ms >= POLLING_INTERVAL_BEFORE_STARTING_MONITORING_MS

IInv ==
  /\ Times /\ Flags
  /\ PausingIsTimed /\ PausesWhenMonitoring
  /\ WakesForResume /\ WakesForPause /\ NeverShort

\* The arithmetic of the two bounds.
LEMMA Ticks ==
  ASSUME NEW i \in Nat, NEW t \in Nat, t > 0, NEW bound \in Nat, i + t < bound
  PROVE  /\ 0 + (t - 1) < bound
         /\ (i + 1) + (t - 1) < bound
         /\ i + (t - 1) < bound
OBVIOUS

LEMMA NothingElapsed ==
  ASSUME NEW i \in Nat, NEW p \in Nat
  PROVE  i <= i + p - p
OBVIOUS

USE PollingAssumption DEF IdleCap, Lesser, Greater, LatestResume

-----------------------------------------------------------------------------
LEMMA InitIInv == Init => IInv
<1> SUFFICES ASSUME Init PROVE IInv
  OBVIOUS
<1>1. Times
  BY DEF Init, Times
<1>2. Flags
  BY DEF Init, Flags
<1> QED
  BY <1>1, <1>2 DEF Init, IInv, PausingIsTimed, PausesWhenMonitoring,
     WakesForResume, WakesForPause, NeverShort

LEMMA StepFlags == IInv /\ [Next]_vars => Flags'
  BY DEF IInv, Flags, Next, vars, TimePasses, Iterate, NotMonitoring, UserIsInactive,
     UserIsActivePaused, UserIsActiveRunning, Paused, Wake, Sleep

LEMMA StepMonitoring == IInv /\ [Next]_vars => PausesWhenMonitoring'
  BY DEF IInv, Flags, PausesWhenMonitoring, Next, vars, TimePasses, Iterate,
     NotMonitoring, UserIsInactive, UserIsActivePaused, UserIsActiveRunning,
     Paused, Wake, Sleep

LEMMA StepTimes == IInv /\ [Next]_vars => Times'
<1> SUFFICES ASSUME IInv, [Next]_vars PROVE Times'
  OBVIOUS
<1> USE DEF IInv, Times
<1>1. CASE TimePasses
  BY <1>1 DEF TimePasses
<1>2. CASE Iterate /\ NotMonitoring
  BY <1>2 DEF Iterate, NotMonitoring, Sleep
<1>3. CASE Iterate /\ UserIsInactive
  BY <1>3 DEF Iterate, UserIsInactive, Sleep
<1>4. CASE Iterate /\ UserIsActivePaused
  BY <1>4 DEF Iterate, UserIsActivePaused, Sleep, NextCheckIn
<1>5. CASE Iterate /\ UserIsActiveRunning
  BY <1>5 DEF Iterate, UserIsActiveRunning
<1>6. CASE Paused
  BY <1>6 DEF Paused, Sleep, NextCheckIn
<1>7. CASE Wake
  BY <1>7 DEF Wake
<1>8. CASE UNCHANGED vars
  BY <1>8 DEF vars
<1> QED
  BY <1>1, <1>2, <1>3, <1>4, <1>5, <1>6, <1>7, <1>8 DEF Next, Iterate

LEMMA StepPausing == IInv /\ [Next]_vars => PausingIsTimed'
<1> SUFFICES ASSUME Times, PausingIsTimed, [Next]_vars
             PROVE  PausingIsTimed'
  BY DEF IInv
<1> USE DEF Times
<1>1. CASE TimePasses
  BY <1>1 DEF TimePasses, PausingIsTimed
<1>2. CASE Iterate /\ NotMonitoring
  BY <1>2 DEF Iterate, NotMonitoring, Sleep, PausingIsTimed
<1>3. CASE Iterate /\ UserIsInactive
  BY <1>3 DEF Iterate, UserIsInactive, Sleep, PausingIsTimed
<1>4. CASE Iterate /\ UserIsActivePaused
  BY <1>4 DEF Iterate, UserIsActivePaused, Sleep, NextCheckIn, PausingIsTimed
<1>5. CASE Iterate /\ UserIsActiveRunning
  <2>1. ~command_paused'
    BY <1>5 DEF UserIsActiveRunning
  <2>2. sampled' < user_idle_timeout_ms /\ timer' <= pausing_time_ms'
        /\ idle' <= sampled' + pausing_time_ms' - timer'
    <3>1. /\ sampled' = idle /\ idle' = idle /\ idle < user_idle_timeout_ms
          /\ timer' = pausing_time_ms' /\ pausing_time_ms' \in 0 .. MaxPausingTime
      BY <1>5 DEF Iterate, UserIsActiveRunning
    <3>2. idle \in Nat /\ pausing_time_ms' \in Nat
      BY <3>1
    <3> HIDE DEF Times
    <3>5. idle <= idle + pausing_time_ms' - pausing_time_ms'
      BY ONLY <3>2, NothingElapsed, Zenon
    <3>3. idle' <= sampled' + pausing_time_ms' - timer'
      BY ONLY <3>1, <3>5, Zenon
    <3>4. timer' <= pausing_time_ms'
      BY <3>1
    <3> QED
      BY <3>1, <3>3, <3>4
  <2> QED
    BY <2>1, <2>2 DEF PausingIsTimed
<1>6. CASE Paused
  BY <1>6 DEF Paused, Sleep, NextCheckIn, PausingIsTimed
<1>7. CASE Wake
  BY <1>7 DEF Wake, PausingIsTimed
<1>8. CASE UNCHANGED vars
  BY <1>8 DEF vars, PausingIsTimed
<1> QED
  BY <1>1, <1>2, <1>3, <1>4, <1>5, <1>6, <1>7, <1>8 DEF Next, Iterate

LEMMA StepResume == IInv /\ [Next]_vars => WakesForResume'
<1> SUFFICES ASSUME Times, PausingIsTimed, PausesWhenMonitoring, WakesForResume,
                    [Next]_vars
             PROVE  WakesForResume'
  BY DEF IInv
<1> USE DEF Times
<1>1. CASE TimePasses
  <2>1. timer' = timer - 1 /\ idle' \in {0, Lesser(idle + 1, IdleCap)}
    BY <1>1 DEF TimePasses
  <2>2. timer > 0
    BY <1>1 DEF TimePasses
  <2>3. idle + timer < LatestResume => idle' + timer' < LatestResume
    <3>0. SUFFICES ASSUME idle + timer < LatestResume
                  PROVE  idle' + timer' < LatestResume
      OBVIOUS
    <3>1. idle \in Nat /\ timer \in Nat /\ LatestResume \in Nat
      OBVIOUS
    <3>2. timer' = timer - 1
      BY <2>1
    <3>3. idle' = 0 \/ idle' = idle + 1 \/ idle' = idle
      BY <2>1
    <3>4. /\ 0 + (timer - 1) < LatestResume
          /\ (idle + 1) + (timer - 1) < LatestResume
          /\ idle + (timer - 1) < LatestResume
      <4> HIDE DEF LatestResume
      <4> QED
        BY ONLY <2>2, <3>0, <3>1, Ticks, Zenon
    <3> HIDE DEF LatestResume
    <3>5. CASE idle' = 0
      BY ONLY <3>2, <3>4, <3>5, Zenon
    <3>6. CASE idle' = idle + 1
      BY ONLY <3>2, <3>4, <3>6, Zenon
    <3>7. CASE idle' = idle
      BY ONLY <3>2, <3>4, <3>7, Zenon
    <3> QED
      BY ONLY <3>3, <3>5, <3>6, <3>7, Zenon
  <2>4. step' = step /\ command_paused' = command_paused /\ step # "iterate"
    BY <1>1 DEF TimePasses
  <2> QED
    BY <2>3, <2>4 DEF WakesForResume
<1>2. CASE Iterate /\ NotMonitoring
  BY <1>2 DEF Iterate, NotMonitoring, Sleep, monitoring_is_due, PausesWhenMonitoring, WakesForResume, PausingIsTimed
<1>3. CASE Iterate /\ UserIsInactive
  BY <1>3 DEF Iterate, UserIsInactive, Sleep, WakesForResume, PausingIsTimed
<1>4. CASE Iterate /\ UserIsActivePaused
  BY <1>4 DEF Iterate, UserIsActivePaused, Sleep, NextCheckIn, WakesForResume, PausingIsTimed
<1>5. CASE Iterate /\ UserIsActiveRunning
  BY <1>5 DEF Iterate, UserIsActiveRunning, WakesForResume, PausingIsTimed
<1>6. CASE Paused
  BY <1>6 DEF Paused, Sleep, NextCheckIn, WakesForResume, PausingIsTimed
<1>7. CASE Wake
  BY <1>7 DEF Wake, WakesForResume, PausingIsTimed
<1>8. CASE UNCHANGED vars
  BY <1>8 DEF vars, WakesForResume, PausingIsTimed
<1> QED
  BY <1>1, <1>2, <1>3, <1>4, <1>5, <1>6, <1>7, <1>8 DEF Next, Iterate

LEMMA StepPause == IInv /\ [Next]_vars => WakesForPause'
<1> SUFFICES ASSUME IInv, [Next]_vars PROVE WakesForPause'
  OBVIOUS
<1> USE DEF IInv, Times, WakesForPause, PausingIsTimed, Flags
<1>1. CASE TimePasses
  BY <1>1 DEF TimePasses
<1>2. CASE Iterate /\ NotMonitoring
  BY <1>2 DEF Iterate, NotMonitoring, Sleep
<1>3. CASE Iterate /\ UserIsInactive
  BY <1>3 DEF Iterate, UserIsInactive, Sleep
<1>4. CASE Iterate /\ UserIsActivePaused
  BY <1>4 DEF Iterate, UserIsActivePaused, Sleep, NextCheckIn
<1>5. CASE Iterate /\ UserIsActiveRunning
  BY <1>5 DEF Iterate, UserIsActiveRunning
<1>6. CASE Paused
  BY <1>6 DEF Paused, Sleep, NextCheckIn
<1>7. CASE Wake
  BY <1>7 DEF Wake
<1>8. CASE UNCHANGED vars
  BY <1>8 DEF vars
<1> QED
  BY <1>1, <1>2, <1>3, <1>4, <1>5, <1>6, <1>7, <1>8 DEF Next, Iterate

LEMMA StepShort == IInv /\ [Next]_vars => NeverShort'
<1> SUFFICES ASSUME IInv, [Next]_vars PROVE NeverShort'
  OBVIOUS
<1> USE DEF IInv, Times, NeverShort
<1>1. CASE TimePasses
  BY <1>1 DEF TimePasses
<1>2. CASE Iterate /\ NotMonitoring
  BY <1>2 DEF Iterate, NotMonitoring, Sleep
<1>3. CASE Iterate /\ UserIsInactive
  BY <1>3 DEF Iterate, UserIsInactive, Sleep
<1>4. CASE Iterate /\ UserIsActivePaused
  BY <1>4 DEF Iterate, UserIsActivePaused, Sleep, NextCheckIn
<1>5. CASE Iterate /\ UserIsActiveRunning
  BY <1>5 DEF Iterate, UserIsActiveRunning
<1>6. CASE Paused
  BY <1>6 DEF Paused, Sleep, NextCheckIn
<1>7. CASE Wake
  BY <1>7 DEF Wake
<1>8. CASE UNCHANGED vars
  BY <1>8 DEF vars
<1> QED
  BY <1>1, <1>2, <1>3, <1>4, <1>5, <1>6, <1>7, <1>8 DEF Next, Iterate

LEMMA Invariance == Spec => []IInv
<1>1. Init => IInv
  BY InitIInv
<1>2. IInv /\ [Next]_vars => IInv'
  BY StepFlags, StepTimes, StepMonitoring, StepPausing, StepResume, StepPause, StepShort DEF IInv
<1> QED
  BY <1>1, <1>2, PTL DEF Spec

-----------------------------------------------------------------------------
\* Whatever the timeout, the polling intervals, the largest int and the time it
\* takes to pause: a paused command is resumed at most one polling interval and
\* one pausing later than the user's idle time reaches the timeout.
THEOREM ResumesInTime == Spec => []ResumedInTime
<1>1. IInv => ResumedInTime
  <2> SUFFICES ASSUME IInv, command_paused, step = "sleep"
               PROVE  idle < LatestResume
    BY DEF ResumedInTime
  <2> QED
    BY DEF IInv, Times, Flags, PausingIsTimed, WakesForResume
<1> QED
  BY <1>1, Invariance, PTL

\* An active user waits at most one polling interval for the command to be
\* paused, however long the sleep of the paused command had become.
THEOREM PausesInTime == Spec => []PausedInTime
<1>1. IInv => PausedInTime
  BY DEF IInv, Times, Flags, PausingIsTimed, WakesForPause, PausedInTime
<1> QED
  BY <1>1, Invariance, PTL

\* No subtraction in the computation of the sleep makes it negative or zero.
THEOREM AlwaysSleeps == Spec => []SleepsForAWhile
<1>1. IInv => SleepsForAWhile
  BY DEF IInv, NeverShort, SleepsForAWhile
<1> QED
  BY <1>1, Invariance, PTL

\* Every time stays a natural number and every clock under its cap.
THEOREM TypeCorrect == Spec => []TypeOK
<1>1. IInv => TypeOK
  BY DEF IInv, Times, Flags, TypeOK
<1> QED
  BY <1>1, Invariance, PTL
=============================================================================
