----------------------- MODULE InternalSetpoint_proofs -----------------------
(***************************************************************************)
(* What a poll of InternalControl leaves in register 5004, and what its    *)
(* timers and its session edges promise, for every limit, reading, option  *)
(* and delay.                                                              *)
(*                                                                         *)
(* PollLands rests on ReadIsCurrent: until the cycle has decided, what the *)
(* poll read of register 5004 is what the register still holds, unless the *)
(* poll was disturbed or the cache was emptied; an off rests on the same   *)
(* invariant.  NoFlapping compares two ages that are reset by different    *)
(* events (TimerYounger), the end of an excess over the load balancer's    *)
(* room two that are started by different modes (TimerOlder).  Two         *)
(* theorems need an option: see OnlySolar and NoSolar.                     *)
(***************************************************************************)
EXTENDS InternalControl_proofs

\* The tail of a cycle, apart from the arithmetic behind the wanted current.
LEMMA SetpointEffect ==
  ASSUME TypeInv, NEW m \in Modes, NEW s \in Surplus,
         NEW last, NEW switchAge \in Int,
         ApplySetpoint(m, s, last, switchAge)
  PROVE  \E want \in Amps :
           LET cached == IF ReadBackDiffers(last) THEN None ELSE last
           IN /\ computedSetpoint' =
                   IF m \in SolarModes /\ HoldsMinimum(want) THEN Limits.min ELSE want
              /\ chargeStarted' =
                   CASE m \notin SolarModes -> chargeStarted
                     [] m \in SolarModes /\ computedSetpoint' <= 0 -> None
                     [] m \in SolarModes /\ computedSetpoint' > 0 ->
                          IF chargeStarted = None THEN 0 ELSE chargeStarted
              /\ solarAge' =
                   CASE computedSetpoint' <= 0 -> None
                     [] computedSetpoint' > 0 /\ m \notin SolarModes -> Untracked
                     [] computedSetpoint' > 0 /\ m \in SolarModes ->
                          IF solarAge = None THEN 0 ELSE solarAge
              /\ lastSetpoint' = cached
              /\ IF QuietOver(switchAge) /\ computedSetpoint' # cached
                 THEN pc' = "setpoint" /\ job' = [kind |-> "setpoint", amps |-> computedSetpoint']
                 ELSE pc' = "idle"
              /\ ~chargingEnabled \/ ~snap.vehicle => computedSetpoint' = 0
<1>1. PICK dlb \in Dlb :
        LET target == ModeTarget(m, manualCurrent, s, ActivePhases(snap), Voltage, Limits)
            want == Finalize(target, dlb, Limits, chargingEnabled, snap.vehicle)
            solar == m \in SolarModes
            setpoint == IF solar /\ HoldsMinimum(want) THEN Limits.min ELSE want
            cached == IF ReadBackDiffers(last) THEN None ELSE last
        IN /\ room' = dlb
           /\ computedSetpoint' = setpoint
           /\ chargeStarted' =
                CASE ~solar -> chargeStarted
                  [] solar /\ setpoint <= 0 -> None
                  [] solar /\ setpoint > 0 -> IF chargeStarted = None THEN 0 ELSE chargeStarted
           /\ solarAge' =
                CASE setpoint <= 0 -> None
                  [] setpoint > 0 /\ ~solar -> Untracked
                  [] setpoint > 0 /\ solar -> IF solarAge = None THEN 0 ELSE solarAge
           /\ lastSetpoint' = cached
           /\ IF QuietOver(switchAge) /\ setpoint # cached
              THEN /\ pc' = "setpoint"
                   /\ job' = [kind |-> "setpoint", amps |-> setpoint]
                   /\ UNCHANGED <<snap, data, disturbed>>
              ELSE Finish /\ data' = Seen(snap)
  BY Zenon DEF ApplySetpoint
<1> DEFINE target == ModeTarget(m, manualCurrent, s, ActivePhases(snap), Voltage, Limits)
           want == Finalize(target, dlb, Limits, chargingEnabled, snap.vehicle)
           setpoint == IF m \in SolarModes /\ HoldsMinimum(want) THEN Limits.min ELSE want
           cached == IF ReadBackDiffers(last) THEN None ELSE last
<1>2. want \in Amps
  <2>1. target \in Int
    BY ModeTargetType, SurplusType, SnapshotFacts, ConstantFacts, ReadingsAssumption
       DEF TypeInv, TypeOK, Amps
  <2>2. dlb \in [on : BOOLEAN, cap : Int] /\ snap.vehicle \in BOOLEAN /\ chargingEnabled \in BOOLEAN
    BY DlbType DEF TypeInv, TypeOK, Snapshot
  <2>3. Limits.min \in Nat /\ EffectiveMax(Limits) \in Nat
    BY ConstantFacts DEF Amps
  <2> HIDE DEF target
  <2>4. want = 0 \/ want \in Limits.min .. EffectiveMax(Limits)
    BY <2>1, <2>2, FinalizeBounds, ConstantFacts
  <2> HIDE DEF want
  <2> QED BY <2>3, <2>4 DEF Amps
<1>3. computedSetpoint' = setpoint /\ lastSetpoint' = cached
  BY <1>1 DEF setpoint, cached
<1>4. chargeStarted' = CASE m \notin SolarModes -> chargeStarted
        [] m \in SolarModes /\ setpoint <= 0 -> None
        [] m \in SolarModes /\ setpoint > 0 -> IF chargeStarted = None THEN 0 ELSE chargeStarted
  BY <1>1 DEF setpoint
<1>5. solarAge' = CASE setpoint <= 0 -> None
        [] setpoint > 0 /\ m \notin SolarModes -> Untracked
        [] setpoint > 0 /\ m \in SolarModes -> IF solarAge = None THEN 0 ELSE solarAge
  BY <1>1 DEF setpoint
<1>6. IF QuietOver(switchAge) /\ setpoint # cached
      THEN pc' = "setpoint" /\ job' = [kind |-> "setpoint", amps |-> setpoint]
      ELSE pc' = "idle"
  BY <1>1 DEF setpoint, cached, Finish
<1>7. setpoint = IF m \in SolarModes /\ HoldsMinimum(want) THEN Limits.min ELSE want
  BY DEF setpoint
<1>8. ~chargingEnabled \/ ~snap.vehicle => want = 0 /\ ~HoldsMinimum(want)
  BY DEF want, Finalize, HoldsMinimum
<1> HIDE DEF want, setpoint, cached
<1>10. WITNESS want \in Amps
<1>9. cached = IF ReadBackDiffers(last) THEN None ELSE last
  BY DEF cached
<1> QED BY <1>3, <1>4, <1>5, <1>6, <1>7, <1>8, <1>9

\* The three steps that compute a setpoint, the mode they compute it for and
\* what they take for the cache and the age of the last phase switch.
LEMMA CycleComputes ==
  ASSUME TypeInv, Computes
  PROVE  /\ mode' \in Modes
         /\ \E s \in Surplus :
              \/ ApplyKeepsPhase /\ ApplySetpoint(mode', s, CacheAfterEdges, lastSwitch)
              \/ /\ ~ApplyKeepsPhase /\ mode' = mode /\ lastSwitch' = 0
                 /\ phaseDiffSince' = phaseDiffSince
                 /\ ApplySetpoint(mode', s, lastSetpoint, 0)
<1>1. CASE ApplyKeepsPhase
  <2>1. mode' \in Modes
    BY <1>1, OptionsAssumption DEF ApplyKeepsPhase, ModeAfterEdges, TypeInv, TypeOK
  <2> QED BY <1>1, <2>1 DEF ApplyKeepsPhase
<1>2. CASE WritePhase \/ WritePhaseFails
  <2>1. pc = "phase" /\ ApplySetpoint(mode, job.surplus, lastSetpoint, 0) /\ mode' = mode
        /\ lastSwitch' = 0 /\ phaseDiffSince' = phaseDiffSince
    BY <1>2 DEF WritePhase, WritePhaseFails, AfterPhaseWrite, intent
  <2>2. mode \in Modes /\ job.surplus \in Surplus
    BY <2>1 DEF TypeInv, TypeOK, JobOK, Job
  <2>3. ~ApplyKeepsPhase
    BY <2>1 DEF ApplyKeepsPhase
  <2> QED BY <2>1, <2>2, <2>3
<1> QED BY <1>1, <1>2 DEF Computes

\* Which steps change the setpoint of the loop, its timers and their history.
LEMMA OnlyCyclesCompute ==
  ASSUME [Next]_vars, ~Computes
  PROVE  /\ UNCHANGED <<computedSetpoint, room>>
         /\ Tick \/ UNCHANGED <<chargeStarted, lastSwitch, solarAge>>
         /\ Tick \/ ApplySwitchesPhase \/ UNCHANGED phaseDiffSince
<1>1. CASE PollRead \/ Handshake \/ PollFails \/ ApplySuspended \/ ReassertFails
           \/ ApplySwitchesPhase \/ WriteSetpoint \/ WriteSetpointFails
  BY <1>1 DEF PollRead, Handshake, PollFails, ApplySuspended, ReassertFails,
              ApplySwitchesPhase, WriteSetpoint, WriteSetpointFails, cycle, timers
<1>2. CASE Recovery
  BY <1>2 DEF Recovery, ObserveEnds, Escalate, PauseWrite, PauseWriteFails, DwellAborts,
              DwellEnds, RecoveryResumes, RecoveryDone, cycle, timers
<1>3. CASE User \/ World \/ Tick
  BY <1>3 DEF User, SwitchOn, SwitchOff, SelectMode, SelectPreference, SetManualCurrent,
              InvalidateSetpointCache, UserUnchanged, World, Plug, Unplug, WallboxMinimum,
              LinkDrops, WorldUnchanged, Tick, cycle, timers
<1>4. CASE UNCHANGED vars
  BY <1>4 DEF vars, cycle, timers
<1> QED BY <1>1, <1>2, <1>3, <1>4 DEF Computes, Next, Poll, ApplyCycle
-----------------------------------------------------------------------------
\* The write in flight is the setpoint the cycle computed; and until the cycle
\* has decided, the read-back is what the register holds.  The second holds
\* only while nobody disturbed the poll and the cache still has a value: the
\* handshake and the user empty it where they change what the loop wants.
JobIsComputed == pc = "setpoint" => job.amps = computedSetpoint

ReadIsCurrent ==
  /\ pc \in {"handshake", "apply"}
  /\ ~disturbed /\ ~RecoveryActive
  /\ snap.setCurrent # None /\ lastSetpoint # None
  => setCurrent = snap.setCurrent

PollInv == JobIsComputed /\ ReadIsCurrent

LEMMA PollInvStep == TypeInv /\ SafetyInv /\ PollInv /\ [Next]_vars => PollInv'
<1> SUFFICES ASSUME TypeInv, SafetyInv, PollInv, [Next]_vars PROVE PollInv'
  OBVIOUS
<1>1. CASE PollRead
  <2>1. pc' \in {"handshake", "apply"} /\ UNCHANGED setCurrent
    BY <1>1 DEF PollRead, registers
  <2>2. snap'.setCurrent \in {setCurrent, None}
    BY <1>1 DEF PollRead, Reading
  <2> QED BY <2>1, <2>2 DEF PollInv, JobIsComputed, ReadIsCurrent
<1>2. CASE Handshake
  <2>1. pc' = "apply" /\ lastSetpoint' = CacheAfterReassert /\ UNCHANGED <<task, bufferCommands>>
    BY <1>2 DEF Handshake
  <2>2. lastSetpoint' # None => RecoveryActive'
    BY <2>1 DEF CacheAfterReassert, SafetyInv, BufferScoped, RecoveryActive, task
  <2> QED BY <2>1, <2>2 DEF PollInv, JobIsComputed, ReadIsCurrent
<1>3. CASE PollFails \/ ApplySuspended \/ ReassertFails \/ WriteSetpoint \/ WriteSetpointFails
  <2>1. pc' = "idle"
    BY <1>3 DEF PollFails, ApplySuspended, ReassertFails, WriteSetpoint, WriteSetpointFails,
                Finish
  <2> QED BY <2>1 DEF PollInv, JobIsComputed, ReadIsCurrent
<1>4. CASE Computes
  <2>1. PICK s \in Surplus, age \in Int : \E last : ApplySetpoint(mode', s, last, age)
    <3>1. lastSwitch \in Int
      BY DEF TypeInv, TypeOK
    <3> QED BY <1>4, <3>1, CycleComputes
  <2>2. mode' \in Modes
    BY <1>4, CycleComputes
  <2>3. pc' = "idle" \/ (pc' = "setpoint" /\ job'.amps = computedSetpoint')
    BY <2>1, <2>2, SetpointEffect
  <2> QED BY <2>3 DEF PollInv, JobIsComputed, ReadIsCurrent
<1>5. CASE ApplySwitchesPhase
  <2>1. pc' = "phase"
    BY <1>5 DEF ApplySwitchesPhase
  <2> QED BY <2>1 DEF PollInv, JobIsComputed, ReadIsCurrent
<1>6. CASE Recovery
  <2>1. UNCHANGED <<pc, job, computedSetpoint>>
    BY <1>6 DEF Recovery, ObserveEnds, Escalate, PauseWrite, PauseWriteFails, DwellAborts,
                DwellEnds, RecoveryResumes, RecoveryDone, poll, cycle
  <2>2. RecoveryActive' \/ disturbed' = (pc # "idle")
    BY <1>6 DEF Recovery, ObserveEnds, Escalate, PauseWrite, PauseWriteFails, DwellAborts,
                DwellEnds, RecoveryResumes, RecoveryDone, EndRecovery, RecoveryActive, Disturb
  <2> QED BY <2>1, <2>2 DEF PollInv, JobIsComputed, ReadIsCurrent
<1>7. CASE User
  <2>1. UNCHANGED <<pc, job, snap, computedSetpoint, setCurrent, disturbed, recovery>>
    BY <1>7 DEF User, SwitchOn, SwitchOff, SelectMode, SelectPreference, SetManualCurrent,
                InvalidateSetpointCache, UserUnchanged, poll, cycle, registers, task
  <2>2. lastSetpoint' \in {lastSetpoint, None}
    BY <1>7 DEF User, SwitchOn, SwitchOff, SelectMode, SelectPreference, SetManualCurrent,
                InvalidateSetpointCache
  <2> QED BY <2>1, <2>2 DEF PollInv, JobIsComputed, ReadIsCurrent, RecoveryActive
<1>8. CASE WallboxMinimum \/ LinkDrops
  <2>1. UNCHANGED <<pc, job, computedSetpoint>> /\ disturbed' = (pc # "idle")
    BY <1>8 DEF WallboxMinimum, LinkDrops, WorldUnchanged, Disturb, poll, cycle
  <2> QED BY <2>1 DEF PollInv, JobIsComputed, ReadIsCurrent
<1>9. CASE Plug \/ Unplug \/ Tick \/ UNCHANGED vars
  <2>1. UNCHANGED <<pc, job, snap, computedSetpoint, lastSetpoint, setCurrent, disturbed, recovery>>
    BY <1>9 DEF Plug, Unplug, Tick, vars, WorldUnchanged, poll, cycle, registers, task
  <2> QED BY <2>1 DEF PollInv, JobIsComputed, ReadIsCurrent, RecoveryActive
<1> QED BY <1>1, <1>2, <1>3, <1>4, <1>5, <1>6, <1>7, <1>8, <1>9
        DEF Computes, Next, Poll, ApplyCycle, World

LEMMA PollInvariant == Spec => []PollInv
<1>1. Init => PollInv
  BY DEF Init, PollInv, JobIsComputed, ReadIsCurrent
<1> QED BY <1>1, PollInvStep, SafetyInvariant, PTL DEF Spec

\* A poll that read register 5004, after the quiet period, with nobody else at it.
Undisturbed ==
  /\ pc' = "idle"
  /\ ~disturbed /\ link' /\ ~RecoveryActive /\ lastSwitch >= Quiet
  /\ snap.vehicle /\ snap.setCurrent # None

LEMMA UndisturbedLands ==
  ASSUME TypeInv, SafetyInv, PollInv, [Next]_vars, pc \in {"apply", "setpoint"}, Undisturbed
  PROVE  setCurrent' = computedSetpoint'
<1> USE DEF Undisturbed
<1>1. CASE ApplyKeepsPhase
  <2>1. PICK s \in Surplus : ApplySetpoint(mode', s, CacheAfterEdges, lastSwitch)
    BY <1>1, CycleComputes DEF Computes
  <2>2. lastSwitch \in Int /\ mode' \in Modes
    BY <1>1, CycleComputes DEF Computes, TypeInv, TypeOK
  <2>3. PICK cached :
          /\ cached = IF ReadBackDiffers(CacheAfterEdges) THEN None ELSE CacheAfterEdges
          /\ computedSetpoint' \in Amps
          /\ ~(QuietOver(lastSwitch) /\ computedSetpoint' # cached)
    BY <2>1, <2>2, SetpointEffect, ConstantFacts
  <2>4. computedSetpoint' = CacheAfterEdges /\ ~ReadBackDiffers(CacheAfterEdges)
        /\ CacheAfterEdges # None
    BY <2>3, ConstantFacts DEF QuietOver
  <2>5. CacheAfterEdges = snap.setCurrent
    BY <2>4 DEF ReadBackDiffers
  <2>6. ~JustPlugged
    BY <2>4 DEF CacheAfterEdges, CacheAfterReassert, SafetyInv, BufferScoped, RecoveryActive
  <2>7. CacheAfterEdges = lastSetpoint /\ UNCHANGED setCurrent
    BY <1>1, <2>6 DEF CacheAfterEdges, ApplyKeepsPhase, SessionEdges, registers
  <2>8. setCurrent = snap.setCurrent
    BY <1>1, <2>4, <2>7 DEF PollInv, ReadIsCurrent, ApplyKeepsPhase
  <2> QED BY <2>4, <2>5, <2>7, <2>8
<1>2. CASE WriteSetpoint
  BY <1>2 DEF WriteSetpoint, WriteCurrent, cycle, PollInv, JobIsComputed
<1>3. CASE PollFails \/ ReassertFails \/ WriteSetpointFails
  BY <1>3 DEF PollFails, ReassertFails, WriteSetpointFails, Drop
<1>4. CASE ApplySuspended
  BY <1>4 DEF ApplySuspended, SuspendsFor
<1>5. CASE PollRead \/ Handshake \/ ApplySwitchesPhase \/ WritePhase \/ WritePhaseFails
  BY <1>5 DEF PollRead, Handshake, ApplySwitchesPhase, WritePhase, WritePhaseFails
<1>6. CASE Recovery \/ User \/ World \/ Tick \/ UNCHANGED vars
  <2>1. UNCHANGED pc
    BY <1>6 DEF Recovery, ObserveEnds, Escalate, PauseWrite, PauseWriteFails, DwellAborts,
                DwellEnds, RecoveryResumes, RecoveryDone, User, SwitchOn, SwitchOff, SelectMode,
                SelectPreference, SetManualCurrent, InvalidateSetpointCache, UserUnchanged,
                World, Plug, Unplug, WallboxMinimum, LinkDrops, WorldUnchanged, Tick, vars, poll
  <2> QED BY <2>1
<1> QED BY <1>1, <1>2, <1>3, <1>4, <1>5, <1>6 DEF Next, Poll, ApplyCycle

\* A poll that read the register leaves what it computed in it: the write it
\* skips because of its cache is superfluous (_write_setpoint, the read-back
\* test), for every reading, limit and order of the steps between.
THEOREM PollAlwaysLands == Spec => PollLands
<1>1. TypeInv /\ SafetyInv /\ PollInv /\ [Next]_vars =>
        [ /\ pc \in {"apply", "setpoint"} /\ pc' = "idle"
          /\ ~disturbed /\ link' /\ ~RecoveryActive /\ lastSwitch >= Quiet
          /\ snap.vehicle /\ snap.setCurrent # None
          => setCurrent' = computedSetpoint' ]_vars
  BY UndisturbedLands DEF Undisturbed
<1> QED BY <1>1, SafetyInvariant, PollInvariant, PTL DEF Spec, PollLands
-----------------------------------------------------------------------------
\* Where a step may raise register 5004 while charging is off.
LEMMA OffStep ==
  ASSUME TypeInv, PollInv, [Next]_vars, ~chargingEnabled
  PROVE  /\ computedSetpoint' \in {0, computedSetpoint}
         /\ setCurrent' > setCurrent =>
              \/ ~link' \/ (sessionMinimum /\ ~sessionMinimum')
              \/ pc = "setpoint" /\ computedSetpoint > 0
<1>0. setCurrent \in Nat /\ computedSetpoint \in Int
  BY ConstantFacts DEF TypeInv, TypeOK, Amps, None
<1>1. CASE Computes
  <2>1. PICK s \in Surplus, age \in Int : \E last : ApplySetpoint(mode', s, last, age)
    BY <1>1, CycleComputes DEF TypeInv, TypeOK
  <2>2. computedSetpoint' = 0
    BY <1>1, <2>1, CycleComputes, SetpointEffect
  <2>3. setCurrent' \in {0, setCurrent} \/ ~link'
    BY <1>1 DEF Computes, ApplyKeepsPhase, SessionEdges, WriteCurrent, registers, WritePhase,
                WritePhases, WritePhaseFails, Drop
  <2> QED BY <1>0, <2>2, <2>3
<1>2. CASE WriteSetpoint
  <2>1. pc = "setpoint" /\ setCurrent' = computedSetpoint /\ UNCHANGED computedSetpoint
    BY <1>2 DEF WriteSetpoint, WriteCurrent, cycle, PollInv, JobIsComputed
  <2> QED BY <1>0, <2>1
<1>3. CASE ~(Computes \/ WriteSetpoint)
  <2>1. UNCHANGED computedSetpoint
    BY <1>3, OnlyCyclesCompute
  <2>2. setCurrent' \in {0, setCurrent} \/ ~link' \/ (sessionMinimum /\ ~sessionMinimum')
    <3>1. CASE Poll
      BY <1>3, <3>1 DEF Computes, Poll, ApplyCycle, PollRead, Handshake, WriteCurrent, Drop,
                        PollFails, ApplySuspended, ApplySwitchesPhase, SessionEdges, ReassertFails,
                        WriteSetpointFails, registers
    <3>2. CASE Recovery
      BY <3>2 DEF Recovery, ObserveEnds, Escalate, PauseWrite, WriteCurrent, PauseWriteFails,
                  Drop, DwellAborts, DwellEnds, RecoveryResumes, RecoveryDone, registers
    <3>3. CASE User \/ World \/ Tick \/ UNCHANGED vars
      BY <3>3 DEF User, SwitchOn, SwitchOff, SelectMode, SelectPreference, SetManualCurrent,
                  InvalidateSetpointCache, UserUnchanged, World, Plug, Unplug, WallboxMinimum,
                  LinkDrops, Drop, Tick, vars, registers
    <3> QED BY <3>1, <3>2, <3>3 DEF Next
  <2> QED BY <1>0, <2>1, <2>2
<1> QED BY <1>1, <1>2, <1>3

\* Once switched off, whatever the poll was doing at that moment, the loop
\* computes no new current and raises the register at most by the one write
\* that was already under way.
THEOREM OffIsHeld == Spec => OffHolds
<1> DEFINE Held ==
             /\ computedSetpoint' \in {0, computedSetpoint}
             /\ setCurrent' > setCurrent =>
                  \/ ~link' \/ (sessionMinimum /\ ~sessionMinimum')
                  \/ pc = "setpoint" /\ computedSetpoint > 0
<1>1. TypeInv /\ PollInv /\ [Next]_vars =>
        [~chargingEnabled => Held]_<<setCurrent, computedSetpoint>>
  BY OffStep
<1> QED BY <1>1, TypeInvariant, PollInvariant, PTL DEF Spec, OffHolds

\* And a cycle that decides while charging is off sends 0 A or finds 0 A in the
\* register, whatever the write that the off overtook left in the cache.
THEOREM OffReachesTheWire ==
  Spec => [][ pc = "apply" /\ ~chargingEnabled =>
                /\ pc' = "setpoint" => job'.amps = 0
                /\ Undisturbed => setCurrent' = 0 ]_vars
<1>1. TypeInv /\ SafetyInv /\ PollInv /\ [Next]_vars =>
        [ pc = "apply" /\ ~chargingEnabled =>
            /\ pc' = "setpoint" => job'.amps = 0
            /\ Undisturbed => setCurrent' = 0 ]_vars
  <2> SUFFICES ASSUME TypeInv, SafetyInv, PollInv, [Next]_vars,
                      pc = "apply", ~chargingEnabled
               PROVE  /\ pc' = "setpoint" => job'.amps = 0
                      /\ Undisturbed => setCurrent' = 0
    OBVIOUS
  <2>1. CASE ApplyKeepsPhase
    <3>1. PICK s \in Surplus : ApplySetpoint(mode', s, CacheAfterEdges, lastSwitch)
      BY <2>1, CycleComputes DEF Computes
    <3>2. computedSetpoint' = 0 /\ (pc' = "setpoint" => job'.amps = computedSetpoint')
      BY <2>1, <3>1, CycleComputes, SetpointEffect DEF Computes, TypeInv, TypeOK
    <3> QED BY <3>2, UndisturbedLands
  <2>2. CASE ~ApplyKeepsPhase
    <3>1. pc' # "setpoint"
      BY <2>2 DEF Next, Poll, ApplyCycle, PollRead, Handshake, PollFails, ApplySuspended,
                  ReassertFails, ApplySwitchesPhase, WritePhase, WritePhaseFails,
                  WriteSetpoint, WriteSetpointFails, Finish, Recovery, ObserveEnds, Escalate,
                  PauseWrite, PauseWriteFails, DwellAborts, DwellEnds, RecoveryResumes,
                  RecoveryDone, User, SwitchOn, SwitchOff, SelectMode, SelectPreference,
                  SetManualCurrent, InvalidateSetpointCache, UserUnchanged, World, Plug, Unplug,
                  WallboxMinimum, LinkDrops, WorldUnchanged, Tick, vars, poll
    <3>2. ~Undisturbed
      BY <2>2 DEF Undisturbed, Next, Poll, ApplyCycle, PollRead, Handshake, PollFails, Drop,
                  ApplySuspended, SuspendsFor, ReassertFails, ApplySwitchesPhase, WritePhase,
                  WritePhaseFails, WriteSetpoint, WriteSetpointFails, Recovery, ObserveEnds,
                  Escalate, PauseWrite, PauseWriteFails, DwellAborts, DwellEnds, RecoveryResumes,
                  RecoveryDone, User, SwitchOn, SwitchOff, SelectMode, SelectPreference,
                  SetManualCurrent, InvalidateSetpointCache, UserUnchanged, World, Plug, Unplug,
                  WallboxMinimum, LinkDrops, WorldUnchanged, Tick, vars, poll
    <3> QED BY <3>1, <3>2
  <2> QED BY <2>1, <2>2
<1> QED BY <1>1, SafetyInvariant, PollInvariant, PTL DEF Spec
-----------------------------------------------------------------------------
\* The wish for another phase count is younger than the last write of register
\* 405, and gone while a write is on its way.
TimerYounger ==
  /\ phaseDiffSince <= lastSwitch
  /\ pc = "phase" => phaseDiffSince = None

LEMMA TimerYoungerStep == TypeInv /\ TimerYounger /\ [Next]_vars => TimerYounger'
<1> SUFFICES ASSUME TypeInv, TimerYounger, [Next]_vars PROVE TimerYounger'
  OBVIOUS
<1>0. phaseDiffSince \in {None} \cup 0 .. Dwell /\ lastSwitch \in 0 .. LongAgo /\ Dwell <= LongAgo
  BY TimesAssumption DEF TypeInv, TypeOK, LongAgo, Greater
<1>1. CASE ApplyKeepsPhase
  <2>1. PICK s \in Surplus :
          /\ phaseDiffSince' = PhaseDiffAfter(mode', s)
          /\ ApplySetpoint(mode', s, CacheAfterEdges, lastSwitch)
    BY <1>1 DEF ApplyKeepsPhase
  <2>2. lastSwitch' = lastSwitch
    BY <1>1 DEF ApplyKeepsPhase
  <2>3. snap.vehicle \in BOOLEAN
    BY DEF TypeInv, TypeOK, Snapshot
  <2>4. phaseDiffSince' \in {None, 0, phaseDiffSince}
    BY <2>1, <2>3 DEF PhaseDiffAfter
  <2>5. pc' # "phase"
    BY <2>1 DEF ApplySetpoint, Finish
  <2> QED BY <1>0, <2>2, <2>4, <2>5 DEF TimerYounger, None
<1>2. CASE ApplySwitchesPhase
  <2>1. PICK s \in Surplus : SwitchDue(mode', s) /\ phaseDiffSince' = PhaseDiffAfter(mode', s)
    BY <1>2 DEF ApplySwitchesPhase
  <2>2. snap.vehicle
    BY <2>1 DEF SwitchDue
  <2>3. phaseDiffSince' = None
    BY <2>1, <2>2 DEF PhaseDiffAfter
  <2>4. lastSwitch' = lastSwitch
    BY <1>2 DEF ApplySwitchesPhase
  <2> QED BY <1>0, <2>3, <2>4 DEF TimerYounger, None
<1>3. CASE WritePhase \/ WritePhaseFails
  <2>1. pc = "phase" /\ phaseDiffSince' = phaseDiffSince /\ lastSwitch' = 0
    BY <1>3 DEF WritePhase, WritePhaseFails, AfterPhaseWrite
  <2> QED BY <2>1 DEF TimerYounger, None
<1>4. CASE Tick
  <2>1. /\ phaseDiffSince' = Older(phaseDiffSince, Dwell)
        /\ lastSwitch' = Older(lastSwitch, LongAgo) /\ pc' = pc
    BY <1>4 DEF Tick, poll
  <2> QED BY <1>0, <2>1, ConstantFacts DEF TimerYounger, Older, None
<1>5. CASE ~(ApplyKeepsPhase \/ ApplySwitchesPhase \/ WritePhase \/ WritePhaseFails \/ Tick)
  <2>1. UNCHANGED <<phaseDiffSince, lastSwitch>>
    BY <1>5, OnlyCyclesCompute DEF Computes
  <2>2. pc' # "phase" \/ pc' = pc
    BY <1>5 DEF Next, Poll, ApplyCycle, PollRead, Handshake, PollFails, ApplySuspended,
                ReassertFails, WriteSetpoint, WriteSetpointFails, Finish,
                Recovery, ObserveEnds, Escalate, PauseWrite, PauseWriteFails, DwellAborts,
                DwellEnds, RecoveryResumes, RecoveryDone, User, SwitchOn, SwitchOff, SelectMode,
                SelectPreference, SetManualCurrent, InvalidateSetpointCache, UserUnchanged,
                World, Plug, Unplug, WallboxMinimum, LinkDrops, WorldUnchanged, vars, poll
  <2> QED BY <2>1, <2>2 DEF TimerYounger
<1> QED BY <1>1, <1>2, <1>3, <1>4, <1>5

\* Whatever the user forces in between and whenever the surplus turns, a phase
\* switch that the surplus decides comes at least the dwell after the last one.
THEOREM SwitchesKeepDwell == Spec => NoFlapping
<1>1. Init => TimerYounger
  BY ConstantFacts DEF Init, TimerYounger, None
<1>2. TypeInv /\ TimerYounger /\ [Next]_vars =>
        [pc' = "phase" /\ DwellApplies(mode') => lastSwitch >= Dwell]_pc
  <2> SUFFICES ASSUME TypeInv, TimerYounger, [Next]_vars, pc' = "phase", pc # "phase",
                      DwellApplies(mode')
               PROVE  lastSwitch >= Dwell
    OBVIOUS
  <2>1. ApplySwitchesPhase
    <3>1. ~ApplyKeepsPhase /\ ~WritePhase /\ ~WritePhaseFails
      BY CycleComputes DEF ApplyKeepsPhase, ApplySetpoint, Finish, WritePhase, WritePhaseFails
    <3> QED
      BY <3>1 DEF Next, Poll, ApplyCycle, PollRead, Handshake, PollFails, ApplySuspended,
                  ReassertFails, WriteSetpoint, WriteSetpointFails, Finish,
                  Recovery, ObserveEnds, Escalate, PauseWrite, PauseWriteFails, DwellAborts,
                  DwellEnds, RecoveryResumes, RecoveryDone, User, SwitchOn, SwitchOff, SelectMode,
                  SelectPreference, SetManualCurrent, InvalidateSetpointCache, UserUnchanged,
                  World, Plug, Unplug, WallboxMinimum, LinkDrops, WorldUnchanged, Tick, vars, poll
  <2>2. phaseDiffSince >= Dwell
    BY <2>1 DEF ApplySwitchesPhase, SwitchDue, DwellServed
  <2> QED BY <2>2, TimesAssumption DEF TimerYounger, TypeInv, TypeOK, None
<1> QED BY <1>1, <1>2, TimerYoungerStep, TypeInvariant, PTL DEF Spec, NoFlapping
-----------------------------------------------------------------------------
\* The loop's timer never runs behind the solar charge it stands for, whatever
\* modes are mixed: the timer is cleared only where the charge ends.
TimerOlder == solarAge <= chargeStarted

LEMMA TimerOlderStep == TypeInv /\ TimerOlder /\ [Next]_vars => TimerOlder'
<1> SUFFICES ASSUME TypeInv, TimerOlder, [Next]_vars PROVE TimerOlder'
  OBVIOUS
<1>0. chargeStarted \in {None} \cup 0 .. MinCharge /\ MinCharge \in Nat
      /\ solarAge \in {Untracked, None} \cup 0 .. MinCharge
  BY ConstantFacts DEF TypeInv, TypeOK
<1>1. CASE Computes
  <2>1. PICK s \in Surplus, age \in Int : \E last : ApplySetpoint(mode', s, last, age)
    BY <1>1, CycleComputes DEF TypeInv, TypeOK
  <2>2. PICK want \in Amps :
          /\ computedSetpoint' \in {want, Limits.min}
          /\ chargeStarted' =
               CASE mode' \notin SolarModes -> chargeStarted
                 [] mode' \in SolarModes /\ computedSetpoint' <= 0 -> None
                 [] mode' \in SolarModes /\ computedSetpoint' > 0 ->
                      IF chargeStarted = None THEN 0 ELSE chargeStarted
          /\ solarAge' =
               CASE computedSetpoint' <= 0 -> None
                 [] computedSetpoint' > 0 /\ mode' \notin SolarModes -> Untracked
                 [] computedSetpoint' > 0 /\ mode' \in SolarModes ->
                      IF solarAge = None THEN 0 ELSE solarAge
    BY <1>1, <2>1, CycleComputes, SetpointEffect
  <2>3. computedSetpoint' \in Int
    BY <2>2, ConstantFacts
  <2> QED BY <1>0, <2>2, <2>3 DEF TimerOlder, None, Untracked
<1>2. CASE Tick
  <2>1. chargeStarted' = Older(chargeStarted, MinCharge) /\ solarAge' = Older(solarAge, MinCharge)
    BY <1>2 DEF Tick
  <2> QED BY <1>0, <2>1 DEF TimerOlder, Older, None, Untracked
<1>3. CASE ~Computes /\ ~Tick
  BY <1>3, OnlyCyclesCompute DEF TimerOlder
<1> QED BY <1>1, <1>2, <1>3

\* The excess over the load balancer's room that the minimum duration allows
\* (FuseRespected) ends with it: once a solar charge has lasted that long, no
\* cycle computes more than the room, in whatever modes the user mixes.
THEOREM ExcessEnds ==
  Spec => [][ Computes /\ solarAge = MinCharge /\ room'.on =>
                computedSetpoint' = 0 \/ Tenths(computedSetpoint') <= room'.cap ]_vars
<1> DEFINE Ends == solarAge = MinCharge /\ room'.on =>
                     computedSetpoint' = 0 \/ Tenths(computedSetpoint') <= room'.cap
<1>1. Init => TimerOlder
  BY DEF Init, TimerOlder, None
<1>2. TypeInv /\ TimerOlder /\ [Next]_vars => [Computes => Ends]_vars
  <2> SUFFICES ASSUME TypeInv, TimerOlder, Computes PROVE Ends
    OBVIOUS
  <2>1. PICK s \in Surplus, age \in Int : \E last : ApplySetpoint(mode', s, last, age)
    BY CycleComputes DEF TypeInv, TypeOK, Computes
  <2>2. \/ ~room'.on \/ computedSetpoint' = 0 \/ Tenths(computedSetpoint') <= room'.cap
        \/ chargeStarted \in 0 .. MinCharge - 1
    BY <2>1, CycleComputes, SetpointUnderRoom DEF Computes
  <2>3. solarAge = MinCharge => chargeStarted \notin 0 .. MinCharge - 1
    BY ConstantFacts DEF TimerOlder, TypeInv, TypeOK
  <2> QED BY <2>2, <2>3
<1> QED BY <1>1, <1>2, TimerOlderStep, TypeInvariant, PTL DEF Spec

\* The mode is one that the user selected, or the default.
LEMMA ModeIsSelected == [Next]_vars => mode' \in {mode, DefaultMode} \cup ModeChoices
<1> SUFFICES ASSUME [Next]_vars PROVE mode' \in {mode, DefaultMode} \cup ModeChoices
  OBVIOUS
<1>1. CASE ApplyKeepsPhase \/ ApplySwitchesPhase
  BY <1>1 DEF ApplyKeepsPhase, ApplySwitchesPhase, ModeAfterEdges
<1>2. CASE User
  BY <1>2 DEF User, SwitchOn, SwitchOff, SelectMode, SelectPreference, SetManualCurrent,
              InvalidateSetpointCache, intent
<1>3. CASE ~(ApplyKeepsPhase \/ ApplySwitchesPhase \/ User)
  BY <1>3 DEF Next, Poll, ApplyCycle, PollRead, Handshake, PollFails, ApplySuspended,
              ReassertFails, WritePhase, WritePhaseFails, AfterPhaseWrite, WriteSetpoint,
              WriteSetpointFails, Recovery, ObserveEnds, Escalate, PauseWrite,
              PauseWriteFails, DwellAborts, DwellEnds, RecoveryResumes, RecoveryDone,
              World, Plug, Unplug, WallboxMinimum, LinkDrops, WorldUnchanged, Tick, vars, intent
<1> QED BY <1>1, <1>2, <1>3

\* Where nobody can select a mode that is not solar, the two are the same.
OnlySolar == DefaultMode \in SolarModes /\ ModeChoices \subseteq SolarModes
SolarTimed == mode \in SolarModes /\ solarAge = chargeStarted

LEMMA SolarTimedStep ==
  ASSUME OnlySolar
  PROVE  TypeInv /\ SolarTimed /\ [Next]_vars => SolarTimed'
<1> SUFFICES ASSUME TypeInv, SolarTimed, [Next]_vars PROVE SolarTimed'
  OBVIOUS
<1>0. mode' \in SolarModes
  BY ModeIsSelected DEF OnlySolar, SolarTimed
<1>1. CASE Computes
  <2>1. PICK s \in Surplus, age \in Int : \E last : ApplySetpoint(mode', s, last, age)
    BY <1>1, CycleComputes DEF TypeInv, TypeOK
  <2>2. PICK want \in Amps :
          /\ computedSetpoint' \in {want, Limits.min}
          /\ chargeStarted' =
               CASE mode' \notin SolarModes -> chargeStarted
                 [] mode' \in SolarModes /\ computedSetpoint' <= 0 -> None
                 [] mode' \in SolarModes /\ computedSetpoint' > 0 ->
                      IF chargeStarted = None THEN 0 ELSE chargeStarted
          /\ solarAge' =
               CASE computedSetpoint' <= 0 -> None
                 [] computedSetpoint' > 0 /\ mode' \notin SolarModes -> Untracked
                 [] computedSetpoint' > 0 /\ mode' \in SolarModes ->
                      IF solarAge = None THEN 0 ELSE solarAge
    BY <1>1, <2>1, CycleComputes, SetpointEffect
  <2>3. computedSetpoint' \in Int
    BY <2>2, ConstantFacts
  <2> QED BY <1>0, <2>2, <2>3 DEF SolarTimed
<1>2. CASE Tick
  <2>1. chargeStarted' = Older(chargeStarted, MinCharge) /\ solarAge' = Older(solarAge, MinCharge)
    BY <1>2 DEF Tick
  <2> QED BY <1>0, <2>1 DEF SolarTimed
<1>3. CASE ~Computes /\ ~Tick
  BY <1>0, <1>3, OnlyCyclesCompute DEF SolarTimed
<1> QED BY <1>1, <1>2, <1>3

\* With solar modes only, a charge that began after a pause is not paused again
\* within the minimum duration while the car stays and charging is on.
THEOREM SolarChargeIsKept ==
  ASSUME OnlySolar
  PROVE  Spec => SolarChargeLasts
<1> DEFINE Pauses ==
             /\ solarAge \in 0 .. MinCharge - 1
             /\ computedSetpoint' = 0 /\ mode' \in SolarModes
<1>1. Init => SolarTimed
  BY DEF Init, SolarTimed, OnlySolar
<1>2. TypeInv /\ SolarTimed /\ [Next]_vars =>
        [Pauses => ~chargingEnabled \/ ~snap.vehicle]_computedSetpoint
  <2> SUFFICES ASSUME TypeInv, SolarTimed, [Next]_vars, Pauses, computedSetpoint' # computedSetpoint
               PROVE  ~chargingEnabled \/ ~snap.vehicle
    OBVIOUS
  <2>1. Computes
    BY OnlyCyclesCompute
  <2>2. PICK s \in Surplus, age \in Int : \E last : ApplySetpoint(mode', s, last, age)
    BY <2>1, CycleComputes DEF TypeInv, TypeOK
  <2>3. PICK want \in Amps :
          computedSetpoint' =
            IF mode' \in SolarModes /\ HoldsMinimum(want) THEN Limits.min ELSE want
    BY <2>1, <2>2, CycleComputes, SetpointEffect
  <2>4. Limits.min # 0
    BY LimitsAssumption
  <2>5. want = 0 /\ ~HoldsMinimum(want)
    BY <2>3, <2>4
  <2>6. chargeStarted # None /\ chargeStarted < MinCharge
    BY ConstantFacts DEF SolarTimed, None
  <2> QED BY <2>5, <2>6 DEF HoldsMinimum
<1> QED BY <1>1, <1>2, SolarTimedStep, TypeInvariant, PTL DEF Spec, SolarChargeLasts

\* Where nobody can select a solar mode, a cycle without room for the car, a
\* missing or stale meter among them, computes a pause: only the minimum duration
\* of a solar charge keeps the loop from failing closed.
NoSolar == DefaultMode \notin SolarModes /\ ModeChoices \cap SolarModes = {}

THEOREM FailsClosedWithoutSolar ==
  ASSUME NoSolar
  PROVE  Spec => FailsClosed
<1> DEFINE Closed == room'.on /\ room'.cap <= 0 => computedSetpoint' = 0
<1>1. Init => mode \notin SolarModes
  BY DEF Init, NoSolar
<1>2. mode \notin SolarModes /\ [Next]_vars => (mode \notin SolarModes)'
  BY ModeIsSelected DEF NoSolar
<1>3. TypeInv /\ mode \notin SolarModes /\ [Next]_vars => [Closed]_<<room, computedSetpoint>>
  <2> SUFFICES ASSUME TypeInv, mode \notin SolarModes, [Next]_vars,
                      UNCHANGED <<room, computedSetpoint>> => FALSE
               PROVE  Closed
    OBVIOUS
  <2>1. Computes
    BY OnlyCyclesCompute
  <2>2. PICK s \in Surplus, age \in Int : \E last : ApplySetpoint(mode', s, last, age)
    BY <2>1, CycleComputes DEF TypeInv, TypeOK
  <2>3. mode' \notin SolarModes
    BY ModeIsSelected DEF NoSolar
  <2>4. ~room'.on \/ computedSetpoint' = 0 \/ Tenths(computedSetpoint') <= room'.cap
    BY <2>1, <2>2, <2>3, CycleComputes, SetpointUnderRoom
  <2>5. computedSetpoint' \in Nat
    <3>1. PICK want \in Amps : computedSetpoint' \in {want, Limits.min}
      BY <2>1, <2>2, CycleComputes, SetpointEffect
    <3> QED BY <3>1, ConstantFacts DEF Amps
  <2>6. ASSUME room'.on, room'.cap <= 0 PROVE computedSetpoint' = 0
    <3>1. room'.cap \in Int
      <4>1. PICK dlb \in Dlb : room' = dlb
        BY <2>2 DEF ApplySetpoint
      <4> QED BY <4>1, DlbType
    <3> QED BY <2>4, <2>5, <2>6, <3>1 DEF Tenths
  <2> QED BY <2>6
<1> QED BY <1>1, <1>2, <1>3, TypeInvariant, PTL DEF Spec, FailsClosed
-----------------------------------------------------------------------------
\* The step that notices an unplugging resets the mode, unless a recovery runs:
\* then, and only then, the reset of this unplug is lost.
LEMMA UnplugResets ==
  ASSUME TypeInv, [Next]_vars, ~RecoveryActive,
         ResetOnDisconnect, wasConnected, ~wasConnected'
  PROVE  mode' = DefaultMode
<1>1. CASE ApplyKeepsPhase \/ ApplySwitchesPhase
  BY <1>1 DEF ApplyKeepsPhase, ApplySwitchesPhase, SessionEdges, ModeAfterEdges, JustUnplugged
<1>2. CASE ~(ApplyKeepsPhase \/ ApplySwitchesPhase)
  <2>1. wasConnected' = wasConnected \/ wasConnected' = TRUE
    BY <1>2 DEF Next, Poll, ApplyCycle, PollRead, Handshake, PollFails, ApplySuspended,
                SuspendsFor, ReassertFails, WritePhase, WritePhaseFails, AfterPhaseWrite,
                WriteSetpoint, WriteSetpointFails, Recovery, ObserveEnds, Escalate, PauseWrite,
                PauseWriteFails, DwellAborts, DwellEnds, RecoveryResumes, RecoveryDone,
                User, SwitchOn, SwitchOff, SelectMode, SelectPreference, SetManualCurrent,
                InvalidateSetpointCache, UserUnchanged, World, Plug, Unplug, WallboxMinimum,
                LinkDrops, WorldUnchanged, Tick, vars, cycle
  <2> QED BY <2>1
<1> QED BY <1>1, <1>2

\* Every unplug that a cycle notices resets the mode, unless a recovery runs.
THEOREM ModeIsResetUnlessRecovering ==
  Spec => [][ ResetOnDisconnect /\ wasConnected /\ ~wasConnected' /\ ~RecoveryActive
              => mode' = DefaultMode ]_wasConnected
<1>1. TypeInv /\ [Next]_vars =>
        [ ResetOnDisconnect /\ wasConnected /\ ~wasConnected' /\ ~RecoveryActive
          => mode' = DefaultMode ]_wasConnected
  BY UnplugResets
<1> QED BY <1>1, TypeInvariant, PTL DEF Spec
-----------------------------------------------------------------------------
\* How far a recovery has come.
Progress(stage) ==
  CASE stage = "observe" -> 1 [] stage = "pausing" -> 2 [] stage = "dwell" -> 3
    [] stage = "resuming" -> 4 [] stage = "ending" -> 5 [] stage = "none" -> 6

\* A recovery never goes back to an earlier stage, is never started anew while it
\* runs, and within a stage its deadline only comes closer: what keeps it from
\* ending (RecoveryEnds) can only be a step that is not taken.
THEOREM RecoveryMovesOn ==
  Spec => [][ RecoveryActive =>
                \/ Progress(recovery') > Progress(recovery)
                \/ recovery' = recovery /\ direction' = direction /\ recoveryAge' >= recoveryAge
            ]_vars
<1> DEFINE MovesOn ==
             \/ Progress(recovery') > Progress(recovery)
             \/ recovery' = recovery /\ direction' = direction /\ recoveryAge' >= recoveryAge
<1>1. TypeInv /\ SafetyInv /\ [Next]_vars => [RecoveryActive => MovesOn]_vars
  <2> SUFFICES ASSUME TypeInv, SafetyInv, [Next]_vars, RecoveryActive PROVE MovesOn
    OBVIOUS
  <2>0. recoveryAge \in Nat
    BY DEF TypeInv, TypeOK
  <2>1. CASE WritePhase \/ WritePhaseFails
    BY <2>1 DEF WritePhase, WritePhaseFails, SafetyInv, OwnedWhileRunning
  <2>2. CASE Recovery
    BY <2>2 DEF Recovery, ObserveEnds, Escalate, PauseWrite, PauseWriteFails, DwellAborts,
                DwellEnds, RecoveryResumes, RecoveryDone, EndRecovery, Progress
  <2>3. CASE Tick
    BY <2>0, <2>3 DEF Tick, Older
  <2>4. CASE ~(WritePhase \/ WritePhaseFails \/ Recovery \/ Tick)
    <3>1. UNCHANGED task
      BY <2>4 DEF Next, Poll, ApplyCycle, PollRead, Handshake, PollFails, ApplySuspended,
                  ReassertFails, ApplyKeepsPhase, ApplySwitchesPhase, WriteSetpoint,
                  WriteSetpointFails, User, SwitchOn, SwitchOff, SelectMode, SelectPreference,
                  SetManualCurrent, InvalidateSetpointCache, UserUnchanged, World, Plug, Unplug,
                  WallboxMinimum, LinkDrops, WorldUnchanged, vars
    <3> QED BY <2>0, <3>1 DEF task
  <2> QED BY <2>1, <2>2, <2>3, <2>4
<1> QED BY <1>1, SafetyInvariant, PTL DEF Spec
=============================================================================
