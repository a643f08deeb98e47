------------------------ MODULE InternalControl_proofs ------------------------
(***************************************************************************)
(* Type correctness and the safety of phase switches and recoveries in     *)
(* InternalControl, for every limit, reading, option and delay.            *)
(*                                                                         *)
(* TypeOK alone is not inductive: a poll about to write register 405 or    *)
(* 5004 must hold a job of that kind (JobOK).  RecoveryOwnsCurrent needs   *)
(* that a poll is never about to write a register while a recovery runs    *)
(* (OwnedWhileRunning) and that the recovery itself only ever writes 0 A.  *)
(***************************************************************************)
EXTENDS InternalControl, ChargeMath_proofs

JobOK ==
  /\ pc = "phase" => job.kind = "phase"
  /\ pc = "setpoint" => job.kind = "setpoint"

TypeInv == TypeOK /\ JobOK
-----------------------------------------------------------------------------
\* The constants and the sets of readings, in the form the proofs use.
LEMMA ConstantFacts ==
  /\ Limits \in LimitsSet
  /\ EffectiveMax(Limits) \in Nat /\ Limits.min \in Amps /\ 0 \in Amps /\ Amps \subseteq Int
  /\ HwCurrents \subseteq Amps
  /\ Quiet \in Nat \ {0} /\ MinCharge \in Nat \ {0} /\ Dwell \in Nat \ {0}
  /\ LongAgo \in Nat /\ Quiet <= LongAgo /\ None \notin Amps
<1>1. Limits \in LimitsSet
  BY LimitsAssumption DEF LimitsSet
<1>2. EffectiveMax(Limits) \in Nat /\ Limits.min <= EffectiveMax(Limits)
  BY <1>1, EffectiveMaxType
<1>3. Quiet \in Nat \ {0} /\ MinCharge \in Nat \ {0} /\ Dwell \in Nat \ {0}
  BY TimesAssumption
<1>4. LongAgo \in Nat /\ Quiet <= LongAgo
  BY <1>3 DEF LongAgo, Greater
<1> QED BY <1>1, <1>2, <1>3, <1>4, LimitsAssumption DEF Amps, LimitsSet, None

LEMMA SurplusType ==
  ASSUME NEW s \in Surplus
  PROVE  s \in [valid : BOOLEAN, watts : Int]
<1>1. CASE s = [valid |-> FALSE, watts |-> 0]
  BY <1>1
<1>2. CASE s \in [valid : {TRUE}, watts : Surpluses]
  <2>1. s = [valid |-> s.valid, watts |-> s.watts] /\ s.valid = TRUE /\ s.watts \in Surpluses
    BY <1>2
  <2>2. s.watts \in Int
    BY <2>1, ReadingsAssumption
  <2> QED BY <2>1, <2>2
<1> QED BY <1>1, <1>2 DEF Surplus

LEMMA DlbType ==
  ASSUME NEW d \in Dlb
  PROVE  d \in [on : BOOLEAN, cap : Int]
<1>1. CASE d = [on |-> FALSE, cap |-> 0]
  BY <1>1
<1>2. CASE d \in [on : {TRUE}, cap : Rooms \cup {0}]
  <2>1. d = [on |-> d.on, cap |-> d.cap] /\ d.on = TRUE /\ d.cap \in Rooms \cup {0}
    BY <1>2
  <2>2. d.cap \in Int
    BY <2>1, ReadingsAssumption
  <2> QED BY <2>1, <2>2
<1> QED BY <1>1, <1>2 DEF Dlb

LEMMA SnapshotFacts ==
  /\ NoSnapshot \in Snapshot
  /\ \A d \in Snapshot : Seen(d) \in [vehicle : BOOLEAN, charging : BOOLEAN, draw : Draws]
  /\ \A d \in Snapshot : ActivePhases(d) \in Int
  /\ \A d \in Snapshot : CurrentPhases(d) \in Phases
<1>1. NoSnapshot \in Snapshot
  BY DEF NoSnapshot, Snapshot, Draws, None
<1>2. ASSUME NEW d \in Snapshot
      PROVE  Seen(d) \in [vehicle : BOOLEAN, charging : BOOLEAN, draw : Draws]
  BY DEF Snapshot, Seen
<1>3. ASSUME NEW d \in Snapshot
      PROVE  ActivePhases(d) \in Int /\ CurrentPhases(d) \in Phases
  <2>1. d.draw \in Draws /\ d.charging \in BOOLEAN /\ d.phaseSwitch \in {0, 1, None}
    BY DEF Snapshot
  <2>2. PhasesInUse(d) \in 0 .. 3
    BY <2>1 DEF PhasesInUse, Draws
  <2>3. ActivePhases(d) \in Int
    BY <2>1, <2>2 DEF ActivePhases
  <2>4. CurrentPhases(d) \in Phases
    BY <2>1, <2>2 DEF CurrentPhases, Phases, None
  <2> QED BY <2>3, <2>4
<1> QED BY <1>1, <1>2, <1>3

\* The tail of a cycle keeps every type and hands over a job of the right kind.
LEMMA ApplySetpointType ==
  ASSUME TypeOK, snap \in Snapshot, NEW m \in Modes, NEW s \in Surplus,
         NEW last \in Amps \cup {None}, NEW switchAge \in Int,
         ApplySetpoint(m, s, last, switchAge)
  PROVE  /\ room' \in [on : BOOLEAN, cap : Int]
         /\ computedSetpoint' \in Amps
         /\ chargeStarted' \in {None} \cup 0 .. MinCharge
         /\ solarAge' \in {Untracked, None} \cup 0 .. MinCharge
         /\ lastSetpoint' \in Amps \cup {None}
         /\ \/ pc' = "setpoint" /\ QuietOver(switchAge)
               /\ job' \in [kind : {"setpoint"}, amps : Amps] /\ UNCHANGED <<snap, data, disturbed>>
            \/ pc' = "idle" /\ job' = NoJob /\ snap' = NoSnapshot /\ data' = Seen(snap)
               /\ disturbed' = FALSE
<1>1. PICK dlb \in Dlb :
        LET target == ModeTarget(m, manualCurrent, s, ActivePhases(snap), Voltage, Limits)
            want == Finalize(target, dlb, Limits, chargingEnabled, snap.vehicle)
            solar == m \in SolarModes
            setpoint == IF solar /\ HoldsMinimum(want) THEN Limits.min ELSE want
            cached == IF ReadBackDiffers(last) THEN None ELSE last
        IN /\ room' = dlb
           /\ computedSetpoint' = setpoint
           /\ chargeStarted' =
                CASE ~solar -> chargeStarted
                  [] solar /\ setpoint <= 0 -> None
                  [] solar /\ setpoint > 0 -> IF chargeStarted = None THEN 0 ELSE chargeStarted
           /\ solarAge' =
                CASE setpoint <= 0 -> None
                  [] setpoint > 0 /\ ~solar -> Untracked
                  [] setpoint > 0 /\ solar -> IF solarAge = None THEN 0 ELSE solarAge
           /\ lastSetpoint' = cached
           /\ IF QuietOver(switchAge) /\ setpoint # cached
              THEN /\ pc' = "setpoint"
                   /\ job' = [kind |-> "setpoint", amps |-> setpoint]
                   /\ UNCHANGED <<snap, data, disturbed>>
              ELSE Finish /\ data' = Seen(snap)
  BY Zenon DEF ApplySetpoint
<1> DEFINE target == ModeTarget(m, manualCurrent, s, ActivePhases(snap), Voltage, Limits)
           want == Finalize(target, dlb, Limits, chargingEnabled, snap.vehicle)
           setpoint == IF m \in SolarModes /\ HoldsMinimum(want) THEN Limits.min ELSE want
           cached == IF ReadBackDiffers(last) THEN None ELSE last
<1>2. target \in Int
  BY ModeTargetType, SurplusType, SnapshotFacts, ConstantFacts, ReadingsAssumption
     DEF TypeOK, Amps
<1>3. want \in Amps
  <2>1. dlb \in [on : BOOLEAN, cap : Int] /\ snap.vehicle \in BOOLEAN /\ chargingEnabled \in BOOLEAN
    BY DlbType DEF TypeOK, Snapshot
  <2>2. Limits.min \in Nat /\ EffectiveMax(Limits) \in Nat
    BY ConstantFacts DEF Amps
  <2> HIDE DEF target
  <2>3. want = 0 \/ want \in Limits.min .. EffectiveMax(Limits)
    BY <1>2, <2>1, FinalizeBounds, ConstantFacts
  <2> HIDE DEF want
  <2> QED BY <2>2, <2>3 DEF Amps
<1>4. setpoint \in Amps /\ setpoint \in Nat
  <2> HIDE DEF want
  <2> QED BY <1>3, ConstantFacts DEF Amps
<1>5. cached \in Amps \cup {None}
  OBVIOUS
<1> HIDE DEF setpoint, cached
<1>6. room' = dlb /\ computedSetpoint' = setpoint /\ lastSetpoint' = cached
  BY <1>1 DEF setpoint, cached
<1>7. chargeStarted' = CASE m \notin SolarModes -> chargeStarted
        [] m \in SolarModes /\ setpoint <= 0 -> None
        [] m \in SolarModes /\ setpoint > 0 -> IF chargeStarted = None THEN 0 ELSE chargeStarted
  BY <1>1 DEF setpoint
<1>8. solarAge' = CASE setpoint <= 0 -> None
        [] setpoint > 0 /\ m \notin SolarModes -> Untracked
        [] setpoint > 0 /\ m \in SolarModes -> IF solarAge = None THEN 0 ELSE solarAge
  BY <1>1 DEF setpoint
<1>9. \/ pc' = "setpoint" /\ QuietOver(switchAge)
         /\ job' = [kind |-> "setpoint", amps |-> setpoint] /\ UNCHANGED <<snap, data, disturbed>>
      \/ pc' = "idle" /\ job' = NoJob /\ snap' = NoSnapshot /\ data' = Seen(snap)
         /\ disturbed' = FALSE
  BY <1>1 DEF setpoint, cached, Finish
<1>10. chargeStarted' \in {None} \cup 0 .. MinCharge
  BY <1>4, <1>7, ConstantFacts DEF TypeOK
<1>11. solarAge' \in {Untracked, None} \cup 0 .. MinCharge
  BY <1>4, <1>8, ConstantFacts DEF TypeOK
<1> QED BY <1>4, <1>5, <1>6, <1>9, <1>10, <1>11, DlbType
-----------------------------------------------------------------------------
\* The steps of the poll that do not compute a setpoint.
LEMMA PollTypes ==
  ASSUME TypeInv,
         PollRead \/ Handshake \/ PollFails \/ ApplySuspended \/ ReassertFails
           \/ WriteSetpoint \/ WriteSetpointFails
  PROVE  TypeInv'
<1>1. ASSUME Contact
      PROVE  link' \in BOOLEAN /\ newConnection' \in BOOLEAN
  BY <1>1 DEF Contact
<1>2. ASSUME Drop
      PROVE  /\ link' \in BOOLEAN /\ newConnection' \in BOOLEAN
             /\ setCurrent' \in Amps /\ phaseSwitch' \in {0, 1}
  BY <1>2, ConstantFacts DEF Drop, TypeInv, TypeOK
<1>3. ASSUME Finish
      PROVE  /\ pc' = "idle" /\ snap' \in Snapshot /\ job' \in Job /\ JobOK'
             /\ disturbed' \in BOOLEAN
  BY <1>3, SnapshotFacts DEF Finish, Job, NoJob, JobOK
<1>4. CacheAfterReassert \in Amps \cup {None} /\ CacheAfterEdges \in Amps \cup {None}
  BY DEF CacheAfterReassert, CacheAfterEdges, TypeInv, TypeOK
<1>5. snap \in Snapshot /\ Seen(snap) \in [vehicle : BOOLEAN, charging : BOOLEAN, draw : Draws]
  BY SnapshotFacts DEF TypeInv, TypeOK
<1>6. CASE PollRead
  <2>1. snap' \in Snapshot
    <3>1. PICK charging \in BOOLEAN, draw \in DrawChoices \cup {"none"},
               current \in Reading("setCurrent", setCurrent),
               phase \in Reading("phaseSwitch", phaseSwitch) :
            snap' = [vehicle |-> vehicle, charging |-> charging, draw |-> draw,
                     setCurrent |-> current, phaseSwitch |-> phase]
      BY <1>6 DEF PollRead
    <3>2. draw \in Draws /\ current \in Amps \cup {None} /\ phase \in {0, 1, None}
      BY ReadingsAssumption DEF Draws, Reading, TypeInv, TypeOK
    <3>3. vehicle \in BOOLEAN
      BY DEF TypeInv, TypeOK
    <3> QED BY <3>1, <3>2, <3>3 DEF Snapshot
  <2>2. pc' \in {"handshake", "apply"} /\ link' = TRUE /\ newConnection' = FALSE
    BY <1>6 DEF PollRead
  <2>3. UNCHANGED <<intent, cycle, lastSetpoint, timers, task, latches, bufferCommands,
                    job, data, registers, car, disturbed, solarAge>>
    BY <1>6 DEF PollRead
  <2>4. pc' \in {"idle", "handshake", "apply", "phase", "setpoint"} /\ JobOK'
        /\ link' \in BOOLEAN /\ newConnection' \in BOOLEAN
    BY <2>2 DEF JobOK
  <2> QED BY <2>1, <2>3, <2>4
          DEF TypeInv, TypeOK, intent, cycle, timers, task, latches, registers, car
<1>7. CASE Handshake
  <2>1. Contact /\ setCurrent' \in Amps /\ phaseSwitch' \in {0, 1}
    BY <1>7, ConstantFacts DEF Handshake, WriteCurrent, registers, TypeInv, TypeOK
  <2>2. lastSetpoint' = CacheAfterReassert /\ pc' = "apply"
        /\ UNCHANGED <<intent, cycle, timers, task, latches, bufferCommands, snap, job, data,
                       car, disturbed, solarAge>>
    BY <1>7 DEF Handshake
  <2> QED BY <1>1, <1>4, <2>1, <2>2
          DEF TypeInv, TypeOK, JobOK, intent, cycle, timers, task, latches, car
<1>8. CASE PollFails
  <2>1. Drop /\ Finish /\ lastSetpoint' \in {lastSetpoint, CacheAfterReassert}
        /\ UNCHANGED <<intent, cycle, timers, task, latches, bufferCommands, data, car, solarAge>>
    BY <1>8 DEF PollFails
  <2> QED BY <1>2, <1>3, <1>4, <2>1
          DEF TypeInv, TypeOK, intent, cycle, timers, task, latches, car
<1>9. CASE ApplySuspended
  <2>1. /\ wasConnected' = snap.vehicle
        /\ recoveryAttempted' \in BOOLEAN /\ downshiftAttempted' \in BOOLEAN
        /\ Contact /\ setCurrent' \in Amps /\ phaseSwitch' \in {0, 1}
    BY <1>9, ConstantFacts
       DEF ApplySuspended, SessionEdges, WriteCurrent, registers, TypeInv, TypeOK
  <2>2. lastSetpoint' = CacheAfterEdges /\ Finish /\ data' = Seen(snap)
        /\ UNCHANGED <<intent, computedSetpoint, room, timers, task, bufferCommands, car, solarAge>>
    BY <1>9 DEF ApplySuspended
  <2>3. wasConnected' \in BOOLEAN
    BY <1>5, <2>1 DEF Snapshot
  <2> QED BY <1>1, <1>3, <1>4, <1>5, <2>1, <2>2, <2>3
          DEF TypeInv, TypeOK, intent, timers, task, car
<1>10. CASE ReassertFails
  <2>1. Drop /\ Finish /\ lastSetpoint' = CacheAfterReassert /\ wasConnected' = TRUE
        /\ UNCHANGED <<intent, computedSetpoint, room, timers, task, latches, bufferCommands,
                       data, car, solarAge>>
    BY <1>10 DEF ReassertFails
  <2> QED BY <1>2, <1>3, <1>4, <2>1
          DEF TypeInv, TypeOK, intent, timers, task, latches, car
<1>11. CASE WriteSetpoint
  <2>1. Contact /\ setCurrent' = job.amps /\ phaseSwitch' = phaseSwitch /\ pc = "setpoint"
        /\ lastSetpoint' = job.amps /\ Finish /\ data' = Seen(snap)
        /\ UNCHANGED <<intent, cycle, timers, task, latches, bufferCommands, car, solarAge>>
    BY <1>11 DEF WriteSetpoint, WriteCurrent
  <2>2. job.amps \in Amps
    BY <2>1 DEF Job, TypeInv, TypeOK, JobOK
  <2> QED BY <1>1, <1>3, <1>5, <2>1, <2>2
          DEF TypeInv, TypeOK, intent, cycle, timers, task, latches, car
<1>12. CASE WriteSetpointFails
  <2>1. Drop /\ Finish /\ data' = Seen(snap)
        /\ UNCHANGED <<intent, cycle, lastSetpoint, timers, task, latches, bufferCommands, car,
                       solarAge>>
    BY <1>12 DEF WriteSetpointFails
  <2> QED BY <1>2, <1>3, <1>5, <2>1
          DEF TypeInv, TypeOK, intent, cycle, timers, task, latches, car
<1> QED BY <1>6, <1>7, <1>8, <1>9, <1>10, <1>11, <1>12

\* What a cycle's tail establishes, as the invariant needs it.
LEMMA AfterSetpoint ==
  ASSUME TypeOK, NEW m \in Modes, NEW s \in Surplus,
         NEW last \in Amps \cup {None}, NEW switchAge \in Int,
         ApplySetpoint(m, s, last, switchAge)
  PROVE  /\ room' \in [on : BOOLEAN, cap : Int]
         /\ computedSetpoint' \in Amps /\ lastSetpoint' \in Amps \cup {None}
         /\ chargeStarted' \in {None} \cup 0 .. MinCharge
         /\ solarAge' \in {Untracked, None} \cup 0 .. MinCharge
         /\ pc' \in {"setpoint", "idle"} /\ job' \in Job /\ JobOK'
         /\ snap' \in Snapshot /\ disturbed' \in BOOLEAN
         /\ data' \in [vehicle : BOOLEAN, charging : BOOLEAN, draw : Draws]
         /\ pc' = "setpoint" => QuietOver(switchAge)
<1>1. snap \in Snapshot /\ disturbed \in BOOLEAN
      /\ data \in [vehicle : BOOLEAN, charging : BOOLEAN, draw : Draws]
  BY DEF TypeOK
<1>2. CASE /\ pc' = "setpoint" /\ QuietOver(switchAge)
           /\ job' \in [kind : {"setpoint"}, amps : Amps] /\ UNCHANGED <<snap, data, disturbed>>
  <2>1. job' \in Job /\ job'.kind = "setpoint"
    BY <1>2 DEF Job
  <2> QED BY <1>1, <1>2, <2>1, ApplySetpointType DEF JobOK
<1>3. CASE /\ pc' = "idle" /\ job' = NoJob /\ snap' = NoSnapshot /\ data' = Seen(snap)
           /\ disturbed' = FALSE
  <2>1. job' \in Job
    BY <1>3 DEF Job, NoJob
  <2> QED BY <1>1, <1>3, <2>1, SnapshotFacts, ApplySetpointType DEF JobOK
<1> QED BY <1>1, <1>2, <1>3, ApplySetpointType

LEMMA ApplyTypes ==
  ASSUME TypeInv,
         ApplyKeepsPhase \/ ApplySwitchesPhase \/ WritePhase \/ WritePhaseFails
  PROVE  TypeInv'
<1>1. mode \in Modes /\ snap \in Snapshot /\ lastSetpoint \in Amps \cup {None}
      /\ lastSwitch \in Int /\ 0 \in Int
  BY ConstantFacts DEF TypeInv, TypeOK
<1>2. ASSUME SessionEdges
      PROVE  /\ wasConnected' \in BOOLEAN
             /\ recoveryAttempted' \in BOOLEAN /\ downshiftAttempted' \in BOOLEAN
             /\ setCurrent' \in Amps /\ phaseSwitch' \in {0, 1}
             /\ link' \in BOOLEAN /\ newConnection' \in BOOLEAN
             /\ CacheAfterEdges \in Amps \cup {None} /\ ModeAfterEdges \in Modes
  BY <1>1, <1>2, ConstantFacts, OptionsAssumption
     DEF SessionEdges, WriteCurrent, Contact, registers, TypeInv, TypeOK, Snapshot,
         CacheAfterEdges, CacheAfterReassert, ModeAfterEdges
<1>3. CASE ApplyKeepsPhase
  <2>1. SessionEdges /\ mode' = ModeAfterEdges
    BY <1>3 DEF ApplyKeepsPhase
  <2>2. PICK s \in Surplus :
          /\ phaseDiffSince' = PhaseDiffAfter(mode', s)
          /\ ApplySetpoint(mode', s, CacheAfterEdges, lastSwitch)
    BY <1>3 DEF ApplyKeepsPhase
  <2>3. mode' \in Modes
    BY <1>2, <2>1
  <2>4. phaseDiffSince' \in {None} \cup 0 .. Dwell
    BY <2>2, ConstantFacts DEF PhaseDiffAfter, TypeInv, TypeOK, Snapshot
  <2>5. TypeOK
    BY DEF TypeInv
  <2>6. /\ room' \in [on : BOOLEAN, cap : Int]
        /\ computedSetpoint' \in Amps /\ lastSetpoint' \in Amps \cup {None}
        /\ chargeStarted' \in {None} \cup 0 .. MinCharge
        /\ solarAge' \in {Untracked, None} \cup 0 .. MinCharge
        /\ pc' \in {"setpoint", "idle"} /\ job' \in Job /\ JobOK'
        /\ snap' \in Snapshot /\ disturbed' \in BOOLEAN
        /\ data' \in [vehicle : BOOLEAN, charging : BOOLEAN, draw : Draws]
    BY <1>1, <1>2, <2>1, <2>2, <2>3, <2>5, AfterSetpoint
  <2>7. UNCHANGED <<chargingEnabled, manualCurrent, phasePreference, lastSwitch, task,
                    bufferCommands, car>>
    BY <1>3 DEF ApplyKeepsPhase
  <2> QED BY <1>2, <2>1, <2>3, <2>4, <2>6, <2>7 DEF TypeInv, TypeOK, task, car
<1>4. CASE ApplySwitchesPhase
  <2>1. SessionEdges /\ mode' = ModeAfterEdges
    BY <1>4 DEF ApplySwitchesPhase
  <2>2. PICK s \in Surplus :
          /\ SwitchDue(mode', s)
          /\ job' = [kind |-> "phase", surplus |-> s, phases |-> TargetPhase(snap, mode', s)]
          /\ phaseDiffSince' = PhaseDiffAfter(mode', s)
    BY <1>4 DEF ApplySwitchesPhase
  <2>3. TargetPhase(snap, mode', s) \in Phases
    <3>1. TargetPhase(snap, mode', s) # None
      BY <2>2 DEF SwitchDue, PhaseWanted
    <3>2. \A w, c \in Int : DesiredPhases(w, Voltage, SolarMin, c) \in Phases
      BY DEF DesiredPhases, Phases
    <3>3. s.watts \in Int /\ CurrentPhases(snap) \in Int
      BY <1>1, SurplusType, SnapshotFacts DEF Phases
    <3>4. phasePreference \in {"auto", "1", "3"}
      BY DEF TypeInv, TypeOK, Preferences
    <3>5. DesiredPhases(s.watts, Voltage, SolarMin, CurrentPhases(snap)) \in Phases
      BY <3>2, <3>3
    <3> QED BY <3>1, <3>4, <3>5 DEF TargetPhase, Phases
  <2>4. job' \in Job /\ job'.kind = "phase"
    BY <2>2, <2>3 DEF Job
  <2>5. lastSetpoint' = CacheAfterEdges /\ pc' = "phase"
    BY <1>4 DEF ApplySwitchesPhase
  <2>7. phaseDiffSince' \in {None} \cup 0 .. Dwell
    BY <2>2, ConstantFacts DEF PhaseDiffAfter, TypeInv, TypeOK, Snapshot
  <2>6. UNCHANGED <<chargingEnabled, manualCurrent, phasePreference, computedSetpoint, room,
                    chargeStarted, lastSwitch, task, bufferCommands, snap, data, car,
                    disturbed, solarAge>>
    BY <1>4 DEF ApplySwitchesPhase
  <2> QED BY <1>2, <2>1, <2>4, <2>5, <2>6, <2>7 DEF TypeInv, TypeOK, JobOK, task, car
<1>5. CASE WritePhase \/ WritePhaseFails
  <2>1. pc = "phase" /\ AfterPhaseWrite
    BY <1>5 DEF WritePhase, WritePhaseFails
  <2>2. /\ setCurrent' \in Amps /\ phaseSwitch' \in {0, 1}
        /\ link' \in BOOLEAN /\ newConnection' \in BOOLEAN
    BY <1>5, ConstantFacts
       DEF WritePhase, WritePhaseFails, WritePhases, Contact, Drop, TypeInv, TypeOK
  <2>3. job.surplus \in Surplus
    BY <2>1 DEF TypeInv, TypeOK, JobOK, Job
  <2>4. ApplySetpoint(mode, job.surplus, lastSetpoint, 0)
    BY <2>1 DEF AfterPhaseWrite
  <2>5. TypeOK
    BY DEF TypeInv
  <2>6. /\ room' \in [on : BOOLEAN, cap : Int]
        /\ computedSetpoint' \in Amps /\ lastSetpoint' \in Amps \cup {None}
        /\ chargeStarted' \in {None} \cup 0 .. MinCharge
        /\ solarAge' \in {Untracked, None} \cup 0 .. MinCharge
        /\ pc' \in {"setpoint", "idle"} /\ job' \in Job /\ JobOK'
        /\ snap' \in Snapshot /\ disturbed' \in BOOLEAN
        /\ data' \in [vehicle : BOOLEAN, charging : BOOLEAN, draw : Draws]
    BY <1>1, <2>3, <2>4, <2>5, AfterSetpoint
  <2>7. /\ recovery' \in {"observe", recovery} /\ direction' \in {"up", "down", direction}
        /\ recoveryAge' \in {0, recoveryAge} /\ lastSwitch' = 0
        /\ downshiftAttempted' \in BOOLEAN
    BY <2>1 DEF AfterPhaseWrite, TypeInv, TypeOK
  <2>8. UNCHANGED <<intent, wasConnected, phaseDiffSince, recoveryAttempted,
                    bufferCommands, car>>
    BY <2>1 DEF AfterPhaseWrite
  <2> QED BY <2>2, <2>6, <2>7, <2>8, ConstantFacts DEF TypeInv, TypeOK, intent, car
<1> QED BY <1>3, <1>4, <1>5
-----------------------------------------------------------------------------
\* The recovery task writes no poll variable and only 0 A.
LEMMA RecoveryTypes ==
  ASSUME TypeInv, Recovery
  PROVE  TypeInv'
<1> USE DEF TypeInv
<1>0. ASSUME EndRecovery
      PROVE  recovery' = "ending" /\ bufferCommands' \in BOOLEAN /\ recoveryAge' \in Nat
  BY <1>0 DEF EndRecovery
<1>1. CASE ObserveEnds \/ DwellAborts
  <2>1. EndRecovery
        /\ UNCHANGED <<intent, cycle, lastSetpoint, timers, direction, latches,
                       poll, socket, registers, car, disturbed, solarAge>>
    BY <1>1 DEF ObserveEnds, DwellAborts
  <2> QED BY <1>0, <2>1 DEF TypeOK, JobOK, intent, cycle, timers, latches, poll,
                      socket, registers, car
<1>2. CASE Escalate
  <2>1. recovery' = "pausing" /\ recoveryAge' = 0 /\ bufferCommands' = TRUE
        /\ recoveryAttempted' \in BOOLEAN /\ downshiftAttempted' \in BOOLEAN
        /\ UNCHANGED <<intent, cycle, lastSetpoint, timers, direction, poll, socket, registers,
                       car, disturbed, solarAge>>
    BY <1>2 DEF Escalate, TypeOK
  <2> QED BY <2>1 DEF TypeOK, JobOK, intent, cycle, timers, poll, socket, registers, car
<1>3. CASE PauseWrite
  <2>1. Contact /\ setCurrent' = 0 /\ phaseSwitch' = phaseSwitch /\ recovery' = "dwell"
        /\ UNCHANGED <<intent, cycle, lastSetpoint, timers, direction, recoveryAge, latches,
                       bufferCommands, poll, car, disturbed, solarAge>>
    BY <1>3 DEF PauseWrite, WriteCurrent
  <2>2. link' \in BOOLEAN /\ newConnection' \in BOOLEAN /\ setCurrent' \in Amps
    BY <2>1, ConstantFacts DEF Contact
  <2> QED BY <2>1, <2>2 DEF TypeOK, JobOK, intent, cycle, timers, latches, poll, car
<1>4. CASE PauseWriteFails
  <2>1. Drop /\ EndRecovery
        /\ UNCHANGED <<intent, cycle, lastSetpoint, timers, direction, latches,
                       poll, car, disturbed, solarAge>>
    BY <1>4 DEF PauseWriteFails
  <2>2. link' \in BOOLEAN /\ newConnection' \in BOOLEAN /\ setCurrent' \in Amps
        /\ phaseSwitch' \in {0, 1}
    BY <2>1, ConstantFacts DEF Drop, TypeOK
  <2> QED BY <1>0, <2>1, <2>2 DEF TypeOK, JobOK, intent, cycle, timers, latches, poll, car
<1>5. CASE DwellEnds
  <2>1. recovery' = "resuming" /\ recoveryAge' = 0
        /\ UNCHANGED <<intent, cycle, lastSetpoint, timers, direction, latches, bufferCommands,
                       poll, socket, registers, car, disturbed, solarAge>>
    BY <1>5 DEF DwellEnds
  <2> QED BY <2>1 DEF TypeOK, JobOK, intent, cycle, timers, latches, poll, socket, registers, car
<1>6. CASE RecoveryResumes
  <2>1. lastSetpoint' = None /\ EndRecovery
        /\ UNCHANGED <<intent, cycle, timers, direction, latches, poll, socket,
                       registers, car, disturbed, solarAge>>
    BY <1>6 DEF RecoveryResumes, CacheAfterRecovery
  <2> QED BY <1>0, <2>1 DEF TypeOK, JobOK, intent, cycle, timers, latches, poll,
                      socket, registers, car
<1>7. CASE RecoveryDone
  <2>1. recovery' = "none" /\ direction' = "none" /\ disturbed' \in BOOLEAN
        /\ UNCHANGED <<intent, cycle, lastSetpoint, timers, recoveryAge, latches, bufferCommands,
                       poll, socket, registers, car, solarAge>>
    BY <1>7 DEF RecoveryDone, Disturb
  <2> QED BY <2>1 DEF TypeOK, JobOK, intent, cycle, timers, latches, poll, socket, registers, car
<1> QED BY <1>1, <1>2, <1>3, <1>4, <1>5, <1>6, <1>7 DEF Recovery

LEMMA UserTypes ==
  ASSUME TypeInv, User
  PROVE  TypeInv'
<1>1. UserUnchanged
  BY DEF User, SwitchOn, SwitchOff, SelectMode, SelectPreference, SetManualCurrent,
         InvalidateSetpointCache
<1>2. lastSetpoint' \in Amps \cup {None}
  BY DEF TypeInv, TypeOK, User, SwitchOn, SwitchOff, SelectMode, SelectPreference,
         SetManualCurrent, InvalidateSetpointCache
<1>3. /\ chargingEnabled' \in BOOLEAN /\ mode' \in Modes /\ phasePreference' \in Preferences
  BY OptionsAssumption
     DEF TypeInv, TypeOK, User, SwitchOn, SwitchOff, SelectMode, SelectPreference,
         SetManualCurrent, InvalidateSetpointCache, intent
<1>4. manualCurrent' \in Amps
  <2>1. CASE SetManualCurrent
    <3>1. PICK amps \in ManualChoices :
            manualCurrent' = Greater(Limits.min, Lesser(amps, EffectiveMax(Limits)))
      BY <2>1 DEF SetManualCurrent
    <3>2. amps \in Amps
      BY OptionsAssumption
    <3>3. Limits.min \in Amps /\ EffectiveMax(Limits) \in Nat
      BY ConstantFacts
    <3> QED BY <3>1, <3>2, <3>3 DEF Greater, Lesser, Amps
  <2>2. CASE UNCHANGED manualCurrent
    BY <2>2 DEF TypeInv, TypeOK
  <2> QED BY <2>1, <2>2 DEF User, SwitchOn, SwitchOff, SelectMode, SelectPreference,
                            InvalidateSetpointCache, intent
<1> QED BY <1>1, <1>2, <1>3, <1>4
        DEF UserUnchanged, TypeInv, TypeOK, JobOK, cycle, timers, task, latches, poll, socket,
            registers, car

LEMMA WorldTypes ==
  ASSUME TypeInv, World \/ Tick
  PROVE  TypeInv'
<1> USE DEF TypeInv
<1>1. CASE Plug \/ Unplug
  <2>1. WorldUnchanged /\ vehicle' \in BOOLEAN /\ sessionMinimum' \in BOOLEAN
        /\ UNCHANGED <<timers, socket, registers, disturbed, solarAge>>
    BY <1>1 DEF Plug, Unplug
  <2> QED BY <2>1 DEF WorldUnchanged, TypeOK, JobOK, intent, cycle, timers, task, latches, poll,
                      socket, registers
<1>2. CASE WallboxMinimum
  <2>1. WorldUnchanged /\ sessionMinimum' = FALSE /\ setCurrent' \in Amps /\ disturbed' \in BOOLEAN
        /\ UNCHANGED <<timers, socket, phaseSwitch, vehicle, solarAge>>
    BY <1>2, ConstantFacts DEF WallboxMinimum, Disturb
  <2>2. UNCHANGED <<chargingEnabled, mode, manualCurrent, phasePreference, lastSetpoint,
                    wasConnected, computedSetpoint, room, bufferCommands>>
    BY <2>1 DEF WorldUnchanged, intent, cycle
  <2>3. UNCHANGED <<task, latches, poll>>
    BY <2>1 DEF WorldUnchanged
  <2>4. JobOK'
    BY <2>3 DEF JobOK, poll
  <2>5. sessionMinimum' \in BOOLEAN
    BY <2>1
  <2>6. TypeOK'
    BY <2>1, <2>2, <2>3, <2>5 DEF TypeOK, timers, task, latches, poll, socket
  <2> QED BY <2>4, <2>6
<1>3. CASE LinkDrops
  <2>1. WorldUnchanged /\ Drop /\ disturbed' \in BOOLEAN /\ UNCHANGED <<timers, car, solarAge>>
    BY <1>3 DEF LinkDrops, Disturb
  <2>2. link' \in BOOLEAN /\ newConnection' \in BOOLEAN /\ setCurrent' \in Amps
        /\ phaseSwitch' \in {0, 1}
    BY <2>1, ConstantFacts DEF Drop, TypeOK
  <2> QED BY <2>1, <2>2 DEF WorldUnchanged, TypeOK, JobOK, intent, cycle, timers, task, latches,
                            poll, car
<1>4. CASE Tick
  <2>1. /\ chargeStarted' = Older(chargeStarted, MinCharge)
        /\ phaseDiffSince' = Older(phaseDiffSince, Dwell)
        /\ lastSwitch' = Older(lastSwitch, LongAgo)
        /\ recoveryAge' = Older(recoveryAge, StageLength)
        /\ solarAge' = Older(solarAge, MinCharge)
    BY <1>4 DEF Tick
  <2>2. UNCHANGED <<intent, cycle, lastSetpoint, recovery, direction, latches,
                    bufferCommands, poll, socket, registers, car, disturbed>>
    BY <1>4 DEF Tick
  <2>3. chargeStarted' \in {None} \cup 0 .. MinCharge
    BY <2>1, ConstantFacts DEF TypeOK, Older, None
  <2>4. phaseDiffSince' \in {None} \cup 0 .. Dwell
    BY <2>1, ConstantFacts DEF TypeOK, Older, None
  <2>5. lastSwitch' \in 0 .. LongAgo
    BY <2>1, ConstantFacts DEF TypeOK, Older
  <2>6. recoveryAge' \in Nat
    BY <2>1 DEF TypeOK, Older
  <2>7. solarAge' \in {Untracked, None} \cup 0 .. MinCharge
    BY <2>1, ConstantFacts DEF TypeOK, Older, None, Untracked
  <2> QED BY <2>2, <2>3, <2>4, <2>5, <2>6, <2>7
          DEF TypeOK, JobOK, intent, cycle, latches, poll, socket, registers, car
<1> QED BY <1>1, <1>2, <1>3, <1>4 DEF World
-----------------------------------------------------------------------------
LEMMA InitTypes == Init => TypeInv
<1> SUFFICES ASSUME Init PROVE TypeInv
  OBVIOUS
<1>1. /\ chargingEnabled \in BOOLEAN /\ mode \in Modes /\ manualCurrent \in Amps
      /\ phasePreference \in Preferences /\ setCurrent \in Amps /\ phaseSwitch \in {0, 1}
      /\ lastSwitch \in 0 .. LongAgo
  BY ConstantFacts, OptionsAssumption DEF Init, Preferences
<1>2. snap \in Snapshot /\ data \in [vehicle : BOOLEAN, charging : BOOLEAN, draw : Draws]
  BY SnapshotFacts DEF Init
<1>3. job \in Job /\ JobOK
  BY DEF Init, NoJob, Job, JobOK
<1>4. room \in [on : BOOLEAN, cap : Int]
  BY DEF Init, NoDlb
<1> QED BY <1>1, <1>2, <1>3, <1>4 DEF Init, TypeInv, TypeOK

LEMMA NextTypes == TypeInv /\ [Next]_vars => TypeInv'
<1> SUFFICES ASSUME TypeInv, [Next]_vars PROVE TypeInv'
  OBVIOUS
<1>1. CASE Poll
  BY <1>1, PollTypes, ApplyTypes DEF Poll, ApplyCycle
<1>2. CASE Recovery
  BY <1>2, RecoveryTypes
<1>3. CASE User
  BY <1>3, UserTypes
<1>4. CASE World \/ Tick
  BY <1>4, WorldTypes
<1>5. CASE UNCHANGED vars
  BY <1>5 DEF TypeInv, TypeOK, JobOK, vars, intent, cycle, timers, task, latches, poll, socket,
              registers, car
<1> QED BY <1>1, <1>2, <1>3, <1>4, <1>5 DEF Next

\* Every variable keeps its type: both registers, the cache and every write in
\* flight only ever hold whole amps within the limits, and ages stay bounded.
THEOREM TypeCorrect == Spec => []TypeOK
<1>1. TypeInv => TypeOK
  BY DEF TypeInv
<1> QED BY InitTypes, NextTypes, <1>1, PTL DEF Spec

LEMMA TypeInvariant == Spec => []TypeInv
BY InitTypes, NextTypes, PTL DEF Spec
-----------------------------------------------------------------------------
\* The strengthening behind the safety of phase switches and recoveries: a poll
\* is never about to write a register while a recovery runs, and a recovery
\* that still observes has not used up the latch of its direction.
OwnedWhileRunning == RecoveryActive => pc \notin {"phase", "setpoint"}
LatchOpen ==
  recovery = "observe" =>
    \/ direction = "up" /\ ~recoveryAttempted
    \/ direction = "down" /\ ~downshiftAttempted

\* Commands and reconnects see "keep 0 A" exactly while a pause lasts.
BufferScoped == bufferCommands <=> recovery \in {"pausing", "dwell", "resuming"}

SafetyInv ==
  /\ QuietKept
  /\ OwnedWhileRunning
  /\ LatchOpen
  /\ BufferScoped

\* A poll enters its 5004 write only outside the quiet period, so never right
\* after a 405 write; that is why a recovery never starts beside a 5004 write.
LEMMA EntersSetpoint ==
  ASSUME TypeInv, Poll, pc' \in {"phase", "setpoint"}
  PROVE  /\ ~RecoveryActive /\ recovery' = recovery
         /\ lastSwitch' = lastSwitch
         /\ pc' = "setpoint" => lastSwitch >= Quiet
<1>1. CASE PollRead \/ Handshake \/ PollFails \/ ApplySuspended \/ ReassertFails
           \/ WriteSetpoint \/ WriteSetpointFails
  <2>1. pc' \in {"idle", "handshake", "apply"}
    BY <1>1 DEF PollRead, Handshake, PollFails, ApplySuspended, ReassertFails, WriteSetpoint,
                WriteSetpointFails, Finish
  <2> QED BY <2>1
<1>2. CASE ApplyKeepsPhase
  <2>1. ~RecoveryActive /\ recovery' = recovery /\ lastSwitch' = lastSwitch
    BY <1>2 DEF ApplyKeepsPhase, SuspendsFor, task
  <2>2. PICK s \in Surplus : ApplySetpoint(mode', s, CacheAfterEdges, lastSwitch)
    BY <1>2 DEF ApplyKeepsPhase
  <2>3. pc' = "setpoint" => QuietOver(lastSwitch)
    BY <2>2 DEF ApplySetpoint, Finish
  <2> QED BY <2>1, <2>3 DEF QuietOver
<1>3. CASE ApplySwitchesPhase
  BY <1>3 DEF ApplySwitchesPhase, SuspendsFor, task
<1>4. CASE WritePhase \/ WritePhaseFails
  <2>1. ApplySetpoint(mode, job.surplus, lastSetpoint, 0)
    BY <1>4 DEF WritePhase, WritePhaseFails, AfterPhaseWrite
  <2>2. ~QuietOver(0)
    BY ConstantFacts DEF QuietOver
  <2>3. pc' = "idle"
    BY <2>1, <2>2 DEF ApplySetpoint, Finish
  <2> QED BY <2>3
<1> QED BY <1>1, <1>2, <1>3, <1>4 DEF Poll, ApplyCycle

\* What a poll may do to the recovery: nothing, or start one that observes.
LEMMA PollAndRecovery ==
  ASSUME TypeInv, OwnedWhileRunning, LatchOpen, Poll
  PROVE  /\ bufferCommands' = bufferCommands
         /\ recovery' = recovery \/ (recovery = "none" /\ recovery' = "observe")
         /\ LatchOpen'
<1>1. CASE PollRead \/ Handshake \/ PollFails \/ ReassertFails \/ WriteSetpoint
           \/ WriteSetpointFails
  <2>1. UNCHANGED <<task, latches, bufferCommands>>
    BY <1>1 DEF PollRead, Handshake, PollFails, ReassertFails, WriteSetpoint, WriteSetpointFails
  <2> QED BY <2>1 DEF LatchOpen, task, latches
<1>2. CASE ApplySuspended \/ ApplyKeepsPhase \/ ApplySwitchesPhase
  <2>1. SessionEdges /\ UNCHANGED <<task, bufferCommands>>
    BY <1>2 DEF ApplySuspended, ApplyKeepsPhase, ApplySwitchesPhase
  <2>2. (recoveryAttempted' => recoveryAttempted) /\ (downshiftAttempted' => downshiftAttempted)
    BY <2>1 DEF SessionEdges
  <2>3. LatchOpen'
    BY <2>1, <2>2 DEF LatchOpen, task
  <2> QED BY <2>1, <2>3 DEF task
<1>3. CASE WritePhase \/ WritePhaseFails
  <2> DEFINE up == job.phases = 3 /\ CurrentPhases(snap) = 1 /\ ShouldStartRecovery(snap)
             down == job.phases = 1 /\ CurrentPhases(snap) = 3 /\ ShouldStartDownshift(snap)
  <2>1. recovery = "none"
    BY <1>3 DEF WritePhase, WritePhaseFails, OwnedWhileRunning, RecoveryActive
  <2>2. /\ recovery' = IF up \/ down THEN "observe" ELSE recovery
        /\ direction' = CASE up -> "up" [] down -> "down" [] OTHER -> direction
        /\ downshiftAttempted' = (downshiftAttempted /\ job.phases # 3)
        /\ UNCHANGED <<recoveryAttempted, bufferCommands>>
    BY <1>3 DEF WritePhase, WritePhaseFails, AfterPhaseWrite
  <2>3. (up => ~recoveryAttempted) /\ (down => ~downshiftAttempted) /\ ~(up /\ down)
    BY DEF ShouldStartRecovery, ShouldStartDownshift
  <2> HIDE DEF up, down
  <2>4. LatchOpen'
    BY <2>1, <2>2, <2>3 DEF LatchOpen
  <2> QED BY <2>1, <2>2, <2>4
<1> QED BY <1>1, <1>2, <1>3 DEF Poll, ApplyCycle

LEMMA SafetyStep == TypeInv /\ SafetyInv /\ [Next]_vars => SafetyInv'
<1> SUFFICES ASSUME TypeInv, SafetyInv, [Next]_vars PROVE SafetyInv'
  OBVIOUS
<1> USE DEF SafetyInv
<1>1. CASE Poll
  <2>1. /\ bufferCommands' = bufferCommands
        /\ recovery' = recovery \/ (recovery = "none" /\ recovery' = "observe")
        /\ LatchOpen'
    BY <1>1, PollAndRecovery
  <2>2. pc' \in {"phase", "setpoint"} =>
          /\ ~RecoveryActive /\ recovery' = recovery /\ lastSwitch' = lastSwitch
          /\ pc' = "setpoint" => lastSwitch >= Quiet
    BY <1>1, EntersSetpoint
  <2>3. QuietKept' /\ OwnedWhileRunning'
    BY <2>2 DEF QuietKept, OwnedWhileRunning, RecoveryActive
  <2>4. BufferScoped'
    BY <2>1 DEF BufferScoped
  <2> QED BY <2>1, <2>3, <2>4
<1>2. CASE Recovery
  <2>1. UNCHANGED pc /\ UNCHANGED lastSwitch
    BY <1>2 DEF Recovery, ObserveEnds, Escalate, PauseWrite, PauseWriteFails, DwellAborts,
                DwellEnds, RecoveryResumes, RecoveryDone, poll, timers
  <2>2. recovery # "none" /\ recovery' # "observe" /\ BufferScoped'
    BY <1>2 DEF Recovery, ObserveEnds, Escalate, PauseWrite, PauseWriteFails, DwellAborts,
                DwellEnds, RecoveryResumes, RecoveryDone, EndRecovery, BufferScoped
  <2> QED BY <2>1, <2>2 DEF QuietKept, OwnedWhileRunning, LatchOpen, RecoveryActive
<1>3. CASE User \/ World
  <2>1. UNCHANGED <<task, latches, bufferCommands, poll, timers>>
    BY <1>3 DEF User, SwitchOn, SwitchOff, SelectMode, SelectPreference, SetManualCurrent,
                InvalidateSetpointCache, UserUnchanged, World, Plug, Unplug, WallboxMinimum,
                LinkDrops, WorldUnchanged
  <2> QED BY <2>1 DEF QuietKept, OwnedWhileRunning, LatchOpen, BufferScoped, RecoveryActive,
                      task, latches, poll, timers
<1>4. CASE Tick
  <2>1. /\ UNCHANGED <<recovery, direction, latches, bufferCommands, poll>>
        /\ lastSwitch' = Older(lastSwitch, LongAgo)
    BY <1>4 DEF Tick
  <2>2. lastSwitch >= Quiet => lastSwitch' >= Quiet
    BY <2>1, ConstantFacts DEF Older, TypeInv, TypeOK
  <2> QED BY <2>1, <2>2 DEF QuietKept, OwnedWhileRunning, LatchOpen, BufferScoped,
                            RecoveryActive, latches, poll
<1>5. CASE UNCHANGED vars
  BY <1>5 DEF QuietKept, OwnedWhileRunning, LatchOpen, BufferScoped, RecoveryActive, vars, task,
              latches, poll, timers
<1> QED BY <1>1, <1>2, <1>3, <1>4, <1>5 DEF Next

LEMMA SafetyInvariant == Spec => [](TypeInv /\ SafetyInv)
<1>1. Init => SafetyInv
  BY DEF Init, SafetyInv, QuietKept, OwnedWhileRunning, LatchOpen, BufferScoped, RecoveryActive
<1> QED BY <1>1, InitTypes, NextTypes, SafetyStep, PTL DEF Spec

\* No setpoint is on its way to the wallbox during the quiet period.
THEOREM QuietIsKept == Spec => []QuietKept
<1>1. SafetyInv => QuietKept
  BY DEF SafetyInv
<1> QED BY <1>1, SafetyInvariant, PTL

\* While a recovery runs, only the wallbox itself raises register 5004.
THEOREM RecoveryOwns == Spec => RecoveryOwnsCurrent
<1> DEFINE Raises == RecoveryActive /\ setCurrent' > setCurrent
           ByWallbox == ~link' \/ (sessionMinimum /\ ~sessionMinimum')
<1>1. TypeInv /\ SafetyInv /\ [Next]_vars => [Raises => ByWallbox]_setCurrent
  <2> SUFFICES ASSUME TypeInv, SafetyInv, [Next]_vars, Raises PROVE ByWallbox
    OBVIOUS
  <2>0. setCurrent \in Nat /\ RecoveryActive /\ setCurrent' # 0 /\ setCurrent' # setCurrent
    BY ConstantFacts DEF TypeInv, TypeOK, Amps
  <2>1. CASE Poll
    <3>1. pc \notin {"phase", "setpoint"}
      BY DEF SafetyInv, OwnedWhileRunning
    <3>2. CASE PollRead \/ Handshake \/ ApplySuspended
      BY <2>0, <3>2 DEF PollRead, Handshake, ApplySuspended, SessionEdges, WriteCurrent, registers
    <3>3. CASE PollFails \/ ReassertFails
      BY <3>3 DEF PollFails, ReassertFails, Drop
    <3>4. CASE ApplyKeepsPhase \/ ApplySwitchesPhase
      BY <3>4 DEF ApplyKeepsPhase, ApplySwitchesPhase, SuspendsFor
    <3>5. CASE WritePhase \/ WritePhaseFails \/ WriteSetpoint \/ WriteSetpointFails
      BY <3>1, <3>5 DEF WritePhase, WritePhaseFails, WriteSetpoint, WriteSetpointFails
    <3> QED BY <2>1, <3>2, <3>3, <3>4, <3>5 DEF Poll, ApplyCycle
  <2>2. CASE Recovery
    BY <2>0, <2>2 DEF Recovery, ObserveEnds, Escalate, PauseWrite, PauseWriteFails, DwellAborts,
                DwellEnds, RecoveryResumes, RecoveryDone, WriteCurrent, Drop, registers
  <2>3. CASE User
    BY <2>0, <2>3 DEF User, SwitchOn, SwitchOff, SelectMode, SelectPreference, SetManualCurrent,
                InvalidateSetpointCache, UserUnchanged, registers
  <2>4. CASE World \/ Tick
    BY <2>0, <2>4 DEF World, Plug, Unplug, WallboxMinimum, LinkDrops, Drop, Tick, registers
  <2>5. CASE UNCHANGED vars
    BY <2>0, <2>5 DEF vars, registers
  <2> QED BY <2>1, <2>2, <2>3, <2>4, <2>5 DEF Next
<1> QED BY <1>1, SafetyInvariant, PTL DEF Spec, RecoveryOwnsCurrent
-----------------------------------------------------------------------------
\* The refinement of PhaseFix: every step of the loop is a step of the fix as
\* seen from outside, or leaves it alone.

\* A step that neither moves the task nor uses up a latch at most re-arms.
LEMMA OnlyReArms ==
  ASSUME UNCHANGED <<recovery, direction, bufferCommands>>,
         recoveryAttempted' => recoveryAttempted, downshiftAttempted' => downshiftAttempted
  PROVE  Fix!ReArm
<1>1. Stage' = Stage
  BY DEF Stage
<1>2. Spent' \in SUBSET Spent
  BY DEF Spent
<1> QED BY <1>1, <1>2 DEF Fix!ReArm

LEMMA PollRefines ==
  ASSUME TypeInv, SafetyInv, Poll
  PROVE  Fix!Next
<1>1. CASE PollRead \/ Handshake \/ PollFails \/ ReassertFails \/ WriteSetpoint
           \/ WriteSetpointFails
  <2>1. UNCHANGED <<task, latches, bufferCommands>>
    BY <1>1 DEF PollRead, Handshake, PollFails, ReassertFails, WriteSetpoint, WriteSetpointFails
  <2> QED BY <2>1, OnlyReArms DEF task, latches, Fix!Next
<1>2. CASE ApplySuspended \/ ApplyKeepsPhase \/ ApplySwitchesPhase
  <2>1. SessionEdges /\ UNCHANGED <<task, bufferCommands>>
    BY <1>2 DEF ApplySuspended, ApplyKeepsPhase, ApplySwitchesPhase
  <2>2. (recoveryAttempted' => recoveryAttempted) /\ (downshiftAttempted' => downshiftAttempted)
    BY <2>1 DEF SessionEdges
  <2> QED BY <2>1, <2>2, OnlyReArms DEF task, Fix!Next
<1>3. CASE WritePhase \/ WritePhaseFails
  <2> DEFINE up == job.phases = 3 /\ CurrentPhases(snap) = 1 /\ ShouldStartRecovery(snap)
             down == job.phases = 1 /\ CurrentPhases(snap) = 3 /\ ShouldStartDownshift(snap)
  <2>1. recovery = "none"
    BY <1>3 DEF WritePhase, WritePhaseFails, SafetyInv, OwnedWhileRunning, RecoveryActive
  <2>2. /\ recovery' = IF up \/ down THEN "observe" ELSE recovery
        /\ direction' = CASE up -> "up" [] down -> "down" [] OTHER -> direction
        /\ downshiftAttempted' = (downshiftAttempted /\ job.phases # 3)
        /\ UNCHANGED <<recoveryAttempted, bufferCommands>>
    BY <1>3 DEF WritePhase, WritePhaseFails, AfterPhaseWrite
  <2>3. (up => ~recoveryAttempted) /\ (down => ~downshiftAttempted) /\ ~(up /\ down)
    BY DEF ShouldStartRecovery, ShouldStartDownshift
  <2> HIDE DEF up, down
  <2>4. (recoveryAttempted' => recoveryAttempted) /\ (downshiftAttempted' => downshiftAttempted)
    BY <2>2
  <2>5. CASE ~up /\ ~down
    BY <2>2, <2>4, <2>5, OnlyReArms DEF Fix!Next
  <2>6. CASE up \/ down
    <3>1. Stage = "idle" /\ Stage' = "watching" /\ Spent' \in SUBSET Spent
      BY <2>1, <2>2, <2>4, <2>6 DEF Stage, Spent
    <3>2. direction' \in Fix!Directions /\ direction' \notin Spent
      BY <2>2, <2>3, <2>6 DEF Fix!Directions, Spent
    <3>3. Fix!Start(direction')
      BY <2>2, <3>1, <3>2 DEF Fix!Start
    <3> QED BY <3>2, <3>3 DEF Fix!Next
  <2> QED BY <2>5, <2>6
<1> QED BY <1>1, <1>2, <1>3 DEF Poll, ApplyCycle

LEMMA RecoveryRefines ==
  ASSUME TypeInv, SafetyInv, Recovery
  PROVE  Fix!Next
<1> USE DEF SafetyInv
<1>1. CASE ObserveEnds
  <2>1. Stage = "watching" /\ Stage' = "leaving" /\ Spent' = Spent /\ direction' = direction
        /\ bufferCommands' = bufferCommands
    BY <1>1 DEF ObserveEnds, EndRecovery, Stage, Spent, latches, BufferScoped, TypeInv, TypeOK
  <2> QED BY <2>1 DEF Fix!GiveUp, Fix!Next
<1>2. CASE Escalate
  <2>1. Stage = "watching" /\ Stage' = "pausing" /\ direction' = direction /\ bufferCommands' = TRUE
    BY <1>2 DEF Escalate, Stage
  <2>2. direction \notin Spent /\ Spent' = Spent \cup {direction}
    BY <1>2 DEF Escalate, LatchOpen, Spent
  <2> QED BY <2>1, <2>2 DEF Fix!Hold, Fix!Next
<1>3. CASE PauseWrite \/ DwellEnds
  <2>1. Stage' = Stage /\ UNCHANGED <<direction, bufferCommands, latches>>
    BY <1>3 DEF PauseWrite, DwellEnds, Stage
  <2>2. Spent' \in SUBSET Spent
    BY <2>1 DEF latches, Spent
  <2> QED BY <2>1, <2>2 DEF Fix!ReArm, Fix!Next
<1>4. CASE PauseWriteFails \/ DwellAborts \/ RecoveryResumes
  <2>1. Stage = "pausing" /\ Stage' = "leaving" /\ bufferCommands' = FALSE
        /\ UNCHANGED <<direction, latches>>
    BY <1>4 DEF PauseWriteFails, DwellAborts, RecoveryResumes, EndRecovery, Stage
  <2>2. Spent' \in SUBSET Spent
    BY <2>1 DEF latches, Spent
  <2> QED BY <2>1, <2>2 DEF Fix!Release, Fix!Next
<1>5. CASE RecoveryDone
  <2>1. Stage = "leaving" /\ Stage' = "idle" /\ direction' = "none"
        /\ UNCHANGED <<bufferCommands, latches>>
    BY <1>5 DEF RecoveryDone, Stage
  <2>2. Spent' \in SUBSET Spent
    BY <2>1 DEF latches, Spent
  <2> QED BY <2>1, <2>2 DEF Fix!Leave, Fix!Next
<1> QED BY <1>1, <1>2, <1>3, <1>4, <1>5 DEF Recovery

\* The built-in control implements PhaseFix: one pause per request and direction,
\* the setpoint kept from the wire exactly while a pause lasts, for every
\* option, reading and delay.
THEOREM InternalImplementsFix == Spec => ImplementsPhaseFix
<1>1. Init => Fix!Init
  BY DEF Init, Fix!Init, Stage, Spent
<1>2. TypeInv /\ SafetyInv /\ [Next]_vars => [Fix!Next]_(Fix!fixVars)
  <2> SUFFICES ASSUME TypeInv, SafetyInv, [Next]_vars PROVE [Fix!Next]_(Fix!fixVars)
    OBVIOUS
  <2>1. CASE Poll
    BY <2>1, PollRefines
  <2>2. CASE Recovery
    BY <2>2, RecoveryRefines
  <2>3. CASE User \/ World
    <3>1. UNCHANGED <<task, latches, bufferCommands>>
      BY <2>3 DEF User, SwitchOn, SwitchOff, SelectMode, SelectPreference, SetManualCurrent,
                  InvalidateSetpointCache, UserUnchanged, World, Plug, Unplug, WallboxMinimum,
                  LinkDrops, WorldUnchanged
    <3> QED BY <3>1, OnlyReArms DEF task, latches, Fix!Next
  <2>4. CASE Tick
    BY <2>4, OnlyReArms DEF Tick, latches, Fix!Next
  <2>5. CASE UNCHANGED vars
    BY <2>5, OnlyReArms DEF vars, task, latches, Fix!Next
  <2> QED BY <2>1, <2>2, <2>3, <2>4, <2>5 DEF Next
<1> QED BY <1>1, <1>2, SafetyInvariant, PTL DEF Spec, ImplementsPhaseFix, Fix!Spec
-----------------------------------------------------------------------------
\* A cycle's setpoint stays under the load balancer's ceiling, unless a solar
\* mode holds its minimum within the minimum duration of a charge.
LEMMA SetpointUnderRoom ==
  ASSUME TypeInv, NEW m \in Modes, NEW s \in Surplus, NEW last, NEW switchAge,
         ApplySetpoint(m, s, last, switchAge)
  PROVE  \/ ~room'.on \/ computedSetpoint' = 0 \/ Tenths(computedSetpoint') <= room'.cap
         \/ /\ m \in SolarModes /\ computedSetpoint' = Limits.min
            /\ chargeStarted \in 0 .. MinCharge - 1
<1>1. PICK dlb \in Dlb :
        LET target == ModeTarget(m, manualCurrent, s, ActivePhases(snap), Voltage, Limits)
            want == Finalize(target, dlb, Limits, chargingEnabled, snap.vehicle)
        IN /\ room' = dlb
           /\ computedSetpoint' =
                IF m \in SolarModes /\ HoldsMinimum(want) THEN Limits.min ELSE want
  BY DEF ApplySetpoint
<1> DEFINE target == ModeTarget(m, manualCurrent, s, ActivePhases(snap), Voltage, Limits)
           want == Finalize(target, dlb, Limits, chargingEnabled, snap.vehicle)
<1>2. CASE m \in SolarModes /\ HoldsMinimum(want)
  <2>1. chargeStarted \in 0 .. MinCharge - 1
    BY <1>2, ConstantFacts DEF HoldsMinimum, TypeInv, TypeOK
  <2> QED BY <1>1, <1>2, <2>1
<1>3. CASE ~(m \in SolarModes /\ HoldsMinimum(want))
  <2>1. target \in Int
    BY ModeTargetType, SurplusType, SnapshotFacts, ConstantFacts, ReadingsAssumption
       DEF TypeInv, TypeOK, Amps
  <2>2. dlb \in [on : BOOLEAN, cap : Int] /\ snap.vehicle \in BOOLEAN /\ chargingEnabled \in BOOLEAN
    BY DlbType DEF TypeInv, TypeOK, Snapshot
  <2> HIDE DEF target
  <2>3. ~dlb.on \/ want = 0 \/ Tenths(want) <= dlb.cap
    BY <2>1, <2>2, FinalizeUnderCap, ConstantFacts
  <2>4. room' = dlb /\ computedSetpoint' = want
    BY <1>1, <1>3 DEF target
  <2> QED BY <2>3, <2>4
<1> QED BY <1>2, <1>3

\* The setpoint of every cycle respects the fuse, but for that hold.
THEOREM FuseIsRespected == Spec => FuseRespected
<1> DEFINE Within ==
             \/ ~room'.on \/ computedSetpoint' = 0 \/ Tenths(computedSetpoint') <= room'.cap
             \/ /\ mode' \in SolarModes /\ computedSetpoint' = Limits.min
                /\ chargeStarted \in 0 .. MinCharge - 1
<1>1. TypeInv /\ [Next]_vars => [Computes => Within]_vars
  <2> SUFFICES ASSUME TypeInv, Computes PROVE Within
    OBVIOUS
  <2>1. CASE ApplyKeepsPhase
    <3>1. PICK s \in Surplus : ApplySetpoint(mode', s, CacheAfterEdges, lastSwitch)
      BY <2>1 DEF ApplyKeepsPhase
    <3>2. mode' \in Modes
      BY <2>1, OptionsAssumption DEF ApplyKeepsPhase, ModeAfterEdges, TypeInv, TypeOK
    <3> QED BY <3>1, <3>2, SetpointUnderRoom
  <2>2. CASE WritePhase \/ WritePhaseFails
    <3>1. pc = "phase" /\ ApplySetpoint(mode, job.surplus, lastSetpoint, 0) /\ mode' = mode
      BY <2>2 DEF WritePhase, WritePhaseFails, AfterPhaseWrite, intent
    <3>2. mode \in Modes /\ job.surplus \in Surplus
      BY <3>1 DEF TypeInv, TypeOK, JobOK, Job
    <3> QED BY <3>1, <3>2, SetpointUnderRoom
  <2> QED BY <2>1, <2>2 DEF Computes
<1> QED BY <1>1, TypeInvariant, PTL DEF Spec, FuseRespected
=============================================================================
