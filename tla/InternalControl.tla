--------------------------- MODULE InternalControl ---------------------------
(***************************************************************************)
(* The built-in control loop: ChargeControl of controller.py in internal   *)
(* mode, the phase recovery of phase.py, and the poll of coordinator.py    *)
(* that drives them, against a Unite wallbox on a link that may drop.      *)
(*                                                                         *)
(* A poll is cut where the code awaits a Modbus write whose outcome or     *)
(* whose timing matters: read, handshake, apply, the 405 write, the 5004   *)
(* write.  Between two cuts the user, the car, the wallbox, the clock and  *)
(* the recovery task may step.  Time is kept as ages: how many ticks ago   *)
(* an event was, counted up to the longest delay the code compares it      *)
(* with, so the clock itself needs no bound.                               *)
(***************************************************************************)
EXTENDS ChargeMath, PhaseReadings, FiniteSets

CONSTANTS
  Limits,            \* [min, max, cable], the current bounds in whole amps
  HwCurrents,        \* currents the wallbox itself may put in register 5004
  Voltage, SolarMin, \* options nominal_voltage and solar_min_current
  Surpluses,         \* readings of the PV surplus, watts
  Rooms,             \* readings of the load balancer's ceiling, tenths
  DlbEnabled, PhaseSwitching, RecoveryEnabled, ResetOnDisconnect,
  DefaultMode,
  ModeChoices, PhaseChoices, ManualChoices,  \* what the user may select
  DrawChoices,       \* what a charging car may be measured to draw
  MayFail,           \* the optional reads that may come back empty
  Settle, Quiet,     \* PHASE_SWITCH_SETTLE_MIN_S, PHASE_SWITCH_QUIET_S, in ticks
  MinCharge,         \* SOLAR_MIN_CHARGE_DURATION_S
  Dwell,             \* option phase_switch_dwell
  Observe, Pause,    \* options phase_recovery_observe, phase_recovery_dwell
  Resume             \* PHASE_RECOVERY_SETTLE_S

LongAgo == Greater(Quiet, Dwell)  \* as old as the age of a phase switch is kept
Untracked == -2      \* solarAge of a charge that fast or manual mode started
Amps == 0 .. EffectiveMax(Limits)
Preferences == {"auto", "1", "3"}

ASSUME LimitsAssumption ==
  /\ Limits \in [min : Nat \ {0}, max : Nat \ {0}, cable : Nat]
  /\ HwCurrents # {} /\ HwCurrents \subseteq Amps
ASSUME ReadingsAssumption ==
  /\ Voltage \in Nat \ {0} /\ SolarMin \in Nat \ {0}
  /\ Surpluses \subseteq Int /\ Rooms \subseteq Int
  /\ DrawChoices \subseteq Draws /\ MayFail \subseteq {"setCurrent", "phaseSwitch"}
ASSUME OptionsAssumption ==
  /\ {DlbEnabled, PhaseSwitching, RecoveryEnabled, ResetOnDisconnect} \subseteq BOOLEAN
  /\ DefaultMode \in Modes /\ ModeChoices \subseteq Modes
  /\ PhaseChoices \subseteq Preferences /\ ManualChoices \subseteq Amps
ASSUME TimesAssumption ==
  /\ {Settle, Quiet, MinCharge, Dwell, Observe, Pause, Resume} \subseteq Nat \ {0}
  /\ Settle <= Quiet

VARIABLES
  chargingEnabled, mode, manualCurrent, phasePreference,   \* the user's intent
  wasConnected, lastSetpoint, computedSetpoint,            \* the control loop
  chargeStarted, phaseDiffSince, lastSwitch,               \* its timers, as ages
  recovery, direction, recoveryAge,                        \* the recovery task
  recoveryAttempted, downshiftAttempted, bufferCommands,
  pc, snap, job, data,                                     \* the poll in progress
  room,                                                    \* DLB reading last used
  link, newConnection,                                     \* the Modbus connection
  setCurrent, phaseSwitch,                                 \* registers 5004 and 405
  vehicle, sessionMinimum,                                 \* cable and session start
  disturbed, solarAge                                      \* history, for properties

intent == <<chargingEnabled, mode, manualCurrent, phasePreference>>
cycle == <<wasConnected, computedSetpoint, room>>
timers == <<chargeStarted, phaseDiffSince, lastSwitch>>
task == <<recovery, direction, recoveryAge>>
latches == <<recoveryAttempted, downshiftAttempted>>
poll == <<pc, snap, job, data>>
socket == <<link, newConnection>>
registers == <<setCurrent, phaseSwitch>>
car == <<vehicle, sessionMinimum>>
vars == <<intent, cycle, lastSetpoint, timers, task, latches, bufferCommands, poll,
          socket, registers, car, disturbed, solarAge>>

Surplus == {[valid |-> FALSE, watts |-> 0]} \cup [valid : {TRUE}, watts : Surpluses]
\* A configured sensor that is missing, stale or implausible gives a cap of 0.
Dlb == IF DlbEnabled
       THEN [on : {TRUE}, cap : Rooms \cup {0}] ELSE {[on |-> FALSE, cap |-> 0]}
NoDlb == [on |-> FALSE, cap |-> 0]

Snapshot == [vehicle : BOOLEAN, charging : BOOLEAN, draw : Draws,
             setCurrent : Amps \cup {None}, phaseSwitch : {0, 1, None}]
NoSnapshot == [vehicle |-> FALSE, charging |-> FALSE, draw |-> "none",
               setCurrent |-> None, phaseSwitch |-> None]
Job == [kind : {"none"}] \cup [kind : {"setpoint"}, amps : Amps]
       \cup [kind : {"phase"}, phases : Phases, surplus : Surplus]
NoJob == [kind |-> "none"]

\* What the recovery task looks at in coordinator.data.
Seen(d) == [vehicle |-> d.vehicle, charging |-> d.charging, draw |-> d.draw]

RecoveryActive == recovery # "none"
-----------------------------------------------------------------------------
\* The Modbus link.

\* A request that succeeds; it first reconnects when the socket is gone.
Contact ==
  /\ link' = TRUE
  /\ newConnection' = (newConnection \/ ~link)

\* The socket closes: the wallbox puts both registers back to its own values
\* (405 to the three-phase default of a 3-phase installation).
Drop ==
  /\ link' = FALSE
  /\ setCurrent' \in HwCurrents
  /\ phaseSwitch' = 1
  /\ UNCHANGED newConnection

\* A write of register 5004 or 405 that is acknowledged.
WriteCurrent(amps) == Contact /\ setCurrent' = amps /\ UNCHANGED phaseSwitch
WritePhases(n) ==
  Contact /\ phaseSwitch' = (IF n = 3 THEN 1 ELSE 0) /\ UNCHANGED setCurrent
-----------------------------------------------------------------------------
\* What the snapshot says about phases.
PhasesInUse(d) ==
  CASE d.draw = "none" -> 0 [] d.draw = "one" -> 1
    [] d.draw = "unclear" -> 2 [] d.draw = "three" -> 3

\* With 405 unread the code falls back on register 404, which holds 1 on the
\* three-phase wallbox modelled here and is taken for the number of phases.
ActivePhases(d) ==
  CASE d.charging /\ PhasesInUse(d) > 0 -> PhasesInUse(d)
    [] (~d.charging \/ PhasesInUse(d) = 0) /\ d.phaseSwitch = 1 -> 3
    [] (~d.charging \/ PhasesInUse(d) = 0) /\ d.phaseSwitch # 1 -> 1

CurrentPhases(d) ==
  CASE d.phaseSwitch = 0 -> 1
    [] d.phaseSwitch = 1 -> 3
    [] d.phaseSwitch = None -> IF PhasesInUse(d) \in Phases THEN PhasesInUse(d) ELSE 3

\* The phase count the settings ask for; None: leave the register as it is.
TargetPhase(d, m, surplus) ==
  CASE phasePreference = "1" -> 1
    [] phasePreference = "3" -> 3
    [] phasePreference = "auto" /\ m \in SolarModes ->
         IF surplus.valid
         THEN DesiredPhases(surplus.watts, Voltage, SolarMin, CurrentPhases(d)) ELSE None
    [] phasePreference = "auto" /\ m \notin SolarModes -> 3

\* The anti-flap dwell covers only what the surplus decides.
DwellApplies(m) == phasePreference = "auto" /\ m \in SolarModes

\* Faulty variant: the latch of the direction is not looked at.
ShouldStartUnlatched(d) ==
  /\ RecoveryEnabled /\ ~RecoveryActive
  /\ d.vehicle /\ d.charging
  /\ d.phaseSwitch = 0 \/ MeasuredSinglePhase(d)

ShouldStartRecovery(d) ==
  /\ RecoveryEnabled /\ ~RecoveryActive /\ ~recoveryAttempted
  /\ d.vehicle /\ d.charging
  /\ d.phaseSwitch = 0 \/ MeasuredSinglePhase(d)

ShouldStartDownshift(d) ==
  /\ RecoveryEnabled /\ ~RecoveryActive /\ ~downshiftAttempted
  /\ d.vehicle /\ d.charging
  /\ d.phaseSwitch = 1 \/ MeasuredThreePhase(d)
-----------------------------------------------------------------------------
\* From a target current to the setpoint of this cycle.

\* Faulty variants: a hold without an end, one that outlives a switch-off, and
\* one that ends a tick early.
HoldsForever(want) == want = 0 /\ chargeStarted # None /\ chargingEnabled /\ snap.vehicle
HoldsWhenOff(want) ==
  want = 0 /\ chargeStarted # None /\ chargeStarted < MinCharge /\ snap.vehicle
HoldsTooShort(want) ==
  /\ want = 0
  /\ chargeStarted # None /\ chargeStarted < MinCharge - 1
  /\ chargingEnabled /\ snap.vehicle

\* A pause asked for too soon after the start of a solar charge is held off.
HoldsMinimum(want) ==
  /\ want = 0
  /\ chargeStarted # None /\ chargeStarted < MinCharge
  /\ chargingEnabled /\ snap.vehicle

\* Faulty variant: the quiet period ends a tick early.
QuietOverEarly(age) == age >= Quiet - 1

\* FALSE when the loop must leave register 5004 alone after a phase switch.
QuietOver(age) == age >= Quiet

\* Faulty variant: only the cache is believed.
ReadBackIgnored(last) == FALSE

\* The read-back that exposes a change the wallbox made by itself.
ReadBackDiffers(last) ==
  /\ snap.vehicle
  /\ snap.setCurrent # None /\ last # None /\ snap.setCurrent # last

Finish == pc' = "idle" /\ snap' = NoSnapshot /\ job' = NoJob /\ disturbed' = FALSE
Disturb == disturbed' = (pc # "idle")

\* The tail of async_apply, run with mode m, the cached setpoint last and the
\* age of the last phase switch: compute, then queue the write or skip it.
ApplySetpoint(m, surplus, last, switchAge) ==
  \E dlb \in Dlb :
    LET target == ModeTarget(m, manualCurrent, surplus, ActivePhases(snap), Voltage, Limits)
        want == Finalize(target, dlb, Limits, chargingEnabled, snap.vehicle)
        solar == m \in SolarModes
        setpoint == IF solar /\ HoldsMinimum(want) THEN Limits.min ELSE want
        cached == IF ReadBackDiffers(last) THEN None ELSE last
    IN /\ room' = dlb
       /\ computedSetpoint' = setpoint
       /\ chargeStarted' =
            CASE ~solar -> chargeStarted
              [] solar /\ setpoint <= 0 -> None
              [] solar /\ setpoint > 0 -> IF chargeStarted = None THEN 0 ELSE chargeStarted
       /\ solarAge' =
            CASE setpoint <= 0 -> None
              [] setpoint > 0 /\ ~solar -> Untracked
              [] setpoint > 0 /\ solar -> IF solarAge = None THEN 0 ELSE solarAge
       /\ lastSetpoint' = cached
       /\ IF QuietOver(switchAge) /\ setpoint # cached
          THEN /\ pc' = "setpoint"
               /\ job' = [kind |-> "setpoint", amps |-> setpoint]
               /\ UNCHANGED <<snap, data, disturbed>>
          ELSE Finish /\ data' = Seen(snap)
-----------------------------------------------------------------------------
\* The poll: _async_update_data of the coordinator.

\* try_read_optional: the register's value, or None when the read fails.
Reading(register, value) == {value} \cup (IF register \in MayFail THEN {None} ELSE {})

\* The mandatory blocks are read, then the optional registers, each of which
\* may come back as None; take_new_connection picks up a fresh connection.
PollRead ==
  /\ pc = "idle"
  /\ link' = TRUE
  /\ newConnection' = FALSE
  /\ \E charging \in IF vehicle THEN BOOLEAN ELSE {FALSE} :
       \E draw \in IF charging THEN DrawChoices ELSE {"none"},
          current \in Reading("setCurrent", setCurrent),
          phase \in Reading("phaseSwitch", phaseSwitch) :
         snap' = [vehicle |-> vehicle, charging |-> charging, draw |-> draw,
                  setCurrent |-> current, phaseSwitch |-> phase]
  /\ pc' = IF newConnection \/ ~link THEN "handshake" ELSE "apply"
  /\ UNCHANGED <<intent, cycle, lastSetpoint, timers, task, latches, bufferCommands,
                 job, data, registers, car, disturbed, solarAge>>

\* _reassert_current_on_reconnect, run for a new connection and a new session:
\* 0 A while a recovery pause lasts or charging is off, and, but for the pause,
\* a forgotten cache, so that this cycle writes its setpoint.
ReassertsZero == bufferCommands \/ ~chargingEnabled
CacheAfterReassert == IF bufferCommands THEN lastSetpoint ELSE None

\* _on_new_connection: the failsafe registers, then the reassert.
Handshake ==
  /\ pc = "handshake"
  /\ IF ReassertsZero THEN WriteCurrent(0) ELSE Contact /\ UNCHANGED registers
  /\ lastSetpoint' = CacheAfterReassert
  /\ pc' = "apply"
  /\ UNCHANGED <<intent, cycle, timers, task, latches, bufferCommands, snap, job, data,
                 car, disturbed, solarAge>>

\* A write of the handshake or the heartbeat raises: UpdateFailed.
PollFails ==
  /\ pc \in {"handshake", "apply"}
  /\ Drop
  /\ lastSetpoint' \in IF pc = "handshake" THEN {lastSetpoint, CacheAfterReassert}
                       ELSE {lastSetpoint}
  /\ Finish
  /\ UNCHANGED <<intent, cycle, timers, task, latches, bufferCommands, data, car, solarAge>>
-----------------------------------------------------------------------------
\* async_apply.

JustPlugged == snap.vehicle /\ ~wasConnected
JustUnplugged == ~snap.vehicle /\ wasConnected

CacheAfterEdges == IF JustPlugged THEN CacheAfterReassert ELSE lastSetpoint

\* The heartbeat, then the two edges of the session.
SessionEdges ==
  /\ wasConnected' = snap.vehicle
  /\ recoveryAttempted' = (recoveryAttempted /\ ~JustUnplugged)
  /\ downshiftAttempted' = (downshiftAttempted /\ ~JustUnplugged)
  /\ IF JustPlugged /\ ReassertsZero
     THEN WriteCurrent(0) ELSE Contact /\ UNCHANGED registers

\* The 0 A of a new session is refused: the error leaves async_apply.
ReassertFails ==
  /\ pc = "apply"
  /\ JustPlugged /\ ReassertsZero
  /\ wasConnected' = TRUE
  /\ lastSetpoint' = CacheAfterReassert
  /\ Drop
  /\ Finish
  /\ UNCHANGED <<intent, computedSetpoint, room, timers, task, latches, bufferCommands,
                 data, car, solarAge>>

\* Faulty variant: the loop stays out only during the pause.
SuspendsDuringPause(active) == bufferCommands

\* A recovery owns the charger: only the session edges are handled.
SuspendsFor(active) == active

ApplySuspended ==
  /\ pc = "apply"
  /\ SuspendsFor(RecoveryActive)
  /\ SessionEdges
  /\ lastSetpoint' = CacheAfterEdges
  /\ Finish
  /\ data' = Seen(snap)
  /\ UNCHANGED <<intent, computedSetpoint, room, timers, task, bufferCommands, car, solarAge>>

ModeAfterEdges == IF ResetOnDisconnect /\ JustUnplugged THEN DefaultMode ELSE mode

\* _manage_phases up to its write: is another phase count wanted, has it been
\* wanted for long enough, and what remains of the dwell timer.
PhaseWanted(m, surplus) ==
  /\ PhaseSwitching
  /\ TargetPhase(snap, m, surplus) \notin {None, CurrentPhases(snap)}

DwellServed(m) ==
  DwellApplies(m) => phaseDiffSince # None /\ phaseDiffSince >= Dwell

SwitchDue(m, surplus) ==
  /\ snap.vehicle
  /\ PhaseWanted(m, surplus)
  /\ lastSwitch >= Settle
  /\ DwellServed(m)

\* Faulty variant: the timer survives a surplus that no longer asks for a switch.
PhaseDiffKept(m, surplus) ==
  IF phaseDiffSince = None /\ snap.vehicle /\ PhaseWanted(m, surplus) /\ lastSwitch >= Settle
  THEN 0 ELSE phaseDiffSince

PhaseDiffAfter(m, surplus) ==
  CASE ~snap.vehicle -> phaseDiffSince
    [] snap.vehicle /\ (~PhaseWanted(m, surplus) \/ SwitchDue(m, surplus)) -> None
    [] snap.vehicle /\ PhaseWanted(m, surplus) /\ ~SwitchDue(m, surplus) ->
         IF phaseDiffSince = None /\ lastSwitch >= Settle THEN 0 ELSE phaseDiffSince

\* A cycle that finds no phase switch due goes on to the setpoint.
ApplyKeepsPhase ==
  /\ pc = "apply"
  /\ ~SuspendsFor(RecoveryActive)
  /\ SessionEdges
  /\ mode' = ModeAfterEdges
  /\ \E surplus \in Surplus :
       /\ ~SwitchDue(mode', surplus)
       /\ phaseDiffSince' = PhaseDiffAfter(mode', surplus)
       /\ ApplySetpoint(mode', surplus, CacheAfterEdges, lastSwitch)
  /\ UNCHANGED <<chargingEnabled, manualCurrent, phasePreference, lastSwitch, task,
                 bufferCommands, car>>

\* A switch is due: register 405 is about to be written.
ApplySwitchesPhase ==
  /\ pc = "apply"
  /\ ~SuspendsFor(RecoveryActive)
  /\ SessionEdges
  /\ mode' = ModeAfterEdges
  /\ \E surplus \in Surplus :
       /\ SwitchDue(mode', surplus)
       /\ job' = [kind |-> "phase", surplus |-> surplus,
                  phases |-> TargetPhase(snap, mode', surplus)]
       /\ phaseDiffSince' = PhaseDiffAfter(mode', surplus)
  /\ lastSetpoint' = CacheAfterEdges
  /\ pc' = "phase"
  /\ UNCHANGED <<chargingEnabled, manualCurrent, phasePreference, computedSetpoint, room,
                 chargeStarted, lastSwitch, task, bufferCommands, snap, data, car,
                 disturbed, solarAge>>

\* _apply_phase_change after its write, whether or not the write succeeded
\* (_write_phase swallows the error): note the time, maybe start a recovery,
\* then the rest of async_apply.
AfterPhaseWrite ==
  LET up == job.phases = 3 /\ CurrentPhases(snap) = 1 /\ ShouldStartRecovery(snap)
      down == job.phases = 1 /\ CurrentPhases(snap) = 3 /\ ShouldStartDownshift(snap)
  IN /\ recovery' = IF up \/ down THEN "observe" ELSE recovery
     /\ direction' = CASE up -> "up" [] down -> "down" [] OTHER -> direction
     /\ recoveryAge' = IF up \/ down THEN 0 ELSE recoveryAge
     /\ downshiftAttempted' = (downshiftAttempted /\ job.phases # 3)
     /\ lastSwitch' = 0
     /\ ApplySetpoint(mode, job.surplus, lastSetpoint, 0)
     /\ UNCHANGED <<intent, wasConnected, phaseDiffSince, recoveryAttempted,
                    bufferCommands, car>>

WritePhase ==
  /\ pc = "phase"
  /\ WritePhases(job.phases)
  /\ AfterPhaseWrite

WritePhaseFails ==
  /\ pc = "phase"
  /\ Drop
  /\ AfterPhaseWrite

\* _write_setpoint; a failure is swallowed and the cache keeps its old value.
WriteSetpoint ==
  /\ pc = "setpoint"
  /\ WriteCurrent(job.amps)
  /\ lastSetpoint' = job.amps
  /\ Finish
  /\ data' = Seen(snap)
  /\ UNCHANGED <<intent, cycle, timers, task, latches, bufferCommands, car, solarAge>>

WriteSetpointFails ==
  /\ pc = "setpoint"
  /\ Drop
  /\ Finish
  /\ data' = Seen(snap)
  /\ UNCHANGED <<intent, cycle, lastSetpoint, timers, task, latches, bufferCommands, car,
                 solarAge>>
-----------------------------------------------------------------------------
\* The recovery task: observe, pause at 0 A, resume.  Its steps run between
\* any two steps of the poll and look at the data of the last finished poll.

\* Faulty variant: the deadline moves with every pass of the loop.
ObserveNeverOver == FALSE

ObserveOver == recoveryAge >= Observe

\* The car left, stopped or switched by itself, or the reading is ambiguous.
NothingToFix ==
  \/ ~data.vehicle \/ ~data.charging \/ WentAlong(direction, data)
  \/ ObserveOver /\ ~StayedBehind(direction, data)

\* The finally clause: commands flow again, then a refresh is awaited, during
\* which the task still counts as active.
EndRecovery == recovery' = "ending" /\ bufferCommands' = FALSE /\ recoveryAge' = 0

ObserveEnds ==
  /\ recovery = "observe"
  /\ NothingToFix
  /\ EndRecovery
  /\ UNCHANGED <<intent, cycle, lastSetpoint, timers, direction, latches,
                 poll, socket, registers, car, disturbed, solarAge>>

Escalate ==
  /\ recovery = "observe"
  /\ ObserveOver /\ ~NothingToFix
  /\ recovery' = "pausing"
  /\ recoveryAge' = 0
  /\ bufferCommands' = TRUE
  /\ recoveryAttempted' = (recoveryAttempted \/ direction = "up")
  /\ downshiftAttempted' = (downshiftAttempted \/ direction = "down")
  /\ UNCHANGED <<intent, cycle, lastSetpoint, timers, direction, poll, socket, registers,
                 car, disturbed, solarAge>>

PauseWrite ==
  /\ recovery = "pausing"
  /\ WriteCurrent(0)
  /\ recovery' = "dwell"
  /\ UNCHANGED <<intent, cycle, lastSetpoint, timers, direction, recoveryAge, latches,
                 bufferCommands, poll, car, disturbed, solarAge>>

PauseWriteFails ==
  /\ recovery = "pausing"
  /\ Drop
  /\ EndRecovery
  /\ UNCHANGED <<intent, cycle, lastSetpoint, timers, direction, latches,
                 poll, car, disturbed, solarAge>>

\* The car is unplugged during the pause: nothing is resumed.
DwellAborts ==
  /\ recovery = "dwell"
  /\ ~data.vehicle
  /\ EndRecovery
  /\ UNCHANGED <<intent, cycle, lastSetpoint, timers, direction, latches,
                 poll, socket, registers, car, disturbed, solarAge>>

\* Faulty variant: the pause has no deadline.
PauseNeverOver == FALSE

PauseOver == recoveryAge >= Pause

DwellEnds ==
  /\ recovery = "dwell"
  /\ data.vehicle /\ PauseOver
  /\ recovery' = "resuming"
  /\ recoveryAge' = 0
  /\ UNCHANGED <<intent, cycle, lastSetpoint, timers, direction, latches, bufferCommands,
                 poll, socket, registers, car, disturbed, solarAge>>

\* _recovery_resume in internal mode: the next cycle writes a fresh setpoint.
CacheAfterRecovery == None

RecoveryResumes ==
  /\ recovery = "resuming"
  /\ recoveryAge >= Resume
  /\ lastSetpoint' = CacheAfterRecovery
  /\ EndRecovery
  /\ UNCHANGED <<intent, cycle, timers, direction, latches, poll, socket,
                 registers, car, disturbed, solarAge>>

RecoveryDone ==
  /\ recovery = "ending"
  /\ recovery' = "none" /\ direction' = "none"
  /\ Disturb
  /\ UNCHANGED <<intent, cycle, lastSetpoint, timers, recoveryAge, latches, bufferCommands,
                 poll, socket, registers, car, solarAge>>
-----------------------------------------------------------------------------
\* The user.

UserUnchanged ==
  UNCHANGED <<cycle, timers, task, latches, bufferCommands, poll, socket, registers, car,
              disturbed, solarAge>>

\* set_charging_enabled: switching off also forgets the cache.
SwitchOn ==
  /\ chargingEnabled' = TRUE
  /\ UNCHANGED <<mode, manualCurrent, phasePreference, lastSetpoint>>
  /\ UserUnchanged

SwitchOff ==
  /\ chargingEnabled' = FALSE
  /\ lastSetpoint' = None
  /\ UNCHANGED <<mode, manualCurrent, phasePreference>>
  /\ UserUnchanged

SelectMode ==
  /\ mode' \in ModeChoices
  /\ UNCHANGED <<chargingEnabled, manualCurrent, phasePreference, lastSetpoint>>
  /\ UserUnchanged

SelectPreference ==
  /\ PhaseSwitching
  /\ phasePreference' \in PhaseChoices
  /\ UNCHANGED <<chargingEnabled, mode, manualCurrent, lastSetpoint>>
  /\ UserUnchanged

\* The charge-current number is only available in manual mode.
SetManualCurrent ==
  /\ mode = Manual
  /\ \E amps \in ManualChoices :
       manualCurrent' = Greater(Limits.min, Lesser(amps, EffectiveMax(Limits)))
  /\ UNCHANGED <<chargingEnabled, mode, phasePreference, lastSetpoint>>
  /\ UserUnchanged

\* A web-UI action may have changed the limit: its button forgets the cache.
InvalidateSetpointCache ==
  /\ lastSetpoint' = None
  /\ UNCHANGED intent
  /\ UserUnchanged

User == SwitchOn \/ SwitchOff \/ SelectMode \/ SelectPreference \/ SetManualCurrent
        \/ InvalidateSetpointCache
-----------------------------------------------------------------------------
\* The car, the wallbox, the network and the clock.

WorldUnchanged ==
  UNCHANGED <<intent, cycle, lastSetpoint, task, latches, bufferCommands, poll>>

\* A new session: the wallbox will set its own minimum, sooner or later.
Plug ==
  /\ ~vehicle
  /\ vehicle' = TRUE /\ sessionMinimum' = TRUE
  /\ WorldUnchanged
  /\ UNCHANGED <<timers, socket, registers, disturbed, solarAge>>

Unplug ==
  /\ vehicle
  /\ vehicle' = FALSE /\ sessionMinimum' = FALSE
  /\ WorldUnchanged
  /\ UNCHANGED <<timers, socket, registers, disturbed, solarAge>>

WallboxMinimum ==
  /\ sessionMinimum
  /\ sessionMinimum' = FALSE
  /\ setCurrent' \in HwCurrents
  /\ Disturb
  /\ WorldUnchanged
  /\ UNCHANGED <<timers, socket, phaseSwitch, vehicle, solarAge>>

LinkDrops ==
  /\ link
  /\ Drop
  /\ Disturb
  /\ WorldUnchanged
  /\ UNCHANGED <<timers, car, solarAge>>

StageLength == CASE recovery = "observe" -> Observe [] recovery = "dwell" -> Pause
                 [] recovery = "resuming" -> Resume [] OTHER -> 0

Older(age, limit) == IF age < 0 \/ age >= limit THEN age ELSE age + 1

Tick ==
  /\ chargeStarted' = Older(chargeStarted, MinCharge)
  /\ phaseDiffSince' = Older(phaseDiffSince, Dwell)
  /\ lastSwitch' = Older(lastSwitch, LongAgo)
  /\ recoveryAge' = Older(recoveryAge, StageLength)
  /\ solarAge' = Older(solarAge, MinCharge)
  /\ UNCHANGED <<intent, cycle, lastSetpoint, recovery, direction, latches,
                 bufferCommands, poll, socket, registers, car, disturbed>>

World == Plug \/ Unplug \/ WallboxMinimum \/ LinkDrops
-----------------------------------------------------------------------------
Init ==
  /\ chargingEnabled = TRUE /\ mode = DefaultMode
  /\ manualCurrent = Limits.min /\ phasePreference = "auto"
  /\ wasConnected = FALSE /\ lastSetpoint = None /\ computedSetpoint = None
  /\ chargeStarted = None /\ phaseDiffSince = None /\ lastSwitch = LongAgo
  /\ recovery = "none" /\ direction = "none" /\ recoveryAge = 0
  /\ recoveryAttempted = FALSE /\ downshiftAttempted = FALSE /\ bufferCommands = FALSE
  /\ pc = "idle" /\ snap = NoSnapshot /\ job = NoJob /\ data = Seen(NoSnapshot)
  /\ room = NoDlb
  /\ link = FALSE /\ newConnection = FALSE
  /\ setCurrent \in HwCurrents /\ phaseSwitch = 1
  /\ vehicle \in BOOLEAN /\ sessionMinimum = FALSE
  /\ disturbed = FALSE /\ solarAge = None

ApplyCycle == ApplySuspended \/ ApplyKeepsPhase \/ ApplySwitchesPhase

Poll == PollRead \/ Handshake \/ PollFails \/ ApplyCycle \/ ReassertFails
        \/ WritePhase \/ WritePhaseFails \/ WriteSetpoint \/ WriteSetpointFails

Recovery == ObserveEnds \/ Escalate \/ PauseWrite \/ PauseWriteFails \/ DwellAborts
            \/ DwellEnds \/ RecoveryResumes \/ RecoveryDone

Next == Poll \/ Recovery \/ User \/ World \/ Tick

Spec == Init /\ [][Next]_vars

\* The event loop keeps polling (a failed poll is one more try), the recovery
\* task is scheduled and time passes.  Nothing is promised about the world.
\* (A poll step always changes pc, a step of the task always changes recovery.)
FairSpec ==
  Spec /\ WF_pc(Poll) /\ WF_recovery(Recovery) /\ WF_<<timers, recoveryAge, solarAge>>(Tick)
-----------------------------------------------------------------------------
\* Properties.

\* Every variable has its type; in particular both registers, the cache and a
\* write in flight only ever hold whole amps within the limits.
TypeOK ==
  /\ chargingEnabled \in BOOLEAN /\ mode \in Modes
  /\ manualCurrent \in Amps /\ phasePreference \in Preferences
  /\ wasConnected \in BOOLEAN
  /\ lastSetpoint \in Amps \cup {None} /\ computedSetpoint \in Amps \cup {None}
  /\ chargeStarted \in {None} \cup 0 .. MinCharge
  /\ phaseDiffSince \in {None} \cup 0 .. Dwell
  /\ lastSwitch \in 0 .. LongAgo
  /\ recovery \in {"none", "observe", "pausing", "dwell", "resuming", "ending"}
  /\ direction \in {"none", "up", "down"} /\ recoveryAge \in Nat
  /\ recoveryAttempted \in BOOLEAN /\ downshiftAttempted \in BOOLEAN
  /\ bufferCommands \in BOOLEAN
  /\ pc \in {"idle", "handshake", "apply", "phase", "setpoint"}
  /\ snap \in Snapshot /\ job \in Job
  /\ data \in [vehicle : BOOLEAN, charging : BOOLEAN, draw : Draws]
  /\ room \in [on : BOOLEAN, cap : Int]
  /\ link \in BOOLEAN /\ newConnection \in BOOLEAN
  /\ setCurrent \in Amps /\ phaseSwitch \in {0, 1}
  /\ vehicle \in BOOLEAN /\ sessionMinimum \in BOOLEAN
  /\ disturbed \in BOOLEAN
  /\ solarAge \in {Untracked, None} \cup 0 .. MinCharge

\* A poll that reads register 5004 with a car attached, outside the quiet
\* period, and during which no recovery ran and neither the wallbox nor the
\* network touched the register, leaves there what it computed: the write it skipped
\* because of its cache was superfluous (_write_setpoint, the read-back test).
PollLands ==
  [][ /\ pc \in {"apply", "setpoint"} /\ pc' = "idle"
      /\ ~disturbed /\ link' /\ ~RecoveryActive /\ lastSwitch >= Quiet
      /\ snap.vehicle /\ snap.setCurrent # None
      => setCurrent' = computedSetpoint' ]_vars

\* Switched off, the car is not given current again: no cycle computes a new
\* current for it, and register 5004 is raised only by the wallbox itself or by the
\* one write that the off overtook (set_charging_enabled, controller.py:745).
OffHolds ==
  [][ ~chargingEnabled =>
        /\ computedSetpoint' \in {0, computedSetpoint}
        /\ setCurrent' > setCurrent =>
             \/ ~link' \/ (sessionMinimum /\ ~sessionMinimum')
             \/ pc = "setpoint" /\ computedSetpoint > 0 ]_<<setCurrent, computedSetpoint>>

\* The steps of a cycle that compute a setpoint, be it the one of the last cycle.
Computes == ApplyKeepsPhase \/ WritePhase \/ WritePhaseFails

\* A setpoint exceeds the room the load balancer found only when a solar mode
\* holds its minimum, and then only within the minimum duration of a charge.
FuseRespected ==
  [][ Computes =>
        \/ ~room'.on \/ computedSetpoint' = 0 \/ Tenths(computedSetpoint') <= room'.cap
        \/ /\ mode' \in SolarModes /\ computedSetpoint' = Limits.min
           /\ chargeStarted \in 0 .. MinCharge - 1 ]_vars

\* "on missing or stale meter data charging pauses" (README.md:38): a cycle
\* that finds no room for the car computes a pause.  The anti-short-cycle of the
\* solar modes, which runs after the cap, breaks it (controller.py:493).
FailsClosed ==
  [][ room'.on /\ room'.cap <= 0 => computedSetpoint' = 0 ]_<<room, computedSetpoint>>

\* "keep charging >= 5 min once started" (const.py:68): a charge that a solar
\* mode began after a pause is not paused again earlier, unless the user
\* switches off or the car is unplugged.
SolarChargeLasts ==
  [][ /\ solarAge \in 0 .. MinCharge - 1
      /\ computedSetpoint' = 0 /\ mode' \in SolarModes
      => ~chargingEnabled \/ ~snap.vehicle ]_computedSetpoint

\* "passing clouds don't cause constant switching" (strings.json:338): whatever
\* the user forces in between, a switch that the surplus decides comes at least
\* the dwell time after the previous write of register 405.
NoFlapping ==
  [][ pc' = "phase" /\ DwellApplies(mode') => lastSwitch >= Dwell ]_pc

\* "revert to the default mode when the car is unplugged" (controller.py:458):
\* the cycle that notices the unplugging resets the mode.
ModeResets ==
  [][ ResetOnDisconnect /\ wasConnected /\ ~wasConnected'
      => mode' = DefaultMode ]_wasConnected

\* The quiet period: no setpoint is on its way to the wallbox while it performs
\* the CP interruption of a phase switch (const.py:137).
QuietKept == pc = "setpoint" => lastSwitch >= Quiet

\* "A recovery owns the charger while it runs" (controller.py:454): from the
\* start of the observation to the end of the task nobody but the wallbox
\* itself, at a session start or a lost connection, raises register 5004.
RecoveryOwnsCurrent ==
  [][ RecoveryActive /\ setCurrent' > setCurrent
      => ~link' \/ (sessionMinimum /\ ~sessionMinimum') ]_setCurrent

-----------------------------------------------------------------------------
\* What the link and the user must grant for a command to get through: the link
\* stays up from some point on and register 5004 is read now and then; and the
\* user does not select another phase count every 15 s for ever, each of which
\* starts a quiet period of 20 s.
WorldSettles ==
  /\ <>[]link /\ []<>(snap.setCurrent # None)
  /\ <>[][phasePreference' = phasePreference]_phasePreference

\* Switching off a connected car gets 0 A on the wire ("an explicit off must
\* land on the wire", controller.py:752).
OffLands ==
  WorldSettles => ((~chargingEnabled /\ vehicle) ~>
                   (setCurrent = 0 \/ chargingEnabled \/ ~vehicle))

\* The abstract view of the recovery task.
Stage == CASE recovery = "none" -> "idle"
           [] recovery = "observe" -> "watching"
           [] recovery \in {"pausing", "dwell", "resuming"} -> "pausing"
           [] recovery = "ending" -> "leaving"
Spent == (IF recoveryAttempted THEN {"up"} ELSE {})
         \cup (IF downshiftAttempted THEN {"down"} ELSE {})

Fix == INSTANCE PhaseFix
  WITH stage <- Stage, towards <- direction, held <- bufferCommands, spent <- Spent

\* The built-in control implements the promise of PhaseFix (phase.py:98-171):
\* one pause per request and direction, and the setpoint kept from the wire
\* exactly while it lasts.
ImplementsPhaseFix == Fix!Spec

\* A recovery ends, whatever the link, the car and the user do.
RecoveryEnds == RecoveryActive ~> ~RecoveryActive

\* After a pause the car is given current again ("then resumes", README.md:46).
ChargingResumes ==
  WorldSettles => (recovery = "dwell" ~>
                   (~RecoveryActive /\ setCurrent > 0) \/ ~chargingEnabled \/ ~vehicle)
=============================================================================
