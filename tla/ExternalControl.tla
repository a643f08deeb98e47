--------------------------- MODULE ExternalControl ---------------------------
(***************************************************************************)
(* External control: evcc owns current, enable and phases, ChargeControl   *)
(* passes its commands through (controller.py), and the recovery task of   *)
(* phase.py borrows register 5004 for its pause.                           *)
(*                                                                         *)
(* Every write goes through the lock of the Modbus client, which serves    *)
(* its waiters in order: queue holds the writes that wait for it, each     *)
(* with the value its issuer computed when it asked.  evcc's commands, the *)
(* poll and the recovery task are cut at these waits.  The deadlines of    *)
(* the recovery may pass at any moment of their stage.                     *)
(***************************************************************************)
EXTENDS ChargeMath, PhaseReadings, Sequences

CONSTANTS
  AbsMax,            \* ABS_MAX_CURRENT_A
  MaxCurrent,        \* option max_current, the first resume current
  Commands,          \* currents evcc may ask for, before the clamp
  PhaseRequests,     \* phase counts evcc may ask for
  HwCurrents,        \* currents the wallbox itself may put in register 5004
  DrawChoices,       \* what a charging car may be measured to draw
  RecoveryEnabled,   \* option phase_recovery_enabled
  Patience,          \* polls before the guard of register 405 acts: 3 in the code
  QuickReplug,       \* whether a car may be back before a poll saw it gone
  LateMinimum,       \* whether the wallbox may set the minimum of a session after
                     \* the write that a poll makes at the session's start
  PhaseUnreadable,   \* whether the read of register 405 may fail
  QueueBound         \* evcc asks for a current while fewer writes than this wait

Clamp(amps) == Greater(0, Lesser(AbsMax, amps))
Amps == 0 .. AbsMax

ASSUME CurrentsAssumption ==
  /\ AbsMax \in Nat \ {0} /\ MaxCurrent \in Amps \ {0}
  /\ Commands \subseteq Int /\ HwCurrents \subseteq Amps /\ HwCurrents # {}
ASSUME ChoicesAssumption ==
  /\ PhaseRequests \subseteq Phases /\ DrawChoices \subseteq Draws \ {"none"}
  /\ RecoveryEnabled \in BOOLEAN /\ PhaseUnreadable \in BOOLEAN
  /\ QuickReplug \in BOOLEAN /\ LateMinimum \in BOOLEAN
  /\ Patience \in Nat \ {0} /\ QueueBound \in Nat

VARIABLES
  currentIntent, resumeCurrent, requestedPhase,    \* evcc's wishes
  phaseCommand,                                    \* a phase command in flight
  recovery, direction, bufferCommands,             \* the recovery task
  recoveryAttempted, downshiftAttempted,
  wasConnected, guardMismatches,
  pc, snap, data,                                  \* the poll in progress, its last data
  queue, newConnection,                            \* the Modbus client
  setCurrent, phaseSwitch,                         \* registers 5004 and 405
  vehicle, sessionMinimum,                         \* cable and session start
  ours,          \* history: evcc's writer was the last to touch register 5004
  kept           \* history: the last command was kept from the wire, and no
                 \* write that carries it has been asked for since

wishes == <<currentIntent, resumeCurrent, requestedPhase>>
task == <<recovery, direction, bufferCommands>>
latches == <<recoveryAttempted, downshiftAttempted>>
session == <<wasConnected, guardMismatches>>
poll == <<pc, snap, data>>
registers == <<setCurrent, phaseSwitch>>
car == <<vehicle, sessionMinimum>>
vars == <<wishes, phaseCommand, task, latches, session, poll, queue, newConnection, registers,
          car, ours, kept>>

\* What a poll reads, and the data it leaves.  The draw is chosen when the data is
\* published: nothing in a poll looks at it.  A car that draws nothing is not
\* charging.
Reading == [vehicle : BOOLEAN, phaseSwitch : {0, 1, None}]
NoReading == [vehicle |-> FALSE, phaseSwitch |-> None]
Snapshot(reading, draw) ==
  [vehicle |-> reading.vehicle, phaseSwitch |-> reading.phaseSwitch, draw |-> draw]
Charging(d) == d.draw # "none"

Issuers == {"evcc", "phaseCommand", "poll", "task"}
Write == [by : Issuers, register : {"current"}, value : Amps]
         \cup [by : Issuers \ {"task"}, register : {"phase"}, value : {0, 1}]
CurrentWrite(issuer, amps) == [by |-> issuer, register |-> "current", value |-> amps]
PhaseWrite(issuer, raw) == [by |-> issuer, register |-> "phase", value |-> raw]

RecoveryActive == recovery # "none"

\* The value of register 405 that stands for a phase count.
Raw(phases) == IF phases = 3 THEN 1 ELSE 0
-----------------------------------------------------------------------------
\* The Modbus client: the head of the queue is served or fails.

\* The socket closes: the wallbox puts both registers back to its own values.
\* The next request reconnects, whoever sends it; only the poll looks whether
\* the connection it uses is one that it has not yet restored.
Drop ==
  /\ newConnection' = TRUE
  /\ setCurrent' \in HwCurrents
  /\ phaseSwitch' = 1
  /\ ours' = FALSE

\* It is this issuer's turn.
Turn(issuer) == queue # <<>> /\ Head(queue).by = issuer

CurrentWritten(writes) == \E i \in DOMAIN writes : writes[i].register = "current"

\* The write at the head is acknowledged.
Acknowledge ==
  LET w == Head(queue)
  IN /\ UNCHANGED <<newConnection, kept>>
     /\ setCurrent' = IF w.register = "current" THEN w.value ELSE setCurrent
     /\ phaseSwitch' = IF w.register = "phase" THEN w.value ELSE phaseSwitch
     /\ ours' = (ours \/ w.register = "current")

\* It fails: the socket is closed and the next in the queue reconnects.
Refuse == Drop /\ queue' = Tail(queue) /\ UNCHANGED kept
-----------------------------------------------------------------------------
\* evcc's commands.

\* Faulty variant: a stop is buffered like any other current.
KeepsFromWireStop(value) == bufferCommands

\* During a pause a positive current is kept back; a stop always goes through.
KeepsFromWire(value) == bufferCommands /\ value > 0

SetCurrent(amps) ==
  LET value == Clamp(amps)
  IN /\ KeepsFromWire(value) \/ Len(queue) < QueueBound
     /\ currentIntent' = value
     /\ resumeCurrent' = IF value > 0 THEN value ELSE resumeCurrent
     /\ queue' = IF KeepsFromWire(value) THEN queue
                 ELSE Append(queue, CurrentWrite("evcc", value))
     /\ kept' = KeepsFromWire(value)
     /\ UNCHANGED <<requestedPhase, phaseCommand, task, latches, session, poll, newConnection,
                    registers, car, ours>>

SetEnabled(on) == SetCurrent(IF on THEN resumeCurrent ELSE 0)

CurrentServed ==
  /\ Turn("evcc")
  /\ Acknowledge
  /\ queue' = Tail(queue)
  /\ UNCHANGED <<wishes, phaseCommand, task, latches, session, poll, car>>

CurrentRefused ==
  /\ Turn("evcc")
  /\ Refuse
  /\ UNCHANGED <<wishes, phaseCommand, task, latches, session, poll, car>>

\* A request for three phases re-arms the downshift.
RequestThree ==
  /\ phaseCommand = "none"
  /\ 3 \in PhaseRequests
  /\ requestedPhase' = 3
  /\ downshiftAttempted' = FALSE
  /\ queue' = Append(queue, PhaseWrite("phaseCommand", 1))
  /\ phaseCommand' = "writing"
  /\ UNCHANGED <<currentIntent, resumeCurrent, task, recoveryAttempted, session, poll,
                 newConnection, registers, car, ours, kept>>

\* The queue without the write of the task, of which there is at most one.
WithoutTask ==
  LET i == CHOOSE i \in DOMAIN queue : queue[i].by = "task"
  IN IF \E j \in DOMAIN queue : queue[j].by = "task"
     THEN [j \in 1 .. Len(queue) - 1 |-> IF j < i THEN queue[j] ELSE queue[j + 1]]
     ELSE queue

\* _cancel_recovery: the task runs its finally clause, or leaves it; a write it
\* waits for is called off, or has reached the wallbox already.
CancelRecovery ==
  /\ recovery' = IF recovery \in {"none", "ending"} THEN "none" ELSE "ending"
  /\ direction' = IF recovery \in {"none", "ending"} THEN "none" ELSE direction
  /\ bufferCommands' = FALSE
  /\ UNCHANGED kept
  /\ \/ UNCHANGED <<newConnection, registers, ours>>
     \/ /\ Turn("task")
        /\ UNCHANGED newConnection
        /\ setCurrent' = Head(queue).value /\ ours' = TRUE
        /\ UNCHANGED phaseSwitch

\* A request for one phase re-arms the recovery and cancels the one that runs.
RequestOne ==
  /\ phaseCommand = "none"
  /\ 1 \in PhaseRequests
  /\ requestedPhase' = 1
  /\ recoveryAttempted' = FALSE
  /\ CancelRecovery
  /\ queue' = Append(WithoutTask, PhaseWrite("phaseCommand", 0))
  /\ phaseCommand' = "writing"
  /\ UNCHANGED <<currentIntent, resumeCurrent, downshiftAttempted, session, poll, car>>

PhaseServed ==
  /\ Turn("phaseCommand")
  /\ Acknowledge
  /\ queue' = Tail(queue)
  /\ phaseCommand' = "gate"
  /\ UNCHANGED <<wishes, task, latches, session, poll, car>>

\* _write_phase swallows the failure.
PhaseRefused ==
  /\ Turn("phaseCommand")
  /\ Refuse
  /\ phaseCommand' = "gate"
  /\ UNCHANGED <<wishes, task, latches, session, poll, car>>

ShouldStartRecovery(d) ==
  /\ RecoveryEnabled /\ ~RecoveryActive /\ ~recoveryAttempted
  /\ d.vehicle /\ Charging(d)
  /\ d.phaseSwitch = 0 \/ MeasuredSinglePhase(d)

\* Faulty variant: the latch of the downshift is not looked at.
ShouldStartUnlatched(d) ==
  /\ RecoveryEnabled /\ ~RecoveryActive
  /\ d.vehicle /\ Charging(d)
  /\ d.phaseSwitch = 1 \/ MeasuredThreePhase(d)

ShouldStartDownshift(d) ==
  /\ RecoveryEnabled /\ ~RecoveryActive /\ ~downshiftAttempted
  /\ d.vehicle /\ Charging(d)
  /\ d.phaseSwitch = 1 \/ MeasuredThreePhase(d)

\* The end of the command.  The refresh before it is debounced: data may be
\* older than the write.
PhaseGate ==
  /\ phaseCommand = "gate"
  /\ phaseCommand' = "none"
  /\ IF requestedPhase = 3 /\ ShouldStartRecovery(data)
     THEN recovery' = "observe" /\ direction' = "up"
     ELSE IF requestedPhase = 1 /\ ShouldStartDownshift(data)
     THEN recovery' = "observe" /\ direction' = "down"
     ELSE UNCHANGED <<recovery, direction>>
  /\ UNCHANGED <<wishes, bufferCommands, latches, session, poll, queue, newConnection, registers,
                 car, ours, kept>>

Evcc ==
  \/ \E amps \in Commands : SetCurrent(amps)
  \/ \E on \in BOOLEAN : SetEnabled(on)
  \/ RequestOne \/ RequestThree

CommandSteps == CurrentServed \/ CurrentRefused \/ PhaseServed \/ PhaseRefused \/ PhaseGate
-----------------------------------------------------------------------------
\* The poll: _async_update_data of the coordinator, in external mode.

PollUnchanged == UNCHANGED <<wishes, phaseCommand, task, car>>

Finish ==
  /\ pc' = "idle" /\ snap' = NoReading
  /\ \E draw \in {"none"} \cup (IF snap.vehicle THEN DrawChoices ELSE {}) :
       data' = Snapshot(snap, draw)
GiveUp == pc' = "idle" /\ snap' = NoReading /\ UNCHANGED data

PollRead ==
  /\ pc = "idle"
  /\ newConnection' = FALSE
  /\ \E raw \in {phaseSwitch} \cup (IF PhaseUnreadable THEN {None} ELSE {}) :
       snap' = [vehicle |-> vehicle, phaseSwitch |-> raw]
  /\ pc' = IF newConnection THEN "handshake" ELSE "heartbeat"
  /\ UNCHANGED <<latches, session, data, queue, registers, ours, kept>>
  /\ PollUnchanged

\* Faulty variant: a pause in progress is not looked at.
ReassertIntent == IF currentIntent = None THEN 0 ELSE currentIntent

\* _reassert_current_on_reconnect: 0 A during a pause or before any command.
ReassertValue == IF bufferCommands \/ currentIntent = None THEN 0 ELSE currentIntent

KeptUnlessReasserted == kept' = (kept /\ ReassertValue # currentIntent)

\* program_failsafe, whose failure is swallowed, then the write of the current.
Handshake ==
  /\ pc = "handshake"
  /\ \/ UNCHANGED <<newConnection, registers, ours>>
     \/ Drop
  /\ queue' = Append(queue, CurrentWrite("poll", ReassertValue))
  /\ pc' = "reconnectCurrent"
  /\ KeptUnlessReasserted
  /\ UNCHANGED <<latches, session, snap, data>>
  /\ PollUnchanged

\* Faulty variant: the wish for one phase is taken for no wish.
PhaseDiffersOnlyThree == requestedPhase = 3 /\ snap.phaseSwitch # 1

\* evcc's wish against the register as this poll read it.
PhaseDiffers == requestedPhase # None /\ snap.phaseSwitch # Raw(requestedPhase)

\* _reassert_phase_on_reconnect; an unread register counts as different.
ReconnectCurrentServed ==
  /\ pc = "reconnectCurrent" /\ Turn("poll")
  /\ Acknowledge
  /\ IF PhaseDiffers
     THEN /\ queue' = Append(Tail(queue), PhaseWrite("poll", Raw(requestedPhase)))
          /\ pc' = "reconnectPhase"
     ELSE queue' = Tail(queue) /\ pc' = "heartbeat"
  /\ UNCHANGED <<latches, session, snap, data>>
  /\ PollUnchanged

ReconnectPhaseServed ==
  /\ pc = "reconnectPhase" /\ Turn("poll")
  /\ Acknowledge
  /\ queue' = Tail(queue)
  /\ pc' = "heartbeat"
  /\ UNCHANGED <<latches, session, snap, data>>
  /\ PollUnchanged

\* _guard_phase_setting, run with the writes q still waiting, then the end of
\* the poll unless it writes.
GuardSilent ==
  \/ RecoveryActive \/ ~snap.vehicle
  \/ snap.phaseSwitch = None \/ ~PhaseDiffers

GuardPhase(q) ==
  \/ /\ GuardSilent
     /\ guardMismatches' = 0
     /\ queue' = q
     /\ Finish
  \/ /\ ~GuardSilent /\ guardMismatches + 1 < Patience
     /\ guardMismatches' = guardMismatches + 1
     /\ queue' = q
     /\ Finish
  \/ /\ ~GuardSilent /\ guardMismatches + 1 >= Patience
     /\ guardMismatches' = 0
     /\ queue' = Append(q, PhaseWrite("poll", Raw(requestedPhase)))
     /\ pc' = "guard"
     /\ UNCHANGED <<snap, data>>

\* Faulty variant: a stop is taken as applied already.
JustPluggedUnlessStopped == snap.vehicle /\ ~wasConnected /\ currentIntent # 0

JustPlugged == snap.vehicle /\ ~wasConnected
JustUnplugged == ~snap.vehicle /\ wasConnected

\* The heartbeat, then async_apply up to its first wait.
Heartbeat ==
  /\ pc = "heartbeat"
  /\ UNCHANGED newConnection
  /\ wasConnected' = snap.vehicle
  /\ recoveryAttempted' = (recoveryAttempted /\ ~JustUnplugged)
  /\ downshiftAttempted' = (downshiftAttempted /\ ~JustUnplugged)
  /\ IF JustPlugged
     THEN /\ queue' = Append(queue, CurrentWrite("poll", ReassertValue))
          /\ pc' = "sessionCurrent"
          /\ KeptUnlessReasserted
          /\ UNCHANGED <<guardMismatches, snap, data>>
     ELSE GuardPhase(queue) /\ UNCHANGED kept
  /\ UNCHANGED <<registers, ours>>
  /\ PollUnchanged

\* The phase is re-asserted only when the register was read and no recovery runs.
SessionCurrentServed ==
  /\ pc = "sessionCurrent" /\ Turn("poll")
  /\ Acknowledge
  /\ IF ~RecoveryActive /\ snap.phaseSwitch # None /\ PhaseDiffers
     THEN /\ queue' = Append(Tail(queue), PhaseWrite("poll", Raw(requestedPhase)))
          /\ pc' = "sessionPhase"
          /\ UNCHANGED <<guardMismatches, snap, data>>
     ELSE GuardPhase(Tail(queue))
  /\ UNCHANGED <<latches, wasConnected>>
  /\ PollUnchanged

SessionPhaseServed ==
  /\ pc = "sessionPhase" /\ Turn("poll")
  /\ Acknowledge
  /\ GuardPhase(Tail(queue))
  /\ UNCHANGED <<latches, wasConnected>>
  /\ PollUnchanged

\* The guard's write; _write_phase swallows a failure.
GuardWriteEnds ==
  /\ pc = "guard" /\ Turn("poll")
  /\ \/ Acknowledge /\ queue' = Tail(queue)
     \/ Refuse
  /\ Finish
  /\ UNCHANGED <<latches, session>>
  /\ PollUnchanged

\* Any other failing write of the poll: UpdateFailed, the data stays as it was.
PollFails ==
  /\ \/ pc = "heartbeat" /\ Drop /\ UNCHANGED <<queue, kept>>
     \/ pc \notin {"heartbeat", "guard"} /\ Turn("poll") /\ Refuse
  /\ GiveUp
  /\ UNCHANGED <<latches, session>>
  /\ PollUnchanged

PollSteps ==
  \/ PollRead \/ Handshake \/ ReconnectCurrentServed \/ ReconnectPhaseServed
  \/ Heartbeat \/ SessionCurrentServed \/ SessionPhaseServed \/ GuardWriteEnds
  \/ PollFails
-----------------------------------------------------------------------------
\* The recovery task.

TaskUnchanged ==
  UNCHANGED <<requestedPhase, currentIntent, phaseCommand, session, poll, car>>

\* The finally clause: commands flow again and a refresh is awaited, during
\* which the task still counts as active.
EndRecovery == recovery' = "ending" /\ bufferCommands' = FALSE /\ UNCHANGED direction

\* The car left, stopped or went along by itself, or, at the deadline, the
\* reading is ambiguous.
ObserveEnds ==
  /\ recovery = "observe"
  /\ ~data.vehicle \/ ~Charging(data) \/ ~StayedBehind(direction, data)
  /\ EndRecovery
  /\ UNCHANGED <<resumeCurrent, latches, queue, newConnection, registers, ours, kept>>
  /\ TaskUnchanged

Escalate ==
  /\ recovery = "observe"
  /\ data.vehicle /\ Charging(data) /\ StayedBehind(direction, data)
  /\ recovery' = "pausing"
  /\ bufferCommands' = TRUE
  /\ recoveryAttempted' = (recoveryAttempted \/ direction = "up")
  /\ downshiftAttempted' = (downshiftAttempted \/ direction = "down")
  /\ queue' = Append(queue, CurrentWrite("task", 0))
  /\ UNCHANGED <<resumeCurrent, direction, newConnection, registers, ours, kept>>
  /\ TaskUnchanged

PauseServed ==
  /\ recovery = "pausing" /\ Turn("task")
  /\ Acknowledge
  /\ queue' = Tail(queue)
  /\ recovery' = "dwell"
  /\ UNCHANGED <<resumeCurrent, direction, bufferCommands, latches>>
  /\ TaskUnchanged

\* The car is unplugged during the pause: nothing is resumed.  It may also leave
\* after the last look, in the settle time before the resume.
DwellAborts ==
  /\ recovery = "dwell"
  /\ ~data.vehicle
  /\ EndRecovery
  /\ UNCHANGED <<resumeCurrent, latches, queue, newConnection, registers, ours, kept>>
  /\ TaskUnchanged

\* Faulty variants: the resume does not expect a wish that was never given, or
\* goes back to the configured maximum.
ResumeUnchecked == currentIntent
ResumeAtMaximum == IF currentIntent = 0 THEN 0 ELSE MaxCurrent

\* _recovery_resume: the last intent wins.
ResumeValue == IF currentIntent = None THEN resumeCurrent ELSE currentIntent

Resume ==
  /\ recovery = "dwell"
  /\ recovery' = "resuming"
  /\ queue' = Append(queue, CurrentWrite("task", ResumeValue))
  /\ resumeCurrent' = IF ResumeValue > 0 THEN ResumeValue ELSE resumeCurrent
  /\ kept' = FALSE
  /\ UNCHANGED <<direction, bufferCommands, latches, newConnection, registers, ours>>
  /\ TaskUnchanged

ResumeServed ==
  /\ recovery = "resuming" /\ Turn("task")
  /\ Acknowledge
  /\ queue' = Tail(queue)
  /\ EndRecovery
  /\ UNCHANGED <<resumeCurrent, latches>>
  /\ TaskUnchanged

TaskRefused ==
  /\ recovery \in {"pausing", "resuming"} /\ Turn("task")
  /\ Refuse
  /\ EndRecovery
  /\ UNCHANGED <<resumeCurrent, latches>>
  /\ TaskUnchanged

RecoveryDone ==
  /\ recovery = "ending"
  /\ recovery' = "none" /\ direction' = "none"
  /\ UNCHANGED <<resumeCurrent, bufferCommands, latches, queue, newConnection, registers, ours,
                 kept>>
  /\ TaskUnchanged

RecoverySteps ==
  \/ ObserveEnds \/ Escalate \/ PauseServed \/ DwellAborts \/ Resume
  \/ ResumeServed \/ TaskRefused \/ RecoveryDone
-----------------------------------------------------------------------------
\* The car and the network.

WorldUnchanged ==
  UNCHANGED <<wishes, phaseCommand, task, latches, session, poll, queue, kept>>

\* A new session: the wallbox will set its own minimum.
Plug ==
  /\ ~vehicle
  /\ QuickReplug \/ ~wasConnected
  /\ vehicle' = TRUE /\ sessionMinimum' = TRUE
  /\ UNCHANGED <<registers, ours, newConnection>>
  /\ WorldUnchanged

Unplug ==
  /\ vehicle
  /\ vehicle' = FALSE /\ sessionMinimum' = FALSE
  /\ UNCHANGED <<registers, ours, newConnection>>
  /\ WorldUnchanged

\* It does so before the write of the session's start is served, or later.
WallboxMinimum ==
  /\ sessionMinimum
  /\ LateMinimum \/ ~wasConnected \/ pc = "sessionCurrent"
  /\ sessionMinimum' = FALSE
  /\ setCurrent' \in HwCurrents
  /\ ours' = FALSE
  /\ UNCHANGED <<phaseSwitch, vehicle, newConnection>>
  /\ WorldUnchanged

LinkDrops ==
  /\ Drop
  /\ UNCHANGED car
  /\ WorldUnchanged

World == Plug \/ Unplug \/ WallboxMinimum \/ LinkDrops
-----------------------------------------------------------------------------
Init ==
  /\ currentIntent = None /\ resumeCurrent = MaxCurrent /\ requestedPhase = None
  /\ phaseCommand = "none"
  /\ recovery = "none" /\ direction = "none" /\ bufferCommands = FALSE
  /\ recoveryAttempted = FALSE /\ downshiftAttempted = FALSE
  /\ wasConnected = FALSE /\ guardMismatches = 0
  /\ pc = "idle" /\ snap = NoReading /\ data = Snapshot(NoReading, "none")
  /\ queue = <<>>
  /\ newConnection = TRUE
  /\ setCurrent \in HwCurrents /\ phaseSwitch = 1
  /\ vehicle \in BOOLEAN /\ sessionMinimum = FALSE
  /\ ours = FALSE /\ kept = FALSE

Next == Evcc \/ CommandSteps \/ PollSteps \/ RecoverySteps \/ World

Spec == Init /\ [][Next]_vars

\* The event loop runs: polls, tasks and waiting requests get their turn.
FairSpec ==
  /\ Spec
  /\ WF_vars(CommandSteps) /\ WF_vars(PollSteps) /\ WF_vars(RecoverySteps)
-----------------------------------------------------------------------------
\* Properties.

\* Every variable has its type.
TypeOK ==
  /\ currentIntent \in Amps \cup {None} /\ resumeCurrent \in Amps \ {0}
  /\ requestedPhase \in Phases \cup {None}
  /\ phaseCommand \in {"none", "writing", "gate"}
  /\ recovery \in {"none", "observe", "pausing", "dwell", "resuming", "ending"}
  /\ direction \in {"none", "up", "down"} /\ bufferCommands \in BOOLEAN
  /\ recoveryAttempted \in BOOLEAN /\ downshiftAttempted \in BOOLEAN
  /\ wasConnected \in BOOLEAN /\ guardMismatches \in 0 .. Patience - 1
  /\ pc \in {"idle", "handshake", "reconnectCurrent", "reconnectPhase", "heartbeat",
             "sessionCurrent", "sessionPhase", "guard"}
  /\ snap \in Reading
  /\ data \in [vehicle : BOOLEAN, phaseSwitch : {0, 1, None}, draw : Draws]
  /\ queue \in Seq(Write)
  /\ newConnection \in BOOLEAN
  /\ setCurrent \in Amps /\ phaseSwitch \in {0, 1}
  /\ vehicle \in BOOLEAN /\ sessionMinimum \in BOOLEAN
  /\ ours \in BOOLEAN /\ kept \in BOOLEAN

\* "a stop always goes through so evcc can always halt" (controller.py:281): once
\* nothing more is on its way, a register that evcc's writer was the last to
\* touch holds 0 A, whichever write, pause or reconnect the stop overtook.
StopLands ==
  currentIntent = 0 /\ ours /\ ~CurrentWritten(queue) => setCurrent = 0

\* Nor does such a register ever hold more than evcc's last current, whatever
\* reconnects, pauses and cancelled recoveries wrote in between, once a write
\* that carries this current has been asked for: by the command itself, by the
\* resume it was kept for, or by a reconnect or new session.
NeverMoreThanAsked ==
  ours /\ ~kept /\ ~CurrentWritten(queue) /\ currentIntent # None
  => setCurrent <= currentIntent

\* "their forced pause ... a 0 A" (controller.py:270): from the moment the pause
\* has begun until its end is written nobody but the wallbox raises the current,
\* though commands, polls and reconnects were under way when it began.
PauseHolds ==
  [][(recovery = "dwell" /\ setCurrent' > setCurrent)
     => ~ours']_setCurrent

\* The abstract view of the recovery task.
Stage == CASE recovery = "none" -> "idle"
           [] recovery = "observe" -> "watching"
           [] recovery \in {"pausing", "dwell", "resuming"} -> "pausing"
           [] recovery = "ending" -> "leaving"
Spent == (IF recoveryAttempted THEN {"up"} ELSE {})
         \cup (IF downshiftAttempted THEN {"down"} ELSE {})

Fix == INSTANCE PhaseFix
  WITH stage <- Stage, towards <- direction, held <- bufferCommands, spent <- Spent

\* External control implements the promise of PhaseFix: at most one pause per
\* request and direction, commands kept from the wire exactly during a pause,
\* whatever commands cancel or re-arm meanwhile.
ImplementsPhaseFix == Fix!Spec

\* The link stays up from some point on and register 405 can be read.
WorldSettles == <>[](~newConnection /\ (pc = "idle" \/ snap.phaseSwitch # None))

\* The guard of register 405 (controller.py:376): a wish for one phase gets to
\* the wallbox, whatever reset the register, and stays the wish meanwhile.
PhaseLands ==
  WorldSettles => ((requestedPhase = 1 /\ vehicle) ~>
                   (phaseSwitch = 0 \/ requestedPhase # 1 \/ ~vehicle))

\* A stop takes effect on the car that is plugged in: a new session, whose
\* minimum the wallbox sets itself, a lost connection or a pause must not leave it
\* charging "at the wallbox's minimum with the Charging switch still off"
\* (controller.py:435), given that a poll sees the car before it goes.  With a
\* minimum that comes after the write of the session's start (LateMinimum), it is
\* broken: nothing reads register 5004 back in external mode.
StopTakesEffect ==
  WorldSettles => ((currentIntent = 0 /\ vehicle) ~>
                   (setCurrent = 0 \/ currentIntent # 0 \/ ~vehicle))
=============================================================================
