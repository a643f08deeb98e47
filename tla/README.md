# A formal model of the Unite EV charger integration

This directory models the control core of the Home Assistant integration
`custom_components/unite_ev_charger` in TLA+, checks it with TLC on small
instances and proves its main safety properties with TLAPS for every value of
its parameters.  Paths below are relative to that package unless they start
with `README.md`, `tests/` or `tools/`.

## 1. The system

The integration polls a Webasto/Vestel *Unite* wallbox over Modbus TCP every
few seconds.  In **internal** mode it decides the charging current itself; in
**external** mode another controller (evcc) decides and the integration passes
commands on.  Everything runs in one asyncio event loop: the poll, the user's
service calls, the recovery task and the web-UI tasks interleave wherever one
of them awaits.

| Part | State it keeps | Operations | Talks to |
|---|---|---|---|
| Charging arithmetic `control.py` | none | limits, mode targets, load-balancing cap, phase choice, final setpoint | called by the control loop |
| Built-in loop `controller.py` | user intent (enabled, mode, manual current, phase preference); last written setpoint; `_was_connected`; start of a solar charge; dwell and switch timers | `async_apply` once per poll | Modbus client, meters in Home Assistant, recovery |
| Fuse guard in `controller.py`, `inputs.py` | none (reads sensors) | `_dlb_cap` | grid-current sensors, the charger's own draw |
| Phase recovery `phase.py` | task, direction, one latch per direction, `_buffer_commands` | observe, pause at 0 A, resume | polls, `coordinator.data`, register 5004 |
| External control `controller.py` | evcc's last enable, current and phase wish, mismatch counter | set current / enable / phase, reassert, guard | Modbus client, recovery |
| Coordinator `coordinator.py` | last snapshot, `_vehicle_was_connected`, baseline, counters | `_async_update_data`, `_on_new_connection`, phase restore | everything |
| Modbus client `modbus.py` | socket, `_new_connection` | block read, optional read, write, reconnect | wallbox |
| Failsafe and baseline `safety.py` | stored baseline | heartbeat, failsafe registers, capture, restore | wallbox |
| RFID probe `control.py` | supported?, strikes, session latch | probe once per connection | coordinator |
| Phase-config restore, web UI `rest_client.py`, `button.py` | login session, busy times | toggle 1→3 phases, restart | wallbox's web UI |
| Entities `switch.py`, `select.py`, `number.py` | restored state | user commands | controller |
| Event log `eventlog.py` | two bounded buckets | record, merge | everything, diagnostics only |

**The environment.**  The wallbox changes register 5004 (charging current) on
its own: at a session start it applies its hardware minimum, and on every lost
connection it puts 5004 and 405 (phases) back to its own values.  The car comes
and goes, draws on one or three phases and may ignore a phase switch.  The link
drops at any time.  Meters go stale.

**What is hard here.**  (1) The loop skips a write when its cache says the
register already holds the value, while the wallbox changes that register by
itself.  (2) The recovery task, the user and a reconnect interleave with a poll
that is waiting for a write.  (3) Half a dozen timers (settle, quiet, dwell,
minimum charge, observe, pause) overlap.  (4) Edges (plug, unplug, new
connection) are seen once and must not be lost.  (5) Any request may fail, and
some failures are swallowed.  (6) The load balancer is a feedback loop through
the car and the meter.  `PROJECT.json` lists these hazards one by one with
their lines.

**What makes each part correct**

* arithmetic: a setpoint is a pause or lies within the limits, and under the cap;
* fuse guard: no sensed phase exceeds the fuse; the loop is steady; missing data means a pause;
* built-in loop: what a poll computes is what the wallbox holds after it; an off reaches the wallbox; a solar charge lasts its minimum; the mode is reset at an unplug;
* phases: no current write in the quiet period; no flapping;
* recovery: it owns the current while it runs, pauses at most once per request, ends, and the car charges again;
* external control: a stop is what ends up in the register, nothing above the last command does, a pause is not undone, and stops and phase wishes get through;
* ownership: our values are never taken for the user's, the failsafe is armed or known not to be, an exit hands back what it found;
* RFID probe: a firmware that drops the connection is asked a bounded number of times;
* phase restore: a wallbox left on one phase is reported, however restores overlap.

## 2. Plan

| Order | Module | Content | Status |
|---|---|---|---|
| 1 | `ChargeMath` | `control.py` as operators | done, lemmas proved |
| 2 | `FuseGuard` | load balancer as a closed loop | done, proved |
| 3 | `InternalControl` | built-in loop, recovery, poll, link | done, safety proved |
| 4 | `PhaseFix` | abstract specification of the recovery task | done, refined by 3 and 5 (checked and proved) |
| 5 | `ExternalControl` | evcc passthrough, queue of writes, buffering, cancellation, reassert, guard | done, safety proved |
| 6 | `Ownership` | life of the entry, handshake, failsafe registers, baseline, RFID probe | done, proved |
| 7 | `PhaseRestore` | delayed toggle after an unplug, button, two web UIs, partial failure | done |
| 8 | `Coordinator` | 6 and 7 composed; implements 6 | done, proved |

`PhaseReadings` holds what 3 and 5 share.  Every safety property that a passing run
checks is also a theorem (section 5), some of them under an option that the run has
as well.  Still worth doing: the restore of the entities' state after a restart; the
event log.

## 3. The modules

### ChargeMath

The functions of `control.py`, one operator each.  Python floats are replaced by
tenths of an ampere: the only rounding in the code is the final `int()`, and
flooring to tenths first changes neither a comparison with a whole number of
amps nor the final floor.  `Truncate` is `int()`: it rounds towards zero, which
matters when the house alone exceeds the fuse and the cap is negative.

### FuseGuard

State: what the house draws per phase, what the car draws (`current_l1..3`),
what the grid sensors report, which sensors are usable, register 5004.
`Poll` is `_dlb_cap` followed by `finalize_a`; the other actions are the car,
the house and the sensors.  A sensor that reports nonsense keeps reporting it
until its next proper report.  `MeterMayLag` chooses whether a report may be
out of date: then neither the house nor the car shows in it before the sensor
reports again, each sensor for itself, and the code takes reports up to 300 s old.
The mode is *fast*, so the cap alone decides.  `calm` and `reported` are history:
whether house and sensors were left alone since the last poll and whether the car
has followed it; and what the house drew when a sensor last reported.

### InternalControl

| Variables | Code |
|---|---|
| `chargingEnabled`, `mode`, `manualCurrent`, `phasePreference` | the user's intent, `controller.py:167-171` |
| `wasConnected`, `lastSetpoint`, `computedSetpoint` | `controller.py:174-180` |
| `chargeStarted`, `phaseDiffSince`, `lastSwitch` | the timers, kept as *ages* in ticks |
| `recovery`, `direction`, `recoveryAge` | the point the recovery task has reached and how long it has been there |
| `recoveryAttempted`, `downshiftAttempted`, `bufferCommands` | latches and flag, `controller.py:192-196` |
| `pc`, `snap`, `job`, `data` | the poll in progress, its snapshot, the write it is about to make; `coordinator.data` |
| `room` | the load balancer's reading last used |
| `link`, `newConnection` | the socket and the one-shot flag of `modbus.py` |
| `setCurrent`, `phaseSwitch` | registers 5004 and 405 in the wallbox |
| `vehicle`, `sessionMinimum` | the cable, and whether the wallbox has yet to apply its session minimum |
| `disturbed`, `solarAge` | history for `PollLands` and `SolarChargeLasts` |

A poll is `PollRead` (block and optional reads), `Handshake` for a new
connection, one of `ApplySuspended`, `ApplyKeepsPhase`, `ApplySwitchesPhase`
(the heartbeat, the session edges and the whole of `async_apply` up to its first
write), then `WritePhase` and `WriteSetpoint` or their failures.  `PollFails` and
`ReassertFails` are the errors that leave the poll.  Between any two of these
steps the recovery task (`ObserveEnds`, `Escalate`, `PauseWrite`, `DwellEnds`,
`RecoveryResumes`, ...), the user, the car, the wallbox, the link and the clock
may step.  The recovery starts inside `AfterPhaseWrite`, as in
`_apply_phase_change`, and counts as active until the refresh in its `finally`
clause is over (`ending`).

Abstractions: the measured phase currents are one of *none*, *one*, *three*
(beyond the thresholds of `phase.py:59-73`) and *unclear*, which counts as two
phases in use; the surplus is any of a set of readings or
invalid, so the smoothing of `_smooth` is covered as one more source of readings;
the load balancer's cap is any of a set of readings (`FuseGuard` has the rest);
the voltage is a constant; register 404 says three-phase, which is the value 1 and
which `_active_phases` takes for one phase when register 405 is unread
(`controller.py:524`), as the model does; `monotonic()` is a
tick that ages every timer up to the longest delay it is compared with.

### PhaseReadings and PhaseFix

`PhaseReadings` classifies a snapshot's currents (`phase.py:59-73`) and says
whether the car went along with a fix or stayed behind (`phase.py:182-204`).

`PhaseFix` is the promise of the recovery task to whoever commands the charger:
a fix watches, pauses at most once per request and direction, keeps commands
from the wire exactly while it pauses, and leaves.  It has four variables (the
stage, the direction, whether commands are kept, the directions that have had
their pause) and knows nothing of registers, polls or commands.  `InternalControl`
and `ExternalControl` both implement it: `Stage` and `Spent` map the task's
progress and its two latches, `bufferCommands` is the flag.

### ExternalControl

| Variables | Code |
|---|---|
| `currentIntent`, `resumeCurrent`, `requestedPhase` | evcc's wishes, `controller.py:186,202-203`; `_enabled_intent` is whether `currentIntent` is positive |
| `phaseCommand` | where a phase command (`controller.py:292-310`) has got to |
| `recovery`, `direction`, `bufferCommands`, latches | the recovery task, as in `InternalControl` |
| `wasConnected`, `guardMismatches` | `controller.py:180,195` |
| `pc`, `snap`, `data` | the poll in progress; `coordinator.data` |
| `queue` | the writes that wait for the lock of `modbus.py`, first come first served |
| `newConnection`, `setCurrent`, `phaseSwitch` | one-shot flag, registers 5004 and 405 |
| `vehicle`, `sessionMinimum` | the cable, and whether the wallbox has yet to apply its session minimum |
| `ours`, `kept` | history: whether evcc's writer touched register 5004 last; whether the last command was kept from the wire and is still unsent |

Every `await` of a write is a cut: the issuer computes its value, appends the
write to `queue` and goes on when the write is served (`...Served`) or fails
(`...Refused`, `PollFails`, `TaskRefused`).  That is where the races of this mode
are: a stop, a reconnect, a session start, the guard and the task each may hold
an older value in the queue while the others decide.  A failing write closes the
socket, the next one in the queue reconnects, and only a later poll notices.
`CancelRecovery` runs the `finally` clause of the task, takes its write out of the
queue, or finds it already sent.  `WallboxMinimum` is the current the wallbox sets by
itself once per session; `LateMinimum` says whether it may do so after the write that a
poll makes at the session's start, as `controller.py:497-500` says it can.  `PhaseGate` looks at `data`, which may be older
than the write before it (the refresh is debounced).

Abstractions: the deadlines of the recovery may pass at any moment of their
stage; the measured draw of a poll is chosen when its data is published, since
nothing in an external poll looks at it before; a poll never reads while a write
is cut in half; a cancelled recovery does not take down a refresh it awaits.

### Ownership

The life of the config entry (`life`), the poll (`pc`), the baseline in memory and
on disk, the failsafe registers 2000 and 2002, the one-shot flag for a new
connection, and the RFID probe.  A register or baseline value is *before* (the
user's), *ours*, *unread* (`None`) or *absent*.

| Actions | Code |
|---|---|
| `PollStarts` | a poll sends its first read, `coordinator.py:152` |
| `PollRead` | end of the reads, RFID probe, `take_new_connection`, `coordinator.py:152-209` |
| `LoadBaseline`, `CaptureBaseline`, `SaveBaseline`, `ProgramTimeout`, `ProgramCurrent` | the handshake, `coordinator.py:311-361`, `safety.py` |
| `PollServes`, `PollFails` | heartbeat and control step went through, or a mandatory request failed |
| `Setup`, `ExitBegins`, `RestoreRegister`, `Close`, `Remove` | `__init__.py`, `coordinator.py:490-514` |
| `StrayPrograms` | a poll that outlives its entry, in its reads or in its handshake, programs the failsafe after the exit |
| `Crash` | the process dies between any two awaits |

The two registers are taken as persistent, as `safety.py:53-57` describes them;
registers 5004 and 405, also in the baseline, are reset by the wallbox on every
disconnect and are left to the other modules.  No new poll begins during an exit.

### PhaseRestore and Coordinator

`PhaseRestore` has the edge of the unplug, the data the task looks at, the stage of
each restore (`delay`, then a write of 0 and of 1 over JSON, or both over
webconfig), the wallbox's `currentLimiterPhase` and how the last restore ended.  A
request that fails may have taken effect.  Besides the coordinator's own task
there is at most one other restore at a time: the button's, or a task that an
unload left running.

`Coordinator` joins it to `Ownership`: a poll's reads see the edge, a published poll
changes the data, an unload leaves the task alone, a crash ends it, web requests
run between any two steps of a poll.  `ImplementsOwnership` says that its steps
are still steps of `Ownership`.

A few definitions marked *Faulty variant* stand beside the definition they
spoil.  They are used nowhere in the specifications; exchanging one for its
neighbour makes the property named in `PROJECT.json` ("mutants") fail, which
shows that the property depends on that line of code.

The `MC...` modules only give constants their values.

## 4. The runs

| Run | Checks | Result |
|---|---|---|
| `fuse` | `TypeOK`, `FuseHolds`, `SteadySetpoint` | holds |
| `setpoint` | `TypeOK`, `PollLands`, `OffHolds`, `FuseRespected` | holds |
| `solar` | `SolarChargeLasts`, `NoFlapping` | holds |
| `phase` | `QuietKept`, `PollLands`, `RecoveryOwnsCurrent`, `ImplementsPhaseFix` | holds |
| `live` | `OffLands`, `RecoveryEnds`, `ChargingResumes` | holds under `FairSpec` |
| `external` | `TypeOK`, `StopLands`, `NeverMoreThanAsked`, `PauseHolds`, `ImplementsPhaseFix` | holds |
| `external_live` | `PhaseLands`, `StopTakesEffect` | holds under `FairSpec`, without a late session minimum |
| `coordinator` | `TypeOK`, `BaselineOriginal`, `FailsafeArmed`, `HandsBack`, `ProbeLossesBounded`, `LeftOnlyByFailure` | holds |
| `solar_restart` | `SolarChargeLasts` with fast mode in between | violated |
| `mode_reset` | `ModeResets` with a recovery running | violated |
| `unread_phase` | `OffLands` when register 405 cannot be read | violated |
| `late_minimum` | `StopTakesEffect` with a late session minimum | violated |

What the violated runs show:

* **solar_restart**: `_charge_started` is cleared only by a pause in a solar mode.
  Solar charge, fast mode, switch off or unplug, solar again: the old start time
  makes the new charge look old and it may be paused at once.
* **mode_reset**: the poll that sees the unplug during a recovery updates
  `_was_connected` and returns; the reset further down never runs for this
  unplug.
* **unread_phase**: the read of register 405 is optional.  When it comes back
  empty, `_current_phases` takes the phases the car draws on for the setting.  A
  car on one phase while three are wanted is then a reason to write 405 at every
  settle (15 s); each write starts a quiet period (20 s) in which no setpoint is
  written.  Switching off never reaches the wallbox.  In `live` register 405 is
  always readable.
* **late_minimum**: evcc stops, then the car is plugged in.  The poll that sees the new
  session writes 0 A again, and after it the wallbox applies its minimum.  The built-in
  loop would see that in its read-back of register 5004; external mode returns before
  it, so the car charges at the minimum until evcc's next command.

What the passing runs of external control and the coordinator show, and where
their properties stop:

* **setpoint**: `FuseRespected` speaks of every cycle that computes a setpoint, also of
  one that computes the same again.  Its exception is real: the minimum-duration hold of
  the solar modes is applied after the load balancer (`controller.py:493`), so a cap of 0 A
  does not pause the car during the first five minutes, although `README.md:37` says that
  a missing or stale meter pauses charging.  `OffHolds` allows one increase while charging is
  off: the 5004 write that was on its way when the off came.  The off empties the
  cache, the write's own assignment after its `await` fills it again, and it is the next
  poll's comparison with 0 A that gets the off to the wire (`OffReachesTheWire` below).
* **external**: `StopLands` and `NeverMoreThanAsked` speak of a register that our
  writer touched last, with no current write waiting.  A current kept during a
  pause is excluded by `kept` until some write carries it: a lower current that
  arrives after the resume has read the intent, or before a request for one phase
  cancels the pause, is sent by nobody until the next command or reconnect.  That
  is what the code does; a stop has no such gap, because it is never kept.  The wallbox
  may apply its session minimum at any time here; these properties do not speak of a
  register that the wallbox touched last.
* **external_live**: a wish for one phase and a stop get through, given a car that
  stays until a poll sees it and a session minimum that comes before the write of the
  session's start.  A car that is unplugged and plugged in again between two polls
  (`QuickReplug`) starts a session at the wallbox's minimum that no edge reports;
  `StopTakesEffect` does not hold for it, so this run leaves it out.  A late minimum
  (`LateMinimum`) is the run `late_minimum`.
* **coordinator**: `BaselineOriginal` and `HandsBack` need a store that works: a load
  that fails is taken for *no baseline* and the next capture then finds our own
  values.  `HandsBack` speaks of exits that met no poll, since a poll in flight
  outlives its entry and may program the failsafe once more.
  That an unplug starts a restore is not stated as a property: with `grid_phases` set it
  is the condition of `_maybe_auto_restore_phase`, and with the option unset the retry
  that `coordinator.py:247` promises is lost, since after a half-way failure register 404
  reads as a one-phase installation.  A started task is also dropped when the poll that
  saw the unplug failed afterwards and the data of the poll before still shows the car
  (`coordinator.py:281`, `DelayOver`).

A known limit of the load balancer: a meter's report may be up to 300 s old while
the charger's draw is fresh.  If the car starts to draw after the report, the loop
subtracts a draw the report does not contain and hands out the same room twice; and
what the house has come to draw since the report is not in it either.  With
`MeterMayLag = TRUE` TLC finds `FuseHolds` violated; `fuse` has it `FALSE`, so a meter
that shows every change of house and car at once.  By how much the fuse is exceeded with
a late one is the theorem `OverloadBounded`.

**Bounds.**  Limits of 1 to 2 A (setpoint side) or just 1 A (phase side): every
comparison in the loop is with 0, the minimum, the maximum or the cache, so two
positive currents tell all cases apart, and one does where only "pause or not"
matters.  Load-balancing readings below zero, between the limits (1.5 A, which
must be floored) and above them.  Surplus readings below, at and above the
thresholds.  Timers of 1 or 2 ticks keep the order of the code's delays that
matter: settle before quiet (15 s, 20 s) in `phase` and `unread_phase`, dwell
longer than both in `solar`.
Ages saturate, so no counter bounds the length of a behaviour and the state
spaces are finite without constraints.  In `live` the user changes the phase
preference at most once, at any moment, and the car draws on three phases, so that
the recovery towards one phase has to run its whole course; it reaches only this
direction and no optional read fails in it.  `phase` has any number of changes and both
directions.  `FuseGuard` runs with the default fuse
(25 A), margin and limits, three sensed phases and three house loads, one that
exports and one beyond the fuse's margin.

In `phase` no optional read fails (`MayFail = {}`); `setpoint` and `unread_phase` have
those.

`external` has a stop, two positive currents and both phase requests, one draw per
phase count and a wallbox minimum below the maximum.  `QueueBound` bounds evcc's
current commands only: one may be asked for while nothing waits; the poll, the task
and a phase command add their writes at any time, so that up to four wait, the last
three in any order.  A command behind other writes is the easier case (it carries the
newer wish) and is covered by the proofs, which have no such bound: TLC never queues a
stop behind a waiting resume or reassert, and it is `StopIsLanded` that covers this.  `Patience`, 3 in the code, is 1 here and 2
in `external_live`, where the count has to be reached.  `external_live` has one
current and one phase request, which is the case in which the default of register 405
is wrong.  `coordinator` has the code's two strikes, every kind of RFID answer, a
settle delay and a JSON inventory that lists the phase field; with any other
value of these options a restore starts at a later stage of the same course.

`CHECK_DEADLOCK FALSE` in the `InternalControl` and `ExternalControl` runs: `Tick`, or
the link and the car, may always step, so deadlock says nothing there.  In
`coordinator` a removed entry is the end.

**Fairness** (`FairSpec`): the poll (`WF` on `pc`; a failed poll is tried again at
the next interval), the recovery task (the event loop runs it) and the clock.
Nothing is assumed of the user, the car or the link, except in the antecedent
`WorldSettles` of `OffLands` and `ChargingResumes`: the link stays up from some
point on, register 5004 can be read again and again, and the phase preference is
not changed for ever.  The last is needed: each phase switch starts a quiet
period of 20 s, another may follow after 15 s, and whoever keeps switching keeps
every setpoint off the wire.  `RecoveryEnds` needs none of this.

`ExternalControl` states `WF` of the steps of evcc's commands once issued, of the
poll and of the task: the lock serves its waiters in order and the event loop runs
what is ready.  No fairness is given to evcc's decisions, the car or the link;
`WorldSettles` there says that the link stays up and register 405 is read.

## 5. The proofs

`ChargeMath_proofs`: a setpoint is 0 or within the limits (`FinalizeBounds`), never
above the cap (`FinalizeUnderCap`); `DlbCap` is the least room (`DlbCapIsLeastRoom`)
and depends on the rooms only (`DlbCapOfEqualRooms`); the heartbeat is due twice
per failsafe timeout (`HeartbeatTwicePerTimeout`).  The choice between one and three
phases is stable (`PhaseChoiceIsSteady`), and from an upshift to the next downshift the
surplus falls by more than a tenth of what three phases need (`HysteresisWidth`).  "Otherwise
3p cannot even start" (`control.py:298`) is `UpshiftCanStart`: a surplus that shifts up
also charges on three phases, provided that `min_current` does not exceed
`solar_min_current`.  `UpshiftMayPause` shows that the proviso is needed: the shift is decided with
one option and the pause with the other (`controller.py:558`), and where they differ
the wrong way some surplus shifts up and pauses.

`FuseGuard_proofs`: `TypeCorrect`, and under `MeterMayLag = FALSE` `FuseHeld` and
`SetpointIsSteady`.  The invariants relate the setpoint to the cap of the last poll and
say that the house part of the reading is unchanged since, so that the room is the
same before and after the car follows.  `OverloadBounded` is about
the other meter, whose reports may be of any age, of the house's draw as of the car's: once
the car follows, a sensed phase on which it draws exceeds the fuse less the margin by at most the maximum
current plus what the house has come to draw there since the report.  Its invariant `LagInv`
says that a report is never below what the house drew when it was made, so that the room
it shows is too large by the car's own draw and the house's growth at the most.

`InternalControl_proofs`, for all limits, readings, options and delays that meet
the module's assumptions:

* `TypeCorrect`: `TypeOK` is not inductive alone; a poll that is about to write must
  hold a job of that kind (`JobOK`).
* `QuietIsKept` and `RecoveryOwns`, from one invariant `SafetyInv`.  Its key part is `OwnedWhileRunning`: a poll is never about
  to write a register while a recovery runs.  That holds because a recovery only
  starts right after a 405 write, when the quiet period forbids the same poll its
  5004 write (`EntersSetpoint`), and later polls are suspended.  The quiet period
  therefore protects more than the wallbox's CP interruption: without it
  `RecoveryOwns` fails.  `LatchOpen` says that an observing recovery has not used up
  its latch, whatever sessions came and went.
* `FuseIsRespected`: from `FinalizeUnderCap` and the guard of the hold.

* `InternalImplementsFix`: every step of the loop is a step of `PhaseFix` or a stutter,
  from `TypeInv` and `SafetyInv`.

`InternalSetpoint_proofs`, what a poll leaves in register 5004 and what the timers and the
session edges promise:

* `PollAlwaysLands` (`PollLands`) from `PollInv`: a write in flight carries what the cycle
  computed (`JobIsComputed`), and until the cycle has decided, the register holds
  what the poll read of it, unless the poll was disturbed or the cache is empty
  (`ReadIsCurrent`).  The second alternative is what the handshake, a new session and the
  user rely on: where they change the register or the wish, they empty the cache.
* `OffIsHeld` (`OffHolds`), and `OffReachesTheWire`: a cycle that decides after an off sends
  0 A, or finds 0 A in the register, even when the write that the off overtook has
  filled the cache again.
* `SwitchesKeepDwell` (`NoFlapping`) from `TimerYounger`: the wish for another phase count is
  never older than the last switch, so that a dwell served by one is served by both.
* `SolarChargeIsKept` (`SolarChargeLasts`) where only solar modes can be selected
  (`OnlySolar`), as in run `solar`: then the timer of the loop is the age of the charge.  Run
  `solar_restart` shows that the assumption is needed.  What is left without it is
  `TimerOlder`: the timer is never behind the charge, which gives `ExcessEnds`: the excess
  over the load balancer's room that `FuseRespected` allows ends with the minimum duration,
  whatever modes are mixed.
* `FailsClosedWithoutSolar` (`FailsClosed`) where no solar mode can be selected: the hold of
  the minimum duration is the only way in which the loop can fail to pause without room.
* `ModeIsResetUnlessRecovering`: every unplug that a cycle notices resets the mode, unless a
  recovery runs at that moment (run `mode_reset`).
* `RecoveryMovesOn`: a running recovery never goes back a stage or starts anew, and its
  deadline only comes closer.  This is the safety half of `RecoveryEnds`; that its steps
  are taken is fairness, and stays with TLC.

`ExternalControl_proofs`, for all limits, commands, requests, readings and a queue of any
length:

* `TypeCorrect`: `TypeOK`, the types of the queued writes included, is inductive.
* `ExternalImplementsFix` from `FixInv`: a task that pauses has the flag up, one that
  watches has its latch open, whatever commands cancelled or re-armed meanwhile.
* `StopIsLanded`, `RegisterIsBounded`, `PauseIsHeld` from `QueueInv`, which says what the
  queue will leave in the register.  `AnchoredIn`: from some write in the queue on (or
  from the register itself) nothing carries more than evcc's intent, and that write
  is not the task's, so that a cancellation cannot remove it.  `HushedIn`: behind the
  pause's own 0 A, and after it, nothing but 0 A waits, because it was computed while the
  flag was up.  The lemmas follow the invariant through *append*, *serve the head* and *remove the
  task's write*, the only things that happen to the queue.

`Ownership_proofs`, for every set of RFID answers and number of strikes:

* `BaselineStaysOriginal` (working store) from the order of a poll: once a register
  is ours, the baseline in memory is on disk (`PollOrder`, `Untouched`, `Agreed`), so that
  after a crash the load finds it.
* `FailsafeIsArmed` from `ArmedInv`: past the write of a register either it is ours or
  the connection that refused it is gone, and the exit is the only one who undoes it.
* `ExitHandsBack` (working store) from `QuietInv`: during a quiet exit a register that
  is ours is still to be restored or never was read.
* `ProbeIsBounded`: the losses are the strikes.

`Coordinator_proofs`: `CoordinatorIsOwner` (every step of the composition is a step of
`Ownership` or leaves it alone) carries these over; `OnePhaseIsReported` rests on
`RestoreInv` (a wallbox on one phase is answered for by a restore past its first
write, or the last one failed).

The assumptions on the constants (`LimitsAssumption`, `ReadingsAssumption`,
`OptionsAssumption`, `TimesAssumption`, `FuseAssumption`, `LoadsAssumption`, `CurrentsAssumption`, `ChoicesAssumption`,
`OwnershipAssumption`, `RestoreAssumption`) are types,
positive minimum and delays, and `Settle <= Quiet`; TLC evaluates them in every run.

Only model-checked: the liveness properties `OffLands`, `RecoveryEnds`, `ChargingResumes`,
`PhaseLands` and `StopTakesEffect` (TLAPS as used here does not prove liveness under
fairness).  `HandsBack`, `BaselineOriginal`, `FuseHolds`, `SteadySetpoint` and
`SolarChargeLasts` are proved under the same options as they are checked
with; section 4 says why each of these options is needed.

## 6. Not modelled

* **In the built-in loop**: restoring the entities' state after a restart (it depends
  on the order in which Home Assistant adds entities), cancelling a recovery at an
  unload, the change of register 404 between polls, the 120 s smoothing.
* **Ownership**: the identity reads of a setup, the repair of the unique id, the
  repair issues and their counters; the charging current and phase setting of the
  baseline; the wallbox's own watchdog, which appears as a connection that may drop
  at any moment.
* **Web UI**: login, tokens and HTML parsing; the restart button and the lockable
  cable, which touch nothing the other parts read.
* **Event log, sensors, diagnostics**: read-only or write-only views.
* **Options flow, register map, unit parsing**: forms and encodings of single values;
  their ranges are the assumptions on the constants.
* **Simulator and tests**: test equipment, read as evidence of how a wallbox behaves.
