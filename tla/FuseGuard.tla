------------------------------ MODULE FuseGuard ------------------------------
(***************************************************************************)
(* The load balancer as a closed loop: _dlb_cap of controller.py turns the *)
(* grid meter's readings and the charger's own draw into a ceiling, the    *)
(* setpoint under that ceiling changes what the car draws, and that draw   *)
(* changes what the meter reads next.  Currents are in tenths of an        *)
(* ampere, per phase, except the setpoint, which is in whole amps.         *)
(*                                                                         *)
(* The mode is fast, so that the ceiling alone decides; InternalControl    *)
(* has the modes, the cache and the hold that may override the ceiling.    *)
(***************************************************************************)
EXTENDS ChargeMath, FiniteSets

CONSTANTS
  Sensed,       \* the phases with a grid-current sensor: dlb_l1, dlb_l2, dlb_l3
  Fuse, Margin, \* options main_fuse and dlb_margin
  Limits,       \* as in ChargeMath
  HouseLoads,   \* what the house may draw on a phase; negative when it exports
  Glitches,     \* what a broken sensor may report
  MeterMayLag   \* TRUE: the last report may be older than the house's and the car's
                \* present draw; the code takes one that is up to 300 s old

Lines == 1 .. 3
PlausibleMax == Greater(1000, 2 * Fuse)
Plausible(amps) == -PlausibleMax <= amps /\ amps <= PlausibleMax
Amps == 0 .. EffectiveMax(Limits)

ASSUME FuseAssumption ==
  /\ Sensed \subseteq Lines
  /\ Fuse \in Nat /\ Margin \in Nat
  /\ Limits \in [min : Nat \ {0}, max : Nat \ {0}, cable : Nat]
ASSUME LoadsAssumption ==
  /\ HouseLoads \subseteq Int /\ HouseLoads # {}
  /\ Glitches \subseteq Int /\ \A g \in Glitches : ~Plausible(g)
  /\ MeterMayLag \in BOOLEAN

VARIABLES
  house,       \* the house's own draw on each phase
  draw,        \* the car's draw on each phase, registers current_l1..l3
  meter,       \* what the grid sensors report
  usable,      \* the sensors that are available and not stale
  setCurrent,  \* register 5004
  calm,        \* history: "no" when what the sensors tell changed since the last
               \* poll, else "polled", or "followed" once the car has reacted
  reported     \* history: the house load behind each sensor's last proper report

vars == <<house, draw, meter, usable, setCurrent, calm, reported>>

Calm == {"no", "polled", "followed"}

\* The grid sensors' reports for house loads h and the car's draw d.
GridReading(h, d) == [p \in Sensed |-> h[p] + d[p]]

\* The sensors see the new loads; one that reports nonsense goes on with it
\* until its next proper report.
MeterFollows ==
  /\ meter' = [p \in Sensed |-> IF Plausible(meter[p])
                                THEN GridReading(house', draw')[p] ELSE meter[p]]
  /\ reported' = [p \in Sensed |-> IF Plausible(meter[p]) THEN house'[p] ELSE reported[p]]
-----------------------------------------------------------------------------
\* Every configured sensor must give a usable, plausible reading, and there
\* must be one.
Trusted == Sensed # {} /\ Sensed \subseteq usable /\ \A p \in Sensed : Plausible(meter[p])

\* _dlb_cap: the room on the tightest phase, or 0 A when the meter is no help.
Cap == IF Trusted THEN DlbCap(Fuse, Margin, meter, [p \in Sensed |-> draw[p]]) ELSE 0

Poll ==
  /\ setCurrent' = Finalize(Tenths(EffectiveMax(Limits)), [on |-> TRUE, cap |-> Cap],
                            Limits, TRUE, TRUE)
  /\ calm' = "polled"
  /\ UNCHANGED <<house, draw, meter, usable, reported>>

\* The car draws up to the setpoint, on one phase or on all of them.
CarFollows ==
  /\ \E d \in {0, Tenths(setCurrent)}, used \in {{1}, Lines} :
       draw' = [p \in Lines |-> IF p \in used THEN d ELSE 0]
  /\ calm' = IF calm = "no" THEN "no" ELSE "followed"
  /\ UNCHANGED <<house, usable, setCurrent>>
  /\ IF MeterMayLag THEN UNCHANGED <<meter, reported>> ELSE MeterFollows

\* A change that a lagging meter does not report yet changes nothing a poll reads.
HouseChanges ==
  /\ \E p \in Lines, load \in HouseLoads : house' = [house EXCEPT ![p] = load]
  /\ UNCHANGED <<draw, usable, setCurrent>>
  /\ IF MeterMayLag THEN UNCHANGED <<meter, reported, calm>>
     ELSE MeterFollows /\ calm' = "no"

\* A sensor reports; they report each in its own time.
MeterReports ==
  /\ \E p \in Sensed : /\ meter' = [meter EXCEPT ![p] = GridReading(house, draw)[p]]
                       /\ reported' = [reported EXCEPT ![p] = house[p]]
  /\ calm' = "no"
  /\ UNCHANGED <<house, draw, usable, setCurrent>>

\* A sensor starts to report nonsense.
SensorGlitches ==
  /\ \E p \in Sensed, g \in Glitches : meter' = [meter EXCEPT ![p] = g]
  /\ calm' = "no"
  /\ UNCHANGED <<house, draw, usable, setCurrent, reported>>

\* A sensor becomes unavailable or stale, or comes back.
SensorsChange ==
  /\ usable' \in SUBSET Sensed
  /\ calm' = "no"
  /\ UNCHANGED <<house, draw, meter, setCurrent, reported>>

Init ==
  /\ house \in [Lines -> HouseLoads]
  /\ draw = [p \in Lines |-> 0]
  /\ meter = GridReading(house, draw)
  /\ usable = Sensed
  /\ setCurrent = 0
  /\ calm = "no"
  /\ reported = [p \in Sensed |-> house[p]]

Next == Poll \/ CarFollows \/ HouseChanges \/ MeterReports \/ SensorGlitches \/ SensorsChange

Spec == Init /\ [][Next]_vars
-----------------------------------------------------------------------------
\* Every variable has its type; the setpoint stays within the limits.
TypeOK ==
  /\ house \in [Lines -> Int] /\ draw \in [Lines -> Nat] /\ meter \in [Sensed -> Int]
  /\ usable \subseteq Sensed /\ setCurrent \in Amps /\ calm \in Calm
  /\ reported \in [Sensed -> Int]

\* "caps charging per phase so you never exceed the main fuse" (README.md:36):
\* once the car has reacted to a poll and as long as the house draws what it
\* drew then, no sensed phase on which the car draws exceeds the fuse.
FuseHolds ==
  calm = "followed" =>
    \A p \in Sensed : draw[p] > 0 => house[p] + draw[p] <= Fuse - Margin

\* "accounting for the charger's own draw" (README.md:37): the loop does not
\* chase its own tail: with the same house load and the same sensors a poll
\* computes the same setpoint, whatever the car has done with the last one.
SteadySetpoint == [][ calm # "no" => setCurrent' = setCurrent ]_setCurrent
=============================================================================
