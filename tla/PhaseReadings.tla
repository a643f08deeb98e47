--------------------------- MODULE PhaseReadings ---------------------------
(***************************************************************************)
(* What a snapshot of the wallbox says about the phases the car uses.  A   *)
(* snapshot is a record with a field draw: what the car is measured to     *)
(* draw, classified by the two thresholds of const.py.                     *)
(***************************************************************************)
EXTENDS Integers

None == -1           \* Python's None for a number
Phases == {1, 3}
Draws == {"none", "one", "three", "unclear"}

MeasuredSinglePhase(d) == d.draw = "one"
MeasuredThreePhase(d) == d.draw = "three"

\* The car has gone where a fix in this direction wants it, or has not.
WentAlong(direction, d) ==
  IF direction = "down" THEN MeasuredSinglePhase(d) ELSE MeasuredThreePhase(d)
StayedBehind(direction, d) ==
  IF direction = "down" THEN MeasuredThreePhase(d) ELSE MeasuredSinglePhase(d)
=============================================================================
