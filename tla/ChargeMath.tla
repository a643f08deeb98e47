----------------------------- MODULE ChargeMath -----------------------------
(***************************************************************************)
(* The arithmetic of control.py: what current a charge mode wants, what    *)
(* the load balancer leaves over, and the whole-amp setpoint the two give. *)
(*                                                                         *)
(* The Python code computes in floats and floors once, in finalize_a.      *)
(* Here a current that is not yet a setpoint is an integer number of       *)
(* tenths of an ampere; flooring to tenths first changes neither the       *)
(* comparison with a whole-amp bound nor the final floor to whole amps.    *)
(* Power is in whole watts and voltage in whole volts.                     *)
(***************************************************************************)
EXTENDS Integers

Fast == "fast"
Manual == "manual"
Solar == "solar"
MinSolar == "min_solar"
Modes == {Fast, Manual, Solar, MinSolar}
SolarModes == {Solar, MinSolar}

Tenths(amps) == 10 * amps

Lesser(a, b) == IF a <= b THEN a ELSE b
Greater(a, b) == IF a >= b THEN a ELSE b

\* Python's int(): towards zero, so that a negative cap becomes 0 or less.
Truncate(tenths) == IF tenths >= 0 THEN tenths \div 10 ELSE -((-tenths) \div 10)

-----------------------------------------------------------------------------
\* A limits record is [min, max, cable], whole amps; cable = 0: rating unknown.
EffectiveMax(limits) ==
  Greater(limits.min,
          IF limits.cable # 0 THEN Lesser(limits.max, limits.cable) ELSE limits.max)

EffectivePollInterval(poll, timeout) == Lesser(poll, Greater(3, timeout \div 2))

CurrentFromPower(watts, phases, voltage) ==
  IF phases <= 0 \/ voltage <= 0 THEN 0 ELSE Tenths(watts) \div (phases * voltage)

\* A surplus record is [valid, watts]: valid is FALSE when a meter is missing.
SolarTarget(mode, surplus, phases, voltage, limits) ==
  LET raw == CurrentFromPower(surplus.watts, phases, voltage)
      ceiling == Tenths(EffectiveMax(limits))
      floor == Tenths(limits.min)
  IN CASE ~surplus.valid -> IF mode = MinSolar THEN floor ELSE 0
       [] surplus.valid /\ mode = MinSolar -> Lesser(Greater(floor, raw), ceiling)
       [] surplus.valid /\ mode # MinSolar ->
            IF raw < floor THEN 0 ELSE Lesser(raw, ceiling)

ModeTarget(mode, manual, surplus, phases, voltage, limits) ==
  CASE mode = Fast -> Tenths(EffectiveMax(limits))
    [] mode = Manual ->
         Tenths(Greater(limits.min, Lesser(manual, EffectiveMax(limits))))
    [] mode \in SolarModes -> SolarTarget(mode, surplus, phases, voltage, limits)

\* Faulty variant: the charger's own draw counts as the house's.
PhaseRoomOfGrid(fuse, margin, grid, charger) == fuse - margin - grid

\* The room for the car on one phase: the house's draw is grid minus charger.
PhaseRoom(fuse, margin, grid, charger) == fuse - margin - (grid - charger)

\* The lowest room over the phases that have a sensor (grid's domain).
DlbCap(fuse, margin, grid, charger) ==
  CHOOSE cap \in {PhaseRoom(fuse, margin, grid[p], charger[p]) : p \in DOMAIN grid} :
    \A p \in DOMAIN grid : cap <= PhaseRoom(fuse, margin, grid[p], charger[p])

\* 1 or 3 phases for a surplus; the downshift threshold is 0.9 of the upshift's.
DesiredPhases(watts, voltage, min, current) ==
  LET threePhaseMin == min * 3 * voltage IN
  IF current <= 1
  THEN IF watts >= threePhaseMin THEN 3 ELSE 1
  ELSE IF 10 * watts < 9 * threePhaseMin THEN 1 ELSE 3

\* Faulty variants: the ceiling is ignored; too little room is not a pause.
FinalizeUncapped(target, dlb, limits, enabled, connected) ==
  LET whole == Truncate(Lesser(target, Tenths(EffectiveMax(limits))))
  IN IF ~enabled \/ ~connected \/ whole < limits.min THEN 0 ELSE whole
FinalizeUnpaused(target, dlb, limits, enabled, connected) ==
  LET capped == IF dlb.on THEN Lesser(target, dlb.cap) ELSE target
  IN IF ~enabled \/ ~connected THEN 0
     ELSE Truncate(Lesser(capped, Tenths(EffectiveMax(limits))))

\* A dlb record is [on, cap], cap in tenths; on is FALSE without load balancing.
Finalize(target, dlb, limits, enabled, connected) ==
  LET capped == IF dlb.on THEN Lesser(target, dlb.cap) ELSE target
      whole == Truncate(Lesser(capped, Tenths(EffectiveMax(limits))))
  IN IF ~enabled \/ ~connected \/ whole < limits.min THEN 0 ELSE whole
=============================================================================
