--------------------------- MODULE ChargeMath_proofs ---------------------------
(***************************************************************************)
(* What the operators of ChargeMath return, for every limit, reading and   *)
(* target: the facts the proofs of FuseGuard and InternalControl rest on,  *)
(* and what the choice of a phase count promises.                          *)
(***************************************************************************)
EXTENDS ChargeMath, TLAPS

LimitsSet == [min : Nat \ {0}, max : Nat \ {0}, cable : Nat]

\* The ceiling of a setpoint is a current and is not below the minimum
\* (effective_max, control.py:176).
LEMMA EffectiveMaxType ==
  ASSUME NEW limits \in LimitsSet
  PROVE  EffectiveMax(limits) \in Nat /\ limits.min <= EffectiveMax(limits)
BY DEF LimitsSet, EffectiveMax, Greater, Lesser

\* Python's int() floors what is not negative and never yields a positive
\* current for what is (finalize_a, control.py:330).
LEMMA TruncateBounds ==
  ASSUME NEW t \in Int
  PROVE  /\ Truncate(t) \in Int
         /\ t >= 0 => 10 * Truncate(t) <= t /\ t < 10 * (Truncate(t) + 1)
         /\ t < 0 => Truncate(t) <= 0
BY DEF Truncate

\* A setpoint is 0 A or lies between the minimum and the ceiling.
LEMMA FinalizeBounds ==
  ASSUME NEW target \in Int, NEW dlb \in [on : BOOLEAN, cap : Int],
         NEW limits \in LimitsSet, NEW enabled \in BOOLEAN, NEW connected \in BOOLEAN
  PROVE  LET setpoint == Finalize(target, dlb, limits, enabled, connected) IN
         setpoint = 0 \/ setpoint \in limits.min .. EffectiveMax(limits)
<1> DEFINE capped == IF dlb.on THEN Lesser(target, dlb.cap) ELSE target
           bounded == Lesser(capped, Tenths(EffectiveMax(limits)))
           whole == Truncate(bounded)
<1>1. EffectiveMax(limits) \in Nat /\ limits.min \in Nat \ {0}
  BY EffectiveMaxType DEF LimitsSet
<1>2. bounded \in Int /\ bounded <= 10 * EffectiveMax(limits)
  BY <1>1 DEF Lesser, Tenths
<1>3. /\ whole \in Int
      /\ bounded >= 0 => 10 * whole <= bounded
      /\ bounded < 0 => whole <= 0
  <2> HIDE DEF bounded
  <2> QED BY <1>2, TruncateBounds
<1>4. whole \in Int /\ whole <= EffectiveMax(limits)
  <2> HIDE DEF whole, bounded
  <2> QED BY <1>1, <1>2, <1>3
<1>5. Finalize(target, dlb, limits, enabled, connected)
        = IF ~enabled \/ ~connected \/ whole < limits.min THEN 0 ELSE whole
  BY DEF Finalize
<1> HIDE DEF whole
<1> QED BY <1>1, <1>4, <1>5

\* A setpoint never exceeds the load balancer's ceiling: rounding to whole amps
\* goes down, also just above the ceiling and for a negative one.
THEOREM FinalizeUnderCap ==
  ASSUME NEW target \in Int, NEW dlb \in [on : BOOLEAN, cap : Int],
         NEW limits \in LimitsSet, NEW enabled \in BOOLEAN, NEW connected \in BOOLEAN,
         dlb.on
  PROVE  LET setpoint == Finalize(target, dlb, limits, enabled, connected) IN
         setpoint = 0 \/ Tenths(setpoint) <= dlb.cap
<1> DEFINE bounded == Lesser(Lesser(target, dlb.cap), Tenths(EffectiveMax(limits)))
           whole == Truncate(bounded)
<1>1. EffectiveMax(limits) \in Nat /\ limits.min \in Nat \ {0} /\ dlb.cap \in Int
  BY EffectiveMaxType DEF LimitsSet
<1>2. bounded \in Int /\ bounded <= dlb.cap
  BY <1>1 DEF Lesser, Tenths
<1>3. /\ whole \in Int
      /\ bounded >= 0 => 10 * whole <= bounded
      /\ bounded < 0 => whole <= 0
  <2> HIDE DEF bounded
  <2> QED BY <1>2, TruncateBounds
<1>4. Finalize(target, dlb, limits, enabled, connected)
        = IF ~enabled \/ ~connected \/ whole < limits.min THEN 0 ELSE whole
  BY DEF Finalize
<1>5. whole >= limits.min => 10 * whole <= dlb.cap
  <2> HIDE DEF whole, bounded
  <2> QED BY <1>1, <1>2, <1>3
<1> HIDE DEF whole, bounded
<1> QED BY <1>1, <1>3, <1>4, <1>5 DEF Tenths

\* What a mode wants is a whole number of tenths of an ampere.
LEMMA ModeTargetType ==
  ASSUME NEW mode \in Modes, NEW manual \in Int, NEW surplus \in [valid : BOOLEAN, watts : Int],
         NEW phases \in Int, NEW voltage \in Int, NEW limits \in LimitsSet
  PROVE  ModeTarget(mode, manual, surplus, phases, voltage, limits) \in Int
<1>1. EffectiveMax(limits) \in Int /\ limits.min \in Int
  BY EffectiveMaxType DEF LimitsSet
<1>2. CurrentFromPower(surplus.watts, phases, voltage) \in Int
  <2>1. CASE phases <= 0 \/ voltage <= 0
    BY <2>1 DEF CurrentFromPower
  <2>2. CASE phases > 0 /\ voltage > 0
    <3>1. phases * voltage \in Int /\ phases * voltage > 0
      BY <2>2
    <3>2. CurrentFromPower(surplus.watts, phases, voltage)
            = (10 * surplus.watts) \div (phases * voltage)
      BY <2>2 DEF CurrentFromPower, Tenths
    <3> QED BY <3>1, <3>2
  <2> QED BY <2>1, <2>2
<1>3. SolarTarget(mode, surplus, phases, voltage, limits) \in Int
  BY <1>1, <1>2 DEF SolarTarget, Tenths, Lesser, Greater
<1>4. CASE mode = Fast
  <2>1. ModeTarget(mode, manual, surplus, phases, voltage, limits)
          = Tenths(EffectiveMax(limits))
    BY <1>4 DEF ModeTarget, SolarModes, Fast, Manual, Solar, MinSolar
  <2> QED BY <1>1, <2>1 DEF Tenths
<1>5. CASE mode = Manual
  <2>1. ModeTarget(mode, manual, surplus, phases, voltage, limits)
          = Tenths(Greater(limits.min, Lesser(manual, EffectiveMax(limits))))
    BY <1>5 DEF ModeTarget, SolarModes, Fast, Manual, Solar, MinSolar
  <2> QED BY <1>1, <2>1 DEF Tenths, Lesser, Greater
<1>6. CASE mode \in SolarModes
  BY <1>3, <1>6 DEF ModeTarget, SolarModes, Fast, Manual, Solar, MinSolar
<1> QED BY <1>4, <1>5, <1>6 DEF Modes, SolarModes

\* The load balancer's ceiling is the room of one of the phases and no phase
\* has less (dlb_cap_a, control.py:274); a wallbox has at most three.
LEMMA DlbCapIsLeastRoom ==
  ASSUME NEW S \in SUBSET (1 .. 3), S # {},
         NEW grid \in [S -> Int], NEW charger \in [S -> Int],
         NEW fuse \in Int, NEW margin \in Int
  PROVE  /\ DlbCap(fuse, margin, grid, charger) \in Int
         /\ \E p \in S : DlbCap(fuse, margin, grid, charger)
                           = PhaseRoom(fuse, margin, grid[p], charger[p])
         /\ \A p \in S : DlbCap(fuse, margin, grid, charger)
                           <= PhaseRoom(fuse, margin, grid[p], charger[p])
<1> DEFINE room(p) == PhaseRoom(fuse, margin, grid[p], charger[p])
           rooms == {room(p) : p \in S}
<1>1. \A p \in S : room(p) \in Int
  BY DEF PhaseRoom
<1>2. \E q \in S : \A p \in S : room(q) <= room(p)
  <2>1. PICK r \in [S -> Int] : \A p \in S : r[p] = room(p)
    <3>1. [p \in S |-> room(p)] \in [S -> Int]
      BY <1>1
    <3> QED BY <3>1
  <2> HIDE DEF room
  <2>2. \A p \in S : p \in {1, 2, 3}
    OBVIOUS
  <2>3. 1 \in S \/ 2 \in S \/ 3 \in S
    BY <2>2
  <2> DEFINE AtMost(q, p) == p \in S => r[q] <= r[p]
  <2>4. \A p \in S : r[p] \in Int
    OBVIOUS
  <2>5. \/ 1 \in S /\ AtMost(1, 2) /\ AtMost(1, 3)
        \/ 2 \in S /\ AtMost(2, 1) /\ AtMost(2, 3)
        \/ 3 \in S /\ AtMost(3, 1) /\ AtMost(3, 2)
    BY <2>3, <2>4
  <2>6. \E q \in S : \A p \in S : r[q] <= r[p]
    BY <2>2, <2>4, <2>5
  <2> QED BY <2>1, <2>6
<1>3. \E cap \in rooms : \A p \in S : cap <= room(p)
  BY <1>2
<1>4. DOMAIN grid = S
  OBVIOUS
<1>5. DlbCap(fuse, margin, grid, charger) = CHOOSE cap \in rooms : \A p \in S : cap <= room(p)
  BY <1>4 DEF DlbCap
<1>6. /\ DlbCap(fuse, margin, grid, charger) \in rooms
      /\ \A p \in S : DlbCap(fuse, margin, grid, charger) <= room(p)
  <2> HIDE DEF rooms, room
  <2> QED BY <1>3, <1>5
<1> QED BY <1>1, <1>6

\* The ceiling depends on the rooms alone, not on how grid and charger share
\* the current they measure.
LEMMA DlbCapOfEqualRooms ==
  ASSUME NEW S \in SUBSET (1 .. 3), S # {},
         NEW grid \in [S -> Int], NEW charger \in [S -> Int],
         NEW grid2 \in [S -> Int], NEW charger2 \in [S -> Int],
         NEW fuse \in Int, NEW margin \in Int,
         \A p \in S : PhaseRoom(fuse, margin, grid[p], charger[p])
                       = PhaseRoom(fuse, margin, grid2[p], charger2[p])
  PROVE  DlbCap(fuse, margin, grid, charger) = DlbCap(fuse, margin, grid2, charger2)
<1> DEFINE cap == DlbCap(fuse, margin, grid, charger)
           cap2 == DlbCap(fuse, margin, grid2, charger2)
           room(p) == PhaseRoom(fuse, margin, grid[p], charger[p])
<1>1. cap \in Int /\ (\E p \in S : cap = room(p)) /\ \A p \in S : cap <= room(p)
  BY DlbCapIsLeastRoom
<1>2. cap2 \in Int /\ (\E p \in S : cap2 = room(p)) /\ \A p \in S : cap2 <= room(p)
  BY DlbCapIsLeastRoom
<1> HIDE DEF cap, cap2, room
<1>3. cap <= cap2 /\ cap2 <= cap
  BY <1>1, <1>2
<1>4. cap = cap2
  BY <1>1, <1>2, <1>3
<1> QED BY <1>4 DEF cap, cap2

\* The heartbeat is refreshed at least twice per failsafe timeout, however slow
\* the configured poll, for every timeout the floor of 3 s leaves room in
\* (effective_poll_interval, control.py:183).
THEOREM HeartbeatTwicePerTimeout ==
  ASSUME NEW poll \in Nat, NEW timeout \in Nat, timeout >= 6
  PROVE  2 * EffectivePollInterval(poll, timeout) <= timeout
BY DEF EffectivePollInterval, Lesser, Greater
-----------------------------------------------------------------------------
\* What desired_phases promises (control.py:287).  Watts, volts and amps are any
\* integers here; Upshift is the surplus that three phases need at the minimum.
Upshift(voltage, min) == min * 3 * voltage

LEMMA UpshiftType ==
  ASSUME NEW voltage \in Int, NEW min \in Int
  PROVE  Upshift(voltage, min) \in Int
BY DEF Upshift

LEMMA PhaseChoice ==
  ASSUME NEW watts \in Int, NEW voltage \in Int, NEW min \in Int
  PROVE  /\ DesiredPhases(watts, voltage, min, 1)
              = IF watts >= Upshift(voltage, min) THEN 3 ELSE 1
         /\ DesiredPhases(watts, voltage, min, 3)
              = IF 10 * watts < 9 * Upshift(voltage, min) THEN 1 ELSE 3
BY DEF DesiredPhases, Upshift

\* A choice stands: the same surplus seen with the phases it chose chooses them
\* again ("no flapping in the hysteresis band", tests/test_control.py:220).
THEOREM PhaseChoiceIsSteady ==
  ASSUME NEW watts \in Int, NEW voltage \in Nat, NEW min \in Nat, NEW current \in {1, 3}
  PROVE  LET chosen == DesiredPhases(watts, voltage, min, current)
         IN DesiredPhases(watts, voltage, min, chosen) = chosen
<1> DEFINE threshold == Upshift(voltage, min)
<1>1. threshold \in Nat
  <2>1. min * 3 \in Nat
    OBVIOUS
  <2> QED BY <2>1 DEF Upshift
<1>2. /\ DesiredPhases(watts, voltage, min, 1) = IF watts >= threshold THEN 3 ELSE 1
      /\ DesiredPhases(watts, voltage, min, 3) = IF 10 * watts < 9 * threshold THEN 1 ELSE 3
  BY PhaseChoice
<1> HIDE DEF threshold
<1>3. watts >= threshold => ~(10 * watts < 9 * threshold)
  BY <1>1
<1> QED BY <1>2, <1>3

\* Between an upshift and the downshift after it the surplus has fallen by more
\* than a tenth of what three phases need.
THEOREM HysteresisWidth ==
  ASSUME NEW before \in Int, NEW after \in Int, NEW voltage \in Int, NEW min \in Int,
         DesiredPhases(before, voltage, min, 1) = 3,
         DesiredPhases(after, voltage, min, 3) = 1
  PROVE  10 * (before - after) > Upshift(voltage, min)
<1> DEFINE threshold == Upshift(voltage, min)
<1>1. threshold \in Int
  BY UpshiftType
<1>2. before >= threshold
  <2>1. DesiredPhases(before, voltage, min, 1) = IF before >= threshold THEN 3 ELSE 1
    BY PhaseChoice
  <2> QED BY <2>1
<1>3. 10 * after < 9 * threshold
  <2>1. DesiredPhases(after, voltage, min, 3) = IF 10 * after < 9 * threshold THEN 1 ELSE 3
    BY PhaseChoice
  <2> QED BY <2>1
<1> HIDE DEF threshold
<1>4. 10 * (before - after) > threshold
  BY <1>1, <1>2, <1>3
<1> QED BY <1>4 DEF threshold

\* Rounding down keeps a whole multiple of the divisor.
LEMMA QuotientAtLeast ==
  ASSUME NEW a \in Int, NEW d \in Nat \ {0}, NEW k \in Int, d * k <= a
  PROVE  k <= a \div d
<1> DEFINE q == a \div d
<1>1. q \in Int /\ a < d * q + d
  OBVIOUS
<1> HIDE DEF q
<1>2. SUFFICES ASSUME q + 1 <= k PROVE FALSE
  BY <1>1 DEF q
<1>3. d * (q + 1) <= d * k
  BY <1>1, <1>2
<1>4. d * (q + 1) = d * q + d
  BY <1>1
<1> QED BY <1>1, <1>3, <1>4

\* "otherwise 3p cannot even start" (control.py:298): a surplus that shifts up
\* gives three phases at least the minimum the shift was asked for, so pure
\* solar charges on them unless the charger's own minimum is higher than that.
THEOREM UpshiftCanStart ==
  ASSUME NEW watts \in Int, NEW voltage \in Nat \ {0}, NEW min \in Nat,
         NEW limits \in LimitsSet, limits.min <= min,
         DesiredPhases(watts, voltage, min, 1) = 3
  PROVE  LET surplus == [valid |-> TRUE, watts |-> watts]
         IN /\ CurrentFromPower(watts, 3, voltage) >= Tenths(min)
            /\ SolarTarget(Solar, surplus, 3, voltage, limits) >= Tenths(limits.min)
<1>1. watts >= Upshift(voltage, min)
  BY PhaseChoice
<1>2. 3 * voltage \in Nat \ {0} /\ 10 * watts \in Int /\ 10 * min \in Int
  OBVIOUS
<1>3. (3 * voltage) * (10 * min) = 10 * Upshift(voltage, min)
  BY DEF Upshift
<1>4. (3 * voltage) * (10 * min) <= 10 * watts
  <2>1. \A u \in Int : watts >= u => 10 * u <= 10 * watts
    OBVIOUS
  <2>2. 10 * Upshift(voltage, min) <= 10 * watts
    BY <1>1, <2>1, UpshiftType
  <2> QED BY <1>3, <2>2
<1>5. 10 * min <= (10 * watts) \div (3 * voltage)
  BY <1>2, <1>4, QuotientAtLeast
<1>6. CurrentFromPower(watts, 3, voltage) = (10 * watts) \div (3 * voltage)
  BY DEF CurrentFromPower, Tenths
<1>7. CurrentFromPower(watts, 3, voltage) >= Tenths(min)
  BY <1>5, <1>6 DEF Tenths
<1>8. CurrentFromPower(watts, 3, voltage) \in Int
  BY <1>2, <1>6
<1>9. /\ limits.min \in Nat /\ EffectiveMax(limits) \in Nat
      /\ limits.min <= EffectiveMax(limits)
  BY EffectiveMaxType DEF LimitsSet
<1> QED BY <1>7, <1>8, <1>9 DEF SolarTarget, Tenths, Lesser, Solar, MinSolar

\* That proviso is needed: the shift is decided with the option solar_min_current
\* and the pause with min_current (controller.py:558), and wherever the first is
\* the lower one, some surplus shifts up to three phases and pauses there.
THEOREM UpshiftMayPause ==
  ASSUME NEW voltage \in Nat \ {0}, NEW min \in Nat \ {0},
         NEW limits \in LimitsSet, min < limits.min
  PROVE  \E watts \in Nat :
           /\ DesiredPhases(watts, voltage, min, 1) = 3
           /\ SolarTarget(Solar, [valid |-> TRUE, watts |-> watts], 3, voltage, limits) = 0
<1> DEFINE watts == Upshift(voltage, min)
<1>1. watts \in Nat
  <2>1. min * 3 \in Nat
    OBVIOUS
  <2> QED BY <2>1 DEF Upshift
<1>2. DesiredPhases(watts, voltage, min, 1) = 3
  <2>1. DesiredPhases(watts, voltage, min, 1) = IF watts >= Upshift(voltage, min) THEN 3 ELSE 1
    BY <1>1, PhaseChoice
  <2> QED BY <1>1, <2>1
<1>3. CurrentFromPower(watts, 3, voltage) = (10 * watts) \div (3 * voltage)
  BY DEF CurrentFromPower, Tenths
<1>4. (10 * watts) \div (3 * voltage) < 10 * limits.min
  <2> DEFINE d == 3 * voltage
             q == (10 * watts) \div d
  <2>1. d \in Nat \ {0} /\ 10 * watts \in Int /\ limits.min \in Nat
    BY <1>1 DEF LimitsSet
  <2>2. 10 * watts = d * (10 * min)
    BY DEF Upshift
  <2> HIDE DEF d, watts
  <2>3. q \in Int /\ d * q <= 10 * watts
    BY <2>1
  <2> HIDE DEF q
  <2>4. SUFFICES ASSUME 10 * min + 1 <= q PROVE FALSE
    BY <2>1, <2>3 DEF q, d
  <2>5. d * (10 * min + 1) <= d * q
    BY <2>1, <2>3, <2>4
  <2>6. d * (10 * min + 1) = d * (10 * min) + d
    BY <2>1
  <2> QED BY <2>1, <2>2, <2>3, <2>5, <2>6
<1>5. limits.min \in Nat /\ (10 * watts) \div (3 * voltage) \in Int
  BY <1>1 DEF LimitsSet
<1> HIDE DEF watts
<1>6. SolarTarget(Solar, [valid |-> TRUE, watts |-> watts], 3, voltage, limits) = 0
  BY <1>3, <1>4, <1>5 DEF SolarTarget, Tenths, Solar, MinSolar
<1> QED BY <1>1, <1>2, <1>6
=============================================================================
