--------------------------- MODULE FuseGuard_proofs ---------------------------
(***************************************************************************)
(* The fuse guard for every fuse, margin, house load and set of sensors.   *)
(* The type invariant holds whatever the meter does; that the fuse holds   *)
(* and that the setpoint is steady needs a meter whose report and the      *)
(* car's draw are of the same moment (MeterMayLag = FALSE).  With reports  *)
(* of any age the overload is what the house added since the report and    *)
(* one maximum current of the car at the most (OverloadBounded).           *)
(*                                                                         *)
(* FuseHolds is not inductive: a poll must be known to have left a         *)
(* setpoint that fits beside the house load, which holds because a sensor  *)
(* with a plausible reading reports house plus car (Accurate).             *)
(***************************************************************************)
EXTENDS FuseGuard, ChargeMath_proofs

\* A sensor either reports what its phase draws or reports nonsense.
Accurate ==
  \A p \in Sensed : Plausible(meter[p]) => meter[p] = house[p] + draw[p]

\* A setpoint on every sensed phase beside the house.
Fits(amps) == \A p \in Sensed : house[p] + Tenths(amps) <= Fuse - Margin

\* The setpoint a poll would compute now.
SetpointNow ==
  Finalize(Tenths(EffectiveMax(Limits)), [on |-> TRUE, cap |-> Cap], Limits, TRUE, TRUE)

\* No house load is so large that a sensor that reports it beside a charging
\* car would be taken for broken.
LoadsPlausible ==
  \A load \in HouseLoads :
    \A d \in 0 .. Tenths(EffectiveMax(Limits)) : Plausible(load + d)

IInv ==
  /\ TypeOK
  /\ Accurate
  /\ calm # "no" => setCurrent = 0 \/ Fits(setCurrent)
  /\ calm = "followed" => \A p \in Lines : draw[p] <= Tenths(setCurrent)

SteadyInv ==
  /\ TypeOK
  /\ Accurate
  /\ house \in [Lines -> HouseLoads]
  /\ \A p \in Lines : draw[p] <= Tenths(EffectiveMax(Limits))
  /\ calm # "no" => setCurrent = SetpointNow
-----------------------------------------------------------------------------
LEMMA LimitsFacts == Limits \in LimitsSet
BY FuseAssumption DEF LimitsSet

\* The ceiling is an integer, whatever the sensors say.
LEMMA CapType == TypeOK => Cap \in Int
<1> SUFFICES ASSUME TypeOK PROVE Cap \in Int
  OBVIOUS
<1>1. CASE ~Trusted
  BY <1>1 DEF Cap
<1>2. CASE Trusted
  <2>1. Sensed \in SUBSET (1 .. 3) /\ Sensed # {}
    BY <1>2, FuseAssumption DEF Trusted, Lines
  <2>2. meter \in [Sensed -> Int] /\ [p \in Sensed |-> draw[p]] \in [Sensed -> Int]
    BY FuseAssumption DEF TypeOK
  <2>3. Fuse \in Int /\ Margin \in Int
    BY FuseAssumption
  <2>4. DlbCap(Fuse, Margin, meter, [p \in Sensed |-> draw[p]]) \in Int
    BY <2>1, <2>2, <2>3, DlbCapIsLeastRoom
  <2> QED BY <1>2, <2>4 DEF Cap
<1> QED BY <1>1, <1>2

\* A poll's setpoint is within the limits and under the ceiling.
LEMMA PollSetpoint ==
  ASSUME TypeOK, Poll
  PROVE  /\ setCurrent' \in Amps
         /\ setCurrent' = 0 \/ (setCurrent' >= 1 /\ Tenths(setCurrent') <= Cap)
<1> DEFINE dlb == [on |-> TRUE, cap |-> Cap]
           target == Tenths(EffectiveMax(Limits))
<1>1. dlb \in [on : BOOLEAN, cap : Int] /\ dlb.on /\ dlb.cap = Cap
  BY CapType
<1>2. target \in Int /\ EffectiveMax(Limits) \in Nat /\ Limits.min \in Nat \ {0}
  BY LimitsFacts, EffectiveMaxType DEF Tenths, LimitsSet
<1>3. setCurrent' = Finalize(target, dlb, Limits, TRUE, TRUE)
  BY DEF Poll
<1> HIDE DEF dlb, target
<1>4. setCurrent' = 0 \/ setCurrent' \in Limits.min .. EffectiveMax(Limits)
  BY <1>1, <1>2, <1>3, LimitsFacts, FinalizeBounds
<1>5. setCurrent' = 0 \/ Tenths(setCurrent') <= Cap
  BY <1>1, <1>2, <1>3, LimitsFacts, FinalizeUnderCap
<1> QED BY <1>2, <1>4, <1>5 DEF Amps

\* The room on a trusted phase is what the house leaves of the fuse.
LEMMA CapFits ==
  ASSUME TypeOK, Accurate, NEW amps \in Nat, amps >= 1, Tenths(amps) <= Cap
  PROVE  Fits(amps)
<1>1. Trusted
  BY DEF Cap, Tenths
<1>2. Sensed \in SUBSET (1 .. 3) /\ Sensed # {}
  BY <1>1, FuseAssumption DEF Trusted, Lines
<1> DEFINE charger == [p \in Sensed |-> draw[p]]
<1>3. meter \in [Sensed -> Int] /\ charger \in [Sensed -> Int] /\ Fuse \in Int /\ Margin \in Int
  BY FuseAssumption DEF TypeOK
<1>4. Cap = DlbCap(Fuse, Margin, meter, charger)
  BY <1>1 DEF Cap
<1>5. \A p \in Sensed : Cap <= PhaseRoom(Fuse, Margin, meter[p], charger[p])
  <2> HIDE DEF charger
  <2> QED BY <1>2, <1>3, <1>4, DlbCapIsLeastRoom
<1>6. \A p \in Sensed : PhaseRoom(Fuse, Margin, meter[p], charger[p]) = Fuse - Margin - house[p]
  BY <1>1, FuseAssumption DEF PhaseRoom, Trusted, Accurate, TypeOK
<1>7. Cap \in Int
  BY CapType
<1>8. \A p \in Sensed : house[p] \in Int
  BY FuseAssumption DEF TypeOK
<1> QED BY <1>3, <1>5, <1>6, <1>7, <1>8 DEF Fits, Tenths
-----------------------------------------------------------------------------
\* Register 5004 and every other variable stay within their types, whatever
\* the meter reports and whether or not it lags.
THEOREM TypeCorrect == Spec => []TypeOK
<1>1. Init => TypeOK
  <2> SUFFICES ASSUME Init PROVE TypeOK
    OBVIOUS
  <2>1. 0 \in Amps
    BY LimitsFacts, EffectiveMaxType DEF Amps
  <2>2. house \in [Lines -> Int]
    BY LoadsAssumption DEF Init
  <2> QED BY <2>1, <2>2, FuseAssumption DEF Init, TypeOK, GridReading, Calm, Lines
<1>2. TypeOK /\ [Next]_vars => TypeOK'
  <2> SUFFICES ASSUME TypeOK, [Next]_vars PROVE TypeOK'
    OBVIOUS
  <2>1. CASE Poll
    BY <2>1, PollSetpoint DEF TypeOK, Poll, Calm
  <2>2. CASE CarFollows
    <3>1. setCurrent \in Nat /\ house \in [Lines -> Int] /\ meter \in [Sensed -> Int]
      BY LimitsFacts, EffectiveMaxType DEF TypeOK, Amps
    <3>2. draw' \in [Lines -> Nat]
      BY <2>2, <3>1 DEF CarFollows, Tenths
    <3>3. meter' \in [Sensed -> Int] /\ reported' \in [Sensed -> Int]
      <4>1. CASE UNCHANGED <<meter, reported>>
        BY <3>1, <4>1 DEF TypeOK
      <4>2. CASE MeterFollows
        <5>1. house' = house
          BY <2>2 DEF CarFollows
        <5> QED BY <3>1, <3>2, <4>2, <5>1, FuseAssumption DEF MeterFollows, GridReading, TypeOK
      <4> QED BY <2>2, <4>1, <4>2 DEF CarFollows
    <3> QED BY <2>2, <3>2, <3>3 DEF TypeOK, CarFollows, Calm
  <2>3. CASE HouseChanges
    <3>1. house' \in [Lines -> Int] /\ draw' = draw
      BY <2>3, LoadsAssumption DEF HouseChanges, TypeOK
    <3>2. meter' \in [Sensed -> Int] /\ reported' \in [Sensed -> Int]
      <4>1. CASE UNCHANGED <<meter, reported>>
        BY <4>1 DEF TypeOK
      <4>2. CASE MeterFollows
        BY <3>1, <4>2, FuseAssumption DEF MeterFollows, GridReading, TypeOK
      <4> QED BY <2>3, <4>1, <4>2 DEF HouseChanges
    <3> QED BY <2>3, <3>1, <3>2 DEF TypeOK, HouseChanges, Calm
  <2>4. CASE MeterReports
    <3>1. \A p \in Sensed : GridReading(house, draw)[p] \in Int /\ house[p] \in Int
      BY FuseAssumption DEF GridReading, TypeOK
    <3>2. meter' \in [Sensed -> Int] /\ reported' \in [Sensed -> Int]
      BY <2>4, <3>1 DEF MeterReports, TypeOK
    <3> QED BY <2>4, <3>2 DEF TypeOK, MeterReports, Calm
  <2>5. CASE SensorGlitches
    BY <2>5, LoadsAssumption DEF TypeOK, SensorGlitches, Calm
  <2>6. CASE SensorsChange
    BY <2>6 DEF TypeOK, SensorsChange, Calm
  <2>7. CASE UNCHANGED vars
    BY <2>7 DEF TypeOK, vars
  <2> QED BY <2>1, <2>2, <2>3, <2>4, <2>5, <2>6, <2>7 DEF Next
<1> QED BY <1>1, <1>2, PTL DEF Spec
-----------------------------------------------------------------------------
\* A step of a meter that does not lag keeps its plausible reports accurate.
LEMMA AccurateKept ==
  ASSUME MeterMayLag = FALSE, TypeOK, Accurate, [Next]_vars
  PROVE  Accurate'
<1>1. CASE Poll
  BY <1>1 DEF Poll, Accurate, Plausible
<1>2. CASE CarFollows
  <2>1. house' = house /\ meter' = [p \in Sensed |-> IF Plausible(meter[p])
                                      THEN GridReading(house', draw')[p] ELSE meter[p]]
    BY <1>2 DEF CarFollows, MeterFollows
  <2> QED BY <2>1 DEF Accurate, GridReading, Plausible
<1>3. CASE HouseChanges
  <2>1. draw' = draw /\ meter' = [p \in Sensed |-> IF Plausible(meter[p])
                                    THEN GridReading(house', draw')[p] ELSE meter[p]]
    BY <1>3 DEF HouseChanges, MeterFollows
  <2> QED BY <2>1 DEF Accurate, GridReading, Plausible
<1>4. CASE MeterReports
  <2>1. PICK q \in Sensed : meter' = [meter EXCEPT ![q] = GridReading(house, draw)[q]]
    BY <1>4 DEF MeterReports
  <2>2. \A p \in Sensed : meter'[p] = IF p = q THEN house[p] + draw[p] ELSE meter[p]
    BY <2>1 DEF TypeOK, GridReading
  <2>3. house' = house /\ draw' = draw
    BY <1>4 DEF MeterReports
  <2> QED BY <2>2, <2>3 DEF Accurate, Plausible
<1>5. CASE SensorGlitches
  <2>1. PICK q \in Sensed, g \in Glitches : meter' = [meter EXCEPT ![q] = g]
    BY <1>5 DEF SensorGlitches
  <2>2. house' = house /\ draw' = draw /\ ~Plausible(g)
    BY <1>5, LoadsAssumption DEF SensorGlitches
  <2>3. \A p \in Sensed : meter'[p] = IF p = q THEN g ELSE meter[p]
    BY <2>1 DEF TypeOK
  <2> QED BY <2>2, <2>3 DEF Accurate, Plausible
<1>6. CASE SensorsChange
  BY <1>6 DEF SensorsChange, Accurate
<1>7. CASE UNCHANGED vars
  BY <1>7 DEF vars, Accurate
<1> QED BY <1>1, <1>2, <1>3, <1>4, <1>5, <1>6, <1>7 DEF Next

\* With a meter that does not lag, a car that has followed a poll keeps every
\* sensed phase it draws on within the fuse less the margin, for every house
\* load, fuse and set of sensors (FuseHolds).
THEOREM FuseHeld ==
  ASSUME MeterMayLag = FALSE
  PROVE  Spec => []FuseHolds
<1>1. Init => IInv
  <2>1. Init => TypeOK
    <3> SUFFICES ASSUME Init PROVE TypeOK
      OBVIOUS
    <3>1. 0 \in Amps
      BY LimitsFacts, EffectiveMaxType DEF Amps
    <3>2. house \in [Lines -> Int]
      BY LoadsAssumption DEF Init
    <3> QED BY <3>1, <3>2, FuseAssumption DEF Init, TypeOK, GridReading, Calm, Lines
  <2> QED BY <2>1 DEF Init, IInv, Accurate, GridReading
<1>2. IInv /\ TypeOK' /\ [Next]_vars => IInv'
  <2> SUFFICES ASSUME IInv, TypeOK', [Next]_vars PROVE IInv'
    OBVIOUS
  <2>1. Accurate'
    BY AccurateKept DEF IInv
  <2>2. CASE Poll
    <3>1. setCurrent' = 0 \/ Fits(setCurrent')
      <4>1. CASE setCurrent' = 0
        BY <4>1
      <4>2. CASE setCurrent' >= 1 /\ Tenths(setCurrent') <= Cap
        <5>1. setCurrent' \in Nat
          BY LimitsFacts, EffectiveMaxType DEF TypeOK, Amps
        <5> QED BY <4>2, <5>1, CapFits DEF IInv
      <4> QED BY <2>2, <4>1, <4>2, PollSetpoint DEF IInv
    <3>2. (setCurrent = 0 \/ Fits(setCurrent))'
      BY <2>2, <3>1 DEF Poll, Fits
    <3> QED BY <2>1, <2>2, <3>2 DEF Poll, IInv
  <2>3. CASE CarFollows
    <3>1. setCurrent \in Nat
      BY LimitsFacts, EffectiveMaxType DEF IInv, TypeOK, Amps
    <3>2. \A p \in Lines : draw'[p] <= Tenths(setCurrent)
      BY <2>3, <3>1 DEF CarFollows, Tenths
    <3>3. setCurrent' = setCurrent /\ house' = house /\ (calm' # "no" => calm # "no")
      BY <2>3 DEF CarFollows
    <3> QED BY <2>1, <3>2, <3>3 DEF IInv, Fits
  <2>4. CASE HouseChanges \/ MeterReports \/ SensorGlitches \/ SensorsChange
    <3>1. calm' = "no"
      BY <2>4 DEF HouseChanges, MeterReports, SensorGlitches, SensorsChange
    <3> QED BY <2>1, <3>1 DEF IInv
  <2>5. CASE UNCHANGED vars
    BY <2>1, <2>5 DEF IInv, vars, Fits
  <2> QED BY <2>2, <2>3, <2>4, <2>5 DEF Next
<1>3. IInv => FuseHolds
  <2> SUFFICES ASSUME IInv, calm = "followed", NEW p \in Sensed, draw[p] > 0
               PROVE  house[p] + draw[p] <= Fuse - Margin
    BY DEF FuseHolds
  <2>1. p \in Lines /\ house[p] \in Int /\ draw[p] \in Nat /\ setCurrent \in Nat
    BY FuseAssumption, LimitsFacts, EffectiveMaxType DEF IInv, TypeOK, Amps
  <2>2. draw[p] <= Tenths(setCurrent)
    BY <2>1 DEF IInv
  <2>3. setCurrent # 0
    BY <2>1, <2>2 DEF Tenths
  <2>4. house[p] + Tenths(setCurrent) <= Fuse - Margin
    BY <2>3 DEF IInv, Fits
  <2> QED BY <2>1, <2>2, <2>4, FuseAssumption DEF Tenths
<1> QED BY <1>1, <1>2, <1>3, TypeCorrect, PTL DEF Spec
-----------------------------------------------------------------------------
\* The car's reaction to a setpoint leaves the ceiling where it was.
LEMMA CapIgnoresOwnDraw ==
  ASSUME MeterMayLag = FALSE, LoadsPlausible, SteadyInv, TypeOK', Accurate', CarFollows,
         \A p \in Lines : draw'[p] <= Tenths(EffectiveMax(Limits))
  PROVE  Cap' = Cap
<1>1. house' = house /\ usable' = usable
  BY DEF CarFollows
<1>2. \A p \in Sensed : Plausible(meter[p]) => meter'[p] = house[p] + draw'[p]
  BY <1>1 DEF CarFollows, MeterFollows, GridReading
<1>3. \A p \in Sensed : ~Plausible(meter[p]) => meter'[p] = meter[p]
  BY DEF CarFollows, MeterFollows
<1>4. \A p \in Sensed : Plausible(house[p] + draw'[p])
  <2> SUFFICES ASSUME NEW p \in Sensed PROVE Plausible(house[p] + draw'[p])
    OBVIOUS
  <2>1. p \in Lines /\ house[p] \in HouseLoads /\ draw'[p] \in Nat
    BY FuseAssumption DEF SteadyInv, TypeOK
  <2>2. draw'[p] \in 0 .. Tenths(EffectiveMax(Limits))
    BY <2>1, LimitsFacts, EffectiveMaxType DEF Tenths
  <2> QED BY <2>1, <2>2 DEF LoadsPlausible
<1>5. \A p \in Sensed : Plausible(meter[p]) <=> Plausible(meter'[p])
  <2> SUFFICES ASSUME NEW p \in Sensed PROVE Plausible(meter[p]) <=> Plausible(meter'[p])
    OBVIOUS
  <2>1. CASE Plausible(meter[p])
    BY <1>2, <1>4, <2>1
  <2>2. CASE ~Plausible(meter[p])
    BY <1>3, <2>2
  <2> QED BY <2>1, <2>2
<1>6. Trusted' <=> Trusted
  BY <1>1, <1>5 DEF Trusted, Plausible
<1>7. CASE ~Trusted
  BY <1>6, <1>7 DEF Cap
<1>8. CASE Trusted
  <2> DEFINE charger == [p \in Sensed |-> draw[p]]
             charger2 == [p \in Sensed |-> draw'[p]]
  <2>1. Sensed \in SUBSET (1 .. 3) /\ Sensed # {} /\ Fuse \in Int /\ Margin \in Int
    BY <1>8, FuseAssumption DEF Trusted, Lines
  <2>2. /\ meter \in [Sensed -> Int] /\ charger \in [Sensed -> Int]
        /\ meter' \in [Sensed -> Int] /\ charger2 \in [Sensed -> Int]
    BY FuseAssumption DEF SteadyInv, TypeOK
  <2>3. \A p \in Sensed : PhaseRoom(Fuse, Margin, meter[p], charger[p])
                           = PhaseRoom(Fuse, Margin, meter'[p], charger2[p])
    <3> SUFFICES ASSUME NEW p \in Sensed
                 PROVE  PhaseRoom(Fuse, Margin, meter[p], charger[p])
                           = PhaseRoom(Fuse, Margin, meter'[p], charger2[p])
      OBVIOUS
    <3>1. meter[p] = house[p] + draw[p] /\ meter'[p] = house[p] + draw'[p]
      BY <1>2, <1>8 DEF SteadyInv, Accurate, Trusted
    <3>2. house[p] \in Int /\ draw[p] \in Int /\ draw'[p] \in Int
      BY FuseAssumption DEF SteadyInv, TypeOK
    <3> QED BY <2>1, <3>1, <3>2 DEF PhaseRoom
  <2>4. Cap = DlbCap(Fuse, Margin, meter, charger)
    BY <1>8 DEF Cap
  <2>5. Cap' = DlbCap(Fuse, Margin, meter', charger2)
    BY <1>6, <1>8 DEF Cap
  <2> HIDE DEF charger, charger2
  <2> QED BY <2>1, <2>2, <2>3, <2>4, <2>5, DlbCapOfEqualRooms
<1> QED BY <1>7, <1>8

\* With a meter that does not lag the setpoint does not chase the car's own
\* draw: another poll of the same house computes the same setpoint.
THEOREM SetpointIsSteady ==
  ASSUME MeterMayLag = FALSE, LoadsPlausible
  PROVE  Spec => SteadySetpoint
<1>1. Init => SteadyInv
  <2> SUFFICES ASSUME Init PROVE SteadyInv
    OBVIOUS
  <2>1. 0 \in Amps /\ 0 <= Tenths(EffectiveMax(Limits))
    BY LimitsFacts, EffectiveMaxType DEF Amps, Tenths
  <2>2. house \in [Lines -> Int]
    BY LoadsAssumption DEF Init
  <2>3. TypeOK
    BY <2>1, <2>2, FuseAssumption DEF Init, TypeOK, GridReading, Calm
  <2> QED BY <2>1, <2>3 DEF Init, SteadyInv, Accurate, GridReading
<1>2. SteadyInv /\ TypeOK' /\ [Next]_vars => SteadyInv'
  <2> SUFFICES ASSUME SteadyInv, TypeOK', [Next]_vars PROVE SteadyInv'
    OBVIOUS
  <2>1. Accurate'
    BY AccurateKept DEF SteadyInv
  <2>2. CASE Poll
    <3>1. Cap' = Cap
      BY <2>2 DEF Poll, Cap, Trusted, Plausible
    <3>2. (setCurrent = SetpointNow)'
      BY <2>2, <3>1 DEF Poll, SetpointNow
    <3> QED BY <2>1, <2>2, <3>2 DEF Poll, SteadyInv
  <2>3. CASE CarFollows
    <3>1. \A p \in Lines : draw'[p] <= Tenths(EffectiveMax(Limits))
      <4>1. setCurrent \in Nat /\ setCurrent <= EffectiveMax(Limits)
        BY LimitsFacts, EffectiveMaxType DEF SteadyInv, TypeOK, Amps
      <4>2. EffectiveMax(Limits) \in Nat
        BY LimitsFacts, EffectiveMaxType
      <4> QED BY <2>3, <4>1, <4>2 DEF CarFollows, Tenths
    <3>2. Cap' = Cap
      BY <2>1, <2>3, <3>1, CapIgnoresOwnDraw
    <3>3. setCurrent' = setCurrent /\ house' = house /\ (calm' # "no" => calm # "no")
      BY <2>3 DEF CarFollows
    <3>4. SetpointNow' = SetpointNow
      BY <3>2 DEF SetpointNow
    <3> QED BY <2>1, <3>1, <3>3, <3>4 DEF SteadyInv
  <2>4. CASE HouseChanges
    <3>1. calm' = "no" /\ house' \in [Lines -> HouseLoads] /\ draw' = draw
      BY <2>4 DEF HouseChanges, SteadyInv
    <3> QED BY <2>1, <3>1 DEF SteadyInv
  <2>5. CASE MeterReports \/ SensorGlitches \/ SensorsChange
    <3>1. calm' = "no" /\ house' = house /\ draw' = draw
      BY <2>5 DEF MeterReports, SensorGlitches, SensorsChange
    <3> QED BY <2>1, <3>1 DEF SteadyInv
  <2>6. CASE UNCHANGED vars
    <3>1. Cap' = Cap
      BY <2>6 DEF vars, Cap, Trusted, Plausible
    <3> QED BY <2>1, <2>6, <3>1 DEF SteadyInv, vars, SetpointNow
  <2> QED BY <2>2, <2>3, <2>4, <2>5, <2>6 DEF Next
<1>3. SteadyInv /\ [Next]_vars => [calm # "no" => setCurrent' = setCurrent]_setCurrent
  <2> SUFFICES ASSUME SteadyInv, [Next]_vars, calm # "no" PROVE setCurrent' = setCurrent
    OBVIOUS
  <2>1. CASE Poll
    BY <2>1 DEF Poll, SteadyInv, SetpointNow
  <2>2. CASE CarFollows \/ HouseChanges \/ MeterReports \/ SensorGlitches \/ SensorsChange
    BY <2>2 DEF CarFollows, HouseChanges, MeterReports, SensorGlitches, SensorsChange
  <2>3. CASE UNCHANGED vars
    BY <2>3 DEF vars
  <2> QED BY <2>1, <2>2, <2>3 DEF Next
<1> QED BY <1>1, <1>2, <1>3, TypeCorrect, PTL DEF Spec, SteadySetpoint
-----------------------------------------------------------------------------
\* With lagging reports: a proper report tells the house load of its moment and
\* what the car drew then.
Ceiling == Tenths(EffectiveMax(Limits))

Ahead ==
  \A p \in Sensed : Plausible(meter[p]) => reported[p] <= meter[p]

FitsNearly(amps) ==
  \A p \in Sensed : reported[p] + Tenths(amps) <= Fuse - Margin + Ceiling

LagInv ==
  /\ Ahead
  /\ \A p \in Lines : draw[p] <= Ceiling
  /\ calm # "no" => setCurrent = 0 \/ FitsNearly(setCurrent)
  /\ calm = "followed" => \A p \in Lines : draw[p] <= Tenths(setCurrent)

\* Beside the house it was reported with, such a report leaves too much room by
\* the car's own draw at the most.
LEMMA CapFitsNearly ==
  ASSUME TypeOK, LagInv, NEW amps \in Nat, amps >= 1, Tenths(amps) <= Cap
  PROVE  FitsNearly(amps)
<1>1. Trusted
  BY DEF Cap, Tenths
<1>2. Sensed \in SUBSET (1 .. 3) /\ Sensed # {}
  BY <1>1, FuseAssumption DEF Trusted, Lines
<1> DEFINE charger == [p \in Sensed |-> draw[p]]
<1>3. meter \in [Sensed -> Int] /\ charger \in [Sensed -> Int] /\ Fuse \in Int /\ Margin \in Int
  BY FuseAssumption DEF TypeOK
<1>4. Cap = DlbCap(Fuse, Margin, meter, charger)
  BY <1>1 DEF Cap
<1>5. \A p \in Sensed : Cap <= PhaseRoom(Fuse, Margin, meter[p], charger[p])
  <2> HIDE DEF charger
  <2> QED BY <1>2, <1>3, <1>4, DlbCapIsLeastRoom
<1>6. Cap \in Int /\ Ceiling \in Int
  BY CapType, LimitsFacts, EffectiveMaxType DEF Ceiling, Tenths
<1>7. SUFFICES ASSUME NEW p \in Sensed
               PROVE  reported[p] + Tenths(amps) <= Fuse - Margin + Ceiling
  BY DEF FitsNearly
<1>8. reported[p] <= meter[p] /\ draw[p] <= Ceiling
  BY <1>1, FuseAssumption DEF LagInv, Ahead, Trusted
<1>9. reported[p] \in Int /\ meter[p] \in Int /\ draw[p] \in Int
  BY FuseAssumption DEF TypeOK
<1>10. Cap <= Fuse - Margin - (meter[p] - draw[p])
  BY <1>5 DEF PhaseRoom
<1> QED BY <1>3, <1>6, <1>8, <1>9, <1>10 DEF Tenths

\* A report shows at least the house load of its moment.
LEMMA AheadKept ==
  ASSUME MeterMayLag = TRUE, TypeOK, LagInv, [Next]_vars
  PROVE  Ahead'
<1>1. CASE Poll \/ CarFollows \/ HouseChanges \/ SensorsChange \/ UNCHANGED vars
  <2>1. meter' = meter /\ reported' = reported
    BY <1>1 DEF Poll, CarFollows, HouseChanges, SensorsChange, vars
  <2> QED BY <2>1 DEF LagInv, Ahead, Plausible
<1>2. CASE MeterReports
  <2>1. PICK q \in Sensed : /\ meter' = [meter EXCEPT ![q] = GridReading(house, draw)[q]]
                            /\ reported' = [reported EXCEPT ![q] = house[q]]
    BY <1>2 DEF MeterReports
  <2>2. \A p \in Sensed : p # q => meter'[p] = meter[p] /\ reported'[p] = reported[p]
    BY <2>1 DEF TypeOK
  <2>3. meter'[q] = house[q] + draw[q] /\ reported'[q] = house[q]
    BY <2>1 DEF TypeOK, GridReading
  <2>4. house[q] \in Int /\ draw[q] \in Nat
    BY FuseAssumption DEF TypeOK
  <2>5. reported'[q] <= meter'[q]
    BY <2>3, <2>4
  <2> QED BY <2>2, <2>5 DEF LagInv, Ahead, Plausible
<1>3. CASE SensorGlitches
  <2>1. PICK q \in Sensed, g \in Glitches : meter' = [meter EXCEPT ![q] = g]
    BY <1>3 DEF SensorGlitches
  <2>2. reported' = reported /\ ~Plausible(g)
    BY <1>3, LoadsAssumption DEF SensorGlitches
  <2>3. \A p \in Sensed : meter'[p] = IF p = q THEN g ELSE meter[p]
    BY <2>1 DEF TypeOK
  <2> QED BY <2>2, <2>3 DEF LagInv, Ahead, Plausible
<1> QED BY <1>1, <1>2, <1>3 DEF Next

\* What is left of FuseHolds when the reports may be of any age, of the house's
\* draw as of the car's (controller.py:686 takes one up to 300 s old): once the
\* car has reacted to a poll, a sensed phase on which it draws exceeds the fuse
\* less the margin by no more than one maximum current of the car and what the
\* house has added on that phase since the report the poll used.
THEOREM OverloadBounded ==
  ASSUME MeterMayLag = TRUE
  PROVE  Spec => [](calm = "followed" =>
           \A p \in Sensed :
             draw[p] > 0 =>
               house[p] + draw[p] <= Fuse - Margin + Ceiling + (house[p] - reported[p]))
<1>0. Ceiling \in Nat
  BY LimitsFacts, EffectiveMaxType DEF Ceiling, Tenths
<1>1. Init => LagInv
  <2> SUFFICES ASSUME Init PROVE LagInv
    OBVIOUS
  <2>1. \A p \in Sensed : house[p] \in Int /\ draw[p] = 0 /\ reported[p] = house[p]
    BY FuseAssumption, LoadsAssumption DEF Init
  <2>2. \A p \in Sensed : meter[p] = house[p] + draw[p]
    BY DEF Init, GridReading
  <2>3. Ahead
    BY <2>1, <2>2 DEF Ahead
  <2>4. \A p \in Lines : draw[p] <= Ceiling
    BY <1>0 DEF Init
  <2> QED BY <2>3, <2>4 DEF Init, LagInv
<1>2. TypeOK /\ LagInv /\ TypeOK' /\ [Next]_vars => LagInv'
  <2> SUFFICES ASSUME TypeOK, LagInv, TypeOK', [Next]_vars PROVE LagInv'
    OBVIOUS
  <2>1. Ahead'
    BY AheadKept
  <2>2. Ceiling' = Ceiling
    BY DEF Ceiling
  <2>3. CASE Poll
    <3>1. setCurrent' = 0 \/ FitsNearly(setCurrent')
      <4>1. CASE setCurrent' = 0
        BY <4>1
      <4>2. CASE setCurrent' >= 1 /\ Tenths(setCurrent') <= Cap
        <5>1. setCurrent' \in Nat
          BY LimitsFacts, EffectiveMaxType DEF TypeOK, Amps
        <5> QED BY <4>2, <5>1, CapFitsNearly
      <4> QED BY <2>3, <4>1, <4>2, PollSetpoint
    <3>2. (setCurrent = 0 \/ FitsNearly(setCurrent))'
      BY <2>3, <3>1 DEF Poll, FitsNearly, Ceiling
    <3>3. \A p \in Lines : draw'[p] <= Ceiling
      BY <2>3 DEF Poll, LagInv
    <3> QED BY <2>1, <2>2, <2>3, <3>2, <3>3 DEF Poll, LagInv
  <2>4. CASE CarFollows
    <3>1. setCurrent \in Nat /\ Tenths(setCurrent) <= Ceiling
      BY LimitsFacts, EffectiveMaxType DEF TypeOK, Amps, Ceiling, Tenths
    <3>2. \A p \in Lines : draw'[p] <= Tenths(setCurrent)
      BY <2>4, <3>1 DEF CarFollows, Tenths
    <3>3. \A p \in Lines : draw'[p] \in Nat
      BY DEF TypeOK
    <3>4. \A p \in Lines : draw'[p] <= Ceiling
      BY <1>0, <3>1, <3>2, <3>3 DEF Tenths
    <3>5. /\ setCurrent' = setCurrent /\ reported' = reported
          /\ calm' # "no" => calm # "no"
      BY <2>4 DEF CarFollows
    <3> QED BY <2>1, <2>2, <3>2, <3>4, <3>5 DEF LagInv, FitsNearly
  <2>5. CASE HouseChanges
    <3>1. UNCHANGED <<draw, setCurrent, reported, calm>>
      BY <2>5 DEF HouseChanges
    <3> QED BY <2>1, <2>2, <3>1 DEF LagInv, FitsNearly
  <2>6. CASE MeterReports \/ SensorGlitches \/ SensorsChange
    <3>1. calm' = "no" /\ draw' = draw
      BY <2>6 DEF MeterReports, SensorGlitches, SensorsChange
    <3> QED BY <2>1, <2>2, <3>1 DEF LagInv
  <2>7. CASE UNCHANGED vars
    BY <2>1, <2>2, <2>7 DEF LagInv, FitsNearly, vars
  <2> QED BY <2>3, <2>4, <2>5, <2>6, <2>7 DEF Next
<1>3. TypeOK /\ LagInv =>
        (calm = "followed" =>
           \A p \in Sensed :
             draw[p] > 0 =>
               house[p] + draw[p] <= Fuse - Margin + Ceiling + (house[p] - reported[p]))
  <2> SUFFICES ASSUME TypeOK, LagInv, calm = "followed", NEW p \in Sensed, draw[p] > 0
               PROVE  house[p] + draw[p]
                        <= Fuse - Margin + Ceiling + (house[p] - reported[p])
    OBVIOUS
  <2>1. /\ p \in Lines /\ house[p] \in Int /\ draw[p] \in Nat /\ setCurrent \in Nat
        /\ reported[p] \in Int
    BY FuseAssumption, LimitsFacts, EffectiveMaxType DEF TypeOK, Amps
  <2>2. draw[p] <= Tenths(setCurrent)
    BY <2>1 DEF LagInv
  <2>3. setCurrent # 0
    BY <2>1, <2>2 DEF Tenths
  <2>4. reported[p] + Tenths(setCurrent) <= Fuse - Margin + Ceiling
    BY <2>3 DEF LagInv, FitsNearly
  <2> QED BY <1>0, <2>1, <2>2, <2>4, FuseAssumption DEF Tenths
<1> QED BY <1>1, <1>2, <1>3, TypeCorrect, PTL DEF Spec
=============================================================================
