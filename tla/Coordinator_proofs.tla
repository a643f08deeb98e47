-------------------------- MODULE Coordinator_proofs --------------------------
(***************************************************************************)
(* The coordinator implements Ownership, so what is proved of an owner     *)
(* holds of it with its restores running; and what a restore may leave     *)
(* behind.                                                                 *)
(***************************************************************************)
EXTENDS Coordinator, Ownership_proofs

\* Each step of the coordinator is a step of the owner or leaves it alone.
LEMMA StepsOwn == [Next]_vars => [OwnNext]_ownVars
<1> SUFFICES ASSUME [Next]_vars PROVE [OwnNext]_ownVars
  OBVIOUS
<1>1. ASSUME NEW connected \in BOOLEAN, PollReads(connected)
      PROVE  OwnNext
  BY <1>1 DEF PollReads, OwnNext
<1>2. CASE PollEnds \/ Begins \/ Unloads \/ Dies
  BY <1>2 DEF PollEnds, Begins, Unloads, Dies, OwnNext, Lifecycle
<1>3. CASE OwnershipSteps
  BY <1>3 DEF OwnershipSteps, OwnNext, Lifecycle
<1>4. CASE RestoreSteps \/ ButtonPressed
  BY <1>4 DEF RestoreSteps, ButtonPressed
<1>5. CASE UNCHANGED vars
  BY <1>5 DEF vars
<1> QED BY <1>1, <1>2, <1>3, <1>4, <1>5 DEF Next

\* With its restores the coordinator is still an owner.
THEOREM CoordinatorIsOwner == Spec => ImplementsOwnership
<1>1. Init => OwnInit
  BY DEF Init
<1> QED BY <1>1, StepsOwn, PTL DEF Spec, OwnSpec, ImplementsOwnership

\* No baseline of the coordinator ever holds a value of ours.
THEOREM BaselineOfCoordinator ==
  ASSUME ~StoreFails
  PROVE  Spec => []BaselineOriginal
BY CoordinatorIsOwner, BaselineStaysOriginal, PTL DEF ImplementsOwnership

\* A quiet exit of the coordinator hands the registers back.
THEOREM CoordinatorHandsBack ==
  ASSUME ~StoreFails
  PROVE  Spec => []HandsBack
BY CoordinatorIsOwner, ExitHandsBack, PTL DEF ImplementsOwnership

\* The running coordinator has the failsafe programmed or knows it must.
THEOREM FailsafeOfCoordinator == Spec => []FailsafeArmed
BY CoordinatorIsOwner, FailsafeIsArmed, PTL DEF ImplementsOwnership

\* The coordinator's RFID probe costs a bounded number of connections.
THEOREM ProbeOfCoordinator == Spec => []ProbeLossesBounded
BY CoordinatorIsOwner, ProbeIsBounded, PTL DEF ImplementsOwnership
-----------------------------------------------------------------------------
\* The restores.  One that is past its first write, or has changed over to
\* webconfig after it, answers for the single phase the wallbox may be on.
Answers(op) == stage[op] \in {"json1", "php0", "php1"}

RestoreInv ==
  /\ RestoreTypeOK
  /\ config = 0 => lastEnd = "failed" \/ \E op \in Ops : Answers(op)

\* What any step that is not a write to the wallbox does to them.
LEMMA StagesMove ==
  ASSUME RestoreInv, UNCHANGED <<config, lastEnd>>,
         wasConnected' \in BOOLEAN, dataConnected' \in BOOLEAN,
         stage' \in [Ops -> Stages],
         \A op \in Ops : Answers(op) => \E other \in Ops : Answers(other)'
  PROVE  RestoreInv'
BY DEF RestoreInv, RestoreTypeOK

LEMMA WritesKeep ==
  ASSUME RestoreInv, NEW op \in Ops, JsonWrite(op) \/ PhpWrite(op)
  PROVE  RestoreInv'
<1> USE DEF RestoreInv, RestoreTypeOK, Stages, To, Raise, RestoreUnchanged
<1>1. CASE JsonWrite(op)
  <2> DEFINE value == IF stage[op] = "json0" THEN 0 ELSE 1
  <2>1. stage[op] \in {"json0", "json1"} /\ UNCHANGED <<wasConnected, dataConnected>>
    BY <1>1 DEF JsonWrite
  <2>2. CASE /\ config' = value
             /\ To(op, IF value = 0 THEN "json1" ELSE "idle")
             /\ lastEnd' = IF value = 0 THEN lastEnd ELSE "ok"
    BY <2>1, <2>2 DEF Answers
  <2>3. CASE /\ To(op, AfterServerError(stage[op]))
             /\ config' \in {config, value}
             /\ UNCHANGED lastEnd
    BY <2>1, <2>3 DEF Answers, AfterServerError
  <2>4. CASE Raise(op, {config, value})
    BY <2>1, <2>4
  <2> QED BY <1>1, <2>2, <2>3, <2>4 DEF JsonWrite
<1>2. CASE PhpWrite(op)
  <2> DEFINE value == IF stage[op] = "php0" THEN 0 ELSE 1
  <2>1. stage[op] \in {"php0", "php1"} /\ UNCHANGED <<wasConnected, dataConnected>>
    BY <1>2 DEF PhpWrite
  <2>2. CASE /\ config' = value
             /\ To(op, IF value = 0 THEN "php1" ELSE "idle")
             /\ lastEnd' = IF value = 0 THEN lastEnd ELSE "ok"
    BY <2>1, <2>2 DEF Answers
  <2>3. CASE Raise(op, {config, value})
    BY <2>1, <2>3
  <2> QED BY <1>2, <2>2, <2>3 DEF PhpWrite
<1> QED BY <1>1, <1>2

LEMMA RestoreStep == RestoreInv /\ OwnTypeInv /\ [Next]_vars => RestoreInv'
<1> SUFFICES ASSUME RestoreInv, OwnTypeInv, [Next]_vars PROVE RestoreInv'
  OBVIOUS
<1>0. "auto" \in Ops /\ "other" \in Ops /\ FirstStage \in {"json0", "php0"}
      /\ stage \in [Ops -> Stages]
  BY DEF Ops, FirstStage, RestoreInv, RestoreTypeOK
<1>1. ASSUME NEW connected \in BOOLEAN, PollReads(connected)
      PROVE  RestoreInv'
  <2>1. /\ UNCHANGED <<config, lastEnd, dataConnected>> /\ wasConnected' = connected
        /\ \/ stage' = stage
           \/ /\ stage["auto"] = "idle"
              /\ \E s \in {"delay", FirstStage} : stage' = [stage EXCEPT !["auto"] = s]
    BY <1>1 DEF PollReads, SeePoll
  <2>2. stage' \in [Ops -> Stages] /\ \A op \in Ops : Answers(op) => Answers(op)'
    BY <1>0, <2>1 DEF Answers, Stages
  <2> QED BY <2>1, <2>2, StagesMove DEF RestoreInv, RestoreTypeOK
<1>2. CASE PollEnds \/ OwnershipSteps \/ Begins \/ UNCHANGED vars
  <2>1. UNCHANGED <<stage, config, lastEnd>>
        /\ wasConnected' \in {wasConnected, FALSE}
        /\ dataConnected' \in {wasConnected, dataConnected, FALSE}
    BY <1>2 DEF PollEnds, Publish, OwnershipSteps, Begins, NewCoordinator, vars, restoreVars
  <2>2. \A op \in Ops : Answers(op) => Answers(op)'
    BY <2>1 DEF Answers
  <2> QED BY <1>0, <2>1, <2>2, StagesMove DEF RestoreInv, RestoreTypeOK
<1>3. CASE Unloads
  <2>1. UNCHANGED <<config, lastEnd, wasConnected, dataConnected>>
        /\ \/ stage' = stage
           \/ /\ stage["other"] = "idle"
              /\ stage' = [stage EXCEPT !["other"] = stage["auto"], !["auto"] = "idle"]
    BY <1>3 DEF Unloads, TasksOutlive
  <2>2. stage' \in [Ops -> Stages]
    BY <1>0, <2>1 DEF Stages
  <2>3. ASSUME NEW op \in Ops, Answers(op)
        PROVE  \E other \in Ops : Answers(other)'
    BY <1>0, <2>1, <2>3 DEF Answers, Ops
  <2> QED BY <2>1, <2>2, <2>3, StagesMove DEF RestoreInv, RestoreTypeOK
<1>4. CASE Dies
  BY <1>4 DEF Dies, TasksDie, RestoreInv, RestoreTypeOK, Stages, Answers
<1>5. CASE WebSteps
  <2>1. CASE DelayOver \/ OutlivedDelayOver
    <3>1. /\ UNCHANGED <<config, lastEnd, wasConnected, dataConnected>>
          /\ \E op \in Ops : /\ stage[op] = "delay"
                             /\ \E s \in {"idle", FirstStage} : stage' = [stage EXCEPT ![op] = s]
      BY <1>0, <2>1 DEF DelayOver, OutlivedDelayOver
    <3>2. stage' \in [Ops -> Stages] /\ \A op \in Ops : Answers(op) => Answers(op)'
      BY <1>0, <3>1 DEF Answers, Stages
    <3> QED BY <3>1, <3>2, StagesMove DEF RestoreInv, RestoreTypeOK
  <2> QED BY <1>5, <2>1, WritesKeep DEF WebSteps
<1>6. CASE ButtonPressed
  <2>1. UNCHANGED <<config, lastEnd, wasConnected, dataConnected>> /\ stage["other"] = "idle"
        /\ stage' = [stage EXCEPT !["other"] = "json0"]
    BY <1>6 DEF ButtonPressed, Press
  <2>2. stage' \in [Ops -> Stages] /\ \A op \in Ops : Answers(op) => Answers(op)'
    BY <1>0, <2>1 DEF Answers, Stages
  <2> QED BY <2>1, <2>2, StagesMove DEF RestoreInv, RestoreTypeOK
<1> QED BY <1>1, <1>2, <1>3, <1>4, <1>5, <1>6 DEF Next, RestoreSteps

LEMMA RestoreInvariant == Spec => []RestoreInv
<1>1. Init => RestoreInv
  <2> SUFFICES ASSUME Init PROVE RestoreInv
    OBVIOUS
  <2>1. RestoreInit
    BY DEF Init
  <2>2. stage \in [Ops -> Stages] /\ config = 1
    BY <2>1 DEF RestoreInit, Stages
  <2>3. RestoreTypeOK
    BY <2>1, <2>2 DEF RestoreInit, RestoreTypeOK
  <2> QED BY <2>2, <2>3 DEF RestoreInv
<1>2. Spec => []OwnTypeInv
  BY CoordinatorIsOwner, OwnTypeInvariant, PTL DEF ImplementsOwnership
<1> QED BY <1>1, <1>2, RestoreStep, PTL DEF Spec

\* Types of the coordinator.
THEOREM CoordinatorTypes == Spec => []TypeOK
<1>1. OwnTypeOK /\ RestoreInv => TypeOK
  BY DEF RestoreInv, TypeOK
<1>2. Spec => []OwnTypeOK
  BY CoordinatorIsOwner, OwnTypeCorrect, PTL DEF ImplementsOwnership
<1> QED BY <1>1, <1>2, RestoreInvariant, PTL

\* Restores, however they overlap, leave the wallbox on one phase only when the
\* last that ended failed or was killed.
THEOREM OnePhaseIsReported == Spec => []LeftOnlyByFailure
<1>1. RestoreInv => LeftOnlyByFailure
  BY DEF RestoreInv, LeftOnlyByFailure, Answers
<1> QED BY <1>1, RestoreInvariant, PTL
=============================================================================
