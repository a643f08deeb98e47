------------------------ MODULE ExternalControl_proofs ------------------------
(***************************************************************************)
(* Proofs about ExternalControl, for every limit, command, draw, patience  *)
(* and length of the queue of writes.                                      *)
(*                                                                         *)
(* Types first, then the refinement of PhaseFix, then what ends up in      *)
(* register 5004.  The last rests on an invariant of the queue (QueueInv): *)
(* from some write that carries evcc's last current on, everything that    *)
(* waits is at most that current; and behind the 0 A of a pause nothing    *)
(* but 0 A waits until the resume.                                         *)
(***************************************************************************)
EXTENDS ExternalControl, TLAPS

LEMMA ConstantFacts ==
  /\ AbsMax \in Nat \ {0} /\ Amps \subseteq Nat /\ 0 \in Amps /\ None \notin Amps
  /\ MaxCurrent \in Amps \ {0} /\ HwCurrents \subseteq Amps
  /\ \A amps \in Int : Clamp(amps) \in Amps
<1>1. AbsMax \in Nat \ {0}
  BY CurrentsAssumption
<1>2. \A amps \in Int : Clamp(amps) \in Amps
  BY <1>1 DEF Clamp, Amps, Greater, Lesser
<1> QED BY <1>1, <1>2, CurrentsAssumption DEF Amps, None
-----------------------------------------------------------------------------
\* Writes, and what the operations of the queue do to their positions.
LEMMA WriteFacts ==
  ASSUME NEW w \in Write
  PROVE  /\ w.by \in Issuers
         /\ w.register \in {"current", "phase"}
         /\ w.register = "current" => w.value \in Amps
         /\ w.register = "phase" => w.value \in {0, 1} /\ w.by # "task"
BY DEF Write

LEMMA WriteTypes ==
  /\ \A issuer \in Issuers, amps \in Amps : CurrentWrite(issuer, amps) \in Write
  /\ \A issuer \in Issuers \ {"task"}, raw \in {0, 1} : PhaseWrite(issuer, raw) \in Write
BY DEF Write, CurrentWrite, PhaseWrite

LEMMA Served ==
  ASSUME NEW q \in Seq(Write), q # <<>>
  PROVE  /\ Head(q) = q[1] /\ Head(q) \in Write
         /\ Tail(q) \in Seq(Write) /\ Len(q) \in Nat \ {0} /\ Len(Tail(q)) = Len(q) - 1
         /\ \A i \in 1 .. Len(q) - 1 : Tail(q)[i] = q[i + 1]
OBVIOUS

LEMMA Asked ==
  ASSUME NEW q \in Seq(Write), NEW w \in Write
  PROVE  /\ Append(q, w) \in Seq(Write) /\ Len(q) \in Nat /\ Len(Append(q, w)) = Len(q) + 1
         /\ \A i \in 1 .. Len(q) : Append(q, w)[i] = q[i]
         /\ Append(q, w)[Len(q) + 1] = w
OBVIOUS

LEMMA CalledOff ==
  ASSUME queue \in Seq(Write)
  PROVE  /\ WithoutTask \in Seq(Write)
         /\ \/ WithoutTask = queue /\ \A j \in 1 .. Len(queue) : queue[j].by # "task"
            \/ \E i \in 1 .. Len(queue) :
                 /\ queue[i].by = "task" /\ Len(WithoutTask) = Len(queue) - 1
                 /\ \A j \in 1 .. Len(queue) - 1 :
                      WithoutTask[j] = IF j < i THEN queue[j] ELSE queue[j + 1]
<1> DEFINE i == CHOOSE i \in DOMAIN queue : queue[i].by = "task"
           rest == [j \in 1 .. Len(queue) - 1 |-> IF j < i THEN queue[j] ELSE queue[j + 1]]
<1>1. DOMAIN queue = 1 .. Len(queue) /\ Len(queue) \in Nat
  OBVIOUS
<1>2. CASE \E j \in DOMAIN queue : queue[j].by = "task"
  <2>1. i \in 1 .. Len(queue) /\ queue[i].by = "task"
    BY <1>1, <1>2
  <2>2. WithoutTask = rest
    BY <1>2 DEF WithoutTask
  <2> HIDE DEF i
  <2>3. \A j \in 1 .. Len(queue) - 1 : rest[j] \in Write
    BY <1>1, <2>1
  <2>4. Len(queue) - 1 \in Nat
    BY <1>1, <2>1
  <2>5. rest \in Seq(Write) /\ Len(rest) = Len(queue) - 1
    BY <2>3, <2>4
  <2> QED BY <2>1, <2>2, <2>5
<1>3. CASE ~\E j \in DOMAIN queue : queue[j].by = "task"
  BY <1>1, <1>3 DEF WithoutTask
<1> QED BY <1>2, <1>3
-----------------------------------------------------------------------------
\* Types.  What the operations of the client do to them.
LEMMA DropTypes ==
  ASSUME Drop
  PROVE  /\ newConnection' \in BOOLEAN /\ setCurrent' \in Amps /\ phaseSwitch' \in {0, 1}
         /\ ours' \in BOOLEAN
BY ConstantFacts DEF Drop

LEMMA AcknowledgeTypes ==
  ASSUME TypeOK, queue # <<>>, Acknowledge
  PROVE  /\ newConnection' \in BOOLEAN /\ setCurrent' \in Amps /\ phaseSwitch' \in {0, 1}
         /\ ours' \in BOOLEAN /\ kept' \in BOOLEAN
<1>1. Head(queue) \in Write
  BY Served DEF TypeOK
<1>2. /\ newConnection' = newConnection /\ kept' = kept
      /\ setCurrent' = IF Head(queue).register = "current" THEN Head(queue).value ELSE setCurrent
      /\ phaseSwitch' = IF Head(queue).register = "phase" THEN Head(queue).value ELSE phaseSwitch
      /\ ours' = (ours \/ Head(queue).register = "current")
  BY DEF Acknowledge
<1>3. setCurrent' \in Amps
  BY <1>1, <1>2, WriteFacts DEF TypeOK
<1>4. phaseSwitch' \in {0, 1}
  BY <1>1, <1>2, WriteFacts DEF TypeOK
<1> QED BY <1>2, <1>3, <1>4 DEF TypeOK

LEMMA RefuseTypes ==
  ASSUME TypeOK, queue # <<>>, Refuse
  PROVE  /\ newConnection' \in BOOLEAN /\ setCurrent' \in Amps /\ phaseSwitch' \in {0, 1}
         /\ ours' \in BOOLEAN /\ kept' \in BOOLEAN /\ queue' \in Seq(Write)
BY Served, DropTypes DEF Refuse, TypeOK

LEMMA FinishTypes ==
  ASSUME TypeOK, Finish
  PROVE  /\ pc' = "idle" /\ snap' \in Reading
         /\ data' \in [vehicle : BOOLEAN, phaseSwitch : {0, 1, None}, draw : Draws]
<1>1. PICK draw \in {"none"} \cup DrawChoices : data' = Snapshot(snap, draw)
  BY DEF Finish
<1>2. draw \in Draws /\ snap \in Reading
  BY <1>1, ChoicesAssumption DEF Draws, TypeOK
<1> QED BY <1>1, <1>2 DEF Finish, Snapshot, Reading, NoReading

LEMMA ValueTypes ==
  ASSUME TypeOK
  PROVE  /\ ReassertValue \in Amps /\ ResumeValue \in Amps /\ resumeCurrent \in Amps
         /\ \A amps \in Int : Clamp(amps) \in Amps
         /\ \A phases : Raw(phases) \in {0, 1}
BY ConstantFacts DEF TypeOK, ReassertValue, ResumeValue, Raw

LEMMA GuardTypes ==
  ASSUME TypeOK, NEW q \in Seq(Write), GuardPhase(q)
  PROVE  /\ guardMismatches' \in 0 .. Patience - 1 /\ queue' \in Seq(Write)
         /\ pc' \in {"idle", "guard"} /\ snap' \in Reading
         /\ data' \in [vehicle : BOOLEAN, phaseSwitch : {0, 1, None}, draw : Draws]
<1>1. Patience \in Nat \ {0} /\ guardMismatches \in 0 .. Patience - 1
      /\ snap \in Reading
      /\ data \in [vehicle : BOOLEAN, phaseSwitch : {0, 1, None}, draw : Draws]
  BY ChoicesAssumption DEF TypeOK
<1>2. CASE guardMismatches' = 0 /\ queue' = q /\ Finish
  BY <1>1, <1>2, FinishTypes
<1>3. CASE /\ guardMismatches + 1 < Patience /\ guardMismatches' = guardMismatches + 1
           /\ queue' = q /\ Finish
  BY <1>1, <1>3, FinishTypes
<1>4. CASE /\ guardMismatches' = 0
           /\ queue' = Append(q, PhaseWrite("poll", Raw(requestedPhase)))
           /\ pc' = "guard"
           /\ UNCHANGED <<snap, data>>
  <2>1. PhaseWrite("poll", Raw(requestedPhase)) \in Write
    BY ValueTypes, WriteTypes DEF Issuers
  <2> QED BY <1>1, <1>4, <2>1, Asked
<1> QED BY <1>2, <1>3, <1>4 DEF GuardPhase

LEMMA CommandTypes ==
  ASSUME TypeOK, Evcc \/ CommandSteps
  PROVE  TypeOK'
<1> USE DEF TypeOK, task, latches, session, poll, registers, wishes, car
<1>1. ASSUME NEW amps \in Int, SetCurrent(amps)
      PROVE  TypeOK'
  <2> DEFINE value == Clamp(amps)
  <2>1. value \in Amps /\ CurrentWrite("evcc", value) \in Write
    BY ConstantFacts, WriteTypes DEF Issuers
  <2>2. queue' \in Seq(Write)
    BY <1>1, <2>1, Asked DEF SetCurrent
  <2>3. currentIntent' \in Amps /\ resumeCurrent' \in Amps \ {0} /\ kept' \in BOOLEAN
    BY <1>1, <2>1, ConstantFacts DEF SetCurrent, KeepsFromWire
  <2>4. UNCHANGED <<requestedPhase, phaseCommand, task, latches, session, poll, newConnection,
                    registers, car, ours>>
    BY <1>1 DEF SetCurrent
  <2> HIDE DEF value
  <2> QED BY <2>2, <2>3, <2>4
<1>2. CASE CurrentServed
  <2>1. queue # <<>>
    BY <1>2 DEF CurrentServed, Turn
  <2>2. queue' \in Seq(Write)
    BY <1>2, <2>1, Served DEF CurrentServed
  <2> QED BY <1>2, <2>1, <2>2, AcknowledgeTypes DEF CurrentServed
<1>3. CASE CurrentRefused
  <2>1. queue # <<>>
    BY <1>3 DEF CurrentRefused, Turn
  <2> QED BY <1>3, <2>1, RefuseTypes DEF CurrentRefused
<1>4. CASE RequestThree
  <2>1. queue' \in Seq(Write)
    BY <1>4, WriteTypes, Asked DEF RequestThree, Issuers
  <2>2. requestedPhase' \in Phases /\ downshiftAttempted' \in BOOLEAN
        /\ phaseCommand' \in {"none", "writing", "gate"}
    BY <1>4 DEF RequestThree, Phases
  <2>3. UNCHANGED <<currentIntent, resumeCurrent, task, recoveryAttempted, session, poll,
                    newConnection, registers, car, ours, kept>>
    BY <1>4 DEF RequestThree
  <2> QED BY <2>1, <2>2, <2>3
<1>5. CASE RequestOne
  <2>1. queue' \in Seq(Write)
    BY <1>5, WriteTypes, CalledOff, Asked DEF RequestOne, Issuers
  <2>2. /\ recovery' \in {"none", "ending"} /\ direction' \in {"none", "up", "down"}
        /\ bufferCommands' \in BOOLEAN /\ UNCHANGED <<kept, newConnection, phaseSwitch>>
    BY <1>5 DEF RequestOne, CancelRecovery
  <2>3. setCurrent' \in Amps /\ ours' \in BOOLEAN
    <3>1. CASE UNCHANGED <<newConnection, registers, ours>>
      BY <3>1
    <3>2. CASE Turn("task") /\ setCurrent' = Head(queue).value /\ ours' = TRUE
      <4>1. Head(queue) \in Write /\ Head(queue).by = "task"
        BY <3>2, Served DEF Turn
      <4> QED BY <3>2, <4>1, WriteFacts
    <3> QED BY <1>5, <3>1, <3>2 DEF RequestOne, CancelRecovery
  <2>4. requestedPhase' \in Phases /\ recoveryAttempted' \in BOOLEAN
        /\ phaseCommand' \in {"none", "writing", "gate"}
    BY <1>5 DEF RequestOne, Phases
  <2>5. UNCHANGED <<currentIntent, resumeCurrent, downshiftAttempted, session, poll, car>>
    BY <1>5 DEF RequestOne
  <2> QED BY <2>1, <2>2, <2>3, <2>4, <2>5
<1>6. CASE PhaseServed
  <2>1. queue # <<>>
    BY <1>6 DEF PhaseServed, Turn
  <2>2. queue' \in Seq(Write)
    BY <1>6, <2>1, Served DEF PhaseServed
  <2> QED BY <1>6, <2>1, <2>2, AcknowledgeTypes DEF PhaseServed
<1>7. CASE PhaseRefused
  <2>1. queue # <<>>
    BY <1>7 DEF PhaseRefused, Turn
  <2> QED BY <1>7, <2>1, RefuseTypes DEF PhaseRefused
<1>8. CASE PhaseGate
  <2>1. recovery' \in {recovery, "observe"} /\ direction' \in {direction, "up", "down"}
    BY <1>8 DEF PhaseGate
  <2> QED BY <1>8, <2>1 DEF PhaseGate
<1>9. ASSUME NEW on \in BOOLEAN, SetEnabled(on)
      PROVE  TypeOK'
  <2>1. (IF on THEN resumeCurrent ELSE 0) \in Int
    BY ConstantFacts
  <2> QED BY <1>1, <1>9, <2>1 DEF SetEnabled
<1> QED
  BY <1>1, <1>2, <1>3, <1>4, <1>5, <1>6, <1>7, <1>8, <1>9, CurrentsAssumption
     DEF Evcc, CommandSteps

LEMMA PollTypes ==
  ASSUME TypeOK, PollSteps
  PROVE  TypeOK'
<1> USE DEF TypeOK, PollUnchanged, task, latches, session, poll, registers, wishes, car
<1>1. CASE PollRead
  <2>1. snap' \in Reading /\ pc' \in {"handshake", "heartbeat"}
    BY <1>1 DEF PollRead, Reading
  <2>2. newConnection' \in BOOLEAN
    BY <1>1 DEF PollRead
  <2>3. UNCHANGED <<latches, session, data, queue, registers, ours, kept, wishes, phaseCommand,
                    task, car>>
    BY <1>1 DEF PollRead
  <2> QED BY <2>1, <2>2, <2>3
<1>2. CASE Handshake
  <2>1. queue' \in Seq(Write)
    BY <1>2, ValueTypes, WriteTypes, Asked DEF Handshake, Issuers
  <2>2. /\ newConnection' \in BOOLEAN /\ setCurrent' \in Amps /\ phaseSwitch' \in {0, 1}
        /\ ours' \in BOOLEAN
    BY <1>2, DropTypes DEF Handshake
  <2>3. pc' = "reconnectCurrent" /\ kept' \in BOOLEAN
    BY <1>2 DEF Handshake, KeptUnlessReasserted
  <2> QED BY <1>2, <2>1, <2>2, <2>3 DEF Handshake
<1>3. CASE ReconnectCurrentServed
  <2>1. queue # <<>>
    BY <1>3 DEF ReconnectCurrentServed, Turn
  <2>2. Tail(queue) \in Seq(Write) /\ PhaseWrite("poll", Raw(requestedPhase)) \in Write
    BY <2>1, Served, ValueTypes, WriteTypes DEF Issuers
  <2>3. Append(Tail(queue), PhaseWrite("poll", Raw(requestedPhase))) \in Seq(Write)
    BY <2>2, Asked
  <2>4. queue' \in Seq(Write) /\ pc' \in {"reconnectPhase", "heartbeat"}
    BY <1>3, <2>2, <2>3 DEF ReconnectCurrentServed
  <2> QED BY <1>3, <2>1, <2>4, AcknowledgeTypes DEF ReconnectCurrentServed
<1>4. CASE ReconnectPhaseServed
  <2>1. queue # <<>>
    BY <1>4 DEF ReconnectPhaseServed, Turn
  <2>2. queue' \in Seq(Write) /\ pc' = "heartbeat"
    BY <1>4, <2>1, Served DEF ReconnectPhaseServed
  <2> QED BY <1>4, <2>1, <2>2, AcknowledgeTypes DEF ReconnectPhaseServed
<1>5. CASE Heartbeat
  <2>1. /\ wasConnected' \in BOOLEAN /\ recoveryAttempted' \in BOOLEAN
        /\ downshiftAttempted' \in BOOLEAN
        /\ UNCHANGED <<newConnection, registers, ours, wishes, phaseCommand, task, car>>
    BY <1>5 DEF Heartbeat, Reading
  <2>2. CASE /\ queue' = Append(queue, CurrentWrite("poll", ReassertValue))
             /\ pc' = "sessionCurrent" /\ KeptUnlessReasserted
             /\ UNCHANGED <<guardMismatches, snap, data>>
    <3>1. queue' \in Seq(Write)
      BY <2>2, ValueTypes, WriteTypes, Asked DEF Issuers
    <3>2. kept' \in BOOLEAN
      BY <2>2 DEF KeptUnlessReasserted
    <3> QED BY <2>1, <2>2, <3>1, <3>2
  <2>3. CASE GuardPhase(queue) /\ UNCHANGED kept
    BY <2>1, <2>3, GuardTypes
  <2> QED BY <1>5, <2>2, <2>3 DEF Heartbeat
<1>6. CASE SessionCurrentServed
  <2>1. queue # <<>> /\ Tail(queue) \in Seq(Write)
    BY <1>6, Served DEF SessionCurrentServed, Turn
  <2>2. /\ guardMismatches' \in 0 .. Patience - 1 /\ queue' \in Seq(Write)
        /\ pc' \in {"idle", "guard", "sessionPhase"} /\ snap' \in Reading
        /\ data' \in [vehicle : BOOLEAN, phaseSwitch : {0, 1, None}, draw : Draws]
    <3>1. CASE GuardPhase(Tail(queue))
      BY <2>1, <3>1, GuardTypes
    <3>2. CASE /\ queue' = Append(Tail(queue), PhaseWrite("poll", Raw(requestedPhase)))
               /\ pc' = "sessionPhase"
               /\ UNCHANGED <<guardMismatches, snap, data>>
      BY <2>1, <3>2, ValueTypes, WriteTypes, Asked DEF Issuers
    <3> QED BY <1>6, <3>1, <3>2 DEF SessionCurrentServed
  <2> QED BY <1>6, <2>1, <2>2, AcknowledgeTypes DEF SessionCurrentServed
<1>7. CASE SessionPhaseServed
  <2>1. queue # <<>> /\ Tail(queue) \in Seq(Write)
    BY <1>7, Served DEF SessionPhaseServed, Turn
  <2>2. GuardPhase(Tail(queue)) /\ Acknowledge
        /\ UNCHANGED <<latches, wasConnected, wishes, phaseCommand, task, car>>
    BY <1>7 DEF SessionPhaseServed
  <2>3. /\ guardMismatches' \in 0 .. Patience - 1 /\ queue' \in Seq(Write)
        /\ pc' \in {"idle", "guard"} /\ snap' \in Reading
        /\ data' \in [vehicle : BOOLEAN, phaseSwitch : {0, 1, None}, draw : Draws]
    BY <2>1, <2>2, GuardTypes
  <2>4. /\ newConnection' \in BOOLEAN /\ setCurrent' \in Amps /\ phaseSwitch' \in {0, 1}
        /\ ours' \in BOOLEAN /\ kept' \in BOOLEAN
    BY <2>1, <2>2, AcknowledgeTypes
  <2> QED BY <2>2, <2>3, <2>4
<1>8. CASE GuardWriteEnds
  <2>1. queue # <<>> /\ Tail(queue) \in Seq(Write)
    BY <1>8, Served DEF GuardWriteEnds, Turn
  <2> QED BY <1>8, <2>1, FinishTypes, RefuseTypes, AcknowledgeTypes DEF GuardWriteEnds
<1>9. CASE PollFails
  <2>1. CASE Drop /\ UNCHANGED <<queue, kept>>
    BY <1>9, <2>1, DropTypes DEF PollFails, GiveUp, NoReading, Reading
  <2>2. CASE Turn("poll") /\ Refuse
    <3>1. queue # <<>>
      BY <2>2 DEF Turn
    <3> QED BY <1>9, <2>2, <3>1, RefuseTypes DEF PollFails, GiveUp, NoReading, Reading
  <2> QED BY <1>9, <2>1, <2>2 DEF PollFails
<1> QED BY <1>1, <1>2, <1>3, <1>4, <1>5, <1>6, <1>7, <1>8, <1>9 DEF PollSteps

LEMMA RecoveryTypes ==
  ASSUME TypeOK, RecoverySteps
  PROVE  TypeOK'
<1> USE DEF TypeOK, TaskUnchanged, EndRecovery, latches, session, poll, registers, car
<1>1. CASE ObserveEnds \/ DwellAborts \/ RecoveryDone
  <2>1. /\ recovery' \in {"none", "ending"} /\ direction' \in {"none", "up", "down"}
        /\ bufferCommands' \in BOOLEAN
        /\ UNCHANGED <<resumeCurrent, latches, queue, newConnection, registers, ours, kept,
                       requestedPhase, currentIntent, phaseCommand, session, poll, car>>
    BY <1>1 DEF ObserveEnds, DwellAborts, RecoveryDone
  <2> QED BY <2>1
<1>2. CASE Escalate
  <2>1. queue' \in Seq(Write)
    BY <1>2, ConstantFacts, WriteTypes, Asked DEF Escalate, Issuers
  <2> QED BY <1>2, <2>1 DEF Escalate
<1>3. CASE PauseServed
  <2>1. queue # <<>>
    BY <1>3 DEF PauseServed, Turn
  <2>2. queue' \in Seq(Write)
    BY <1>3, <2>1, Served DEF PauseServed
  <2> QED BY <1>3, <2>1, <2>2, AcknowledgeTypes DEF PauseServed
<1>4. CASE Resume
  <2>1. queue' \in Seq(Write)
    BY <1>4, ValueTypes, WriteTypes, Asked DEF Resume, Issuers
  <2>2. resumeCurrent' \in Amps \ {0}
    BY <1>4, ValueTypes, ConstantFacts DEF Resume
  <2>3. /\ recovery' = "resuming" /\ kept' \in BOOLEAN
        /\ UNCHANGED <<direction, bufferCommands, latches, newConnection, registers, ours,
                       requestedPhase, currentIntent, phaseCommand, session, poll, car>>
    BY <1>4 DEF Resume
  <2> QED BY <2>1, <2>2, <2>3
<1>5. CASE ResumeServed
  <2>1. queue # <<>>
    BY <1>5 DEF ResumeServed, Turn
  <2>2. queue' \in Seq(Write)
    BY <1>5, <2>1, Served DEF ResumeServed
  <2>3. /\ newConnection' \in BOOLEAN /\ setCurrent' \in Amps /\ phaseSwitch' \in {0, 1}
        /\ ours' \in BOOLEAN /\ kept' \in BOOLEAN
    BY <1>5, <2>1, AcknowledgeTypes DEF ResumeServed
  <2>4. /\ recovery' = "ending" /\ bufferCommands' \in BOOLEAN
        /\ UNCHANGED <<direction, resumeCurrent, latches, requestedPhase, currentIntent,
                       phaseCommand, session, poll, car>>
    BY <1>5 DEF ResumeServed
  <2> QED BY <2>2, <2>3, <2>4
<1>6. CASE TaskRefused
  <2>1. queue # <<>>
    BY <1>6 DEF TaskRefused, Turn
  <2>2. /\ newConnection' \in BOOLEAN /\ setCurrent' \in Amps /\ phaseSwitch' \in {0, 1}
        /\ ours' \in BOOLEAN /\ kept' \in BOOLEAN /\ queue' \in Seq(Write)
    BY <1>6, <2>1, RefuseTypes DEF TaskRefused
  <2>3. /\ recovery' = "ending" /\ bufferCommands' \in BOOLEAN
        /\ UNCHANGED <<direction, resumeCurrent, latches, requestedPhase, currentIntent,
                       phaseCommand, session, poll, car>>
    BY <1>6 DEF TaskRefused
  <2> QED BY <2>2, <2>3
<1> QED BY <1>1, <1>2, <1>3, <1>4, <1>5, <1>6 DEF RecoverySteps

LEMMA InitTypes == Init => TypeOK
<1> SUFFICES ASSUME Init PROVE TypeOK
  OBVIOUS
<1>1. /\ snap \in Reading /\ queue \in Seq(Write) /\ guardMismatches \in 0 .. Patience - 1
      /\ data \in [vehicle : BOOLEAN, phaseSwitch : {0, 1, None}, draw : Draws]
  BY ChoicesAssumption DEF Init, NoReading, Reading, Snapshot, Draws
<1>2. /\ currentIntent = None /\ resumeCurrent \in Amps \ {0} /\ setCurrent \in Amps
      /\ phaseSwitch \in {0, 1}
  BY ConstantFacts DEF Init
<1> QED BY <1>1, <1>2 DEF Init, TypeOK

LEMMA TypeStep == TypeOK /\ [Next]_vars => TypeOK'
<1> SUFFICES ASSUME TypeOK, [Next]_vars PROVE TypeOK'
  OBVIOUS
<1>1. CASE World
  <2>1. UNCHANGED <<wishes, phaseCommand, task, latches, session, poll, queue, kept>>
    BY <1>1 DEF World, WorldUnchanged, Plug, Unplug, WallboxMinimum, LinkDrops
  <2>2. /\ newConnection' \in BOOLEAN /\ setCurrent' \in Amps /\ phaseSwitch' \in {0, 1}
        /\ ours' \in BOOLEAN /\ vehicle' \in BOOLEAN /\ sessionMinimum' \in BOOLEAN
    BY <1>1, ConstantFacts, DropTypes
       DEF World, Plug, Unplug, WallboxMinimum, LinkDrops, TypeOK, registers, car
  <2> QED BY <2>1, <2>2 DEF TypeOK, wishes, task, latches, session, poll
<1>2. CASE UNCHANGED vars
  BY <1>2 DEF vars, wishes, task, latches, session, poll, registers, car, TypeOK
<1> QED BY <1>1, <1>2, CommandTypes, PollTypes, RecoveryTypes DEF Next

\* Every variable keeps its type, however many writes wait.
THEOREM TypeCorrect == Spec => []TypeOK
BY InitTypes, TypeStep, PTL DEF Spec
-----------------------------------------------------------------------------
\* The refinement of PhaseFix: commands are kept exactly during a pause, and
\* what is watched for has not had its pause.
FixInv ==
  /\ bufferCommands \in BOOLEAN
  /\ bufferCommands <=> recovery \in {"pausing", "dwell", "resuming"}
  /\ recovery = "none" <=> direction = "none"
  /\ recovery \in {"none", "observe", "pausing", "dwell", "resuming", "ending"}
  /\ recovery = "observe" => \/ direction = "up" /\ ~recoveryAttempted
                             \/ direction = "down" /\ ~downshiftAttempted

LEMMA OnlyReArms ==
  ASSUME FixInv, UNCHANGED <<recovery, direction, bufferCommands>>,
         recoveryAttempted' => recoveryAttempted, downshiftAttempted' => downshiftAttempted
  PROVE  FixInv' /\ Fix!ReArm
<1>1. Stage' = Stage
  BY DEF Stage
<1>2. Spent' \in SUBSET Spent
  BY DEF Spent
<1> QED BY <1>1, <1>2 DEF Fix!ReArm, FixInv

LEMMA CommandRefines ==
  ASSUME FixInv, RequestOne \/ PhaseGate
  PROVE  FixInv' /\ Fix!Next
<1>1. CASE RequestOne
  <2>1. /\ recovery' = IF recovery \in {"none", "ending"} THEN "none" ELSE "ending"
        /\ direction' = IF recovery \in {"none", "ending"} THEN "none" ELSE direction
        /\ bufferCommands' = FALSE /\ recoveryAttempted' = FALSE
        /\ downshiftAttempted' = downshiftAttempted
    BY <1>1 DEF RequestOne, CancelRecovery
  <2>2. Spent' \in SUBSET Spent
    BY <2>1 DEF Spent
  <2>3. FixInv'
    BY <2>1 DEF FixInv
  <2>4. ASSUME recovery = "none" PROVE Fix!Next
    BY <2>1, <2>2, <2>4 DEF FixInv, Stage, Fix!ReArm, Fix!Next
  <2>5. ASSUME recovery = "ending" PROVE Fix!Next
    BY <2>1, <2>2, <2>5 DEF FixInv, Stage, Fix!Leave, Fix!Next
  <2>6. ASSUME recovery = "observe" PROVE Fix!Next
    BY <2>1, <2>2, <2>6 DEF FixInv, Stage, Fix!GiveUp, Fix!Next
  <2>7. ASSUME recovery \in {"pausing", "dwell", "resuming"} PROVE Fix!Next
    BY <2>1, <2>2, <2>7 DEF Stage, Fix!Release, Fix!Next
  <2> QED BY <2>3, <2>4, <2>5, <2>6, <2>7 DEF FixInv
<1>2. CASE PhaseGate
  <2>1. UNCHANGED <<bufferCommands, recoveryAttempted, downshiftAttempted>>
    BY <1>2 DEF PhaseGate, latches
  <2>2. CASE UNCHANGED <<recovery, direction>>
    BY <2>1, <2>2, OnlyReArms DEF Fix!Next
  <2>3. ASSUME NEW d \in {"up", "down"}, recovery' = "observe", direction' = d,
               recovery = "none", d \notin Spent
        PROVE  FixInv' /\ Fix!Next
    <3>1. Stage = "idle" /\ Stage' = "watching" /\ Spent' = Spent
      BY <2>1, <2>3 DEF Stage, Spent
    <3>2. Fix!Start(d)
      BY <2>1, <2>3, <3>1 DEF Fix!Start
    <3>3. d \in Fix!Directions
      BY DEF Fix!Directions
    <3>4. FixInv'
      BY <2>1, <2>3 DEF FixInv, Spent
    <3> QED BY <3>2, <3>3, <3>4 DEF Fix!Next
  <2>4. CASE ShouldStartRecovery(data) /\ recovery' = "observe" /\ direction' = "up"
    BY <2>3, <2>4 DEF ShouldStartRecovery, RecoveryActive, Spent
  <2>5. CASE ShouldStartDownshift(data) /\ recovery' = "observe" /\ direction' = "down"
    BY <2>3, <2>5 DEF ShouldStartDownshift, RecoveryActive, Spent
  <2> QED BY <1>2, <2>2, <2>4, <2>5 DEF PhaseGate
<1> QED BY <1>1, <1>2

LEMMA RecoveryRefines ==
  ASSUME FixInv, RecoverySteps
  PROVE  FixInv' /\ Fix!Next
<1>1. CASE ObserveEnds
  <2>1. UNCHANGED <<direction, bufferCommands, recoveryAttempted, downshiftAttempted>>
        /\ recovery = "observe" /\ recovery' = "ending"
    BY <1>1 DEF ObserveEnds, EndRecovery, FixInv, latches
  <2> QED BY <2>1 DEF FixInv, Stage, Spent, Fix!GiveUp, Fix!Next
<1>2. CASE Escalate
  <2>1. /\ recovery = "observe" /\ recovery' = "pausing" /\ bufferCommands' = TRUE
        /\ direction' = direction
        /\ recoveryAttempted' = (recoveryAttempted \/ direction = "up")
        /\ downshiftAttempted' = (downshiftAttempted \/ direction = "down")
    BY <1>2 DEF Escalate
  <2>2. Stage = "watching" /\ Stage' = "pausing"
    BY <2>1 DEF Stage
  <2>3. direction \notin Spent /\ Spent' = Spent \cup {direction}
    BY <2>1 DEF FixInv, Spent
  <2>4. FixInv'
    BY <2>1 DEF FixInv
  <2> QED BY <2>1, <2>2, <2>3, <2>4 DEF Fix!Hold, Fix!Next
<1>3. CASE PauseServed \/ Resume
  <2>1. /\ recovery \in {"pausing", "dwell"} /\ recovery' \in {"dwell", "resuming"}
        /\ UNCHANGED <<direction, bufferCommands, recoveryAttempted, downshiftAttempted>>
    BY <1>3 DEF PauseServed, Resume, latches
  <2> QED BY <2>1 DEF FixInv, Stage, Spent, Fix!ReArm, Fix!Next
<1>4. CASE DwellAborts \/ ResumeServed \/ TaskRefused
  <2>1. /\ recovery \in {"pausing", "dwell", "resuming"} /\ recovery' = "ending"
        /\ bufferCommands' = FALSE
        /\ UNCHANGED <<direction, recoveryAttempted, downshiftAttempted>>
    BY <1>4 DEF DwellAborts, ResumeServed, TaskRefused, EndRecovery, latches
  <2> QED BY <2>1 DEF FixInv, Stage, Spent, Fix!Release, Fix!Next
<1>5. CASE RecoveryDone
  <2>1. /\ recovery = "ending" /\ recovery' = "none" /\ direction' = "none"
        /\ UNCHANGED <<bufferCommands, recoveryAttempted, downshiftAttempted>>
    BY <1>5 DEF RecoveryDone, latches
  <2> QED BY <2>1 DEF FixInv, Stage, Spent, Fix!Leave, Fix!Next
<1> QED BY <1>1, <1>2, <1>3, <1>4, <1>5 DEF RecoverySteps

LEMMA StepsRefine ==
  ASSUME FixInv, [Next]_vars
  PROVE  FixInv' /\ Fix!Next
<1>1. ASSUME UNCHANGED task, recoveryAttempted' => recoveryAttempted,
             downshiftAttempted' => downshiftAttempted
      PROVE  FixInv' /\ Fix!Next
  BY <1>1, OnlyReArms DEF task, Fix!Next
<1>2. CASE UNCHANGED vars \/ World
  BY <1>1, <1>2 DEF vars, World, Plug, Unplug, WallboxMinimum, LinkDrops, WorldUnchanged, latches
<1>3. CASE Evcc \/ CommandSteps
  <2>1. ASSUME NEW amps, SetCurrent(amps) PROVE FixInv' /\ Fix!Next
    BY <1>1, <2>1 DEF SetCurrent, latches
  <2>2. CASE RequestThree
    BY <1>1, <2>2 DEF RequestThree
  <2>3. CASE CurrentServed \/ CurrentRefused \/ PhaseServed \/ PhaseRefused
    BY <1>1, <2>3 DEF CurrentServed, CurrentRefused, PhaseServed, PhaseRefused, latches
  <2> QED BY <1>3, <2>1, <2>2, <2>3, CommandRefines DEF Evcc, SetEnabled, CommandSteps
<1>4. CASE PollSteps
  <2>1. UNCHANGED task
    BY <1>4 DEF PollSteps, PollRead, Handshake, ReconnectCurrentServed, ReconnectPhaseServed,
         Heartbeat, SessionCurrentServed, SessionPhaseServed, GuardWriteEnds, PollFails,
         PollUnchanged
  <2>2. (recoveryAttempted' => recoveryAttempted) /\ (downshiftAttempted' => downshiftAttempted)
    <3>1. CASE Heartbeat
      BY <3>1 DEF Heartbeat
    <3>2. CASE \/ PollRead \/ Handshake \/ ReconnectCurrentServed \/ ReconnectPhaseServed
               \/ SessionCurrentServed \/ SessionPhaseServed \/ GuardWriteEnds \/ PollFails
      BY <3>2 DEF PollRead, Handshake, ReconnectCurrentServed, ReconnectPhaseServed,
           SessionCurrentServed, SessionPhaseServed, GuardWriteEnds, PollFails, latches
    <3> QED BY <1>4, <3>1, <3>2 DEF PollSteps
  <2> QED BY <1>1, <2>1, <2>2
<1> QED BY <1>2, <1>3, <1>4, RecoveryRefines DEF Next

\* External control keeps the promise of PhaseFix, whatever evcc asks for while
\* a fix runs.
THEOREM ExternalImplementsFix == Spec => ImplementsPhaseFix
<1>1. Init => FixInv /\ Fix!Init
  BY DEF Init, FixInv, Stage, Spent, Fix!Init
<1>2. FixInv /\ [Next]_vars => FixInv' /\ [Fix!Next]_(Fix!fixVars)
  BY StepsRefine
<1> QED BY <1>1, <1>2, PTL DEF Spec, ImplementsPhaseFix, Fix!Spec
-----------------------------------------------------------------------------
\* What ends up in register 5004.
\* What waits from some write of evcc's or of a poll on, or all of it and what the
\* wallbox took last, is at most this current.
AnchoredIn(q, own, amps, intent) ==
  \E k \in 0 .. Len(q) :
    /\ k = 0 => (own => amps <= intent)
    /\ k > 0 => q[k].register = "current" /\ q[k].by # "task"
    /\ \A i \in 1 .. Len(q) : i >= k /\ q[i].register = "current" => q[i].value <= intent

\* The recovery has at most one write waiting; behind the 0 A of its pause, and
\* after it, nothing but 0 A waits.
HushedIn(q, stage, own, amps) ==
  /\ \A i \in 1 .. Len(q) : q[i].by = "task" => stage \in {"pausing", "resuming"}
  /\ \A i, j \in 1 .. Len(q) : q[i].by = "task" /\ q[j].by = "task" => i = j
  /\ stage = "pausing" =>
       \A i, j \in 1 .. Len(q) :
         q[i].by = "task" /\ i <= j /\ q[j].register = "current" => q[j].value = 0
  /\ stage = "dwell" =>
       /\ own => amps = 0
       /\ \A i \in 1 .. Len(q) : q[i].register = "current" => q[i].value = 0

\* Both, the anchor once a write that carries the last current has been asked for.
Fits(q, stage, own, amps, intent, heldBack) ==
  /\ HushedIn(q, stage, own, amps)
  /\ heldBack => intent > 0
  /\ ~heldBack /\ intent # None => AnchoredIn(q, own, amps, intent)

QueueInv == Fits(queue, recovery, ours, setCurrent, currentIntent, kept)

\* The value and the ownership of the register once a write is served.
Lands(w, amps) == IF w.register = "current" THEN w.value ELSE amps
Owned(w, own) == own \/ w.register = "current"

LEMMA AnchorServed ==
  ASSUME NEW q \in Seq(Write), q # <<>>, NEW own \in BOOLEAN, NEW amps \in Amps,
         NEW intent \in Amps, AnchoredIn(q, own, amps, intent)
  PROVE  AnchoredIn(Tail(q), Owned(Head(q), own), Lands(Head(q), amps), intent)
<1> USE ConstantFacts, Served
<1>1. PICK k \in 0 .. Len(q) :
        /\ k = 0 => (own => amps <= intent)
        /\ k > 0 => q[k].register = "current" /\ q[k].by # "task"
        /\ \A i \in 1 .. Len(q) : i >= k /\ q[i].register = "current" => q[i].value <= intent
  BY DEF AnchoredIn
<1>2. /\ Len(Tail(q)) = Len(q) - 1 /\ Len(q) \in Nat \ {0} /\ Head(q) = q[1]
      /\ \A i \in 1 .. Len(q) - 1 : Tail(q)[i] = q[i + 1]
  OBVIOUS
<1>3. CASE k <= 1
  <2>1. \A i \in 1 .. Len(q) : q[i].register = "current" => q[i].value <= intent
    BY <1>1, <1>3
  <2>2. 1 \in 1 .. Len(q)
    BY <1>2
  <2>3. Head(q).register = "current" => Head(q).value <= intent
    BY <1>2, <2>1, <2>2
  <2>4. Owned(Head(q), own) => Lands(Head(q), amps) <= intent
    <3>1. CASE Head(q).register = "current"
      BY <2>3, <3>1 DEF Lands
    <3>2. CASE Head(q).register # "current"
      <4>1. k = 0
        BY <1>1, <1>2, <1>3, <3>2
      <4> QED BY <1>1, <3>2, <4>1 DEF Owned, Lands
    <3> QED BY <3>1, <3>2
  <2>5. \A i \in 1 .. Len(Tail(q)) : Tail(q)[i].register = "current" => Tail(q)[i].value <= intent
    BY <1>2, <2>1
  <2>6. 0 \in 0 .. Len(Tail(q)) /\ ~(0 > 0)
    BY <1>2
  <2> QED BY <2>4, <2>5, <2>6 DEF AnchoredIn
<1>4. CASE k > 1
  <2>1. k - 1 \in 1 .. Len(Tail(q)) /\ Tail(q)[k - 1] = q[k]
    BY <1>2, <1>4
  <2>2. \A i \in 1 .. Len(Tail(q)) :
          i >= k - 1 /\ Tail(q)[i].register = "current" => Tail(q)[i].value <= intent
    BY <1>1, <1>2
  <2>3. Tail(q)[k - 1].register = "current" /\ Tail(q)[k - 1].by # "task"
    BY <1>1, <1>4, <2>1
  <2>4. k - 1 \in 0 .. Len(Tail(q)) /\ k - 1 # 0
    BY <2>1
  <2> QED BY <2>2, <2>3, <2>4 DEF AnchoredIn
<1> QED BY <1>1, <1>3, <1>4

\* A register that the wallbox took back says nothing against the anchor.
LEMMA AnchorDropped ==
  ASSUME NEW q \in Seq(Write), NEW own \in BOOLEAN, NEW amps, NEW other,
         NEW intent \in Amps, AnchoredIn(q, own, amps, intent)
  PROVE  AnchoredIn(q, FALSE, other, intent)
BY DEF AnchoredIn

LEMMA AnchorAppended ==
  ASSUME NEW q \in Seq(Write), NEW own \in BOOLEAN, NEW amps \in Amps, NEW w \in Write,
         NEW intent \in Amps, AnchoredIn(q, own, amps, intent),
         w.register = "current" => w.value <= intent
  PROVE  AnchoredIn(Append(q, w), own, amps, intent)
<1>1. PICK k \in 0 .. Len(q) :
        /\ k = 0 => (own => amps <= intent)
        /\ k > 0 => q[k].register = "current" /\ q[k].by # "task"
        /\ \A i \in 1 .. Len(q) : i >= k /\ q[i].register = "current" => q[i].value <= intent
  BY DEF AnchoredIn
<1>2. /\ Len(Append(q, w)) = Len(q) + 1 /\ Len(q) \in Nat
      /\ \A i \in 1 .. Len(q) : Append(q, w)[i] = q[i]
      /\ Append(q, w)[Len(q) + 1] = w
  BY Asked
<1>3. k \in 0 .. Len(Append(q, w))
  BY <1>2
<1>4. k > 0 => Append(q, w)[k].register = "current" /\ Append(q, w)[k].by # "task"
  BY <1>1, <1>2
<1>5. ASSUME NEW i \in 1 .. Len(Append(q, w)), i >= k, Append(q, w)[i].register = "current"
      PROVE  Append(q, w)[i].value <= intent
  <2>1. i \in 1 .. Len(q) \/ i = Len(q) + 1
    BY <1>2
  <2> QED BY <1>1, <1>2, <1>5, <2>1
<1> QED BY <1>1, <1>3, <1>4, <1>5 DEF AnchoredIn

\* A new write of evcc's or of a poll is an anchor whatever waits before it.
LEMMA AnchorRenewed ==
  ASSUME NEW q \in Seq(Write), NEW own \in BOOLEAN, NEW amps \in Amps, NEW w \in Write,
         NEW intent \in Amps, w.register = "current", w.by # "task", w.value <= intent
  PROVE  AnchoredIn(Append(q, w), own, amps, intent)
<1>1. /\ Len(Append(q, w)) = Len(q) + 1 /\ Len(q) \in Nat
      /\ Append(q, w)[Len(q) + 1] = w
  BY Asked
<1>2. Len(q) + 1 \in 0 .. Len(Append(q, w)) /\ Len(q) + 1 # 0
  BY <1>1
<1>3. \A i \in 1 .. Len(Append(q, w)) : i >= Len(q) + 1 => i = Len(q) + 1
  BY <1>1
<1>4. \A i \in 1 .. Len(Append(q, w)) :
        i >= Len(q) + 1 /\ Append(q, w)[i].register = "current"
        => Append(q, w)[i].value <= intent
  BY <1>1, <1>3
<1> QED BY <1>1, <1>2, <1>4 DEF AnchoredIn

\* Calling off the write of the recovery leaves the anchor, which is not it.
LEMMA AnchorCalledOff ==
  ASSUME queue \in Seq(Write), NEW own \in BOOLEAN, NEW amps \in Amps,
         NEW intent \in Amps, AnchoredIn(queue, own, amps, intent)
  PROVE  AnchoredIn(WithoutTask, own, amps, intent)
<1>1. CASE WithoutTask = queue
  BY <1>1
<1>2. CASE WithoutTask # queue
  <2>1. PICK i \in 1 .. Len(queue) :
          /\ queue[i].by = "task" /\ Len(WithoutTask) = Len(queue) - 1
          /\ \A j \in 1 .. Len(queue) - 1 :
               WithoutTask[j] = IF j < i THEN queue[j] ELSE queue[j + 1]
    BY <1>2, CalledOff
  <2>2. PICK k \in 0 .. Len(queue) :
          /\ k = 0 => (own => amps <= intent)
          /\ k > 0 => queue[k].register = "current" /\ queue[k].by # "task"
          /\ \A j \in 1 .. Len(queue) :
               j >= k /\ queue[j].register = "current" => queue[j].value <= intent
    BY DEF AnchoredIn
  <2> DEFINE new == IF k < i THEN k ELSE k - 1
  <2>3. k # i /\ Len(queue) \in Nat
    BY <2>1, <2>2
  <2>4. new \in 0 .. Len(WithoutTask) /\ (new = 0 <=> k = 0)
    BY <2>1, <2>3
  <2>5. k > 0 => WithoutTask[new] = queue[k]
    BY <2>1, <2>3
  <2>6. ASSUME NEW j \in 1 .. Len(WithoutTask), j >= new, WithoutTask[j].register = "current"
        PROVE  WithoutTask[j].value <= intent
    <3>1. j \in 1 .. Len(queue) - 1
      BY <2>1
    <3>2. CASE j < i
      <4>1. j \in 1 .. Len(queue) /\ j >= k /\ WithoutTask[j] = queue[j]
        BY <2>1, <2>3, <2>6, <3>1, <3>2
      <4> QED BY <2>2, <2>6, <4>1
    <3>3. CASE j >= i
      <4>1. j + 1 \in 1 .. Len(queue) /\ j + 1 >= k /\ WithoutTask[j] = queue[j + 1]
        BY <2>1, <2>3, <2>6, <3>1, <3>3
      <4> QED BY <2>2, <2>6, <4>1
    <3> QED BY <3>1, <3>2, <3>3
  <2> HIDE DEF new
  <2>7. new > 0 => WithoutTask[new].register = "current" /\ WithoutTask[new].by # "task"
    BY <2>2, <2>4, <2>5
  <2>8. new = 0 => (own => amps <= intent)
    BY <2>2, <2>4
  <2> QED BY <2>4, <2>6, <2>7, <2>8 DEF AnchoredIn
<1> QED BY <1>1, <1>2

LEMMA HushServed ==
  ASSUME NEW q \in Seq(Write), q # <<>>, Head(q).by # "task", NEW own \in BOOLEAN,
         NEW amps \in Amps, NEW stage, HushedIn(q, stage, own, amps)
  PROVE  HushedIn(Tail(q), stage, Owned(Head(q), own), Lands(Head(q), amps))
<1>1. /\ Len(Tail(q)) = Len(q) - 1 /\ Len(q) \in Nat \ {0} /\ Head(q) = q[1]
      /\ \A i \in 1 .. Len(q) - 1 : Tail(q)[i] = q[i + 1]
  BY Served
<1>2. \A i \in 1 .. Len(Tail(q)) : i + 1 \in 1 .. Len(q) /\ Tail(q)[i] = q[i + 1]
  BY <1>1
<1>3. \A i \in 1 .. Len(Tail(q)) : Tail(q)[i].by = "task" => stage \in {"pausing", "resuming"}
  BY <1>2 DEF HushedIn
<1>4. ASSUME NEW i \in 1 .. Len(Tail(q)), NEW j \in 1 .. Len(Tail(q)),
             Tail(q)[i].by = "task", Tail(q)[j].by = "task"
      PROVE  i = j
  <2>1. i + 1 = j + 1
    BY <1>2, <1>4 DEF HushedIn
  <2> QED BY <2>1
<1>5. ASSUME stage = "pausing", NEW i \in 1 .. Len(Tail(q)), NEW j \in 1 .. Len(Tail(q)),
             Tail(q)[i].by = "task", i <= j, Tail(q)[j].register = "current"
      PROVE  Tail(q)[j].value = 0
  <2>1. i + 1 <= j + 1
    BY <1>5
  <2> QED BY <1>2, <1>5, <2>1 DEF HushedIn
<1>6. ASSUME stage = "dwell"
      PROVE  /\ Owned(Head(q), own) => Lands(Head(q), amps) = 0
             /\ \A i \in 1 .. Len(Tail(q)) :
                  Tail(q)[i].register = "current" => Tail(q)[i].value = 0
  <2>1. /\ own => amps = 0
        /\ \A i \in 1 .. Len(q) : q[i].register = "current" => q[i].value = 0
    BY <1>6 DEF HushedIn
  <2>2. Head(q).register = "current" => Head(q).value = 0
    BY <1>1, <2>1
  <2> QED BY <1>2, <2>1, <2>2 DEF Owned, Lands
<1> QED BY <1>3, <1>4, <1>5, <1>6 DEF HushedIn

LEMMA HushDropped ==
  ASSUME NEW q, NEW own, NEW amps, NEW other, NEW stage, HushedIn(q, stage, own, amps)
  PROVE  HushedIn(q, stage, FALSE, other)
BY DEF HushedIn

LEMMA HushAppended ==
  ASSUME NEW q \in Seq(Write), NEW own, NEW amps, NEW stage, NEW w \in Write,
         HushedIn(q, stage, own, amps), w.by # "task",
         stage \in {"pausing", "dwell"} /\ w.register = "current" => w.value = 0
  PROVE  HushedIn(Append(q, w), stage, own, amps)
<1>1. /\ Len(Append(q, w)) = Len(q) + 1 /\ Len(q) \in Nat
      /\ \A i \in 1 .. Len(q) : Append(q, w)[i] = q[i]
      /\ Append(q, w)[Len(q) + 1] = w
  BY Asked
<1>2. \A i \in 1 .. Len(Append(q, w)) :
        \/ i \in 1 .. Len(q) /\ Append(q, w)[i] = q[i]
        \/ i = Len(q) + 1 /\ Append(q, w)[i] = w
  BY <1>1
<1>3. \A i \in 1 .. Len(Append(q, w)) :
        Append(q, w)[i].by = "task" => i \in 1 .. Len(q) /\ q[i].by = "task"
  BY <1>2
<1>4. \A i \in 1 .. Len(Append(q, w)) :
        Append(q, w)[i].by = "task" => stage \in {"pausing", "resuming"}
  BY <1>3 DEF HushedIn
<1>5. \A i, j \in 1 .. Len(Append(q, w)) :
        Append(q, w)[i].by = "task" /\ Append(q, w)[j].by = "task" => i = j
  BY <1>3 DEF HushedIn
<1>6. ASSUME stage = "pausing",
             NEW i \in 1 .. Len(Append(q, w)), NEW j \in 1 .. Len(Append(q, w)),
             Append(q, w)[i].by = "task", i <= j, Append(q, w)[j].register = "current"
      PROVE  Append(q, w)[j].value = 0
  <2>1. i \in 1 .. Len(q) /\ q[i].by = "task"
    BY <1>3, <1>6
  <2>2. CASE j \in 1 .. Len(q) /\ Append(q, w)[j] = q[j]
    BY <1>6, <2>1, <2>2 DEF HushedIn
  <2>3. CASE Append(q, w)[j] = w
    BY <1>6, <2>3
  <2> QED BY <1>2, <2>2, <2>3
<1>7. stage = "dwell" =>
        /\ own => amps = 0
        /\ \A i \in 1 .. Len(Append(q, w)) :
             Append(q, w)[i].register = "current" => Append(q, w)[i].value = 0
  BY <1>2 DEF HushedIn
<1> QED BY <1>4, <1>5, <1>6, <1>7 DEF HushedIn

\* Without a write of the recovery only its stage matters.
LEMMA HushWithoutTask ==
  ASSUME NEW q, NEW own, NEW amps, NEW stage, stage \notin {"pausing", "dwell"},
         \A i \in 1 .. Len(q) : q[i].by # "task"
  PROVE  HushedIn(q, stage, own, amps)
BY DEF HushedIn
-----------------------------------------------------------------------------
\* The queue of writes as evcc and the polls change it.
LEMMA FitsServed ==
  ASSUME NEW q \in Seq(Write), q # <<>>, Head(q).by # "task", NEW own \in BOOLEAN,
         NEW amps \in Amps, NEW stage, NEW intent \in Amps \cup {None}, NEW heldBack,
         Fits(q, stage, own, amps, intent, heldBack)
  PROVE  Fits(Tail(q), stage, Owned(Head(q), own), Lands(Head(q), amps), intent, heldBack)
BY HushServed, AnchorServed DEF Fits

LEMMA FitsDropped ==
  ASSUME NEW q \in Seq(Write), NEW own \in BOOLEAN, NEW amps, NEW other, NEW stage,
         NEW intent \in Amps \cup {None}, NEW heldBack,
         Fits(q, stage, own, amps, intent, heldBack)
  PROVE  Fits(q, stage, FALSE, other, intent, heldBack)
BY HushDropped, AnchorDropped DEF Fits

LEMMA FitsPhaseWrite ==
  ASSUME NEW q \in Seq(Write), NEW own \in BOOLEAN, NEW amps \in Amps, NEW stage,
         NEW intent \in Amps \cup {None}, NEW heldBack, NEW issuer \in Issuers \ {"task"},
         NEW raw \in {0, 1}, Fits(q, stage, own, amps, intent, heldBack)
  PROVE  Fits(Append(q, PhaseWrite(issuer, raw)), stage, own, amps, intent, heldBack)
<1> DEFINE w == PhaseWrite(issuer, raw)
<1>1. w \in Write /\ w.register # "current" /\ w.by # "task"
  BY WriteTypes DEF PhaseWrite
<1> HIDE DEF w
<1>2. Fits(Append(q, w), stage, own, amps, intent, heldBack)
  BY <1>1, HushAppended, AnchorAppended DEF Fits
<1> QED BY <1>2 DEF w

\* A write of a poll carries evcc's current or 0 A, and 0 A during a pause.
LEMMA FitsReassert ==
  ASSUME TypeOK, FixInv, QueueInv, NEW own \in BOOLEAN, NEW amps \in Amps,
         Fits(queue, recovery, own, amps, currentIntent, kept)
  PROVE  Fits(Append(queue, CurrentWrite("poll", ReassertValue)), recovery, own, amps,
              currentIntent, kept /\ ReassertValue # currentIntent)
<1> DEFINE w == CurrentWrite("poll", ReassertValue)
<1>1. /\ queue \in Seq(Write) /\ currentIntent \in Amps \cup {None} /\ kept \in BOOLEAN
      /\ ReassertValue \in Amps
  BY ValueTypes DEF TypeOK
<1>2. w \in Write /\ w.register = "current" /\ w.by # "task" /\ w.value = ReassertValue
  BY <1>1, WriteTypes DEF CurrentWrite, Issuers
<1>3. recovery \in {"pausing", "dwell"} => ReassertValue = 0
  BY DEF FixInv, ReassertValue
<1>4. currentIntent # None => ReassertValue <= currentIntent
  BY <1>1, ConstantFacts DEF ReassertValue
<1> HIDE DEF w
<1>5. HushedIn(Append(queue, w), recovery, own, amps)
  BY <1>1, <1>2, <1>3, HushAppended DEF Fits
<1>6. kept /\ ReassertValue # currentIntent => currentIntent > 0
  BY DEF Fits, QueueInv
<1>7. ASSUME ~(kept /\ ReassertValue # currentIntent), currentIntent # None
      PROVE  AnchoredIn(Append(queue, w), own, amps, currentIntent)
  BY <1>1, <1>2, <1>4, <1>7, AnchorAppended, AnchorRenewed DEF Fits
<1>8. Fits(Append(queue, w), recovery, own, amps, currentIntent,
           kept /\ ReassertValue # currentIntent)
  BY <1>5, <1>6, <1>7 DEF Fits
<1> QED BY <1>8 DEF w

QueueTypes ==
  /\ queue \in Seq(Write) /\ ours \in BOOLEAN /\ kept \in BOOLEAN
  /\ setCurrent \in Amps /\ currentIntent \in Amps \cup {None}

LEMMA QueueTyped == TypeOK => QueueTypes
BY DEF TypeOK, QueueTypes

LEMMA AcknowledgeFits ==
  ASSUME QueueTypes, QueueInv, queue # <<>>, Head(queue).by # "task", Acknowledge,
         UNCHANGED <<recovery, currentIntent>>
  PROVE  Fits(Tail(queue), recovery', ours', setCurrent', currentIntent', kept')
<1>1. Fits(Tail(queue), recovery, Owned(Head(queue), ours), Lands(Head(queue), setCurrent),
           currentIntent, kept)
  BY FitsServed DEF QueueTypes, QueueInv
<1>2. /\ ours' = Owned(Head(queue), ours) /\ setCurrent' = Lands(Head(queue), setCurrent)
      /\ kept' = kept
  BY DEF Acknowledge, Owned, Lands
<1> QED BY <1>1, <1>2

LEMMA DropFits ==
  ASSUME QueueTypes, QueueInv, ours' = FALSE, UNCHANGED <<queue, kept, recovery, currentIntent>>
  PROVE  QueueInv'
<1>1. Fits(queue, recovery, FALSE, setCurrent', currentIntent, kept)
  BY FitsDropped DEF QueueTypes, QueueInv
<1> QED BY <1>1 DEF QueueInv

LEMMA RefuseFits ==
  ASSUME QueueTypes, QueueInv, queue # <<>>, Head(queue).by # "task", Refuse,
         UNCHANGED <<recovery, currentIntent>>
  PROVE  QueueInv'
<1> DEFINE own == Owned(Head(queue), ours)
           amps == Lands(Head(queue), setCurrent)
<1>1. Fits(Tail(queue), recovery, own, amps, currentIntent, kept)
  BY FitsServed DEF QueueTypes, QueueInv
<1>2. own \in BOOLEAN
  BY DEF Owned
<1>3. ours' = FALSE /\ queue' = Tail(queue) /\ kept' = kept /\ queue' \in Seq(Write)
  BY Served DEF Refuse, Drop, QueueTypes
<1> HIDE DEF own, amps
<1>4. Fits(queue', recovery, FALSE, setCurrent', currentIntent, kept)
  BY <1>1, <1>2, <1>3, FitsDropped DEF QueueTypes
<1> QED BY <1>3, <1>4 DEF QueueInv

\* A phase write, or none, after whatever else the step does to the queue.
PhaseAfter(q) ==
  \/ queue' = q
  \/ \E issuer \in Issuers \ {"task"}, raw \in {0, 1} :
       queue' = Append(q, PhaseWrite(issuer, raw))

LEMMA PhaseAfterFits ==
  ASSUME NEW q \in Seq(Write), QueueTypes',
         Fits(q, recovery', ours', setCurrent', currentIntent', kept'), PhaseAfter(q)
  PROVE  QueueInv'
<1>1. CASE queue' = q
  BY <1>1 DEF QueueInv
<1>2. ASSUME NEW issuer \in Issuers \ {"task"}, NEW raw \in {0, 1},
             queue' = Append(q, PhaseWrite(issuer, raw))
      PROVE  QueueInv'
  BY <1>2, FitsPhaseWrite DEF QueueTypes, QueueInv
<1> QED BY <1>1, <1>2 DEF PhaseAfter

LEMMA CommandFits ==
  ASSUME QueueTypes, QueueTypes', TypeOK, FixInv, QueueInv, Evcc \/ CommandSteps
  PROVE  QueueInv'
<1>1. ASSUME NEW amps \in Int, SetCurrent(amps)
      PROVE  QueueInv'
  <2> DEFINE value == Clamp(amps)
             w == CurrentWrite("evcc", value)
  <2>1. value \in Amps /\ w \in Write
    BY ConstantFacts, WriteTypes DEF Issuers
  <2>2. w.by # "task" /\ w.register = "current" /\ w.value = value
    BY DEF CurrentWrite
  <2>3. /\ currentIntent' = value
        /\ queue' = IF bufferCommands /\ value > 0 THEN queue ELSE Append(queue, w)
        /\ kept' = (bufferCommands /\ value > 0)
        /\ UNCHANGED <<recovery, ours, setCurrent>>
    BY <1>1 DEF SetCurrent, KeepsFromWire, task, registers
  <2> HIDE DEF value, w
  <2>4. CASE bufferCommands /\ value > 0
    BY <2>3, <2>4 DEF QueueInv, Fits
  <2>5. CASE ~(bufferCommands /\ value > 0)
    <3>1. recovery \in {"pausing", "dwell"} => value = 0
      BY <2>1, <2>5, ConstantFacts DEF FixInv
    <3>2. HushedIn(Append(queue, w), recovery, ours, setCurrent)
      BY <2>1, <2>2, <3>1, HushAppended DEF QueueInv, Fits, QueueTypes
    <3>3. value <= value
      BY <2>1, ConstantFacts
    <3>4. AnchoredIn(Append(queue, w), ours, setCurrent, value)
      BY <2>1, <2>2, <3>3, AnchorRenewed DEF QueueTypes
    <3>5. ~kept' /\ queue' = Append(queue, w)
      BY <2>3, <2>5
    <3> QED BY <2>3, <3>2, <3>4, <3>5 DEF QueueInv, Fits
  <2> QED BY <2>4, <2>5
<1>2. CASE CurrentServed
  <2>1. /\ queue # <<>> /\ Head(queue).by # "task" /\ Acknowledge /\ queue' = Tail(queue)
        /\ UNCHANGED <<recovery, currentIntent>>
    BY <1>2 DEF CurrentServed, Turn, task, wishes
  <2> QED BY <2>1, AcknowledgeFits DEF QueueInv
<1>3. CASE CurrentRefused
  <2>1. /\ queue # <<>> /\ Head(queue).by # "task" /\ Refuse
        /\ UNCHANGED <<recovery, currentIntent>>
    BY <1>3 DEF CurrentRefused, Turn, task, wishes
  <2> QED BY <2>1, RefuseFits
<1>4. CASE RequestThree
  <2>1. UNCHANGED <<recovery, currentIntent, setCurrent, ours, kept>>
    BY <1>4 DEF RequestThree, task, registers
  <2>2. Fits(queue, recovery', ours', setCurrent', currentIntent', kept')
    BY <2>1 DEF QueueInv
  <2>3. PhaseAfter(queue)
    BY <1>4 DEF RequestThree, PhaseAfter, Issuers
  <2> QED BY <2>2, <2>3, PhaseAfterFits DEF QueueTypes
<1>5. CASE RequestOne
  <2>1. /\ UNCHANGED <<currentIntent, kept>> /\ recovery' \in {"none", "ending"}
        /\ WithoutTask \in Seq(Write)
    BY <1>5, CalledOff DEF RequestOne, CancelRecovery, QueueTypes
  <2>2. \A i \in 1 .. Len(WithoutTask) : WithoutTask[i].by # "task"
    <3>1. CASE WithoutTask = queue /\ \A j \in 1 .. Len(queue) : queue[j].by # "task"
      BY <3>1
    <3>2. ASSUME NEW i \in 1 .. Len(queue), queue[i].by = "task",
                 Len(WithoutTask) = Len(queue) - 1,
                 \A j \in 1 .. Len(queue) - 1 :
                   WithoutTask[j] = IF j < i THEN queue[j] ELSE queue[j + 1]
          PROVE  \A j \in 1 .. Len(WithoutTask) : WithoutTask[j].by # "task"
      <4>1. \A j \in 1 .. Len(queue) : queue[j].by = "task" => j = i
        BY <3>2 DEF QueueInv, Fits, HushedIn
      <4>2. Len(queue) \in Nat
        BY DEF QueueTypes
      <4>3. ASSUME NEW j \in 1 .. Len(WithoutTask)
            PROVE  WithoutTask[j].by # "task"
        <5>1. CASE j < i
          <6>1. j \in 1 .. Len(queue) /\ WithoutTask[j] = queue[j] /\ j # i
            BY <3>2, <4>2, <5>1
          <6> QED BY <4>1, <6>1
        <5>2. CASE j >= i
          <6>1. j + 1 \in 1 .. Len(queue) /\ WithoutTask[j] = queue[j + 1] /\ j + 1 # i
            BY <3>2, <4>2, <5>2
          <6> QED BY <4>1, <6>1
        <5> QED BY <4>2, <5>1, <5>2
      <4> QED BY <4>3
    <3> QED BY <3>1, <3>2, CalledOff DEF QueueTypes
  <2>3. HushedIn(WithoutTask, recovery', ours', setCurrent')
    BY <2>1, <2>2, HushWithoutTask
  <2>4. ASSUME ~kept, currentIntent # None
        PROVE  AnchoredIn(WithoutTask, ours', setCurrent', currentIntent)
    <3>1. AnchoredIn(queue, ours, setCurrent, currentIntent) /\ currentIntent \in Amps
      BY <2>4 DEF QueueInv, Fits, QueueTypes
    <3>2. CASE UNCHANGED <<registers, ours>>
      BY <3>1, <3>2, AnchorCalledOff DEF QueueTypes, registers
    <3>3. CASE Turn("task") /\ setCurrent' = Head(queue).value /\ ours' = TRUE
      <4>1. queue # <<>> /\ Head(queue) \in Write /\ Head(queue).by = "task"
        BY <3>3, Served DEF Turn, QueueTypes
      <4>2. Head(queue).register = "current"
        BY <4>1, WriteFacts
      <4>3. AnchoredIn(Tail(queue), TRUE, setCurrent', currentIntent)
        <5>1. AnchoredIn(Tail(queue), Owned(Head(queue), ours),
                         Lands(Head(queue), setCurrent), currentIntent)
          BY <3>1, <4>1, AnchorServed DEF QueueTypes
        <5>2. Owned(Head(queue), ours) = TRUE /\ Lands(Head(queue), setCurrent) = setCurrent'
          BY <3>3, <4>2 DEF Owned, Lands
        <5> QED BY <5>1, <5>2
      <4>4. WithoutTask = Tail(queue)
        <5>1. queue[1].by = "task" /\ 1 \in 1 .. Len(queue)
          BY <4>1, Served DEF QueueTypes
        <5>2. PICK i \in 1 .. Len(queue) :
                /\ queue[i].by = "task" /\ Len(WithoutTask) = Len(queue) - 1
                /\ \A j \in 1 .. Len(queue) - 1 :
                     WithoutTask[j] = IF j < i THEN queue[j] ELSE queue[j + 1]
          BY <5>1, CalledOff DEF QueueTypes
        <5>3. i = 1
          BY <5>1, <5>2 DEF QueueInv, Fits, HushedIn
        <5>4. \A j \in 1 .. Len(queue) - 1 : WithoutTask[j] = queue[j + 1]
          BY <5>2, <5>3 DEF QueueTypes
        <5>5. /\ Tail(queue) \in Seq(Write) /\ Len(Tail(queue)) = Len(queue) - 1
              /\ \A j \in 1 .. Len(queue) - 1 : Tail(queue)[j] = queue[j + 1]
          BY <4>1, Served DEF QueueTypes
        <5> QED BY <2>1, <5>2, <5>4, <5>5
      <4> QED BY <3>3, <4>3, <4>4
    <3> QED BY <1>5, <3>2, <3>3 DEF RequestOne, CancelRecovery
  <2>5. Fits(WithoutTask, recovery', ours', setCurrent', currentIntent', kept')
    BY <2>1, <2>3, <2>4 DEF Fits, QueueInv
  <2>6. PhaseAfter(WithoutTask)
    BY <1>5 DEF RequestOne, PhaseAfter, Issuers
  <2> QED BY <2>1, <2>5, <2>6, PhaseAfterFits
<1>6. CASE PhaseServed
  <2>1. /\ queue # <<>> /\ Head(queue).by # "task" /\ Acknowledge /\ queue' = Tail(queue)
        /\ UNCHANGED <<recovery, currentIntent>>
    BY <1>6 DEF PhaseServed, Turn, task, wishes
  <2> QED BY <2>1, AcknowledgeFits DEF QueueInv
<1>7. CASE PhaseRefused
  <2>1. /\ queue # <<>> /\ Head(queue).by # "task" /\ Refuse
        /\ UNCHANGED <<recovery, currentIntent>>
    BY <1>7 DEF PhaseRefused, Turn, task, wishes
  <2> QED BY <2>1, RefuseFits
<1>8. CASE PhaseGate
  <2>1. /\ recovery' \in {recovery, "observe"} /\ (recovery' # recovery => recovery = "none")
        /\ UNCHANGED <<queue, ours, setCurrent, currentIntent, kept>>
    BY <1>8 DEF PhaseGate, wishes, registers, ShouldStartRecovery, ShouldStartDownshift,
                RecoveryActive
  <2>2. HushedIn(queue, recovery', ours, setCurrent)
    BY <2>1 DEF QueueInv, Fits, HushedIn
  <2> QED BY <2>1, <2>2 DEF QueueInv, Fits
<1>9. ASSUME NEW on \in BOOLEAN, SetEnabled(on)
      PROVE  QueueInv'
  <2>1. (IF on THEN resumeCurrent ELSE 0) \in Int
    BY ConstantFacts DEF TypeOK
  <2> QED BY <1>1, <1>9, <2>1 DEF SetEnabled
<1> QED
  BY <1>1, <1>2, <1>3, <1>4, <1>5, <1>6, <1>7, <1>8, <1>9, CurrentsAssumption
     DEF Evcc, CommandSteps

LEMMA GuardQueues ==
  ASSUME NEW q, GuardPhase(q)
  PROVE  PhaseAfter(q)
BY DEF GuardPhase, PhaseAfter, Issuers, Raw

LEMMA PollFits ==
  ASSUME QueueTypes, QueueTypes', TypeOK, FixInv, QueueInv, PollSteps
  PROVE  QueueInv'
<1>1. UNCHANGED <<recovery, currentIntent>>
  BY DEF PollSteps, PollRead, Handshake, ReconnectCurrentServed, ReconnectPhaseServed,
     Heartbeat, SessionCurrentServed, SessionPhaseServed, GuardWriteEnds, PollFails,
     PollUnchanged, wishes, task
<1>2. CASE PollRead
  BY <1>1, <1>2 DEF PollRead, registers, QueueInv
<1>3. ASSUME queue' = Append(queue, CurrentWrite("poll", ReassertValue)),
             KeptUnlessReasserted, Fits(queue, recovery, ours', setCurrent', currentIntent, kept)
      PROVE  QueueInv'
  <2>1. Fits(queue', recovery, ours', setCurrent', currentIntent, kept')
    BY <1>3, FitsReassert DEF KeptUnlessReasserted, QueueTypes
  <2> QED BY <1>1, <2>1 DEF QueueInv
<1>4. CASE Handshake
  <2>1. CASE UNCHANGED <<registers, ours>>
    BY <1>3, <1>4, <2>1 DEF Handshake, registers, QueueInv
  <2>2. CASE Drop
    <3>1. ours' = FALSE
      BY <2>2 DEF Drop
    <3>2. Fits(queue, recovery, ours', setCurrent', currentIntent, kept)
      BY <3>1, FitsDropped DEF QueueInv, QueueTypes
    <3> QED BY <1>3, <1>4, <3>2 DEF Handshake
  <2> QED BY <1>4, <2>1, <2>2 DEF Handshake
<1>5. CASE Heartbeat
  <2>1. UNCHANGED <<ours, setCurrent>>
    BY <1>5 DEF Heartbeat, registers
  <2>2. CASE queue' = Append(queue, CurrentWrite("poll", ReassertValue)) /\ KeptUnlessReasserted
    BY <1>3, <2>1, <2>2 DEF QueueInv
  <2>3. CASE GuardPhase(queue) /\ UNCHANGED kept
    <3>1. Fits(queue, recovery', ours', setCurrent', currentIntent', kept')
      BY <1>1, <2>1, <2>3 DEF QueueInv
    <3> QED BY <2>3, <3>1, GuardQueues, PhaseAfterFits DEF QueueTypes
  <2> QED BY <1>5, <2>2, <2>3 DEF Heartbeat
<1>6. ASSUME Turn("poll"), Acknowledge, PhaseAfter(Tail(queue))
      PROVE  QueueInv'
  <2>1. queue # <<>> /\ Head(queue).by # "task" /\ Tail(queue) \in Seq(Write)
    BY <1>6, Served DEF Turn, QueueTypes
  <2> QED BY <1>1, <1>6, <2>1, AcknowledgeFits, PhaseAfterFits
<1>7. CASE ReconnectCurrentServed \/ ReconnectPhaseServed
  <2>1. PhaseAfter(Tail(queue))
    BY <1>7 DEF ReconnectCurrentServed, ReconnectPhaseServed, PhaseAfter, Issuers, Raw
  <2> QED BY <1>6, <1>7, <2>1 DEF ReconnectCurrentServed, ReconnectPhaseServed
<1>8. CASE SessionCurrentServed
  <2>1. CASE GuardPhase(Tail(queue))
    BY <1>6, <1>8, <2>1, GuardQueues DEF SessionCurrentServed
  <2>2. CASE queue' = Append(Tail(queue), PhaseWrite("poll", Raw(requestedPhase)))
    <3>1. PhaseAfter(Tail(queue))
      BY <2>2 DEF PhaseAfter, Issuers, Raw
    <3> QED BY <1>6, <1>8, <3>1 DEF SessionCurrentServed
  <2> QED BY <1>8, <2>1, <2>2 DEF SessionCurrentServed
<1>9. CASE SessionPhaseServed
  BY <1>6, <1>9, GuardQueues DEF SessionPhaseServed
<1>10. ASSUME Turn("poll"), Refuse
       PROVE  QueueInv'
  <2>1. queue # <<>> /\ Head(queue).by # "task"
    BY <1>10 DEF Turn
  <2> QED BY <1>1, <1>10, <2>1, RefuseFits
<1>11. CASE GuardWriteEnds
  <2>1. CASE Acknowledge /\ queue' = Tail(queue)
    BY <1>6, <1>11, <2>1 DEF GuardWriteEnds, PhaseAfter
  <2>2. CASE Refuse
    BY <1>10, <1>11, <2>2 DEF GuardWriteEnds
  <2> QED BY <1>11, <2>1, <2>2 DEF GuardWriteEnds
<1>12. CASE PollFails
  <2>1. CASE Drop /\ UNCHANGED <<queue, kept>>
    BY <1>1, <2>1, DropFits DEF Drop
  <2>2. CASE Turn("poll") /\ Refuse
    BY <1>10, <2>2
  <2> QED BY <1>12, <2>1, <2>2 DEF PollFails
<1> QED BY <1>2, <1>4, <1>5, <1>7, <1>8, <1>9, <1>11, <1>12 DEF PollSteps
-----------------------------------------------------------------------------
\* The recovery's own writes.  Once its write is out of the queue it has none.
LEMMA TaskServed ==
  ASSUME QueueTypes, QueueInv, Turn("task")
  PROVE  /\ queue # <<>> /\ Tail(queue) \in Seq(Write) /\ Head(queue).register = "current"
         /\ \A i \in 1 .. Len(Tail(queue)) : Tail(queue)[i].by # "task"
         /\ recovery = "pausing" =>
              /\ Head(queue).value = 0
              /\ \A i \in 1 .. Len(Tail(queue)) :
                   Tail(queue)[i].register = "current" => Tail(queue)[i].value = 0
<1>1. /\ queue # <<>> /\ Head(queue).by = "task" /\ Head(queue) = queue[1]
      /\ Head(queue) \in Write /\ Tail(queue) \in Seq(Write)
      /\ Len(Tail(queue)) = Len(queue) - 1 /\ Len(queue) \in Nat \ {0}
      /\ \A i \in 1 .. Len(queue) - 1 : Tail(queue)[i] = queue[i + 1]
  BY Served DEF Turn, QueueTypes
<1>2. 1 \in 1 .. Len(queue) /\ Head(queue).register = "current"
  BY <1>1, WriteFacts
<1>3. \A i \in 1 .. Len(Tail(queue)) :
        i + 1 \in 1 .. Len(queue) /\ i + 1 # 1 /\ 1 <= i + 1 /\ Tail(queue)[i] = queue[i + 1]
  BY <1>1
<1>4. \A i \in 1 .. Len(Tail(queue)) : Tail(queue)[i].by # "task"
  BY <1>1, <1>2, <1>3 DEF QueueInv, Fits, HushedIn
<1>5. ASSUME recovery = "pausing"
      PROVE  /\ Head(queue).value = 0
             /\ \A i \in 1 .. Len(Tail(queue)) :
                  Tail(queue)[i].register = "current" => Tail(queue)[i].value = 0
  <2>1. \A j \in 1 .. Len(queue) : queue[j].register = "current" => queue[j].value = 0
    BY <1>1, <1>2, <1>5 DEF QueueInv, Fits, HushedIn
  <2> QED BY <1>1, <1>2, <1>3, <2>1
<1> QED BY <1>1, <1>2, <1>4, <1>5

LEMMA TaskAnchor ==
  ASSUME QueueTypes, QueueInv, Turn("task"), ~kept, currentIntent # None
  PROVE  AnchoredIn(Tail(queue), TRUE, Head(queue).value, currentIntent)
<1>1. queue # <<>> /\ Head(queue).register = "current"
  BY TaskServed
<1>2. AnchoredIn(Tail(queue), Owned(Head(queue), ours), Lands(Head(queue), setCurrent),
                 currentIntent)
  BY <1>1, AnchorServed DEF QueueTypes, QueueInv, Fits
<1>3. Owned(Head(queue), ours) = TRUE /\ Lands(Head(queue), setCurrent) = Head(queue).value
  BY <1>1 DEF Owned, Lands
<1> QED BY <1>2, <1>3

LEMMA RecoveryFits ==
  ASSUME QueueTypes, QueueTypes', TypeOK, FixInv, QueueInv, RecoverySteps
  PROVE  QueueInv'
<1>1. UNCHANGED currentIntent
  BY DEF RecoverySteps, ObserveEnds, Escalate, PauseServed, DwellAborts, Resume,
         ResumeServed, TaskRefused, RecoveryDone, TaskUnchanged
<1>2. CASE ObserveEnds \/ DwellAborts \/ RecoveryDone
  <2>1. /\ recovery \notin {"pausing", "resuming"} /\ recovery' \in {"ending", "none"}
        /\ UNCHANGED <<queue, ours, setCurrent, kept>>
    BY <1>2 DEF ObserveEnds, DwellAborts, RecoveryDone, EndRecovery, registers
  <2>2. HushedIn(queue, recovery', ours, setCurrent)
    BY <2>1 DEF QueueInv, Fits, HushedIn
  <2> QED BY <1>1, <2>1, <2>2 DEF QueueInv, Fits
<1>3. CASE Escalate
  <2> DEFINE w == CurrentWrite("task", 0)
  <2>1. /\ recovery = "observe" /\ recovery' = "pausing" /\ queue' = Append(queue, w)
        /\ UNCHANGED <<ours, setCurrent, kept>>
    BY <1>3 DEF Escalate, registers
  <2>2. w \in Write /\ w.by = "task" /\ w.register = "current" /\ w.value = 0
    BY ConstantFacts, WriteTypes DEF CurrentWrite, Issuers
  <2> HIDE DEF w
  <2>3. /\ Len(queue') = Len(queue) + 1 /\ Len(queue) \in Nat
        /\ \A i \in 1 .. Len(queue) : queue'[i] = queue[i] /\ queue[i].by # "task"
        /\ queue'[Len(queue) + 1] = w
    BY <2>1, <2>2, Asked DEF QueueTypes, QueueInv, Fits, HushedIn
  <2>4. \A i \in 1 .. Len(queue') : queue'[i].by = "task" => i = Len(queue) + 1
    BY <2>3
  <2>5. \A i, j \in 1 .. Len(queue') :
          queue'[i].by = "task" /\ i <= j /\ queue'[j].register = "current" => queue'[j].value = 0
    BY <2>2, <2>3, <2>4
  <2>6. HushedIn(queue', recovery', ours', setCurrent')
    BY <2>1, <2>4, <2>5 DEF HushedIn
  <2>7. ASSUME ~kept, currentIntent # None
        PROVE  AnchoredIn(queue', ours, setCurrent, currentIntent)
    <3>1. currentIntent \in Amps /\ 0 <= currentIntent
      BY <2>7, ConstantFacts DEF QueueTypes
    <3> QED BY <2>1, <2>2, <2>7, <3>1, AnchorAppended DEF QueueTypes, QueueInv, Fits
  <2> QED BY <1>1, <2>1, <2>6, <2>7 DEF QueueInv, Fits
<1>4. CASE PauseServed \/ ResumeServed
  <2>1. /\ Turn("task") /\ queue' = Tail(queue) /\ kept' = kept
        /\ setCurrent' = Head(queue).value /\ ours' = TRUE
    BY <1>4, TaskServed DEF PauseServed, ResumeServed, Acknowledge
  <2>2. HushedIn(queue', recovery', ours', setCurrent')
    <3>1. CASE PauseServed
      <4>1. recovery = "pausing" /\ recovery' = "dwell"
        BY <3>1 DEF PauseServed
      <4> QED BY <2>1, <4>1, TaskServed DEF HushedIn
    <3>2. CASE ResumeServed
      <4>1. recovery' = "ending"
        BY <3>2 DEF ResumeServed, EndRecovery
      <4> QED BY <2>1, <4>1, TaskServed, HushWithoutTask
    <3> QED BY <1>4, <3>1, <3>2
  <2> QED BY <1>1, <2>1, <2>2, TaskAnchor DEF QueueInv, Fits
<1>5. CASE Resume
  <2> DEFINE w == CurrentWrite("task", ResumeValue)
  <2>1. /\ recovery = "dwell" /\ recovery' = "resuming" /\ queue' = Append(queue, w)
        /\ kept' = FALSE /\ UNCHANGED <<ours, setCurrent>>
    BY <1>5 DEF Resume, registers
  <2>2. /\ w \in Write /\ w.by = "task" /\ w.register = "current"
        /\ currentIntent # None => w.value = currentIntent
    BY ValueTypes, WriteTypes DEF CurrentWrite, Issuers, ResumeValue
  <2> HIDE DEF w
  <2>3. /\ Len(queue') = Len(queue) + 1 /\ Len(queue) \in Nat
        /\ \A i \in 1 .. Len(queue) : queue'[i] = queue[i] /\ queue[i].by # "task"
        /\ queue'[Len(queue) + 1] = w
    BY <2>1, <2>2, Asked DEF QueueTypes, QueueInv, Fits, HushedIn
  <2>4. \A i \in 1 .. Len(queue') : queue'[i].by = "task" => i = Len(queue) + 1
    BY <2>3
  <2>5. HushedIn(queue', recovery', ours', setCurrent')
    BY <2>1, <2>4 DEF HushedIn
  <2>6. ASSUME currentIntent # None
        PROVE  AnchoredIn(queue', ours, setCurrent, currentIntent)
    <3>1. currentIntent \in Amps /\ 0 <= currentIntent /\ currentIntent <= currentIntent
      BY <2>6, ConstantFacts DEF QueueTypes
    <3>2. /\ ours => setCurrent <= currentIntent
          /\ \A i \in 1 .. Len(queue) :
               queue[i].register = "current" => queue[i].value <= currentIntent
      BY <2>1, <3>1 DEF QueueInv, Fits, HushedIn
    <3>3. AnchoredIn(queue, ours, setCurrent, currentIntent)
      <4>1. 0 \in 0 .. Len(queue) /\ ~(0 > 0)
        BY <2>3
      <4> QED BY <3>2, <4>1 DEF AnchoredIn
    <3> QED BY <2>1, <2>2, <2>6, <3>1, <3>3, AnchorAppended DEF QueueTypes
  <2> QED BY <1>1, <2>1, <2>5, <2>6 DEF QueueInv, Fits
<1>6. CASE TaskRefused
  <2>1. /\ Turn("task") /\ queue' = Tail(queue) /\ kept' = kept /\ ours' = FALSE
        /\ recovery' = "ending"
    BY <1>6 DEF TaskRefused, Refuse, Drop, EndRecovery
  <2>2. HushedIn(queue', recovery', ours', setCurrent')
    BY <2>1, TaskServed, HushWithoutTask
  <2>3. ASSUME ~kept, currentIntent # None
        PROVE  AnchoredIn(queue', ours', setCurrent', currentIntent)
    BY <2>1, <2>3, TaskAnchor, TaskServed, AnchorDropped DEF QueueTypes
  <2> QED BY <1>1, <2>1, <2>2, <2>3 DEF QueueInv, Fits
<1> QED BY <1>2, <1>3, <1>4, <1>5, <1>6 DEF RecoverySteps
-----------------------------------------------------------------------------
\* The inductive invariant.
IInv == TypeOK /\ FixInv /\ QueueInv

LEMMA InvStep == IInv /\ [Next]_vars => IInv'
<1> SUFFICES ASSUME IInv, [Next]_vars PROVE IInv'
  OBVIOUS
<1>1. TypeOK' /\ FixInv'
  BY TypeStep, StepsRefine DEF IInv
<1>2. QueueTypes /\ QueueTypes'
  <2>1. TypeOK' => QueueTypes'
    BY DEF TypeOK, QueueTypes
  <2> QED BY <1>1, <2>1, QueueTyped DEF IInv
<1>3. ASSUME World PROVE QueueInv'
  <2>1. UNCHANGED <<queue, kept, recovery, currentIntent>>
    BY <1>3 DEF World, Plug, Unplug, WallboxMinimum, LinkDrops, WorldUnchanged, wishes, task
  <2>2. CASE ours' = FALSE
    BY <1>2, <2>1, <2>2, DropFits DEF IInv
  <2>3. CASE UNCHANGED <<ours, registers>>
    BY <2>1, <2>3 DEF IInv, QueueInv, registers
  <2> QED BY <1>3, <2>2, <2>3 DEF World, Plug, Unplug, WallboxMinimum, LinkDrops, Drop
<1>4. ASSUME UNCHANGED vars PROVE QueueInv'
  BY <1>4 DEF vars, IInv, QueueInv, wishes, task, registers
<1>5. QueueInv'
  BY <1>2, <1>3, <1>4, CommandFits, PollFits, RecoveryFits DEF Next, IInv
<1> QED BY <1>1, <1>5 DEF IInv

LEMMA InvHolds == Spec => []IInv
<1>1. Init => IInv
  <2> SUFFICES ASSUME Init PROVE IInv
    OBVIOUS
  <2>1. TypeOK
    BY InitTypes
  <2>2. FixInv
    BY DEF Init, FixInv
  <2>3. QueueInv
    <3>1. queue = <<>> /\ currentIntent = None /\ kept = FALSE /\ recovery = "none"
      BY DEF Init
    <3>2. HushedIn(queue, recovery, ours, setCurrent)
      BY <3>1 DEF HushedIn
    <3> QED BY <3>1, <3>2 DEF QueueInv, Fits
  <2> QED BY <2>1, <2>2, <2>3 DEF IInv
<1> QED BY <1>1, InvStep, PTL DEF Spec

\* With nothing more on its way, register 5004 is at most evcc's last current.
LEMMA Anchored ==
  ASSUME IInv, ours, ~kept, ~CurrentWritten(queue), currentIntent # None
  PROVE  setCurrent <= currentIntent
<1>1. PICK k \in 0 .. Len(queue) :
        /\ k = 0 => (ours => setCurrent <= currentIntent)
        /\ k > 0 => queue[k].register = "current"
  BY DEF IInv, QueueInv, Fits, AnchoredIn
<1>2. \A i \in 1 .. Len(queue) : queue[i].register # "current"
  BY DEF CurrentWritten, IInv, TypeOK
<1>3. k = 0
  BY <1>1, <1>2 DEF IInv, TypeOK
<1> QED BY <1>1, <1>3

\* The register never keeps more than evcc's last current, whatever reconnects,
\* pauses and cancelled recoveries wrote in between.
THEOREM RegisterIsBounded == Spec => []NeverMoreThanAsked
<1>1. IInv => NeverMoreThanAsked
  BY Anchored DEF NeverMoreThanAsked
<1> QED BY <1>1, InvHolds, PTL

\* A stop lands, whatever was under way when it was given.
THEOREM StopIsLanded == Spec => []StopLands
<1>1. IInv => StopLands
  <2> SUFFICES ASSUME IInv, currentIntent = 0, ours, ~CurrentWritten(queue)
               PROVE  setCurrent = 0
    BY DEF StopLands
  <2>1. ~kept
    BY DEF IInv, QueueInv, Fits
  <2>2. setCurrent <= 0
    BY <2>1, Anchored DEF None
  <2> QED BY <2>2, ConstantFacts DEF IInv, TypeOK
<1> QED BY <1>1, InvHolds, PTL

\* Nobody but the wallbox raises the current of a pause that has begun.
THEOREM PauseIsHeld == Spec => PauseHolds
<1>1. IInv /\ [Next]_vars => [(recovery = "dwell" /\ setCurrent' > setCurrent)
                              => ~ours']_setCurrent
  <2> SUFFICES ASSUME IInv, [Next]_vars, recovery = "dwell", setCurrent' > setCurrent, ours'
               PROVE  FALSE
    OBVIOUS
  <2>1. setCurrent \in Amps /\ queue \in Seq(Write) /\ 0 <= setCurrent
    BY ConstantFacts DEF IInv, TypeOK
  <2>2. \A i \in 1 .. Len(queue) : queue[i].register = "current" => queue[i].value = 0
    BY DEF IInv, QueueInv, Fits, HushedIn
  <2>3. \A i \in 1 .. Len(queue) : queue[i].by # "task"
    BY DEF IInv, QueueInv, Fits, HushedIn
  <2>4. ASSUME queue # <<>> PROVE Head(queue) = queue[1] /\ 1 \in 1 .. Len(queue)
    BY <2>1, <2>4, Served
  <2>5. ASSUME queue # <<>>, Acknowledge PROVE FALSE
    <3>1. setCurrent' = 0 \/ setCurrent' = setCurrent
      BY <2>2, <2>4, <2>5 DEF Acknowledge
    <3> QED BY <2>1, <3>1, ConstantFacts
  <2>6. ASSUME UNCHANGED setCurrent PROVE FALSE
    BY <2>1, <2>6, ConstantFacts
  <2>7. ~Drop /\ ~Refuse
    BY DEF Drop, Refuse
  <2>8. CASE Evcc \/ CommandSteps
    <3>1. ASSUME NEW amps, SetCurrent(amps) PROVE FALSE
      BY <2>6, <3>1 DEF SetCurrent, registers
    <3>2. CASE RequestThree \/ PhaseGate
      BY <2>6, <3>2 DEF RequestThree, PhaseGate, registers
    <3>3. CASE RequestOne
      <4>1. ~Turn("task")
        BY <2>3, <2>4 DEF Turn
      <4> QED BY <2>6, <3>3, <4>1 DEF RequestOne, CancelRecovery, registers
    <3>4. CASE CurrentServed \/ CurrentRefused \/ PhaseServed \/ PhaseRefused
      BY <2>5, <2>7, <3>4 DEF CurrentServed, CurrentRefused, PhaseServed, PhaseRefused, Turn
    <3> QED BY <2>8, <3>1, <3>2, <3>3, <3>4 DEF Evcc, SetEnabled, CommandSteps
  <2>9. CASE PollSteps
    <3>1. CASE PollRead \/ Handshake \/ Heartbeat
      BY <2>6, <2>7, <2>9, <3>1 DEF PollRead, Handshake, Heartbeat, registers
    <3>2. CASE ReconnectCurrentServed \/ ReconnectPhaseServed \/ SessionCurrentServed
               \/ SessionPhaseServed \/ GuardWriteEnds \/ PollFails
      BY <2>5, <2>7, <3>2 DEF ReconnectCurrentServed, ReconnectPhaseServed,
         SessionCurrentServed, SessionPhaseServed, GuardWriteEnds, PollFails, Turn
    <3> QED BY <2>9, <3>1, <3>2 DEF PollSteps
  <2>10. CASE RecoverySteps
    <3>1. CASE DwellAborts \/ Resume
      BY <2>6, <3>1 DEF DwellAborts, Resume, registers
    <3> QED BY <2>10, <3>1 DEF RecoverySteps, ObserveEnds, Escalate, PauseServed, ResumeServed,
                TaskRefused, RecoveryDone
  <2>11. CASE World
    BY <2>6, <2>7, <2>11 DEF World, Plug, Unplug, WallboxMinimum, LinkDrops, registers
  <2>12. CASE UNCHANGED vars
    BY <2>6, <2>12 DEF vars, registers
  <2> QED BY <2>8, <2>9, <2>10, <2>11, <2>12 DEF Next
<1> QED BY <1>1, InvHolds, PTL DEF Spec, PauseHolds
=============================================================================
