----------------------------- MODULE Coordinator -----------------------------
(***************************************************************************)
(* The coordinator as a whole: polls, handshake and life of the entry of   *)
(* Ownership, and the restores of PhaseRestore that its polls start and    *)
(* its data steers.  Polls and web requests interleave; a reload replaces  *)
(* the coordinator but leaves a running restore, a crash ends everything.  *)
(***************************************************************************)
EXTENDS Ownership, PhaseRestore

vars == <<ownVars, restoreVars>>

\* The edge of the unplug is looked at within the reads, before the handshake.
PollReads(connected) == PollRead(connected) /\ SeePoll(connected)

PollEnds == PollServes /\ Publish

\* What of the ownership leaves the restores alone.
OwnershipSteps ==
  /\ \/ PollStarts \/ Handshake \/ PollFails \/ LinkDrops
     \/ ExitBegins \/ StrayPrograms \/ Remove
     \/ \E r \in Managed : RestoreRegister(r)
  /\ UNCHANGED restoreVars

Begins == Setup /\ NewCoordinator
Unloads == Close /\ TasksOutlive
Dies == Crash /\ TasksDie

RestoreSteps == WebSteps /\ UNCHANGED ownVars
ButtonPressed == life = "running" /\ Press /\ UNCHANGED ownVars

Init == OwnInit /\ RestoreInit

Next ==
  \/ \E connected \in BOOLEAN : PollReads(connected)
  \/ PollEnds \/ OwnershipSteps \/ Begins \/ Unloads \/ Dies
  \/ RestoreSteps \/ ButtonPressed

Spec == Init /\ [][Next]_vars
-----------------------------------------------------------------------------
\* Properties.

\* Every variable has its type.
TypeOK == OwnTypeOK /\ RestoreTypeOK

\* The coordinator with its restores is still an owner: whatever the restores
\* do, its steps are steps of Ownership.
ImplementsOwnership == OwnSpec
=============================================================================
