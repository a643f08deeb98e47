--------------------------- MODULE Ownership_proofs ---------------------------
(***************************************************************************)
(* Proofs about Ownership: types, the probe's losses and the programmed    *)
(* failsafe for every store, and, for a store that works, that a baseline  *)
(* only holds original values and that a quiet exit hands them back.       *)
(*                                                                         *)
(* The induction rests on PollOrder: what the objects of one entry hold at *)
(* every stage of its poll.  A running entry has its baseline, so no later *)
(* handshake captures, and what is captured is captured before the first   *)
(* write of any life of the entry (Untouched).                             *)
(***************************************************************************)
EXTENDS Ownership, TLAPS

\* A baseline that was taken has an entry for each register.
Taken(base) == \A r \in Managed : base[r] # "absent"

PollOrder ==
  /\ pc # "idle" => Alive
  /\ life \in {"down", "removed"} => baseline = NoBaseline
  /\ life = "starting" /\ pc \in {"idle", "read"} => newConnection /\ ~baselineLoaded
  /\ life \in {"running", "exiting"} \/ pc \in {"save", "timeout", "current", "serve"}
       => Taken(baseline)
  /\ life \in {"running", "exiting"} => baselineLoaded /\ pc \notin {"load", "capture", "save"}
  /\ pc \in {"capture", "save", "timeout", "current", "serve"} => baselineLoaded
  /\ stored = NoBaseline \/ Taken(stored)
  /\ toRestore # {} => life = "exiting"
  /\ toRestore \subseteq Known(baseline)

OwnTypeInv == OwnTypeOK /\ PollOrder
-----------------------------------------------------------------------------
LEMMA BaselineFacts ==
  /\ NoBaseline \in Baselines
  /\ ~Taken(NoBaseline)
  /\ \A base \in Baselines : Taken(base) => base # NoBaseline
BY DEF NoBaseline, Baselines, Taken, Managed

LEMMA SourceInMemory ==
  ASSUME OwnTypeInv, life \in {"running", "exiting"}
  PROVE  Source = baseline /\ Taken(baseline)
BY BaselineFacts DEF OwnTypeInv, OwnTypeOK, PollOrder, Source

\* What any step of the probe does to its three variables.
LEMMA ProbeTypes ==
  ASSUME OwnTypeInv, NEW connected \in BOOLEAN, PollRead(connected)
  PROVE  /\ supported' \in {"unknown", "yes", "no"} /\ strikes' \in 0 .. MaxStrikes
         /\ losses' \in Nat /\ newConnection' \in BOOLEAN
         /\ losses = strikes => losses' = strikes'
<1>1. MaxStrikes \in Nat \ {0} /\ strikes \in 0 .. MaxStrikes /\ losses \in Nat
      /\ supported \in {"unknown", "yes", "no"}
  BY OwnershipAssumption DEF OwnTypeInv, OwnTypeOK
<1>2. CASE connected /\ WantProbe /\
           \E answer \in RfidAnswers :
             /\ ProbeAnswered(answer, newConnection)
             /\ newConnection' = (answer = "lost")
  <2>1. PICK answer \in RfidAnswers :
               ProbeAnswered(answer, newConnection) /\ newConnection' = (answer = "lost")
    BY <1>2
  <2>2. strikes + 1 <= MaxStrikes
    BY <1>1, <1>2 DEF WantProbe, Disabled
  <2>3. answer \in {"tag", "refused", "lost"}
    BY OwnershipAssumption
  <2>4. supported' \in {"unknown", "yes", "no"}
    BY <1>1, <2>1, <2>3 DEF ProbeAnswered
  <2>5. strikes' \in 0 .. MaxStrikes /\ losses' \in Nat
        /\ (losses = strikes => losses' = strikes')
    <3>1. CASE answer = "tag"
      BY <1>1, <2>1, <3>1 DEF ProbeAnswered, StrikesKept
    <3>2. CASE answer = "lost"
      BY <1>1, <2>1, <2>2, <3>2 DEF ProbeAnswered, StrikesKept
    <3>3. CASE answer = "refused"
      BY <1>1, <2>1, <3>3 DEF ProbeAnswered, StrikesKept
    <3> QED BY <2>3, <3>1, <3>2, <3>3
  <2> QED BY <2>1, <2>4, <2>5
<1>3. CASE NotProbed(newConnection) /\ newConnection' = FALSE
  BY <1>1, <1>3 DEF NotProbed, StrikesKept
<1> QED BY <1>2, <1>3 DEF PollRead

\* Fresh objects are well typed, and hold no baseline.
LEMMA Forgotten ==
  ASSUME Forget
  PROVE  /\ baseline' \in Baselines /\ baselineLoaded' \in BOOLEAN /\ baseline' = NoBaseline
         /\ supported' \in {"unknown", "yes", "no"} /\ strikes' \in 0 .. MaxStrikes
         /\ losses' \in Nat /\ losses' = strikes'
<1>1. NoBaseline \in Baselines /\ MaxStrikes \in Nat \ {0}
  BY BaselineFacts, OwnershipAssumption
<1>2. baseline' \in Baselines /\ baseline' = NoBaseline
  BY <1>1 DEF Forget
<1>3. strikes' \in 0 .. MaxStrikes
  BY <1>1 DEF Forget
<1> QED BY <1>2, <1>3 DEF Forget
-----------------------------------------------------------------------------
\* Types.
LEMMA PollReadTypes ==
  ASSUME OwnTypeInv, NEW connected \in BOOLEAN, PollRead(connected)
  PROVE  OwnTypeInv'
<1>1. /\ pc' = AfterRead /\ pc = "read" /\ life \in {"starting", "running", "exiting"}
      /\ UNCHANGED <<life, memory, stored, register, exit, stray>>
  BY DEF PollRead, InPoll, Alive
<1>2. baseline \in Baselines /\ newConnection \in BOOLEAN /\ baselineLoaded \in BOOLEAN
  BY DEF OwnTypeInv, OwnTypeOK
<1>3. pc' \in {"load", "capture", "timeout", "serve"}
  BY <1>1, <1>2 DEF AfterRead
<1>4. /\ pc' \in {"load", "capture"} => life = "starting"
      /\ pc' \in {"timeout", "serve"} => Taken(baseline)
      /\ pc' \in {"capture", "timeout", "serve"} => baselineLoaded
  <2>1. CASE life \in {"running", "exiting"}
    BY <1>1, <1>2, <1>3, <2>1, BaselineFacts
       DEF AfterRead, NeedsCapture, OwnTypeInv, PollOrder
  <2>2. CASE life = "starting"
    BY <1>1, <1>2, <2>2 DEF AfterRead, OwnTypeInv, PollOrder
  <2> QED BY <1>1, <2>1, <2>2
<1>5. PollOrder'
  BY <1>1, <1>3, <1>4 DEF PollOrder, OwnTypeInv, Alive, memory, exit, Taken, Known
<1> QED BY <1>1, <1>3, <1>5, ProbeTypes DEF OwnTypeInv, OwnTypeOK, memory, exit

LEMMA HandshakeTypes ==
  ASSUME OwnTypeInv, Handshake
  PROVE  OwnTypeInv'
<1> USE DEF OwnTypeInv, OwnTypeOK, PollOrder, InPoll, Alive, memory, exit, rfid
<1>1. CASE LoadBaseline
  <2>1. baseline' \in {stored, NoBaseline} /\ baseline' \in Baselines
    BY <1>1, BaselineFacts DEF LoadBaseline
  <2>2. pc' \in {"capture", "timeout"} /\ (pc' = "timeout" => Taken(baseline'))
    BY <1>1, <2>1 DEF LoadBaseline, NeedsCapture
  <2>3. life = "starting" /\ toRestore = {}
    BY <1>1 DEF LoadBaseline
  <2> QED BY <1>1, <2>1, <2>2, <2>3 DEF LoadBaseline, Taken, Known
<1>2. CASE CaptureBaseline
  <2>1. PICK unread \in SUBSET Managed :
          /\ baseline' = [r \in Managed |-> IF r \in unread THEN "unread" ELSE register[r]]
          /\ newConnection' = (newConnection \/ unread # {})
    BY <1>2 DEF CaptureBaseline
  <2>2. baseline' \in Baselines /\ Taken(baseline') /\ newConnection' \in BOOLEAN
    BY <2>1 DEF Baselines, Taken
  <2>3. life = "starting" /\ toRestore = {}
    BY <1>2 DEF CaptureBaseline
  <2>4. /\ pc' = "save" /\ baselineLoaded' = baselineLoaded
        /\ UNCHANGED <<life, stored, register, exit, stray, rfid>>
    BY <1>2 DEF CaptureBaseline
  <2>5. baselineLoaded
    BY <1>2 DEF CaptureBaseline
  <2> QED BY <2>2, <2>3, <2>4, <2>5 DEF Taken, Known
<1>3. CASE SaveBaseline
  BY <1>3 DEF SaveBaseline, Taken, Known
<1>4. CASE ProgramTimeout
  BY <1>4 DEF ProgramTimeout, RefusalDrops, Drop, Taken, Known, Managed
<1>5. CASE ProgramCurrent
  BY <1>5 DEF ProgramCurrent, RefusalDrops, Drop, Taken, Known, Managed
<1> QED BY <1>1, <1>2, <1>3, <1>4, <1>5 DEF Handshake

LEMMA OtherPollTypes ==
  ASSUME OwnTypeInv, PollStarts \/ PollServes \/ PollFails \/ LinkDrops
  PROVE  OwnTypeInv'
<1> USE DEF OwnTypeInv, OwnTypeOK, PollOrder, InPoll, Alive, memory, exit, rfid
<1>1. CASE PollServes
  BY <1>1 DEF PollServes, Taken, Known
<1>2. CASE PollFails
  <2>1. CASE life = "starting"
    <3>1. Forget /\ life' = "down" /\ pc' = "idle" /\ newConnection' = TRUE
          /\ UNCHANGED <<stored, register, exit, stray>> /\ toRestore = {}
      BY <1>2, <2>1 DEF PollFails, Drop
    <3> QED BY <3>1, Forgotten DEF Taken
  <2>2. CASE life # "starting"
    BY <1>2, <2>2 DEF PollFails, Drop, Taken, Known
  <2> QED BY <2>1, <2>2
<1>3. CASE LinkDrops
  BY <1>3 DEF LinkDrops, Drop, Taken, Known
<1>4. CASE PollStarts
  BY <1>4 DEF PollStarts, Taken, Known
<1> QED BY <1>1, <1>2, <1>3, <1>4

LEMMA LifecycleTypes ==
  ASSUME OwnTypeInv, Lifecycle
  PROVE  OwnTypeInv'
<1> USE DEF OwnTypeInv, OwnTypeOK, PollOrder, InPoll, Alive, memory, exit, rfid
<1>0. NoBaseline \in Baselines /\ MaxStrikes \in Nat \ {0} /\ Known(NoBaseline) = {}
  BY BaselineFacts, OwnershipAssumption DEF Known, NoBaseline
<1>1. CASE Setup
  <2>1. Forget /\ life' = "starting" /\ newConnection' = TRUE /\ lastExit' = "none"
        /\ UNCHANGED <<pc, stored, register, toRestore, stray>> /\ toRestore = {} /\ pc = "idle"
    BY <1>1 DEF Setup
  <2>2. baselineLoaded' = FALSE
    BY <1>1 DEF Setup, Forget
  <2> QED BY <2>1, <2>2, Forgotten DEF Taken
<1>2. CASE ExitBegins
  <2>1. toRestore' = Known(baseline) /\ Known(baseline) \subseteq Managed
    BY <1>2, SourceInMemory DEF ExitBegins, Known
  <2> QED BY <1>2, <2>1 DEF ExitBegins, Taken, Known
<1>3. ASSUME NEW r \in Managed, RestoreRegister(r)
      PROVE  OwnTypeInv'
  <2>1. Source[r] \in {"before", "ours"}
    BY <1>3, SourceInMemory DEF RestoreRegister, Known, Baselines
  <2>2. register' \in [Managed -> {"before", "ours"}]
    BY <1>3, <2>1 DEF RestoreRegister
  <2> QED BY <1>3, <2>2 DEF RestoreRegister, Drop, Taken, Known
<1>4. CASE Close
  <2>1. Forget /\ life' = "down" /\ newConnection' = TRUE /\ pc' = "idle" /\ stray' \in BOOLEAN
        /\ UNCHANGED <<stored, register, exit>> /\ toRestore = {}
    BY <1>4 DEF Close, Drop
  <2> QED BY <2>1, Forgotten DEF Taken
<1>5. CASE StrayPrograms
  BY <1>5 DEF StrayPrograms, Taken, Known
<1>6. CASE Crash
  <2>1. Forget /\ life' = "down" /\ newConnection' = TRUE /\ pc' = "idle" /\ stray' = FALSE
        /\ toRestore' = {} /\ lastExit' = "none" /\ UNCHANGED <<stored, register>>
    BY <1>6 DEF Crash, Drop
  <2> QED BY <2>1, Forgotten DEF Taken
<1>7. CASE Remove
  BY <1>0, <1>7 DEF Remove, Taken, Known
<1> QED BY <1>1, <1>2, <1>3, <1>4, <1>5, <1>6, <1>7 DEF Lifecycle

LEMMA OwnTypeInit == OwnInit => OwnTypeInv
<1>1. NoBaseline \in Baselines /\ MaxStrikes \in Nat \ {0}
  BY BaselineFacts, OwnershipAssumption
<1> SUFFICES ASSUME OwnInit PROVE OwnTypeInv
  OBVIOUS
<1>2. OwnTypeOK
  <2>1. baseline \in Baselines /\ stored \in Baselines
    BY <1>1 DEF OwnInit
  <2>2. register \in [Managed -> {"before", "ours"}] /\ toRestore \in SUBSET Managed
    BY DEF OwnInit
  <2>3. strikes \in 0 .. MaxStrikes /\ losses \in Nat
    BY <1>1 DEF OwnInit
  <2> QED BY <2>1, <2>2, <2>3 DEF OwnInit, OwnTypeOK
<1>3. PollOrder
  BY DEF OwnInit, PollOrder, Alive
<1> QED BY <1>2, <1>3 DEF OwnTypeInv

LEMMA OwnTypeStep == OwnTypeInv /\ [OwnNext]_ownVars => OwnTypeInv'
<1> SUFFICES ASSUME OwnTypeInv, [OwnNext]_ownVars PROVE OwnTypeInv'
  OBVIOUS
<1>1. CASE UNCHANGED ownVars
  BY <1>1 DEF ownVars, memory, exit, rfid, OwnTypeInv, OwnTypeOK, PollOrder, Alive, Taken, Known
<1> QED BY <1>1, PollReadTypes, HandshakeTypes, OtherPollTypes, LifecycleTypes DEF OwnNext

\* Every variable keeps its type; in particular an exit only ever puts back
\* values that were read.
THEOREM OwnTypeCorrect == OwnSpec => []OwnTypeOK
<1>1. OwnTypeInv => OwnTypeOK
  BY DEF OwnTypeInv
<1> QED BY <1>1, OwnTypeInit, OwnTypeStep, PTL DEF OwnSpec

LEMMA OwnTypeInvariant == OwnSpec => []OwnTypeInv
BY OwnTypeInit, OwnTypeStep, PTL DEF OwnSpec
-----------------------------------------------------------------------------
\* The RFID probe: a connection it cost is a strike, and only a tag that was
\* read or a restart forgives strikes.
LEMMA StrikesCount == OwnTypeInv /\ losses = strikes /\ [OwnNext]_ownVars => (losses = strikes)'
<1> SUFFICES ASSUME OwnTypeInv, losses = strikes, [OwnNext]_ownVars
             PROVE  losses' = strikes'
  OBVIOUS
<1>1. ASSUME NEW connected \in BOOLEAN, PollRead(connected)
      PROVE  losses' = strikes'
  BY <1>1, ProbeTypes
<1>2. ASSUME Forget
      PROVE  losses' = strikes'
  BY <1>2, Forgotten
<1>3. CASE Setup \/ Close \/ Crash \/ (PollFails /\ life = "starting")
  BY <1>2, <1>3 DEF Setup, Close, Crash, PollFails
<1>4. CASE \/ PollStarts \/ Handshake \/ PollServes \/ LinkDrops \/ ExitBegins
           \/ StrayPrograms \/ Remove
           \/ (\E r \in Managed : RestoreRegister(r)) \/ (PollFails /\ life # "starting")
           \/ UNCHANGED ownVars
  <2>1. UNCHANGED rfid
    BY <1>4 DEF Handshake, LoadBaseline, CaptureBaseline, SaveBaseline, ProgramTimeout,
                ProgramCurrent, PollStarts, PollServes, LinkDrops, ExitBegins, StrayPrograms,
                Remove, RestoreRegister, PollFails, ownVars
  <2> QED BY <2>1 DEF rfid
<1> QED BY <1>1, <1>3, <1>4 DEF OwnNext, Lifecycle

\* Since the last tag read or restart of the integration the probe has cost at
\* most MaxStrikes connections, however many there were.
THEOREM ProbeIsBounded == OwnSpec => []ProbeLossesBounded
<1>1. OwnInit => losses = strikes
  BY DEF OwnInit
<1>2. OwnTypeInv /\ losses = strikes => ProbeLossesBounded
  BY OwnershipAssumption DEF OwnTypeInv, OwnTypeOK, ProbeLossesBounded
<1> QED BY <1>1, <1>2, StrikesCount, OwnTypeInvariant, PTL DEF OwnSpec
-----------------------------------------------------------------------------
\* The failsafe registers.  A poll that finds no new connection stands on the
\* writes of the handshake before it, each of which cost the connection if it
\* failed.
Ours == \A r \in Managed : register[r] = "ours"

ArmedInv ==
  /\ life = "running" /\ pc \in {"idle", "read"} /\ ~newConnection => Ours
  /\ life \in {"starting", "running"} /\ pc = "serve" /\ ~newConnection => Ours
  /\ life \in {"starting", "running"} /\ pc = "current" /\ ~newConnection
       => register["timeout"] = "ours"

LEMMA ArmedStep == OwnTypeInv /\ ArmedInv /\ [OwnNext]_ownVars => ArmedInv'
<1> SUFFICES ASSUME OwnTypeInv, ArmedInv, [OwnNext]_ownVars PROVE ArmedInv'
  OBVIOUS
<1> USE DEF ArmedInv, Ours, OwnTypeInv, OwnTypeOK, InPoll, memory, exit, rfid
<1>1. ASSUME NEW connected \in BOOLEAN, PollRead(connected)
      PROVE  ArmedInv'
  <2>1. pc = "read" /\ pc' = AfterRead /\ UNCHANGED <<life, register>>
    BY <1>1 DEF PollRead
  <2>2. CASE newConnection
    <3>1. pc' \in {"load", "capture", "timeout"}
      BY <2>1, <2>2 DEF AfterRead
    <3> QED BY <3>1
  <2>3. CASE ~newConnection
    <3>1. life \in {"starting", "running"} => life = "running" /\ Ours
      BY <2>1, <2>3 DEF PollOrder
    <3>2. pc' = "serve"
      BY <2>1, <2>3 DEF AfterRead
    <3> QED BY <2>1, <3>1, <3>2
  <2> QED BY <2>2, <2>3
<1>2. CASE LoadBaseline \/ CaptureBaseline \/ SaveBaseline
  <2>1. pc' \in {"capture", "save", "timeout"}
    BY <1>2 DEF LoadBaseline, CaptureBaseline, SaveBaseline
  <2> QED BY <2>1
<1>3. CASE ProgramTimeout
  <2>1. CASE register' = [register EXCEPT !["timeout"] = "ours"] /\ pc' = "current"
    BY <2>1 DEF Managed
  <2>2. CASE newConnection' = TRUE
    BY <2>2
  <2> QED BY <1>3, <2>1, <2>2 DEF ProgramTimeout, RefusalDrops, Drop
<1>4. CASE ProgramCurrent
  <2>1. CASE register' = [register EXCEPT !["current"] = "ours"] /\ UNCHANGED newConnection
    BY <1>4, <2>1 DEF ProgramCurrent, Managed
  <2>2. CASE newConnection' = TRUE
    BY <2>2
  <2> QED BY <1>4, <2>1, <2>2 DEF ProgramCurrent, RefusalDrops, Drop
<1>5. CASE PollServes \/ PollStarts
  BY <1>5 DEF PollServes, PollStarts, PollOrder, Alive
<1>6. CASE PollFails \/ LinkDrops \/ Setup \/ Close \/ Crash \/ ExitBegins \/ Remove
  <2>1. newConnection' = TRUE \/ life' \notin {"starting", "running"}
    BY <1>6 DEF PollFails, LinkDrops, Setup, Close, Crash, ExitBegins, Remove, Drop
  <2> QED BY <2>1
<1>7. ASSUME NEW r \in Managed, RestoreRegister(r)
      PROVE  ArmedInv'
  BY <1>7 DEF RestoreRegister
<1>8. CASE StrayPrograms
  <2>1. \A r \in Managed : register[r] = "ours" => register'[r] = "ours"
    BY <1>8 DEF StrayPrograms
  <2> QED BY <1>8, <2>1 DEF StrayPrograms, Managed
<1>9. CASE UNCHANGED ownVars
  BY <1>9 DEF ownVars
<1> QED BY <1>1, <1>2, <1>3, <1>4, <1>5, <1>6, <1>7, <1>8, <1>9
        DEF OwnNext, Handshake, Lifecycle

\* A running entry between two polls has both failsafe registers programmed, or
\* knows that it must still do so.
THEOREM FailsafeIsArmed == OwnSpec => []FailsafeArmed
<1>1. OwnInit => ArmedInv
  BY DEF OwnInit, ArmedInv
<1>2. ArmedInv => FailsafeArmed
  BY DEF ArmedInv, FailsafeArmed, Ours
<1> QED BY <1>1, <1>2, ArmedStep, OwnTypeInvariant, PTL DEF OwnSpec
-----------------------------------------------------------------------------
\* The baseline, for a store that works.  Until a baseline is on disk nothing of
\* ours is in the registers; once a poll is past its handshake's save, memory
\* and disk agree.
Untouched ==
  life # "removed" /\ stored = NoBaseline
    => ~stray /\ \A r \in Managed : register[r] = "before"

Agreed ==
  life \in {"running", "exiting"} \/ pc \in {"timeout", "current", "serve"}
    => stored = baseline

OriginalInv ==
  /\ BaselineOriginal
  /\ Untouched
  /\ Agreed
  /\ pc = "capture" => stored = NoBaseline

LEMMA OriginalPollRead ==
  ASSUME OwnTypeInv, OriginalInv, NEW connected \in BOOLEAN, PollRead(connected)
  PROVE  OriginalInv'
<1>1. /\ pc = "read" /\ life \in {"starting", "running", "exiting"} /\ pc' = AfterRead
      /\ UNCHANGED <<life, baseline, stored, register, stray>>
  BY DEF PollRead, InPoll, Alive, memory
<1>2. CASE life = "starting"
  <2>1. pc' = "load"
    BY <1>1, <1>2 DEF AfterRead, OwnTypeInv, PollOrder
  <2> QED BY <1>1, <1>2, <2>1 DEF OriginalInv, BaselineOriginal, Untouched, Agreed
<1>3. CASE life \in {"running", "exiting"}
  <2>1. pc' # "capture"
    BY <1>1, <1>3, BaselineFacts DEF AfterRead, NeedsCapture, OwnTypeInv, OwnTypeOK, PollOrder
  <2> QED BY <1>1, <1>3, <2>1 DEF OriginalInv, BaselineOriginal, Untouched, Agreed
<1> QED BY <1>1, <1>2, <1>3

LEMMA OriginalHandshake ==
  ASSUME ~StoreFails, OwnTypeInv, OriginalInv, Handshake
  PROVE  OriginalInv'
<1> USE DEF OriginalInv, BaselineOriginal, Untouched, Agreed, OwnTypeInv, OwnTypeOK, InPoll, Alive
<1>1. CASE LoadBaseline
  <2>1. life = "starting" /\ baseline' = stored /\ UNCHANGED <<life, stored, register, stray>>
        /\ pc' = IF NeedsCapture(baseline') THEN "capture" ELSE "timeout"
    BY <1>1 DEF LoadBaseline, PollOrder
  <2> QED BY <2>1 DEF NeedsCapture
<1>2. CASE CaptureBaseline
  <2>1. PICK unread \in SUBSET Managed :
          baseline' = [r \in Managed |-> IF r \in unread THEN "unread" ELSE register[r]]
    BY <1>2 DEF CaptureBaseline
  <2>2. pc = "capture" /\ pc' = "save" /\ UNCHANGED <<life, stored, register, stray>>
    BY <1>2 DEF CaptureBaseline
  <2>3. life = "starting"
    BY <2>2 DEF PollOrder
  <2>4. \A r \in Managed : baseline'[r] # "ours"
    BY <2>1, <2>2, <2>3
  <2> QED BY <2>2, <2>3, <2>4
<1>3. CASE SaveBaseline
  <2>1. stored' = baseline /\ pc' = "timeout" /\ Taken(baseline)
        /\ UNCHANGED <<life, memory, register, stray>>
    BY <1>3 DEF SaveBaseline, PollOrder
  <2>2. stored' # NoBaseline
    BY <2>1, BaselineFacts
  <2> QED BY <2>1, <2>2 DEF memory
<1>4. CASE ProgramTimeout \/ ProgramCurrent
  <2>1. /\ pc \in {"timeout", "current"} /\ pc' \in {"current", "serve"}
        /\ UNCHANGED <<life, memory, stored, stray>>
    BY <1>4 DEF ProgramTimeout, ProgramCurrent
  <2>2. stored # NoBaseline
    BY <2>1, BaselineFacts DEF PollOrder
  <2> QED BY <2>1, <2>2 DEF memory
<1> QED BY <1>1, <1>2, <1>3, <1>4 DEF Handshake

LEMMA OriginalStep ==
  ASSUME ~StoreFails, OwnTypeInv, OriginalInv, [OwnNext]_ownVars
  PROVE  OriginalInv'
<1> USE DEF OriginalInv, BaselineOriginal, Untouched, Agreed, OwnTypeInv, OwnTypeOK, memory, exit
<1>0. \A r \in Managed : NoBaseline[r] # "ours"
  BY DEF NoBaseline
<1>1. CASE PollStarts \/ PollServes \/ LinkDrops \/ ExitBegins \/ (PollFails /\ life # "starting")
           \/ UNCHANGED ownVars
  <2>1. /\ UNCHANGED <<baseline, stored, register, stray>>
        /\ pc' \in {pc, "idle", "read"} /\ (life' = life \/ life \in {"running"} \/ pc = "serve")
    BY <1>1 DEF PollStarts, PollServes, LinkDrops, ExitBegins, PollFails, ownVars, InPoll
  <2>2. life' = "removed" <=> life = "removed"
    BY <1>1 DEF PollStarts, PollServes, LinkDrops, ExitBegins, PollFails, ownVars
  <2>3. life' \in {"running", "exiting"} => life \in {"running", "exiting"} \/ pc = "serve"
    BY <2>1
  <2> QED BY <2>1, <2>2, <2>3
<1>2. CASE Setup \/ Crash \/ (PollFails /\ life = "starting")
  <2>1. /\ Forget /\ life # "removed" /\ life' \in {"down", "starting"} /\ pc' = "idle"
        /\ UNCHANGED <<stored, register>> /\ stray' \in {FALSE, stray}
    BY <1>2 DEF Setup, Crash, PollFails, PollOrder, Alive
  <2>2. baseline' = NoBaseline
    BY <2>1, Forgotten
  <2>3. Untouched'
    BY <2>1
  <2> QED BY <1>0, <2>1, <2>2, <2>3
<1>3. CASE Close
  <2>1. /\ Forget /\ life = "exiting" /\ life' = "down" /\ pc' = "idle"
        /\ UNCHANGED <<stored, register>>
    BY <1>3 DEF Close
  <2>2. stored # NoBaseline
    BY <2>1, BaselineFacts DEF PollOrder
  <2> QED BY <1>0, <2>1, <2>2, Forgotten
<1>4. CASE StrayPrograms
  <2>1. stray /\ UNCHANGED <<life, pc, baseline, stored>> /\ stray' = FALSE
    BY <1>4 DEF StrayPrograms
  <2> QED BY <2>1
<1>5. CASE Remove
  <2>1. stored' = NoBaseline /\ life' = "removed" /\ UNCHANGED <<pc, baseline>> /\ pc = "idle"
    BY <1>5 DEF Remove, PollOrder, Alive
  <2> QED BY <1>0, <2>1
<1>6. ASSUME NEW r \in Managed, RestoreRegister(r)
      PROVE  OriginalInv'
  <2>1. life = "exiting" /\ UNCHANGED <<life, pc, baseline, stored, stray>>
    BY <1>6 DEF RestoreRegister
  <2>2. stored # NoBaseline
    BY <2>1, BaselineFacts DEF PollOrder
  <2> QED BY <2>1, <2>2
<1> QED BY <1>1, <1>2, <1>3, <1>4, <1>5, <1>6, OriginalPollRead, OriginalHandshake
        DEF OwnNext, Lifecycle

\* With a store that works no baseline, in memory or on disk, ever holds a value
\* of ours, whenever the process dies and whatever requests fail.
THEOREM BaselineStaysOriginal ==
  ASSUME ~StoreFails
  PROVE  OwnSpec => []BaselineOriginal
<1>1. OwnInit => OriginalInv
  <2> SUFFICES ASSUME OwnInit PROVE OriginalInv
    OBVIOUS
  <2>1. \A r \in Managed : NoBaseline[r] # "ours"
    BY DEF NoBaseline
  <2> QED BY <2>1 DEF OwnInit, OriginalInv, BaselineOriginal, Untouched, Agreed
<1>2. OwnTypeInv /\ OriginalInv /\ [OwnNext]_ownVars => OriginalInv'
  BY OriginalStep
<1>3. OriginalInv => BaselineOriginal
  BY DEF OriginalInv
<1> QED BY <1>1, <1>2, <1>3, OwnTypeInvariant, PTL DEF OwnSpec
-----------------------------------------------------------------------------
\* A quiet exit, one that met no poll and logged no failure, has put back what
\* it is past.
QuietInv ==
  /\ HandsBack
  /\ life = "starting" => lastExit # "quiet"
  /\ life = "exiting" /\ lastExit = "quiet" =>
       /\ pc = "idle"
       /\ \A r \in Managed \ toRestore : register[r] = "ours" => stored[r] = "unread"

LEMMA QuietStep ==
  ASSUME ~StoreFails, OwnTypeInv, OriginalInv, QuietInv, [OwnNext]_ownVars
  PROVE  QuietInv'
<1> USE DEF QuietInv, HandsBack, OwnTypeInv, OwnTypeOK, InPoll, memory, exit, rfid
<1>1. ASSUME NEW connected \in BOOLEAN, PollRead(connected)
      PROVE  QuietInv'
  <2>1. pc = "read" /\ UNCHANGED <<life, stored, register, exit>>
    BY <1>1 DEF PollRead
  <2> QED BY <2>1
<1>2. CASE Handshake
  <2>1. UNCHANGED <<life, exit>> /\ pc # "idle" /\ Alive
    BY <1>2 DEF Handshake, LoadBaseline, CaptureBaseline, SaveBaseline, ProgramTimeout,
                ProgramCurrent
  <2> QED BY <2>1 DEF Alive
<1>3. CASE PollStarts \/ PollServes \/ LinkDrops \/ (PollFails /\ life # "starting")
           \/ UNCHANGED ownVars
  <2>1. /\ UNCHANGED <<stored, register, exit>>
        /\ life' = life \/ (life = "starting" /\ life' = "running")
        /\ pc' \in {pc, "idle"} \/ life # "exiting"
    BY <1>3 DEF PollStarts, PollServes, LinkDrops, PollFails, ownVars
  <2> QED BY <2>1
<1>4. CASE Setup \/ Crash \/ Remove \/ (PollFails /\ life = "starting")
  <2>1. /\ life' \in {"down", "starting", "removed"}
        /\ life' = "removed" \/ lastExit' = "none" \/ (life = "starting" /\ lastExit' = lastExit)
    BY <1>4 DEF Setup, Crash, Remove, PollFails
  <2> QED BY <2>1
<1>5. CASE ExitBegins
  <2>1. /\ life = "running" /\ life' = "exiting" /\ toRestore' = Known(baseline)
        /\ UNCHANGED <<pc, stored, register>> /\ (lastExit' = "quiet" => pc = "idle")
        /\ stored = baseline
    BY <1>5, SourceInMemory DEF ExitBegins, OriginalInv, Agreed
  <2>2. Taken(baseline)
    BY <2>1, SourceInMemory
  <2>3. \A r \in Managed \ toRestore' : stored[r] = "unread"
    BY <2>1, <2>2 DEF Known, Taken
  <2> QED BY <2>1, <2>3
<1>6. ASSUME NEW r \in Managed, RestoreRegister(r)
      PROVE  QuietInv'
  <2>1. CASE lastExit' = "failed"
    BY <1>6, <2>1 DEF RestoreRegister
  <2>2. CASE lastExit' = lastExit /\ register' = [register EXCEPT ![r] = Source[r]]
    <3>1. Source[r] # "ours"
      BY <1>6, SourceInMemory DEF RestoreRegister, OriginalInv, BaselineOriginal
    <3>2. life = "exiting" /\ toRestore' = toRestore \ {r} /\ UNCHANGED <<life, pc, stored>>
      BY <1>6 DEF RestoreRegister
    <3>3. \A s \in Managed : register'[s] = "ours" => s # r /\ register[s] = "ours"
      BY <2>2, <3>1
    <3> QED BY <2>2, <3>2, <3>3
  <2> QED BY <1>6, <2>1, <2>2 DEF RestoreRegister
<1>7. CASE Close
  BY <1>7 DEF Close
<1>8. CASE StrayPrograms
  BY <1>8 DEF StrayPrograms
<1> QED BY <1>1, <1>2, <1>3, <1>4, <1>5, <1>6, <1>7, <1>8 DEF OwnNext, Lifecycle

\* After an exit that logged no failure and met no poll, the registers hold what
\* the user had, but for values that never could be read.
THEOREM ExitHandsBack ==
  ASSUME ~StoreFails
  PROVE  OwnSpec => []HandsBack
<1>1. OwnInit => OriginalInv /\ QuietInv
  <2> SUFFICES ASSUME OwnInit PROVE OriginalInv /\ QuietInv
    OBVIOUS
  <2>1. \A r \in Managed : NoBaseline[r] # "ours"
    BY DEF NoBaseline
  <2> QED BY <2>1 DEF OwnInit, OriginalInv, BaselineOriginal, Untouched, Agreed, QuietInv,
                      HandsBack
<1>2. OwnTypeInv /\ OriginalInv /\ [OwnNext]_ownVars => OriginalInv'
  BY OriginalStep
<1>3. OwnTypeInv /\ OriginalInv /\ QuietInv /\ [OwnNext]_ownVars => QuietInv'
  BY QuietStep
<1>4. QuietInv => HandsBack
  BY DEF QuietInv
<1> QED BY <1>1, <1>2, <1>3, <1>4, OwnTypeInvariant, PTL DEF OwnSpec
=============================================================================
