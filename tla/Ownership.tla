------------------------------ MODULE Ownership ------------------------------
(***************************************************************************)
(* Who owns the wallbox: the life of the config entry (__init__.py), the   *)
(* handshake on a fresh Modbus connection (coordinator.py), the baseline   *)
(* of the failsafe registers that is captured before the first write and   *)
(* put back on exit (safety.py), and the RFID probe (control.py).          *)
(*                                                                         *)
(* The registers are the two that keep their value when the connection     *)
(* goes: the failsafe current and its timeout.  A value is "before" (what  *)
(* the user had), "ours", or, in a baseline, "unread" (Python's None) or   *)
(* "absent" (no baseline at all).  A process may be killed at any step;    *)
(* any request may fail, which closes the socket.                          *)
(***************************************************************************)
EXTENDS Naturals

CONSTANTS
  StoreFails,      \* whether loading or saving the baseline may fail
  RfidAnswers,     \* how this wallbox answers the RFID read
  MaxStrikes       \* RfidProbe.max_transport_strikes

ASSUME OwnershipAssumption ==
  /\ StoreFails \in BOOLEAN
  /\ RfidAnswers \subseteq {"tag", "refused", "lost"} /\ RfidAnswers # {}
  /\ MaxStrikes \in Nat \ {0}

Managed == {"current", "timeout"}
NoBaseline == [r \in Managed |-> "absent"]

VARIABLES
  life,                        \* of the config entry
  pc,                          \* the poll in progress
  baseline, baselineLoaded,    \* in memory
  stored,                      \* the baseline on disk
  register,                    \* of the wallbox
  newConnection,               \* the next poll will find a new connection
  toRestore,                   \* registers the exit has still to put back
  stray,                       \* a poll outlived its entry, its writes still to come
  supported, strikes,          \* RfidProbe
  lastExit, losses             \* history, for properties

memory == <<baseline, baselineLoaded>>
rfid == <<supported, strikes, losses>>
exit == <<toRestore, lastExit>>
ownVars == <<life, pc, memory, stored, register, newConnection, exit, stray, rfid>>

Alive == life \in {"starting", "running", "exiting"}

\* A failed request closes the socket; the next one, whoever sends it, makes a
\* new connection.
Drop == newConnection' = TRUE
-----------------------------------------------------------------------------
\* The poll.

Disabled == strikes >= MaxStrikes
WantProbe == ~Disabled /\ supported # "no"

\* Faulty variant: a new connection is a new wallbox.
StrikesAfterReconnect(n) == 0

\* Strike history survives a reconnect.
StrikesKept(n) == n

\* The probe of this poll; lost is whether it cost the connection.
ProbeAnswered(answer, reconnected) ==
  /\ supported' = IF reconnected THEN "unknown"
                  ELSE CASE answer = "tag" -> "yes"
                         [] answer = "lost" /\ strikes + 1 >= MaxStrikes -> supported
                         [] OTHER -> "no"
  /\ LET n == CASE answer = "tag" -> 0
                [] answer = "lost" -> strikes + 1
                [] OTHER -> strikes
     IN strikes' = IF reconnected THEN StrikesKept(n) ELSE n
  /\ losses' = CASE answer = "tag" -> 0
                 [] answer = "lost" -> losses + 1
                 [] OTHER -> losses

NotProbed(reconnected) ==
  /\ supported' = IF reconnected THEN "unknown" ELSE supported
  /\ strikes' = IF reconnected THEN StrikesKept(strikes) ELSE strikes
  /\ UNCHANGED losses

\* Faulty variant: every handshake captures.
CaptureAgain(base) == TRUE

NeedsCapture(base) == base = NoBaseline

\* Where the poll goes on after its reads.
AfterRead ==
  CASE ~newConnection -> "serve"
    [] newConnection /\ ~baselineLoaded -> "load"
    [] newConnection /\ baselineLoaded -> IF NeedsCapture(baseline) THEN "capture" ELSE "timeout"

InPoll(stage) == Alive /\ pc = stage

\* A poll begins: its reads are under way.
PollStarts ==
  /\ pc = "idle" /\ life \in {"starting", "running"}
  /\ pc' = "read"
  /\ UNCHANGED <<life, memory, stored, register, newConnection, exit, stray, rfid>>

\* The reads are through; the RFID probe, and take_new_connection.  A probe may cost the
\* connection: then the next poll finds a new one.
PollRead(connected) ==
  /\ InPoll("read")
  /\ \/ connected /\ WantProbe
        /\ \E answer \in RfidAnswers :
             /\ ProbeAnswered(answer, newConnection)
             /\ newConnection' = (answer = "lost")
     \/ ~(connected /\ WantProbe) /\ NotProbed(newConnection) /\ newConnection' = FALSE
  /\ pc' = AfterRead
  /\ UNCHANGED <<life, memory, stored, register, exit, stray>>

\* baseline_loaded is set before the load is awaited, so a load that fails is
\* not repeated.
LoadBaseline ==
  /\ InPoll("load")
  /\ baselineLoaded' = TRUE
  /\ \/ baseline' = stored
     \/ StoreFails /\ baseline' = NoBaseline
  /\ pc' = IF NeedsCapture(baseline') THEN "capture" ELSE "timeout"
  /\ UNCHANGED <<life, stored, register, newConnection, exit, stray, rfid>>

\* A register that cannot be read costs the connection and is left out.
CaptureBaseline ==
  /\ InPoll("capture")
  /\ \E unread \in SUBSET Managed :
       /\ baseline' = [r \in Managed |-> IF r \in unread THEN "unread" ELSE register[r]]
       /\ newConnection' = (newConnection \/ unread # {})
  /\ pc' = "save"
  /\ UNCHANGED <<life, baselineLoaded, stored, register, exit, stray, rfid>>

SaveBaseline ==
  /\ InPoll("save")
  /\ \/ stored' = baseline
     \/ StoreFails /\ UNCHANGED stored
  /\ pc' = "timeout"
  /\ UNCHANGED <<life, memory, register, newConnection, exit, stray, rfid>>

\* Faulty variant: a refusal leaves the connection alone, as an optional read does.
RefusalKeepsConnection == UNCHANGED newConnection

RefusalDrops == Drop

\* program_failsafe: the timeout, then the current; a failure is swallowed, but
\* it has cost the connection.
ProgramTimeout ==
  /\ InPoll("timeout")
  /\ \/ register' = [register EXCEPT !["timeout"] = "ours"] /\ pc' = "current"
        /\ UNCHANGED newConnection
     \/ RefusalDrops /\ pc' = "serve" /\ UNCHANGED register
  /\ UNCHANGED <<life, memory, stored, exit, stray, rfid>>

ProgramCurrent ==
  /\ InPoll("current")
  /\ \/ register' = [register EXCEPT !["current"] = "ours"] /\ UNCHANGED newConnection
     \/ RefusalDrops /\ UNCHANGED register
  /\ pc' = "serve"
  /\ UNCHANGED <<life, memory, stored, exit, stray, rfid>>

\* The reconnect writes, the heartbeat and the control step went through: the
\* data is published; the first such poll completes the setup.
PollServes ==
  /\ InPoll("serve")
  /\ pc' = "idle"
  /\ life' = IF life = "starting" THEN "running" ELSE life
  /\ UNCHANGED <<memory, stored, register, newConnection, exit, stray, rfid>>

Forget ==
  /\ baseline' = NoBaseline /\ baselineLoaded' = FALSE
  /\ supported' = "unknown" /\ strikes' = 0 /\ losses' = 0

\* A mandatory read or write fails.  In the setup this ends the attempt; Home
\* Assistant tries again later with new objects.
PollFails ==
  /\ InPoll("read") \/ InPoll("serve")
  /\ Drop
  /\ pc' = "idle"
  /\ IF life = "starting" THEN life' = "down" /\ Forget
     ELSE UNCHANGED <<life, memory, rfid>>
  /\ UNCHANGED <<stored, register, exit, stray>>

LinkDrops ==
  /\ Drop
  /\ UNCHANGED <<life, pc, memory, stored, register, exit, stray, rfid>>
-----------------------------------------------------------------------------
\* The life of the entry.

Setup ==
  /\ life = "down"
  /\ life' = "starting"
  /\ Forget
  /\ newConnection' = TRUE
  /\ lastExit' = "none"
  /\ UNCHANGED <<pc, stored, register, toRestore, stray>>

\* What an exit puts back: the baseline in memory, else the one on disk.
Source == IF baseline = NoBaseline THEN stored ELSE baseline

\* Faulty variants: what could not be read is written back all the same, or the
\* timeout is forgotten.
KnownAll(base) == {r \in Managed : base[r] # "absent"}
KnownWithoutTimeout(base) == {r \in {"current"} : base[r] \notin {"absent", "unread"}}

Known(base) == {r \in Managed : base[r] \notin {"absent", "unread"}}

\* Unload, reload, or the stop of Home Assistant.  A poll in flight goes on.
ExitBegins ==
  /\ life = "running"
  /\ life' = "exiting"
  /\ toRestore' = Known(Source)
  /\ lastExit' = IF pc = "idle" THEN "quiet" ELSE "busy"
  /\ UNCHANGED <<pc, memory, stored, register, newConnection, stray, rfid>>

\* One register, in the order of restore_baseline: written and read back.  What
\* fails is logged; the rest goes on.
RestoreRegister(r) ==
  /\ life = "exiting"
  /\ r \in toRestore /\ (r = "timeout" => "current" \notin toRestore)
  /\ toRestore' = toRestore \ {r}
  /\ \/ register' = [register EXCEPT ![r] = Source[r]]
        /\ UNCHANGED <<newConnection, lastExit>>
     \/ register' \in {register, [register EXCEPT ![r] = Source[r]]}
        /\ Drop /\ lastExit' = "failed"
  /\ UNCHANGED <<life, pc, memory, stored, stray, rfid>>

\* The client is closed.  A poll in flight may outlive it: its next request
\* opens a connection again, and unless it is past its handshake it goes on to
\* program the failsafe registers.
Close ==
  /\ life = "exiting" /\ toRestore = {}
  /\ life' = "down"
  /\ pc' = "idle"
  /\ stray' = (stray \/ pc \notin {"idle", "serve"})
  /\ Forget
  /\ Drop
  /\ UNCHANGED <<stored, register, exit>>

\* The handshake of a poll that outlived its entry.
StrayPrograms ==
  /\ stray
  /\ stray' = FALSE
  /\ \E done \in {{}, {"timeout"}, {"current"}, Managed} :
       register' = [r \in Managed |-> IF r \in done THEN "ours" ELSE register[r]]
  /\ lastExit' = IF lastExit = "quiet" THEN "busy" ELSE lastExit
  /\ UNCHANGED <<life, pc, memory, stored, newConnection, toRestore, rfid>>

\* The process dies, whatever it was doing.
Crash ==
  /\ Alive
  /\ life' = "down"
  /\ pc' = "idle" /\ stray' = FALSE /\ toRestore' = {} /\ lastExit' = "none"
  /\ Forget
  /\ Drop
  /\ UNCHANGED <<stored, register>>

\* async_remove_entry drops the stored baseline; the entry does not come back.
Remove ==
  /\ life = "down"
  /\ life' = "removed"
  /\ stored' = NoBaseline
  /\ UNCHANGED <<pc, memory, register, newConnection, exit, stray, rfid>>

Handshake ==
  LoadBaseline \/ CaptureBaseline \/ SaveBaseline \/ ProgramTimeout \/ ProgramCurrent

Lifecycle ==
  \/ Setup \/ ExitBegins \/ Close \/ StrayPrograms \/ Crash \/ Remove
  \/ \E r \in Managed : RestoreRegister(r)

OwnInit ==
  /\ life = "down" /\ pc = "idle"
  /\ baseline = NoBaseline /\ baselineLoaded = FALSE /\ stored = NoBaseline
  /\ register = [r \in Managed |-> "before"]
  /\ newConnection = TRUE /\ toRestore = {} /\ stray = FALSE
  /\ supported = "unknown" /\ strikes = 0
  /\ lastExit = "none" /\ losses = 0

OwnNext ==
  \/ \E connected \in BOOLEAN : PollRead(connected)
  \/ PollStarts \/ Handshake \/ PollServes \/ PollFails \/ LinkDrops \/ Lifecycle

OwnSpec == OwnInit /\ [][OwnNext]_ownVars
-----------------------------------------------------------------------------
\* Properties.

Baselines == [Managed -> {"absent", "unread", "before", "ours"}]

\* Every variable has its type.
OwnTypeOK ==
  /\ life \in {"down", "starting", "running", "exiting", "removed"}
  /\ pc \in {"idle", "read", "load", "capture", "save", "timeout", "current", "serve"}
  /\ baseline \in Baselines /\ stored \in Baselines /\ baselineLoaded \in BOOLEAN
  /\ register \in [Managed -> {"before", "ours"}]
  /\ newConnection \in BOOLEAN /\ stray \in BOOLEAN
  /\ toRestore \in SUBSET Managed
  /\ lastExit \in {"none", "quiet", "busy", "failed"}
  /\ supported \in {"unknown", "yes", "no"} /\ strikes \in 0 .. MaxStrikes
  /\ losses \in Nat

\* "Stored durably, so a restart never mistakes our own values for the originals"
\* (coordinator.py:328), whenever the process dies, whichever reads and writes
\* fail and however often the entry is reloaded, as long as the store works.
BaselineOriginal ==
  \A r \in Managed : baseline[r] # "ours" /\ stored[r] # "ours"

\* The failsafe is programmed although a refusal is swallowed (safety.py:43): a
\* running entry that does not expect a handshake in its next poll has both
\* registers programmed, for the failed write has cost the connection.
FailsafeArmed ==
  life = "running" /\ pc = "idle" /\ ~newConnection
  => \A r \in Managed : register[r] = "ours"

\* The baseline is handed back (coordinator.py:490): after an exit that logged no
\* failure and met no poll, the registers hold what the user had, a crash and
\* reloads before it included, but for values that never could be read.
HandsBack ==
  life = "down" /\ lastExit = "quiet"
  => \A r \in Managed : register[r] = "ours" => stored[r] = "unread"

\* "a crashy firmware cannot be kept in a probe -> crash -> reconnect loop"
\* (control.py:349): since the last tag read or restart of the integration the
\* probe has cost at most MaxStrikes connections, however many there were.
ProbeLossesBounded == losses <= MaxStrikes
=============================================================================
