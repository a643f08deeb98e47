----------------------------- MODULE PhaseRestore -----------------------------
(***************************************************************************)
(* The phase-config restore: after an unplug, or when its button is        *)
(* pressed, currentLimiterPhase is set to 0 and, ten seconds later, to 1   *)
(* through the web UI of the wallbox (coordinator.py, button.py,           *)
(* rest_client.py).  The JSON API is tried first, the webconfig portal is  *)
(* the fallback; every request may fail, with or without having taken      *)
(* effect, and restores of different origin do not know of each other.     *)
(*                                                                         *)
(* The delay and the settle time are waits in which nothing is looked at,  *)
(* so they are the time between two steps.                                 *)
(***************************************************************************)
EXTENDS Naturals

CONSTANTS
  GridPhases,       \* option grid_phases: "1", "3", or "unset"
  RestoreEnabled,   \* options phase_restore_on_unplug and rest_enabled
  SettleDelay,      \* whether phase_restore_delay is positive
  JsonListed        \* the JSON field inventory is unknown or has the phase field

ASSUME RestoreAssumption ==
  /\ GridPhases \in {"1", "3", "unset"}
  /\ RestoreEnabled \in BOOLEAN /\ SettleDelay \in BOOLEAN /\ JsonListed \in BOOLEAN

\* The coordinator's own task, and a restore it does not know of: the button's,
\* or a task that outlived its coordinator.  One of those at a time is a bound.
Ops == {"auto", "other"}

VARIABLES
  wasConnected,     \* the car at the last poll's reads
  dataConnected,    \* the car in coordinator.data
  stage,            \* of each restore
  config,           \* currentLimiterPhase in the wallbox; register 404 reports it
  lastEnd           \* how the restore that ended last ended

restoreVars == <<wasConnected, dataConnected, stage, config, lastEnd>>

\* is_three_phase_install: an explicit setting wins over register 404.
IsThreePhaseInstall == IF GridPhases = "unset" THEN config # 0 ELSE GridPhases = "3"

\* Where async_restore_three_phase begins for the task.
FirstStage == IF JsonListed THEN "json0" ELSE "php0"

\* _maybe_auto_restore_phase, on the edge only, one task at a time.
SeePoll(connected) ==
  /\ wasConnected' = connected
  /\ stage' = IF /\ wasConnected /\ ~connected
                 /\ RestoreEnabled /\ IsThreePhaseInstall
                 /\ stage["auto"] = "idle"
              THEN [stage EXCEPT !["auto"] = IF SettleDelay THEN "delay"
                                             ELSE FirstStage]
              ELSE stage
  /\ UNCHANGED <<dataConnected, config, lastEnd>>

\* The poll ends well: its data is what the task looks at.
Publish ==
  /\ dataConnected' = wasConnected
  /\ UNCHANGED <<wasConnected, stage, config, lastEnd>>

\* After the settle delay the car may have been plugged in again.
DelayOver ==
  /\ stage["auto"] = "delay"
  /\ stage' = [stage EXCEPT !["auto"] = IF dataConnected THEN "idle" ELSE FirstStage]
  /\ UNCHANGED <<wasConnected, dataConnected, config, lastEnd>>

\* The same in a task whose coordinator is gone: its data no longer changes.
OutlivedDelayOver ==
  /\ stage["other"] = "delay"
  /\ stage' \in {[stage EXCEPT !["other"] = s] : s \in {"idle", FirstStage}}
  /\ UNCHANGED <<wasConnected, dataConnected, config, lastEnd>>

\* The button refuses for 60 s, or until its restore has failed; it passes no
\* inventory.  Only the bound on the other restores keeps it from a second one.
Press ==
  /\ stage["other"] = "idle"
  /\ stage' = [stage EXCEPT !["other"] = "json0"]
  /\ UNCHANGED <<wasConnected, dataConnected, config, lastEnd>>

To(op, s) == stage' = [stage EXCEPT ![op] = s]
RestoreUnchanged == UNCHANGED <<wasConnected, dataConnected>>

\* A restore raises; the request that failed may have taken effect.
Raise(op, effects) ==
  /\ To(op, "idle")
  /\ config' \in effects
  /\ lastEnd' = "failed"

\* Faulty variant: a server error on the way back counts as done.
AfterServerErrorDone(s) == IF s = "json1" THEN "idle" ELSE "php0"

\* No JSON port answers, the endpoint is missing, or the server fails at the retry
\* too, with or without effect: webconfig instead, from the start.
AfterServerError(s) == "php0"

\* A JSON config write with the probes of the ports, its payload fallback and its
\* retry.
JsonWrite(op) ==
  /\ stage[op] \in {"json0", "json1"}
  /\ LET value == IF stage[op] = "json0" THEN 0 ELSE 1
     IN \/ /\ config' = value
           /\ To(op, IF value = 0 THEN "json1" ELSE "idle")
           /\ lastEnd' = IF value = 0 THEN lastEnd ELSE "ok"
        \/ /\ To(op, AfterServerError(stage[op]))
           /\ config' \in {config, value}
           /\ UNCHANGED lastEnd
        \/ Raise(op, {config, value})
  /\ RestoreUnchanged

\* The probe of the webconfig portal, then login, form and post.
PhpWrite(op) ==
  /\ stage[op] \in {"php0", "php1"}
  /\ LET value == IF stage[op] = "php0" THEN 0 ELSE 1
     IN \/ /\ config' = value
           /\ To(op, IF value = 0 THEN "php1" ELSE "idle")
           /\ lastEnd' = IF value = 0 THEN lastEnd ELSE "ok"
        \/ Raise(op, {config, value})
  /\ RestoreUnchanged

WebSteps ==
  \/ DelayOver \/ OutlivedDelayOver
  \/ \E op \in Ops : JsonWrite(op) \/ PhpWrite(op)

\* A new coordinator, with no data yet.
NewCoordinator ==
  /\ wasConnected' = FALSE /\ dataConnected' = FALSE
  /\ UNCHANGED <<stage, config, lastEnd>>

\* An unload does not cancel the task.
TasksOutlive ==
  /\ \/ stage["auto"] = "idle" /\ UNCHANGED stage
     \/ /\ stage["auto"] # "idle" /\ stage["other"] = "idle"
        /\ stage' = [stage EXCEPT !["other"] = stage["auto"], !["auto"] = "idle"]
  /\ UNCHANGED <<wasConnected, dataConnected, config, lastEnd>>

\* The process dies in the middle of whatever it does.
TasksDie ==
  /\ stage' = [op \in Ops |-> "idle"]
  /\ lastEnd' = IF \E op \in Ops : stage[op] \notin {"idle", "delay"} THEN "failed" ELSE lastEnd
  /\ UNCHANGED <<wasConnected, dataConnected, config>>

RestoreInit ==
  /\ wasConnected = FALSE /\ dataConnected = FALSE
  /\ stage = [op \in Ops |-> "idle"]
  /\ config = 1
  /\ lastEnd = "none"
-----------------------------------------------------------------------------
\* Properties.

Stages == {"idle", "delay", "json0", "json1", "php0", "php1"}

\* Every variable has its type.
RestoreTypeOK ==
  /\ wasConnected \in BOOLEAN /\ dataConnected \in BOOLEAN
  /\ stage \in [Ops -> Stages]
  /\ config \in {0, 1}
  /\ lastEnd \in {"none", "ok", "failed"}

\* A restore leaves the wallbox on one phase only when it says so: once none is
\* under way, a wallbox on one phase means that the one that ended last failed
\* or was killed, however the toggles of task and button overlapped and
\* whichever writes took effect without an answer (rest_client.py:495).
LeftOnlyByFailure ==
  config = 0 /\ (\A op \in Ops : stage[op] = "idle") => lastEnd = "failed"
=============================================================================
