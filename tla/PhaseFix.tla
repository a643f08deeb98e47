------------------------------ MODULE PhaseFix ------------------------------
(***************************************************************************)
(* What the phase fixes promise to whoever commands the charger, whatever  *)
(* the mode: a car that stays on the wrong number of phases is watched,    *)
(* and then at most once per request and direction it is paused.  While    *)
(* the pause lasts, and only then, commands are kept from the wire, and    *)
(* every pause ends.                                                       *)
(*                                                                         *)
(* ExternalControl and InternalControl, the two users of the recovery      *)
(* task of phase.py, implement this specification.                         *)
(***************************************************************************)
VARIABLES
  stage,      \* what the fix in progress does
  towards,    \* the direction it works in
  held,       \* commands are kept from the wire
  spent       \* the directions that have had their pause

fixVars == <<stage, towards, held, spent>>

Directions == {"up", "down"}

Init ==
  /\ stage = "idle" /\ towards = "none"
  /\ held = FALSE
  /\ spent = {}

Start(d) ==
  /\ stage = "idle"
  /\ d \notin spent
  /\ stage' = "watching" /\ towards' = d
  /\ UNCHANGED held
  /\ spent' \subseteq spent

\* The car went along, left, or cannot be told: no pause.
GiveUp ==
  /\ stage = "watching"
  /\ stage' = "leaving"
  /\ UNCHANGED <<towards, held>>
  /\ spent' \subseteq spent

Hold ==
  /\ stage = "watching"
  /\ towards \notin spent
  /\ stage' = "pausing" /\ held' = TRUE
  /\ spent' = spent \cup {towards}
  /\ UNCHANGED towards

\* The pause is over, failed, or was called off.
Release ==
  /\ stage = "pausing"
  /\ stage' = "leaving" /\ held' = FALSE
  /\ UNCHANGED towards
  /\ spent' \subseteq spent

Leave ==
  /\ stage = "leaving"
  /\ stage' = "idle" /\ towards' = "none"
  /\ UNCHANGED held
  /\ spent' \subseteq spent

\* A new session or a request for the other phase count.
ReArm ==
  /\ UNCHANGED <<stage, towards, held>>
  /\ spent' \subseteq spent

Next ==
  \/ ReArm
  \/ \E d \in Directions : Start(d)
  \/ GiveUp \/ Hold \/ Release \/ Leave

Spec == Init /\ [][Next]_fixVars
=============================================================================
