-------------------------- MODULE MCInternalSetpoint --------------------------
(***************************************************************************)
(* The setpoint side of InternalControl: modes, load balancing, the        *)
(* anti-short-cycle hold, the setpoint cache, sessions and reconnects.     *)
(* One tick stands for 150 s of the minimum charge duration.               *)
(***************************************************************************)
EXTENDS InternalControl

MCLimits == [min |-> 1, max |-> 2, cable |-> 0]
MCRooms == {-15, 15, 30}
=============================================================================
