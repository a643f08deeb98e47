--------------------------- MODULE MCInternalPhase ---------------------------
(***************************************************************************)
(* The phase side of InternalControl: forced phase changes, the quiet      *)
(* period, and the recovery task beside the polls, the user and the link.  *)
(* One tick stands for about 15 s, the settle time of a phase switch.      *)
(***************************************************************************)
EXTENDS InternalControl

MCLimits == [min |-> 1, max |-> 1, cable |-> 0]
=============================================================================
