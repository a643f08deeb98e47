------------------------------ MODULE MCExternal ------------------------------
(***************************************************************************)
(* ExternalControl with a stop, two currents and both phase requests.      *)
(***************************************************************************)
EXTENDS ExternalControl
=============================================================================
