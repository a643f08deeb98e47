----------------------------- MODULE MCFuseGuard -----------------------------
(***************************************************************************)
(* FuseGuard with the default 25 A fuse and 2 A margin, 6 to 16 A, and a   *)
(* house that exports, that leaves the car part of the fuse, or nothing.   *)
(***************************************************************************)
EXTENDS FuseGuard

MCLimits == [min |-> 6, max |-> 16, cable |-> 0]
MCLoads == {-50, 118, 240}
MCGlitches == {-1001}
=============================================================================
