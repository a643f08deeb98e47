---------------------------- MODULE MCCoordinator ----------------------------
(***************************************************************************)
(* Coordinator with a wallbox that answers, refuses or loses RFID reads.   *)
(***************************************************************************)
EXTENDS Coordinator
=============================================================================
