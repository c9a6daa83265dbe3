----------------------- MODULE MCTargetManagerFaults -----------------------
(* The instances of MCTargetManager, on a backend that fails. *)
EXTENDS MCTargetManager, TargetManagerFaults
=============================================================================
