----------------------- MODULE MCTargetManagerHistory -----------------------
(* The instances of MCTargetManager, with the history of each request. *)
EXTENDS MCTargetManager, TargetManagerHistory
=============================================================================
