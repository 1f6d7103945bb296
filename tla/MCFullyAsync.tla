---------------------------- MODULE MCFullyAsync ----------------------------
(* The instance TLC checks: FullyAsync has only numbers, sets of numbers   *)
(* and Booleans for parameters, which each .cfg chooses for its question.  *)
EXTENDS FullyAsync

=============================================================================
