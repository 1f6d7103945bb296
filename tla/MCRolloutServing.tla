-------------------------- MODULE MCRolloutServing --------------------------
(* Two requests; standalone and hybrid servers as model values that each   *)
(* .cfg groups into sets.                                                  *)
EXTENDS RolloutServing, TLC

ServingSymmetry == Permutations(Requests) \cup Permutations(Standalone)

=============================================================================
