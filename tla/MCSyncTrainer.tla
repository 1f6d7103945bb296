----------------------------- MODULE MCSyncTrainer -----------------------------
(* SyncTrainer for TLC: batches of two prompts, jobs that are killed.       *)
EXTENDS SyncTrainer

MCSteps == 1..TotalSteps
MCValues == Seq(Nat \X Nat)
MCFragile == {<<2, 1>>}
MCTrainN == <<2, 1>>
MCValN == <<1>>
MCKeep == [r \in Roles |-> 2]
=============================================================================
