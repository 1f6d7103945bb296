------------------------------ MODULE SyncTrainer ------------------------------
(***************************************************************************)
(* PPOTrainer.fit of main_ppo_sync.py: the loop that hands prompts to the  *)
(* agent loop workers, samples what they produced, trains, saves and       *)
(* validates, together with the replay buffer and the checkpoints it works *)
(* on, over several jobs: a job can be killed at any point, which takes    *)
(* the workers, the transfer queue, the buffer and the weights in memory,  *)
(* and leaves the files.                                                   *)
(*                                                                         *)
(* Weights are the sequence of batches they were trained on.  A batch is   *)
(* <<job, number>>, the position in the data set and the job that rolled   *)
(* it out: rollouts are random, so training on batch 3 again in a later    *)
(* job gives other weights.                                                *)
(***************************************************************************)
EXTENDS ReplayBuffer, CheckpointStore, FiniteSets

CONSTANTS
  TrainN,       \* sessions of each prompt of a training batch (rollout.n)
  ValN,         \* the same of a validation batch (rollout.val_kwargs.n)
  ValBatches,   \* batches of the validation data loader
  BatchMultiple,\* what _get_required_batch_multiple returns
  TotalSteps,   \* total_training_steps; the data set has as many batches
  SaveFreq,
  TestFreq,
  ValBeforeTrain,
  CriticWarmup,
  MaxJobs,      \* bound: starts of the job
  Fragile       \* bound: the sessions, <<step, session>>, that may raise or return nothing

ASSUME TrainerAssumption ==
  /\ Steps = 1..TotalSteps
  /\ {BatchMultiple, TotalSteps} \subseteq Nat \ {0}
  /\ {TrainN, ValN} \subseteq Seq(Nat \ {0})
  /\ {ValBatches, SaveFreq, TestFreq, CriticWarmup} \subseteq Nat
  /\ ValBeforeTrain \in BOOLEAN

VARIABLES
  pc,           \* where fit is
  globalSteps,  \* self.global_steps
  inLoop,       \* whether fit is past its first validation
  valDone,      \* batches of the validation under way that are done
  weights,      \* the weights in memory, by role
  served,       \* the actor's weights that the rollout replicas generate with
  delivered,    \* the batches the train data loader has yielded
  job           \* starts so far

fitVars == <<pc, globalSteps, inLoop, valDone, weights, served, delivered, job>>
vars == <<fitVars, bufferVars, storeVars>>

TypeOK ==
  /\ BufferTypeOK
  /\ StoreTypeOK
  /\ pc \in {"load", "publish", "validate", "valWait", "valRead", "valRemove",
             "generate", "wait", "balance", "train", "save", "clear", "remove", "done", "dead"}
  /\ globalSteps \in 0..TotalSteps + 1
  /\ inLoop \in BOOLEAN
  /\ valDone \in 0..ValBatches
  /\ weights \in [Roles -> Values]
  /\ {served, delivered} \subseteq Values
  /\ job \in 1..MaxJobs

Untrained == [r \in Roles |-> <<>>]

Init ==
  /\ BufferInit
  /\ StoreInit
  /\ pc = "load" /\ globalSteps = 0 /\ inLoop = FALSE /\ valDone = 0
  /\ weights = Untrained /\ served = <<>> /\ delivered = <<>>
  /\ job = 1

-----------------------------------------------------------------------------
(* Faulty variants; no specification uses them.                            *)

\* _load_checkpoint that forgets the data loader.
LoadWithoutLoader ==
  LET n == ResumeStep IN
  /\ pc = "load" /\ pc' = "publish"
  /\ LoadCheckpoint
  /\ globalSteps' = n
  /\ weights' = IF n = 0 THEN Untrained
                ELSE [r \in Roles |-> shard[<<r, n, CHOOSE k \in Ranks : TRUE>>]]
  /\ delivered' = <<>>
  /\ UNCHANGED <<inLoop, valDone, served, job, bufferVars>>

-----------------------------------------------------------------------------
(* Load and publish.                                                       *)

\* _load_checkpoint; without data.pt the data loader starts from scratch.
Load ==
  LET n == ResumeStep IN
  /\ pc = "load" /\ pc' = "publish"
  /\ LoadCheckpoint
  /\ globalSteps' = n
  /\ weights' = IF n = 0 THEN Untrained
                ELSE [r \in Roles |-> shard[<<r, n, CHOOSE k \in Ranks : TRUE>>]]
  /\ delivered' = IF n = 0 \/ loaderFile[n] = NoValue THEN <<>> ELSE loaderFile[n]
  /\ UNCHANGED <<inLoop, valDone, served, job, bufferVars>>

Die ==
  /\ pc' = "dead"
  /\ UNCHANGED <<globalSteps, inLoop, valDone, weights, served, delivered, job,
                 bufferVars, storeVars>>

LoadFails == pc = "load" /\ at = Down /\ ~Loadable /\ Die

IsLast == globalSteps >= TotalSteps

\* save_freq, test_freq: at multiples of the frequency and at the last step.
Due(freq) == freq > 0 /\ (IsLast \/ globalSteps % freq = 0)

\* Past the first validation fit enters its loop, past a later one it cleans up.
PastValidation ==
  IF inLoop THEN pc' = "clear" /\ UNCHANGED <<globalSteps, inLoop>>
  ELSE pc' = "generate" /\ globalSteps' = globalSteps + 1 /\ inLoop' = TRUE

\* checkpoint_manager.update_weights.
Publish ==
  LET validates == IF inLoop THEN Due(TestFreq) ELSE ValBeforeTrain IN
  /\ pc = "publish"
  /\ served' = weights["actor"]
  /\ \/ validates /\ pc' = "validate" /\ UNCHANGED <<globalSteps, inLoop>>
     \/ ~validates /\ PastValidation
  /\ UNCHANGED <<valDone, weights, delivered, job, bufferVars, storeVars>>

-----------------------------------------------------------------------------
(* Validation: one batch after the other through the partition "val".      *)

ValGenerate ==
  /\ pc = "validate" /\ valDone < ValBatches /\ pc' = "valWait"
  /\ Generate("val", globalSteps, ValN)
  /\ UNCHANGED <<globalSteps, inLoop, valDone, weights, served, delivered, job, storeVars>>

ValSample ==
  /\ pc = "valWait" /\ pc' = "valRead"
  /\ Sample("val", globalSteps)
  /\ UNCHANGED <<globalSteps, inLoop, valDone, weights, served, delivered, job, storeVars>>

BatchStored == batch["val"].keys \subseteq DOMAIN tq["val"]

\* kv_batch_get and kv_clear.  What the queue answers for no keys or for keys
\* it does not have is its own; an exception is one of the answers.
ValRead ==
  /\ pc = "valRead" /\ pc' = "valRemove"
  /\ ClearQueue("val")
  /\ UNCHANGED <<globalSteps, inLoop, valDone, weights, served, delivered, job, storeVars>>

ValReadFails == pc = "valRead" /\ (batch["val"].keys = {} \/ ~BatchStored) /\ Die

ValRemove ==
  /\ pc = "valRemove" /\ pc' = "validate"
  /\ Remove("val")
  /\ valDone' = valDone + 1
  /\ UNCHANGED <<globalSteps, inLoop, weights, served, delivered, job, storeVars>>

ValEnd ==
  /\ pc = "validate" /\ valDone = ValBatches
  /\ PastValidation
  /\ valDone' = 0
  /\ UNCHANGED <<weights, served, delivered, job, bufferVars, storeVars>>

-----------------------------------------------------------------------------
(* Training.                                                               *)

\* One epoch of TotalSteps batches; a job that resumes behind the last step
\* finds its epoch over.
Exhausted == globalSteps > TotalSteps \/ Len(delivered) >= TotalSteps

TrainGenerate ==
  /\ pc = "generate" /\ ~Exhausted /\ pc' = "wait"
  /\ delivered' = Append(delivered, <<job, Len(delivered) + 1>>)
  /\ Generate("train", globalSteps, TrainN)
  /\ UNCHANGED <<globalSteps, inLoop, valDone, weights, served, job, storeVars>>

EpochOver ==
  /\ pc = "generate" /\ Exhausted /\ pc' = "done"
  /\ UNCHANGED <<globalSteps, inLoop, valDone, weights, served, delivered, job,
                 bufferVars, storeVars>>

TrainSample ==
  /\ pc = "wait" /\ pc' = "balance"
  /\ Sample("train", globalSteps)
  /\ UNCHANGED <<globalSteps, inLoop, valDone, weights, served, delivered, job, storeVars>>

\* _balance_batch: pad the batch to a multiple.
BalanceBatch ==
  LET size == Cardinality(batch["train"].keys) IN
  /\ pc = "balance" /\ batch["train"].keys # {} /\ pc' = "train"
  /\ \/ size % BatchMultiple = 0 /\ UNCHANGED bufferVars
     \/ \E n \in 1..BatchMultiple - 1 : (size + n) % BatchMultiple = 0 /\ Pad("train", n)
  /\ UNCHANGED <<globalSteps, inLoop, valDone, weights, served, delivered, job, storeVars>>

\* get_seqlen_balanced_partitions asserts that there is something to divide.
BalanceFails == pc = "balance" /\ batch["train"].keys = {} /\ Die

\* The rest of step(): everything that is computed from the batch, then the
\* critic's update and, after its warm-up, the actor's.
Train ==
  LET trains(r) == r = "critic" \/ CriticWarmup <= globalSteps IN
  /\ pc = "train"
  /\ weights' = [r \in Roles |->
       IF trains(r) THEN Append(weights[r], delivered[Len(delivered)]) ELSE weights[r]]
  /\ pc' = IF Due(SaveFreq) THEN "save" ELSE "publish"
  /\ UNCHANGED <<globalSteps, inLoop, valDone, served, delivered, job, bufferVars, storeVars>>

-----------------------------------------------------------------------------
(* Saving and the end of a step.                                           *)

SaveCheckpoint ==
  /\ pc = "save" /\ at # globalSteps
  /\ \/ BeginSave(globalSteps, [part \in Parts |->
            IF part = "data" THEN delivered ELSE weights[part]])
     \/ SaveProgress
  /\ UNCHANGED <<fitVars, bufferVars>>

Saved ==
  /\ pc = "save" /\ at = globalSteps /\ pc' = "publish"
  /\ UNCHANGED <<globalSteps, inLoop, valDone, weights, served, delivered, job,
                 bufferVars, storeVars>>

Clear ==
  /\ pc = "clear" /\ pc' = "remove"
  /\ ClearQueue("train")
  /\ UNCHANGED <<globalSteps, inLoop, valDone, weights, served, delivered, job, storeVars>>

EndStep ==
  /\ pc = "remove" /\ pc' = IF IsLast THEN "done" ELSE "generate"
  /\ Remove("train")
  /\ globalSteps' = globalSteps + 1
  /\ UNCHANGED <<inLoop, valDone, weights, served, delivered, job, storeVars>>

-----------------------------------------------------------------------------
(* Everything that goes on beside fit, and the end of a job.               *)

Beside(activity) ==
  /\ at # Down /\ pc # "dead"
  /\ activity
  /\ UNCHANGED <<fitVars, storeVars>>

MayFail ==
  \A k \in DOMAIN session : session'[k] \in {"empty", "failed"} =>
    session'[k] = session[k] \/ <<prompt[k[1]].step, k[2]>> \in Fragile

Workers ==
  \/ Beside(Poll)
  \/ Beside(SessionEnds /\ MayFail)
  \/ Beside(PromptEnds)

\* The job is killed, or has died, and is started again.
Restart ==
  /\ at # Down /\ pc # "done" /\ job < MaxJobs
  /\ job' = job + 1
  /\ pc' = "load" /\ globalSteps' = 0 /\ inLoop' = FALSE /\ valDone' = 0
  /\ weights' = Untrained /\ served' = <<>> /\ delivered' = <<>>
  /\ ResetBuffer
  /\ CrashStore

Fit ==
  \/ Load \/ LoadFails \/ Publish
  \/ ValGenerate \/ ValSample \/ ValRead \/ ValReadFails \/ ValRemove \/ ValEnd
  \/ TrainGenerate \/ EpochOver \/ TrainSample \/ BalanceBatch \/ BalanceFails \/ Train
  \/ SaveCheckpoint \/ Saved \/ Clear \/ EndStep

Next == Fit \/ Workers \/ Restart

Spec == Init /\ [][Next]_vars

\* fit is one thread; the poll thread, the workers' event loops and the engines
\* behind the sessions go on.  Nothing makes a job be killed.
FairSpec ==
  /\ Spec
  /\ WF_vars(Fit)
  /\ WF_vars(Beside(PollList)) /\ WF_vars(Beside(\E p \in Partitions : PollAdd(p)))
  /\ WF_vars(Beside(SessionEnds /\ MayFail)) /\ WF_vars(Beside(PromptEnds))

-----------------------------------------------------------------------------
(* Properties.                                                             *)

\* Whatever jobs were killed and resumed on the way, the critic in memory was
\* trained on every batch of the data set once and in order, the actor on the
\* same rollouts of those behind the warm-up, global_steps counts them, and
\* the replicas generate with the actor that was trained on all but the batch
\* under way.  So a resumed job never repeats or skips a batch, and never puts
\* together roles or a data loader from different saves.
LineageIntact ==
  pc \notin {"load", "dead"} =>
    LET under == IF pc \in {"wait", "balance", "train"} THEN 1 ELSE 0
        trained == SubSeq(delivered, 1, Len(delivered) - under)
        since == IF CriticWarmup = 0 THEN 1 ELSE CriticWarmup
        ahead == IF inLoop /\ pc \in {"generate", "done"} THEN 1 ELSE 0
    IN /\ \A i \in 1..Len(delivered) : delivered[i][2] = i
       /\ Len(delivered) = globalSteps - ahead
       /\ UseCritic => weights["critic"] = trained
       /\ weights["actor"] = SubSeq(trained, since, Len(trained))
       /\ pc \notin {"publish", "save"} => served = weights["actor"]

\* Every job comes to an end, unless it is killed: it never waits forever for a
\* prompt, even if sessions raise, return nothing or outlive their prompt.
FitEnds == <>[](pc \in {"done", "dead"})
=============================================================================
