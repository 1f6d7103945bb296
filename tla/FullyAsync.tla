----------------------------- MODULE FullyAsync -----------------------------
(***************************************************************************)
(* Fully asynchronous training: the rollouter of FullyAsyncRollouter.tla,  *)
(* the MessageQueue between them, and the FullyAsyncTrainer                *)
(* (experimental/fully_async_policy/fully_async_trainer.py), which         *)
(* collects batches, trains, and every TriggerStep batches pushes its      *)
(* weights to the rollout servers and resets the rollouter's staleness     *)
(* count; and the driver (fully_async_main.py), which waits for both.      *)
(***************************************************************************)
EXTENDS FullyAsyncRollouter

CONSTANTS
  TestFreq    (* trainer.test_freq: decides the final weight sync          *)

ASSUME TestFreqAssumption == TestFreq \in Nat \ {0}

VARIABLES
  trainerPc,  (* where FullyAsyncTrainer.fit stands                        *)
  batch,      (* queue_samples: collected for the next training step       *)
  trained,    (* samples of completed training steps                       *)
  localStep,  (* local_trigger_step                                        *)
  version,    (* current_param_version                                     *)
  terminated, (* the termination signal was received                       *)
  mainDone    (* the driver's training loop has ended                      *)

trainerVars == <<trainerPc, batch, trained, localStep, version, terminated>>
vars == <<rollouterVars, trainerVars, mainDone>>

Init ==
  /\ RollouterInit
  /\ trainerPc = "collect"
  /\ batch = {}
  /\ trained = {}
  /\ localStep = 1
  /\ version = 0
  /\ terminated = FALSE
  /\ mainDone = FALSE

rollouterOnlyVars == <<sharedVars, procVars, task, resetVars, monitorVars,
                       streamPc, serverVars>>

(* _get_samples_from_queue: one get_sample call after the other.           *)
TrainerCall ==
  /\ trainerPc = "collect"
  /\ Cardinality(batch) < RequiredSamples
  /\ MQ!CallGetSample("trainer")
  /\ UNCHANGED <<rollouterOnlyVars, trainerVars, mainDone>>

QueueGet ==
  /\ MQ!GetSample("trainer")
  /\ UNCHANGED <<rollouterOnlyVars, trainerVars, mainDone>>

(* None ends the collection, and a partial batch is dropped with it.       *)
TrainerReceive ==
  /\ MQ!ReceiveReply("trainer")
  /\ IF reply["trainer"] = EndSignal
       THEN /\ trainerPc' = "stop"
            /\ terminated' = TRUE
            /\ UNCHANGED batch
       ELSE /\ batch' = batch \cup {reply["trainer"]}
            /\ trainerPc' = IF Cardinality(batch') = RequiredSamples
                              THEN "train" ELSE "collect"
            /\ UNCHANGED terminated
  /\ UNCHANGED <<rollouterOnlyVars, trained, localStep, version, mainDone>>

(* The computations of fit_step, then _fit_update_local_step: every        *)
(* TriggerStep batches the version advances and the weights are pushed.    *)
TrainerTrain ==
  /\ trainerPc = "train"
  /\ trained' = trained \cup batch
  /\ batch' = {}
  /\ IF localStep < TriggerStep
       THEN /\ localStep' = localStep + 1
            /\ trainerPc' = "collect"
            /\ UNCHANGED version
       ELSE /\ localStep' = 1
            /\ version' = version + 1
            /\ trainerPc' = "sync"
  /\ UNCHANGED <<rollouterVars, terminated, mainDone>>

(* update_weights begins by aborting the requests in flight; without       *)
(* partial rollout their samples end there, cut short.  abort_all_requests *)
(* swallows a failure, so a server may go on generating while the weights  *)
(* arrive, with some of its requests aborted and others not.               *)
SyncAbort ==
  /\ trainerPc = "sync"
  /\ serving' \in BOOLEAN
  /\ \E aborted \in SUBSET {s \in Samples : task[s] = "generating"} :
       /\ PartialRollout => aborted = {}
       /\ ~PartialRollout /\ ~serving' =>
            aborted = {s \in Samples : task[s] = "generating"}
       /\ task' = [s \in Samples |-> IF s \in aborted THEN "cut" ELSE task[s]]
  /\ trainerPc' = "transfer"
  /\ UNCHANGED <<mqVars, sharedVars, procVars, resetVars, monitorVars, streamPc,
                 served, batch, trained, localStep, version, terminated,
                 mainDone>>

(* The weights have arrived, generation resumes with them, and the trainer *)
(* calls reset_staleness.                                                  *)
SyncResume ==
  /\ trainerPc = "transfer"
  /\ served' = version
  /\ serving' = TRUE
  /\ resetPc' = "called"
  /\ trainerPc' = "resetting"
  /\ UNCHANGED <<mqVars, sharedVars, procVars, task, resetActive, resetSize,
                 monitorVars, streamPc, batch, trained, localStep, version,
                 terminated, mainDone>>

TrainerReset ==
  /\ trainerPc = "resetting" /\ resetPc = "replied"
  /\ resetPc' = "idle"
  /\ trainerPc' = IF terminated THEN "done" ELSE "collect"
  /\ UNCHANGED <<mqVars, sharedVars, procVars, task, resetActive, resetSize,
                 monitorVars, streamPc, serverVars, batch, trained, localStep,
                 version, terminated, mainDone>>

(* After the loop: a last sync, unless validation was due anyway; with     *)
(* local_trigger_step > 1 _fit_update_weights returns at once.             *)
TrainerStop ==
  /\ trainerPc = "stop"
  /\ trainerPc' = IF version % TestFreq # 0 /\ localStep = 1
                    THEN "sync" ELSE "done"
  /\ UNCHANGED <<rollouterVars, batch, trained, localStep, version, terminated,
                 mainDone>>

Trainer ==
  \/ TrainerCall \/ TrainerReceive \/ TrainerTrain
  \/ SyncAbort \/ SyncResume \/ TrainerReset \/ TrainerStop

(* The driver waits for both futures and clears the queue.                 *)
MainEnd ==
  /\ ~mainDone
  /\ streamPc = "returned" /\ trainerPc = "done"
  /\ MQ!ClearQueue
  /\ mainDone' = TRUE
  /\ UNCHANGED <<rollouterOnlyVars, trainerVars>>

RollouterStep == RollouterNext /\ UNCHANGED <<trainerVars, mainDone>>

Next == RollouterStep \/ QueueGet \/ Trainer \/ MainEnd

Terminated == mainDone /\ \A s \in Samples : task[s] \in {"none", "done", "failed"}

Spec == Init /\ [][Next]_vars

(* Every coroutine, actor and the trainer keeps running; asyncio.Lock is   *)
(* first come first served, so whoever waits for it gets it, however often *)
(* others take it meanwhile.  The stream begins its end when the processor *)
(* is over, and trainer, queue and driver answer each other one at a time: *)
(* each chain has one step enabled at most, and one fairness condition.    *)
Lifted(A) == UNCHANGED <<trainerVars, mainDone>> /\ A

Fairness ==
  /\ SF_vars(Lifted(Processor \/ Stream))
  /\ SF_vars(Lifted(Resetter))
  /\ SF_vars(Lifted(Monitor))
  /\ \A s \in Samples :
       WF_vars(Lifted(TaskGenerate(s) \/ TaskPut(s) \/ TaskDone(s)))
  /\ WF_vars(QueueGet \/ Trainer \/ MainEnd)

FairSpec == Spec /\ Fairness

-----------------------------------------------------------------------------
TypeOK ==
  /\ RollouterTypeOK
  /\ trainerPc \in {"collect", "train", "sync", "transfer", "resetting",
                    "stop", "done"}
  /\ batch \subseteq Samples /\ Cardinality(batch) <= RequiredSamples
  /\ trained \subseteq Samples
  /\ localStep \in 1 .. TriggerStep
  /\ version \in Nat
  /\ terminated \in BOOLEAN
  /\ mainDone \in BOOLEAN

WindowSamples == RequiredSamples * TriggerStep   (* trained between two syncs *)

InQueue == {queue[i] : i \in 1 .. Len(queue)} \ {EndSignal}
Generating == {s \in Samples : task[s] \in {"generating", "cut", "generated"}}
Held == {held} \ {NoSample}

(* Samples taken from the dataset that the trainer has not been given yet. *)
Outstanding == Held \cup Generating \cup InQueue

InReply == IF consumer["trainer"] = "replied"
             THEN {reply["trainer"]} \ {EndSignal} ELSE {}

(* The count that decides when to pause is never more than one sample      *)
(* short: reset_staleness may miss the sample the processor has popped but *)
(* not submitted, and nothing else, whatever runs while it awaits the      *)
(* queue size (fully_async_rollouter.py:575).                              *)
StalenessCovers == Cardinality(Outstanding) <= staleness + 1

(* Between two weight updates the samples left over from the last one and  *)
(* those added since are at most one more than max_required_samples (the   *)
(* evicted ones, which nobody will train on, come on top); so after an     *)
(* update at most (MaxRequiredSamples - WindowSamples) + 1 samples are     *)
(* left to be trained on with newer weights than they were begun with.     *)
RolloutNumBound ==
  popped <= WindowSamples * served + MaxRequiredSamples + 1 + droppedSamples

(* A sample is in one place only and none is lost on the way, save the     *)
(* evicted ones and those whose generation failed.                         *)
Conservation ==
  ~mainDone =>
    popped = Cardinality(Held) + Cardinality(Generating)
             + Cardinality({s \in Samples : task[s] = "failed"})
             + Cardinality(InQueue) + Cardinality(InReply)
             + Cardinality(batch) + Cardinality(trained) + droppedSamples

(* Eviction is as rare as put_sample's comment hopes: a weight update can  *)
(* overrun the queue by one sample, and the end signal may evict another.  *)
DropsBounded ==
  droppedSamples <= served + (IF streamPc = "streaming" THEN 0 ELSE 1)

(* The end signal is never evicted, though tasks of a processor that died  *)
(* may still put samples behind it: the trainer will see it.               *)
SentinelSurvives ==
  streamPc # "streaming" /\ ~terminated =>
    \/ \E i \in 1 .. Len(queue) : queue[i] = EndSignal
    \/ consumer["trainer"] = "replied" /\ reply["trainer"] = EndSignal

(* Unless a task fails, nothing is put behind the end signal, and when the *)
(* trainer has read it nothing is under way any more: every sample of the  *)
(* data set was trained on, was evicted, or is in the incomplete batch     *)
(* that the signal ends (fully_async_rollouter.py:903, the processor waits *)
(* for all tasks before the stream puts the signal).                       *)
NothingStranded ==
  (\A s \in Samples : task[s] # "failed") =>
    /\ \A i \in 1 .. Len(queue) - 1 : queue[i] # EndSignal
    /\ terminated =>
         TotalRolloutSteps = Cardinality(batch) + Cardinality(trained) + droppedSamples

(* Room for a whole window besides the tasks that run at a weight update.  *)
(* reset_staleness counts tasks that have ended and are still in           *)
(* active_tasks; without the room they can keep the rollouter paused       *)
(* although the trainer has less than a batch (as in FixedRolloutNum).     *)
Slack == WindowSamples + MaxConcurrentSamples <= MaxRequiredSamples

(* With that room training comes to an end, tasks that fail and aborts     *)
(* that are swallowed included: the rollouter feeds all samples or dies,   *)
(* the trainer receives the end signal, and the driver returns.            *)
Termination == Slack => <>mainDone

(* A pause with no reason left (one decided on statistics that a reset has *)
(* since outdated, say) does not last: the monitor lifts it.               *)
PauseIsLifted == []<>~(running /\ paused /\ ~ShouldPause(Len(queue)))

(* The documentation of staleness_threshold: between two parameter updates *)
(* the rollouter generates at most rollout_num samples, those left over    *)
(* from the last update included.                                          *)
AtMostRolloutNum ==
  Cardinality({s \in Samples : task[s] \in {"put", "done"}})
    <= WindowSamples * served + MaxRequiredSamples

(* The documentation of staleness_threshold = 0: between two updates the   *)
(* rollouter generates the fixed number of samples the trainer asks for    *)
(* (as long as the dataset lasts).                                         *)
FixedRolloutNum ==
  \A v \in 0 .. TotalRolloutSteps :
    (served = v /\ (v + 1) * WindowSamples <= TotalRolloutSteps)
      ~> totalProduced >= (v + 1) * WindowSamples

=============================================================================
