------------------------ MODULE FullyAsyncRollouter ------------------------
(***************************************************************************)
(* The FullyAsyncRollouter actor                                           *)
(* (experimental/fully_async_policy/fully_async_rollouter.py) around the   *)
(* MessageQueue actor.  It is one asyncio event loop, so code between two  *)
(* awaits is one step; the coroutines that interleave are                  *)
(*   the processor  (_processor_worker): pops pending samples, submits a   *)
(*                  task for each, pauses itself when too many samples are *)
(*                  outstanding;                                           *)
(*   the tasks      (_process_single_sample_streaming), one per sample;    *)
(*   the resetter   (reset_staleness), an RPC of the trainer;              *)
(*   the monitor    (_async_monitor_loop), every ten seconds;              *)
(*   the stream     (_streaming_generation_main and fit).                  *)
(*                                                                         *)
(* self.lock is an asyncio.Lock; only coroutines that await inside their   *)
(* critical section (the resetter, and the processor while it waits at its *)
(* limit or for the last tasks) are ever seen holding it.                  *)
(*                                                                         *)
(* _feed_samples fills pending_queue up to its 128 slots whenever the      *)
(* event loop runs it, and the processor awaits an RPC between two gets,   *)
(* so a get never finds pending_queue empty: the feeder is abstracted to   *)
(* "the next sample", 1 .. TotalRolloutSteps in order and then None.       *)
(***************************************************************************)
EXTENDS Integers, Sequences, FiniteSets

CONSTANTS
  RequiredSamples,      (* required_samples: the trainer's batch           *)
  TriggerStep,          (* trigger_parameter_sync_step                     *)
  MaxRequiredSamples,   (* int(required * (staleness_threshold + 1) * trigger) *)
  ConcurrencyLimit,     (* 16 * number of replicas                         *)
  TotalRolloutSteps,    (* total_rollout_steps: samples fed in all         *)
  PartialRollout,       (* partial_rollout: aborted requests are continued *)
  FailingSamples        (* samples whose generation may raise              *)

ASSUME RequiredAssumption == RequiredSamples \in Nat \ {0}
ASSUME TriggerAssumption == TriggerStep \in Nat \ {0}
ASSUME MaxRequiredAssumption ==
  /\ MaxRequiredSamples \in Nat
  /\ MaxRequiredSamples >= RequiredSamples * TriggerStep
ASSUME LimitAssumption == ConcurrencyLimit \in Nat \ {0}
ASSUME TotalAssumption == TotalRolloutSteps \in Nat
ASSUME PartialAssumption == PartialRollout \in BOOLEAN
ASSUME FailingAssumption == FailingSamples \subseteq 1 .. TotalRolloutSteps

(* set_max_required_samples: the limit on concurrent samples never exceeds *)
(* the queue capacity, which is max_required_samples.                      *)
MaxConcurrentSamples ==
  IF ConcurrencyLimit < MaxRequiredSamples
    THEN ConcurrencyLimit ELSE MaxRequiredSamples

Samples == 1 .. TotalRolloutSteps
EndSignal == 0          (* the None that ends the stream                   *)
NoSample == 0

VARIABLES
  (* the MessageQueue actor *)
  queue, mqRunning, totalProduced, totalConsumed, droppedSamples, consumer,
  reply,
  (* shared state of the rollouter's coroutines *)
  paused,       (* self.paused; _resume_event is set exactly when FALSE    *)
  staleness,    (* self.staleness_samples                                  *)
  activeTasks,  (* self.active_tasks: also finished tasks until reaped     *)
  lock,         (* self.lock: "free" or the coroutine holding it           *)
  running,      (* self.running                                            *)
  (* the coroutines *)
  procPc,       (* where the processor stands                              *)
  procSize,     (* queue_size in the statistics the processor received     *)
  popped,       (* samples taken from pending_queue so far                 *)
  held,         (* rollout_sample between its pop and its submission       *)
  task,         (* stage of each sample's task                             *)
  resetPc, resetActive, resetSize,   (* reset_staleness and its two reads  *)
  monitorPc, monitorSize,            (* the monitor and its statistics     *)
  streamPc,     (* _streaming_generation_main and fit                      *)
  (* the rollout servers, as the tasks see them *)
  served,       (* version of the weights the servers generate with        *)
  serving       (* FALSE from abort_all_requests to resume_generation      *)

mqVars == <<queue, mqRunning, totalProduced, totalConsumed, droppedSamples,
            consumer, reply>>
sharedVars == <<paused, staleness, activeTasks, lock, running>>
procVars == <<procPc, procSize, popped, held>>
resetVars == <<resetPc, resetActive, resetSize>>
monitorVars == <<monitorPc, monitorSize>>
serverVars == <<served, serving>>
rollouterVars == <<mqVars, sharedVars, procVars, task, resetVars,
                   monitorVars, streamPc, serverVars>>

MQ == INSTANCE MessageQueue WITH
        Consumers <- {"trainer"},
        MaxQueueSize <- MaxRequiredSamples,
        MaxPut <- TotalRolloutSteps + 1,
        running <- mqRunning

TaskStage == {"none", "generating", "cut", "generated", "put", "done", "failed"}
ProcPc == {"check", "stats", "decide", "pauseLock", "drain", "get", "limit",
           "limitWait", "submit", "endDrain", "endWait", "ended", "died"}

RollouterInit ==
  /\ MQ!Init
  /\ paused = FALSE
  /\ staleness = 0
  /\ activeTasks = {}
  /\ lock = "free"
  /\ running = TRUE
  /\ procPc = "check"
  /\ procSize = 0
  /\ popped = 0
  /\ held = NoSample
  /\ task = [s \in Samples |-> "none"]
  /\ resetPc = "idle"
  /\ resetActive = 0
  /\ resetSize = 0
  /\ monitorPc = "sleep"
  /\ monitorSize = 0
  /\ streamPc = "streaming"
  /\ served = 0
  /\ serving = TRUE

LockFree == lock = "free"
Finished == {s \in activeTasks : task[s] \in {"done", "failed"}}

-----------------------------------------------------------------------------
(* Faulty variants, each a plausible slip in the definition it is named    *)
(* after.  No specification uses them: the runs are shown to catch them.   *)

(* _should_pause_generation with > for >=.                                 *)
ShouldPauseLate(size) ==
  size > MaxRequiredSamples \/ staleness > MaxRequiredSamples

(* _should_pause_generation that forgets the staleness count.              *)
ShouldPauseQueueOnly(size) == size >= MaxRequiredSamples

(* _processor_worker without the concurrency limit.                        *)
ProcLimitMissing ==
  /\ procPc = "limit"
  /\ procPc' = "submit"
  /\ UNCHANGED <<mqVars, sharedVars, procSize, popped, held, task,
                 resetVars, monitorVars, streamPc, serverVars>>

(* _processor_worker that does not wait for the last tasks.                *)
ProcEndAtOnce ==
  /\ procPc = "endDrain"
  /\ procPc' = "ended"
  /\ UNCHANGED <<mqVars, sharedVars, procSize, popped, held, task,
                 resetVars, monitorVars, streamPc, serverVars>>

(* A task that puts its sample again when the answer is slow.              *)
TaskPutAgain(s) ==
  /\ task[s] = "generated"
  /\ MQ!PutSample(s)
  /\ \E stage \in {"generated", "put"} : task' = [task EXCEPT ![s] = stage]
  /\ UNCHANGED <<sharedVars, procVars, resetVars, monitorVars,
                 streamPc, serverVars>>

(* reset_staleness counting the queue only.                                *)
ResetAssignQueueOnly ==
  /\ resetPc = "sized"
  /\ staleness' = resetSize
  /\ lock' = "free"
  /\ resetPc' = "replied"
  /\ resetActive' = 0 /\ resetSize' = 0
  /\ UNCHANGED <<mqVars, paused, activeTasks, running, procVars, task,
                 monitorVars, streamPc, serverVars>>

(* The monitor testing `self.running` the wrong way round.                 *)
MonitorCheckStopped ==
  /\ monitorPc = "sleep"
  /\ ~running /\ paused
  /\ monitorPc' = "stats"
  /\ UNCHANGED <<mqVars, sharedVars, procVars, task, resetVars,
                 monitorSize, streamPc, serverVars>>

-----------------------------------------------------------------------------
(* _should_pause_generation, evaluated on a queue size that was read one   *)
(* RPC earlier and on the current staleness count.                         *)
ShouldPause(size) ==
  size >= MaxRequiredSamples \/ staleness >= MaxRequiredSamples

-----------------------------------------------------------------------------
(* The processor, top of its loop: `self.paused or await ...`.             *)
ProcCheck ==
  /\ procPc = "check"
  /\ procPc' = IF paused THEN "pauseLock" ELSE "stats"
  /\ UNCHANGED <<mqVars, sharedVars, procSize, popped, held, task,
                 resetVars, monitorVars, streamPc, serverVars>>

(* get_statistics runs in the queue actor.                                 *)
ProcStats ==
  /\ procPc = "stats"
  /\ procSize' = Len(queue)
  /\ procPc' = "decide"
  /\ UNCHANGED <<mqVars, sharedVars, popped, held, task, resetVars,
                 monitorVars, streamPc, serverVars>>

ProcDecide ==
  /\ procPc = "decide"
  /\ procPc' = IF ShouldPause(procSize) THEN "pauseLock" ELSE "get"
  /\ procSize' = 0
  /\ UNCHANGED <<mqVars, sharedVars, popped, held, task,
                 resetVars, monitorVars, streamPc, serverVars>>

(* `async with self.lock: self.paused = True; self._resume_event.clear()`. *)
ProcPause ==
  /\ procPc = "pauseLock" /\ LockFree
  /\ paused' = TRUE
  /\ procPc' = "drain"
  /\ UNCHANGED <<mqVars, staleness, activeTasks, lock, running, procSize,
                 popped, held, task, resetVars, monitorVars, streamPc,
                 serverVars>>

(* Awaiting finished tasks re-raises the exception of a failed one, which  *)
(* ends the processor.                                                     *)
AfterReaping(tasks, next) ==
  procPc' = IF \E s \in tasks : task[s] = "failed" THEN "died" ELSE next

(* The drain loop reaps what asyncio.wait returned, under the lock.  Tasks *)
(* that finish while it waits for the lock are left for the next round.    *)
ProcDrainReap ==
  /\ procPc = "drain" /\ LockFree
  /\ \E reaped \in (SUBSET Finished) \ {{}} :
       /\ activeTasks' = activeTasks \ reaped
       /\ AfterReaping(reaped, "drain")
  /\ UNCHANGED <<mqVars, paused, staleness, lock, running, procSize, popped,
                 held, task, resetVars, monitorVars, streamPc, serverVars>>

(* The resume signal ends the drain, tasks in flight or not.               *)
ProcResumed ==
  /\ procPc = "drain" /\ ~paused
  /\ procPc' = "check"
  /\ UNCHANGED <<mqVars, sharedVars, procSize, popped, held, task,
                 resetVars, monitorVars, streamPc, serverVars>>

(* pending_queue.get() and `staleness_samples += 1`, without the lock; the *)
(* end signal is counted like a sample.                                    *)
ProcGet ==
  /\ procPc = "get"
  /\ staleness' = staleness + 1
  /\ \/ /\ popped < TotalRolloutSteps
        /\ popped' = popped + 1
        /\ held' = popped + 1
        /\ procPc' = "limit"
     \/ /\ popped = TotalRolloutSteps
        /\ procPc' = "endDrain"
        /\ UNCHANGED <<popped, held>>
  /\ UNCHANGED <<mqVars, paused, activeTasks, lock, running, procSize,
                 task, resetVars, monitorVars, streamPc, serverVars>>

(* The concurrency limit: wait for a task to finish, holding the lock.     *)
ProcLimit ==
  /\ procPc = "limit"
  /\ IF Cardinality(activeTasks) >= MaxConcurrentSamples
       THEN LockFree /\ lock' = "processor" /\ procPc' = "limitWait"
       ELSE procPc' = "submit" /\ UNCHANGED lock
  /\ UNCHANGED <<mqVars, paused, staleness, activeTasks, running, procSize,
                 popped, held, task, resetVars, monitorVars, streamPc,
                 serverVars>>

(* `done_tasks, self.active_tasks = await asyncio.wait(...)`: the finished *)
(* tasks leave the set and the lock is released.                           *)
ProcReapHolding(waiting, next) ==
  /\ procPc = waiting
  /\ Finished # {}
  /\ activeTasks' = activeTasks \ Finished
  /\ AfterReaping(Finished, next)
  /\ lock' = "free"
  /\ UNCHANGED <<mqVars, paused, staleness, running, procSize, popped, held,
                 task, resetVars, monitorVars, streamPc, serverVars>>

ProcLimitReap == ProcReapHolding("limitWait", "limit")

(* Create the task and add it to active_tasks, under the lock.             *)
ProcSubmit ==
  /\ procPc = "submit" /\ LockFree
  /\ ~paused
  /\ activeTasks' = activeTasks \cup {held}
  /\ task' = [task EXCEPT ![held] = "generating"]
  /\ held' = NoSample
  /\ procPc' = "check"
  /\ UNCHANGED <<mqVars, paused, staleness, lock, running, procSize, popped,
                 resetVars, monitorVars, streamPc, serverVars>>

(* After the end signal: wait for all tasks, one batch at a time.          *)
ProcEnd ==
  /\ procPc = "endDrain"
  /\ IF activeTasks = {}
       THEN procPc' = "ended" /\ UNCHANGED lock
       ELSE LockFree /\ lock' = "processor" /\ procPc' = "endWait"
  /\ UNCHANGED <<mqVars, paused, staleness, activeTasks, running, procSize,
                 popped, held, task, resetVars, monitorVars, streamPc,
                 serverVars>>

ProcEndReap == ProcReapHolding("endWait", "endDrain")

Processor ==
  \/ ProcCheck \/ ProcStats \/ ProcDecide \/ ProcPause
  \/ ProcDrainReap \/ ProcResumed
  \/ ProcGet \/ ProcLimit \/ ProcLimitReap \/ ProcSubmit
  \/ ProcEnd \/ ProcEndReap

-----------------------------------------------------------------------------
(* A task: generate_sequences_single returns (a request the weight sync    *)
(* aborted may return early, "cut"), or raises.                            *)
TaskGenerate(s) ==
  /\ task[s] = "cut" \/ (task[s] = "generating" /\ serving)
  /\ task' = [task EXCEPT ![s] = "generated"]
  /\ UNCHANGED <<mqVars, sharedVars, procVars, resetVars, monitorVars,
                 streamPc, serverVars>>

TaskFail(s) ==
  /\ s \in FailingSamples
  /\ task[s] = "generating"
  /\ task' = [task EXCEPT ![s] = "failed"]
  /\ UNCHANGED <<mqVars, sharedVars, procVars, resetVars, monitorVars,
                 streamPc, serverVars>>

(* put_sample runs in the queue actor; its answer comes back later.        *)
TaskPut(s) ==
  /\ task[s] = "generated"
  /\ MQ!PutSample(s)
  /\ task' = [task EXCEPT ![s] = "put"]
  /\ UNCHANGED <<sharedVars, procVars, resetVars, monitorVars,
                 streamPc, serverVars>>

TaskDone(s) ==
  /\ task[s] = "put"
  /\ task' = [task EXCEPT ![s] = "done"]
  /\ UNCHANGED <<mqVars, sharedVars, procVars, resetVars, monitorVars,
                 streamPc, serverVars>>

Task(s) == TaskGenerate(s) \/ TaskFail(s) \/ TaskPut(s) \/ TaskDone(s)

-----------------------------------------------------------------------------
(* reset_staleness: with the lock held, resume, read len(active_tasks),    *)
(* await the queue size, and only then assign the sum.                     *)
ResetBegin ==
  /\ resetPc = "called" /\ LockFree
  /\ lock' = "resetter"
  /\ paused' = FALSE
  /\ resetActive' = Cardinality(activeTasks)
  /\ resetPc' = "sizing"
  /\ UNCHANGED <<mqVars, staleness, activeTasks, running, procVars, task,
                 resetSize, monitorVars, streamPc, serverVars>>

ResetSize ==
  /\ resetPc = "sizing"
  /\ resetSize' = Len(queue)
  /\ resetPc' = "sized"
  /\ UNCHANGED <<mqVars, sharedVars, procVars, task, resetActive,
                 monitorVars, streamPc, serverVars>>

ResetAssign ==
  /\ resetPc = "sized"
  /\ staleness' = resetActive + resetSize
  /\ lock' = "free"
  /\ resetPc' = "replied"
  /\ resetActive' = 0 /\ resetSize' = 0
  /\ UNCHANGED <<mqVars, paused, activeTasks, running, procVars, task,
                 monitorVars, streamPc, serverVars>>

Resetter == ResetBegin \/ ResetSize \/ ResetAssign

-----------------------------------------------------------------------------
(* The monitor wakes up, and if the rollouter is paused asks for the queue *)
(* statistics and resumes it when nothing calls for the pause any more.    *)
MonitorCheck ==
  /\ monitorPc = "sleep"
  /\ running /\ paused
  /\ monitorPc' = "stats"
  /\ UNCHANGED <<mqVars, sharedVars, procVars, task, resetVars,
                 monitorSize, streamPc, serverVars>>

MonitorStats ==
  /\ monitorPc = "stats"
  /\ monitorSize' = Len(queue)
  /\ monitorPc' = "decide"
  /\ UNCHANGED <<mqVars, sharedVars, procVars, task, resetVars, streamPc,
                 serverVars>>

MonitorDecide ==
  /\ monitorPc = "decide"
  /\ monitorPc' = IF ShouldPause(monitorSize) THEN "sleep" ELSE "lock"
  /\ monitorSize' = 0
  /\ UNCHANGED <<mqVars, sharedVars, procVars, task, resetVars, streamPc,
                 serverVars>>

MonitorResume ==
  /\ monitorPc = "lock" /\ LockFree
  /\ paused' = FALSE
  /\ monitorPc' = "sleep"
  /\ UNCHANGED <<mqVars, staleness, activeTasks, lock, running, procVars,
                 task, resetVars, monitorSize, streamPc, serverVars>>

MonitorExit ==
  /\ monitorPc = "sleep" /\ LockFree
  /\ ~running
  /\ monitorPc' = "exited"
  /\ UNCHANGED <<mqVars, sharedVars, procVars, task, resetVars,
                 monitorSize, streamPc, serverVars>>

Monitor ==
  MonitorCheck \/ MonitorStats \/ MonitorDecide \/ MonitorResume \/ MonitorExit

-----------------------------------------------------------------------------
(* The `finally` of _streaming_generation_main, whether the processor      *)
(* returned or raised: put the end signal, then clear `running`.           *)
StreamPutEnd ==
  /\ streamPc = "streaming"
  /\ procPc \in {"ended", "died"}
  /\ MQ!PutSample(EndSignal)
  /\ streamPc' = "stopping"
  /\ UNCHANGED <<sharedVars, procVars, task, resetVars, monitorVars,
                 serverVars>>

StreamStop ==
  /\ streamPc = "stopping" /\ LockFree
  /\ running' = FALSE
  /\ streamPc' = "stopped"
  /\ UNCHANGED <<mqVars, paused, staleness, activeTasks, lock, procVars,
                 task, resetVars, monitorVars, serverVars>>

(* fit gathers the stream and the monitor (exceptions swallowed).          *)
FitReturn ==
  /\ streamPc = "stopped" /\ monitorPc = "exited"
  /\ streamPc' = "returned"
  /\ UNCHANGED <<mqVars, sharedVars, procVars, task, resetVars,
                 monitorVars, serverVars>>

Stream == StreamPutEnd \/ StreamStop \/ FitReturn

RollouterNext ==
  \/ Processor \/ Resetter \/ Monitor \/ Stream
  \/ \E s \in Samples : Task(s)

-----------------------------------------------------------------------------
RollouterTypeOK ==
  /\ MQ!TypeOK
  /\ paused \in BOOLEAN
  /\ staleness \in Nat
  /\ activeTasks \subseteq Samples
  /\ lock \in {"free", "processor", "resetter"}
  /\ running \in BOOLEAN
  /\ procPc \in ProcPc
  /\ procSize \in 0 .. MaxRequiredSamples
  /\ popped \in 0 .. TotalRolloutSteps
  /\ held \in Samples \cup {NoSample}
  /\ task \in [Samples -> TaskStage]
  /\ resetPc \in {"idle", "called", "sizing", "sized", "replied"}
  /\ resetActive \in 0 .. MaxConcurrentSamples
  /\ resetSize \in 0 .. MaxRequiredSamples
  /\ monitorPc \in {"sleep", "stats", "decide", "lock", "exited"}
  /\ monitorSize \in 0 .. MaxRequiredSamples
  /\ streamPc \in {"streaming", "stopping", "stopped", "returned"}
  /\ served \in Nat
  /\ serving \in BOOLEAN

=============================================================================
