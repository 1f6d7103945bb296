# A TLA+ model of the TA-OPD training system

This directory is a formal model of the control logic of TA-OPD, a
reinforcement-learning and distillation trainer built on verl (the repository's
`verl/` tree; paths below are relative to `src/verl/verl/` unless they start
with `src/`). The model is a set of TLA+ modules, TLC configurations that check
them on small instances, and TLAPS proofs that some of the properties hold for
every value of the constants. `PROJECT.json` says which definition stands for
which lines of the code.

TLA+ is about states and steps. So the modules are about the part of the
program that is hard because of its states and steps: actors and coroutines
that share counters across `await`, queues with limits, weights that are
replaced while requests run. The numerical part (models, losses, kernels) is
not modelled.

## 1. The system

A training run in the fully asynchronous mode consists of Ray actors, each with
an asyncio event loop or a thread of its own:

| component | file | state it keeps | operations |
|---|---|---|---|
| message queue | `experimental/fully_async_policy/message_queue.py` | a deque of samples, `running`, three counters, a lock and a condition | `put_sample`, `get_sample`, `clear_queue`, `shutdown`, `get_statistics`, `get_queue_size` |
| rollouter | `experimental/fully_async_policy/fully_async_rollouter.py` | `paused`, `staleness_samples`, `active_tasks`, `pending_queue`, `running`, `lock`, `_resume_event` | coroutines: feeder, processor, one task per sample, monitor, stream; RPCs: `reset_staleness`, `do_validate`, `add_replicas`, `remove_replicas` |
| trainer | `experimental/fully_async_policy/fully_async_trainer.py` | `current_param_version`, `local_trigger_step`, `global_steps`, the collected batch | `fit_step`, `_fit_update_weights`, `_trainer_side_validate`, checkpoints |
| driver | `experimental/fully_async_policy/fully_async_main.py` | futures of the two actors | start both, wait, clear the queue |
| load balancer | `workers/rollout/llm_server.py` | pool of servers, in-flight counts, sticky sessions (LRU) | `acquire_server`, `release_server`, `add_servers`, `remove_servers` |
| rollout client | `FullyAsyncLLMServerClient` in `fully_async_rollouter.py`, `LLMServerClient` | the output merged so far, the token budget, oldest and newest weight version | `generate` with its retry loop |
| rollout server | `workers/rollout/vllm_rollout/vllm_async_server.py` | engine paused or not, awake or not, `global_steps`, requests | `generate`, `abort_all_requests`, `resume_generation`, `sleep`, `wake_up`, `set_global_steps` |
| weight sync | `checkpoint_engine/base.py`, `workers/engine_workers.py` | list of replicas | `update_weights` (abort, transfer, resume), `abort_replicas`, `sleep_replicas`, ... |
| weight transfer, trainer to servers | `checkpoint_engine/nccl_checkpoint_engine.py`, `checkpoint_engine/base.py` | two buffers on every side, the broadcast under way | `send_weights`, `receive_weights`, splitting and merging of large weights |
| weight transfer, into the engine | `workers/rollout/vllm_rollout/bucketed_weight_transfer.py` | one buffer shared by a sender and a receiver | bucketed send and receive over a REQ/REP socket |
| agent loop, teacher loop, reward loop | `experimental/agent_loop`, `experimental/teacher_loop`, `experimental/reward_loop` | per-sample conversation, routing of teacher requests, rate limits | one rollout, one score |
| synchronous trainer with transfer queue | `trainer/main_ppo_sync.py` | `global_steps`, weights, position of the data loader; the replay buffer and its poll thread; prompts and sessions of the agent loop workers; the transfer queue (a library) | `fit`, `step`, `_validate`, `_save_checkpoint`, `_load_checkpoint`; `add`, `remove`, `sample`; `_run_prompt` |
| other synchronous trainers | `trainer/ppo/ray_trainer.py`, `experimental/one_step_off_policy`, `experimental/separation` | global step | `fit` |
| controller | `single_controller/` | worker groups, resource pools | dispatch and collect |
| data | `protocol.py`, `utils/seqlen_balancing.py`, `trainer/ppo/padding_utils.py`, `utils/dataset/` | batches | split, pad, balance |
| checkpoints | `utils/checkpoint/`, `_save_checkpoint` and `_load_checkpoint` of the trainers | shards, data loader state and tracker file on disk, the list of saved paths in memory | save, rotate, load |
| losses | `trainer/distillation/`, `trainer/ppo/core_algos.py` | none | tensors in, tensors out |
| scoring and evaluation | `src/deepscaler/`, `src/evaluation/`, `utils/reward_score/` | none | text in, score out |

### How the components interact

The feeder numbers the samples of the dataset and puts them, and a final `None`,
into `pending_queue`. The processor takes one after the other, counts it in
`staleness_samples`, waits while too many tasks are active, and starts a task.
The task generates (through the agent loop, the client, the load balancer and a
server) and calls `put_sample` on the message queue. The trainer calls
`get_sample` until it has a batch, trains, and after `trigger_parameter_sync_step`
batches pushes its weights to the servers and calls `reset_staleness`. The
processor pauses when the queue or `staleness_samples` reaches
`max_required_samples`; the monitor looks every ten seconds whether the pause can
be lifted.

When weights are pushed, `CheckpointEngineManager.update_weights` aborts the
requests in all servers, moves the weights (an NCCL broadcast to the checkpoint
engine workers, then a shared buffer into the engine), labels the servers with
the new version and lets generation resume. Aborted requests go back to the
client, which merges what it has and asks the load balancer for a server again.
For a validation on the trainer's own GPUs the hybrid servers are woken up, join
the pool of the load balancer, leave it and sleep again.

The synchronous trainer of `main_ppo_sync.py` shares no event loop with the
rollout. It announces the prompts of a batch in its replay buffer and hands them to
the agent loop workers, whose tasks put every output, and at the end a tag for the
prompt, into the transfer queue. A poll thread copies the tags of the queue into the
buffer about once a second. `sample` waits until no prompt of the step is marked as
running there and returns what the sessions produced; the trainer pads and divides
the batch, trains, saves now and then, pushes its weights, validates through another
partition of the queue, and clears queue and buffer. A job that is killed is started
again and resumes from the checkpoint the tracker file names.

### What is hard about it

Every coroutine of an actor runs until its next `await`, and any other may run
there. The lines where that matters, and the other hazards, are listed one by one
in `PROJECT.json` under `hazards`; in short:

* **Counters across an await.** `reset_staleness` reads the number of active
  tasks, awaits the queue size of another actor and then assigns the sum. The
  processor counts a sample when it pops it and submits it later. The decision to
  pause uses statistics that are one RPC old.
* **Waiting for each other.** The processor waits for tasks while it holds the
  lock that the reset and the monitor need; the trainer waits for samples; the
  consumers of the queue wait on a condition.
* **Full queues.** The message queue evicts when it is full, and the end signal
  is an element like any other.
* **Failure of one part.** A task that raises ends the processor while other
  tasks run; a server call that raises has to give its slot back; an abort that fails
  is answered with an error that nobody reads, and the weights are loaded all the same.
* **Weights under running requests.** Broadcasts reach the servers in any order,
  requests are aborted, move to another server and continue with other weights.
* **Late messages.** Releases are fire-and-forget; a server can leave the pool
  and return before they arrive. Metadata over PUB/SUB can be lost before a
  subscription is in place.
* **Reuse of buffers** that a device copy or a broadcast may still read.
* **Boundaries.** Token budgets that reach zero, weights of size zero, of the
  size of a bucket, larger than a bucket.
* **A cache filled behind one's back.** The buffer's copy of the tags is as old as
  the last listing, listings are added after entries were removed, and the tag that
  ends a prompt lacks the field that `sample` reads.
* **Sessions that outlive their prompt.** A prompt ends as soon as one session
  raises; the others go on storing.
* **Crashes between two file operations** of a checkpoint, and in one.

### What makes each component correct

* Message queue: it holds the newest samples in order, hands out each at most
  once, loses one only by overflow or `clear_queue`, its statistics agree with
  that, and nobody sleeps when there is something to take or after `shutdown`.
* Rollouter, trainer, driver: no sample is lost or trained on twice; generation
  runs ahead of training by a bounded number of samples; the end signal reaches
  the trainer after the last sample; training ends.
* Load balancer: the counts it balances on are those of the requests that run; no
  call goes outside of the pool, whatever a session remembers, and a new session goes
  where the fewest requests are.
* Client and servers: no token comes from half-loaded weights and the version labels
  of a sample enclose the versions of its tokens, as long as aborts succeed, and where one
  fails all but the requests it left in the engine are safe; an answer has a bounded
  length however often it is interrupted; every request ends.
* Synchronous trainer: a batch it computes on is complete; every job ends; however
  often it is killed, it trains on every batch once, with weights, step and data
  loader that belong together.
* Checkpoints: at every moment the tracked one is whole, and from a single save.
* Weight transfer: every receiver gets every weight, byte for byte, and both
  sides end.

## 2. The modules

| module | models | uses |
|---|---|---|
| `SampleStream` | abstract: a window that moves over the stream of samples | |
| `MessageQueue` | `message_queue.py` | implements `SampleStream` |
| `FullyAsyncRollouter` | `fully_async_rollouter.py`, the coroutines of the actor | instance of `MessageQueue` |
| `FullyAsync` | `fully_async_trainer.py` and `fully_async_main.py`, closing the loop | extends `FullyAsyncRollouter` |
| `LoadBalancer` | `GlobalRequestLoadBalancer` and the calls of its clients | |
| `RolloutServing` | clients, vLLM servers, `update_weights`, `_trainer_side_validate` | instance of `LoadBalancer` |
| `WeightDelivery` | abstract: every receiver loads every weight, and ends with all of them | |
| `BucketTransfer` | `bucketed_weight_transfer.py` | implements `WeightDelivery` |
| `BroadcastTransfer` | `nccl_checkpoint_engine.py`, chunking in `base.py` | implements `WeightDelivery` |
| `ReplayBuffer` | `ReplayBuffer`, `AgentLoopWorkerTQ` and the calls to the transfer queue in `main_ppo_sync.py` | |
| `CheckpointStore` | `_save_checkpoint`, `_load_checkpoint`, `fsdp_checkpoint_manager.py`, `checkpoint_manager.py`, kills | |
| `SyncTrainer` | `PPOTrainer.fit` of `main_ppo_sync.py` over several jobs | extends the two above and implements `BufferSpec` and `StoreSpec` |
| `MC...` | the instances for TLC | one module each |
| `MessageQueueProofs`, `FullyAsyncProofs`, `LoadBalancerProofs`, `RolloutServingProofs`, `BucketTransferProofs`, `BroadcastTransferProofs`, `SyncTrainerProofs` | theorems about the module they are named after | TLAPS |
| `SyncPartsProofs` | theorems about `ReplayBuffer` and `CheckpointStore` | TLAPS |

Each module has a section of *faulty variants*: operators that no specification
uses, each a plausible slip in one definition (a dropped guard, a swapped order).
Put in the place of the definition they are named after, they make TLC report
the property they are meant for; `PROJECT.json` lists them under `mutants`.

### How state and actions correspond to the code

**MessageQueue.** `queue` is the deque, `running`, `totalProduced`,
`totalConsumed` and `droppedSamples` the attributes of the actor. The asyncio lock
is held across an `await` nowhere but in `Condition.wait`, which releases it, so a
body of `put_sample`, `clear_queue` or `shutdown` is one step, and `get_sample` is
one step up to its wait and one after it (`consumer` says where a caller is:
`calling`, `waiting` on the condition, `woken` and to test the `while` again, and
so on). A sample is its number.

**FullyAsyncRollouter.** One step is the code between two awaits. `lock` shows a
holder only for the coroutines that await inside their critical section: the
resetter, and the processor waiting at its concurrency limit or for the last
tasks. A coroutine that takes the lock and leaves it without an await has the
conjunct `LockFree` only. `procPc`, `resetPc`, `monitorPc`, `streamPc` are program
counters, `task[s]` is the stage of the task of sample `s`. Reads of the queue
actor's statistics (`procSize`, `monitorSize`, `resetSize`) are steps of their own,
since the answer may be outdated when it is used. The feeder is abstracted to "the
next sample": it refills `pending_queue` up to 128 whenever the event loop runs it
and the processor awaits an RPC between two gets, so that a get never finds the
queue empty. A task that raises is reaped by whichever coroutine awaits it
(`AfterReaping`), which ends the processor.

**FullyAsync.** The trainer's loop is `collect`, `train`, and after
`trigger_parameter_sync_step` batches `sync`, `transfer`, `resetting`. `SyncAbort`
stops generation and ends the samples in flight when `partial_rollout` is off; or an
abort fails unnoticed, then any of them may go on while the weights arrive.
`RolloutServing` has that part server by server. `served` is the
version of the weights on the servers. After the end signal comes the last
synchronization with its early return, and the driver ends with `clear_queue`.

**LoadBalancer.** `pool`, `inflight`, `sticky` and `recent` (the LRU order) are the
actor's dictionaries; `assigned` and `returning` are what a client holds and the
release it has sent. The eviction of the LRU cache is the library's (`cachetools`), modelled
from its use, and nothing is claimed about it for its own sake: `RoutingSound` is about
where calls are sent. Ray delivers the calls of one client in order, so a request's
next acquire follows its release.

**RolloutServing.** `pc[r]` is where the request stands: at the client (`ready`),
at the gate of a server (`sent`), in the engine, answered. `gate`, `awake`,
`weights` and `steps` are the state of a server. The trainer's flows are scripts of
broadcasts (`UpdateScript`, `ValidateScript`): a broadcast reaches the servers in
any order and the next one begins when all have answered. `Torn` stands for weights
that are being overwritten or discarded. The engine is external: of it the model
has what the comments and calls of `vllm_async_server.py` say
(`pause_generation`, `resume_generation`, `sleep`, draining). A closed gate stops new
requests only, so a request inside generates until it is aborted or done. An abort closes
the gate and empties the engine (`Abort`); or, at a server in `Flaky`, it raises: before
the gate is closed or after, with none, some or all of the requests aborted.
`abort_all_requests` catches the exception and `update_weights` goes on (`AbortFails`).
`swallowed` is the set of servers where that has happened since the last resume, and
`exposed` that of the requests that were inside such a server then, left there by the
abort or admitted after it. Both are bookkeeping for the properties: no action depends on
them.

**BucketTransfer, BroadcastTransfer.** A weight is the sequence of its bytes, and
byte `i` of weight `w` is the pair `<<w, i>>`, so a misplaced or overwritten byte
shows. Copies by the receiver take place one by one until it synchronizes; the
sender synchronizes before a message, so its packing is a step. `BroadcastTransfer`
has two buffers on each side, the broadcast in its thread (`op`, `rop`), metadata
on channels that lose what is published before the subscription is in place, and
the merging of chunks with its assertions. `WeightDelivery`'s state is computed
from the state of either: `got` is the set of weights that are complete and intact.

**ReplayBuffer.** `tq` is the transfer queue and `partitions` the buffer, both
dictionaries from keys to tags; `polled` is the listing the poll thread holds
between `kv_list` and its calls of `add`, one per partition and each under the lock.
The queue is a library: the model takes from the calls that a put and a clear are
atomic and a listing shows one moment. `dict.update` is `Added`, so an entry keeps the
`global_steps` of its announcement when the worker's tag without that field arrives.
`session` says how each session ended; `PromptFails` needs only one that raised.
Prompts and sessions that are over are forgotten in `Remove`, where nobody refers to
them any more. `BufferSpec` leaves open who calls what in which order, but for two
rules a trainer keeps: one batch of a partition at a time, and new prompts only
without a batch.

**CheckpointStore.** A file is the value of the part it was written from, or
`NoValue` when it is missing or cut short, so files of different saves can be told
apart. `save` is the save under way and its program counter; every shard is a step,
every removed file is one, the barriers of `save_checkpoint` are guards. `previous`
is the list of saved paths, in memory: after a restart it is empty, and checkpoints
of earlier jobs are never rotated out. `CrashStore` can leave the files that are
being written complete, missing or torn, and the tracker empty. `StoreSpec` allows
any saves with rising steps.

**SyncTrainer.** `pc` is where `fit` stands. Weights are the sequence of batches
they were trained on, a batch is `<<job, number>>`: two rollouts of one batch differ.
`delivered` is the position of the data loader with its history. Model updates, log
probabilities and advantages of a step are the action `Train`. `Restart` kills the
job anywhere, takes everything in memory and the transfer queue, and leaves the
files; `dead` is a job that an exception ended.

## 3. What TLC checks

| run | question | instance |
|---|---|---|
| `message_queue` | contents, wake-ups, shutdown; implements `SampleStream` | 2 consumers, capacity 2, 4 samples |
| `fully_async` | how far the rollouter overruns, what is dropped, that nothing vanishes, the end signal | batches of 1, 1 per update, 1 stale sample allowed, a replica (16 tasks), 8 samples, 2 of which may fail |
| `fully_async_live` | training ends; a groundless pause is lifted | batches of 2, 4 required samples, 2 tasks, no partial rollout, 4 samples, one may fail |
| `load_balancer` | counts, and where calls are sent | 3 requests, 2 permanent and 1 hybrid server, cache of 2 |
| `rollout_serving` | length of answers, pool, use of the balancer | 2 requests, 2 standalone and 1 hybrid server, one update and validation; aborts succeed |
| `rollout_serving_live` | whose weights and labels a failed abort can spoil; labels cover versions; every request ends | 1 request, 2 standalone servers whose aborts may fail, 3 updates |
| `bucket_transfer` | intact, all of them, to the end | 4 weights of every size 0 to 4, bucket of 3 |
| `broadcast_transfer` | double buffers, chunks, lost metadata, to the end | 2 receivers, 3 weights of every size 1 to 5, bucket of 2 |
| `sync_trainer` | complete batches, tracked checkpoint, lineage of the weights over kills, every job ends | 3 steps with a checkpoint each, 2 kept, actor and critic on 2 ranks, prompts with 2 and 1 sessions, one of which may fail, a validation of 2 batches, 2 jobs |
| `rollout_num`, `fixed_rollout_num`, `sleeping_server` | violations, section 5 | |

**Why these bounds.** The queue needs more samples than it holds, and a second
consumer for a wake-up of two for one sample. The rollouter needs a window that is
used up and refilled several times: an overrun shows one update after the reset
that miscounts, so eight samples at one per update are several rounds of it, and few
enough would hide that the samples an overrun evicts are generated on top of it (they
first appear at the eighth); with two failing samples the processor dies with another
task in flight. In `fully_async_live` four samples are two batches: the first update can
find the rollouter paused at its limit, with two tasks in flight. A cache smaller
than the number of requests makes evictions, a hybrid server stale entries. Two
updates let a request be aborted twice, and be in flight over more than one
version; with failing aborts one can be in flight over an update without being aborted.
`rollout_serving_live` has one request, because no action of a request waits for
another: the balancer always answers, and an engine has no limit on requests. That an
abort can fail with some of several requests aborted is in the model and so in the
theorems (section 4); with one it leaves it in the engine or not. In the transfers the sizes run over every relation to the bucket: empty,
smaller, exactly fitting, larger, and for the chunked one more than two buckets.
With four buckets or more each of the two buffers is reused. Sizes in
`BroadcastTransfer` begin at one, because `split_weight_chunks` yields no chunk of an
empty weight. Three saves with two kept make a rotation; the kill may come during it,
and the second job rotates with an empty list. Three steps put one before, one at and
one after the end of the actor's warm-up (`CriticWarmup = 2`). The session that may
fail or return nothing belongs to a prompt with a second one, which then outlives it.
Two batches in one validation share their `global_steps`. Validation is at the last
step only (`TestFreq = 3`, none before training), since it doubles the states of every
step and adds no new order to it.

**When fully asynchronous training ends.** `ConcurrencyLimit` is 16 tasks for each
replica (`fully_async_rollouter.py` 541), and at most `max_required_samples` run. At the
sizes TLC can handle the literal 16 means that the second bound decides, as it does with
many replicas; so it is in `fully_async` and `fixed_rollout_num`. Where the first bound decides, the numbers are scaled
together: `fully_async_live` is an eighth of one replica with batches of 16 and
`staleness_threshold = 1` (32 required samples), `rollout_num` a sixteenth of it.
`Termination` is conditional on `Slack`: there is room for a whole window besides the
tasks that run at an update (16 + 16 <= 32). Without it training can stall:
`reset_staleness` counts tasks that have ended and have not been reaped, and if they and
the queue together reach `max_required_samples` although the trainer has less than a
batch to come, nobody goes on: with a threshold of 0 this is the counterexample of
`fixed_rollout_num` (section 5), and it is there with a positive one, too. With the
values of `fully_async_live`, but `MaxRequiredSamples = 3`, `ConcurrencyLimit = 16` and no
failing sample, TLC shows `<>mainDone` violated.

**Bounds that are not in the code** are `MaxPut` (samples put), `TotalRolloutSteps`
(a parameter of the code, small here), `MaxVersion` (weight updates), `MaxSize`
(bytes of a weight), `MaxJobs` (starts of a job), `Fragile` (the sessions that may
fail), `FailingSamples` (the samples whose generation may raise), `Flaky` (the servers
whose abort may fail); the data set of `SyncTrainer` is one epoch of `TotalSteps` batches; `Headroom` stands for the unused part of the prompt's length.
Bounds on samples and updates are guards of the first action that would exceed them.

**Deadlock** is checked in `load_balancer`, whose system never stops. The others
stop when training, the requests or the transfer are over (or, in the queue, when
the samples are used up), so it is switched off there and the liveness properties
say that they stop at the right place.

**Fairness.** A task, an actor, a process that can go on goes on: weak fairness
of every event loop, of the queue actor, the trainer, the driver, the transfer
processes and the device that does their copies. The processor, the resetter, the
monitor and the stream compete for `self.lock`. An `asyncio.Lock` is first come
first served, so a coroutine that asks for it gets it even if others take it in
between, which is strong fairness of each. A task may but need not fail. In `SyncTrainer` `fit` is one thread, the poll thread another, and sessions and
prompts are tasks of event loops that run; nothing makes a job be killed, so `Restart`
has no fairness. A
subscription in `BroadcastTransfer` need not arrive in time: `TransferEnds` is
stated for the runs in which it does. Requests in `RolloutServing` need no
strong fairness because the updates are finitely many. The processor and the stream that
waits for its end, and the trainer and the queue and driver that answer it, are chains in
which one step is enabled at most, so each has one condition. `EveryRequestEnds` is
checked without hybrid servers: with one, a request can be stuck in an engine
that sleeps (section 5).

## 4. What TLAPS proves

All for every value of the constants, under the named assumptions of the modules:
sizes, limits and numbers of samples are natural numbers, and those that the code
divides by, waits to fill or allocates are positive; `MaxRequiredSamples` is at least
the samples of one update; the set of requests is finite; at least one server is permanent, and
standalone and hybrid servers are disjoint. The theorems about checkpoints assume
`KeepsMore`: the number of checkpoints to keep is not exactly one, because with one
`TrackedComplete` is false (section 5). Those of `SyncTrainerProofs` assume `Scale`:
besides `KeepsMore`, that weights are sequences of batches, that there is a rank, and
that there is a job. `LabelsCorrect` assumes `PartialRollout`: without it an answer
that was aborted before it began has no labels.

* `MessageQueueProofs`: `TypeCorrect`, `SuffixCorrect`, `NoWakeupIsLost`,
  `StatisticsCorrect`, `DeliveryUnique`, `StreamImplemented`. The inductive
  invariant is the conjunction of the invariants. `QueueIsRecentSuffix` is what
  holds it together: the contents of the queue are determined by `totalProduced`
  and the length, so the head is the abstract `first` and what was handed out is
  smaller than everything queued. The proof needs two facts on sequences (`Tail`,
  `Append`), stated as lemmas.
* `FullyAsyncProofs`: `TypeCorrect`, `StalenessCorrect`, `RolloutNumCorrect`,
  `ConservationCorrect`, `DropsCorrect`, `SentinelCorrect`, `NothingStrandedCorrect`,
  `QueueCorrect`. Most of them are sums over the places a sample can be in, so the invariant first says that
  the places are disjoint and what each coroutine knows: `Places` and `TaskSet` (a
  popped sample is held by the processor or has a task, and the set of active tasks lags
  behind their ends), `Distinct` (no sample twice in the queue, in a reply, in a batch),
  `PutsCounted`. On that stands `Staleness`: for every point of `reset_staleness`, what
  it has read by then, hence that the count it is going to assign misses at most the one
  sample the processor holds. `Locking` is needed there: nobody changes the set of active
  tasks between the two reads of a reset. `Phases` says what the trainer holds in each
  phase, so that `Window` can compare what was popped with what was trained on, and
  `Overrun` shows that a reset forgives one sample and an eviction uses that up.
  `Ending` says that the end signal is put after the last task is over or has failed,
  and `Finishing` that it is taken from an otherwise empty queue and nothing moves
  after it: so without a failure `fit` strands no sample. `QueueCorrect` carries
  `NoLostWakeup` and `StatisticsAgree` of the queue over to the loop, where samples do
  not arrive in the order of their numbers.
* `LoadBalancerProofs`: `TypeCorrect`, `PermanentCorrect`, `LoadNeverOverstated`,
  `RoutingCorrect`.
  The invariant alone is not inductive: a request that held a server and had a
  release in transit at the same time could be counted once and counted down
  twice. `OneAtATime` says it never does, because a client acquires only after its
  release was sent and calls of a client arrive in order. `RoutingCorrect` follows from both
  directions: the chosen server has the smallest count, a permanent server's count is
  the number of its users, and no count in the pool is above that number.
* `RolloutServingProofs`: `TypeCorrect`, `WeightsCorrect`, `LengthCorrect`,
  `PoolCorrect`, `LabelsCorrect`; `BalancerUsed`, that clients, servers and trainer keep
  to the load balancer's protocol, and from it `BalancerCorrect`, its theorems for the
  composed system; and `RoutedCorrect`, from the balancer's routing and `PoolCorrect`. A broadcast reaches the servers in any order, so the invariant numbers
  the places of the two scripts (`PhaseAt`) and says for each of them, and for a server
  that has and one that has not answered, what its gate, its engine, its weights and its
  label are (`ServersAt`). Two facts carry the rest: whoever is in the
  engine of a server that is shut, or whose abort failed, is exposed (`ShutIsEmpty`), and
  an engine that sleeps has generated nothing for the requests in it (`AsleepIsIdle`). So
  nobody else generates while weights are torn, and a server is relabelled only then, so
  the labels a request brings back enclose the versions it used (`LabelsOf`, for requests
  outside of `exposed`). The theorems are for any `Flaky`: with none, `exposed` is empty
  and they are about every request. `Lengths` relates what is merged to the budget that is
  left over all attempts.
* `BucketTransferProofs`: `TypeCorrect`, `LoadedCorrect`, `DeliveryImplemented`.
  The inductive invariant follows the one bucket in flight: who may move
  (`Lockstep`), that its entries do not overlap what is packed next (`Packing`), that
  bucket and loaded weights together are what the iterator has yielded
  (`Accounted`), and that its bytes are in place (`InPlace`). That the sender never
  packs while the receiver reads is the consequence the code relies on.
* `BroadcastTransferProofs`: `TypeCorrect`, `BytesCorrect`, `AssertionsCorrect`,
  `DeliveryImplemented`. The transfer is seen as one stream of bytes, whose places
  are pairs of a weight and an offset (`Cursors`). From the sender's cursor backwards it is cut, without a gap and
  without an overlap, into the bucket being filled, the broadcast under way, what has
  arrived at a receiver, what it yields, the copies queued on its device, and what is
  loaded: `Pipeline` says that these segments join (`Chain`, `Flow`), and `Filling`,
  `Sending`, `Receiving` and `Consuming` which of the two buffers of a side each of them
  is in and that the buffer holds its bytes. So a buffer is filled again only after its
  segment has been broadcast, and on the receiver only after its copies are done. The
  assertions on merging follow because the chunks of a weight are consecutive in the
  stream, and that every weight is loaded because the cursor goes on to the end.
* `SyncPartsProofs`, first part: `StoreTypeCorrect`, `TrackedCorrect`. A save touches the
  tracked checkpoint if its step is the tracked one or if a rotation removes it. The
  invariant excludes both: steps rise (`Ahead`), and the list of saved paths is
  increasing and ends in the tracked step until the new one is registered
  (`Remembered`), so what rotation takes from the front is older as long as two stay.
  `Written` says which files of the save under way hold its values.
* `SyncPartsProofs`, second part: `BufferTypeCorrect`, `SampleCorrect`, `StepsPresent`. That a
  batch is complete needs an order of events: the sessions of a prompt that
  finished are over (`Ended`), and what they stored stays in the queue while the
  prompt runs (`Kept`); so a listing with the prompt's last tag has their outputs too,
  unless the buffer has them already (`Carried`, for the queue and for the listing in
  the poll thread's hands); so a buffer that shows the prompt as over shows the outputs
  (`Arrived`), also while only one of the partitions has been added. `Known` and
  `Buffered` say that the entry of an announced prompt stays in the buffer, and with it
  its `global_steps`; `Listed` and `Held` say what a listing and a batch can refer to.
* `SyncTrainerProofs`: `SyncTypeCorrect`; `ImplementsBuffer` and `ImplementsStore`:
  `fit` keeps to the protocols of its two parts, under the identity as refinement
  mapping; from them and the theorems above `BatchesComplete`, `BatchesHaveStep` and
  `ResumableAlways`; and `LineageCorrect`. The latter is not inductive, because a resume takes
  its state from files: the invariant adds that the save under way and the one the
  tracker names are whole (`SavesWhole`), that is, that their data loader has yielded
  as many batches as their step, the critic was trained on all of them and the actor on
  those behind the warm-up.

Two theorems are about more than a run: `RoutedCorrect` has none of its own, since it
follows from what `load_balancer` and `rollout_serving` check, and `WeightsCorrect` covers the
hybrid servers and several requests, while `NoTornWeights` is checked with one request on
standalone servers.

**Model-checked only:** the liveness properties (`Termination`, `PauseIsLifted`,
`ShutdownReleases`, `EveryRequestEnds`, `TransferEnds` of both transfers, `FitEnds`),
since liveness under fairness is out of the prover's reach, and the three
counterexamples of section 5. Every other property of a passing run is a theorem.

## 5. Where code and documentation disagree

Three runs end in a counterexample, on purpose.

* `rollout_num`. `docs/advance/fully_async.md` (137-139) bounds the samples
  generated between two updates by `rollout_num`. `reset_staleness` does not count
  a sample that the processor has popped and not submitted, so one more can be
  generated. `StalenessCovers` shows that the count is never short by more than
  one. Between two updates the surplus can be larger: the samples the queue evicts do
  not count as backlog, and others are generated in their place. `RolloutNumBound` is
  the limit with the uncounted sample and the evicted ones added. Without the latter it
  held for up to seven samples and was false in general, which a failing proof step
  showed before TLC did.
* `fixed_rollout_num`. With `staleness_threshold = 0` the same document (131-134)
  promises a fixed number of samples per update. `reset_staleness` also counts
  tasks that have finished but are still in `active_tasks`, and whose samples may
  be trained on already; the rollouter then pauses one sample short of a batch, the
  monitor sees no reason to lift the pause, and the trainer waits. A positive threshold
  does not exclude it: with batches of 2 and 3 required samples (section 3)
  an update can find three tasks in `active_tasks` that have ended or are about to, and
  two of whose samples are trained on; the count is three again, the trainer gets the third
  sample and waits for a fourth.
* `sleeping_server`. A request that was given a hybrid server before it left the
  pool and reaches it after the abort waits at its gate; `sleep` drains the engine
  but not the gate, and the last `resume_generation_replicas` of
  `_trainer_side_validate` also opens the gates of the sleeping servers.

Seen while modelling, without a run of its own:

* `abort_all_requests` promises that the engine stays paused after the call (docstring,
  `vllm_async_server.py` 700-705) and catches every exception (748-750). Neither the
  replica nor `update_weights` reads the error it returns then, so weights are overwritten
  under running requests. `AbortFails` models it: without the exception for `exposed`, TLC
  shows `NoTornWeights` violated in `rollout_serving_live`. With it, run and theorems
  show how far the damage goes: only answers of requests in that engine can have tokens
  of torn weights or labels that do not enclose their versions, and all still end.
* With one checkpoint to keep (`max_actor_ckpt_to_keep = 1`, what the warning about
  `remove_previous_ckpt_in_save` recommends) `register_checkpoint` removes the old
  actor as soon as the new one is written. The tracker still names the old step, and the
  critic, the data loader and the tracker of the new one are not there. A kill in
  between leaves nothing to resume from, although the comment of
  `ensure_checkpoint_capacity` (`checkpoint_manager.py` 156-157) says that the existing
  checkpoint is kept until the new save completes. With `MCKeep` set to 1, with or
  without a critic, TLC shows `TrackedComplete` violated.
* The tracker is written "for atomic resume" (`main_ppo_sync.py` 847), but in place:
  `open(..., "w")` empties it first, and a kill before the step is written makes the next
  start fail at `int("")`. `CrashStore` and `LoadFails` model it.
* All batches of a validation have the same `global_steps`. A listing taken before the
  trainer cleared a batch and added after it brings its keys back, and the next
  batch samples keys that the queue has no data for (`ValReadFails`).
* A step in which every session fails has an empty batch, which the partitioning
  rejects with an assertion (`BalanceFails`).

Also: both transfers implement `WeightDelivery` up to stuttering, and to load an intact
weight again is a stutter there. That a weight arrives once is shown only indirectly, by
the invariants about cursors and positions. With `partial_rollout` off, tasks in flight
are cut short by an update although `docs/advance/fully_async.md` (217-218) says
that they are waited for; after a hybrid server left and returned, releases of its
earlier life make it look less loaded than it is (`NeverOverstated` states the
direction that is guaranteed); with `local_trigger_step > 1` the final
synchronization of the trainer returns at once.

## 6. What is not modelled, and why

Losses, models, kernels and engines are numerical. Scoring and evaluation map text
to text. These and the launch scripts, data sets, tests and vendored trees are nearly
all of the repository's lines, so the part a state machine can say something about, and
with it the share of lines that `map` covers, is small. The controller's dispatch is a synchronous call in every modelled flow. The
SGLang and TensorRT-LLM servers are alternatives to the vLLM one with the same
interface; the other checkpoint engines wrap libraries whose behaviour is not in
the repository, or repeat the NCCL pipeline on other hardware. Inside the modelled
components: the validation queue (nothing calls it), metrics and profiling, set-up
and tear-down of process groups, multimodal inputs and LoRA, the branch for vLLM
before 0.12. In the synchronous trainer: the REMAX baseline, colocated reward
models, profiling and metrics. Of checkpoints: the Megatron manager and its
asynchronous saves (which write the tracker themselves), remote copies, the modes
`disable` (a job that starts over overwrites shards in place, under a tracker of the
earlier job) and `resume_path`, and the contents of a shard. The rate limiter of
`reward_manager/limited.py`: what it promises is a bound in real time on an external
service, and to the trainers a score that comes late is a session or a task that takes
longer, which the models allow. The algorithms of `utils/seqlen_balancing.py` only
reorder a batch. `components` in `PROJECT.json` has one entry for each.

## 7. Plan

The order was: the sample pipeline first, since all coordination of the
asynchronous mode is in it (`MessageQueue`, `FullyAsyncRollouter`, `FullyAsync`),
then serving under weight updates (`LoadBalancer`, `RolloutServing`), then the
transfers, then the synchronous trainer with its checkpoints (`ReplayBuffer`,
`CheckpointStore`, `SyncTrainer`), then proofs of every safety property. Open, in
this order:

1. The asynchronous trainer's checkpoints: `CheckpointStore` composed with
   `FullyAsync`, where the data loader belongs to the rollouter and samples in flight
   are lost.
2. `RateLimiter`, with time as a bounded counter: requests over the capacity, waiters
   that race for tokens, and a reward function that goes on after its timeout.
3. The one-step-off pipeline, and the partitioning of sequence lengths against a
   reference definition.
