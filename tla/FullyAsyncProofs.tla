-------------------------- MODULE FullyAsyncProofs --------------------------
(***************************************************************************)
(* For any batch size, trigger step, staleness bound, concurrency limit    *)
(* and number of samples: how far the rollouter runs ahead of training,    *)
(* where every sample is, what the queue can evict, and what becomes of    *)
(* the end signal.                                                         *)
(*                                                                         *)
(* The inductive invariant follows a sample from its pop to its training   *)
(* (Places, TaskSet, Distinct), so that the sizes of the sets it passes    *)
(* through can be added up (Conservation); what reset_staleness has read   *)
(* by the time it assigns (Locking, Staleness); what the trainer holds in  *)
(* each phase (Phases); and, from these, how many samples can be under way *)
(* (Window, Overrun) and behind the end signal (Ending).                   *)
(***************************************************************************)
EXTENDS FullyAsync, FiniteSetTheorems, TLAPS

Failed == {s \in Samples : task[s] = "failed"}
Produced == {s \in Samples : task[s] \in {"put", "done"}}
Elements(q) == {q[i] : i \in 1 .. Len(q)}
NoRepeat(q) == \A i, j \in 1 .. Len(q) : q[i] = q[j] => i = j
Items == Elements(queue)
Given == InReply \cup batch \cup trained
EndReplied == consumer["trainer"] = "replied" /\ reply["trainer"] = EndSignal
Alive == procPc \notin {"ended", "died"}

(* Samples are popped in order; the last one is held until its task is     *)
(* created, for ever if the processor dies meanwhile.                      *)
Places ==
  /\ \A s \in Samples : task[s] # "none" <=> s <= popped /\ s # held
  /\ held # NoSample => held = popped
  /\ procPc \in {"limit", "limitWait", "submit"} => held # NoSample
  /\ held # NoSample => procPc \in {"limit", "limitWait", "submit", "died"}

(* active_tasks has every task that runs, and a failed one until somebody  *)
(* reaps it, which is the end of the processor.                            *)
TaskSet ==
  /\ \A s \in Samples : task[s] \notin {"none", "done", "failed"} => s \in activeTasks
  /\ \A s \in activeTasks : task[s] # "none"
  /\ procPc # "died" => Failed \subseteq activeTasks
  /\ procPc = "died" => Failed # {}
  /\ procPc = "ended" => activeTasks = {}
  /\ Cardinality(activeTasks) <= MaxConcurrentSamples
  /\ procPc \in {"submit", "died"} => Cardinality(activeTasks) < MaxConcurrentSamples

(* Nobody changes active_tasks between reset_staleness's two reads.        *)
Locking ==
  /\ lock = "resetter" <=> resetPc \in {"sizing", "sized"}
  /\ lock = "processor" <=> procPc \in {"limitWait", "endWait"}
  /\ lock = "resetter" => resetActive = Cardinality(activeTasks)

(* A sample is at one place of the pipeline behind put_sample.             *)
Distinct ==
  /\ NoRepeat(queue)
  /\ Items \subseteq Produced \cup {EndSignal}
  /\ Given \subseteq Produced
  /\ Items \cap Given = {}
  /\ InReply \cap (batch \cup trained) = {}
  /\ batch \cap trained = {}

(* The end signal is put once, when the processor is gone; the tasks it    *)
(* left are too few to push the signal out of the queue.                   *)
Ending ==
  /\ streamPc = "streaming" => EndSignal \notin Items /\ ~EndReplied /\ ~terminated
  /\ streamPc # "streaming" => ~Alive
  /\ \A i \in 1 .. Len(queue) : queue[i] = EndSignal =>
       Len(queue) - i + Cardinality(Generating) < MaxRequiredSamples
  /\ procPc # "died" => \A i \in 1 .. Len(queue) - 1 : queue[i] # EndSignal

(* What the trainer has between its steps.                                 *)
Phases ==
  /\ mqRunning
  /\ consumer["trainer"] # "closed"
  /\ consumer["trainer"] # "idle" => trainerPc = "collect"
  /\ trainerPc = "collect" => Cardinality(batch) < RequiredSamples
  /\ trainerPc = "train" => Cardinality(batch) = RequiredSamples
  /\ trainerPc \in {"sync", "transfer", "resetting"} =>
       localStep = 1 /\ (~terminated => batch = {})
  /\ version = IF trainerPc \in {"sync", "transfer"} /\ ~terminated
                 THEN served + 1 ELSE served
  /\ Cardinality(trained) = WindowSamples * version + RequiredSamples * (localStep - 1)
  /\ trainerPc \in {"collect", "train"} => ~terminated
  /\ trainerPc \in {"stop", "done"} => terminated
  /\ resetPc = "idle" <=> trainerPc # "resetting"
  /\ mainDone => trainerPc = "done" /\ streamPc = "returned"

PutsCounted ==
  totalProduced = Cardinality(Produced) + (IF streamPc = "streaming" THEN 0 ELSE 1)

Backlog == Cardinality(Held) + Cardinality(Generating) + Cardinality(InQueue)

(* What reset_staleness is about to assign covers what it read before.     *)
Staleness ==
  /\ resetPc = "sized" =>
       /\ Cardinality(Generating) + Cardinality(InQueue) <= resetActive + resetSize
       /\ procPc # "died" =>
            Cardinality(Generating) + Cardinality(Failed) + Cardinality(InQueue)
              <= resetActive + resetSize
  /\ Backlog <= staleness + 1

(* The count against the samples trained.                                  *)
Window ==
  /\ procPc # "died" /\ ~terminated =>
       popped <= WindowSamples * served + staleness + 1 + droppedSamples
  /\ procPc = "get" =>
       popped <= WindowSamples * served + MaxRequiredSamples + droppedSamples
  /\ RolloutNumBound

(* Weight updates whose reset of the staleness count is over.              *)
Resets ==
  IF resetPc \in {"called", "sizing", "sized"} /\ ~terminated
    THEN served - 1 ELSE served

(* A reset forgives one sample, and a sample evicted has used that up.     *)
Overrun ==
  /\ Alive => Backlog + droppedSamples <= staleness + Resets
  /\ procPc = "get" => Backlog + droppedSamples < MaxRequiredSamples + Resets
  /\ Backlog + droppedSamples <= MaxRequiredSamples + Resets
  /\ droppedSamples <= Resets + (IF streamPc = "streaming" THEN 0 ELSE 1)

(* The end signal is read from an otherwise empty queue, unless the        *)
(* processor died; from then on the counts of samples are final.           *)
Finishing ==
  /\ procPc \in {"endDrain", "endWait", "ended"} => popped = TotalRolloutSteps
  /\ procPc # "died" /\ (EndReplied \/ terminated) => queue = <<>>
  /\ procPc # "died" /\ terminated =>
       popped = Cardinality(batch) + Cardinality(trained) + droppedSamples

IInv ==
  /\ TypeOK /\ Places /\ TaskSet /\ Locking /\ Distinct /\ Ending /\ Phases
  /\ PutsCounted /\ Staleness /\ Window /\ Overrun
  /\ Conservation /\ SentinelSurvives /\ Finishing

-----------------------------------------------------------------------------
(* The parameters are positive numbers, and the limits are in order.       *)
LEMMA ConstantFacts ==
  /\ RequiredSamples \in Nat /\ RequiredSamples >= 1
  /\ TriggerStep \in Nat /\ TriggerStep >= 1
  /\ WindowSamples \in Nat /\ WindowSamples >= 1
  /\ MaxRequiredSamples \in Nat /\ MaxRequiredSamples >= WindowSamples
  /\ MaxConcurrentSamples \in Nat /\ MaxConcurrentSamples >= 1
  /\ MaxConcurrentSamples <= MaxRequiredSamples
  /\ TotalRolloutSteps \in Nat
<1>1. /\ RequiredSamples \in Nat /\ RequiredSamples >= 1
      /\ TriggerStep \in Nat /\ TriggerStep >= 1
  BY RequiredAssumption, TriggerAssumption
<1>2. \A a, b \in Nat : a >= 1 /\ b >= 1 => a * b \in Nat /\ a * b >= 1
  OBVIOUS
<1>3. WindowSamples \in Nat /\ WindowSamples >= 1
  BY <1>1, <1>2 DEF WindowSamples
<1>4. MaxRequiredSamples \in Nat /\ MaxRequiredSamples >= WindowSamples
  BY MaxRequiredAssumption DEF WindowSamples
<1> QED
  BY <1>1, <1>3, <1>4, LimitAssumption, TotalAssumption DEF MaxConcurrentSamples

(* Sets of samples are finite, so their sizes can be added up.             *)
LEMMA SamplesFinite ==
  ASSUME NEW T, T \subseteq Samples
  PROVE  IsFiniteSet(T) /\ Cardinality(T) \in Nat /\ Cardinality(T) <= TotalRolloutSteps
<1>1. IsFiniteSet(Samples) /\ Cardinality(Samples) = TotalRolloutSteps
  BY ConstantFacts, FS_Interval DEF Samples
<1>2. IsFiniteSet(T) /\ Cardinality(T) <= Cardinality(Samples)
  BY <1>1, FS_Subset
<1> QED
  BY <1>1, <1>2, FS_CardinalityType

LEMMA OneMore ==
  ASSUME NEW T, T \subseteq Samples, NEW s \in Samples, s \notin T
  PROVE  Cardinality(T \cup {s}) = Cardinality(T) + 1
BY SamplesFinite, FS_AddElement

LEMMA OneLess ==
  ASSUME NEW T, T \subseteq Samples, NEW s \in T
  PROVE  Cardinality(T \ {s}) = Cardinality(T) - 1
BY SamplesFinite, FS_RemoveElement

LEMMA NoMore ==
  ASSUME NEW T, T \subseteq Samples, NEW U, U \subseteq T
  PROVE  Cardinality(U) <= Cardinality(T) /\ (Cardinality(U) = Cardinality(T) => U = T)
BY SamplesFinite, FS_Subset

LEMMA NoneAtAll == Cardinality({}) = 0
BY FS_EmptySet

-----------------------------------------------------------------------------
(* What each part of the system leaves alone.                              *)
LEMMA Frames ==
  /\ Processor => UNCHANGED <<queue, mqRunning, totalProduced, totalConsumed,
       droppedSamples, consumer, reply, running, resetPc, resetActive,
       resetSize, monitorPc, monitorSize, streamPc, served, serving>>
  /\ Resetter => UNCHANGED <<queue, mqRunning, totalProduced, totalConsumed,
       droppedSamples, consumer, reply, activeTasks, running, procPc,
       procSize, popped, held, task, monitorPc, monitorSize, streamPc, served,
       serving>>
  /\ Monitor => UNCHANGED <<queue, mqRunning, totalProduced, totalConsumed,
       droppedSamples, consumer, reply, staleness, activeTasks, lock, running,
       procPc, procSize, popped, held, task, resetPc, resetActive, resetSize,
       streamPc, served, serving>>
  /\ Stream => UNCHANGED <<mqRunning, totalConsumed, reply, paused, staleness,
       activeTasks, lock, procPc, procSize, popped, held, task, resetPc,
       resetActive, resetSize, monitorPc, monitorSize, served, serving>>
  /\ \A s \in Samples : Task(s) =>
       UNCHANGED <<mqRunning, totalConsumed, reply, paused, staleness,
         activeTasks, lock, running, procPc, procSize, popped, held, resetPc,
         resetActive, resetSize, monitorPc, monitorSize, streamPc, served,
         serving>>
  /\ QueueGet => UNCHANGED <<mqRunning, totalProduced, droppedSamples,
       rollouterOnlyVars, trainerVars, mainDone>>
  /\ Trainer => UNCHANGED <<queue, mqRunning, totalProduced, totalConsumed,
       droppedSamples, reply, paused, staleness, activeTasks, lock, running,
       procPc, procSize, popped, held, resetActive, resetSize, monitorPc,
       monitorSize, streamPc, mainDone>>
  /\ MainEnd => UNCHANGED <<mqRunning, totalProduced, totalConsumed,
       droppedSamples, consumer, reply, rollouterOnlyVars, trainerVars>>
<1> USE DEF mqVars, sharedVars, procVars, resetVars, monitorVars, serverVars,
            rollouterVars, rollouterOnlyVars, trainerVars
<1>1. Processor => UNCHANGED <<queue, mqRunning, totalProduced, totalConsumed,
       droppedSamples, consumer, reply, running, resetPc, resetActive,
       resetSize, monitorPc, monitorSize, streamPc, served, serving>>
  BY DEF Processor, ProcCheck, ProcStats, ProcDecide, ProcPause, ProcDrainReap,
         ProcResumed, ProcGet, ProcLimit, ProcLimitReap, ProcSubmit, ProcEnd,
         ProcEndReap, ProcReapHolding
<1>2. Resetter => UNCHANGED <<queue, mqRunning, totalProduced, totalConsumed,
       droppedSamples, consumer, reply, activeTasks, running, procPc,
       procSize, popped, held, task, monitorPc, monitorSize, streamPc, served,
       serving>>
  BY DEF Resetter, ResetBegin, ResetSize, ResetAssign
<1>3. Monitor => UNCHANGED <<queue, mqRunning, totalProduced, totalConsumed,
       droppedSamples, consumer, reply, staleness, activeTasks, lock, running,
       procPc, procSize, popped, held, task, resetPc, resetActive, resetSize,
       streamPc, served, serving>>
  BY DEF Monitor, MonitorCheck, MonitorStats, MonitorDecide, MonitorResume, MonitorExit
<1>4. Stream => UNCHANGED <<mqRunning, totalConsumed, reply, paused, staleness,
       activeTasks, lock, procPc, procSize, popped, held, task, resetPc,
       resetActive, resetSize, monitorPc, monitorSize, served, serving>>
  BY DEF Stream, StreamPutEnd, StreamStop, FitReturn, MQ!PutSample
<1>5. ASSUME NEW s \in Samples, Task(s)
      PROVE  UNCHANGED <<mqRunning, totalConsumed, reply, paused, staleness,
               activeTasks, lock, running, procPc, procSize, popped, held, resetPc,
               resetActive, resetSize, monitorPc, monitorSize, streamPc, served,
               serving>>
  BY <1>5 DEF Task, TaskGenerate, TaskFail, TaskPut, TaskDone, MQ!PutSample
<1>6. QueueGet => UNCHANGED <<mqRunning, totalProduced, droppedSamples,
       rollouterOnlyVars, trainerVars, mainDone>>
  BY DEF QueueGet, MQ!GetSample, MQ!GetWait, MQ!GetClosed, MQ!GetTake, MQ!counters
<1>7. Trainer => UNCHANGED <<queue, mqRunning, totalProduced, totalConsumed,
       droppedSamples, reply, paused, staleness, activeTasks, lock, running,
       procPc, procSize, popped, held, resetActive, resetSize, monitorPc,
       monitorSize, streamPc, mainDone>>
  BY DEF Trainer, TrainerCall, TrainerReceive, TrainerTrain, SyncAbort, SyncResume,
         TrainerReset, TrainerStop, MQ!CallGetSample, MQ!ReceiveReply, MQ!counters
<1>8. MainEnd => UNCHANGED <<mqRunning, totalProduced, totalConsumed,
       droppedSamples, consumer, reply, rollouterOnlyVars, trainerVars>>
  BY DEF MainEnd, MQ!ClearQueue, MQ!counters
<1> QED
  BY <1>1, <1>2, <1>3, <1>4, <1>5, <1>6, <1>7, <1>8

(* One step for each part of the system.                                   *)
LEMMA Parts ==
  ASSUME Next
  PROVE  \/ /\ Processor \/ Resetter \/ Monitor \/ Stream \/ \E s \in Samples : Task(s)
            /\ UNCHANGED <<trainerPc, batch, trained, localStep, version, terminated, mainDone>>
         \/ QueueGet \/ Trainer \/ MainEnd
BY DEF Next, RollouterStep, RollouterNext, trainerVars

-----------------------------------------------------------------------------
(* An update only cuts tasks short.                                        *)
LEMMA TrainerTasks ==
  ASSUME Trainer, task \in [Samples -> TaskStage]
  PROVE  /\ task' \in [Samples -> TaskStage]
         /\ \A s \in Samples :
              \/ task'[s] = task[s]
              \/ task[s] = "generating" /\ task'[s] = "cut"
<1>1. CASE SyncAbort
  BY <1>1 DEF SyncAbort, TaskStage
<1>2. CASE ~SyncAbort
  BY <1>2 DEF Trainer, TrainerCall, TrainerReceive, TrainerTrain, SyncResume,
       TrainerReset, TrainerStop, rollouterOnlyVars, rollouterVars
<1> QED
  BY <1>1, <1>2

LEMMA PlacesStep == IInv /\ Next => Places'
<1> SUFFICES ASSUME IInv, Next PROVE Places'
  OBVIOUS
<1> USE DEF NoSample
<1>0. /\ Places
      /\ task \in [Samples -> TaskStage] /\ popped \in 0 .. TotalRolloutSteps
      /\ held \in Samples \cup {NoSample}
  BY DEF IInv, TypeOK, RollouterTypeOK
<1>1. CASE Processor
  <2>1. CASE ProcGet
    BY <1>0, <2>1, ConstantFacts DEF ProcGet, Places, Samples
  <2>2. CASE ProcSubmit
    BY <1>0, <2>2, ConstantFacts DEF ProcSubmit, Places, Samples, TaskStage
  <2> QED
    BY <1>0, <1>1, <2>1, <2>2
       DEF Processor, ProcCheck, ProcStats, ProcDecide, ProcPause, ProcDrainReap,
           ProcResumed, ProcLimit, ProcLimitReap, ProcEnd, ProcEndReap,
           ProcReapHolding, AfterReaping, procVars, Places
<1>2. CASE \E s \in Samples : Task(s)
  <2>1. PICK s \in Samples : Task(s)
    BY <1>2
  <2>2. /\ task[s] # "none" /\ \A t \in Samples \ {s} : task'[t] = task[t]
        /\ task'[s] # "none"
    BY <1>0, <2>1 DEF Task, TaskGenerate, TaskFail, TaskPut, TaskDone
  <2> QED
    BY <1>0, <2>1, <2>2, Frames DEF Places
<1>3. CASE Trainer
  <2>1. \A s \in Samples : task'[s] # "none" <=> task[s] # "none"
    BY <1>0, <1>3, TrainerTasks
  <2> QED
    BY <1>0, <1>3, <2>1, Frames DEF Places
<1> QED
  BY <1>0, <1>1, <1>2, <1>3, Parts, Frames DEF Places, rollouterOnlyVars, procVars

LEMMA TaskSetStep == IInv /\ Next => TaskSet'
<1> SUFFICES ASSUME IInv, Next PROVE TaskSet'
  OBVIOUS
<1> USE DEF NoSample
<1>0. /\ Places /\ TaskSet
      /\ task \in [Samples -> TaskStage] /\ activeTasks \subseteq Samples
      /\ held \in Samples \cup {NoSample}
  BY DEF IInv, TypeOK, RollouterTypeOK
<1>1. CASE Processor
  <2>1. CASE ProcSubmit
    <3>1. held \in Samples /\ held \notin activeTasks /\ task[held] = "none"
      BY <1>0, <2>1, ConstantFacts DEF ProcSubmit, Places, TaskSet, Samples
    <3>2. Cardinality(activeTasks') = Cardinality(activeTasks) + 1
      BY <1>0, <2>1, <3>1, OneMore DEF ProcSubmit
    <3>3. Cardinality(activeTasks') <= MaxConcurrentSamples
      BY <1>0, <2>1, <3>2, ConstantFacts, SamplesFinite DEF ProcSubmit, TaskSet
    <3> QED
      BY <1>0, <2>1, <3>1, <3>3 DEF ProcSubmit, TaskSet, Failed, TaskStage
  <2>2. ASSUME NEW reaped \in SUBSET Finished, reaped # {}, NEW next, next \notin {"submit", "died", "ended"},
               procPc # "died", activeTasks' = activeTasks \ reaped, UNCHANGED task,
               AfterReaping(reaped, next)
        PROVE  TaskSet'
    <3>1. /\ reaped \subseteq activeTasks
          /\ \A s \in reaped : task[s] \in {"done", "failed"}
      BY DEF Finished
    <3>2. Cardinality(activeTasks') < Cardinality(activeTasks)
      BY <1>0, <2>2, <3>1, NoMore, SamplesFinite
    <3>3. Cardinality(activeTasks') < MaxConcurrentSamples
      BY <1>0, <2>2, <3>2, ConstantFacts, SamplesFinite DEF TaskSet
    <3>4. CASE \E s \in reaped : task[s] = "failed"
      BY <1>0, <2>2, <3>1, <3>3, <3>4, ConstantFacts, SamplesFinite
         DEF TaskSet, Failed, AfterReaping
    <3>5. CASE ~\E s \in reaped : task[s] = "failed"
      BY <1>0, <2>2, <3>1, <3>3, <3>5, ConstantFacts, SamplesFinite
         DEF TaskSet, Failed, AfterReaping
    <3> QED
      BY <3>4, <3>5
  <2>3. CASE ProcDrainReap
    <3>1. PICK reaped \in (SUBSET Finished) \ {{}} :
            activeTasks' = activeTasks \ reaped /\ AfterReaping(reaped, "drain")
      BY <2>3 DEF ProcDrainReap
    <3>2. reaped \in SUBSET Finished /\ reaped # {} /\ procPc = "drain" /\ UNCHANGED task
      BY <2>3, <3>1 DEF ProcDrainReap
    <3> QED
      BY <2>2, <3>1, <3>2
  <2>4. CASE ProcLimitReap \/ ProcEndReap
    BY <2>2, <2>4 DEF ProcLimitReap, ProcEndReap, ProcReapHolding
  <2>5. CASE ProcLimit \/ ProcEnd
    BY <1>0, <2>5, ConstantFacts, SamplesFinite DEF ProcLimit, ProcEnd, TaskSet, Failed
  <2>6. CASE ProcCheck \/ ProcStats \/ ProcDecide \/ ProcPause \/ ProcResumed \/ ProcGet
    BY <1>0, <2>6 DEF ProcCheck, ProcStats, ProcDecide, ProcPause, ProcResumed, ProcGet,
         TaskSet, Failed, sharedVars
  <2> QED
    BY <1>1, <2>1, <2>3, <2>4, <2>5, <2>6 DEF Processor
<1>2. CASE \E s \in Samples : Task(s)
  <2>1. PICK s \in Samples : Task(s)
    BY <1>2
  <2>2. /\ task[s] \notin {"none", "done", "failed"} /\ task'[s] \in TaskStage \ {"none"}
        /\ \A t \in Samples \ {s} : task'[t] = task[t]
    BY <1>0, <2>1 DEF Task, TaskGenerate, TaskFail, TaskPut, TaskDone, TaskStage
  <2>3. UNCHANGED <<activeTasks, procPc>>
    BY <2>1, Frames
  <2> QED
    BY <1>0, <2>2, <2>3 DEF TaskSet, Failed
<1>3. CASE Trainer
  <2>1. UNCHANGED <<activeTasks, procPc>>
    BY <1>3, Frames
  <2> QED
    BY <1>0, <1>3, <2>1, TrainerTasks DEF TaskSet, Failed, TaskStage
<1> QED
  BY <1>0, <1>1, <1>2, <1>3, Parts, Frames
     DEF TaskSet, Failed, rollouterOnlyVars, procVars, sharedVars

LEMMA LockingStep == IInv /\ Next => Locking'
<1> SUFFICES ASSUME IInv, Next PROVE Locking'
  OBVIOUS
<1>0. /\ Locking /\ lock \in {"free", "processor", "resetter"}
      /\ (trainerPc = "resetting" <=> resetPc # "idle")
  BY DEF IInv, TypeOK, RollouterTypeOK, Phases
<1>1. CASE Processor
  BY <1>0, <1>1, Frames
     DEF Processor, ProcCheck, ProcStats, ProcDecide, ProcPause, ProcDrainReap,
         ProcResumed, ProcGet, ProcLimit, ProcLimitReap, ProcSubmit, ProcEnd,
         ProcEndReap, ProcReapHolding, AfterReaping, LockFree, Locking, sharedVars
<1>2. CASE Resetter
  BY <1>0, <1>2, Frames
     DEF Resetter, ResetBegin, ResetSize, ResetAssign, LockFree, Locking, sharedVars
<1>3. CASE Trainer
  BY <1>0, <1>3, Frames
     DEF Trainer, TrainerCall, TrainerReceive, TrainerTrain, SyncAbort, SyncResume,
         TrainerReset, TrainerStop, Locking, rollouterOnlyVars, rollouterVars, resetVars
<1> QED
  BY <1>0, <1>1, <1>2, <1>3, Parts, Frames
     DEF Locking, rollouterOnlyVars, procVars, sharedVars, resetVars

-----------------------------------------------------------------------------
(* The contents of a queue without repetitions.                            *)
LEMMA AppendElements ==
  ASSUME NEW q \in Seq(Nat), NEW x \in Nat
  PROVE  /\ Append(q, x) \in Seq(Nat) /\ Len(Append(q, x)) = Len(q) + 1
         /\ Append(q, x)[Len(q) + 1] = x
         /\ \A i \in 1 .. Len(q) : Append(q, x)[i] = q[i]
         /\ Elements(Append(q, x)) = Elements(q) \cup {x}
         /\ NoRepeat(q) /\ x \notin Elements(q) => NoRepeat(Append(q, x))
<1>1. /\ Append(q, x) \in Seq(Nat) /\ Len(Append(q, x)) = Len(q) + 1
      /\ Append(q, x)[Len(q) + 1] = x
      /\ \A i \in 1 .. Len(q) : Append(q, x)[i] = q[i]
  OBVIOUS
<1>2. Len(q) \in Nat /\ \A i \in 1 .. Len(q) + 1 : i \in 1 .. Len(q) \/ i = Len(q) + 1
  OBVIOUS
<1>3. Elements(Append(q, x)) = Elements(q) \cup {x}
  BY <1>1, <1>2 DEF Elements
<1>4. ASSUME NoRepeat(q), x \notin Elements(q) PROVE NoRepeat(Append(q, x))
  BY <1>1, <1>2, <1>4 DEF Elements, NoRepeat
<1> QED
  BY <1>1, <1>3, <1>4

LEMMA TailElements ==
  ASSUME NEW q \in Seq(Nat), q # <<>>
  PROVE  /\ Tail(q) \in Seq(Nat) /\ Len(q) >= 1 /\ Len(Tail(q)) = Len(q) - 1
         /\ \A i \in 1 .. Len(q) - 1 : Tail(q)[i] = q[i + 1]
         /\ Head(q) = q[1] /\ Head(q) \in Nat /\ Head(q) \in Elements(q)
         /\ NoRepeat(q) => NoRepeat(Tail(q)) /\ Elements(Tail(q)) = Elements(q) \ {Head(q)}
<1>1. /\ Tail(q) \in Seq(Nat) /\ Len(q) >= 1 /\ Len(Tail(q)) = Len(q) - 1 /\ Len(q) \in Nat
      /\ \A i \in 1 .. Len(q) - 1 : Tail(q)[i] = q[i + 1]
      /\ Head(q) = q[1] /\ Head(q) \in Nat
  OBVIOUS
<1>2. Head(q) \in Elements(q)
  BY <1>1 DEF Elements
<1>3. ASSUME NoRepeat(q) PROVE NoRepeat(Tail(q))
  BY <1>1, <1>3 DEF NoRepeat
<1>4. ASSUME NoRepeat(q) PROVE Elements(Tail(q)) = Elements(q) \ {Head(q)}
  <2>1. ASSUME NEW i \in 1 .. Len(q) - 1 PROVE Tail(q)[i] \in Elements(q) \ {Head(q)}
    <3>1. i + 1 \in 1 .. Len(q) /\ i + 1 # 1 /\ 1 \in 1 .. Len(q)
      BY <1>1
    <3> QED
      BY <1>1, <1>4, <3>1 DEF Elements, NoRepeat
  <2>2. ASSUME NEW i \in 1 .. Len(q), q[i] # Head(q) PROVE q[i] \in Elements(Tail(q))
    <3>1. i - 1 \in 1 .. Len(q) - 1 /\ i = (i - 1) + 1
      BY <1>1, <2>2
    <3> QED
      BY <1>1, <3>1 DEF Elements
  <2>3. ASSUME NEW x \in Elements(Tail(q)) PROVE x \in Elements(q) \ {Head(q)}
    BY <1>1, <2>1 DEF Elements
  <2>4. ASSUME NEW x \in Elements(q) \ {Head(q)} PROVE x \in Elements(Tail(q))
    BY <2>2 DEF Elements
  <2> QED
    BY <2>3, <2>4
<1> QED
  BY <1>1, <1>2, <1>3, <1>4

LEMMA ElementCount ==
  ASSUME NEW q \in Seq(Nat), NoRepeat(q)
  PROVE  IsFiniteSet(Elements(q)) /\ Cardinality(Elements(q)) = Len(q)
<1> DEFINE f == [i \in 1 .. Len(q) |-> q[i]]
<1>1. f \in Surjection(1 .. Len(q), Elements(q))
  BY DEF Surjection, Elements
<1>2. f \in Injection(1 .. Len(q), Elements(q))
  BY DEF Injection, IsInjective, Elements, NoRepeat
<1>3. IsFiniteSet(1 .. Len(q)) /\ Cardinality(1 .. Len(q)) = Len(q)
  <2>1. \A n \in Nat : IsFiniteSet(1 .. n) /\ Cardinality(1 .. n) = n
    BY FS_Interval
  <2>2. Len(q) \in Nat
    OBVIOUS
  <2> QED
    BY <2>1, <2>2
<1> QED
  BY <1>1, <1>2, <1>3, FS_Surjection

(* put_sample: the head goes if the queue is full.                         *)
LEMMA PutEffect ==
  ASSUME TypeOK, NoRepeat(queue), NEW x \in Nat, x \notin Items, MQ!PutSample(x)
  PROVE  LET full == Len(queue) = MaxRequiredSamples IN
         /\ queue' \in Seq(Nat) /\ Len(queue') <= MaxRequiredSamples /\ NoRepeat(queue')
         /\ full => /\ queue # <<>> /\ Head(queue) \in Items /\ Head(queue) = queue[1]
                    /\ Items' = (Items \ {Head(queue)}) \cup {x}
                    /\ Len(queue') = Len(queue)
                    /\ \A i \in 1 .. Len(queue) - 1 : queue'[i] = queue[i + 1]
                    /\ droppedSamples' = droppedSamples + 1
         /\ ~full => /\ Len(queue) < MaxRequiredSamples
                     /\ Items' = Items \cup {x}
                     /\ Len(queue') = Len(queue) + 1
                     /\ \A i \in 1 .. Len(queue) : queue'[i] = queue[i]
                     /\ droppedSamples' = droppedSamples
         /\ queue'[Len(queue')] = x /\ Len(queue') >= 1
<1>1. queue \in Seq(Nat) /\ Len(queue) \in Nat /\ Len(queue) <= MaxRequiredSamples
  BY DEF TypeOK, RollouterTypeOK, MQ!TypeOK
<1>2. CASE Len(queue) = MaxRequiredSamples
  <2>1. queue # <<>>
    BY <1>1, <1>2, ConstantFacts
  <2>2. queue' = Append(Tail(queue), x) /\ droppedSamples' = droppedSamples + 1
    BY <1>1, <1>2, ConstantFacts DEF MQ!PutSample, MQ!IsFull
  <2> DEFINE rest == Tail(queue)
  <2>3. /\ rest \in Seq(Nat) /\ Len(rest) = Len(queue) - 1
        /\ \A i \in 1 .. Len(queue) - 1 : rest[i] = queue[i + 1]
        /\ Head(queue) = queue[1] /\ Head(queue) \in Items
        /\ NoRepeat(rest) /\ Elements(rest) = Items \ {Head(queue)}
        /\ x \notin Elements(rest)
    BY <1>1, <2>1, TailElements DEF Items
  <2>5. queue' = Append(rest, x)
    BY <2>2
  <2> HIDE DEF rest
  <2>4. /\ queue' \in Seq(Nat) /\ Len(queue') = Len(rest) + 1
        /\ queue'[Len(rest) + 1] = x
        /\ \A i \in 1 .. Len(rest) : queue'[i] = rest[i]
        /\ Items' = Elements(rest) \cup {x} /\ NoRepeat(queue')
    <3>1. Items' = Elements(queue') /\ NoRepeat(rest) /\ x \notin Elements(rest)
      BY <2>3 DEF Items
    <3> QED
      BY <2>3, <2>5, <3>1, AppendElements
  <2> QED
    BY <1>1, <1>2, <2>1, <2>2, <2>3, <2>4, ConstantFacts
<1>3. CASE Len(queue) # MaxRequiredSamples
  <2>1. queue' = Append(queue, x) /\ droppedSamples' = droppedSamples
    BY <1>1, <1>3, ConstantFacts DEF MQ!PutSample, MQ!IsFull
  <2> QED
    BY <1>1, <1>3, <2>1, AppendElements, ConstantFacts DEF Items
<1> QED
  BY <1>2, <1>3

-----------------------------------------------------------------------------
(* The sets that are counted, and how each step changes their sizes.       *)
LEMMA SetFacts ==
  ASSUME IInv
  PROVE  /\ Held \subseteq Samples /\ Generating \subseteq Samples /\ Failed \subseteq Samples
         /\ InQueue \subseteq Samples /\ InQueue = Items \ {EndSignal}
         /\ InReply \subseteq Samples /\ batch \subseteq Samples
         /\ trained \subseteq Samples /\ Produced \subseteq Samples
         /\ EndSignal \notin Samples /\ EndSignal = 0 /\ Samples \subseteq Nat
         /\ Items \subseteq Samples \cup {EndSignal}
<1>1. /\ TypeOK /\ Distinct /\ held \in Samples \cup {NoSample}
      /\ batch \subseteq Samples /\ trained \subseteq Samples
  BY DEF IInv, TypeOK, RollouterTypeOK
<1>2. EndSignal \notin Samples /\ Samples \subseteq Nat /\ EndSignal = 0
  BY ConstantFacts DEF Samples, EndSignal
<1>3. InQueue = Items \ {EndSignal}
  BY DEF InQueue, Items, Elements
<1> QED
  BY <1>1, <1>2, <1>3 DEF Held, Generating, Failed, Produced, Distinct, Given

LEMMA CountFacts ==
  ASSUME IInv
  PROVE  /\ Cardinality(Held) \in Nat /\ Cardinality(Generating) \in Nat
         /\ Cardinality(Failed) \in Nat /\ Cardinality(InQueue) \in Nat
         /\ Cardinality(InReply) \in Nat /\ Cardinality(batch) \in Nat
         /\ Cardinality(trained) \in Nat /\ Cardinality(Produced) \in Nat
         /\ Backlog \in Nat /\ Cardinality(activeTasks) \in Nat
BY SetFacts, SamplesFinite DEF Backlog, IInv, TypeOK, RollouterTypeOK

LEMMA VariableFacts ==
  ASSUME IInv
  PROVE  /\ queue \in Seq(Nat) /\ Len(queue) \in 0 .. MaxRequiredSamples /\ NoRepeat(queue)
         /\ consumer["trainer"] \in {"idle", "calling", "waiting", "woken", "replied"}
         /\ consumer \in [{"trainer"} -> MQ!ConsumerState] /\ reply \in [{"trainer"} -> Nat]
         /\ task \in [Samples -> TaskStage]
         /\ staleness \in Nat /\ served \in Nat /\ version \in Nat /\ droppedSamples \in Nat
         /\ popped \in 0 .. TotalRolloutSteps /\ terminated \in BOOLEAN
         /\ held \in Samples \cup {NoSample} /\ activeTasks \subseteq Samples
         /\ resetActive \in Nat /\ resetSize \in Nat /\ localStep \in 1 .. TriggerStep
         /\ totalProduced \in Nat
<1>1. TypeOK /\ Distinct /\ consumer["trainer"] # "closed"
  BY DEF IInv, Phases
<1> QED
  BY <1>1, ConstantFacts DEF TypeOK, RollouterTypeOK, MQ!TypeOK, MQ!ConsumerState, Distinct

LEMMA QueueSize ==
  ASSUME IInv
  PROVE  /\ Cardinality(InQueue) <= Len(queue) /\ Len(queue) <= Cardinality(InQueue) + 1
         /\ EndSignal \notin Items => Cardinality(InQueue) = Len(queue)
<1>1. IsFiniteSet(Items) /\ Cardinality(Items) = Len(queue) /\ Len(queue) \in Nat
  BY VariableFacts, ElementCount DEF Items
<1>2. CASE EndSignal \in Items
  <2>1. Cardinality(Items \ {EndSignal}) = Cardinality(Items) - 1
    BY <1>1, <1>2, FS_RemoveElement
  <2>2. InQueue = Items \ {EndSignal}
    BY SetFacts
  <2> QED
    BY <1>1, <1>2, <2>1, <2>2
<1>3. CASE EndSignal \notin Items
  <2>1. InQueue = Items
    BY <1>3, SetFacts
  <2> QED
    BY <1>1, <2>1
<1> QED
  BY <1>2, <1>3

LEMMA SameSets ==
  /\ UNCHANGED held => Held' = Held
  /\ UNCHANGED task => Generating' = Generating /\ Failed' = Failed /\ Produced' = Produced
  /\ UNCHANGED queue => InQueue' = InQueue /\ Items' = Items
  /\ UNCHANGED <<consumer, reply>> => InReply' = InReply /\ (EndReplied' <=> EndReplied)
BY DEF Held, Generating, Failed, Produced, InQueue, Items, Elements, InReply, EndReplied

(* One sample from one stage to another.                                   *)
LEMMA StageChange ==
  ASSUME IInv, NEW s \in Samples, NEW stage \in TaskStage,
         task' = [task EXCEPT ![s] = stage]
  PROVE  /\ Generating' = IF stage \in {"generating", "cut", "generated"}
                            THEN Generating \cup {s} ELSE Generating \ {s}
         /\ Failed' = IF stage = "failed" THEN Failed \cup {s} ELSE Failed \ {s}
         /\ Produced' = IF stage \in {"put", "done"}
                          THEN Produced \cup {s} ELSE Produced \ {s}
         /\ s \in Generating <=> task[s] \in {"generating", "cut", "generated"}
         /\ s \in Failed <=> task[s] = "failed"
         /\ s \in Produced <=> task[s] \in {"put", "done"}
<1>1. task \in [Samples -> TaskStage]
  BY VariableFacts
<1>2. task'[s] = stage /\ \A t \in Samples \ {s} : task'[t] = task[t]
  BY <1>1
<1>3. /\ s \in Generating <=> task[s] \in {"generating", "cut", "generated"}
      /\ s \in Failed <=> task[s] = "failed"
      /\ s \in Produced <=> task[s] \in {"put", "done"}
  BY DEF Generating, Failed, Produced
<1>4. Generating' = IF stage \in {"generating", "cut", "generated"}
                      THEN Generating \cup {s} ELSE Generating \ {s}
  BY <1>2 DEF Generating
<1>5. Failed' = IF stage = "failed" THEN Failed \cup {s} ELSE Failed \ {s}
  BY <1>2 DEF Failed
<1>6. Produced' = IF stage \in {"put", "done"} THEN Produced \cup {s} ELSE Produced \ {s}
  BY <1>2 DEF Produced
<1> QED
  BY <1>3, <1>4, <1>5, <1>6

LEMMA PopEffect ==
  ASSUME IInv, ProcGet, popped < TotalRolloutSteps
  PROVE  /\ popped' = popped + 1 /\ staleness' = staleness + 1 /\ procPc' = "limit"
         /\ Cardinality(Held) = 0 /\ Cardinality(Held') = 1
<1>1. procPc = "get" /\ popped # TotalRolloutSteps /\ Places /\ popped \in Nat
  BY ConstantFacts DEF ProcGet, IInv, TypeOK, RollouterTypeOK
<1>2. Held = {} /\ Held' = {popped + 1}
  BY <1>1 DEF ProcGet, Places, Held, NoSample
<1> QED
  BY <1>1, <1>2, FS_EmptySet, FS_Singleton DEF ProcGet

LEMMA SubmitEffect ==
  ASSUME IInv, ProcSubmit
  PROVE  /\ Cardinality(Held) = 1 /\ Cardinality(Held') = 0
         /\ Cardinality(Generating') = Cardinality(Generating) + 1
         /\ Failed' = Failed /\ Produced' = Produced
<1>1. /\ held \in Samples /\ held # NoSample /\ task[held] = "none"
      /\ held' = NoSample /\ task' = [task EXCEPT ![held] = "generating"]
  BY VariableFacts, ConstantFacts DEF ProcSubmit, IInv, Places, Samples, NoSample
<1>2. Held = {held} /\ Held' = {}
  BY <1>1 DEF Held
<1>3. /\ Generating' = Generating \cup {held} /\ held \notin Generating
      /\ Failed' = Failed \ {held} /\ held \notin Failed
      /\ Produced' = Produced \ {held} /\ held \notin Produced
  BY <1>1, StageChange DEF TaskStage
<1> QED
  BY <1>1, <1>2, <1>3, SetFacts, OneMore, FS_EmptySet, FS_Singleton

LEMMA FailEffect ==
  ASSUME IInv, NEW s \in Samples, TaskFail(s)
  PROVE  /\ Cardinality(Generating') = Cardinality(Generating) - 1
         /\ Cardinality(Failed') = Cardinality(Failed) + 1
         /\ Produced' = Produced
<1>1. task[s] = "generating" /\ task' = [task EXCEPT ![s] = "failed"]
  BY DEF TaskFail
<1>2. /\ Generating' = Generating \ {s} /\ s \in Generating
      /\ Failed' = Failed \cup {s} /\ s \notin Failed
      /\ Produced' = Produced \ {s} /\ s \notin Produced
  BY <1>1, StageChange DEF TaskStage
<1> QED
  BY <1>2, SetFacts, OneMore, OneLess

(* put_sample of a task: the evicted sample, if any, is never the signal.  *)
LEMMA PutEffectSample ==
  ASSUME IInv, NEW s \in Samples, TaskPut(s)
  PROVE  /\ Cardinality(Generating') = Cardinality(Generating) - 1
         /\ Cardinality(Generating) >= 1
         /\ Failed' = Failed
         /\ Produced' = Produced \cup {s} /\ s \notin Produced
         /\ Cardinality(Produced') = Cardinality(Produced) + 1
         /\ s \notin Items /\ s \in Nat /\ MQ!PutSample(s)
         /\ Len(queue) = MaxRequiredSamples =>
              /\ Head(queue) # EndSignal
              /\ Cardinality(InQueue') = Cardinality(InQueue)
              /\ droppedSamples' = droppedSamples + 1
              /\ Cardinality(InQueue) + 1 >= MaxRequiredSamples
              /\ EndSignal \notin Items => Cardinality(InQueue) = MaxRequiredSamples
         /\ Len(queue) # MaxRequiredSamples =>
              /\ Cardinality(InQueue') = Cardinality(InQueue) + 1
              /\ droppedSamples' = droppedSamples
<1>0. TypeOK /\ Distinct /\ Ending
  BY DEF IInv
<1>1. task[s] = "generated" /\ task' = [task EXCEPT ![s] = "put"] /\ MQ!PutSample(s)
  BY DEF TaskPut
<1>2. /\ Generating' = Generating \ {s} /\ s \in Generating
      /\ Failed' = Failed \ {s} /\ s \notin Failed
      /\ Produced' = Produced \cup {s} /\ s \notin Produced
  BY <1>1, StageChange DEF TaskStage
<1>3. s \notin Items /\ s \in Nat /\ s # EndSignal
  BY <1>0, <1>2, SetFacts DEF Distinct
<1>4. /\ Cardinality(Generating') = Cardinality(Generating) - 1
      /\ Cardinality(Generating') \in Nat
      /\ Cardinality(Produced') = Cardinality(Produced) + 1
  BY <1>2, SetFacts, OneMore, OneLess, SamplesFinite
<1>5. Cardinality(Generating) >= 1
  BY <1>4, CountFacts
<1>6. CASE Len(queue) = MaxRequiredSamples
  <2>1. /\ queue # <<>> /\ Head(queue) \in Items /\ Head(queue) = queue[1]
        /\ Items' = (Items \ {Head(queue)}) \cup {s}
        /\ droppedSamples' = droppedSamples + 1
    BY <1>0, <1>1, <1>3, <1>6, VariableFacts, PutEffect
  <2>2. Head(queue) # EndSignal
    <3>1. 1 \in 1 .. Len(queue)
      BY <1>6, ConstantFacts
    <3> QED
      BY <1>0, <1>5, <1>6, <2>1, <3>1, ConstantFacts, CountFacts DEF Ending
  <2>3. InQueue' = (InQueue \ {Head(queue)}) \cup {s}
    BY <1>3, <2>1, <2>2 DEF InQueue, Items, Elements
  <2>4. Head(queue) \in InQueue /\ s \notin InQueue \ {Head(queue)}
    BY <1>3, <2>1, <2>2, SetFacts
  <2>5. Cardinality(InQueue \ {Head(queue)}) = Cardinality(InQueue) - 1
    BY <2>4, SetFacts, OneLess
  <2>6. Cardinality(InQueue') = Cardinality(InQueue \ {Head(queue)}) + 1
    <3>1. InQueue \ {Head(queue)} \subseteq Samples
      BY SetFacts
    <3> QED
      BY <2>3, <2>4, <3>1, OneMore
  <2> QED
    BY <1>1, <1>2, <1>3, <1>4, <1>5, <1>6, <2>1, <2>2, <2>5, <2>6, QueueSize, CountFacts, SMTT(30)
<1>7. CASE Len(queue) # MaxRequiredSamples
  <2>1. Items' = Items \cup {s} /\ droppedSamples' = droppedSamples
    BY <1>0, <1>1, <1>3, <1>7, VariableFacts, PutEffect
  <2>2. InQueue' = InQueue \cup {s} /\ s \notin InQueue
    BY <1>3, <2>1, SetFacts DEF InQueue, Items, Elements
  <2>3. Cardinality(InQueue') = Cardinality(InQueue) + 1
    BY <2>2, SetFacts, OneMore
  <2> QED
    BY <1>1, <1>2, <1>3, <1>4, <1>5, <1>7, <2>1, <2>3
<1> QED
  BY <1>6, <1>7

(* put_sample of the end signal.                                           *)
LEMMA PutEffectEnd ==
  ASSUME IInv, StreamPutEnd
  PROVE  /\ EndSignal \notin Items /\ MQ!PutSample(EndSignal) /\ EndSignal \in Nat
         /\ Len(queue) = MaxRequiredSamples =>
              /\ Cardinality(InQueue') = Cardinality(InQueue) - 1
              /\ droppedSamples' = droppedSamples + 1
              /\ Cardinality(InQueue) = MaxRequiredSamples
         /\ Len(queue) # MaxRequiredSamples =>
              /\ Cardinality(InQueue') = Cardinality(InQueue)
              /\ droppedSamples' = droppedSamples
<1>0. TypeOK /\ Ending /\ streamPc = "streaming" /\ MQ!PutSample(EndSignal)
  BY DEF IInv, StreamPutEnd
<1>1. EndSignal \notin Items /\ EndSignal \in Nat
  BY <1>0, SetFacts DEF Ending
<1>2. InQueue = Items /\ InQueue' = Items' \ {EndSignal}
  BY <1>1, SetFacts DEF InQueue, Items, Elements
<1>3. CASE Len(queue) = MaxRequiredSamples
  <2>1. /\ Head(queue) \in Items /\ droppedSamples' = droppedSamples + 1
        /\ Items' = (Items \ {Head(queue)}) \cup {EndSignal}
    BY <1>0, <1>1, <1>3, VariableFacts, PutEffect
  <2>2. InQueue' = InQueue \ {Head(queue)} /\ Head(queue) \in InQueue
    BY <1>1, <1>2, <2>1
  <2> QED
    BY <1>0, <1>1, <1>3, <2>1, <2>2, SetFacts, OneLess, QueueSize
<1>4. CASE Len(queue) # MaxRequiredSamples
  <2>1. Items' = Items \cup {EndSignal} /\ droppedSamples' = droppedSamples
    BY <1>0, <1>1, <1>4, VariableFacts, PutEffect
  <2>2. InQueue' = InQueue
    BY <1>1, <1>2, <2>1
  <2> QED
    BY <1>0, <1>1, <1>4, <2>1, <2>2
<1> QED
  BY <1>3, <1>4

(* get_sample hands out the head.                                          *)
LEMMA TakeEffect ==
  ASSUME IInv, MQ!GetTake("trainer")
  PROVE  /\ queue # <<>> /\ Head(queue) \in Items /\ Head(queue) = queue[1]
         /\ Items' = Items \ {Head(queue)} /\ NoRepeat(queue')
         /\ Len(queue') = Len(queue) - 1
         /\ \A i \in 1 .. Len(queue) - 1 : queue'[i] = queue[i + 1]
         /\ InReply = {} /\ InReply' = {Head(queue)} \ {EndSignal}
         /\ reply'["trainer"] = Head(queue) /\ consumer'["trainer"] = "replied"
         /\ Cardinality(InQueue') + Cardinality(InReply')
              = Cardinality(InQueue) + Cardinality(InReply)
         /\ Cardinality(InQueue') <= Cardinality(InQueue)
<1>1. /\ queue # <<>> /\ consumer["trainer"] \in {"calling", "woken"}
      /\ consumer'["trainer"] = "replied" /\ reply'["trainer"] = Head(queue)
      /\ queue' = Tail(queue)
  BY VariableFacts DEF MQ!GetTake, MQ!HasLock
<1>2. /\ Head(queue) \in Items /\ Head(queue) = queue[1] /\ NoRepeat(queue')
      /\ Len(queue') = Len(queue) - 1
      /\ \A i \in 1 .. Len(queue) - 1 : queue'[i] = queue[i + 1]
      /\ Items' = Items \ {Head(queue)}
  BY <1>1, VariableFacts, TailElements DEF Items
<1>3. InReply = {} /\ InReply' = {Head(queue)} \ {EndSignal}
  BY <1>1 DEF InReply
<1>4. InQueue = Items \ {EndSignal} /\ InQueue' = Items' \ {EndSignal}
  BY DEF InQueue, Items, Elements
<1>5. CASE Head(queue) = EndSignal
  <2>1. InQueue' = InQueue /\ InReply' = InReply
    BY <1>2, <1>3, <1>4, <1>5
  <2>2. /\ Cardinality(InQueue') = Cardinality(InQueue)
        /\ Cardinality(InReply') = Cardinality(InReply)
    BY <2>1
  <2>3. Cardinality(InQueue) \in Nat /\ Cardinality(InReply) \in Nat
    BY CountFacts
  <2> QED
    BY <1>1, <1>2, <1>3, <2>2, <2>3
<1>6. CASE Head(queue) # EndSignal
  <2>1. InQueue' = InQueue \ {Head(queue)} /\ Head(queue) \in InQueue /\ InReply' = {Head(queue)}
    BY <1>2, <1>3, <1>4, <1>6
  <2>2. Cardinality(InQueue') = Cardinality(InQueue) - 1
    BY <2>1, SetFacts, OneLess
  <2>3. Cardinality(InReply') = 1 /\ Cardinality(InReply) = 0
    BY <1>3, <2>1, FS_EmptySet, FS_Singleton
  <2> QED
    BY <1>1, <1>2, <1>3, <2>2, <2>3, CountFacts, SMTT(30)
<1> QED
  BY <1>5, <1>6

(* The trainer puts a sample it receives into its batch.                   *)
LEMMA ReceiveEffect ==
  ASSUME IInv, TrainerReceive
  PROVE  /\ consumer["trainer"] = "replied" /\ trainerPc = "collect" /\ InReply' = {}
         /\ consumer'["trainer"] = "idle"
         /\ reply["trainer"] = EndSignal =>
              batch' = batch /\ Cardinality(InReply) = 0 /\ EndReplied
         /\ reply["trainer"] # EndSignal =>
              /\ InReply = {reply["trainer"]} /\ Cardinality(InReply) = 1
              /\ reply["trainer"] \in Samples
              /\ batch' = batch \cup {reply["trainer"]}
              /\ Cardinality(batch') = Cardinality(batch) + 1
<1>1. consumer["trainer"] = "replied" /\ consumer'["trainer"] = "idle"
  BY VariableFacts DEF TrainerReceive, MQ!ReceiveReply
<1>2. trainerPc = "collect" /\ Distinct
  BY <1>1 DEF IInv, Phases
<1>3. InReply = {reply["trainer"]} \ {EndSignal} /\ InReply' = {}
  BY <1>1 DEF InReply
<1>4. CASE reply["trainer"] = EndSignal
  BY <1>1, <1>2, <1>3, <1>4, FS_EmptySet DEF TrainerReceive, EndReplied
<1>5. CASE reply["trainer"] # EndSignal
  <2>1. /\ InReply = {reply["trainer"]} /\ batch' = batch \cup {reply["trainer"]}
        /\ reply["trainer"] \in Samples /\ reply["trainer"] \notin batch
    BY <1>2, <1>3, <1>5, SetFacts DEF TrainerReceive, Distinct
  <2> QED
    BY <1>1, <1>2, <1>3, <1>5, <2>1, SetFacts, OneMore, FS_Singleton
<1> QED
  BY <1>4, <1>5

(* A training step.                                                        *)
LEMMA TrainEffect ==
  ASSUME IInv, TrainerTrain
  PROVE  /\ trained' = trained \cup batch /\ batch' = {}
         /\ Cardinality(trained') = Cardinality(trained) + Cardinality(batch)
         /\ Cardinality(batch') = 0 /\ Cardinality(batch) = RequiredSamples
<1>1. trained' = trained \cup batch /\ batch' = {} /\ trained \cap batch = {}
  BY DEF TrainerTrain, IInv, Distinct
<1>2. Cardinality(trained') = Cardinality(trained) + Cardinality(batch)
  <2>1. IsFiniteSet(trained) /\ IsFiniteSet(batch)
    BY SetFacts, SamplesFinite
  <2>2. Cardinality(trained \cup batch)
          = Cardinality(trained) + Cardinality(batch) - Cardinality(trained \cap batch)
    BY <2>1, FS_Union
  <2>3. Cardinality(trained \cap batch) = 0
    BY <1>1, FS_EmptySet
  <2> QED
    BY <1>1, <2>2, <2>3, CountFacts
<1> QED
  BY <1>1, <1>2, FS_EmptySet DEF TrainerTrain, IInv, Phases

(* Steps of a task that only its own stage shows.                          *)
LEMMA TaskEffect ==
  ASSUME IInv, NEW s \in Samples, TaskGenerate(s) \/ TaskDone(s)
  PROVE  /\ Generating' = Generating /\ Failed' = Failed /\ Produced' = Produced
         /\ UNCHANGED <<queue, mqRunning, totalProduced, droppedSamples, consumer, reply>>
<1>1. CASE TaskGenerate(s)
  <2>1. task[s] \in {"generating", "cut"} /\ task' = [task EXCEPT ![s] = "generated"]
    BY <1>1 DEF TaskGenerate
  <2>2. /\ Generating' = Generating \cup {s} /\ s \in Generating
        /\ Failed' = Failed \ {s} /\ s \notin Failed
        /\ Produced' = Produced \ {s} /\ s \notin Produced
    BY <2>1, StageChange DEF TaskStage
  <2>3. UNCHANGED <<queue, mqRunning, totalProduced, droppedSamples, consumer, reply>>
    BY <1>1 DEF TaskGenerate, mqVars
  <2> QED
    BY <2>2, <2>3
<1>2. CASE TaskDone(s)
  <2>1. task[s] = "put" /\ task' = [task EXCEPT ![s] = "done"]
    BY <1>2 DEF TaskDone
  <2>2. /\ Generating' = Generating \ {s} /\ s \notin Generating
        /\ Failed' = Failed \ {s} /\ s \notin Failed
        /\ Produced' = Produced \cup {s} /\ s \in Produced
    BY <2>1, StageChange DEF TaskStage
  <2>3. UNCHANGED <<queue, mqRunning, totalProduced, droppedSamples, consumer, reply>>
    BY <1>2 DEF TaskDone, mqVars
  <2> QED
    BY <2>2, <2>3
<1> QED
  BY <1>1, <1>2

LEMMA TrainerEffect ==
  ASSUME IInv, Trainer
  PROVE  Generating' = Generating /\ Failed' = Failed /\ Produced' = Produced
BY TrainerTasks, VariableFacts DEF Generating, Failed, Produced

(* The processor's steps but two leave the samples where they are.         *)
LEMMA ProcessorEffect ==
  ASSUME IInv, Processor, ~ProcSubmit, ~ProcGet
  PROVE  UNCHANGED <<task, held, popped, staleness>>
BY DEF Processor, ProcCheck, ProcStats, ProcDecide, ProcPause, ProcDrainReap,
       ProcResumed, ProcLimit, ProcLimitReap, ProcEnd, ProcEndReap,
       ProcReapHolding, sharedVars

(* A get_sample call that is not answered yet.                             *)
LEMMA QueueGetCases ==
  ASSUME IInv, QueueGet
  PROVE  /\ consumer["trainer"] \in {"calling", "woken"}
         /\ \/ MQ!GetTake("trainer")
            \/ /\ UNCHANGED <<queue, reply, totalConsumed>>
               /\ consumer'["trainer"] = "waiting" /\ queue = <<>>
<1>1. mqRunning
  BY DEF IInv, Phases
<1> QED
  BY <1>1, VariableFacts
     DEF QueueGet, MQ!GetSample, MQ!GetWait, MQ!GetClosed, MQ!GetTake, MQ!HasLock, MQ!counters

LEMMA DistinctStep == IInv /\ Next => Distinct'
<1> SUFFICES ASSUME IInv, Next PROVE Distinct'
  OBVIOUS
<1>0. Distinct /\ TypeOK /\ Ending /\ Phases
  BY DEF IInv
<1>1. ASSUME UNCHANGED <<queue, consumer, reply, batch, trained>>, Produced \subseteq Produced'
      PROVE  Distinct'
  BY <1>0, <1>1, SameSets DEF Distinct, Given
<1>2. CASE Processor /\ UNCHANGED <<batch, trained>>
  <2>1. Produced' = Produced
    BY <1>2, SubmitEffect, ProcessorEffect, SameSets DEF ProcGet
  <2> QED
    BY <1>1, <1>2, <2>1, Frames
<1>3. CASE (\E s \in Samples : Task(s)) /\ UNCHANGED <<batch, trained>>
  <2>1. PICK s \in Samples : Task(s)
    BY <1>3
  <2>2. CASE TaskPut(s)
    <3>1. /\ Produced' = Produced \cup {s} /\ s \notin Produced /\ s \notin Items /\ s \in Nat
          /\ MQ!PutSample(s)
      BY <2>2, PutEffectSample
    <3>2. NoRepeat(queue') /\ Items' \subseteq Items \cup {s}
      BY <1>0, <3>1, VariableFacts, PutEffect, SMTT(30)
    <3>3. InReply' = InReply
      BY <3>1, VariableFacts DEF InReply, MQ!PutSample, MQ!NotifyAll
    <3>4. s \notin Given
      BY <1>0, <3>1 DEF Distinct
    <3> QED
      BY <1>0, <1>3, <3>1, <3>2, <3>3, <3>4 DEF Distinct, Given
  <2>3. CASE TaskFail(s)
    BY <1>1, <1>3, <2>3, FailEffect DEF TaskFail, mqVars
  <2>4. CASE TaskGenerate(s) \/ TaskDone(s)
    BY <1>1, <1>3, <2>4, TaskEffect
  <2> QED
    BY <2>1, <2>2, <2>3, <2>4 DEF Task
<1>4. CASE Stream /\ UNCHANGED <<batch, trained>>
  <2>1. CASE StreamPutEnd
    <3>1. EndSignal \notin Items /\ EndSignal \in Nat /\ MQ!PutSample(EndSignal)
      BY <2>1, PutEffectEnd
    <3>2. NoRepeat(queue') /\ Items' \subseteq Items \cup {EndSignal}
      BY <1>0, <3>1, VariableFacts, PutEffect, SMTT(30)
    <3>3. InReply' = InReply
      BY <3>1, VariableFacts DEF InReply, MQ!PutSample, MQ!NotifyAll
    <3>4. EndSignal \notin Given /\ Produced' = Produced
      BY <1>0, <1>4, SetFacts, SameSets, Frames DEF Given
    <3> QED
      BY <1>0, <1>4, <3>1, <3>2, <3>3, <3>4 DEF Distinct, Given
  <2>2. CASE StreamStop \/ FitReturn
    BY <1>1, <1>4, <2>2, SameSets DEF StreamStop, FitReturn, mqVars
  <2> QED
    BY <1>4, <2>1, <2>2 DEF Stream
<1>5. CASE QueueGet
  <2>1. UNCHANGED <<batch, trained, Produced>>
    BY <1>5, Frames, SameSets DEF trainerVars, rollouterOnlyVars
  <2>2. CASE MQ!GetTake("trainer")
    <3>1. /\ Items' = Items \ {Head(queue)} /\ Head(queue) \in Items /\ NoRepeat(queue')
          /\ InReply = {} /\ InReply' = {Head(queue)} \ {EndSignal}
      BY <2>2, TakeEffect
    <3> QED
      BY <1>0, <2>1, <3>1 DEF Distinct, Given
  <2>3. CASE ~MQ!GetTake("trainer")
    <3>1. UNCHANGED <<queue, reply>> /\ InReply' = {} /\ InReply = {}
      BY <1>5, <2>3, QueueGetCases DEF InReply
    <3> QED
      BY <1>0, <2>1, <3>1, SameSets DEF Distinct, Given
  <2> QED
    BY <2>2, <2>3
<1>6. CASE Trainer
  <2>1. UNCHANGED <<queue, Items, Produced>>
    BY <1>6, Frames, TrainerEffect, SameSets
  <2>2. CASE TrainerReceive
    <3>1. CASE reply["trainer"] = EndSignal
      BY <1>0, <2>1, <2>2, <3>1, ReceiveEffect DEF Distinct, Given, TrainerReceive
    <3>2. CASE reply["trainer"] # EndSignal
      BY <1>0, <2>1, <2>2, <3>2, ReceiveEffect DEF Distinct, Given, TrainerReceive
    <3> QED
      BY <3>1, <3>2
  <2>3. CASE TrainerTrain
    <3>1. UNCHANGED InReply
      BY <2>3 DEF TrainerTrain, rollouterVars, mqVars, InReply
    <3> QED
      BY <1>0, <2>1, <2>3, <3>1, TrainEffect DEF Distinct, Given
  <2>4. CASE TrainerCall
    <3>1. InReply = {} /\ InReply' = {} /\ UNCHANGED <<batch, trained>>
      BY <2>4, VariableFacts DEF TrainerCall, MQ!CallGetSample, InReply, trainerVars
    <3> QED
      BY <1>0, <2>1, <3>1 DEF Distinct, Given
  <2>5. CASE SyncAbort \/ SyncResume \/ TrainerReset \/ TrainerStop
    <3>1. UNCHANGED <<queue, consumer, reply, batch, trained>>
      BY <2>5 DEF SyncAbort, SyncResume, TrainerReset, TrainerStop, rollouterVars, mqVars
    <3> QED
      BY <1>1, <2>1, <3>1
  <2> QED
    BY <1>6, <2>2, <2>3, <2>4, <2>5 DEF Trainer
<1>7. CASE MainEnd
  <2>1. UNCHANGED <<batch, trained, consumer, reply, Produced, InReply>>
    BY <1>7, Frames, SameSets DEF trainerVars, rollouterOnlyVars
  <2>2. queue' = <<>>
    BY <1>7 DEF MainEnd, MQ!ClearQueue
  <2>3. Items' = {} /\ NoRepeat(queue')
    BY <2>2 DEF Items, Elements, NoRepeat
  <2> QED
    BY <1>0, <2>1, <2>3 DEF Distinct, Given
<1>8. CASE (Resetter \/ Monitor) /\ UNCHANGED <<batch, trained>>
  BY <1>1, <1>8, Frames, SameSets
<1> QED
  BY <1>2, <1>3, <1>4, <1>5, <1>6, <1>7, <1>8, Parts

-----------------------------------------------------------------------------
(* What becomes of the end signal.                                         *)
LEMMA TrainerReplies ==
  ASSUME IInv, Trainer
  PROVE  /\ EndReplied' => EndReplied
         /\ terminated' => terminated \/ EndReplied
<1>1. CASE TrainerReceive
  <2>1. consumer'["trainer"] = "idle"
    BY <1>1, ReceiveEffect
  <2> QED
    BY <1>1, <2>1, ReceiveEffect DEF EndReplied, TrainerReceive
<1>2. CASE TrainerCall
  <2>1. consumer'["trainer"] = "calling" /\ UNCHANGED terminated
    BY <1>2, VariableFacts DEF TrainerCall, MQ!CallGetSample, trainerVars
  <2> QED
    BY <2>1 DEF EndReplied
<1>3. CASE TrainerTrain \/ SyncAbort \/ SyncResume \/ TrainerReset \/ TrainerStop
  BY <1>3 DEF TrainerTrain, SyncAbort, SyncResume, TrainerReset, TrainerStop,
       rollouterVars, mqVars, EndReplied
<1> QED
  BY <1>1, <1>2, <1>3 DEF Trainer

(* The processor's steps come to an end.                                   *)
LEMMA ProcessorAlive == Processor => Alive
BY DEF Processor, ProcCheck, ProcStats, ProcDecide, ProcPause, ProcDrainReap,
       ProcResumed, ProcGet, ProcLimit, ProcLimitReap, ProcSubmit, ProcEnd,
       ProcEndReap, ProcReapHolding, Alive

(* When the processor is gone, so are its tasks, or it died of one.        *)
LEMMA TasksLeft ==
  ASSUME IInv, ~Alive
  PROVE  /\ Cardinality(Generating) < MaxRequiredSamples
         /\ procPc # "died" => Generating = {}
<1>1. TaskSet /\ Generating \subseteq activeTasks /\ activeTasks \subseteq Samples
  BY VariableFacts DEF IInv, TaskSet, Generating
<1>2. Cardinality(Generating) <= Cardinality(activeTasks)
  BY <1>1, NoMore
<1>3. CASE procPc = "ended"
  <2>1. Generating = {}
    BY <1>1, <1>3 DEF TaskSet
  <2> QED
    BY <1>3, <2>1, FS_EmptySet, ConstantFacts
<1>4. CASE procPc = "died"
  BY <1>1, <1>2, <1>4, CountFacts, ConstantFacts DEF TaskSet
<1> QED
  BY <1>3, <1>4 DEF Alive

LEMMA EndingStep == IInv /\ Next => Ending'
<1> SUFFICES ASSUME IInv, Next PROVE Ending'
  OBVIOUS
<1>0. /\ Ending /\ TaskSet /\ TypeOK /\ Distinct /\ queue \in Seq(Nat)
      /\ NoRepeat(queue)
      /\ Len(queue) \in Nat /\ Cardinality(Generating) \in Nat
  BY VariableFacts, CountFacts DEF IInv
<1>1. ASSUME UNCHANGED <<queue, consumer, reply, streamPc, procPc, terminated>>,
             Cardinality(Generating') <= Cardinality(Generating)
      PROVE  Ending'
  <2>1. Items' = Items /\ (EndReplied' <=> EndReplied) /\ (Alive' <=> Alive)
    BY <1>1, SameSets DEF Alive
  <2>2. Cardinality(Generating') \in Nat
    BY SamplesFinite DEF Generating
  <2> QED
    BY <1>0, <1>1, <2>1, <2>2, ConstantFacts DEF Ending
<1>2. CASE Processor /\ UNCHANGED terminated
  <2>1. streamPc = "streaming" /\ EndSignal \notin Items
    BY <1>0, <1>2, ProcessorAlive DEF Ending
  <2>2. UNCHANGED <<queue, consumer, reply, streamPc>>
    BY <1>2, Frames
  <2> QED
    BY <1>0, <1>2, <2>1, <2>2, SameSets DEF Ending, Items, Elements
<1>3. CASE (\E s \in Samples : Task(s)) /\ UNCHANGED terminated
  <2>1. PICK s \in Samples : Task(s)
    BY <1>3
  <2>2. UNCHANGED <<reply, streamPc, procPc>>
    BY <2>1, Frames
  <2>3. CASE TaskPut(s)
    <3>1. /\ Cardinality(Generating') = Cardinality(Generating) - 1
          /\ s \in Nat /\ s \notin Items /\ s # EndSignal /\ MQ!PutSample(s)
          /\ Cardinality(Generating) >= 1
      BY <2>3, PutEffectSample, SetFacts
    <3>2. EndReplied' <=> EndReplied
      BY <3>1, VariableFacts DEF EndReplied, MQ!PutSample, MQ!NotifyAll
    <3>3. EndSignal \in Items' => EndSignal \in Items
      BY <1>0, <3>1, PutEffect
    <3>4. ASSUME procPc # "died" PROVE EndSignal \notin Items
      <4>1. s \in Generating
        BY <2>3 DEF TaskPut, Generating
      <4>2. Alive
        BY <3>4, <4>1, TasksLeft
      <4> QED
        BY <1>0, <4>2 DEF Ending
    <3>5. ASSUME NEW i \in 1 .. Len(queue'), queue'[i] = EndSignal
          PROVE  Len(queue') - i + Cardinality(Generating') < MaxRequiredSamples
      <4>1. i # Len(queue') /\ i \in Nat /\ Len(queue') \in Nat
        BY <1>0, <3>1, <3>5, PutEffect
      <4>2. CASE Len(queue) = MaxRequiredSamples
        <5>1. Len(queue') = Len(queue) /\ i \in 1 .. Len(queue) - 1 /\ queue'[i] = queue[i + 1]
          BY <1>0, <3>1, <3>5, <4>1, <4>2, PutEffect, SMTT(30)
        <5>2. i + 1 \in 1 .. Len(queue) /\ queue[i + 1] = EndSignal
          BY <1>0, <3>5, <5>1
        <5>3. Len(queue) - (i + 1) + Cardinality(Generating) < MaxRequiredSamples
          BY <1>0, <5>2 DEF Ending
        <5> QED
          BY <1>0, <3>1, <4>1, <5>1, <5>3, ConstantFacts
      <4>3. CASE Len(queue) # MaxRequiredSamples
        <5>1. Len(queue') = Len(queue) + 1 /\ i \in 1 .. Len(queue) /\ queue'[i] = queue[i]
          BY <1>0, <3>1, <3>5, <4>1, <4>3, PutEffect, SMTT(30)
        <5>3. Len(queue) - i + Cardinality(Generating) < MaxRequiredSamples
          BY <1>0, <3>5, <5>1 DEF Ending
        <5> QED
          BY <1>0, <3>1, <4>1, <5>1, <5>3, ConstantFacts
      <4> QED
        BY <4>2, <4>3
    <3>6. ASSUME procPc # "died", NEW i \in 1 .. Len(queue') - 1 PROVE queue'[i] # EndSignal
      <4>1. EndSignal \notin Items'
        BY <3>3, <3>4, <3>6
      <4>2. Len(queue') \in Nat
        BY <1>0, <3>1, PutEffect
      <4> QED
        BY <4>1, <4>2 DEF Items, Elements
    <3> QED
      BY <1>0, <1>3, <2>2, <3>2, <3>3, <3>5, <3>6 DEF Ending, Alive
  <2>4. CASE TaskFail(s)
    <3>1. Cardinality(Generating') = Cardinality(Generating) - 1
      BY <2>4, FailEffect
    <3>2. UNCHANGED <<queue, consumer, reply>>
      BY <2>4 DEF TaskFail, mqVars
    <3>3. Cardinality(Generating') <= Cardinality(Generating)
      BY <1>0, <3>1
    <3> QED
      BY <1>1, <1>3, <2>2, <3>2, <3>3
  <2>5. CASE TaskGenerate(s) \/ TaskDone(s)
    BY <1>0, <1>1, <1>3, <2>2, <2>5, TaskEffect
  <2> QED
    BY <2>1, <2>3, <2>4, <2>5 DEF Task
<1>4. CASE Stream /\ UNCHANGED terminated
  <2>1. UNCHANGED <<procPc, Generating>>
    BY <1>4, Frames, SameSets
  <2>2. CASE StreamPutEnd
    <3>1. EndSignal \notin Items /\ EndSignal \in Nat /\ MQ!PutSample(EndSignal)
      BY <2>2, PutEffectEnd
    <3>2. /\ Len(queue') \in Nat /\ queue'[Len(queue')] = EndSignal /\ NoRepeat(queue')
          /\ Len(queue') >= 1
      BY <1>0, <3>1, PutEffect
    <3>3. ~Alive /\ streamPc' = "stopping"
      BY <2>2 DEF StreamPutEnd, Alive
    <3>4. \A i \in 1 .. Len(queue') : queue'[i] = EndSignal => i = Len(queue')
      BY <3>2 DEF NoRepeat
    <3> QED
      BY <1>0, <2>1, <3>2, <3>3, <3>4, TasksLeft, ConstantFacts DEF Ending, Alive
  <2>3. CASE StreamStop \/ FitReturn
    <3>1. UNCHANGED <<queue, consumer, reply>> /\ streamPc # "streaming" /\ streamPc' # "streaming"
      BY <2>3 DEF StreamStop, FitReturn, mqVars
    <3> QED
      BY <1>0, <2>1, <3>1 DEF Ending, Alive
  <2> QED
    BY <1>4, <2>2, <2>3 DEF Stream
<1>5. CASE QueueGet
  <2>1. UNCHANGED <<streamPc, procPc, terminated, Generating>>
    BY <1>5, Frames, SameSets DEF trainerVars, rollouterOnlyVars, procVars
  <2>2. CASE MQ!GetTake("trainer")
    <3>1. /\ Items' = Items \ {Head(queue)} /\ Head(queue) \in Items
          /\ Len(queue') = Len(queue) - 1
          /\ \A i \in 1 .. Len(queue) - 1 : queue'[i] = queue[i + 1]
          /\ reply'["trainer"] = Head(queue)
      BY <2>2, TakeEffect
    <3>2. streamPc = "streaming" => EndSignal \notin Items' /\ ~EndReplied'
      BY <1>0, <3>1 DEF Ending, EndReplied
    <3>3. ASSUME NEW i \in 1 .. Len(queue'), queue'[i] = EndSignal
          PROVE  /\ Len(queue') - i + Cardinality(Generating) < MaxRequiredSamples
                 /\ procPc # "died" => i = Len(queue')
      <4>1. i + 1 \in 1 .. Len(queue) /\ queue[i + 1] = EndSignal
        BY <1>0, <3>1, <3>3
      <4>2. /\ Len(queue) - (i + 1) + Cardinality(Generating) < MaxRequiredSamples
            /\ procPc # "died" => i + 1 \notin 1 .. Len(queue) - 1
        BY <1>0, <4>1 DEF Ending
      <4> QED
        BY <1>0, <3>1, <4>1, <4>2, ConstantFacts
    <3>4. \A i \in 1 .. Len(queue') - 1 : i \in 1 .. Len(queue') /\ i # Len(queue')
      BY <1>0, <3>1
    <3> QED
      BY <1>0, <2>1, <3>2, <3>3, <3>4 DEF Ending, Alive
  <2>3. CASE ~MQ!GetTake("trainer")
    <3>1. UNCHANGED <<queue, reply>> /\ ~EndReplied'
      BY <1>5, <2>3, QueueGetCases DEF EndReplied
    <3> QED
      BY <1>0, <2>1, <3>1, SameSets DEF Ending, Alive
  <2> QED
    BY <2>2, <2>3
<1>6. CASE Trainer
  <2>1. UNCHANGED <<queue, Items, Generating, procPc, streamPc>>
    BY <1>6, Frames, TrainerEffect, SameSets
  <2>2. streamPc = "streaming" => ~EndReplied' /\ ~terminated'
    BY <1>0, <1>6, TrainerReplies DEF Ending
  <2> QED
    BY <1>0, <2>1, <2>2 DEF Ending, Alive
<1>7. CASE MainEnd
  <2>1. /\ UNCHANGED <<consumer, reply, streamPc, procPc, terminated>>
        /\ queue' = <<>> /\ streamPc = "returned"
    BY <1>7, Frames DEF trainerVars, rollouterOnlyVars, procVars, MainEnd, MQ!ClearQueue
  <2>2. Len(queue') = 0
    BY <2>1
  <2> QED
    BY <1>0, <2>1, <2>2 DEF Ending, Alive
<1>8. CASE (Resetter \/ Monitor) /\ UNCHANGED terminated
  BY <1>0, <1>1, <1>8, Frames, SameSets
<1> QED
  BY <1>2, <1>3, <1>4, <1>5, <1>6, <1>7, <1>8, Parts

LEMMA SentinelStep == IInv /\ Next => SentinelSurvives'
<1> DEFINE Survives == streamPc # "streaming" /\ ~terminated => EndSignal \in Items \/ EndReplied
<1>a. SentinelSurvives <=> Survives
  BY DEF SentinelSurvives, Items, Elements, EndReplied
<1>b. SentinelSurvives' <=> Survives'
  BY DEF SentinelSurvives, Items, Elements, EndReplied
<1> SUFFICES ASSUME IInv, Next PROVE Survives'
  BY <1>b
<1>0. Survives /\ Ending /\ TypeOK /\ Distinct /\ NoRepeat(queue) /\ queue \in Seq(Nat)
  BY <1>a, VariableFacts DEF IInv
<1>1. ASSUME UNCHANGED <<queue, consumer, reply, streamPc, terminated>>
      PROVE  Survives'
  BY <1>0, <1>1, SameSets
<1>2. CASE (\E s \in Samples : Task(s)) /\ UNCHANGED terminated
  <2>1. PICK s \in Samples : Task(s)
    BY <1>2
  <2>2. UNCHANGED <<reply, streamPc>>
    BY <2>1, Frames
  <2>3. CASE TaskPut(s)
    <3>1. /\ s \in Nat /\ s \notin Items /\ s # EndSignal /\ MQ!PutSample(s)
          /\ Len(queue) = MaxRequiredSamples => Head(queue) # EndSignal
      BY <2>3, PutEffectSample, SetFacts
    <3>2. EndReplied' <=> EndReplied
      BY <3>1, VariableFacts DEF EndReplied, MQ!PutSample, MQ!NotifyAll
    <3>3. EndSignal \in Items => EndSignal \in Items'
      BY <1>0, <3>1, PutEffect
    <3> QED
      BY <1>0, <1>2, <2>2, <3>2, <3>3
  <2>4. CASE TaskFail(s)
    <3>1. UNCHANGED <<queue, consumer, reply>>
      BY <2>4 DEF TaskFail, mqVars
    <3> QED
      BY <1>1, <1>2, <2>2, <3>1
  <2>5. CASE TaskGenerate(s) \/ TaskDone(s)
    BY <1>1, <1>2, <2>2, <2>5, TaskEffect
  <2> QED
    BY <2>1, <2>3, <2>4, <2>5 DEF Task
<1>3. CASE Stream /\ UNCHANGED terminated
  <2>1. CASE StreamPutEnd
    <3>1. EndSignal \notin Items /\ EndSignal \in Nat /\ MQ!PutSample(EndSignal)
      BY <2>1, PutEffectEnd
    <3>2. EndSignal \in Items'
      BY <1>0, <3>1, PutEffect
    <3> QED
      BY <3>2
  <2>2. CASE StreamStop \/ FitReturn
    <3>1. UNCHANGED <<queue, consumer, reply>> /\ streamPc # "streaming"
      BY <2>2 DEF StreamStop, FitReturn, mqVars
    <3> QED
      BY <1>0, <1>3, <3>1, SameSets
  <2> QED
    BY <1>3, <2>1, <2>2 DEF Stream
<1>4. CASE QueueGet
  <2>1. UNCHANGED <<streamPc, terminated>> /\ consumer["trainer"] # "replied"
    BY <1>4, Frames, QueueGetCases DEF trainerVars, rollouterOnlyVars
  <2>2. CASE MQ!GetTake("trainer")
    <3>1. /\ Items' = Items \ {Head(queue)} /\ reply'["trainer"] = Head(queue)
          /\ consumer'["trainer"] = "replied"
      BY <2>2, TakeEffect
    <3> QED
      BY <1>0, <2>1, <3>1 DEF EndReplied
  <2>3. CASE ~MQ!GetTake("trainer")
    <3>1. UNCHANGED queue
      BY <1>4, <2>3, QueueGetCases
    <3> QED
      BY <1>0, <2>1, <3>1, SameSets DEF EndReplied
  <2> QED
    BY <2>2, <2>3
<1>5. CASE Trainer
  <2>1. UNCHANGED <<Items, streamPc>>
    BY <1>5, Frames, SameSets
  <2>2. CASE TrainerReceive
    <3>1. EndReplied => terminated'
      BY <2>2 DEF TrainerReceive, EndReplied
    <3>2. UNCHANGED terminated \/ terminated'
      BY <2>2 DEF TrainerReceive
    <3> QED
      BY <1>0, <2>1, <3>1, <3>2
  <2>3. CASE TrainerCall
    <3>1. ~EndReplied /\ UNCHANGED terminated
      BY <2>3 DEF TrainerCall, MQ!CallGetSample, EndReplied, trainerVars
    <3> QED
      BY <1>0, <2>1, <3>1
  <2>4. CASE TrainerTrain \/ SyncAbort \/ SyncResume \/ TrainerReset \/ TrainerStop
    <3>1. UNCHANGED <<queue, consumer, reply, terminated>>
      BY <2>4 DEF TrainerTrain, SyncAbort, SyncResume, TrainerReset, TrainerStop,
           rollouterVars, mqVars
    <3> QED
      BY <1>1, <2>1, <3>1
  <2> QED
    BY <1>5, <2>2, <2>3, <2>4 DEF Trainer
<1>6. CASE MainEnd
  BY <1>6 DEF MainEnd, IInv, Phases, trainerVars
<1>7. CASE (Processor \/ Resetter \/ Monitor) /\ UNCHANGED terminated
  BY <1>1, <1>7, Frames
<1> QED
  BY <1>2, <1>3, <1>4, <1>5, <1>6, <1>7, Parts

-----------------------------------------------------------------------------
(* The trainer between its steps.                                          *)
LEMMA Products ==
  ASSUME NEW v \in Nat, NEW n \in 1 .. TriggerStep
  PROVE  /\ WindowSamples * v \in Nat
         /\ WindowSamples * (v + 1) = WindowSamples * v + WindowSamples
         /\ RequiredSamples * (n - 1) \in Nat
         /\ RequiredSamples * n = RequiredSamples * (n - 1) + RequiredSamples
         /\ n = TriggerStep => RequiredSamples * n = WindowSamples
         /\ RequiredSamples * (1 - 1) = 0
         /\ RequiredSamples * ((n + 1) - 1) = RequiredSamples * n
<1>1. \A a, b \in Nat : a * b \in Nat /\ a * (b + 1) = a * b + a
  OBVIOUS
<1>2. n - 1 \in Nat /\ n = (n - 1) + 1 /\ (n + 1) - 1 = n /\ 1 - 1 = 0
  BY ConstantFacts
<1>3. RequiredSamples * n = RequiredSamples * (n - 1) + RequiredSamples
  BY <1>1, <1>2, ConstantFacts
<1>4. RequiredSamples * 0 = 0
  BY ConstantFacts
<1> QED
  BY <1>1, <1>2, <1>3, <1>4, ConstantFacts DEF WindowSamples

LEMMA PhasesStep == IInv /\ Next => Phases'
<1> SUFFICES ASSUME IInv, Next PROVE Phases'
  OBVIOUS
<1>0. Phases /\ consumer \in [{"trainer"} -> MQ!ConsumerState] /\ mqRunning' = mqRunning
  BY VariableFacts, Frames, Parts DEF IInv, rollouterOnlyVars
<1>1. ASSUME UNCHANGED <<trainerPc, batch, trained, localStep, version, terminated, mainDone, served>>,
             consumer'["trainer"] # "closed",
             consumer'["trainer"] = "idle" <=> consumer["trainer"] = "idle",
             resetPc' = "idle" <=> resetPc = "idle",
             streamPc = "returned" => streamPc' = "returned"
      PROVE  Phases'
  BY <1>0, <1>1 DEF Phases
<1>2. ASSUME NEW x, MQ!PutSample(x)
      PROVE  /\ consumer'["trainer"] # "closed"
             /\ consumer'["trainer"] = "idle" <=> consumer["trainer"] = "idle"
  BY <1>0, <1>2 DEF MQ!PutSample, MQ!NotifyAll, Phases
<1>3. ASSUME UNCHANGED <<trainerPc, batch, trained, localStep, version, terminated, mainDone>>,
             Processor \/ Resetter \/ Monitor \/ Stream \/ \E s \in Samples : Task(s)
      PROVE  Phases'
  <2>1. CASE Processor \/ Monitor
    BY <1>0, <1>1, <1>3, <2>1, Frames DEF Phases
  <2>2. CASE Resetter
    BY <1>0, <1>1, <1>3, <2>2, Frames DEF Phases, Resetter, ResetBegin, ResetSize, ResetAssign
  <2>3. CASE Stream
    <3>1. UNCHANGED <<resetPc, served>> /\ streamPc # "returned"
      BY <2>3, Frames DEF Stream, StreamPutEnd, StreamStop, FitReturn
    <3>2. MQ!PutSample(EndSignal) \/ UNCHANGED consumer
      BY <2>3 DEF Stream, StreamPutEnd, StreamStop, FitReturn, mqVars
    <3> QED
      BY <1>0, <1>1, <1>2, <1>3, <3>1, <3>2 DEF Phases
  <2>4. CASE \E s \in Samples : Task(s)
    <3>1. PICK s \in Samples : Task(s)
      BY <2>4
    <3>2. MQ!PutSample(s) \/ UNCHANGED consumer
      BY <3>1 DEF Task, TaskGenerate, TaskFail, TaskPut, TaskDone, mqVars
    <3> QED
      BY <1>0, <1>1, <1>2, <1>3, <3>1, <3>2, Frames DEF Phases
  <2> QED
    BY <1>3, <2>1, <2>2, <2>3, <2>4
<1>4. CASE QueueGet
  <2>1. /\ UNCHANGED <<trainerPc, batch, trained, localStep, version, terminated, mainDone, served,
                       resetPc, streamPc>>
        /\ consumer["trainer"] # "idle"
    BY <1>4, Frames, QueueGetCases DEF trainerVars, rollouterOnlyVars, resetVars, serverVars
  <2>2. consumer'["trainer"] \in {"replied", "waiting"}
    BY <1>4, QueueGetCases, TakeEffect
  <2> QED
    BY <1>1, <2>1, <2>2
<1>5. CASE MainEnd
  BY <1>0, <1>5, Frames
     DEF Phases, MainEnd, trainerVars, rollouterOnlyVars, resetVars, serverVars
<1>6. CASE TrainerCall
  BY <1>0, <1>6, VariableFacts
     DEF Phases, TrainerCall, MQ!CallGetSample, trainerVars, rollouterOnlyVars,
         resetVars, serverVars, MQ!ConsumerState
<1>7. CASE TrainerReceive
  <2>1. /\ consumer'["trainer"] = "idle" /\ trainerPc = "collect"
        /\ UNCHANGED <<trained, localStep, version, mainDone, served, resetPc, streamPc>>
    BY <1>7, ReceiveEffect DEF TrainerReceive, rollouterOnlyVars, resetVars, serverVars
  <2>2. CASE reply["trainer"] = EndSignal
    BY <1>0, <1>7, <2>1, <2>2 DEF Phases, TrainerReceive
  <2>3. CASE reply["trainer"] # EndSignal
    <3>1. Cardinality(batch') = Cardinality(batch) + 1 /\ Cardinality(batch) < RequiredSamples
      BY <1>0, <1>7, <2>1, <2>3, ReceiveEffect DEF Phases
    <3>2. Cardinality(batch') # RequiredSamples => Cardinality(batch') < RequiredSamples
      BY <3>1, CountFacts, ConstantFacts
    <3>3. /\ trainerPc' = IF Cardinality(batch') = RequiredSamples THEN "train" ELSE "collect"
          /\ UNCHANGED terminated
      BY <1>7, <2>3 DEF TrainerReceive
    <3> QED
      BY <1>0, <2>1, <3>2, <3>3 DEF Phases
  <2> QED
    BY <2>2, <2>3
<1>8. CASE TrainerTrain
  <2>1. /\ trainerPc = "train" /\ consumer["trainer"] = "idle" /\ version = served /\ ~terminated
        /\ UNCHANGED <<consumer, terminated, mainDone, served, resetPc, streamPc>>
        /\ resetPc = "idle" /\ ~mainDone
    BY <1>0, <1>8
       DEF Phases, TrainerTrain, rollouterVars, mqVars, resetVars, serverVars
  <2>2. /\ Cardinality(trained') = Cardinality(trained) + RequiredSamples
        /\ Cardinality(batch') = 0 /\ batch' = {}
    BY <1>8, TrainEffect
  <2>3. version \in Nat /\ localStep \in 1 .. TriggerStep
    BY VariableFacts
  <2>4. Cardinality(trained) = WindowSamples * version + RequiredSamples * (localStep - 1)
    BY <1>0 DEF Phases
  <2>5. CASE localStep < TriggerStep
    <3>1. trainerPc' = "collect" /\ localStep' = localStep + 1 /\ version' = version
      BY <1>8, <2>5 DEF TrainerTrain
    <3>2. Cardinality(trained') = WindowSamples * version + RequiredSamples * (localStep' - 1)
      BY <2>2, <2>3, <2>4, <3>1, Products, ConstantFacts
    <3> QED
      BY <1>0, <2>1, <2>2, <3>1, <3>2, ConstantFacts DEF Phases
  <2>6. CASE ~(localStep < TriggerStep)
    <3>1. trainerPc' = "sync" /\ localStep' = 1 /\ version' = version + 1 /\ localStep = TriggerStep
      BY <1>8, <2>3, <2>6, ConstantFacts DEF TrainerTrain
    <3>2. Cardinality(trained') = WindowSamples * version' + RequiredSamples * (localStep' - 1)
      BY <2>2, <2>3, <2>4, <3>1, Products, ConstantFacts
    <3> QED
      BY <1>0, <2>1, <2>2, <3>1, <3>2, ConstantFacts DEF Phases
  <2> QED
    BY <2>5, <2>6
<1>9. CASE SyncAbort
  BY <1>0, <1>9 DEF Phases, SyncAbort, mqVars, resetVars
<1>10. CASE SyncResume
  BY <1>0, <1>10 DEF Phases, SyncResume, mqVars
<1>11. CASE TrainerReset
  <2>1. batch = {} => Cardinality(batch) < RequiredSamples
    BY FS_EmptySet, ConstantFacts
  <2> QED
    BY <1>0, <1>11, <2>1 DEF Phases, TrainerReset, mqVars, serverVars
<1>12. CASE TrainerStop
  BY <1>0, <1>12 DEF Phases, TrainerStop, rollouterVars, mqVars, resetVars, serverVars
<1> QED
  BY <1>3, <1>4, <1>5, <1>6, <1>7, <1>8, <1>9, <1>10, <1>11, <1>12, Parts DEF Trainer

-----------------------------------------------------------------------------
(* The steps that move samples, and what each of them leaves where it is.  *)
Pop ==
  /\ ProcGet /\ popped < TotalRolloutSteps
  /\ UNCHANGED <<Generating, Failed, Produced, InQueue, InReply, batch, trained, droppedSamples>>
Submit ==
  /\ ProcSubmit
  /\ UNCHANGED <<popped, InQueue, InReply, batch, trained, droppedSamples>>
Fail ==
  /\ \E s \in Samples : TaskFail(s)
  /\ UNCHANGED <<popped, Held, InQueue, InReply, batch, trained, droppedSamples>>
PutOne ==
  /\ \E s \in Samples : TaskPut(s)
  /\ UNCHANGED <<popped, Held, InReply, batch, trained>>
PutEnd ==
  /\ StreamPutEnd
  /\ UNCHANGED <<popped, Held, Generating, Failed, Produced, InReply, batch, trained>>
Take ==
  /\ QueueGet /\ MQ!GetTake("trainer")
  /\ UNCHANGED <<popped, Held, Generating, Failed, Produced, batch, trained, droppedSamples>>
Receive ==
  /\ TrainerReceive
  /\ UNCHANGED <<popped, Held, Generating, Failed, Produced, InQueue, trained, droppedSamples>>
Train ==
  /\ TrainerTrain
  /\ UNCHANGED <<popped, Held, Generating, Failed, Produced, InQueue, InReply, droppedSamples>>
Clear ==
  /\ MainEnd
  /\ UNCHANGED <<popped, Held, Generating, Failed, Produced, InReply, batch, trained, droppedSamples>>
Stay ==
  UNCHANGED <<popped, Held, Generating, Failed, Produced, InQueue, InReply, batch, trained,
              droppedSamples>>

LEMMA Moves ==
  ASSUME IInv, Next
  PROVE  Pop \/ Submit \/ Fail \/ PutOne \/ PutEnd \/ Take \/ Receive \/ Train \/ Clear \/ Stay
<1>1. CASE Processor /\ UNCHANGED <<batch, trained>>
  <2>1. UNCHANGED <<InQueue, InReply, droppedSamples>>
    BY <1>1, Frames, SameSets
  <2>2. CASE ProcGet
    <3>1. /\ UNCHANGED <<Generating, Failed, Produced>>
          /\ popped < TotalRolloutSteps \/ UNCHANGED <<popped, Held>>
      BY <2>2, SameSets, VariableFacts, ConstantFacts DEF ProcGet
    <3> QED
      BY <1>1, <2>1, <2>2, <3>1 DEF Pop, Stay
  <2>3. CASE ProcSubmit
    BY <1>1, <2>1, <2>3 DEF Submit, ProcSubmit
  <2>4. CASE ~ProcGet /\ ~ProcSubmit
    BY <1>1, <2>1, <2>4, ProcessorEffect, SameSets DEF Stay
  <2> QED
    BY <2>2, <2>3, <2>4
<1>2. CASE (Resetter \/ Monitor) /\ UNCHANGED <<batch, trained>>
  BY <1>2, Frames, SameSets DEF Stay
<1>3. CASE Stream /\ UNCHANGED <<batch, trained>>
  <2>1. UNCHANGED <<popped, Held, Generating, Failed, Produced>>
    BY <1>3, Frames, SameSets
  <2>2. CASE StreamPutEnd
    <3>1. UNCHANGED InReply
      BY <2>2, VariableFacts DEF StreamPutEnd, InReply, MQ!PutSample, MQ!NotifyAll
    <3> QED
      BY <1>3, <2>1, <2>2, <3>1 DEF PutEnd
  <2>3. CASE StreamStop \/ FitReturn
    BY <1>3, <2>1, <2>3, SameSets DEF Stay, StreamStop, FitReturn, mqVars
  <2> QED
    BY <1>3, <2>2, <2>3 DEF Stream
<1>4. CASE (\E s \in Samples : Task(s)) /\ UNCHANGED <<batch, trained>>
  <2>1. PICK s \in Samples : Task(s)
    BY <1>4
  <2>2. UNCHANGED <<popped, Held>>
    BY <2>1, Frames, SameSets
  <2>3. CASE TaskFail(s)
    BY <1>4, <2>2, <2>3, SameSets DEF Fail, TaskFail, mqVars
  <2>4. CASE TaskPut(s)
    <3>1. UNCHANGED InReply
      BY <2>4, VariableFacts DEF TaskPut, InReply, MQ!PutSample, MQ!NotifyAll
    <3> QED
      BY <1>4, <2>2, <2>4, <3>1 DEF PutOne
  <2>5. CASE TaskGenerate(s) \/ TaskDone(s)
    BY <1>4, <2>2, <2>5, TaskEffect, SameSets DEF Stay
  <2> QED
    BY <2>1, <2>3, <2>4, <2>5 DEF Task
<1>5. CASE QueueGet
  <2>1. UNCHANGED <<popped, Held, Generating, Failed, Produced, batch, trained, droppedSamples>>
    BY <1>5, Frames, SameSets DEF rollouterOnlyVars, trainerVars, procVars
  <2>2. CASE MQ!GetTake("trainer")
    BY <1>5, <2>1, <2>2 DEF Take
  <2>3. CASE ~MQ!GetTake("trainer")
    <3>1. UNCHANGED <<InQueue, InReply>>
      BY <1>5, <2>3, QueueGetCases, SameSets DEF InReply
    <3> QED
      BY <2>1, <3>1 DEF Stay
  <2> QED
    BY <2>2, <2>3
<1>6. CASE Trainer
  <2>1. UNCHANGED <<popped, Held, Generating, Failed, Produced, InQueue, droppedSamples>>
    BY <1>6, Frames, TrainerEffect, SameSets
  <2>2. CASE TrainerReceive
    BY <2>1, <2>2 DEF Receive, TrainerReceive
  <2>3. CASE TrainerTrain
    BY <2>1, <2>3, SameSets DEF Train, TrainerTrain, rollouterVars, mqVars
  <2>4. CASE TrainerCall
    <3>1. UNCHANGED <<InReply, batch, trained>>
      BY <2>4, VariableFacts DEF TrainerCall, MQ!CallGetSample, InReply, trainerVars
    <3> QED
      BY <2>1, <3>1 DEF Stay
  <2>5. CASE SyncAbort \/ SyncResume \/ TrainerReset \/ TrainerStop
    BY <2>1, <2>5, SameSets
       DEF Stay, SyncAbort, SyncResume, TrainerReset, TrainerStop, rollouterVars, mqVars
  <2> QED
    BY <1>6, <2>2, <2>3, <2>4, <2>5 DEF Trainer
<1>7. CASE MainEnd
  BY <1>7, Frames, SameSets DEF Clear, rollouterOnlyVars, trainerVars, procVars
<1> QED
  BY <1>1, <1>2, <1>3, <1>4, <1>5, <1>6, <1>7, Parts

LEMMA ConservationStep == IInv /\ Next => Conservation'
<1> SUFFICES ASSUME IInv, Next, ~mainDone' PROVE Conservation'
  BY DEF Conservation
<1> DEFINE h == Cardinality(Held)
           g == Cardinality(Generating)
           f == Cardinality(Failed)
           q == Cardinality(InQueue)
           r == Cardinality(InReply)
           b == Cardinality(batch)
           t == Cardinality(trained)
<1>1. ~mainDone
  <2>1. CASE UNCHANGED mainDone
    BY <2>1
  <2>2. CASE MainEnd
    BY <2>2 DEF MainEnd
  <2> QED
    BY <2>1, <2>2, Frames, Parts
<1>2. popped = h + g + f + q + r + b + t + droppedSamples
  BY <1>1 DEF IInv, Conservation, Failed
<1>3. popped' = h' + g' + f' + q' + r' + b' + t' + droppedSamples' => Conservation'
  BY DEF Conservation, Failed
<1>4. /\ h \in Nat /\ g \in Nat /\ f \in Nat /\ q \in Nat /\ r \in Nat /\ b \in Nat /\ t \in Nat
      /\ popped \in Nat /\ droppedSamples \in Nat
  BY CountFacts, VariableFacts
<1>5. CASE Pop
  <2>1. h = 0 /\ h' = 1 /\ popped' = popped + 1
    BY <1>5, PopEffect DEF Pop
  <2>2. UNCHANGED <<g, f, q, r, b, t, droppedSamples>>
    BY <1>5 DEF Pop
  <2> QED
    BY <1>2, <1>3, <1>4, <2>1, <2>2
<1>6. CASE Submit
  <2>1. h = 1 /\ h' = 0 /\ g' = g + 1 /\ f' = f
    BY <1>6, SubmitEffect DEF Submit
  <2>2. UNCHANGED <<popped, q, r, b, t, droppedSamples>>
    BY <1>6 DEF Submit
  <2> QED
    BY <1>2, <1>3, <1>4, <2>1, <2>2
<1>7. CASE Fail
  <2>1. g' = g - 1 /\ f' = f + 1
    BY <1>7, FailEffect DEF Fail
  <2>2. UNCHANGED <<popped, h, q, r, b, t, droppedSamples>>
    BY <1>7 DEF Fail
  <2> QED
    BY <1>2, <1>3, <1>4, <2>1, <2>2
<1>8. CASE PutOne
  <2>1. /\ g' = g - 1 /\ f' = f
        /\ \/ q' = q /\ droppedSamples' = droppedSamples + 1
           \/ q' = q + 1 /\ droppedSamples' = droppedSamples
    BY <1>8, PutEffectSample DEF PutOne
  <2>2. UNCHANGED <<popped, h, r, b, t>>
    BY <1>8 DEF PutOne
  <2> QED
    BY <1>2, <1>3, <1>4, <2>1, <2>2
<1>9. CASE PutEnd
  <2>1. \/ q' = q - 1 /\ droppedSamples' = droppedSamples + 1
        \/ q' = q /\ droppedSamples' = droppedSamples
    BY <1>9, PutEffectEnd DEF PutEnd
  <2>2. UNCHANGED <<popped, h, g, f, r, b, t>>
    BY <1>9 DEF PutEnd
  <2> QED
    BY <1>2, <1>3, <1>4, <2>1, <2>2
<1>10. CASE Take
  <2>1. q' + r' = q + r
    BY <1>10, TakeEffect DEF Take
  <2>2. UNCHANGED <<popped, h, g, f, b, t, droppedSamples>>
    BY <1>10 DEF Take
  <2>3. q' \in Nat /\ r' \in Nat
    <3>1. /\ Items' \subseteq Items /\ InQueue' = Items' \ {EndSignal}
          /\ InReply' = {Head(queue)} \ {EndSignal} /\ Head(queue) \in Items
      BY <1>10, TakeEffect DEF Take, InQueue, Items, Elements
    <3>2. InQueue' \subseteq Samples /\ InReply' \subseteq Samples
      BY <3>1, SetFacts
    <3> QED
      BY <3>2, SamplesFinite
  <2> QED
    BY <1>2, <1>3, <1>4, <2>1, <2>2, <2>3
<1>11. CASE Receive
  <2>1. r' = 0 /\ b' = b + r
    BY <1>4, <1>11, ReceiveEffect, FS_EmptySet DEF Receive
  <2>2. UNCHANGED <<popped, h, g, f, q, t, droppedSamples>>
    BY <1>11 DEF Receive
  <2> QED
    BY <1>2, <1>3, <1>4, <2>1, <2>2
<1>12. CASE Train
  <2>1. t' = t + b /\ b' = 0
    BY <1>12, TrainEffect DEF Train
  <2>2. UNCHANGED <<popped, h, g, f, q, r, droppedSamples>>
    BY <1>12 DEF Train
  <2> QED
    BY <1>2, <1>3, <1>4, <2>1, <2>2
<1>13. CASE Clear
  BY <1>13 DEF Clear, MainEnd
<1>14. CASE Stay
  <2>1. UNCHANGED <<popped, h, g, f, q, r, b, t, droppedSamples>>
    BY <1>14 DEF Stay
  <2> QED
    BY <1>2, <1>3, <2>1
<1> QED
  BY <1>5, <1>6, <1>7, <1>8, <1>9, <1>10, <1>11, <1>12, <1>13, <1>14, Moves

LEMMA PutsCountedStep == IInv /\ Next => PutsCounted'
<1> SUFFICES ASSUME IInv, Next PROVE PutsCounted'
  OBVIOUS
<1>0. PutsCounted /\ totalProduced \in Nat /\ Cardinality(Produced) \in Nat
  BY VariableFacts, CountFacts DEF IInv
<1>1. ASSUME UNCHANGED <<totalProduced, Produced>>, streamPc' = "streaming" <=> streamPc = "streaming"
      PROVE  PutsCounted'
  BY <1>0, <1>1 DEF PutsCounted
<1>2. CASE Processor \/ Resetter \/ Monitor
  <2>1. UNCHANGED Produced
    BY <1>2, SubmitEffect, ProcessorEffect, SameSets, Frames DEF ProcGet
  <2> QED
    BY <1>1, <1>2, <2>1, Frames
<1>3. CASE \E s \in Samples : Task(s)
  <2>1. PICK s \in Samples : Task(s)
    BY <1>3
  <2>2. UNCHANGED streamPc
    BY <2>1, Frames
  <2>3. CASE TaskPut(s)
    <3>1. totalProduced' = totalProduced + 1 /\ Cardinality(Produced') = Cardinality(Produced) + 1
      BY <2>3, PutEffectSample DEF MQ!PutSample
    <3> QED
      BY <1>0, <2>2, <3>1 DEF PutsCounted
  <2>4. CASE TaskFail(s)
    BY <1>1, <2>2, <2>4, FailEffect DEF TaskFail, mqVars
  <2>5. CASE TaskGenerate(s) \/ TaskDone(s)
    BY <1>1, <2>2, <2>5, TaskEffect
  <2> QED
    BY <2>1, <2>3, <2>4, <2>5 DEF Task
<1>4. CASE Stream
  <2>1. UNCHANGED Produced
    BY <1>4, Frames, SameSets
  <2>2. CASE StreamPutEnd
    BY <1>0, <2>1, <2>2 DEF PutsCounted, StreamPutEnd, MQ!PutSample
  <2>3. CASE StreamStop \/ FitReturn
    BY <1>1, <2>1, <2>3 DEF StreamStop, FitReturn, mqVars
  <2> QED
    BY <1>4, <2>2, <2>3 DEF Stream
<1>5. CASE QueueGet \/ MainEnd
  BY <1>1, <1>5, Frames, SameSets DEF rollouterOnlyVars
<1>6. CASE Trainer
  BY <1>1, <1>6, Frames, TrainerEffect
<1> QED
  BY <1>2, <1>3, <1>4, <1>5, <1>6, Parts

-----------------------------------------------------------------------------
(* Types.                                                                  *)
LEMMA TypeOKStep == IInv /\ Next => TypeOK'
<1> SUFFICES ASSUME IInv, Next PROVE TypeOK'
  OBVIOUS
<1>0. /\ TypeOK /\ TaskSet /\ NoRepeat(queue) /\ queue \in Seq(Nat)
      /\ Len(queue) \in 0 .. MaxRequiredSamples
  BY VariableFacts DEF IInv
<1> DEFINE QueueOK == /\ queue \in Seq(Nat) /\ Len(queue) <= MaxRequiredSamples
                      /\ totalConsumed \in Nat /\ droppedSamples \in Nat
                      /\ consumer \in [{"trainer"} -> MQ!ConsumerState]
                      /\ reply \in [{"trainer"} -> Nat]
           ProcOK == /\ paused \in BOOLEAN /\ staleness \in Nat /\ activeTasks \subseteq Samples
                     /\ lock \in {"free", "processor", "resetter"} /\ running \in BOOLEAN
                     /\ procPc \in ProcPc /\ procSize \in 0 .. MaxRequiredSamples
                     /\ popped \in 0 .. TotalRolloutSteps /\ held \in Samples \cup {NoSample}
           OthersOK == /\ task \in [Samples -> TaskStage]
                       /\ resetPc \in {"idle", "called", "sizing", "sized", "replied"}
                       /\ resetActive \in 0 .. MaxConcurrentSamples
                       /\ resetSize \in 0 .. MaxRequiredSamples
                       /\ monitorPc \in {"sleep", "stats", "decide", "lock", "exited"}
                       /\ monitorSize \in 0 .. MaxRequiredSamples
                       /\ streamPc \in {"streaming", "stopping", "stopped", "returned"}
                       /\ served \in Nat /\ serving \in BOOLEAN
           TrainerOK == /\ trainerPc \in {"collect", "train", "sync", "transfer", "resetting",
                                          "stop", "done"}
                        /\ batch \subseteq Samples /\ Cardinality(batch) <= RequiredSamples
                        /\ trained \subseteq Samples /\ localStep \in 1 .. TriggerStep
                        /\ version \in Nat /\ terminated \in BOOLEAN /\ mainDone \in BOOLEAN
<1>1. QueueOK /\ ProcOK /\ OthersOK /\ TrainerOK
  BY <1>0 DEF TypeOK, RollouterTypeOK, MQ!TypeOK
<1>2. mqRunning' \in BOOLEAN /\ totalProduced' \in 0 .. TotalRolloutSteps + 1
  <2>1. mqRunning' = mqRunning /\ mqRunning \in BOOLEAN
    BY <1>0, Frames, Parts DEF TypeOK, RollouterTypeOK, MQ!TypeOK, rollouterOnlyVars
  <2>2. Cardinality(Produced') \in Nat /\ Cardinality(Produced') <= TotalRolloutSteps
    BY SamplesFinite DEF Produced
  <2>3. PutsCounted'
    BY PutsCountedStep
  <2> QED
    BY <2>1, <2>2, <2>3, ConstantFacts DEF PutsCounted
<1>3. QueueOK' /\ ProcOK' /\ OthersOK' /\ TrainerOK' => TypeOK'
  BY <1>2 DEF TypeOK, RollouterTypeOK, MQ!TypeOK
<1>4. ASSUME NEW x \in Nat, x \notin Items, MQ!PutSample(x) PROVE QueueOK'
  <2>1. queue' \in Seq(Nat) /\ Len(queue') <= MaxRequiredSamples
    BY <1>0, <1>4, PutEffect
  <2> QED
    BY <1>1, <1>4, <2>1 DEF MQ!PutSample, MQ!NotifyAll, MQ!ConsumerState
<1>5. ASSUME UNCHANGED mqVars PROVE QueueOK'
  BY <1>1, <1>5 DEF mqVars
<1>6. ASSUME UNCHANGED <<paused, staleness, activeTasks, lock, running, procPc, procSize, popped, held>>
      PROVE  ProcOK'
  BY <1>1, <1>6
<1>7. ASSUME UNCHANGED <<resetPc, resetActive, resetSize, monitorPc, monitorSize, streamPc,
                         served, serving>>,
             UNCHANGED task \/ task' \in [Samples -> TaskStage]
      PROVE  OthersOK'
  BY <1>1, <1>7
<1>8. ASSUME UNCHANGED <<trainerPc, batch, trained, localStep, version, terminated, mainDone>>
      PROVE  TrainerOK'
  BY <1>1, <1>8
<1>9. CASE Processor /\ UNCHANGED <<trainerPc, batch, trained, localStep, version, terminated, mainDone>>
  <2>1. QueueOK' /\ TrainerOK'
    BY <1>5, <1>8, <1>9, Frames DEF mqVars
  <2>2. task' \in [Samples -> TaskStage]
    <3>1. CASE ProcSubmit
      BY <1>1, <3>1 DEF ProcSubmit, TaskStage
    <3>2. CASE ~ProcSubmit
      <4>1. UNCHANGED task
        BY <1>9, <3>2, ProcessorEffect DEF ProcGet
      <4> QED
        BY <1>1, <4>1
    <3> QED
      BY <3>1, <3>2
  <2>3. OthersOK'
    BY <1>7, <1>9, <2>2, Frames
  <2>4. UNCHANGED running
    BY <1>9, Frames
  <2>5. ProcOK'
    <3>1. CASE ProcGet
      BY <1>1, <2>4, <3>1, ConstantFacts DEF ProcGet, ProcPc, Samples
    <3>2. CASE ProcSubmit
      <4>1. held \in Samples
        BY <1>1, <3>2 DEF ProcSubmit, IInv, Places
      <4> QED
        BY <1>1, <2>4, <3>2, <4>1 DEF ProcSubmit, ProcPc
    <3>3. CASE ProcCheck \/ ProcStats \/ ProcDecide \/ ProcPause \/ ProcResumed
      <4>1. procSize' \in 0 .. MaxRequiredSamples /\ procPc' \in ProcPc /\ paused' \in BOOLEAN
        <5>1. CASE ProcCheck
          BY <1>1, <5>1 DEF ProcCheck, ProcPc, sharedVars
        <5>2. CASE ProcStats
          BY <1>0, <1>1, <5>2 DEF ProcStats, ProcPc, sharedVars
        <5>3. CASE ProcDecide
          BY <1>1, <5>3, ConstantFacts DEF ProcDecide, ProcPc, sharedVars
        <5>4. CASE ProcPause \/ ProcResumed
          BY <1>1, <5>4 DEF ProcPause, ProcResumed, ProcPc, sharedVars
        <5> QED
          BY <3>3, <5>1, <5>2, <5>3, <5>4
      <4>2. UNCHANGED <<staleness, activeTasks, lock, popped, held>>
        BY <3>3 DEF ProcCheck, ProcStats, ProcDecide, ProcPause, ProcResumed, sharedVars
      <4> QED
        BY <1>1, <2>4, <4>1, <4>2
    <3>4. CASE ProcLimit \/ ProcEnd
      BY <1>1, <2>4, <3>4 DEF ProcLimit, ProcEnd, ProcPc
    <3>5. CASE ProcDrainReap \/ ProcLimitReap \/ ProcEndReap
      BY <1>1, <2>4, <3>5
         DEF ProcDrainReap, ProcLimitReap, ProcEndReap, ProcReapHolding, AfterReaping, ProcPc
    <3> QED
      BY <1>9, <3>1, <3>2, <3>3, <3>4, <3>5 DEF Processor
  <2> QED
    BY <1>3, <2>1, <2>3, <2>5
<1>10. CASE (Resetter \/ Monitor) /\ UNCHANGED <<trainerPc, batch, trained, localStep, version, terminated, mainDone>>
  <2>1. QueueOK' /\ TrainerOK'
    BY <1>5, <1>8, <1>10, Frames DEF mqVars
  <2>2. Cardinality(activeTasks) \in 0 .. MaxConcurrentSamples
    BY <1>0, CountFacts, ConstantFacts DEF TaskSet
  <2>3. CASE Resetter
    <3>1. ProcOK'
      <4>1. UNCHANGED <<activeTasks, running, procPc, procSize, popped, held>>
        BY <2>3, Frames
      <4>2. paused' \in BOOLEAN /\ staleness' \in Nat /\ lock' \in {"free", "processor", "resetter"}
        <5>1. CASE ResetBegin
          BY <1>1, <5>1 DEF ResetBegin
        <5>2. CASE ResetSize
          BY <1>1, <5>2 DEF ResetSize, sharedVars
        <5>3. CASE ResetAssign
          BY <1>1, <5>3, VariableFacts DEF ResetAssign
        <5> QED
          BY <2>3, <5>1, <5>2, <5>3 DEF Resetter
      <4> QED
        BY <1>1, <4>1, <4>2
    <3>2. OthersOK'
      BY <1>0, <1>1, <2>2, <2>3, ConstantFacts
         DEF Resetter, ResetBegin, ResetSize, ResetAssign, monitorVars, serverVars
    <3> QED
      BY <1>3, <2>1, <3>1, <3>2
  <2>4. CASE Monitor
    <3>1. ProcOK'
      BY <1>1, <2>4, Frames
         DEF Monitor, MonitorCheck, MonitorStats, MonitorDecide, MonitorResume, MonitorExit, sharedVars
    <3>2. OthersOK'
      BY <1>0, <1>1, <2>4, ConstantFacts
         DEF Monitor, MonitorCheck, MonitorStats, MonitorDecide, MonitorResume, MonitorExit,
             resetVars, serverVars
    <3> QED
      BY <1>3, <2>1, <3>1, <3>2
  <2> QED
    BY <1>10, <2>3, <2>4
<1>11. CASE Stream /\ UNCHANGED <<trainerPc, batch, trained, localStep, version, terminated, mainDone>>
  <2>1. TrainerOK'
    BY <1>8, <1>11
  <2>2. QueueOK'
    <3>1. CASE StreamPutEnd
      BY <1>4, <3>1, PutEffectEnd
    <3>2. CASE StreamStop \/ FitReturn
      BY <1>5, <3>2 DEF StreamStop, FitReturn
    <3> QED
      BY <1>11, <3>1, <3>2 DEF Stream
  <2>3. ProcOK'
    BY <1>1, <1>11, Frames DEF Stream, StreamPutEnd, StreamStop, FitReturn, sharedVars
  <2>4. OthersOK'
    BY <1>1, <1>11, Frames DEF Stream, StreamPutEnd, StreamStop, FitReturn
  <2> QED
    BY <1>3, <2>1, <2>2, <2>3, <2>4
<1>12. CASE (\E s \in Samples : Task(s))
             /\ UNCHANGED <<trainerPc, batch, trained, localStep, version, terminated, mainDone>>
  <2>1. PICK s \in Samples : Task(s)
    BY <1>12
  <2>2. QueueOK'
    <3>1. CASE TaskPut(s)
      BY <1>4, <3>1, PutEffectSample
    <3>2. CASE TaskGenerate(s) \/ TaskFail(s) \/ TaskDone(s)
      BY <1>5, <3>2 DEF TaskGenerate, TaskFail, TaskDone
    <3> QED
      BY <2>1, <3>1, <3>2 DEF Task
  <2>3. task' \in [Samples -> TaskStage]
    BY <1>1, <2>1 DEF Task, TaskGenerate, TaskFail, TaskPut, TaskDone, TaskStage
  <2>4. ProcOK' /\ OthersOK' /\ TrainerOK'
    BY <1>6, <1>7, <1>8, <1>12, <2>1, <2>3, Frames
  <2> QED
    BY <1>3, <2>2, <2>4
<1>13. CASE QueueGet
  <2>1. ProcOK' /\ OthersOK' /\ TrainerOK'
    BY <1>6, <1>7, <1>8, <1>13, Frames
       DEF rollouterOnlyVars, trainerVars, sharedVars, procVars, resetVars, monitorVars, serverVars
  <2>2. CASE MQ!GetTake("trainer")
    <3>1. /\ Head(queue) \in Nat /\ Tail(queue) \in Seq(Nat) /\ Len(Tail(queue)) = Len(queue) - 1
          /\ queue # <<>>
      BY <1>0, <2>2, TailElements DEF MQ!GetTake
    <3>2. queue' \in Seq(Nat) /\ Len(queue') <= MaxRequiredSamples
      BY <1>0, <2>2, <3>1, ConstantFacts DEF MQ!GetTake
    <3>3. QueueOK'
      BY <1>1, <2>2, <3>1, <3>2 DEF MQ!GetTake, MQ!ConsumerState
    <3> QED
      BY <1>3, <2>1, <3>3
  <2>3. CASE ~MQ!GetTake("trainer")
    <3>1. QueueOK'
      BY <1>1, <1>13, <2>3 DEF QueueGet, MQ!GetSample, MQ!GetWait, MQ!GetClosed, MQ!counters, MQ!ConsumerState
    <3> QED
      BY <1>3, <2>1, <3>1
  <2> QED
    BY <2>2, <2>3
<1>14. CASE Trainer
  <2>1. UNCHANGED <<queue, totalConsumed, droppedSamples, reply>>
    BY <1>14, Frames
  <2>2. consumer' \in [{"trainer"} -> MQ!ConsumerState]
    BY <1>1, <1>14
       DEF Trainer, TrainerCall, TrainerReceive, TrainerTrain, SyncAbort, SyncResume,
           TrainerReset, TrainerStop, MQ!CallGetSample, MQ!ReceiveReply, MQ!ConsumerState,
           rollouterVars, mqVars
  <2>3. QueueOK' /\ ProcOK'
    BY <1>1, <1>6, <1>14, <2>1, <2>2, Frames
  <2>4. task' \in [Samples -> TaskStage]
    BY <1>1, <1>14, TrainerTasks
  <2>5. UNCHANGED <<resetActive, resetSize, monitorPc, monitorSize, streamPc, mainDone>>
    BY <1>14, Frames
  <2>6. CASE TrainerCall
    <3>1. OthersOK'
      BY <1>1, <2>4, <2>5, <2>6 DEF TrainerCall, rollouterOnlyVars, resetVars, serverVars
    <3>2. TrainerOK'
      BY <1>1, <2>5, <2>6 DEF TrainerCall, trainerVars
    <3> QED
      BY <1>3, <2>3, <3>1, <3>2
  <2>7. CASE TrainerReceive
    <3>1. batch' \subseteq Samples /\ Cardinality(batch') <= RequiredSamples
      <4>1. Phases /\ Cardinality(batch) < RequiredSamples
        BY <2>7, ReceiveEffect DEF IInv, Phases
      <4>2. CASE reply["trainer"] = EndSignal
        BY <1>1, <2>7, <4>2, ReceiveEffect
      <4>3. CASE reply["trainer"] # EndSignal
        BY <1>1, <2>7, <4>1, <4>3, ReceiveEffect, CountFacts, ConstantFacts
      <4> QED
        BY <4>2, <4>3
    <3>2. OthersOK'
      BY <1>1, <2>4, <2>5, <2>7 DEF TrainerReceive, rollouterOnlyVars, resetVars, serverVars
    <3>3. TrainerOK'
      BY <1>1, <2>5, <2>7, <3>1 DEF TrainerReceive
    <3> QED
      BY <1>3, <2>3, <3>2, <3>3
  <2>8. CASE TrainerTrain
    <3>1. Cardinality(batch') <= RequiredSamples /\ batch' \subseteq Samples /\ trained' \subseteq Samples
      BY <1>1, <2>8, TrainEffect, ConstantFacts
    <3>2. localStep' \in 1 .. TriggerStep /\ version' \in Nat /\ trainerPc' \in {"collect", "sync"}
      BY <1>1, <2>8, ConstantFacts DEF TrainerTrain
    <3>3. OthersOK'
      BY <1>1, <2>4, <2>5, <2>8 DEF TrainerTrain, rollouterVars, resetVars, serverVars
    <3>4. TrainerOK'
      BY <1>1, <2>5, <2>8, <3>1, <3>2 DEF TrainerTrain
    <3> QED
      BY <1>3, <2>3, <3>3, <3>4
  <2>9. CASE SyncAbort
    <3>1. OthersOK'
      BY <1>1, <2>4, <2>5, <2>9 DEF SyncAbort, resetVars
    <3>2. TrainerOK'
      BY <1>1, <2>5, <2>9 DEF SyncAbort
    <3> QED
      BY <1>3, <2>3, <3>1, <3>2
  <2>10. CASE SyncResume
    <3>1. OthersOK'
      BY <1>1, <2>4, <2>5, <2>10 DEF SyncResume
    <3>2. TrainerOK'
      BY <1>1, <2>5, <2>10 DEF SyncResume
    <3> QED
      BY <1>3, <2>3, <3>1, <3>2
  <2>11. CASE TrainerReset
    <3>1. OthersOK'
      BY <1>1, <2>4, <2>5, <2>11 DEF TrainerReset, serverVars
    <3>2. TrainerOK'
      BY <1>1, <2>5, <2>11 DEF TrainerReset
    <3> QED
      BY <1>3, <2>3, <3>1, <3>2
  <2>12. CASE TrainerStop
    <3>1. OthersOK'
      BY <1>1, <2>4, <2>5, <2>12 DEF TrainerStop, rollouterVars, resetVars, serverVars
    <3>2. TrainerOK'
      BY <1>1, <2>5, <2>12 DEF TrainerStop
    <3> QED
      BY <1>3, <2>3, <3>1, <3>2
  <2> QED
    BY <1>14, <2>6, <2>7, <2>8, <2>9, <2>10, <2>11, <2>12 DEF Trainer
<1>15. CASE MainEnd
  <2>1. ProcOK' /\ OthersOK'
    BY <1>6, <1>7, <1>15, Frames
       DEF rollouterOnlyVars, sharedVars, procVars, resetVars, monitorVars, serverVars
  <2>2. TrainerOK'
    BY <1>1, <1>15 DEF MainEnd, trainerVars
  <2>3. QueueOK'
    <3>1. <<>> \in Seq(Nat) /\ Len(<<>>) = 0
      OBVIOUS
    <3> QED
      BY <1>1, <1>15, <3>1, ConstantFacts DEF MainEnd, MQ!ClearQueue, MQ!counters
  <2> QED
    BY <1>3, <2>1, <2>2, <2>3
<1> QED
  BY <1>9, <1>10, <1>11, <1>12, <1>13, <1>14, <1>15, Parts

LEMMA NextCounts ==
  ASSUME IInv, Next
  PROVE  /\ Cardinality(Held') \in Nat /\ Cardinality(Generating') \in Nat
         /\ Cardinality(Failed') \in Nat /\ Cardinality(InQueue') \in Nat
         /\ Backlog' \in Nat /\ staleness' \in Nat /\ served' \in Nat
         /\ droppedSamples' \in Nat /\ popped' \in Nat /\ version' \in Nat
<1>1. TypeOK' /\ Distinct'
  BY TypeOKStep, DistinctStep
<1>2. Held' \subseteq Samples /\ Generating' \subseteq Samples /\ Failed' \subseteq Samples
  BY <1>1 DEF TypeOK, RollouterTypeOK, Held, Generating, Failed
<1>3. InQueue' \subseteq Samples
  <2>1. InQueue' = Items' \ {EndSignal} /\ Produced' \subseteq Samples
    BY DEF InQueue, Items, Elements, Produced
  <2> QED
    BY <1>1, <2>1 DEF Distinct
<1> QED
  <2>1. /\ Cardinality(Held') \in Nat /\ Cardinality(Generating') \in Nat
        /\ Cardinality(Failed') \in Nat /\ Cardinality(InQueue') \in Nat
    BY <1>2, <1>3, SamplesFinite
  <2>2. /\ staleness' \in Nat /\ served' \in Nat
        /\ droppedSamples' \in Nat /\ popped' \in Nat /\ version' \in Nat
    BY <1>1, ConstantFacts DEF TypeOK, RollouterTypeOK, MQ!TypeOK
  <2> QED
    BY <2>1, <2>2 DEF Backlog

-----------------------------------------------------------------------------
(* How many samples are under way.                                         *)

(* No step adds to the backlog but a pop, and what leaves it may be a      *)
(* sample evicted.                                                         *)
LEMMA BacklogMoves ==
  ASSUME IInv, Next
  PROVE  /\ Cardinality(Generating') + Cardinality(Failed') + Cardinality(InQueue')
              <= Cardinality(Generating) + Cardinality(Failed) + Cardinality(InQueue)
            \/ ProcSubmit
         /\ Cardinality(Generating') + Cardinality(InQueue')
              <= Cardinality(Generating) + Cardinality(InQueue) \/ ProcSubmit
         /\ ~Pop => Backlog' + droppedSamples' <= Backlog + droppedSamples
         /\ ~Pop => Backlog' <= Backlog /\ popped' = popped
         /\ Pop => /\ Backlog' = Backlog + 1 /\ droppedSamples' = droppedSamples
                   /\ popped' = popped + 1 /\ procPc' = "limit" /\ staleness' = staleness + 1
         /\ \/ droppedSamples' = droppedSamples
            \/ /\ droppedSamples' = droppedSamples + 1
               /\ MaxRequiredSamples <= Backlog
               /\ \/ StreamPutEnd
                  \/ streamPc = "streaming" /\ streamPc' = streamPc /\ MaxRequiredSamples < Backlog
                  \/ streamPc # "streaming" /\ streamPc' = streamPc
<1> DEFINE h == Cardinality(Held)
           g == Cardinality(Generating)
           f == Cardinality(Failed)
           q == Cardinality(InQueue)
<1>1. /\ h \in Nat /\ g \in Nat /\ f \in Nat /\ q \in Nat /\ popped \in Nat
      /\ droppedSamples \in Nat /\ MaxRequiredSamples \in Nat /\ Ending
  BY CountFacts, VariableFacts, ConstantFacts DEF IInv
<1>2. Backlog = h + g + q /\ Backlog' = h' + g' + q'
  BY DEF Backlog
<1>3. CASE Pop
  <2>1. /\ h = 0 /\ h' = 1 /\ popped' = popped + 1
        /\ procPc' = "limit" /\ staleness' = staleness + 1
    BY <1>3, PopEffect DEF Pop
  <2>2. UNCHANGED <<g, f, q, droppedSamples>>
    BY <1>3 DEF Pop
  <2> QED
    BY <1>1, <1>2, <1>3, <2>1, <2>2
<1>4. CASE Submit
  <2>1. h = 1 /\ h' = 0 /\ g' = g + 1 /\ UNCHANGED <<popped, q, droppedSamples>> /\ ProcSubmit
    BY <1>4, SubmitEffect DEF Submit
  <2>2. ~Pop
    BY <2>1 DEF Pop, ProcGet, ProcSubmit
  <2> QED
    BY <1>1, <1>2, <2>1, <2>2
<1>5. CASE Fail
  <2>1. g' = g - 1 /\ f' = f + 1 /\ UNCHANGED <<popped, h, q, droppedSamples>>
    BY <1>5, FailEffect DEF Fail
  <2>2. ~Pop
    BY <1>1, <2>1, PopEffect DEF Pop
  <2> QED
    BY <1>1, <1>2, <2>1, <2>2
<1>6. CASE PutOne
  <2>1. PICK s \in Samples : TaskPut(s)
    BY <1>6 DEF PutOne
  <2>2. /\ g' = g - 1 /\ g >= 1 /\ UNCHANGED <<popped, h, f, streamPc>>
        /\ \/ /\ q' = q /\ droppedSamples' = droppedSamples + 1
              /\ q + 1 >= MaxRequiredSamples
              /\ EndSignal \notin Items => q = MaxRequiredSamples
           \/ q' = q + 1 /\ droppedSamples' = droppedSamples
    BY <1>6, <2>1, PutEffectSample, SameSets DEF PutOne, TaskPut
  <2>3. streamPc = "streaming" => EndSignal \notin Items
    BY <1>1 DEF Ending
  <2>4. ~Pop
    BY <1>1, <2>2, PopEffect DEF Pop
  <2> QED
    BY <1>1, <1>2, <2>2, <2>3, <2>4
<1>7. CASE PutEnd
  <2>1. /\ \/ q' = q - 1 /\ droppedSamples' = droppedSamples + 1 /\ q = MaxRequiredSamples
           \/ q' = q /\ droppedSamples' = droppedSamples
        /\ UNCHANGED <<popped, h, g, f>> /\ StreamPutEnd
    BY <1>7, PutEffectEnd DEF PutEnd
  <2>2. ~Pop
    BY <1>1, <2>1, PopEffect DEF Pop
  <2> QED
    BY <1>1, <1>2, <2>1, <2>2
<1>8. CASE Take
  <2>1. q' <= q /\ q' \in Nat /\ UNCHANGED <<popped, h, g, f, droppedSamples>>
    <3>1. InQueue' \subseteq InQueue
      BY <1>8, TakeEffect DEF Take, InQueue, Items, Elements
    <3> QED
      BY <1>8, <3>1, SetFacts, NoMore, SamplesFinite DEF Take
  <2>2. ~Pop
    BY <1>1, <2>1, PopEffect DEF Pop
  <2> QED
    BY <1>1, <1>2, <2>1, <2>2
<1>9. CASE Clear
  <2>1. UNCHANGED <<popped, h, g, f, droppedSamples>> /\ queue' = <<>>
    BY <1>9 DEF Clear, MainEnd, MQ!ClearQueue
  <2>2. InQueue' = {}
    BY <2>1 DEF InQueue
  <2>3. q' = 0
    BY <2>2, FS_EmptySet
  <2>4. ~Pop
    BY <1>1, <2>1, PopEffect DEF Pop
  <2> QED
    BY <1>1, <1>2, <2>1, <2>3, <2>4
<1>10. CASE Receive \/ Train \/ Stay
  <2>1. UNCHANGED <<popped, h, g, f, q, droppedSamples>>
    BY <1>10 DEF Receive, Train, Stay
  <2>2. ~Pop
    BY <1>1, <2>1, PopEffect DEF Pop
  <2> QED
    BY <1>1, <1>2, <2>1, <2>2
<1> QED
  BY <1>3, <1>4, <1>5, <1>6, <1>7, <1>8, <1>9, <1>10, Moves

(* What a step does with the processor's position, the count and the reset.*)
LEMMA ProcessorMoves ==
  ASSUME IInv, Next
  PROVE  /\ Alive' => Alive
         /\ procPc' # "died" => procPc # "died"
         /\ terminated => ~Alive
         /\ procPc' = "get" => Alive /\ ~Pop
         /\ procPc' = "get" =>
              \/ procPc = "get"
              \/ Processor /\ staleness < MaxRequiredSamples /\ UNCHANGED staleness
         /\ lock = "resetter" => ~ProcSubmit /\ (procPc' # "died" <=> procPc # "died")
<1>0. Locking /\ Ending /\ Phases
  BY DEF IInv
<1>1. terminated => ~Alive
  BY <1>0 DEF Ending
<1>2. ~Processor => procPc' = procPc /\ ~ProcSubmit /\ ~Pop
  BY Parts, Frames DEF rollouterOnlyVars, procVars, Processor, Pop
<1>3. ASSUME Processor
      PROVE  /\ Alive
             /\ procPc' = "get" => /\ staleness < MaxRequiredSamples /\ UNCHANGED staleness
                                   /\ ~ProcGet
             /\ lock = "resetter" => ~ProcSubmit /\ procPc' # "died"
  <2>1. Alive
    BY <1>3, ProcessorAlive
  <2>2. CASE ProcDecide
    <3>1. procPc' = "get" => staleness < MaxRequiredSamples
      BY <2>2, VariableFacts, ConstantFacts DEF ProcDecide, ShouldPause
    <3> QED
      BY <2>1, <2>2, <3>1 DEF ProcDecide, sharedVars, ProcSubmit, ProcGet
  <2>3. CASE ProcDrainReap \/ ProcLimitReap \/ ProcEndReap
    <3>1. lock # "resetter"
      BY <1>0, <2>3 DEF ProcDrainReap, ProcLimitReap, ProcEndReap, ProcReapHolding, LockFree, Locking
    <3>2. procPc' # "get"
      BY <2>3 DEF ProcDrainReap, ProcLimitReap, ProcEndReap, ProcReapHolding, AfterReaping
    <3> QED
      BY <2>1, <3>1, <3>2
  <2>4. CASE ProcSubmit
    BY <2>1, <2>4 DEF ProcSubmit, LockFree
  <2>5. CASE ProcCheck \/ ProcStats \/ ProcPause \/ ProcResumed \/ ProcGet \/ ProcLimit \/ ProcEnd
    BY <2>1, <2>5 DEF ProcCheck, ProcStats, ProcPause, ProcResumed, ProcGet, ProcLimit, ProcEnd,
         ProcSubmit
  <2> QED
    BY <1>3, <2>2, <2>3, <2>4, <2>5 DEF Processor
<1>4. CASE Processor
  BY <1>1, <1>3, <1>4 DEF Alive, Pop
<1>5. CASE ~Processor
  BY <1>1, <1>2, <1>5 DEF Alive
<1> QED
  BY <1>4, <1>5

(* The steps of reset_staleness, and the trainer's around it.              *)
LEMMA ResetMoves ==
  ASSUME IInv, Next
  PROVE  \/ /\ ResetAssign /\ UNCHANGED <<terminated, streamPc, procPc>> /\ Stay
            /\ staleness' = resetActive + resetSize /\ served' = served /\ resetPc' = "replied"
         \/ /\ resetPc' = "sized" => resetPc = "sized" /\ UNCHANGED <<resetActive, resetSize>>
            /\ staleness' = staleness \/ (ProcGet /\ staleness' = staleness + 1)
            /\ terminated' = terminated \/ terminated' = TRUE
            /\ served' = served \/ served' = served + 1
            /\ Resets' = Resets
         \/ /\ ResetSize /\ UNCHANGED <<terminated, streamPc, procPc, staleness, served>> /\ Stay
            /\ resetSize' = Len(queue) /\ resetActive' = resetActive
            /\ Resets' = Resets
<1>0. Phases /\ served \in Nat /\ terminated \in BOOLEAN
  BY VariableFacts DEF IInv
<1>1. CASE Resetter /\ UNCHANGED <<trainerPc, batch, trained, localStep, version, terminated, mainDone>>
  <2>1. /\ UNCHANGED <<streamPc, procPc, served>> /\ Stay
    BY <1>1, Frames, SameSets DEF Stay
  <2>2. CASE ResetAssign
    BY <1>1, <2>1, <2>2 DEF ResetAssign
  <2>3. CASE ResetSize
    BY <1>1, <2>1, <2>3 DEF ResetSize, sharedVars, Resets
  <2>4. CASE ResetBegin
    BY <1>1, <2>1, <2>4 DEF ResetBegin, Resets
  <2> QED
    BY <1>1, <2>2, <2>3, <2>4 DEF Resetter
<1>2. ASSUME UNCHANGED <<resetPc, resetActive, resetSize, served, terminated>>,
             staleness' = staleness \/ (ProcGet /\ staleness' = staleness + 1)
      PROVE  /\ resetPc' = "sized" => resetPc = "sized" /\ UNCHANGED <<resetActive, resetSize>>
             /\ staleness' = staleness \/ (ProcGet /\ staleness' = staleness + 1)
             /\ terminated' = terminated \/ terminated' = TRUE
             /\ served' = served \/ served' = served + 1
             /\ Resets' = Resets
  BY <1>2 DEF Resets
<1>3. CASE Processor /\ UNCHANGED <<trainerPc, batch, trained, localStep, version, terminated, mainDone>>
  <2>1. staleness' = staleness \/ (ProcGet /\ staleness' = staleness + 1)
    BY <1>3, ProcessorEffect DEF ProcGet, ProcSubmit
  <2> QED
    BY <1>2, <1>3, <2>1, Frames
<1>4. CASE (Monitor \/ Stream \/ \E s \in Samples : Task(s))
             /\ UNCHANGED <<trainerPc, batch, trained, localStep, version, terminated, mainDone>>
  BY <1>2, <1>4, Frames
<1>5. CASE QueueGet \/ MainEnd
  BY <1>2, <1>5, Frames DEF rollouterOnlyVars, trainerVars, sharedVars, resetVars, serverVars
<1>6. CASE Trainer
  <2>1. UNCHANGED <<staleness, resetActive, resetSize>>
    BY <1>6, Frames
  <2>2. CASE TrainerCall \/ TrainerTrain \/ SyncAbort \/ TrainerStop
    <3>1. UNCHANGED <<resetPc, served, terminated>>
      BY <2>2 DEF TrainerCall, TrainerTrain, SyncAbort, TrainerStop, trainerVars,
           rollouterOnlyVars, rollouterVars, resetVars, serverVars
    <3> QED
      BY <1>2, <2>1, <3>1
  <2>3. CASE TrainerReceive
    <3>1. resetPc = "idle" /\ UNCHANGED <<resetPc, served>> /\ (terminated' = TRUE \/ UNCHANGED terminated)
      BY <1>0, <2>3, ReceiveEffect DEF Phases, TrainerReceive, rollouterOnlyVars, resetVars, serverVars
    <3> QED
      BY <2>1, <3>1 DEF Resets
  <2>4. CASE SyncResume
    <3>1. /\ resetPc = "idle" /\ resetPc' = "called" /\ UNCHANGED terminated
          /\ served' = IF terminated THEN served ELSE served + 1
      BY <1>0, <2>4 DEF Phases, SyncResume
    <3> QED
      BY <1>0, <2>1, <3>1 DEF Resets
  <2>5. CASE TrainerReset
    BY <1>0, <2>1, <2>5 DEF TrainerReset, Resets, serverVars
  <2> QED
    BY <1>6, <2>2, <2>3, <2>4, <2>5 DEF Trainer
<1> QED
  BY <1>1, <1>3, <1>4, <1>5, <1>6, Parts

(* len(active_tasks) and the queue's size cover all but the sample held.   *)
LEMMA CoverActive ==
  ASSUME IInv
  PROVE  /\ Cardinality(Generating) <= Cardinality(activeTasks)
         /\ procPc # "died" =>
              Cardinality(Generating) + Cardinality(Failed) <= Cardinality(activeTasks)
         /\ Cardinality(Held) <= 1
<1>1. /\ Generating \subseteq activeTasks /\ activeTasks \subseteq Samples
      /\ procPc # "died" => Failed \subseteq activeTasks
  BY VariableFacts DEF IInv, TaskSet, Generating
<1>2. Cardinality(Generating) <= Cardinality(activeTasks)
  BY <1>1, NoMore
<1>3. ASSUME procPc # "died"
      PROVE  Cardinality(Generating) + Cardinality(Failed) <= Cardinality(activeTasks)
  <2>1. Generating \cap Failed = {}
    BY DEF Generating, Failed
  <2>2. IsFiniteSet(Generating) /\ IsFiniteSet(Failed)
    BY SetFacts, SamplesFinite
  <2>3. Cardinality(Generating \cup Failed)
          = Cardinality(Generating) + Cardinality(Failed) - Cardinality(Generating \cap Failed)
    BY <2>2, FS_Union
  <2>4. Cardinality(Generating \cap Failed) = 0
    BY <2>1, FS_EmptySet
  <2>5. Cardinality(Generating \cup Failed) <= Cardinality(activeTasks)
    BY <1>1, <1>3, NoMore
  <2> QED
    BY <2>3, <2>4, <2>5, CountFacts
<1>4. Cardinality(Held) <= 1
  <2>1. Held = {} \/ Held = {held}
    BY DEF Held
  <2>2. Cardinality({held}) = 1
    BY FS_Singleton
  <2> QED
    BY <2>1, <2>2, NoneAtAll
<1> QED
  BY <1>2, <1>3, <1>4

LEMMA StalenessStep == IInv /\ Next => Staleness'
<1> SUFFICES ASSUME IInv, Next PROVE Staleness'
  OBVIOUS
<1> DEFINE g == Cardinality(Generating)
           f == Cardinality(Failed)
           q == Cardinality(InQueue)
<1>0. /\ Staleness /\ Locking
      /\ g \in Nat /\ f \in Nat /\ q \in Nat /\ Backlog \in Nat /\ droppedSamples \in Nat
      /\ Cardinality(Held) \in Nat /\ resetActive \in Nat /\ resetSize \in Nat /\ staleness \in Nat
  BY CountFacts, VariableFacts DEF IInv
<1>1. CASE ResetAssign /\ staleness' = resetActive + resetSize /\ resetPc' = "replied" /\ Stay
  <2>1. Backlog' = Backlog /\ g + q <= resetActive + resetSize
    BY <1>0, <1>1 DEF Stay, Backlog, Staleness, ResetAssign
  <2> QED
    BY <1>0, <1>1, <2>1, CoverActive DEF Staleness, Backlog
<1>2. CASE ResetSize /\ UNCHANGED <<procPc, staleness>> /\ Stay
             /\ resetSize' = Len(queue) /\ resetActive' = resetActive
  <2>1. /\ g' = g /\ f' = f /\ q' = q /\ Backlog' = Backlog
        /\ resetActive = Cardinality(activeTasks)
    BY <1>0, <1>2 DEF Stay, Backlog, Locking, ResetSize
  <2> QED
    BY <1>0, <1>2, <2>1, CoverActive, QueueSize, VariableFacts, SMTT(30) DEF Staleness
<1>3. CASE /\ resetPc' = "sized" => resetPc = "sized" /\ UNCHANGED <<resetActive, resetSize>>
           /\ staleness' = staleness \/ (ProcGet /\ staleness' = staleness + 1)
  <2>1. Backlog' <= staleness' + 1
    BY <1>0, <1>3, BacklogMoves, NextCounts DEF Staleness, Pop, ProcGet
  <2>2. ASSUME resetPc' = "sized"
        PROVE  /\ g' + q' <= resetActive' + resetSize'
               /\ procPc' # "died" => g' + f' + q' <= resetActive' + resetSize'
    <3>1. lock = "resetter"
      BY <1>0, <1>3, <2>2 DEF Locking
    <3>2. ~ProcSubmit /\ (procPc' # "died" <=> procPc # "died")
      BY <3>1, ProcessorMoves
    <3>3. g' + f' + q' <= g + f + q /\ g' + q' <= g + q
      BY <3>2, BacklogMoves
    <3>4. /\ g + q <= resetActive + resetSize
          /\ procPc # "died" => g + f + q <= resetActive + resetSize
      BY <1>0, <1>3, <2>2 DEF Staleness
    <3> QED
      BY <1>0, <1>3, <2>2, <3>2, <3>3, <3>4, NextCounts
  <2> QED
    BY <2>1, <2>2 DEF Staleness
<1> QED
  BY <1>1, <1>2, <1>3, ResetMoves

(* While reset_staleness is under way the trainer holds no sample that has *)
(* not been trained on.                                                    *)
LEMMA CountAtReset ==
  ASSUME IInv, resetPc = "sized", ~terminated
  PROVE  popped = Cardinality(Held) + Cardinality(Generating) + Cardinality(Failed)
                    + Cardinality(InQueue) + WindowSamples * served + droppedSamples
<1>1. trainerPc = "resetting" /\ ~mainDone
  BY DEF IInv, Phases
<1>2. consumer["trainer"] = "idle" /\ batch = {} /\ localStep = 1 /\ version = served
  BY <1>1 DEF IInv, Phases
<1>3. Cardinality(InReply) = 0 /\ Cardinality(batch) = 0
  BY <1>2, FS_EmptySet DEF InReply
<1>4. Cardinality(trained) = WindowSamples * served
  <2>1. Cardinality(trained) = WindowSamples * served + RequiredSamples * (1 - 1)
    BY <1>2 DEF IInv, Phases
  <2>2. 1 \in 1 .. TriggerStep /\ served \in Nat
    BY ConstantFacts, VariableFacts
  <2>3. RequiredSamples * (1 - 1) = 0 /\ WindowSamples * served \in Nat
    BY <2>2, Products
  <2> QED
    BY <2>1, <2>3
<1> DEFINE done == WindowSamples * served
<1>a. done \in Nat
  <2>1. 1 \in 1 .. TriggerStep /\ served \in Nat
    BY ConstantFacts, VariableFacts
  <2> QED
    BY <2>1, Products
<1>5. popped = Cardinality(Held) + Cardinality(Generating) + Cardinality(Failed)
        + Cardinality(InQueue) + Cardinality(InReply) + Cardinality(batch)
        + Cardinality(trained) + droppedSamples
  BY <1>1 DEF IInv, Conservation, Failed
<1>6. popped = Cardinality(Held) + Cardinality(Generating) + Cardinality(Failed)
        + Cardinality(InQueue) + done + droppedSamples
  <2>1. Cardinality(trained) = done
    BY <1>4
  <2>2. /\ Cardinality(Held) \in Nat /\ Cardinality(Generating) \in Nat
        /\ Cardinality(Failed) \in Nat /\ Cardinality(InQueue) \in Nat
        /\ droppedSamples \in Nat
    BY CountFacts, VariableFacts
  <2> HIDE DEF done
  <2> QED
    BY <1>3, <1>5, <1>a, <2>1, <2>2
<1> QED
  BY <1>6

LEMMA WindowStep == IInv /\ Next => Window'
<1> SUFFICES ASSUME IInv, Next PROVE Window'
  OBVIOUS
<1> DEFINE done == WindowSamples * served
<1>0. /\ Window /\ Staleness
      /\ popped \in Nat /\ staleness \in Nat /\ droppedSamples \in Nat /\ done \in Nat
      /\ MaxRequiredSamples \in Nat
      /\ popped' \in Nat /\ staleness' \in Nat /\ droppedSamples' \in Nat
      /\ Cardinality(Held) \in Nat /\ Cardinality(Generating) \in Nat
      /\ Cardinality(Failed) \in Nat /\ Cardinality(InQueue) \in Nat
      /\ resetActive \in Nat /\ resetSize \in Nat
  <2>1. served \in Nat /\ WindowSamples \in Nat
    BY VariableFacts, ConstantFacts
  <2>2. done \in Nat
    BY <2>1
  <2> QED
    BY <2>2, VariableFacts, CountFacts, ConstantFacts, NextCounts DEF IInv
<1>1. /\ served' = served => done' = done
      /\ served' = served + 1 => done' = done + WindowSamples
  BY VariableFacts, ConstantFacts
<1>2. done' \in Nat /\ (served' = served \/ served' = served + 1 => done' >= done)
  <2>1. done' \in Nat
    BY <1>0, ConstantFacts, NextCounts
  <2> HIDE DEF done
  <2> QED
    BY <1>0, <1>1, <2>1, ConstantFacts
<1>3. droppedSamples' >= droppedSamples
  BY <1>0, BacklogMoves
<1>4. CASE ResetAssign /\ UNCHANGED <<terminated, streamPc, procPc>> /\ Stay
             /\ staleness' = resetActive + resetSize /\ served' = served
  <2>1. resetPc = "sized" /\ popped' = popped /\ droppedSamples' = droppedSamples /\ done' = done
    BY <1>1, <1>4 DEF ResetAssign, Stay
  <2>2. procPc # "died" /\ ~terminated => popped <= done + resetActive + resetSize + 1 + droppedSamples
    BY <1>0, <2>1, CountAtReset, CoverActive DEF Staleness
  <2> QED
    BY <1>0, <1>4, <2>1, <2>2 DEF Window, RolloutNumBound
<1>5. CASE UNCHANGED <<terminated, streamPc, procPc, staleness, served>> /\ Stay
  BY <1>0, <1>1, <1>5 DEF Window, RolloutNumBound, Stay
<1>6. CASE /\ staleness' = staleness \/ (ProcGet /\ staleness' = staleness + 1)
           /\ terminated' = terminated \/ terminated' = TRUE
           /\ served' = served \/ served' = served + 1
  <2>0. done' >= done
    BY <1>2, <1>6
  <2>1. procPc' # "died" /\ ~terminated' => procPc # "died" /\ ~terminated
    BY <1>6, ProcessorMoves
  <2>2. CASE Pop
    <3>1. popped' = popped + 1 /\ procPc' = "limit" /\ staleness' = staleness + 1 /\ procPc = "get"
      BY <2>2, BacklogMoves DEF Pop, ProcGet
    <3>2. /\ procPc # "died" /\ ~terminated => popped <= done + staleness + 1 + droppedSamples
          /\ popped <= done + MaxRequiredSamples + droppedSamples
      BY <1>0, <3>1 DEF Window
    <3>3. procPc' # "died" /\ ~terminated' => popped' <= done' + staleness' + 1 + droppedSamples'
      BY <1>0, <1>2, <1>3, <2>0, <2>1, <3>1, <3>2
    <3>4. popped' <= done' + MaxRequiredSamples + 1 + droppedSamples'
      BY <1>0, <1>2, <1>3, <2>0, <3>1, <3>2
    <3> QED
      BY <3>1, <3>3, <3>4 DEF Window, RolloutNumBound
  <2>3. CASE ~Pop
    <3>1. popped' = popped /\ staleness' >= staleness
      BY <1>0, <1>6, <2>3, BacklogMoves
    <3>2. procPc' # "died" /\ ~terminated' => popped' <= done' + staleness' + 1 + droppedSamples'
      <4>1. procPc # "died" /\ ~terminated => popped <= done + staleness + 1 + droppedSamples
        BY <1>0 DEF Window
      <4> QED
        BY <1>0, <1>2, <1>3, <2>0, <2>1, <3>1, <4>1
    <3>3. popped' <= done' + MaxRequiredSamples + 1 + droppedSamples'
      <4>1. popped <= done + MaxRequiredSamples + 1 + droppedSamples
        BY <1>0 DEF Window, RolloutNumBound
      <4> QED
        BY <1>0, <1>2, <1>3, <2>0, <3>1, <4>1
    <3>4. procPc' = "get" => popped' <= done' + MaxRequiredSamples + droppedSamples'
      <4>1. CASE procPc = "get"
        <5>1. popped <= done + MaxRequiredSamples + droppedSamples
          BY <1>0, <4>1 DEF Window
        <5> QED
          BY <1>0, <1>2, <1>3, <2>0, <3>1, <5>1
      <4>2. CASE procPc' = "get" /\ procPc # "get"
        <5>1. staleness < MaxRequiredSamples /\ procPc # "died" /\ ~terminated
          BY <4>2, ProcessorMoves DEF Alive
        <5>2. popped <= done + staleness + 1 + droppedSamples
          BY <1>0, <5>1 DEF Window
        <5> QED
          BY <1>0, <1>2, <1>3, <2>0, <3>1, <5>1, <5>2
      <4> QED
        BY <4>1, <4>2
    <3> QED
      BY <3>2, <3>3, <3>4 DEF Window, RolloutNumBound
  <2> QED
    BY <2>2, <2>3
<1> QED
  BY <1>4, <1>5, <1>6, ResetMoves

LEMMA OverrunStep == IInv /\ Next => Overrun'
<1> SUFFICES ASSUME IInv, Next PROVE Overrun'
  OBVIOUS
<1> DEFINE Grace == IF streamPc = "streaming" THEN 0 ELSE 1
<1>0. /\ Overrun /\ Staleness /\ Ending
      /\ Backlog \in Nat /\ staleness \in Nat /\ droppedSamples \in Nat
      /\ Backlog' \in Nat /\ staleness' \in Nat /\ droppedSamples' \in Nat
      /\ MaxRequiredSamples \in Nat /\ served \in Nat /\ served' \in Nat
      /\ Resets \in Int /\ Resets' \in Int /\ Grace \in {0, 1} /\ Grace' \in {0, 1}
      /\ Cardinality(Held) \in Nat /\ Cardinality(Generating) \in Nat
      /\ Cardinality(InQueue) \in Nat
      /\ resetActive \in Nat /\ resetSize \in Nat
  <2>1. served \in Nat /\ served' \in Nat
    BY VariableFacts, NextCounts
  <2>2. Resets \in Int /\ Resets' \in Int
    BY <2>1 DEF Resets
  <2> QED
    BY <2>1, <2>2, VariableFacts, CountFacts, ConstantFacts, NextCounts DEF IInv
<1>1. CASE ResetAssign /\ UNCHANGED <<terminated, streamPc, procPc>> /\ Stay
             /\ staleness' = resetActive + resetSize /\ served' = served /\ resetPc' = "replied"
  <2>1. resetPc = "sized" /\ UNCHANGED <<Backlog, droppedSamples, Grace>> /\ (Alive' <=> Alive)
    BY <1>1 DEF ResetAssign, Stay, Backlog, Alive
  <2>2. Resets' = served /\ Resets = IF ~terminated THEN served - 1 ELSE served
    BY <1>1, <2>1 DEF Resets
  <2>3. Alive => ~terminated /\ Grace = 0
    BY <1>0 DEF Ending
  <2>4. Backlog <= resetActive + resetSize + 1
    <3>1. /\ Cardinality(Generating) + Cardinality(InQueue) <= resetActive + resetSize
          /\ Cardinality(Held) <= 1
      BY <1>0, <2>1, CoverActive DEF Staleness
    <3> QED
      BY <1>0, <3>1 DEF Backlog
  <2>5. Resets <= Resets' /\ (Alive => Resets' = Resets + 1)
    BY <1>0, <2>2, <2>3
  <2>6. droppedSamples <= Resets + Grace
    BY <1>0 DEF Overrun
  <2>7. Alive => Backlog + droppedSamples <= staleness' + Resets'
    BY <1>0, <1>1, <2>3, <2>4, <2>5, <2>6
  <2>8. /\ Backlog + droppedSamples < MaxRequiredSamples + Resets
             => Backlog + droppedSamples < MaxRequiredSamples + Resets'
        /\ Backlog + droppedSamples <= MaxRequiredSamples + Resets
             => Backlog + droppedSamples <= MaxRequiredSamples + Resets'
        /\ droppedSamples <= Resets' + Grace
    <3>1. /\ Backlog \in Nat /\ droppedSamples \in Nat /\ MaxRequiredSamples \in Nat
          /\ Resets \in Int /\ Resets' \in Int /\ Grace \in {0, 1}
      BY <1>0
    <3>2. \A b, d, m \in Nat, r, rn \in Int, e \in {0, 1} : r <= rn =>
            /\ b + d < m + r => b + d < m + rn
            /\ b + d <= m + r => b + d <= m + rn
            /\ d <= r + e => d <= rn + e
      OBVIOUS
    <3> HIDE DEF Grace
    <3> QED
      BY <2>5, <2>6, <3>1, <3>2
  <2>9. /\ procPc = "get" => Backlog + droppedSamples < MaxRequiredSamples + Resets'
        /\ Backlog + droppedSamples <= MaxRequiredSamples + Resets'
    BY <1>0, <2>8 DEF Overrun
  <2> QED
    BY <1>1, <2>1, <2>7, <2>8, <2>9 DEF Overrun
<1>2. CASE UNCHANGED <<terminated, streamPc, procPc, staleness, served>> /\ Stay /\ Resets' = Resets
  <2>1. UNCHANGED <<Backlog, droppedSamples, streamPc, procPc, staleness>> /\ (Alive' <=> Alive)
    BY <1>2 DEF Stay, Backlog, Alive
  <2> QED
    BY <1>0, <1>2, <2>1 DEF Overrun
<1>3. CASE /\ staleness' = staleness \/ (ProcGet /\ staleness' = staleness + 1)
           /\ Resets' = Resets
  <2>0. Resets' = Resets
    BY <1>3
  <2>1. Alive' => Alive
    BY ProcessorMoves
  <2>2. Backlog + droppedSamples <= MaxRequiredSamples + Resets /\ droppedSamples <= Resets + Grace
    BY <1>0 DEF Overrun
  <2>3. droppedSamples' <= Resets' + Grace'
    <3>1. CASE droppedSamples' = droppedSamples
      <4>1. Grace <= Grace'
        <5>1. streamPc' = "streaming" => streamPc = "streaming"
          BY Parts, Frames DEF rollouterOnlyVars, Stream, StreamPutEnd, StreamStop, FitReturn
        <5> QED
          BY <5>1
      <4> QED
        BY <1>0, <1>3, <2>2, <3>1, <4>1
    <3>2. CASE /\ droppedSamples' = droppedSamples + 1 /\ MaxRequiredSamples <= Backlog
               /\ StreamPutEnd \/ (streamPc # "streaming" /\ streamPc' = streamPc)
      <4>1. Grace' = 1
        BY <3>2 DEF StreamPutEnd
      <4> QED
        BY <1>0, <1>3, <2>2, <3>2, <4>1
    <3>3. CASE droppedSamples' = droppedSamples + 1 /\ MaxRequiredSamples < Backlog
      BY <1>0, <1>3, <2>2, <3>3
    <3> QED
      BY <3>1, <3>2, <3>3, BacklogMoves
  <2>4. CASE Pop
    <3>1. /\ Backlog' = Backlog + 1 /\ droppedSamples' = droppedSamples
          /\ procPc' = "limit" /\ staleness' = staleness + 1 /\ procPc = "get"
      BY <2>4, BacklogMoves DEF Pop, ProcGet
    <3>2. /\ Backlog + droppedSamples < MaxRequiredSamples + Resets
          /\ Alive => Backlog + droppedSamples <= staleness + Resets
      BY <1>0, <3>1 DEF Overrun
    <3>3. Alive' => Backlog' + droppedSamples' <= staleness' + Resets'
      BY <1>0, <1>3, <2>1, <3>1, <3>2
    <3>4. Backlog' + droppedSamples' <= MaxRequiredSamples + Resets'
      BY <1>0, <1>3, <3>1, <3>2
    <3> QED
      BY <2>3, <3>1, <3>3, <3>4 DEF Overrun
  <2>5. CASE ~Pop
    <3>0. /\ Backlog \in Nat /\ droppedSamples \in Nat /\ staleness \in Nat
          /\ Backlog' \in Nat /\ droppedSamples' \in Nat /\ staleness' \in Nat
          /\ MaxRequiredSamples \in Nat /\ Resets \in Int /\ Resets' \in Int
      BY <1>0
    <3>1. Backlog' + droppedSamples' <= Backlog + droppedSamples /\ staleness' >= staleness
      <4>1. Backlog' + droppedSamples' <= Backlog + droppedSamples
        BY <2>5, BacklogMoves
      <4>2. staleness' >= staleness
        BY <3>0, <1>3
      <4> QED
        BY <4>1, <4>2
    <3>2. /\ Backlog + droppedSamples <= staleness + Resets
               => Backlog' + droppedSamples' <= staleness' + Resets
          /\ Backlog + droppedSamples <= MaxRequiredSamples + Resets
               => Backlog' + droppedSamples' <= MaxRequiredSamples + Resets
          /\ Backlog + droppedSamples < MaxRequiredSamples + Resets
               => Backlog' + droppedSamples' < MaxRequiredSamples + Resets
          /\ Backlog + droppedSamples <= staleness + Resets /\ staleness < MaxRequiredSamples
               => Backlog' + droppedSamples' < MaxRequiredSamples + Resets
      <4>1. \A bn, dn, sn \in Nat : bn + dn <= Backlog + droppedSamples /\ sn >= staleness =>
              /\ Backlog + droppedSamples <= staleness + Resets => bn + dn <= sn + Resets
              /\ Backlog + droppedSamples <= MaxRequiredSamples + Resets
                   => bn + dn <= MaxRequiredSamples + Resets
              /\ Backlog + droppedSamples < MaxRequiredSamples + Resets
                   => bn + dn < MaxRequiredSamples + Resets
              /\ Backlog + droppedSamples <= staleness + Resets /\ staleness < MaxRequiredSamples
                   => bn + dn < MaxRequiredSamples + Resets
        BY <3>0
      <4> QED
        BY <3>0, <3>1, <4>1
    <3>3. Alive' => Backlog' + droppedSamples' <= staleness' + Resets'
      BY <1>0, <2>0, <2>1, <3>2 DEF Overrun
    <3>4. Backlog' + droppedSamples' <= MaxRequiredSamples + Resets'
      BY <2>0, <2>2, <3>2
    <3>5. ASSUME procPc' = "get" PROVE Backlog' + droppedSamples' < MaxRequiredSamples + Resets'
      <4>1. CASE procPc = "get"
        BY <1>0, <2>0, <3>2, <4>1 DEF Overrun
      <4>2. CASE procPc # "get"
        BY <1>0, <2>0, <3>2, <3>5, <4>2, ProcessorMoves DEF Overrun
      <4> QED
        BY <4>1, <4>2
    <3> QED
      BY <2>3, <3>3, <3>4, <3>5 DEF Overrun
  <2> QED
    BY <2>4, <2>5
<1> QED
  BY <1>1, <1>2, <1>3, ResetMoves

-----------------------------------------------------------------------------
(* The end of training.  When the trainer holds the end signal, every      *)
(* sample is where it will stay.                                           *)
LEMMA FinalCounts ==
  ASSUME IInv, EndReplied, procPc # "died"
  PROVE  popped = Cardinality(batch) + Cardinality(trained) + droppedSamples
<1>1. procPc = "ended" /\ ~Alive
  BY DEF IInv, Ending, Alive
<1>2. ~mainDone
  BY DEF IInv, Phases, EndReplied
<1>3. Held = {}
  BY <1>1 DEF IInv, Places, Held, NoSample
<1>4. Generating = {}
  BY <1>1, TasksLeft
<1>5. Failed = {}
  BY <1>1 DEF IInv, TaskSet
<1>6. InQueue = {} /\ InReply = {}
  <2>1. queue = <<>>
    BY DEF IInv, Finishing
  <2> QED
    BY <2>1 DEF InQueue, InReply, EndReplied
<1>7. popped = Cardinality(Held) + Cardinality(Generating) + Cardinality(Failed)
        + Cardinality(InQueue) + Cardinality(InReply) + Cardinality(batch)
        + Cardinality(trained) + droppedSamples
  BY <1>2 DEF IInv, Conservation, Failed
<1> QED
  BY <1>3, <1>4, <1>5, <1>6, <1>7, NoneAtAll, CountFacts, VariableFacts

(* Only get_sample makes the end signal a reply, and it takes the last     *)
(* element of the queue with it.                                           *)
LEMMA SignalTaken ==
  ASSUME IInv, Next, ~EndReplied, EndReplied', procPc # "died"
  PROVE  queue' = <<>> /\ UNCHANGED terminated
<1>1. CASE QueueGet
  <2>1. MQ!GetTake("trainer")
    BY <1>1, QueueGetCases DEF EndReplied
  <2>2. queue # <<>> /\ queue[1] = EndSignal /\ Len(queue') = Len(queue) - 1
    BY <2>1, TakeEffect DEF EndReplied
  <2>3. Len(queue) \in Nat /\ Len(queue) >= 1 /\ queue' = Tail(queue) /\ queue \in Seq(Nat)
    BY <2>1, <2>2, VariableFacts DEF MQ!GetTake
  <2>4. ~(1 \in 1 .. Len(queue) - 1)
    BY <2>2 DEF IInv, Ending
  <2>5. Len(queue) = 1
    <3>1. \A n \in Nat : n >= 1 /\ ~(1 \in 1 .. n - 1) => n = 1
      OBVIOUS
    <3> QED
      BY <2>3, <2>4, <3>1
  <2>6. queue' \in Seq(Nat) /\ Len(queue') = 0
    BY <2>2, <2>3, <2>5
  <2>7. queue' = <<>>
    BY <2>6
  <2> QED
    BY <1>1, <2>7 DEF QueueGet, trainerVars
<1>2. CASE Trainer
  BY <1>2, TrainerReplies
<1>3. ASSUME NEW x \in Nat, MQ!PutSample(x) PROVE FALSE
  <2>1. consumer'["trainer"] = "replied" => consumer["trainer"] = "replied"
    BY <1>3, VariableFacts DEF MQ!PutSample, MQ!NotifyAll
  <2> QED
    BY <1>3, <2>1 DEF EndReplied, MQ!PutSample
<1>4. CASE UNCHANGED <<consumer, reply>>
  BY <1>4 DEF EndReplied
<1>5. CASE \E t \in Samples : Task(t)
  <2>1. PICK t \in Samples : Task(t)
    BY <1>5
  <2>2. CASE TaskPut(t)
    BY <1>3, <2>2 DEF TaskPut, Samples
  <2>3. CASE ~TaskPut(t)
    BY <1>4, <2>1, <2>3 DEF Task, TaskGenerate, TaskFail, TaskDone, mqVars
  <2> QED
    BY <2>2, <2>3
<1>6. CASE Stream
  <2>1. CASE StreamPutEnd
    BY <1>3, <2>1 DEF StreamPutEnd, EndSignal
  <2>2. CASE ~StreamPutEnd
    BY <1>4, <1>6, <2>2 DEF Stream, StreamStop, FitReturn, mqVars
  <2> QED
    BY <2>1, <2>2
<1>7. CASE Processor \/ Resetter \/ Monitor
  BY <1>4, <1>7, Frames
<1>8. CASE MainEnd
  BY <1>4, <1>8 DEF MainEnd, MQ!ClearQueue
<1> QED
  BY <1>1, <1>2, <1>5, <1>6, <1>7, <1>8, Parts

(* From then on no sample moves any more.                                  *)
LEMMA NothingMoves ==
  ASSUME IInv, Next, EndReplied \/ terminated, procPc # "died"
  PROVE  /\ queue' = <<>> /\ UNCHANGED <<popped, droppedSamples>>
         /\ terminated => UNCHANGED <<batch, trained>>
         /\ ~terminated /\ terminated' =>
              /\ Cardinality(batch') + Cardinality(trained') + droppedSamples'
                   = Cardinality(batch) + Cardinality(trained) + droppedSamples
              /\ EndReplied
<1>1. queue = <<>> /\ procPc = "ended" /\ ~Alive /\ streamPc # "streaming"
  BY DEF IInv, Finishing, Ending, Alive
<1>2. Generating = {}
  BY <1>1, TasksLeft
<1>3. ~Processor
  BY <1>1, ProcessorAlive
<1>4. CASE (Resetter \/ Monitor) /\ UNCHANGED <<batch, trained, terminated>>
  BY <1>1, <1>4, Frames
<1>5. CASE Stream /\ UNCHANGED <<batch, trained, terminated>>
  <2>1. UNCHANGED <<queue, droppedSamples>>
    BY <1>1, <1>5 DEF Stream, StreamPutEnd, StreamStop, FitReturn, mqVars
  <2> QED
    BY <1>1, <1>5, <2>1, Frames
<1>6. CASE (\E s \in Samples : Task(s)) /\ UNCHANGED <<batch, trained, terminated>>
  <2>1. PICK s \in Samples : Task(s)
    BY <1>6
  <2>2. ~TaskPut(s)
    BY <1>2 DEF TaskPut, Generating
  <2>3. UNCHANGED <<queue, droppedSamples>>
    BY <2>1, <2>2 DEF Task, TaskGenerate, TaskFail, TaskDone, mqVars
  <2> QED
    BY <1>1, <1>6, <2>1, <2>3, Frames
<1>7. CASE QueueGet
  <2>1. UNCHANGED queue
    BY <1>1, <1>7, QueueGetCases, TakeEffect
  <2> QED
    BY <1>1, <1>7, <2>1, Frames DEF rollouterOnlyVars, procVars, trainerVars
<1>8. CASE Trainer
  <2>1. UNCHANGED <<queue, popped, droppedSamples>>
    BY <1>8, Frames
  <2>2. ASSUME terminated PROVE UNCHANGED <<batch, trained>>
    <3>1. trainerPc # "collect" /\ trainerPc # "train"
      BY <2>2 DEF IInv, Phases
    <3>2. ~TrainerReceive
      BY <3>1, ReceiveEffect
    <3> QED
      BY <1>8, <3>1, <3>2
         DEF Trainer, TrainerCall, TrainerTrain, SyncAbort, SyncResume, TrainerReset, TrainerStop
  <2>3. ASSUME ~terminated, terminated'
        PROVE  /\ Cardinality(batch') = Cardinality(batch) /\ trained' = trained
               /\ EndReplied
    <3>1. TrainerReceive
      BY <1>8, <2>3
         DEF Trainer, TrainerCall, TrainerTrain, SyncAbort, SyncResume, TrainerReset,
             TrainerStop, trainerVars
    <3>2. reply["trainer"] = EndSignal
      BY <2>3, <3>1 DEF TrainerReceive
    <3> QED
      BY <3>1, <3>2, ReceiveEffect DEF TrainerReceive
  <2> QED
    BY <1>1, <2>1, <2>2, <2>3
<1>9. CASE MainEnd
  BY <1>9, Frames DEF MainEnd, MQ!ClearQueue, rollouterOnlyVars, procVars, trainerVars
<1> QED
  BY <1>3, <1>4, <1>5, <1>6, <1>7, <1>8, <1>9, Parts

LEMMA FinishingStep == IInv /\ Next => Finishing'
<1> SUFFICES ASSUME IInv, Next PROVE Finishing'
  OBVIOUS
<1>0. Finishing /\ popped \in 0 .. TotalRolloutSteps
  BY VariableFacts DEF IInv
<1>1. procPc' \in {"endDrain", "endWait", "ended"} => popped' = TotalRolloutSteps
  <2>1. CASE Processor
    BY <1>0, <2>1 DEF Finishing, Processor, ProcCheck, ProcStats, ProcDecide, ProcPause,
         ProcDrainReap, ProcResumed, ProcGet, ProcLimit, ProcLimitReap, ProcSubmit, ProcEnd,
         ProcEndReap, ProcReapHolding, AfterReaping
  <2>2. CASE UNCHANGED <<procPc, popped>>
    BY <1>0, <2>2 DEF Finishing
  <2> QED
    BY <2>1, <2>2, Parts, Frames DEF rollouterOnlyVars, procVars
<1> SUFFICES ASSUME procPc' # "died", EndReplied' \/ terminated'
             PROVE  /\ queue' = <<>>
                    /\ terminated' =>
                         popped' = Cardinality(batch') + Cardinality(trained') + droppedSamples'
  BY <1>1 DEF Finishing
<1>2. procPc # "died"
  BY ProcessorAlive, Parts, Frames DEF Alive, rollouterOnlyVars, procVars
<1>3. CASE EndReplied \/ terminated
  <2>1. CASE terminated
    <3>1. popped = Cardinality(batch) + Cardinality(trained) + droppedSamples
      BY <1>0, <1>2, <2>1 DEF Finishing
    <3> QED
      BY <1>2, <1>3, <2>1, <3>1, NothingMoves
  <2>2. CASE ~terminated
    BY <1>2, <1>3, <2>2, NothingMoves, FinalCounts
  <2> QED
    BY <2>1, <2>2
<1>4. CASE ~EndReplied /\ ~terminated
  <2>1. ~terminated'
    BY <1>4, Parts, TrainerReplies DEF QueueGet, MainEnd, trainerVars
  <2> QED
    BY <1>2, <1>4, <2>1, SignalTaken
<1> QED
  BY <1>3, <1>4

-----------------------------------------------------------------------------
(* The initial states, steps that change nothing, and the invariant.       *)
LEMMA InitInvariant == Init => IInv
<1> SUFFICES ASSUME Init PROVE IInv
  OBVIOUS
<1> USE DEF Init, RollouterInit, MQ!Init, NoSample, EndSignal
<1>1. /\ queue = <<>> /\ Len(queue) = 0 /\ queue \in Seq(Nat)
      /\ \A s \in Samples : task[s] = "none"
  OBVIOUS
<1>2. /\ Held = {} /\ Generating = {} /\ Failed = {} /\ Produced = {} /\ Items = {}
      /\ InQueue = {} /\ InReply = {} /\ batch = {} /\ trained = {}
      /\ activeTasks = {} /\ Given = {} /\ ~EndReplied
  BY <1>1 DEF Held, Generating, Failed, Produced, Items, Elements, InQueue, InReply, Given, EndReplied
<1>3. Cardinality({}) = 0
  BY FS_EmptySet
<1>4. TypeOK
  <2>1. MQ!TypeOK
    BY <1>1, ConstantFacts DEF MQ!TypeOK, MQ!ConsumerState, MQ!NoReply
  <2>2. RollouterTypeOK
    <3>1. task \in [Samples -> TaskStage]
      BY DEF TaskStage
    <3>2. /\ 0 \in 0 .. MaxRequiredSamples /\ 0 \in 0 .. TotalRolloutSteps
          /\ 0 \in 0 .. MaxConcurrentSamples
      BY ConstantFacts
    <3> QED
      BY <2>1, <3>1, <3>2 DEF RollouterTypeOK, ProcPc
  <2>3. 1 \in 1 .. TriggerStep /\ Cardinality({}) <= RequiredSamples /\ {} \subseteq Samples
    BY <1>3, ConstantFacts
  <2> QED
    BY <2>2, <2>3 DEF TypeOK
<1>5. Places
  BY <1>1, ConstantFacts DEF Places, Samples
<1>6. TaskSet /\ Locking
  BY <1>1, <1>2, <1>3, ConstantFacts DEF TaskSet, Locking
<1>7. Distinct
  BY <1>1, <1>2 DEF Distinct, NoRepeat
<1>8. Ending
  BY <1>1, <1>2 DEF Ending, Alive
<1>9. WindowSamples * 0 = 0 /\ RequiredSamples * 0 = 0 /\ 1 - 1 = 0
  BY ConstantFacts
<1>10. Phases
  BY <1>2, <1>3, <1>9, ConstantFacts DEF Phases
<1>11. PutsCounted /\ Backlog = 0
  BY <1>2, <1>3 DEF PutsCounted, Backlog
<1>12. Staleness /\ Resets = 0
  BY <1>11 DEF Staleness, Resets
<1>13. Window /\ Overrun
  BY <1>9, <1>11, <1>12, ConstantFacts DEF Window, RolloutNumBound, Overrun
<1>14. Conservation
  <2>1. popped = Cardinality(Held) + Cardinality(Generating) + Cardinality(Failed)
          + Cardinality(InQueue) + Cardinality(InReply) + Cardinality(batch)
          + Cardinality(trained) + droppedSamples
    BY <1>2, <1>3
  <2> QED
    BY <2>1 DEF Conservation, Failed
<1>15. SentinelSurvives /\ Finishing
  BY DEF SentinelSurvives, Finishing, EndReplied
<1> QED
  BY <1>4, <1>5, <1>6, <1>7, <1>8, <1>10, <1>11, <1>12, <1>13, <1>14, <1>15 DEF IInv

LEMMA StutterInvariant == IInv /\ UNCHANGED vars => IInv'
<1> SUFFICES ASSUME IInv, UNCHANGED vars PROVE IInv'
  OBVIOUS
<1> USE DEF vars, rollouterVars, mqVars, sharedVars, procVars, resetVars, monitorVars,
            serverVars, trainerVars
<1>1. /\ UNCHANGED <<Held, Generating, Failed, Produced, Items, InQueue, InReply, Given, Backlog, Resets>>
      /\ (EndReplied' <=> EndReplied) /\ (Alive' <=> Alive)
  BY DEF Held, Generating, Failed, Produced, Items, Elements, InQueue, InReply, Given, EndReplied,
         Backlog, Alive, Resets
<1>2. TypeOK' /\ Places' /\ TaskSet' /\ Locking'
  BY <1>1 DEF IInv, TypeOK, RollouterTypeOK, MQ!TypeOK, Places, TaskSet, Locking
<1>3. Distinct' /\ Ending'
  BY <1>1 DEF IInv, Distinct, NoRepeat, Ending
<1>4. Phases' /\ PutsCounted'
  BY <1>1 DEF IInv, Phases, PutsCounted
<1>5. Staleness' /\ Window' /\ Overrun'
  BY <1>1 DEF IInv, Staleness, Window, RolloutNumBound, Overrun
<1>6. Conservation' /\ SentinelSurvives' /\ Finishing'
  BY <1>1 DEF IInv, Conservation, SentinelSurvives, Finishing
<1> QED
  BY <1>2, <1>3, <1>4, <1>5, <1>6 DEF IInv

LEMMA NextInvariant == IInv /\ [Next]_vars => IInv'
<1>1. CASE IInv /\ Next
  BY <1>1, TypeOKStep, PlacesStep, TaskSetStep, LockingStep, DistinctStep, EndingStep,
     PhasesStep, PutsCountedStep, StalenessStep, WindowStep, OverrunStep, ConservationStep,
     SentinelStep, FinishingStep DEF IInv
<1> QED
  BY <1>1, StutterInvariant

(* The invariant holds in every state the system reaches.                  *)
THEOREM Invariance == Spec => []IInv
<1> QED
  BY InitInvariant, NextInvariant, PTL DEF Spec

-----------------------------------------------------------------------------
(* Every variable keeps its type; in particular the queue never exceeds    *)
(* max_required_samples, and the trainer's batch never the batch size.     *)
THEOREM TypeCorrect == Spec => []TypeOK
<1>1. IInv => TypeOK
  BY DEF IInv
<1> QED
  BY <1>1, Invariance, PTL

(* The sizes of the parts of Outstanding add up to the backlog.            *)
LEMMA OutstandingBacklog ==
  ASSUME IInv
  PROVE  Cardinality(Outstanding) <= Backlog
<1>1. IsFiniteSet(Held) /\ IsFiniteSet(Generating) /\ IsFiniteSet(InQueue)
  BY SetFacts, SamplesFinite
<1>2. /\ IsFiniteSet(Held \cup Generating)
      /\ Cardinality(Held \cup Generating)
           = Cardinality(Held) + Cardinality(Generating) - Cardinality(Held \cap Generating)
  BY <1>1, FS_Union
<1>3. Cardinality((Held \cup Generating) \cup InQueue)
        = Cardinality(Held \cup Generating) + Cardinality(InQueue)
          - Cardinality((Held \cup Generating) \cap InQueue)
  BY <1>1, <1>2, FS_Union
<1>4. /\ Cardinality(Held \cap Generating) \in Nat
      /\ Cardinality((Held \cup Generating) \cap InQueue) \in Nat
      /\ Cardinality(Held) \in Nat /\ Cardinality(Generating) \in Nat
      /\ Cardinality(InQueue) \in Nat
  <2>1. Held \cap Generating \subseteq Samples /\ (Held \cup Generating) \cap InQueue \subseteq Samples
    BY SetFacts
  <2> QED
    BY <2>1, SamplesFinite, CountFacts
<1>5. Outstanding = (Held \cup Generating) \cup InQueue
  BY DEF Outstanding
<1> QED
  BY <1>2, <1>3, <1>4, <1>5 DEF Backlog

(* The count that pauses the rollouter is at most one short of the samples *)
(* popped and not yet handed to the trainer: nothing that runs between     *)
(* reset_staleness's two reads makes the sum it assigns miss more.         *)
THEOREM StalenessCorrect == Spec => []StalenessCovers
<1>1. ASSUME IInv PROVE StalenessCovers
  <2>1. Backlog <= staleness + 1
    BY <1>1 DEF IInv, Staleness
  <2>2. Cardinality(Outstanding) \in Nat
    <3>1. Outstanding \subseteq Samples
      BY <1>1, SetFacts DEF Outstanding
    <3> QED
      BY <3>1, SamplesFinite
  <2>3. Cardinality(Outstanding) <= Backlog
    BY <1>1, OutstandingBacklog
  <2>4. Backlog \in Nat /\ staleness \in Nat
    BY <1>1, CountFacts, VariableFacts
  <2> QED
    BY <2>1, <2>2, <2>3, <2>4 DEF StalenessCovers
<1> QED
  BY <1>1, Invariance, PTL

(* Between two weight updates the samples left over and those added are at *)
(* most one more than max_required_samples, the evicted ones aside.        *)
THEOREM RolloutNumCorrect == Spec => []RolloutNumBound
<1>1. IInv => RolloutNumBound
  BY DEF IInv, Window
<1> QED
  BY <1>1, Invariance, PTL

(* No sample is lost or used twice between the dataset and the trainer: all*)
(* are held, generated, failed, queued, replied, batched, trained on or    *)
(* evicted, and the counts add up.                                         *)
THEOREM ConservationCorrect == Spec => []Conservation
<1>1. IInv => Conservation
  BY DEF IInv
<1> QED
  BY <1>1, Invariance, PTL

(* put_sample evicts at most one sample for each weight update, and one    *)
(* more for the end signal.                                                *)
THEOREM DropsCorrect == Spec => []DropsBounded
<1>1. ASSUME IInv PROVE DropsBounded
  <2>1. droppedSamples <= Resets + (IF streamPc = "streaming" THEN 0 ELSE 1)
    BY <1>1 DEF IInv, Overrun
  <2> QED
    BY <1>1, <2>1, VariableFacts DEF DropsBounded, Resets
<1> QED
  BY <1>1, Invariance, PTL

(* The end signal, once put, stays in the queue or in the reply until the  *)
(* trainer has read it, even when a failed processor left tasks that put   *)
(* samples after it.                                                       *)
THEOREM SentinelCorrect == Spec => []SentinelSurvives
<1>1. IInv => SentinelSurvives
  BY DEF IInv
<1> QED
  BY <1>1, Invariance, PTL

(* When no task fails, nothing is put after the end signal, and when the   *)
(* trainer has read it every sample of the data set was trained on, was    *)
(* evicted, or is in the incomplete batch: fit strands none.               *)
THEOREM NothingStrandedCorrect == Spec => []NothingStranded
<1>1. ASSUME IInv, \A s \in Samples : task[s] # "failed"
      PROVE  /\ \A i \in 1 .. Len(queue) - 1 : queue[i] # EndSignal
             /\ terminated =>
                  TotalRolloutSteps = Cardinality(batch) + Cardinality(trained) + droppedSamples
  <2>1. Failed = {}
    BY <1>1 DEF Failed
  <2>2. procPc # "died"
    BY <1>1, <2>1 DEF IInv, TaskSet
  <2>3. terminated => procPc = "ended"
    BY <1>1, <2>2 DEF IInv, Ending, Alive
  <2> QED
    BY <1>1, <2>2, <2>3 DEF IInv, Ending, Finishing
<1>2. IInv => NothingStranded
  BY <1>1 DEF NothingStranded
<1> QED
  BY <1>2, Invariance, PTL

(* What the message queue promises, in the loop.                           *)
LEMMA QueueInit == Init => MQ!NoLostWakeup /\ MQ!StatisticsAgree
<1> SUFFICES ASSUME Init PROVE MQ!NoLostWakeup /\ MQ!StatisticsAgree
  OBVIOUS
<1>1. queue = <<>> /\ totalProduced = 0 /\ totalConsumed = 0 /\ droppedSamples = 0
      /\ consumer["trainer"] = "idle"
  BY DEF Init, RollouterInit, MQ!Init
<1>2. Len(<<>>) = 0
  OBVIOUS
<1> QED
  BY <1>1, <1>2 DEF MQ!NoLostWakeup, MQ!StatisticsAgree

LEMMA QueueStep ==
  IInv /\ IInv' /\ MQ!NoLostWakeup /\ MQ!StatisticsAgree /\ [Next]_vars
    => MQ!NoLostWakeup' /\ MQ!StatisticsAgree'
<1> SUFFICES ASSUME IInv, IInv', MQ!NoLostWakeup, MQ!StatisticsAgree, [Next]_vars
             PROVE  MQ!NoLostWakeup' /\ MQ!StatisticsAgree'
  OBVIOUS
<1>0. /\ queue \in Seq(Nat) /\ Len(queue) \in 0 .. MaxRequiredSamples
      /\ totalProduced \in Nat /\ totalConsumed \in Nat /\ droppedSamples \in Nat
      /\ totalConsumed + droppedSamples + Len(queue) <= totalProduced
      /\ consumer["trainer"] = "waiting" => queue = <<>>
      /\ mqRunning /\ mqRunning'
  BY VariableFacts DEF IInv, TypeOK, RollouterTypeOK, MQ!TypeOK, Phases, MQ!NoLostWakeup,
       MQ!StatisticsAgree
<1> SUFFICES /\ totalConsumed' + droppedSamples' + Len(queue') <= totalProduced'
             /\ consumer'["trainer"] = "waiting" => queue' = <<>>
  BY <1>0 DEF MQ!NoLostWakeup, MQ!StatisticsAgree
<1>1. CASE UNCHANGED <<queue, totalProduced, totalConsumed, droppedSamples>>
           /\ (consumer'["trainer"] = "waiting" => consumer["trainer"] = "waiting")
  BY <1>0, <1>1
<1>2. ASSUME NEW x \in Nat, x \notin Items, MQ!PutSample(x)
      PROVE  /\ totalConsumed' + droppedSamples' + Len(queue') <= totalProduced'
             /\ consumer'["trainer"] # "waiting"
  <2>1. totalProduced' = totalProduced + 1 /\ totalConsumed' = totalConsumed
        /\ consumer'["trainer"] # "waiting"
    BY <1>2, VariableFacts DEF MQ!PutSample, MQ!NotifyAll
  <2>2. \/ Len(queue') = Len(queue) /\ droppedSamples' = droppedSamples + 1
        \/ Len(queue') = Len(queue) + 1 /\ droppedSamples' = droppedSamples
    <3>1. TypeOK /\ NoRepeat(queue)
      BY VariableFacts DEF IInv
    <3> QED
      BY <1>2, <3>1, PutEffect
  <2> QED
    BY <1>0, <2>1, <2>2
<1>3. CASE \E s \in Samples : Task(s)
  <2>1. PICK s \in Samples : Task(s)
    BY <1>3
  <2>2. CASE TaskPut(s)
    BY <1>2, <2>2, PutEffectSample
  <2>3. CASE ~TaskPut(s)
    BY <1>1, <2>1, <2>3 DEF Task, TaskGenerate, TaskFail, TaskDone, mqVars
  <2> QED
    BY <2>2, <2>3
<1>4. CASE Stream
  <2>1. CASE StreamPutEnd
    BY <1>2, <2>1, PutEffectEnd
  <2>2. CASE ~StreamPutEnd
    BY <1>1, <1>4, <2>2 DEF Stream, StreamStop, FitReturn, mqVars
  <2> QED
    BY <2>1, <2>2
<1>5. CASE Processor \/ Resetter \/ Monitor
  BY <1>1, <1>5, Frames
<1>6. CASE QueueGet
  <2>1. CASE MQ!GetTake("trainer")
    <3>1. Len(queue') = Len(queue) - 1 /\ consumer'["trainer"] = "replied"
      BY <2>1, TakeEffect
    <3>2. totalConsumed' = totalConsumed + 1 /\ UNCHANGED <<totalProduced, droppedSamples>>
      BY <2>1 DEF MQ!GetTake
    <3> QED
      BY <1>0, <3>1, <3>2
  <2>2. CASE ~MQ!GetTake("trainer")
    BY <1>0, <1>6, <2>2, QueueGetCases, Frames
  <2> QED
    BY <2>1, <2>2
<1>7. CASE Trainer
  <2>1. consumer'["trainer"] = "waiting" => consumer["trainer"] = "waiting"
    BY <1>7, VariableFacts
       DEF Trainer, TrainerCall, TrainerReceive, TrainerTrain, SyncAbort, SyncResume,
           TrainerReset, TrainerStop, MQ!CallGetSample, MQ!ReceiveReply, rollouterVars, mqVars
  <2> QED
    BY <1>1, <1>7, <2>1, Frames
<1>8. CASE MainEnd
  <2>1. queue' = <<>> /\ UNCHANGED <<totalProduced, totalConsumed, droppedSamples>>
    BY <1>8 DEF MainEnd, MQ!ClearQueue, MQ!counters
  <2>2. Len(<<>>) = 0
    OBVIOUS
  <2> QED
    BY <1>0, <2>1, <2>2
<1>9. CASE UNCHANGED vars
  BY <1>1, <1>9 DEF vars, rollouterVars, mqVars
<1> QED
  BY <1>3, <1>4, <1>5, <1>6, <1>7, <1>8, <1>9, Parts

(* The queue's own promises hold in the loop: get_sample never sleeps over *)
(* a sample it could return, and the actor's statistics agree, whatever    *)
(* put_sample evicts and whoever calls.                                    *)
THEOREM QueueCorrect == Spec => [](MQ!NoLostWakeup /\ MQ!StatisticsAgree)
<1> DEFINE QueueInv == MQ!NoLostWakeup /\ MQ!StatisticsAgree
<1>1. Init => QueueInv
  BY QueueInit
<1>2. IInv /\ IInv' /\ QueueInv /\ [Next]_vars => QueueInv'
  BY QueueStep
<1>3. Spec => []IInv
  BY Invariance
<1> QED
  BY <1>1, <1>2, <1>3, PTL DEF Spec

=============================================================================
