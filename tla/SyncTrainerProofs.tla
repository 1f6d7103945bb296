--------------------------- MODULE SyncTrainerProofs ---------------------------
(***************************************************************************)
(* For any batches, sessions, frequencies, numbers of jobs and limits on   *)
(* the checkpoints but one: fit works its replay buffer and its            *)
(* checkpoints as their modules say, so what is proved of them holds of    *)
(* it, and a job that resumes trains on as if no job had been killed.      *)
(*                                                                         *)
(* What makes the second inductive is what a save holds: the batches up to *)
(* its step, the critic trained on all of them and the actor on those      *)
(* behind the warm-up (Whole).  It holds of the save under way and of the  *)
(* one the tracker names, and a job resumes from the latter.               *)
(***************************************************************************)
EXTENDS SyncTrainer, SyncPartsProofs

Batches == Nat \X Nat

(* What the theorems ask of the constants; MCSyncTrainer gives them such.  *)
Scale ==
  /\ KeepsMore
  /\ Values = Seq(Batches)
  /\ Ranks # {}
  /\ MaxJobs \in Nat \ {0}

FitTypes ==
  /\ pc \in {"load", "publish", "validate", "valWait", "valRead", "valRemove",
             "generate", "wait", "balance", "train", "save", "clear", "remove", "done", "dead"}
  /\ globalSteps \in 0..TotalSteps + 1
  /\ inLoop \in BOOLEAN
  /\ valDone \in 0..ValBatches
  /\ weights \in [Roles -> Values]
  /\ served \in Values /\ delivered \in Values
  /\ job \in 1..MaxJobs

(* Where the trainer holds a batch, and how far it is.                     *)
Places ==
  /\ pc = "load" => ~inLoop
  /\ pc \in {"generate", "wait", "balance", "train", "save", "clear", "remove", "done"} => inLoop
  /\ batch["train"] # NoBatch => inLoop /\ pc \notin {"generate", "wait"}
  /\ batch["val"] # NoBatch => pc \in {"valRead", "valRemove", "dead"}
  /\ inLoop => globalSteps >= 1
  /\ pc \in {"valWait", "valRead", "valRemove"} => valDone < ValBatches
  /\ Len(delivered) <= TotalSteps

FirstActorStep == IF CriticWarmup = 0 THEN 1 ELSE CriticWarmup

(* The content of a checkpoint of step n.                                  *)
Whole(content, n) ==
  /\ Len(content["data"]) = n
  /\ \A i \in 1..n : content["data"][i][2] = i
  /\ UseCritic => content["critic"] = content["data"]
  /\ content["actor"] = SubSeq(content["data"], FirstActorStep, n)

SavesWhole ==
  /\ save # Idle => Whole(save.value, save.step)
  /\ tracker[1] = "step" => Whole(committed, tracker[2])

SyncInv ==
  FitTypes /\ Places /\ BufferInv /\ StoreInv /\ SavesWhole /\ LineageIntact

-----------------------------------------------------------------------------
(* Sequences.                                                              *)
LEMMA Shorter ==
  ASSUME NEW S, NEW d \in Seq(S), NEW n \in 0..Len(d), NEW m \in Nat \ {0}
  PROVE  /\ SubSeq(d, 1, n) \in Seq(S) /\ Len(SubSeq(d, 1, n)) = n
         /\ SubSeq(d, m, n) \in Seq(S)
         /\ SubSeq(SubSeq(d, 1, n), m, n) = SubSeq(d, m, n)
<1> DEFINE e == SubSeq(d, 1, n)
<1>1. \A i \in 1..n : d[i] \in S
  BY ElementOfSeq
<1>2. e \in Seq(S) /\ Len(e) = n /\ \A i \in 1..n : e[i] = d[i]
  <2>1. \A i \in 1..n-1+1 : e[i] = d[1+i-1]
    BY <1>1, SubSeqProperties
  <2>2. e \in Seq(S) /\ Len(e) = (IF 1 <= n THEN n-1+1 ELSE 0)
    BY <1>1, SubSeqProperties
  <2> QED
    BY <2>1, <2>2
<1> HIDE DEF e
<1>3. \A i \in m..n : i \in 1..n /\ d[i] \in S /\ e[i] \in S /\ e[i] = d[i]
  BY <1>1, <1>2
<1>4. /\ SubSeq(d, m, n) \in Seq(S)
      /\ Len(SubSeq(d, m, n)) = IF m <= n THEN n-m+1 ELSE 0
      /\ \A i \in 1..n-m+1 : SubSeq(d, m, n)[i] = d[m+i-1]
  BY <1>3, SubSeqProperties
<1>5. /\ SubSeq(e, m, n) \in Seq(S)
      /\ Len(SubSeq(e, m, n)) = IF m <= n THEN n-m+1 ELSE 0
      /\ \A i \in 1..n-m+1 : SubSeq(e, m, n)[i] = e[m+i-1]
  BY <1>3, SubSeqProperties
<1>6. \A i \in 1..n-m+1 : m+i-1 \in m..n
  OBVIOUS
<1>7. \A i \in 1..Len(SubSeq(d, m, n)) : SubSeq(e, m, n)[i] = SubSeq(d, m, n)[i]
  BY <1>3, <1>4, <1>5, <1>6
<1>8. SubSeq(e, m, n) = SubSeq(d, m, n)
  BY <1>4, <1>5, <1>7, SeqEqual
<1> QED
  BY <1>2, <1>4, <1>8 DEF e

LEMMA Extended ==
  ASSUME NEW S, NEW d \in Seq(S), NEW m \in 1..Len(d)
  PROVE  Append(SubSeq(d, m, Len(d) - 1), d[Len(d)]) = SubSeq(d, m, Len(d))
<1>1. SubSeq(d, m, Len(d)) = SubSeq(d, m, Len(d) - 1) \o <<d[Len(d)]>>
  BY SubSeqRecursiveSecond
<1>2. SubSeq(d, m, Len(d) - 1) \in Seq(S) /\ d[Len(d)] \in S
  BY Shorter, ElementOfSeq
<1> QED
  BY <1>1, <1>2, AppendIsConcat

-----------------------------------------------------------------------------
(* The trainer works its buffer as ReplayBuffer says.                      *)
LEMMA StepOfBuffer ==
  ASSUME SyncInv, [Next]_vars
  PROVE  [BufferNext]_bufferVars
<1> USE DEF Hand
<1>1. {"train", "val"} = Partitions /\ globalSteps \in Nat
  BY DEF Partitions, SyncInv, FitTypes
<1>2. ValN \in Seq(Nat) /\ TrainN \in Seq(Nat)
  BY TrainerAssumption
<1>3. CASE Workers
  BY <1>3 DEF Workers, Beside, BufferNext
<1>4. CASE Restart
  BY <1>4 DEF Restart, BufferNext
<1>5. CASE ValGenerate
  <2>1. batch["val"] = NoBatch
    BY <1>5 DEF ValGenerate, SyncInv, Places
  <2> QED
    BY <1>1, <1>2, <1>5, <2>1 DEF ValGenerate, BufferNext
<1>6. CASE TrainGenerate
  <2>1. batch["train"] = NoBatch
    BY <1>6 DEF TrainGenerate, SyncInv, Places
  <2> QED
    BY <1>1, <1>2, <1>6, <2>1 DEF TrainGenerate, BufferNext
<1>7. CASE ValSample \/ TrainSample
  BY <1>1, <1>7 DEF ValSample, TrainSample, BufferNext
<1>8. CASE ValRead \/ Clear
  BY <1>1, <1>8 DEF ValRead, Clear, BufferNext
<1>9. CASE ValRemove \/ EndStep
  BY <1>1, <1>9 DEF ValRemove, EndStep, BufferNext
<1>10. CASE BalanceBatch
  <2>1. CASE UNCHANGED bufferVars
    BY <2>1
  <2>2. CASE \E n \in 1..BatchMultiple - 1 : Pad("train", n)
    <3>1. \E n \in Nat : Pad("train", n)
      BY <2>2
    <3> QED
      BY <1>1, <3>1 DEF BufferNext
  <2> QED
    BY <1>10, <2>1, <2>2 DEF BalanceBatch
<1>11. CASE Load \/ Publish \/ ValEnd \/ EpochOver \/ Train \/ SaveCheckpoint \/ Saved
  BY <1>11 DEF Load, Publish, ValEnd, EpochOver, Train, SaveCheckpoint, Saved
<1>12. CASE LoadFails \/ ValReadFails \/ BalanceFails
  BY <1>12 DEF LoadFails, ValReadFails, BalanceFails, Die
<1>13. CASE UNCHANGED vars
  BY <1>13 DEF vars
<1> QED
  BY <1>3, <1>4, <1>5, <1>6, <1>7, <1>8, <1>9, <1>10, <1>11, <1>12, <1>13 DEF Next, Fit

(* The trainer works its checkpoints as CheckpointStore says.              *)
LEMMA StepOfStore ==
  ASSUME SyncInv, [Next]_vars
  PROVE  [StoreNext]_storeVars
<1>1. CASE Load
  BY <1>1 DEF Load, StoreNext
<1>2. CASE Restart
  BY <1>2 DEF Restart, StoreNext
<1>3. CASE SaveCheckpoint
  <2> DEFINE value == [part \in Parts |-> IF part = "data" THEN delivered ELSE weights[part]]
  <2>1. value \in Content
    <3>1. \A part \in Parts : part # "data" => part \in Roles
      BY DEF Parts
    <3> QED
      BY <3>1 DEF Content, SyncInv, FitTypes
  <2>2. CASE BeginSave(globalSteps, value)
    <3>1. globalSteps \in Steps
      BY <2>2 DEF BeginSave
    <3> QED
      BY <2>1, <2>2, <3>1 DEF StoreNext
  <2>3. CASE SaveProgress
    BY <2>3 DEF StoreNext
  <2> QED
    BY <1>3, <2>2, <2>3 DEF SaveCheckpoint
<1>4. CASE Workers
  BY <1>4 DEF Workers, Beside
<1>5. CASE Publish \/ ValGenerate \/ ValSample \/ ValRead \/ ValRemove \/ ValEnd
  BY <1>5 DEF Publish, ValGenerate, ValSample, ValRead, ValRemove, ValEnd
<1>6. CASE TrainGenerate \/ EpochOver \/ TrainSample \/ BalanceBatch \/ Train \/ Saved \/ Clear \/ EndStep
  BY <1>6 DEF TrainGenerate, EpochOver, TrainSample, BalanceBatch, Train, Saved, Clear, EndStep
<1>7. CASE LoadFails \/ ValReadFails \/ BalanceFails
  BY <1>7 DEF LoadFails, ValReadFails, BalanceFails, Die
<1>8. CASE UNCHANGED vars
  BY <1>8 DEF vars
<1> QED
  BY <1>1, <1>2, <1>3, <1>4, <1>5, <1>6, <1>7, <1>8 DEF Next, Fit

-----------------------------------------------------------------------------
(* Types and places.                                                       *)
LEMMA ValuesFacts ==
  ASSUME Scale
  PROVE  /\ <<>> \in Values
         /\ \A v \in Values, b \in Batches :
              /\ Append(v, b) \in Values /\ Len(v) \in Nat /\ Len(Append(v, b)) = Len(v) + 1
<1>1. <<>> \in Seq(Batches)
  BY EmptySeq
<1>2. \A v \in Seq(Batches), b \in Batches :
        Append(v, b) \in Seq(Batches) /\ Len(v) \in Nat /\ Len(Append(v, b)) = Len(v) + 1
  BY AppendProperties, LenProperties
<1> QED
  BY <1>1, <1>2 DEF Scale

LEMMA LineageSteps ==
  ASSUME LineageIntact, pc \notin {"load", "dead"}
  PROVE  Len(delivered) = globalSteps - (IF inLoop /\ pc \in {"generate", "done"} THEN 1 ELSE 0)
BY DEF LineageIntact

(* What a job resumes with was written by one save.                        *)
LEMMA LoadedWhole ==
  ASSUME Scale, SyncInv, Load
  PROVE  \/ /\ globalSteps' = 0 /\ delivered' = <<>> /\ weights' = [r \in Roles |-> <<>>]
            /\ ResumeStep = 0
         \/ /\ tracker[1] = "step" /\ globalSteps' = tracker[2] /\ tracker[2] \in Steps
            /\ committed \in Content /\ Whole(committed, tracker[2])
            /\ delivered' = committed["data"]
            /\ weights' = [r \in Roles |-> committed[r]]
<1> DEFINE n == ResumeStep
<1>1. /\ globalSteps' = n
      /\ weights' = IF n = 0 THEN Untrained
                    ELSE [r \in Roles |-> shard[<<r, n, CHOOSE k \in Ranks : TRUE>>]]
      /\ delivered' = IF n = 0 \/ loaderFile[n] = NoValue THEN <<>> ELSE loaderFile[n]
  BY DEF Load
<1>2. CASE tracker[1] = "step"
  <2>1. n = tracker[2] /\ n \in Steps /\ n # 0
    BY <1>2, StoreAssumption DEF ResumeStep, SyncInv, StoreInv, StoreTypeOK, Tracked
  <2>2. committed # NoValue /\ committed \in Content
    BY <1>2 DEF SyncInv, StoreInv, StoreTypeOK, TrackedComplete
  <2>3. loaderFile[n] = committed["data"] /\ committed["data"] \in Values
    BY <1>2, <2>1, <2>2, PartsFacts DEF SyncInv, StoreInv, TrackedComplete, Content
  <2>4. delivered' = committed["data"]
    BY <1>1, <2>1, <2>3, StoreAssumption
  <2>5. \A r \in Roles : shard[<<r, n, CHOOSE k \in Ranks : TRUE>>] = committed[r]
    BY <1>2, <2>1 DEF SyncInv, StoreInv, TrackedComplete, Scale
  <2>6. weights' = [r \in Roles |-> committed[r]]
    BY <1>1, <2>1, <2>5
  <2> QED
    BY <1>1, <1>2, <2>1, <2>2, <2>4, <2>6 DEF SyncInv, SavesWhole
<1>3. CASE tracker[1] # "step"
  BY <1>1, <1>3 DEF ResumeStep, Untrained
<1> QED
  BY <1>2, <1>3

LEMMA TypesStep ==
  ASSUME Scale, SyncInv, [Next]_vars
  PROVE  FitTypes'
<1>1. TotalSteps \in Nat \ {0} /\ ValBatches \in Nat /\ Steps = 1..TotalSteps /\ MaxJobs \in Nat \ {0}
  BY TrainerAssumption DEF Scale
<1>2. FitTypes
  BY DEF SyncInv
<1>3. Len(delivered) \in Nat /\ Len(delivered) <= TotalSteps
  BY ValuesFacts, <1>2 DEF FitTypes, SyncInv, Places, Scale, Batches
<1>4. ~inLoop /\ pc \notin {"load", "dead"} => globalSteps <= TotalSteps
  BY <1>2, <1>3, LineageSteps DEF SyncInv, FitTypes
<1>5. CASE Load
  <2>1. <<>> \in Values /\ [r \in Roles |-> <<>>] \in [Roles -> Values]
    BY ValuesFacts
  <2>2. weights' \in [Roles -> Values] /\ delivered' \in Values /\ globalSteps' \in 0..TotalSteps + 1
    BY <1>1, <1>5, <2>1, LoadedWhole, PartsFacts DEF Content
  <2> QED
    BY <1>2, <1>5, <2>2 DEF Load, FitTypes
<1>6. CASE LoadFails \/ ValReadFails \/ BalanceFails
  BY <1>2, <1>6 DEF LoadFails, ValReadFails, BalanceFails, Die, FitTypes
<1>7. ASSUME PastValidation, pc \notin {"load", "dead"}
      PROVE  /\ pc' \in {"generate", "clear"} /\ globalSteps' \in 0..TotalSteps + 1
             /\ inLoop' \in BOOLEAN
  <2>1. CASE inLoop
    BY <1>2, <1>7, <2>1 DEF PastValidation, FitTypes
  <2>2. CASE ~inLoop
    <3>1. globalSteps' = globalSteps + 1 /\ pc' = "generate" /\ inLoop' = TRUE
      BY <1>7, <2>2 DEF PastValidation
    <3>2. globalSteps \in Nat /\ globalSteps <= TotalSteps
      BY <1>2, <1>4, <1>7, <2>2 DEF FitTypes
    <3> QED
      BY <1>1, <3>1, <3>2
  <2> QED
    BY <2>1, <2>2
<1>8. CASE Publish
  <2>1. weights["actor"] \in Values
    BY <1>2, PartsFacts DEF FitTypes
  <2>2. CASE pc' = "validate" /\ UNCHANGED <<globalSteps, inLoop>>
    BY <1>2, <1>8, <2>1, <2>2 DEF Publish, FitTypes
  <2>3. CASE PastValidation
    BY <1>2, <1>7, <1>8, <2>1, <2>3 DEF Publish, FitTypes
  <2> QED
    BY <1>8, <2>2, <2>3 DEF Publish
<1>9. CASE ValEnd
  BY <1>1, <1>2, <1>7, <1>9 DEF ValEnd, FitTypes
<1>10. CASE ValGenerate \/ ValSample \/ ValRead
  BY <1>2, <1>10 DEF ValGenerate, ValSample, ValRead, FitTypes
<1>11. CASE ValRemove
  BY <1>1, <1>2, <1>11 DEF ValRemove, FitTypes, SyncInv, Places
<1>12. CASE TrainGenerate
  <2>1. <<job, Len(delivered) + 1>> \in Batches
    BY <1>1, <1>2, <1>3 DEF FitTypes, Batches
  <2>2. delivered' \in Values
    BY <1>2, <1>12, <2>1, ValuesFacts DEF TrainGenerate, FitTypes
  <2> QED
    BY <1>2, <1>12, <2>2 DEF TrainGenerate, FitTypes
<1>13. CASE EpochOver \/ TrainSample \/ BalanceBatch \/ Saved \/ Clear
  BY <1>2, <1>13 DEF EpochOver, TrainSample, BalanceBatch, Saved, Clear, FitTypes
<1>14. CASE Train
  <2>1. Len(delivered) \in 1..Len(delivered)
    <3>1. Len(delivered) = globalSteps /\ globalSteps >= 1
      BY <1>2, <1>14, LineageSteps DEF Train, SyncInv, Places, FitTypes
    <3> QED
      BY <1>3, <3>1
  <2>2. delivered[Len(delivered)] \in Batches
    BY <1>2, <2>1, ElementOfSeq DEF FitTypes, Scale
  <2>3. weights' \in [Roles -> Values]
    BY <1>2, <1>14, <2>2, ValuesFacts DEF Train, FitTypes
  <2>4. pc' \in {"save", "publish"}
    BY <1>14 DEF Train
  <2> QED
    BY <1>2, <1>14, <2>3, <2>4 DEF Train, FitTypes
<1>15. CASE SaveCheckpoint \/ Workers
  BY <1>2, <1>15 DEF SaveCheckpoint, Workers, Beside, fitVars, FitTypes
<1>16. CASE EndStep
  <2>1. globalSteps <= TotalSteps
    BY <1>2, <1>3, <1>16, LineageSteps DEF EndStep, SyncInv, FitTypes
  <2>2. pc' \in {"done", "generate"} /\ globalSteps' \in 0..TotalSteps + 1
    BY <1>1, <1>2, <1>16, <2>1 DEF EndStep, FitTypes
  <2> QED
    BY <1>2, <1>16, <2>2 DEF EndStep, FitTypes
<1>17. CASE Restart
  <2>1. job' \in 1..MaxJobs
    BY <1>1, <1>2, <1>17 DEF Restart, FitTypes
  <2>2. Untrained \in [Roles -> Values] /\ <<>> \in Values
    BY ValuesFacts DEF Untrained
  <2>3. 0 \in 0..TotalSteps + 1 /\ 0 \in 0..ValBatches
    BY <1>1
  <2>4. /\ pc' = "load" /\ globalSteps' = 0 /\ inLoop' = FALSE /\ valDone' = 0
        /\ weights' = Untrained /\ served' = <<>> /\ delivered' = <<>>
    BY <1>17 DEF Restart
  <2> QED
    BY <2>1, <2>2, <2>3, <2>4 DEF FitTypes
<1>18. CASE UNCHANGED vars
  BY <1>2, <1>18 DEF vars, fitVars, FitTypes
<1> QED
  BY <1>5, <1>6, <1>8, <1>9, <1>10, <1>11, <1>12, <1>13, <1>14, <1>15, <1>16, <1>17, <1>18
  DEF Next, Fit

LEMMA PlacesStep ==
  ASSUME Scale, SyncInv, [Next]_vars
  PROVE  Places'
<1>1. FitTypes /\ Places /\ DOMAIN batch = Partitions
  BY DEF SyncInv, BufferInv, BufferTypeOK
<1>2. {"train", "val"} = Partitions /\ TotalSteps \in Nat \ {0} /\ globalSteps \in Nat
  BY <1>1, TrainerAssumption DEF Partitions, FitTypes
<1>3. CASE Load
  <2>1. pc = "load" /\ pc' = "publish" /\ UNCHANGED <<inLoop, valDone, batch>>
    BY <1>3 DEF Load, bufferVars
  <2>2. Len(delivered') <= TotalSteps
    BY <1>2, <1>3, LoadedWhole, TrainerAssumption DEF Whole
  <2> QED
    BY <1>1, <2>1, <2>2 DEF Places
<1>4. CASE LoadFails \/ ValReadFails \/ BalanceFails
  <2>1. pc' = "dead" /\ UNCHANGED <<globalSteps, inLoop, valDone, delivered, batch>>
    BY <1>4 DEF LoadFails, ValReadFails, BalanceFails, Die, bufferVars
  <2>2. pc \in {"valRead", "balance", "load"}
    BY <1>4 DEF LoadFails, ValReadFails, BalanceFails
  <2> QED
    BY <1>1, <2>1, <2>2 DEF Places
<1>5. CASE Publish
  <2>1. pc = "publish" /\ UNCHANGED <<valDone, delivered, batch>>
    BY <1>5 DEF Publish, bufferVars
  <2>2. CASE pc' = "validate" /\ UNCHANGED <<globalSteps, inLoop>>
    BY <1>1, <2>1, <2>2 DEF Places
  <2>3. CASE PastValidation
    BY <1>1, <1>2, <2>1, <2>3 DEF Places, PastValidation
  <2> QED
    BY <1>5, <2>2, <2>3 DEF Publish
<1>6. CASE ValEnd
  <2>1. pc = "validate" /\ PastValidation /\ valDone' = 0 /\ UNCHANGED <<delivered, batch>>
    BY <1>6 DEF ValEnd, bufferVars
  <2> QED
    BY <1>1, <1>2, <2>1 DEF Places, PastValidation
<1>7. CASE ValGenerate
  <2>1. /\ pc = "validate" /\ valDone < ValBatches /\ pc' = "valWait"
        /\ UNCHANGED <<globalSteps, inLoop, valDone, delivered, batch>>
    BY <1>7 DEF ValGenerate, Generate
  <2> QED
    BY <1>1, <2>1 DEF Places
<1>8. CASE ValSample
  <2>1. /\ pc = "valWait" /\ pc' = "valRead" /\ batch'["train"] = batch["train"]
        /\ UNCHANGED <<globalSteps, inLoop, valDone, delivered>>
    BY <1>1, <1>2, <1>8 DEF ValSample, Sample
  <2> QED
    BY <1>1, <2>1 DEF Places
<1>9. CASE ValRead
  <2>1. /\ pc = "valRead" /\ pc' = "valRemove"
        /\ UNCHANGED <<globalSteps, inLoop, valDone, delivered, batch>>
    BY <1>9 DEF ValRead, ClearQueue
  <2> QED
    BY <1>1, <2>1 DEF Places
<1>10. CASE ValRemove
  <2>1. /\ pc = "valRemove" /\ pc' = "validate"
        /\ batch'["val"] = NoBatch /\ batch'["train"] = batch["train"]
        /\ UNCHANGED <<globalSteps, inLoop, delivered>>
    BY <1>1, <1>2, <1>10 DEF ValRemove, Remove
  <2> QED
    BY <1>1, <2>1 DEF Places
<1>11. CASE TrainGenerate
  <2>1. /\ pc = "generate" /\ pc' = "wait" /\ ~Exhausted
        /\ delivered' = Append(delivered, <<job, Len(delivered) + 1>>)
        /\ UNCHANGED <<globalSteps, inLoop, valDone, batch>>
    BY <1>11 DEF TrainGenerate, Generate
  <2>2. Len(delivered') <= TotalSteps
    <3>1. Len(delivered) \in Nat /\ job \in Nat
      BY <1>1, ValuesFacts DEF FitTypes, Batches, Scale
    <3>2. Len(delivered') = Len(delivered) + 1
      BY <1>1, <2>1, <3>1, ValuesFacts DEF FitTypes, Batches
    <3> QED
      BY <1>2, <2>1, <3>1, <3>2 DEF Exhausted
  <2> QED
    BY <1>1, <2>1, <2>2 DEF Places
<1>12. CASE EpochOver
  <2>1. /\ pc = "generate" /\ pc' = "done"
        /\ UNCHANGED <<globalSteps, inLoop, valDone, delivered, batch>>
    BY <1>12 DEF EpochOver, bufferVars
  <2> QED
    BY <1>1, <2>1 DEF Places
<1>13. CASE TrainSample
  <2>1. /\ pc = "wait" /\ pc' = "balance" /\ batch'["val"] = batch["val"]
        /\ UNCHANGED <<globalSteps, inLoop, valDone, delivered>>
    BY <1>1, <1>2, <1>13 DEF TrainSample, Sample
  <2> QED
    BY <1>1, <2>1 DEF Places
<1>14. CASE BalanceBatch
  <2>1. /\ pc = "balance" /\ pc' = "train" /\ batch'["val"] = batch["val"]
        /\ UNCHANGED <<globalSteps, inLoop, valDone, delivered>>
    <3>1. CASE UNCHANGED bufferVars
      BY <1>14, <3>1 DEF BalanceBatch, bufferVars
    <3>2. CASE \E n \in 1..BatchMultiple - 1 : Pad("train", n)
      BY <1>1, <1>2, <1>14, <3>2 DEF BalanceBatch, Pad
    <3> QED
      BY <1>14, <3>1, <3>2 DEF BalanceBatch
  <2> QED
    BY <1>1, <2>1 DEF Places
<1>15. CASE Train \/ Saved \/ SaveCheckpoint \/ Clear
  <2>1. /\ pc \in {"train", "save", "clear"} /\ pc' \in {"save", "publish", "remove"}
        /\ UNCHANGED <<globalSteps, inLoop, valDone, delivered, batch>>
    BY <1>15 DEF Train, Saved, SaveCheckpoint, Clear, ClearQueue, fitVars, bufferVars
  <2> QED
    BY <1>1, <2>1 DEF Places
<1>16. CASE EndStep
  <2>1. /\ pc = "remove" /\ pc' \in {"done", "generate"} /\ globalSteps' = globalSteps + 1
        /\ batch'["train"] = NoBatch /\ batch'["val"] = batch["val"]
        /\ UNCHANGED <<inLoop, valDone, delivered>>
    BY <1>1, <1>2, <1>16 DEF EndStep, Remove
  <2> QED
    BY <1>1, <1>2, <2>1 DEF Places
<1>17. CASE Workers
  <2>1. UNCHANGED fitVars /\ (Poll \/ SessionEnds \/ PromptEnds)
    BY <1>17 DEF Workers, Beside
  <2>2. batch' = batch
    BY <2>1 DEF Poll, PollList, PollAdd, SessionEnds, SessionStores, SessionStoresNothing,
                PromptEnds, PromptFinishes, PromptFails, EndPrompt
  <2> QED
    BY <1>1, <2>1, <2>2 DEF Places, fitVars
<1>18. CASE Restart
  <2>1. /\ pc' = "load" /\ globalSteps' = 0 /\ inLoop' = FALSE /\ valDone' = 0
        /\ delivered' = <<>> /\ batch'["train"] = NoBatch /\ batch'["val"] = NoBatch
    BY <1>2, <1>18 DEF Restart, ResetBuffer
  <2> QED
    BY <1>2, <2>1 DEF Places
<1>19. CASE UNCHANGED vars
  BY <1>1, <1>19 DEF vars, fitVars, bufferVars, Places
<1> QED
  BY <1>3, <1>4, <1>5, <1>6, <1>7, <1>8, <1>9, <1>10, <1>11, <1>12, <1>13, <1>14, <1>15,
     <1>16, <1>17, <1>18, <1>19 DEF Next, Fit

-----------------------------------------------------------------------------
(* LineageIntact with the batches trained on counted instead of cut off.   *)
UnderWay == IF pc \in {"wait", "balance", "train"} THEN 1 ELSE 0
Trained == Len(delivered) - UnderWay

Lineage ==
  pc \notin {"load", "dead"} =>
    /\ \A i \in 1..Len(delivered) : delivered[i][2] = i
    /\ Len(delivered) = globalSteps - (IF inLoop /\ pc \in {"generate", "done"} THEN 1 ELSE 0)
    /\ UseCritic => weights["critic"] = SubSeq(delivered, 1, Trained)
    /\ weights["actor"] = SubSeq(delivered, FirstActorStep, Trained)
    /\ pc \notin {"publish", "save"} => served = weights["actor"]

LEMMA FirstStep == FirstActorStep \in Nat \ {0}
BY TrainerAssumption DEF FirstActorStep

LEMMA Cut ==
  ASSUME Scale, NEW d \in Values, NEW n \in 0..Len(d)
  PROVE  /\ Len(SubSeq(d, 1, n)) = n
         /\ SubSeq(SubSeq(d, 1, n), FirstActorStep, Len(SubSeq(d, 1, n))) = SubSeq(d, FirstActorStep, n)
<1>1. d \in Seq(Batches)
  BY DEF Scale
<1> QED
  BY <1>1, FirstStep, Shorter

LEMMA LineageUnfolded ==
  ASSUME Scale, FitTypes, Places, LineageIntact
  PROVE  Lineage
<1> SUFFICES ASSUME pc \notin {"load", "dead"} PROVE Lineage
  BY DEF Lineage
<1> DEFINE trained == SubSeq(delivered, 1, Trained)
<1>1. /\ \A i \in 1..Len(delivered) : delivered[i][2] = i
      /\ Len(delivered) = globalSteps - (IF inLoop /\ pc \in {"generate", "done"} THEN 1 ELSE 0)
      /\ UseCritic => weights["critic"] = trained
      /\ weights["actor"] = SubSeq(trained, FirstActorStep, Len(trained))
      /\ pc \notin {"publish", "save"} => served = weights["actor"]
  BY DEF LineageIntact, Trained, UnderWay, FirstActorStep
<1>2. Trained \in 0..Len(delivered)
  <2>1. Len(delivered) \in Nat
    BY ValuesFacts DEF FitTypes, Scale, Batches
  <2>2. pc \in {"wait", "balance", "train"} => Len(delivered) >= 1
    BY <1>1 DEF Places, FitTypes
  <2> QED
    BY <2>1, <2>2 DEF Trained, UnderWay
<1>3. SubSeq(trained, FirstActorStep, Len(trained)) = SubSeq(delivered, FirstActorStep, Trained)
  BY <1>2, Cut DEF FitTypes
<1> QED
  BY <1>1, <1>3 DEF Lineage

(* A run of steps that starts at step 0 and has reached step 1 is not
   empty: the arithmetic of LineageFolded's last case.                       *)
LEMMA NoneAhead ==
  ASSUME NEW length, NEW step \in Nat, length = step - 0, step >= 1
  PROVE  length >= 1
OBVIOUS

LEMMA LineageFolded ==
  ASSUME Scale, FitTypes', Places', Lineage'
  PROVE  LineageIntact'
<1> SUFFICES ASSUME pc' \notin {"load", "dead"} PROVE LineageIntact'
  BY DEF LineageIntact
<1> DEFINE trained == SubSeq(delivered', 1, Trained')
<1>1. /\ \A i \in 1..Len(delivered') : delivered'[i][2] = i
      /\ Len(delivered') = globalSteps' - (IF inLoop' /\ pc' \in {"generate", "done"} THEN 1 ELSE 0)
      /\ UseCritic => weights'["critic"] = trained
      /\ weights'["actor"] = SubSeq(delivered', FirstActorStep, Trained')
      /\ pc' \notin {"publish", "save"} => served' = weights'["actor"]
  BY DEF Lineage
<1>2. Trained' \in 0..Len(delivered')
  <2>1. Len(delivered') \in Nat
    BY ValuesFacts DEF FitTypes, Scale, Batches
  <2>2. pc' \in {"wait", "balance", "train"} => Len(delivered') >= 1
    <3> SUFFICES ASSUME pc' \in {"wait", "balance", "train"} PROVE Len(delivered') >= 1
      OBVIOUS
    <3>1. Len(delivered') = globalSteps' - (IF inLoop' /\ pc' \in {"generate", "done"} THEN 1 ELSE 0)
      BY <1>1
    <3>2. Len(delivered') = globalSteps' - 0
      BY <3>1
    <3>3. inLoop'
      BY Zenon DEF Places
    <3>4. globalSteps' >= 1
      BY <3>3, Zenon DEF Places
    <3>5. globalSteps' \in Nat
      BY DEF FitTypes
    <3> QED
      BY <3>2, <3>4, <3>5, NoneAhead, Zenon
  <2> QED
    BY <2>1, <2>2 DEF Trained, UnderWay
<1>3. SubSeq(trained, FirstActorStep, Len(trained)) = SubSeq(delivered', FirstActorStep, Trained')
  BY <1>2, Cut DEF FitTypes
<1> QED
  BY <1>1, <1>3 DEF LineageIntact, Trained, UnderWay, FirstActorStep

LEMMA AppendCut ==
  ASSUME Scale, NEW d \in Values, NEW b \in Batches, NEW m \in Nat \ {0}
  PROVE  SubSeq(Append(d, b), m, Len(d)) = SubSeq(d, m, Len(d))
<1>1. d \in Seq(Batches) /\ Len(d) \in Nat
  BY ValuesFacts DEF Scale
<1>2. CASE m <= Len(d)
  <2>1. Append(d, b) = d \o <<b>> /\ <<b>> \in Seq(Batches)
    BY <1>1, AppendIsConcat
  <2>2. m \in 1..Len(d) /\ Len(d) \in 1..Len(d)
    BY <1>1, <1>2
  <2> QED
    BY <1>1, <2>1, <2>2, SubSeqOfConcat1
<1>3. CASE m > Len(d)
  BY <1>1, <1>3, SubSeqEmpty
<1> QED
  BY <1>1, <1>2, <1>3

LEMMA LineageOfLoad ==
  ASSUME Scale, SyncInv, Load, FitTypes'
  PROVE  Lineage'
<1>1. pc' = "publish" /\ inLoop' = FALSE /\ Trained' = Len(delivered') - 0
  BY DEF Load, SyncInv, Places, FitTypes, Trained, UnderWay
<1>2. /\ Len(delivered') = globalSteps'
      /\ \A i \in 1..Len(delivered') : delivered'[i][2] = i
      /\ UseCritic => weights'["critic"] = delivered'
      /\ weights'["actor"] = SubSeq(delivered', FirstActorStep, Len(delivered'))
  <2>1. CASE delivered' = <<>> /\ weights' = [r \in Roles |-> <<>>] /\ globalSteps' = 0
    <3>1. SubSeq(<<>>, FirstActorStep, 0) = <<>>
      BY FirstStep, SubSeqEmpty
    <3>2. Len(delivered') = 0 /\ 1..Len(delivered') = {}
      BY <2>1
    <3>3. "actor" \in Roles /\ (UseCritic => "critic" \in Roles)
      BY PartsFacts
    <3>4. weights'["actor"] = <<>> /\ (UseCritic => weights'["critic"] = <<>>)
      BY <2>1, <3>3
    <3>5. SubSeq(delivered', FirstActorStep, Len(delivered')) = <<>>
      BY <2>1, <3>1, <3>2
    <3> QED
      BY <2>1, <3>2, <3>4, <3>5
  <2>2. CASE /\ globalSteps' = tracker[2]
             /\ Whole(committed, tracker[2]) /\ delivered' = committed["data"]
             /\ weights' = [r \in Roles |-> committed[r]]
    BY <2>2, PartsFacts DEF Whole
  <2> QED
    BY <2>1, <2>2, LoadedWhole
<1>3. /\ SubSeq(delivered', 1, Len(delivered')) = delivered'
      /\ Len(delivered') - 0 = Len(delivered')
  BY SubSeqFull, ValuesFacts DEF FitTypes, Scale, Batches
<1>4. globalSteps' - 0 = globalSteps'
  <2>1. globalSteps' \in 0..TotalSteps + 1 /\ TotalSteps \in Nat
    BY TrainerAssumption DEF FitTypes
  <2>2. globalSteps' \in Nat
    BY <2>1
  <2>3. \A x \in Nat : x - 0 = x
    OBVIOUS
  <2> QED
    BY <2>2, <2>3
<1> QED
  BY <1>1, <1>2, <1>3, <1>4 DEF Lineage

LEMMA LineageOfTrain ==
  ASSUME Scale, SyncInv, Lineage, Train
  PROVE  Lineage'
<1> DEFINE n == Len(delivered)
<1>1. /\ pc = "train" /\ pc' \in {"save", "publish"}
      /\ UNCHANGED <<globalSteps, inLoop, served, delivered>>
      /\ weights' = [r \in Roles |->
           IF r = "critic" \/ CriticWarmup <= globalSteps THEN Append(weights[r], delivered[n])
           ELSE weights[r]]
  BY DEF Train
<1>2. /\ delivered \in Seq(Batches) /\ n \in Nat /\ n = globalSteps /\ n >= 1
      /\ Trained = n - 1 /\ Trained' = n
  BY <1>1, ValuesFacts, LineageSteps DEF SyncInv, FitTypes, Places, Scale, Trained, UnderWay
<1>3. /\ UseCritic => weights["critic"] = SubSeq(delivered, 1, n - 1)
      /\ weights["actor"] = SubSeq(delivered, FirstActorStep, n - 1)
  BY <1>1, <1>2 DEF Lineage
<1>4. UseCritic => weights'["critic"] = SubSeq(delivered, 1, n)
  <2>1. Append(SubSeq(delivered, 1, n - 1), delivered[n]) = SubSeq(delivered, 1, n)
    BY <1>2, Extended
  <2> QED
    BY <1>1, <1>3, <2>1, PartsFacts
<1>5. weights'["actor"] = SubSeq(delivered, FirstActorStep, n)
  <2>1. CASE CriticWarmup <= globalSteps
    <3>1. FirstActorStep \in 1..n
      BY <1>2, <2>1, TrainerAssumption DEF FirstActorStep
    <3>2. Append(SubSeq(delivered, FirstActorStep, n - 1), delivered[n])
            = SubSeq(delivered, FirstActorStep, n)
      BY <1>2, <3>1, Extended
    <3> QED
      BY <1>1, <1>3, <2>1, <3>2, PartsFacts
  <2>2. CASE ~(CriticWarmup <= globalSteps)
    <3>1. FirstActorStep \in Nat /\ FirstActorStep > n
      BY <1>2, <2>2, TrainerAssumption DEF FirstActorStep
    <3>2. /\ SubSeq(delivered, FirstActorStep, n) = <<>>
          /\ SubSeq(delivered, FirstActorStep, n - 1) = <<>>
      BY <1>2, <3>1, SubSeqEmpty
    <3> QED
      BY <1>1, <1>3, <2>2, <3>2, PartsFacts
  <2> QED
    BY <2>1, <2>2
<1> QED
  BY <1>1, <1>2, <1>4, <1>5 DEF Lineage

LEMMA LineageOfGenerate ==
  ASSUME Scale, SyncInv, Lineage, TrainGenerate
  PROVE  Lineage'
<1> DEFINE n == Len(delivered)
           b == <<job, n + 1>>
<1>1. /\ pc = "generate" /\ pc' = "wait" /\ delivered' = Append(delivered, b)
      /\ UNCHANGED <<globalSteps, inLoop, weights, served>>
  BY DEF TrainGenerate
<1>2. /\ delivered \in Seq(Batches) /\ delivered \in Values /\ n \in Nat
      /\ b \in Batches /\ b[2] = n + 1 /\ inLoop /\ globalSteps \in Nat
  <2>1. delivered \in Seq(Batches) /\ delivered \in Values /\ n \in Nat
    BY LenProperties DEF SyncInv, FitTypes, Scale
  <2>2. job \in Nat /\ inLoop /\ globalSteps \in Nat
    BY <1>1 DEF SyncInv, FitTypes, Places
  <2> QED
    BY <2>1, <2>2 DEF Batches
<1> HIDE DEF b
<1>3. /\ Len(delivered') = n + 1
      /\ \A i \in 1..n : delivered'[i] = delivered[i]
      /\ delivered'[n + 1] = b
  BY <1>1, <1>2, AppendProperties
<1>4. Trained = n /\ Trained' = n
  BY <1>1, <1>2, <1>3 DEF Trained, UnderWay
<1>5. \A m \in Nat \ {0} : SubSeq(delivered', m, n) = SubSeq(delivered, m, n)
  BY <1>1, <1>2, AppendCut
<1>6. \A i \in 1..Len(delivered') : delivered'[i][2] = i
  <2> SUFFICES ASSUME NEW i \in 1..n + 1 PROVE delivered'[i][2] = i
    BY <1>3
  <2>1. CASE i = n + 1
    BY <1>2, <1>3, <2>1
  <2>2. CASE i \in 1..n
    BY <1>1, <1>3, <2>2 DEF Lineage
  <2> QED
    BY <1>2, <2>1, <2>2
<1>7. n = globalSteps - 1
  BY <1>1, <1>2 DEF Lineage
<1> QED
  BY <1>1, <1>2, <1>3, <1>4, <1>5, <1>6, <1>7, FirstStep DEF Lineage

(* A step that touches neither weights nor batches.                        *)
LEMMA LineageKept ==
  ASSUME Lineage, pc \notin {"load", "dead"},
         UNCHANGED <<delivered, weights>>, UnderWay' = UnderWay,
         Len(delivered) = globalSteps' - (IF inLoop' /\ pc' \in {"generate", "done"} THEN 1 ELSE 0),
         pc' \notin {"publish", "save"} => served' = weights["actor"]
  PROVE  Lineage'
<1>1. Trained' = Trained
  BY DEF Trained
<1> QED
  BY <1>1 DEF Lineage

LEMMA LineageStep ==
  ASSUME Scale, SyncInv, [Next]_vars, FitTypes', Places'
  PROVE  Lineage'
<1>1. FitTypes /\ Places /\ Lineage /\ globalSteps \in Nat
  BY LineageUnfolded DEF SyncInv, FitTypes
<1>2. CASE Load
  BY <1>2, LineageOfLoad
<1>3. CASE LoadFails \/ ValReadFails \/ BalanceFails
  BY <1>3 DEF LoadFails, ValReadFails, BalanceFails, Die, Lineage
<1>4. CASE Restart
  BY <1>4 DEF Restart, Lineage
<1>5. CASE Train
  BY <1>1, <1>5, LineageOfTrain
<1>6. CASE TrainGenerate
  BY <1>1, <1>6, LineageOfGenerate
<1>7. ASSUME PastValidation, pc \in {"publish", "validate"}
      PROVE  /\ pc' \in {"clear", "generate"} /\ UnderWay' = UnderWay
             /\ Len(delivered) =
                  globalSteps' - (IF inLoop' /\ pc' \in {"generate", "done"} THEN 1 ELSE 0)
  <2>1. Len(delivered) = globalSteps
    BY <1>1, <1>7 DEF Lineage
  <2>2. CASE inLoop
    BY <1>1, <1>7, <2>1, <2>2 DEF PastValidation, UnderWay
  <2>3. CASE ~inLoop
    BY <1>1, <1>7, <2>1, <2>3 DEF PastValidation, UnderWay
  <2> QED
    BY <2>2, <2>3
<1>8. CASE Publish
  <2>1. pc = "publish" /\ served' = weights["actor"] /\ UNCHANGED <<delivered, weights>>
    BY <1>8 DEF Publish
  <2>2. CASE pc' = "validate" /\ UNCHANGED <<globalSteps, inLoop>>
    <3>1. Len(delivered) = globalSteps' - 0 /\ UnderWay' = UnderWay
      BY <1>1, <2>1, <2>2 DEF Lineage, UnderWay
    <3> QED
      BY <1>1, <2>1, <2>2, <3>1, LineageKept
  <2>3. CASE PastValidation
    BY <1>1, <1>7, <2>1, <2>3, LineageKept
  <2> QED
    BY <1>8, <2>2, <2>3 DEF Publish
<1>9. CASE ValEnd
  <2>1. pc = "validate" /\ PastValidation /\ UNCHANGED <<delivered, weights, served>>
    BY <1>9 DEF ValEnd
  <2>2. served' = weights["actor"]
    BY <1>1, <2>1 DEF Lineage
  <2> QED
    BY <1>1, <1>7, <2>1, <2>2, LineageKept
<1>10. CASE ValGenerate \/ ValSample \/ ValRead \/ ValRemove
  <2>1. /\ pc \in {"validate", "valWait", "valRead", "valRemove"}
        /\ pc' \in {"validate", "valWait", "valRead", "valRemove"}
        /\ UNCHANGED <<globalSteps, inLoop, delivered, weights, served>>
    BY <1>10 DEF ValGenerate, ValSample, ValRead, ValRemove
  <2> QED
    BY <1>1, <2>1 DEF Lineage, Trained, UnderWay
<1>11. CASE EpochOver
  BY <1>1, <1>11 DEF EpochOver, Lineage, Trained, UnderWay
<1>12. CASE TrainSample \/ BalanceBatch
  <2>1. /\ pc \in {"wait", "balance"} /\ pc' \in {"balance", "train"}
        /\ UNCHANGED <<globalSteps, inLoop, delivered, weights, served>>
    BY <1>12 DEF TrainSample, BalanceBatch
  <2> QED
    BY <1>1, <2>1 DEF Lineage, Trained, UnderWay
<1>13. CASE Saved \/ Clear
  <2>1. /\ (pc = "save" /\ pc' = "publish") \/ (pc = "clear" /\ pc' = "remove")
        /\ UNCHANGED <<globalSteps, inLoop, delivered, weights, served>>
    BY <1>13 DEF Saved, Clear
  <2> QED
    BY <1>1, <2>1 DEF Lineage, Trained, UnderWay
<1>14. CASE EndStep
  <2>1. /\ pc = "remove" /\ pc' \in {"done", "generate"} /\ globalSteps' = globalSteps + 1
        /\ UNCHANGED <<inLoop, delivered, weights, served>>
    BY <1>14 DEF EndStep
  <2>2. inLoop /\ Len(delivered) = globalSteps /\ served = weights["actor"]
    BY <1>1, <2>1 DEF Lineage, Places
  <2>3. Len(delivered) = globalSteps' - 1 /\ UnderWay' = UnderWay
    BY <1>1, <2>1, <2>2 DEF UnderWay
  <2> QED
    BY <1>1, <2>1, <2>2, <2>3, LineageKept
<1>15. CASE SaveCheckpoint \/ Workers \/ UNCHANGED vars
  <2>1. UNCHANGED fitVars
    BY <1>15 DEF SaveCheckpoint, Workers, Beside, vars
  <2> QED
    BY <1>1, <2>1 DEF fitVars, Lineage, Trained, UnderWay
<1> QED
  BY <1>2, <1>3, <1>4, <1>5, <1>6, <1>8, <1>9, <1>10, <1>11, <1>12, <1>13, <1>14, <1>15
  DEF Next, Fit

-----------------------------------------------------------------------------
(* What a save holds stays the same until the tracker names it.            *)
LEMMA SaveProgressWhole ==
  ASSUME StoreInv, SavesWhole, SaveProgress
  PROVE  SavesWhole'
<1>1. save # Idle /\ save \in Saving /\ Whole(save.value, save.step)
  <2>1. save.pc # "idle"
    BY DEF SaveProgress, EnsureCapacity, RemoveFile, RegisterCheckpoint, RoleSaved, SaveLoader,
           WriteTracker, WriteShard
  <2> QED
    BY <2>1, SaveFacts DEF StoreInv, SavesWhole, Idle
<1>2. CASE WriteTracker
  <2>1. save' = Idle /\ tracker' = <<"step", save.step>> /\ committed' = save.value
    BY <1>2 DEF WriteTracker
  <2> QED
    BY <1>1, <2>1 DEF SavesWhole
<1>3. CASE EnsureCapacity \/ RemoveFile \/ RegisterCheckpoint \/ RoleSaved \/ SaveLoader
           \/ \E k \in Ranks : WriteShard(k)
  <2>1. UNCHANGED <<tracker, committed>>
    BY <1>3 DEF EnsureCapacity, RemoveFile, RegisterCheckpoint, RoleSaved, SaveLoader, WriteShard
  <2>2. save'.value = save.value /\ save'.step = save.step
    BY <1>1, <1>3 DEF Saving, EnsureCapacity, RemoveFile, RegisterCheckpoint, RoleSaved,
                      SaveLoader, WriteShard
  <2> QED
    BY <1>1, <2>1, <2>2 DEF SavesWhole
<1> QED
  BY <1>2, <1>3 DEF SaveProgress

LEMMA SavesWholeStep ==
  ASSUME Scale, SyncInv, [Next]_vars
  PROVE  SavesWhole'
<1>1. FitTypes /\ Lineage /\ StoreInv /\ SavesWhole
  BY LineageUnfolded DEF SyncInv
<1>2. CASE SaveCheckpoint
  <2> DEFINE value == [part \in Parts |-> IF part = "data" THEN delivered ELSE weights[part]]
  <2>1. CASE BeginSave(globalSteps, value)
    <3>1. /\ save' = [pc |-> "capacity", role |-> "actor", step |-> globalSteps, value |-> value,
                       written |-> {}]
          /\ UNCHANGED <<tracker, committed>>
      BY <2>1 DEF BeginSave
    <3>2. /\ value["data"] = delivered /\ value["actor"] = weights["actor"]
          /\ (UseCritic => value["critic"] = weights["critic"])
      BY PartsFacts
    <3>3. Len(delivered) \in Nat /\ globalSteps \in Nat /\ SubSeq(delivered, 1, Len(delivered)) = delivered
      BY <1>1, LenProperties, SubSeqFull DEF FitTypes, Scale
    <3>4. pc = "save"
      BY <1>2 DEF SaveCheckpoint
    <3>5. Trained = Len(delivered) /\ Len(delivered) = globalSteps
      BY <1>1, <3>3, <3>4 DEF Lineage, Trained, UnderWay
    <3>6. /\ \A i \in 1..globalSteps : delivered[i][2] = i
          /\ UseCritic => weights["critic"] = delivered
          /\ weights["actor"] = SubSeq(delivered, FirstActorStep, globalSteps)
      BY <1>1, <3>3, <3>4, <3>5 DEF Lineage
    <3> HIDE DEF value
    <3>7. Whole(value, globalSteps)
      BY <3>2, <3>5, <3>6 DEF Whole
    <3> QED
      BY <1>1, <3>1, <3>7 DEF SavesWhole
  <2>2. CASE SaveProgress
    BY <1>1, <2>2, SaveProgressWhole
  <2> QED
    BY <1>2, <2>1, <2>2 DEF SaveCheckpoint
<1>3. CASE Restart
  <2>1. /\ save' = Idle /\ committed' = committed
        /\ tracker' = tracker \/ tracker' = <<"empty">>
    BY <1>3 DEF Restart, CrashStore
  <2> QED
    BY <1>1, <2>1 DEF SavesWhole
<1>4. CASE Load
  <2>1. UNCHANGED <<save, committed, tracker>>
    BY <1>4 DEF Load, LoadCheckpoint
  <2> QED
    BY <1>1, <2>1 DEF SavesWhole
<1>5. CASE UNCHANGED storeVars
  BY <1>1, <1>5 DEF storeVars, SavesWhole
<1>6. CASE Workers
  BY <1>5, <1>6 DEF Workers, Beside
<1>7. CASE Publish \/ ValGenerate \/ ValSample \/ ValRead \/ ValRemove \/ ValEnd
  BY <1>5, <1>7 DEF Publish, ValGenerate, ValSample, ValRead, ValRemove, ValEnd
<1>8. CASE TrainGenerate \/ EpochOver \/ TrainSample \/ BalanceBatch \/ Train \/ Saved \/ Clear \/ EndStep
  BY <1>5, <1>8 DEF TrainGenerate, EpochOver, TrainSample, BalanceBatch, Train, Saved, Clear, EndStep
<1>9. CASE LoadFails \/ ValReadFails \/ BalanceFails
  BY <1>5, <1>9 DEF LoadFails, ValReadFails, BalanceFails, Die
<1>10. CASE UNCHANGED vars
  BY <1>5, <1>10 DEF vars
<1> QED
  BY <1>2, <1>3, <1>4, <1>6, <1>7, <1>8, <1>9, <1>10 DEF Next, Fit

-----------------------------------------------------------------------------
LEMMA SyncInitInv ==
  ASSUME Scale, Init
  PROVE  SyncInv
<1>1. BufferInv /\ StoreInv
  BY BufferInitInv, StoreInitInv DEF Init
<1>2. FitTypes
  <2>1. Untrained \in [Roles -> Values] /\ <<>> \in Values
    BY ValuesFacts DEF Untrained
  <2>2. 0 \in 0..TotalSteps + 1 /\ 0 \in 0..ValBatches /\ 1 \in 1..MaxJobs
    BY TrainerAssumption DEF Scale
  <2> QED
    BY <2>1, <2>2 DEF Init, FitTypes
<1>3. Places
  BY TrainerAssumption DEF Init, BufferInit, Partitions, Places
<1>4. SavesWhole /\ LineageIntact
  BY DEF Init, StoreInit, SavesWhole, LineageIntact
<1> QED
  BY <1>1, <1>2, <1>3, <1>4 DEF SyncInv

LEMMA SyncNextInv ==
  ASSUME Scale, SyncInv, [Next]_vars
  PROVE  SyncInv'
<1>1. BufferInv'
  BY StepOfBuffer, BufferNextInv DEF SyncInv
<1>2. StoreInv'
  BY StepOfStore, StoreNextInv DEF SyncInv, Scale
<1>3. FitTypes' /\ Places' /\ SavesWhole'
  BY TypesStep, PlacesStep, SavesWholeStep
<1>4. LineageIntact'
  BY <1>3, LineageStep, LineageFolded
<1> QED
  BY <1>1, <1>2, <1>3, <1>4 DEF SyncInv

LEMMA SyncInvariance ==
  ASSUME Scale
  PROVE  Spec => []SyncInv
<1>1. Init => SyncInv
  BY SyncInitInv
<1>2. SyncInv /\ [Next]_vars => SyncInv'
  BY SyncNextInv
<1> QED
  BY <1>1, <1>2, PTL DEF Spec

(* Every variable stays in its type.                                       *)
THEOREM SyncTypeCorrect ==
  ASSUME Scale
  PROVE  Spec => []TypeOK
<1>1. SyncInv => TypeOK
  BY DEF SyncInv, FitTypes, BufferInv, StoreInv, TypeOK
<1> QED
  BY <1>1, SyncInvariance, PTL

(* fit implements the replay buffer: it announces prompts, samples, pads,  *)
(* clears and removes only when ReplayBuffer allows it.                    *)
THEOREM ImplementsBuffer ==
  ASSUME Scale
  PROVE  Spec => BufferSpec
<1>1. Init => BufferInit
  BY DEF Init
<1>2. SyncInv /\ [Next]_vars => [BufferNext]_bufferVars
  BY StepOfBuffer
<1> QED
  BY <1>1, <1>2, SyncInvariance, PTL DEF Spec, BufferSpec

(* fit implements the checkpoint store: it saves, loads and crashes only   *)
(* when CheckpointStore allows it.                                         *)
THEOREM ImplementsStore ==
  ASSUME Scale
  PROVE  Spec => StoreSpec
<1>1. Init => StoreInit
  BY DEF Init
<1>2. SyncInv /\ [Next]_vars => [StoreNext]_storeVars
  BY StepOfStore
<1> QED
  BY <1>1, <1>2, SyncInvariance, PTL DEF Spec, StoreSpec

(* No sample() of fit, of a training or of a validation batch, returns     *)
(* before the batch is complete.                                           *)
THEOREM BatchesComplete ==
  ASSUME Scale
  PROVE  Spec => []SampleComplete
BY ImplementsBuffer, SampleCorrect, PTL

(* No sample() of fit meets an entry without global_steps.                 *)
THEOREM BatchesHaveStep ==
  ASSUME Scale
  PROVE  Spec => []EntriesHaveStep
BY ImplementsBuffer, StepsPresent, PTL

(* Wherever fit is killed, the checkpoint that the tracker names is whole. *)
THEOREM ResumableAlways ==
  ASSUME Scale
  PROVE  Spec => []TrackedComplete
<1>1. KeepsMore
  BY DEF Scale
<1>2. StoreSpec => []TrackedComplete
  BY <1>1, TrackedCorrect
<1> QED
  BY <1>2, ImplementsStore, PTL

(* However often the job is killed and resumed, at any points: the weights *)
(* are those of one uninterrupted pass over the data, each role trained on *)
(* every batch that is due to it, once, in order and on the same rollouts, *)
(* and the replicas generate with the actor of the last finished step.     *)
THEOREM LineageCorrect ==
  ASSUME Scale
  PROVE  Spec => []LineageIntact
<1>1. SyncInv => LineageIntact
  BY DEF SyncInv
<1> QED
  BY <1>1, SyncInvariance, PTL
=============================================================================
