---------------------------- MODULE CheckpointStore ----------------------------
(***************************************************************************)
(* The checkpoints of a trainer on disk: _save_checkpoint and              *)
(* _load_checkpoint of main_ppo_sync.py (those of ray_trainer.py and of    *)
(* fully_async_trainer.py do the same in the same order), the FSDP         *)
(* checkpoint manager that every role's ranks run, and the rotation of old *)
(* checkpoints in checkpoint_manager.py.  The job can be killed between    *)
(* any two file operations and within one.                                 *)
(*                                                                         *)
(* A save writes, in this order, the shards of the actor, those of the     *)
(* critic, the state of the data loader and the tracker file, which holds  *)
(* the step to resume from.  A file is what it was written from: the value *)
(* of that part at the save.  A missing and a half-written file are both   *)
(* NoValue.                                                                *)
(***************************************************************************)
EXTENDS Naturals, Sequences

CONSTANTS
  UseCritic,    \* whether there is a critic
  Ranks,        \* ranks of a worker group; each writes its own shard
  Keep,         \* max_actor_ckpt_to_keep, max_critic_ckpt_to_keep; 0 for None
  Steps,        \* steps that may be saved
  Values,       \* what a part of a checkpoint can hold
  NoValue,      \* a file that is missing or cut short
  Down          \* no job runs

Roles == IF UseCritic THEN {"actor", "critic"} ELSE {"actor"}
Parts == Roles \cup {"data"}

ASSUME StoreAssumption ==
  /\ UseCritic \in BOOLEAN
  /\ Keep \in [Roles -> Nat]
  /\ Steps \subseteq Nat \ {0}
  /\ NoValue \notin Values /\ NoValue \notin [Parts -> Values]
  /\ Down \notin Nat

VARIABLES
  shard,        \* shard files by role, step and rank
  loaderFile,   \* data.pt by step
  tracker,      \* latest_checkpointed_iteration.txt
  previous,     \* self.previous_saved_paths of each role, in memory
  doomed,       \* steps whose directory rank 0 is removing
  save,         \* the save under way
  at,           \* the step of the last load or finished save of this job
  committed     \* what the last save that wrote the tracker was called with

storeVars == <<shard, loaderFile, tracker, previous, doomed, save, at, committed>>

Content == [Parts -> Values]
\* The tracker file: absent, empty, or a step.
Tracked == {<<"absent">>, <<"empty">>} \cup ({"step"} \X Steps)
Idle == [pc |-> "idle"]
Saving == [pc : {"capacity", "write", "rotate", "loader", "tracker"},
           role : Roles, step : Steps, value : Content, written : SUBSET Ranks]

StoreTypeOK ==
  /\ shard \in [Roles \X Steps \X Ranks -> Values \cup {NoValue}]
  /\ loaderFile \in [Steps -> Values \cup {NoValue}]
  /\ tracker \in Tracked
  /\ previous \in [Roles -> Seq(Steps)]
  /\ doomed \subseteq Steps
  /\ save = Idle \/ save \in Saving
  /\ at \in Nat \cup {Down}
  /\ committed \in Content \cup {NoValue}

StoreInit ==
  /\ shard = [f \in Roles \X Steps \X Ranks |-> NoValue]
  /\ loaderFile = [n \in Steps |-> NoValue]
  /\ tracker = <<"absent">>
  /\ previous = [r \in Roles |-> <<>>]
  /\ doomed = {}
  /\ save = Idle
  /\ at = Down
  /\ committed = NoValue

-----------------------------------------------------------------------------
(* Faulty variants; no specification uses them.                            *)

\* ensure_checkpoint_capacity that also makes room for the tracked step.
RoomOffByOne(r) == IF Keep[r] > 1 /\ Len(previous[r]) >= Keep[r] - 1
                   THEN Len(previous[r]) - Keep[r] + 2 ELSE 0

\* _save_checkpoint that names the step before.
WriteTrackerStepBefore ==
  /\ save.pc = "tracker"
  /\ tracker' = <<"step", save.step - 1>>
  /\ committed' = save.value
  /\ at' = save.step
  /\ save' = Idle
  /\ UNCHANGED <<shard, loaderFile, previous, doomed>>

-----------------------------------------------------------------------------
(* Saving.                                                                 *)

BeginSave(n, value) ==
  /\ save.pc = "idle" /\ at # Down
  /\ n \in Steps /\ n > at
  /\ save' = [pc |-> "capacity", role |-> "actor", step |-> n, value |-> value, written |-> {}]
  /\ UNCHANGED <<shard, loaderFile, tracker, previous, doomed, at, committed>>

\* The first count entries of a list of paths go, the others stay.
DropOldest(r, paths, count) ==
  /\ doomed' = {paths[i] : i \in 1..count}
  /\ previous' = [previous EXCEPT ![r] = SubSeq(paths, count + 1, Len(paths))]

Room(r) == IF Keep[r] > 1 /\ Len(previous[r]) >= Keep[r]
           THEN Len(previous[r]) - Keep[r] + 1 ELSE 0
Excess(r, paths) == IF Keep[r] > 0 /\ Len(paths) > Keep[r] THEN Len(paths) - Keep[r] ELSE 0

EnsureCapacity ==
  /\ save.pc = "capacity"
  /\ DropOldest(save.role, previous[save.role], Room(save.role))
  /\ save' = [save EXCEPT !.pc = "write"]
  /\ UNCHANGED <<shard, loaderFile, tracker, at, committed>>

\* shutil.rmtree, one file after the other.
DoomedFiles == {f \in Roles \X Steps \X Ranks :
                  f[1] = save.role /\ f[2] \in doomed /\ shard[f] # NoValue}

RemoveFile ==
  /\ save.pc \in {"write", "rotate"}
  /\ \E f \in DoomedFiles : shard' = [shard EXCEPT ![f] = NoValue]
  /\ UNCHANGED <<loaderFile, tracker, previous, doomed, save, at, committed>>

\* Behind the barrier that waits for rank 0's removal.
WriteShard(k) ==
  /\ save.pc = "write" /\ DoomedFiles = {} /\ k \notin save.written
  /\ shard' = [shard EXCEPT ![<<save.role, save.step, k>>] = save.value[save.role]]
  /\ save' = [save EXCEPT !.written = @ \cup {k}]
  /\ UNCHANGED <<loaderFile, tracker, previous, doomed, at, committed>>

\* Behind the barrier that waits for everyone's shard.
RegisterCheckpoint ==
  LET paths == Append(previous[save.role], save.step) IN
  /\ save.pc = "write" /\ save.written = Ranks
  /\ DropOldest(save.role, paths, Excess(save.role, paths))
  /\ save' = [save EXCEPT !.pc = "rotate"]
  /\ UNCHANGED <<shard, loaderFile, tracker, at, committed>>

RoleSaved ==
  /\ save.pc = "rotate" /\ DoomedFiles = {}
  /\ save' = IF save.role = "actor" /\ UseCritic
             THEN [save EXCEPT !.pc = "capacity", !.role = "critic", !.written = {}]
             ELSE [save EXCEPT !.pc = "loader"]
  /\ doomed' = {}
  /\ UNCHANGED <<shard, loaderFile, tracker, previous, at, committed>>

SaveLoader ==
  /\ save.pc = "loader"
  /\ loaderFile' = [loaderFile EXCEPT ![save.step] = save.value["data"]]
  /\ save' = [save EXCEPT !.pc = "tracker"]
  /\ UNCHANGED <<shard, tracker, previous, doomed, at, committed>>

WriteTracker ==
  /\ save.pc = "tracker"
  /\ tracker' = <<"step", save.step>>
  /\ committed' = save.value
  /\ at' = save.step
  /\ save' = Idle
  /\ UNCHANGED <<shard, loaderFile, previous, doomed>>

SaveProgress ==
  \/ EnsureCapacity \/ RemoveFile \/ RegisterCheckpoint \/ RoleSaved
  \/ SaveLoader \/ WriteTracker
  \/ \E k \in Ranks : WriteShard(k)

-----------------------------------------------------------------------------
(* Crash and resume.                                                       *)

\* A kill leaves the files being written complete, cut short or untouched;
\* open(..., "w") has emptied the tracker before the step is written.
CrashStore ==
  /\ at # Down
  /\ \E torn \in SUBSET (IF save.pc = "write" /\ DoomedFiles = {} THEN Ranks \ save.written ELSE {}) :
       shard' = [f \in DOMAIN shard |->
         IF torn # {} /\ f \in {save.role} \X {save.step} \X torn THEN NoValue ELSE shard[f]]
  /\ loaderFile' \in {loaderFile} \cup
       (IF save.pc = "loader" THEN {[loaderFile EXCEPT ![save.step] = NoValue]} ELSE {})
  /\ tracker' \in {tracker} \cup (IF save.pc = "tracker" THEN {<<"empty">>} ELSE {})
  /\ previous' = [r \in Roles |-> <<>>]
  /\ doomed' = {}
  /\ save' = Idle
  /\ at' = Down
  /\ UNCHANGED committed

\* find_latest_ckpt_path: no tracker, or the step to resume from.
ResumeStep == IF tracker[1] = "step" THEN tracker[2] ELSE 0

\* int("") raises, and so does torch.load of a missing or broken shard.
Loadable ==
  \/ tracker[1] = "absent"
  \/ tracker[1] = "step" /\ \A r \in Roles, k \in Ranks : shard[<<r, tracker[2], k>>] # NoValue

LoadCheckpoint ==
  /\ at = Down /\ Loadable
  /\ at' = ResumeStep
  /\ UNCHANGED <<shard, loaderFile, tracker, previous, doomed, save, committed>>

StoreNext ==
  \/ \E n \in Steps, value \in Content : BeginSave(n, value)
  \/ SaveProgress
  \/ CrashStore
  \/ LoadCheckpoint

StoreSpec == StoreInit /\ [][StoreNext]_storeVars

-----------------------------------------------------------------------------
(* Properties.                                                             *)

\* At every moment, so also after a kill at any point: the checkpoint that
\* the tracker names has every shard of every role and the state of the data
\* loader, all from one save, the last one that wrote the tracker.  So a save
\* must not touch the tracked checkpoint until the tracker names another.
TrackedComplete ==
  tracker[1] = "step" =>
    LET n == tracker[2] IN
    /\ committed # NoValue
    /\ \A r \in Roles, k \in Ranks : shard[<<r, n, k>>] = committed[r]
    /\ loaderFile[n] = committed["data"]
=============================================================================
