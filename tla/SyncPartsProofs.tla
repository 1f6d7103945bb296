---------------------------- MODULE SyncPartsProofs ----------------------------
(***************************************************************************)
(* The two parts that the synchronous trainer works with, proved each by   *)
(* itself: the checkpoint store first, then the replay buffer.             *)
(***************************************************************************)
EXTENDS CheckpointStore, ReplayBuffer, SequenceTheorems, TLAPS

-----------------------------------------------------------------------------
(***************************************************************************)
(* For any number of ranks, any values and any limits on the number of     *)
(* checkpoints but one: the checkpoint that the tracker names is complete, *)
(* wherever the job is killed.                                             *)
(*                                                                         *)
(* While a job runs the tracked step is the step it loaded or saved last,  *)
(* and a save writes a later one.  So a save can only harm the tracked     *)
(* checkpoint by removing it.  The paths a role remembers are increasing,  *)
(* the tracked step is the last of them or, once the new path is           *)
(* registered, the last but one, and the two rotations leave at least one  *)
(* and two of them.                                                        *)
(***************************************************************************)

(* With a limit of one, register_checkpoint of the actor removes the       *)
(* tracked checkpoint before the tracker names the new one.                *)
KeepsMore == \A r \in Roles : Keep[r] # 1

Registered(r) ==
  \/ save.pc = "rotate" /\ save.role = r
  \/ save.pc \in {"capacity", "write", "rotate"} /\ save.role = "critic" /\ r = "actor"
  \/ save.pc \in {"loader", "tracker"}

(* The tracked step is where the job is, and a save is ahead of it.        *)
Ahead ==
  /\ at = Down => save = Idle /\ doomed = {} /\ \A r \in Roles : previous[r] = <<>>
  /\ at # Down => tracker[1] # "empty" /\ at = ResumeStep
  /\ save # Idle => save.step > at
  /\ \A n \in doomed : n < at

Increasing(s) == \A i, j \in 1..Len(s) : i < j => s[i] < s[j]

Remembered ==
  at # Down => \A r \in Roles :
    /\ Increasing(previous[r])
    /\ ~Registered(r) => \A i \in 1..Len(previous[r]) : previous[r][i] <= at
    /\ Registered(r) =>
         /\ Len(previous[r]) > 0 /\ previous[r][Len(previous[r])] = save.step
         /\ \A i \in 1..Len(previous[r]) - 1 : previous[r][i] <= at

(* What the save under way has written.                                    *)
RoleWritten(r) == \A k \in Ranks : shard[<<r, save.step, k>>] = save.value[r]
Written ==
  /\ save.pc = "capacity" => save.written = {}
  /\ save.pc = "write" =>
       \A k \in save.written : shard[<<save.role, save.step, k>>] = save.value[save.role]
  /\ \A r \in Roles : save # Idle /\ Registered(r) => RoleWritten(r)
  /\ save.pc = "tracker" => loaderFile[save.step] = save.value["data"]

StoreInv == StoreTypeOK /\ Ahead /\ Remembered /\ Written /\ TrackedComplete

-----------------------------------------------------------------------------
LEMMA PartsFacts ==
  /\ "actor" \in Roles
  /\ Roles \subseteq {"actor", "critic"}
  /\ UseCritic => "critic" \in Roles
  /\ ~UseCritic => Roles = {"actor"}
  /\ Roles \subseteq Parts /\ "data" \in Parts
BY DEF Roles, Parts

(* Dropping the oldest paths leaves an increasing list with the same end.  *)
LEMMA Dropped ==
  ASSUME NEW paths \in Seq(Steps), Increasing(paths),
         NEW count \in Nat, count < Len(paths)
  PROVE  LET rest == SubSeq(paths, count + 1, Len(paths)) IN
         /\ rest \in Seq(Steps)
         /\ Increasing(rest)
         /\ Len(rest) = Len(paths) - count
         /\ \A i \in 1..Len(rest) : rest[i] = paths[count + i]
<1> DEFINE rest == SubSeq(paths, count + 1, Len(paths))
<1>1. \A i \in count + 1 .. Len(paths) : paths[i] \in Steps
  OBVIOUS
<1>2. /\ rest \in Seq(Steps)
      /\ Len(rest) = Len(paths) - count
      /\ \A i \in 1 .. Len(paths) - (count + 1) + 1 : rest[i] = paths[count + 1 + i - 1]
  BY <1>1, SubSeqProperties
<1>3. \A i \in 1..Len(rest) : rest[i] = paths[count + i]
  BY <1>2
<1>4. Increasing(rest)
  <2> SUFFICES ASSUME NEW i \in 1..Len(rest), NEW j \in 1..Len(rest), i < j
               PROVE  rest[i] < rest[j]
    BY DEF Increasing
  <2>1. rest[i] = paths[count + i] /\ rest[j] = paths[count + j]
    BY <1>3
  <2>2. count + i \in 1..Len(paths) /\ count + j \in 1..Len(paths) /\ count + i < count + j
    BY <1>2
  <2> QED
    BY <2>1, <2>2 DEF Increasing
<1> QED
  BY <1>2, <1>3, <1>4

-----------------------------------------------------------------------------
(* The initial state and the steps of a save.                              *)
LEMMA StoreInitInv == StoreInit => StoreInv
<1> SUFFICES ASSUME StoreInit PROVE StoreInv
  OBVIOUS
<1>1. StoreTypeOK
  BY DEF StoreInit, StoreTypeOK, Tracked
<1>2. Ahead /\ Remembered
  BY DEF StoreInit, Ahead, Remembered, Idle
<1>3. Written
  BY DEF StoreInit, Written, Idle
<1>4. TrackedComplete
  BY DEF StoreInit, TrackedComplete
<1> QED
  BY <1>1, <1>2, <1>3, <1>4 DEF StoreInv

(* A save that is not idle is a record of Saving.                          *)
LEMMA SaveFacts ==
  ASSUME StoreTypeOK
  PROVE  /\ save = Idle <=> save.pc = "idle"
         /\ save # Idle => save \in Saving
BY DEF StoreTypeOK, Saving, Idle

LEMMA BeginSaveInv ==
  ASSUME StoreInv, NEW n \in Steps, NEW value \in Content, BeginSave(n, value)
  PROVE  StoreInv'
<1>1. save = Idle /\ at \in Nat
  BY SaveFacts DEF StoreInv, BeginSave, StoreTypeOK
<1>2. save' = [pc |-> "capacity", role |-> "actor", step |-> n, value |-> value, written |-> {}]
  BY DEF BeginSave
<1>3. save' \in Saving /\ save' # Idle
  BY <1>2, PartsFacts DEF Saving, Idle
<1>4. StoreTypeOK'
  BY <1>3 DEF StoreInv, StoreTypeOK, BeginSave
<1>5. Ahead'
  BY <1>1, <1>2, StoreAssumption DEF StoreInv, Ahead, BeginSave, ResumeStep
<1>6. \A r \in Roles : ~Registered(r) /\ ~Registered(r)'
  BY <1>1, <1>2 DEF Registered, Idle
<1>7. Remembered'
  BY <1>6 DEF StoreInv, Remembered, BeginSave
<1>8. Written'
  BY <1>2, <1>6 DEF Written
<1>9. TrackedComplete'
  BY DEF StoreInv, TrackedComplete, BeginSave
<1> QED
  BY <1>4, <1>5, <1>7, <1>8, <1>9 DEF StoreInv

(* What EnsureCapacity removes is older than the tracked step.             *)
LEMMA EnsureCapacityInv ==
  ASSUME KeepsMore, StoreInv, EnsureCapacity
  PROVE  StoreInv'
<1> DEFINE role == save.role
           paths == previous[role]
           count == Room(role)
<1>1. save \in Saving /\ save # Idle /\ save.pc = "capacity" /\ role \in Roles
  BY SaveFacts DEF StoreInv, EnsureCapacity, Saving, Idle
<1>2. at # Down /\ at \in Nat
  BY <1>1 DEF StoreInv, Ahead, StoreTypeOK
<1>3. ~Registered(role)
  BY <1>1 DEF Registered
<1>4. paths \in Seq(Steps) /\ Increasing(paths) /\ \A i \in 1..Len(paths) : paths[i] <= at
  BY <1>1, <1>2, <1>3 DEF StoreInv, Remembered, StoreTypeOK
<1>5. count \in Nat /\ (count = 0 \/ count < Len(paths))
  <2>1. Keep[role] \in Nat /\ Len(paths) \in Nat
    BY <1>1, <1>4, StoreAssumption
  <2> QED
    BY <2>1 DEF Room
<1>6. save' = [save EXCEPT !.pc = "write"]
  BY DEF EnsureCapacity
<1>7. save' \in Saving /\ save' # Idle /\ save'.pc = "write" /\ save'.role = role
      /\ save'.step = save.step /\ save'.value = save.value /\ save'.written = save.written
  BY <1>1, <1>6 DEF Saving, Idle
<1>8. /\ doomed' = {paths[i] : i \in 1..count}
      /\ previous' = [previous EXCEPT ![role] = SubSeq(paths, count + 1, Len(paths))]
      /\ UNCHANGED <<shard, loaderFile, tracker, at, committed>>
  BY DEF EnsureCapacity, DropOldest
<1>9. doomed' \subseteq Steps /\ \A n \in doomed' : n < at
  <2> SUFFICES ASSUME NEW i \in 1..count PROVE paths[i] \in Steps /\ paths[i] < at
    BY <1>8
  <2>1. i < Len(paths) /\ i \in 1..Len(paths) /\ Len(paths) \in 1..Len(paths)
    BY <1>4, <1>5
  <2>2. paths[i] < paths[Len(paths)] /\ paths[Len(paths)] <= at
    BY <2>1, <1>4 DEF Increasing
  <2>3. paths[i] \in Nat /\ paths[Len(paths)] \in Nat
    BY <2>1, <1>4, StoreAssumption
  <2> QED
    BY <2>1, <2>2, <2>3, <1>2, <1>4
<1>10. /\ previous'[role] \in Seq(Steps)
       /\ Increasing(previous'[role])
       /\ \A i \in 1..Len(previous'[role]) : previous'[role][i] <= at
  <2>1. previous'[role] = SubSeq(paths, count + 1, Len(paths))
    BY <1>1, <1>8 DEF StoreInv, StoreTypeOK
  <2>2. CASE count < Len(paths)
    BY <2>1, <2>2, <1>4, <1>5, Dropped, SMTT(30)
  <2>3. CASE count = 0 /\ Len(paths) = 0
    <3>1. previous'[role] = <<>>
      BY <2>1, <2>3, SubSeqEmpty
    <3> QED
      BY <3>1 DEF Increasing
  <2> QED
    BY <2>2, <2>3, <1>4, <1>5
<1>11. previous' \in [Roles -> Seq(Steps)] /\ \A r \in Roles \ {role} : previous'[r] = previous[r]
  BY <1>1, <1>8, <1>10 DEF StoreInv, StoreTypeOK
<1>12. \A r \in Roles : Registered(r)' <=> Registered(r)
  BY <1>1, <1>7 DEF Registered
<1>13. StoreTypeOK'
  BY <1>7, <1>8, <1>9, <1>11 DEF StoreInv, StoreTypeOK
<1>14. Ahead'
  BY <1>1, <1>2, <1>7, <1>8, <1>9 DEF StoreInv, Ahead, ResumeStep
<1>15. Remembered'
  BY <1>2, <1>3, <1>7, <1>8, <1>10, <1>11, <1>12 DEF StoreInv, Remembered
<1>16. Written'
  <2>1. \A r \in Roles : Registered(r)' => RoleWritten(r)'
    BY <1>1, <1>7, <1>8, <1>12 DEF StoreInv, Written, RoleWritten
  <2>2. save.written = {}
    BY <1>1 DEF StoreInv, Written
  <2> QED
    BY <1>7, <2>1, <2>2 DEF Written
<1>17. TrackedComplete'
  BY <1>8 DEF StoreInv, TrackedComplete
<1> QED
  BY <1>13, <1>14, <1>15, <1>16, <1>17 DEF StoreInv

(* Files of steps that are not being removed stay.                         *)
LEMMA RemoveFileInv ==
  ASSUME StoreInv, RemoveFile
  PROVE  StoreInv'
<1>1. PICK f \in DoomedFiles : shard' = [shard EXCEPT ![f] = NoValue]
  BY DEF RemoveFile
<1>2. f \in Roles \X Steps \X Ranks /\ f[2] \in doomed
  BY DEF DoomedFiles
<1>3. save # Idle /\ at \in Nat /\ save.step \in Nat /\ f[2] < at /\ at < save.step
  BY <1>2, SaveFacts, StoreAssumption DEF StoreInv, Ahead, StoreTypeOK, RemoveFile, Saving
<1>4. \A r \in Roles, n \in Steps, k \in Ranks : n >= at => shard'[<<r, n, k>>] = shard[<<r, n, k>>]
  <2> SUFFICES ASSUME NEW r \in Roles, NEW n \in Steps, NEW k \in Ranks, n >= at
               PROVE  shard'[<<r, n, k>>] = shard[<<r, n, k>>]
    OBVIOUS
  <2>1. <<r, n, k>> \in Roles \X Steps \X Ranks /\ <<r, n, k>>[2] = n /\ n \in Nat
    BY StoreAssumption
  <2>2. f[2] # n /\ f # <<r, n, k>>
    BY <1>2, <1>3, <2>1, StoreAssumption
  <2> QED
    BY <1>1, <2>1, <2>2 DEF StoreInv, StoreTypeOK
<1>5. UNCHANGED <<loaderFile, tracker, previous, doomed, save, at, committed>>
  BY DEF RemoveFile
<1>6. StoreTypeOK'
  BY <1>1, <1>2, <1>5 DEF StoreInv, StoreTypeOK
<1>7. Ahead'
  BY <1>5 DEF StoreInv, Ahead, ResumeStep
<1>8. Remembered'
  BY <1>5 DEF StoreInv, Remembered, Registered
<1>9. Written'
  <2>1. save.step \in Steps /\ save.role \in Roles /\ save.written \subseteq Ranks
    BY <1>3, SaveFacts DEF StoreInv, Saving
  <2>2. \A r \in Roles, k \in Ranks : shard'[<<r, save.step, k>>] = shard[<<r, save.step, k>>]
    BY <1>3, <1>4, <2>1
  <2>3. \A r \in Roles : RoleWritten(r) => RoleWritten(r)'
    BY <2>2, <1>5 DEF RoleWritten
  <2> QED
    BY <1>5, <2>1, <2>2, <2>3 DEF StoreInv, Written, Registered
<1>10. TrackedComplete'
  <2> SUFFICES ASSUME tracker[1] = "step" PROVE TrackedComplete'
    BY <1>5 DEF TrackedComplete
  <2>1. tracker[2] = at /\ tracker[2] \in Steps
    BY <1>3, StoreAssumption DEF StoreInv, Ahead, ResumeStep, StoreTypeOK, Tracked
  <2>2. \A r \in Roles, k \in Ranks : shard'[<<r, tracker[2], k>>] = shard[<<r, tracker[2], k>>]
    BY <1>3, <1>4, <2>1
  <2> QED
    BY <1>5, <2>2 DEF StoreInv, TrackedComplete
<1> QED
  BY <1>6, <1>7, <1>8, <1>9, <1>10 DEF StoreInv

LEMMA WriteShardInv ==
  ASSUME StoreInv, NEW k \in Ranks, WriteShard(k)
  PROVE  StoreInv'
<1>1. save \in Saving /\ save # Idle /\ save.pc = "write"
  BY SaveFacts DEF StoreInv, WriteShard, Idle
<1>2. at \in Nat /\ save.step \in Nat /\ at < save.step /\ save.step \in Steps
      /\ save.role \in Roles /\ save.value[save.role] \in Values
  BY <1>1, StoreAssumption, PartsFacts DEF StoreInv, Ahead, StoreTypeOK, Saving, Content
<1>3. save' = [save EXCEPT !.written = @ \cup {k}]
  BY DEF WriteShard
<1>4. save' \in Saving /\ save' # Idle /\ save'.pc = "write" /\ save'.role = save.role
      /\ save'.step = save.step /\ save'.value = save.value
      /\ save'.written = save.written \cup {k}
  BY <1>1, <1>3 DEF Saving, Idle
<1>5. /\ shard' = [shard EXCEPT ![<<save.role, save.step, k>>] = save.value[save.role]]
      /\ UNCHANGED <<loaderFile, tracker, previous, doomed, at, committed>>
  BY DEF WriteShard
<1>6. \A r \in Roles, n \in Steps, j \in Ranks :
        shard'[<<r, n, j>>] = IF r = save.role /\ n = save.step /\ j = k
                          THEN save.value[save.role] ELSE shard[<<r, n, j>>]
  BY <1>2, <1>5 DEF StoreInv, StoreTypeOK
<1>7. StoreTypeOK'
  BY <1>2, <1>4, <1>5 DEF StoreInv, StoreTypeOK
<1>8. Ahead'
  BY <1>1, <1>4, <1>5 DEF StoreInv, Ahead, ResumeStep
<1>9. \A r \in Roles : Registered(r)' <=> Registered(r)
  BY <1>1, <1>4 DEF Registered
<1>10. Remembered'
  BY <1>4, <1>5, <1>9 DEF StoreInv, Remembered
<1>11. Written'
  <2>1. save.written \subseteq Ranks
    BY <1>1 DEF Saving
  <2>2. \A j \in save'.written : shard'[<<save.role, save.step, j>>] = save.value[save.role]
    BY <1>1, <1>2, <1>4, <1>6, <2>1 DEF StoreInv, Written
  <2>3. \A r \in Roles : Registered(r) => r # save.role /\ RoleWritten(r)
    BY <1>1 DEF StoreInv, Written, Registered
  <2>4. \A r \in Roles : Registered(r)' => RoleWritten(r)'
    BY <1>2, <1>4, <1>6, <1>9, <2>3 DEF RoleWritten
  <2> QED
    BY <1>4, <2>2, <2>4 DEF Written
<1>12. TrackedComplete'
  <2> SUFFICES ASSUME tracker[1] = "step" PROVE TrackedComplete'
    BY <1>5 DEF TrackedComplete
  <2>1. tracker[2] = at /\ tracker[2] \in Steps
    BY <1>2, StoreAssumption DEF StoreInv, Ahead, ResumeStep, StoreTypeOK, Tracked
  <2>2. \A r \in Roles, j \in Ranks : shard'[<<r, tracker[2], j>>] = shard[<<r, tracker[2], j>>]
    BY <1>2, <1>6, <2>1
  <2> QED
    BY <1>5, <2>2 DEF StoreInv, TrackedComplete
<1> QED
  BY <1>7, <1>8, <1>10, <1>11, <1>12 DEF StoreInv

(* What RegisterCheckpoint removes is older than the tracked step, which   *)
(* is at best the last path but one.                                       *)
LEMMA RegisterCheckpointInv ==
  ASSUME KeepsMore, StoreInv, RegisterCheckpoint
  PROVE  StoreInv'
<1> DEFINE role == save.role
           paths == Append(previous[role], save.step)
           count == Excess(role, paths)
<1>1. save \in Saving /\ save # Idle /\ save.pc = "write" /\ save.written = Ranks
      /\ role \in Roles /\ save.step \in Steps /\ save.step \in Nat
  BY SaveFacts, StoreAssumption DEF StoreInv, RegisterCheckpoint, Saving, Idle
<1>2. at # Down /\ at \in Nat /\ at < save.step
  BY <1>1 DEF StoreInv, Ahead, StoreTypeOK
<1>3. ~Registered(role)
  BY <1>1 DEF Registered
<1>4. previous[role] \in Seq(Steps) /\ Increasing(previous[role])
      /\ \A i \in 1..Len(previous[role]) : previous[role][i] <= at
  BY <1>1, <1>2, <1>3 DEF StoreInv, Remembered, StoreTypeOK
<1>5. /\ paths \in Seq(Steps) /\ Len(paths) = Len(previous[role]) + 1
      /\ \A i \in 1..Len(previous[role]) : paths[i] = previous[role][i]
      /\ paths[Len(paths)] = save.step
  BY <1>1, <1>4, AppendProperties
<1>6. Increasing(paths)
  <2> SUFFICES ASSUME NEW i \in 1..Len(paths), NEW j \in 1..Len(paths), i < j
               PROVE  paths[i] < paths[j]
    BY DEF Increasing
  <2>1. i \in 1..Len(previous[role]) /\ paths[i] = previous[role][i]
        /\ paths[i] <= at /\ paths[i] \in Nat
    BY <1>4, <1>5, StoreAssumption
  <2>2. CASE j = Len(paths)
    BY <1>1, <1>2, <1>5, <2>1, <2>2
  <2>3. CASE j # Len(paths)
    <3>1. j \in 1..Len(previous[role]) /\ paths[j] = previous[role][j]
      BY <1>4, <1>5, <2>3
    <3> QED
      BY <1>4, <2>1, <3>1 DEF Increasing
  <2> QED
    BY <2>2, <2>3
<1>7. count \in Nat /\ (count = 0 \/ count < Len(paths) - 1) /\ count < Len(paths)
  <2>1. Keep[role] \in Nat /\ Keep[role] # 1 /\ Len(paths) \in Nat /\ Len(paths) > 0
    BY <1>1, <1>4, <1>5, StoreAssumption DEF KeepsMore
  <2> QED
    BY <2>1 DEF Excess
<1>8. save' = [save EXCEPT !.pc = "rotate"]
  BY DEF RegisterCheckpoint
<1>9. save' \in Saving /\ save' # Idle /\ save'.pc = "rotate" /\ save'.role = role
      /\ save'.step = save.step /\ save'.value = save.value /\ save'.written = save.written
  BY <1>1, <1>8 DEF Saving, Idle
<1>10. /\ doomed' = {paths[i] : i \in 1..count}
       /\ previous' = [previous EXCEPT ![role] = SubSeq(paths, count + 1, Len(paths))]
       /\ UNCHANGED <<shard, loaderFile, tracker, at, committed>>
  BY DEF RegisterCheckpoint, DropOldest
<1>11. doomed' \subseteq Steps /\ \A n \in doomed' : n < at
  <2> SUFFICES ASSUME NEW i \in 1..count PROVE paths[i] \in Steps /\ paths[i] < at
    BY <1>10
  <2> DEFINE last == Len(previous[role])
  <2>1. last \in Nat /\ i < last /\ i \in 1..last /\ last \in 1..last
    BY <1>4, <1>5, <1>7
  <2>2. previous[role][i] < previous[role][last] /\ previous[role][last] <= at
    BY <2>1, <1>4 DEF Increasing
  <2>3. previous[role][i] \in Nat /\ previous[role][last] \in Nat /\ previous[role][i] \in Steps
    BY <2>1, <1>4, StoreAssumption
  <2> QED
    BY <2>1, <2>2, <2>3, <1>2, <1>5
<1>12. LET new == previous'[role] IN
       /\ new \in Seq(Steps) /\ Increasing(new)
       /\ Len(new) > 0 /\ new[Len(new)] = save.step
       /\ \A i \in 1..Len(new) - 1 : new[i] <= at
  <2> DEFINE new == SubSeq(paths, count + 1, Len(paths))
  <2>1. previous'[role] = new
    BY <1>1, <1>10 DEF StoreInv, StoreTypeOK
  <2>2. /\ new \in Seq(Steps) /\ Increasing(new) /\ Len(new) = Len(paths) - count
        /\ \A i \in 1..Len(new) : new[i] = paths[count + i]
    BY <1>5, <1>6, <1>7, Dropped
  <2>3. Len(new) > 0 /\ Len(new) \in 1..Len(new) /\ count + Len(new) = Len(paths)
    BY <1>5, <1>7, <2>2, SMTT(30)
  <2>4. new[Len(new)] = save.step
    BY <1>5, <2>2, <2>3
  <2>5. ASSUME NEW i \in 1..Len(new) - 1 PROVE new[i] <= at
    <3> HIDE DEF new, count, paths
    <3>1. Len(previous[role]) \in Nat /\ i \in 1..Len(new)
      BY <1>4, <2>3
    <3>2. new[i] = paths[count + i] /\ count + i \in 1..Len(previous[role])
      BY <1>5, <1>7, <2>2, <2>3, <3>1
    <3> QED
      BY <1>4, <1>5, <3>2
  <2> QED
    BY <2>1, <2>2, <2>3, <2>4, <2>5
<1>13. previous' \in [Roles -> Seq(Steps)] /\ \A r \in Roles \ {role} : previous'[r] = previous[r]
  BY <1>1, <1>10, <1>12 DEF StoreInv, StoreTypeOK
<1>14. Registered(role)' /\ \A r \in Roles \ {role} : Registered(r)' <=> Registered(r)
  BY <1>1, <1>9 DEF Registered
<1>15. StoreTypeOK'
  BY <1>9, <1>10, <1>11, <1>13 DEF StoreInv, StoreTypeOK
<1>16. Ahead'
  BY <1>1, <1>2, <1>9, <1>10, <1>11 DEF StoreInv, Ahead, ResumeStep
<1>17. Remembered'
  <2>1. ASSUME NEW r \in Roles, r # role
        PROVE  /\ previous'[r] = previous[r]
               /\ Registered(r)' <=> Registered(r)
               /\ Increasing(previous[r])
               /\ ~Registered(r) => \A i \in 1..Len(previous[r]) : previous[r][i] <= at
               /\ Registered(r) =>
                    /\ Len(previous[r]) > 0 /\ previous[r][Len(previous[r])] = save.step
                    /\ \A i \in 1..Len(previous[r]) - 1 : previous[r][i] <= at
    BY <1>2, <1>13, <1>14, <2>1 DEF StoreInv, Remembered
  <2> SUFFICES ASSUME NEW r \in Roles
               PROVE  /\ Increasing(previous'[r])
                      /\ ~Registered(r)' => \A i \in 1..Len(previous'[r]) : previous'[r][i] <= at
                      /\ Registered(r)' =>
                           /\ Len(previous'[r]) > 0 /\ previous'[r][Len(previous'[r])] = save.step
                           /\ \A i \in 1..Len(previous'[r]) - 1 : previous'[r][i] <= at
    BY <1>9, <1>10 DEF Remembered, Increasing
  <2>2. CASE r = role
    <3>1. Registered(r)' /\ save'.step = save.step
      BY <1>9, <2>2 DEF Registered
    <3> QED
      BY <1>12, <2>2, <3>1
  <2>3. CASE r # role
    BY <2>1, <2>3
  <2> QED
    BY <2>2, <2>3
<1>18. Written'
  <2>1. RoleWritten(role)'
    BY <1>1, <1>9, <1>10 DEF StoreInv, Written, RoleWritten
  <2>2. \A r \in Roles \ {role} : Registered(r)' => RoleWritten(r)'
    BY <1>1, <1>9, <1>10, <1>14 DEF StoreInv, Written, RoleWritten
  <2> QED
    BY <1>9, <2>1, <2>2 DEF Written
<1>19. TrackedComplete'
  BY <1>10 DEF StoreInv, TrackedComplete
<1> QED
  BY <1>15, <1>16, <1>17, <1>18, <1>19 DEF StoreInv

LEMMA RoleSavedInv ==
  ASSUME StoreInv, RoleSaved
  PROVE  StoreInv'
<1>1. save \in Saving /\ save # Idle /\ save.pc = "rotate" /\ save.role \in Roles
  BY SaveFacts DEF StoreInv, RoleSaved, Saving, Idle
<1>2. at # Down
  BY <1>1 DEF StoreInv, Ahead
<1>3. doomed' = {} /\ UNCHANGED <<shard, loaderFile, tracker, previous, at, committed>>
  BY DEF RoleSaved
<1>4. /\ save' \in Saving /\ save' # Idle /\ save'.step = save.step /\ save'.value = save.value
      /\ \/ /\ save.role = "actor" /\ UseCritic
            /\ save'.pc = "capacity" /\ save'.role = "critic" /\ save'.written = {}
         \/ /\ ~(save.role = "actor" /\ UseCritic)
            /\ save'.pc = "loader"
  <2>1. CASE save.role = "actor" /\ UseCritic
    <3>1. save' = [save EXCEPT !.pc = "capacity", !.role = "critic", !.written = {}]
      BY <2>1 DEF RoleSaved
    <3> QED
      BY <1>1, <2>1, <3>1, PartsFacts DEF Saving, Idle
  <2>2. CASE ~(save.role = "actor" /\ UseCritic)
    <3>1. save' = [save EXCEPT !.pc = "loader"]
      BY <2>2 DEF RoleSaved
    <3> QED
      BY <1>1, <2>2, <3>1 DEF Saving, Idle
  <2> QED
    BY <2>1, <2>2
<1>5. \A r \in Roles : Registered(r)' <=> Registered(r)
  BY <1>1, <1>4, PartsFacts DEF Registered
<1>6. StoreTypeOK'
  BY <1>3, <1>4 DEF StoreInv, StoreTypeOK
<1>7. Ahead'
  BY <1>1, <1>2, <1>3, <1>4 DEF StoreInv, Ahead, ResumeStep
<1>8. Remembered'
  BY <1>3, <1>4, <1>5 DEF StoreInv, Remembered
<1>9. Written'
  <2>1. \A r \in Roles : Registered(r)' => RoleWritten(r)'
    BY <1>1, <1>3, <1>4, <1>5 DEF StoreInv, Written, RoleWritten
  <2> QED
    BY <1>4, <2>1 DEF Written
<1>10. TrackedComplete'
  BY <1>3 DEF StoreInv, TrackedComplete
<1> QED
  BY <1>6, <1>7, <1>8, <1>9, <1>10 DEF StoreInv

LEMMA SaveLoaderInv ==
  ASSUME StoreInv, SaveLoader
  PROVE  StoreInv'
<1>1. save \in Saving /\ save # Idle /\ save.pc = "loader" /\ save.step \in Steps
  BY SaveFacts DEF StoreInv, SaveLoader, Saving, Idle
<1>2. at \in Nat /\ save.step \in Nat /\ at < save.step /\ save.value["data"] \in Values
  BY <1>1, StoreAssumption, PartsFacts DEF StoreInv, Ahead, StoreTypeOK, Saving, Content
<1>3. /\ loaderFile' = [loaderFile EXCEPT ![save.step] = save.value["data"]]
      /\ save' = [save EXCEPT !.pc = "tracker"]
      /\ UNCHANGED <<shard, tracker, previous, doomed, at, committed>>
  BY DEF SaveLoader
<1>4. save' \in Saving /\ save' # Idle /\ save'.pc = "tracker"
      /\ save'.step = save.step /\ save'.value = save.value
  BY <1>1, <1>3 DEF Saving, Idle
<1>5. \A r \in Roles : Registered(r)' /\ Registered(r)
  BY <1>1, <1>4 DEF Registered
<1>6. StoreTypeOK'
  BY <1>2, <1>3, <1>4 DEF StoreInv, StoreTypeOK
<1>7. Ahead'
  BY <1>1, <1>3, <1>4 DEF StoreInv, Ahead, ResumeStep
<1>8. Remembered'
  BY <1>3, <1>4, <1>5 DEF StoreInv, Remembered
<1>9. Written'
  <2>1. \A r \in Roles : RoleWritten(r)'
    BY <1>1, <1>3, <1>4, <1>5 DEF StoreInv, Written, RoleWritten
  <2>2. loaderFile'[save.step] = save.value["data"]
    BY <1>1, <1>3 DEF StoreInv, StoreTypeOK
  <2> QED
    BY <1>4, <2>1, <2>2 DEF Written
<1>10. TrackedComplete'
  <2> SUFFICES ASSUME tracker[1] = "step" PROVE TrackedComplete'
    BY <1>3 DEF TrackedComplete
  <2>1. tracker[2] = at /\ tracker[2] \in Steps
    BY <1>2, StoreAssumption DEF StoreInv, Ahead, ResumeStep, StoreTypeOK, Tracked
  <2>2. loaderFile'[tracker[2]] = loaderFile[tracker[2]]
    BY <1>1, <1>2, <1>3, <2>1 DEF StoreInv, StoreTypeOK
  <2> QED
    BY <1>3, <2>2 DEF StoreInv, TrackedComplete
<1> QED
  BY <1>6, <1>7, <1>8, <1>9, <1>10 DEF StoreInv

(* The tracker changes to a checkpoint that is written completely.         *)
LEMMA WriteTrackerInv ==
  ASSUME StoreInv, WriteTracker
  PROVE  StoreInv'
<1>1. save \in Saving /\ save # Idle /\ save.pc = "tracker" /\ save.step \in Steps
      /\ save.value \in Content
  BY SaveFacts DEF StoreInv, WriteTracker, Saving, Idle
<1>2. at \in Nat /\ save.step \in Nat /\ at < save.step
  BY <1>1, StoreAssumption DEF StoreInv, Ahead, StoreTypeOK
<1>3. /\ tracker' = <<"step", save.step>> /\ tracker'[1] = "step" /\ tracker'[2] = save.step
      /\ committed' = save.value /\ at' = save.step /\ save' = Idle
      /\ UNCHANGED <<shard, loaderFile, previous, doomed>>
  BY DEF WriteTracker
<1>4. \A r \in Roles : Registered(r) /\ ~Registered(r)'
  BY <1>1, <1>3 DEF Registered, Idle
<1>5. StoreTypeOK'
  <2>1. tracker' \in Tracked
    BY <1>1, <1>3 DEF Tracked
  <2> QED
    BY <1>1, <1>2, <1>3, <2>1 DEF StoreInv, StoreTypeOK
<1>6. Ahead'
  <2>1. \A n \in doomed : n < save.step
    <3> SUFFICES ASSUME NEW n \in doomed PROVE n < save.step
      OBVIOUS
    <3>1. n \in Nat /\ n < at
      BY StoreAssumption DEF StoreInv, Ahead, StoreTypeOK
    <3> QED
      BY <1>2, <3>1
  <2>2. at' # Down
    BY <1>2, <1>3, StoreAssumption
  <2> QED
    BY <1>3, <2>1, <2>2 DEF Ahead, ResumeStep
<1>7. Remembered'
  <2> SUFFICES ASSUME NEW r \in Roles
               PROVE  /\ Increasing(previous[r])
                      /\ \A i \in 1..Len(previous[r]) : previous[r][i] <= save.step
    BY <1>3, <1>4 DEF Remembered, Increasing
  <2>1. previous[r] \in Seq(Steps) /\ at # Down
    BY <1>2, StoreAssumption DEF StoreInv, StoreTypeOK
  <2>2. /\ Increasing(previous[r])
        /\ previous[r][Len(previous[r])] = save.step
        /\ \A i \in 1..Len(previous[r]) - 1 : previous[r][i] <= at
    BY <1>4, <2>1 DEF StoreInv, Remembered
  <2>3. ASSUME NEW i \in 1..Len(previous[r]) PROVE previous[r][i] <= save.step
    <3>1. previous[r][i] \in Nat /\ Len(previous[r]) \in Nat
      BY <2>1, StoreAssumption
    <3>2. CASE i = Len(previous[r])
      BY <1>2, <2>2, <3>2
    <3>3. CASE i # Len(previous[r])
      BY <1>2, <2>2, <3>1, <3>3
    <3> QED
      BY <3>2, <3>3
  <2> QED
    BY <2>2, <2>3
<1>8. Written'
  BY <1>3 DEF Written, Idle
<1>9. TrackedComplete'
  <2>1. \A r \in Roles : RoleWritten(r)
    BY <1>1, <1>4 DEF StoreInv, Written
  <2>2. loaderFile[save.step] = save.value["data"]
    BY <1>1 DEF StoreInv, Written
  <2>3. save.value # NoValue
    BY <1>1, StoreAssumption DEF Content
  <2> QED
    BY <1>3, <2>1, <2>2, <2>3 DEF TrackedComplete, RoleWritten
<1> QED
  BY <1>5, <1>6, <1>7, <1>8, <1>9 DEF StoreInv

(* A kill can only cut short files of the step that is being saved.        *)
LEMMA CrashInv ==
  ASSUME StoreInv, CrashStore
  PROVE  StoreInv'
<1>1. at \in Nat
  BY DEF StoreInv, CrashStore, StoreTypeOK
<1>2. PICK torn \in SUBSET (IF save.pc = "write" /\ DoomedFiles = {}
                            THEN Ranks \ save.written ELSE {}) :
       shard' = [f \in DOMAIN shard |->
         IF torn # {} /\ f \in {save.role} \X {save.step} \X torn THEN NoValue ELSE shard[f]]
  BY DEF CrashStore
<1>3. /\ previous' = [r \in Roles |-> <<>>] /\ doomed' = {} /\ save' = Idle /\ at' = Down
      /\ committed' = committed
      /\ tracker' = tracker \/ tracker' = <<"empty">>
      /\ \/ loaderFile' = loaderFile
         \/ save.pc = "loader" /\ loaderFile' = [loaderFile EXCEPT ![save.step] = NoValue]
  <2>1. /\ previous' = [r \in Roles |-> <<>>] /\ doomed' = {} /\ save' = Idle /\ at' = Down
        /\ committed' = committed
    BY DEF CrashStore
  <2>2. tracker' = tracker \/ tracker' = <<"empty">>
    BY DEF CrashStore
  <2>3. \/ loaderFile' = loaderFile
        \/ save.pc = "loader" /\ loaderFile' = [loaderFile EXCEPT ![save.step] = NoValue]
    BY DEF CrashStore
  <2> QED
    BY <2>1, <2>2, <2>3
<1>4. StoreTypeOK'
  <2>1. shard' \in [Roles \X Steps \X Ranks -> Values \cup {NoValue}]
    BY <1>2 DEF StoreInv, StoreTypeOK
  <2>2. loaderFile' \in [Steps -> Values \cup {NoValue}]
    BY <1>3 DEF StoreInv, StoreTypeOK
  <2>3. tracker' \in Tracked
    BY <1>3 DEF StoreInv, StoreTypeOK, Tracked
  <2> QED
    BY <1>3, <2>1, <2>2, <2>3 DEF StoreInv, StoreTypeOK
<1>5. Ahead'
  BY <1>3 DEF Ahead
<1>6. Remembered'
  BY <1>3 DEF Remembered
<1>7. Written'
  BY <1>3 DEF Written, Idle
<1>8. TrackedComplete'
  <2> SUFFICES ASSUME tracker'[1] = "step" PROVE TrackedComplete'
    BY DEF TrackedComplete
  <2>1. tracker' = tracker
    BY <1>3
  <2>2. tracker[2] = at /\ tracker[2] \in Steps
    BY <1>1, <2>1, StoreAssumption DEF StoreInv, Ahead, ResumeStep, StoreTypeOK, Tracked
  <2>3. save # Idle => tracker[2] # save.step
    BY <1>1, <2>2 DEF StoreInv, Ahead
  <2>4. ASSUME NEW r \in Roles, NEW k \in Ranks
        PROVE  shard'[<<r, tracker[2], k>>] = shard[<<r, tracker[2], k>>]
    <3>1. <<r, tracker[2], k>> \in DOMAIN shard
      BY <2>2 DEF StoreInv, StoreTypeOK
    <3>2. CASE save # Idle
      BY <1>2, <2>3, <3>1, <3>2
    <3>3. CASE save = Idle
      <4>1. torn = {} \/ save.pc = "write"
        BY <1>2
      <4> QED
        BY <1>2, <3>1, <3>3, <4>1 DEF Idle
    <3> QED
      BY <3>2, <3>3
  <2>5. loaderFile'[tracker[2]] = loaderFile[tracker[2]]
    BY <1>3, <2>2, <2>3 DEF StoreInv, StoreTypeOK, Idle
  <2> QED
    BY <1>3, <2>1, <2>4, <2>5 DEF StoreInv, TrackedComplete
<1> QED
  BY <1>4, <1>5, <1>6, <1>7, <1>8 DEF StoreInv

LEMMA LoadInv ==
  ASSUME StoreInv, LoadCheckpoint
  PROVE  StoreInv'
<1>1. at = Down /\ save = Idle /\ doomed = {} /\ \A r \in Roles : previous[r] = <<>>
  BY DEF StoreInv, Ahead, LoadCheckpoint
<1>2. at' = ResumeStep
      /\ UNCHANGED <<shard, loaderFile, tracker, previous, doomed, save, committed>>
  BY DEF LoadCheckpoint
<1>3. ResumeStep \in Nat
  <2>1. tracker[1] = "step" => tracker[2] \in Steps
    BY DEF StoreInv, StoreTypeOK, Tracked
  <2> QED
    BY <2>1, StoreAssumption DEF ResumeStep
<1>4. StoreTypeOK'
  BY <1>2, <1>3 DEF StoreInv, StoreTypeOK
<1>5. Ahead'
  <2>1. tracker[1] # "empty" /\ ResumeStep' = ResumeStep
    BY <1>2 DEF LoadCheckpoint, Loadable, ResumeStep
  <2>2. at' # Down
    BY <1>2, <1>3, StoreAssumption
  <2> QED
    BY <1>1, <1>2, <2>1, <2>2 DEF Ahead
<1>6. \A r \in Roles : ~Registered(r)'
  BY <1>1, <1>2 DEF Registered, Idle
<1>7. Remembered'
  BY <1>1, <1>2, <1>6 DEF Remembered, Increasing
<1>8. Written'
  BY <1>1, <1>2 DEF Written, Idle
<1>9. TrackedComplete'
  BY <1>2 DEF StoreInv, TrackedComplete
<1> QED
  BY <1>4, <1>5, <1>7, <1>8, <1>9 DEF StoreInv

-----------------------------------------------------------------------------
LEMMA StoreStutterInv ==
  ASSUME StoreInv, UNCHANGED storeVars
  PROVE  StoreInv'
BY DEF StoreInv, storeVars, StoreTypeOK, Ahead, Remembered, Written, TrackedComplete,
       Registered, RoleWritten, ResumeStep

LEMMA StoreNextInv ==
  ASSUME KeepsMore, StoreInv, [StoreNext]_storeVars
  PROVE  StoreInv'
<1>1. ASSUME NEW n \in Steps, NEW value \in Content, BeginSave(n, value) PROVE StoreInv'
  BY <1>1, BeginSaveInv
<1>2. CASE EnsureCapacity
  BY <1>2, EnsureCapacityInv
<1>3. CASE RemoveFile
  BY <1>3, RemoveFileInv
<1>4. CASE RegisterCheckpoint
  BY <1>4, RegisterCheckpointInv
<1>5. CASE RoleSaved
  BY <1>5, RoleSavedInv
<1>6. CASE SaveLoader
  BY <1>6, SaveLoaderInv
<1>7. CASE WriteTracker
  BY <1>7, WriteTrackerInv
<1>8. ASSUME NEW k \in Ranks, WriteShard(k) PROVE StoreInv'
  BY <1>8, WriteShardInv
<1>9. CASE CrashStore
  BY <1>9, CrashInv
<1>10. CASE LoadCheckpoint
  BY <1>10, LoadInv
<1>11. CASE UNCHANGED storeVars
  BY <1>11, StoreStutterInv
<1> QED
  BY <1>1, <1>2, <1>3, <1>4, <1>5, <1>6, <1>7, <1>8, <1>9, <1>10, <1>11
  DEF StoreNext, SaveProgress

LEMMA StoreInvariance ==
  ASSUME KeepsMore PROVE StoreSpec => []StoreInv
<1>1. StoreInit => StoreInv
  BY StoreInitInv
<1>2. StoreInv /\ [StoreNext]_storeVars => StoreInv'
  BY StoreNextInv
<1> QED
  BY <1>1, <1>2, PTL DEF StoreSpec

(* Types of the store, for any roles, ranks and limits but one.            *)
THEOREM StoreTypeCorrect ==
  ASSUME KeepsMore PROVE StoreSpec => []StoreTypeOK
<1>1. StoreInv => StoreTypeOK
  BY DEF StoreInv
<1> QED
  BY <1>1, StoreInvariance, PTL

(* The checkpoint that the tracker names is complete and from one save at  *)
(* every moment, whatever was saved and removed and wherever jobs were     *)
(* killed (main_ppo_sync.py:794-856, checkpoint_manager.py:142-180).       *)
THEOREM TrackedCorrect ==
  ASSUME KeepsMore PROVE StoreSpec => []TrackedComplete
<1>1. StoreInv => TrackedComplete
  BY DEF StoreInv
<1> QED
  BY <1>1, StoreInvariance, PTL

-----------------------------------------------------------------------------
(***************************************************************************)
(* For any numbers of prompts, sessions and steps: a sampled batch is      *)
(* complete, and every entry of the buffer has a step.                     *)
(*                                                                         *)
(* The prompt's tag travels from the queue to a listing to the buffer.     *)
(* The invariant says what it takes along: wherever the tag of a finished  *)
(* prompt is, the tags of what its sessions stored are there as well or in *)
(* the buffer already (Carried).  When it is in the buffer they are all    *)
(* there (Arrived), and that is when sample() returns.                     *)
(***************************************************************************)

(* A tag in the queue or in a listing of it.                               *)
ListedTag(p, k, tag) ==
  /\ k[1] <= drawn
  /\ k[2] = 0 => /\ tag.global_steps = NoStep
                 /\ tag.status \in {"finished", "failure"}
                 /\ k \in DOMAIN partitions[p]
  /\ k[2] # 0 => tag.global_steps \in Nat /\ tag.status = "success"
  /\ k[1] \in DOMAIN prompt =>
       /\ prompt[k[1]].part = p
       /\ k[2] # 0 => tag.global_steps = prompt[k[1]].step
       /\ k[2] = 0 => prompt[k[1]].stage # "running"

Listed(d) == \A p \in DOMAIN d : \A k \in DOMAIN d[p] : ListedTag(p, k, d[p][k])

(* A tag in the buffer.                                                    *)
BufferedTag(p, k, tag) ==
  /\ k[1] <= drawn
  /\ tag.global_steps # NoStep
  /\ k[2] # 0 <=> tag.status = "success"
  /\ k[1] \in DOMAIN prompt =>
       /\ prompt[k[1]].part = p
       /\ tag.global_steps = prompt[k[1]].step
       /\ k[2] = 0 /\ prompt[k[1]].stage = "running" => tag.status = "running"

Buffered ==
  \A p \in Partitions : \A k \in DOMAIN partitions[p] : BufferedTag(p, k, partitions[p][k])

Known == \A u \in DOMAIN prompt : PromptKey(u) \in DOMAIN partitions[prompt[u].part]

Ended ==
  \A k \in DOMAIN session :
    /\ k[2] # 0 /\ k[1] \in DOMAIN prompt
    /\ prompt[k[1]].stage = "finished" => session[k] \in {"stored", "empty"}

(* The keys that the sessions of prompts in a stage have stored.           *)
StoredKeys(stage) ==
  {k \in DOMAIN session : session[k] = "stored" /\ prompt[k[1]].stage = stage}
PartOf(k) == prompt[k[1]].part

Carried(d) ==
  \A k \in StoredKeys("finished") :
    PartOf(k) \in DOMAIN d /\ PromptKey(k[1]) \in DOMAIN d[PartOf(k)]
      => k \in DOMAIN d[PartOf(k)] \cup DOMAIN partitions[PartOf(k)]

Arrived ==
  \A k \in StoredKeys("finished") :
    partitions[PartOf(k)][PromptKey(k[1])].status # "running"
      => k \in DOMAIN partitions[PartOf(k)]

Kept == \A k \in StoredKeys("running") : k \in DOMAIN tq[PartOf(k)]

Held ==
  \A p \in Partitions : batch[p] # NoBatch =>
    \A k \in batch[p].keys :
      /\ k \in Keys /\ k[1] <= drawn /\ k[2] # 0
      /\ k[1] \in DOMAIN prompt =>
           /\ k \in DOMAIN partitions[p]
           /\ prompt[k[1]].part = p /\ prompt[k[1]].stage # "running"

BufferInv ==
  /\ BufferTypeOK
  /\ Listed(tq) /\ Listed(polled) /\ Buffered /\ Known /\ Ended
  /\ Carried(tq) /\ Carried(polled) /\ Arrived /\ Kept /\ Held
  /\ SampleComplete

-----------------------------------------------------------------------------
(* Dictionaries.                                                           *)
LEMMA AddedFacts ==
  ASSUME NEW dict, NEW items
  PROVE  /\ DOMAIN Added(dict, items) = DOMAIN dict \cup DOMAIN items
         /\ \A k \in DOMAIN items \ DOMAIN dict : Added(dict, items)[k] = items[k]
         /\ \A k \in DOMAIN items \cap DOMAIN dict :
              Added(dict, items)[k] = Updated(dict[k], items[k])
         /\ \A k \in DOMAIN dict \ DOMAIN items : Added(dict, items)[k] = dict[k]
BY DEF Added

LEMMA UpdatedFacts ==
  ASSUME NEW old \in Tags, NEW new \in Tags
  PROVE  /\ Updated(old, new) \in Tags
         /\ Updated(old, new).status = new.status
         /\ Updated(old, new).global_steps =
              IF new.global_steps = NoStep THEN old.global_steps ELSE new.global_steps
BY DEF Updated, Tags

LEMMA AddedDict ==
  ASSUME NEW dict, NEW items, IsDict(dict), IsDict(items)
  PROVE  IsDict(Added(dict, items))
<1> DEFINE new == Added(dict, items)
<1>1. DOMAIN new = DOMAIN dict \cup DOMAIN items
  BY AddedFacts
<1>2. ASSUME NEW k \in DOMAIN new PROVE new[k] \in Tags
  <2>1. CASE k \in DOMAIN items \ DOMAIN dict
    BY <2>1 DEF Added, IsDict
  <2>2. CASE k \in DOMAIN items \cap DOMAIN dict
    <3>1. dict[k] \in Tags /\ items[k] \in Tags /\ new[k] = Updated(dict[k], items[k])
      BY <2>2 DEF Added, IsDict
    <3> QED
      BY <3>1, UpdatedFacts
  <2>3. CASE k \in DOMAIN dict \ DOMAIN items
    BY <2>3 DEF Added, IsDict
  <2> QED
    BY <1>1, <1>2, <2>1, <2>2, <2>3
<1> QED
  BY <1>1, <1>2 DEF IsDict

LEMMA MarkedFacts ==
  ASSUME NEW keys, NEW step, NEW status
  PROVE  /\ DOMAIN Marked(keys, step, status) = keys
         /\ \A k \in keys : /\ Marked(keys, step, status)[k].global_steps = step
                            /\ Marked(keys, step, status)[k].status = status
BY DEF Marked

LEMMA MarkedDict ==
  ASSUME NEW keys \in SUBSET Keys, NEW step \in Nat \cup {NoStep}, NEW status \in Status
  PROVE  IsDict(Marked(keys, step, status))
BY DEF Marked, IsDict, Tags

LEMMA WithoutFacts ==
  ASSUME NEW dict, NEW keys
  PROVE  /\ DOMAIN Without(dict, keys) = DOMAIN dict \ keys
         /\ \A k \in DOMAIN dict \ keys : Without(dict, keys)[k] = dict[k]
BY DEF Without

-----------------------------------------------------------------------------
LEMMA BufferInitInv == BufferInit => BufferInv
<1> SUFFICES ASSUME BufferInit PROVE BufferInv
  OBVIOUS
<1>1. BufferTypeOK
  BY DEF BufferInit, BufferTypeOK, Nothing, IsDict
<1>2. Listed(tq) /\ Listed(polled) /\ Buffered
  BY DEF BufferInit, Listed, Buffered, Nothing
<1>3. Known /\ Ended /\ StoredKeys("finished") = {} /\ StoredKeys("running") = {}
  BY DEF BufferInit, Known, Ended, StoredKeys, Nothing
<1>4. Carried(tq) /\ Carried(polled) /\ Arrived /\ Kept
  BY <1>3 DEF Carried, Arrived, Kept
<1>5. Held
  BY DEF BufferInit, Held
<1>6. SampleComplete
  BY DEF BufferInit, SampleComplete, Nothing
<1> QED
  BY <1>1, <1>2, <1>3, <1>4, <1>5, <1>6 DEF BufferInv

-----------------------------------------------------------------------------
(* The poll thread.                                                        *)
LEMMA PollListInv ==
  ASSUME BufferInv, PollList
  PROVE  BufferInv'
<1>1. polled' = tq /\ UNCHANGED <<tq, partitions, prompt, session, drawn, batch>>
  BY DEF PollList
<1>2. BufferTypeOK'
  BY <1>1 DEF BufferInv, BufferTypeOK
<1>3. Listed(tq)' /\ Listed(polled)' /\ Buffered'
  BY <1>1 DEF BufferInv, Listed, ListedTag, Buffered, BufferedTag
<1>4. Known' /\ Ended'
  BY <1>1 DEF BufferInv, Known, Ended
<1>5. Carried(tq)' /\ Carried(polled)' /\ Arrived' /\ Kept'
  BY <1>1 DEF BufferInv, Carried, Arrived, Kept, StoredKeys, PartOf
<1>6. Held' /\ SampleComplete'
  BY <1>1 DEF BufferInv, Held, SampleComplete, SessionsOf
<1> QED
  BY <1>2, <1>3, <1>4, <1>5, <1>6 DEF BufferInv

(* The added tags keep the steps of the prompts, and what they say of a    *)
(* prompt that has finished they bring along.                              *)
LEMMA PollAddInv ==
  ASSUME BufferInv, NEW p \in Partitions, PollAdd(p)
  PROVE  BufferInv'
<1> DEFINE new == Added(partitions[p], polled[p])
<1>1. /\ p \in DOMAIN polled
      /\ partitions' = [partitions EXCEPT ![p] = new]
      /\ polled' = Without(polled, {p})
      /\ UNCHANGED <<tq, prompt, session, drawn, batch>>
  BY DEF PollAdd
<1>2. /\ partitions'[p] = new
      /\ DOMAIN partitions' = Partitions
      /\ \A q \in Partitions \ {p} : partitions'[q] = partitions[q]
  BY <1>1 DEF BufferInv, BufferTypeOK
<1>3. /\ DOMAIN polled' = DOMAIN polled \ {p}
      /\ \A q \in DOMAIN polled' : polled'[q] = polled[q]
  BY <1>1 DEF Without
<1>4. IsDict(partitions[p]) /\ IsDict(polled[p]) /\ IsDict(new)
  BY <1>1, AddedDict DEF BufferInv, BufferTypeOK
<1>5. DOMAIN new = DOMAIN partitions[p] \cup DOMAIN polled[p]
  BY AddedFacts
<1>6. \A q \in Partitions : DOMAIN partitions[q] \subseteq DOMAIN partitions'[q]
  BY <1>2, <1>5
<1>7. BufferTypeOK'
  BY <1>1, <1>2, <1>3, <1>4 DEF BufferInv, BufferTypeOK
<1>8. Listed(tq)' /\ Listed(polled)'
  <2>1. DOMAIN tq = Partitions /\ DOMAIN polled \subseteq Partitions
    BY DEF BufferInv, BufferTypeOK
  <2>2. ASSUME NEW q \in Partitions, NEW k, NEW tag, ListedTag(q, k, tag)
        PROVE  ListedTag(q, k, tag)'
    BY <1>1, <1>6, <2>2 DEF ListedTag
  <2> QED
    BY <1>1, <1>3, <2>1, <2>2 DEF BufferInv, Listed
<1>9. Buffered'
  <2> SUFFICES ASSUME NEW k \in DOMAIN new PROVE BufferedTag(p, k, partitions[p][k])'
    BY <1>1, <1>2 DEF BufferInv, Buffered, BufferedTag
  <2>7. partitions'[p][k] = new[k]
    BY <1>2
  <2>1. k \in Keys /\ NoStep \notin Nat
    BY <1>4, BufferAssumption DEF IsDict
  <2>2. k \in DOMAIN partitions[p] => BufferedTag(p, k, partitions[p][k])
    BY DEF BufferInv, Buffered
  <2>3. k \in DOMAIN polled[p] => ListedTag(p, k, polled[p][k])
    BY <1>1 DEF BufferInv, Listed
  <2>4. CASE k \in DOMAIN polled[p] \ DOMAIN partitions[p]
    <3>1. new[k] = polled[p][k]
      BY <2>4 DEF Added
    <3>2. k[2] # 0
      BY <2>3, <2>4 DEF ListedTag
    <3> QED
      BY <1>1, <2>1, <2>3, <2>4, <3>1, <3>2, <2>7 DEF ListedTag, BufferedTag
  <2>5. CASE k \in DOMAIN polled[p] \cap DOMAIN partitions[p]
    <3>1. /\ new[k].status = polled[p][k].status
          /\ new[k].global_steps = IF polled[p][k].global_steps = NoStep
                                   THEN partitions[p][k].global_steps
                                   ELSE polled[p][k].global_steps
      <4>1. new[k] = Updated(partitions[p][k], polled[p][k])
        BY <2>5 DEF Added
      <4> QED
        BY <4>1 DEF Updated
    <3> QED
      BY <1>1, <2>1, <2>2, <2>3, <2>5, <3>1, <2>7 DEF ListedTag, BufferedTag
  <2>6. CASE k \in DOMAIN partitions[p] \ DOMAIN polled[p]
    <3>1. new[k] = partitions[p][k]
      BY <2>6 DEF Added
    <3> QED
      BY <1>1, <2>2, <2>6, <3>1, <2>7 DEF BufferedTag
  <2> QED
    BY <1>5, <2>4, <2>5, <2>6
<1>10. Known' /\ Ended'
  <2>1. \A u \in DOMAIN prompt : prompt[u].part \in Partitions
    BY DEF BufferInv, BufferTypeOK, PromptRecord
  <2> QED
    BY <1>1, <1>6, <2>1 DEF BufferInv, Known, Ended
<1>11. \A s \in {"running", "finished"} : StoredKeys(s)' = StoredKeys(s)
  BY <1>1 DEF StoredKeys
<1>12. \A k \in StoredKeys("finished") :
         PartOf(k)' = PartOf(k) /\ PartOf(k) \in Partitions /\ PromptKey(k[1]) \in DOMAIN partitions[PartOf(k)]
  BY <1>1 DEF StoredKeys, PartOf, BufferInv, Ended, Known, BufferTypeOK, PromptRecord
<1>13. Carried(tq)' /\ Kept'
  BY <1>1, <1>6, <1>11, <1>12 DEF BufferInv, Carried, Kept, PartOf
<1>14. Carried(polled)'
  BY <1>3, <1>6, <1>11, <1>12 DEF BufferInv, Carried
<1>15. Arrived'
  <2> SUFFICES ASSUME NEW k \in StoredKeys("finished"),
                      partitions'[PartOf(k)][PromptKey(k[1])].status # "running"
               PROVE  k \in DOMAIN partitions'[PartOf(k)]
    BY <1>11, <1>12 DEF Arrived
  <2>1. CASE PartOf(k) # p
    BY <1>2, <1>12, <2>1 DEF BufferInv, Arrived
  <2>2. CASE PartOf(k) = p /\ PromptKey(k[1]) \in DOMAIN polled[p]
    BY <1>1, <1>2, <1>5, <2>2 DEF BufferInv, Carried
  <2>3. CASE PartOf(k) = p /\ PromptKey(k[1]) \notin DOMAIN polled[p]
    <3>1. new[PromptKey(k[1])] = partitions[p][PromptKey(k[1])]
      BY <1>12, <2>3 DEF Added
    <3> QED
      BY <1>2, <1>6, <2>3, <3>1 DEF BufferInv, Arrived
  <2> QED
    BY <2>1, <2>2, <2>3
<1>16. Held'
  BY <1>1, <1>6 DEF BufferInv, Held
<1>17. SampleComplete'
  BY <1>1 DEF BufferInv, SampleComplete, SessionsOf
<1> QED
  BY <1>7, <1>8, <1>9, <1>10, <1>13, <1>14, <1>15, <1>16, <1>17 DEF BufferInv

-----------------------------------------------------------------------------
(* The trainer hands out prompts: their uids are new everywhere.           *)
LEMMA GenerateInv ==
  ASSUME BufferInv, NEW p \in Partitions, NEW step \in Nat, NEW ns \in Seq(Nat),
         batch[p] = NoBatch, Generate(p, step, ns)
  PROVE  BufferInv'
<1> DEFINE us == {drawn + i : i \in 1..Len(ns)}
           ks == UNION {{drawn + i} \X (1..ns[i]) : i \in 1..Len(ns)}
           tags == Marked({PromptKey(u) : u \in us}, step, "running")
<1>1. /\ drawn' = drawn + Len(ns)
      /\ partitions' = [partitions EXCEPT ![p] = Added(@, tags)]
      /\ prompt' = [u \in DOMAIN prompt \cup us |->
            IF u \in us THEN [part |-> p, step |-> step, stage |-> "running"] ELSE prompt[u]]
      /\ session' = [k \in DOMAIN session \cup ks |->
            IF k \in ks THEN "running" ELSE session[k]]
      /\ UNCHANGED <<tq, polled, batch>>
  BY DEF Generate
<1>2. drawn \in Nat /\ Len(ns) \in Nat /\ \A i \in 1..Len(ns) : ns[i] \in Nat
  BY DEF BufferInv, BufferTypeOK
<1>3. \A u \in us : u \in Nat /\ u > drawn /\ u <= drawn' /\ u \in 1..drawn'
  BY <1>1, <1>2
<1>4. \A k \in ks : k \in Keys /\ k[1] \in us /\ k[2] # 0
  BY <1>2, <1>3 DEF Keys
<1>5. /\ \A u \in DOMAIN prompt : u \in Nat /\ u <= drawn /\ u \notin us
      /\ \A k \in DOMAIN session : k \in Keys /\ k[1] \in DOMAIN prompt /\ k \notin ks
  BY <1>2, <1>3, <1>4 DEF BufferInv, BufferTypeOK, Ended
<1>6. /\ DOMAIN prompt' = DOMAIN prompt \cup us
      /\ \A u \in DOMAIN prompt : prompt'[u] = prompt[u]
      /\ \A u \in us : prompt'[u] = [part |-> p, step |-> step, stage |-> "running"]
      /\ DOMAIN session' = DOMAIN session \cup ks
      /\ \A k \in DOMAIN session : session'[k] = session[k]
      /\ \A k \in ks : session'[k] = "running"
  BY <1>1, <1>5
<1> HIDE DEF us, ks
<1>7. /\ DOMAIN tags = {PromptKey(u) : u \in us}
      /\ \A k \in DOMAIN tags : /\ k \in Keys /\ k[1] \in us /\ k[2] = 0
                               /\ tags[k].global_steps = step /\ tags[k].status = "running"
      /\ IsDict(tags)
  <2>1. \A u \in us : PromptKey(u) \in Keys /\ PromptKey(u)[1] = u /\ PromptKey(u)[2] = 0
    BY <1>3 DEF PromptKey, Keys
  <2>2. {PromptKey(u) : u \in us} \in SUBSET Keys /\ "running" \in Status
    BY <2>1 DEF Status
  <2> QED
    BY <2>1, <2>2, MarkedFacts, MarkedDict
<1> HIDE DEF tags
<1>8. /\ DOMAIN partitions' = Partitions
      /\ \A q \in Partitions \ {p} : partitions'[q] = partitions[q]
      /\ partitions'[p] = Added(partitions[p], tags)
      /\ DOMAIN partitions'[p] = DOMAIN partitions[p] \cup DOMAIN tags
      /\ IsDict(partitions'[p])
  BY <1>1, <1>7, AddedDict, AddedFacts DEF BufferInv, BufferTypeOK
<1>9. \A q \in Partitions : \A k \in DOMAIN partitions[q] :
        /\ k \in Keys /\ k[1] \in Nat /\ k[1] <= drawn /\ k[1] \notin us /\ k \notin DOMAIN tags
        /\ k \in DOMAIN partitions'[q] /\ partitions'[q][k] = partitions[q][k]
  <2> SUFFICES ASSUME NEW q \in Partitions, NEW k \in DOMAIN partitions[q]
               PROVE  /\ k \in Keys /\ k[1] \in Nat /\ k[1] <= drawn /\ k[1] \notin us
                      /\ k \notin DOMAIN tags
                      /\ k \in DOMAIN partitions'[q] /\ partitions'[q][k] = partitions[q][k]
    OBVIOUS
  <2>1. k \in Keys /\ k[1] <= drawn
    BY DEF BufferInv, BufferTypeOK, IsDict, Buffered, BufferedTag
  <2>2. k[1] \in Nat /\ k[1] \notin us
    BY <2>1, <1>2, <1>3 DEF Keys
  <2>3. k \notin DOMAIN tags
    BY <2>2, <1>7
  <2>4. Added(partitions[p], tags)[k] = partitions[p][k] \/ k \notin DOMAIN partitions[p]
    BY <2>3 DEF Added
  <2> QED
    BY <2>1, <2>2, <2>3, <2>4, <1>8
<1>10. BufferTypeOK'
  <2>1. \A q \in Partitions : IsDict(partitions'[q])
    BY <1>8 DEF BufferInv, BufferTypeOK
  <2>2. drawn' \in Nat
    BY <1>1, <1>2
  <2>3. DOMAIN prompt' \subseteq 1..drawn' /\ \A u \in DOMAIN prompt' : prompt'[u] \in PromptRecord
    <3>1. DOMAIN prompt' \subseteq 1..drawn'
      BY <1>1, <1>2, <1>3, <1>5, <1>6 DEF BufferInv, BufferTypeOK
    <3> QED
      BY <3>1, <1>6 DEF BufferInv, BufferTypeOK, PromptRecord
  <2>4. DOMAIN session' \subseteq Keys /\ \A k \in DOMAIN session' : session'[k] \in SessionState
    BY <1>4, <1>5, <1>6 DEF BufferInv, BufferTypeOK, SessionState
  <2> QED
    BY <1>1, <1>8, <2>1, <2>2, <2>3, <2>4 DEF BufferInv, BufferTypeOK
<1>11. ASSUME NEW q \in Partitions, NEW k \in Keys, NEW tag, ListedTag(q, k, tag)
       PROVE  ListedTag(q, k, tag)'
  <2>1. k[1] \in Nat /\ k[1] <= drawn /\ k[1] <= drawn' /\ k[1] \notin us
    BY <1>1, <1>2, <1>3, <1>11 DEF ListedTag, Keys
  <2> QED
    BY <1>6, <1>9, <1>11, <2>1 DEF ListedTag
<1>12. Listed(tq)' /\ Listed(polled)'
  BY <1>1, <1>11 DEF BufferInv, BufferTypeOK, Listed, IsDict
<1>13. Buffered'
  <2> SUFFICES ASSUME NEW q \in Partitions, NEW k \in DOMAIN partitions'[q]
               PROVE  BufferedTag(q, k, partitions[q][k])'
    BY DEF Buffered
  <2>1. CASE k \in DOMAIN partitions[q]
    <3>1. /\ BufferedTag(q, k, partitions[q][k])
          /\ k[1] \in Nat /\ k[1] <= drawn' /\ k[1] \notin us
      BY <1>1, <1>2, <1>9, <2>1 DEF BufferInv, Buffered
    <3> QED
      BY <1>6, <1>9, <2>1, <3>1 DEF BufferedTag
  <2>2. CASE q = p /\ k \in DOMAIN tags \ DOMAIN partitions[p]
    <3>1. partitions'[q][k] = tags[k]
      BY <1>8, <2>2 DEF Added
    <3>2. k[1] \in us /\ k[2] = 0 /\ tags[k].global_steps = step /\ tags[k].status = "running"
      BY <1>7, <2>2
    <3> QED
      BY <1>3, <1>6, <2>2, <3>1, <3>2, BufferAssumption DEF BufferedTag
  <2> QED
    BY <1>8, <2>1, <2>2
<1>14. Known' /\ Ended'
  <2>1. ASSUME NEW u \in DOMAIN prompt' PROVE PromptKey(u) \in DOMAIN partitions'[prompt'[u].part]
    <3>1. CASE u \in us
      BY <1>6, <1>7, <1>8, <3>1
    <3>2. CASE u \in DOMAIN prompt
      <4>1. prompt[u].part \in Partitions
        BY <3>2 DEF BufferInv, BufferTypeOK, PromptRecord
      <4> QED
        BY <1>6, <1>9, <3>2, <4>1 DEF BufferInv, Known
    <3> QED
      BY <1>6, <3>1, <3>2
  <2>2. Ended'
    BY <1>4, <1>5, <1>6 DEF BufferInv, Ended
  <2> QED
    BY <2>1, <2>2 DEF Known
<1>15. /\ StoredKeys("finished")' = StoredKeys("finished")
       /\ StoredKeys("running")' = StoredKeys("running")
  BY <1>4, <1>5, <1>6 DEF StoredKeys
<1>16. \A s \in {"running", "finished"} : \A k \in StoredKeys(s) :
         /\ PartOf(k)' = PartOf(k) /\ PartOf(k) \in Partitions
         /\ PromptKey(k[1]) \in DOMAIN partitions[PartOf(k)]
  BY <1>5, <1>6 DEF StoredKeys, PartOf, BufferInv, Known, BufferTypeOK, PromptRecord
<1>17. Carried(tq)' /\ Carried(polled)' /\ Arrived' /\ Kept'
  <2>1. Carried(tq)' /\ Carried(polled)'
    BY <1>1, <1>9, <1>15, <1>16 DEF BufferInv, Carried
  <2>2. Arrived'
    BY <1>9, <1>15, <1>16 DEF BufferInv, Arrived
  <2>3. Kept'
    BY <1>1, <1>15, <1>16 DEF BufferInv, Kept
  <2> QED
    BY <2>1, <2>2, <2>3
<1>18. Held'
  <2> SUFFICES ASSUME NEW q \in Partitions, batch[q] # NoBatch, NEW k \in batch[q].keys
               PROVE  /\ k \in Keys /\ k[1] <= drawn' /\ k[2] # 0
                      /\ k[1] \in DOMAIN prompt' =>
                           /\ k \in DOMAIN partitions'[q]
                           /\ prompt'[k[1]].part = q /\ prompt'[k[1]].stage # "running"
    BY <1>1 DEF Held
  <2>1. /\ k \in Keys /\ k[1] <= drawn /\ k[2] # 0
        /\ k[1] \in DOMAIN prompt => /\ k \in DOMAIN partitions[q]
                                    /\ prompt[k[1]].part = q /\ prompt[k[1]].stage # "running"
    BY DEF BufferInv, Held
  <2>2. k[1] \in Nat /\ k[1] <= drawn' /\ k[1] \notin us
    BY <1>1, <1>2, <1>3, <2>1 DEF Keys
  <2> QED
    BY <1>6, <1>9, <2>1, <2>2
<1>19. SampleComplete'
  <2> SUFFICES ASSUME NEW u \in DOMAIN prompt',
                      batch[prompt'[u].part] # NoBatch,
                      prompt'[u].step = batch[prompt'[u].part].step
               PROVE  /\ prompt'[u].stage # "running"
                      /\ prompt'[u].stage = "finished" =>
                           \A k \in SessionsOf(u)' : session'[k] = "stored" =>
                             k \in batch[prompt'[u].part].keys
    BY <1>1, ZenonT(40) DEF SampleComplete
  <2>1. u \in DOMAIN prompt /\ prompt'[u] = prompt[u]
    BY <1>6
  <2>2. u \notin us /\ \A k \in SessionsOf(u)' : k \in SessionsOf(u) /\ session'[k] = session[k]
    BY <1>4, <1>5, <1>6, <2>1 DEF SessionsOf
  <2> QED
    BY <2>1, <2>2 DEF BufferInv, SampleComplete
<1> QED
  BY <1>10, <1>12, <1>13, <1>14, <1>17, <1>18, <1>19 DEF BufferInv

-----------------------------------------------------------------------------
(* The workers.                                                            *)
Stored(d, k, step, status) == Added(d, Marked({k}, step, status))

LEMMA AddedOne ==
  ASSUME NEW d, IsDict(d), NEW k \in Keys, NEW status \in Status,
         NEW step, step \in Nat \/ step = NoStep
  PROVE  /\ IsDict(Stored(d, k, step, status))
         /\ \A x \in DOMAIN d \ {k} : Stored(d, k, step, status)[x] = d[x]
         /\ Stored(d, k, step, status)[k].status = status
         /\ step # NoStep \/ k \notin DOMAIN d => Stored(d, k, step, status)[k].global_steps = step
         /\ step = NoStep /\ k \in DOMAIN d =>
              Stored(d, k, step, status)[k].global_steps = d[k].global_steps
<1> DEFINE one == Marked({k}, step, status)
           new == Stored(d, k, step, status)
<1>1. /\ DOMAIN one = {k} /\ IsDict(one)
      /\ one[k].global_steps = step /\ one[k].status = status
  BY MarkedDict, ZenonT(40) DEF Marked
<1>6. new = Added(d, one)
  BY DEF Stored
<1> HIDE DEF one, new
<1>2. IsDict(new) /\ DOMAIN new = DOMAIN d \cup {k}
  BY <1>1, <1>6, AddedDict, AddedFacts
<1>3. ASSUME NEW x \in DOMAIN d \ {k} PROVE new[x] = d[x]
  BY <1>1, <1>6, <1>3 DEF Added
<1>4. /\ new[k].status = status
      /\ step # NoStep \/ k \notin DOMAIN d => new[k].global_steps = step
      /\ step = NoStep /\ k \in DOMAIN d => new[k].global_steps = d[k].global_steps
  <2>1. CASE k \in DOMAIN d
    <3>1. new[k] = Updated(d[k], one[k])
      BY <1>1, <1>6, <2>1 DEF Added
    <3>2. new[k].status = one[k].status
      BY <3>1 DEF Updated
    <3>3. new[k].global_steps = IF one[k].global_steps = NoStep THEN d[k].global_steps
                                ELSE one[k].global_steps
      BY <3>1 DEF Updated
    <3> QED
      BY <1>1, <2>1, <3>2, <3>3
  <2>2. CASE k \notin DOMAIN d
    <3>1. new[k] = one[k]
      BY <1>1, <1>6, <2>2 DEF Added
    <3> QED
      BY <1>1, <2>2, <3>1
  <2> QED
    BY <2>1, <2>2
<1> QED
  BY <1>2, <1>3, <1>4 DEF new

LEMMA SessionStoresInv ==
  ASSUME BufferInv, NEW k \in DOMAIN session, SessionStores(k)
  PROVE  BufferInv'
<1> DEFINE u == k[1]
           p == prompt[u].part
           new == Stored(tq[p], k, prompt[u].step, "success")
<1>1. /\ session[k] = "running"
      /\ session' = [session EXCEPT ![k] = "stored"]
      /\ tq' = [tq EXCEPT ![p] = new]
      /\ UNCHANGED <<partitions, polled, prompt, drawn, batch>>
  BY DEF SessionStores, Stored
<1>2. /\ k \in Keys /\ k[2] # 0 /\ u \in DOMAIN prompt /\ u <= drawn
      /\ prompt[u] \in PromptRecord /\ p \in Partitions /\ prompt[u].step \in Nat
      /\ prompt[u].stage # "finished"
  <2>1. k \in Keys /\ k[2] # 0 /\ u \in DOMAIN prompt /\ prompt[u].stage # "finished"
    BY <1>1 DEF BufferInv, BufferTypeOK, Ended
  <2> QED
    BY <2>1 DEF BufferInv, BufferTypeOK, PromptRecord
<1>3. /\ IsDict(new) /\ DOMAIN new = DOMAIN tq[p] \cup {k}
      /\ \A x \in DOMAIN tq[p] \ {k} : new[x] = tq[p][x]
      /\ new[k].status = "success" /\ new[k].global_steps = prompt[u].step
  <2>1. IsDict(tq[p]) /\ "success" \in Status /\ prompt[u].step # NoStep
    BY <1>2, BufferAssumption DEF BufferInv, BufferTypeOK, Status
  <2>2. k \in Keys /\ prompt[u].step \in Nat
    BY <1>2
  <2> HIDE DEF u, p
  <2>3. DOMAIN new = DOMAIN tq[p] \cup {k}
    BY DEF Stored, Added, Marked
  <2> QED
    BY <2>1, <2>2, <2>3, AddedOne
<1>4. /\ DOMAIN tq' = Partitions /\ DOMAIN tq = Partitions
      /\ \A q \in Partitions \ {p} : tq'[q] = tq[q]
      /\ tq'[p] = new
  BY <1>1, <1>2 DEF BufferInv, BufferTypeOK
<1> HIDE DEF p, u, new
<1>5. /\ DOMAIN session' = DOMAIN session /\ session'[k] = "stored"
      /\ \A x \in DOMAIN session \ {k} : session'[x] = session[x]
  BY <1>1
<1>6. BufferTypeOK'
  BY <1>1, <1>3, <1>4, <1>5 DEF BufferInv, BufferTypeOK, SessionState
<1>7. Listed(tq)'
  <2> SUFFICES ASSUME NEW q \in Partitions, NEW x \in DOMAIN tq'[q]
               PROVE  ListedTag(q, x, tq[q][x])'
    BY <1>4 DEF Listed
  <2>1. CASE q = p /\ x = k
    BY <1>1, <1>2, <1>3, <1>4, <2>1 DEF ListedTag, u, p
  <2>2. CASE q # p \/ x # k
    <3>1. x \in DOMAIN tq[q] /\ tq'[q][x] = tq[q][x]
      BY <1>3, <1>4, <2>2
    <3> QED
      BY <1>1, <1>4, <3>1 DEF BufferInv, Listed, ListedTag
  <2> QED
    BY <2>1, <2>2
<1>8. Listed(polled)' /\ Buffered' /\ Known'
  BY <1>1 DEF BufferInv, Listed, ListedTag, Buffered, BufferedTag, Known
<1>9. Ended'
  BY <1>1, <1>5 DEF BufferInv, Ended
<1>10. /\ StoredKeys("finished")' = StoredKeys("finished")
       /\ StoredKeys("running")' \subseteq StoredKeys("running") \cup {k}
       /\ \A x : PartOf(x)' = PartOf(x)
  BY <1>1, <1>2, <1>5 DEF StoredKeys, PartOf, u
<1>11. \A x \in StoredKeys("finished") : PartOf(x) \in Partitions
  BY DEF StoredKeys, PartOf, BufferInv, Ended, BufferTypeOK, PromptRecord
<1>12. Carried(tq)'
  <2> SUFFICES ASSUME NEW x \in StoredKeys("finished"),
                      PromptKey(x[1]) \in DOMAIN tq'[PartOf(x)]
               PROVE  x \in DOMAIN tq'[PartOf(x)] \cup DOMAIN partitions[PartOf(x)]
    BY <1>1, <1>10 DEF Carried
  <2>1. PromptKey(x[1]) # k
    BY <1>2 DEF PromptKey
  <2> QED
    BY <1>3, <1>4, <1>11, <2>1 DEF BufferInv, Carried
<1>13. Carried(polled)' /\ Arrived'
  BY <1>1, <1>10 DEF BufferInv, Carried, Arrived
<1>14. Kept'
  <2> SUFFICES ASSUME NEW x \in StoredKeys("running")' PROVE x \in DOMAIN tq'[PartOf(x)]
    BY <1>10 DEF Kept
  <2>1. CASE x = k
    BY <1>3, <1>4, <2>1 DEF PartOf, p, u
  <2>2. CASE x \in StoredKeys("running")
    <3>1. x \in DOMAIN tq[PartOf(x)] /\ PartOf(x) \in Partitions
      BY <2>2 DEF BufferInv, Kept, StoredKeys, PartOf, Ended, BufferTypeOK, PromptRecord
    <3> QED
      BY <1>3, <1>4, <3>1
  <2> QED
    BY <1>10, <2>1, <2>2
<1>15. Held'
  BY <1>1 DEF BufferInv, Held
<1>16. SampleComplete'
  <2> SUFFICES ASSUME NEW v \in DOMAIN prompt,
                      batch[prompt[v].part] # NoBatch,
                      prompt[v].step = batch[prompt[v].part].step
               PROVE  /\ prompt[v].stage # "running"
                      /\ prompt[v].stage = "finished" =>
                           \A x \in DOMAIN session : x[1] = v /\ session'[x] = "stored" =>
                             x \in batch[prompt[v].part].keys
    BY <1>1, <1>5 DEF SampleComplete, SessionsOf
  <2> QED
    BY <1>2, <1>5 DEF BufferInv, SampleComplete, SessionsOf, u
<1> QED
  BY <1>6, <1>7, <1>8, <1>9, <1>12, <1>13, <1>14, <1>15, <1>16 DEF BufferInv

LEMMA SessionStoresNothingInv ==
  ASSUME BufferInv, NEW k \in DOMAIN session, NEW end \in {"empty", "failed"},
         SessionStoresNothing(k, end)
  PROVE  BufferInv'
<1>1. /\ session[k] = "running"
      /\ session' = [session EXCEPT ![k] = end]
      /\ UNCHANGED <<tq, partitions, polled, prompt, drawn, batch>>
  BY DEF SessionStoresNothing
<1>2. prompt[k[1]].stage # "finished"
  BY <1>1 DEF BufferInv, Ended
<1>3. /\ DOMAIN session' = DOMAIN session /\ session'[k] = end
      /\ \A x \in DOMAIN session \ {k} : session'[x] = session[x]
  BY <1>1
<1>4. BufferTypeOK'
  BY <1>1, <1>3 DEF BufferInv, BufferTypeOK, SessionState
<1>5. Listed(tq)' /\ Listed(polled)' /\ Buffered' /\ Known' /\ Held'
  BY <1>1 DEF BufferInv, Listed, ListedTag, Buffered, BufferedTag, Known, Held
<1>6. Ended'
  BY <1>1, <1>2, <1>3 DEF BufferInv, Ended
<1>7. \A s : StoredKeys(s)' = StoredKeys(s)
  BY <1>1, <1>3 DEF StoredKeys
<1>8. Carried(tq)' /\ Carried(polled)' /\ Arrived' /\ Kept'
  BY <1>1, <1>7 DEF BufferInv, Carried, Arrived, Kept, PartOf
<1>9. SampleComplete'
  <2> SUFFICES ASSUME NEW v \in DOMAIN prompt,
                      batch[prompt[v].part] # NoBatch,
                      prompt[v].step = batch[prompt[v].part].step
               PROVE  /\ prompt[v].stage # "running"
                      /\ prompt[v].stage = "finished" =>
                           \A x \in DOMAIN session : x[1] = v /\ session'[x] = "stored" =>
                             x \in batch[prompt[v].part].keys
    BY <1>1, <1>3 DEF SampleComplete, SessionsOf
  <2> QED
    BY <1>2, <1>3 DEF BufferInv, SampleComplete, SessionsOf
<1> QED
  BY <1>4, <1>5, <1>6, <1>8, <1>9 DEF BufferInv

(* What a finished prompt's sessions stored is in the queue already, while *)
(* neither a listing nor the buffer can have its tag.                      *)
LEMMA EndPromptInv ==
  ASSUME BufferInv, NEW u \in DOMAIN prompt,
         NEW stage \in {"finished", "failed"}, NEW status \in {"finished", "failure"},
         stage = "finished" => GatherReturns(u),
         EndPrompt(u, stage, status)
  PROVE  BufferInv'
<1> DEFINE p == prompt[u].part
           new == Stored(tq[p], PromptKey(u), NoStep, status)
<1>1. /\ prompt[u].stage = "running"
      /\ prompt' = [prompt EXCEPT ![u].stage = stage]
      /\ tq' = [tq EXCEPT ![p] = new]
      /\ UNCHANGED <<partitions, polled, session, drawn, batch>>
  BY DEF EndPrompt, Stored
<1>2. /\ prompt[u] \in PromptRecord /\ p \in Partitions /\ u \in Nat /\ u <= drawn
      /\ PromptKey(u) \in DOMAIN partitions[p]
  BY DEF BufferInv, BufferTypeOK, PromptRecord, Known
<1>3. /\ DOMAIN prompt' = DOMAIN prompt
      /\ \A v \in DOMAIN prompt : prompt'[v].part = prompt[v].part
      /\ \A v \in DOMAIN prompt : prompt'[v].step = prompt[v].step
      /\ \A v \in DOMAIN prompt : prompt[v] \in PromptRecord /\ prompt'[v] \in PromptRecord
      /\ \A v \in DOMAIN prompt : v # u => prompt'[v] = prompt[v]
      /\ prompt'[u].stage = stage
  BY <1>1, <1>2 DEF BufferInv, BufferTypeOK, PromptRecord
<1>4. /\ PromptKey(u) \in Keys /\ PromptKey(u)[1] = u /\ PromptKey(u)[2] = 0
  BY <1>2 DEF PromptKey, Keys
<1>5. /\ IsDict(new) /\ DOMAIN new = DOMAIN tq[p] \cup {PromptKey(u)}
      /\ \A x \in DOMAIN tq[p] \ {PromptKey(u)} : new[x] = tq[p][x]
      /\ new[PromptKey(u)].status = status
      /\ new[PromptKey(u)].global_steps = NoStep
  <2>1. IsDict(tq[p]) /\ status \in Status
    BY <1>2 DEF BufferInv, BufferTypeOK, Status
  <2>2. PromptKey(u) \in DOMAIN tq[p] => tq[p][PromptKey(u)].global_steps = NoStep
    BY <1>2, <1>4 DEF BufferInv, BufferTypeOK, Listed, ListedTag
  <2>3. PromptKey(u) \in Keys
    BY <1>4
  <2> HIDE DEF p
  <2>4. DOMAIN new = DOMAIN tq[p] \cup {PromptKey(u)}
    BY DEF Stored, Added, Marked
  <2>5. /\ IsDict(new) /\ new[PromptKey(u)].status = status
        /\ \A x \in DOMAIN tq[p] \ {PromptKey(u)} : new[x] = tq[p][x]
    BY <2>1, <2>3, AddedOne
  <2>6. new[PromptKey(u)].global_steps = NoStep
    BY <2>1, <2>2, <2>3, AddedOne
  <2> QED
    BY <2>4, <2>5, <2>6
<1>6. /\ DOMAIN tq' = Partitions /\ DOMAIN tq = Partitions
      /\ \A q \in Partitions \ {p} : tq'[q] = tq[q]
      /\ tq'[p] = new
  BY <1>1, <1>2 DEF BufferInv, BufferTypeOK
<1> HIDE DEF p, new
<1>7. BufferTypeOK'
  <2>1. \A q \in Partitions : IsDict(tq'[q])
    BY <1>5, <1>6 DEF BufferInv, BufferTypeOK
  <2> QED
    BY <1>1, <1>3, <1>6, <2>1 DEF BufferInv, BufferTypeOK
<1>8. ASSUME NEW q, NEW x, NEW tag, ListedTag(q, x, tag)
      PROVE  ListedTag(q, x, tag)'
  BY <1>1, <1>3, <1>8 DEF ListedTag
<1>9. Listed(tq)' /\ Listed(polled)'
  <2>1. Listed(polled)'
    BY <1>1, <1>8 DEF BufferInv, Listed
  <2>2. ASSUME NEW q \in Partitions, NEW x \in DOMAIN tq'[q]
        PROVE  ListedTag(q, x, tq[q][x])'
    <3>1. CASE q = p /\ x = PromptKey(u)
      BY <1>1, <1>2, <1>3, <1>4, <1>5, <1>6, <3>1 DEF ListedTag, p
    <3>2. CASE q # p \/ x # PromptKey(u)
      <4>1. x \in DOMAIN tq[q] /\ tq'[q][x] = tq[q][x]
        BY <1>5, <1>6, <2>2, <3>2
      <4>2. ListedTag(q, x, tq[q][x])
        BY <1>6, <4>1 DEF BufferInv, Listed
      <4> QED
        BY <1>8, <4>1, <4>2 DEF ListedTag
    <3> QED
      BY <3>1, <3>2
  <2> QED
    BY <1>6, <2>1, <2>2 DEF Listed
<1>10. Buffered'
  <2> SUFFICES ASSUME NEW q \in Partitions, NEW x \in DOMAIN partitions[q]
               PROVE  BufferedTag(q, x, partitions[q][x])'
    BY <1>1 DEF Buffered
  <2>1. BufferedTag(q, x, partitions[q][x])
    BY DEF BufferInv, Buffered
  <2> QED
    BY <1>1, <1>3, <2>1 DEF BufferedTag
<1>11. Known'
  BY <1>1, <1>3 DEF BufferInv, Known
<1>12. Ended'
  BY <1>1, <1>3 DEF BufferInv, Ended, GatherReturns, SessionsOf
<1>13. \A x \in StoredKeys("finished")' :
         /\ PartOf(x)' = PartOf(x) /\ PartOf(x) \in Partitions
         /\ x[1] # u => x \in StoredKeys("finished")
         /\ x[1] = u => x \in StoredKeys("running") /\ PartOf(x) = p
  <2> SUFFICES ASSUME NEW x \in DOMAIN session, session[x] = "stored",
                      prompt'[x[1]].stage = "finished"
               PROVE  /\ PartOf(x)' = PartOf(x) /\ PartOf(x) \in Partitions
                      /\ x[1] # u => x \in StoredKeys("finished")
                      /\ x[1] = u => x \in StoredKeys("running") /\ PartOf(x) = p
    BY <1>1 DEF StoredKeys
  <2>1. x[1] \in DOMAIN prompt
    BY DEF BufferInv, Ended
  <2>2. prompt'[x[1]].part = prompt[x[1]].part /\ prompt[x[1]].part \in Partitions
    BY <1>3, <2>1 DEF PromptRecord
  <2> QED
    BY <1>1, <1>3, <2>1, <2>2 DEF StoredKeys, PartOf, p
<1>14. Carried(tq)'
  <2> SUFFICES ASSUME NEW x \in StoredKeys("finished")',
                      PromptKey(x[1]) \in DOMAIN tq'[PartOf(x)]
               PROVE  x \in DOMAIN tq'[PartOf(x)] \cup DOMAIN partitions[PartOf(x)]
    BY <1>1, <1>13 DEF Carried
  <2>1. CASE x[1] = u
    BY <1>5, <1>6, <1>13, <2>1 DEF BufferInv, Kept
  <2>2. CASE x[1] # u
    <3>1. PromptKey(x[1]) # PromptKey(u)
      BY <2>2 DEF PromptKey
    <3> QED
      BY <1>5, <1>6, <1>13, <2>2, <3>1 DEF BufferInv, Carried
  <2> QED
    BY <2>1, <2>2
<1>15. Carried(polled)'
  <2> SUFFICES ASSUME NEW x \in StoredKeys("finished")', PartOf(x) \in DOMAIN polled,
                      PromptKey(x[1]) \in DOMAIN polled[PartOf(x)]
               PROVE  x \in DOMAIN polled[PartOf(x)] \cup DOMAIN partitions[PartOf(x)]
    BY <1>1, <1>13 DEF Carried
  <2>1. ListedTag(PartOf(x), PromptKey(x[1]), polled[PartOf(x)][PromptKey(x[1])])
    BY DEF BufferInv, Listed
  <2>2. x[1] # u
    BY <1>1, <1>4, <2>1 DEF ListedTag
  <2> QED
    BY <1>13, <2>2 DEF BufferInv, Carried
<1>16. Arrived'
  <2> SUFFICES ASSUME NEW x \in StoredKeys("finished")',
                      partitions[PartOf(x)][PromptKey(x[1])].status # "running"
               PROVE  x \in DOMAIN partitions[PartOf(x)]
    BY <1>1, <1>13 DEF Arrived
  <2>1. x[1] # u
    <3>1. BufferedTag(p, PromptKey(u), partitions[p][PromptKey(u)])
      BY <1>2 DEF BufferInv, Buffered
    <3>2. partitions[p][PromptKey(u)].status = "running"
      BY <1>1, <1>4, <3>1 DEF BufferedTag
    <3> QED
      BY <1>13, <3>2
  <2> QED
    BY <1>13, <2>1 DEF BufferInv, Arrived
<1>17. Kept'
  <2> SUFFICES ASSUME NEW x \in StoredKeys("running")' PROVE x \in DOMAIN tq'[PartOf(x)']
    BY DEF Kept
  <2>1. x \in StoredKeys("running") /\ PartOf(x)' = PartOf(x) /\ PartOf(x) \in Partitions
    <3>1. x \in DOMAIN session /\ session[x] = "stored" /\ prompt'[x[1]].stage = "running"
      BY <1>1 DEF StoredKeys
    <3>2. x[1] \in DOMAIN prompt
      BY <3>1 DEF BufferInv, Ended
    <3>3. prompt'[x[1]].part = prompt[x[1]].part /\ prompt[x[1]].part \in Partitions
      BY <1>3, <3>2 DEF PromptRecord
    <3>4. prompt[x[1]].stage = "running"
      BY <1>1, <1>3, <3>1, <3>2
    <3> QED
      BY <3>1, <3>3, <3>4 DEF StoredKeys, PartOf
  <2>2. x \in DOMAIN tq[PartOf(x)]
    BY <2>1 DEF BufferInv, Kept
  <2> QED
    BY <1>5, <1>6, <2>1, <2>2
<1>18. Held'
  <2> SUFFICES ASSUME NEW q \in Partitions, batch[q] # NoBatch, NEW x \in batch[q].keys
               PROVE  /\ x \in Keys /\ x[1] <= drawn /\ x[2] # 0
                      /\ x[1] \in DOMAIN prompt' =>
                           /\ x \in DOMAIN partitions[q]
                           /\ prompt'[x[1]].part = q /\ prompt'[x[1]].stage # "running"
    BY <1>1 DEF Held
  <2>1. /\ x \in Keys /\ x[1] <= drawn /\ x[2] # 0
        /\ x[1] \in DOMAIN prompt => /\ x \in DOMAIN partitions[q]
                                    /\ prompt[x[1]].part = q /\ prompt[x[1]].stage # "running"
    BY DEF BufferInv, Held
  <2>2. x[1] \in DOMAIN prompt => prompt'[x[1]].stage # "running"
    BY <1>3, <2>1
  <2> QED
    BY <1>3, <2>1, <2>2
<1>19. SampleComplete'
  <2> SUFFICES ASSUME NEW v \in DOMAIN prompt,
                      batch[prompt[v].part] # NoBatch,
                      prompt[v].step = batch[prompt[v].part].step
               PROVE  /\ prompt'[v].stage # "running"
                      /\ prompt'[v].stage = "finished" =>
                           \A x \in SessionsOf(v) : session[x] = "stored" =>
                             x \in batch[prompt[v].part].keys
    BY <1>1, <1>3 DEF SampleComplete, SessionsOf
  <2>1. v # u
    BY <1>1 DEF BufferInv, SampleComplete
  <2>2. prompt'[v] = prompt[v]
    BY <1>3, <2>1
  <2> QED
    BY <2>2 DEF BufferInv, SampleComplete
<1> QED
  BY <1>7, <1>9, <1>10, <1>11, <1>12, <1>14, <1>15, <1>16, <1>17, <1>18, <1>19 DEF BufferInv

-----------------------------------------------------------------------------
(* The trainer's steps on a batch.                                         *)

(* The one step that SampleComplete is about: an entry of the prompt that  *)
(* is not running any more has come with everything its sessions stored.   *)
LEMMA SampleInv ==
  ASSUME BufferInv, NEW p \in Partitions, NEW step \in Nat, Sample(p, step)
  PROVE  BufferInv'
<1> DEFINE keys == Succeeded(p, step)
<1>1. /\ ~MustWait(p, step)
      /\ batch' = [batch EXCEPT ![p] = [step |-> step, keys |-> keys]]
      /\ UNCHANGED <<tq, partitions, polled, prompt, session, drawn>>
  BY DEF Sample
<1>2. /\ batch'[p].step = step /\ batch'[p].keys = keys
      /\ \A q \in Partitions \ {p} : batch'[q] = batch[q]
  BY <1>1 DEF BufferInv, BufferTypeOK
<1>3. ASSUME NEW k \in keys
      PROVE  /\ k \in Keys /\ k \in DOMAIN partitions[p]
             /\ partitions[p][k].global_steps = step /\ partitions[p][k].status = "success"
             /\ BufferedTag(p, k, partitions[p][k])
  BY DEF Succeeded, OfStep, BufferInv, BufferTypeOK, IsDict, Buffered
<1>4. ASSUME NEW u \in DOMAIN prompt, prompt[u].part = p, prompt[u].step = step
      PROVE  /\ prompt[u].stage # "running"
             /\ partitions[p][PromptKey(u)].status # "running"
  <2>1. /\ PromptKey(u) \in DOMAIN partitions[p]
        /\ BufferedTag(p, PromptKey(u), partitions[p][PromptKey(u)])
    BY <1>4 DEF BufferInv, Known, Buffered
  <2>2. PromptKey(u)[1] = u /\ PromptKey(u)[2] = 0
    BY DEF PromptKey
  <2>3. PromptKey(u) \in OfStep(p, step)
    BY <1>4, <2>1, <2>2 DEF BufferedTag, OfStep
  <2> QED
    BY <1>1, <2>1, <2>2, <2>3 DEF BufferedTag, MustWait
<1> HIDE DEF keys
<1>5. BufferTypeOK'
  <2>1. keys \subseteq Keys
    BY <1>3
  <2>2. [step |-> step, keys |-> keys] \in BatchMeta
    BY <2>1 DEF BatchMeta
  <2>3. batch' \in [Partitions -> BatchMeta \cup {NoBatch}]
    BY <1>1, <2>2 DEF BufferInv, BufferTypeOK
  <2> QED
    BY <1>1, <2>3 DEF BufferInv, BufferTypeOK
<1>6. Listed(tq)' /\ Listed(polled)' /\ Buffered' /\ Known' /\ Ended'
  BY <1>1 DEF BufferInv, Listed, ListedTag, Buffered, BufferedTag, Known, Ended
<1>7. Carried(tq)' /\ Carried(polled)' /\ Arrived' /\ Kept'
  BY <1>1 DEF BufferInv, Carried, Arrived, Kept, StoredKeys, PartOf
<1>8. Held'
  <2> SUFFICES ASSUME NEW q \in Partitions, batch'[q] # NoBatch, NEW k \in batch'[q].keys
               PROVE  /\ k \in Keys /\ k[1] <= drawn /\ k[2] # 0
                      /\ k[1] \in DOMAIN prompt =>
                           /\ k \in DOMAIN partitions[q]
                           /\ prompt[k[1]].part = q /\ prompt[k[1]].stage # "running"
    BY <1>1 DEF Held
  <2>1. CASE q = p
    <3>1. k \in keys
      BY <1>2, <2>1
    <3>2. /\ k \in Keys /\ k \in DOMAIN partitions[p]
          /\ partitions[p][k].global_steps = step /\ partitions[p][k].status = "success"
          /\ BufferedTag(p, k, partitions[p][k])
      BY <1>3, <3>1
    <3> QED
      BY <1>4, <2>1, <3>2 DEF BufferedTag
  <2>2. CASE q # p
    BY <1>2, <2>2 DEF BufferInv, Held
  <2> QED
    BY <2>1, <2>2
<1>9. SampleComplete'
  <2> SUFFICES ASSUME NEW u \in DOMAIN prompt,
                      batch'[prompt[u].part] # NoBatch,
                      prompt[u].step = batch'[prompt[u].part].step
               PROVE  /\ prompt[u].stage # "running"
                      /\ prompt[u].stage = "finished" =>
                           \A k \in SessionsOf(u) : session[k] = "stored" =>
                             k \in batch'[prompt[u].part].keys
    BY <1>1 DEF SampleComplete, SessionsOf
  <2>1. prompt[u].part \in Partitions
    BY DEF BufferInv, BufferTypeOK, PromptRecord
  <2>2. CASE prompt[u].part # p
    BY <1>2, <2>1, <2>2 DEF BufferInv, SampleComplete
  <2>3. CASE prompt[u].part = p
    <3>1. prompt[u].step = step
      BY <1>2, <2>3
    <3>2. prompt[u].stage # "running" /\ partitions[p][PromptKey(u)].status # "running"
      BY <1>4, <2>3, <3>1
    <3>3. ASSUME NEW k \in SessionsOf(u), session[k] = "stored", prompt[u].stage = "finished"
          PROVE  k \in keys
      <4>1. k \in DOMAIN session /\ k[1] = u
        BY DEF SessionsOf
      <4>2. k \in StoredKeys("finished") /\ PartOf(k) = p
        BY <2>3, <3>3, <4>1 DEF StoredKeys, PartOf
      <4>3. k \in DOMAIN partitions[p]
        BY <3>2, <4>1, <4>2 DEF BufferInv, Arrived
      <4>4. BufferedTag(p, k, partitions[p][k]) /\ k[2] # 0
        BY <4>1, <4>3 DEF BufferInv, Buffered, Ended
      <4> QED
        BY <3>1, <4>1, <4>3, <4>4 DEF BufferedTag, Succeeded, OfStep, keys
    <3> QED
      BY <1>2, <2>3, <3>2, <3>3
  <2> QED
    BY <2>2, <2>3
<1> QED
  BY <1>5, <1>6, <1>7, <1>8, <1>9 DEF BufferInv

LEMMA PadInv ==
  ASSUME BufferInv, NEW p \in Partitions, NEW n \in Nat, Pad(p, n)
  PROVE  BufferInv'
<1> DEFINE pads == {drawn + 1} \X (1..n)
           tags == Marked(pads, batch[p].step, "success")
           new == Added(tq[p], tags)
<1>1. /\ batch[p] # NoBatch
      /\ drawn' = drawn + 1
      /\ tq' = [tq EXCEPT ![p] = new]
      /\ batch' = [batch EXCEPT ![p].keys = @ \cup pads]
      /\ UNCHANGED <<partitions, polled, prompt, session>>
  BY DEF Pad
<1>2. /\ drawn \in Nat /\ batch[p] \in BatchMeta /\ batch[p].step \in Nat
      /\ batch[p].keys \subseteq Keys
  BY <1>1 DEF BufferInv, BufferTypeOK, BatchMeta
<1>3. \A k \in pads : /\ k \in Keys /\ k[1] = drawn + 1 /\ k[2] # 0
                      /\ k[1] \in Nat /\ k[1] > drawn /\ k[1] <= drawn'
  BY <1>1, <1>2 DEF Keys
<1>4. /\ DOMAIN tags = pads /\ IsDict(tags)
      /\ \A k \in pads : tags[k].global_steps = batch[p].step /\ tags[k].status = "success"
  <2>1. pads \in SUBSET Keys /\ "success" \in Status
    BY <1>3 DEF Status
  <2> QED
    BY <1>2, <2>1, MarkedDict, MarkedFacts
<1> HIDE DEF pads, tags
<1>5. \A q \in Partitions : \A k \in DOMAIN tq[q] :
        k \in Keys /\ k[1] \in Nat /\ k[1] <= drawn /\ k[1] <= drawn' /\ k \notin pads
  <2> SUFFICES ASSUME NEW q \in Partitions, NEW k \in DOMAIN tq[q]
               PROVE  k \in Keys /\ k[1] \in Nat /\ k[1] <= drawn /\ k[1] <= drawn' /\ k \notin pads
    OBVIOUS
  <2>1. k \in Keys /\ k[1] <= drawn
    BY DEF BufferInv, BufferTypeOK, IsDict, Listed, ListedTag
  <2>2. k[1] \in Nat /\ k[1] <= drawn'
    BY <1>1, <1>2, <2>1 DEF Keys
  <2> QED
    BY <1>2, <1>3, <2>1, <2>2
<1>6. /\ DOMAIN tq' = Partitions /\ DOMAIN tq = Partitions
      /\ \A q \in Partitions \ {p} : tq'[q] = tq[q]
      /\ tq'[p] = new /\ DOMAIN new = DOMAIN tq[p] \cup pads /\ IsDict(new)
  BY <1>1, <1>4, AddedFacts, AddedDict DEF BufferInv, BufferTypeOK
<1>7. /\ \A k \in DOMAIN tq[p] : new[k] = tq[p][k]
      /\ \A k \in pads : new[k] = tags[k]
  BY <1>4, <1>5 DEF Added
<1> HIDE DEF new
<1>8. /\ batch'[p] = [step |-> batch[p].step, keys |-> batch[p].keys \cup pads]
      /\ \A q \in Partitions \ {p} : batch'[q] = batch[q]
      /\ DOMAIN batch' = Partitions
  BY <1>1, <1>2 DEF BufferInv, BufferTypeOK, BatchMeta
<1>9. \A u \in DOMAIN prompt : u <= drawn /\ u # drawn + 1 /\ u \in Nat
  BY <1>2 DEF BufferInv, BufferTypeOK
<1>10. BufferTypeOK'
  <2>1. \A q \in Partitions : IsDict(tq'[q])
    BY <1>6 DEF BufferInv, BufferTypeOK
  <2>2. DOMAIN prompt \subseteq 1..drawn'
    BY <1>1, <1>2 DEF BufferInv, BufferTypeOK
  <2>3. batch'[p] \in BatchMeta
    BY <1>2, <1>3, <1>8 DEF BatchMeta
  <2>4. batch' \in [Partitions -> BatchMeta \cup {NoBatch}]
    BY <1>1, <1>8, <2>3 DEF BufferInv, BufferTypeOK
  <2>5. drawn' \in Nat
    BY <1>1, <1>2
  <2> QED
    BY <1>1, <1>6, <2>1, <2>2, <2>4, <2>5 DEF BufferInv, BufferTypeOK
<1>11. ASSUME NEW q, NEW k \in Keys, NEW tag, ListedTag(q, k, tag)
       PROVE  ListedTag(q, k, tag)'
  <2>1. k[1] <= drawn'
    BY <1>1, <1>2, <1>11 DEF ListedTag, Keys
  <2> QED
    BY <1>1, <1>11, <2>1 DEF ListedTag
<1>12. Listed(polled)'
  BY <1>1, <1>11 DEF BufferInv, BufferTypeOK, Listed, IsDict
<1>13. Listed(tq)'
  <2> SUFFICES ASSUME NEW q \in Partitions, NEW k \in DOMAIN tq'[q]
               PROVE  ListedTag(q, k, tq[q][k])'
    BY <1>6 DEF Listed
  <2>1. CASE k \in DOMAIN tq[q]
    <3>1. tq'[q][k] = tq[q][k] /\ ListedTag(q, k, tq[q][k]) /\ k \in Keys
      BY <1>5, <1>6, <1>7, <2>1 DEF BufferInv, Listed
    <3> QED
      BY <1>11, <3>1 DEF ListedTag
  <2>2. CASE q = p /\ k \in pads
    <3>1. /\ tq'[q][k].global_steps = batch[p].step /\ tq'[q][k].status = "success"
          /\ k[1] <= drawn' /\ k[2] # 0 /\ k[1] = drawn + 1
      BY <1>3, <1>4, <1>6, <1>7, <2>2
    <3>2. k[1] \notin DOMAIN prompt
      BY <1>9, <3>1
    <3> QED
      BY <1>1, <1>2, <3>1, <3>2 DEF ListedTag
  <2> QED
    BY <1>6, <2>1, <2>2
<1>14. Buffered'
  <2> SUFFICES ASSUME NEW q \in Partitions, NEW k \in DOMAIN partitions[q]
               PROVE  BufferedTag(q, k, partitions[q][k])'
    BY <1>1 DEF Buffered
  <2>1. BufferedTag(q, k, partitions[q][k]) /\ k \in Keys
    BY DEF BufferInv, BufferTypeOK, Buffered, IsDict
  <2>2. k[1] <= drawn'
    BY <1>1, <1>2, <2>1 DEF BufferedTag, Keys
  <2> QED
    BY <1>1, <2>1, <2>2 DEF BufferedTag
<1>15. Known' /\ Ended'
  BY <1>1 DEF BufferInv, Known, Ended
<1>16. Carried(tq)' /\ Kept'
  <2>1. /\ StoredKeys("finished")' = StoredKeys("finished")
        /\ StoredKeys("running")' = StoredKeys("running")
        /\ \A k : PartOf(k)' = PartOf(k)
    BY <1>1 DEF StoredKeys, PartOf
  <2>2. \A k : k \in StoredKeys("finished") \cup StoredKeys("running") => PartOf(k) \in Partitions
    BY DEF StoredKeys, PartOf, BufferInv, Ended, BufferTypeOK, PromptRecord
  <2>3. \A u : PromptKey(u) \notin pads
    BY <1>3 DEF PromptKey
  <2> QED
    BY <1>1, <1>6, <2>1, <2>2, <2>3 DEF BufferInv, Carried, Kept
<1>17. Carried(polled)' /\ Arrived'
  BY <1>1 DEF BufferInv, Carried, Arrived, StoredKeys, PartOf
<1>18. Held'
  <2> SUFFICES ASSUME NEW q \in Partitions, batch'[q] # NoBatch, NEW k \in batch'[q].keys
               PROVE  /\ k \in Keys /\ k[1] <= drawn' /\ k[2] # 0
                      /\ k[1] \in DOMAIN prompt =>
                           /\ k \in DOMAIN partitions[q]
                           /\ prompt[k[1]].part = q /\ prompt[k[1]].stage # "running"
    BY <1>1 DEF Held
  <2>1. CASE batch[q] # NoBatch /\ k \in batch[q].keys
    <3>1. /\ k \in Keys /\ k[1] <= drawn /\ k[2] # 0
          /\ k[1] \in DOMAIN prompt => /\ k \in DOMAIN partitions[q]
                                      /\ prompt[k[1]].part = q /\ prompt[k[1]].stage # "running"
      BY <2>1 DEF BufferInv, Held
    <3>2. k[1] <= drawn'
      BY <1>1, <1>2, <3>1 DEF Keys
    <3> QED
      BY <3>1, <3>2
  <2>2. CASE k \in pads
    <3>1. k[1] \notin DOMAIN prompt
      BY <1>3, <1>9, <2>2
    <3> QED
      BY <1>3, <2>2, <3>1
  <2> QED
    BY <1>1, <1>8, <2>1, <2>2
<1>19. SampleComplete'
  <2> SUFFICES ASSUME NEW u \in DOMAIN prompt,
                      batch'[prompt[u].part] # NoBatch,
                      prompt[u].step = batch'[prompt[u].part].step
               PROVE  /\ prompt[u].stage # "running"
                      /\ prompt[u].stage = "finished" =>
                           \A k \in SessionsOf(u) : session[k] = "stored" =>
                             k \in batch'[prompt[u].part].keys
    BY <1>1 DEF SampleComplete, SessionsOf
  <2>1. prompt[u].part \in Partitions
    BY DEF BufferInv, BufferTypeOK, PromptRecord
  <2>2. /\ batch[prompt[u].part] # NoBatch
        /\ batch'[prompt[u].part].step = batch[prompt[u].part].step
        /\ batch[prompt[u].part].keys \subseteq batch'[prompt[u].part].keys
    BY <1>1, <1>8, <2>1, ZenonT(40)
  <2> QED
    BY <2>2 DEF BufferInv, SampleComplete
<1> QED
  BY <1>10, <1>12, <1>13, <1>14, <1>15, <1>16, <1>17, <1>18, <1>19 DEF BufferInv

(* A cleared key is still in the buffer, unless its prompt is forgotten.   *)
LEMMA ClearQueueInv ==
  ASSUME BufferInv, NEW p \in Partitions, ClearQueue(p)
  PROVE  BufferInv'
<1> DEFINE new == Without(tq[p], batch[p].keys)
<1>1. /\ batch[p] # NoBatch
      /\ tq' = [tq EXCEPT ![p] = new]
      /\ UNCHANGED <<partitions, polled, prompt, session, drawn, batch>>
  BY DEF ClearQueue
<1>2. /\ DOMAIN tq' = Partitions /\ DOMAIN tq = Partitions
      /\ \A q \in Partitions \ {p} : tq'[q] = tq[q]
      /\ tq'[p] = new /\ DOMAIN new = DOMAIN tq[p] \ batch[p].keys
      /\ \A k \in DOMAIN new : new[k] = tq[p][k]
  BY <1>1 DEF BufferInv, BufferTypeOK, Without
<1> HIDE DEF new
<1>3. \A q \in Partitions : /\ DOMAIN tq'[q] \subseteq DOMAIN tq[q]
                           /\ \A k \in DOMAIN tq'[q] : tq'[q][k] = tq[q][k]
  BY <1>2
<1>4. BufferTypeOK'
  <2>1. \A q \in Partitions : IsDict(tq'[q])
    BY <1>3 DEF BufferInv, BufferTypeOK, IsDict
  <2> QED
    BY <1>1, <1>2, <2>1 DEF BufferInv, BufferTypeOK
<1>5. Listed(tq)'
  <2> SUFFICES ASSUME NEW q \in Partitions, NEW k \in DOMAIN tq'[q]
               PROVE  ListedTag(q, k, tq[q][k])'
    BY <1>2 DEF Listed
  <2>1. tq'[q][k] = tq[q][k] /\ ListedTag(q, k, tq[q][k])
    BY <1>2, <1>3 DEF BufferInv, Listed
  <2> QED
    BY <1>1, <2>1 DEF ListedTag
<1>6. Listed(polled)' /\ Buffered' /\ Known' /\ Ended' /\ Held'
  BY <1>1 DEF BufferInv, Listed, ListedTag, Buffered, BufferedTag, Known, Ended, Held
<1>7. /\ \A s : StoredKeys(s)' = StoredKeys(s)
      /\ \A k : PartOf(k)' = PartOf(k)
      /\ \A k \in StoredKeys("finished") \cup StoredKeys("running") :
           PartOf(k) \in Partitions /\ k[1] \in DOMAIN prompt
  <2>1. /\ \A s : StoredKeys(s)' = StoredKeys(s)
        /\ \A k : PartOf(k)' = PartOf(k)
    BY <1>1 DEF StoredKeys, PartOf
  <2>2. \A k \in StoredKeys("finished") \cup StoredKeys("running") :
          PartOf(k) \in Partitions /\ k[1] \in DOMAIN prompt
    BY DEF StoredKeys, PartOf, BufferInv, Ended, BufferTypeOK, PromptRecord
  <2> QED
    BY <2>1, <2>2
<1>8. Carried(tq)'
  <2> SUFFICES ASSUME NEW k \in StoredKeys("finished"),
                      PromptKey(k[1]) \in DOMAIN tq'[PartOf(k)]
               PROVE  k \in DOMAIN tq'[PartOf(k)] \cup DOMAIN partitions[PartOf(k)]
    BY <1>1, <1>7 DEF Carried
  <2>1. k \in DOMAIN tq[PartOf(k)] \cup DOMAIN partitions[PartOf(k)]
    BY <1>2, <1>3, <1>7 DEF BufferInv, Carried
  <2>2. PartOf(k) = p /\ k \in batch[p].keys => k \in DOMAIN partitions[p]
    BY <1>1, <1>7 DEF BufferInv, Held
  <2> QED
    BY <1>2, <1>7, <2>1, <2>2
<1>9. Kept'
  <2> SUFFICES ASSUME NEW k \in StoredKeys("running") PROVE k \in DOMAIN tq'[PartOf(k)]
    BY <1>7 DEF Kept
  <2>1. k \in DOMAIN tq[PartOf(k)] /\ prompt[k[1]].stage = "running"
    BY DEF BufferInv, Kept, StoredKeys
  <2>2. k \notin batch[p].keys
    BY <1>1, <1>7, <2>1 DEF BufferInv, Held
  <2> QED
    BY <1>2, <1>7, <2>1, <2>2
<1>10. Carried(polled)' /\ Arrived'
  BY <1>1, <1>7 DEF BufferInv, Carried, Arrived
<1>11. SampleComplete'
  BY <1>1 DEF BufferInv, SampleComplete, SessionsOf
<1> QED
  BY <1>4, <1>5, <1>6, <1>8, <1>9, <1>10, <1>11 DEF BufferInv

(* The finished prompts of the partition have no running sessions, so they *)
(* are forgotten together with their entries.                              *)
LEMMA RemoveInv ==
  ASSUME BufferInv, NEW p \in Partitions, Remove(p)
  PROVE  BufferInv'
<1> DEFINE kept == {u \in DOMAIN prompt :
                     \/ prompt[u].part # p \/ prompt[u].stage = "running"
                     \/ \E k \in SessionsOf(u) : session[k] = "running"}
           new == Without(partitions[p], batch[p].keys)
<1>1. /\ batch[p] # NoBatch
      /\ partitions' = [partitions EXCEPT ![p] = new]
      /\ batch' = [batch EXCEPT ![p] = NoBatch]
      /\ prompt' = [u \in kept |-> prompt[u]]
      /\ session' = [k \in {x \in DOMAIN session : x[1] \in kept} |-> session[k]]
      /\ UNCHANGED <<tq, polled, drawn>>
  BY DEF Remove
<1>2. /\ DOMAIN partitions' = Partitions
      /\ \A q \in Partitions \ {p} : partitions'[q] = partitions[q]
      /\ partitions'[p] = new /\ DOMAIN new = DOMAIN partitions[p] \ batch[p].keys
      /\ \A k \in DOMAIN new : new[k] = partitions[p][k]
  BY <1>1 DEF BufferInv, BufferTypeOK, Without
<1>3. \A u \in kept : /\ u \in DOMAIN prompt
                      /\ prompt[u].stage = "finished" => prompt[u].part # p
  BY DEF SessionsOf, BufferInv, Ended
<1> HIDE DEF new, kept
<1>4. /\ DOMAIN prompt' = kept /\ \A u \in kept : prompt'[u] = prompt[u]
      /\ DOMAIN session' = {x \in DOMAIN session : x[1] \in kept}
      /\ \A k \in DOMAIN session' : session'[k] = session[k]
  BY <1>1
<1>5. /\ batch'[p] = NoBatch
      /\ \A q \in Partitions \ {p} : batch'[q] = batch[q]
  BY <1>1 DEF BufferInv, BufferTypeOK
<1>6. \A q \in Partitions :
        /\ DOMAIN partitions'[q] \subseteq DOMAIN partitions[q]
        /\ \A k \in DOMAIN partitions'[q] : partitions'[q][k] = partitions[q][k]
        /\ \A k \in DOMAIN partitions[q] : k[2] = 0 => k \in DOMAIN partitions'[q]
  <2>1. \A k \in batch[p].keys : k[2] # 0
    BY <1>1 DEF BufferInv, Held
  <2> QED
    BY <1>2, <2>1
<1>7. BufferTypeOK'
  <2>1. \A q \in Partitions : IsDict(partitions'[q])
    BY <1>6 DEF BufferInv, BufferTypeOK, IsDict
  <2>2. batch' \in [Partitions -> BatchMeta \cup {NoBatch}]
    BY <1>1 DEF BufferInv, BufferTypeOK
  <2> QED
    BY <1>1, <1>2, <1>3, <1>4, <2>1, <2>2 DEF BufferInv, BufferTypeOK
<1>8. Listed(tq)' /\ Listed(polled)'
  <2>1. ASSUME NEW q \in Partitions, NEW k, NEW tag, ListedTag(q, k, tag)
        PROVE  ListedTag(q, k, tag)'
    BY <1>1, <1>3, <1>4, <1>6, <2>1 DEF ListedTag
  <2>2. DOMAIN tq = Partitions /\ DOMAIN polled \subseteq Partitions
    BY DEF BufferInv, BufferTypeOK
  <2> QED
    BY <1>1, <2>1, <2>2 DEF BufferInv, Listed
<1>9. Buffered'
  <2> SUFFICES ASSUME NEW q \in Partitions, NEW k \in DOMAIN partitions'[q]
               PROVE  BufferedTag(q, k, partitions[q][k])'
    BY DEF Buffered
  <2>1. partitions'[q][k] = partitions[q][k] /\ BufferedTag(q, k, partitions[q][k])
    BY <1>6 DEF BufferInv, Buffered
  <2> QED
    BY <1>1, <1>3, <1>4, <2>1 DEF BufferedTag
<1>10. Known'
  <2> SUFFICES ASSUME NEW u \in kept PROVE PromptKey(u) \in DOMAIN partitions'[prompt[u].part]
    BY <1>4 DEF Known
  <2>1. /\ prompt[u].part \in Partitions /\ PromptKey(u)[2] = 0
        /\ PromptKey(u) \in DOMAIN partitions[prompt[u].part]
    BY <1>3 DEF BufferInv, BufferTypeOK, PromptRecord, Known, PromptKey
  <2> QED
    BY <1>6, <2>1
<1>11. Ended'
  BY <1>4 DEF BufferInv, Ended
<1>12. \A s : \A k \in StoredKeys(s)' : k \in StoredKeys(s) /\ k[1] \in kept /\ PartOf(k)' = PartOf(k)
  BY <1>4 DEF StoredKeys, PartOf
<1>13. \A k \in StoredKeys("finished")' :
         /\ k \in StoredKeys("finished") /\ PartOf(k)' = PartOf(k)
         /\ PartOf(k) \in Partitions \ {p}
  BY <1>3, <1>12 DEF StoredKeys, PartOf, BufferInv, BufferTypeOK, PromptRecord
<1>14. Carried(tq)' /\ Carried(polled)'
  BY <1>1, <1>2, <1>13 DEF BufferInv, Carried
<1>15. Arrived'
  BY <1>2, <1>13 DEF BufferInv, Arrived
<1>16. Kept'
  BY <1>1, <1>12 DEF BufferInv, Kept
<1>17. Held'
  <2> SUFFICES ASSUME NEW q \in Partitions \ {p}, batch[q] # NoBatch, NEW k \in batch[q].keys
               PROVE  /\ k \in Keys /\ k[1] <= drawn /\ k[2] # 0
                      /\ k[1] \in kept =>
                           /\ k \in DOMAIN partitions'[q]
                           /\ prompt'[k[1]].part = q /\ prompt'[k[1]].stage # "running"
    BY <1>1, <1>4, <1>5, SMTT(30) DEF Held
  <2>1. /\ k \in Keys /\ k[1] <= drawn /\ k[2] # 0
        /\ k[1] \in DOMAIN prompt => /\ k \in DOMAIN partitions[q]
                                    /\ prompt[k[1]].part = q /\ prompt[k[1]].stage # "running"
    BY DEF BufferInv, Held
  <2> QED
    BY <1>2, <1>3, <1>4, <2>1
<1>18. SampleComplete'
  <2> SUFFICES ASSUME NEW u \in kept,
                      batch'[prompt[u].part] # NoBatch,
                      prompt[u].step = batch'[prompt[u].part].step
               PROVE  /\ prompt[u].stage # "running"
                      /\ prompt[u].stage = "finished" =>
                           \A k \in SessionsOf(u) : session[k] = "stored" =>
                             k \in batch'[prompt[u].part].keys
    <3>1. \A u \in kept : \A k \in SessionsOf(u)' : k \in SessionsOf(u) /\ session'[k] = session[k]
      BY <1>4 DEF SessionsOf
    <3> QED
      BY <1>4, <3>1 DEF SampleComplete
  <2>1. u \in DOMAIN prompt /\ prompt[u].part \in Partitions
    BY <1>3 DEF BufferInv, BufferTypeOK, PromptRecord
  <2>2. batch'[prompt[u].part] = batch[prompt[u].part]
    BY <1>5, <2>1
  <2> QED
    BY <2>1, <2>2 DEF BufferInv, SampleComplete
<1> QED
  BY <1>7, <1>8, <1>9, <1>10, <1>11, <1>14, <1>15, <1>16, <1>17, <1>18 DEF BufferInv

-----------------------------------------------------------------------------
LEMMA ResetInv == ResetBuffer => BufferInv'
<1>1. ResetBuffer => BufferInit'
  BY DEF ResetBuffer, BufferInit
<1> QED
  BY <1>1, BufferInitInv, PTL

LEMMA BufferNextInv == BufferInv /\ [BufferNext]_bufferVars => BufferInv'
<1> SUFFICES ASSUME BufferInv, [BufferNext]_bufferVars PROVE BufferInv'
  OBVIOUS
<1>1. CASE Poll
  BY <1>1, PollListInv, PollAddInv DEF Poll
<1>2. CASE SessionEnds
  BY <1>2, SessionStoresInv, SessionStoresNothingInv DEF SessionEnds
<1>3. CASE PromptEnds
  <2> PICK u \in DOMAIN prompt : PromptFinishes(u) \/ PromptFails(u)
    BY <1>3 DEF PromptEnds
  <2>1. CASE PromptFinishes(u)
    BY <2>1, EndPromptInv DEF PromptFinishes
  <2>2. CASE PromptFails(u)
    BY <2>2, EndPromptInv DEF PromptFails
  <2> QED
    BY <2>1, <2>2
<1>4. CASE \E p \in Partitions : Hand(p)
  <2> PICK p \in Partitions : Hand(p)
    BY <1>4
  <2>1. CASE \E step \in Nat, ns \in Seq(Nat) : batch[p] = NoBatch /\ Generate(p, step, ns)
    BY <2>1, GenerateInv
  <2>2. CASE \E step \in Nat : Sample(p, step)
    BY <2>2, SampleInv
  <2>3. CASE \E n \in Nat : Pad(p, n)
    BY <2>3, PadInv
  <2>4. CASE ClearQueue(p) \/ Remove(p)
    BY <2>4, ClearQueueInv, RemoveInv
  <2> QED
    BY <2>1, <2>2, <2>3, <2>4 DEF Hand
<1>5. CASE ResetBuffer
  BY <1>5, ResetInv
<1>6. CASE UNCHANGED bufferVars
  <2>1. UNCHANGED <<tq, partitions, polled, prompt, session, drawn, batch>>
    BY <1>6 DEF bufferVars
  <2>2. BufferTypeOK' /\ Listed(tq)' /\ Listed(polled)' /\ Buffered' /\ Known' /\ Ended' /\ Held'
    BY <2>1 DEF BufferInv, BufferTypeOK, Listed, ListedTag, Buffered, BufferedTag, Known, Ended, Held
  <2>3. Carried(tq)' /\ Carried(polled)' /\ Arrived' /\ Kept' /\ SampleComplete'
    BY <2>1 DEF BufferInv, Carried, Arrived, Kept, StoredKeys, PartOf, SampleComplete, SessionsOf
  <2> QED
    BY <2>2, <2>3 DEF BufferInv
<1> QED
  BY <1>1, <1>2, <1>3, <1>4, <1>5, <1>6 DEF BufferNext

(* Every value of the variables stays in its type.                         *)
THEOREM BufferTypeCorrect == BufferSpec => []BufferTypeOK
<1>1. BufferInv => BufferTypeOK
  BY DEF BufferInv
<1> QED
  BY <1>1, BufferInitInv, BufferNextInv, PTL DEF BufferSpec

(* ReplayBuffer.sample never returns a batch of which a prompt still runs, *)
(* nor without an output that a session of a finished prompt has stored,   *)
(* however the listings of the poll thread fall between the workers' puts. *)
THEOREM SampleCorrect == BufferSpec => []SampleComplete
<1>1. BufferInv => SampleComplete
  BY DEF BufferInv
<1> QED
  BY <1>1, BufferInitInv, BufferNextInv, PTL DEF BufferSpec

(* ReplayBuffer.sample finds global_steps in every entry it scans: no      *)
(* listing that is added late leaves an entry without it.                  *)
THEOREM StepsPresent == BufferSpec => []EntriesHaveStep
<1>1. BufferInv => EntriesHaveStep
  BY DEF BufferInv, Buffered, BufferedTag, EntriesHaveStep
<1> QED
  BY <1>1, BufferInitInv, BufferNextInv, PTL DEF BufferSpec
=============================================================================
