------------------------------ MODULE ReplayBuffer ------------------------------
(***************************************************************************)
(* The replay buffer of the synchronous trainer (main_ppo_sync.py): a      *)
(* local copy of the tags kept in the transfer queue, filled by a thread   *)
(* that lists the queue now and then, by the trainer that announces the    *)
(* prompts of a batch, and read by the trainer when the batch is due.      *)
(*                                                                         *)
(* The transfer queue is a library outside of the repository; of it the    *)
(* model has what the calls in the code rely on: a put and a clear are     *)
(* atomic, and a listing shows one moment of the queue.                    *)
(*                                                                         *)
(* A prompt is known by its uid, the number of the uuid4 that drew it, and *)
(* owns the key <<uid, 0>>; session s of it owns <<uid, s>>.  The several  *)
(* outputs of one session are put by one call and stand as one entry.      *)
(***************************************************************************)
EXTENDS Naturals, Sequences

CONSTANTS
  NoStep        \* what a tag without global_steps has in its place

ASSUME BufferAssumption == NoStep \notin Nat

VARIABLES
  tq,           \* tags in the transfer queue, by partition and key
  partitions,   \* self.partitions of the buffer, by partition and key
  polled,       \* the listing the poll thread still has to add, by partition
  prompt,       \* the prompts handed to the workers, by uid
  session,      \* the sessions of them, by key
  drawn,        \* how many uids uuid4 has returned
  batch         \* the batch the trainer holds of each partition

bufferVars == <<tq, partitions, polled, prompt, session, drawn, batch>>

Partitions == {"train", "val"}
Status == {"running", "success", "finished", "failure"}
Tags == [global_steps : Nat \cup {NoStep}, status : Status]
Keys == Nat \X Nat
PromptRecord == [part : Partitions, step : Nat, stage : {"running", "finished", "failed"}]
SessionState == {"running", "stored", "empty", "failed"}
NoBatch == [keys |-> {}]
BatchMeta == [step : Nat, keys : SUBSET Keys]

PromptKey(u) == <<u, 0>>
Nothing == [k \in {} |-> k]
IsDict(d) == DOMAIN d \subseteq Keys /\ \A k \in DOMAIN d : d[k] \in Tags

BufferTypeOK ==
  /\ DOMAIN tq = Partitions /\ \A p \in Partitions : IsDict(tq[p])
  /\ DOMAIN partitions = Partitions /\ \A p \in Partitions : IsDict(partitions[p])
  /\ DOMAIN polled \subseteq Partitions /\ \A p \in DOMAIN polled : IsDict(polled[p])
  /\ drawn \in Nat
  /\ DOMAIN prompt \subseteq 1..drawn /\ \A u \in DOMAIN prompt : prompt[u] \in PromptRecord
  /\ DOMAIN session \subseteq Keys /\ \A k \in DOMAIN session : session[k] \in SessionState
  /\ batch \in [Partitions -> BatchMeta \cup {NoBatch}]

BufferInit ==
  /\ tq = [p \in Partitions |-> Nothing]
  /\ partitions = [p \in Partitions |-> Nothing]
  /\ polled = Nothing
  /\ prompt = Nothing
  /\ session = Nothing
  /\ drawn = 0
  /\ batch = [p \in Partitions |-> NoBatch]

\* The workers, the queue and the buffer of another job.
ResetBuffer ==
  /\ tq' = [p \in Partitions |-> Nothing]
  /\ partitions' = [p \in Partitions |-> Nothing]
  /\ polled' = Nothing
  /\ prompt' = Nothing
  /\ session' = Nothing
  /\ drawn' = 0
  /\ batch' = [p \in Partitions |-> NoBatch]

-----------------------------------------------------------------------------
(* Dictionaries of tags.                                                   *)

\* dict.update on one entry: a field that the new tag lacks keeps its value.
Updated(old, new) ==
  [global_steps |-> IF new.global_steps = NoStep THEN old.global_steps ELSE new.global_steps,
   status |-> new.status]

Added(dict, items) ==
  [k \in DOMAIN dict \cup DOMAIN items |->
     IF k \notin DOMAIN items THEN dict[k]
     ELSE IF k \in DOMAIN dict THEN Updated(dict[k], items[k])
     ELSE items[k]]

Without(dict, keys) == [k \in DOMAIN dict \ keys |-> dict[k]]

\* The same tag for every key.
Marked(keys, step, status) ==
  [k \in keys |-> [global_steps |-> step, status |-> status]]

-----------------------------------------------------------------------------
(* Faulty variants; no specification uses them.                            *)

\* _run_prompt that puts the prompt's tag without awaiting gather.
PromptFinishesFirst(u) ==
  /\ prompt[u].stage = "running"
  /\ prompt' = [prompt EXCEPT ![u].stage = "finished"]
  /\ tq' = [tq EXCEPT ![prompt[u].part] =
       Added(@, Marked({PromptKey(u)}, NoStep, "finished"))]
  /\ UNCHANGED <<partitions, polled, session, drawn, batch>>

\* _run_prompt that only logs the exception.
PromptFailsSilently(u) ==
  /\ prompt[u].stage = "running"
  /\ \E k \in DOMAIN session : k[1] = u /\ session[k] = "failed"
  /\ prompt' = [prompt EXCEPT ![u].stage = "failed"]
  /\ UNCHANGED <<tq, partitions, polled, session, drawn, batch>>

\* A clean-up of the buffer that takes the prompts of the step along.
RemoveStep(p) ==
  /\ batch[p] # NoBatch
  /\ partitions' = [partitions EXCEPT
       ![p] = Without(@, {k \in DOMAIN @ : @[k].global_steps = batch[p].step})]
  /\ batch' = [batch EXCEPT ![p] = NoBatch]
  /\ UNCHANGED <<tq, polled, prompt, session, drawn>>

-----------------------------------------------------------------------------
(* The poll thread.                                                        *)

PollList ==
  /\ polled = Nothing
  /\ polled' = tq
  /\ UNCHANGED <<tq, partitions, prompt, session, drawn, batch>>

\* One call of add, under the lock of the buffer.
PollAdd(p) ==
  /\ p \in DOMAIN polled
  /\ partitions' = [partitions EXCEPT ![p] = Added(@, polled[p])]
  /\ polled' = Without(polled, {p})
  /\ UNCHANGED <<tq, prompt, session, drawn, batch>>

-----------------------------------------------------------------------------
(* The agent loop workers: one task per prompt, one task per session.      *)

\* generate_sequences: announce new prompts, then spawn their tasks; ns has the
\* number of sessions of each.
Generate(p, step, ns) ==
  LET us == {drawn + i : i \in 1..Len(ns)}
      ks == UNION {{drawn + i} \X (1..ns[i]) : i \in 1..Len(ns)} IN
  /\ drawn' = drawn + Len(ns)
  /\ partitions' = [partitions EXCEPT
       ![p] = Added(@, Marked({PromptKey(u) : u \in us}, step, "running"))]
  /\ prompt' = [u \in DOMAIN prompt \cup us |->
       IF u \in us THEN [part |-> p, step |-> step, stage |-> "running"] ELSE prompt[u]]
  /\ session' = [k \in DOMAIN session \cup ks |->
       IF k \in ks THEN "running" ELSE session[k]]
  /\ UNCHANGED <<tq, polled, batch>>

SessionStores(k) ==
  /\ session[k] = "running"
  /\ session' = [session EXCEPT ![k] = "stored"]
  /\ tq' = [tq EXCEPT ![prompt[k[1]].part] =
       Added(@, Marked({k}, prompt[k[1]].step, "success"))]
  /\ UNCHANGED <<partitions, polled, prompt, drawn, batch>>

\* An agent loop may return no output, or raise.
SessionStoresNothing(k, end) ==
  /\ session[k] = "running"
  /\ session' = [session EXCEPT ![k] = end]
  /\ UNCHANGED <<tq, partitions, polled, prompt, drawn, batch>>

SessionsOf(u) == {k \in DOMAIN session : k[1] = u}

\* gather returns when every session has, and raises as soon as one does; the
\* others then go on.
GatherReturns(u) == \A k \in SessionsOf(u) : session[k] \in {"stored", "empty"}
GatherRaises(u) == \E k \in SessionsOf(u) : session[k] = "failed"

EndPrompt(u, stage, status) ==
  /\ prompt[u].stage = "running"
  /\ prompt' = [prompt EXCEPT ![u].stage = stage]
  /\ tq' = [tq EXCEPT ![prompt[u].part] =
       Added(@, Marked({PromptKey(u)}, NoStep, status))]
  /\ UNCHANGED <<partitions, polled, session, drawn, batch>>

PromptFinishes(u) == GatherReturns(u) /\ EndPrompt(u, "finished", "finished")
PromptFails(u) == GatherRaises(u) /\ EndPrompt(u, "failed", "failure")

-----------------------------------------------------------------------------
(* The trainer.                                                            *)

\* The entries of a step that one scan of the partition meets.
OfStep(p, step) == {k \in DOMAIN partitions[p] : partitions[p][k].global_steps = step}
MustWait(p, step) == \E k \in OfStep(p, step) : partitions[p][k].status = "running"
Succeeded(p, step) == {k \in OfStep(p, step) : partitions[p][k].status = "success"}

Sample(p, step) ==
  /\ batch[p] = NoBatch
  /\ ~MustWait(p, step)
  /\ batch' = [batch EXCEPT ![p] = [step |-> step, keys |-> Succeeded(p, step)]]
  /\ UNCHANGED <<tq, partitions, polled, prompt, session, drawn>>

\* upsample_batch_to_divisible_size: n padding entries under a uid of their own.
Pad(p, n) ==
  LET pads == {drawn + 1} \X (1..n) IN
  /\ batch[p] # NoBatch /\ batch[p].keys # {}
  /\ drawn' = drawn + 1
  /\ tq' = [tq EXCEPT ![p] = Added(@, Marked(pads, batch[p].step, "success"))]
  /\ batch' = [batch EXCEPT ![p].keys = @ \cup pads]
  /\ UNCHANGED <<partitions, polled, prompt, session>>

ClearQueue(p) ==
  /\ batch[p] # NoBatch
  /\ tq' = [tq EXCEPT ![p] = Without(@, batch[p].keys)]
  /\ UNCHANGED <<partitions, polled, prompt, session, drawn, batch>>

\* Prompts of the partition whose tasks are all over are of no more interest.
Remove(p) ==
  LET kept == {u \in DOMAIN prompt :
                 \/ prompt[u].part # p \/ prompt[u].stage = "running"
                 \/ \E k \in SessionsOf(u) : session[k] = "running"} IN
  /\ batch[p] # NoBatch
  /\ partitions' = [partitions EXCEPT ![p] = Without(@, batch[p].keys)]
  /\ batch' = [batch EXCEPT ![p] = NoBatch]
  /\ prompt' = [u \in kept |-> prompt[u]]
  /\ session' = [k \in {x \in DOMAIN session : x[1] \in kept} |-> session[k]]
  /\ UNCHANGED <<tq, polled, drawn>>

\* What runs beside the trainer.
Poll == PollList \/ \E p \in Partitions : PollAdd(p)
SessionEnds == \E k \in DOMAIN session :
  SessionStores(k) \/ \E end \in {"empty", "failed"} : SessionStoresNothing(k, end)
PromptEnds == \E u \in DOMAIN prompt : PromptFinishes(u) \/ PromptFails(u)

\* What a trainer may do: it holds one batch of a partition at a time, and hands
\* out prompts when it holds none.
Hand(p) ==
  \/ \E step \in Nat, ns \in Seq(Nat) : batch[p] = NoBatch /\ Generate(p, step, ns)
  \/ \E step \in Nat : Sample(p, step)
  \/ \E n \in Nat : Pad(p, n)
  \/ ClearQueue(p) \/ Remove(p)

BufferNext ==
  \/ Poll \/ SessionEnds \/ PromptEnds
  \/ \E p \in Partitions : Hand(p)
  \/ ResetBuffer

BufferSpec == BufferInit /\ [][BufferNext]_bufferVars

-----------------------------------------------------------------------------
(* Properties.                                                             *)

\* sample() returns when the batch is complete, although it knows of the
\* prompts only what the poll thread has copied: no prompt of the batch still
\* runs, and what the sessions of its successful prompts stored is in it.  An
\* output that a session of a failed prompt stores late may be missing.
SampleComplete ==
  \A u \in DOMAIN prompt :
    LET held == batch[prompt[u].part] IN
    held # NoBatch /\ prompt[u].step = held.step =>
      /\ prompt[u].stage # "running"
      /\ prompt[u].stage = "finished" =>
           \A k \in SessionsOf(u) : session[k] = "stored" => k \in held.keys

\* The workers' last tag of a prompt has no global_steps, and sample() reads
\* that field of every entry it meets: it is there because the entry made
\* when the prompt was handed out is in the buffer before the workers' tag
\* arrives and stays, whatever listings are added late.
EntriesHaveStep ==
  \A p \in Partitions : \A k \in DOMAIN partitions[p] :
    partitions[p][k].global_steps # NoStep
=============================================================================
