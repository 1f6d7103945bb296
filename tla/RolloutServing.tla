--------------------------- MODULE RolloutServing ---------------------------
(***************************************************************************)
(* Generation while weights change.  A request of the rollout is served by *)
(*   the client        (FullyAsyncLLMServerClient.generate, a retry loop   *)
(*                     around LLMServerClient.generate);                   *)
(*   the load balancer (LoadBalancer.tla);                                 *)
(*   a server          (vLLMHttpServer in vllm_async_server.py).           *)
(* Meanwhile the trainer runs scripts of broadcasts to the servers: a      *)
(* weight update after some training steps (CheckpointEngineManager        *)
(* .update_weights, base.py), and a validation on its own GPUs             *)
(* (_trainer_side_validate), for which the hybrid servers are woken up,    *)
(* join the pool, leave it and sleep again.                                *)
(*                                                                         *)
(* A broadcast (asyncio.gather, ray.get) reaches the servers in any order; *)
(* the script goes on when the last one has answered.                      *)
(*                                                                         *)
(* The engine is vLLM's (>= 0.12); of it the model has what the comments   *)
(* and calls in vllm_async_server.py say: pause_generation closes a gate   *)
(* for new requests and aborts those inside, resume_generation opens it.   *)
(* The abort may fail, and nobody is told (AbortFails).                    *)
(***************************************************************************)
EXTENDS Integers, Sequences, FiniteSets

CONSTANTS
  Requests,        (* requests of the rollout, one call of generate each   *)
  Standalone,      (* servers with GPUs of their own                       *)
  Hybrid,          (* servers on the trainer's GPUs, asleep while training *)
  ResponseLength,  (* tokens per answer: max_tokens, or response_length    *)
  Headroom,        (* prompt_length - length of the prompt                 *)
  Limited,         (* sampling_params holds max_tokens                     *)
  PartialRollout,  (* async_training.partial_rollout                       *)
  MaxVersion,      (* bound: weight updates                                *)
  CacheSize,       (* sessions the load balancer remembers                 *)
  Flaky,           (* servers whose abort_all_requests may fail            *)
  NoServer

ASSUME LengthAssumption == ResponseLength \in Nat \ {0} /\ Headroom \in Nat
ASSUME FlagAssumption == Limited \in BOOLEAN /\ PartialRollout \in BOOLEAN
ASSUME VersionAssumption == MaxVersion \in Nat
ASSUME DisjointAssumption == Standalone \cap Hybrid = {} /\ Standalone # {}
ASSUME RequestsAssumption == IsFiniteSet(Requests)
ASSUME CacheAssumption == CacheSize \in Nat \ {0}
ASSUME NoServerAssumption == NoServer \notin Standalone \cup Hybrid
ASSUME FlakyAssumption == Flaky \subseteq Standalone \cup Hybrid

Servers == Standalone \cup Hybrid
Torn == -1          (* weights half overwritten                            *)
NoVersion == -2     (* None: no answer has brought a version yet           *)

VARIABLES
  (* the load balancer and its clients' calls *)
  pool, inflight, sticky, recent, assigned, returning,
  (* servers *)
  gate,      (* FALSE from pause_generation to resume_generation           *)
  awake,     (* weights and KV cache are on the GPU                        *)
  weights,   (* version of the loaded weights, or Torn                     *)
  steps,     (* global_steps, the version answers are labelled with        *)
  swallowed, (* servers whose last abort failed, until they are resumed    *)
  (* requests *)
  pc,        (* where a request stands                                     *)
  fresh,     (* tokens generated in the present attempt                    *)
  merged,    (* tokens in final_output                                     *)
  answer,    (* stop_reason and global_steps of the attempt                *)
  used,      (* versions the tokens were generated with                    *)
  oldest,    (* min_global_steps                                           *)
  newest,    (* max_global_steps                                           *)
  exposed,   (* requests that were in an engine its abort should have      *)
             (* emptied, between that abort and the resume                 *)
  (* the trainer *)
  version,   (* current_param_version                                      *)
  todo,      (* broadcasts of the running script still to complete         *)
  reached    (* servers the first of them has reached                      *)

lbVars == <<pool, inflight, sticky, recent>>
callVars == <<assigned, returning>>
serverVars == <<gate, awake, weights, steps, swallowed>>
requestVars == <<pc, fresh, merged, answer, used, oldest, newest, exposed>>
trainerVars == <<version, todo, reached>>
vars == <<lbVars, callVars, serverVars, requestVars, trainerVars>>

LB == INSTANCE LoadBalancer WITH Permanent <- Standalone

Stage == {"ready", "sent", "engine", "answered", "done", "failed"}

Init ==
  /\ LB!Init
  /\ gate = [s \in Servers |-> TRUE]
  /\ awake = [s \in Servers |-> s \in Standalone]
  /\ weights = [s \in Servers |-> IF s \in Standalone THEN 0 ELSE Torn]
  /\ steps = [s \in Servers |-> IF s \in Standalone THEN 0 ELSE NoVersion]
  /\ pc = [r \in Requests |-> "ready"]
  /\ fresh = [r \in Requests |-> 0]
  /\ merged = [r \in Requests |-> 0]
  /\ answer = [r \in Requests |-> [stop |-> "none", steps |-> NoVersion]]
  /\ used = [r \in Requests |-> {}]
  /\ oldest = [r \in Requests |-> NoVersion]
  /\ newest = [r \in Requests |-> NoVersion]
  /\ swallowed = {} /\ exposed = {}
  /\ version = 0
  /\ todo = <<>>
  /\ reached = {}

-----------------------------------------------------------------------------
(* Faulty variants; no specification uses them.  Broadcasts are written    *)
(* as pairs <<operation, servers>>.                                        *)

(* update_weights that forgets to resume generation.                       *)
UpdateScriptNoResume ==
  << <<"abort", Standalone>>, <<"load", Standalone>>, <<"label", Standalone>> >>

(* _trainer_side_validate that puts the servers to sleep before they leave *)
(* the pool.                                                               *)
ValidateScriptSleepFirst ==
  << <<"load", Hybrid>>, <<"label", Hybrid>>, <<"wake", Hybrid>>,
     <<"abort", Standalone>>, <<"abort", Hybrid>>,
     <<"add", Hybrid>>,
     <<"resume", Standalone>>, <<"resume", Hybrid>>,
     <<"validate", {}>>,
     <<"abort", Standalone>>, <<"abort", Hybrid>>,
     <<"sleep", Hybrid>>,
     <<"remove", Hybrid>>,
     <<"resume", Standalone>>, <<"resume", Hybrid>> >>

(* generate that asks for the whole answer again in every attempt.         *)
TokenCapIgnoringMerged(r) == ResponseLength

(* A server that reserves the context without the cap by response_length.  *)
TokenCapUncapped(r) ==
  LET left == (IF Limited THEN ResponseLength ELSE ResponseLength + Headroom)
                - merged[r]
  IN  IF left < 1 THEN 1 ELSE left

(* generate that keeps the newest version of the first attempt.            *)
MergeVersionsFirstOnly(r) ==
  /\ oldest' = [oldest EXCEPT ![r] =
                  IF @ = NoVersion THEN answer[r].steps ELSE @]
  /\ newest' = [newest EXCEPT ![r] =
                  IF @ = NoVersion THEN answer[r].steps ELSE @]

(* generate whose exceptions bypass the release.                           *)
ServerRaiseLeaks(r) ==
  /\ pc[r] = "engine"
  /\ assigned' = [assigned EXCEPT ![r] = NoServer]
  /\ pc' = [pc EXCEPT ![r] = "failed"]
  /\ UNCHANGED <<fresh, merged, answer, used, oldest, newest, exposed, returning,
                 lbVars, serverVars, trainerVars>>

-----------------------------------------------------------------------------
(* The trainer's scripts, as broadcasts <<operation, servers>>.            *)
UpdateScript ==
  << <<"abort", Standalone>>, <<"load", Standalone>>, <<"label", Standalone>>,
     <<"resume", Standalone>> >>

(* update_weights of the trainer's workers in naive mode: the weights go   *)
(* straight into the engines, which then get their KV cache back.          *)
HybridUpdate == << <<"load", Hybrid>>, <<"label", Hybrid>>, <<"wake", Hybrid>> >>

ValidateScript ==
  HybridUpdate \o
  << <<"abort", Standalone>>, <<"abort", Hybrid>>,
     <<"add", Hybrid>>,
     <<"resume", Standalone>>, <<"resume", Hybrid>>,
     <<"validate", {}>>,
     <<"abort", Standalone>>, <<"abort", Hybrid>>,
     <<"remove", Hybrid>>,
     <<"sleep", Hybrid>>,
     <<"resume", Standalone>>, <<"resume", Hybrid>> >>

-----------------------------------------------------------------------------
(* max_tokens of the next attempt.  With max_tokens in the parameters the  *)
(* client subtracts what it has; without, the server derives it from the   *)
(* lengths; the server raises it to 1 in any case.                         *)
TokenCap(r) ==
  LET left == IF Limited THEN ResponseLength - merged[r]
              ELSE ResponseLength + Headroom - merged[r]
      cap  == IF left < ResponseLength THEN left ELSE ResponseLength
  IN  IF cap < 1 THEN 1 ELSE cap

(* The client asks the load balancer for a server and calls it.            *)
ClientAcquire(r) ==
  /\ pc[r] = "ready"
  /\ LB!Acquire(r)
  /\ pc' = [pc EXCEPT ![r] = "sent"]
  /\ UNCHANGED <<fresh, merged, answer, used, oldest, newest, exposed, serverVars,
                 trainerVars>>

(* The call reaches the server and passes its gate into the engine.        *)
ServerAdmit(r) ==
  /\ pc[r] = "sent"
  /\ gate[assigned[r]]
  /\ pc' = [pc EXCEPT ![r] = "engine"]
  /\ fresh' = [fresh EXCEPT ![r] = 0]
  /\ exposed' = exposed \cup {q \in {r} : assigned[q] \in swallowed}
  /\ UNCHANGED <<merged, answer, used, oldest, newest, lbVars, callVars,
                 serverVars, trainerVars>>

(* The engine generates a token, also behind a closed gate, which stops    *)
(* only new requests.  The last token, an end token or the last allowed,   *)
(* completes the answer; its version is read before the event loop of the  *)
(* server handles anything else.                                           *)
EngineToken(r) ==
  /\ pc[r] = "engine"
  /\ awake[assigned[r]]
  /\ fresh' = [fresh EXCEPT ![r] = @ + 1]
  /\ used' = [used EXCEPT ![r] = @ \cup {weights[assigned[r]]}]
  /\ \E last \in BOOLEAN :
       /\ fresh'[r] >= TokenCap(r) => last
       /\ IF last
            THEN /\ pc' = [pc EXCEPT ![r] = "answered"]
                 /\ answer' = [answer EXCEPT ![r] =
                      [stop |-> "completed", steps |-> steps[assigned[r]]]]
            ELSE UNCHANGED <<pc, answer>>
  /\ UNCHANGED <<merged, oldest, newest, exposed, lbVars, callVars, serverVars,
                 trainerVars>>

(* generate raises (no room left in the context, say): the `finally`       *)
(* releases the server, the exception ends the rollout of this sample.     *)
ServerRaise(r) ==
  /\ pc[r] = "engine"
  /\ LB!Return(r)
  /\ pc' = [pc EXCEPT ![r] = "failed"]
  /\ UNCHANGED <<fresh, merged, answer, used, oldest, newest, exposed, serverVars,
                 trainerVars>>

(* The oldest version is the first one known, the newest the last answer's.*)
MergeVersions(r) ==
  /\ oldest' = [oldest EXCEPT ![r] =
                  IF @ = NoVersion THEN answer[r].steps ELSE @]
  /\ newest' = [newest EXCEPT ![r] = answer[r].steps]

(* The client receives an answer, releases the server and merges; it ends  *)
(* at its token limit, after a complete answer, or without partial         *)
(* rollout, and otherwise tries again a second later.                      *)
ClientMerge(r) ==
  /\ pc[r] = "answered"
  /\ LB!Return(r)
  /\ merged' = [merged EXCEPT ![r] = @ + fresh[r]]
  /\ fresh' = [fresh EXCEPT ![r] = 0]
  /\ MergeVersions(r)
  /\ pc' = [pc EXCEPT ![r] =
              IF \/ Limited /\ merged'[r] >= ResponseLength
                 \/ answer[r].stop # "aborted"
                 \/ ~PartialRollout
                THEN "done" ELSE "ready"]
  /\ UNCHANGED <<answer, used, exposed, serverVars, trainerVars>>

LoadBalancerRelease(r) ==
  /\ LB!Release(r)
  /\ UNCHANGED <<serverVars, requestVars, trainerVars>>

Request(r) ==
  \/ ClientAcquire(r) \/ ServerAdmit(r) \/ EngineToken(r)
  \/ ServerRaise(r) \/ ClientMerge(r) \/ LoadBalancerRelease(r)

-----------------------------------------------------------------------------
(* A training step is over: push the weights, then perhaps validate.       *)
StartScript ==
  /\ todo = <<>>
  /\ version < MaxVersion
  /\ version' = version + 1
  /\ \/ todo' = UpdateScript
     \/ Hybrid # {} /\ todo' = UpdateScript \o ValidateScript
  /\ UNCHANGED <<reached, lbVars, callVars, serverVars, requestVars>>

Doing(op, s) ==
  /\ todo # <<>>
  /\ todo[1][1] = op
  /\ s \in todo[1][2] \ reached
  /\ reached' = reached \cup {s}
  /\ UNCHANGED <<version, todo>>

Inside(s) == {r \in Requests : pc[r] = "engine" /\ assigned[r] = s}

(* Requests in server s's engine are answered "aborted".  An answer keeps  *)
(* its tokens, or is empty and then carries no version.                    *)
AnswerAborted(hit, s) ==
  \E empty \in SUBSET {r \in hit : fresh[r] = 0} :
    /\ pc' = [r \in Requests |-> IF r \in hit THEN "answered" ELSE pc[r]]
    /\ answer' = [r \in Requests |->
         IF r \in hit
           THEN [stop |-> "aborted",
                 steps |-> IF r \in empty THEN NoVersion ELSE steps[s]]
           ELSE answer[r]]

(* Faulty variant, which no specification uses: abort_all_requests that    *)
(* closes the gate and lets the requests inside finish.                    *)
AbortGateOnly(s) ==
  /\ Doing("abort", s)
  /\ gate' = [gate EXCEPT ![s] = FALSE]
  /\ swallowed' = swallowed \ {s}
  /\ UNCHANGED <<awake, weights, steps, requestVars, lbVars, callVars>>

(* abort_all_requests: close the gate, abort everything inside.            *)
Abort(s) ==
  /\ Doing("abort", s)
  /\ gate' = [gate EXCEPT ![s] = FALSE]
  /\ AnswerAborted(Inside(s), s)
  /\ swallowed' = swallowed \ {s}
  /\ UNCHANGED <<awake, weights, steps, fresh, merged, used, oldest, newest,
                 exposed, lbVars, callVars>>

(* abort_all_requests fails somewhere: before the gate is closed, or after *)
(* it, with none, some or all of the requests aborted.  The exception is   *)
(* logged and becomes an answer nobody looks at; the script goes on.       *)
AbortFails(s) ==
  /\ s \in Flaky
  /\ Doing("abort", s)
  /\ \E paused \in BOOLEAN, hit \in SUBSET Inside(s) :
       /\ hit # {} => paused
       /\ gate' = [gate EXCEPT ![s] = @ /\ ~paused]
       /\ AnswerAborted(hit, s)
       /\ exposed' = exposed \cup (Inside(s) \ hit)
  /\ swallowed' = swallowed \cup {s}
  /\ UNCHANGED <<awake, weights, steps, fresh, merged, used, oldest, newest,
                 lbVars, callVars>>

(* The transfer overwrites the weights piece by piece.                     *)
Load(s) ==
  /\ Doing("load", s)
  /\ weights' = [weights EXCEPT ![s] = Torn]
  /\ UNCHANGED <<gate, awake, steps, swallowed, requestVars, lbVars, callVars>>

(* The transfer is complete; clear_kv_cache and set_global_steps.          *)
Label(s) ==
  /\ Doing("label", s)
  /\ weights' = [weights EXCEPT ![s] = version]
  /\ steps' = [steps EXCEPT ![s] = version]
  /\ UNCHANGED <<gate, awake, swallowed, requestVars, lbVars, callVars>>

Resume(s) ==
  /\ Doing("resume", s)
  /\ gate' = [gate EXCEPT ![s] = TRUE]
  /\ swallowed' = swallowed \ {s}
  /\ UNCHANGED <<awake, weights, steps, requestVars, lbVars, callVars>>

Wake(s) ==
  /\ Doing("wake", s)
  /\ awake' = [awake EXCEPT ![s] = TRUE]
  /\ UNCHANGED <<gate, weights, steps, swallowed, requestVars, lbVars, callVars>>

(* The engine drains, which does not wait for requests at its gate; then   *)
(* sleep at level 2 discards the weights.                                  *)
Drained(s) == Inside(s) = {}

Sleep(s) ==
  /\ Doing("sleep", s)
  /\ Drained(s)
  /\ awake' = [awake EXCEPT ![s] = FALSE]
  /\ weights' = [weights EXCEPT ![s] = Torn]
  /\ UNCHANGED <<gate, steps, swallowed, requestVars, lbVars, callVars>>

(* add_replicas and remove_replicas: one call for all hybrid servers.      *)
Membership(op, change) ==
  /\ todo # <<>>
  /\ todo[1][1] = op
  /\ reached = {}
  /\ change
  /\ reached' = todo[1][2]
  /\ UNCHANGED <<version, todo, serverVars, requestVars>>

Add == Membership("add", LB!AddServers(Hybrid))
Remove == Membership("remove", LB!RemoveServers(Hybrid))

(* Every server has answered: the next broadcast.                          *)
Advance ==
  /\ todo # <<>>
  /\ todo[1][2] = reached
  /\ todo' = Tail(todo)
  /\ reached' = {}
  /\ UNCHANGED <<version, lbVars, callVars, serverVars, requestVars>>

Server(s) ==
  \/ Abort(s) \/ AbortFails(s) \/ Load(s) \/ Label(s)
  \/ Resume(s) \/ Wake(s) \/ Sleep(s)

Next ==
  \/ \E r \in Requests : Request(r)
  \/ \E s \in Servers : Server(s)
  \/ StartScript \/ Add \/ Remove \/ Advance

Spec == Init /\ [][Next]_vars

Script == (\E s \in Servers : Server(s)) \/ Add \/ Remove \/ Advance

(* Clients, servers and the load balancer are event loops and actors, and  *)
(* the trainer finishes what it began.  A request need not be overtaken    *)
(* by an abort forever: the updates are finitely many.                     *)
Fairness ==
  /\ WF_vars(Script)
  /\ \A r \in Requests :
       /\ WF_vars(ClientAcquire(r)) /\ WF_vars(ServerAdmit(r))
       /\ WF_vars(EngineToken(r))
       /\ WF_vars(ClientMerge(r)) /\ WF_vars(LoadBalancerRelease(r))

FairSpec == Spec /\ Fairness

-----------------------------------------------------------------------------
Versions == 0 .. MaxVersion

TypeOK ==
  /\ LB!TypeOK
  /\ gate \in [Servers -> BOOLEAN]
  /\ awake \in [Servers -> BOOLEAN]
  /\ weights \in [Servers -> Versions \cup {Torn}]
  /\ steps \in [Servers -> Versions \cup {NoVersion}]
  /\ pc \in [Requests -> Stage]
  /\ fresh \in [Requests -> 0 .. ResponseLength]
  /\ merged \in [Requests -> Nat]
  /\ answer \in [Requests -> [stop : {"none", "completed", "aborted"},
                              steps : Versions \cup {NoVersion}]]
  /\ used \in [Requests -> SUBSET (Versions \cup {Torn})]
  /\ oldest \in [Requests -> Versions \cup {NoVersion}]
  /\ newest \in [Requests -> Versions \cup {NoVersion}]
  /\ swallowed \subseteq Servers /\ exposed \subseteq Requests
  /\ version \in Versions
  /\ reached \subseteq Servers

(* No token comes from weights that are being overwritten, on any server   *)
(* and however the broadcasts and the requests interleave                  *)
(* (checkpoint_engine/base.py:487-514).  A failed abort nobody notices     *)
(* (vllm_async_server.py:748-750) spoils no more than the requests that    *)
(* are in that server's engine before it is resumed.                       *)
NoTornWeights == \A r \in Requests \ exposed : Torn \notin used[r]

(* The two versions a sample is labelled with enclose those of all its     *)
(* tokens, over aborts, empty answers and changes of server                *)
(* (fully_async_rollouter.py:127-149): its staleness is never understated, *)
(* and never None, unless it was in an engine whose abort failed unnoticed.*)
(* (This needs PartialRollout: an empty aborted answer is final without    *)
(* it.)                                                                    *)
LabelsCoverVersions ==
  \A r \in Requests \ exposed : pc[r] = "done" =>
    /\ NoVersion \notin {oldest[r], newest[r]}
    /\ \A v \in used[r] : oldest[r] <= v /\ v <= newest[r]

(* However often it is interrupted, an answer is no longer than max_tokens *)
(* asked for, or without max_tokens than the context the server reserves   *)
(* (fully_async_rollouter.py:133-138, vllm_async_server.py:478-497).       *)
LengthBound ==
  \A r \in Requests :
    merged[r] + fresh[r] <= ResponseLength + (IF Limited THEN 0 ELSE Headroom)

(* A hybrid server in the load balancer is awake: it joins after it was    *)
(* woken and leaves before it sleeps (fully_async_trainer.py:557-596).     *)
PoolIsAwake == \A s \in pool : awake[s]

(* No request is sent to a sleeping server, though the sessions it         *)
(* remembers outlive the servers that left the pool (llm_server.py:74-91). *)
RoutedAwake ==
  [][\A r \in Requests :
       pc[r] = "ready" /\ pc'[r] = "sent" => awake[assigned'[r]]]_vars

(* What clients, servers and the trainer do to the load balancer is what   *)
(* LoadBalancer.tla allows, so its theorems hold here: every acquire is    *)
(* followed by one release, whatever ends the call (llm_server.py:200-218).*)
UsesBalancer == LB!Spec

(* Every request ends, interrupted or not, once the updates do.            *)
EveryRequestEnds == \A r \in Requests : <>(pc[r] \in {"done", "failed"})

(* Engines are drained for safe sleep, says vLLMReplica.sleep, and in      *)
(* phase 3 the hybrid GPUs go back to training, says                       *)
(* _trainer_side_validate: a sleeping server has no request in its engine  *)
(* (vllm_async_server.py:1063, fully_async_trainer.py:584).                *)
SleepingServerIdle ==
  \A r \in Requests : pc[r] = "engine" => awake[assigned[r]]

=============================================================================
