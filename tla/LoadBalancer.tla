---------------------------- MODULE LoadBalancer ----------------------------
(***************************************************************************)
(* The GlobalRequestLoadBalancer actor (workers/rollout/llm_server.py) and *)
(* the two calls its clients make: acquire_server, awaited, and            *)
(* release_server, sent and forgotten.  The actor is a synchronous Ray     *)
(* actor: one call at a time, and the calls of one client in the order it  *)
(* made them, so a request's release is handled before its next acquire.   *)
(*                                                                         *)
(* Only hybrid servers come and go (add_servers, remove_servers); the      *)
(* permanent ones are in the pool from the start.                          *)
(***************************************************************************)
EXTENDS Integers, Sequences, FiniteSets

CONSTANTS
  Requests,     (* request ids, each used for many calls (turns, retries)  *)
  Servers,      (* server ids                                              *)
  Permanent,    (* servers that are never removed                          *)
  CacheSize,    (* DEFAULT_ROUTING_CACHE_SIZE                              *)
  NoServer      (* none                                                    *)

ASSUME PermanentAssumption == Permanent \subseteq Servers /\ Permanent # {}
ASSUME CacheAssumption == CacheSize \in Nat \ {0}
ASSUME NoServerAssumption == NoServer \notin Servers
ASSUME RequestsAssumption == IsFiniteSet(Requests)

VARIABLES
  pool,       (* keys of _inflight_requests (and of _servers)              *)
  inflight,   (* _inflight_requests; 0 for a server not in the pool        *)
  sticky,     (* _request_id_to_server; NoServer when not cached           *)
  recent,     (* the cached request ids, least recently used first         *)
  assigned,   (* the server a client holds for a request, or NoServer      *)
  returning   (* the server of a release call in transit, or NoServer      *)

lbVars == <<pool, inflight, sticky, recent>>
vars == <<lbVars, assigned, returning>>

Init ==
  /\ pool = Permanent
  /\ inflight = [s \in Servers |-> 0]
  /\ sticky = [r \in Requests |-> NoServer]
  /\ recent = <<>>
  /\ assigned = [r \in Requests |-> NoServer]
  /\ returning = [r \in Requests |-> NoServer]

(* The cache's order without r, which is in it at most once.               *)
Without(seq, r) ==
  LET places == {i \in 1 .. Len(seq) : seq[i] = r}
      i      == CHOOSE j \in places : TRUE
  IN  IF places = {} THEN seq
      ELSE SubSeq(seq, 1, i - 1) \o SubSeq(seq, i + 1, Len(seq))

(* min(self._inflight_requests, key=...), over the pool.                   *)
LeastInflight == {s \in pool : \A t \in pool : inflight[s] <= inflight[t]}

-----------------------------------------------------------------------------
(* Faulty variants; no specification uses them.                            *)

(* release_server that does not stop at zero.                              *)
ReleaseBelowZero(r) ==
  /\ returning[r] # NoServer
  /\ inflight' = [inflight EXCEPT ![returning[r]] = @ - 1]
  /\ returning' = [returning EXCEPT ![r] = NoServer]
  /\ UNCHANGED <<pool, sticky, recent, assigned>>

(* generate without its `finally`: an answer that is an exception is not   *)
(* followed by a release.                                                  *)
ReturnMaybe(r) ==
  /\ assigned[r] # NoServer
  /\ assigned' = [assigned EXCEPT ![r] = NoServer]
  /\ \E s \in {assigned[r], NoServer} : returning' = [returning EXCEPT ![r] = s]
  /\ UNCHANGED lbVars

(* release_server that looks the server up in the routing cache.           *)
ReleaseByRequest(r) ==
  /\ returning[r] # NoServer
  /\ LET s == sticky[r] IN
       inflight' = IF s \in pool /\ inflight[s] > 0
                     THEN [inflight EXCEPT ![s] = @ - 1] ELSE inflight
  /\ returning' = [returning EXCEPT ![r] = NoServer]
  /\ UNCHANGED <<pool, sticky, recent, assigned>>

(* acquire_server that trusts the cached server without looking whether it *)
(* is still there.                                                         *)
AcquireStickyUnchecked(r) ==
  /\ assigned[r] = NoServer /\ returning[r] = NoServer
  /\ sticky[r] # NoServer
  /\ inflight' = [inflight EXCEPT ![sticky[r]] = @ + 1]
  /\ assigned' = [assigned EXCEPT ![r] = sticky[r]]
  /\ recent' = Append(Without(recent, r), r)
  /\ UNCHANGED <<pool, sticky, returning>>

-----------------------------------------------------------------------------
(* acquire_server, sticky session: the cached server is still in the pool. *)
AcquireSticky(r) ==
  /\ assigned[r] = NoServer /\ returning[r] = NoServer
  /\ sticky[r] \in pool
  /\ inflight' = [inflight EXCEPT ![sticky[r]] = @ + 1]
  /\ assigned' = [assigned EXCEPT ![r] = sticky[r]]
  /\ recent' = Append(Without(recent, r), r)
  /\ UNCHANGED <<pool, sticky, returning>>

(* acquire_server, new server: a stale entry is deleted, a least loaded    *)
(* server chosen and cached; a full cache forgets its oldest entry.        *)
AcquireNew(r) ==
  /\ assigned[r] = NoServer /\ returning[r] = NoServer
  /\ sticky[r] \notin pool
  /\ LET others == Without(recent, r)
         evict  == Len(others) >= CacheSize
         kept   == IF evict THEN Tail(others) ELSE others
     IN
     \E s \in LeastInflight :
       /\ inflight' = [inflight EXCEPT ![s] = @ + 1]
       /\ assigned' = [assigned EXCEPT ![r] = s]
       /\ sticky' = [q \in Requests |->
                       IF q = r THEN s
                       ELSE IF evict /\ q = Head(others) THEN NoServer
                       ELSE sticky[q]]
       /\ recent' = Append(kept, r)
  /\ UNCHANGED <<pool, returning>>

Acquire(r) == AcquireSticky(r) \/ AcquireNew(r)

(* The `finally` of LLMServerClient.generate: the release is sent, not     *)
(* awaited.                                                                *)
Return(r) ==
  /\ assigned[r] # NoServer
  /\ assigned' = [assigned EXCEPT ![r] = NoServer]
  /\ returning' = [returning EXCEPT ![r] = assigned[r]]
  /\ UNCHANGED lbVars

(* release_server: ignored for a server that has left, never below zero.   *)
Release(r) ==
  /\ returning[r] # NoServer
  /\ LET s == returning[r] IN
       inflight' = IF s \in pool /\ inflight[s] > 0
                     THEN [inflight EXCEPT ![s] = @ - 1] ELSE inflight
  /\ returning' = [returning EXCEPT ![r] = NoServer]
  /\ UNCHANGED <<pool, sticky, recent, assigned>>

(* add_servers: the count starts at zero, even for a server in the pool.   *)
AddServers(S) ==
  /\ pool' = pool \cup S
  /\ inflight' = [s \in Servers |-> IF s \in S THEN 0 ELSE inflight[s]]
  /\ UNCHANGED <<sticky, recent, assigned, returning>>

(* remove_servers: whatever is in flight there; sticky entries stay.       *)
RemoveServers(S) ==
  /\ pool' = pool \ S
  /\ inflight' = [s \in Servers |-> IF s \in S THEN 0 ELSE inflight[s]]
  /\ UNCHANGED <<sticky, recent, assigned, returning>>

Next ==
  \/ \E r \in Requests : Acquire(r) \/ Return(r) \/ Release(r)
  \/ \E S \in (SUBSET (Servers \ Permanent)) \ {{}} :
       AddServers(S) \/ RemoveServers(S)

Spec == Init /\ [][Next]_vars

-----------------------------------------------------------------------------
TypeOK ==
  /\ pool \subseteq Servers /\ Permanent \subseteq pool
  /\ inflight \in [Servers -> Nat]
  /\ sticky \in [Requests -> Servers \cup {NoServer}]
  /\ assigned \in [Requests -> Servers \cup {NoServer}]
  /\ returning \in [Requests -> Servers \cup {NoServer}]

(* Requests the load balancer should be counting for a server: acquired    *)
(* and not released yet, or with the release still in transit.             *)
Users(s) == {r \in Requests : assigned[r] = s \/ returning[r] = s}

(* The count of a permanent server is exact whatever hybrid servers do,    *)
(* and however often requests are retried (llm_server.py:68-98, 174-218).  *)
PermanentExact ==
  \A s \in Permanent : inflight[s] = Cardinality(Users(s))

(* A server that left and came back may be counted too low, as releases of *)
(* its earlier life arrive, but never too high: load never leaks, and an   *)
(* idle server is never avoided (llm_server.py:93-126).                    *)
NeverOverstated == \A s \in pool : inflight[s] <= Cardinality(Users(s))

(* What the counts and the cached sessions are for.  A call goes to a      *)
(* server of the pool, though a session may name one that has left; and a  *)
(* new session on a permanent server means that no server has fewer users, *)
(* however late releases arrive and hybrid servers return                  *)
(* (llm_server.py:68-98).                                                  *)
RoutingSound ==
  [][\A r \in Requests : assigned[r] = NoServer /\ assigned'[r] # NoServer =>
       /\ assigned'[r] \in pool
       /\ sticky[r] \notin pool /\ assigned'[r] \in Permanent =>
            \A s \in pool :
              Cardinality(Users(assigned'[r])) <= Cardinality(Users(s))]_vars

=============================================================================
