------------------------- MODULE LoadBalancerProofs -------------------------
(***************************************************************************)
(* For any number of requests and servers: the counts that acquire_server  *)
(* balances on, and where it sends requests.                               *)
(*                                                                         *)
(* The inductive invariant adds that a client does not hold a server for a *)
(* request while the release of the last one is in transit (acquire_server *)
(* is handled after it), so that each request is counted at most once.     *)
(***************************************************************************)
EXTENDS LoadBalancer, FiniteSetTheorems, TLAPS

OneAtATime == \A r \in Requests : assigned[r] = NoServer \/ returning[r] = NoServer

IInv == TypeOK /\ OneAtATime /\ PermanentExact /\ NeverOverstated

-----------------------------------------------------------------------------
(* Users is a finite set, and its cardinality a number.                    *)
LEMMA UsersFinite ==
  ASSUME NEW s
  PROVE  IsFiniteSet(Users(s)) /\ Cardinality(Users(s)) \in Nat
<1>1. Users(s) \subseteq Requests
  BY DEF Users
<1>2. IsFiniteSet(Users(s))
  BY <1>1, RequestsAssumption, FS_Subset
<1> QED
  BY <1>2, FS_CardinalityType

(* Nobody uses a server at first.                                          *)
LEMMA InitInvariant == Init => IInv
<1> SUFFICES ASSUME Init PROVE IInv
  OBVIOUS
<1>1. TypeOK
  BY PermanentAssumption DEF Init, TypeOK
<1>2. OneAtATime
  BY DEF Init, OneAtATime
<1>3. ASSUME NEW s \in Servers PROVE Cardinality(Users(s)) = 0
  <2>1. Users(s) = {}
    BY NoServerAssumption DEF Init, Users
  <2> QED
    BY <2>1, FS_EmptySet
<1>4. PermanentExact
  BY <1>3, PermanentAssumption DEF Init, PermanentExact
<1>5. NeverOverstated
  BY <1>3, PermanentAssumption DEF Init, NeverOverstated
<1> QED
  BY <1>1, <1>2, <1>4, <1>5 DEF IInv

(* An acquire adds the request to the users of the chosen server and to no *)
(* other server's.                                                         *)
LEMMA AcquireUsers ==
  ASSUME NEW r \in Requests, NEW s \in Servers, IInv,
         assigned[r] = NoServer, returning[r] = NoServer,
         assigned' = [assigned EXCEPT ![r] = s], UNCHANGED returning
  PROVE  /\ Cardinality(Users(s))' = Cardinality(Users(s)) + 1
         /\ \A t \in Servers \ {s} : Users(t)' = Users(t)
<1>0. TypeOK /\ s # NoServer
  BY NoServerAssumption DEF IInv
<1>1. Users(s)' = Users(s) \cup {r}
  BY <1>0 DEF Users, TypeOK
<1>2. r \notin Users(s)
  BY <1>0 DEF Users
<1>3. Cardinality(Users(s) \cup {r}) = Cardinality(Users(s)) + 1
  BY <1>2, UsersFinite, FS_AddElement
<1>4. ASSUME NEW t \in Servers \ {s} PROVE Users(t)' = Users(t)
  BY <1>0, NoServerAssumption DEF Users, TypeOK
<1> QED
  BY <1>1, <1>3, <1>4

(* A handled release takes the request from the users of its server.       *)
LEMMA ReleaseUsers ==
  ASSUME NEW r \in Requests, NEW s \in Servers, IInv, returning[r] = s,
         returning' = [returning EXCEPT ![r] = NoServer], UNCHANGED assigned
  PROVE  /\ Cardinality(Users(s)) > 0
         /\ Cardinality(Users(s))' = Cardinality(Users(s)) - 1
         /\ \A t \in Servers \ {s} : Users(t)' = Users(t)
<1>0. TypeOK /\ s # NoServer /\ assigned[r] = NoServer
  BY NoServerAssumption DEF IInv, OneAtATime
<1>1. Users(s)' = Users(s) \ {r}
  BY <1>0 DEF Users, TypeOK
<1>2. r \in Users(s)
  BY DEF Users
<1>3. Cardinality(Users(s) \ {r}) = Cardinality(Users(s)) - 1
  BY <1>2, UsersFinite, FS_RemoveElement
<1>4. Cardinality(Users(s)) # 0
  BY <1>2, UsersFinite, FS_EmptySet
<1>5. ASSUME NEW t \in Servers \ {s} PROVE Users(t)' = Users(t)
  BY <1>0, NoServerAssumption DEF Users, TypeOK
<1> QED
  BY <1>1, <1>3, <1>4, <1>5, UsersFinite

(* acquire_server, by either branch, counts the request where it goes.     *)
LEMMA AcquireInvariant ==
  ASSUME NEW r \in Requests, NEW s \in pool, IInv,
         assigned[r] = NoServer, returning[r] = NoServer,
         assigned' = [assigned EXCEPT ![r] = s],
         inflight' = [inflight EXCEPT ![s] = @ + 1],
         UNCHANGED <<pool, returning>>
  PROVE  OneAtATime' /\ PermanentExact' /\ NeverOverstated' /\ inflight' \in [Servers -> Nat]
<1>0. TypeOK /\ OneAtATime /\ PermanentExact /\ NeverOverstated /\ s \in Servers
  BY DEF IInv, TypeOK
<1>1. OneAtATime'
  BY <1>0 DEF OneAtATime, TypeOK
<1>2. inflight' \in [Servers -> Nat]
  BY <1>0 DEF TypeOK
<1>3. /\ Cardinality(Users(s))' = Cardinality(Users(s)) + 1
      /\ \A t \in Servers \ {s} : Users(t)' = Users(t)
  BY <1>0, AcquireUsers
<1>4. inflight'[s] = inflight[s] + 1 /\ \A t \in Servers \ {s} : inflight'[t] = inflight[t]
  BY <1>0 DEF TypeOK
<1>5. PermanentExact'
  <2> SUFFICES ASSUME NEW t \in Permanent PROVE inflight'[t] = Cardinality(Users(t))'
    BY DEF PermanentExact
  <2>1. inflight[t] = Cardinality(Users(t)) /\ t \in Servers
    BY <1>0, PermanentAssumption DEF PermanentExact
  <2>2. CASE t = s
    BY <2>1, <2>2, <1>3, <1>4
  <2>3. CASE t # s
    BY <2>1, <2>3, <1>3, <1>4
  <2> QED
    BY <2>2, <2>3
<1>6. NeverOverstated'
  <2> SUFFICES ASSUME NEW t \in pool PROVE inflight'[t] <= Cardinality(Users(t))'
    BY DEF NeverOverstated
  <2>1. inflight[t] <= Cardinality(Users(t)) /\ t \in Servers /\ inflight[t] \in Nat
    BY <1>0 DEF NeverOverstated, TypeOK
  <2>2. CASE t = s
    BY <2>1, <2>2, <1>3, <1>4, UsersFinite
  <2>3. CASE t # s
    BY <2>1, <2>3, <1>3, <1>4
  <2> QED
    BY <2>2, <2>3
<1> QED
  BY <1>1, <1>2, <1>5, <1>6

(* Every step preserves the invariant, one case for each operation.        *)
LEMMA NextInvariant == IInv /\ [Next]_vars => IInv'
<1> SUFFICES ASSUME IInv, [Next]_vars PROVE IInv'
  OBVIOUS
<1>0. TypeOK /\ OneAtATime /\ PermanentExact /\ NeverOverstated
  BY DEF IInv
<1>1. ASSUME NEW r \in Requests, AcquireSticky(r) PROVE IInv'
  <2>1. sticky[r] \in pool
    BY <1>1 DEF AcquireSticky
  <2>2. OneAtATime' /\ PermanentExact' /\ NeverOverstated' /\ inflight' \in [Servers -> Nat]
    BY <1>1, <2>1, AcquireInvariant DEF AcquireSticky
  <2>3. TypeOK'
    BY <1>0, <1>1, <2>2 DEF AcquireSticky, TypeOK
  <2> QED
    BY <2>2, <2>3 DEF IInv
<1>2. ASSUME NEW r \in Requests, AcquireNew(r) PROVE IInv'
  <2>1. PICK s \in LeastInflight :
          /\ inflight' = [inflight EXCEPT ![s] = @ + 1]
          /\ assigned' = [assigned EXCEPT ![r] = s]
          /\ \A q \in Requests : sticky'[q] \in {s, NoServer, sticky[q]}
          /\ sticky' = [q \in Requests |-> sticky'[q]]
    <3> DEFINE others == Without(recent, r)
               evict == Len(others) >= CacheSize
    <3> HIDE DEF others, evict
    <3>1. PICK s \in LeastInflight :
            /\ inflight' = [inflight EXCEPT ![s] = @ + 1]
            /\ assigned' = [assigned EXCEPT ![r] = s]
            /\ sticky' = [q \in Requests |-> IF q = r THEN s
                            ELSE IF evict /\ q = Head(others) THEN NoServer
                            ELSE sticky[q]]
      BY <1>2, Zenon DEF AcquireNew, others, evict
    <3> QED
      BY <3>1
  <2>2. s \in pool
    BY DEF LeastInflight
  <2>3. OneAtATime' /\ PermanentExact' /\ NeverOverstated' /\ inflight' \in [Servers -> Nat]
    BY <1>2, <2>1, <2>2, AcquireInvariant DEF AcquireNew
  <2>4. TypeOK'
    <3>1. sticky' \in [Requests -> Servers \cup {NoServer}]
      BY <1>0, <2>1, <2>2 DEF TypeOK
    <3> QED
      BY <1>0, <1>2, <2>1, <2>2, <2>3, <3>1 DEF AcquireNew, TypeOK
  <2> QED
    BY <2>3, <2>4 DEF IInv
<1>3. ASSUME NEW r \in Requests, Return(r) PROVE IInv'
  <2>1. returning[r] = NoServer
    BY <1>0, <1>3 DEF Return, OneAtATime
  <2>2. \A s \in Servers : Users(s)' = Users(s)
    BY <1>0, <1>3, <2>1, NoServerAssumption DEF Return, Users, TypeOK
  <2>3. TypeOK' /\ OneAtATime'
    BY <1>0, <1>3 DEF Return, lbVars, TypeOK, OneAtATime
  <2>4. PermanentExact' /\ NeverOverstated'
    BY <1>0, <1>3, <2>2, PermanentAssumption
    DEF Return, lbVars, PermanentExact, NeverOverstated, TypeOK
  <2> QED
    BY <2>3, <2>4 DEF IInv
<1>4. ASSUME NEW r \in Requests, Release(r) PROVE IInv'
  <2> DEFINE s == returning[r]
  <2>1. s \in Servers
    BY <1>0, <1>4 DEF Release, TypeOK
  <2>2. PICK t \in Servers : t = s
    BY <2>1
  <2>3. /\ Cardinality(Users(t)) > 0
        /\ Cardinality(Users(t))' = Cardinality(Users(t)) - 1
        /\ \A u \in Servers \ {t} : Users(u)' = Users(u)
    BY <1>4, <2>2, ReleaseUsers DEF Release
  <2>4. inflight' = IF t \in pool /\ inflight[t] > 0
                      THEN [inflight EXCEPT ![t] = @ - 1] ELSE inflight
    BY <1>4, <2>2 DEF Release
  <2>5. TypeOK' /\ OneAtATime'
    BY <1>0, <1>4, <2>4 DEF Release, TypeOK, OneAtATime
  <2>6. PermanentExact'
    <3> SUFFICES ASSUME NEW u \in Permanent PROVE inflight'[u] = Cardinality(Users(u))'
      BY DEF PermanentExact
    <3>1. inflight[u] = Cardinality(Users(u)) /\ u \in Servers /\ u \in pool
      BY <1>0, PermanentAssumption DEF PermanentExact, TypeOK
    <3>2. CASE u = t
      BY <1>0, <2>3, <2>4, <3>1, <3>2 DEF TypeOK
    <3>3. CASE u # t
      BY <1>0, <2>3, <2>4, <3>1, <3>3 DEF TypeOK
    <3> QED
      BY <3>2, <3>3
  <2>7. NeverOverstated'
    <3> SUFFICES ASSUME NEW u \in pool PROVE inflight'[u] <= Cardinality(Users(u))'
      BY <1>4 DEF Release, NeverOverstated
    <3>1. inflight[u] <= Cardinality(Users(u)) /\ u \in Servers /\ inflight[u] \in Nat
      BY <1>0 DEF NeverOverstated, TypeOK
    <3>2. CASE u = t
      BY <1>0, <2>3, <2>4, <3>1, <3>2, UsersFinite DEF TypeOK
    <3>3. CASE u # t
      BY <1>0, <2>3, <2>4, <3>1, <3>3 DEF TypeOK
    <3> QED
      BY <3>2, <3>3
  <2> QED
    BY <2>5, <2>6, <2>7 DEF IInv
<1>5. ASSUME NEW S \in SUBSET (Servers \ Permanent), AddServers(S) \/ RemoveServers(S)
      PROVE  IInv'
  <2>1. /\ inflight' = [s \in Servers |-> IF s \in S THEN 0 ELSE inflight[s]]
        /\ pool' \subseteq pool \cup S
        /\ UNCHANGED <<sticky, assigned, returning>>
    BY <1>5 DEF AddServers, RemoveServers
  <2>2. \A s : Users(s)' = Users(s)
    BY <2>1 DEF Users
  <2>3. TypeOK'
    BY <1>0, <1>5, <2>1 DEF AddServers, RemoveServers, TypeOK
  <2>4. OneAtATime'
    BY <1>0, <2>1 DEF OneAtATime
  <2>5. PermanentExact'
    BY <1>0, <2>1, <2>2, PermanentAssumption DEF PermanentExact
  <2>6. NeverOverstated'
    <3> SUFFICES ASSUME NEW s \in pool' PROVE inflight'[s] <= Cardinality(Users(s))
      BY <2>2 DEF NeverOverstated
    <3>1. s \in Servers
      BY <1>0, <2>1 DEF TypeOK
    <3>2. CASE s \in S
      BY <2>1, <3>1, <3>2, UsersFinite
    <3>3. CASE s \notin S
      BY <1>0, <2>1, <3>1, <3>3 DEF NeverOverstated
    <3> QED
      BY <3>2, <3>3
  <2> QED
    BY <2>3, <2>4, <2>5, <2>6 DEF IInv
<1>6. CASE UNCHANGED vars
  BY <1>0, <1>6
  DEF vars, lbVars, IInv, TypeOK, OneAtATime, PermanentExact, NeverOverstated, Users
<1> QED
  BY <1>1, <1>2, <1>3, <1>4, <1>5, <1>6 DEF Next, Acquire

(* The invariant holds in every reachable state.                           *)
THEOREM Invariance == Spec => []IInv
  BY InitInvariant, NextInvariant, PTL DEF Spec

(* Every variable keeps its type; in particular no count goes below zero   *)
(* and no permanent server leaves the pool (llm_server.py:60-126).         *)
THEOREM TypeCorrect == Spec => []TypeOK
<1>1. IInv => TypeOK
  BY DEF IInv
<1> QED
  BY <1>1, Invariance, PTL

(* The count of a permanent server is the number of its users, for any     *)
(* interleaving of acquires, releases and changes of the pool              *)
(* (llm_server.py:68-126).                                                 *)
THEOREM PermanentCorrect == Spec => []PermanentExact
<1>1. IInv => PermanentExact
  BY DEF IInv
<1> QED
  BY <1>1, Invariance, PTL

(* No server in the pool is counted as busier than it is, not even one     *)
(* that was removed with requests in flight and added again                *)
(* (llm_server.py:93-126).                                                 *)
THEOREM LoadNeverOverstated == Spec => []NeverOverstated
<1>1. IInv => NeverOverstated
  BY DEF IInv
<1> QED
  BY <1>1, Invariance, PTL

(* Every call goes to a server of the pool, whatever session the cache     *)
(* remembers; and a new session on a permanent server means that no server *)
(* of the pool has fewer users: the permanent one is counted exactly, the  *)
(* others never too high (llm_server.py:68-98).                            *)
THEOREM RoutingCorrect == Spec => RoutingSound
<1> DEFINE Sound(r) ==
      assigned[r] = NoServer /\ assigned'[r] # NoServer =>
        /\ assigned'[r] \in pool
        /\ sticky[r] \notin pool /\ assigned'[r] \in Permanent =>
             \A s \in pool :
               Cardinality(Users(assigned'[r])) <= Cardinality(Users(s))
<1>1. ASSUME IInv, [Next]_vars, NEW r \in Requests PROVE Sound(r)
  <2>0. TypeOK /\ PermanentExact /\ NeverOverstated
    BY <1>1 DEF IInv
  <2>1. ASSUME NEW q \in Requests, AcquireSticky(q) PROVE Sound(r)
    BY <2>0, <2>1 DEF AcquireSticky, TypeOK
  <2>2. ASSUME NEW q \in Requests, AcquireNew(q) PROVE Sound(r)
    <3>1. PICK s \in LeastInflight : assigned' = [assigned EXCEPT ![q] = s]
      BY <2>2, Zenon DEF AcquireNew
    <3>2. CASE q # r
      BY <2>0, <3>1, <3>2 DEF TypeOK
    <3>3. CASE q = r
      <4>1. assigned'[r] = s /\ s \in pool /\ \A t \in pool : inflight[s] <= inflight[t]
        BY <2>0, <3>1, <3>3 DEF TypeOK, LeastInflight
      <4>2. ASSUME s \in Permanent, NEW t \in pool
            PROVE  Cardinality(Users(s)) <= Cardinality(Users(t))
        <5>1. inflight[s] = Cardinality(Users(s)) /\ inflight[t] <= Cardinality(Users(t))
          BY <2>0, <4>2 DEF PermanentExact, NeverOverstated
        <5>2. inflight[s] \in Nat /\ inflight[t] \in Nat /\ inflight[s] <= inflight[t]
          BY <2>0, <4>1, <4>2 DEF TypeOK
        <5> QED
          BY <5>1, <5>2, UsersFinite
      <4> QED
        BY <4>1, <4>2
    <3> QED
      BY <3>2, <3>3
  <2>3. ASSUME NEW q \in Requests, Return(q) \/ Release(q) PROVE Sound(r)
    BY <2>0, <2>3 DEF Return, Release, TypeOK
  <2>4. ASSUME NEW S, AddServers(S) \/ RemoveServers(S) PROVE Sound(r)
    BY <2>4 DEF AddServers, RemoveServers
  <2>5. CASE UNCHANGED vars
    BY <2>5 DEF vars
  <2> QED
    BY <1>1, <2>1, <2>2, <2>3, <2>4, <2>5 DEF Next, Acquire
<1>2. IInv /\ [Next]_vars => [\A r \in Requests : Sound(r)]_vars
  BY <1>1
<1> QED
  BY <1>2, Invariance, PTL DEF Spec, RoutingSound

=============================================================================
