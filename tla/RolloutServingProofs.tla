------------------------ MODULE RolloutServingProofs ------------------------
(***************************************************************************)
(* Generation while weights change, for any number of requests, servers,   *)
(* updates and tokens: what an answer is made of, how long it gets, and    *)
(* which versions it is labelled with.                                     *)
(*                                                                         *)
(* The argument is about where the trainer's script stands.  The broadcasts*)
(* of a training step are numbered 1 to 19 (Full); 20 is the time between  *)
(* scripts.  At each place (ServersAt) it is known which gates are shut,   *)
(* which servers are awake, which weights and labels they have, and whether*)
(* the hybrid servers are in the load balancer; so any server that can     *)
(* generate has the weights and the label of one version, Current, which   *)
(* never sinks, unless its abort failed unnoticed.  A server is relabelled *)
(* only when it is shut, asleep or such a server.  Shut or asleep, it has  *)
(* generated nothing for the requests inside it; what is inside it after a *)
(* failed abort is exposed (ShutIsEmpty, AsleepIsIdle).  Hence the labels  *)
(* of every request that is not, LabelsOf.                                 *)
(***************************************************************************)
EXTENDS RolloutServing, SequenceTheorems, TLAPS

(* The load balancer with what is proved of it.                            *)
Balancer == INSTANCE LoadBalancerProofs WITH Permanent <- Standalone

-----------------------------------------------------------------------------
(* The scripts.  The longer one is numbered; the shorter is its beginning. *)
Full ==
  << <<"abort", Standalone>>, <<"load", Standalone>>, <<"label", Standalone>>,
     <<"resume", Standalone>>,
     <<"load", Hybrid>>, <<"label", Hybrid>>, <<"wake", Hybrid>>,
     <<"abort", Standalone>>, <<"abort", Hybrid>>, <<"add", Hybrid>>,
     <<"resume", Standalone>>, <<"resume", Hybrid>>, <<"validate", {}>>,
     <<"abort", Standalone>>, <<"abort", Hybrid>>, <<"remove", Hybrid>>,
     <<"sleep", Hybrid>>, <<"resume", Standalone>>, <<"resume", Hybrid>> >>

Broadcasts == {Full[i] : i \in 1 .. 19}

(* The numbered broadcasts, one by one.                                    *)
LEMMA Table ==
  /\ Full[1] = <<"abort", Standalone>> /\ Full[2] = <<"load", Standalone>>
  /\ Full[3] = <<"label", Standalone>> /\ Full[4] = <<"resume", Standalone>>
  /\ Full[5] = <<"load", Hybrid>> /\ Full[6] = <<"label", Hybrid>>
  /\ Full[7] = <<"wake", Hybrid>> /\ Full[8] = <<"abort", Standalone>>
  /\ Full[9] = <<"abort", Hybrid>> /\ Full[10] = <<"add", Hybrid>>
  /\ Full[11] = <<"resume", Standalone>> /\ Full[12] = <<"resume", Hybrid>>
  /\ Full[13] = <<"validate", {}>> /\ Full[14] = <<"abort", Standalone>>
  /\ Full[15] = <<"abort", Hybrid>> /\ Full[16] = <<"remove", Hybrid>>
  /\ Full[17] = <<"sleep", Hybrid>> /\ Full[18] = <<"resume", Standalone>>
  /\ Full[19] = <<"resume", Hybrid>>
BY DEF Full

(* They are a sequence.                                                    *)
LEMMA FullType == Full \in Seq(Broadcasts) /\ Len(Full) = 19
<1>1. Len(Full) = 19 /\ Full = [i \in 1 .. 19 |-> Full[i]]
  BY DEF Full
<1> HIDE DEF Full
<1>2. Full \in [1 .. 19 -> Broadcasts]
  BY <1>1 DEF Broadcasts
<1> QED
  BY <1>1, <1>2, IsASeq

(* A weight update is the first four of them.                              *)
LEMMA UpdatePart == UpdateScript = SubSeq(Full, 1, 4)
<1>1. UpdateScript \in Seq(Broadcasts) /\ Len(UpdateScript) = 4
  <2>1. <<"abort", Standalone>> \in Broadcasts /\ <<"load", Standalone>> \in Broadcasts
        /\ <<"label", Standalone>> \in Broadcasts /\ <<"resume", Standalone>> \in Broadcasts
    BY Table DEF Broadcasts
  <2> QED
    BY <2>1 DEF UpdateScript
<1>2. UpdateScript[1] = Full[1] /\ UpdateScript[2] = Full[2]
      /\ UpdateScript[3] = Full[3] /\ UpdateScript[4] = Full[4]
  BY Table DEF UpdateScript
<1> DEFINE part == SubSeq(Full, 1, 4)
<1>3. part \in Seq(Broadcasts) /\ Len(part) = 4 /\ \A i \in 1 .. 4 : part[i] = Full[i]
  BY FullType
<1> HIDE DEF part
<1>4. \A i \in 1 .. 4 : UpdateScript[i] = part[i]
  BY <1>2, <1>3
<1>5. UpdateScript = part
  BY <1>1, <1>3, <1>4, SeqEqual
<1> QED
  BY <1>5 DEF part

(* A weight update with a validation is all of them.                       *)
LEMMA ValidatePart == UpdateScript \o ValidateScript = Full
<1> DEFINE rest == << <<"abort", Standalone>>, <<"abort", Hybrid>>, <<"add", Hybrid>>,
     <<"resume", Standalone>>, <<"resume", Hybrid>>, <<"validate", {}>>,
     <<"abort", Standalone>>, <<"abort", Hybrid>>, <<"remove", Hybrid>>,
     <<"sleep", Hybrid>>, <<"resume", Standalone>>, <<"resume", Hybrid>> >>
<1>1. HybridUpdate \in Seq(Broadcasts) /\ Len(HybridUpdate) = 3
      /\ \A i \in 1 .. 3 : HybridUpdate[i] = Full[i + 4]
  <2>1. <<"load", Hybrid>> \in Broadcasts /\ <<"label", Hybrid>> \in Broadcasts
        /\ <<"wake", Hybrid>> \in Broadcasts
    BY Table DEF Broadcasts
  <2>2. HybridUpdate[1] = Full[5] /\ HybridUpdate[2] = Full[6] /\ HybridUpdate[3] = Full[7]
    BY Table DEF HybridUpdate
  <2>3. HybridUpdate \in Seq(Broadcasts) /\ Len(HybridUpdate) = 3
    BY <2>1 DEF HybridUpdate
  <2> QED
    BY <2>2, <2>3
<1>2. rest \in Seq(Broadcasts) /\ Len(rest) = 12 /\ \A i \in 1 .. 12 : rest[i] = Full[i + 7]
  <2>1. /\ <<"abort", Standalone>> \in Broadcasts /\ <<"abort", Hybrid>> \in Broadcasts
        /\ <<"add", Hybrid>> \in Broadcasts /\ <<"resume", Standalone>> \in Broadcasts
        /\ <<"resume", Hybrid>> \in Broadcasts /\ <<"validate", {}>> \in Broadcasts
        /\ <<"remove", Hybrid>> \in Broadcasts /\ <<"sleep", Hybrid>> \in Broadcasts
    BY Table DEF Broadcasts
  <2>2. /\ rest[1] = Full[8] /\ rest[2] = Full[9] /\ rest[3] = Full[10] /\ rest[4] = Full[11]
        /\ rest[5] = Full[12] /\ rest[6] = Full[13] /\ rest[7] = Full[14] /\ rest[8] = Full[15]
        /\ rest[9] = Full[16] /\ rest[10] = Full[17] /\ rest[11] = Full[18] /\ rest[12] = Full[19]
    BY Table
  <2>3. rest \in Seq(Broadcasts) /\ Len(rest) = 12
    BY <2>1
  <2> HIDE DEF rest
  <2> QED
    BY <2>2, <2>3
<1>3. ValidateScript = HybridUpdate \o rest
  BY DEF ValidateScript
<1> HIDE DEF rest
<1>4. ValidateScript \in Seq(Broadcasts) /\ Len(ValidateScript) = 15
      /\ \A i \in 1 .. 15 : ValidateScript[i] = Full[i + 4]
  <2>0. /\ ValidateScript \in Seq(Broadcasts)
        /\ Len(ValidateScript) = Len(HybridUpdate) + Len(rest)
        /\ \A i \in 1 .. Len(HybridUpdate) + Len(rest) : ValidateScript[i]
             = IF i <= Len(HybridUpdate) THEN HybridUpdate[i] ELSE rest[i - Len(HybridUpdate)]
    <3>1. HybridUpdate \in Seq(Broadcasts) /\ rest \in Seq(Broadcasts)
      BY <1>1, <1>2
    <3> QED
      BY <3>1, <1>3, ConcatProperties, Zenon
  <2>1. /\ ValidateScript \in Seq(Broadcasts) /\ Len(ValidateScript) = 15
        /\ \A i \in 1 .. 15 : ValidateScript[i]
             = IF i <= 3 THEN HybridUpdate[i] ELSE rest[i - 3]
    BY <1>1, <1>2, <2>0
  <2>2. ASSUME NEW i \in 1 .. 15 PROVE ValidateScript[i] = Full[i + 4]
    <3>1. CASE i <= 3
      BY <1>1, <2>1, <3>1
    <3>2. CASE i > 3
      <4>1. i - 3 \in 1 .. 12 /\ (i - 3) + 7 = i + 4
        BY <3>2
      <4>2. ValidateScript[i] = rest[i - 3]
        <5>1. ~(i <= 3)
          BY <3>2
        <5> QED
          BY <2>1, <5>1
      <4>3. rest[i - 3] = Full[(i - 3) + 7]
        BY <1>2, <4>1
      <4> QED
        BY <4>1, <4>2, <4>3
    <3> QED
      BY <3>1, <3>2
  <2> QED
    BY <2>1, <2>2
<1> DEFINE whole == UpdateScript \o ValidateScript
<1>5. UpdateScript \in Seq(Broadcasts) /\ Len(UpdateScript) = 4
      /\ \A i \in 1 .. 4 : UpdateScript[i] = Full[i]
  BY UpdatePart, FullType
<1>6. whole \in Seq(Broadcasts) /\ Len(whole) = 19
      /\ \A i \in 1 .. 19 : whole[i]
           = IF i <= 4 THEN UpdateScript[i] ELSE ValidateScript[i - 4]
  <2>1. /\ whole \in Seq(Broadcasts)
        /\ Len(whole) = Len(UpdateScript) + Len(ValidateScript)
        /\ \A i \in 1 .. Len(UpdateScript) + Len(ValidateScript) : whole[i]
             = IF i <= Len(UpdateScript) THEN UpdateScript[i]
               ELSE ValidateScript[i - Len(UpdateScript)]
    <3>1. UpdateScript \in Seq(Broadcasts) /\ ValidateScript \in Seq(Broadcasts)
      BY <1>4, <1>5
    <3> QED
      BY <3>1, ConcatProperties, Zenon
  <2> HIDE DEF whole
  <2> QED
    BY <1>4, <1>5, <2>1
<1> HIDE DEF whole
<1>7. ASSUME NEW i \in 1 .. 19 PROVE whole[i] = Full[i]
  <2>1. CASE i <= 4
    <3>1. i \in 1 .. 4
      BY <2>1
    <3>2. whole[i] = UpdateScript[i]
      BY <1>6, <2>1
    <3> QED
      BY <1>5, <3>1, <3>2
  <2>2. CASE i > 4
    <3>1. i - 4 \in 1 .. 15 /\ (i - 4) + 4 = i
      BY <2>2
    <3> QED
      BY <1>4, <1>6, <2>2, <3>1
  <2> QED
    BY <2>1, <2>2
<1>8. whole = Full
  BY <1>6, <1>7, FullType, SeqEqual
<1> QED
  BY <1>8 DEF whole

-----------------------------------------------------------------------------
(* The servers broadcast k goes to.                                        *)
Target(k) ==
  IF k \in {1, 2, 3, 4, 8, 11, 14, 18} THEN Standalone
  ELSE IF k \in {13, 20} THEN {} ELSE Hybrid

(* The script stands at broadcast k; at 20 there is none.                  *)
At(k) ==
  IF k = 20 THEN todo = <<>>
  ELSE \E n \in {4, 19} : k <= n /\ todo = SubSeq(Full, k, n)

(* A standalone server is shut; a hybrid one has the present weights, is   *)
(* awake; the hybrid servers may be in the pool; the version in force.     *)
Shut(k, s) == (k = 1 /\ s \in reached) \/ k \in {2, 3} \/ (k = 4 /\ s \notin reached)
Loaded(k, s) == (k = 6 /\ s \in reached) \/ k \in 7 .. 16 \/ (k = 17 /\ s \notin reached)
Up(k, s) == (k = 7 /\ s \in reached) \/ k \in 8 .. 16 \/ (k = 17 /\ s \notin reached)
Joined(k) == (k = 10 /\ reached # {}) \/ k \in 11 .. 15 \/ (k = 16 /\ reached = {})
Current(k) == IF k \in 1 .. 3 THEN version - 1 ELSE version

StandaloneAt(k) ==
  \A s \in Standalone :
    /\ awake[s]
    /\ Shut(k, s) => ~gate[s] \/ s \in swallowed
    /\ ~(k = 3 \/ (k = 2 /\ s \in reached)) => weights[s] = Current(k) /\ steps[s] = Current(k)
    /\ k = 3 /\ s \in reached => weights[s] = version /\ steps[s] = version

HybridAt(k) ==
  \A s \in Hybrid :
    /\ awake[s] => Up(k, s)
    /\ Up(k, s) => awake[s]
    /\ Loaded(k, s) => weights[s] = version /\ steps[s] = version

PoolAt(k) == Joined(k) \/ pool \cap Hybrid = {}

TrainerAt(k) ==
  /\ At(k)
  /\ reached \subseteq Target(k)
  /\ k # 20 => version > 0

ServersAt(k) == TrainerAt(k) /\ StandaloneAt(k) /\ HybridAt(k) /\ PoolAt(k)

-----------------------------------------------------------------------------
(* The rows of the table the other way round: which broadcasts are which.  *)
LEMMA Rows ==
  ASSUME NEW k \in 1 .. 19
  PROVE  /\ Full[k][2] = Target(k)
         /\ Full[k][1] = "abort" => k \in {1, 8, 9, 14, 15}
         /\ Full[k][1] = "load" => k \in {2, 5}
         /\ Full[k][1] = "label" => k \in {3, 6}
         /\ Full[k][1] = "resume" => k \in {4, 11, 12, 18, 19}
         /\ Full[k][1] = "wake" => k = 7
         /\ Full[k][1] = "add" => k = 10
         /\ Full[k][1] = "remove" => k = 16
         /\ Full[k][1] = "sleep" => k = 17
<1>1. CASE k \in {1, 2, 3, 4}
  BY <1>1, Table DEF Target
<1>2. CASE k \in {5, 6, 7, 8, 9}
  BY <1>2, Table DEF Target
<1>3. CASE k \in {10, 11, 12, 13, 14}
  BY <1>3, Table, SMTT(30) DEF Target
<1>4. CASE k \in {15, 16, 17, 18, 19}
  BY <1>4, Table DEF Target
<1>5. k \in {1, 2, 3, 4} \/ k \in {5, 6, 7, 8, 9} \/ k \in {10, 11, 12, 13, 14}
      \/ k \in {15, 16, 17, 18, 19}
  OBVIOUS
<1> QED
  BY <1>1, <1>2, <1>3, <1>4, <1>5

(* The first broadcast to do is the one the script stands at.              *)
LEMMA Position ==
  ASSUME NEW k \in 1 .. 20, At(k), todo # <<>>
  PROVE  k \in 1 .. 19 /\ todo[1] = Full[k] /\ todo[1][2] = Target(k)
<1>1. PICK n \in {4, 19} : k <= n /\ todo = SubSeq(Full, k, n)
  BY DEF At
<1>2. k \in 1 .. 19
  BY DEF At
<1>3. todo[1] = Full[k]
  BY <1>1, <1>2, FullType
<1>4. Full[k][2] = Target(k)
  BY <1>2, Rows
<1> QED
  BY <1>2, <1>3, <1>4

(* So the operation tells the place.                                      *)
LEMMA Operation ==
  ASSUME NEW k \in 1 .. 20, At(k), todo # <<>>
  PROVE  /\ todo[1][1] = "abort" => k \in {1, 8, 9, 14, 15}
         /\ todo[1][1] = "load" => k \in {2, 5}
         /\ todo[1][1] = "label" => k \in {3, 6}
         /\ todo[1][1] = "resume" => k \in {4, 11, 12, 18, 19}
         /\ todo[1][1] = "wake" => k = 7
         /\ todo[1][1] = "add" => k = 10
         /\ todo[1][1] = "remove" => k = 16
         /\ todo[1][1] = "sleep" => k = 17
<1>1. k \in 1 .. 19 /\ todo[1] = Full[k]
  BY Position
<1> DEFINE name == Full[k][1]
<1>2. todo[1][1] = name
  BY <1>1
<1>3. /\ name = "abort" => k \in {1, 8, 9, 14, 15}
      /\ name = "load" => k \in {2, 5}
      /\ name = "label" => k \in {3, 6}
      /\ name = "resume" => k \in {4, 11, 12, 18, 19}
      /\ name = "wake" => k = 7
      /\ name = "add" => k = 10
      /\ name = "remove" => k = 16
      /\ name = "sleep" => k = 17
  BY <1>1, Rows
<1> HIDE DEF name
<1> QED
  BY <1>2, <1>3

(* The next broadcast is k + 1, or none after a plain update.              *)
LEMMA NextPosition ==
  ASSUME NEW k \in 1 .. 20, At(k), todo # <<>>, todo' = Tail(todo)
  PROVE  At(k + 1)' \/ (k = 4 /\ At(20)')
<1>1. PICK n \in {4, 19} : k <= n /\ todo = SubSeq(Full, k, n)
  BY DEF At
<1>2. k \in 1 .. 19
  BY DEF At
<1>3. todo' = SubSeq(Full, k + 1, n)
  BY <1>1, <1>2, FullType, HeadTailOfSubSeq
<1>4. CASE k < n
  <2>1. k + 1 <= n /\ k + 1 # 20
    BY <1>1, <1>2, <1>4
  <2> QED
    BY <1>3, <2>1 DEF At
<1>5. CASE k = n
  <2>1. todo' = <<>>
    BY <1>3, <1>5, SubSeqEmpty
  <2> QED
    BY <1>1, <1>5, <2>1 DEF At
<1> QED
  BY <1>1, <1>2, <1>4, <1>5

(* A step of a broadcast at one server.                                    *)
LEMMA DoingAt ==
  ASSUME NEW k \in 1 .. 20, TrainerAt(k), NEW op, NEW s \in Servers, Doing(op, s)
  PROVE  /\ TrainerAt(k)' /\ k # 20 /\ todo # <<>> /\ todo[1][1] = op
         /\ s \in Target(k) /\ s \notin reached
         /\ reached' = reached \cup {s}
<1>1. todo # <<>> /\ todo[1][1] = op /\ s \in todo[1][2] /\ s \notin reached
      /\ reached' = reached \cup {s} /\ UNCHANGED <<version, todo>>
  BY DEF Doing
<1>2. k \in 1 .. 19 /\ s \in Target(k)
  BY <1>1, Position DEF TrainerAt
<1>3. TrainerAt(k)'
  BY <1>1, <1>2 DEF TrainerAt, At, Target
<1> QED
  BY <1>1, <1>2, <1>3

(* Each broadcast, reaching one server, leaves the servers as they should  *)
(* be at its place.                                                        *)
LEMMA AbortServers ==
  ASSUME TypeOK, NEW k \in 1 .. 20, ServersAt(k), NEW s \in Servers, Abort(s) \/ AbortFails(s)
  PROVE  ServersAt(k)' /\ k \in {1, 8, 9, 14, 15} /\ s \in Target(k)
<1>1. /\ TrainerAt(k)' /\ s \in Target(k) /\ s \notin reached
      /\ reached' = reached \cup {s} /\ k \in {1, 8, 9, 14, 15} /\ UNCHANGED version
  BY DoingAt, Operation DEF ServersAt, TrainerAt, Abort, AbortFails, Doing
<1>2. /\ UNCHANGED <<awake, weights, steps, pool>>
      /\ \A t \in Servers : t # s => gate'[t] = gate[t] /\ (t \in swallowed' <=> t \in swallowed)
      /\ ~gate'[s] \/ s \in swallowed'
  <2>1. CASE Abort(s)
    BY <2>1 DEF Abort, lbVars, TypeOK
  <2>2. CASE AbortFails(s)
    <3>1. PICK paused \in BOOLEAN : gate' = [gate EXCEPT ![s] = @ /\ ~paused]
      BY <2>2 DEF AbortFails
    <3> QED
      BY <2>2, <3>1 DEF AbortFails, lbVars, TypeOK
  <2> QED
    BY <2>1, <2>2
<1>3. StandaloneAt(k)'
  BY <1>1, <1>2 DEF ServersAt, StandaloneAt, Shut, Current, TypeOK, Servers
<1>4. HybridAt(k)'
  BY <1>1, <1>2 DEF ServersAt, HybridAt, Up, Loaded
<1>5. PoolAt(k)'
  BY <1>1, <1>2 DEF ServersAt, PoolAt, Joined
<1> QED
  BY <1>1, <1>3, <1>4, <1>5 DEF ServersAt

LEMMA LoadServers ==
  ASSUME TypeOK, NEW k \in 1 .. 20, ServersAt(k), NEW s \in Servers, Load(s)
  PROVE  ServersAt(k)' /\ k \in {2, 5} /\ s \in Target(k)
<1>1. /\ TrainerAt(k)' /\ s \in Target(k) /\ s \notin reached
      /\ reached' = reached \cup {s} /\ k \in {2, 5} /\ UNCHANGED version
  BY DoingAt, Operation DEF ServersAt, TrainerAt, Load, Doing
<1>2. weights' = [weights EXCEPT ![s] = Torn] /\ UNCHANGED <<awake, gate, steps, swallowed, pool>>
  BY DEF Load, lbVars
<1>3. StandaloneAt(k)'
  BY <1>1, <1>2, DisjointAssumption
  DEF ServersAt, StandaloneAt, Shut, Current, TypeOK, Servers, Target
<1>4. HybridAt(k)'
  BY <1>1, <1>2, DisjointAssumption DEF ServersAt, HybridAt, Up, Loaded, Target
<1>5. PoolAt(k)'
  BY <1>1, <1>2 DEF ServersAt, PoolAt, Joined
<1> QED
  BY <1>1, <1>3, <1>4, <1>5 DEF ServersAt

LEMMA LabelServers ==
  ASSUME TypeOK, NEW k \in 1 .. 20, ServersAt(k), NEW s \in Servers, Label(s)
  PROVE  ServersAt(k)' /\ k \in {3, 6} /\ s \in Target(k)
<1>1. /\ TrainerAt(k)' /\ s \in Target(k) /\ s \notin reached
      /\ reached' = reached \cup {s} /\ k \in {3, 6} /\ UNCHANGED version
  BY DoingAt, Operation DEF ServersAt, TrainerAt, Label, Doing
<1>2. /\ weights' = [weights EXCEPT ![s] = version]
      /\ steps' = [steps EXCEPT ![s] = version] /\ UNCHANGED <<awake, gate, swallowed, pool>>
  BY DEF Label, lbVars
<1>3. StandaloneAt(k)'
  BY <1>1, <1>2, DisjointAssumption
  DEF ServersAt, StandaloneAt, Shut, Current, TypeOK, Servers, Target
<1>4. HybridAt(k)'
  BY <1>1, <1>2, DisjointAssumption
  DEF ServersAt, HybridAt, Up, Loaded, TypeOK, Servers, Target
<1>5. PoolAt(k)'
  BY <1>1, <1>2 DEF ServersAt, PoolAt, Joined
<1> QED
  BY <1>1, <1>3, <1>4, <1>5 DEF ServersAt

LEMMA ResumeServers ==
  ASSUME TypeOK, NEW k \in 1 .. 20, ServersAt(k), NEW s \in Servers, Resume(s)
  PROVE  ServersAt(k)' /\ k \in {4, 11, 12, 18, 19} /\ s \in Target(k)
<1>1. /\ TrainerAt(k)' /\ s \in Target(k) /\ s \notin reached
      /\ reached' = reached \cup {s} /\ k \in {4, 11, 12, 18, 19} /\ UNCHANGED version
  BY DoingAt, Operation DEF ServersAt, TrainerAt, Resume, Doing
<1>2. /\ gate' = [gate EXCEPT ![s] = TRUE] /\ swallowed' = swallowed \ {s}
      /\ UNCHANGED <<awake, weights, steps, pool>>
  BY DEF Resume, lbVars
<1>3. StandaloneAt(k)'
  BY <1>1, <1>2 DEF ServersAt, StandaloneAt, Shut, Current, TypeOK, Servers
<1>4. HybridAt(k)'
  BY <1>1, <1>2 DEF ServersAt, HybridAt, Up, Loaded
<1>5. PoolAt(k)'
  BY <1>1, <1>2 DEF ServersAt, PoolAt, Joined
<1> QED
  BY <1>1, <1>3, <1>4, <1>5 DEF ServersAt

LEMMA WakeServers ==
  ASSUME TypeOK, NEW k \in 1 .. 20, ServersAt(k), NEW s \in Servers, Wake(s)
  PROVE  ServersAt(k)' /\ k = 7 /\ s \in Target(k)
<1>1. /\ TrainerAt(k)' /\ s \in Target(k) /\ s \notin reached
      /\ reached' = reached \cup {s} /\ k = 7 /\ UNCHANGED version
  BY DoingAt, Operation DEF ServersAt, TrainerAt, Wake, Doing
<1>2. awake' = [awake EXCEPT ![s] = TRUE] /\ UNCHANGED <<gate, weights, steps, swallowed, pool>>
  BY DEF Wake, lbVars
<1>3. StandaloneAt(k)'
  BY <1>1, <1>2 DEF ServersAt, StandaloneAt, Shut, Current, TypeOK, Servers
<1>4. HybridAt(k)'
  BY <1>1, <1>2 DEF ServersAt, HybridAt, Up, Loaded, TypeOK, Servers
<1>5. PoolAt(k)'
  BY <1>1, <1>2 DEF ServersAt, PoolAt, Joined
<1> QED
  BY <1>1, <1>3, <1>4, <1>5 DEF ServersAt

LEMMA SleepServers ==
  ASSUME TypeOK, NEW k \in 1 .. 20, ServersAt(k), NEW s \in Servers, Sleep(s)
  PROVE  ServersAt(k)' /\ k = 17 /\ s \in Target(k)
<1>1. /\ TrainerAt(k)' /\ s \in Target(k) /\ s \notin reached
      /\ reached' = reached \cup {s} /\ k = 17 /\ UNCHANGED version
  BY DoingAt, Operation DEF ServersAt, TrainerAt, Sleep, Doing
<1>2. /\ awake' = [awake EXCEPT ![s] = FALSE] /\ weights' = [weights EXCEPT ![s] = Torn]
      /\ UNCHANGED <<gate, steps, swallowed, pool>>
  BY DEF Sleep, lbVars
<1>3. StandaloneAt(k)'
  BY <1>1, <1>2, DisjointAssumption
  DEF ServersAt, StandaloneAt, Shut, Current, TypeOK, Servers, Target
<1>4. HybridAt(k)'
  BY <1>1, <1>2 DEF ServersAt, HybridAt, Up, Loaded, TypeOK, Servers
<1>5. PoolAt(k)'
  BY <1>1, <1>2 DEF ServersAt, PoolAt, Joined
<1> QED
  BY <1>1, <1>3, <1>4, <1>5 DEF ServersAt

LEMMA AddServers ==
  ASSUME TypeOK, NEW k \in 1 .. 20, ServersAt(k), Add
  PROVE  ServersAt(k)' /\ k = 10
<1>1. /\ todo # <<>> /\ todo[1][1] = "add" /\ reached = {} /\ reached' = todo[1][2]
      /\ LB!AddServers(Hybrid) /\ UNCHANGED <<version, todo, serverVars>>
  BY DEF Add, Membership
<1>2. k = 10 /\ reached' = Hybrid
  <2>1. At(k)
    BY DEF ServersAt, TrainerAt
  <2>2. k = 10
    BY <1>1, <2>1, Operation
  <2>3. todo[1][2] = Target(k)
    BY <1>1, <2>1, Position
  <2> QED
    BY <1>1, <2>2, <2>3 DEF Target
<1>3. TrainerAt(k)'
  BY <1>1, <1>2 DEF ServersAt, TrainerAt, At, Target
<1>4. StandaloneAt(k)'
  BY <1>1, <1>2 DEF ServersAt, StandaloneAt, Shut, Current, serverVars
<1>5. HybridAt(k)'
  BY <1>1, <1>2 DEF ServersAt, HybridAt, Up, Loaded, serverVars
<1>6. PoolAt(k)'
  BY <1>1, <1>2 DEF PoolAt, Joined
<1> QED
  BY <1>2, <1>3, <1>4, <1>5, <1>6 DEF ServersAt

LEMMA RemoveServers ==
  ASSUME TypeOK, NEW k \in 1 .. 20, ServersAt(k), Remove
  PROVE  ServersAt(k)' /\ k = 16
<1>1. /\ todo # <<>> /\ todo[1][1] = "remove" /\ reached = {} /\ reached' = todo[1][2]
      /\ LB!RemoveServers(Hybrid) /\ UNCHANGED <<version, todo, serverVars>>
  BY DEF Remove, Membership
<1>2. k = 16 /\ reached' = Hybrid
  <2>1. At(k)
    BY DEF ServersAt, TrainerAt
  <2>2. k = 16
    BY <1>1, <2>1, Operation
  <2>3. todo[1][2] = Target(k)
    BY <1>1, <2>1, Position
  <2> QED
    BY <1>1, <2>2, <2>3 DEF Target
<1>3. TrainerAt(k)'
  BY <1>1, <1>2 DEF ServersAt, TrainerAt, At, Target
<1>4. StandaloneAt(k)'
  BY <1>1, <1>2 DEF ServersAt, StandaloneAt, Shut, Current, serverVars
<1>5. HybridAt(k)'
  BY <1>1, <1>2 DEF ServersAt, HybridAt, Up, Loaded, serverVars
<1>6. PoolAt(k)'
  BY <1>1, <1>2 DEF PoolAt, LB!RemoveServers
<1> QED
  BY <1>2, <1>3, <1>4, <1>5, <1>6 DEF ServersAt

(* The script goes on: the versions in force stay or rise.                 *)
LEMMA AdvanceServers ==
  ASSUME TypeOK, NEW k \in 1 .. 20, ServersAt(k), Advance
  PROVE  \E m \in 1 .. 20 : ServersAt(m)' /\ Current(m)' >= Current(k)
<1>1. /\ todo # <<>> /\ todo[1][2] = reached /\ todo' = Tail(todo) /\ reached' = {}
      /\ UNCHANGED <<version, pool, gate, awake, weights, steps, swallowed>>
  BY DEF Advance, lbVars, serverVars
<1>2. k \in 1 .. 19 /\ reached = Target(k) /\ version > 0 /\ version \in Int
  <2>1. k \in 1 .. 19 /\ todo[1][2] = Target(k)
    BY <1>1, Position DEF ServersAt, TrainerAt
  <2>2. version > 0
    BY <2>1 DEF ServersAt, TrainerAt
  <2>3. version \in Int
    BY VersionAssumption DEF TypeOK, Versions
  <2> QED
    BY <1>1, <2>1, <2>2, <2>3
<1>3. PICK m \in 1 .. 20 : At(m)' /\ (m = k + 1 \/ (k = 4 /\ m = 20))
  <2>1. At(k + 1)' \/ (k = 4 /\ At(20)')
    BY <1>1, NextPosition DEF ServersAt, TrainerAt
  <2> QED
    BY <1>2, <2>1
<1>4. TrainerAt(m)'
  BY <1>1, <1>2, <1>3 DEF TrainerAt
<1>5. Current(m)' >= Current(k)
  BY <1>1, <1>2, <1>3 DEF Current
<1>6. StandaloneAt(m)'
  <2> SUFFICES ASSUME NEW s \in Standalone
               PROVE /\ awake[s]
                     /\ Shut(m, s)' => ~gate[s] \/ s \in swallowed
                     /\ ~(m = 3 \/ (m = 2 /\ s \in reached')) =>
                          weights[s] = Current(m)' /\ steps[s] = Current(m)'
    BY <1>1, Zenon DEF StandaloneAt
  <2>1. Target(k) = Standalone <=> k \in {1, 2, 3, 4, 8, 11, 14, 18}
    <3>1. Standalone # {} /\ Standalone # Hybrid
      BY DisjointAssumption
    <3> QED
      BY <3>1 DEF Target
  <2>2. s \in reached <=> k \in {1, 2, 3, 4, 8, 11, 14, 18}
    BY <1>2, <2>1, DisjointAssumption DEF Target
  <2>3. awake[s] /\ (Shut(k, s) => ~gate[s] \/ s \in swallowed)
        /\ (~(k = 3 \/ (k = 2 /\ s \in reached)) => weights[s] = Current(k) /\ steps[s] = Current(k))
        /\ (k = 3 /\ s \in reached => weights[s] = version /\ steps[s] = version)
    BY DEF ServersAt, StandaloneAt
  <2>4. Shut(m, s)' => ~gate[s] \/ s \in swallowed
    BY <1>1, <1>2, <1>3, <2>2, <2>3 DEF Shut
  <2>5. ~(m = 3 \/ (m = 2 /\ s \in reached')) => weights[s] = Current(m)' /\ steps[s] = Current(m)'
    BY <1>1, <1>2, <1>3, <2>2, <2>3 DEF Current
  <2> QED
    BY <2>3, <2>4, <2>5
<1>7. HybridAt(m)'
  <2> SUFFICES ASSUME NEW s \in Hybrid
               PROVE /\ awake[s] => Up(m, s)'
                     /\ Up(m, s)' => awake[s]
                     /\ Loaded(m, s)' => weights[s] = version /\ steps[s] = version
    BY <1>1, Zenon DEF HybridAt
  <2>2. s \in reached <=> k \notin {1, 2, 3, 4, 8, 11, 13, 14, 18}
    BY <1>2, DisjointAssumption DEF Target
  <2>3. /\ awake[s] => Up(k, s)
        /\ Up(k, s) => awake[s]
        /\ Loaded(k, s) => weights[s] = version /\ steps[s] = version
    BY DEF ServersAt, HybridAt
  <2>4. Up(m, s)' <=> Up(k, s)
    <3>1. Up(m, s)' <=> m \in 8 .. 17
      BY <1>1 DEF Up
    <3>2. Up(k, s) <=> k \in 7 .. 16
      BY <1>2, <2>2 DEF Up
    <3>3. m \in 8 .. 17 <=> k \in 7 .. 16
      BY <1>2, <1>3
    <3> QED
      BY <3>1, <3>2, <3>3
  <2>5. Loaded(m, s)' => Loaded(k, s)
    BY <1>1, <1>2, <1>3, <2>2, SMTT(30) DEF Loaded
  <2> QED
    BY <2>3, <2>4, <2>5
<1>8. PoolAt(m)'
  BY <1>1, <1>2, <1>3 DEF ServersAt, PoolAt, Joined, Target
<1> QED
  BY <1>4, <1>5, <1>6, <1>7, <1>8 DEF ServersAt

(* A script starts between scripts: the version in force stays, while the  *)
(* trainer is one ahead.                                                   *)
LEMMA StartServers ==
  ASSUME TypeOK, NEW k \in 1 .. 20, ServersAt(k), StartScript
  PROVE  ServersAt(1)' /\ k = 20
<1>1. /\ todo = <<>> /\ version' = version + 1 /\ reached' = reached
      /\ todo' = UpdateScript \/ todo' = UpdateScript \o ValidateScript
      /\ UNCHANGED <<pool, gate, awake, weights, steps, swallowed>>
  BY DEF StartScript, lbVars, serverVars
<1>2. k = 20
  <2> SUFFICES ASSUME k # 20 PROVE FALSE
    OBVIOUS
  <2>1. PICK n \in {4, 19} : k <= n /\ todo = SubSeq(Full, k, n)
    BY DEF ServersAt, TrainerAt, At
  <2>2. Len(SubSeq(Full, k, n)) = n - k + 1
    BY <2>1, FullType
  <2> QED
    BY <1>1, <2>1, <2>2
<1>3. reached = {} /\ version \in Nat
  BY <1>2 DEF ServersAt, TrainerAt, Target, TypeOK, Versions
<1>4. At(1)'
  <2>1. todo' = SubSeq(Full, 1, 4) \/ todo' = SubSeq(Full, 1, 19)
    BY <1>1, UpdatePart, ValidatePart, FullType, SubSeqFull
  <2> QED
    BY <2>1 DEF At
<1>5. TrainerAt(1)'
  BY <1>1, <1>3, <1>4 DEF TrainerAt
<1>6. StandaloneAt(1)'
  BY <1>1, <1>2, <1>3 DEF ServersAt, StandaloneAt, Shut, Current
<1>7. HybridAt(1)'
  BY <1>1, <1>2, <1>3 DEF ServersAt, HybridAt, Up, Loaded
<1>8. PoolAt(1)'
  BY <1>1, <1>2 DEF ServersAt, PoolAt, Joined
<1> QED
  BY <1>2, <1>5, <1>6, <1>7, <1>8 DEF ServersAt

(* A step of a request leaves the servers and the trainer alone.           *)
LEMMA RequestServers ==
  ASSUME NEW k \in 1 .. 20, ServersAt(k), UNCHANGED <<pool, serverVars, trainerVars>>
  PROVE  ServersAt(k)' /\ Current(k)' = Current(k)
<1>1. TrainerAt(k)'
  BY DEF ServersAt, TrainerAt, At, trainerVars
<1>2. StandaloneAt(k)'
  BY DEF ServersAt, StandaloneAt, Shut, Current, serverVars, trainerVars
<1>3. HybridAt(k)'
  BY DEF ServersAt, HybridAt, Up, Loaded, serverVars, trainerVars
<1>4. PoolAt(k)'
  BY DEF ServersAt, PoolAt, Joined, trainerVars
<1> QED
  BY <1>1, <1>2, <1>3, <1>4 DEF ServersAt, Current, trainerVars

-----------------------------------------------------------------------------
(* What a request has come to.                                             *)

Limit == ResponseLength + (IF Limited THEN 0 ELSE Headroom)

Holding == \A r \in Requests :
  pc[r] \in {"sent", "engine", "answered"} <=> assigned[r] # NoServer

ShutIsEmpty == \A s \in Servers :
  ~gate[s] \/ s \in swallowed => Inside(s) \subseteq exposed

AsleepIsIdle == \A r \in Requests :
  pc[r] = "engine" /\ ~awake[assigned[r]] => fresh[r] = 0

LengthOf(r) ==
  /\ merged[r] + fresh[r] <= Limit
  /\ pc[r] \in {"ready", "sent", "engine"} => merged[r] < Limit
  /\ pc[r] \in {"ready", "sent"} => fresh[r] = 0
  /\ pc[r] = "engine" => fresh[r] < TokenCap(r)
  /\ pc[r] = "answered" => answer[r].stop # "none"
  /\ pc[r] = "answered" /\ answer[r].stop = "aborted" => merged[r] + fresh[r] < Limit

LabelsOf(k, r) ==
  /\ used[r] \subseteq 0 .. Current(k)
  /\ oldest[r] <= Current(k)
  /\ \A v \in used[r] : oldest[r] <= v
  /\ pc[r] \in {"ready", "sent"} /\ oldest[r] = NoVersion => used[r] = {}
  /\ pc[r] = "engine" /\ oldest[r] = NoVersion =>
       used[r] \subseteq (IF fresh[r] = 0 THEN {} ELSE {steps[assigned[r]]})
  /\ pc[r] = "answered" =>
       /\ answer[r].steps <= Current(k)
       /\ oldest[r] = NoVersion => used[r] \subseteq {answer[r].steps}
       /\ answer[r].stop = "completed" =>
            answer[r].steps # NoVersion /\ \A v \in used[r] : v <= answer[r].steps
  /\ pc[r] = "done" /\ PartialRollout =>
       /\ oldest[r] # NoVersion /\ newest[r] # NoVersion
       /\ \A v \in used[r] : v <= newest[r]

Lengths == \A r \in Requests : LengthOf(r)

PhaseAt(k) == ServersAt(k) /\ \A r \in Requests \ exposed : LabelsOf(k, r)

CallInv == TypeOK /\ Holding /\ ShutIsEmpty /\ AsleepIsIdle /\ Lengths

IInv == CallInv /\ \E k \in 1 .. 20 : PhaseAt(k)

-----------------------------------------------------------------------------
(* max_tokens of an attempt is positive and leaves the answer in its limit.*)
LEMMA CapRange ==
  ASSUME TypeOK, NEW r \in Requests
  PROVE  /\ TokenCap(r) \in 1 .. ResponseLength
         /\ merged[r] < Limit => merged[r] + TokenCap(r) <= Limit
<1>1. merged[r] \in Nat /\ ResponseLength \in Nat \ {0} /\ Headroom \in Nat
      /\ Limited \in BOOLEAN
  BY LengthAssumption, FlagAssumption DEF TypeOK
<1>2. CASE Limited
  BY <1>1, <1>2 DEF TokenCap, Limit
<1>3. CASE ~Limited
  BY <1>1, <1>3 DEF TokenCap, Limit
<1> QED
  BY <1>2, <1>3

(* What a server that can generate generates with.                         *)
LEMMA Serving ==
  ASSUME TypeOK, NEW k \in 1 .. 20, ServersAt(k), NEW s \in Servers, gate[s], awake[s],
         s \notin swallowed
  PROVE  weights[s] = Current(k) /\ steps[s] = Current(k)
<1>1. CASE s \in Standalone
  BY <1>1 DEF ServersAt, StandaloneAt, Shut
<1>2. CASE s \in Hybrid
  <2>1. Up(k, s)
    BY <1>2 DEF ServersAt, HybridAt
  <2>2. Loaded(k, s) /\ k > 3
    BY <2>1 DEF Up, Loaded
  <2> QED
    BY <1>2, <2>2 DEF ServersAt, HybridAt, Current
<1> QED
  BY <1>1, <1>2 DEF Servers

(* The version in force is a version.                                      *)
LEMMA CurrentRange ==
  ASSUME TypeOK, NEW k \in 1 .. 20, ServersAt(k)
  PROVE  Current(k) \in 0 .. MaxVersion /\ version \in 0 .. MaxVersion
<1>1. version \in 0 .. MaxVersion /\ MaxVersion \in Nat
  BY VersionAssumption DEF TypeOK, Versions
<1>2. k \in 1 .. 3 => version > 0
  BY DEF ServersAt, TrainerAt
<1> QED
  BY <1>1, <1>2 DEF Current

(* acquire_server gives the client a server.                               *)
LEMMA AcquireEffect ==
  ASSUME LB!TypeOK, NEW r \in Requests, LB!Acquire(r)
  PROVE  /\ \E s \in Servers : assigned' = [assigned EXCEPT ![r] = s]
         /\ UNCHANGED pool
BY DEF LB!TypeOK, LB!Acquire, LB!AcquireSticky, LB!AcquireNew, LB!LeastInflight

(* Each step is a step of the load balancer and its clients, or none.      *)
LEMMA BalancerStep ==
  ASSUME LB!TypeOK, [Next]_vars
  PROVE  [LB!Next]_(LB!vars)
<1> USE DEF LB!vars, LB!lbVars
<1>1. ASSUME NEW r \in Requests, Request(r) PROVE LB!Next \/ UNCHANGED LB!vars
  <2>1. CASE ClientAcquire(r)
    BY <2>1, Zenon DEF ClientAcquire, LB!Next
  <2>2. CASE ServerAdmit(r)
    BY <2>2 DEF ServerAdmit, lbVars, callVars
  <2>3. CASE EngineToken(r)
    BY <2>3 DEF EngineToken, lbVars, callVars
  <2>4. CASE ServerRaise(r)
    BY <2>4, Zenon DEF ServerRaise, LB!Next
  <2>5. CASE ClientMerge(r)
    BY <2>5, Zenon DEF ClientMerge, LB!Next
  <2>6. CASE LoadBalancerRelease(r)
    BY <2>6, Zenon DEF LoadBalancerRelease, LB!Next
  <2> QED
    BY <1>1, <2>1, <2>2, <2>3, <2>4, <2>5, <2>6 DEF Request
<1>2. ASSUME NEW s \in Servers, Server(s) PROVE UNCHANGED LB!vars
  BY <1>2 DEF Server, Abort, AbortFails, Load, Label, Resume, Wake, Sleep, lbVars, callVars
<1>3. CASE StartScript \/ Advance \/ UNCHANGED vars
  BY <1>3 DEF StartScript, Advance, vars, lbVars, callVars
<1>4. CASE Hybrid # {} /\ (Add \/ Remove)
  <2>1. Hybrid \in (SUBSET (Servers \ Standalone)) \ {{}}
    BY <1>4, DisjointAssumption DEF Servers
  <2>2. LB!AddServers(Hybrid) \/ LB!RemoveServers(Hybrid)
    BY <1>4 DEF Add, Remove, Membership
  <2> QED
    BY <2>1, <2>2, Zenon DEF LB!Next
<1>5. CASE Hybrid = {} /\ (Add \/ Remove)
  <2>1. LB!AddServers({}) \/ LB!RemoveServers({})
    BY <1>5 DEF Add, Remove, Membership
  <2> QED
    BY <2>1 DEF LB!AddServers, LB!RemoveServers, LB!TypeOK
<1> QED
  BY <1>1, <1>2, <1>3, <1>4, <1>5 DEF Next

(* The load balancer keeps its types.                                      *)
LEMMA BalancerTyped ==
  ASSUME LB!TypeOK, [LB!Next]_(LB!vars)
  PROVE  LB!TypeOK'
<1>1. ASSUME NEW r \in Requests, LB!AcquireSticky(r) PROVE LB!TypeOK'
  BY <1>1 DEF LB!AcquireSticky, LB!TypeOK
<1>2. ASSUME NEW r \in Requests, LB!AcquireNew(r) PROVE LB!TypeOK'
  <2>1. PICK s \in LB!LeastInflight :
          /\ inflight' = [inflight EXCEPT ![s] = @ + 1]
          /\ assigned' = [assigned EXCEPT ![r] = s]
          /\ \A q \in Requests : sticky'[q] \in {s, NoServer, sticky[q]}
          /\ sticky' = [q \in Requests |-> sticky'[q]]
    <3> DEFINE others == LB!Without(recent, r)
               evict == Len(others) >= CacheSize
    <3> HIDE DEF others, evict
    <3>1. PICK s \in LB!LeastInflight :
            /\ inflight' = [inflight EXCEPT ![s] = @ + 1]
            /\ assigned' = [assigned EXCEPT ![r] = s]
            /\ sticky' = [q \in Requests |-> IF q = r THEN s
                            ELSE IF evict /\ q = Head(others) THEN NoServer
                            ELSE sticky[q]]
      BY <1>2, Zenon DEF LB!AcquireNew, others, evict
    <3> QED
      BY <3>1
  <2>2. s \in Servers
    BY DEF LB!LeastInflight, LB!TypeOK
  <2>3. sticky' \in [Requests -> Servers \cup {NoServer}]
    BY <2>1, <2>2 DEF LB!TypeOK
  <2> QED
    BY <1>2, <2>1, <2>2, <2>3 DEF LB!AcquireNew, LB!TypeOK
<1>3. ASSUME NEW r \in Requests, LB!Return(r) PROVE LB!TypeOK'
  BY <1>3 DEF LB!Return, LB!lbVars, LB!TypeOK
<1>4. ASSUME NEW r \in Requests, LB!Release(r) PROVE LB!TypeOK'
  BY <1>4 DEF LB!Release, LB!TypeOK
<1>5. ASSUME NEW S \in SUBSET (Servers \ Standalone), LB!AddServers(S) \/ LB!RemoveServers(S)
      PROVE  LB!TypeOK'
  BY <1>5 DEF LB!AddServers, LB!RemoveServers, LB!TypeOK
<1>6. CASE UNCHANGED LB!vars
  BY <1>6 DEF LB!vars, LB!lbVars, LB!TypeOK
<1> QED
  BY <1>1, <1>2, <1>3, <1>4, <1>5, <1>6 DEF LB!Next, LB!Acquire

-----------------------------------------------------------------------------
(* The operations of a request.                                            *)

(* The client gets a server.                                               *)
LEMMA AcquireStep ==
  ASSUME CallInv, NEW k \in 1 .. 20, PhaseAt(k), LB!TypeOK',
         NEW r \in Requests, ClientAcquire(r)
  PROVE  CallInv' /\ PhaseAt(k)'
<1>0. TypeOK /\ Holding /\ ShutIsEmpty /\ AsleepIsIdle /\ Lengths /\ LB!TypeOK
  BY DEF CallInv, TypeOK
<1>1. /\ pc[r] = "ready" /\ pc' = [pc EXCEPT ![r] = "sent"] /\ LB!Acquire(r)
      /\ UNCHANGED <<fresh, merged, answer, used, oldest, newest, exposed, serverVars, trainerVars>>
  BY DEF ClientAcquire
<1>2. PICK s \in Servers : assigned' = [assigned EXCEPT ![r] = s] /\ UNCHANGED pool
  BY <1>0, <1>1, AcquireEffect
<1>3. TypeOK'
  BY <1>0, <1>1 DEF TypeOK, serverVars, trainerVars, Stage
<1>4. s # NoServer /\ assigned \in [Requests -> Servers \cup {NoServer}]
  BY <1>0, NoServerAssumption DEF Servers, LB!TypeOK
<1>5. Holding'
  BY <1>0, <1>1, <1>2, <1>4 DEF Holding, TypeOK
<1>6. ShutIsEmpty' /\ AsleepIsIdle'
  BY <1>0, <1>1, <1>2, <1>4 DEF ShutIsEmpty, AsleepIsIdle, Inside, TypeOK, serverVars
<1>7. Lengths'
  BY <1>0, <1>1 DEF Lengths, LengthOf, TypeOK, TokenCap
<1>8. ServersAt(k)' /\ Current(k)' = Current(k)
  BY <1>1, <1>2, RequestServers DEF PhaseAt
<1>9. ASSUME NEW q \in Requests \ exposed PROVE LabelsOf(k, q)'
  <2>1. LabelsOf(k, q)
    BY DEF PhaseAt
  <2>2. CASE q = r
    BY <1>0, <1>1, <1>8, <2>1, <2>2 DEF LabelsOf, TypeOK
  <2>3. CASE q # r
    BY <1>0, <1>1, <1>2, <1>4, <1>8, <2>1, <2>3 DEF LabelsOf, TypeOK, serverVars
  <2> QED
    BY <2>2, <2>3
<1>10. exposed' = exposed
  BY <1>1
<1> QED
  BY <1>3, <1>5, <1>6, <1>7, <1>8, <1>9, <1>10 DEF CallInv, PhaseAt

(* A request enters an engine: the gate is open, and it has no tokens yet. *)
LEMMA AdmitStep ==
  ASSUME CallInv, NEW k \in 1 .. 20, PhaseAt(k), LB!TypeOK',
         NEW r \in Requests, ServerAdmit(r)
  PROVE  CallInv' /\ PhaseAt(k)'
<1>0. TypeOK /\ Holding /\ ShutIsEmpty /\ AsleepIsIdle /\ Lengths
  BY DEF CallInv
<1>1. /\ pc[r] = "sent" /\ pc' = [pc EXCEPT ![r] = "engine"] /\ gate[assigned[r]]
      /\ fresh' = [fresh EXCEPT ![r] = 0]
      /\ exposed' = exposed \cup {q \in {r} : assigned[q] \in swallowed}
      /\ UNCHANGED <<merged, answer, used, oldest, newest, assigned, pool, serverVars, trainerVars>>
  BY DEF ServerAdmit, lbVars, callVars
<1>3. TypeOK'
  BY <1>0, <1>1, LengthAssumption DEF TypeOK, serverVars, trainerVars, Stage
<1>5. Holding'
  BY <1>0, <1>1 DEF Holding, TypeOK
<1>6. ShutIsEmpty' /\ AsleepIsIdle'
  BY <1>0, <1>1 DEF ShutIsEmpty, AsleepIsIdle, Inside, TypeOK, serverVars
<1>7. ASSUME NEW q \in Requests PROVE LengthOf(q)'
  <2>1. LengthOf(q) /\ merged[q] \in Nat
    BY <1>0 DEF Lengths, TypeOK
  <2>2. TokenCap(q) \in 1 .. ResponseLength /\ TokenCap(q)' = TokenCap(q)
    BY <1>0, <1>1, CapRange DEF TokenCap
  <2>3. CASE q = r
    <3>1. fresh[q] = 0 /\ fresh'[q] = 0 /\ merged'[q] = merged[q] /\ pc'[q] = "engine"
      BY <1>0, <1>1, <2>1, <2>3 DEF LengthOf, TypeOK
    <3> QED
      BY <1>1, <2>1, <2>2, <2>3, <3>1 DEF LengthOf
  <2>4. CASE q # r
    BY <1>0, <1>1, <2>1, <2>2, <2>4 DEF LengthOf, TypeOK
  <2> QED
    BY <2>3, <2>4
<1>8. ServersAt(k)' /\ Current(k)' = Current(k)
  BY <1>1, RequestServers DEF PhaseAt
<1>9. ASSUME NEW q \in Requests \ exposed' PROVE LabelsOf(k, q)'
  <2>1. q \in Requests \ exposed /\ LabelsOf(k, q)
    BY <1>1 DEF PhaseAt
  <2>2. CASE q = r
    BY <1>0, <1>1, <1>8, <2>1, <2>2 DEF LabelsOf, TypeOK
  <2>3. CASE q # r
    BY <1>0, <1>1, <1>8, <2>1, <2>3 DEF LabelsOf, TypeOK, serverVars
  <2> QED
    BY <2>2, <2>3
<1> QED
  BY <1>3, <1>5, <1>6, <1>7, <1>8, <1>9 DEF CallInv, PhaseAt, Lengths

(* A token is generated with the version in force, within the cap.         *)
LEMMA TokenStep ==
  ASSUME CallInv, NEW k \in 1 .. 20, PhaseAt(k), LB!TypeOK',
         NEW r \in Requests, EngineToken(r)
  PROVE  CallInv' /\ PhaseAt(k)'
<1>0. TypeOK /\ Holding /\ ShutIsEmpty /\ AsleepIsIdle /\ Lengths /\ LB!TypeOK
  BY DEF CallInv, TypeOK
<1>1. /\ pc[r] = "engine" /\ awake[assigned[r]]
      /\ fresh' = [fresh EXCEPT ![r] = @ + 1]
      /\ used' = [used EXCEPT ![r] = @ \cup {weights[assigned[r]]}]
      /\ UNCHANGED <<merged, oldest, newest, exposed, assigned, pool, serverVars, trainerVars>>
  BY DEF EngineToken, lbVars, callVars
<1>2. PICK last \in BOOLEAN :
        /\ fresh'[r] >= TokenCap(r) => last
        /\ IF last
             THEN /\ pc' = [pc EXCEPT ![r] = "answered"]
                  /\ answer' = [answer EXCEPT ![r] =
                       [stop |-> "completed", steps |-> steps[assigned[r]]]]
             ELSE UNCHANGED <<pc, answer>>
  BY DEF EngineToken
<1>3. assigned[r] \in Servers
  BY <1>0, <1>1 DEF Holding, LB!TypeOK
<1>4. /\ r \notin exposed => weights[assigned[r]] = Current(k) /\ steps[assigned[r]] = Current(k)
      /\ Current(k) \in 0 .. MaxVersion
  <2>1. ASSUME r \notin exposed PROVE gate[assigned[r]] /\ assigned[r] \notin swallowed
    BY <1>0, <1>1, <1>3, <2>1 DEF ShutIsEmpty, Inside
  <2> QED
    BY <1>0, <1>1, <1>3, <2>1, Serving, CurrentRange DEF PhaseAt
<1>4a. weights[assigned[r]] \in Versions \cup {Torn} /\ steps[assigned[r]] \in Versions \cup {NoVersion}
  BY <1>0, <1>3 DEF TypeOK
<1>5. /\ fresh[r] \in Nat /\ merged[r] \in Nat /\ fresh'[r] = fresh[r] + 1
      /\ fresh[r] < TokenCap(r) /\ TokenCap(r) \in 1 .. ResponseLength
      /\ merged[r] < Limit /\ merged[r] + TokenCap(r) <= Limit
      /\ ResponseLength \in Nat /\ Limit \in Nat
  <2>1. fresh[r] \in Nat /\ merged[r] \in Nat /\ fresh'[r] = fresh[r] + 1
    BY <1>0, <1>1, LengthAssumption DEF TypeOK
  <2>2. fresh[r] < TokenCap(r) /\ merged[r] < Limit
    BY <1>0, <1>1 DEF Lengths, LengthOf
  <2>3. Limit \in Nat /\ ResponseLength \in Nat
    BY LengthAssumption DEF Limit
  <2> QED
    BY <1>0, <2>1, <2>2, <2>3, CapRange
<1>6. TypeOK'
  <2>1. fresh' \in [Requests -> 0 .. ResponseLength]
    <3>1. fresh[r] + 1 \in 0 .. ResponseLength
      BY <1>5
    <3> QED
      BY <1>0, <1>1, <3>1 DEF TypeOK
  <2>2. used' \in [Requests -> SUBSET (Versions \cup {Torn})]
    BY <1>0, <1>1, <1>4a DEF TypeOK
  <2>3. pc' \in [Requests -> Stage]
    BY <1>0, <1>2 DEF TypeOK, Stage
  <2>4. answer' \in [Requests -> [stop : {"none", "completed", "aborted"},
                                  steps : Versions \cup {NoVersion}]]
    <3>1. [stop |-> "completed", steps |-> steps[assigned[r]]]
            \in [stop : {"none", "completed", "aborted"}, steps : Versions \cup {NoVersion}]
      BY <1>4a
    <3> QED
      BY <1>0, <1>2, <3>1 DEF TypeOK
  <2> QED
    BY <1>0, <1>1, <2>1, <2>2, <2>3, <2>4 DEF TypeOK, serverVars, trainerVars
<1>7. Holding'
  BY <1>0, <1>1, <1>2 DEF Holding, TypeOK
<1>8. ShutIsEmpty' /\ AsleepIsIdle'
  BY <1>0, <1>1, <1>2 DEF ShutIsEmpty, AsleepIsIdle, Inside, TypeOK, serverVars
<1>9. ASSUME NEW q \in Requests PROVE LengthOf(q)'
  <2>1. LengthOf(q) /\ TokenCap(q)' = TokenCap(q)
    BY <1>0, <1>1 DEF Lengths, TokenCap
  <2>2. CASE q = r /\ last
    <3>1. pc'[r] = "answered" /\ answer'[r].stop = "completed" /\ merged'[r] = merged[r]
      BY <1>0, <1>1, <1>2, <2>2 DEF TypeOK
    <3>2. merged[r] + (fresh[r] + 1) <= Limit
      BY <1>5
    <3> QED
      BY <1>5, <2>2, <3>1, <3>2 DEF LengthOf, Limit
  <2>3. CASE q = r /\ ~last
    <3>1. pc'[r] = "engine" /\ merged'[r] = merged[r]
      BY <1>0, <1>1, <1>2, <2>3 DEF TypeOK
    <3>2. fresh[r] + 1 < TokenCap(r)
      BY <1>2, <1>5, <2>3
    <3>3. merged[r] + (fresh[r] + 1) <= Limit
      BY <1>5
    <3> QED
      BY <1>5, <2>1, <2>3, <3>1, <3>2, <3>3 DEF LengthOf, Limit
  <2>4. CASE q # r
    <3>1. /\ fresh'[q] = fresh[q] /\ merged'[q] = merged[q] /\ pc'[q] = pc[q]
          /\ answer'[q] = answer[q]
      BY <1>0, <1>1, <1>2, <2>4 DEF TypeOK
    <3> QED
      BY <2>1, <3>1 DEF LengthOf
  <2> QED
    BY <2>2, <2>3, <2>4
<1>10. ServersAt(k)' /\ Current(k)' = Current(k)
  BY <1>1, RequestServers DEF PhaseAt
<1>11. ASSUME NEW q \in Requests \ exposed PROVE LabelsOf(k, q)'
  <2>1. q \notin exposed /\ LabelsOf(k, q)
    BY DEF PhaseAt
  <2>2. CASE q = r
    <3>1. used'[r] = used[r] \cup {Current(k)} /\ oldest'[r] = oldest[r]
          /\ steps'[assigned'[r]] = Current(k) /\ steps[assigned[r]] = Current(k) /\ fresh'[r] # 0
      BY <1>0, <1>1, <1>4, <1>5, <2>1, <2>2 DEF TypeOK, serverVars
    <3>2. \A v \in used'[r] : v \in 0 .. Current(k) /\ v <= Current(k) /\ oldest[r] <= v
      BY <1>4, <2>1, <2>2, <3>1 DEF LabelsOf
    <3>3. oldest[r] = NoVersion => used'[r] \subseteq {Current(k)}
      BY <1>1, <2>1, <2>2, <3>1 DEF LabelsOf
    <3>4. CASE last
      <4>1. pc'[r] = "answered" /\ answer'[r].steps = Current(k)
        BY <1>0, <1>2, <3>1, <3>4 DEF TypeOK
      <4>2. Current(k) # NoVersion /\ Current(k) <= Current(k)
        BY <1>4 DEF NoVersion
      <4> QED
        BY <1>10, <2>1, <2>2, <3>1, <3>2, <3>3, <4>1, <4>2 DEF LabelsOf
    <3>5. CASE ~last
      <4>1. pc'[r] = "engine"
        BY <1>1, <1>2, <3>5
      <4> QED
        BY <1>10, <2>1, <2>2, <3>1, <3>2, <3>3, <4>1 DEF LabelsOf
    <3> QED
      BY <3>4, <3>5
  <2>3. CASE q # r
    <3>1. /\ fresh'[q] = fresh[q] /\ used'[q] = used[q] /\ pc'[q] = pc[q]
          /\ answer'[q] = answer[q] /\ oldest'[q] = oldest[q] /\ newest'[q] = newest[q]
          /\ steps'[assigned'[q]] = steps[assigned[q]]
      BY <1>0, <1>1, <1>2, <2>3 DEF TypeOK, serverVars
    <3> QED
      BY <1>10, <2>1, <3>1 DEF LabelsOf
  <2> QED
    BY <2>2, <2>3
<1>12. exposed' = exposed
  BY <1>1
<1> QED
  BY <1>6, <1>7, <1>8, <1>9, <1>10, <1>11, <1>12 DEF CallInv, PhaseAt, Lengths

(* The end of a call takes the server from the client.                     *)
LEMMA ReturnEffect ==
  ASSUME NEW r \in Requests, LB!Return(r)
  PROVE  assigned' = [assigned EXCEPT ![r] = NoServer] /\ UNCHANGED pool
BY DEF LB!Return, LB!lbVars

(* An exception ends the request.                                          *)
LEMMA RaiseStep ==
  ASSUME CallInv, NEW k \in 1 .. 20, PhaseAt(k), LB!TypeOK',
         NEW r \in Requests, ServerRaise(r)
  PROVE  CallInv' /\ PhaseAt(k)'
<1>0. TypeOK /\ Holding /\ ShutIsEmpty /\ AsleepIsIdle /\ Lengths /\ LB!TypeOK
  BY DEF CallInv, TypeOK
<1>1. /\ pc[r] = "engine" /\ pc' = [pc EXCEPT ![r] = "failed"]
      /\ UNCHANGED <<fresh, merged, answer, used, oldest, newest, exposed, serverVars, trainerVars>>
      /\ assigned' = [assigned EXCEPT ![r] = NoServer] /\ UNCHANGED pool
  BY ReturnEffect DEF ServerRaise
<1>2. assigned \in [Requests -> Servers \cup {NoServer}]
  BY <1>0 DEF LB!TypeOK
<1>3. TypeOK'
  BY <1>0, <1>1 DEF TypeOK, serverVars, trainerVars, Stage
<1>4. Holding'
  BY <1>0, <1>1, <1>2 DEF Holding, TypeOK
<1>5. ShutIsEmpty' /\ AsleepIsIdle'
  BY <1>0, <1>1, <1>2 DEF ShutIsEmpty, AsleepIsIdle, Inside, TypeOK, serverVars
<1>6. Lengths'
  BY <1>0, <1>1 DEF Lengths, LengthOf, TypeOK, TokenCap
<1>7. ServersAt(k)' /\ Current(k)' = Current(k)
  BY <1>1, RequestServers DEF PhaseAt
<1>8. ASSUME NEW q \in Requests \ exposed PROVE LabelsOf(k, q)'
  <2>1. LabelsOf(k, q)
    BY DEF PhaseAt
  <2>2. CASE q = r
    BY <1>0, <1>1, <1>7, <2>1, <2>2 DEF LabelsOf, TypeOK
  <2>3. CASE q # r
    BY <1>0, <1>1, <1>2, <1>7, <2>1, <2>3 DEF LabelsOf, TypeOK, serverVars
  <2> QED
    BY <2>2, <2>3
<1>9. exposed' = exposed
  BY <1>1
<1> QED
  BY <1>3, <1>4, <1>5, <1>6, <1>7, <1>8, <1>9 DEF CallInv, PhaseAt

(* The merged answer: a request that goes on is short of its limit, and    *)
(* without a known version only if it has no token.                        *)
LEMMA MergeStep ==
  ASSUME CallInv, NEW k \in 1 .. 20, PhaseAt(k), LB!TypeOK',
         NEW r \in Requests, ClientMerge(r)
  PROVE  CallInv' /\ PhaseAt(k)'
<1>0. TypeOK /\ Holding /\ ShutIsEmpty /\ AsleepIsIdle /\ Lengths /\ LB!TypeOK
  BY DEF CallInv, TypeOK
<1>1. /\ pc[r] = "answered"
      /\ merged' = [merged EXCEPT ![r] = @ + fresh[r]]
      /\ fresh' = [fresh EXCEPT ![r] = 0]
      /\ oldest' = [oldest EXCEPT ![r] = IF @ = NoVersion THEN answer[r].steps ELSE @]
      /\ newest' = [newest EXCEPT ![r] = answer[r].steps]
      /\ UNCHANGED <<answer, used, exposed, serverVars, trainerVars>>
      /\ assigned' = [assigned EXCEPT ![r] = NoServer] /\ UNCHANGED pool
  BY ReturnEffect DEF ClientMerge, MergeVersions
<1> DEFINE final == \/ Limited /\ merged'[r] >= ResponseLength
                    \/ answer[r].stop # "aborted"
                    \/ ~PartialRollout
<1>2. pc' = [pc EXCEPT ![r] = IF final THEN "done" ELSE "ready"]
  BY DEF ClientMerge
<1> HIDE DEF final
<1>3. /\ assigned \in [Requests -> Servers \cup {NoServer}]
      /\ merged[r] \in Nat /\ fresh[r] \in Nat /\ merged'[r] = merged[r] + fresh[r]
      /\ fresh'[r] = 0 /\ answer[r].steps \in Versions \cup {NoVersion}
      /\ answer[r].stop \in {"none", "completed", "aborted"}
      /\ ResponseLength \in Nat
  BY <1>0, <1>1, LengthAssumption DEF TypeOK, LB!TypeOK
<1>4. TypeOK'
  <2>1. merged' \in [Requests -> Nat] /\ fresh' \in [Requests -> 0 .. ResponseLength]
    <3>1. merged[r] + fresh[r] \in Nat /\ 0 \in 0 .. ResponseLength
      BY <1>3
    <3> QED
      BY <1>0, <1>1, <3>1 DEF TypeOK
  <2>2. oldest' \in [Requests -> Versions \cup {NoVersion}]
        /\ newest' \in [Requests -> Versions \cup {NoVersion}]
    BY <1>0, <1>1, <1>3 DEF TypeOK
  <2>3. pc' \in [Requests -> Stage]
    BY <1>0, <1>2 DEF TypeOK, Stage
  <2> QED
    BY <1>0, <1>1, <2>1, <2>2, <2>3 DEF TypeOK, serverVars, trainerVars
<1>5. Holding'
  BY <1>0, <1>1, <1>2, <1>3 DEF Holding, TypeOK
<1>6. ShutIsEmpty' /\ AsleepIsIdle'
  BY <1>0, <1>1, <1>2, <1>3 DEF ShutIsEmpty, AsleepIsIdle, Inside, TypeOK, serverVars
<1>7. /\ merged[r] + fresh[r] <= Limit
      /\ answer[r].stop = "aborted" => merged[r] + fresh[r] < Limit
      /\ answer[r].stop # "none"
  BY <1>0, <1>1 DEF Lengths, LengthOf
<1>8. ASSUME NEW q \in Requests PROVE LengthOf(q)'
  <2>1. LengthOf(q)
    BY <1>0 DEF Lengths
  <2>2. CASE q = r
    <3>1. ~final => answer[r].stop = "aborted"
      BY DEF final
    <3>2. pc'[r] = IF final THEN "done" ELSE "ready"
      BY <1>0, <1>2 DEF TypeOK
    <3>3. merged'[r] + fresh'[r] = merged[r] + fresh[r] /\ merged'[r] = merged[r] + fresh[r]
      BY <1>3
    <3> QED
      BY <1>3, <1>7, <2>2, <3>1, <3>2, <3>3 DEF LengthOf, Limit
  <2>3. CASE q # r
    <3>1. /\ fresh'[q] = fresh[q] /\ merged'[q] = merged[q] /\ pc'[q] = pc[q]
          /\ answer'[q] = answer[q]
      BY <1>0, <1>1, <1>2, <2>3 DEF TypeOK
    <3>2. TokenCap(q)' = TokenCap(q)
      BY <3>1 DEF TokenCap
    <3> QED
      BY <2>1, <3>1, <3>2 DEF LengthOf, Limit
  <2> QED
    BY <2>2, <2>3
<1>9. ServersAt(k)' /\ Current(k)' = Current(k)
  BY <1>1, RequestServers DEF PhaseAt
<1>10. ASSUME NEW q \in Requests \ exposed PROVE LabelsOf(k, q)'
  <2>1. LabelsOf(k, q)
    BY DEF PhaseAt
  <2>2. CASE q = r
    <3>1. /\ used'[r] = used[r] /\ newest'[r] = answer[r].steps
          /\ oldest'[r] = IF oldest[r] = NoVersion THEN answer[r].steps ELSE oldest[r]
          /\ pc'[r] = IF final THEN "done" ELSE "ready"
      BY <1>0, <1>1, <1>2 DEF TypeOK
    <3>2. /\ used[r] \subseteq 0 .. Current(k) /\ oldest[r] <= Current(k)
          /\ \A v \in used[r] : oldest[r] <= v
          /\ answer[r].steps <= Current(k)
          /\ oldest[r] = NoVersion => used[r] \subseteq {answer[r].steps}
          /\ answer[r].stop = "completed" =>
               answer[r].steps # NoVersion /\ \A v \in used[r] : v <= answer[r].steps
      BY <1>1, <2>1, <2>2 DEF LabelsOf
    <3>3. oldest'[r] <= Current(k) /\ \A v \in used[r] : oldest'[r] <= v
      BY <3>1, <3>2
    <3>4. oldest'[r] = NoVersion => used[r] = {}
      <4>1. NoVersion \notin 0 .. Current(k)
        BY DEF NoVersion
      <4> QED
        BY <3>1, <3>2, <4>1
    <3>5. final /\ PartialRollout => answer[r].stop = "completed"
      <4>1. Limited => Limit = ResponseLength
        BY <1>3 DEF Limit
      <4> QED
        BY <1>3, <1>7, <4>1 DEF final
    <3>6. CASE final
      <4>1. pc'[r] = "done"
        BY <3>1, <3>6
      <4>2. PartialRollout => /\ oldest'[r] # NoVersion /\ newest'[r] # NoVersion
                              /\ \A v \in used[r] : v <= newest'[r]
        BY <3>1, <3>2, <3>5, <3>6
      <4> QED
        BY <1>9, <2>2, <3>1, <3>2, <3>3, <4>1, <4>2 DEF LabelsOf
    <3>7. CASE ~final
      <4>1. pc'[r] = "ready"
        BY <3>1, <3>7
      <4> QED
        BY <1>9, <2>2, <3>1, <3>2, <3>3, <3>4, <4>1 DEF LabelsOf
    <3> QED
      BY <3>6, <3>7
  <2>3. CASE q # r
    <3>1. /\ fresh'[q] = fresh[q] /\ used'[q] = used[q] /\ pc'[q] = pc[q]
          /\ answer'[q] = answer[q] /\ oldest'[q] = oldest[q] /\ newest'[q] = newest[q]
          /\ steps'[assigned'[q]] = steps[assigned[q]]
      BY <1>0, <1>1, <1>2, <1>3, <2>3 DEF TypeOK, serverVars
    <3> QED
      BY <1>9, <2>1, <3>1 DEF LabelsOf
  <2> QED
    BY <2>2, <2>3
<1>11. exposed' = exposed
  BY <1>1
<1> QED
  BY <1>4, <1>5, <1>6, <1>8, <1>9, <1>10, <1>11 DEF CallInv, PhaseAt, Lengths

(* A step that leaves the requests, the gates and what is awake alone.     *)
LEMMA IdleStep ==
  ASSUME CallInv, NEW k \in 1 .. 20, PhaseAt(k), LB!TypeOK',
         UNCHANGED <<assigned, pool, serverVars, requestVars, trainerVars>>
  PROVE  CallInv' /\ PhaseAt(k)'
<1>0. TypeOK /\ Holding /\ ShutIsEmpty /\ AsleepIsIdle /\ Lengths
  BY DEF CallInv
<1>1. TypeOK'
  BY <1>0 DEF TypeOK, serverVars, requestVars, trainerVars
<1>2. Holding' /\ ShutIsEmpty' /\ AsleepIsIdle' /\ Lengths'
  BY <1>0 DEF Holding, ShutIsEmpty, AsleepIsIdle, Inside, Lengths, LengthOf, TokenCap,
              serverVars, requestVars
<1>3. ServersAt(k)' /\ Current(k)' = Current(k)
  BY RequestServers DEF PhaseAt
<1>4. ASSUME NEW q \in Requests \ exposed PROVE LabelsOf(k, q)'
  <2>1. LabelsOf(k, q)
    BY DEF PhaseAt
  <2> QED
    BY <1>3, <2>1 DEF LabelsOf, requestVars, serverVars
<1>5. exposed' = exposed
  BY DEF requestVars
<1> QED
  BY <1>1, <1>2, <1>3, <1>4, <1>5 DEF CallInv, PhaseAt

-----------------------------------------------------------------------------
(* The operations of the trainer.                                          *)

(* The labels of a request that is left alone hold on, when the version in *)
(* force does not sink and the servers that have generated for it keep     *)
(* their label.                                                            *)
LEMMA QuietLabels ==
  ASSUME TypeOK, NEW k \in 1 .. 20, NEW m \in 1 .. 20, NEW q \in Requests, LabelsOf(k, q),
         UNCHANGED <<requestVars, assigned>>,
         Current(k) \in Int, Current(m)' \in Int, Current(k) <= Current(m)',
         pc[q] = "engine" /\ fresh[q] # 0 => steps'[assigned[q]] = steps[assigned[q]]
  PROVE  LabelsOf(m, q)'
<1>1. used[q] \subseteq 0 .. Current(m)'
  <2>1. used[q] \subseteq 0 .. Current(k)
    BY DEF LabelsOf
  <2> QED
    BY <2>1
<1>2. oldest[q] \in Int /\ answer[q].steps \in Int
  BY VersionAssumption DEF TypeOK, Versions, NoVersion
<1>3. oldest[q] <= Current(m)' /\ (pc[q] = "answered" => answer[q].steps <= Current(m)')
  <2>1. oldest[q] <= Current(k) /\ (pc[q] = "answered" => answer[q].steps <= Current(k))
    BY DEF LabelsOf
  <2> QED
    BY <1>2, <2>1
<1> QED
  BY <1>1, <1>3 DEF LabelsOf, requestVars

(* A step that leaves the requests alone leaves them as they should be.    *)
LEMMA QuietCalls ==
  ASSUME CallInv, UNCHANGED <<requestVars, assigned>>
  PROVE  Holding' /\ Lengths'
BY DEF CallInv, Holding, Lengths, LengthOf, TokenCap, requestVars

(* An aborted answer carries the version in force, or none and no token;   *)
(* what a failed abort leaves in the engine is exposed.                    *)
LEMMA AbortStep ==
  ASSUME CallInv, NEW k \in 1 .. 20, PhaseAt(k), LB!TypeOK',
         NEW s \in Servers, Abort(s) \/ AbortFails(s)
  PROVE  CallInv' /\ PhaseAt(k)'
<1>0. TypeOK /\ Holding /\ ShutIsEmpty /\ AsleepIsIdle /\ Lengths /\ ServersAt(k)
  BY DEF CallInv, PhaseAt
<1>1. PICK hit \in SUBSET Inside(s) :
        /\ AnswerAborted(hit, s)
        /\ Inside(s) \ hit \subseteq exposed'
        /\ exposed \subseteq exposed' /\ exposed' \subseteq Requests
  <2>1. CASE Abort(s)
    BY <1>0, <2>1 DEF Abort, TypeOK
  <2>2. CASE AbortFails(s)
    BY <1>0, <2>2, Zenon DEF AbortFails, TypeOK, Inside
  <2> QED
    BY <2>1, <2>2
<1>1a. PICK empty \in SUBSET {r \in hit : fresh[r] = 0} :
         /\ pc' = [r \in Requests |-> IF r \in hit THEN "answered" ELSE pc[r]]
         /\ answer' = [r \in Requests |->
              IF r \in hit
                THEN [stop |-> "aborted",
                      steps |-> IF r \in empty THEN NoVersion ELSE steps[s]]
                ELSE answer[r]]
  BY <1>1 DEF AnswerAborted
<1>2. /\ UNCHANGED <<awake, weights, steps, fresh, merged, used, oldest, newest, assigned,
                     pool, version, todo>>
      /\ reached' \subseteq reached \cup Servers
      /\ gate' \in [Servers -> BOOLEAN] /\ swallowed' \subseteq Servers
      /\ \A t \in Servers : t # s => gate'[t] = gate[t] /\ (t \in swallowed' <=> t \in swallowed)
  <2>1. CASE Abort(s)
    BY <1>0, <2>1 DEF Abort, Doing, lbVars, callVars, TypeOK
  <2>2. CASE AbortFails(s)
    <3>1. PICK paused \in BOOLEAN : gate' = [gate EXCEPT ![s] = @ /\ ~paused]
      BY <2>2 DEF AbortFails
    <3>2. gate' \in [Servers -> BOOLEAN] /\ \A t \in Servers : t # s => gate'[t] = gate[t]
      BY <1>0, <3>1, Zenon DEF TypeOK
    <3> QED
      BY <1>0, <2>2, <3>2 DEF AbortFails, Doing, lbVars, callVars, TypeOK
  <2> QED
    BY <2>1, <2>2
<1>3. ServersAt(k)' /\ k \in {1, 8, 9, 14, 15} /\ s \in Target(k) /\ s \notin reached
  BY <1>0, AbortServers DEF Abort, AbortFails, Doing
<1>4. steps[s] = Current(k) /\ Current(k) \in 0 .. MaxVersion /\ Current(k)' = Current(k)
  <2>1. ASSUME s \in Standalone PROVE steps[s] = Current(k)
    BY <1>0, <1>3, <2>1 DEF ServersAt, StandaloneAt
  <2>2. ASSUME s \in Hybrid PROVE steps[s] = Current(k)
    <3>1. k \in {9, 15}
      BY <1>3, <2>2, DisjointAssumption DEF Target
    <3> QED
      BY <1>0, <2>2, <3>1 DEF ServersAt, HybridAt, Loaded, Current
  <2> QED
    BY <1>0, <1>2, <2>1, <2>2, CurrentRange DEF Servers, Current
<1>5. TypeOK'
  <2>1. pc' \in [Requests -> Stage]
    BY <1>0, <1>1a DEF TypeOK, Stage
  <2>2. answer' \in [Requests -> [stop : {"none", "completed", "aborted"},
                                  steps : Versions \cup {NoVersion}]]
    <3>1. \A r \in Requests :
            [stop |-> "aborted", steps |-> IF r \in empty THEN NoVersion ELSE steps[s]]
              \in [stop : {"none", "completed", "aborted"}, steps : Versions \cup {NoVersion}]
      BY <1>4 DEF Versions
    <3> QED
      BY <1>0, <1>1a, <3>1 DEF TypeOK
  <2> QED
    BY <1>0, <1>1, <1>2, <2>1, <2>2 DEF TypeOK
<1>6. Holding'
  BY <1>0, <1>1, <1>1a, <1>2 DEF Holding, TypeOK, Inside
<1>7. ShutIsEmpty' /\ AsleepIsIdle'
  <2>1. \A r \in Requests : pc'[r] = "engine" => pc[r] = "engine" /\ r \notin hit
    BY <1>0, <1>1a DEF TypeOK
  <2>2. AsleepIsIdle'
    BY <1>0, <1>2, <2>1 DEF AsleepIsIdle
  <2>3. ASSUME NEW t \in Servers, ~gate'[t] \/ t \in swallowed', NEW r \in Requests,
               pc'[r] = "engine", assigned[r] = t
        PROVE  r \in exposed'
    <3>1. CASE t = s
      BY <1>1, <2>1, <2>3, <3>1 DEF Inside
    <3>2. CASE t # s
      BY <1>0, <1>1, <1>2, <2>1, <2>3, <3>2 DEF ShutIsEmpty, Inside
    <3> QED
      BY <3>1, <3>2
  <2> QED
    BY <1>2, <2>2, <2>3 DEF ShutIsEmpty, Inside
<1>8. ASSUME NEW q \in Requests PROVE LengthOf(q)' /\ (q \notin exposed' => LabelsOf(k, q)')
  <2>1. LengthOf(q) /\ (q \notin exposed' => LabelsOf(k, q))
    BY <1>0, <1>1 DEF Lengths, PhaseAt
  <2>2. TokenCap(q)' = TokenCap(q)
    BY <1>2 DEF TokenCap
  <2>3. CASE q \in hit
    <3>1. /\ pc[q] = "engine" /\ assigned[q] = s /\ pc'[q] = "answered"
          /\ answer'[q].stop = "aborted"
          /\ answer'[q].steps = IF q \in empty THEN NoVersion ELSE steps[s]
          /\ q \in empty => fresh[q] = 0
      BY <1>1, <1>1a, <2>3 DEF Inside
    <3>2. LengthOf(q)'
      <4>1. fresh[q] < TokenCap(q) /\ merged[q] + TokenCap(q) <= Limit
            /\ fresh[q] \in Nat /\ merged[q] \in Nat /\ TokenCap(q) \in Nat /\ Limit \in Nat
        BY <1>0, <2>1, <3>1, CapRange, LengthAssumption DEF LengthOf, TypeOK, Limit
      <4>2. merged[q] + fresh[q] < Limit
        BY <4>1
      <4> QED
        BY <1>2, <2>1, <3>1, <4>2 DEF LengthOf, Limit
    <3>3. q \notin exposed' =>
          /\ answer'[q].steps <= Current(k)
          /\ oldest[q] = NoVersion => used[q] \subseteq {answer'[q].steps}
      <4>1. NoVersion <= Current(k)
        BY <1>4 DEF NoVersion
      <4>2. q \notin exposed' /\ oldest[q] = NoVersion => used[q] \subseteq (IF fresh[q] = 0 THEN {} ELSE {steps[s]})
        BY <2>1, <3>1 DEF LabelsOf
      <4> QED
        BY <1>4, <3>1, <4>1, <4>2
    <3>4. q \notin exposed' => LabelsOf(k, q)'
      BY <1>2, <1>4, <2>1, <3>1, <3>3 DEF LabelsOf
    <3> QED
      BY <3>2, <3>4
  <2>4. CASE q \notin hit
    <3>1. pc'[q] = pc[q] /\ answer'[q] = answer[q]
      BY <1>1a, <2>4
    <3> QED
      BY <1>2, <1>4, <2>1, <2>2, <3>1 DEF LengthOf, LabelsOf
  <2> QED
    BY <2>3, <2>4
<1> QED
  BY <1>3, <1>5, <1>6, <1>7, <1>8 DEF CallInv, PhaseAt, Lengths

(* Broadcasts that change no label.                                        *)
LEMMA LoadStep ==
  ASSUME CallInv, NEW k \in 1 .. 20, PhaseAt(k), LB!TypeOK',
         NEW s \in Servers, Load(s) \/ Resume(s) \/ Wake(s) \/ Sleep(s)
  PROVE  CallInv' /\ PhaseAt(k)'
<1>0. TypeOK /\ Holding /\ ShutIsEmpty /\ AsleepIsIdle /\ Lengths /\ ServersAt(k)
  BY DEF CallInv, PhaseAt
<1>1. UNCHANGED <<requestVars, assigned, steps, version>> /\ reached' = reached \cup {s}
  BY DEF Load, Resume, Wake, Sleep, Doing, callVars
<1>2. ServersAt(k)'
  BY <1>0, LoadServers, ResumeServers, WakeServers, SleepServers
<1>3. TypeOK'
  BY <1>0, <1>1 DEF Load, Resume, Wake, Sleep, TypeOK, requestVars
<1>4. ShutIsEmpty' /\ AsleepIsIdle'
  <2>1. CASE Load(s)
    BY <1>0, <2>1 DEF Load, ShutIsEmpty, AsleepIsIdle, Inside, requestVars, callVars
  <2>2. CASE Resume(s)
    BY <1>0, <2>2 DEF Resume, ShutIsEmpty, AsleepIsIdle, Inside, requestVars, callVars, TypeOK
  <2>3. CASE Wake(s)
    BY <1>0, <2>3 DEF Wake, ShutIsEmpty, AsleepIsIdle, Inside, requestVars, callVars, TypeOK
  <2>4. CASE Sleep(s)
    BY <1>0, <2>4 DEF Sleep, Drained, ShutIsEmpty, AsleepIsIdle, Inside, requestVars, callVars, TypeOK
  <2> QED
    BY <2>1, <2>2, <2>3, <2>4
<1>5. Current(k) \in Int /\ Current(k)' = Current(k)
  BY <1>0, <1>1, CurrentRange, VersionAssumption DEF Current
<1>6. \A q \in Requests \ exposed : LabelsOf(k, q)'
  BY <1>0, <1>1, <1>5, QuietLabels DEF PhaseAt
<1>7. exposed' = exposed
  BY <1>1 DEF requestVars
<1> QED
  BY <1>1, <1>7, <1>2, <1>3, <1>4, <1>6, QuietCalls DEF CallInv, PhaseAt

(* A server is labelled only when it is shut, asleep or left running by a  *)
(* failed abort, and then it has generated nothing for the requests inside *)
(* that are not exposed.                                                   *)
LEMMA LabelStep ==
  ASSUME CallInv, NEW k \in 1 .. 20, PhaseAt(k), LB!TypeOK',
         NEW s \in Servers, Label(s)
  PROVE  CallInv' /\ PhaseAt(k)'
<1>0. TypeOK /\ Holding /\ ShutIsEmpty /\ AsleepIsIdle /\ Lengths /\ ServersAt(k)
  BY DEF CallInv, PhaseAt
<1>1. /\ UNCHANGED <<requestVars, assigned, gate, awake, swallowed, version>>
      /\ steps' = [steps EXCEPT ![s] = version] /\ weights' = [weights EXCEPT ![s] = version]
      /\ reached' = reached \cup {s} /\ s \notin reached
  BY DEF Label, Doing, callVars
<1>2. ServersAt(k)' /\ k \in {3, 6} /\ s \in Target(k)
  BY <1>0, LabelServers
<1>3. TypeOK'
  BY <1>0, <1>1 DEF TypeOK, requestVars
<1>4. ShutIsEmpty' /\ AsleepIsIdle'
  BY <1>0, <1>1 DEF ShutIsEmpty, AsleepIsIdle, Inside, requestVars
<1>5. ~gate[s] \/ s \in swallowed \/ ~awake[s]
  BY <1>0, <1>2 DEF ServersAt, StandaloneAt, HybridAt, Shut, Up, Target
<1>6. ASSUME NEW q \in Requests \ exposed, pc[q] = "engine", fresh[q] # 0
      PROVE  steps'[assigned[q]] = steps[assigned[q]]
  <2>1. assigned[q] # s
    BY <1>0, <1>5, <1>6 DEF ShutIsEmpty, AsleepIsIdle, Inside
  <2> QED
    BY <1>0, <1>1, <2>1 DEF TypeOK
<1>7. Current(k) \in Int /\ Current(k)' = Current(k)
  BY <1>0, <1>1, CurrentRange, VersionAssumption DEF Current
<1>8. ASSUME NEW q \in Requests \ exposed PROVE LabelsOf(k, q)'
  <2>1. LabelsOf(k, q)
    BY DEF PhaseAt
  <2>2. UNCHANGED <<requestVars, assigned>>
    BY <1>1
  <2>3. Current(k)' \in Int /\ Current(k) <= Current(k)'
    BY <1>7
  <2> QED
    BY <1>0, <1>6, <1>7, <2>1, <2>2, <2>3, QuietLabels
<1>9. exposed' = exposed
  BY <1>1 DEF requestVars
<1> QED
  BY <1>1, <1>2, <1>3, <1>4, <1>8, <1>9, QuietCalls DEF CallInv, PhaseAt

(* add_servers, remove_servers, the next broadcast and the next script.    *)
LEMMA ScriptStep ==
  ASSUME CallInv, NEW k \in 1 .. 20, PhaseAt(k), LB!TypeOK',
         Add \/ Remove \/ Advance \/ StartScript
  PROVE  CallInv' /\ \E m \in 1 .. 20 : PhaseAt(m)'
<1>0. TypeOK /\ Holding /\ ShutIsEmpty /\ AsleepIsIdle /\ Lengths /\ ServersAt(k)
  BY DEF CallInv, PhaseAt
<1>1. UNCHANGED <<requestVars, serverVars, assigned>>
  BY DEF Add, Remove, Membership, Advance, StartScript, LB!AddServers, LB!RemoveServers, callVars
<1>2. TypeOK'
  <2>1. CASE Add \/ Remove \/ Advance
    <3>1. reached' \subseteq Servers
      <4>1. CASE Advance
        BY <4>1 DEF Advance
      <4>2. CASE Add \/ Remove
        <5>1. reached' = Target(k)
          BY <1>0, <4>2, Position DEF Add, Remove, Membership, ServersAt, TrainerAt
        <5> QED
          BY <5>1 DEF Target, Servers
      <4> QED
        BY <2>1, <4>1, <4>2
    <3>2. version' = version
      BY <2>1 DEF Add, Remove, Membership, Advance
    <3> QED
      BY <1>0, <1>1, <3>1, <3>2 DEF TypeOK, requestVars, serverVars
  <2>2. CASE StartScript
    <3>1. version' \in Versions
      BY <1>0, <2>2, VersionAssumption DEF StartScript, TypeOK, Versions
    <3> QED
      BY <1>0, <1>1, <2>2, <3>1 DEF StartScript, TypeOK, requestVars, serverVars
  <2> QED
    BY <2>1, <2>2
<1>3. ShutIsEmpty' /\ AsleepIsIdle'
  BY <1>0, <1>1 DEF ShutIsEmpty, AsleepIsIdle, Inside, requestVars, serverVars
<1>4. PICK m \in 1 .. 20 : ServersAt(m)' /\ Current(m)' >= Current(k)
  <2>1. CASE Add \/ Remove
    <3>1. ServersAt(k)'
      BY <1>0, <2>1, AddServers, RemoveServers
    <3>2. Current(k)' = Current(k) /\ Current(k) \in Int
      BY <1>0, <2>1, CurrentRange, VersionAssumption, SMTT(30) DEF Current, Add, Remove, Membership
    <3> QED
      BY <3>1, <3>2
  <2>2. CASE Advance
    BY <1>0, <2>2, AdvanceServers
  <2>3. CASE StartScript
    <3>1. ServersAt(1)' /\ k = 20
      BY <1>0, <2>3, StartServers
    <3>2. Current(k) = version /\ Current(1)' = (version + 1) - 1
      BY <2>3, <3>1 DEF Current, StartScript
    <3>3. version \in Int
      BY <1>0, VersionAssumption DEF TypeOK, Versions
    <3> QED
      BY <3>1, <3>2, <3>3
  <2> QED
    BY <2>1, <2>2, <2>3
<1>5. Current(k) \in Int
  BY <1>0, CurrentRange, VersionAssumption
<1>6. Current(m)' \in Int
  <2>1. version' \in Int
    BY <1>2, VersionAssumption DEF TypeOK, Versions
  <2> QED
    BY <2>1 DEF Current
<1>7. ASSUME NEW q \in Requests \ exposed PROVE LabelsOf(m, q)'
  <2>1. Current(k) <= Current(m)'
    BY <1>4, <1>5, <1>6
  <2>2. LabelsOf(k, q) /\ steps' = steps
    BY <1>1 DEF PhaseAt, serverVars
  <2> QED
    BY <1>0, <1>1, <1>5, <1>6, <2>1, <2>2, QuietLabels
<1>8. exposed' = exposed
  BY <1>1 DEF requestVars
<1> QED
  BY <1>1, <1>2, <1>3, <1>4, <1>7, <1>8, QuietCalls DEF CallInv, PhaseAt

-----------------------------------------------------------------------------
(* The invariant holds at first, and every step preserves it: one case for *)
(* each operation.                                                         *)
LEMMA InitInvariant == Init => IInv
<1> SUFFICES ASSUME Init PROVE IInv
  OBVIOUS
<1>1. LB!TypeOK
  BY NoServerAssumption DEF Init, LB!Init, LB!TypeOK, Servers
<1>2. TypeOK
  BY <1>1, VersionAssumption, LengthAssumption DEF Init, TypeOK, Versions, Stage
<1>3. Holding /\ ShutIsEmpty /\ AsleepIsIdle
  BY DEF Init, LB!Init, Holding, ShutIsEmpty, AsleepIsIdle, Inside
<1>4. ASSUME NEW r \in Requests PROVE LengthOf(r)
  <2>1. 0 < Limit /\ 0 + 0 <= Limit
    BY LengthAssumption DEF Limit
  <2> QED
    BY <2>1 DEF Init, LengthOf
<1>5. ServersAt(20)
  <2>1. TrainerAt(20)
    BY DEF Init, TrainerAt, At
  <2>a. \A s \in Servers : awake[s] <=> s \in Standalone
    BY Zenon DEF Init
  <2>2. StandaloneAt(20)
    <3>1. \A s \in Standalone : weights[s] = 0 /\ steps[s] = 0 /\ awake[s]
      BY <2>a DEF Init, Servers
    <3>2. version = 0
      BY DEF Init
    <3> QED
      BY <3>1, <3>2 DEF StandaloneAt, Shut, Current
  <2>3. HybridAt(20)
    <3>1. \A s \in Hybrid : ~awake[s]
      BY <2>a, DisjointAssumption DEF Servers
    <3> QED
      BY <3>1 DEF HybridAt, Up, Loaded
  <2>4. PoolAt(20)
    BY DisjointAssumption DEF Init, LB!Init, PoolAt
  <2> QED
    BY <2>1, <2>2, <2>3, <2>4 DEF ServersAt
<1>6. ASSUME NEW r \in Requests PROVE LabelsOf(20, r)
  <2>1. Current(20) = 0
    BY DEF Init, Current
  <2> QED
    BY <2>1 DEF Init, LabelsOf, NoVersion
<1> QED
  BY <1>2, <1>3, <1>4, <1>5, <1>6 DEF IInv, CallInv, PhaseAt, Lengths

LEMMA NextInvariant == IInv /\ [Next]_vars => IInv'
<1> SUFFICES ASSUME IInv, [Next]_vars PROVE IInv'
  OBVIOUS
<1>1. PICK k \in 1 .. 20 : PhaseAt(k)
  BY DEF IInv
<1>2. CallInv /\ LB!TypeOK
  BY DEF IInv, CallInv, TypeOK
<1>3. LB!TypeOK'
  BY <1>2, BalancerStep, BalancerTyped
<1>4. ASSUME NEW r \in Requests, Request(r) PROVE IInv'
  <2>1. CASE ClientAcquire(r)
    BY <1>1, <1>2, <1>3, <2>1, AcquireStep DEF IInv
  <2>2. CASE ServerAdmit(r)
    BY <1>1, <1>2, <1>3, <2>2, AdmitStep DEF IInv
  <2>3. CASE EngineToken(r)
    BY <1>1, <1>2, <1>3, <2>3, TokenStep DEF IInv
  <2>4. CASE ServerRaise(r)
    BY <1>1, <1>2, <1>3, <2>4, RaiseStep DEF IInv
  <2>5. CASE ClientMerge(r)
    BY <1>1, <1>2, <1>3, <2>5, MergeStep DEF IInv
  <2>6. CASE LoadBalancerRelease(r)
    <3>1. UNCHANGED <<assigned, pool, serverVars, requestVars, trainerVars>>
      BY <2>6 DEF LoadBalancerRelease, LB!Release
    <3> QED
      BY <1>1, <1>2, <1>3, <3>1, IdleStep DEF IInv
  <2> QED
    BY <1>4, <2>1, <2>2, <2>3, <2>4, <2>5, <2>6 DEF Request
<1>5. ASSUME NEW s \in Servers, Server(s) PROVE IInv'
  <2>1. CASE Abort(s) \/ AbortFails(s)
    BY <1>1, <1>2, <1>3, <2>1, AbortStep DEF IInv
  <2>2. CASE Label(s)
    BY <1>1, <1>2, <1>3, <2>2, LabelStep DEF IInv
  <2>3. CASE Load(s) \/ Resume(s) \/ Wake(s) \/ Sleep(s)
    BY <1>1, <1>2, <1>3, <2>3, LoadStep DEF IInv
  <2> QED
    BY <1>5, <2>1, <2>2, <2>3 DEF Server
<1>6. CASE Add \/ Remove \/ Advance \/ StartScript
  BY <1>1, <1>2, <1>3, <1>6, ScriptStep DEF IInv
<1>7. CASE UNCHANGED vars
  <2>1. UNCHANGED <<assigned, pool, serverVars, requestVars, trainerVars>>
    BY <1>7 DEF vars, lbVars, callVars
  <2> QED
    BY <1>1, <1>2, <1>3, <2>1, IdleStep DEF IInv
<1> QED
  BY <1>4, <1>5, <1>6, <1>7 DEF Next

(* The invariant holds in every reachable state.                           *)
THEOREM Invariance == Spec => []IInv
  BY InitInvariant, NextInvariant, PTL DEF Spec

(* Every variable keeps its type: in particular no server is ever labelled *)
(* with a version the trainer has not reached, and no attempt generates    *)
(* more than response_length tokens (fully_async_rollouter.py:120-150).    *)
THEOREM TypeCorrect == Spec => []TypeOK
<1>1. IInv => TypeOK
  BY DEF IInv, CallInv
<1> QED
  BY <1>1, Invariance, PTL

(* Whatever the order in which a broadcast reaches the servers and         *)
(* whichever aborts fail unnoticed, no token comes from weights that are   *)
(* being overwritten, but for the requests such an abort left in the       *)
(* engine (checkpoint_engine/base.py:487-514, vllm_async_server.py:748).   *)
THEOREM WeightsCorrect == Spec => []NoTornWeights
<1>1. IInv => NoTornWeights
  <2> SUFFICES ASSUME IInv, NEW r \in Requests \ exposed PROVE Torn \notin used[r]
    BY DEF NoTornWeights
  <2>1. PICK k \in 1 .. 20 : PhaseAt(k)
    BY DEF IInv
  <2>2. used[r] \subseteq 0 .. Current(k)
    BY <2>1 DEF PhaseAt, LabelsOf
  <2> QED
    BY <2>2 DEF Torn
<1> QED
  BY <1>1, Invariance, PTL

(* However often it is aborted and sent again, an answer is no longer than *)
(* was asked for (fully_async_rollouter.py:133-138,                        *)
(* vllm_async_server.py:478-497).                                          *)
THEOREM LengthCorrect == Spec => []LengthBound
<1>1. IInv => LengthBound
  BY DEF IInv, CallInv, Lengths, LengthOf, Limit, LengthBound
<1> QED
  BY <1>1, Invariance, PTL

(* A hybrid server is awake as long as the load balancer can send requests *)
(* to it (fully_async_trainer.py:557-596).                                 *)
THEOREM PoolCorrect == Spec => []PoolIsAwake
<1>1. IInv => PoolIsAwake
  <2> SUFFICES ASSUME IInv, NEW s \in pool PROVE awake[s]
    BY DEF PoolIsAwake
  <2>1. PICK k \in 1 .. 20 : PhaseAt(k)
    BY DEF IInv
  <2>2. s \in Servers
    BY DEF IInv, CallInv, TypeOK, LB!TypeOK
  <2>3. CASE s \in Standalone
    BY <2>1, <2>3 DEF PhaseAt, ServersAt, StandaloneAt
  <2>4. CASE s \in Hybrid
    <3>1. Joined(k)
      BY <2>1, <2>4 DEF PhaseAt, ServersAt, PoolAt
    <3>2. Up(k, s)
      BY <3>1 DEF Joined, Up
    <3> QED
      BY <2>1, <2>4, <3>2 DEF PhaseAt, ServersAt, HybridAt
  <2> QED
    BY <2>2, <2>3, <2>4 DEF Servers
<1> QED
  BY <1>1, Invariance, PTL

(* A request is never sent to a sleeping server: it goes to a server of    *)
(* the pool, not just to one its session remembers (llm_server.py:74-91,   *)
(* fully_async_trainer.py:557-596).                                        *)
THEOREM RoutedCorrect == Spec => RoutedAwake
<1>1. ASSUME IInv, PoolIsAwake, [Next]_vars,
             NEW r \in Requests, pc[r] = "ready", pc'[r] = "sent"
      PROVE  awake[assigned'[r]]
  <2>0. LB!TypeOK /\ TypeOK /\ r \in DOMAIN pc
    BY <1>1 DEF IInv, CallInv, TypeOK
  <2>1. ASSUME NEW q \in Requests, ClientAcquire(q) PROVE q = r /\ assigned'[r] \in pool
    <3>1. q = r
      BY <1>1, <2>0, <2>1 DEF ClientAcquire, TypeOK
    <3>2. \E s \in pool : assigned' = [assigned EXCEPT ![q] = s]
      BY <2>0, <2>1 DEF ClientAcquire, LB!TypeOK, LB!Acquire, LB!AcquireSticky,
                        LB!AcquireNew, LB!LeastInflight
    <3> QED
      BY <2>0, <3>1, <3>2 DEF LB!TypeOK
  <2>2. ASSUME NEW q \in Requests,
               ServerAdmit(q) \/ EngineToken(q) \/ ServerRaise(q) \/ ClientMerge(q)
                 \/ LoadBalancerRelease(q)
        PROVE  FALSE
    BY <1>1, <2>0, <2>2
    DEF ServerAdmit, EngineToken, ServerRaise, ClientMerge, LoadBalancerRelease, requestVars, TypeOK
  <2>3. ASSUME NEW s \in Servers, Server(s) PROVE FALSE
    <3>1. ASSUME NEW hit \in SUBSET Inside(s), AnswerAborted(hit, s) PROVE FALSE
      BY <1>1, <3>1 DEF AnswerAborted
    <3>2. ~Abort(s) /\ ~AbortFails(s)
      BY <3>1, Zenon DEF Abort, AbortFails
    <3>3. UNCHANGED pc
      BY <2>3, <3>2 DEF Server, Load, Label, Resume, Wake, Sleep, requestVars
    <3> QED
      BY <1>1, <3>3
  <2>4. StartScript \/ Add \/ Remove \/ Advance \/ UNCHANGED vars => FALSE
    BY <1>1 DEF StartScript, Add, Remove, Membership, Advance, vars, requestVars
  <2>5. PICK q \in Requests : ClientAcquire(q)
    BY <1>1, <2>2, <2>3, <2>4 DEF Next, Request
  <2> QED
    BY <1>1, <2>1, <2>5 DEF PoolIsAwake
<1>2. IInv /\ PoolIsAwake /\ [Next]_vars =>
        [\A r \in Requests : pc[r] = "ready" /\ pc'[r] = "sent" => awake[assigned'[r]]]_vars
  BY <1>1
<1> QED
  BY <1>2, Invariance, PoolCorrect, PTL DEF Spec, RoutedAwake

(* With partial rollout, the two versions of a finished request are known  *)
(* and enclose those of all its tokens (fully_async_rollouter.py:127-149), *)
(* but for the requests a failed abort left in the engine.                 *)
THEOREM LabelsCorrect ==
  ASSUME PartialRollout
  PROVE  Spec => []LabelsCoverVersions
<1>1. IInv => LabelsCoverVersions
  <2> SUFFICES ASSUME IInv, NEW r \in Requests \ exposed, pc[r] = "done"
               PROVE /\ oldest[r] # NoVersion /\ newest[r] # NoVersion
                     /\ \A v \in used[r] : oldest[r] <= v /\ v <= newest[r]
    BY DEF LabelsCoverVersions
  <2>1. PICK k \in 1 .. 20 : PhaseAt(k)
    BY DEF IInv
  <2> QED
    BY <2>1 DEF PhaseAt, LabelsOf
<1> QED
  BY <1>1, Invariance, PTL

(* Clients, servers and the trainer use the load balancer as its own       *)
(* specification says (llm_server.py:60-126, 200-218).                     *)
THEOREM BalancerUsed == Spec => UsesBalancer
<1>1. Init => LB!Init
  BY DEF Init
<1>2. IInv /\ [Next]_vars => [LB!Next]_(LB!vars)
  BY BalancerStep DEF IInv, CallInv, TypeOK
<1> QED
  BY <1>1, <1>2, Invariance, PTL DEF Spec, UsesBalancer, LB!Spec

(* So what is proved of the load balancer holds of it in this system: the  *)
(* counts of the standalone servers are exact, no server is counted as     *)
(* busier than it is, and calls go where they should, whatever is aborted, *)
(* retried or ends with an exception (llm_server.py:60-126, 200-218).      *)
THEOREM BalancerCorrect ==
  Spec => /\ [](Balancer!PermanentExact /\ Balancer!NeverOverstated)
          /\ Balancer!RoutingSound
<1>1. Balancer!IsFiniteSet(Requests)
  BY RequestsAssumption DEF Balancer!IsFiniteSet, IsFiniteSet
<1>2. /\ Standalone \subseteq Servers /\ Standalone # {} /\ CacheSize \in Nat \ {0}
      /\ NoServer \notin Servers
  BY DisjointAssumption, CacheAssumption, NoServerAssumption DEF Servers
<1>3. Init => Balancer!Init
  BY DEF Init, LB!Init, Balancer!Init
<1>4. [LB!Next]_(LB!vars) => [Balancer!Next]_(Balancer!vars)
  <2>1. UNCHANGED LB!vars => UNCHANGED Balancer!vars
    BY DEF LB!vars, LB!lbVars, Balancer!vars, Balancer!lbVars
  <2>2. ASSUME NEW r \in Requests
        PROVE  /\ LB!Acquire(r) => Balancer!Acquire(r)
               /\ LB!Return(r) => Balancer!Return(r)
               /\ LB!Release(r) => Balancer!Release(r)
    <3>1. LB!AcquireSticky(r) => Balancer!AcquireSticky(r)
      BY Zenon DEF LB!AcquireSticky, Balancer!AcquireSticky, LB!Without, Balancer!Without
    <3>2. LB!AcquireNew(r) => Balancer!AcquireNew(r)
      BY Zenon DEF LB!AcquireNew, Balancer!AcquireNew, LB!Without, Balancer!Without,
                   LB!LeastInflight, Balancer!LeastInflight
    <3>3. LB!Return(r) => Balancer!Return(r)
      BY Zenon DEF LB!Return, Balancer!Return, LB!lbVars, Balancer!lbVars
    <3>4. LB!Release(r) => Balancer!Release(r)
      BY Zenon DEF LB!Release, Balancer!Release
    <3> QED
      BY <3>1, <3>2, <3>3, <3>4 DEF LB!Acquire, Balancer!Acquire
  <2>3. ASSUME NEW S
        PROVE  /\ LB!AddServers(S) => Balancer!AddServers(S)
               /\ LB!RemoveServers(S) => Balancer!RemoveServers(S)
    BY Zenon DEF LB!AddServers, Balancer!AddServers, LB!RemoveServers, Balancer!RemoveServers
  <2>4. LB!Next => Balancer!Next
    BY <2>2, <2>3, Zenon DEF LB!Next, Balancer!Next
  <2> QED
    BY <2>1, <2>4
<1>5. IInv /\ [Next]_vars => [Balancer!Next]_(Balancer!vars)
  BY <1>4, BalancerStep DEF IInv, CallInv, TypeOK
<1>6. Spec => Balancer!Spec
  BY <1>3, <1>5, Invariance, PTL DEF Spec, Balancer!Spec
<1>7. Balancer!Spec => []Balancer!PermanentExact
  BY <1>1, <1>2, Balancer!PermanentCorrect
<1>8. Balancer!Spec => []Balancer!NeverOverstated
  BY <1>1, <1>2, Balancer!LoadNeverOverstated
<1>9. Balancer!Spec => Balancer!RoutingSound
  BY <1>1, <1>2, Balancer!RoutingCorrect
<1> QED
  BY <1>6, <1>7, <1>8, <1>9, PTL

=============================================================================
