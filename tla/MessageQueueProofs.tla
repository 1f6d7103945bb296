------------------------- MODULE MessageQueueProofs -------------------------
(***************************************************************************)
(* Proofs about MessageQueue.tla, for every capacity, number of consumers  *)
(* and length of run.                                                      *)
(*                                                                         *)
(* The queue's contents are determined by two numbers: with the suffix     *)
(* property, queue = <<totalProduced - Len + 1, ..., totalProduced>>.  It  *)
(* is what makes the invariant inductive and the refinement go through:    *)
(* Head(queue) is the abstract `first`.                                    *)
(***************************************************************************)
EXTENDS MessageQueue, TLAPS

(* The inductive invariant: the conjunction of the module's invariants.    *)
Inv ==
  /\ TypeOK
  /\ QueueIsRecentSuffix
  /\ NoLostWakeup
  /\ StatisticsAgree
  /\ DeliveredOnce

-----------------------------------------------------------------------------
(* Sequence facts the proofs rest on: dropping the head shifts the indices *)
(* down by one, appending leaves them where they are.                      *)
LEMMA TailFacts ==
  ASSUME NEW s \in Seq(Nat), s # <<>>
  PROVE  /\ Tail(s) \in Seq(Nat)
         /\ Len(Tail(s)) = Len(s) - 1
         /\ \A i \in 1 .. Len(s) - 1 : Tail(s)[i] = s[i + 1]
         /\ Head(s) = s[1]
         /\ Len(s) \in Nat \ {0}
  OBVIOUS

(* Appending makes a sequence longer by one and changes nothing before.    *)
LEMMA AppendFacts ==
  ASSUME NEW s \in Seq(Nat), NEW e \in Nat
  PROVE  /\ Append(s, e) \in Seq(Nat)
         /\ Len(Append(s, e)) = Len(s) + 1
         /\ \A i \in 1 .. Len(s) : Append(s, e)[i] = s[i]
         /\ Append(s, e)[Len(s) + 1] = e
         /\ Append(s, e) # <<>>
  OBVIOUS

(* put_sample computes the same window whether or not it evicts: the queue *)
(* after it holds the most recent Len samples.                             *)
LEMMA PutKeepsSuffix ==
  ASSUME TypeOK, QueueIsRecentSuffix, StatisticsAgree, Put
  PROVE  /\ queue' \in Seq(Nat)
         /\ queue' # <<>>
         /\ Len(queue') = IF IsFull THEN Len(queue) ELSE Len(queue) + 1
         /\ QueueIsRecentSuffix'
<1> DEFINE kept == IF IsFull THEN Tail(queue) ELSE queue
<1>1. queue' = Append(kept, totalProduced + 1) /\ totalProduced' = totalProduced + 1
  BY DEF Put, PutSample
<1>2. /\ kept \in Seq(Nat)
      /\ Len(kept) = IF IsFull THEN Len(queue) - 1 ELSE Len(queue)
      /\ \A i \in 1 .. Len(kept) : kept[i] = totalProduced - Len(kept) + i
  <2>1. CASE ~IsFull
    BY <2>1 DEF TypeOK, QueueIsRecentSuffix
  <2>2. CASE IsFull
    <3>1. queue # <<>>
      BY <2>2, MaxQueueSizeAssumption DEF IsFull, TypeOK
    <3>2. /\ Tail(queue) \in Seq(Nat)
          /\ Len(Tail(queue)) = Len(queue) - 1
          /\ \A i \in 1 .. Len(queue) - 1 : Tail(queue)[i] = queue[i + 1]
          /\ Len(queue) \in Nat
      BY <3>1, TailFacts DEF TypeOK
    <3>3. \A i \in 1 .. Len(queue) - 1 :
            Tail(queue)[i] = totalProduced - (Len(queue) - 1) + i
      BY <3>2 DEF TypeOK, QueueIsRecentSuffix
    <3> QED
      BY <2>2, <3>2, <3>3
  <2> QED
    BY <2>1, <2>2
<1> HIDE DEF kept
<1>3. /\ queue' \in Seq(Nat)
      /\ queue' # <<>>
      /\ Len(queue') = Len(kept) + 1
      /\ \A i \in 1 .. Len(kept) : queue'[i] = kept[i]
      /\ queue'[Len(kept) + 1] = totalProduced + 1
      /\ Len(kept) \in Nat
  <2>1. totalProduced + 1 \in Nat
    BY DEF TypeOK
  <2> QED
    BY <1>1, <1>2, <2>1, AppendFacts
<1>4. QueueIsRecentSuffix'
  <2>1. totalProduced \in Nat /\ Len(kept) \in Nat
    BY <1>3 DEF TypeOK
  <2>2. ASSUME NEW i \in 1 .. Len(kept) + 1
        PROVE  queue'[i] = (totalProduced + 1) - (Len(kept) + 1) + i
    <3>1. CASE i = Len(kept) + 1
      <4>1. queue'[i] = totalProduced + 1
        BY <3>1, <1>3
      <4> QED
        BY <4>1, <3>1, <2>1
    <3>2. CASE i \in 1 .. Len(kept)
      <4>1. queue'[i] = totalProduced - Len(kept) + i
        BY <3>2, <1>2, <1>3
      <4> QED
        BY <4>1, <3>2, <2>1
    <3> QED
      BY <3>1, <3>2, <2>1
  <2>3. Len(queue') = Len(kept) + 1 /\ totalProduced' = totalProduced + 1
    BY <1>1, <1>3
  <2> QED
    BY <2>2, <2>3 DEF QueueIsRecentSuffix
<1> QED
  BY <1>2, <1>3, <1>4 DEF TypeOK

-----------------------------------------------------------------------------
(* The queue length never exceeds the samples produced, so `first`, the    *)
(* oldest held number, is at least one: 0 can stand for "no sample yet".   *)
LEMMA WindowBounds ==
  ASSUME TypeOK, StatisticsAgree
  PROVE  /\ Len(queue) \in 0 .. totalProduced
         /\ totalProduced - Len(queue) + 1 \in Nat \ {0}
  BY DEF TypeOK, StatisticsAgree

(* The queue begins empty, with nobody waiting.                            *)
LEMMA InitInv == Init => Inv
<1> SUFFICES ASSUME Init PROVE Inv
  OBVIOUS
<1>1. queue = <<>> /\ Len(queue) = 0 /\ queue \in Seq(Nat)
  BY DEF Init
<1>2. TypeOK
  BY <1>1, MaxQueueSizeAssumption, MaxPutAssumption
  DEF Init, TypeOK, ConsumerState, NoReply
<1>3. QueueIsRecentSuffix
  BY <1>1 DEF QueueIsRecentSuffix
<1>4. NoLostWakeup
  BY DEF Init, NoLostWakeup
<1>5. StatisticsAgree
  BY <1>1 DEF Init, StatisticsAgree
<1>6. DeliveredOnce
  BY DEF Init, DeliveredOnce, Stream!DeliveredOnce, NoReply
<1> QED
  BY <1>2, <1>3, <1>4, <1>5, <1>6 DEF Inv

(* Every sleeper is woken, so none is asleep on a queue that is not empty. *)
LEMMA NotifyAllFacts ==
  ASSUME consumer \in [Consumers -> ConsumerState], NotifyAll
  PROVE  /\ consumer' \in [Consumers -> ConsumerState]
         /\ \A c \in Consumers : consumer'[c] # "waiting"
  BY DEF NotifyAll, ConsumerState

(* put_sample keeps the invariant.                                         *)
LEMMA PutInv == Inv /\ Put => Inv'
<1> SUFFICES ASSUME Inv, Put PROVE Inv'
  OBVIOUS
<1>1. /\ queue' \in Seq(Nat)
      /\ queue' # <<>>
      /\ Len(queue') = IF IsFull THEN Len(queue) ELSE Len(queue) + 1
      /\ QueueIsRecentSuffix'
  BY PutKeepsSuffix DEF Inv
<1>2. /\ totalProduced' = totalProduced + 1
      /\ totalProduced < MaxPut
      /\ droppedSamples' = IF IsFull THEN droppedSamples + 1 ELSE droppedSamples
      /\ NotifyAll
      /\ running' = running /\ totalConsumed' = totalConsumed /\ reply' = reply
  BY DEF Put, PutSample
<1>3. /\ consumer' \in [Consumers -> ConsumerState]
      /\ \A c \in Consumers : consumer'[c] # "waiting"
  BY <1>2, NotifyAllFacts DEF Inv, TypeOK
<1>4. Len(queue) \in Nat
  BY DEF Inv, TypeOK
<1>5. TypeOK'
  BY <1>1, <1>2, <1>3, <1>4, MaxQueueSizeAssumption, MaxPutAssumption
  DEF Inv, TypeOK, IsFull
<1>6. NoLostWakeup'
  BY <1>3 DEF NoLostWakeup
<1>7. StatisticsAgree'
  BY <1>1, <1>2, <1>4 DEF Inv, TypeOK, StatisticsAgree
<1>8. DeliveredOnce'
  <2> DEFINE len == Len(queue)
             newLen == Len(queue')
  <2>0. totalProduced \in Nat /\ len \in Nat /\ newLen \in {len, len + 1}
    BY <1>1, <1>4 DEF Inv, TypeOK
  <2>1. totalProduced - len + 1 <= totalProduced' - newLen + 1
    BY <2>0, <1>2
  <2>2. totalProduced' - newLen + 1 \in Int
    BY <2>0, <1>2
  <2>3. \A c \in Consumers : reply[c] \in Nat
    BY DEF Inv, TypeOK
  <2> QED
    BY <2>1, <2>2, <2>3, <1>2, <1>4
    DEF Inv, TypeOK, DeliveredOnce, Stream!DeliveredOnce
<1> QED
  BY <1>1, <1>5, <1>6, <1>7, <1>8 DEF Inv

(* get_sample takes the oldest sample, and keeps the invariant.            *)
LEMMA TakeInv ==
  ASSUME Inv, NEW c \in Consumers, GetTake(c)
  PROVE  /\ Inv'
         /\ Head(queue) = totalProduced - Len(queue) + 1
         /\ Len(queue') = Len(queue) - 1
<1>1. /\ queue # <<>>
      /\ queue' = Tail(queue)
      /\ reply' = [reply EXCEPT ![c] = Head(queue)]
      /\ consumer' = [consumer EXCEPT ![c] = "replied"]
      /\ totalConsumed' = totalConsumed + 1
      /\ UNCHANGED <<running, totalProduced, droppedSamples>>
  BY DEF GetTake
<1>2. /\ queue' \in Seq(Nat)
      /\ Len(queue') = Len(queue) - 1
      /\ \A i \in 1 .. Len(queue) - 1 : queue'[i] = queue[i + 1]
      /\ Head(queue) = queue[1]
      /\ Len(queue) \in Nat \ {0}
  BY <1>1, TailFacts DEF Inv, TypeOK
<1>3. Head(queue) = totalProduced - Len(queue) + 1
  BY <1>2 DEF Inv, TypeOK, QueueIsRecentSuffix
<1>4. QueueIsRecentSuffix'
  BY <1>1, <1>2 DEF Inv, TypeOK, QueueIsRecentSuffix
<1>5. StatisticsAgree'
  BY <1>1, <1>2 DEF Inv, TypeOK, StatisticsAgree
<1>6. totalProduced - Len(queue) + 1 \in Nat \ {0}
  BY WindowBounds DEF Inv
<1>7. TypeOK'
  <2>1. /\ consumer' \in [Consumers -> ConsumerState]
        /\ reply' \in [Consumers -> Nat]
    BY <1>1, <1>3, <1>6 DEF Inv, TypeOK, ConsumerState
  <2>2. queue' \in Seq(Nat) /\ Len(queue') <= MaxQueueSize
    BY <1>2, MaxQueueSizeAssumption DEF Inv, TypeOK
  <2> QED
    BY <1>1, <2>1, <2>2 DEF Inv, TypeOK
<1>8. NoLostWakeup'
  BY <1>1 DEF Inv, TypeOK, NoLostWakeup
<1>9. DeliveredOnce'
  <2> DEFINE oldest == totalProduced - Len(queue) + 1
  <2>1. /\ oldest \in Nat \ {0}
        /\ reply[c] \in Nat
        /\ totalProduced' - Len(queue') + 1 = oldest + 1
    <3>1. totalProduced \in Nat /\ Len(queue) \in Nat /\ reply[c] \in Nat
      BY <1>2 DEF Inv, TypeOK
    <3>2. Len(queue') = Len(queue) - 1 /\ totalProduced' = totalProduced
      BY <1>1, <1>2
    <3> QED
      BY <3>1, <3>2, <1>6
  <2>2. \A d \in Consumers : reply'[d] = IF d = c THEN oldest ELSE reply[d]
    BY <1>1, <1>3 DEF Inv, TypeOK
  <2>3. \A d \in Consumers : reply[d] \in Nat /\ reply[d] < oldest
    BY <1>6 DEF Inv, TypeOK, DeliveredOnce, Stream!DeliveredOnce
  <2>4. \A d \in Consumers : reply'[d] # 0 => reply'[d] < oldest + 1
    BY <2>1, <2>2, <2>3
  <2>5. ASSUME NEW d \in Consumers, NEW e \in Consumers \ {d}, reply'[d] # 0
        PROVE  reply'[e] # reply'[d]
    BY <2>1, <2>2, <2>3, <2>5 DEF Inv, DeliveredOnce, Stream!DeliveredOnce
  <2> QED
    BY <2>1, <2>4, <2>5 DEF DeliveredOnce, Stream!DeliveredOnce
<1> QED
  BY <1>2, <1>3, <1>4, <1>5, <1>7, <1>8, <1>9 DEF Inv

(* The steps that touch the queue in no other way than to empty it.        *)
LEMMA OtherInv ==
  ASSUME Inv,
         \/ ClearQueue
         \/ Shutdown
         \/ \E c \in Consumers : \/ CallGetSample(c) \/ GetWait(c)
                                  \/ GetClosed(c) \/ ReceiveReply(c)
  PROVE  /\ Inv'
         /\ UNCHANGED <<totalProduced, reply>>
         /\ queue' = queue \/ Len(queue') = 0
<1>1. CASE ClearQueue
  <2>1. queue' = <<>> /\ Len(queue') = 0 /\ queue' \in Seq(Nat)
    BY <1>1 DEF ClearQueue
  <2>2. UNCHANGED <<running, counters, consumer, reply>>
    BY <1>1 DEF ClearQueue
  <2>3. TypeOK' /\ QueueIsRecentSuffix' /\ StatisticsAgree'
    BY <2>1, <2>2, MaxQueueSizeAssumption
    DEF Inv, TypeOK, QueueIsRecentSuffix, StatisticsAgree, counters
  <2>4. NoLostWakeup'
    BY <2>1, <2>2 DEF Inv, NoLostWakeup
  <2>5. DeliveredOnce'
    BY <2>1, <2>2
    DEF Inv, TypeOK, DeliveredOnce, Stream!DeliveredOnce, counters
  <2> QED
    BY <2>1, <2>2, <2>3, <2>4, <2>5 DEF Inv, counters
<1>2. CASE Shutdown
  <2>1. /\ running' = FALSE /\ NotifyAll
        /\ UNCHANGED <<queue, counters, reply>>
    BY <1>2 DEF Shutdown
  <2>2. /\ consumer' \in [Consumers -> ConsumerState]
        /\ \A c \in Consumers : consumer'[c] # "waiting"
    BY <2>1, NotifyAllFacts DEF Inv, TypeOK
  <2> QED
    BY <2>1, <2>2
    DEF Inv, TypeOK, QueueIsRecentSuffix, NoLostWakeup, StatisticsAgree,
        DeliveredOnce, Stream!DeliveredOnce, counters
<1>3. ASSUME NEW c \in Consumers,
             CallGetSample(c) \/ GetWait(c) \/ GetClosed(c) \/ ReceiveReply(c)
      PROVE  /\ Inv'
             /\ UNCHANGED <<totalProduced, reply>>
             /\ queue' = queue
  <2>1. UNCHANGED <<queue, running, counters, reply>>
    BY <1>3 DEF CallGetSample, GetWait, GetClosed, ReceiveReply
  <2>2. /\ consumer' \in [Consumers -> ConsumerState]
        /\ \A d \in Consumers :
             consumer'[d] = "waiting" =>
               consumer[d] = "waiting" \/ (queue = <<>> /\ running)
    BY <1>3
    DEF Inv, TypeOK, ConsumerState, CallGetSample, GetWait, GetClosed,
        ReceiveReply
  <2> QED
    BY <2>1, <2>2
    DEF Inv, TypeOK, QueueIsRecentSuffix, NoLostWakeup, StatisticsAgree,
        DeliveredOnce, Stream!DeliveredOnce, counters
<1> QED
  BY <1>1, <1>2, <1>3

(* A step that changes nothing keeps it.                                   *)
LEMMA StutterInv == Inv /\ UNCHANGED vars => Inv'
  BY DEF Inv, vars, TypeOK, QueueIsRecentSuffix, NoLostWakeup,
         StatisticsAgree, DeliveredOnce, Stream!DeliveredOnce

(* Every step keeps the invariant.                                         *)
LEMMA StepInv == Inv /\ [Next]_vars => Inv'
  BY PutInv, TakeInv, OtherInv, StutterInv DEF Next, GetSample

(* The inductive invariant holds in every reachable state.                 *)
THEOREM Invariance == Spec => []Inv
  BY InitInv, StepInv, PTL DEF Spec

(* Types and capacity: the deque never exceeds max_queue_size.             *)
THEOREM TypeCorrect == Spec => []TypeOK
<1>1. Inv => TypeOK
  BY DEF Inv
<1> QED
  BY <1>1, Invariance, PTL

(* The queue is the most recent samples in order, for every capacity.      *)
THEOREM SuffixCorrect == Spec => []QueueIsRecentSuffix
<1>1. Inv => QueueIsRecentSuffix
  BY DEF Inv
<1> QED
  BY <1>1, Invariance, PTL

(* put_sample and shutdown notify before releasing the lock, so nobody     *)
(* sleeps through them, for every number of consumers.                     *)
THEOREM NoWakeupIsLost == Spec => []NoLostWakeup
<1>1. Inv => NoLostWakeup
  BY DEF Inv
<1> QED
  BY <1>1, Invariance, PTL

(* Delivered, evicted and queued samples never exceed the produced ones.   *)
THEOREM StatisticsCorrect == Spec => []StatisticsAgree
<1>1. Inv => StatisticsAgree
  BY DEF Inv
<1> QED
  BY <1>1, Invariance, PTL

(* No sample reaches two consumers or stays queued after it was taken.     *)
THEOREM DeliveryUnique == Spec => []DeliveredOnce
<1>1. Inv => DeliveredOnce
  BY DEF Inv
<1> QED
  BY <1>1, Invariance, PTL

-----------------------------------------------------------------------------
(* Refinement: a step of the actor is a step of the abstract stream, or    *)
(* leaves produced, first and got unchanged.                               *)
LEMMA InitRefines == Init => Stream!Init
  BY DEF Init, Stream!Init, NoReply

(* Every step of the actor is one of the stream or invisible.              *)
LEMMA StepRefines == Inv /\ [Next]_vars => [Stream!Next]_(Stream!streamVars)
<1> SUFFICES ASSUME Inv, [Next]_vars
             PROVE  Stream!Next \/ UNCHANGED Stream!streamVars
  OBVIOUS
<1>1. Len(queue) \in Nat /\ totalProduced \in Nat /\ Len(queue) <= MaxQueueSize
  BY DEF Inv, TypeOK
<1>2. CASE Put
  <2>1. Len(queue') = IF IsFull THEN Len(queue) ELSE Len(queue) + 1
    BY <1>2, PutKeepsSuffix DEF Inv
  <2>2. totalProduced' = totalProduced + 1 /\ reply' = reply
    BY <1>2 DEF Put, PutSample
  <2>3. Stream!Produce
    BY <1>1, <2>1, <2>2, MaxQueueSizeAssumption DEF Stream!Produce, IsFull
  <2> QED
    BY <2>3 DEF Stream!Next
<1>3. ASSUME NEW c \in Consumers, GetTake(c)
      PROVE  Stream!Deliver(c)
  <2>1. /\ Head(queue) = totalProduced - Len(queue) + 1
        /\ Len(queue') = Len(queue) - 1
    BY <1>3, TakeInv
  <2>2. /\ queue # <<>>
        /\ reply' = [reply EXCEPT ![c] = Head(queue)]
        /\ totalProduced' = totalProduced
    BY <1>3 DEF GetTake
  <2>3. Len(queue) >= 1
    BY <2>2, TailFacts DEF Inv, TypeOK
  <2>4. (totalProduced - Len(queue) + 1)' = totalProduced - Len(queue) + 1 + 1
    BY <1>1, <2>1, <2>2
  <2>5. totalProduced - Len(queue) + 1 <= totalProduced
    BY <1>1, <2>3
  <2> QED
    BY <2>1, <2>2, <2>4, <2>5 DEF Stream!Deliver
<1>4. ASSUME UNCHANGED <<totalProduced, reply>>,
             queue' = queue \/ Len(queue') = 0
      PROVE  Stream!Next \/ UNCHANGED Stream!streamVars
  BY <1>1, <1>4 DEF Stream!Next, Stream!Discard, Stream!streamVars
<1>5. CASE UNCHANGED vars
  BY <1>4, <1>5 DEF vars
<1>6. ASSUME \/ ClearQueue
             \/ Shutdown
             \/ \E c \in Consumers : \/ CallGetSample(c) \/ GetWait(c)
                                      \/ GetClosed(c) \/ ReceiveReply(c)
      PROVE  Stream!Next \/ UNCHANGED Stream!streamVars
  BY <1>4, <1>6, OtherInv
<1> QED
  BY <1>2, <1>3, <1>5, <1>6 DEF Next, GetSample, Stream!Next

(* The MessageQueue actor implements the abstract sample stream.           *)
THEOREM StreamImplemented == Spec => ImplementsStream
<1>1. Spec => []Inv /\ [][Next]_vars /\ Init
  BY Invariance, PTL DEF Spec
<1> QED
  BY <1>1, InitRefines, StepRefines, PTL DEF ImplementsStream, Stream!Spec

=============================================================================
