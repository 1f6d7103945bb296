---------------------------- MODULE MessageQueue ----------------------------
(***************************************************************************)
(* The MessageQueue actor of the fully asynchronous trainer                *)
(* (experimental/fully_async_policy/message_queue.py): a bounded FIFO that *)
(* evicts its oldest sample when it is full, with one asyncio.Lock and one *)
(* condition variable built on that lock.                                  *)
(*                                                                         *)
(* Every method body runs under `async with self._lock` and awaits nothing *)
(* but the condition, so a body is one step.  get_sample alone releases    *)
(* the lock, inside wait(): its caller is then "waiting", after a          *)
(* notification "woken" (it competes for the lock again and repeats the    *)
(* test of its loop), and "replied" (or "closed", the result None of a     *)
(* queue that was shut down) while the RPC result travels back.            *)
(*                                                                         *)
(* The operations take the sample as a parameter: FullyAsyncRollouter.tla  *)
(* instantiates this module and calls them from its own actions.  In the   *)
(* module's own Next, samples are numbered in the order of their arrival.  *)
(***************************************************************************)
EXTENDS Integers, Sequences

CONSTANTS
  Consumers,     (* callers of get_sample                                  *)
  MaxQueueSize,  (* max_queue_size: capacity of the deque                  *)
  MaxPut         (* bound on the samples ever produced                     *)

ASSUME MaxQueueSizeAssumption == MaxQueueSize \in Nat \ {0}
ASSUME MaxPutAssumption == MaxPut \in Nat

VARIABLES
  queue,            (* self.queue                                          *)
  running,          (* self.running                                        *)
  totalProduced,    (* self.total_produced                                 *)
  totalConsumed,    (* self.total_consumed                                 *)
  droppedSamples,   (* self.dropped_samples                                *)
  consumer,         (* where each get_sample call stands                   *)
  reply             (* the sample each consumer's last get_sample returned *)

counters == <<totalProduced, totalConsumed, droppedSamples>>
vars == <<queue, running, totalProduced, totalConsumed, droppedSamples,
          consumer, reply>>

ConsumerState == {"idle", "calling", "waiting", "woken", "replied", "closed"}
NoReply == 0

Init ==
  /\ queue = <<>>
  /\ running = TRUE
  /\ totalProduced = 0
  /\ totalConsumed = 0
  /\ droppedSamples = 0
  /\ consumer = [c \in Consumers |-> "idle"]
  /\ reply = [c \in Consumers |-> NoReply]

-----------------------------------------------------------------------------
(* Faulty variants, each a plausible slip in the operation it is named     *)
(* after.  No specification uses them: the runs are shown to catch them.   *)

(* put_sample without the eviction.                                        *)
PutSampleNoEviction(s) ==
  /\ queue' = Append(queue, s)
  /\ totalProduced' = totalProduced + 1
  /\ consumer' = [c \in Consumers |->
                    IF consumer[c] = "waiting" THEN "woken" ELSE consumer[c]]
  /\ UNCHANGED <<running, totalConsumed, droppedSamples, reply>>

(* put_sample evicting from the wrong end of the deque.                    *)
PutSampleDropNewest(s) ==
  LET full == Len(queue) >= MaxQueueSize IN
  /\ queue' = Append(IF full THEN SubSeq(queue, 1, Len(queue) - 1) ELSE queue, s)
  /\ droppedSamples' = IF full THEN droppedSamples + 1 ELSE droppedSamples
  /\ totalProduced' = totalProduced + 1
  /\ consumer' = [c \in Consumers |->
                    IF consumer[c] = "waiting" THEN "woken" ELSE consumer[c]]
  /\ UNCHANGED <<running, totalConsumed, reply>>

(* put_sample without notify_all.                                          *)
PutSampleNoNotify(s) ==
  LET full == Len(queue) >= MaxQueueSize IN
  /\ queue' = Append(IF full THEN Tail(queue) ELSE queue, s)
  /\ droppedSamples' = IF full THEN droppedSamples + 1 ELSE droppedSamples
  /\ totalProduced' = totalProduced + 1
  /\ UNCHANGED <<running, totalConsumed, consumer, reply>>

(* get_sample with pop() for popleft().                                    *)
GetTakeNewest(c) ==
  /\ consumer[c] \in {"calling", "woken"}
  /\ queue # <<>>
  /\ consumer' = [consumer EXCEPT ![c] = "replied"]
  /\ reply' = [reply EXCEPT ![c] = queue[Len(queue)]]
  /\ queue' = SubSeq(queue, 1, Len(queue) - 1)
  /\ totalConsumed' = totalConsumed + 1
  /\ UNCHANGED <<running, totalProduced, droppedSamples>>

(* shutdown without notify_all.                                            *)
ShutdownNoNotify ==
  /\ running' = FALSE
  /\ UNCHANGED <<queue, counters, consumer, reply>>

-----------------------------------------------------------------------------
(* Condition.notify_all: every waiting consumer becomes runnable.          *)
NotifyAll ==
  consumer' = [c \in Consumers |->
                 IF consumer[c] = "waiting" THEN "woken" ELSE consumer[c]]

(* put_sample: evict the head when full, append, count, notify.            *)
IsFull == Len(queue) >= MaxQueueSize

PutSample(s) ==
  /\ queue' = Append(IF IsFull THEN Tail(queue) ELSE queue, s)
  /\ droppedSamples' = IF IsFull THEN droppedSamples + 1 ELSE droppedSamples
  /\ totalProduced' = totalProduced + 1
  /\ NotifyAll
  /\ UNCHANGED <<running, totalConsumed, reply>>

(* A caller invokes get_sample; its body has not taken the lock yet.       *)
CallGetSample(c) ==
  /\ consumer[c] = "idle"
  /\ consumer' = [consumer EXCEPT ![c] = "calling"]
  /\ UNCHANGED <<queue, running, counters, reply>>

(* get_sample with the lock held: the first pass and every pass after a    *)
(* wake-up test the same loop condition.                                   *)
HasLock(c) == consumer[c] \in {"calling", "woken"}

GetWait(c) ==
  /\ HasLock(c)
  /\ queue = <<>> /\ running
  /\ consumer' = [consumer EXCEPT ![c] = "waiting"]
  /\ UNCHANGED <<queue, running, counters, reply>>

GetClosed(c) ==
  /\ HasLock(c)
  /\ queue = <<>> /\ ~running
  /\ consumer' = [consumer EXCEPT ![c] = "closed"]
  /\ UNCHANGED <<queue, running, counters, reply>>

GetTake(c) ==
  /\ HasLock(c)
  /\ queue # <<>>
  /\ consumer' = [consumer EXCEPT ![c] = "replied"]
  /\ reply' = [reply EXCEPT ![c] = Head(queue)]
  /\ queue' = Tail(queue)
  /\ totalConsumed' = totalConsumed + 1
  /\ UNCHANGED <<running, totalProduced, droppedSamples>>

(* The result of the call reaches its caller.                              *)
ReceiveReply(c) ==
  /\ consumer[c] \in {"replied", "closed"}
  /\ consumer' = [consumer EXCEPT ![c] = "idle"]
  /\ UNCHANGED <<queue, running, counters, reply>>

(* clear_queue: discards without touching the statistics.                  *)
ClearQueue ==
  /\ queue' = <<>>
  /\ UNCHANGED <<running, counters, consumer, reply>>

Shutdown ==
  /\ running' = FALSE
  /\ NotifyAll
  /\ UNCHANGED <<queue, counters, reply>>

Put == totalProduced < MaxPut /\ PutSample(totalProduced + 1)

GetSample(c) == GetWait(c) \/ GetClosed(c) \/ GetTake(c)

Next ==
  \/ Put
  \/ ClearQueue
  \/ Shutdown
  \/ \E c \in Consumers : CallGetSample(c) \/ GetSample(c) \/ ReceiveReply(c)

(* The actor's event loop runs every runnable get_sample body in the end.  *)
Spec == Init /\ [][Next]_vars /\ \A c \in Consumers : WF_vars(GetSample(c))

-----------------------------------------------------------------------------
TypeOK ==
  /\ queue \in Seq(Nat)
  /\ Len(queue) <= MaxQueueSize
  /\ running \in BOOLEAN
  /\ totalProduced \in 0 .. MaxPut
  /\ totalConsumed \in Nat
  /\ droppedSamples \in Nat
  /\ consumer \in [Consumers -> ConsumerState]
  /\ reply \in [Consumers -> Nat]

(* The queue is always the most recent samples, oldest first, with no gap: *)
(* eviction at the head (and clear_queue) may shorten the stream but never *)
(* reorders it or loses a sample in the middle.                            *)
QueueIsRecentSuffix ==
  \A i \in 1 .. Len(queue) : queue[i] = totalProduced - Len(queue) + i

(* No lost wake-up: a consumer sleeps on the condition only while there is *)
(* nothing to take and the queue is open, so put_sample and shutdown have  *)
(* notified everyone that matters (message_queue.py:74, :132).             *)
NoLostWakeup ==
  \A c \in Consumers : consumer[c] = "waiting" => queue = <<>> /\ running

(* Every sample is accounted for at most once: it was delivered, was       *)
(* evicted, is queued, or (the slack) was discarded by clear_queue, which  *)
(* leaves the statistics alone.                                            *)
StatisticsAgree ==
  totalConsumed + droppedSamples + Len(queue) <= totalProduced

(* What the actor promises its callers, whatever the interleaving: the     *)
(* stream of SampleStream.tla, where samples are handed out oldest first,  *)
(* each to one consumer, and lost only by overflow or clear_queue.         *)
Stream == INSTANCE SampleStream WITH
            Capacity <- MaxQueueSize,
            produced <- totalProduced,
            first <- totalProduced - Len(queue) + 1,
            got <- reply

ImplementsStream == Stream!Spec

(* Two consumers never hold the same sample, and no consumer holds one     *)
(* that is still queued.                                                   *)
DeliveredOnce == Stream!DeliveredOnce

(* After shutdown no consumer stays asleep: every get_sample call returns. *)
ShutdownReleases ==
  \A c \in Consumers :
    (~running /\ consumer[c] \in {"calling", "waiting", "woken"})
      ~> consumer[c] \in {"replied", "closed"}

=============================================================================
