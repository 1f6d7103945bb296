---------------------------- MODULE SampleStream ----------------------------
(***************************************************************************)
(* What the MessageQueue actor promises (message_queue.py): a stream of    *)
(* samples, numbered as produced, of which a window of at most Capacity is *)
(* held.  A consumer is given the oldest held sample; overflow and         *)
(* clear_queue move the window forward, nothing moves it back.             *)
(***************************************************************************)
EXTENDS Integers

CONSTANTS Consumers, Capacity

VARIABLES
  produced,  (* samples produced so far; the newest one's number           *)
  first,     (* the oldest held sample: first .. produced are held         *)
  got        (* the sample each consumer received last, 0 for none         *)

streamVars == <<produced, first, got>>

Held == first .. produced

Init ==
  /\ produced = 0
  /\ first = 1
  /\ got = [c \in Consumers |-> 0]

(* A new sample; the oldest is lost when, and only when, the window is     *)
(* full.                                                                   *)
Produce ==
  /\ produced' = produced + 1
  /\ first' = IF produced - first + 1 >= Capacity THEN first + 1 ELSE first
  /\ UNCHANGED got

Deliver(c) ==
  /\ first <= produced
  /\ got' = [got EXCEPT ![c] = first]
  /\ first' = first + 1
  /\ UNCHANGED produced

Discard ==
  /\ first' = produced + 1
  /\ UNCHANGED <<produced, got>>

Next == Produce \/ Discard \/ \E c \in Consumers : Deliver(c)

Spec == Init /\ [][Next]_streamVars

(* No sample is handed out twice and none that was handed out is still     *)
(* held: consumers hold distinct samples, all older than the window.       *)
DeliveredOnce ==
  \A c \in Consumers : got[c] # 0 =>
    /\ got[c] < first
    /\ \A d \in Consumers \ {c} : got[d] # got[c]

=============================================================================
