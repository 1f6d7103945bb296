--------------------------- MODULE WeightDelivery ---------------------------
(***************************************************************************)
(* What a weight transfer promises: every receiver loads every weight      *)
(* with all its bytes, and finishes only when it has all of them.          *)
(* BucketTransfer.tla and BroadcastTransfer.tla implement it; to load an   *)
(* intact weight a second time is a stutter here.                          *)
(***************************************************************************)
CONSTANTS
  Receivers,
  Weights

VARIABLES
  got,       (* weights each receiver has loaded, intact                   *)
  finished   (* receivers whose transfer has ended                         *)

Init ==
  /\ got = [r \in Receivers |-> {}]
  /\ finished = {}

Load(r, w) ==
  /\ r \notin finished
  /\ w \notin got[r]
  /\ got' = [got EXCEPT ![r] = @ \cup {w}]
  /\ UNCHANGED finished

Finish(r) ==
  /\ r \notin finished
  /\ got[r] = Weights
  /\ finished' = finished \cup {r}
  /\ UNCHANGED got

Next == \E r \in Receivers : Finish(r) \/ \E w \in Weights : Load(r, w)

vars == <<got, finished>>

Spec == Init /\ [][Next]_vars

=============================================================================
