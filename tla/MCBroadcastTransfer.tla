------------------------ MODULE MCBroadcastTransfer ------------------------
(* All combinations of weight sizes up to more than two buckets.           *)
EXTENDS BroadcastTransfer

=============================================================================
