-------------------------- MODULE MCBucketTransfer --------------------------
(* All combinations of weight sizes from nothing to more than a bucket.    *)
EXTENDS BucketTransfer

=============================================================================
