--------------------------- MODULE MCMessageQueue ---------------------------
(***************************************************************************)
(* MessageQueue with two consumers (the trainer and a second caller, so    *)
(* that a notification can wake both for one sample), a capacity of two    *)
(* and more samples than fit.                                              *)
(***************************************************************************)
EXTENDS MessageQueue
=============================================================================
