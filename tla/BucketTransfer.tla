--------------------------- MODULE BucketTransfer ---------------------------
(***************************************************************************)
(* The last hop of a weight update                                         *)
(* (workers/rollout/vllm_rollout/bucketed_weight_transfer.py): a           *)
(* BucketedWeightSender packs the weights, one after the other, into a     *)
(* buffer that it shares with the BucketedWeightReceiver in the inference  *)
(* engine's process, and sends the places of what it packed over a ZMQ     *)
(* REQ/REP socket.  The receiver loads straight from the shared buffer, so *)
(* everything depends on who touches it when.                              *)
(*                                                                         *)
(* A weight is the sequence of its bytes; byte i of weight w is <<w, i>>.  *)
(* Copies are asynchronous on the device: the receiver's loads happen one  *)
(* by one, at any time until it synchronizes; the sender's packing is one  *)
(* step, for the sender synchronizes before every message.                 *)
(***************************************************************************)
EXTENDS Integers

CONSTANTS
  NumWeights,   (* weights in the state dict                               *)
  BucketSize,   (* bytes in the shared buffer                              *)
  MaxSize,      (* bound: bytes of a weight                                *)
  UseShm        (* shared memory instead of CUDA IPC                       *)

ASSUME NumAssumption == NumWeights \in Nat
ASSUME BucketAssumption == BucketSize \in Nat \ {0}
ASSUME SizeAssumption == MaxSize \in Nat
ASSUME ShmAssumption == UseShm \in BOOLEAN

Weights == 1 .. NumWeights
Sizes == 0 .. MaxSize
Byte == Weights \X (0 .. MaxSize)
Blank == <<0, 0>>
Positions == 0 .. BucketSize - 1

(* bucket_meta: where a weight stands, or its own handle if it is direct.  *)
Entry == [weight : Weights, offset : 0 .. BucketSize, direct : BOOLEAN]

NoMessage == [kind |-> "none"]
BufferMessage == [kind |-> "buffer"]
BucketMessage(entries, last) ==
  [kind |-> "bucket", meta |-> entries, last |-> last]

VARIABLES
  size,      (* bytes of each weight                                       *)
  (* the sender *)
  sender,    (* where async_send_weights stands                            *)
  next,      (* the weight its iterator yields next                        *)
  offset,    (* first free byte of the bucket                              *)
  meta,      (* bucket_meta                                                *)
  (* shared *)
  buffer,    (* the shared buffer                                          *)
  wire,      (* the request on its way to the receiver                     *)
  acked,     (* the reply is on its way to the sender                      *)
  (* the receiver *)
  receiver,  (* where receive_weights stands                               *)
  loading,   (* entries of the bucket still to be copied into the model    *)
  isLast,    (* is_last of the present bucket                              *)
  loaded     (* the weights of the model loaded so far, as their bytes     *)

senderVars == <<sender, next, offset, meta>>
receiverVars == <<receiver, loading, isLast, loaded>>
vars == <<size, senderVars, buffer, wire, acked, receiverVars>>

Bytes(w) == [i \in 0 .. size[w] - 1 |-> <<w, i>>]

Init ==
  /\ size \in [Weights -> Sizes]
  /\ sender = "offer"
  /\ next = 1
  /\ offset = 0
  /\ meta = {}
  /\ buffer = [p \in Positions |-> Blank]
  /\ wire = NoMessage
  /\ acked = FALSE
  /\ receiver = "recv"
  /\ loading = {}
  /\ isLast = FALSE
  /\ loaded = [w \in {} |-> Bytes(w)]

-----------------------------------------------------------------------------
(* Faulty variants; no specification uses them.                            *)

(* A bucket may be one byte over.                                          *)
FitsOffByOne(w) == offset + size[w] <= BucketSize + 1

(* receive_weights that replies before it synchronizes.                    *)
ReceiverReplyEarly ==
  /\ receiver = "load"
  /\ acked' = TRUE
  /\ receiver' = IF isLast THEN "done" ELSE "recv"
  /\ UNCHANGED <<size, senderVars, buffer, wire, loading, isLast, loaded>>

(* async_send_weights that skips the weight it sent the full bucket for.   *)
SenderFlushAndSkip ==
  /\ sender = "pack" /\ next <= NumWeights
  /\ offset + size[next] > BucketSize
  /\ meta # {}
  /\ wire' = BucketMessage(meta, FALSE)
  /\ sender' = "ack"
  /\ meta' = {} /\ offset' = 0
  /\ next' = next + 1
  /\ UNCHANGED <<size, buffer, acked, receiverVars>>

(* async_send_weights without the reply to the last bucket.                *)
SenderLastForgotten ==
  /\ sender = "pack" /\ next > NumWeights
  /\ sender' = "done"
  /\ UNCHANGED <<size, next, offset, meta, buffer, wire, acked, receiverVars>>

-----------------------------------------------------------------------------
Send(message) == wire' = message

(* _init_buffer of the sender: the handle of the buffer is the first       *)
(* message.                                                                *)
SenderOffer ==
  /\ sender = "offer"
  /\ Send(BufferMessage)
  /\ sender' = "ack"
  /\ UNCHANGED <<size, next, offset, meta, buffer, acked, receiverVars>>

Fits(w) == offset + size[w] <= BucketSize

(* Copy the weight behind the others.                                      *)
SenderPack ==
  /\ sender = "pack" /\ next <= NumWeights
  /\ Fits(next)
  /\ buffer' = [p \in Positions |->
       IF p \in offset .. offset + size[next] - 1
         THEN <<next, p - offset>> ELSE buffer[p]]
  /\ meta' = meta \cup {[weight |-> next, offset |-> offset, direct |-> FALSE]}
  /\ offset' = offset + size[next]
  /\ next' = next + 1
  /\ UNCHANGED <<size, sender, wire, acked, receiverVars>>

(* The next weight does not fit behind the others: send the bucket, wait.  *)
SenderFlush ==
  /\ sender = "pack" /\ next <= NumWeights
  /\ ~Fits(next) /\ meta # {}
  /\ Send(BucketMessage(meta, FALSE))
  /\ sender' = "ack"
  /\ meta' = {} /\ offset' = 0
  /\ UNCHANGED <<size, next, buffer, acked, receiverVars>>

(* It does not fit into an empty bucket: send a handle of the weight, or,  *)
(* with shared memory, fail an assertion.                                  *)
SenderDirect ==
  /\ sender = "pack" /\ next <= NumWeights
  /\ ~Fits(next) /\ meta = {}
  /\ IF UseShm
       THEN sender' = "failed" /\ UNCHANGED <<wire, next>>
       ELSE /\ Send(BucketMessage(
                 {[weight |-> next, offset |-> 0, direct |-> TRUE]}, FALSE))
            /\ next' = next + 1
            /\ sender' = "ack"
  /\ UNCHANGED <<size, offset, meta, buffer, acked, receiverVars>>

(* The last bucket, possibly empty.                                        *)
SenderLast ==
  /\ sender = "pack" /\ next > NumWeights
  /\ Send(BucketMessage(meta, TRUE))
  /\ sender' = "lastAck"
  /\ UNCHANGED <<size, next, offset, meta, buffer, acked, receiverVars>>

(* socket.recv().                                                          *)
SenderAck ==
  /\ sender \in {"ack", "lastAck"}
  /\ acked
  /\ acked' = FALSE
  /\ sender' = IF sender = "ack" THEN "pack" ELSE "done"
  /\ UNCHANGED <<size, next, offset, meta, buffer, wire, receiverVars>>

-----------------------------------------------------------------------------
(* _init_buffer of the receiver: attach the buffer, reply.                 *)
ReceiverAttach ==
  /\ receiver = "recv"
  /\ wire = BufferMessage
  /\ wire' = NoMessage
  /\ acked' = TRUE
  /\ UNCHANGED <<size, senderVars, buffer, receiverVars>>

ReceiverRecv ==
  /\ receiver = "recv"
  /\ wire.kind = "bucket"
  /\ loading' = wire.meta
  /\ isLast' = wire.last
  /\ wire' = NoMessage
  /\ receiver' = "load"
  /\ UNCHANGED <<size, senderVars, buffer, acked, loaded>>

(* A copy that on_bucket_received asked for takes place.                   *)
ReceiverLoad ==
  /\ \E e \in loading :
       /\ loading' = loading \ {e}
       /\ loaded' = [w \in DOMAIN loaded \cup {e.weight} |->
            IF w # e.weight THEN loaded[w]
            ELSE IF e.direct THEN Bytes(w)
            ELSE [i \in 0 .. size[w] - 1 |-> buffer[e.offset + i]]]
  /\ UNCHANGED <<size, senderVars, buffer, wire, acked, receiver, isLast>>

(* synchronize(), then the reply.                                          *)
ReceiverReply ==
  /\ receiver = "load"
  /\ loading = {}
  /\ acked' = TRUE
  /\ receiver' = IF isLast THEN "done" ELSE "recv"
  /\ UNCHANGED <<size, senderVars, buffer, wire, loading, isLast, loaded>>

Sender ==
  \/ SenderOffer \/ SenderPack \/ SenderFlush \/ SenderDirect
  \/ SenderLast \/ SenderAck

Receiver ==
  ReceiverAttach \/ ReceiverRecv \/ ReceiverLoad \/ ReceiverReply

Next == Sender \/ Receiver

Spec == Init /\ [][Next]_vars

(* Both processes run, and the device completes its copies.                *)
FairSpec == Spec /\ WF_vars(Sender) /\ WF_vars(Receiver)

-----------------------------------------------------------------------------
Message ==
  {NoMessage, BufferMessage}
    \cup [kind : {"bucket"}, meta : SUBSET Entry, last : BOOLEAN]

TypeOK ==
  /\ size \in [Weights -> Sizes]
  /\ sender \in {"offer", "pack", "ack", "lastAck", "done", "failed"}
  /\ next \in 1 .. NumWeights + 1
  /\ offset \in 0 .. BucketSize
  /\ meta \subseteq Entry
  /\ buffer \in [Positions -> Byte \cup {Blank}]
  /\ wire \in Message
  /\ acked \in BOOLEAN
  /\ receiver \in {"recv", "load", "done"}
  /\ loading \subseteq Entry
  /\ isLast \in BOOLEAN
  /\ DOMAIN loaded \subseteq Weights

(* Whatever the sizes of the weights, and however late the copies, what    *)
(* the engine loads as a weight is that weight: no bucket is packed while  *)
(* the receiver still reads the one before                                 *)
(* (bucketed_weight_transfer.py:128-157, 273-292).                         *)
LoadedIntact == \A w \in DOMAIN loaded : loaded[w] = Bytes(w)

(* Every weight is loaded intact, the empty, the exactly fitting and the   *)
(* oversized ones included, and the receiver does not end without one      *)
(* (bucketed_weight_transfer.py:117-157): WeightDelivery is implemented.   *)
Delivery ==
  INSTANCE WeightDelivery WITH
    Receivers <- {"engine"},
    got <- [r \in {"engine"} |-> {w \in DOMAIN loaded : loaded[w] = Bytes(w)}],
    finished <- IF receiver = "done" THEN {"engine"} ELSE {}

ImplementsDelivery == Delivery!Spec

(* Unless a weight is too large for shared memory both sides finish: they  *)
(* never wait for each other (bucketed_weight_transfer.py:128-157,         *)
(* 273-292).                                                               *)
TransferEnds ==
  (UseShm => \A w \in Weights : size[w] <= BucketSize)
    => <>(sender = "done" /\ receiver = "done")

=============================================================================
