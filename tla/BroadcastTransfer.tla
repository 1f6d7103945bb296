------------------------- MODULE BroadcastTransfer -------------------------
(***************************************************************************)
(* The first hop of a weight update: rank 0 of the trainer broadcasts its  *)
(* weights to the checkpoint engine workers of all servers                 *)
(* (checkpoint_engine/nccl_checkpoint_engine.py, and split_weight_chunks   *)
(* and merge_weight_chunks in checkpoint_engine/base.py).                  *)
(*                                                                         *)
(* Each side owns two buffers, so that one bucket is broadcast, in a       *)
(* thread of the executor, while another is filled or consumed: a pipeline *)
(* that is right only if nobody touches a buffer too early.  The metadata  *)
(* of a bucket travels over ZMQ PUB/SUB, its bytes over an NCCL broadcast, *)
(* which completes on the sender when every receiver has taken part.       *)
(* (NCCL and ZMQ are modelled from how the code uses them.)                *)
(*                                                                         *)
(* A weight is the sequence of its bytes; byte i of weight w is <<w, i>>.  *)
(* The copies a receiver makes out of a bucket are queued on the device    *)
(* and take place later, in order; torch.cuda.synchronize() waits for      *)
(* them.  The sender synchronizes before every broadcast, so its filling a *)
(* bucket is one step per chunk.                                           *)
(***************************************************************************)
EXTENDS Integers, Sequences

CONSTANTS
  Receivers,    (* rollout workers: ranks 1, 2, ... of the group           *)
  NumWeights,   (* weights in the state dict                               *)
  BucketSize,   (* bytes of a buffer                                       *)
  MaxSize       (* bound: bytes of a weight                                *)

ASSUME NumAssumption == NumWeights \in Nat
ASSUME BucketAssumption == BucketSize \in Nat \ {0}
ASSUME SizeAssumption == MaxSize \in Nat \ {0}

Weights == 1 .. NumWeights
Byte == Weights \X (0 .. MaxSize)
Blank == <<0, 0>>
Positions == 0 .. BucketSize - 1
Buffers == {0, 1}
Other(b) == 1 - b

(* TensorMeta: the chunk of weight that starts at chunkOffset stands at    *)
(* offset in the bucket.                                                   *)
Chunk == [weight : Weights, chunkOffset : 0 .. MaxSize,
          chunkSize : 1 .. BucketSize, offset : Positions]
NoWeight == 0

VARIABLES
  size,        (* bytes of each weight                                     *)
  (* the sender *)
  cursor,      (* where split_weight_chunks stands: weight and offset      *)
  sbuf,        (* the sender's two buffers                                 *)
  sendBuf,     (* send_buf: the one being filled                           *)
  meta,        (* bucket_meta                                              *)
  offset,      (* first free byte of send_buf                              *)
  lastSent,    (* the last broadcast has been started                      *)
  op,          (* broadcast_op of the sender                               *)
  (* the network *)
  subscribed,  (* receivers whose subscription has reached the publisher   *)
  channel,     (* metadata on its way to each receiver                     *)
  (* the receivers *)
  rbuf,        (* a receiver's two buffers                                 *)
  recvBuf,     (* recv_buf: the one the present broadcast fills            *)
  rop,         (* broadcast_op of the receiver                             *)
  rmeta,       (* the metadata it returned                                 *)
  yielding,    (* chunks of the other buffer still to be yielded           *)
  merging,     (* merge_weight_chunks: weight and merge_offset             *)
  copies,      (* copies queued on the device                              *)
  loaded       (* bytes the receiver has of each weight                    *)

senderVars == <<cursor, sbuf, sendBuf, meta, offset, lastSent, op>>
networkVars == <<subscribed, channel>>
receiverVars == <<rbuf, recvBuf, rop, rmeta, yielding, merging,
                  copies, loaded>>
vars == <<size, senderVars, networkVars, receiverVars>>

Message == [meta : Seq(Chunk), last : BOOLEAN]
EmptyMessage == [meta |-> <<>>, last |-> FALSE]
EmptyBuffers == [b \in Buffers |-> [p \in Positions |-> Blank]]
NoMerge == [weight |-> NoWeight, offset |-> 0]

Init ==
  /\ size \in [Weights -> 1 .. MaxSize]
  /\ cursor = <<1, 0>>
  /\ sbuf = EmptyBuffers
  /\ sendBuf = 0
  /\ meta = <<>>
  /\ offset = 0
  /\ lastSent = FALSE
  /\ op = [stage |-> "none", buf |-> 0, message |-> EmptyMessage, waiting |-> {}]
  /\ subscribed = {}
  /\ channel = [r \in Receivers |-> <<>>]
  /\ rbuf = [r \in Receivers |-> EmptyBuffers]
  /\ recvBuf = [r \in Receivers |-> 0]
  /\ rop = [r \in Receivers |-> "meta"]
  /\ rmeta = [r \in Receivers |-> EmptyMessage]
  /\ yielding = [r \in Receivers |-> <<>>]
  /\ merging = [r \in Receivers |-> NoMerge]
  /\ copies = [r \in Receivers |-> <<>>]
  /\ loaded = [r \in Receivers |-> [w \in Weights |-> [i \in {} |-> Blank]]]

-----------------------------------------------------------------------------
(* Faulty variants; no specification uses them.                            *)

(* split_weight_chunks that fills up the bucket.                           *)
ChunkSizeFilling ==
  LET remaining == size[cursor[1]] - cursor[2]
      room == IF offset < BucketSize THEN BucketSize - offset ELSE BucketSize
  IN  IF remaining < room THEN remaining ELSE room

(* send_weights that tests the bucket without the chunk.                   *)
SenderFillUnchecked ==
  LET left == size[cursor[1]] - cursor[2]
      chunk == IF left < BucketSize THEN left ELSE BucketSize
  IN  /\ cursor[1] <= NumWeights
      /\ offset < BucketSize
      /\ offset' = offset + chunk
      /\ meta' = Append(meta, [weight |-> cursor[1], chunkOffset |-> cursor[2],
                               chunkSize |-> chunk, offset |-> offset])
      /\ cursor' = IF chunk = left THEN <<cursor[1] + 1, 0>>
                   ELSE <<cursor[1], cursor[2] + chunk>>
      /\ UNCHANGED <<size, sbuf, sendBuf, lastSent, op, networkVars,
                     receiverVars>>

(* send_weights that goes on with the buffer it broadcasts.                *)
SenderFlushNoSwap ==
  /\ cursor[1] <= NumWeights
  /\ offset + size[cursor[1]] - cursor[2] > BucketSize
  /\ op.stage \in {"none", "complete"}
  /\ op' = [stage |-> "started", buf |-> sendBuf,
            message |-> [meta |-> meta, last |-> FALSE], waiting |-> Receivers]
  /\ meta' = <<>>
  /\ offset' = 0
  /\ UNCHANGED <<size, cursor, sbuf, sendBuf, lastSent, networkVars,
                 receiverVars>>

(* The last bucket without is_last.                                        *)
SenderLastUnmarked ==
  /\ cursor[1] > NumWeights /\ ~lastSent
  /\ op.stage \in {"none", "complete"}
  /\ op' = [stage |-> "started", buf |-> sendBuf,
            message |-> [meta |-> meta, last |-> FALSE], waiting |-> Receivers]
  /\ lastSent' = TRUE
  /\ UNCHANGED <<size, cursor, sbuf, sendBuf, meta, offset, networkVars,
                 receiverVars>>

(* _receive_weight_chunks without torch.cuda.synchronize().                *)
ReceiverSwapNoSync(r) ==
  /\ rop[r] = "complete"
  /\ yielding[r] = <<>>
  /\ recvBuf' = [recvBuf EXCEPT ![r] = Other(@)]
  /\ yielding' = [yielding EXCEPT ![r] = rmeta[r].meta]
  /\ rop' = [rop EXCEPT ![r] = IF rmeta[r].last THEN "none" ELSE "meta"]
  /\ rmeta' = [rmeta EXCEPT ![r] = EmptyMessage]
  /\ UNCHANGED <<size, senderVars, networkVars, rbuf, merging, copies, loaded>>

-----------------------------------------------------------------------------
(* split_weight_chunks: the chunk it yields next.                          *)
Exhausted == cursor[1] > NumWeights
Remaining == size[cursor[1]] - cursor[2]
ChunkSize == IF Remaining < BucketSize THEN Remaining ELSE BucketSize
NextCursor ==
  IF ChunkSize = Remaining THEN <<cursor[1] + 1, 0>>
  ELSE <<cursor[1], cursor[2] + ChunkSize>>

(* The previous broadcast has completed (or there was none).               *)
Quiet == op.stage \in {"none", "complete"}

(* The chunk goes behind the others.                                       *)
SenderFill ==
  /\ ~Exhausted
  /\ offset + ChunkSize <= BucketSize
  /\ sbuf' = [sbuf EXCEPT ![sendBuf] = [p \in Positions |->
       IF p \in offset .. offset + ChunkSize - 1
         THEN <<cursor[1], cursor[2] + p - offset>> ELSE @[p]]]
  /\ meta' = Append(meta, [weight |-> cursor[1], chunkOffset |-> cursor[2],
                           chunkSize |-> ChunkSize, offset |-> offset])
  /\ offset' = offset + ChunkSize
  /\ cursor' = NextCursor
  /\ UNCHANGED <<size, sendBuf, lastSent, op, networkVars, receiverVars>>

StartBroadcast(last) ==
  op' = [stage |-> "started", buf |-> sendBuf,
         message |-> [meta |-> meta, last |-> last], waiting |-> Receivers]

(* It does not fit: when the previous broadcast is over, start one of this *)
(* bucket, and go on with the other buffer.                                *)
SenderFlush ==
  /\ ~Exhausted
  /\ offset + ChunkSize > BucketSize
  /\ Quiet
  /\ StartBroadcast(FALSE)
  /\ sendBuf' = Other(sendBuf)
  /\ meta' = <<>>
  /\ offset' = 0
  /\ UNCHANGED <<size, cursor, sbuf, lastSent, networkVars, receiverVars>>

SenderLast ==
  /\ Exhausted /\ ~lastSent
  /\ Quiet
  /\ StartBroadcast(TRUE)
  /\ lastSent' = TRUE
  /\ UNCHANGED <<size, cursor, sbuf, sendBuf, meta, offset, networkVars,
                 receiverVars>>

(* The executor's thread publishes the metadata (a subscription that has   *)
(* not arrived yet misses it), and enters the broadcast.                   *)
SenderPublish ==
  /\ op.stage = "started"
  /\ channel' = [r \in Receivers |->
       IF r \in subscribed THEN Append(channel[r], op.message) ELSE channel[r]]
  /\ op' = [op EXCEPT !.stage = "broadcasting"]
  /\ UNCHANGED <<size, cursor, sbuf, sendBuf, meta, offset, lastSent,
                 subscribed, receiverVars>>

SenderComplete ==
  /\ op.stage = "broadcasting"
  /\ op.waiting = {}
  /\ op' = [op EXCEPT !.stage = "complete"]
  /\ UNCHANGED <<size, cursor, sbuf, sendBuf, meta, offset, lastSent,
                 networkVars, receiverVars>>

Subscribe(r) ==
  /\ r \notin subscribed
  /\ subscribed' = subscribed \cup {r}
  /\ UNCHANGED <<size, senderVars, channel, receiverVars>>

-----------------------------------------------------------------------------
(* The receiver's thread: first the metadata, then the bytes.              *)
ReceiverMeta(r) ==
  /\ rop[r] = "meta"
  /\ channel[r] # <<>>
  /\ rmeta' = [rmeta EXCEPT ![r] = Head(channel[r])]
  /\ channel' = [channel EXCEPT ![r] = Tail(@)]
  /\ rop' = [rop EXCEPT ![r] = "bytes"]
  /\ UNCHANGED <<size, senderVars, subscribed, rbuf, recvBuf, yielding,
                 merging, copies, loaded>>

ReceiverBytes(r) ==
  /\ rop[r] = "bytes"
  /\ op.stage = "broadcasting" /\ r \in op.waiting
  /\ rbuf' = [rbuf EXCEPT ![r][recvBuf[r]] = sbuf[op.buf]]
  /\ op' = [op EXCEPT !.waiting = @ \ {r}]
  /\ rop' = [rop EXCEPT ![r] = "complete"]
  /\ UNCHANGED <<size, cursor, sbuf, sendBuf, meta, offset, lastSent,
                 networkVars, recvBuf, rmeta, yielding, merging, copies,
                 loaded>>

(* What merge_weight_chunks asserts of the next chunk, and view(shape) of a*)
(* whole weight.                                                           *)
MergeAccepts(r, c) ==
  IF size[c.weight] <= BucketSize
    THEN merging[r] = NoMerge /\ c.chunkSize = size[c.weight]
    ELSE \/ merging[r] = NoMerge /\ c.chunkOffset = 0
         \/ merging[r] = [weight |-> c.weight, offset |-> c.chunkOffset]

MergeAdvance(r, c) ==
  IF \/ size[c.weight] <= BucketSize
     \/ c.chunkOffset + c.chunkSize = size[c.weight]
    THEN NoMerge
    ELSE [weight |-> c.weight, offset |-> c.chunkOffset + c.chunkSize]

(* A chunk is yielded out of the other buffer, and its copy queued.        *)
ReceiverYield(r) ==
  /\ yielding[r] # <<>>
  /\ LET c == Head(yielding[r]) IN
       /\ MergeAccepts(r, c)
       /\ merging' = [merging EXCEPT ![r] = MergeAdvance(r, c)]
       /\ copies' = [copies EXCEPT ![r] =
            Append(@, [chunk |-> c, buf |-> Other(recvBuf[r])])]
  /\ yielding' = [yielding EXCEPT ![r] = Tail(@)]
  /\ UNCHANGED <<size, senderVars, networkVars, rbuf, recvBuf, rop, rmeta,
                 loaded>>

DeviceCopy(r) ==
  /\ copies[r] # <<>>
  /\ LET c == Head(copies[r]).chunk
         source == rbuf[r][Head(copies[r]).buf]
         target == loaded[r][c.weight]
         place == c.chunkOffset .. c.chunkOffset + c.chunkSize - 1
     IN  loaded' = [loaded EXCEPT ![r][c.weight] =
           [i \in DOMAIN target \cup place |->
              IF i \in place THEN source[c.offset + i - c.chunkOffset]
              ELSE target[i]]]
  /\ copies' = [copies EXCEPT ![r] = Tail(@)]
  /\ UNCHANGED <<size, senderVars, networkVars, rbuf, recvBuf, rop, rmeta,
                 yielding, merging>>

(* The broadcast is over and the previous bucket consumed: synchronize,    *)
(* swap, and unless this was the last bucket start the next broadcast      *)
(* before the chunks are yielded.                                          *)
ReceiverSwap(r) ==
  /\ rop[r] = "complete"
  /\ yielding[r] = <<>>
  /\ copies[r] = <<>>
  /\ recvBuf' = [recvBuf EXCEPT ![r] = Other(@)]
  /\ yielding' = [yielding EXCEPT ![r] = rmeta[r].meta]
  /\ rop' = [rop EXCEPT ![r] = IF rmeta[r].last THEN "none" ELSE "meta"]
  /\ rmeta' = [rmeta EXCEPT ![r] = EmptyMessage]
  /\ UNCHANGED <<size, senderVars, networkVars, rbuf, merging, copies, loaded>>

(* The last bucket is consumed.                                            *)
ReceiverEnd(r) ==
  /\ rop[r] = "none"
  /\ yielding[r] = <<>>
  /\ copies[r] = <<>>
  /\ rop' = [rop EXCEPT ![r] = "ended"]
  /\ UNCHANGED <<size, senderVars, networkVars, rbuf, recvBuf, rmeta, yielding,
                 merging, copies, loaded>>

Done(r) == rop[r] = "ended"

Sender ==
  SenderFill \/ SenderFlush \/ SenderLast \/ SenderPublish \/ SenderComplete

Receiver(r) ==
  \/ ReceiverMeta(r) \/ ReceiverBytes(r) \/ ReceiverYield(r)
  \/ DeviceCopy(r) \/ ReceiverSwap(r) \/ ReceiverEnd(r)

Next ==
  \/ Sender
  \/ \E r \in Receivers : Receiver(r) \/ Subscribe(r)

Spec == Init /\ [][Next]_vars

FairSpec ==
  Spec /\ WF_vars(Sender) /\ \A r \in Receivers : WF_vars(Receiver(r))

-----------------------------------------------------------------------------
TypeOK ==
  /\ size \in [Weights -> 1 .. MaxSize]
  /\ cursor \in (1 .. NumWeights + 1) \X (0 .. MaxSize)
  /\ sbuf \in [Buffers -> [Positions -> Byte \cup {Blank}]]
  /\ sendBuf \in Buffers
  /\ meta \in Seq(Chunk)
  /\ offset \in 0 .. BucketSize
  /\ lastSent \in BOOLEAN
  /\ op \in [stage : {"none", "started", "broadcasting", "complete"},
             buf : Buffers, message : Message, waiting : SUBSET Receivers]
  /\ subscribed \subseteq Receivers
  /\ channel \in [Receivers -> Seq(Message)]
  /\ rbuf \in [Receivers -> [Buffers -> [Positions -> Byte \cup {Blank}]]]
  /\ recvBuf \in [Receivers -> Buffers]
  /\ rop \in [Receivers -> {"meta", "bytes", "complete", "none", "ended"}]
  /\ rmeta \in [Receivers -> Message]
  /\ yielding \in [Receivers -> Seq(Chunk)]
  /\ merging \in [Receivers -> [weight : Weights \cup {NoWeight},
                                offset : 0 .. MaxSize]]
  /\ copies \in [Receivers -> Seq([chunk : Chunk, buf : Buffers])]

(* Every byte a receiver has of a weight is that byte of that weight:      *)
(* neither side overwrites a buffer that a broadcast or a copy still       *)
(* reads, however far the pipeline runs ahead                              *)
(* (nccl_checkpoint_engine.py:254-298, 340-368).                           *)
BytesInPlace ==
  \A r \in Receivers, w \in Weights :
    \A i \in DOMAIN loaded[r][w] : loaded[r][w][i] = <<w, i>>

(* No assertion of the transfer fails: a bucket holds one chunk of a       *)
(* weight at most (nccl_checkpoint_engine.py:278), and chunks arrive in    *)
(* the order in which merge_weight_chunks can put them together            *)
(* (base.py:560-585).                                                      *)
AssertionsHold ==
  /\ \A j, k \in 1 .. Len(meta) : meta[j].weight = meta[k].weight => j = k
  /\ \A r \in Receivers : yielding[r] # <<>> => MergeAccepts(r, Head(yielding[r]))

(* Every receiver loads every weight, those larger than a bucket put       *)
(* together from their chunks, and ends only with all of them, even if the *)
(* network loses metadata: WeightDelivery is implemented.                  *)
Intact(r) == {w \in Weights : loaded[r][w] = [i \in 0 .. size[w] - 1 |-> <<w, i>>]}

Delivery ==
  INSTANCE WeightDelivery WITH
    got <- [r \in Receivers |-> Intact(r)],
    finished <- {r \in Receivers : Done(r)}

ImplementsDelivery == Delivery!Spec

(* If every subscription is in place when the first metadata is published, *)
(* the pipeline never locks up: sender and receivers end                   *)
(* (nccl_checkpoint_engine.py:187-198, 254-298, 340-368).                  *)
InTime == op.stage \in {"none", "started"} \/ subscribed = Receivers

TransferEnds ==
  []InTime
    => <>(lastSent /\ op.stage = "complete" /\ \A r \in Receivers : Done(r))

=============================================================================
