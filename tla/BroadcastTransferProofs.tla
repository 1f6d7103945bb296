----------------------- MODULE BroadcastTransferProofs -----------------------
(***************************************************************************)
(* For any number of weights of any sizes, any bucket, any receivers and   *)
(* any interleaving of the sender, the receivers and their devices: every  *)
(* receiver loads every weight, byte by byte, and intact.                  *)
(*                                                                         *)
(* The inductive invariant sees the transfer as one stream of bytes, whose *)
(* places are pairs of a weight and an offset.  Chunks that follow each    *)
(* other form chains; backwards from the sender's cursor, the chunks of    *)
(* the bucket being filled, of the bucket being broadcast, of the one that *)
(* has arrived, those still to be yielded and those whose copies are       *)
(* queued make chains without a gap down to what is loaded.  And every     *)
(* buffer that will be read holds the bytes its chunks stand for, because  *)
(* nobody fills a buffer that a broadcast or a copy still reads.           *)
(***************************************************************************)
EXTENDS BroadcastTransfer, SequenceTheorems, TLAPS

Sizes == [Weights -> 1 .. MaxSize]
Least(i, j) == IF i < j THEN i ELSE j

(* Places in the stream of bytes: a weight, and how much of it has passed. *)
(* The inside of a weight is such a place only if it needs several chunks. *)
Cursors(sz) ==
  {c \in (1 .. NumWeights + 1) \X (0 .. MaxSize) :
     c[2] # 0 => c[1] \in Weights /\ c[2] < sz[c[1]] /\ sz[c[1]] > BucketSize}

Start(c) == <<c.weight, c.chunkOffset>>
After(sz, c) ==
  IF c.chunkOffset + c.chunkSize = sz[c.weight] THEN <<c.weight + 1, 0>>
  ELSE <<c.weight, c.chunkOffset + c.chunkSize>>

(* A chunk as split_weight_chunks cuts it, within its bucket.              *)
Cut(sz, c) ==
  /\ Start(c) \in Cursors(sz)
  /\ c.chunkSize = Least(sz[c.weight] - c.chunkOffset, BucketSize)
  /\ c.offset + c.chunkSize <= BucketSize

(* Chunks that follow each other in the stream, from one place to another. *)
Chain(sz, s, from, to) ==
  /\ \A j \in 1 .. Len(s) : Cut(sz, s[j])
  /\ \A j \in 1 .. Len(s) - 1 : After(sz, s[j]) = Start(s[j + 1])
  /\ IF s = <<>> THEN from = to
     ELSE from = Start(s[1]) /\ to = After(sz, s[Len(s)])

(* The bytes of a chunk, of chunks, are where the metadata says.           *)
HoldsChunk(buf, c) ==
  \A i \in 0 .. c.chunkSize - 1 : buf[c.offset + i] = <<c.weight, c.chunkOffset + i>>
Holds(buf, s) == \A j \in 1 .. Len(s) : HoldsChunk(buf, s[j])

Copy == [chunk : Chunk, buf : Buffers]
Chunks(q) == [j \in 1 .. Len(q) |-> q[j].chunk]

(* What is loaded when the copies have come to a place.                    *)
Amount(sz, a, w) == IF w < a[1] THEN sz[w] ELSE IF w = a[1] THEN a[2] ELSE 0
LoadedTo(sz, a) ==
  [w \in Weights |-> [i \in 0 .. Amount(sz, a, w) - 1 |-> <<w, i>>]]

(* Where merge_weight_chunks stands when the chunks have come to a place.  *)
MergeAt(m) == IF m[2] = 0 THEN NoMerge ELSE [weight |-> m[1], offset |-> m[2]]

(* The stream through a receiver, backwards: what is loaded, the queued    *)
(* copies, the chunks to be yielded, the bucket that has just arrived.     *)
Flow(sz, ld, queued, mg, left, arrived, mark) ==
  \E a, m, z \in Cursors(sz) :
    /\ ld = LoadedTo(sz, a)
    /\ Chain(sz, queued, a, m)
    /\ mg = MergeAt(m)
    /\ Chain(sz, left, m, z)
    /\ Chain(sz, arrived, z, mark)

-----------------------------------------------------------------------------
(* The inductive invariant.                                                *)

(* The bucket being filled holds what its metadata says, up to offset; a   *)
(* weight that is not cut to its end fills its bucket.                     *)
Filling ==
  /\ cursor \in Cursors(size)
  /\ Holds(sbuf[sendBuf], meta)
  /\ \A j \in 1 .. Len(meta) :
       /\ meta[j].offset + meta[j].chunkSize <= offset
       /\ \/ meta[j].weight < cursor[1]
          \/ meta[j].weight = cursor[1] /\ offset = BucketSize
  /\ \A j, k \in 1 .. Len(meta) : meta[j].weight = meta[k].weight => j = k
  /\ lastSent => Exhausted

(* The bucket on its way holds what its message says, and is not the one   *)
(* being filled.                                                           *)
Sending ==
  /\ Quiet => op.waiting = {}
  /\ op.stage = "none" => ~lastSent
  /\ op.message.last <=> lastSent
  /\ op.stage = "started" => op.waiting = Receivers
  /\ ~Quiet => Holds(sbuf[op.buf], op.message.meta)
  /\ ~Quiet /\ ~lastSent => op.buf # sendBuf

(* A receiver has at most the message of the present broadcast before it,  *)
(* and takes part in a broadcast only with its message in hand.            *)
Receiving(r) ==
  /\ \/ channel[r] = <<>>
     \/ /\ channel[r] = <<op.message>>
        /\ op.stage = "broadcasting" /\ r \in op.waiting /\ rop[r] # "bytes"
  /\ rop[r] = "bytes" =>
       rmeta[r] = op.message /\ op.stage = "broadcasting" /\ r \in op.waiting
  /\ rop[r] \in {"meta", "none", "ended"} => rmeta[r] = EmptyMessage
  /\ rop[r] \in {"none", "ended"} \/ (rop[r] = "complete" /\ rmeta[r].last)
       => lastSent /\ r \notin op.waiting
  /\ rop[r] = "ended" => yielding[r] = <<>> /\ copies[r] = <<>>

(* Both buffers of a receiver hold what will be read from them.            *)
Consuming(r) ==
  /\ rop[r] = "complete" => Holds(rbuf[r][recvBuf[r]], rmeta[r].meta)
  /\ \A j \in 1 .. Len(copies[r]) : copies[r][j].buf = Other(recvBuf[r])
  /\ Holds(rbuf[r][Other(recvBuf[r])], Chunks(copies[r]))
  /\ Holds(rbuf[r][Other(recvBuf[r])], yielding[r])

(* The broadcast carries the stream from b to e; each receiver stands at   *)
(* one of the two.                                                         *)
Mark(r, b, e) == IF r \in op.waiting /\ rop[r] # "bytes" THEN b ELSE e
FlowOf(r, mark) ==
  Flow(size, loaded[r], Chunks(copies[r]), merging[r], yielding[r],
       rmeta[r].meta, mark)

Between(b, e) ==
  /\ Chain(size, op.message.meta, b, e)
  /\ IF lastSent THEN e = cursor ELSE Chain(size, meta, e, cursor)
  /\ \A r \in Receivers : FlowOf(r, Mark(r, b, e))

Pipeline ==
  /\ DOMAIN loaded = Receivers
  /\ \E b, e \in Cursors(size) : Between(b, e)

IInv ==
  /\ TypeOK /\ Filling /\ Sending /\ Pipeline
  /\ \A r \in Receivers : Receiving(r) /\ Consuming(r)

-----------------------------------------------------------------------------
(* The constants as numbers.                                               *)
LEMMA Numbers ==
  NumWeights \in Nat /\ BucketSize \in Nat /\ BucketSize > 0 /\ MaxSize \in Nat /\ MaxSize > 0
BY NumAssumption, BucketAssumption, SizeAssumption

(* The fields of a chunk as numbers.                                       *)
LEMMA ChunkNumbers ==
  ASSUME NEW sz \in Sizes, NEW c \in Chunk
  PROVE  /\ c.weight \in Weights /\ c.weight \in Nat /\ c.weight >= 1 /\ c.weight <= NumWeights
         /\ c.chunkOffset \in Nat /\ c.chunkOffset <= MaxSize
         /\ c.chunkSize \in Nat /\ c.chunkSize >= 1 /\ c.chunkSize <= BucketSize
         /\ c.offset \in Nat /\ c.offset < BucketSize
         /\ sz[c.weight] \in Nat /\ sz[c.weight] >= 1 /\ sz[c.weight] <= MaxSize
BY Numbers DEF Chunk, Positions, Weights, Sizes

LEMMA ChunkShape ==
  ASSUME NEW c \in Chunk
  PROVE  c.offset \in Nat /\ c.chunkSize \in Nat
BY Numbers DEF Chunk, Positions

(* A byte of a chunk lies before what follows the chunk.                   *)
LEMMA InsideBefore ==
  ASSUME NEW o \in Nat, NEW k \in Nat, NEW b \in Nat, o + k <= b, NEW n \in 0 .. k - 1
  PROVE  o + n \in Nat /\ o + n < b
OBVIOUS

(* A cut chunk ends in a place of the stream; if it leaves its weight      *)
(* unfinished, it fills a bucket.                                          *)
LEMMA AfterCut ==
  ASSUME NEW sz \in Sizes, NEW c \in Chunk, Cut(sz, c)
  PROVE  /\ After(sz, c) \in Cursors(sz)
         /\ c.chunkOffset + c.chunkSize <= sz[c.weight]
         /\ After(sz, c)[1] = c.weight => c.chunkSize = BucketSize
         /\ c.weight <= After(sz, c)[1] /\ After(sz, c)[1] <= c.weight + 1
<1>1. /\ c.chunkSize = IF sz[c.weight] - c.chunkOffset < BucketSize
                         THEN sz[c.weight] - c.chunkOffset ELSE BucketSize
      /\ c.chunkOffset # 0 => c.chunkOffset < sz[c.weight] /\ sz[c.weight] > BucketSize
  BY DEF Cut, Start, Cursors, Least
<1>2. CASE c.chunkOffset + c.chunkSize = sz[c.weight]
  <2>1. After(sz, c) = <<c.weight + 1, 0>>
    BY <1>2 DEF After
  <2>2. After(sz, c) \in Cursors(sz)
    BY <2>1, ChunkNumbers, Numbers DEF Cursors
  <2> QED
    BY <1>2, <2>1, <2>2, ChunkNumbers
<1>3. CASE c.chunkOffset + c.chunkSize # sz[c.weight]
  <2>1. After(sz, c) = <<c.weight, c.chunkOffset + c.chunkSize>>
    BY <1>3 DEF After
  <2>2. /\ c.chunkSize = BucketSize /\ c.chunkOffset + c.chunkSize < sz[c.weight]
        /\ c.chunkOffset + c.chunkSize \in Nat /\ c.chunkOffset + c.chunkSize # 0
        /\ sz[c.weight] > BucketSize /\ c.chunkOffset + c.chunkSize <= MaxSize
    BY <1>1, <1>3, ChunkNumbers, Numbers
  <2>3. After(sz, c) \in Cursors(sz)
    BY <2>1, <2>2, ChunkNumbers, Numbers DEF Cursors
  <2> QED
    BY <2>1, <2>2, <2>3, ChunkNumbers
<1> QED
  BY <1>2, <1>3

(* No chunks lead nowhere.                                                 *)
LEMMA ChainEmpty ==
  ASSUME NEW sz, NEW a PROVE Chain(sz, <<>>, a, a)
BY DEF Chain

(* A chain grows at its end by the chunk that begins there.                *)
LEMMA ChainAppend ==
  ASSUME NEW sz, NEW s \in Seq(Chunk), NEW a, NEW b, Chain(sz, s, a, b),
         NEW c \in Chunk, Cut(sz, c), Start(c) = b
  PROVE  Chain(sz, Append(s, c), a, After(sz, c))
<1> DEFINE t == Append(s, c)
<1>1. /\ t \in Seq(Chunk) /\ Len(t) = Len(s) + 1 /\ t[Len(s) + 1] = c /\ Len(s) \in Nat
      /\ \A j \in 1 .. Len(s) : t[j] = s[j]
  OBVIOUS
<1>2. t # <<>>
  BY <1>1
<1> HIDE DEF t
<1>3. \A j \in 1 .. Len(t) : Cut(sz, t[j])
  BY <1>1 DEF Chain
<1>4. ASSUME NEW j \in 1 .. Len(t) - 1 PROVE After(sz, t[j]) = Start(t[j + 1])
  <2>1. CASE j < Len(s)
    <3>1. j \in 1 .. Len(s) - 1 /\ j + 1 \in 1 .. Len(s)
      BY <1>1, <2>1
    <3>2. After(sz, s[j]) = Start(s[j + 1])
      BY <3>1 DEF Chain
    <3> QED
      BY <1>1, <3>1, <3>2
  <2>2. CASE j = Len(s)
    <3>1. s # <<>>
      BY <1>1, <2>2
    <3>2. After(sz, s[j]) = b
      BY <2>2, <3>1 DEF Chain
    <3> QED
      BY <1>1, <2>2, <3>2
  <2> QED
    BY <1>1, <2>1, <2>2
<1>5. a = Start(t[1])
  <2>1. CASE s = <<>>
    BY <1>1, <2>1 DEF Chain
  <2>2. CASE s # <<>>
    <3>1. 1 \in 1 .. Len(s)
      BY <2>2
    <3> QED
      BY <1>1, <2>2, <3>1 DEF Chain
  <2> QED
    BY <2>1, <2>2
<1>6. Chain(sz, t, a, After(sz, c))
  BY <1>1, <1>2, <1>3, <1>4, <1>5 DEF Chain
<1> QED
  BY <1>6 DEF t

(* A chain without its first chunk begins where that chunk ends.           *)
LEMMA ChainTail ==
  ASSUME NEW sz, NEW s \in Seq(Chunk), s # <<>>, NEW a, NEW b, Chain(sz, s, a, b)
  PROVE  /\ Head(s) \in Chunk /\ Cut(sz, Head(s)) /\ a = Start(Head(s))
         /\ Tail(s) \in Seq(Chunk)
         /\ Chain(sz, Tail(s), After(sz, Head(s)), b)
<1> DEFINE t == Tail(s)
<1>1. /\ t \in Seq(Chunk) /\ Len(t) = Len(s) - 1 /\ Len(s) \in Nat /\ Len(s) >= 1
      /\ \A j \in 1 .. Len(s) - 1 : t[j] = s[j + 1]
      /\ Head(s) = s[1] /\ s[1] \in Chunk
  OBVIOUS
<1> HIDE DEF t
<1>2. t = <<>> <=> Len(s) = 1
  <2>1. t = <<>> <=> Len(t) = 0
    BY <1>1
  <2> QED
    BY <1>1, <2>1
<1>3. Cut(sz, s[1]) /\ a = Start(s[1])
  BY <1>1 DEF Chain
<1>4. ASSUME NEW j \in 1 .. Len(t) PROVE Cut(sz, t[j])
  <2>1. j + 1 \in 1 .. Len(s) /\ t[j] = s[j + 1]
    BY <1>1
  <2> QED
    BY <2>1 DEF Chain
<1>5. ASSUME NEW j \in 1 .. Len(t) - 1 PROVE After(sz, t[j]) = Start(t[j + 1])
  <2>1. j + 1 \in 1 .. Len(s) - 1 /\ t[j] = s[j + 1] /\ t[j + 1] = s[(j + 1) + 1]
    BY <1>1
  <2> QED
    BY <2>1 DEF Chain
<1>6. IF t = <<>> THEN After(sz, s[1]) = b ELSE After(sz, s[1]) = Start(t[1]) /\ b = After(sz, t[Len(t)])
  <2>1. CASE t = <<>>
    BY <1>1, <1>2, <2>1 DEF Chain
  <2>2. CASE t # <<>>
    <3>1. 1 \in 1 .. Len(s) - 1 /\ t[1] = s[2] /\ t[Len(t)] = s[Len(s)] /\ 1 + 1 = 2
      BY <1>1, <1>2, <2>2
    <3>2. After(sz, s[1]) = Start(s[1 + 1])
      BY <3>1 DEF Chain
    <3>3. b = After(sz, s[Len(s)])
      BY DEF Chain
    <3> QED
      BY <2>2, <3>1, <3>2, <3>3
  <2> QED
    BY <2>1, <2>2
<1>7. Chain(sz, t, After(sz, s[1]), b)
  BY <1>4, <1>5, <1>6 DEF Chain
<1> QED
  BY <1>1, <1>3, <1>7 DEF t

(* The chunks of the queued copies.                                        *)
LEMMA ChunksSeq ==
  ASSUME NEW q \in Seq(Copy)
  PROVE  Chunks(q) \in Seq(Chunk) /\ Len(Chunks(q)) = Len(q)
<1>1. ASSUME NEW j \in 1 .. Len(q) PROVE q[j].chunk \in Chunk
  <2>1. q[j] \in Copy
    OBVIOUS
  <2> QED
    BY <2>1 DEF Copy
<1> QED
  BY <1>1, IsASeq DEF Chunks

(* A copy queued last has its chunk last.                                  *)
LEMMA ChunksAppend ==
  ASSUME NEW q \in Seq(Copy), NEW c \in Chunk, NEW b \in Buffers
  PROVE  Chunks(Append(q, [chunk |-> c, buf |-> b])) = Append(Chunks(q), c)
<1> DEFINE copy == [chunk |-> c, buf |-> b]
           long == Append(q, copy)
<1>0. copy \in Copy /\ copy.chunk = c
  BY DEF Copy
<1> HIDE DEF copy
<1>1. /\ long \in Seq(Copy) /\ Len(long) = Len(q) + 1 /\ Len(q) \in Nat
      /\ long[Len(q) + 1].chunk = c
      /\ \A j \in 1 .. Len(q) : long[j] = q[j]
  BY <1>0
<1> HIDE DEF long
<1> DEFINE left == Chunks(long)
           right == Append(Chunks(q), c)
<1>2. left \in Seq(Chunk) /\ Len(left) = Len(q) + 1
      /\ \A j \in 1 .. Len(q) + 1 : left[j] = long[j].chunk
  BY <1>1, ChunksSeq DEF Chunks
<1>3. Chunks(q) \in Seq(Chunk) /\ Len(Chunks(q)) = Len(q)
      /\ \A j \in 1 .. Len(q) : Chunks(q)[j] = q[j].chunk
  BY ChunksSeq DEF Chunks
<1>4. right \in Seq(Chunk) /\ Len(right) = Len(q) + 1 /\ right[Len(q) + 1] = c
      /\ \A j \in 1 .. Len(q) : right[j] = q[j].chunk
  BY <1>3
<1> HIDE DEF left, right
<1>5. \A j \in 1 .. Len(q) + 1 : left[j] = right[j]
  BY <1>1, <1>2, <1>4
<1>6. left = right
  BY <1>2, <1>4, <1>5, SeqEqual
<1> QED
  BY <1>6 DEF left, right, long, copy

(* The copy that takes place first has the first chunk.                    *)
LEMMA ChunksTail ==
  ASSUME NEW q \in Seq(Copy), q # <<>>
  PROVE  /\ Chunks(q) # <<>> /\ Head(Chunks(q)) = Head(q).chunk
         /\ Chunks(Tail(q)) = Tail(Chunks(q))
<1> DEFINE rest == Tail(q)
<1>1. /\ rest \in Seq(Copy) /\ Len(rest) = Len(q) - 1
      /\ Len(q) \in Nat /\ Len(q) >= 1 /\ Head(q) = q[1]
      /\ \A j \in 1 .. Len(q) - 1 : rest[j] = q[j + 1]
  OBVIOUS
<1> HIDE DEF rest
<1>2. Chunks(q) \in Seq(Chunk) /\ Len(Chunks(q)) = Len(q)
      /\ \A j \in 1 .. Len(q) : Chunks(q)[j] = q[j].chunk
  BY ChunksSeq DEF Chunks
<1>3. Chunks(q) # <<>> /\ Head(Chunks(q)) = Head(q).chunk
  BY <1>1, <1>2
<1> DEFINE left == Chunks(rest)
           right == Tail(Chunks(q))
<1>4. left \in Seq(Chunk) /\ Len(left) = Len(q) - 1
      /\ \A j \in 1 .. Len(q) - 1 : left[j] = rest[j].chunk
  BY <1>1, ChunksSeq DEF Chunks
<1>5. right \in Seq(Chunk) /\ Len(right) = Len(q) - 1
      /\ \A j \in 1 .. Len(q) - 1 : right[j] = q[j + 1].chunk
  BY <1>1, <1>2, <1>3
<1> HIDE DEF left, right
<1>6. left = right
  <2>1. \A j \in 1 .. Len(left) : left[j] = right[j]
    BY <1>1, <1>4, <1>5
  <2> QED
    BY <1>4, <1>5, <2>1, SeqEqual
<1> QED
  BY <1>3, <1>6 DEF left, right, rest

(* A place in the stream is inside a weight, or behind the last.           *)
LEMMA CursorNumbers ==
  ASSUME NEW sz \in Sizes, NEW a \in Cursors(sz)
  PROVE  /\ a = <<a[1], a[2]>> /\ a[1] \in Nat /\ a[1] >= 1 /\ a[1] <= NumWeights + 1
         /\ a[2] \in Nat /\ a[2] <= MaxSize
         /\ a[1] <= NumWeights => /\ a[1] \in Weights /\ sz[a[1]] \in Nat /\ sz[a[1]] <= MaxSize
                                  /\ a[2] < sz[a[1]]
         /\ a[1] > NumWeights => a = <<NumWeights + 1, 0>>
<1>1. a \in (1 .. NumWeights + 1) \X (0 .. MaxSize)
  BY DEF Cursors
<1>2. a = <<a[1], a[2]>> /\ a[1] \in 1 .. NumWeights + 1 /\ a[2] \in 0 .. MaxSize
  BY <1>1
<1>3. a[2] # 0 => a[1] \in Weights /\ a[2] < sz[a[1]]
  BY DEF Cursors
<1>4. a[1] <= NumWeights => a[1] \in Weights /\ sz[a[1]] \in 1 .. MaxSize
  BY <1>2, Numbers DEF Weights, Sizes
<1>5. a[1] > NumWeights => a[1] = NumWeights + 1 /\ a[2] = 0
  BY <1>2, <1>3, Numbers DEF Weights
<1> QED
  BY <1>2, <1>3, <1>4, <1>5, Numbers

(* The stream begins with the first byte of the first weight.              *)
LEMMA FirstCursor ==
  ASSUME NEW sz \in Sizes PROVE <<1, 0>> \in Cursors(sz)
BY Numbers DEF Cursors

(* The chunk that split_weight_chunks yields, if it fits.                  *)
LEMMA NextChunk ==
  ASSUME size \in Sizes, cursor \in Cursors(size), ~Exhausted,
         offset \in 0 .. BucketSize, offset + ChunkSize <= BucketSize,
         NEW c, c = [weight |-> cursor[1], chunkOffset |-> cursor[2],
                     chunkSize |-> ChunkSize, offset |-> offset]
  PROVE  /\ c \in Chunk /\ Cut(size, c) /\ Start(c) = cursor
         /\ After(size, c) = NextCursor
<1>1. /\ cursor = <<cursor[1], cursor[2]>> /\ cursor[1] \in Weights
      /\ cursor[2] \in Nat /\ cursor[2] < size[cursor[1]] /\ cursor[2] <= MaxSize
      /\ size[cursor[1]] \in Nat
  BY CursorNumbers, Numbers DEF Exhausted
<1>2. ChunkSize \in 1 .. BucketSize /\ ChunkSize = Least(size[cursor[1]] - cursor[2], BucketSize)
  BY <1>1, Numbers DEF ChunkSize, Remaining, Least
<1>3. /\ c.weight = cursor[1] /\ c.chunkOffset = cursor[2] /\ c.chunkSize = ChunkSize
      /\ c.offset = offset
  OBVIOUS
<1>4. offset \in Positions
  BY <1>2, Numbers DEF Positions
<1>5. c \in Chunk
  BY <1>1, <1>2, <1>4, Numbers DEF Chunk
<1>6. Start(c) = cursor
  BY <1>1, <1>3 DEF Start
<1>7. Cut(size, c)
  BY <1>2, <1>3, <1>6 DEF Cut
<1>8. ChunkSize = Remaining <=> cursor[2] + ChunkSize = size[cursor[1]]
  BY <1>1, <1>2 DEF Remaining
<1>9. After(size, c) = NextCursor
  BY <1>3, <1>8 DEF After, NextCursor
<1> QED
  BY <1>5, <1>6, <1>7, <1>9

(* merge_weight_chunks accepts the chunk that begins where it stands.      *)
LEMMA MergeStep ==
  ASSUME size \in Sizes, NEW r, NEW c \in Chunk, Cut(size, c),
         merging[r] = MergeAt(Start(c))
  PROVE  MergeAccepts(r, c) /\ MergeAdvance(r, c) = MergeAt(After(size, c))
<1> DEFINE n == size[c.weight]
<1>1. /\ c.chunkSize = Least(n - c.chunkOffset, BucketSize)
      /\ c.chunkOffset # 0 => c.chunkOffset < n /\ n > BucketSize
  BY DEF Cut, Start, Cursors
<1>2. /\ c.chunkOffset \in Nat /\ c.chunkSize \in Nat /\ c.chunkSize >= 1 /\ n \in Nat /\ n >= 1
      /\ c.weight \in Nat /\ BucketSize \in Nat
  BY ChunkNumbers, Numbers
<1>3. merging[r] = IF c.chunkOffset = 0 THEN NoMerge
                   ELSE [weight |-> c.weight, offset |-> c.chunkOffset]
  BY DEF MergeAt, Start
<1>4. CASE n <= BucketSize
  <2>1. c.chunkOffset = 0 /\ c.chunkSize = n
    BY <1>1, <1>2, <1>4 DEF Least
  <2>2. After(size, c) = <<c.weight + 1, 0>>
    BY <1>2, <2>1 DEF After
  <2> QED
    BY <1>3, <1>4, <2>1, <2>2 DEF MergeAccepts, MergeAdvance, MergeAt
<1>5. CASE n > BucketSize
  <2>1. ~(n <= BucketSize)
    BY <1>2, <1>5
  <2>2. MergeAccepts(r, c)
    BY <1>3, <2>1 DEF MergeAccepts
  <2>3. CASE c.chunkOffset + c.chunkSize = n
    BY <2>2, <2>3 DEF MergeAdvance, MergeAt, After
  <2>4. CASE c.chunkOffset + c.chunkSize # n
    <3>1. c.chunkOffset + c.chunkSize # 0
      BY <1>2
    <3>2. After(size, c) = <<c.weight, c.chunkOffset + c.chunkSize>>
      BY <2>4 DEF After
    <3> QED
      BY <2>1, <2>2, <2>4, <3>1, <3>2 DEF MergeAdvance, MergeAt
  <2> QED
    BY <2>3, <2>4
<1> QED
  BY <1>2, <1>4, <1>5

(* The copy of a chunk brings what is loaded to the end of the chunk.      *)
LEMMA LoadStep ==
  ASSUME NEW sz \in Sizes, NEW c \in Chunk, Cut(sz, c), NEW w \in Weights
  PROVE  /\ Amount(sz, Start(c), w) \in Nat /\ Amount(sz, After(sz, c), w) \in Nat
         /\ w # c.weight => Amount(sz, After(sz, c), w) = Amount(sz, Start(c), w)
         /\ w = c.weight => /\ Amount(sz, Start(c), w) = c.chunkOffset
                            /\ Amount(sz, After(sz, c), w) = c.chunkOffset + c.chunkSize
<1>1. /\ w \in Nat /\ sz[w] \in Nat /\ c.weight \in Nat /\ c.chunkOffset \in Nat
      /\ c.chunkSize \in Nat
  BY ChunkNumbers, Numbers DEF Weights, Sizes
<1>2. CASE c.chunkOffset + c.chunkSize = sz[c.weight]
  BY <1>1, <1>2 DEF Amount, After, Start
<1>3. CASE c.chunkOffset + c.chunkSize # sz[c.weight]
  BY <1>1, <1>3 DEF Amount, After, Start
<1> QED
  BY <1>2, <1>3

(* The function a copy makes of what was loaded up to its chunk is what is *)
(* loaded up to the end of the chunk.                                      *)
LEMMA LoadedCopy ==
  ASSUME NEW sz \in Sizes, NEW c \in Chunk, Cut(sz, c), NEW source, HoldsChunk(source, c),
         NEW ld, ld = LoadedTo(sz, Start(c)),
         NEW place, place = c.chunkOffset .. c.chunkOffset + c.chunkSize - 1
  PROVE  [ld EXCEPT ![c.weight] =
            [i \in DOMAIN ld[c.weight] \cup place |->
               IF i \in place THEN source[c.offset + i - c.chunkOffset]
               ELSE ld[c.weight][i]]] = LoadedTo(sz, After(sz, c))
<1> DEFINE old(w) == [i \in 0 .. Amount(sz, Start(c), w) - 1 |-> <<w, i>>]
           more(w) == Amount(sz, After(sz, c), w)
           new(w) == [i \in 0 .. more(w) - 1 |-> <<w, i>>]
           target == [i \in DOMAIN ld[c.weight] \cup place |->
                        IF i \in place THEN source[c.offset + i - c.chunkOffset]
                        ELSE ld[c.weight][i]]
<1>1. c.weight \in Weights /\ c.chunkOffset \in Nat /\ c.chunkSize \in Nat /\ c.offset \in Nat
  BY ChunkNumbers
<1>2. ld = [w \in Weights |-> old(w)]
  BY DEF LoadedTo
<1>3. /\ Amount(sz, Start(c), c.weight) = c.chunkOffset
      /\ Amount(sz, After(sz, c), c.weight) = c.chunkOffset + c.chunkSize
  BY <1>1, LoadStep
<1>4. ld[c.weight] = [i \in 0 .. c.chunkOffset - 1 |-> <<c.weight, i>>]
  BY <1>1, <1>2, <1>3
<1>5. more(c.weight) = c.chunkOffset + c.chunkSize
  BY <1>3
<1> HIDE DEF more
<1>6. DOMAIN ld[c.weight] \cup place = 0 .. c.chunkOffset + c.chunkSize - 1
  BY <1>1, <1>4
<1>7. ASSUME NEW i \in 0 .. c.chunkOffset + c.chunkSize - 1
      PROVE  (IF i \in place THEN source[c.offset + i - c.chunkOffset]
              ELSE ld[c.weight][i]) = <<c.weight, i>>
  <2>1. CASE i \in place
    <3> DEFINE k == i - c.chunkOffset
    <3>1. /\ k \in 0 .. c.chunkSize - 1 /\ c.chunkOffset + k = i
          /\ c.offset + i - c.chunkOffset = c.offset + k
      BY <1>1, <2>1
    <3> HIDE DEF k
    <3>2. source[c.offset + k] = <<c.weight, c.chunkOffset + k>>
      BY <3>1 DEF HoldsChunk
    <3> QED
      BY <2>1, <3>1, <3>2
  <2>2. CASE i \notin place
    <3>1. i \in 0 .. c.chunkOffset - 1
      BY <1>1, <2>2
    <3> QED
      BY <1>4, <2>2, <3>1
  <2> QED
    BY <2>1, <2>2
<1>8. target = new(c.weight)
  <2> DEFINE all == 0 .. c.chunkOffset + c.chunkSize - 1
  <2>1. 0 .. more(c.weight) - 1 = all
    BY <1>1, <1>5
  <2>2. DOMAIN ld[c.weight] \cup place = all
    BY <1>6
  <2>3. \A i \in all : (IF i \in place THEN source[c.offset + i - c.chunkOffset]
                         ELSE ld[c.weight][i]) = <<c.weight, i>>
    BY <1>7
  <2> HIDE DEF all
  <2>4. new(c.weight) = [i \in all |-> <<c.weight, i>>]
    BY <2>1, Zenon
  <2>5. target = [i \in all |-> IF i \in place THEN source[c.offset + i - c.chunkOffset]
                                ELSE ld[c.weight][i]]
    BY <2>2, Zenon
  <2> HIDE DEF target, new
  <2> QED
    BY <2>3, <2>4, <2>5
<1>9. ASSUME NEW w \in Weights
      PROVE  [ld EXCEPT ![c.weight] = target][w] = new(w)
  <2>1. CASE w = c.weight
    BY <1>1, <1>2, <1>8, <2>1
  <2>2. CASE w # c.weight
    <3>1. more(w) = Amount(sz, Start(c), w)
      BY <2>2, LoadStep DEF more
    <3>2. [ld EXCEPT ![c.weight] = target][w] = old(w)
      BY <1>2, <2>2
    <3> QED
      BY <3>1, <3>2
  <2> QED
    BY <2>1, <2>2
<1> HIDE DEF target, new
<1>10. [ld EXCEPT ![c.weight] = target] = [w \in Weights |-> new(w)]
  BY <1>2, <1>9
<1> QED
  BY <1>10 DEF target, new, more, LoadedTo

(* Nothing is loaded at the beginning of the stream.                       *)
LEMMA LoadedNothing ==
  ASSUME NEW sz \in Sizes
  PROVE  LoadedTo(sz, <<1, 0>>) = [w \in Weights |-> [i \in {} |-> Blank]]
<1>1. ASSUME NEW w \in Weights
      PROVE  [i \in 0 .. Amount(sz, <<1, 0>>, w) - 1 |-> <<w, i>>] = [i \in {} |-> Blank]
  <2>1. Amount(sz, <<1, 0>>, w) = 0
    BY Numbers DEF Amount, Weights
  <2>2. 0 .. Amount(sz, <<1, 0>>, w) - 1 = {}
    BY <2>1
  <2> QED
    BY <2>2
<1> QED
  BY <1>1 DEF LoadedTo

(* The weights that are complete are those the place has left behind.      *)
LEMMA LoadedWhole ==
  ASSUME NEW sz \in Sizes, NEW a \in Cursors(sz), NEW w \in Weights
  PROVE  /\ LoadedTo(sz, a)[w] = [i \in 0 .. sz[w] - 1 |-> <<w, i>>] <=> w < a[1]
         /\ \A i \in DOMAIN LoadedTo(sz, a)[w] : LoadedTo(sz, a)[w][i] = <<w, i>>
<1> DEFINE k == Amount(sz, a, w)
           have == [i \in 0 .. k - 1 |-> <<w, i>>]
           whole == [i \in 0 .. sz[w] - 1 |-> <<w, i>>]
<1>1. LoadedTo(sz, a)[w] = have
  BY DEF LoadedTo
<1>2. w \in Nat /\ sz[w] \in Nat /\ sz[w] >= 1 /\ w <= NumWeights
  BY Numbers DEF Weights, Sizes
<1>3. k \in Nat /\ (k = sz[w] <=> w < a[1]) /\ k <= sz[w]
  <2>1. w = a[1] => a[2] \in Nat /\ a[2] < sz[w]
    BY <1>2, CursorNumbers
  <2> QED
    BY <1>2, <2>1, CursorNumbers DEF Amount
<1> HIDE DEF k
<1>4. CASE k = sz[w]
  BY <1>1, <1>3, <1>4
<1>5. CASE k # sz[w]
  <2>1. sz[w] - 1 \in 0 .. sz[w] - 1 /\ sz[w] - 1 \notin 0 .. k - 1
    BY <1>2, <1>3, <1>5
  <2>2. DOMAIN have = 0 .. k - 1 /\ DOMAIN whole = 0 .. sz[w] - 1
    OBVIOUS
  <2>3. have # whole
    BY <2>1, <2>2
  <2> QED
    BY <1>1, <1>3, <1>5, <2>3
<1> QED
  BY <1>4, <1>5

(* A bucket without chunks holds what it should.                           *)
LEMMA HoldsEmpty == ASSUME NEW buf PROVE Holds(buf, <<>>)
BY DEF Holds

(* A bucket that holds chunks and one more holds them all.                 *)
LEMMA HoldsAppend ==
  ASSUME NEW buf, NEW s \in Seq(Chunk), NEW c \in Chunk, Holds(buf, s), HoldsChunk(buf, c)
  PROVE  Holds(buf, Append(s, c))
<1> DEFINE t == Append(s, c)
<1>1. /\ Len(t) = Len(s) + 1 /\ t[Len(s) + 1] = c /\ Len(s) \in Nat
      /\ \A j \in 1 .. Len(s) : t[j] = s[j]
  OBVIOUS
<1> HIDE DEF t
<1>2. ASSUME NEW j \in 1 .. Len(t) PROVE HoldsChunk(buf, t[j])
  <2>1. CASE j = Len(s) + 1
    BY <1>1, <2>1
  <2>2. CASE j # Len(s) + 1
    BY <1>1, <2>2 DEF Holds
  <2> QED
    BY <2>1, <2>2
<1> QED
  BY <1>2 DEF Holds, t

(* A bucket that holds chunks holds the first and the rest.                *)
LEMMA HoldsTail ==
  ASSUME NEW buf, NEW s \in Seq(Chunk), s # <<>>, Holds(buf, s)
  PROVE  HoldsChunk(buf, Head(s)) /\ Holds(buf, Tail(s))
<1> DEFINE t == Tail(s)
<1>1. /\ Len(t) = Len(s) - 1 /\ Len(s) \in Nat /\ Len(s) >= 1 /\ Head(s) = s[1]
      /\ \A j \in 1 .. Len(s) - 1 : t[j] = s[j + 1]
  OBVIOUS
<1> HIDE DEF t
<1>2. ASSUME NEW j \in 1 .. Len(t) PROVE HoldsChunk(buf, t[j])
  <2>1. j + 1 \in 1 .. Len(s) /\ t[j] = s[j + 1]
    BY <1>1
  <2> QED
    BY <2>1 DEF Holds
<1>3. HoldsChunk(buf, s[1])
  BY <1>1 DEF Holds
<1> QED
  BY <1>1, <1>2, <1>3 DEF Holds, t

(* A chunk put behind the others disturbs none of them.                    *)
LEMMA HoldsFill ==
  ASSUME NEW buf, NEW s \in Seq(Chunk), NEW c \in Chunk, NEW full, Holds(buf, s),
         c.offset + c.chunkSize <= BucketSize,
         \A j \in 1 .. Len(s) : s[j].offset + s[j].chunkSize <= c.offset,
         full = [p \in Positions |->
                   IF p \in c.offset .. c.offset + c.chunkSize - 1
                     THEN <<c.weight, c.chunkOffset + p - c.offset>> ELSE buf[p]]
  PROVE  Holds(full, Append(s, c))
<1>1. /\ c.offset \in Nat /\ c.chunkSize \in Nat /\ c.chunkOffset \in Nat /\ BucketSize \in Nat
  BY Numbers DEF Chunk, Positions
<1>2. ASSUME NEW i \in 0 .. c.chunkSize - 1
      PROVE  full[c.offset + i] = <<c.weight, c.chunkOffset + i>>
  <2> DEFINE p == c.offset + i
  <2>1. /\ p \in Positions /\ p \in c.offset .. c.offset + c.chunkSize - 1
        /\ c.chunkOffset + p - c.offset = c.chunkOffset + i
    BY <1>1 DEF Positions
  <2> HIDE DEF p
  <2>2. full[p] = <<c.weight, c.chunkOffset + p - c.offset>>
    BY <2>1
  <2> QED
    BY <2>1, <2>2 DEF p
<1>3. ASSUME NEW j \in 1 .. Len(s) PROVE HoldsChunk(full, s[j])
  <2>1. s[j] \in Chunk
    OBVIOUS
  <2>2. s[j].offset \in Nat /\ s[j].chunkSize \in Nat /\ s[j].offset + s[j].chunkSize <= c.offset
    <3>1. s[j].offset \in Nat /\ s[j].chunkSize \in Nat
      BY <2>1, ChunkShape
    <3>2. s[j].offset + s[j].chunkSize <= c.offset
      OBVIOUS
    <3> QED
      BY <3>1, <3>2
  <2>3. ASSUME NEW i \in 0 .. s[j].chunkSize - 1
        PROVE  full[s[j].offset + i] = <<s[j].weight, s[j].chunkOffset + i>>
    <3>1. buf[s[j].offset + i] = <<s[j].weight, s[j].chunkOffset + i>>
      BY DEF Holds, HoldsChunk
    <3> DEFINE p == s[j].offset + i
    <3>2. p \in Nat /\ p < c.offset
      BY <1>1, <2>2, InsideBefore
    <3> HIDE DEF p
    <3>3. p \in Positions /\ p \notin c.offset .. c.offset + c.chunkSize - 1
      BY <1>1, <3>2 DEF Positions
    <3>4. full[p] = buf[p]
      BY <3>3
    <3> QED
      BY <3>1, <3>4 DEF p
  <2> QED
    BY <2>3 DEF HoldsChunk
<1>4. Holds(full, s)
  BY <1>3 DEF Holds
<1> QED
  BY <1>2, <1>4, HoldsAppend DEF HoldsChunk

-----------------------------------------------------------------------------
(* How the stream moves through a receiver.                                *)
LEMMA FlowArrive ==
  ASSUME NEW sz, NEW ld, NEW queued, NEW mg, NEW left, NEW b, NEW arrived, NEW e,
         Flow(sz, ld, queued, mg, left, <<>>, b), Chain(sz, arrived, b, e)
  PROVE  Flow(sz, ld, queued, mg, left, arrived, e)
<1>1. PICK a \in Cursors(sz), m \in Cursors(sz), z \in Cursors(sz) :
        /\ ld = LoadedTo(sz, a) /\ Chain(sz, queued, a, m) /\ mg = MergeAt(m)
        /\ Chain(sz, left, m, z) /\ Chain(sz, <<>>, z, b)
  BY DEF Flow
<1>2. z = b
  BY <1>1 DEF Chain
<1> QED
  BY <1>1, <1>2 DEF Flow

(* The bucket that has arrived is yielded when the one before it is        *)
(* consumed.                                                               *)
LEMMA FlowSwap ==
  ASSUME NEW sz, NEW ld, NEW queued, NEW mg, NEW arrived, NEW e \in Cursors(sz),
         Flow(sz, ld, queued, mg, <<>>, arrived, e)
  PROVE  Flow(sz, ld, queued, mg, arrived, <<>>, e)
<1>1. PICK a \in Cursors(sz), m \in Cursors(sz), z \in Cursors(sz) :
        /\ ld = LoadedTo(sz, a) /\ Chain(sz, queued, a, m) /\ mg = MergeAt(m)
        /\ Chain(sz, <<>>, m, z) /\ Chain(sz, arrived, z, e)
  BY DEF Flow
<1>2. m = z
  BY <1>1 DEF Chain
<1> QED
  BY <1>1, <1>2, ChainEmpty DEF Flow

(* The chunk that is yielded begins where merge_weight_chunks stands, and  *)
(* moves to the queued copies.                                             *)
LEMMA FlowYield ==
  ASSUME NEW sz \in Sizes, NEW ld, NEW queued \in Seq(Chunk), NEW mg,
         NEW left \in Seq(Chunk), left # <<>>, NEW arrived, NEW mark,
         Flow(sz, ld, queued, mg, left, arrived, mark)
  PROVE  /\ Head(left) \in Chunk /\ Cut(sz, Head(left)) /\ mg = MergeAt(Start(Head(left)))
         /\ Flow(sz, ld, Append(queued, Head(left)), MergeAt(After(sz, Head(left))),
                 Tail(left), arrived, mark)
<1>1. PICK a \in Cursors(sz), m \in Cursors(sz), z \in Cursors(sz) :
        /\ ld = LoadedTo(sz, a) /\ Chain(sz, queued, a, m) /\ mg = MergeAt(m)
        /\ Chain(sz, left, m, z) /\ Chain(sz, arrived, z, mark)
  BY DEF Flow
<1>2. /\ Head(left) \in Chunk /\ Cut(sz, Head(left)) /\ m = Start(Head(left))
      /\ Chain(sz, Tail(left), After(sz, Head(left)), z)
  BY <1>1, ChainTail
<1>3. Chain(sz, Append(queued, Head(left)), a, After(sz, Head(left)))
  BY <1>1, <1>2, ChainAppend
<1>4. After(sz, Head(left)) \in Cursors(sz)
  BY <1>2, AfterCut
<1> QED
  BY <1>1, <1>2, <1>3, <1>4 DEF Flow

(* The copy that takes place begins where what is loaded ends.             *)
LEMMA FlowCopy ==
  ASSUME NEW sz \in Sizes, NEW ld, NEW queued \in Seq(Chunk), queued # <<>>, NEW mg,
         NEW left, NEW arrived, NEW mark,
         Flow(sz, ld, queued, mg, left, arrived, mark)
  PROVE  /\ Head(queued) \in Chunk /\ Cut(sz, Head(queued))
         /\ ld = LoadedTo(sz, Start(Head(queued)))
         /\ Flow(sz, LoadedTo(sz, After(sz, Head(queued))), Tail(queued), mg,
                 left, arrived, mark)
<1>1. PICK a \in Cursors(sz), m \in Cursors(sz), z \in Cursors(sz) :
        /\ ld = LoadedTo(sz, a) /\ Chain(sz, queued, a, m) /\ mg = MergeAt(m)
        /\ Chain(sz, left, m, z) /\ Chain(sz, arrived, z, mark)
  BY DEF Flow
<1>2. /\ Head(queued) \in Chunk /\ Cut(sz, Head(queued)) /\ a = Start(Head(queued))
      /\ Chain(sz, Tail(queued), After(sz, Head(queued)), m)
  BY <1>1, ChainTail
<1>3. After(sz, Head(queued)) \in Cursors(sz)
  BY <1>2, AfterCut
<1> QED
  BY <1>1, <1>2, <1>3 DEF Flow

(* When nothing is left in the receiver, all up to the mark is loaded.     *)
LEMMA FlowOver ==
  ASSUME NEW sz, NEW ld, NEW mg, NEW mark, Flow(sz, ld, <<>>, mg, <<>>, <<>>, mark)
  PROVE  ld = LoadedTo(sz, mark)
<1>1. PICK a \in Cursors(sz), m \in Cursors(sz), z \in Cursors(sz) :
        /\ ld = LoadedTo(sz, a) /\ Chain(sz, <<>>, a, m)
        /\ Chain(sz, <<>>, m, z) /\ Chain(sz, <<>>, z, mark)
  BY DEF Flow
<1> QED
  BY <1>1 DEF Chain

(* At the beginning nothing has come to the receiver.                      *)
LEMMA FlowStart ==
  ASSUME NEW sz \in Sizes
  PROVE  Flow(sz, [w \in Weights |-> [i \in {} |-> Blank]], <<>>, NoMerge, <<>>, <<>>, <<1, 0>>)
<1>1. NoMerge = MergeAt(<<1, 0>>)
  BY DEF MergeAt
<1> QED
  BY <1>1, FirstCursor, LoadedNothing, ChainEmpty DEF Flow

(* The messages and the buffers have their types.                          *)
LEMMA MessageTypes ==
  /\ EmptyMessage \in Message /\ EmptyMessage.meta = <<>> /\ EmptyMessage.last = FALSE
  /\ \A s \in Seq(Chunk), last \in BOOLEAN :
       LET message == [meta |-> s, last |-> last]
       IN  message \in Message /\ message.meta = s /\ message.last = last
  /\ \A message \in Message : message.meta \in Seq(Chunk) /\ message.last \in BOOLEAN
<1>1. <<>> \in Seq(Chunk)
  OBVIOUS
<1> QED
  BY <1>1 DEF Message, EmptyMessage

(* There are two buffers.                                                  *)
LEMMA OtherBuffer ==
  ASSUME NEW b \in Buffers
  PROVE  Other(b) \in Buffers /\ Other(b) # b /\ Other(Other(b)) = b
BY DEF Buffers, Other

-----------------------------------------------------------------------------
(* The transfer begins with empty buffers and nothing on its way.          *)
LEMMA InitIInv == Init => IInv
<1> SUFFICES ASSUME Init PROVE IInv
  OBVIOUS
<1> USE DEF Init
<1>1. size \in Sizes
  BY DEF Sizes
<1>2. EmptyBuffers \in [Buffers -> [Positions -> Byte \cup {Blank}]]
  BY DEF EmptyBuffers
<1>3. Chunks(<<>>) = <<>> /\ Len(<<>>) = 0 /\ <<>> \in Seq(Chunk) /\ <<>> \in Seq(Message) /\ <<>> \in Seq(Copy)
  BY DEF Chunks
<1>4. TypeOK
  <2>1. cursor \in (1 .. NumWeights + 1) \X (0 .. MaxSize)
    BY Numbers
  <2>2. op \in [stage : {"none", "started", "broadcasting", "complete"},
                buf : Buffers, message : Message, waiting : SUBSET Receivers]
    BY MessageTypes DEF Buffers
  <2>3. /\ sbuf \in [Buffers -> [Positions -> Byte \cup {Blank}]] /\ meta \in Seq(Chunk)
        /\ lastSent \in BOOLEAN /\ subscribed \subseteq Receivers
    BY <1>2, <1>3
  <2>4. sendBuf \in Buffers /\ offset \in 0 .. BucketSize
    BY Numbers DEF Buffers
  <2>5. channel \in [Receivers -> Seq(Message)] /\ rmeta \in [Receivers -> Message]
        /\ rbuf \in [Receivers -> [Buffers -> [Positions -> Byte \cup {Blank}]]]
        /\ recvBuf \in [Receivers -> Buffers]
        /\ rop \in [Receivers -> {"meta", "bytes", "complete", "none", "ended"}]
    BY <1>2, <1>3, MessageTypes DEF Buffers
  <2>6. merging \in [Receivers -> [weight : Weights \cup {NoWeight}, offset : 0 .. MaxSize]]
    BY Numbers DEF NoMerge
  <2>7. yielding \in [Receivers -> Seq(Chunk)] /\ copies \in [Receivers -> Seq(Copy)]
    BY <1>3
  <2> QED
    BY <2>1, <2>2, <2>3, <2>4, <2>5, <2>6, <2>7 DEF TypeOK, Copy
<1>5. Filling
  BY <1>1, <1>3, FirstCursor, HoldsEmpty DEF Filling
<1>6. Sending
  BY MessageTypes DEF Sending, Quiet
<1>7. \A r \in Receivers : Receiving(r)
  BY DEF Receiving
<1>8. \A r \in Receivers : Consuming(r)
  <2>1. ASSUME NEW r \in Receivers PROVE Consuming(r)
    <3>1. copies[r] = <<>> /\ yielding[r] = <<>> /\ rop[r] = "meta"
      OBVIOUS
    <3>2. \A j \in 1 .. Len(copies[r]) : copies[r][j].buf = Other(recvBuf[r])
      BY <1>3, <3>1
    <3>3. Holds(rbuf[r][Other(recvBuf[r])], <<>>)
      BY HoldsEmpty
    <3> QED
      BY <1>3, <3>1, <3>2, <3>3 DEF Consuming
  <2> QED
    BY <2>1
<1>9. Pipeline
  <2>1. \A r \in Receivers : FlowOf(r, Mark(r, <<1, 0>>, <<1, 0>>))
    BY <1>1, <1>3, FlowStart, MessageTypes DEF FlowOf, Mark
  <2>2. Between(<<1, 0>>, <<1, 0>>)
    BY <2>1, ChainEmpty, MessageTypes DEF Between
  <2> QED
    BY <1>1, <2>2, FirstCursor DEF Pipeline
<1> QED
  BY <1>4, <1>5, <1>6, <1>7, <1>8, <1>9 DEF IInv

-----------------------------------------------------------------------------
(* What the types say, one at a time.                                      *)
LEMMA Types ==
  ASSUME TypeOK
  PROVE  /\ size \in Sizes /\ meta \in Seq(Chunk) /\ offset \in 0 .. BucketSize
         /\ sendBuf \in Buffers /\ op.buf \in Buffers /\ lastSent \in BOOLEAN
         /\ op.message \in Message /\ op.waiting \subseteq Receivers
         /\ op.stage \in {"none", "started", "broadcasting", "complete"}
         /\ op = [stage |-> op.stage, buf |-> op.buf, message |-> op.message,
                  waiting |-> op.waiting]
         /\ \A r \in Receivers :
              /\ channel[r] \in Seq(Message) /\ recvBuf[r] \in Buffers
              /\ rmeta[r] \in Message /\ yielding[r] \in Seq(Chunk)
              /\ copies[r] \in Seq(Copy)
              /\ rop[r] \in {"meta", "bytes", "complete", "none", "ended"}
BY DEF TypeOK, Sizes, Copy

(* What only the sender does leaves the receivers' buffers alone.          *)
LEMMA ConsumingKept ==
  ASSUME NEW r \in Receivers, Consuming(r), UNCHANGED receiverVars
  PROVE  Consuming(r)'
BY DEF Consuming, receiverVars

(* The next chunk goes into a bucket where nobody looks.                   *)
LEMMA FillIInv == IInv /\ SenderFill => IInv'
<1> SUFFICES ASSUME IInv, SenderFill PROVE IInv'
  OBVIOUS
<1> DEFINE c == [weight |-> cursor[1], chunkOffset |-> cursor[2],
                 chunkSize |-> ChunkSize, offset |-> offset]
           full == [p \in Positions |-> IF p \in offset .. offset + ChunkSize - 1
                      THEN <<cursor[1], cursor[2] + p - offset>> ELSE sbuf[sendBuf][p]]
<1>1. /\ size \in Sizes /\ cursor \in Cursors(size) /\ meta \in Seq(Chunk)
      /\ offset \in 0 .. BucketSize /\ sendBuf \in Buffers /\ ~lastSent
      /\ ~Exhausted /\ offset + ChunkSize <= BucketSize
  BY Types DEF IInv, Filling, SenderFill
<1>2. /\ c.weight = cursor[1] /\ c.chunkOffset = cursor[2] /\ c.chunkSize = ChunkSize
      /\ c.offset = offset
  OBVIOUS
<1>3. /\ c \in Chunk /\ Cut(size, c) /\ Start(c) = cursor /\ After(size, c) = NextCursor
  BY <1>1, NextChunk
<1>4. /\ NextCursor \in Cursors(size)
      /\ cursor[2] + ChunkSize <= size[cursor[1]]
      /\ NextCursor[1] = cursor[1] => ChunkSize = BucketSize
      /\ cursor[1] <= NextCursor[1] /\ NextCursor[1] <= cursor[1] + 1
  BY <1>1, <1>2, <1>3, AfterCut
<1>5. /\ cursor[1] \in Weights /\ cursor[1] \in Nat /\ cursor[2] \in Nat
      /\ size[cursor[1]] \in Nat /\ size[cursor[1]] <= MaxSize
      /\ ChunkSize \in Nat /\ ChunkSize >= 1 /\ ChunkSize <= BucketSize
      /\ offset \in Nat /\ BucketSize \in Nat
  BY <1>1, <1>2, <1>3, ChunkNumbers, Numbers
<1>6. /\ sbuf' = [sbuf EXCEPT ![sendBuf] = full] /\ meta' = Append(meta, c)
      /\ offset' = offset + ChunkSize /\ cursor' = NextCursor
      /\ UNCHANGED <<size, sendBuf, lastSent, op, networkVars, receiverVars>>
  BY DEF SenderFill
<1>7. full \in [Positions -> Byte \cup {Blank}]
  <2>1. sbuf[sendBuf] \in [Positions -> Byte \cup {Blank}]
    BY <1>1 DEF IInv, TypeOK
  <2>2. ASSUME NEW p \in offset .. offset + ChunkSize - 1
        PROVE  <<cursor[1], cursor[2] + p - offset>> \in Byte
    BY <1>4, <1>5, Numbers DEF Byte
  <2> QED
    BY <2>1, <2>2
<1>8. /\ full = [p \in Positions |->
                   IF p \in c.offset .. c.offset + c.chunkSize - 1
                     THEN <<c.weight, c.chunkOffset + p - c.offset>> ELSE sbuf[sendBuf][p]]
      /\ c.offset + c.chunkSize <= BucketSize
  BY <1>1
<1> HIDE DEF full, c
<1>9. TypeOK'
  <2>1. sbuf' \in [Buffers -> [Positions -> Byte \cup {Blank}]]
    BY <1>1, <1>6, <1>7 DEF IInv, TypeOK
  <2>2. meta' \in Seq(Chunk)
    BY <1>1, <1>3, <1>6
  <2>3. offset' \in 0 .. BucketSize
    BY <1>1, <1>5, <1>6
  <2>4. cursor' \in (1 .. NumWeights + 1) \X (0 .. MaxSize)
    BY <1>4, <1>6 DEF Cursors
  <2> QED
    BY <1>6, <2>1, <2>2, <2>3, <2>4 DEF IInv, TypeOK, networkVars, receiverVars
<1>10. /\ Len(meta') = Len(meta) + 1 /\ Len(meta) \in Nat /\ meta'[Len(meta) + 1] = c
       /\ \A j \in 1 .. Len(meta) : meta'[j] = meta[j]
  BY <1>1, <1>3, <1>6
<1>11. \A j \in 1 .. Len(meta) :
         /\ meta[j].offset \in Nat /\ meta[j].chunkSize \in Nat /\ meta[j].weight \in Nat
         /\ meta[j].offset + meta[j].chunkSize <= offset /\ meta[j].weight < cursor[1]
  <2>1. ASSUME NEW j \in 1 .. Len(meta)
        PROVE  meta[j] \in Chunk
    BY <1>1
  <2>2. offset # BucketSize
    BY <1>1, <1>5
  <2> QED
    BY <1>1, <2>1, <2>2, ChunkNumbers DEF IInv, Filling
<1>12. Filling'
  <2>1. Holds(full, meta')
    <3>1. \A j \in 1 .. Len(meta) : meta[j].offset + meta[j].chunkSize <= c.offset
      BY <1>2, <1>11
    <3>2. Holds(sbuf[sendBuf], meta)
      BY DEF IInv, Filling
    <3> QED
      BY <1>1, <1>3, <1>6, <1>8, <3>1, <3>2, HoldsFill
  <2>2. sbuf'[sendBuf'] = full
    BY <1>1, <1>6 DEF IInv, TypeOK
  <2>3. ASSUME NEW j \in 1 .. Len(meta')
        PROVE  /\ meta'[j].offset + meta'[j].chunkSize <= offset'
               /\ \/ meta'[j].weight < cursor'[1]
                  \/ meta'[j].weight = cursor'[1] /\ offset' = BucketSize
    <3>1. CASE j = Len(meta) + 1
      <4>1. meta'[j] = c
        BY <1>10, <3>1
      <4>2. NextCursor[1] = cursor[1] + 1 \/ NextCursor[1] = cursor[1]
        BY <1>4, <1>5, <1>1, CursorNumbers, SMTT(30)
      <4>3. NextCursor[1] = cursor[1] => offset = 0
        BY <1>1, <1>4, <1>5
      <4> QED
        BY <1>2, <1>4, <1>5, <1>6, <4>1, <4>2, <4>3
    <3>2. CASE j # Len(meta) + 1
      <4>1. j \in 1 .. Len(meta) /\ meta'[j] = meta[j]
        BY <1>10, <3>2
      <4>2. PICK o \in Nat, k \in Nat, w \in Nat :
              /\ o = meta[j].offset /\ k = meta[j].chunkSize /\ w = meta[j].weight
              /\ o + k <= offset /\ w < cursor[1]
        BY <1>11, <4>1
      <4>3. o + k <= offset + ChunkSize
        BY <1>5, <4>2
      <4>4. w < NextCursor[1]
        BY <1>1, <1>4, <1>5, <4>2, CursorNumbers, SMTT(30)
      <4> QED
        BY <1>6, <4>1, <4>2, <4>3, <4>4
    <3> QED
      BY <3>1, <3>2
  <2>4. ASSUME NEW j \in 1 .. Len(meta'), NEW k \in 1 .. Len(meta'),
               meta'[j].weight = meta'[k].weight
        PROVE  j = k
    <3>1. \A i \in 1 .. Len(meta') :
            \/ i = Len(meta) + 1 /\ meta'[i].weight = cursor[1]
            \/ i \in 1 .. Len(meta) /\ meta'[i] = meta[i] /\ meta[i].weight # cursor[1]
      BY <1>2, <1>5, <1>10, <1>11
    <3>2. \A i, l \in 1 .. Len(meta) : meta[i].weight = meta[l].weight => i = l
      BY DEF IInv, Filling
    <3>3. CASE j \in 1 .. Len(meta) /\ k \in 1 .. Len(meta)
      <4>1. meta'[j] = meta[j] /\ meta'[k] = meta[k]
        BY <1>10, <3>3
      <4> QED
        BY <2>4, <3>2, <3>3, <4>1
    <3>4. CASE j \notin 1 .. Len(meta) \/ k \notin 1 .. Len(meta)
      <4>1. j = Len(meta) + 1 \/ k = Len(meta) + 1
        BY <3>1, <3>4
      <4>2. Len(meta) + 1 \notin 1 .. Len(meta)
        BY <1>10
      <4> QED
        BY <2>4, <3>1, <4>1, <4>2
    <3> QED
      BY <3>3, <3>4
  <2>5. cursor' \in Cursors(size')
    BY <1>4, <1>6
  <2> QED
    BY <1>1, <1>6, <2>1, <2>2, <2>3, <2>4, <2>5 DEF Filling
<1>13. Sending'
  <2>1. ~Quiet => sbuf'[op.buf] = sbuf[op.buf]
    BY <1>1, <1>6, Types DEF IInv, Sending, TypeOK
  <2> QED
    BY <1>6, <2>1 DEF IInv, Sending, Quiet
<1>14. Pipeline'
  <2>1. PICK b \in Cursors(size), e \in Cursors(size) : Between(b, e)
    BY DEF IInv, Pipeline
  <2>2. Chain(size, meta, e, cursor)
    BY <1>1, <2>1 DEF Between
  <2>3. Chain(size, meta', e, cursor')
    BY <1>1, <1>3, <1>6, <2>2, ChainAppend
  <2>4. Between(b, e)'
    BY <1>1, <1>6, <2>1, <2>3 DEF Between, FlowOf, Mark, receiverVars
  <2> QED
    BY <1>6, <2>4 DEF IInv, Pipeline, receiverVars
<1>15. ASSUME NEW r \in Receivers PROVE Receiving(r)' /\ Consuming(r)'
  BY <1>6, ConsumingKept DEF IInv, Receiving, networkVars, receiverVars
<1> QED
  BY <1>9, <1>12, <1>13, <1>14, <1>15 DEF IInv

(* A broadcast starts when the previous one is over, so every receiver     *)
(* stands at the end of that one, where the new one begins.                *)
LEMMA Started ==
  ASSUME IInv, Quiet, ~lastSent, NEW last \in BOOLEAN, StartBroadcast(last),
         UNCHANGED <<size, sbuf, networkVars, receiverVars>>
  PROVE  /\ op'.stage = "started" /\ op'.buf = sendBuf /\ op'.waiting = Receivers
         /\ op'.message.meta = meta /\ op'.message.last = last
         /\ op' \in [stage : {"none", "started", "broadcasting", "complete"},
                     buf : Buffers, message : Message, waiting : SUBSET Receivers]
         /\ Holds(sbuf'[op'.buf], op'.message.meta)
         /\ \A r \in Receivers : Receiving(r)' /\ Consuming(r)'
         /\ \E e \in Cursors(size) :
              /\ Chain(size, meta, e, cursor)
              /\ \A r \in Receivers :
                   FlowOf(r, e)' /\ (r \in op'.waiting /\ rop'[r] # "bytes")
<1>1. meta \in Seq(Chunk) /\ sendBuf \in Buffers
  BY Types DEF IInv
<1>2. /\ op'.stage = "started" /\ op'.buf = sendBuf /\ op'.waiting = Receivers
      /\ op'.message = [meta |-> meta, last |-> last]
  BY DEF StartBroadcast
<1>3. op'.message \in Message /\ op'.message.meta = meta /\ op'.message.last = last
  BY <1>1, <1>2, MessageTypes
<1>4. op' \in [stage : {"none", "started", "broadcasting", "complete"},
               buf : Buffers, message : Message, waiting : SUBSET Receivers]
  BY <1>1, <1>2, <1>3 DEF StartBroadcast
<1>5. Holds(sbuf'[op'.buf], op'.message.meta)
  BY <1>2, <1>3 DEF IInv, Filling
<1>6. op.waiting = {} /\ op.stage # "broadcasting"
  BY DEF IInv, Sending, Quiet
<1>7. ASSUME NEW r \in Receivers
      PROVE  /\ channel[r] = <<>> /\ rop[r] \in {"meta", "complete"}
             /\ rop[r] = "complete" => ~rmeta[r].last
  BY <1>6, Types DEF IInv, Receiving
<1>8. ASSUME NEW r \in Receivers PROVE Receiving(r)' /\ Consuming(r)'
  <2>1. Receiving(r)'
    BY <1>7 DEF IInv, Receiving, networkVars, receiverVars
  <2> QED
    BY <2>1, ConsumingKept DEF IInv
<1>9. PICK b \in Cursors(size), e \in Cursors(size) : Between(b, e)
  BY DEF IInv, Pipeline
<1>10. Chain(size, meta, e, cursor)
  BY <1>9 DEF Between
<1>11. ASSUME NEW r \in Receivers
       PROVE  FlowOf(r, e)' /\ (r \in op'.waiting /\ rop'[r] # "bytes")
  <2>1. FlowOf(r, e)
    BY <1>6, <1>9 DEF Between, Mark
  <2> QED
    BY <1>2, <1>7, <2>1 DEF FlowOf, receiverVars
<1> QED
  BY <1>2, <1>3, <1>4, <1>5, <1>8, <1>10, <1>11

(* A bucket is full: the other one is filled from now on.                  *)
LEMMA FlushIInv == IInv /\ SenderFlush => IInv'
<1> SUFFICES ASSUME IInv, SenderFlush PROVE IInv'
  OBVIOUS
<1>1. Quiet /\ ~lastSent /\ StartBroadcast(FALSE)
  BY DEF IInv, Filling, SenderFlush
<1>2. /\ sendBuf' = Other(sendBuf) /\ meta' = <<>> /\ offset' = 0
      /\ UNCHANGED <<size, cursor, sbuf, lastSent, networkVars, receiverVars>>
  BY DEF SenderFlush
<1>3. /\ op'.stage = "started" /\ op'.buf = sendBuf /\ op'.waiting = Receivers
      /\ op'.message.meta = meta /\ op'.message.last = FALSE
      /\ op' \in [stage : {"none", "started", "broadcasting", "complete"},
                  buf : Buffers, message : Message, waiting : SUBSET Receivers]
      /\ Holds(sbuf'[op'.buf], op'.message.meta)
      /\ \A r \in Receivers : Receiving(r)' /\ Consuming(r)'
  BY <1>1, <1>2, Started
<1>4. PICK e \in Cursors(size) :
        /\ Chain(size, meta, e, cursor)
        /\ \A r \in Receivers : FlowOf(r, e)' /\ (r \in op'.waiting /\ rop'[r] # "bytes")
  BY <1>1, <1>2, Started
<1>5. sendBuf' \in Buffers /\ sendBuf' # sendBuf
  BY <1>2, Types, OtherBuffer DEF IInv
<1>6. TypeOK'
  <2>1. meta' \in Seq(Chunk) /\ offset' \in 0 .. BucketSize
    BY <1>2, Numbers
  <2> QED
    BY <1>2, <1>3, <1>5, <2>1 DEF IInv, TypeOK, networkVars, receiverVars
<1>7. Filling'
  <2>1. Len(meta') = 0 /\ Holds(sbuf'[sendBuf'], meta')
    BY <1>2, HoldsEmpty
  <2> QED
    BY <1>1, <1>2, <2>1 DEF IInv, Filling
<1>8. Sending'
  BY <1>1, <1>2, <1>3, <1>5 DEF Sending, Quiet
<1>9. Pipeline'
  <2>1. Chain(size, meta', cursor, cursor)
    BY <1>2, ChainEmpty
  <2>2. Between(e, cursor)'
    BY <1>1, <1>2, <1>3, <1>4, <2>1 DEF Between, Mark
  <2>3. cursor \in Cursors(size)
    BY DEF IInv, Filling
  <2> QED
    BY <1>2, <2>2, <2>3 DEF IInv, Pipeline, receiverVars
<1> QED
  BY <1>3, <1>6, <1>7, <1>8, <1>9 DEF IInv

(* The last bucket ends the stream; it is not filled any more.             *)
LEMMA LastIInv == IInv /\ SenderLast => IInv'
<1> SUFFICES ASSUME IInv, SenderLast PROVE IInv'
  OBVIOUS
<1>1. Quiet /\ ~lastSent /\ StartBroadcast(TRUE) /\ Exhausted
  BY DEF SenderLast
<1>2. /\ lastSent' = TRUE
      /\ UNCHANGED <<size, cursor, sbuf, sendBuf, meta, offset, networkVars, receiverVars>>
  BY DEF SenderLast
<1>3. /\ op'.stage = "started" /\ op'.buf = sendBuf /\ op'.waiting = Receivers
      /\ op'.message.meta = meta /\ op'.message.last = TRUE
      /\ op' \in [stage : {"none", "started", "broadcasting", "complete"},
                  buf : Buffers, message : Message, waiting : SUBSET Receivers]
      /\ Holds(sbuf'[op'.buf], op'.message.meta)
      /\ \A r \in Receivers : Receiving(r)' /\ Consuming(r)'
  BY <1>1, <1>2, Started
<1>4. PICK e \in Cursors(size) :
        /\ Chain(size, meta, e, cursor)
        /\ \A r \in Receivers : FlowOf(r, e)' /\ (r \in op'.waiting /\ rop'[r] # "bytes")
  BY <1>1, <1>2, Started
<1>5. TypeOK'
  BY <1>2, <1>3 DEF IInv, TypeOK, networkVars, receiverVars
<1>6. Filling'
  BY <1>1, <1>2 DEF IInv, Filling, Exhausted
<1>7. Sending'
  BY <1>2, <1>3 DEF Sending, Quiet
<1>8. Pipeline'
  <2>1. Between(e, cursor)'
    BY <1>2, <1>3, <1>4 DEF Between, Mark
  <2>2. cursor \in Cursors(size)
    BY DEF IInv, Filling
  <2> QED
    BY <1>2, <2>1, <2>2 DEF IInv, Pipeline, receiverVars
<1> QED
  BY <1>3, <1>5, <1>6, <1>7, <1>8 DEF IInv

(* The metadata is published; who has not subscribed misses it.            *)
LEMMA PublishIInv == IInv /\ SenderPublish => IInv'
<1> SUFFICES ASSUME IInv, SenderPublish PROVE IInv'
  OBVIOUS
<1>1. /\ op.stage = "started" /\ op.waiting = Receivers
      /\ UNCHANGED <<size, cursor, sbuf, sendBuf, meta, offset, lastSent,
                     subscribed, receiverVars>>
  BY DEF IInv, Sending, SenderPublish
<1>2. /\ op'.stage = "broadcasting" /\ op'.buf = op.buf /\ op'.message = op.message
      /\ op'.waiting = op.waiting
      /\ op' \in [stage : {"none", "started", "broadcasting", "complete"},
                  buf : Buffers, message : Message, waiting : SUBSET Receivers]
  BY DEF IInv, TypeOK, SenderPublish
<1>3. ASSUME NEW r \in Receivers
      PROVE  channel[r] = <<>> /\ rop[r] # "bytes" /\ channel'[r] \in {<<>>, <<op.message>>}
  <2>1. channel[r] = <<>> /\ rop[r] # "bytes"
    BY <1>1 DEF IInv, Receiving
  <2>2. channel'[r] = IF r \in subscribed THEN Append(channel[r], op.message) ELSE channel[r]
    BY DEF SenderPublish
  <2>3. Append(<<>>, op.message) = <<op.message>>
    OBVIOUS
  <2> QED
    BY <2>1, <2>2, <2>3
<1>4. TypeOK'
  <2>1. op.message \in Message
    BY Types DEF IInv
  <2>2. <<>> \in Seq(Message) /\ <<op.message>> \in Seq(Message)
    BY <2>1
  <2>3. channel' \in [Receivers -> Seq(Message)]
    BY <1>3, <2>2 DEF SenderPublish
  <2> QED
    BY <1>1, <1>2, <2>3 DEF IInv, TypeOK, receiverVars
<1>5. Filling' /\ Sending'
  BY <1>1, <1>2 DEF IInv, Filling, Sending, Exhausted, Quiet
<1>6. ASSUME NEW r \in Receivers PROVE Receiving(r)' /\ Consuming(r)'
  <2>1. Receiving(r)'
    BY <1>1, <1>2, <1>3 DEF IInv, Receiving, receiverVars
  <2> QED
    BY <1>1, <2>1, ConsumingKept DEF IInv
<1>7. Pipeline'
  <2>1. PICK b \in Cursors(size), e \in Cursors(size) : Between(b, e)
    BY DEF IInv, Pipeline
  <2>2. Between(b, e)'
    BY <1>1, <1>2, <2>1 DEF Between, FlowOf, Mark, receiverVars
  <2> QED
    BY <1>1, <2>2 DEF IInv, Pipeline, receiverVars
<1> QED
  BY <1>4, <1>5, <1>6, <1>7 DEF IInv

(* The broadcast is over: all receivers have taken part.                   *)
LEMMA CompleteIInv == IInv /\ SenderComplete => IInv'
<1> SUFFICES ASSUME IInv, SenderComplete PROVE IInv'
  OBVIOUS
<1>1. /\ op.stage = "broadcasting" /\ op.waiting = {}
      /\ UNCHANGED <<size, cursor, sbuf, sendBuf, meta, offset, lastSent,
                     networkVars, receiverVars>>
  BY DEF SenderComplete
<1>2. /\ op'.stage = "complete" /\ op'.buf = op.buf /\ op'.message = op.message
      /\ op'.waiting = op.waiting
      /\ op' \in [stage : {"none", "started", "broadcasting", "complete"},
                  buf : Buffers, message : Message, waiting : SUBSET Receivers]
  BY DEF IInv, TypeOK, SenderComplete
<1>3. TypeOK'
  BY <1>1, <1>2 DEF IInv, TypeOK, networkVars, receiverVars
<1>4. Filling' /\ Sending'
  BY <1>1, <1>2 DEF IInv, Filling, Sending, Exhausted, Quiet
<1>5. ASSUME NEW r \in Receivers PROVE Receiving(r)' /\ Consuming(r)'
  <2>1. Receiving(r)'
    BY <1>1, <1>2 DEF IInv, Receiving, networkVars, receiverVars
  <2> QED
    BY <1>1, <2>1, ConsumingKept DEF IInv
<1>6. Pipeline'
  <2>1. PICK b \in Cursors(size), e \in Cursors(size) : Between(b, e)
    BY DEF IInv, Pipeline
  <2>2. Between(b, e)'
    BY <1>1, <1>2, <2>1 DEF Between, FlowOf, Mark, receiverVars
  <2> QED
    BY <1>1, <2>2 DEF IInv, Pipeline, receiverVars
<1> QED
  BY <1>3, <1>4, <1>5, <1>6 DEF IInv

(* A subscription decides only who will get the next metadata.             *)
LEMMA SubscribeIInv == ASSUME NEW r \in Receivers PROVE IInv /\ Subscribe(r) => IInv'
<1> SUFFICES ASSUME IInv, Subscribe(r) PROVE IInv'
  OBVIOUS
<1>1. UNCHANGED <<size, senderVars, channel, receiverVars>> /\ subscribed' \subseteq Receivers
  BY DEF IInv, TypeOK, Subscribe
<1>2. TypeOK'
  BY <1>1 DEF IInv, TypeOK, senderVars, receiverVars
<1>3. Filling' /\ Sending'
  BY <1>1 DEF IInv, Filling, Sending, Exhausted, Quiet, senderVars
<1>4. ASSUME NEW q \in Receivers PROVE Receiving(q)' /\ Consuming(q)'
  BY <1>1, ConsumingKept DEF IInv, Receiving, senderVars, receiverVars
<1>5. Pipeline'
  <2>1. PICK b \in Cursors(size), e \in Cursors(size) : Between(b, e)
    BY DEF IInv, Pipeline
  <2>2. Between(b, e)'
    BY <1>1, <2>1 DEF Between, FlowOf, Mark, senderVars, receiverVars
  <2> QED
    BY <1>1, <2>2 DEF IInv, Pipeline, receiverVars
<1> QED
  BY <1>2, <1>3, <1>4, <1>5 DEF IInv

-----------------------------------------------------------------------------
(* What belongs to a receiver.                                             *)
Own(q) == <<channel[q], rbuf[q], recvBuf[q], rop[q], rmeta[q], yielding[q],
            merging[q], copies[q], loaded[q]>>

(* What one receiver does leaves the invariant of the others alone.        *)
LEMMA OthersKept ==
  ASSUME NEW q \in Receivers, UNCHANGED <<size, lastSent>>, UNCHANGED Own(q),
         op'.stage = op.stage, op'.message = op.message,
         q \in op'.waiting <=> q \in op.waiting
  PROVE  /\ Receiving(q) /\ Consuming(q) => Receiving(q)' /\ Consuming(q)'
         /\ \A b, e : FlowOf(q, Mark(q, b, e)) => FlowOf(q, Mark(q, b, e))'
<1>1. /\ channel'[q] = channel[q] /\ rbuf'[q] = rbuf[q] /\ recvBuf'[q] = recvBuf[q]
      /\ rop'[q] = rop[q] /\ rmeta'[q] = rmeta[q] /\ yielding'[q] = yielding[q]
      /\ merging'[q] = merging[q] /\ copies'[q] = copies[q] /\ loaded'[q] = loaded[q]
  BY DEF Own
<1>2. Receiving(q) => Receiving(q)'
  BY <1>1 DEF Receiving
<1>3. Consuming(q) => Consuming(q)'
  BY <1>1 DEF Consuming
<1>4. ASSUME NEW b, NEW e, FlowOf(q, Mark(q, b, e)) PROVE FlowOf(q, Mark(q, b, e))'
  BY <1>1, <1>4 DEF FlowOf, Mark
<1> QED
  BY <1>2, <1>3, <1>4

(* The message of the broadcast, in the order of the publisher.            *)
LEMMA MetaIInv == ASSUME NEW r \in Receivers PROVE IInv /\ ReceiverMeta(r) => IInv'
<1> SUFFICES ASSUME IInv, ReceiverMeta(r) PROVE IInv'
  OBVIOUS
<1>1. /\ rop[r] = "meta" /\ channel[r] = <<op.message>> /\ op.stage = "broadcasting"
      /\ r \in op.waiting /\ rmeta[r] = EmptyMessage
  BY DEF IInv, Receiving, ReceiverMeta
<1>2. Head(channel[r]) = op.message /\ Tail(channel[r]) = <<>>
  BY <1>1
<1>3. /\ rmeta' = [rmeta EXCEPT ![r] = op.message] /\ channel' = [channel EXCEPT ![r] = <<>>]
      /\ rop' = [rop EXCEPT ![r] = "bytes"]
      /\ UNCHANGED <<size, senderVars, subscribed, rbuf, recvBuf, yielding,
                     merging, copies, loaded>>
  BY <1>2 DEF ReceiverMeta
<1>4. rmeta'[r] = op.message /\ channel'[r] = <<>> /\ rop'[r] = "bytes"
  BY <1>3 DEF IInv, TypeOK
<1>5. TypeOK'
  <2>1. op.message \in Message /\ <<>> \in Seq(Message)
    BY Types DEF IInv
  <2> QED
    BY <1>3, <2>1 DEF IInv, TypeOK, senderVars
<1>6. Filling' /\ Sending'
  BY <1>3 DEF IInv, Filling, Sending, Exhausted, Quiet, senderVars
<1>7. ASSUME NEW q \in Receivers, q # r PROVE UNCHANGED Own(q)
  BY <1>3, <1>7 DEF IInv, TypeOK, Own
<1>8. UNCHANGED <<lastSent, op>>
  BY <1>3 DEF senderVars
<1>9. Receiving(r)' /\ Consuming(r)'
  BY <1>1, <1>3, <1>4, <1>8 DEF IInv, Receiving, Consuming
<1>10. Pipeline'
  <2>1. PICK b \in Cursors(size), e \in Cursors(size) : Between(b, e)
    BY DEF IInv, Pipeline
  <2>2. FlowOf(r, e)'
    <3>1. Flow(size, loaded[r], Chunks(copies[r]), merging[r], yielding[r], <<>>, b)
      BY <1>1, <2>1, MessageTypes DEF Between, FlowOf, Mark
    <3>2. Flow(size, loaded[r], Chunks(copies[r]), merging[r], yielding[r], op.message.meta, e)
      BY <2>1, <3>1, FlowArrive DEF Between
    <3> QED
      BY <1>3, <1>4, <3>2 DEF FlowOf
  <2>3. \A q \in Receivers : FlowOf(q, Mark(q, b, e))'
    BY <1>3, <1>4, <1>7, <1>8, <2>1, <2>2, OthersKept DEF Between, Mark
  <2>4. Between(b, e)'
    BY <1>3, <2>1, <2>3 DEF Between, senderVars
  <2> QED
    BY <1>3, <2>4 DEF IInv, Pipeline
<1> QED
  BY <1>3, <1>5, <1>6, <1>7, <1>8, <1>9, <1>10, OthersKept DEF IInv

(* The bytes of the broadcast, into the buffer nothing is read from.       *)
LEMMA BytesIInv == ASSUME NEW r \in Receivers PROVE IInv /\ ReceiverBytes(r) => IInv'
<1> SUFFICES ASSUME IInv, ReceiverBytes(r) PROVE IInv'
  OBVIOUS
<1>1. /\ rop[r] = "bytes" /\ op.stage = "broadcasting" /\ r \in op.waiting
      /\ channel[r] = <<>> /\ rmeta[r] = op.message
  BY DEF IInv, Receiving, ReceiverBytes
<1>2. /\ rbuf' = [rbuf EXCEPT ![r][recvBuf[r]] = sbuf[op.buf]]
      /\ op' = [op EXCEPT !.waiting = @ \ {r}]
      /\ rop' = [rop EXCEPT ![r] = "complete"]
      /\ UNCHANGED <<size, cursor, sbuf, sendBuf, meta, offset, lastSent,
                     networkVars, recvBuf, rmeta, yielding, merging, copies, loaded>>
  BY DEF ReceiverBytes
<1>3. /\ op'.stage = op.stage /\ op'.buf = op.buf /\ op'.message = op.message
      /\ op'.waiting = op.waiting \ {r}
      /\ op' \in [stage : {"none", "started", "broadcasting", "complete"},
                  buf : Buffers, message : Message, waiting : SUBSET Receivers]
  BY <1>2 DEF IInv, TypeOK
<1>4. rop'[r] = "complete"
  BY <1>2 DEF IInv, TypeOK
<1>5. /\ recvBuf[r] \in Buffers /\ op.buf \in Buffers /\ Other(recvBuf[r]) # recvBuf[r]
      /\ Other(recvBuf[r]) \in Buffers
  BY Types, OtherBuffer DEF IInv
<1>6. /\ rbuf'[r][recvBuf[r]] = sbuf[op.buf]
      /\ rbuf'[r][Other(recvBuf[r])] = rbuf[r][Other(recvBuf[r])]
  BY <1>2, <1>5 DEF IInv, TypeOK
<1>7. TypeOK'
  <2>1. sbuf[op.buf] \in [Positions -> Byte \cup {Blank}]
    BY <1>5 DEF IInv, TypeOK
  <2>2. rbuf' \in [Receivers -> [Buffers -> [Positions -> Byte \cup {Blank}]]]
    BY <1>2, <1>5, <2>1 DEF IInv, TypeOK
  <2> QED
    BY <1>2, <1>3, <2>2 DEF IInv, TypeOK, networkVars
<1>8. Filling' /\ Sending'
  BY <1>1, <1>2, <1>3 DEF IInv, Filling, Sending, Exhausted, Quiet
<1>9. ASSUME NEW q \in Receivers, q # r
      PROVE  UNCHANGED Own(q) /\ (q \in op'.waiting <=> q \in op.waiting)
  BY <1>2, <1>3, <1>9 DEF IInv, TypeOK, Own, networkVars
<1>10. Receiving(r)'
  BY <1>1, <1>2, <1>3, <1>4 DEF IInv, Receiving, Sending, networkVars
<1>11. Consuming(r)'
  <2>1. Holds(sbuf[op.buf], op.message.meta)
    BY <1>1 DEF IInv, Sending, Quiet
  <2> QED
    BY <1>1, <1>2, <1>4, <1>6, <2>1 DEF IInv, Consuming
<1>12. Pipeline'
  <2>1. PICK b \in Cursors(size), e \in Cursors(size) : Between(b, e)
    BY DEF IInv, Pipeline
  <2>2. FlowOf(r, e)
    BY <1>1, <2>1 DEF Between, Mark
  <2>3. FlowOf(r, e)'
    BY <1>2, <2>2 DEF FlowOf
  <2>4. \A q \in Receivers : FlowOf(q, Mark(q, b, e))'
    BY <1>2, <1>3, <1>9, <2>1, <2>3, OthersKept DEF Between, Mark
  <2>5. Between(b, e)'
    BY <1>2, <1>3, <2>1, <2>4 DEF Between
  <2> QED
    BY <1>2, <2>5 DEF IInv, Pipeline
<1> QED
  BY <1>2, <1>3, <1>7, <1>8, <1>9, <1>10, <1>11, <1>12, OthersKept DEF IInv

(* A chunk is yielded, and its copy queued out of the same buffer.         *)
LEMMA YieldIInv == ASSUME NEW r \in Receivers PROVE IInv /\ ReceiverYield(r) => IInv'
<1> SUFFICES ASSUME IInv, ReceiverYield(r) PROVE IInv'
  OBVIOUS
<1> DEFINE c == Head(yielding[r])
           copy == [chunk |-> c, buf |-> Other(recvBuf[r])]
<1>1. /\ yielding[r] # <<>> /\ yielding[r] \in Seq(Chunk) /\ copies[r] \in Seq(Copy)
      /\ size \in Sizes /\ Chunks(copies[r]) \in Seq(Chunk)
      /\ Other(recvBuf[r]) \in Buffers
  BY Types, ChunksSeq, OtherBuffer DEF IInv, ReceiverYield
<1>2. c \in Chunk /\ Tail(yielding[r]) \in Seq(Chunk)
  BY <1>1
<1>3. copy \in Copy /\ copy.chunk = c /\ copy.buf = Other(recvBuf[r])
  BY <1>1, <1>2 DEF Copy
<1>4. /\ merging' = [merging EXCEPT ![r] = MergeAdvance(r, c)]
      /\ copies' = [copies EXCEPT ![r] = Append(copies[r], copy)]
      /\ yielding' = [yielding EXCEPT ![r] = Tail(yielding[r])]
      /\ UNCHANGED <<size, senderVars, networkVars, rbuf, recvBuf, rop, rmeta, loaded>>
  BY DEF ReceiverYield
<1>5. Chunks(Append(copies[r], copy)) = Append(Chunks(copies[r]), c)
  BY <1>1, <1>2, ChunksAppend
<1> HIDE DEF copy, c
<1>6. /\ merging'[r] = MergeAdvance(r, c) /\ copies'[r] = Append(copies[r], copy)
      /\ yielding'[r] = Tail(yielding[r])
  BY <1>4 DEF IInv, TypeOK
<1>7. PICK b \in Cursors(size), e \in Cursors(size) : Between(b, e)
  BY DEF IInv, Pipeline
<1>8. Flow(size, loaded[r], Chunks(copies[r]), merging[r], yielding[r],
           rmeta[r].meta, Mark(r, b, e))
  BY <1>7 DEF Between, FlowOf
<1>9. /\ Cut(size, c) /\ merging[r] = MergeAt(Start(c))
      /\ Flow(size, loaded[r], Append(Chunks(copies[r]), c), MergeAt(After(size, c)),
              Tail(yielding[r]), rmeta[r].meta, Mark(r, b, e))
  BY <1>1, <1>8, FlowYield DEF c
<1>10. MergeAdvance(r, c) = MergeAt(After(size, c))
  BY <1>1, <1>2, <1>9, MergeStep
<1>11. MergeAt(After(size, c)) \in [weight : Weights \cup {NoWeight}, offset : 0 .. MaxSize]
  <2> DEFINE a == After(size, c)
  <2>1. a \in Cursors(size)
    BY <1>1, <1>2, <1>9, AfterCut
  <2> HIDE DEF a
  <2>2. a[2] \in 0 .. MaxSize /\ (a[2] # 0 => a[1] \in Weights)
    BY <2>1 DEF Cursors
  <2>3. MergeAt(a) \in [weight : Weights \cup {NoWeight}, offset : 0 .. MaxSize]
    BY <2>2, Numbers DEF MergeAt, NoMerge
  <2> QED
    BY <2>3 DEF a
<1>12. TypeOK'
  <2>1. Append(copies[r], copy) \in Seq(Copy)
    BY <1>1, <1>3
  <2>2. copies' \in [Receivers -> Seq(Copy)]
    BY <1>4, <2>1 DEF IInv, TypeOK, Copy
  <2>3. yielding' \in [Receivers -> Seq(Chunk)]
    BY <1>2, <1>4 DEF IInv, TypeOK
  <2>4. merging' \in [Receivers -> [weight : Weights \cup {NoWeight}, offset : 0 .. MaxSize]]
    BY <1>4, <1>10, <1>11 DEF IInv, TypeOK
  <2> QED
    BY <1>4, <2>2, <2>3, <2>4 DEF IInv, TypeOK, Copy, senderVars, networkVars
<1>13. Filling' /\ Sending'
  BY <1>4 DEF IInv, Filling, Sending, Exhausted, Quiet, senderVars
<1>14. ASSUME NEW q \in Receivers, q # r PROVE UNCHANGED Own(q)
  BY <1>4, <1>14 DEF IInv, TypeOK, Own, networkVars
<1>15. UNCHANGED <<lastSent, op>>
  BY <1>4 DEF senderVars
<1>16. Receiving(r)'
  <2>1. rop[r] # "ended"
    BY <1>1 DEF IInv, Receiving
  <2> QED
    BY <1>4, <1>15, <2>1 DEF IInv, Receiving, networkVars
<1>17. Consuming(r)'
  <2> DEFINE long == Append(copies[r], copy)
             source == rbuf[r][Other(recvBuf[r])]
  <2>1. /\ Len(long) = Len(copies[r]) + 1 /\ long[Len(copies[r]) + 1] = copy
        /\ Len(copies[r]) \in Nat
        /\ \A j \in 1 .. Len(copies[r]) : long[j] = copies[r][j]
    BY <1>1, <1>3
  <2>2. copies'[r] = long
    BY <1>6
  <2> HIDE DEF long
  <2>3. ASSUME NEW j \in 1 .. Len(long) PROVE long[j].buf = Other(recvBuf[r])
    <3>1. CASE j = Len(copies[r]) + 1
      BY <1>3, <2>1, <3>1
    <3>2. CASE j # Len(copies[r]) + 1
      <4>1. j \in 1 .. Len(copies[r]) /\ long[j] = copies[r][j]
        BY <2>1, <3>2
      <4> QED
        BY <4>1 DEF IInv, Consuming
    <3> QED
      BY <3>1, <3>2
  <2>4. Holds(source, Chunks(copies[r])) /\ Holds(source, yielding[r])
    BY DEF IInv, Consuming
  <2>5. HoldsChunk(source, c) /\ Holds(source, Tail(yielding[r]))
    BY <1>1, <2>4, HoldsTail DEF c
  <2>6. Holds(source, Chunks(long))
    BY <1>1, <1>2, <1>5, <2>4, <2>5, HoldsAppend DEF long
  <2>7. rop'[r] = rop[r] /\ rbuf'[r] = rbuf[r] /\ recvBuf'[r] = recvBuf[r] /\ rmeta'[r] = rmeta[r]
    BY <1>4
  <2>8. \A j \in 1 .. Len(copies'[r]) : copies'[r][j].buf = Other(recvBuf'[r])
    BY <2>2, <2>3, <2>7
  <2> QED
    BY <1>6, <2>2, <2>5, <2>6, <2>7, <2>8 DEF IInv, Consuming
<1>18. Pipeline'
  <2>1. FlowOf(r, Mark(r, b, e))'
    BY <1>4, <1>5, <1>6, <1>9, <1>10, <1>15 DEF FlowOf, Mark
  <2>2. \A q \in Receivers : FlowOf(q, Mark(q, b, e))'
    BY <1>4, <1>7, <1>14, <1>15, <2>1, OthersKept DEF Between
  <2>3. Between(b, e)'
    BY <1>4, <1>7, <2>2 DEF Between, senderVars
  <2> QED
    BY <1>4, <2>3 DEF IInv, Pipeline
<1> QED
  BY <1>4, <1>12, <1>13, <1>14, <1>15, <1>16, <1>17, <1>18, OthersKept DEF IInv

(* A copy takes place: what is loaded of the weight grows by the chunk.    *)
LEMMA CopyStep ==
  ASSUME NEW r \in Receivers, IInv, DeviceCopy(r)
  PROVE  /\ copies[r] # <<>>
         /\ Head(Chunks(copies[r])) \in Chunk /\ Cut(size, Head(Chunks(copies[r])))
         /\ loaded[r] = LoadedTo(size, Start(Head(Chunks(copies[r]))))
         /\ loaded'[r] = LoadedTo(size, After(size, Head(Chunks(copies[r]))))
         /\ \A q \in Receivers : q # r => loaded'[q] = loaded[q]
         /\ DOMAIN loaded' = Receivers
         /\ copies' = [copies EXCEPT ![r] = Tail(copies[r])]
         /\ Chunks(copies'[r]) = Tail(Chunks(copies[r]))
<1> DEFINE c == Head(copies[r]).chunk
           source == rbuf[r][Head(copies[r]).buf]
           place == c.chunkOffset .. c.chunkOffset + c.chunkSize - 1
           more == [i \in DOMAIN loaded[r][c.weight] \cup place |->
                      IF i \in place THEN source[c.offset + i - c.chunkOffset]
                      ELSE loaded[r][c.weight][i]]
<1>1. /\ copies[r] # <<>> /\ copies[r] \in Seq(Copy) /\ size \in Sizes
      /\ Chunks(copies[r]) \in Seq(Chunk)
      /\ copies' = [copies EXCEPT ![r] = Tail(copies[r])]
      /\ loaded' = [loaded EXCEPT ![r][c.weight] = more]
  BY Types, ChunksSeq DEF IInv, DeviceCopy
<1>2. /\ Chunks(copies[r]) # <<>> /\ Head(Chunks(copies[r])) = c
      /\ Chunks(Tail(copies[r])) = Tail(Chunks(copies[r]))
  BY <1>1, ChunksTail
<1>3. copies'[r] = Tail(copies[r])
  BY <1>1 DEF IInv, TypeOK
<1>4. PICK b \in Cursors(size), e \in Cursors(size) : Between(b, e)
  BY DEF IInv, Pipeline
<1>5. Flow(size, loaded[r], Chunks(copies[r]), merging[r], yielding[r],
           rmeta[r].meta, Mark(r, b, e))
  BY <1>4 DEF Between, FlowOf
<1>6. c \in Chunk /\ Cut(size, c) /\ loaded[r] = LoadedTo(size, Start(c))
  BY <1>1, <1>2, <1>5, FlowCopy
<1>7. HoldsChunk(source, c)
  <2>1. Head(copies[r]) = copies[r][1] /\ 1 \in 1 .. Len(copies[r])
    <3>1. copies[r] # <<>> /\ copies[r] \in Seq(Copy)
      BY <1>1
    <3> QED
      BY <3>1
  <2>2. source = rbuf[r][Other(recvBuf[r])]
    BY <2>1 DEF IInv, Consuming
  <2>3. Holds(rbuf[r][Other(recvBuf[r])], Chunks(copies[r]))
    BY DEF IInv, Consuming
  <2> QED
    BY <1>1, <1>2, <2>2, <2>3, HoldsTail
<1>8. [loaded[r] EXCEPT ![c.weight] = more] = LoadedTo(size, After(size, c))
  <2> HIDE DEF source, c
  <2> QED
    BY <1>1, <1>6, <1>7, LoadedCopy
<1> HIDE DEF more, c
<1>9. /\ loaded'[r] = [loaded[r] EXCEPT ![c.weight] = more]
      /\ \A q \in Receivers : q # r => loaded'[q] = loaded[q]
      /\ DOMAIN loaded' = Receivers
  BY <1>1 DEF IInv, Pipeline
<1> QED
  BY <1>1, <1>2, <1>3, <1>6, <1>8, <1>9

(* The copies left are still in order, and read the same buffer.           *)
LEMMA CopyIInv == ASSUME NEW r \in Receivers PROVE IInv /\ DeviceCopy(r) => IInv'
<1> SUFFICES ASSUME IInv, DeviceCopy(r) PROVE IInv'
  OBVIOUS
<1>1. /\ UNCHANGED <<size, senderVars, networkVars, rbuf, recvBuf, rop, rmeta,
                     yielding, merging>>
      /\ copies[r] # <<>> /\ copies[r] \in Seq(Copy) /\ Chunks(copies[r]) \in Seq(Chunk)
      /\ size \in Sizes
  BY Types, ChunksSeq DEF IInv, DeviceCopy
<1>2. /\ copies' = [copies EXCEPT ![r] = Tail(copies[r])] /\ DOMAIN loaded' = Receivers
      /\ Chunks(copies'[r]) = Tail(Chunks(copies[r]))
      /\ loaded'[r] = LoadedTo(size, After(size, Head(Chunks(copies[r]))))
      /\ \A q \in Receivers : q # r => loaded'[q] = loaded[q]
  BY CopyStep
<1>3. copies'[r] = Tail(copies[r])
  BY <1>2 DEF IInv, TypeOK
<1>4. Chunks(copies[r]) # <<>>
  BY <1>1, ChunksTail
<1>5. TypeOK'
  <2>1. Tail(copies[r]) \in Seq(Copy)
    BY <1>1
  <2> QED
    BY <1>1, <1>2, <2>1 DEF IInv, TypeOK, Copy, senderVars, networkVars
<1>6. Filling' /\ Sending'
  BY <1>1 DEF IInv, Filling, Sending, Exhausted, Quiet, senderVars
<1>7. ASSUME NEW q \in Receivers, q # r PROVE UNCHANGED Own(q)
  BY <1>1, <1>2, <1>7 DEF IInv, TypeOK, Own, networkVars
<1>8. UNCHANGED <<lastSent, op>>
  BY <1>1 DEF senderVars
<1>9. Receiving(r)'
  <2>1. rop[r] # "ended"
    BY <1>1 DEF IInv, Receiving
  <2> QED
    BY <1>1, <1>8, <2>1 DEF IInv, Receiving, networkVars
<1>10. Consuming(r)'
  <2> DEFINE rest == Tail(copies[r])
  <2>1. /\ Len(rest) = Len(copies[r]) - 1 /\ Len(copies[r]) \in Nat
        /\ \A j \in 1 .. Len(rest) : rest[j] = copies[r][j + 1]
    BY <1>1
  <2>2. copies'[r] = rest
    BY <1>3
  <2> HIDE DEF rest
  <2>3. ASSUME NEW j \in 1 .. Len(rest) PROVE rest[j].buf = Other(recvBuf[r])
    <3>1. j + 1 \in 1 .. Len(copies[r]) /\ rest[j] = copies[r][j + 1]
      BY <2>1
    <3> QED
      BY <3>1 DEF IInv, Consuming
  <2>4. Holds(rbuf[r][Other(recvBuf[r])], Chunks(copies'[r]))
    BY <1>1, <1>2, <1>4, HoldsTail DEF IInv, Consuming
  <2>5. \A j \in 1 .. Len(copies'[r]) : copies'[r][j].buf = Other(recvBuf'[r])
    BY <1>1, <2>2, <2>3
  <2> QED
    BY <1>1, <2>4, <2>5 DEF IInv, Consuming
<1>11. Pipeline'
  <2>1. PICK b \in Cursors(size), e \in Cursors(size) : Between(b, e)
    BY DEF IInv, Pipeline
  <2>2. Flow(size, loaded[r], Chunks(copies[r]), merging[r], yielding[r],
             rmeta[r].meta, Mark(r, b, e))
    BY <2>1 DEF Between, FlowOf
  <2>3. Flow(size, loaded'[r], Chunks(copies'[r]), merging[r], yielding[r],
             rmeta[r].meta, Mark(r, b, e))
    <3>1. Flow(size, LoadedTo(size, After(size, Head(Chunks(copies[r])))),
               Tail(Chunks(copies[r])), merging[r], yielding[r],
               rmeta[r].meta, Mark(r, b, e))
      BY <1>1, <1>4, <2>2, FlowCopy
    <3> QED
      BY <1>2, <3>1
  <2>4. FlowOf(r, Mark(r, b, e))'
    BY <1>1, <1>8, <2>3 DEF FlowOf, Mark
  <2>5. \A q \in Receivers : FlowOf(q, Mark(q, b, e))'
    BY <1>1, <1>7, <1>8, <2>1, <2>4, OthersKept DEF Between
  <2>6. Between(b, e)'
    BY <1>1, <2>1, <2>5 DEF Between, senderVars
  <2> QED
    BY <1>1, <1>2, <2>6 DEF Pipeline
<1> QED
  BY <1>1, <1>5, <1>6, <1>7, <1>8, <1>9, <1>10, <1>11, OthersKept DEF IInv

(* The buffers change roles when nothing is read from either.              *)
LEMMA SwapIInv == ASSUME NEW r \in Receivers PROVE IInv /\ ReceiverSwap(r) => IInv'
<1> SUFFICES ASSUME IInv, ReceiverSwap(r) PROVE IInv'
  OBVIOUS
<1>1. /\ rop[r] = "complete" /\ yielding[r] = <<>> /\ copies[r] = <<>>
      /\ recvBuf' = [recvBuf EXCEPT ![r] = Other(recvBuf[r])]
      /\ yielding' = [yielding EXCEPT ![r] = rmeta[r].meta]
      /\ rop' = [rop EXCEPT ![r] = IF rmeta[r].last THEN "none" ELSE "meta"]
      /\ rmeta' = [rmeta EXCEPT ![r] = EmptyMessage]
      /\ UNCHANGED <<size, senderVars, networkVars, rbuf, merging, copies, loaded>>
  BY DEF ReceiverSwap
<1>2. /\ recvBuf[r] \in Buffers /\ Other(recvBuf[r]) \in Buffers
      /\ Other(Other(recvBuf[r])) = recvBuf[r] /\ rmeta[r].meta \in Seq(Chunk)
      /\ EmptyMessage \in Message /\ EmptyMessage.meta = <<>>
  BY Types, OtherBuffer, MessageTypes DEF IInv
<1>3. /\ recvBuf'[r] = Other(recvBuf[r]) /\ yielding'[r] = rmeta[r].meta
      /\ rop'[r] = (IF rmeta[r].last THEN "none" ELSE "meta") /\ rmeta'[r] = EmptyMessage
  BY <1>1 DEF IInv, TypeOK
<1>4. TypeOK'
  BY <1>1, <1>2 DEF IInv, TypeOK, senderVars, networkVars
<1>5. Filling' /\ Sending'
  BY <1>1 DEF IInv, Filling, Sending, Exhausted, Quiet, senderVars
<1>6. ASSUME NEW q \in Receivers, q # r PROVE UNCHANGED Own(q)
  BY <1>1, <1>6 DEF IInv, TypeOK, Own, networkVars
<1>7. UNCHANGED <<lastSent, op>>
  BY <1>1 DEF senderVars
<1>8. Receiving(r)'
  BY <1>1, <1>3, <1>7 DEF IInv, Receiving, networkVars
<1>9. Consuming(r)'
  <2>1. Chunks(<<>>) = <<>> /\ Len(<<>>) = 0
    BY DEF Chunks
  <2>2. Holds(rbuf[r][recvBuf[r]], rmeta[r].meta)
    BY <1>1 DEF IInv, Consuming
  <2>3. copies'[r] = <<>>
    BY <1>1
  <2>4. Holds(rbuf[r][recvBuf[r]], Chunks(copies'[r]))
    BY <2>1, <2>3, HoldsEmpty
  <2>5. \A j \in 1 .. Len(copies'[r]) : copies'[r][j].buf = Other(recvBuf'[r])
    BY <2>1, <2>3
  <2>6. rop'[r] # "complete" /\ rbuf' = rbuf
    BY <1>1, <1>3
  <2> QED
    BY <1>2, <1>3, <2>2, <2>4, <2>5, <2>6 DEF Consuming
<1>10. Pipeline'
  <2>1. PICK b \in Cursors(size), e \in Cursors(size) : Between(b, e)
    BY DEF IInv, Pipeline
  <2>2. Flow(size, loaded[r], Chunks(copies[r]), merging[r], <<>>,
             rmeta[r].meta, Mark(r, b, e))
    BY <1>1, <2>1 DEF Between, FlowOf
  <2>3. Mark(r, b, e) \in Cursors(size)
    BY <2>1 DEF Mark
  <2>4. Flow(size, loaded[r], Chunks(copies[r]), merging[r], rmeta[r].meta,
             <<>>, Mark(r, b, e))
    BY <2>2, <2>3, FlowSwap
  <2>5. Mark(r, b, e)' = Mark(r, b, e)
    BY <1>1, <1>3, <1>7 DEF Mark
  <2>6. FlowOf(r, Mark(r, b, e))'
    BY <1>1, <1>2, <1>3, <2>4, <2>5 DEF FlowOf
  <2>7. \A q \in Receivers : FlowOf(q, Mark(q, b, e))'
    BY <1>1, <1>6, <1>7, <2>1, <2>6, OthersKept DEF Between
  <2>8. Between(b, e)'
    BY <1>1, <2>1, <2>7 DEF Between, senderVars
  <2> QED
    BY <1>1, <2>8 DEF IInv, Pipeline
<1> QED
  BY <1>1, <1>4, <1>5, <1>6, <1>7, <1>8, <1>9, <1>10, OthersKept DEF IInv

(* A receiver that has ended has nothing left.                             *)
LEMMA EndIInv == ASSUME NEW r \in Receivers PROVE IInv /\ ReceiverEnd(r) => IInv'
<1> SUFFICES ASSUME IInv, ReceiverEnd(r) PROVE IInv'
  OBVIOUS
<1>1. /\ rop[r] = "none" /\ yielding[r] = <<>> /\ copies[r] = <<>>
      /\ rop' = [rop EXCEPT ![r] = "ended"]
      /\ UNCHANGED <<size, senderVars, networkVars, rbuf, recvBuf, rmeta, yielding,
                     merging, copies, loaded>>
  BY DEF ReceiverEnd
<1>2. rop'[r] = "ended"
  BY <1>1 DEF IInv, TypeOK
<1>3. TypeOK'
  BY <1>1 DEF IInv, TypeOK, senderVars, networkVars
<1>4. Filling' /\ Sending'
  BY <1>1 DEF IInv, Filling, Sending, Exhausted, Quiet, senderVars
<1>5. ASSUME NEW q \in Receivers, q # r PROVE UNCHANGED Own(q)
  BY <1>1, <1>5 DEF IInv, TypeOK, Own, networkVars
<1>6. UNCHANGED <<lastSent, op>>
  BY <1>1 DEF senderVars
<1>7. Receiving(r)' /\ Consuming(r)'
  BY <1>1, <1>2, <1>6 DEF IInv, Receiving, Consuming, networkVars
<1>8. Pipeline'
  <2>1. PICK b \in Cursors(size), e \in Cursors(size) : Between(b, e)
    BY DEF IInv, Pipeline
  <2>2. FlowOf(r, Mark(r, b, e))'
    BY <1>1, <1>2, <1>6, <2>1 DEF Between, FlowOf, Mark
  <2>3. \A q \in Receivers : FlowOf(q, Mark(q, b, e))'
    BY <1>1, <1>5, <1>6, <2>1, <2>2, OthersKept DEF Between
  <2>4. Between(b, e)'
    BY <1>1, <2>1, <2>3 DEF Between, senderVars
  <2> QED
    BY <1>1, <2>4 DEF IInv, Pipeline
<1> QED
  BY <1>1, <1>3, <1>4, <1>5, <1>6, <1>7, <1>8, OthersKept DEF IInv

(* Every step keeps the invariant.                                         *)
LEMMA StepIInv == IInv /\ [Next]_vars => IInv'
<1> SUFFICES ASSUME IInv, [Next]_vars PROVE IInv'
  OBVIOUS
<1>1. CASE Sender
  BY <1>1, FillIInv, FlushIInv, LastIInv, PublishIInv, CompleteIInv DEF Sender
<1>2. ASSUME NEW r \in Receivers, Receiver(r) \/ Subscribe(r) PROVE IInv'
  BY <1>2, MetaIInv, BytesIInv, YieldIInv, CopyIInv, SwapIInv, EndIInv, SubscribeIInv
  DEF Receiver
<1>3. CASE UNCHANGED vars
  <2>1. UNCHANGED <<size, senderVars, networkVars, receiverVars>>
    BY <1>3 DEF vars
  <2>2. TypeOK'
    BY <2>1 DEF IInv, TypeOK, senderVars, networkVars, receiverVars
  <2>3. Filling' /\ Sending'
    BY <2>1 DEF IInv, Filling, Sending, Exhausted, Quiet, senderVars
  <2>4. ASSUME NEW r \in Receivers PROVE Receiving(r)' /\ Consuming(r)'
    BY <2>1, ConsumingKept DEF IInv, Receiving, senderVars, networkVars, receiverVars
  <2>5. Pipeline'
    <3>1. PICK b \in Cursors(size), e \in Cursors(size) : Between(b, e)
      BY DEF IInv, Pipeline
    <3>2. Between(b, e)'
      BY <2>1, <3>1 DEF Between, FlowOf, Mark, senderVars, receiverVars
    <3> QED
      BY <2>1, <3>2 DEF IInv, Pipeline, receiverVars
  <2> QED
    BY <2>2, <2>3, <2>4, <2>5 DEF IInv
<1> QED
  BY <1>1, <1>2, <1>3 DEF Next

(* In every reachable state the stream of bytes is cut into what is        *)
(* loaded, the copies, the chunks and buckets on their way and what is     *)
(* still to be sent, without a gap (nccl_checkpoint_engine.py:230-370).    *)
THEOREM Invariance == Spec => []IInv
BY InitIInv, StepIInv, PTL DEF Spec

-----------------------------------------------------------------------------
(* Types: every chunk lies in its bucket, and no weight is passed over,    *)
(* whatever the number and the sizes of weights and receivers.             *)
THEOREM TypeCorrect == Spec => []TypeOK
<1>1. IInv => TypeOK
  BY DEF IInv
<1> QED
  BY <1>1, Invariance, PTL

(* What a receiver has loaded, it has loaded up to some place.             *)
LEMMA LoadedSomewhere ==
  ASSUME IInv, NEW r \in Receivers
  PROVE  \E a \in Cursors(size) : loaded[r] = LoadedTo(size, a)
<1>1. PICK b \in Cursors(size), e \in Cursors(size) : Between(b, e)
  BY DEF IInv, Pipeline
<1> QED
  BY <1>1 DEF Between, FlowOf, Flow

(* No receiver ever has a byte of a weight in a wrong place: buffers are   *)
(* not overwritten while they are read, for any number of receivers.       *)
THEOREM BytesCorrect == Spec => []BytesInPlace
<1>1. IInv => BytesInPlace
  <2> SUFFICES ASSUME IInv, NEW r \in Receivers, NEW w \in Weights
               PROVE  \A i \in DOMAIN loaded[r][w] : loaded[r][w][i] = <<w, i>>
    BY DEF BytesInPlace
  <2>1. size \in Sizes
    BY Types DEF IInv
  <2>2. PICK a \in Cursors(size) : loaded[r] = LoadedTo(size, a)
    BY LoadedSomewhere
  <2>3. \A i \in DOMAIN LoadedTo(size, a)[w] : LoadedTo(size, a)[w][i] = <<w, i>>
    BY <2>1, LoadedWhole
  <2> QED
    BY <2>2, <2>3
<1> QED
  BY <1>1, Invariance, PTL

(* The assertions of the sender and of merge_weight_chunks never fail.     *)
THEOREM AssertionsCorrect == Spec => []AssertionsHold
<1>1. IInv => AssertionsHold
  <2> SUFFICES ASSUME IInv PROVE AssertionsHold
    OBVIOUS
  <2>1. ASSUME NEW r \in Receivers, yielding[r] # <<>>
        PROVE  MergeAccepts(r, Head(yielding[r]))
    <3>1. /\ size \in Sizes /\ yielding[r] \in Seq(Chunk)
          /\ Chunks(copies[r]) \in Seq(Chunk)
      BY Types, ChunksSeq DEF IInv
    <3>2. PICK b \in Cursors(size), e \in Cursors(size) : Between(b, e)
      BY DEF IInv, Pipeline
    <3>3. Flow(size, loaded[r], Chunks(copies[r]), merging[r], yielding[r],
               rmeta[r].meta, Mark(r, b, e))
      BY <3>2 DEF Between, FlowOf
    <3>4. /\ Head(yielding[r]) \in Chunk /\ Cut(size, Head(yielding[r]))
          /\ merging[r] = MergeAt(Start(Head(yielding[r])))
      BY <2>1, <3>1, <3>3, FlowYield
    <3> QED
      BY <3>1, <3>4, MergeStep
  <2> QED
    BY <2>1 DEF IInv, Filling, AssertionsHold
<1> QED
  BY <1>1, Invariance, PTL

-----------------------------------------------------------------------------
(* Refinement: the copy that completes a weight delivers it, the end of a  *)
(* receiver finishes its delivery, and every other step is invisible.      *)
Passed(a) == {w \in Weights : w < a[1]}

(* The weights that are intact are those the copies have passed.           *)
LEMMA IntactTo ==
  ASSUME NEW sz \in Sizes, NEW a \in Cursors(sz), NEW ld, ld = LoadedTo(sz, a)
  PROVE  {w \in Weights : ld[w] = [i \in 0 .. sz[w] - 1 |-> <<w, i>>]} = Passed(a)
BY LoadedWhole DEF Passed

(* Passing a chunk passes its weight if the chunk is the last of it.       *)
LEMMA PassedChunk ==
  ASSUME NEW sz \in Sizes, NEW c \in Chunk, Cut(sz, c)
  PROVE  \/ Passed(After(sz, c)) = Passed(Start(c))
         \/ /\ c.weight \in Weights /\ c.weight \notin Passed(Start(c))
            /\ Passed(After(sz, c)) = Passed(Start(c)) \cup {c.weight}
<1>1. c.weight \in Weights /\ c.weight \in Nat /\ Weights \subseteq Nat /\ Start(c)[1] = c.weight
  BY ChunkNumbers, Numbers DEF Weights, Start
<1>2. CASE c.chunkOffset + c.chunkSize = sz[c.weight]
  <2>1. After(sz, c)[1] = c.weight + 1
    BY <1>2 DEF After
  <2>2. \A w \in Weights : w < c.weight + 1 <=> w < c.weight \/ w = c.weight
    BY <1>1
  <2>3. ~(c.weight < c.weight)
    BY <1>1
  <2>4. Passed(Start(c)) = {w \in Weights : w < c.weight}
    BY <1>1 DEF Passed
  <2>5. Passed(After(sz, c)) = {w \in Weights : w < c.weight + 1}
    BY <2>1 DEF Passed
  <2> QED
    BY <1>1, <2>2, <2>3, <2>4, <2>5
<1>3. CASE c.chunkOffset + c.chunkSize # sz[c.weight]
  <2>1. After(sz, c)[1] = c.weight
    BY <1>3 DEF After
  <2> QED
    BY <1>1, <2>1 DEF Passed
<1> QED
  BY <1>2, <1>3

(* A receiver ends where the stream ends.                                  *)
LEMMA EndHasAll ==
  ASSUME IInv, NEW r \in Receivers, ReceiverEnd(r)
  PROVE  Intact(r) = Weights
<1>1. /\ size \in Sizes /\ rop[r] = "none" /\ yielding[r] = <<>> /\ copies[r] = <<>>
      /\ rmeta[r].meta = <<>> /\ lastSent /\ r \notin op.waiting
  BY Types, MessageTypes DEF IInv, Receiving, ReceiverEnd
<1>2. PICK b \in Cursors(size), e \in Cursors(size) : Between(b, e)
  BY DEF IInv, Pipeline
<1>3. cursor \in Cursors(size) /\ cursor[1] > NumWeights /\ e = cursor
  BY <1>1, <1>2 DEF IInv, Filling, Exhausted, Between
<1>4. Chunks(copies[r]) = <<>>
  BY <1>1 DEF Chunks
<1>5. Flow(size, loaded[r], <<>>, merging[r], <<>>, <<>>, cursor)
  BY <1>1, <1>2, <1>3, <1>4 DEF Between, FlowOf, Mark
<1>6. loaded[r] = LoadedTo(size, cursor)
  BY <1>5, FlowOver
<1>7. Intact(r) = Passed(cursor)
  BY <1>1, <1>3, <1>6, IntactTo DEF Intact
<1>8. cursor[1] = NumWeights + 1
  BY <1>1, <1>3, CursorNumbers
<1>9. Passed(cursor) = Weights
  BY <1>8, Numbers DEF Passed, Weights
<1> QED
  BY <1>7, <1>9

(* Nothing is delivered at the beginning.                                  *)
LEMMA InitRefines == Init => Delivery!Init
<1> SUFFICES ASSUME Init PROVE Delivery!Init
  OBVIOUS
<1>1. size \in Sizes
  BY DEF Init, Sizes
<1>2. ASSUME NEW r \in Receivers PROVE Intact(r) = {}
  <2>1. loaded[r] = LoadedTo(size, <<1, 0>>)
    BY <1>1, LoadedNothing DEF Init
  <2>2. Intact(r) = Passed(<<1, 0>>)
    BY <1>1, <2>1, FirstCursor, IntactTo DEF Intact
  <2>3. Passed(<<1, 0>>) = {}
    BY Numbers DEF Passed, Weights
  <2> QED
    BY <2>2, <2>3
<1>3. {r \in Receivers : Done(r)} = {}
  BY DEF Init, Done
<1> QED
  BY <1>2, <1>3 DEF Delivery!Init

(* Every step of the transfer is a step of the delivery or invisible.      *)
LEMMA StepRefines == IInv /\ [Next]_vars => [Delivery!Next]_(Delivery!vars)
<1> SUFFICES ASSUME IInv, [Next]_vars
             PROVE  Delivery!Next \/ UNCHANGED Delivery!vars
  OBVIOUS
<1> DEFINE got == [r \in Receivers |-> Intact(r)]
           finished == {r \in Receivers : Done(r)}
<1>1. ASSUME UNCHANGED <<loaded, size>>, \A q \in Receivers : Done(q)' <=> Done(q)
      PROVE  UNCHANGED Delivery!vars
  <2>1. got' = got
    BY <1>1 DEF Intact
  <2>2. finished' = finished
    BY <1>1
  <2> QED
    BY <2>1, <2>2 DEF Delivery!vars
<1>2. CASE Sender \/ UNCHANGED vars \/ \E r \in Receivers : Subscribe(r)
  <2>1. UNCHANGED <<loaded, size, rop>>
    BY <1>2 DEF Sender, SenderFill, SenderFlush, SenderLast, SenderPublish,
                SenderComplete, Subscribe, vars, receiverVars
  <2> QED
    BY <1>1, <2>1 DEF Done
<1>3. ASSUME NEW r \in Receivers, ReceiverMeta(r) \/ ReceiverBytes(r) \/ ReceiverSwap(r)
      PROVE  UNCHANGED Delivery!vars
  <2>1. /\ UNCHANGED <<loaded, size>> /\ rop[r] # "ended"
        /\ \/ rop' = [rop EXCEPT ![r] = "bytes"]
           \/ rop' = [rop EXCEPT ![r] = "complete"]
           \/ rop' = [rop EXCEPT ![r] = IF rmeta[r].last THEN "none" ELSE "meta"]
    BY <1>3 DEF ReceiverMeta, ReceiverBytes, ReceiverSwap
  <2>2. \A q \in Receivers : Done(q)' <=> Done(q)
    BY <2>1 DEF IInv, TypeOK, Done
  <2> QED
    BY <1>1, <2>1, <2>2
<1>4. ASSUME NEW r \in Receivers, ReceiverYield(r) PROVE UNCHANGED Delivery!vars
  BY <1>1, <1>4 DEF ReceiverYield, Done
<1>5. ASSUME NEW r \in Receivers, DeviceCopy(r)
      PROVE  Delivery!Next \/ UNCHANGED Delivery!vars
  <2> DEFINE c == Head(Chunks(copies[r]))
  <2>1. /\ c \in Chunk /\ Cut(size, c) /\ copies[r] # <<>>
        /\ loaded[r] = LoadedTo(size, Start(c)) /\ loaded'[r] = LoadedTo(size, After(size, c))
        /\ \A q \in Receivers : q # r => loaded'[q] = loaded[q]
    BY <1>5, CopyStep
  <2>2. size \in Sizes /\ size' = size /\ rop' = rop
    BY <1>5, Types DEF IInv, DeviceCopy
  <2> HIDE DEF c
  <2>3. Start(c) \in Cursors(size) /\ After(size, c) \in Cursors(size)
    BY <2>1, <2>2, AfterCut DEF Cut
  <2>4. Intact(r) = Passed(Start(c)) /\ Intact(r)' = Passed(After(size, c))
    BY <2>1, <2>2, <2>3, IntactTo DEF Intact
  <2>5. \A q \in Receivers : q # r => Intact(q)' = Intact(q)
    BY <2>1, <2>2 DEF Intact
  <2>6. finished' = finished /\ r \notin finished
    BY <2>1, <2>2 DEF IInv, Receiving, Done
  <2>7. CASE Passed(After(size, c)) = Passed(Start(c))
    <3>1. got' = got
      BY <2>4, <2>5, <2>7
    <3> QED
      BY <2>6, <3>1 DEF Delivery!vars
  <2>8. CASE /\ c.weight \in Weights /\ c.weight \notin Passed(Start(c))
             /\ Passed(After(size, c)) = Passed(Start(c)) \cup {c.weight}
    <3>1. got' = [got EXCEPT ![r] = @ \cup {c.weight}]
      BY <2>4, <2>5, <2>8
    <3>2. Delivery!Load(r, c.weight)
      BY <2>4, <2>6, <2>8, <3>1 DEF Delivery!Load
    <3> QED
      BY <2>8, <3>2 DEF Delivery!Next
  <2> QED
    BY <2>1, <2>2, <2>7, <2>8, PassedChunk
<1>6. ASSUME NEW r \in Receivers, ReceiverEnd(r) PROVE Delivery!Next
  <2>1. UNCHANGED <<loaded, size>> /\ rop[r] = "none" /\ rop' = [rop EXCEPT ![r] = "ended"]
    BY <1>6 DEF ReceiverEnd
  <2>2. got' = got
    BY <2>1 DEF Intact
  <2>3. finished' = finished \cup {r} /\ r \notin finished
    BY <2>1 DEF IInv, TypeOK, Done
  <2>4. got[r] = Weights
    BY <1>6, EndHasAll
  <2>5. Delivery!Finish(r)
    BY <2>2, <2>3, <2>4 DEF Delivery!Finish
  <2> QED
    BY <2>5 DEF Delivery!Next
<1> QED
  BY <1>2, <1>3, <1>4, <1>5, <1>6 DEF Next, Receiver

(* The broadcast implements WeightDelivery: each receiver loads every      *)
(* weight intact, and ends only with all of them.                          *)
THEOREM DeliveryImplemented == Spec => ImplementsDelivery
<1>1. Spec => []IInv /\ [][Next]_vars /\ Init
  BY Invariance, PTL DEF Spec
<1> QED
  BY <1>1, InitRefines, StepRefines, PTL DEF ImplementsDelivery, Delivery!Spec

=============================================================================
