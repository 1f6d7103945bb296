------------------------ MODULE BucketTransferProofs ------------------------
(***************************************************************************)
(* For any number of weights of any sizes, and any bucket: the engine      *)
(* loads every weight intact.                                              *)
(*                                                                         *)
(* The inductive invariant follows a bucket through its life: at any time  *)
(* at most one set of entries is in flight, held by the sender while it    *)
(* packs, then by the socket, then by the receiver while it loads.  The    *)
(* bytes the entries point at are theirs, and in flight and loaded         *)
(* together are exactly the weights the iterator has yielded.  REQ and REP *)
(* are in lockstep, so the sender never packs while the receiver loads.    *)
(***************************************************************************)
EXTENDS BucketTransfer, TLAPS

InFlight ==
  IF sender = "pack" THEN meta
  ELSE IF wire.kind = "bucket" THEN wire.meta ELSE loading

WeightsOf(entries) == {e.weight : e \in entries}

(* The entry points at the bytes of its weight.                            *)
Placed(e) ==
  \/ e.direct
  \/ /\ e.offset + size[e.weight] <= BucketSize
     /\ \A i \in 0 .. size[e.weight] - 1 :
          buffer[e.offset + i] = <<e.weight, i>>

(* Who may move: the sender, the message, the receiver or the reply.       *)
SenderMoves == wire = NoMessage /\ loading = {} /\ ~acked
MessageMoves == wire # NoMessage /\ loading = {} /\ ~acked /\ receiver = "recv"
ReceiverMoves == wire = NoMessage /\ ~acked /\ receiver = "load"
ReplyMoves == wire = NoMessage /\ loading = {} /\ acked

Lockstep ==
  /\ sender \in {"offer", "pack", "failed"} => SenderMoves /\ receiver = "recv"
  /\ sender = "ack" =>
       /\ MessageMoves \/ ReceiverMoves \/ (ReplyMoves /\ receiver = "recv")
       /\ wire.kind = "bucket" => ~wire.last
       /\ receiver = "load" => ~isLast
  /\ sender = "lastAck" =>
       /\ MessageMoves \/ ReceiverMoves \/ (ReplyMoves /\ receiver = "done")
       /\ (wire.kind = "bucket" /\ wire.last) \/ wire = NoMessage
       /\ receiver = "load" => isLast
       /\ next = NumWeights + 1
  /\ sender = "done" => /\ SenderMoves /\ receiver = "done"
                        /\ next = NumWeights + 1

Packing ==
  /\ sender \notin {"pack", "lastAck", "done"} => meta = {}
  /\ sender = "pack" =>
       \A e \in meta : ~e.direct /\ e.offset + size[e.weight] <= offset

Accounted ==
  /\ \A e, f \in InFlight : e.weight = f.weight => e = f
  /\ WeightsOf(InFlight) \cap DOMAIN loaded = {}
  /\ WeightsOf(InFlight) \cup DOMAIN loaded = 1 .. next - 1

InPlace == \A e \in InFlight : Placed(e)

Inv == TypeOK /\ Lockstep /\ Packing /\ Accounted /\ InPlace /\ LoadedIntact

-----------------------------------------------------------------------------
(* The transfer begins with nothing in flight.                             *)
LEMMA InitInv == Init => Inv
<1> SUFFICES ASSUME Init PROVE Inv
  OBVIOUS
<1>1. DOMAIN loaded = {}
  BY DEF Init
<1>2. TypeOK
  <2>1. size \in [Weights -> Sizes] /\ next \in 1 .. NumWeights + 1
    BY NumAssumption DEF Init
  <2>2. buffer \in [Positions -> Byte \cup {Blank}]
    BY DEF Init
  <2>3. wire \in Message /\ meta \subseteq Entry /\ loading \subseteq Entry
    BY DEF Init, Message
  <2>4. offset \in 0 .. BucketSize
    BY BucketAssumption DEF Init
  <2>5. DOMAIN loaded \subseteq Weights
    BY <1>1
  <2>6. /\ sender = "offer" /\ receiver = "recv"
        /\ acked = FALSE /\ isLast = FALSE
    BY DEF Init
  <2> QED
    BY <2>1, <2>2, <2>3, <2>4, <2>5, <2>6 DEF TypeOK
<1>3. InFlight = {}
  BY DEF Init, InFlight, NoMessage
<1>4. Lockstep
  BY DEF Init, Lockstep, SenderMoves
<1>5. Packing
  BY DEF Init, Packing
<1>6. Accounted
  BY <1>1, <1>3 DEF Accounted, WeightsOf, Init
<1>7. InPlace /\ LoadedIntact
  BY <1>1, <1>3 DEF InPlace, LoadedIntact
<1> QED
  BY <1>2, <1>4, <1>5, <1>6, <1>7 DEF Inv

(* The three kinds of message are told apart by their kind.                *)
LEMMA Kinds ==
  /\ NoMessage.kind = "none" /\ BufferMessage.kind = "buffer"
  /\ \A E, b : /\ BucketMessage(E, b).kind = "bucket"
               /\ BucketMessage(E, b).meta = E
               /\ BucketMessage(E, b).last = b
               /\ BucketMessage(E, b) # NoMessage
BY DEF NoMessage, BufferMessage, BucketMessage

(* A step that leaves what is in flight, the sizes, the buffer, the loaded *)
(* weights and the iterator alone keeps the books.                         *)
LEMMA BooksKept ==
  ASSUME Inv, InFlight' = InFlight, UNCHANGED <<size, buffer, loaded, next>>
  PROVE  Accounted' /\ InPlace' /\ LoadedIntact'
<1>1. Accounted'
  BY DEF Inv, Accounted, WeightsOf
<1>2. InPlace'
  BY DEF Inv, InPlace, Placed
<1>3. LoadedIntact'
  BY DEF Inv, LoadedIntact, Bytes
<1> QED
  BY <1>1, <1>2, <1>3

(* The messages have their types, and their fields are what was sent.      *)
LEMMA MessageTypes ==
  ASSUME NEW E \in SUBSET Entry, NEW b \in BOOLEAN
  PROVE  NoMessage \in Message /\ BufferMessage \in Message
         /\ BucketMessage(E, b) \in Message
  BY DEF Message, BucketMessage

(* What a bucket on the wire holds are entries.                            *)
LEMMA WireMeta ==
  ASSUME wire \in Message, wire.kind = "bucket"
  PROVE  wire.meta \in SUBSET Entry /\ wire.last \in BOOLEAN /\ wire # NoMessage
  BY DEF Message, NoMessage, BufferMessage

-----------------------------------------------------------------------------
(* The sender.                                                             *)
LEMMA OfferInv == Inv /\ SenderOffer => Inv'
<1> SUFFICES ASSUME Inv, SenderOffer PROVE Inv'
  OBVIOUS
<1> USE DEF SenderOffer, senderVars, receiverVars, Send
<1>1. TypeOK'
  BY MessageTypes DEF Inv, TypeOK
<1>2. Lockstep'
  BY Kinds DEF Inv, Lockstep, SenderMoves, MessageMoves, ReceiverMoves, ReplyMoves
<1>3. Packing'
  BY DEF Inv, Packing
<1>4. InFlight' = InFlight
  BY Kinds DEF Inv, Lockstep, SenderMoves, InFlight
<1>5. Accounted' /\ InPlace' /\ LoadedIntact'
  BY <1>4, BooksKept
<1> QED
  BY <1>1, <1>2, <1>3, <1>5 DEF Inv

(* The bucket moves from the sender to the socket with all its entries.    *)
LEMMA FlushInv == Inv /\ SenderFlush => Inv'
<1> SUFFICES ASSUME Inv, SenderFlush PROVE Inv'
  OBVIOUS
<1> USE DEF SenderFlush, senderVars, receiverVars, Send
<1>1. TypeOK'
  <2>1. meta \in SUBSET Entry
    BY DEF Inv, TypeOK
  <2>2. wire' \in Message
    BY <2>1, MessageTypes
  <2>3. offset' \in 0 .. BucketSize /\ meta' \subseteq Entry
    BY BucketAssumption
  <2> QED
    BY <2>2, <2>3 DEF Inv, TypeOK
<1>2. Lockstep'
  BY Kinds DEF Inv, Lockstep, SenderMoves, MessageMoves, ReceiverMoves, ReplyMoves
<1>3. Packing'
  BY DEF Inv, Packing
<1>4. InFlight' = InFlight
  BY Kinds DEF InFlight
<1>5. Accounted' /\ InPlace' /\ LoadedIntact'
  BY <1>4, BooksKept
<1> QED
  BY <1>1, <1>2, <1>3, <1>5 DEF Inv

(* So does the last one, and no weight is left to yield.                   *)
LEMMA LastInv == Inv /\ SenderLast => Inv'
<1> SUFFICES ASSUME Inv, SenderLast PROVE Inv'
  OBVIOUS
<1> USE DEF SenderLast, senderVars, receiverVars, Send
<1>1. TypeOK'
  BY MessageTypes DEF Inv, TypeOK
<1>2. next = NumWeights + 1
  BY NumAssumption DEF Inv, TypeOK
<1>3. Lockstep'
  BY <1>2, Kinds
  DEF Inv, Lockstep, SenderMoves, MessageMoves, ReceiverMoves, ReplyMoves
<1>4. Packing'
  BY DEF Inv, Packing
<1>5. InFlight' = InFlight
  BY Kinds DEF InFlight
<1>6. Accounted' /\ InPlace' /\ LoadedIntact'
  BY <1>5, BooksKept
<1> QED
  BY <1>1, <1>3, <1>4, <1>6 DEF Inv

(* The reply hands the turn back when nothing is in flight any more.       *)
LEMMA AckInv == Inv /\ SenderAck => Inv'
<1> SUFFICES ASSUME Inv, SenderAck PROVE Inv'
  OBVIOUS
<1> USE DEF SenderAck, senderVars, receiverVars
<1>1. TypeOK'
  BY DEF Inv, TypeOK
<1>2. ReplyMoves
  BY DEF Inv, Lockstep, MessageMoves, ReceiverMoves
<1>3. Lockstep'
  BY <1>2, Kinds
  DEF Inv, Lockstep, SenderMoves, MessageMoves, ReceiverMoves, ReplyMoves
<1>4. Packing'
  BY DEF Inv, Packing
<1>5. InFlight' = InFlight
  BY <1>2, Kinds DEF Inv, Packing, ReplyMoves, InFlight
<1>6. Accounted' /\ InPlace' /\ LoadedIntact'
  BY <1>5, BooksKept
<1> QED
  BY <1>1, <1>3, <1>4, <1>6 DEF Inv

(* A handle of one weight: it is in flight, and needs no place.            *)
LEMMA DirectInv == Inv /\ SenderDirect => Inv'
<1> SUFFICES ASSUME Inv, SenderDirect PROVE Inv'
  OBVIOUS
<1> USE DEF SenderDirect, senderVars, receiverVars, Send
<1> DEFINE entry == [weight |-> next, offset |-> 0, direct |-> TRUE]
<1>1. CASE UseShm
  <2>1. TypeOK'
    BY <1>1 DEF Inv, TypeOK
  <2>2. Lockstep'
    BY <1>1, Kinds DEF Inv, Lockstep, SenderMoves, MessageMoves, ReceiverMoves,
                       ReplyMoves
  <2>3. Packing'
    BY <1>1 DEF Inv, Packing
  <2>4. InFlight' = InFlight
    BY <1>1, Kinds DEF Inv, Lockstep, SenderMoves, InFlight
  <2>5. Accounted' /\ InPlace' /\ LoadedIntact'
    BY <1>1, <2>4, BooksKept
  <2> QED
    BY <2>1, <2>2, <2>3, <2>5 DEF Inv
<1>2. CASE ~UseShm
  <2>1. entry \in Entry /\ next \in Weights /\ next + 1 \in 1 .. NumWeights + 1
    BY NumAssumption, BucketAssumption DEF Inv, TypeOK, Entry, Weights
  <2>2. /\ wire' = BucketMessage({entry}, FALSE) /\ sender' = "ack"
        /\ next' = next + 1
    BY <1>2
  <2> HIDE DEF entry
  <2>3. TypeOK'
    <3>1. wire' \in Message
      BY <2>1, <2>2, MessageTypes
    <3> QED
      BY <2>1, <2>2, <3>1 DEF Inv, TypeOK
  <2>4. Lockstep'
    BY <2>2, Kinds DEF Inv, Lockstep, SenderMoves, MessageMoves, ReceiverMoves,
                       ReplyMoves
  <2>5. Packing'
    BY <2>2 DEF Inv, Packing
  <2>6. InFlight = {} /\ InFlight' = {entry}
    BY <2>2, Kinds DEF InFlight
  <2>7. entry.weight = next /\ entry.direct
    BY DEF entry
  <2>8. Accounted'
    BY <2>1, <2>2, <2>6, <2>7 DEF Inv, TypeOK, Accounted, WeightsOf
  <2>9. InPlace'
    BY <2>6, <2>7 DEF InPlace, Placed
  <2>10. LoadedIntact'
    BY <1>2 DEF Inv, LoadedIntact, Bytes
  <2> QED
    BY <2>3, <2>4, <2>5, <2>8, <2>9, <2>10 DEF Inv
<1> QED
  BY <1>1, <1>2

(* The weight goes behind the others, so their bytes stay where they are.  *)
LEMMA PackInv == Inv /\ SenderPack => Inv'
<1> SUFFICES ASSUME Inv, SenderPack PROVE Inv'
  OBVIOUS
<1> USE DEF SenderPack, receiverVars
<1> DEFINE entry == [weight |-> next, offset |-> offset, direct |-> FALSE]
<1>1. /\ next \in Weights /\ next + 1 \in 1 .. NumWeights + 1
      /\ size[next] \in Nat /\ next \in Nat /\ next >= 1
      /\ offset \in Nat /\ offset + size[next] \in 0 .. BucketSize
  BY NumAssumption, BucketAssumption, SizeAssumption
  DEF Inv, TypeOK, Weights, Sizes, Fits
<1>2. entry \in Entry /\ entry.weight = next /\ entry.offset = offset
      /\ entry.direct = FALSE
  BY <1>1 DEF Entry, Inv, TypeOK
<1>3. /\ meta' = meta \cup {entry}
      /\ offset' = offset + size[next]
      /\ next' = next + 1
      /\ InFlight = meta /\ InFlight' = meta'
  BY DEF InFlight
<1> HIDE DEF entry
<1>4. TypeOK'
  <2>1. buffer' \in [Positions -> Byte \cup {Blank}]
    <3>1. ASSUME NEW p \in Positions, p \in offset .. offset + size[next] - 1
          PROVE  <<next, p - offset>> \in Byte
      <4>1. size[next] <= MaxSize
        BY <1>1, SizeAssumption DEF Inv, TypeOK, Sizes
      <4>2. p - offset \in 0 .. MaxSize
        BY <1>1, <3>1, <4>1, SizeAssumption, BucketAssumption, SMTT(30) DEF Positions
      <4> QED
        BY <1>1, <4>2 DEF Byte
    <3> QED
      BY <3>1 DEF Inv, TypeOK
  <2>2. meta' \subseteq Entry /\ offset' \in 0 .. BucketSize
    BY <1>1, <1>2, <1>3 DEF Inv, TypeOK
  <2> QED
    BY <1>1, <2>1, <2>2 DEF Inv, TypeOK
<1>5. Lockstep'
  BY DEF Inv, Lockstep, SenderMoves
<1>6. \A e \in meta : /\ ~e.direct /\ e.offset + size[e.weight] <= offset
                      /\ e.offset \in Nat /\ e.weight \in Weights
                      /\ size[e.weight] \in Nat
  BY SizeAssumption DEF Inv, Packing, TypeOK, Entry, Sizes
<1>7. Packing'
  <2>1. ASSUME NEW e \in meta'
        PROVE  ~e.direct /\ e.offset + size[e.weight] <= offset'
    <3>1. CASE e = entry
      BY <3>1, <1>1, <1>2, <1>3
    <3>2. CASE e \in meta
      BY <3>2, <1>1, <1>3, <1>6
    <3> QED
      BY <3>1, <3>2, <1>3
  <2> QED
    BY <2>1 DEF Packing
<1>8. Accounted'
  <2>1. \A e \in meta : e.weight \in 1 .. next - 1
    BY <1>3 DEF Inv, Accounted, WeightsOf
  <2>2. \A e, f \in meta' : e.weight = f.weight => e = f
    BY <1>1, <1>2, <1>3, <2>1 DEF Inv, Accounted
  <2>3. {e.weight : e \in meta'} = {e.weight : e \in meta} \cup {next}
    BY <1>2, <1>3
  <2>4. next \notin DOMAIN loaded
    BY <1>1 DEF Inv, Accounted
  <2>5. 1 .. next' - 1 = (1 .. next - 1) \cup {next}
    BY <1>1, <1>3
  <2> QED
    BY <1>3, <2>2, <2>3, <2>4, <2>5 DEF Inv, Accounted, WeightsOf
<1>9. InPlace'
  <2> SUFFICES ASSUME NEW e \in meta' PROVE Placed(e)'
    BY <1>3 DEF InPlace
  <2>1. CASE e = entry
    <3>1. \A i \in 0 .. size[next] - 1 :
            /\ offset + i \in Positions
            /\ offset + i \in offset .. offset + size[next] - 1
            /\ (offset + i) - offset = i
      BY <1>1, BucketAssumption, SMTT(30) DEF Positions
    <3>2. \A i \in 0 .. size[next] - 1 : buffer'[offset + i] = <<next, i>>
      BY <3>1
    <3>3. e.offset + size[e.weight] <= BucketSize
      BY <1>1, <1>2, <2>1, BucketAssumption
    <3>4. \A i \in 0 .. size[e.weight] - 1 :
            buffer'[e.offset + i] = <<e.weight, i>>
      BY <1>2, <2>1, <3>2
    <3> QED
      BY <3>3, <3>4 DEF Placed
  <2>2. CASE e \in meta
    <3>1. Placed(e) /\ ~e.direct
      BY <1>3, <1>6, <2>2 DEF Inv, InPlace
    <3>2. ASSUME NEW i \in 0 .. size[e.weight] - 1
          PROVE  /\ e.offset + i \in Positions
                 /\ e.offset + i \notin offset .. offset + size[next] - 1
      <4>1. e.offset + size[e.weight] <= offset
            /\ e.offset \in Nat /\ size[e.weight] \in Nat
        BY <1>6, <2>2
      <4>2. e.offset + i < offset /\ e.offset + i \in Nat
        BY <1>1, <4>1
      <4> QED
        BY <1>1, <4>2, BucketAssumption DEF Positions
    <3>3. \A i \in 0 .. size[e.weight] - 1 :
            buffer'[e.offset + i] = buffer[e.offset + i]
      BY <3>2
    <3> QED
      BY <3>1, <3>3 DEF Placed
  <2> QED
    BY <1>3, <2>1, <2>2
<1>10. LoadedIntact'
  BY DEF Inv, LoadedIntact, Bytes
<1> QED
  BY <1>4, <1>5, <1>7, <1>8, <1>9, <1>10 DEF Inv

-----------------------------------------------------------------------------
(* The receiver.                                                           *)
LEMMA AttachInv == Inv /\ ReceiverAttach => Inv'
<1> SUFFICES ASSUME Inv, ReceiverAttach PROVE Inv'
  OBVIOUS
<1> USE DEF ReceiverAttach, senderVars, receiverVars
<1>1. TypeOK'
  BY MessageTypes DEF Inv, TypeOK, Message
<1>2. MessageMoves /\ sender = "ack"
  BY Kinds
  DEF Inv, TypeOK, Lockstep, SenderMoves, MessageMoves, ReceiverMoves, ReplyMoves,
      NoMessage, BufferMessage
<1>3. Lockstep'
  BY <1>2, Kinds DEF Inv, Lockstep, MessageMoves, ReplyMoves
<1>4. Packing'
  BY DEF Inv, Packing
<1>5. InFlight' = InFlight
  BY <1>2, Kinds DEF InFlight
<1>6. Accounted' /\ InPlace' /\ LoadedIntact'
  BY <1>5, BooksKept
<1> QED
  BY <1>1, <1>3, <1>4, <1>6 DEF Inv

(* The bucket moves from the socket to the receiver.                       *)
LEMMA RecvInv == Inv /\ ReceiverRecv => Inv'
<1> SUFFICES ASSUME Inv, ReceiverRecv PROVE Inv'
  OBVIOUS
<1> USE DEF ReceiverRecv, senderVars
<1>1. wire.meta \in SUBSET Entry /\ wire.last \in BOOLEAN /\ wire # NoMessage
  BY WireMeta DEF Inv, TypeOK
<1>2. TypeOK'
  BY <1>1 DEF Inv, TypeOK, Message
<1>3. sender \in {"ack", "lastAck"} /\ MessageMoves
  BY <1>1
  DEF Inv, TypeOK, Lockstep, SenderMoves, MessageMoves, ReceiverMoves, ReplyMoves
<1>4. Lockstep'
  BY <1>3, Kinds DEF Inv, Lockstep, MessageMoves, ReceiverMoves
<1>5. Packing'
  BY DEF Inv, Packing
<1>6. InFlight' = InFlight
  BY <1>3, Kinds DEF InFlight
<1>7. Accounted' /\ InPlace' /\ LoadedIntact'
  BY <1>6, BooksKept
<1> QED
  BY <1>2, <1>4, <1>5, <1>7 DEF Inv

(* The receiver replies when its copies have taken place.                  *)
LEMMA ReplyInv == Inv /\ ReceiverReply => Inv'
<1> SUFFICES ASSUME Inv, ReceiverReply PROVE Inv'
  OBVIOUS
<1> USE DEF ReceiverReply, senderVars
<1>1. TypeOK'
  BY DEF Inv, TypeOK
<1>2. sender \in {"ack", "lastAck"} /\ ReceiverMoves
  BY DEF Inv, TypeOK, Lockstep, SenderMoves, MessageMoves, ReceiverMoves, ReplyMoves
<1>3. Lockstep'
  BY <1>2, Kinds DEF Inv, Lockstep, ReceiverMoves, ReplyMoves
<1>4. Packing'
  BY DEF Inv, Packing
<1>5. InFlight' = InFlight
  BY DEF InFlight
<1>6. Accounted' /\ InPlace' /\ LoadedIntact'
  BY <1>5, BooksKept
<1> QED
  BY <1>1, <1>3, <1>4, <1>6 DEF Inv

(* The receiver copies a weight from where its entry says it is.           *)
LEMMA LoadInv ==
  ASSUME Inv, ReceiverLoad
  PROVE  /\ Inv'
         /\ receiver = "load"
         /\ \E w \in Weights : /\ w \notin DOMAIN loaded
                               /\ DOMAIN loaded' = DOMAIN loaded \cup {w}
<1> USE DEF senderVars
<1>1. PICK e \in loading :
        /\ loading' = loading \ {e}
        /\ loaded' = [w \in DOMAIN loaded \cup {e.weight} |->
             IF w # e.weight THEN loaded[w]
             ELSE IF e.direct THEN Bytes(w)
             ELSE [i \in 0 .. size[w] - 1 |-> buffer[e.offset + i]]]
  BY DEF ReceiverLoad
<1>2. UNCHANGED <<size, senderVars, buffer, wire, acked, receiver, isLast>>
  BY DEF ReceiverLoad
<1>3. e \in Entry /\ e.weight \in Weights
  BY DEF Inv, TypeOK, Entry
<1>4. /\ sender \in {"ack", "lastAck"} /\ receiver = "load"
      /\ wire = NoMessage /\ ~acked
  BY DEF Inv, TypeOK, Lockstep, SenderMoves, MessageMoves, ReceiverMoves, ReplyMoves
<1>5. InFlight = loading /\ InFlight' = loading \ {e}
  BY <1>1, <1>2, <1>4, Kinds DEF InFlight
<1>6. DOMAIN loaded' = DOMAIN loaded \cup {e.weight}
  BY <1>1
<1>7. TypeOK'
  BY <1>1, <1>2, <1>3, <1>6 DEF Inv, TypeOK
<1>8. Lockstep'
  BY <1>2, <1>4, Kinds
  DEF Inv, Lockstep, SenderMoves, MessageMoves, ReceiverMoves, ReplyMoves
<1>9. Packing'
  BY <1>2 DEF Inv, Packing
<1>10. e.weight \notin DOMAIN loaded
  BY <1>5 DEF Inv, Accounted, WeightsOf
<1>11. Accounted'
  <2>1. \A f, g \in loading : f.weight = g.weight => f = g
    BY <1>5 DEF Inv, Accounted
  <2>2. {f.weight : f \in loading \ {e}} = {f.weight : f \in loading} \ {e.weight}
    BY <2>1
  <2> QED
    BY <1>2, <1>5, <1>6, <2>1, <2>2 DEF Inv, Accounted, WeightsOf
<1>12. InPlace'
  BY <1>2, <1>5 DEF Inv, InPlace, Placed
<1>13. LoadedIntact'
  <2> SUFFICES ASSUME NEW w \in DOMAIN loaded' PROVE loaded'[w] = Bytes(w)
    BY <1>2 DEF LoadedIntact, Bytes
  <2>1. CASE w # e.weight
    BY <1>1, <1>6, <2>1 DEF Inv, LoadedIntact
  <2>2. CASE w = e.weight /\ e.direct
    BY <1>1, <1>6, <2>2
  <2>3. CASE w = e.weight /\ ~e.direct
    <3>1. loaded'[w] = [i \in 0 .. size[w] - 1 |-> buffer[e.offset + i]]
      BY <1>1, <1>6, <2>3
    <3>2. \A i \in 0 .. size[w] - 1 : buffer[e.offset + i] = <<w, i>>
      BY <1>5, <2>3 DEF Inv, InPlace, Placed
    <3> QED
      BY <3>1, <3>2 DEF Bytes
  <2> QED
    BY <2>1, <2>2, <2>3
<1> QED
  BY <1>3, <1>4, <1>6, <1>7, <1>8, <1>9, <1>10, <1>11, <1>12, <1>13 DEF Inv

(* A step of neither process changes nothing.                              *)
LEMMA StutterInv == Inv /\ UNCHANGED vars => Inv'
<1> SUFFICES ASSUME Inv, UNCHANGED vars PROVE Inv'
  OBVIOUS
<1> USE DEF vars, senderVars, receiverVars
<1>1. TypeOK' /\ Packing'
  BY DEF Inv, TypeOK, Packing
<1>2. Lockstep'
  BY DEF Inv, Lockstep, SenderMoves, MessageMoves, ReceiverMoves, ReplyMoves
<1>3. InFlight' = InFlight
  BY DEF InFlight
<1>4. Accounted' /\ InPlace' /\ LoadedIntact'
  BY <1>3, BooksKept
<1> QED
  BY <1>1, <1>2, <1>4 DEF Inv

(* Every step keeps the invariant.                                         *)
LEMMA StepInv == Inv /\ [Next]_vars => Inv'
BY OfferInv, PackInv, FlushInv, DirectInv, LastInv, AckInv,
   AttachInv, RecvInv, LoadInv, ReplyInv, StutterInv
DEF Next, Sender, Receiver

(* The inductive invariant holds in every reachable state.                 *)
THEOREM Invariance == Spec => []Inv
BY InitInv, StepInv, PTL DEF Spec

(* Types: offsets and positions stay inside the bucket, whatever its size. *)
THEOREM TypeCorrect == Spec => []TypeOK
<1>1. Inv => TypeOK
  BY DEF Inv
<1> QED
  BY <1>1, Invariance, PTL

(* What is loaded as a weight is that weight, for any number and any sizes *)
(* of weights and however late the copies take place.                      *)
THEOREM LoadedCorrect == Spec => []LoadedIntact
<1>1. Inv => LoadedIntact
  BY DEF Inv
<1> QED
  BY <1>1, Invariance, PTL

-----------------------------------------------------------------------------
(* Refinement: loading an entry delivers its weight, the reply to the last *)
(* bucket ends the delivery, and every other step is invisible.            *)

(* When the receiver replies to the last bucket it has all the weights.    *)
LEMMA LastHasAll ==
  ASSUME Inv, ReceiverReply, isLast
  PROVE  DOMAIN loaded = Weights
<1>1. sender = "lastAck" /\ ReceiverMoves
  BY DEF ReceiverReply, Inv, TypeOK, Lockstep, SenderMoves, MessageMoves,
         ReceiverMoves, ReplyMoves
<1>2. InFlight = {}
  BY <1>1, Kinds DEF ReceiverReply, ReceiverMoves, InFlight
<1>3. next = NumWeights + 1
  BY <1>1 DEF Inv, Lockstep
<1>4. 1 .. next - 1 = Weights
  BY <1>3, NumAssumption DEF Weights
<1>5. WeightsOf(InFlight) = {}
  BY <1>2 DEF WeightsOf
<1> QED
  BY <1>4, <1>5 DEF Inv, Accounted

(* Nothing is delivered at the beginning.                                  *)
LEMMA InitRefines == Init => Delivery!Init
<1> SUFFICES ASSUME Init PROVE Delivery!Init
  OBVIOUS
<1>1. DOMAIN loaded = {} /\ receiver = "recv"
  BY DEF Init
<1> QED
  BY <1>1 DEF Delivery!Init

(* Every step of the transfer is a step of the delivery or invisible.      *)
LEMMA StepRefines == Inv /\ [Next]_vars => [Delivery!Next]_(Delivery!vars)
<1> SUFFICES ASSUME Inv, [Next]_vars
             PROVE  Delivery!Next \/ UNCHANGED Delivery!vars
  OBVIOUS
<1>0. Inv'
  BY StepInv
<1> DEFINE got == {w \in DOMAIN loaded : loaded[w] = Bytes(w)}
           finished == IF receiver = "done" THEN {"engine"} ELSE {}
<1>1. got = DOMAIN loaded /\ got' = DOMAIN loaded'
  BY <1>0 DEF Inv, LoadedIntact
<1>2. ASSUME UNCHANGED <<loaded, size>>, finished' = finished
      PROVE  UNCHANGED Delivery!vars
  BY <1>2 DEF Delivery!vars, Bytes
<1>3. CASE ReceiverLoad
  <2>1. PICK w \in Weights : /\ w \notin DOMAIN loaded
                             /\ DOMAIN loaded' = DOMAIN loaded \cup {w}
    BY <1>3, LoadInv
  <2>2. receiver = "load" /\ receiver' = receiver
    BY <1>3, LoadInv DEF ReceiverLoad
  <2>3. Delivery!Load("engine", w)
    BY <1>1, <2>1, <2>2 DEF Delivery!Load
  <2> QED
    BY <2>3 DEF Delivery!Next
<1>4. CASE ReceiverReply
  <2>1. CASE isLast
    <3>1. got = Weights
      BY <1>1, <1>4, <2>1, LastHasAll
    <3>2. receiver = "load" /\ receiver' = "done" /\ got' = got
      BY <1>4, <2>1 DEF ReceiverReply, Bytes
    <3>3. Delivery!Finish("engine")
      BY <3>1, <3>2 DEF Delivery!Finish
    <3> QED
      BY <3>3 DEF Delivery!Next
  <2>2. CASE ~isLast
    <3>1. finished' = finished /\ UNCHANGED <<loaded, size>>
      BY <1>4, <2>2 DEF ReceiverReply
    <3> QED
      BY <3>1, <1>2
  <2> QED
    BY <2>1, <2>2
<1>5. CASE Sender \/ ReceiverAttach \/ UNCHANGED vars
  <2>1. UNCHANGED <<loaded, size, receiver>>
    BY <1>5 DEF Sender, SenderOffer, SenderPack, SenderFlush, SenderDirect,
                SenderLast, SenderAck, ReceiverAttach, vars, receiverVars
  <2> QED
    BY <2>1, <1>2
<1>6. CASE ReceiverRecv
  <2>1. finished' = finished /\ UNCHANGED <<loaded, size>>
    BY <1>6 DEF ReceiverRecv
  <2> QED
    BY <2>1, <1>2
<1> QED
  BY <1>3, <1>4, <1>5, <1>6 DEF Next, Receiver

(* The bucketed transfer implements WeightDelivery, whatever the weights.  *)
THEOREM DeliveryImplemented == Spec => ImplementsDelivery
<1>1. Spec => []Inv /\ [][Next]_vars /\ Init
  BY Invariance, PTL DEF Spec
<1> QED
  BY <1>1, InitRefines, StepRefines, PTL DEF ImplementsDelivery, Delivery!Spec

=============================================================================
