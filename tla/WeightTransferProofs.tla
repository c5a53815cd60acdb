------------------------ MODULE WeightTransferProofs ------------------------
(***************************************************************************)
(* Proofs about WeightTransfer, for any number of ranks, any weights and   *)
(* any bucket.                                                             *)
(*                                                                         *)
(* A place in the trainer's stream of chunks is a weight and a byte of it. *)
(* Chain says that what is packed, broadcast, arrived and yielded are      *)
(* stretches of that stream that join without a gap, each in a buffer that *)
(* holds its bytes; Numbered, that a rank holds consecutive weights, from  *)
(* the ones loaded to the one the stream is at; Landing, that every copy   *)
(* under way still finds its source and puts it where it belongs.          *)
(***************************************************************************)
EXTENDS WeightTransfer, SequenceTheorems, TLAPS

USE TransferAssumption

\* Where a chunk begins, and where the next one does.
Begin(chunk) == <<chunk.weight, chunk.at>>
After(chunk) ==
    IF chunk.at + chunk.size = Sizes[chunk.weight] THEN <<chunk.weight + 1, 0>>
    ELSE <<chunk.weight, chunk.at + chunk.size>>

\* A chunk is as large as weight and bucket allow.
Proper(chunk) ==
    /\ chunk \in Chunk
    /\ chunk.at < Sizes[chunk.weight] /\ (chunk.at = 0 \/ Bucket <= chunk.at)
    /\ chunk.size = IF Bucket < Sizes[chunk.weight] - chunk.at THEN Bucket ELSE Sizes[chunk.weight] - chunk.at
    /\ chunk.offset + chunk.size <= Bucket

\* A stretch of the stream that ends where end is, and where it begins.
Linked(s, end) ==
    /\ s \in Seq(Chunk)
    /\ \A i \in DOMAIN s : Proper(s[i])
    /\ \A i \in 1 .. Len(s) - 1 : After(s[i]) = Begin(s[i + 1])
    /\ s # <<>> => After(s[Len(s)]) = end
Start(s, end) == IF s = <<>> THEN end ELSE Begin(s[1])

HoldsChunk(buf, chunk) == \A k \in 0 .. chunk.size - 1 : buf[chunk.offset + k] = <<chunk.weight, chunk.at + k>>
Holds(buf, s) == \A i \in DOMAIN s : HoldsChunk(buf, s[i])
HoldsWeight(buf, offset, w) == \A k \in 0 .. Sizes[w] - 1 : buf[offset + k] = <<w, k>>

RankFunctions ==
    /\ DOMAIN recvBufs = Ranks /\ DOMAIN yielding = Ranks /\ DOMAIN listening = Ranks /\ DOMAIN arrived = Ranks
    /\ DOMAIN chunks = Ranks /\ DOMAIN isLast = Ranks /\ DOMAIN merging = Ranks /\ DOMAIN mergeBuf = Ranks
    /\ DOMAIN item = Ranks /\ DOMAIN ipcMeta = Ranks /\ DOMAIN ipcBuf = Ranks /\ DOMAIN pending = Ranks
    /\ DOMAIN unacked = Ranks /\ DOMAIN sender = Ranks /\ DOMAIN inbox = Ranks /\ DOMAIN loaded = Ranks

\* The trainer packs the chunks in turn; only a chunk that fills the bucket
\* leaves its weight unfinished.
Here == <<nextWeight, nextByte>>
Packing ==
    /\ nextWeight \in 1 .. N + 1 /\ nextByte \in Nat /\ fill \in {1, 2}
    /\ nextByte # 0 => nextWeight <= N /\ Bucket <= nextByte /\ nextByte < Sizes[nextWeight]
    /\ Linked(bucketMeta, Here)
    /\ Used(bucketMeta) \in 0 .. Bucket
    /\ \A i \in DOMAIN bucketMeta :
          /\ bucketMeta[i].offset + bucketMeta[i].size <= Used(bucketMeta)
          /\ bucketMeta[i].weight <= nextWeight
          /\ bucketMeta[i].weight = nextWeight => Used(bucketMeta) = Bucket
    /\ \A i, j \in DOMAIN bucketMeta : bucketMeta[i].weight = bucketMeta[j].weight => i = j
    /\ DOMAIN sendBufs = {1, 2} /\ \A b \in {1, 2} : DOMAIN sendBufs[b] = 0 .. Bucket - 1
    /\ Holds(sendBufs[fill], bucketMeta)

\* The bucket that is broadcast is followed by the one that is packed.
OpEnd == IF op.last THEN Here ELSE Start(bucketMeta, Here)
Broadcasting ==
    /\ op.last \in BOOLEAN /\ unreached \subseteq Ranks
    /\ op.last => nextWeight = N + 1 /\ op.buffer = fill
    /\ ~op.last => op.buffer = 3 - fill
    /\ Linked(op.chunks, OpEnd)
    /\ unreached # {} => Holds(sendBufs[op.buffer], op.chunks)

\* At a rank: the bucket that has arrived is followed by the one broadcast, and
\* what is left of the one yielded by the one that has arrived.
Arrived(r) == IF arrived[r] = <<>> THEN <<>> ELSE arrived[r][1].chunks
ArrivedEnd(r) == IF r \in unreached THEN Start(op.chunks, OpEnd) ELSE OpEnd
ChunksEnd(r) == Start(Arrived(r), ArrivedEnd(r))
Position(r) == Start(chunks[r], ChunksEnd(r))
Chain(r) ==
    /\ yielding[r] \in {1, 2} /\ listening[r] \in {0, 3 - yielding[r]} /\ isLast[r] \in BOOLEAN
    /\ listening[r] # 0 => arrived[r] = <<>>
    /\ arrived[r] # <<>> => arrived[r] = <<arrived[r][1]>> /\ arrived[r][1].last \in BOOLEAN
    /\ Linked(Arrived(r), ArrivedEnd(r)) /\ Linked(chunks[r], ChunksEnd(r))
    /\ DOMAIN recvBufs[r] = {1, 2} /\ \A b \in {1, 2} : DOMAIN recvBufs[r][b] = 0 .. Bucket - 1
    /\ Holds(recvBufs[r][3 - yielding[r]], Arrived(r))
    /\ Holds(recvBufs[r][yielding[r]], chunks[r])

\* Weights loaded, to be loaded, packed, in hand and to come are consecutive.
LoadedWeight(w) == [weight |-> w, bytes |-> WeightBytes(w)]
InHand(r) == IF item[r] = None THEN 0 ELSE 1
Numbered(r) ==
    /\ sender[r] \in {"pull", "place", "done"} /\ unacked[r] \in BOOLEAN
    /\ sender[r] = "place" <=> item[r] # None
    /\ loaded[r] \in Seq({LoadedWeight(w) : w \in 1 .. N}) /\ inbox[r] \in Seq(Tensor) /\ ipcMeta[r] \in Seq(Tensor)
    /\ \A i \in DOMAIN inbox[r] :
          inbox[r][i].weight = Len(loaded[r]) + i /\ inbox[r][i].size = Sizes[inbox[r][i].weight]
    /\ \A i \in DOMAIN ipcMeta[r] :
          /\ ipcMeta[r][i].weight = Len(loaded[r]) + Len(inbox[r]) + i /\ ipcMeta[r][i].shared
          /\ ipcMeta[r][i].size = Sizes[ipcMeta[r][i].weight]
    /\ item[r] # None => /\ item[r].weight = Len(loaded[r]) + Len(inbox[r]) + Len(ipcMeta[r]) + 1
                         /\ item[r].weight \in 1 .. N
    /\ Position(r)[1] = Len(loaded[r]) + Len(inbox[r]) + Len(ipcMeta[r]) + InHand(r) + 1
    /\ merging[r] = NotMerging => Position(r)[2] = 0
    /\ merging[r] # NotMerging =>
          /\ Position(r) = <<merging[r].weight, merging[r].bytes>>
          /\ merging[r].weight \in 1 .. N /\ merging[r].bytes \in Nat
          /\ Bucket <= merging[r].bytes /\ merging[r].bytes < Sizes[merging[r].weight]
          /\ item[r] = None
    /\ unacked[r] => ipcMeta[r] = <<>> /\ pending[r] = <<>>
    /\ inbox[r] # <<>> => unacked[r]

\* The large weight that is being merged or has been, and how much of it.
Large(r) ==
    IF merging[r] # NotMerging THEN merging[r].weight
    ELSE IF item[r] # None /\ Sizes[item[r].weight] > Bucket THEN item[r].weight ELSE 0
LargeBytes(r) == IF merging[r] # NotMerging THEN merging[r].bytes ELSE Sizes[item[r].weight]

Copy == [buffer : {1, 2}, offset : Nat, size : Nat \ {0}, into : {"merge", "ipc"}, at : Nat]
Covers(copy, into, p) == copy.into = into /\ copy.at <= p /\ p < copy.at + copy.size
UnderWay(r) == {pending[r][i] : i \in DOMAIN pending[r]}
WillLand(r, into, p) == \E copy \in UnderWay(r) : Covers(copy, into, p)

\* A copy under way has its source in the buffer chunks are yielded from.
SourceHas(r, copy, w, from) ==
    \A k \in 0 .. copy.size - 1 : recvBufs[r][yielding[r]][copy.offset + k] = <<w, from + k>>
PacksTensor(r, copy, m) ==
    /\ ipcMeta[r][m].offset = copy.at /\ ipcMeta[r][m].size = copy.size
    /\ SourceHas(r, copy, ipcMeta[r][m].weight, 0)
MergesLarge(r, copy) ==
    Large(r) # 0 /\ copy.at + copy.size <= LargeBytes(r) /\ SourceHas(r, copy, Large(r), copy.at)
Sourced(r, copy) ==
    /\ copy.buffer = yielding[r] /\ copy.offset + copy.size <= Bucket
    /\ copy.into = "ipc" => \E m \in DOMAIN ipcMeta[r] : PacksTensor(r, copy, m)
    /\ copy.into = "merge" => MergesLarge(r, copy)

PackedApart(r) ==
    /\ Used(ipcMeta[r]) \in 0 .. Bucket
    /\ \A i \in DOMAIN ipcMeta[r] : ipcMeta[r][i].offset + ipcMeta[r][i].size <= Used(ipcMeta[r])
    /\ \A i, j \in DOMAIN ipcMeta[r] : i < j => ipcMeta[r][i].offset + ipcMeta[r][i].size <= ipcMeta[r][j].offset

PackedBytes(r) ==
    \A m \in DOMAIN ipcMeta[r] : \A p \in Nat :
       ipcMeta[r][m].offset <= p /\ p < ipcMeta[r][m].offset + ipcMeta[r][m].size =>
          ipcBuf[r][p] = <<ipcMeta[r][m].weight, p - ipcMeta[r][m].offset>> \/ WillLand(r, "ipc", p)
MergedBytes(r) ==
    Large(r) # 0 =>
       /\ DOMAIN mergeBuf[r] = 0 .. Sizes[Large(r)] - 1
       /\ \A p \in 0 .. LargeBytes(r) - 1 : mergeBuf[r][p] = <<Large(r), p>> \/ WillLand(r, "merge", p)
ItemHeld(r) ==
    item[r] # None /\ Sizes[item[r].weight] <= Bucket =>
       /\ item[r].buffer = yielding[r] /\ item[r].offset \in Nat
       /\ item[r].offset + Sizes[item[r].weight] <= Bucket
       /\ HoldsWeight(recvBufs[r][yielding[r]], item[r].offset, item[r].weight)

Landing(r) ==
    /\ PackedApart(r) /\ DOMAIN ipcBuf[r] = 0 .. Bucket - 1
    /\ pending[r] \in Seq(Copy) /\ \A copy \in UnderWay(r) : Sourced(r, copy)
    /\ PackedBytes(r) /\ MergedBytes(r) /\ ItemHeld(r)

\* What the server is told of is there.
Readable(r) ==
    \A i \in DOMAIN inbox[r] :
        /\ inbox[r][i].shared => HoldsWeight(ipcBuf[r], inbox[r][i].offset, inbox[r][i].weight)
        /\ ~inbox[r][i].shared => inbox[r][i].offset = 0 /\ HoldsWeight(mergeBuf[r], 0, inbox[r][i].weight)

AtRank(r) == Chain(r) /\ Numbered(r) /\ Landing(r) /\ Readable(r)
Inv == RankFunctions /\ Packing /\ Broadcasting /\ \A r \in Ranks : AtRank(r)

-----------------------------------------------------------------------------
(* Weights, chunks and stretches of the stream                             *)

LEMMA SizesFacts == N \in Nat /\ \A w \in 1 .. N : Sizes[w] \in Nat \ {0}
  BY DEF N

LEMMA ChunkFacts ==
    ASSUME NEW chunk, Proper(chunk)
    PROVE  /\ chunk.weight \in 1 .. N /\ chunk.at \in Nat /\ chunk.size \in Nat \ {0} /\ chunk.offset \in Nat
           /\ Sizes[chunk.weight] \in Nat \ {0}
           /\ chunk.at < Sizes[chunk.weight] /\ chunk.at + chunk.size <= Sizes[chunk.weight]
           /\ chunk.at = 0 \/ Bucket <= chunk.at
           /\ chunk.offset + chunk.size <= Bucket
           /\ chunk.at + chunk.size # Sizes[chunk.weight] => chunk.size = Bucket
           /\ Sizes[chunk.weight] <= Bucket => chunk.at = 0 /\ chunk.size = Sizes[chunk.weight]
  BY SizesFacts DEF Proper, Chunk

LEMMA EmptyLinked == \A end : Linked(<<>>, end) /\ Start(<<>>, end) = end
  BY DEF Linked, Start

\* A chunk is added to a stretch.
LEMMA LinkedAppend ==
    ASSUME NEW s, NEW chunk, Linked(s, Begin(chunk)), Proper(chunk)
    PROVE  /\ Linked(Append(s, chunk), After(chunk))
           /\ Start(Append(s, chunk), After(chunk)) = Start(s, Begin(chunk))
<1>1. s \in Seq(Chunk) /\ chunk \in Chunk
  BY DEF Linked, Proper
<1>2. /\ Append(s, chunk) \in Seq(Chunk) /\ Len(Append(s, chunk)) = Len(s) + 1 /\ Append(s, chunk) # <<>>
      /\ \A i \in 1 .. Len(s) : Append(s, chunk)[i] = s[i]
      /\ Append(s, chunk)[Len(s) + 1] = chunk
  BY <1>1
<1>3. Len(s) \in Nat /\ DOMAIN s = 1 .. Len(s) /\ DOMAIN Append(s, chunk) = 1 .. Len(s) + 1
  BY <1>1, <1>2
<1> DEFINE longer == Append(s, chunk)
<1> HIDE DEF longer
<1>4. \A i \in 1 .. Len(s) + 1 : Proper(longer[i])
  BY <1>2, <1>3 DEF Linked, longer
<1>5. ASSUME NEW i \in 1 .. Len(s) PROVE After(longer[i]) = Begin(longer[i + 1])
  <2>1. CASE i = Len(s)
    <3>1. s # <<>> /\ After(s[i]) = Begin(chunk)
      BY <1>1, <2>1 DEF Linked
    <3>2. longer[i] = s[i] /\ longer[i + 1] = chunk
      BY <1>2, <2>1 DEF longer
    <3> QED
      BY <3>1, <3>2
  <2>2. CASE i \in 1 .. Len(s) - 1
    <3>1. longer[i] = s[i] /\ longer[i + 1] = s[i + 1]
      BY <1>2, <1>3, <2>2 DEF longer
    <3>2. After(s[i]) = Begin(s[i + 1])
      BY <2>2 DEF Linked
    <3> QED
      BY <3>1, <3>2
  <2>3. i = Len(s) \/ i \in 1 .. Len(s) - 1
    <3>1. Len(s) \in Nat
      BY <1>1
    <3> QED
      BY <3>1
  <2> QED
    BY <2>1, <2>2, <2>3
<1>7. Linked(longer, After(chunk))
  BY <1>2, <1>3, <1>4, <1>5 DEF Linked, longer
<1>6. Start(Append(s, chunk), After(chunk)) = Start(s, Begin(chunk))
  <2>1. CASE s = <<>>
    BY <1>2, <2>1 DEF Start
  <2>2. CASE s # <<>>
    <3>1. 1 \in 1 .. Len(s)
      BY <1>1, <2>2
    <3> QED
      BY <1>2, <2>2, <3>1 DEF Start
  <2> QED
    BY <2>1, <2>2
<1> QED
  BY <1>6, <1>7 DEF longer

\* Its first chunk is taken away.
LEMMA LinkedTail ==
    ASSUME NEW s, NEW end, Linked(s, end), s # <<>>
    PROVE  /\ Proper(Head(s)) /\ Head(s) = s[1] /\ Start(s, end) = Begin(Head(s))
           /\ Linked(Tail(s), end) /\ Start(Tail(s), end) = After(Head(s))
<1>1. s \in Seq(Chunk)
  BY DEF Linked
<1> DEFINE tail == Tail(s)
<1>2. /\ Len(s) \in Nat \ {0} /\ DOMAIN s = 1 .. Len(s) /\ Head(s) = s[1] /\ 1 \in 1 .. Len(s)
      /\ tail \in Seq(Chunk) /\ Len(tail) = Len(s) - 1 /\ DOMAIN tail = 1 .. Len(s) - 1
      /\ \A i \in 1 .. Len(s) - 1 : tail[i] = s[i + 1]
  BY <1>1
<1>3. Proper(Head(s)) /\ Start(s, end) = Begin(Head(s))
  BY <1>2 DEF Linked, Start
<1> HIDE DEF tail
<1>4. tail = <<>> <=> Len(tail) = 0
  BY <1>2, EmptySeq
<1>5. ASSUME NEW i \in 1 .. Len(s) - 1 PROVE Proper(tail[i])
  <2>1. i + 1 \in DOMAIN s /\ tail[i] = s[i + 1]
    BY <1>2
  <2>2. Proper(s[i + 1])
    BY <2>1 DEF Linked
  <2> QED
    BY <2>1, <2>2
<1>6. ASSUME NEW i \in 1 .. Len(s) - 2 PROVE After(tail[i]) = Begin(tail[i + 1])
  <2>1. tail[i] = s[i + 1] /\ tail[i + 1] = s[i + 1 + 1] /\ i + 1 \in 1 .. Len(s) - 1
    BY <1>2
  <2>2. After(s[i + 1]) = Begin(s[i + 1 + 1])
    BY <2>1 DEF Linked
  <2> QED
    BY <2>1, <2>2
<1>7. tail # <<>> => After(tail[Len(tail)]) = end
  <2>1. tail # <<>> => Len(tail) \in 1 .. Len(s) - 1 /\ Len(tail) + 1 = Len(s)
    BY <1>2, <1>4
  <2>2. tail # <<>> => tail[Len(tail)] = s[Len(s)]
    BY <1>2, <2>1
  <2> QED
    BY <2>2 DEF Linked
<1>8. Linked(tail, end)
  BY <1>2, <1>5, <1>6, <1>7 DEF Linked
<1>9. Start(tail, end) = After(Head(s))
  <2>1. CASE Len(s) = 1
    BY <1>2, <1>4, <2>1 DEF Linked, Start
  <2>2. CASE Len(s) # 1
    <3>1. 1 \in 1 .. Len(s) - 1 /\ tail # <<>> /\ tail[1] = s[2]
      BY <1>2, <1>4, <2>2
    <3> QED
      BY <1>2, <3>1 DEF Linked, Start
  <2> QED
    BY <2>1, <2>2
<1> QED
  BY <1>2, <1>3, <1>8, <1>9 DEF tail

\* A stretch begins at a place of the stream.
LEMMA StartPlace ==
    ASSUME NEW s, NEW w, NEW b, Linked(s, <<w, b>>)
    PROVE  s # <<>> => /\ Start(s, <<w, b>>) = <<s[1].weight, s[1].at>> /\ Proper(s[1])
                       /\ Len(s) \in Nat \ {0} /\ After(s[Len(s)]) = <<w, b>>
  BY DEF Linked, Start, Begin

-----------------------------------------------------------------------------
(* Buffers                                                                 *)

LEMMA OverwriteDomain == \A buf, at, bytes : DOMAIN Overwrite(buf, at, bytes) = DOMAIN buf
  BY DEF Overwrite

LEMMA OverwriteInside ==
    \A buf, from : \A at, offset, size \in Nat : \A k \in 0 .. size - 1 :
       at + k \in DOMAIN buf => Overwrite(buf, at, Slice(from, offset, size))[at + k] = from[offset + k]
<1> TAKE buf, from
<1> TAKE at, offset, size \in Nat
<1> TAKE k \in 0 .. size - 1
<1> HAVE at + k \in DOMAIN buf
<1> DEFINE bytes == Slice(from, offset, size)
<1>1. DOMAIN bytes = 0 .. size - 1 /\ bytes[k] = from[offset + k] /\ at + k - at = k
  BY DEF Slice
<1> HIDE DEF bytes
<1>2. Overwrite(buf, at, bytes)[at + k] = IF at + k - at \in DOMAIN bytes THEN bytes[at + k - at] ELSE buf[at + k]
  BY DEF Overwrite
<1> QED
  BY <1>1, <1>2 DEF bytes

LEMMA OverwriteOutside ==
    \A buf, from : \A at, offset, size \in Nat : \A p \in Int :
       p \in DOMAIN buf /\ (p < at \/ at + size <= p) => Overwrite(buf, at, Slice(from, offset, size))[p] = buf[p]
<1> TAKE buf, from
<1> TAKE at, offset, size \in Nat
<1> TAKE p \in Int
<1> HAVE p \in DOMAIN buf /\ (p < at \/ at + size <= p)
<1> DEFINE bytes == Slice(from, offset, size)
<1>1. DOMAIN bytes = 0 .. size - 1 /\ p - at \notin 0 .. size - 1
  BY DEF Slice
<1> HIDE DEF bytes
<1>2. Overwrite(buf, at, bytes)[p] = IF p - at \in DOMAIN bytes THEN bytes[p - at] ELSE buf[p]
  BY DEF Overwrite
<1> QED
  BY <1>1, <1>2 DEF bytes

\* What a stretch of bytes holds depends on these bytes only.
LEMMA HoldsKept ==
    ASSUME NEW buf, NEW after, NEW s, NEW end, Linked(s, end), Holds(buf, s),
           \A i \in DOMAIN s : \A p \in s[i].offset .. s[i].offset + s[i].size - 1 : after[p] = buf[p]
    PROVE  Holds(after, s)
<1> SUFFICES ASSUME NEW i \in DOMAIN s, NEW k \in 0 .. s[i].size - 1
             PROVE  after[s[i].offset + k] = <<s[i].weight, s[i].at + k>>
  BY DEF Holds, HoldsChunk
<1>1. Proper(s[i])
  BY DEF Linked
<1>2. s[i].offset + k \in s[i].offset .. s[i].offset + s[i].size - 1
  BY <1>1, ChunkFacts
<1> QED
  BY <1>2 DEF Holds, HoldsChunk

-----------------------------------------------------------------------------
(* The trainer                                                             *)

LEMMA UsedAppend ==
    ASSUME NEW S, NEW s \in Seq(S), NEW e
    PROVE  Used(<<>>) = 0 /\ Used(Append(s, e)) = e.offset + e.size
<1>1. Append(s, e) # <<>> /\ Append(s, e)[Len(Append(s, e))] = e
  <2>1. s \in Seq(S \union {e}) /\ e \in S \union {e}
    OBVIOUS
  <2> QED
    BY <2>1, AppendProperties
<1> QED
  BY <1>1 DEF Used

Entry == [weight |-> nextWeight, at |-> nextByte, size |-> NextChunk.size, offset |-> Used(bucketMeta)]

LEMMA NextEntry ==
    ASSUME Packing, nextWeight <= N, Fits(NextChunk)
    PROVE  Proper(Entry) /\ Begin(Entry) = Here
<1>1. nextWeight \in 1 .. N /\ nextByte \in Nat /\ Sizes[nextWeight] \in Nat \ {0} /\ N \in Nat
  BY SizesFacts DEF Packing
<1>2. nextByte < Sizes[nextWeight] /\ (nextByte = 0 \/ Bucket <= nextByte)
  BY <1>1 DEF Packing
<1>3. Entry.weight = nextWeight /\ Entry.at = nextByte /\ Entry.offset = Used(bucketMeta)
      /\ Entry.size = IF Bucket < Sizes[nextWeight] - nextByte THEN Bucket ELSE Sizes[nextWeight] - nextByte
  BY DEF Entry, NextChunk
<1>4. Entry.size \in Nat \ {0} /\ Used(bucketMeta) \in Nat
  BY <1>1, <1>2, <1>3 DEF Packing
<1>5. Entry.offset + Entry.size <= Bucket
  BY <1>3 DEF Fits, Entry
<1>6. Entry \in Chunk
  BY <1>1, <1>3, <1>4 DEF Entry, Chunk
<1> QED
  BY <1>2, <1>3, <1>5, <1>6 DEF Proper, Begin, Here

LEMMA PackStep ==
    ASSUME Packing, Broadcasting, PackChunk
    PROVE  Packing' /\ Broadcasting' /\ OpEnd' = OpEnd /\ UNCHANGED <<op, unreached>>
<1>1. /\ nextWeight <= N /\ Fits(NextChunk)
      /\ bucketMeta' = Append(bucketMeta, Entry)
      /\ sendBufs' = [sendBufs EXCEPT ![fill] =
                         Overwrite(@, Used(bucketMeta), Slice(WeightBytes(nextWeight), nextByte, NextChunk.size))]
      /\ UNCHANGED <<fill, op, unreached>>
  BY DEF PackChunk, Entry, NextChunk, broadcastVars
<1>2. Proper(Entry) /\ Begin(Entry) = Here
  BY <1>1, NextEntry
<1>3. Here' = After(Entry)
  BY DEF PackChunk, Entry, NextChunk, Here, After
<1>4. /\ nextWeight \in 1 .. N /\ nextByte \in Nat /\ Sizes[nextWeight] \in Nat \ {0} /\ N \in Nat
      /\ fill \in {1, 2} /\ Used(bucketMeta) \in Nat
  BY <1>1, SizesFacts DEF Packing
<1>5. /\ Entry.weight = nextWeight /\ Entry.at = nextByte /\ Entry.offset = Used(bucketMeta)
      /\ Entry.size = NextChunk.size /\ NextChunk.size \in Nat \ {0}
      /\ Used(bucketMeta) + NextChunk.size <= Bucket /\ nextByte + NextChunk.size <= Sizes[nextWeight]
  BY <1>1, <1>2, ChunkFacts DEF Entry, Fits
<1>6. bucketMeta \in Seq(Chunk) /\ Entry \in Chunk
  BY <1>2 DEF Packing, Linked, Proper
<1>7. /\ Linked(bucketMeta', Here') /\ Start(bucketMeta', Here') = Start(bucketMeta, Here)
  <2>1. Linked(bucketMeta, Begin(Entry))
    BY <1>2 DEF Packing
  <2> QED
    BY <1>1, <1>2, <1>3, <2>1, LinkedAppend
<1>8. Used(bucketMeta') = Used(bucketMeta) + NextChunk.size
  BY <1>1, <1>5, <1>6, UsedAppend
<1>9. /\ DOMAIN bucketMeta = 1 .. Len(bucketMeta) /\ Len(bucketMeta) \in Nat
      /\ DOMAIN bucketMeta' = 1 .. Len(bucketMeta) + 1
      /\ \A i \in 1 .. Len(bucketMeta) : bucketMeta'[i] = bucketMeta[i]
      /\ bucketMeta'[Len(bucketMeta) + 1] = Entry
  BY <1>1, <1>6
<1>10. \A i \in 1 .. Len(bucketMeta) :
          /\ bucketMeta[i].offset + bucketMeta[i].size <= Used(bucketMeta)
          /\ bucketMeta[i].weight < nextWeight /\ bucketMeta[i].weight \in Nat
          /\ bucketMeta[i].offset \in Nat /\ bucketMeta[i].size \in Nat
  <2> TAKE i \in 1 .. Len(bucketMeta)
  <2>1. /\ bucketMeta[i].offset + bucketMeta[i].size <= Used(bucketMeta) /\ bucketMeta[i].weight <= nextWeight
        /\ bucketMeta[i].weight = nextWeight => Used(bucketMeta) = Bucket
    BY <1>9 DEF Packing
  <2>2. Used(bucketMeta) < Bucket
    BY <1>4, <1>5
  <2>3. Proper(bucketMeta[i])
    BY <1>9 DEF Packing, Linked
  <2>4. bucketMeta[i].weight \in 1 .. N /\ bucketMeta[i].offset \in Nat /\ bucketMeta[i].size \in Nat \ {0}
    BY <2>3, ChunkFacts
  <2> QED
    BY <1>4, <2>1, <2>2, <2>4
\* What remains of a weight begins the next bucket.
<1>11. \/ nextWeight' = nextWeight + 1 /\ nextByte' = 0
       \/ /\ nextWeight' = nextWeight /\ nextByte' = nextByte + NextChunk.size
          /\ nextByte + NextChunk.size < Sizes[nextWeight] /\ NextChunk.size = Bucket /\ Used(bucketMeta) = 0
  <2>1. CASE nextByte + NextChunk.size = Sizes[nextWeight]
    BY <2>1 DEF PackChunk
  <2>2. CASE nextByte + NextChunk.size # Sizes[nextWeight]
    <3>1. NextChunk.size = Bucket
      BY <1>2, <1>5, <2>2, ChunkFacts
    <3>2. nextWeight' = nextWeight /\ nextByte' = nextByte + NextChunk.size
      BY <2>2 DEF PackChunk
    <3> QED
      BY <1>4, <1>5, <2>2, <3>1, <3>2
  <2> QED
    BY <2>1, <2>2
<1>12. /\ nextWeight' \in 1 .. N + 1 /\ nextByte' \in Nat
       /\ nextByte' # 0 => nextWeight' <= N /\ Bucket <= nextByte' /\ nextByte' < Sizes[nextWeight']
       /\ nextWeight < nextWeight' \/ (nextWeight = nextWeight' /\ Used(bucketMeta') = Bucket)
  <2>1. nextWeight + 1 \in 1 .. N + 1 /\ nextWeight < nextWeight + 1 /\ nextByte + NextChunk.size \in Nat
        /\ Bucket <= nextByte + Bucket
    BY <1>4, <1>5
  <2> QED
    BY <1>4, <1>8, <1>11, <2>1
<1>13. \A i \in DOMAIN bucketMeta' :
          /\ bucketMeta'[i].offset + bucketMeta'[i].size <= Used(bucketMeta')
          /\ bucketMeta'[i].weight <= nextWeight'
          /\ bucketMeta'[i].weight = nextWeight' => Used(bucketMeta') = Bucket
  <2> TAKE i \in DOMAIN bucketMeta'
  <2>1. CASE i = Len(bucketMeta) + 1
    BY <1>4, <1>5, <1>8, <1>9, <1>12, <2>1
  <2>2. CASE i \in 1 .. Len(bucketMeta)
    <3>1. bucketMeta'[i] = bucketMeta[i]
      BY <1>9, <2>2
    <3>2. /\ bucketMeta[i].offset + bucketMeta[i].size <= Used(bucketMeta) + NextChunk.size
          /\ bucketMeta[i].weight < nextWeight /\ bucketMeta[i].weight \in Nat
      <4>1. /\ bucketMeta[i].offset + bucketMeta[i].size <= Used(bucketMeta)
            /\ bucketMeta[i].weight < nextWeight /\ bucketMeta[i].weight \in Nat
            /\ bucketMeta[i].offset + bucketMeta[i].size \in Nat
        BY <1>10, <2>2
      <4>2. \A e \in Nat : e <= Used(bucketMeta) => e <= Used(bucketMeta) + NextChunk.size
        BY <1>4, <1>5
      <4> QED
        BY <4>1, <4>2
    <3>3. bucketMeta[i].weight < nextWeight'
      BY <1>4, <1>12, <3>2
    <3> QED
      BY <1>8, <1>12, <3>1, <3>2, <3>3
  <2> QED
    BY <1>9, <2>1, <2>2
<1>14. \A i, j \in DOMAIN bucketMeta' : bucketMeta'[i].weight = bucketMeta'[j].weight => i = j
  <2> TAKE i, j \in DOMAIN bucketMeta'
  <2>1. CASE i \in 1 .. Len(bucketMeta) /\ j \in 1 .. Len(bucketMeta)
    BY <1>9, <2>1 DEF Packing
  <2>2. \A x \in 1 .. Len(bucketMeta) : bucketMeta'[x].weight # nextWeight
    BY <1>4, <1>9, <1>10
  <2>3. bucketMeta'[Len(bucketMeta) + 1].weight = nextWeight
    BY <1>5, <1>9
  <2> QED
    BY <1>9, <2>1, <2>2, <2>3
<1>15. /\ DOMAIN sendBufs' = {1, 2} /\ \A b \in {1, 2} : DOMAIN sendBufs'[b] = 0 .. Bucket - 1
       /\ sendBufs'[3 - fill] = sendBufs[3 - fill]
       /\ \A k \in 0 .. NextChunk.size - 1 :
             sendBufs'[fill][Used(bucketMeta) + k] = <<nextWeight, nextByte + k>>
       /\ \A p \in 0 .. Used(bucketMeta) - 1 : sendBufs'[fill][p] = sendBufs[fill][p]
  <2> DEFINE place == Used(bucketMeta)
             many == NextChunk.size
             packed == Overwrite(sendBufs[fill], place, Slice(WeightBytes(nextWeight), nextByte, many))
  <2>1. place \in Nat /\ many \in Nat /\ place + many <= Bucket
    BY <1>4, <1>5
  <2>2. DOMAIN sendBufs = {1, 2} /\ \A b \in {1, 2} : DOMAIN sendBufs[b] = 0 .. Bucket - 1
    BY DEF Packing
  <2>3. sendBufs' = [sendBufs EXCEPT ![fill] = packed]
    BY <1>1
  <2>4. \A k \in 0 .. many - 1 : WeightBytes(nextWeight)[nextByte + k] = <<nextWeight, nextByte + k>>
    BY <1>4, <1>5 DEF WeightBytes
  <2> HIDE DEF place, many
  <2>5. DOMAIN packed = DOMAIN sendBufs[fill]
    BY OverwriteDomain
  <2>13. \A k \in 0 .. many - 1 :
            place + k \in DOMAIN sendBufs[fill] => packed[place + k] = WeightBytes(nextWeight)[nextByte + k]
    <3>1. nextByte \in Nat
      BY <1>4
    <3>2. \A k \in 0 .. many - 1 : place + k \in DOMAIN sendBufs[fill] =>
             Overwrite(sendBufs[fill], place, Slice(WeightBytes(nextWeight), nextByte, many))[place + k]
                = WeightBytes(nextWeight)[nextByte + k]
      BY <2>1, <3>1, OverwriteInside
    <3> QED
      BY <3>2
  <2>14. \A p \in Int : p \in DOMAIN sendBufs[fill] /\ (p < place \/ place + many <= p) => packed[p] = sendBufs[fill][p]
    BY <1>4, <2>1, OverwriteOutside
  <2> HIDE DEF packed
  <2>6. \A k \in 0 .. many - 1 : place + k \in 0 .. Bucket - 1
    BY <2>1
  <2>7. \A p \in 0 .. place - 1 : p \in 0 .. Bucket - 1 /\ p \in Int /\ p < place
    BY <2>1
  <2>8. fill \in {1, 2} /\ 3 - fill # fill
    BY <1>4
  <2>9. DOMAIN sendBufs' = {1, 2} /\ sendBufs'[fill] = packed /\ \A b \in {1, 2} : b # fill => sendBufs'[b] = sendBufs[b]
    BY <2>2, <2>3, <2>8
  <2>10. \A k \in 0 .. many - 1 : packed[place + k] = <<nextWeight, nextByte + k>>
    BY <2>2, <2>4, <2>13, <2>6, <2>8
  <2>11. \A p \in 0 .. place - 1 : packed[p] = sendBufs[fill][p]
    BY <2>2, <2>14, <2>7, <2>8
  <2>12. 3 - fill \in {1, 2}
    BY <1>4
  <2> QED
    BY <2>2, <2>5, <2>8, <2>9, <2>10, <2>11, <2>12 DEF place, many
<1>16. Holds(sendBufs'[fill], bucketMeta')
  <2> SUFFICES ASSUME NEW i \in DOMAIN bucketMeta', NEW k \in 0 .. bucketMeta'[i].size - 1
               PROVE  sendBufs'[fill][bucketMeta'[i].offset + k] = <<bucketMeta'[i].weight, bucketMeta'[i].at + k>>
    BY DEF Holds, HoldsChunk
  <2>1. CASE i = Len(bucketMeta) + 1
    BY <1>5, <1>9, <1>15, <2>1
  <2>2. CASE i \in 1 .. Len(bucketMeta)
    <3>1. bucketMeta'[i] = bucketMeta[i] /\ k \in 0 .. bucketMeta[i].size - 1
      BY <1>9, <2>2
    <3>2. bucketMeta[i].offset + k \in 0 .. Used(bucketMeta) - 1
      <4>1. /\ bucketMeta[i].offset + bucketMeta[i].size <= Used(bucketMeta)
            /\ bucketMeta[i].offset \in Nat /\ bucketMeta[i].size \in Nat
        BY <1>10, <2>2
      <4>2. \A offset, size \in Nat : offset + size <= Used(bucketMeta) =>
               \A m \in 0 .. size - 1 : offset + m \in 0 .. Used(bucketMeta) - 1
        BY <1>4
      <4> QED
        BY <3>1, <4>1, <4>2
    <3>3. sendBufs[fill][bucketMeta[i].offset + k] = <<bucketMeta[i].weight, bucketMeta[i].at + k>>
      BY <1>9, <2>2, <3>1 DEF Packing, Holds, HoldsChunk
    <3> QED
      BY <1>15, <3>1, <3>2, <3>3
  <2> QED
    BY <1>9, <2>1, <2>2
<1>17. Packing'
  <2>1. Used(bucketMeta)' = Used(bucketMeta') /\ fill' = fill
    BY <1>1 DEF Used
  <2>2. Used(bucketMeta') \in 0 .. Bucket
    BY <1>4, <1>5, <1>8
  <2> QED
    BY <1>1, <1>4, <1>7, <1>12, <1>13, <1>14, <1>15, <1>16, <2>1, <2>2 DEF Packing
<1>18. ~op.last
  BY <1>4 DEF Broadcasting
<1>19. OpEnd' = OpEnd
  BY <1>1, <1>7, <1>18 DEF OpEnd
<1>20. Broadcasting'
  BY <1>1, <1>15, <1>18, <1>19 DEF Broadcasting
<1> QED
  BY <1>1, <1>17, <1>19, <1>20

LEMMA BroadcastSteps ==
    ASSUME Packing, Broadcasting, BroadcastBucket \/ BroadcastLast
    PROVE  /\ Packing' /\ Broadcasting'
           /\ unreached = {} /\ unreached' = Ranks /\ Start(op.chunks, OpEnd)' = OpEnd
<1>1. CASE BroadcastBucket
  <2>1. /\ nextWeight <= N /\ unreached = {} /\ unreached' = Ranks /\ fill' = 3 - fill /\ bucketMeta' = <<>>
        /\ op' = [buffer |-> fill, chunks |-> bucketMeta, last |-> FALSE]
        /\ UNCHANGED <<nextWeight, nextByte, sendBufs>>
    BY <1>1 DEF BroadcastBucket
  <2>2. 3 - fill \in {1, 2} /\ fill = 3 - (3 - fill)
    BY DEF Packing
  <2>3. Here' = Here /\ Used(<<>>) = 0 /\ op'.buffer = fill /\ op'.chunks = bucketMeta /\ op'.last = FALSE
    BY <2>1 DEF Here, Used
  <2>4. Packing'
    BY <2>1, <2>2, <2>3, EmptyLinked DEF Packing, Holds
  <2>5. ~op.last
    BY <2>1, SizesFacts DEF Broadcasting, Packing
  <2>6. OpEnd' = Here /\ Start(op.chunks, OpEnd)' = OpEnd
    BY <2>1, <2>3, <2>5, EmptyLinked DEF OpEnd
  <2>7. Broadcasting'
    <3>1. Linked(op'.chunks, OpEnd')
      BY <2>3, <2>6 DEF Packing
    <3>2. Holds(sendBufs'[op'.buffer], op'.chunks)
      BY <2>1, <2>3 DEF Packing
    <3> QED
      BY <2>1, <2>2, <2>3, <3>1, <3>2 DEF Broadcasting
  <2> QED
    BY <2>1, <2>4, <2>6, <2>7
<1>2. CASE BroadcastLast
  <2>1. /\ nextWeight > N /\ unreached = {} /\ unreached' = Ranks /\ ~op.last
        /\ op' = [buffer |-> fill, chunks |-> bucketMeta, last |-> TRUE]
        /\ UNCHANGED packVars
    BY <1>2 DEF BroadcastLast
  <2>2. UNCHANGED <<nextWeight, nextByte, sendBufs, fill, bucketMeta>>
    BY <2>1 DEF packVars
  <2>3. Packing' /\ Here' = Here /\ op'.buffer = fill /\ op'.chunks = bucketMeta /\ op'.last = TRUE
    BY <2>1, <2>2 DEF Packing, Here
  <2>4. nextWeight' = N + 1
    BY <2>1, <2>2, SizesFacts DEF Packing
  <2>5. OpEnd' = Here /\ Start(op.chunks, OpEnd)' = OpEnd
    BY <2>1, <2>2, <2>3 DEF OpEnd
  <2>6. Broadcasting'
    <3>1. Linked(op'.chunks, OpEnd')
      BY <2>3, <2>5 DEF Packing
    <3>2. Holds(sendBufs'[op'.buffer], op'.chunks)
      BY <2>2, <2>3 DEF Packing
    <3> QED
      BY <2>1, <2>2, <2>3, <2>4, <3>1, <3>2 DEF Broadcasting
  <2> QED
    BY <2>1, <2>3, <2>5, <2>6
<1> QED
  BY <1>1, <1>2

-----------------------------------------------------------------------------
(* What a step leaves alone                                                *)

RankVars(r) ==
    <<recvBufs[r], yielding[r], listening[r], arrived[r], chunks[r], isLast[r], merging[r], mergeBuf[r], item[r],
      ipcMeta[r], ipcBuf[r], pending[r], unacked[r], sender[r], inbox[r], loaded[r]>>

LEMMA TrainerUntouched ==
    ASSUME Packing, Broadcasting, UNCHANGED <<packVars, broadcastVars>>
    PROVE  Packing' /\ Broadcasting' /\ \A r \in Ranks : ArrivedEnd(r)' = ArrivedEnd(r)
<1>1. UNCHANGED <<nextWeight, nextByte, sendBufs, fill, bucketMeta, op, unreached>>
  BY DEF packVars, broadcastVars
<1>2. Here' = Here /\ OpEnd' = OpEnd
  BY <1>1 DEF Here, OpEnd, Start
<1>3. Packing'
  BY <1>1, <1>2 DEF Packing, Holds, HoldsChunk, Used
<1>4. Broadcasting'
  BY <1>1, <1>2 DEF Broadcasting, Holds, HoldsChunk
<1>5. \A r \in Ranks : ArrivedEnd(r)' = ArrivedEnd(r)
  BY <1>1, <1>2 DEF ArrivedEnd, Start
<1> QED
  BY <1>3, <1>4, <1>5

\* What is at a rank in the stream, when it takes no part in the step.
LEMMA ChainUntouched ==
    ASSUME NEW r \in Ranks, Chain(r), ArrivedEnd(r)' = ArrivedEnd(r),
           recvBufs'[r] = recvBufs[r], yielding'[r] = yielding[r], listening'[r] = listening[r],
           arrived'[r] = arrived[r], chunks'[r] = chunks[r], isLast'[r] = isLast[r]
    PROVE  Chain(r)' /\ Position(r)' = Position(r) /\ ChunksEnd(r)' = ChunksEnd(r)
<1>1. Arrived(r)' = Arrived(r) /\ ChunksEnd(r)' = ChunksEnd(r) /\ Position(r)' = Position(r)
  BY DEF Arrived, ChunksEnd, Position, Start
<1>2. Chain(r)'
  BY <1>1 DEF Chain
<1> QED
  BY <1>1, <1>2

LEMMA NumberedUntouched ==
    ASSUME NEW r \in Ranks, Numbered(r), Position(r)' = Position(r),
           merging'[r] = merging[r], item'[r] = item[r], ipcMeta'[r] = ipcMeta[r], pending'[r] = pending[r],
           unacked'[r] = unacked[r], sender'[r] = sender[r], inbox'[r] = inbox[r], loaded'[r] = loaded[r]
    PROVE  Numbered(r)'
<1>1. InHand(r)' = InHand(r)
  BY DEF InHand
<1> QED
  BY <1>1, Zenon DEF Numbered

LEMMA LandingUntouched ==
    ASSUME NEW r \in Ranks, Landing(r),
           recvBufs'[r][yielding[r]] = recvBufs[r][yielding[r]], yielding'[r] = yielding[r],
           merging'[r] = merging[r], mergeBuf'[r] = mergeBuf[r], item'[r] = item[r],
           ipcMeta'[r] = ipcMeta[r], ipcBuf'[r] = ipcBuf[r], pending'[r] = pending[r]
    PROVE  Landing(r)'
<1>1. Large(r)' = Large(r) /\ LargeBytes(r)' = LargeBytes(r) /\ Used(ipcMeta[r])' = Used(ipcMeta[r])
  BY DEF Large, LargeBytes, Used
<1>2. PackedApart(r)'
  BY <1>1 DEF Landing, PackedApart
<1>3. \A copy : Sourced(r, copy)' <=> Sourced(r, copy)
  <2> TAKE copy
  <2>1. \A w, from : SourceHas(r, copy, w, from)' <=> SourceHas(r, copy, w, from)
    BY DEF SourceHas
  <2>2. \A m : PacksTensor(r, copy, m)' <=> PacksTensor(r, copy, m)
    BY <2>1 DEF PacksTensor
  <2>3. MergesLarge(r, copy)' <=> MergesLarge(r, copy)
    BY <1>1, <2>1 DEF MergesLarge
  <2> QED
    BY <2>2, <2>3 DEF Sourced
<1>4. UnderWay(r)' = UnderWay(r)
  BY DEF UnderWay
<1>5. \A into, p : WillLand(r, into, p)' <=> WillLand(r, into, p)
  BY <1>4 DEF WillLand
<1>6. PackedBytes(r)' /\ MergedBytes(r)'
  BY <1>1, <1>5 DEF Landing, PackedBytes, MergedBytes
<1>7. ItemHeld(r)'
  BY DEF Landing, ItemHeld, HoldsWeight
<1> QED
  BY <1>2, <1>3, <1>4, <1>6, <1>7 DEF Landing

LEMMA ReadableUntouched ==
    ASSUME NEW r \in Ranks, Readable(r), inbox'[r] = inbox[r], ipcBuf'[r] = ipcBuf[r], mergeBuf'[r] = mergeBuf[r]
    PROVE  Readable(r)'
<1> SUFFICES ASSUME NEW i \in DOMAIN inbox[r]
             PROVE  /\ inbox[r][i].shared => HoldsWeight(ipcBuf[r], inbox[r][i].offset, inbox[r][i].weight)'
                    /\ ~inbox[r][i].shared
                         => inbox[r][i].offset = 0 /\ HoldsWeight(mergeBuf[r], 0, inbox[r][i].weight)'
  BY DEF Readable, HoldsWeight
<1>1. /\ inbox[r][i].shared => HoldsWeight(ipcBuf[r], inbox[r][i].offset, inbox[r][i].weight)
      /\ ~inbox[r][i].shared => inbox[r][i].offset = 0 /\ HoldsWeight(mergeBuf[r], 0, inbox[r][i].weight)
  BY DEF Readable
<1> QED
  BY <1>1 DEF HoldsWeight

LEMMA RankUntouched ==
    ASSUME NEW r \in Ranks, AtRank(r), ArrivedEnd(r)' = ArrivedEnd(r), UNCHANGED RankVars(r)
    PROVE  AtRank(r)'
<1>1. /\ recvBufs'[r] = recvBufs[r] /\ yielding'[r] = yielding[r] /\ listening'[r] = listening[r]
      /\ arrived'[r] = arrived[r] /\ chunks'[r] = chunks[r] /\ isLast'[r] = isLast[r]
      /\ merging'[r] = merging[r] /\ mergeBuf'[r] = mergeBuf[r] /\ item'[r] = item[r]
      /\ ipcMeta'[r] = ipcMeta[r] /\ ipcBuf'[r] = ipcBuf[r] /\ pending'[r] = pending[r]
      /\ unacked'[r] = unacked[r] /\ sender'[r] = sender[r] /\ inbox'[r] = inbox[r] /\ loaded'[r] = loaded[r]
  BY DEF RankVars
<1>2. Chain(r)' /\ Position(r)' = Position(r)
  BY <1>1, ChainUntouched DEF AtRank
<1>3. Numbered(r)'
  BY <1>1, <1>2, NumberedUntouched DEF AtRank
<1>4. Landing(r)'
  BY <1>1, LandingUntouched DEF AtRank
<1>5. Readable(r)'
  BY <1>1, ReadableUntouched DEF AtRank
<1> QED
  BY <1>2, <1>3, <1>4, <1>5 DEF AtRank

\* A step of a rank is none of another.
LEMMA OthersUntouched ==
    ASSUME RankFunctions, NEW r \in Ranks, Broadcast(r) \/ LandCopy(r) \/ Worker(r) \/ Server(r)
    PROVE  RankFunctions' /\ \A q \in Ranks \ {r} : UNCHANGED RankVars(q)
<1> USE DEF RankFunctions, RankVars, packVars, broadcastVars, chunkVars, mergeVars, copyVars, senderVars, receiverVars
<1>1. CASE Broadcast(r)
  BY <1>1 DEF Broadcast
<1>2. CASE SwapBuffers(r)
  BY <1>2 DEF SwapBuffers
<1>3. CASE YieldView(r)
  BY <1>3 DEF YieldView
<1>4. CASE MergeChunk(r)
  BY <1>4 DEF MergeChunk, StartCopy
<1>5. CASE LandCopy(r)
  <2>1. CASE mergeBuf' = [mergeBuf EXCEPT ![r] = mergeBuf'[r]] /\ UNCHANGED ipcBuf
    BY <1>5, <2>1 DEF LandCopy
  <2>2. CASE ipcBuf' = [ipcBuf EXCEPT ![r] = ipcBuf'[r]] /\ UNCHANGED mergeBuf
    BY <1>5, <2>2 DEF LandCopy
  <2> QED
    BY <1>5, <2>1, <2>2 DEF LandCopy
<1>6. CASE Place(r)
  BY <1>6 DEF Place, StartCopy
<1>7. CASE SendBucket(r)
  BY <1>7 DEF SendBucket, Send
<1>8. CASE SendLargeWeight(r)
  BY <1>8 DEF SendLargeWeight, Send
<1>9. CASE SendLastBucket(r)
  BY <1>9 DEF SendLastBucket, Send
<1>10. CASE LoadTensor(r)
  BY <1>10 DEF LoadTensor
<1>11. CASE Acknowledge(r)
  BY <1>11 DEF Acknowledge
<1> QED
  BY <1>1, <1>2, <1>3, <1>4, <1>5, <1>6, <1>7, <1>8, <1>9, <1>10, <1>11 DEF Worker, Server

-----------------------------------------------------------------------------
(* The two buffers of a rank                                               *)

\* The bucket reaches the buffer that is listened in, not the one yielded from.
LEMMA BroadcastStep ==
    ASSUME RankFunctions, Packing, Broadcasting, NEW r \in Ranks, AtRank(r), Broadcast(r)
    PROVE  /\ Packing' /\ Broadcasting' /\ AtRank(r)'
           /\ \A q \in Ranks \ {r} : ArrivedEnd(q)' = ArrivedEnd(q)
<1>1. /\ r \in unreached /\ unreached' = unreached \ {r} /\ listening[r] # 0
      /\ UNCHANGED <<nextWeight, nextByte, sendBufs, fill, bucketMeta, op>>
      /\ recvBufs' = [recvBufs EXCEPT ![r][listening[r]] = sendBufs[op.buffer]]
      /\ arrived'[r] = <<[chunks |-> op.chunks, last |-> op.last]>>
      /\ listening'[r] = 0 /\ yielding'[r] = yielding[r] /\ isLast'[r] = isLast[r] /\ chunks'[r] = chunks[r]
  BY DEF Broadcast, packVars, RankFunctions
<1>2. /\ merging'[r] = merging[r] /\ mergeBuf'[r] = mergeBuf[r] /\ item'[r] = item[r]
      /\ ipcMeta'[r] = ipcMeta[r] /\ ipcBuf'[r] = ipcBuf[r] /\ pending'[r] = pending[r]
      /\ unacked'[r] = unacked[r] /\ sender'[r] = sender[r] /\ inbox'[r] = inbox[r] /\ loaded'[r] = loaded[r]
  BY DEF Broadcast, mergeVars, senderVars, receiverVars
<1>3. Here' = Here /\ OpEnd' = OpEnd
  BY <1>1 DEF Here, OpEnd, Start
<1>4. Packing'
  BY <1>1, <1>3 DEF Packing, Used
<1>5. Broadcasting'
  BY <1>1, <1>3 DEF Broadcasting
<1>6. \A q \in Ranks \ {r} : ArrivedEnd(q)' = ArrivedEnd(q)
  BY <1>1, <1>3 DEF ArrivedEnd, Start
<1>7. /\ yielding[r] \in {1, 2} /\ listening[r] = 3 - yielding[r] /\ 3 - yielding[r] \in {1, 2}
      /\ yielding[r] # 3 - yielding[r] /\ Arrived(r) = <<>>
  BY <1>1 DEF AtRank, Chain, Arrived
<1>8. /\ recvBufs'[r][3 - yielding[r]] = sendBufs[op.buffer] /\ recvBufs'[r][yielding[r]] = recvBufs[r][yielding[r]]
      /\ DOMAIN recvBufs'[r] = {1, 2}
  <2>1. DOMAIN recvBufs = Ranks /\ DOMAIN recvBufs[r] = {1, 2}
    BY DEF RankFunctions, AtRank, Chain
  <2> QED
    BY <1>1, <1>7, <2>1
<1>9. DOMAIN sendBufs[op.buffer] = 0 .. Bucket - 1 /\ Holds(sendBufs[op.buffer], op.chunks) /\ op.last \in BOOLEAN
  <2>1. op.buffer \in {1, 2}
    BY DEF Packing, Broadcasting
  <2> QED
    BY <1>1, <2>1 DEF Packing, Broadcasting
<1>10. /\ Arrived(r)' = op.chunks /\ ArrivedEnd(r)' = OpEnd /\ ArrivedEnd(r) = Start(op.chunks, OpEnd)
       /\ arrived'[r][1].chunks = op.chunks /\ arrived'[r][1].last = op.last /\ arrived'[r] = <<arrived'[r][1]>>
  BY <1>1, <1>3 DEF Arrived, ArrivedEnd
<1>11. ChunksEnd(r)' = ChunksEnd(r)
  BY <1>7, <1>10, EmptyLinked DEF ChunksEnd
<1>12. Position(r)' = Position(r)
  BY <1>1, <1>11 DEF Position
<1>13. Chain(r)'
  <2>1. Linked(Arrived(r)', ArrivedEnd(r)') /\ Linked(chunks'[r], ChunksEnd(r)')
    BY <1>1, <1>10, <1>11 DEF Broadcasting, AtRank, Chain
  <2>2. Holds(recvBufs'[r][3 - yielding'[r]], Arrived(r)') /\ Holds(recvBufs'[r][yielding'[r]], chunks'[r])
    BY <1>1, <1>8, <1>9, <1>10 DEF AtRank, Chain
  <2>3. \A b \in {1, 2} : DOMAIN recvBufs'[r][b] = 0 .. Bucket - 1
    <3>1. \A b \in {1, 2} : b = yielding[r] \/ b = 3 - yielding[r]
      BY <1>7
    <3> QED
      BY <1>7, <1>8, <1>9, <3>1 DEF AtRank, Chain
  <2>4. isLast[r] \in BOOLEAN
    BY DEF AtRank, Chain
  <2> QED
    BY <1>1, <1>7, <1>8, <1>9, <1>10, <2>1, <2>2, <2>3, <2>4 DEF Chain
<1>14. Numbered(r)' /\ Landing(r)' /\ Readable(r)'
  BY <1>1, <1>2, <1>8, <1>12, NumberedUntouched, LandingUntouched, ReadableUntouched DEF AtRank
<1> QED
  BY <1>4, <1>5, <1>6, <1>13, <1>14 DEF AtRank

\* Nothing is read from the used bucket any more when the buffers change places.
LEMMA SwapStep ==
    ASSUME RankFunctions, NEW r \in Ranks, AtRank(r), SwapBuffers(r), ArrivedEnd(r)' = ArrivedEnd(r)
    PROVE  AtRank(r)'
<1>1. /\ Pulling(r) /\ chunks[r] = <<>> /\ arrived[r] # <<>> /\ pending[r] = <<>>
      /\ yielding'[r] = 3 - yielding[r] /\ chunks'[r] = arrived[r][1].chunks /\ isLast'[r] = arrived[r][1].last
      /\ listening'[r] = (IF arrived[r][1].last THEN 0 ELSE yielding[r]) /\ arrived'[r] = <<>>
  BY DEF SwapBuffers, Synchronized, RankFunctions
<1>2. UNCHANGED <<merging, item, recvBufs, mergeBuf, ipcBuf, pending, ipcMeta, unacked, sender, inbox, loaded>>
  BY DEF SwapBuffers, mergeVars, copyVars, senderVars, receiverVars
<1>3. /\ yielding[r] \in {1, 2} /\ 3 - yielding[r] \in {1, 2} /\ yielding[r] = 3 - (3 - yielding[r])
      /\ arrived[r][1].last \in BOOLEAN
  BY <1>1 DEF AtRank, Chain
<1>4. Arrived(r)' = <<>> /\ Arrived(r) = arrived[r][1].chunks
  BY <1>1 DEF Arrived
<1>5. ChunksEnd(r)' = ArrivedEnd(r)
  BY <1>4, EmptyLinked DEF ChunksEnd
<1>6. Position(r)' = Position(r)
  BY <1>1, <1>4, <1>5, EmptyLinked DEF Position, ChunksEnd
<1>7. Chain(r)'
  <2>1. Linked(Arrived(r)', ArrivedEnd(r)') /\ Linked(chunks'[r], ChunksEnd(r)')
    BY <1>1, <1>4, <1>5, EmptyLinked DEF AtRank, Chain
  <2>2. Holds(recvBufs'[r][3 - yielding'[r]], Arrived(r)') /\ Holds(recvBufs'[r][yielding'[r]], chunks'[r])
    BY <1>1, <1>2, <1>4 DEF AtRank, Chain, Holds
  <2>3. DOMAIN recvBufs'[r] = {1, 2} /\ \A b \in {1, 2} : DOMAIN recvBufs'[r][b] = 0 .. Bucket - 1
    BY <1>2 DEF AtRank, Chain
  <2> QED
    BY <1>1, <1>3, <2>1, <2>2, <2>3 DEF Chain
<1>8. Numbered(r)' /\ Readable(r)'
  BY <1>2, <1>6, NumberedUntouched, ReadableUntouched DEF AtRank
<1>9. item[r] = None
  BY <1>1 DEF AtRank, Numbered, Pulling
<1>10. Landing(r)'
  <2>1. Large(r)' = Large(r) /\ LargeBytes(r)' = LargeBytes(r) /\ Used(ipcMeta[r])' = Used(ipcMeta[r])
    BY <1>2 DEF Large, LargeBytes, Used
  <2>2. PackedApart(r)'
    BY <1>2, <2>1 DEF AtRank, Landing, PackedApart
  <2>3. UnderWay(r)' = UnderWay(r) /\ UnderWay(r) = {}
    BY <1>1, <1>2 DEF UnderWay
  <2>4. \A into, p : WillLand(r, into, p)' <=> WillLand(r, into, p)
    BY <2>3 DEF WillLand
  <2>5. PackedBytes(r)' /\ MergedBytes(r)'
    BY <1>2, <2>1, <2>4 DEF AtRank, Landing, PackedBytes, MergedBytes
  <2>6. ItemHeld(r)'
    BY <1>2, <1>9 DEF ItemHeld
  <2> QED
    BY <1>2, <2>2, <2>3, <2>5, <2>6 DEF AtRank, Landing
<1> QED
  BY <1>7, <1>8, <1>10 DEF AtRank

-----------------------------------------------------------------------------
(* Chunks are yielded                                                      *)

LEMMA HeadTaken ==
    ASSUME NEW r \in Ranks, Chain(r), ArrivedEnd(r)' = ArrivedEnd(r), chunks[r] # <<>>, chunks'[r] = Tail(chunks[r]),
           recvBufs'[r] = recvBufs[r], yielding'[r] = yielding[r], listening'[r] = listening[r],
           arrived'[r] = arrived[r], isLast'[r] = isLast[r]
    PROVE  /\ Chain(r)' /\ Proper(Head(chunks[r])) /\ HoldsChunk(recvBufs[r][yielding[r]], Head(chunks[r]))
           /\ Position(r) = Begin(Head(chunks[r])) /\ Position(r)' = After(Head(chunks[r]))
<1>1. Arrived(r)' = Arrived(r) /\ ChunksEnd(r)' = ChunksEnd(r)
  BY DEF Arrived, ChunksEnd, Start
<1>2. /\ Linked(chunks[r], ChunksEnd(r)) /\ Holds(recvBufs[r][yielding[r]], chunks[r])
      /\ chunks[r] \in Seq(Chunk)
  BY DEF Chain, Linked
<1>3. /\ Proper(Head(chunks[r])) /\ Head(chunks[r]) = chunks[r][1]
      /\ Start(chunks[r], ChunksEnd(r)) = Begin(Head(chunks[r]))
      /\ Linked(Tail(chunks[r]), ChunksEnd(r)) /\ Start(Tail(chunks[r]), ChunksEnd(r)) = After(Head(chunks[r]))
  BY <1>2, LinkedTail
<1>4. Position(r) = Begin(Head(chunks[r])) /\ Position(r)' = After(Head(chunks[r]))
  BY <1>1, <1>3 DEF Position
<1> DEFINE tail == Tail(chunks[r])
<1>5. /\ Len(chunks[r]) \in Nat \ {0} /\ DOMAIN chunks[r] = 1 .. Len(chunks[r]) /\ DOMAIN tail = 1 .. Len(chunks[r]) - 1
      /\ \A i \in 1 .. Len(chunks[r]) - 1 : tail[i] = chunks[r][i + 1]
  BY <1>2
<1> HIDE DEF tail
<1>6. HoldsChunk(recvBufs[r][yielding[r]], Head(chunks[r]))
  <2>1. 1 \in DOMAIN chunks[r]
    BY <1>5
  <2> QED
    BY <1>2, <1>3, <2>1 DEF Holds
<1>7. Holds(recvBufs[r][yielding[r]], tail)
  <2> SUFFICES ASSUME NEW i \in 1 .. Len(chunks[r]) - 1
               PROVE  HoldsChunk(recvBufs[r][yielding[r]], tail[i])
    BY <1>5 DEF Holds
  <2>1. i + 1 \in DOMAIN chunks[r] /\ tail[i] = chunks[r][i + 1]
    BY <1>5
  <2> QED
    BY <1>2, <2>1 DEF Holds
<1>8. Chain(r)'
  BY <1>1, <1>3, <1>7 DEF Chain, tail
<1> QED
  BY <1>3, <1>4, <1>6, <1>8

\* A whole weight is passed on as a view of the buffer.
LEMMA YieldStep ==
    ASSUME RankFunctions, NEW r \in Ranks, AtRank(r), YieldView(r), ArrivedEnd(r)' = ArrivedEnd(r)
    PROVE  AtRank(r)'
<1> DEFINE c == Head(chunks[r])
<1>1. /\ sender[r] = "pull" /\ ~unacked[r] /\ chunks[r] # <<>> /\ Sizes[c.weight] <= Bucket
      /\ item'[r] = [weight |-> c.weight, buffer |-> yielding[r], offset |-> c.offset]
      /\ chunks'[r] = Tail(chunks[r]) /\ sender'[r] = "place"
  BY DEF YieldView, Pulling, RankFunctions
<1>2. UNCHANGED <<yielding, listening, arrived, isLast, merging, recvBufs, mergeBuf, ipcBuf, pending, ipcMeta,
                  unacked, inbox, loaded>>
  BY DEF YieldView, copyVars, receiverVars
<1> HIDE DEF c
<1>3. /\ Chain(r)' /\ Proper(c) /\ HoldsChunk(recvBufs[r][yielding[r]], c)
      /\ Position(r) = Begin(c) /\ Position(r)' = After(c)
  BY <1>1, <1>2, HeadTaken DEF c, AtRank
<1>4. /\ c.weight \in 1 .. N /\ c.offset \in Nat /\ Sizes[c.weight] \in Nat \ {0}
      /\ c.at = 0 /\ c.size = Sizes[c.weight] /\ c.offset + c.size <= Bucket
  BY <1>1, <1>3, ChunkFacts
<1>5. Position(r) = <<c.weight, 0>> /\ Position(r)' = <<c.weight + 1, 0>>
  BY <1>3, <1>4 DEF Begin, After
<1>6. merging[r] = NotMerging /\ item[r] = None /\ item'[r] # None /\ item'[r].weight = c.weight
  <2>1. merging[r] # NotMerging => Position(r) = <<merging[r].weight, merging[r].bytes>> /\ Bucket <= merging[r].bytes
    BY DEF AtRank, Numbered
  <2>2. merging[r] = NotMerging
    BY <1>5, <2>1
  <2>3. item[r] = None
    BY <1>1 DEF AtRank, Numbered
  <2>4. item'[r] # None
    BY <1>1, <1>4 DEF None
  <2> QED
    BY <1>1, <2>2, <2>3, <2>4
<1>7. Numbered(r)'
  <2>1. InHand(r) = 0 /\ InHand(r)' = 1
    BY <1>6 DEF InHand
  <2>2. c.weight = Len(loaded[r]) + Len(inbox[r]) + Len(ipcMeta[r]) + 0 + 1
    <3>1. Position(r)[1] = Len(loaded[r]) + Len(inbox[r]) + Len(ipcMeta[r]) + InHand(r) + 1
      BY DEF AtRank, Numbered
    <3>2. Position(r)[1] = c.weight
      BY <1>5
    <3> QED
      BY <2>1, <3>1, <3>2
  <2>3. loaded[r] \in Seq({LoadedWeight(w) : w \in 1 .. N}) /\ inbox[r] \in Seq(Tensor) /\ ipcMeta[r] \in Seq(Tensor)
    BY DEF AtRank, Numbered
  <2>4. Len(loaded[r]) \in Nat /\ Len(inbox[r]) \in Nat /\ Len(ipcMeta[r]) \in Nat
    BY <2>3
  <2>5. /\ item'[r].weight = Len(loaded[r]) + Len(inbox[r]) + Len(ipcMeta[r]) + 1
        /\ Position(r)'[1] = Len(loaded[r]) + Len(inbox[r]) + Len(ipcMeta[r]) + InHand(r)' + 1
        /\ Position(r)'[2] = 0
    BY <1>4, <1>5, <1>6, <2>1, <2>2, <2>4
  <2> QED
    BY <1>1, <1>2, <1>4, <1>6, <2>5 DEF AtRank, Numbered
<1>8. Landing(r)'
  <2>1. Large(r) = 0 /\ Large(r)' = 0
    <3>1. ~(Sizes[item'[r].weight] > Bucket)
      BY <1>1, <1>4, <1>6
    <3> QED
      BY <1>2, <1>6, <3>1 DEF Large
  <2>2. PackedApart(r)'
    BY <1>2 DEF AtRank, Landing, PackedApart, Used
  <2>3. UnderWay(r)' = UnderWay(r)
    BY <1>2 DEF UnderWay
  <2>4. \A copy \in UnderWay(r) : Sourced(r, copy)'
    BY <1>2, <2>1 DEF AtRank, Landing, Sourced, PacksTensor, MergesLarge, SourceHas
  <2>5. \A into, p : WillLand(r, into, p)' <=> WillLand(r, into, p)
    BY <2>3 DEF WillLand
  <2>6. PackedBytes(r)' /\ MergedBytes(r)'
    BY <1>2, <2>1, <2>5 DEF AtRank, Landing, PackedBytes, MergedBytes
  <2>7. ItemHeld(r)'
    <3>1. /\ item'[r].buffer = yielding[r] /\ item'[r].offset = c.offset
          /\ HoldsWeight(recvBufs[r][yielding[r]], c.offset, c.weight)
      BY <1>1, <1>3, <1>4 DEF HoldsChunk, HoldsWeight
    <3> QED
      BY <1>2, <1>4, <1>6, <3>1 DEF ItemHeld
  <2> QED
    BY <1>2, <2>2, <2>3, <2>4, <2>6, <2>7 DEF AtRank, Landing
<1>9. Readable(r)'
  BY <1>2, ReadableUntouched DEF AtRank
<1> QED
  BY <1>3, <1>7, <1>8, <1>9 DEF AtRank

\* A copy is started.
LEMMA CopyStarted ==
    ASSUME NEW r \in Ranks, NEW copy \in Copy, pending[r] \in Seq(Copy), pending'[r] = Append(pending[r], copy)
    PROVE  /\ pending'[r] \in Seq(Copy) /\ UnderWay(r)' = UnderWay(r) \union {copy}
           /\ \A into, p : WillLand(r, into, p)' <=> WillLand(r, into, p) \/ Covers(copy, into, p)
<1>1. /\ Len(pending[r]) \in Nat /\ DOMAIN pending[r] = 1 .. Len(pending[r])
      /\ DOMAIN pending'[r] = 1 .. Len(pending[r]) + 1 /\ pending'[r] \in Seq(Copy)
      /\ \A i \in 1 .. Len(pending[r]) : pending'[r][i] = pending[r][i]
      /\ pending'[r][Len(pending[r]) + 1] = copy
  OBVIOUS
<1>2. \A i \in Nat : i \in 1 .. Len(pending[r]) + 1 <=> i = Len(pending[r]) + 1 \/ i \in 1 .. Len(pending[r])
  BY <1>1
<1>3. UnderWay(r)' = UnderWay(r) \union {copy}
  <2> DEFINE n == Len(pending[r])
             old == pending[r]
             new == pending'[r]
  <2>1. /\ UnderWay(r) = {old[i] : i \in 1 .. n} /\ UnderWay(r)' = {new[i] : i \in 1 .. n + 1}
        /\ n \in Nat /\ new[n + 1] = copy /\ \A i \in 1 .. n : new[i] = old[i]
    BY <1>1 DEF UnderWay
  <2> HIDE DEF n, old, new
  <2>2. \A i \in 1 .. n + 1 : i \in 1 .. n \/ i = n + 1
    BY <2>1
  <2>3. \A i \in 1 .. n : i \in 1 .. n + 1
    BY <2>1
  <2>4. n + 1 \in 1 .. n + 1
    BY <2>1
  <2>5. UnderWay(r)' \subseteq UnderWay(r) \union {copy}
    BY <2>1, <2>2
  <2>6. UnderWay(r) \union {copy} \subseteq UnderWay(r)'
    BY <2>1, <2>3, <2>4
  <2> QED
    BY <2>5, <2>6
<1>4. \A into, p : WillLand(r, into, p)' <=> WillLand(r, into, p) \/ Covers(copy, into, p)
  BY <1>3 DEF WillLand
<1> QED
  BY <1>1, <1>3, <1>4

\* A chunk of a large weight is added to those that are there.
LEMMA MergeStep ==
    ASSUME RankFunctions, NEW r \in Ranks, AtRank(r), MergeChunk(r), ArrivedEnd(r)' = ArrivedEnd(r)
    PROVE  AtRank(r)'
<1> DEFINE c == Head(chunks[r])
           complete == c.at + c.size = Sizes[c.weight]
           started == [buffer |-> yielding[r], offset |-> c.offset, size |-> c.size, into |-> "merge", at |-> c.at]
<1>1. /\ sender[r] = "pull" /\ ~unacked[r] /\ chunks[r] # <<>> /\ Sizes[c.weight] > Bucket
      /\ mergeBuf'[r] = (IF merging[r] = NotMerging THEN Blank(Sizes[c.weight]) ELSE mergeBuf[r])
      /\ pending'[r] = Append(pending[r], started)
      /\ complete => /\ merging'[r] = NotMerging /\ sender'[r] = "place"
                     /\ item'[r] = [weight |-> c.weight, buffer |-> 0, offset |-> 0]
      /\ ~complete => /\ merging'[r] = [weight |-> c.weight, bytes |-> merging[r].bytes + c.size]
                      /\ item'[r] = item[r] /\ sender'[r] = sender[r]
      /\ chunks'[r] = Tail(chunks[r])
  BY DEF MergeChunk, StartCopy, Pulling, RankFunctions
<1>2. UNCHANGED <<yielding, listening, arrived, isLast, recvBufs, ipcBuf, ipcMeta, unacked, inbox, loaded>>
  BY DEF MergeChunk, receiverVars
<1> HIDE DEF c
<1>3. /\ Chain(r)' /\ Proper(c) /\ HoldsChunk(recvBufs[r][yielding[r]], c)
      /\ Position(r) = Begin(c) /\ Position(r)' = After(c)
  BY <1>1, <1>2, HeadTaken DEF c, AtRank
<1>4. /\ c.weight \in 1 .. N /\ c.at \in Nat /\ c.offset \in Nat /\ c.size \in Nat \ {0} /\ Sizes[c.weight] \in Nat \ {0}
      /\ c.at + c.size <= Sizes[c.weight] /\ c.offset + c.size <= Bucket
      /\ ~complete => c.size = Bucket
  BY <1>3, ChunkFacts
<1>5. /\ Position(r) = <<c.weight, c.at>>
      /\ complete => Position(r)' = <<c.weight + 1, 0>>
      /\ ~complete => Position(r)' = <<c.weight, c.at + c.size>>
  BY <1>3 DEF Begin, After
<1>6. item[r] = None /\ inbox[r] = <<>> /\ yielding[r] \in {1, 2} /\ NotMerging.weight = 0 /\ NotMerging.bytes = 0
  BY <1>1 DEF AtRank, Numbered, Chain, NotMerging
<1>7. merging[r].bytes = c.at /\ (merging[r] # NotMerging => merging[r].weight = c.weight)
  <2>1. CASE merging[r] = NotMerging
    <3>1. Position(r)[2] = 0
      BY <2>1 DEF AtRank, Numbered
    <3>2. Position(r)[2] = c.at
      BY <1>5
    <3> QED
      BY <1>6, <2>1, <3>1, <3>2
  <2>2. CASE merging[r] # NotMerging
    <3>1. Position(r) = <<merging[r].weight, merging[r].bytes>>
      BY <2>2 DEF AtRank, Numbered
    <3> QED
      BY <1>5, <3>1
  <2> QED
    BY <2>1, <2>2
<1>8. /\ ~complete => merging'[r] # NotMerging /\ merging'[r].weight = c.weight /\ merging'[r].bytes = c.at + c.size
      /\ complete => item'[r] # None /\ item'[r].weight = c.weight
  <2>1. ~complete => merging'[r].weight = c.weight /\ merging'[r].bytes = c.at + c.size
    BY <1>1, <1>7
  <2>2. c.weight # 0
    BY <1>4
  <2>3. complete => item'[r].weight = c.weight
    BY <1>1
  <2>4. None.weight = 0
    BY DEF None
  <2> QED
    BY <1>6, <2>1, <2>2, <2>3, <2>4
<1> HIDE DEF complete
<1>9. PICK copy \in Copy :
         /\ pending'[r] = Append(pending[r], copy) /\ copy.buffer = yielding[r] /\ copy.offset = c.offset
         /\ copy.size = c.size /\ copy.into = "merge" /\ copy.at = c.at
  <2>1. started \in Copy
    BY <1>4, <1>6 DEF Copy
  <2> QED
    BY <1>1, <2>1
<1> HIDE DEF started
<1>10. /\ pending'[r] \in Seq(Copy)
       /\ UnderWay(r)' = UnderWay(r) \union {copy}
       /\ \A into, p : WillLand(r, into, p)' <=> WillLand(r, into, p) \/ Covers(copy, into, p)
  BY <1>9, CopyStarted DEF AtRank, Landing
<1>11. Numbered(r)'
  <2>1. InHand(r) = 0 /\ InHand(r)' = IF complete THEN 1 ELSE 0
    BY <1>1, <1>6, <1>8 DEF InHand
  <2>2. loaded[r] \in Seq({LoadedWeight(w) : w \in 1 .. N}) /\ inbox[r] \in Seq(Tensor) /\ ipcMeta[r] \in Seq(Tensor)
    BY DEF AtRank, Numbered
  <2>3. Len(loaded[r]) \in Nat /\ Len(inbox[r]) \in Nat /\ Len(ipcMeta[r]) \in Nat
    BY <2>2
  <2>4. c.weight = Len(loaded[r]) + Len(inbox[r]) + Len(ipcMeta[r]) + 0 + 1
    <3>1. Position(r)[1] = Len(loaded[r]) + Len(inbox[r]) + Len(ipcMeta[r]) + InHand(r) + 1
      BY DEF AtRank, Numbered
    <3>2. Position(r)[1] = c.weight
      BY <1>5
    <3> QED
      BY <2>1, <3>1, <3>2
  <2>5. CASE complete
    <3>1. /\ merging'[r] = NotMerging /\ item'[r] # None /\ sender'[r] = "place" /\ InHand(r)' = 1
          /\ Position(r)' = <<c.weight + 1, 0>> /\ item'[r].weight = c.weight
      BY <1>1, <1>5, <1>8, <2>1, <2>5
    <3>2. /\ c.weight = Len(loaded[r]) + Len(inbox[r]) + Len(ipcMeta[r]) + 1
          /\ Position(r)'[1] = Len(loaded[r]) + Len(inbox[r]) + Len(ipcMeta[r]) + InHand(r)' + 1
          /\ Position(r)'[2] = 0
      <4>1. Position(r)'[1] = c.weight + 1 /\ Position(r)'[2] = 0
        BY <3>1
      <4>2. /\ c.weight = Len(loaded[r]) + Len(inbox[r]) + Len(ipcMeta[r]) + 1
            /\ c.weight + 1 = Len(loaded[r]) + Len(inbox[r]) + Len(ipcMeta[r]) + 1 + 1
        BY <2>3, <2>4
      <4> QED
        BY <3>1, <4>1, <4>2
    <3> QED
      BY <1>1, <1>2, <1>4, <3>1, <3>2 DEF AtRank, Numbered
  <2>6. CASE ~complete
    <3>1. /\ merging'[r] # NotMerging /\ item'[r] = None /\ sender'[r] = "pull" /\ InHand(r)' = 0
          /\ Position(r)' = <<c.weight, c.at + c.size>> /\ merging'[r].weight = c.weight
          /\ merging'[r].bytes = c.at + c.size
      BY <1>1, <1>5, <1>6, <1>8, <2>1, <2>6
    <3>2. Position(r)'[1] = Len(loaded[r]) + Len(inbox[r]) + Len(ipcMeta[r]) + InHand(r)' + 1
      <4>1. Position(r)'[1] = c.weight
        BY <3>1
      <4> QED
        BY <2>4, <3>1, <4>1
    <3>3. c.at + c.size \in Nat /\ Bucket <= c.at + c.size /\ c.at + c.size < Sizes[c.weight]
      <4>1. c.at + c.size # Sizes[c.weight]
        BY <2>6 DEF complete
      <4> QED
        BY <1>4, <2>6, <4>1
    <3> QED
      BY <1>1, <1>2, <1>4, <1>6, <3>1, <3>2, <3>3 DEF AtRank, Numbered
  <2> QED
    BY <2>5, <2>6
<1>12. /\ Large(r)' = c.weight /\ LargeBytes(r)' = c.at + c.size
       /\ merging[r] = NotMerging => Large(r) = 0 /\ c.at = 0
       /\ merging[r] # NotMerging => Large(r) = c.weight /\ LargeBytes(r) = c.at
  <2>1. /\ merging[r] = NotMerging => Large(r) = 0 /\ c.at = 0
        /\ merging[r] # NotMerging => Large(r) = c.weight /\ LargeBytes(r) = c.at
    BY <1>6, <1>7 DEF Large, LargeBytes
  <2>2. complete => Large(r)' = c.weight /\ LargeBytes(r)' = Sizes[c.weight]
    BY <1>1, <1>8 DEF Large, LargeBytes
  <2>3. ~complete => Large(r)' = c.weight /\ LargeBytes(r)' = c.at + c.size
    BY <1>8 DEF Large, LargeBytes
  <2> QED
    BY <2>1, <2>2, <2>3 DEF complete
<1>13. Landing(r)'
  <2>1. PackedApart(r)' /\ DOMAIN ipcBuf'[r] = 0 .. Bucket - 1
    BY <1>2 DEF AtRank, Landing, PackedApart, Used
  <2>2. \A x, w, from : SourceHas(r, x, w, from)' <=> SourceHas(r, x, w, from)
    BY <1>2 DEF SourceHas
  <2>3. \A x, m : PacksTensor(r, x, m)' <=> PacksTensor(r, x, m)
    BY <1>2, <2>2 DEF PacksTensor
  <2>4. \A x \in UnderWay(r) : Sourced(r, x) /\ x \in Copy
    BY DEF AtRank, Landing, UnderWay
  <2>5. ASSUME NEW x \in Copy, MergesLarge(r, x) PROVE MergesLarge(r, x)'
    <3>1. /\ Large(r) = c.weight /\ LargeBytes(r) = c.at /\ x.at + x.size <= c.at
          /\ SourceHas(r, x, c.weight, x.at)
      BY <1>12, <2>5 DEF MergesLarge
    <3>2. x.at + x.size <= c.at + c.size
      <4>1. x.at + x.size \in Nat
        BY DEF Copy
      <4>2. \A e \in Nat : e <= c.at => e <= c.at + c.size
        BY <1>4
      <4> QED
        BY <3>1, <4>1, <4>2
    <3> QED
      BY <1>4, <1>12, <2>2, <3>1, <3>2 DEF MergesLarge
  <2>6. ASSUME NEW x \in Copy, Sourced(r, x) PROVE Sourced(r, x)'
    BY <1>2, <2>3, <2>5, <2>6 DEF Sourced
  <2>7. Sourced(r, copy)'
    <3>1. copy.buffer = yielding'[r] /\ copy.offset + copy.size <= Bucket
      BY <1>2, <1>4, <1>9
    <3>3. SourceHas(r, copy, c.weight, c.at)
      BY <1>3, <1>9 DEF SourceHas, HoldsChunk
    <3>4. c.at + c.size <= c.at + c.size /\ c.weight # 0
      BY <1>4
    <3>5. MergesLarge(r, copy)'
      BY <1>9, <1>12, <2>2, <3>3, <3>4 DEF MergesLarge
    <3> QED
      BY <1>9, <3>1, <3>5 DEF Sourced
  <2>8. \A x \in UnderWay(r)' : Sourced(r, x)'
    BY <1>10, <2>4, <2>6, <2>7
  <2>9. PackedBytes(r)'
    BY <1>2, <1>10 DEF AtRank, Landing, PackedBytes
  <2>10. DOMAIN mergeBuf'[r] = 0 .. Sizes[c.weight] - 1
    <3>1. CASE merging[r] = NotMerging
      BY <1>1, <3>1 DEF Blank
    <3>2. CASE merging[r] # NotMerging
      <4>1. Large(r) = c.weight /\ Large(r) # 0 /\ mergeBuf'[r] = mergeBuf[r]
        BY <1>1, <1>4, <1>12, <3>2
      <4> QED
        BY <4>1 DEF AtRank, Landing, MergedBytes
    <3> QED
      BY <3>1, <3>2
  <2>11. ASSUME NEW p \in 0 .. c.at + c.size - 1
         PROVE  mergeBuf'[r][p] = <<c.weight, p>> \/ WillLand(r, "merge", p)'
    <3>1. CASE c.at <= p
      <4>1. Covers(copy, "merge", p)
        BY <1>4, <1>9, <3>1 DEF Covers
      <4> QED
        BY <1>10, <4>1
    <3>2. CASE p < c.at
      <4>1. merging[r] # NotMerging /\ p \in 0 .. c.at - 1
        BY <1>4, <1>12, <3>2
      <4>2. mergeBuf'[r] = mergeBuf[r] /\ Large(r) = c.weight /\ LargeBytes(r) = c.at /\ Large(r) # 0
        BY <1>1, <1>4, <1>12, <4>1
      <4>3. mergeBuf[r][p] = <<c.weight, p>> \/ WillLand(r, "merge", p)
        BY <4>1, <4>2 DEF AtRank, Landing, MergedBytes
      <4> QED
        BY <1>10, <4>2, <4>3
    <3> QED
      BY <1>4, <3>1, <3>2
  <2>12. MergedBytes(r)'
    <3>1. DOMAIN mergeBuf'[r] = 0 .. Sizes[Large(r)'] - 1
      BY <1>12, <2>10
    <3>2. \A p \in 0 .. LargeBytes(r)' - 1 : mergeBuf'[r][p] = <<Large(r)', p>> \/ WillLand(r, "merge", p)'
      BY <1>4, <1>12, <2>11
    <3> QED
      BY <3>1, <3>2, Zenon DEF MergedBytes
  <2>13. ItemHeld(r)'
    <3>1. CASE complete
      BY <1>1, <1>4, <1>8, <3>1 DEF ItemHeld
    <3>2. CASE ~complete
      BY <1>1, <1>6, <3>2 DEF ItemHeld
    <3> QED
      BY <3>1, <3>2
  <2> QED
    BY <1>10, <2>1, <2>8, <2>9, <2>12, <2>13 DEF Landing
<1>14. Readable(r)'
  BY <1>2, <1>6 DEF Readable
<1> QED
  BY <1>3, <1>11, <1>13, <1>14 DEF AtRank

-----------------------------------------------------------------------------
(* Copies land                                                             *)

LEMMA CopyLanded ==
    ASSUME NEW r \in Ranks, pending[r] \in Seq(Copy), pending[r] # <<>>, pending'[r] = Tail(pending[r])
    PROVE  /\ Head(pending[r]) \in Copy /\ Head(pending[r]) \in UnderWay(r)
           /\ pending'[r] \in Seq(Copy) /\ UnderWay(r)' \subseteq UnderWay(r)
           /\ \A into, p : WillLand(r, into, p) => WillLand(r, into, p)' \/ Covers(Head(pending[r]), into, p)
<1> DEFINE tail == Tail(pending[r])
<1>1. /\ Len(pending[r]) \in Nat \ {0} /\ DOMAIN pending[r] = 1 .. Len(pending[r])
      /\ Head(pending[r]) = pending[r][1] /\ 1 \in 1 .. Len(pending[r]) /\ Head(pending[r]) \in Copy
      /\ tail \in Seq(Copy) /\ DOMAIN tail = 1 .. Len(pending[r]) - 1
      /\ \A i \in 1 .. Len(pending[r]) - 1 : tail[i] = pending[r][i + 1]
  OBVIOUS
<1> HIDE DEF tail
<1>2. UnderWay(r)' = {tail[i] : i \in DOMAIN tail}
  BY DEF UnderWay, tail
<1>3. \A i \in 1 .. Len(pending[r]) - 1 : i + 1 \in 1 .. Len(pending[r])
  BY <1>1
<1>4. UnderWay(r)' \subseteq UnderWay(r)
  BY <1>1, <1>2, <1>3 DEF UnderWay
<1>5. \A i \in 1 .. Len(pending[r]) : i = 1 \/ \E j \in 1 .. Len(pending[r]) - 1 : i = j + 1
  <2> SUFFICES ASSUME NEW i \in 1 .. Len(pending[r]), i # 1
               PROVE  \E j \in 1 .. Len(pending[r]) - 1 : i = j + 1
    OBVIOUS
  <2>1. i - 1 \in 1 .. Len(pending[r]) - 1 /\ i = (i - 1) + 1
    BY <1>1
  <2> QED
    BY <2>1
<1>6. \A x \in UnderWay(r) : x = Head(pending[r]) \/ x \in UnderWay(r)'
  <2> SUFFICES ASSUME NEW i \in 1 .. Len(pending[r])
               PROVE  pending[r][i] = Head(pending[r]) \/ pending[r][i] \in UnderWay(r)'
    BY <1>1 DEF UnderWay
  <2>1. CASE i = 1
    BY <1>1, <2>1
  <2>2. CASE i # 1
    <3>1. PICK j \in 1 .. Len(pending[r]) - 1 : i = j + 1
      BY <1>5, <2>2
    <3>2. pending[r][i] = tail[j]
      BY <1>1, <3>1
    <3> QED
      BY <1>1, <1>2, <3>2
  <2> QED
    BY <2>1, <2>2
<1>7. \A into, p : WillLand(r, into, p) => WillLand(r, into, p)' \/ Covers(Head(pending[r]), into, p)
  BY <1>6 DEF WillLand
<1>8. Head(pending[r]) \in UnderWay(r)
  BY <1>1 DEF UnderWay
<1> QED
  BY <1>1, <1>4, <1>7, <1>8 DEF tail

\* A copied byte lands at its place.
Carries(from, copy, w, first) == \A k \in 0 .. copy.size - 1 : from[copy.offset + k] = <<w, first + k>>
Copied(buf, from, copy) == Overwrite(buf, copy.at, Slice(from, copy.offset, copy.size))
Reaches(copy, p) == copy.at <= p /\ p < copy.at + copy.size

LEMMA LandedByte ==
    ASSUME NEW buf, NEW from, NEW copy \in Copy, NEW w, NEW first \in Nat, NEW p \in Nat,
           p \in DOMAIN buf, Carries(from, copy, w, first)
    PROVE  /\ Reaches(copy, p) => Copied(buf, from, copy)[p] = <<w, first + (p - copy.at)>>
           /\ ~Reaches(copy, p) => Copied(buf, from, copy)[p] = buf[p]
<1> DEFINE after == Copied(buf, from, copy)
<1>1. PICK at, offset, size \in Nat : at = copy.at /\ offset = copy.offset /\ size = copy.size
  BY DEF Copy
<1>2. after = Overwrite(buf, at, Slice(from, offset, size)) /\ \A k \in 0 .. size - 1 : from[offset + k] = <<w, first + k>>
  BY <1>1 DEF Copied, Carries
<1> HIDE DEF after
<1>3. ASSUME at <= p, p < at + size PROVE after[p] = <<w, first + (p - at)>>
  <2> DEFINE k == p - at
  <2>1. k \in 0 .. size - 1 /\ at + k = p
    BY <1>3
  <2> HIDE DEF k
  <2>2. Overwrite(buf, at, Slice(from, offset, size))[at + k] = from[offset + k]
    <3>1. at + k \in DOMAIN buf
      BY <2>1
    <3> QED
      BY <2>1, <3>1, OverwriteInside
  <2>3. after[p] = <<w, first + k>>
    BY <1>2, <2>1, <2>2
  <2> QED
    BY <2>3 DEF k
<1>4. ASSUME ~(at <= p /\ p < at + size) PROVE after[p] = buf[p]
  <2>1. p \in Int /\ (p < at \/ at + size <= p)
    BY <1>4
  <2> QED
    BY <1>2, <2>1, OverwriteOutside
<1> QED
  BY <1>1, <1>3, <1>4 DEF after, Reaches

LEMMA LargeFacts ==
    ASSUME NEW r \in Ranks, Numbered(r), Large(r) # 0
    PROVE  Large(r) \in 1 .. N /\ LargeBytes(r) \in Nat /\ LargeBytes(r) <= Sizes[Large(r)] /\ Sizes[Large(r)] \in Nat
<1>1. CASE merging[r] # NotMerging
  <2>1. Large(r) = merging[r].weight /\ LargeBytes(r) = merging[r].bytes
    BY <1>1 DEF Large, LargeBytes
  <2>2. merging[r].weight \in 1 .. N /\ merging[r].bytes \in Nat /\ merging[r].bytes < Sizes[merging[r].weight]
    BY <1>1 DEF Numbered
  <2> QED
    BY <2>1, <2>2, SizesFacts
<1>2. CASE merging[r] = NotMerging
  <2>1. item[r] # None /\ Large(r) = item[r].weight /\ LargeBytes(r) = Sizes[item[r].weight]
    BY <1>2 DEF Large, LargeBytes
  <2>2. item[r].weight \in 1 .. N
    BY <2>1 DEF Numbered
  <2> QED
    BY <2>1, <2>2, SizesFacts
<1> QED
  BY <1>1, <1>2

LEMMA TensorsTyped ==
    ASSUME NEW r \in Ranks, Numbered(r)
    PROVE  /\ \A i \in DOMAIN ipcMeta[r] :
                i \in Nat /\ ipcMeta[r][i] \in Tensor /\ ipcMeta[r][i].offset \in Nat /\ ipcMeta[r][i].size \in Nat
           /\ \A i \in DOMAIN inbox[r] : i \in Nat /\ inbox[r][i] \in Tensor
<1>1. ipcMeta[r] \in Seq(Tensor) /\ inbox[r] \in Seq(Tensor)
  BY DEF Numbered
<1>2. \A i \in DOMAIN ipcMeta[r] : i \in Nat /\ ipcMeta[r][i] \in Tensor
  BY <1>1
<1>3. \A t \in Tensor : t.offset \in Nat /\ t.size \in Nat
  BY DEF Tensor
<1> QED
  BY <1>1, <1>2, <1>3

\* The device does a copy.
LEMMA LandStep ==
    ASSUME RankFunctions, NEW r \in Ranks, AtRank(r), LandCopy(r), ArrivedEnd(r)' = ArrivedEnd(r)
    PROVE  AtRank(r)'
<1>1. /\ pending[r] # <<>> /\ pending'[r] = Tail(pending[r])
      /\ UNCHANGED <<yielding, listening, arrived, chunks, isLast, merging, item, recvBufs, ipcMeta, unacked, sender,
                     inbox, loaded>>
  BY DEF LandCopy, RankFunctions, chunkVars, mergeVars, senderVars, receiverVars
<1>2. PICK copy : copy = Head(pending[r])
  OBVIOUS
<1>3. /\ copy \in Copy /\ copy \in UnderWay(r) /\ pending'[r] \in Seq(Copy) /\ UnderWay(r)' \subseteq UnderWay(r)
      /\ \A into, p : WillLand(r, into, p) => WillLand(r, into, p)' \/ Covers(copy, into, p)
  <2>1. pending[r] \in Seq(Copy)
    BY DEF AtRank, Landing
  <2> QED
    BY <1>1, <1>2, <2>1, CopyLanded
<1>4. Sourced(r, copy) /\ copy.buffer = yielding[r] /\ copy.at \in Nat /\ copy.size \in Nat \ {0} /\ copy.into \in {"merge", "ipc"}
  BY <1>3 DEF AtRank, Landing, Sourced, Copy
<1>5. /\ copy.into = "merge" =>
            /\ mergeBuf'[r] = Overwrite(mergeBuf[r], copy.at, Slice(recvBufs[r][yielding[r]], copy.offset, copy.size))
            /\ ipcBuf'[r] = ipcBuf[r]
      /\ copy.into = "ipc" =>
            /\ ipcBuf'[r] = Overwrite(ipcBuf[r], copy.at, Slice(recvBufs[r][yielding[r]], copy.offset, copy.size))
            /\ mergeBuf'[r] = mergeBuf[r]
  BY <1>2, <1>4 DEF LandCopy, RankFunctions
<1>6. ~unacked[r] /\ inbox[r] = <<>>
  BY <1>1 DEF AtRank, Numbered
<1>7. Chain(r)' /\ Position(r)' = Position(r)
  BY <1>1, ChainUntouched DEF AtRank
<1>8. Numbered(r)'
  <2>1. InHand(r)' = InHand(r)
    BY <1>1 DEF InHand
  <2> QED
    BY <1>1, <1>6, <1>7, <2>1, Zenon DEF AtRank, Numbered
<1>9. Readable(r)'
  BY <1>1, <1>6 DEF Readable
<1>10. Large(r)' = Large(r) /\ LargeBytes(r)' = LargeBytes(r)
  BY <1>1 DEF Large, LargeBytes
<1>11. PackedApart(r)' /\ ItemHeld(r)'
  BY <1>1 DEF AtRank, Landing, PackedApart, ItemHeld, HoldsWeight, Used
<1>12. \A x \in UnderWay(r)' : Sourced(r, x)'
  <2> TAKE x \in UnderWay(r)'
  <2>1. Sourced(r, x)
    BY <1>3 DEF AtRank, Landing
  <2> QED
    BY <1>1, <1>10, <2>1 DEF Sourced, PacksTensor, MergesLarge, SourceHas
<1>13. DOMAIN ipcBuf'[r] = 0 .. Bucket - 1
  BY <1>4, <1>5, OverwriteDomain DEF AtRank, Landing
<1>14. PackedBytes(r)'
  <2> SUFFICES ASSUME NEW m \in DOMAIN ipcMeta[r], NEW p \in Nat,
                      ipcMeta[r][m].offset <= p, p < ipcMeta[r][m].offset + ipcMeta[r][m].size
               PROVE  \/ ipcBuf'[r][p] = <<ipcMeta[r][m].weight, p - ipcMeta[r][m].offset>>
                      \/ WillLand(r, "ipc", p)'
    BY <1>1 DEF PackedBytes
  <2>1. ipcBuf[r][p] = <<ipcMeta[r][m].weight, p - ipcMeta[r][m].offset>> \/ WillLand(r, "ipc", p)
    BY DEF AtRank, Landing, PackedBytes
  <2>2. CASE copy.into = "merge"
    BY <1>3, <1>5, <2>1, <2>2 DEF Covers
  <2>3. CASE copy.into = "ipc"
    <3>1. PICK o \in DOMAIN ipcMeta[r] : PacksTensor(r, copy, o)
      BY <1>4, <2>3 DEF Sourced
    <3>2. /\ ipcMeta[r][o].offset = copy.at /\ ipcMeta[r][o].size = copy.size
          /\ \A k \in 0 .. copy.size - 1 : recvBufs[r][yielding[r]][copy.offset + k] = <<ipcMeta[r][o].weight, 0 + k>>
      BY <3>1 DEF PacksTensor, SourceHas
    <3>7. \A i \in DOMAIN ipcMeta[r] : i \in Nat /\ ipcMeta[r][i].offset \in Nat /\ ipcMeta[r][i].size \in Nat
      BY TensorsTyped DEF AtRank
    <3>8. ipcMeta[r][m].offset + ipcMeta[r][m].size <= Used(ipcMeta[r]) /\ Used(ipcMeta[r]) \in 0 .. Bucket
      BY DEF AtRank, Landing, PackedApart
    <3>3. p \in DOMAIN ipcBuf[r]
      <4>1. DOMAIN ipcBuf[r] = 0 .. Bucket - 1
        BY DEF AtRank, Landing
      <4> QED
        BY <3>7, <3>8, <4>1
    <3>4. /\ copy.at <= p /\ p < copy.at + copy.size => ipcBuf'[r][p] = <<ipcMeta[r][o].weight, 0 + (p - copy.at)>>
          /\ ~(copy.at <= p /\ p < copy.at + copy.size) => ipcBuf'[r][p] = ipcBuf[r][p]
      <4>1. Carries(recvBufs[r][yielding[r]], copy, ipcMeta[r][o].weight, 0)
        BY <3>2 DEF Carries
      <4>2. ipcBuf'[r] = Copied(ipcBuf[r], recvBufs[r][yielding[r]], copy)
        BY <1>5, <2>3 DEF Copied
      <4>3. 0 \in Nat
        OBVIOUS
      <4> QED
        BY <1>3, <3>3, <4>1, <4>2, <4>3, LandedByte DEF Reaches
    <3>5. CASE copy.at <= p /\ p < copy.at + copy.size
      <4>1. m = o
        <5>1. m < o => ipcMeta[r][m].offset + ipcMeta[r][m].size <= ipcMeta[r][o].offset
          BY DEF AtRank, Landing, PackedApart
        <5>2. o < m => ipcMeta[r][o].offset + ipcMeta[r][o].size <= ipcMeta[r][m].offset
          BY DEF AtRank, Landing, PackedApart
        <5>3. PICK a, b, x, y \in Nat : /\ a = ipcMeta[r][m].offset /\ x = ipcMeta[r][m].size
                                        /\ b = ipcMeta[r][o].offset /\ y = ipcMeta[r][o].size
          BY <3>7
        <5>4. a <= p /\ p < a + x /\ b <= p /\ p < b + y
          BY <3>2, <3>5, <5>3
        <5>5. ~(a + x <= b) /\ ~(b + y <= a)
          BY <5>4
        <5>6. ~(m < o) /\ ~(o < m)
          BY <5>1, <5>2, <5>3, <5>5
        <5>7. m \in Nat /\ o \in Nat
          BY <3>7
        <5> QED
          BY <5>6, <5>7
      <4> QED
        BY <1>4, <3>2, <3>4, <3>5, <4>1
    <3>6. CASE ~(copy.at <= p /\ p < copy.at + copy.size)
      BY <1>3, <2>1, <3>4, <3>6 DEF Covers
    <3> QED
      BY <3>5, <3>6
  <2> QED
    BY <1>4, <2>2, <2>3
<1>15. MergedBytes(r)'
  <2> SUFFICES ASSUME Large(r) # 0
               PROVE  /\ DOMAIN mergeBuf'[r] = 0 .. Sizes[Large(r)] - 1
                      /\ \A p \in 0 .. LargeBytes(r) - 1 : mergeBuf'[r][p] = <<Large(r), p>> \/ WillLand(r, "merge", p)'
    BY <1>10 DEF MergedBytes
  <2>1. /\ DOMAIN mergeBuf[r] = 0 .. Sizes[Large(r)] - 1
        /\ \A p \in 0 .. LargeBytes(r) - 1 : mergeBuf[r][p] = <<Large(r), p>> \/ WillLand(r, "merge", p)
    BY DEF AtRank, Landing, MergedBytes
  <2>2. Large(r) \in 1 .. N /\ LargeBytes(r) \in Nat /\ LargeBytes(r) <= Sizes[Large(r)] /\ Sizes[Large(r)] \in Nat
    BY LargeFacts DEF AtRank
  <2>3. CASE copy.into = "ipc"
    BY <1>3, <1>5, <2>1, <2>3 DEF Covers
  <2>4. CASE copy.into = "merge"
    <3>1. \A k \in 0 .. copy.size - 1 : recvBufs[r][yielding[r]][copy.offset + k] = <<Large(r), copy.at + k>>
      BY <1>4, <2>4 DEF Sourced, MergesLarge, SourceHas
    <3>2. DOMAIN mergeBuf'[r] = 0 .. Sizes[Large(r)] - 1
      BY <1>5, <2>1, <2>4, OverwriteDomain
    <3>3. ASSUME NEW p \in 0 .. LargeBytes(r) - 1
          PROVE  mergeBuf'[r][p] = <<Large(r), p>> \/ WillLand(r, "merge", p)'
      <4>1. p \in Nat /\ p \in DOMAIN mergeBuf[r]
        BY <2>1, <2>2
      <4>2. /\ copy.at <= p /\ p < copy.at + copy.size => mergeBuf'[r][p] = <<Large(r), copy.at + (p - copy.at)>>
            /\ ~(copy.at <= p /\ p < copy.at + copy.size) => mergeBuf'[r][p] = mergeBuf[r][p]
        <5>1. Carries(recvBufs[r][yielding[r]], copy, Large(r), copy.at)
          BY <3>1 DEF Carries
        <5>2. mergeBuf'[r] = Copied(mergeBuf[r], recvBufs[r][yielding[r]], copy)
          BY <1>5, <2>4 DEF Copied
        <5> QED
          BY <1>3, <1>4, <4>1, <5>1, <5>2, LandedByte DEF Reaches
      <4>3. copy.at + (p - copy.at) = p
        BY <1>4, <4>1
      <4>4. CASE copy.at <= p /\ p < copy.at + copy.size
        BY <4>2, <4>3, <4>4
      <4>5. CASE ~(copy.at <= p /\ p < copy.at + copy.size)
        BY <1>3, <2>1, <4>2, <4>5 DEF Covers
      <4> QED
        BY <4>4, <4>5
    <3> QED
      BY <3>2, <3>3
  <2> QED
    BY <1>4, <2>3, <2>4
<1>16. Landing(r)'
  BY <1>3, <1>11, <1>12, <1>13, <1>14, <1>15 DEF Landing
<1> QED
  BY <1>7, <1>8, <1>9, <1>16 DEF AtRank

-----------------------------------------------------------------------------
(* Weights are packed for the server and sent                              *)

LEMMA Counts ==
    ASSUME NEW r \in Ranks, Numbered(r)
    PROVE  /\ Len(loaded[r]) \in Nat /\ Len(inbox[r]) \in Nat /\ Len(ipcMeta[r]) \in Nat
           /\ DOMAIN inbox[r] = 1 .. Len(inbox[r]) /\ DOMAIN ipcMeta[r] = 1 .. Len(ipcMeta[r])
<1>1. loaded[r] \in Seq({LoadedWeight(w) : w \in 1 .. N}) /\ ipcMeta[r] \in Seq(Tensor) /\ inbox[r] \in Seq(Tensor)
  BY DEF Numbered
<1> QED
  BY <1>1

LEMMA PlaceStep ==
    ASSUME RankFunctions, NEW r \in Ranks, AtRank(r), Place(r), ArrivedEnd(r)' = ArrivedEnd(r)
    PROVE  AtRank(r)'
<1>1. /\ sender[r] = "place" /\ ~unacked[r] /\ Used(ipcMeta[r]) + Sizes[item[r].weight] <= Bucket
      /\ ipcMeta'[r] = Append(ipcMeta[r], TensorOf(item[r].weight, Used(ipcMeta[r]), TRUE))
      /\ pending'[r] = Append(pending[r], [buffer |-> item[r].buffer, offset |-> item[r].offset,
                                           size |-> Sizes[item[r].weight], into |-> "ipc", at |-> Used(ipcMeta[r])])
      /\ item'[r] = None /\ sender'[r] = "pull"
  BY DEF Place, StartCopy, Placing, FitsIpc, RankFunctions
<1>2. UNCHANGED <<yielding, listening, arrived, chunks, isLast, merging, recvBufs, mergeBuf, ipcBuf, unacked, inbox, loaded>>
  BY DEF Place, chunkVars, receiverVars
<1>3. /\ item[r] # None /\ item[r].weight \in 1 .. N /\ merging[r] = NotMerging /\ inbox[r] = <<>>
      /\ item[r].weight = Len(loaded[r]) + Len(inbox[r]) + Len(ipcMeta[r]) + 1
  BY <1>1 DEF AtRank, Numbered
<1>4. PICK w \in 1 .. N, offset \in Nat : w = item[r].weight /\ offset = Used(ipcMeta[r]) /\ offset + Sizes[w] <= Bucket
  <2>1. Used(ipcMeta[r]) \in Nat
    BY DEF AtRank, Landing, PackedApart
  <2> QED
    BY <1>1, <1>3, <2>1
<1>5. Sizes[w] \in Nat \ {0} /\ Sizes[w] <= Bucket /\ ~(Sizes[w] > Bucket)
  BY <1>4, SizesFacts
<1>6. /\ item[r].buffer = yielding[r] /\ yielding[r] \in {1, 2} /\ item[r].offset \in Nat
      /\ item[r].offset + Sizes[w] <= Bucket /\ HoldsWeight(recvBufs[r][yielding[r]], item[r].offset, w)
  BY <1>3, <1>4, <1>5 DEF AtRank, Chain, Landing, ItemHeld
<1>7. PICK tensor \in Tensor :
         /\ ipcMeta'[r] = Append(ipcMeta[r], tensor)
         /\ tensor.weight = w /\ tensor.offset = offset /\ tensor.size = Sizes[w] /\ tensor.shared
  <2>1. TensorOf(w, offset, TRUE) \in Tensor
    BY <1>5 DEF TensorOf, Tensor
  <2> QED
    BY <1>1, <1>4, <2>1 DEF TensorOf
<1>8. PICK copy \in Copy :
         /\ pending'[r] = Append(pending[r], copy)
         /\ copy.buffer = yielding[r] /\ copy.offset = item[r].offset /\ copy.size = Sizes[w] /\ copy.into = "ipc"
         /\ copy.at = offset
  <2> DEFINE started == [buffer |-> yielding[r], offset |-> item[r].offset, size |-> Sizes[w], into |-> "ipc",
                         at |-> offset]
  <2>1. started \in Copy
    BY <1>5, <1>6 DEF Copy
  <2> QED
    BY <1>1, <1>4, <1>6, <2>1
<1>9. /\ Len(loaded[r]) \in Nat /\ Len(inbox[r]) \in Nat /\ Len(ipcMeta[r]) \in Nat
      /\ DOMAIN ipcMeta[r] = 1 .. Len(ipcMeta[r]) /\ ipcMeta[r] \in Seq(Tensor)
  BY Counts DEF AtRank, Numbered
<1>10. /\ ipcMeta'[r] \in Seq(Tensor) /\ Len(ipcMeta'[r]) = Len(ipcMeta[r]) + 1
       /\ DOMAIN ipcMeta'[r] = 1 .. Len(ipcMeta[r]) + 1
       /\ \A i \in 1 .. Len(ipcMeta[r]) : ipcMeta'[r][i] = ipcMeta[r][i]
       /\ ipcMeta'[r][Len(ipcMeta[r]) + 1] = tensor
  BY <1>7, <1>9
<1>11. \A i \in 1 .. Len(ipcMeta[r]) + 1 : i = Len(ipcMeta[r]) + 1 \/ i \in 1 .. Len(ipcMeta[r])
  BY <1>9
<1>12. Len(ipcMeta[r]) + 1 \in 1 .. Len(ipcMeta[r]) + 1 /\ \A i \in 1 .. Len(ipcMeta[r]) : i \in 1 .. Len(ipcMeta[r]) + 1
  BY <1>9
<1>13. Chain(r)' /\ Position(r)' = Position(r)
  BY <1>2, ChainUntouched DEF AtRank
<1>14. Numbered(r)'
  <2>1. InHand(r) = 1 /\ InHand(r)' = 0
    BY <1>1, <1>3 DEF InHand
  <2>6. PICK l, n, m \in Nat : l = Len(loaded[r]) /\ n = Len(inbox[r]) /\ m = Len(ipcMeta[r])
    BY <1>9
  <2>7. w = l + n + m + 1
    BY <1>3, <1>4, <2>6
  <2>2. ASSUME NEW i \in DOMAIN ipcMeta'[r]
        PROVE  /\ ipcMeta'[r][i].weight = Len(loaded[r]) + Len(inbox[r]) + i /\ ipcMeta'[r][i].shared
               /\ ipcMeta'[r][i].size = Sizes[ipcMeta'[r][i].weight]
    <3>1. CASE i = Len(ipcMeta[r]) + 1
      <4>1. i = m + 1
        BY <2>6, <3>1
      <4>2. w = l + n + i
        <5>1. w = l + n + (m + 1)
          BY <2>7
        <5> QED
          BY <4>1, <5>1
      <4> QED
        BY <1>7, <1>10, <2>6, <3>1, <4>2
    <3>2. CASE i \in 1 .. Len(ipcMeta[r])
      BY <1>9, <1>10, <3>2 DEF AtRank, Numbered
    <3> QED
      BY <1>10, <1>11, <3>1, <3>2
  <2>3. Position(r)'[1] = Len(loaded[r]) + Len(inbox[r]) + Len(ipcMeta'[r]) + InHand(r)' + 1
    <3>1. Position(r)[1] = Len(loaded[r]) + Len(inbox[r]) + Len(ipcMeta[r]) + InHand(r) + 1
      BY DEF AtRank, Numbered
    <3>2. Position(r)[1] = l + n + m + 1 + 1
      BY <2>1, <2>6, <3>1
    <3>3. l + n + m + 1 + 1 = l + n + (m + 1) + 0 + 1
      OBVIOUS
    <3> QED
      BY <1>10, <1>13, <2>1, <2>6, <3>2, <3>3
  <2>4. Position(r)'[2] = 0
    BY <1>3, <1>13 DEF AtRank, Numbered
  <2>5. loaded'[r] \in Seq({LoadedWeight(v) : v \in 1 .. N}) /\ inbox'[r] \in Seq(Tensor) /\ inbox'[r] = <<>>
    BY <1>2, <1>3 DEF AtRank, Numbered
  <2>8. /\ sender'[r] = "pull" /\ item'[r] = None /\ merging'[r] = NotMerging /\ ~unacked'[r]
        /\ unacked'[r] \in BOOLEAN /\ DOMAIN inbox'[r] = {} /\ Len(loaded'[r]) = Len(loaded[r])
        /\ Len(inbox'[r]) = Len(inbox[r])
    BY <1>1, <1>2, <1>3 DEF AtRank, Numbered
  <2> QED
    BY <1>10, <2>2, <2>3, <2>4, <2>5, <2>8 DEF Numbered
<1>15. PackedApart(r)'
  <2>1. Used(ipcMeta'[r]) = offset + Sizes[w]
    BY <1>7, <1>9, UsedAppend
  <2>2. offset + Sizes[w] \in 0 .. Bucket
    BY <1>4, <1>5
  <2>3. ASSUME NEW i \in 1 .. Len(ipcMeta[r])
        PROVE  /\ ipcMeta[r][i].offset + ipcMeta[r][i].size <= offset
               /\ ipcMeta[r][i].offset + ipcMeta[r][i].size <= offset + Sizes[w]
    <3>1. ipcMeta[r][i].offset \in Nat /\ ipcMeta[r][i].size \in Nat
      BY <1>9, TensorsTyped DEF AtRank
    <3>2. ipcMeta[r][i].offset + ipcMeta[r][i].size <= offset
      BY <1>4, <1>9 DEF AtRank, Landing, PackedApart
    <3>3. \A a, b \in Nat : a + b <= offset => a + b <= offset + Sizes[w]
      BY <1>5
    <3> QED
      BY <3>1, <3>2, <3>3
  <2>4. ASSUME NEW i \in DOMAIN ipcMeta'[r]
        PROVE  ipcMeta'[r][i].offset + ipcMeta'[r][i].size <= Used(ipcMeta'[r])
    <3>1. CASE i = Len(ipcMeta[r]) + 1
      BY <1>5, <1>7, <1>10, <2>1, <3>1
    <3>2. CASE i \in 1 .. Len(ipcMeta[r])
      BY <1>10, <2>1, <2>3, <3>2
    <3> QED
      BY <1>10, <1>11, <3>1, <3>2
  <2>5. ASSUME NEW i \in DOMAIN ipcMeta'[r], NEW j \in DOMAIN ipcMeta'[r], i < j
        PROVE  ipcMeta'[r][i].offset + ipcMeta'[r][i].size <= ipcMeta'[r][j].offset
    <3>1. i \in 1 .. Len(ipcMeta[r])
      BY <1>9, <1>10, <2>5
    <3>2. CASE j = Len(ipcMeta[r]) + 1
      BY <1>7, <1>10, <2>3, <3>1, <3>2
    <3>3. CASE j \in 1 .. Len(ipcMeta[r])
      BY <1>9, <1>10, <2>5, <3>1, <3>3 DEF AtRank, Landing, PackedApart
    <3> QED
      BY <1>10, <1>11, <3>2, <3>3
  <2> QED
    BY <2>1, <2>2, <2>4, <2>5 DEF PackedApart
<1>16. /\ pending'[r] \in Seq(Copy) /\ UnderWay(r)' = UnderWay(r) \union {copy}
       /\ \A into, p : WillLand(r, into, p)' <=> WillLand(r, into, p) \/ Covers(copy, into, p)
  BY <1>8, CopyStarted DEF AtRank, Landing
<1>17. Large(r) = 0 /\ Large(r)' = 0
  BY <1>1, <1>2, <1>3, <1>4, <1>5 DEF Large
<1>18. \A x, v, from : SourceHas(r, x, v, from)' <=> SourceHas(r, x, v, from)
  BY <1>2 DEF SourceHas
<1>19. ASSUME NEW x \in UnderWay(r) PROVE Sourced(r, x)'
  <2>1. Sourced(r, x)
    BY DEF AtRank, Landing
  <2>2. x.buffer = yielding'[r] /\ x.offset + x.size <= Bucket /\ x.into # "merge"
    BY <1>2, <1>17, <2>1 DEF Sourced, MergesLarge
  <2>3. x.into = "ipc" => \E m \in DOMAIN ipcMeta[r] : PacksTensor(r, x, m)
    BY <2>1 DEF Sourced
  <2>4. ASSUME NEW m \in DOMAIN ipcMeta[r], PacksTensor(r, x, m) PROVE m \in DOMAIN ipcMeta'[r] /\ PacksTensor(r, x, m)'
    BY <1>9, <1>10, <1>12, <1>18, <2>4 DEF PacksTensor
  <2> QED
    BY <2>2, <2>3, <2>4 DEF Sourced
<1>20. Sourced(r, copy)'
  <2>1. SourceHas(r, copy, w, 0)
    BY <1>6, <1>8 DEF HoldsWeight, SourceHas
  <2>2. PICK m : m = Len(ipcMeta[r]) + 1 /\ m \in DOMAIN ipcMeta'[r] /\ ipcMeta'[r][m] = tensor
    BY <1>10, <1>12
  <2>3. PacksTensor(r, copy, m)'
    BY <1>7, <1>8, <1>18, <2>1, <2>2 DEF PacksTensor
  <2>4. copy.buffer = yielding'[r] /\ copy.offset + copy.size <= Bucket /\ copy.into # "merge"
    BY <1>2, <1>6, <1>8
  <2> QED
    BY <2>2, <2>3, <2>4 DEF Sourced
<1>21. PackedBytes(r)'
  <2> SUFFICES ASSUME NEW m \in DOMAIN ipcMeta'[r], NEW p \in Nat,
                      ipcMeta'[r][m].offset <= p, p < ipcMeta'[r][m].offset + ipcMeta'[r][m].size
               PROVE  \/ ipcBuf'[r][p] = <<ipcMeta'[r][m].weight, p - ipcMeta'[r][m].offset>>
                      \/ WillLand(r, "ipc", p)'
    BY DEF PackedBytes
  <2>1. CASE m = Len(ipcMeta[r]) + 1
    <3>1. Covers(copy, "ipc", p)
      BY <1>7, <1>8, <1>10, <2>1 DEF Covers
    <3> QED
      BY <1>16, <3>1
  <2>2. CASE m \in 1 .. Len(ipcMeta[r])
    <3>1. ipcMeta'[r][m] = ipcMeta[r][m] /\ m \in DOMAIN ipcMeta[r]
      BY <1>9, <1>10, <2>2
    <3>2. ipcBuf[r][p] = <<ipcMeta[r][m].weight, p - ipcMeta[r][m].offset>> \/ WillLand(r, "ipc", p)
      BY <3>1 DEF AtRank, Landing, PackedBytes
    <3> QED
      BY <1>2, <1>16, <3>1, <3>2
  <2> QED
    BY <1>10, <1>11, <2>1, <2>2
<1>22. MergedBytes(r)' /\ ItemHeld(r)'
  BY <1>1, <1>17 DEF MergedBytes, ItemHeld
<1>23. Landing(r)'
  BY <1>2, <1>15, <1>16, <1>19, <1>20, <1>21, <1>22 DEF AtRank, Landing
<1>24. Readable(r)'
  BY <1>2, <1>3 DEF Readable
<1> QED
  BY <1>13, <1>14, <1>23, <1>24 DEF AtRank

\* A bucket is sent when all its copies have landed.
LEMMA BucketSent ==
    ASSUME NEW r \in Ranks, AtRank(r), ArrivedEnd(r)' = ArrivedEnd(r), ~unacked[r], pending[r] = <<>>,
           inbox'[r] = ipcMeta[r], unacked'[r] = TRUE, ipcMeta'[r] = <<>>,
           sender'[r] \in {"pull", "place", "done"}, sender'[r] = "place" <=> item[r] # None,
           UNCHANGED <<yielding, listening, arrived, chunks, isLast, merging, item, recvBufs, mergeBuf, ipcBuf,
                       pending, loaded>>
    PROVE  AtRank(r)'
<1>1. inbox[r] = <<>> /\ Len(inbox[r]) = 0
  BY DEF AtRank, Numbered
<1>2. /\ Len(loaded[r]) \in Nat /\ Len(ipcMeta[r]) \in Nat
      /\ DOMAIN ipcMeta[r] = 1 .. Len(ipcMeta[r]) /\ ipcMeta[r] \in Seq(Tensor)
      /\ \A i \in DOMAIN ipcMeta[r] : i \in Nat /\ ipcMeta[r][i].offset \in Nat /\ ipcMeta[r][i].size \in Nat
  BY Counts, TensorsTyped DEF AtRank, Numbered
<1>3. Chain(r)' /\ Position(r)' = Position(r)
  BY ChainUntouched DEF AtRank
<1>4. InHand(r)' = InHand(r) /\ InHand(r) \in Nat
  BY DEF InHand
<1>5. PICK l, m, h \in Nat : l = Len(loaded[r]) /\ m = Len(ipcMeta[r]) /\ h = InHand(r)
  BY <1>2, <1>4
<1>6. Numbered(r)'
  <2>1. \A i \in DOMAIN ipcMeta[r] :
           ipcMeta[r][i].weight = Len(loaded[r]) + i /\ ipcMeta[r][i].size = Sizes[ipcMeta[r][i].weight]
    <3> TAKE i \in DOMAIN ipcMeta[r]
    <3>1. ipcMeta[r][i].weight = Len(loaded[r]) + Len(inbox[r]) + i /\ ipcMeta[r][i].size = Sizes[ipcMeta[r][i].weight]
      BY DEF AtRank, Numbered
    <3> QED
      BY <1>1, <1>2, <3>1
  <2>2. Len(ipcMeta'[r]) = 0 /\ DOMAIN ipcMeta'[r] = {} /\ ipcMeta'[r] \in Seq(Tensor)
    OBVIOUS
  <2>3. item[r] # None => item[r].weight = Len(loaded[r]) + Len(ipcMeta[r]) + 0 + 1 /\ item[r].weight \in 1 .. N
    <3>1. item[r] # None => item[r].weight = Len(loaded[r]) + Len(inbox[r]) + Len(ipcMeta[r]) + 1 /\ item[r].weight \in 1 .. N
      BY DEF AtRank, Numbered
    <3>2. l + 0 + m + 1 = l + m + 0 + 1
      OBVIOUS
    <3> QED
      BY <1>1, <1>5, <3>1, <3>2
  <2>4. Position(r)[1] = Len(loaded[r]) + Len(ipcMeta[r]) + 0 + InHand(r) + 1
    <3>1. Position(r)[1] = Len(loaded[r]) + Len(inbox[r]) + Len(ipcMeta[r]) + InHand(r) + 1
      BY DEF AtRank, Numbered
    <3>2. l + 0 + m + h + 1 = l + m + 0 + h + 1
      OBVIOUS
    <3> QED
      BY <1>1, <1>5, <3>1, <3>2
  <2>5. /\ loaded[r] \in Seq({LoadedWeight(w) : w \in 1 .. N})
        /\ merging[r] = NotMerging => Position(r)[2] = 0
        /\ merging[r] # NotMerging =>
              /\ Position(r) = <<merging[r].weight, merging[r].bytes>>
              /\ merging[r].weight \in 1 .. N /\ merging[r].bytes \in Nat
              /\ Bucket <= merging[r].bytes /\ merging[r].bytes < Sizes[merging[r].weight]
              /\ item[r] = None
    BY DEF AtRank, Numbered
  <2> QED
    BY <1>2, <1>3, <1>4, <2>1, <2>2, <2>3, <2>4, <2>5 DEF Numbered
<1>7. Landing(r)'
  <2>1. UnderWay(r)' = UnderWay(r) /\ UnderWay(r) = {} /\ pending'[r] \in Seq(Copy)
    <3>1. pending'[r] = <<>> /\ DOMAIN pending[r] = {}
      OBVIOUS
    <3>2. UnderWay(r)' = {} /\ UnderWay(r) = {}
      BY <3>1 DEF UnderWay
    <3>3. <<>> \in Seq(Copy)
      OBVIOUS
    <3> QED
      BY <3>1, <3>2, <3>3
  <2>2. \A into, p : WillLand(r, into, p)' <=> WillLand(r, into, p)
    BY <2>1 DEF WillLand
  <2>3. PackedApart(r)'
    BY DEF PackedApart, Used
  <2>4. Large(r)' = Large(r) /\ LargeBytes(r)' = LargeBytes(r)
    BY DEF Large, LargeBytes
  <2>5. MergedBytes(r)' /\ ItemHeld(r)'
    BY <2>2, <2>4 DEF AtRank, Landing, MergedBytes, ItemHeld, HoldsWeight
  <2>6. PackedBytes(r)'
    BY DEF PackedBytes
  <2> QED
    BY <2>1, <2>3, <2>5, <2>6 DEF AtRank, Landing
<1>8. Readable(r)'
  <2> SUFFICES ASSUME NEW i \in DOMAIN ipcMeta[r]
               PROVE  ipcMeta[r][i].shared /\ HoldsWeight(ipcBuf[r], ipcMeta[r][i].offset, ipcMeta[r][i].weight)
    BY DEF Readable
  <2>1. ipcMeta[r][i].shared /\ ipcMeta[r][i].size = Sizes[ipcMeta[r][i].weight]
    BY DEF AtRank, Numbered
  <2>2. PICK offset, size \in Nat : offset = ipcMeta[r][i].offset /\ size = ipcMeta[r][i].size
    BY <1>2
  <2>3. ASSUME NEW k \in 0 .. size - 1 PROVE ipcBuf[r][offset + k] = <<ipcMeta[r][i].weight, k>>
    <3>1. offset + k \in Nat /\ offset <= offset + k /\ offset + k < offset + size /\ (offset + k) - offset = k
      OBVIOUS
    <3>2. ~WillLand(r, "ipc", offset + k)
      BY DEF WillLand, UnderWay
    <3> QED
      BY <2>2, <3>1, <3>2 DEF AtRank, Landing, PackedBytes
  <2> QED
    BY <2>1, <2>2, <2>3 DEF HoldsWeight
<1> QED
  BY <1>3, <1>6, <1>7, <1>8 DEF AtRank

LEMMA SendBucketStep ==
    ASSUME RankFunctions, NEW r \in Ranks, AtRank(r), SendBucket(r) \/ SendLastBucket(r), ArrivedEnd(r)' = ArrivedEnd(r)
    PROVE  AtRank(r)'
<1>1. /\ ~unacked[r] /\ pending[r] = <<>> /\ inbox'[r] = ipcMeta[r] /\ unacked'[r] = TRUE /\ ipcMeta'[r] = <<>>
      /\ \/ sender[r] = "place" /\ sender'[r] = "place"
         \/ sender[r] = "pull" /\ sender'[r] = "done"
      /\ UNCHANGED <<yielding, listening, arrived, chunks, isLast, merging, item, recvBufs, mergeBuf, ipcBuf,
                     pending, loaded>>
  BY DEF SendBucket, SendLastBucket, Send, Placing, Pulling, Synchronized, RankFunctions, chunkVars, mergeVars, copyVars
<1>2. sender[r] = "place" <=> item[r] # None
  BY DEF AtRank, Numbered
<1>3. sender'[r] \in {"pull", "place", "done"} /\ (sender'[r] = "place" <=> item[r] # None)
  BY <1>1, <1>2
<1> QED
  BY <1>1, <1>3, BucketSent

\* A weight that no bucket can hold is sent by itself, merged to its last byte.
LEMMA SendLargeStep ==
    ASSUME RankFunctions, NEW r \in Ranks, AtRank(r), SendLargeWeight(r), ArrivedEnd(r)' = ArrivedEnd(r)
    PROVE  AtRank(r)'
<1>1. /\ sender[r] = "place" /\ ~unacked[r] /\ pending[r] = <<>> /\ ipcMeta[r] = <<>>
      /\ ~(Used(ipcMeta[r]) + Sizes[item[r].weight] <= Bucket)
      /\ inbox'[r] = <<TensorOf(item[r].weight, 0, FALSE)>> /\ unacked'[r] = TRUE /\ sender'[r] = "pull"
      /\ item'[r] = None
      /\ UNCHANGED <<yielding, listening, arrived, chunks, isLast, merging, recvBufs, mergeBuf, ipcBuf, pending,
                     ipcMeta, loaded>>
  BY DEF SendLargeWeight, Send, Placing, FitsIpc, Synchronized, RankFunctions, chunkVars, copyVars
<1>2. /\ item[r] # None /\ item[r].weight \in 1 .. N /\ merging[r] = NotMerging /\ inbox[r] = <<>>
      /\ item[r].weight = Len(loaded[r]) + Len(inbox[r]) + Len(ipcMeta[r]) + 1
  BY <1>1 DEF AtRank, Numbered
<1>3. PICK w \in 1 .. N : w = item[r].weight
  BY <1>2
<1>4. Sizes[w] \in Nat \ {0} /\ Sizes[w] > Bucket
  <2>1. Used(<<>>) = 0
    BY DEF Used
  <2> QED
    BY <1>1, <1>3, <2>1, SizesFacts
<1>5. PICK l \in Nat : l = Len(loaded[r]) /\ w = l + 1
  <2>1. Len(loaded[r]) \in Nat /\ Len(inbox[r]) = 0 /\ Len(ipcMeta[r]) = 0
    BY <1>1, <1>2, Counts DEF AtRank
  <2> QED
    BY <1>2, <1>3, <2>1
<1>6. Chain(r)' /\ Position(r)' = Position(r)
  BY <1>1, ChainUntouched DEF AtRank
<1>7. PICK tensor \in Tensor :
         /\ inbox'[r] = <<tensor>> /\ tensor.weight = w /\ tensor.offset = 0 /\ tensor.size = Sizes[w] /\ ~tensor.shared
  <2>1. TensorOf(w, 0, FALSE) \in Tensor
    BY <1>4 DEF TensorOf, Tensor
  <2> QED
    BY <1>1, <1>3, <2>1 DEF TensorOf
<1>8. inbox'[r] \in Seq(Tensor) /\ Len(inbox'[r]) = 1 /\ DOMAIN inbox'[r] = {1} /\ inbox'[r][1] = tensor
  BY <1>7
<1>9. Numbered(r)'
  <2>1. InHand(r) = 1 /\ InHand(r)' = 0
    BY <1>1, <1>2 DEF InHand
  <2>2. Len(ipcMeta'[r]) = 0 /\ DOMAIN ipcMeta'[r] = {} /\ ipcMeta'[r] = <<>> /\ ipcMeta'[r] \in Seq(Tensor)
    <3>1. ipcMeta'[r] = <<>>
      BY <1>1
    <3>2. Len(<<>>) = 0 /\ <<>> \in Seq(Tensor) /\ DOMAIN <<>> = {}
      OBVIOUS
    <3> QED
      BY <3>1, <3>2
  <2>3. \A i \in DOMAIN inbox'[r] :
           inbox'[r][i].weight = Len(loaded[r]) + i /\ inbox'[r][i].size = Sizes[inbox'[r][i].weight]
    BY <1>5, <1>7, <1>8
  <2>4. Position(r)'[1] = Len(loaded[r]) + Len(inbox'[r]) + Len(ipcMeta'[r]) + InHand(r)' + 1
    <3>1. Position(r)[1] = Len(loaded[r]) + Len(inbox[r]) + Len(ipcMeta[r]) + InHand(r) + 1
      BY DEF AtRank, Numbered
    <3>2. Position(r)[1] = l + 0 + 0 + 1 + 1
      BY <1>1, <1>2, <1>5, <2>1, <3>1
    <3>3. l + 0 + 0 + 1 + 1 = l + 1 + 0 + 0 + 1
      OBVIOUS
    <3> QED
      BY <1>5, <1>6, <1>8, <2>1, <2>2, <3>2, <3>3
  <2>5. Position(r)'[2] = 0
    BY <1>2, <1>6 DEF AtRank, Numbered
  <2>6. /\ sender'[r] = "pull" /\ item'[r] = None /\ merging'[r] = NotMerging /\ unacked'[r] \in BOOLEAN
        /\ pending'[r] = <<>> /\ loaded'[r] = loaded[r] /\ loaded[r] \in Seq({LoadedWeight(v) : v \in 1 .. N})
        /\ unacked'[r]
    BY <1>1, <1>2 DEF AtRank, Numbered
  <2> QED
    BY <1>8, <2>2, <2>3, <2>4, <2>5, <2>6 DEF Numbered
<1>10. UnderWay(r) = {} /\ UnderWay(r)' = {} /\ pending'[r] \in Seq(Copy)
  <2>1. pending'[r] = <<>> /\ DOMAIN pending[r] = {}
    BY <1>1
  <2>2. UnderWay(r)' = {} /\ UnderWay(r) = {}
    BY <1>1, <2>1 DEF UnderWay
  <2>3. <<>> \in Seq(Copy)
    OBVIOUS
  <2> QED
    BY <2>1, <2>2, <2>3
<1>11. Landing(r)'
  <2>1. PackedApart(r)'
    BY <1>1 DEF AtRank, Landing, PackedApart, Used
  <2>2. Large(r)' = 0
    BY <1>1, <1>2 DEF Large
  <2>3. MergedBytes(r)' /\ ItemHeld(r)'
    BY <1>1, <2>2 DEF MergedBytes, ItemHeld
  <2>4. PackedBytes(r)'
    BY <1>1 DEF PackedBytes
  <2> QED
    BY <1>1, <1>10, <2>1, <2>3, <2>4 DEF AtRank, Landing
<1>12. HoldsWeight(mergeBuf[r], 0, w)
  <2>1. Large(r) = w /\ LargeBytes(r) = Sizes[w] /\ w # 0
    <3>1. Sizes[item[r].weight] > Bucket /\ w # 0 /\ Sizes[item[r].weight] = Sizes[w]
      BY <1>3, <1>4
    <3> QED
      BY <1>2, <1>3, <3>1, Zenon DEF Large, LargeBytes
  <2>2. \A p : ~WillLand(r, "merge", p)
    BY <1>10 DEF WillLand
  <2>3. \A p \in 0 .. Sizes[w] - 1 : mergeBuf[r][p] = <<w, p>>
    BY <1>4, <2>1, <2>2 DEF AtRank, Landing, MergedBytes
  <2>4. \A k \in 0 .. Sizes[w] - 1 : 0 + k = k
    OBVIOUS
  <2> QED
    BY <2>3, <2>4 DEF HoldsWeight
<1>13. Readable(r)'
  BY <1>1, <1>7, <1>8, <1>12 DEF Readable
<1> QED
  BY <1>6, <1>9, <1>11, <1>13 DEF AtRank

-----------------------------------------------------------------------------
(* The server loads                                                        *)

\* What is loaded is the next weight, byte for byte.
LEMMA LoadNext ==
    ASSUME RankFunctions, NEW r \in Ranks, AtRank(r), LoadTensor(r)
    PROVE  /\ inbox[r] # <<>> /\ Len(loaded[r]) + 1 \in 1 .. N
           /\ loaded' = [loaded EXCEPT ![r] = Append(@, LoadedWeight(Len(loaded[r]) + 1))]
<1> DEFINE tensor == Head(inbox[r])
<1>1. /\ inbox[r] # <<>>
      /\ loaded' = [loaded EXCEPT ![r] = Append(@, [weight |-> tensor.weight,
            bytes |-> Slice(IF tensor.shared THEN ipcBuf[r] ELSE mergeBuf[r], tensor.offset, tensor.size)])]
  BY DEF LoadTensor
<1>2. /\ inbox[r] \in Seq(Tensor) /\ tensor = inbox[r][1] /\ tensor \in Tensor /\ 1 \in DOMAIN inbox[r]
      /\ Len(loaded[r]) \in Nat
  <2>1. inbox[r] \in Seq(Tensor)
    BY DEF AtRank, Numbered
  <2> QED
    BY <1>1, <2>1, Counts DEF AtRank
<1> HIDE DEF tensor
<1>3. /\ tensor.weight \in 1 .. N /\ tensor.offset \in Nat /\ tensor.size = Sizes[tensor.weight]
      /\ tensor.weight = Len(loaded[r]) + 1 /\ tensor.shared \in BOOLEAN
  BY <1>2 DEF AtRank, Numbered, Tensor
<1>4. PICK buf : buf = IF tensor.shared THEN ipcBuf[r] ELSE mergeBuf[r]
  OBVIOUS
<1>5. HoldsWeight(buf, tensor.offset, tensor.weight)
  <2>1. CASE tensor.shared
    BY <1>2, <1>4, <2>1 DEF AtRank, Readable
  <2>2. CASE ~tensor.shared
    BY <1>2, <1>4, <2>2 DEF AtRank, Readable
  <2> QED
    BY <2>1, <2>2
<1>6. Slice(buf, tensor.offset, tensor.size) = WeightBytes(tensor.weight)
  BY <1>3, <1>5 DEF Slice, WeightBytes, HoldsWeight
<1> QED
  BY <1>1, <1>3, <1>4, <1>6 DEF LoadedWeight

LEMMA LoadStep ==
    ASSUME RankFunctions, NEW r \in Ranks, AtRank(r), LoadTensor(r), ArrivedEnd(r)' = ArrivedEnd(r)
    PROVE  AtRank(r)'
<1>1. /\ inbox[r] # <<>> /\ inbox'[r] = Tail(inbox[r]) /\ Len(loaded[r]) + 1 \in 1 .. N
      /\ loaded'[r] = Append(loaded[r], LoadedWeight(Len(loaded[r]) + 1))
      /\ UNCHANGED <<yielding, listening, arrived, chunks, isLast, merging, item, recvBufs, mergeBuf, ipcBuf, pending,
                     ipcMeta, unacked, sender>>
  <2>1. /\ inbox' = [inbox EXCEPT ![r] = Tail(@)]
        /\ UNCHANGED <<yielding, listening, arrived, chunks, isLast, merging, item, recvBufs, mergeBuf, ipcBuf,
                       pending, ipcMeta, unacked, sender>>
    BY DEF LoadTensor, chunkVars, mergeVars, copyVars, senderVars
  <2> QED
    BY <2>1, LoadNext DEF RankFunctions
<1>2. unacked[r] /\ ipcMeta[r] = <<>> /\ pending[r] = <<>>
  BY <1>1 DEF AtRank, Numbered
<1>3. /\ loaded[r] \in Seq({LoadedWeight(w) : w \in 1 .. N}) /\ inbox[r] \in Seq(Tensor)
      /\ Len(loaded[r]) \in Nat /\ Len(inbox[r]) \in Nat /\ DOMAIN inbox[r] = 1 .. Len(inbox[r])
  BY Counts DEF AtRank, Numbered
<1>4. loaded'[r] \in Seq({LoadedWeight(w) : w \in 1 .. N}) /\ Len(loaded'[r]) = Len(loaded[r]) + 1
  <2>1. LoadedWeight(Len(loaded[r]) + 1) \in {LoadedWeight(w) : w \in 1 .. N}
    BY <1>1
  <2> QED
    BY <1>1, <1>3, <2>1, AppendProperties
<1> DEFINE tail == Tail(inbox[r])
<1>5. /\ tail \in Seq(Tensor) /\ Len(tail) = Len(inbox[r]) - 1 /\ DOMAIN tail = 1 .. Len(inbox[r]) - 1
      /\ \A i \in 1 .. Len(inbox[r]) - 1 : tail[i] = inbox[r][i + 1] /\ i + 1 \in 1 .. Len(inbox[r])
      /\ Len(inbox[r]) \in Nat \ {0}
  BY <1>1, <1>3
<1>6. inbox'[r] = tail
  BY <1>1
<1> HIDE DEF tail
<1>7. PICK l, n \in Nat : l = Len(loaded[r]) /\ n + 1 = Len(inbox[r]) /\ n = Len(tail)
  <2>1. Len(inbox[r]) - 1 \in Nat /\ (Len(inbox[r]) - 1) + 1 = Len(inbox[r])
    BY <1>5
  <2> QED
    BY <1>3, <1>5, <2>1
<1>8. Chain(r)' /\ Position(r)' = Position(r)
  BY <1>1, ChainUntouched DEF AtRank
<1>9. InHand(r)' = InHand(r) /\ InHand(r) \in Nat
  BY <1>1 DEF InHand
<1>10. Numbered(r)'
  <2>1. ASSUME NEW i \in DOMAIN tail
        PROVE  tail[i].weight = Len(loaded'[r]) + i /\ tail[i].size = Sizes[tail[i].weight]
    <3>1. i \in Nat /\ tail[i] = inbox[r][i + 1] /\ i + 1 \in DOMAIN inbox[r]
      BY <1>3, <1>5
    <3>2. /\ inbox[r][i + 1].weight = Len(loaded[r]) + (i + 1)
          /\ inbox[r][i + 1].size = Sizes[inbox[r][i + 1].weight]
      BY <3>1 DEF AtRank, Numbered
    <3>3. l + (i + 1) = (l + 1) + i
      BY <3>1
    <3> QED
      BY <1>4, <1>7, <3>1, <3>2, <3>3
  <2>2. Len(ipcMeta[r]) = 0 /\ DOMAIN ipcMeta[r] = {} /\ ipcMeta[r] \in Seq(Tensor)
    BY <1>2
  <2>3. item[r] # None =>
           item[r].weight = Len(loaded'[r]) + Len(tail) + Len(ipcMeta[r]) + 1 /\ item[r].weight \in 1 .. N
    <3>1. item[r] # None =>
             item[r].weight = Len(loaded[r]) + Len(inbox[r]) + Len(ipcMeta[r]) + 1 /\ item[r].weight \in 1 .. N
      BY DEF AtRank, Numbered
    <3>2. l + (n + 1) + 0 + 1 = (l + 1) + n + 0 + 1
      OBVIOUS
    <3> QED
      BY <1>4, <1>7, <2>2, <3>1, <3>2
  <2>4. Position(r)[1] = Len(loaded'[r]) + Len(tail) + Len(ipcMeta[r]) + InHand(r) + 1
    <3>1. Position(r)[1] = Len(loaded[r]) + Len(inbox[r]) + Len(ipcMeta[r]) + InHand(r) + 1
      BY DEF AtRank, Numbered
    <3>2. l + (n + 1) + 0 + InHand(r) + 1 = (l + 1) + n + 0 + InHand(r) + 1
      BY <1>9
    <3> QED
      BY <1>4, <1>7, <2>2, <3>1, <3>2
  <2>5. /\ sender[r] \in {"pull", "place", "done"} /\ (sender[r] = "place" <=> item[r] # None)
        /\ merging[r] = NotMerging => Position(r)[2] = 0
        /\ merging[r] # NotMerging =>
              /\ Position(r) = <<merging[r].weight, merging[r].bytes>>
              /\ merging[r].weight \in 1 .. N /\ merging[r].bytes \in Nat
              /\ Bucket <= merging[r].bytes /\ merging[r].bytes < Sizes[merging[r].weight]
              /\ item[r] = None
        /\ unacked[r] \in BOOLEAN
    BY DEF AtRank, Numbered
  <2> QED
    BY <1>1, <1>2, <1>4, <1>5, <1>6, <1>8, <1>9, <2>1, <2>2, <2>3, <2>4, <2>5 DEF Numbered
<1>11. Landing(r)'
  BY <1>1, LandingUntouched DEF AtRank
<1>12. Readable(r)'
  <2> SUFFICES ASSUME NEW i \in DOMAIN tail
               PROVE  /\ tail[i].shared => HoldsWeight(ipcBuf[r], tail[i].offset, tail[i].weight)
                      /\ ~tail[i].shared => tail[i].offset = 0 /\ HoldsWeight(mergeBuf[r], 0, tail[i].weight)
    BY <1>1, <1>6 DEF Readable
  <2>1. tail[i] = inbox[r][i + 1] /\ i + 1 \in DOMAIN inbox[r]
    BY <1>3, <1>5
  <2> QED
    BY <2>1 DEF AtRank, Readable
<1> QED
  BY <1>8, <1>10, <1>11, <1>12 DEF AtRank

LEMMA AcknowledgeStep ==
    ASSUME RankFunctions, NEW r \in Ranks, AtRank(r), Acknowledge(r), ArrivedEnd(r)' = ArrivedEnd(r)
    PROVE  AtRank(r)'
<1>1. /\ unacked[r] /\ inbox[r] = <<>> /\ unacked'[r] = FALSE
      /\ UNCHANGED <<yielding, listening, arrived, chunks, isLast, merging, item, recvBufs, mergeBuf, ipcBuf, pending,
                     ipcMeta, sender, inbox, loaded>>
  BY DEF Acknowledge, RankFunctions, chunkVars, mergeVars, copyVars, receiverVars
<1>2. Chain(r)' /\ Position(r)' = Position(r)
  BY <1>1, ChainUntouched DEF AtRank
<1>3. Numbered(r)'
  <2>1. InHand(r)' = InHand(r)
    BY <1>1 DEF InHand
  <2> QED
    BY <1>1, <1>2, <2>1, Zenon DEF AtRank, Numbered
<1>4. Landing(r)' /\ Readable(r)'
  BY <1>1, LandingUntouched, ReadableUntouched DEF AtRank
<1> QED
  BY <1>2, <1>3, <1>4 DEF AtRank

-----------------------------------------------------------------------------
(* The invariant and what follows from it                                  *)

LEMMA InitInv == TransferInit => Inv
<1> SUFFICES ASSUME TransferInit PROVE Inv
  OBVIOUS
<1> USE DEF TransferInit
<1>1. RankFunctions
  BY DEF RankFunctions
<1>2. Here = <<1, 0>> /\ OpEnd = Here
  BY EmptyLinked DEF Here, OpEnd
<1>3. Packing
  BY EmptyLinked, SizesFacts DEF Packing, Used, Holds, Blank
<1>4. Broadcasting
  BY <1>2, EmptyLinked DEF Broadcasting
<1>5. ASSUME NEW r \in Ranks PROVE AtRank(r)
  <2>1. Arrived(r) = <<>> /\ ArrivedEnd(r) = <<1, 0>> /\ ChunksEnd(r) = <<1, 0>> /\ Position(r) = <<1, 0>>
    BY <1>2, EmptyLinked DEF Arrived, ArrivedEnd, ChunksEnd, Position
  <2>2. Chain(r)
    BY <2>1, EmptyLinked DEF Chain, Holds, Blank
  <2>3. Len(<<>>) = 0 /\ \A S : <<>> \in Seq(S)
    OBVIOUS
  <2>4. Numbered(r)
    BY <2>1, <2>3 DEF Numbered, InHand
  <2>5. UnderWay(r) = {} /\ Large(r) = 0 /\ pending[r] \in Seq(Copy)
    BY <2>3 DEF UnderWay, Large
  <2>6. PackedApart(r) /\ PackedBytes(r) /\ MergedBytes(r) /\ ItemHeld(r)
    BY <2>5 DEF PackedApart, PackedBytes, MergedBytes, ItemHeld, Used
  <2>7. Landing(r)
    BY <2>5, <2>6 DEF Landing, Blank
  <2>8. Readable(r)
    BY DEF Readable
  <2> QED
    BY <2>2, <2>4, <2>7, <2>8 DEF AtRank
<1> QED
  BY <1>1, <1>3, <1>4, <1>5 DEF Inv

LEMMA TrainerStep == ASSUME Inv, TrainerSide PROVE Inv'
<1>1. RankFunctions /\ Packing /\ Broadcasting /\ \A r \in Ranks : AtRank(r)
  BY DEF Inv
<1>2. UNCHANGED <<recvBufs, yielding, listening, arrived, chunks, isLast, merging, mergeBuf, item,
                  ipcMeta, ipcBuf, pending, unacked, sender, inbox, loaded>>
  BY DEF TrainerSide, PackChunk, BroadcastBucket, BroadcastLast, chunkVars, mergeVars, copyVars, senderVars, receiverVars
<1>3. Packing' /\ Broadcasting' /\ \A r \in Ranks : ArrivedEnd(r)' = ArrivedEnd(r)
  <2>1. CASE PackChunk
    <3>1. Packing' /\ Broadcasting' /\ OpEnd' = OpEnd /\ UNCHANGED <<op, unreached>>
      BY <1>1, <2>1, PackStep
    <3> QED
      BY <3>1 DEF ArrivedEnd, Start
  <2>2. CASE BroadcastBucket \/ BroadcastLast
    <3>1. /\ Packing' /\ Broadcasting' /\ unreached = {} /\ unreached' = Ranks
          /\ Start(op.chunks, OpEnd)' = OpEnd
      BY <1>1, <2>2, BroadcastSteps
    <3> QED
      BY <3>1 DEF ArrivedEnd
  <2> QED
    BY <2>1, <2>2 DEF TrainerSide
<1>4. RankFunctions'
  BY <1>1, <1>2 DEF RankFunctions
<1>5. \A r \in Ranks : AtRank(r)'
  <2> TAKE r \in Ranks
  <2>1. UNCHANGED RankVars(r)
    BY <1>2 DEF RankVars
  <2> QED
    BY <1>1, <1>3, <2>1, RankUntouched
<1> QED
  BY <1>3, <1>4, <1>5 DEF Inv

LEMMA RankStep ==
    ASSUME Inv, NEW r \in Ranks, Broadcast(r) \/ LandCopy(r) \/ Worker(r) \/ Server(r)
    PROVE  Inv'
<1>1. RankFunctions /\ Packing /\ Broadcasting /\ \A q \in Ranks : AtRank(q)
  BY DEF Inv
<1>2. RankFunctions' /\ \A q \in Ranks \ {r} : UNCHANGED RankVars(q)
  BY <1>1, OthersUntouched
<1>3. /\ Packing' /\ Broadcasting' /\ AtRank(r)'
      /\ \A q \in Ranks \ {r} : ArrivedEnd(q)' = ArrivedEnd(q)
  <2>1. CASE Broadcast(r)
    BY <1>1, <2>1, BroadcastStep
  <2>2. CASE LandCopy(r) \/ Worker(r) \/ Server(r)
    <3>1. UNCHANGED <<packVars, broadcastVars>>
      BY <2>2 DEF LandCopy, Worker, Server, SwapBuffers, YieldView, MergeChunk, Place, SendBucket, SendLargeWeight,
                  SendLastBucket, LoadTensor, Acknowledge
    <3>2. Packing' /\ Broadcasting' /\ \A q \in Ranks : ArrivedEnd(q)' = ArrivedEnd(q)
      BY <1>1, <3>1, TrainerUntouched
    <3>3. AtRank(r)'
      BY <1>1, <2>2, <3>2, SwapStep, YieldStep, MergeStep, LandStep, PlaceStep, SendBucketStep, SendLargeStep,
         LoadStep, AcknowledgeStep DEF Worker, Server
    <3> QED
      BY <3>2, <3>3
  <2> QED
    BY <2>1, <2>2
<1>4. \A q \in Ranks \ {r} : AtRank(q)'
  BY <1>1, <1>2, <1>3, RankUntouched
<1> QED
  BY <1>2, <1>3, <1>4 DEF Inv

LEMMA StepInv == Inv /\ [TransferNext]_transferVars => Inv'
<1> SUFFICES ASSUME Inv, [TransferNext]_transferVars PROVE Inv'
  OBVIOUS
<1>1. CASE TrainerSide
  BY <1>1, TrainerStep
<1>2. CASE \E r \in Ranks : Broadcast(r) \/ LandCopy(r) \/ Worker(r) \/ Server(r)
  BY <1>2, RankStep
<1>3. CASE UNCHANGED transferVars
  <2>1. RankFunctions /\ Packing /\ Broadcasting /\ \A r \in Ranks : AtRank(r)
    BY DEF Inv
  <2>2. UNCHANGED <<packVars, broadcastVars>> /\ RankFunctions' /\ \A r \in Ranks : UNCHANGED RankVars(r)
    BY <1>3, <2>1 DEF transferVars, chunkVars, mergeVars, copyVars, senderVars, receiverVars, RankFunctions, RankVars
  <2>3. Packing' /\ Broadcasting' /\ \A r \in Ranks : ArrivedEnd(r)' = ArrivedEnd(r)
    BY <2>1, <2>2, TrainerUntouched
  <2>4. \A r \in Ranks : AtRank(r)'
    BY <2>1, <2>2, <2>3, RankUntouched
  <2> QED
    BY <2>2, <2>3, <2>4 DEF Inv
<1> QED
  BY <1>1, <1>2, <1>3 DEF TransferNext, Over

LEMMA InvAlways == TransferSpec => []Inv
  BY InitInv, StepInv, PTL DEF TransferSpec

LEMMA InvTypes == Inv => TransferTypeOK
<1> SUFFICES ASSUME Inv PROVE TransferTypeOK
  OBVIOUS
<1>1. /\ nextWeight \in 1 .. N + 1 /\ nextByte \in Nat /\ fill \in {1, 2}
      /\ bucketMeta \in Seq(Chunk) /\ InBucket(bucketMeta)
  BY DEF Inv, Packing, Linked, InBucket
<1>2. op.buffer \in {1, 2} /\ op.chunks \in Seq(Chunk) /\ op.last \in BOOLEAN /\ unreached \subseteq Ranks
  BY <1>1 DEF Inv, Broadcasting, Linked
<1>3. ASSUME NEW r \in Ranks
      PROVE  /\ yielding[r] \in {1, 2} /\ listening[r] \in {0, 1, 2} /\ isLast[r] \in BOOLEAN
             /\ listening[r] # 0 => listening[r] # yielding[r] /\ arrived[r] = <<>>
             /\ chunks[r] \in Seq(Chunk) /\ Len(arrived[r]) <= 1
  <2>1. Chain(r)
    BY DEF Inv, AtRank
  <2>2. Len(arrived[r]) <= 1
    <3>1. CASE arrived[r] = <<>>
      BY <3>1
    <3>2. CASE arrived[r] # <<>>
      <4>1. arrived[r] = <<arrived[r][1]>>
        BY <2>1, <3>2 DEF Chain
      <4>2. PICK e : e = arrived[r][1]
        OBVIOUS
      <4>3. arrived[r] = <<e>> /\ Len(<<e>>) = 1
        BY <4>1, <4>2
      <4> QED
        BY <4>3
    <3> QED
      BY <3>1, <3>2
  <2>3. chunks[r] \in Seq(Chunk)
    BY <2>1 DEF Chain, Linked
  <2> QED
    BY <2>1, <2>2, <2>3 DEF Chain
<1>4. ASSUME NEW r \in Ranks
      PROVE  /\ ipcMeta[r] \in Seq(Tensor) /\ InBucket(ipcMeta[r]) /\ inbox[r] \in Seq(Tensor)
             /\ DOMAIN ipcBuf[r] = 0 .. Bucket - 1 /\ \A b \in {1, 2} : DOMAIN recvBufs[r][b] = 0 .. Bucket - 1
             /\ sender[r] \in {"pull", "place", "done"} /\ unacked[r] \in BOOLEAN
             /\ sender[r] = "place" <=> item[r] # None
  <2>1. Chain(r) /\ Numbered(r) /\ Landing(r)
    BY DEF Inv, AtRank
  <2>2. DOMAIN ipcBuf[r] = 0 .. Bucket - 1 /\ InBucket(ipcMeta[r])
    BY <2>1 DEF Landing, PackedApart, InBucket
  <2>3. \A b \in {1, 2} : DOMAIN recvBufs[r][b] = 0 .. Bucket - 1
    BY <2>1 DEF Chain
  <2>4. /\ ipcMeta[r] \in Seq(Tensor) /\ inbox[r] \in Seq(Tensor) /\ unacked[r] \in BOOLEAN
        /\ sender[r] \in {"pull", "place", "done"} /\ (sender[r] = "place" <=> item[r] # None)
    BY <2>1 DEF Numbered
  <2> QED
    BY <2>2, <2>3, <2>4
<1> QED
  BY <1>1, <1>2, <1>3, <1>4 DEF TransferTypeOK

LEMMA InvMerges == Inv => MergesInOrder
<1> SUFFICES ASSUME Inv PROVE MergesInOrder
  OBVIOUS
<1>1. \A i, j \in DOMAIN bucketMeta : bucketMeta[i].weight = bucketMeta[j].weight => i = j
  BY DEF Inv, Packing
<1>2. ASSUME NEW r \in Ranks, chunks[r] # <<>>
      PROVE  LET chunk == Head(chunks[r])
             IN  /\ Sizes[chunk.weight] <= Bucket => chunk.size = Sizes[chunk.weight]
                 /\ chunk.at = merging[r].bytes
                 /\ merging[r] # NotMerging => merging[r].weight = chunk.weight
  <2> DEFINE chunk == Head(chunks[r])
  <2>1. Linked(chunks[r], ChunksEnd(r))
    BY DEF Inv, AtRank, Chain
  <2>2. Proper(chunk) /\ Start(chunks[r], ChunksEnd(r)) = Begin(chunk)
    BY <1>2, <2>1, LinkedTail
  <2> HIDE DEF chunk
  <2>3. Position(r) = <<chunk.weight, chunk.at>>
    BY <2>2 DEF Position, Begin
  <2>4. Sizes[chunk.weight] <= Bucket => chunk.size = Sizes[chunk.weight]
    BY <2>2, ChunkFacts
  <2>5. CASE merging[r] = NotMerging
    <3>1. Position(r)[2] = 0
      BY <2>5 DEF Inv, AtRank, Numbered
    <3>2. Position(r)[2] = chunk.at
      BY <2>3
    <3> QED
      BY <2>4, <2>5, <3>1, <3>2 DEF chunk, NotMerging
  <2>6. CASE merging[r] # NotMerging
    <3>1. Position(r) = <<merging[r].weight, merging[r].bytes>>
      BY <2>6 DEF Inv, AtRank, Numbered
    <3> QED
      BY <2>3, <2>4, <2>6, <3>1 DEF chunk
  <2> QED
    BY <2>5, <2>6
<1> QED
  BY <1>1, <1>2 DEF MergesInOrder

\* Every variable of the trainer, of the ranks and of the servers keeps its type: a bucket is never overfull, and no
\* rank listens in the buffer it yields from.
THEOREM TypesKept == TransferSpec => []TransferTypeOK
  BY InvAlways, InvTypes, PTL

\* The assertions of send_weights and merge_weight_chunks hold for any weights and any bucket: no weight has two
\* chunks in a bucket, a weight that fits comes whole, the chunks of a larger one come in order and uninterrupted.
THEOREM MergesOrdered == TransferSpec => []MergesInOrder
  BY InvAlways, InvMerges, PTL

-----------------------------------------------------------------------------
(* Refinement                                                              *)

TrainerWeights == [w \in 1 .. N |-> [weight |-> w, bytes |-> WeightBytes(w)]]

LEMMA DeliveryInit == TransferInit => Delivery!Init
  BY DEF TransferInit, Delivery!Init

LEMMA DeliveryStep == Inv /\ [TransferNext]_transferVars => [\E r \in Ranks : Delivery!Load(r)]_loaded
<1> SUFFICES ASSUME Inv, [TransferNext]_transferVars, loaded' # loaded PROVE \E r \in Ranks : Delivery!Load(r)
  OBVIOUS
<1>1. PICK r \in Ranks : LoadTensor(r)
  BY DEF TransferNext, transferVars, Over, TrainerSide, PackChunk, BroadcastBucket, BroadcastLast, Broadcast, LandCopy, Worker, Server,
         SwapBuffers, YieldView, MergeChunk, Place, SendBucket, SendLargeWeight, SendLastBucket, Acknowledge, receiverVars
<1>2. /\ Len(loaded[r]) + 1 \in 1 .. N
      /\ loaded' = [loaded EXCEPT ![r] = Append(@, LoadedWeight(Len(loaded[r]) + 1))]
  BY <1>1, LoadNext DEF Inv
<1>3. Len(loaded[r]) \in Nat
  BY Counts DEF Inv, AtRank
<1>4. Len(TrainerWeights) = N /\ \A w \in 1 .. N : TrainerWeights[w] = LoadedWeight(w)
  BY SizesFacts DEF TrainerWeights, LoadedWeight
<1>5. Len(loaded[r]) < Len(TrainerWeights)
  BY <1>2, <1>3, <1>4, SizesFacts
<1>6. loaded' = [loaded EXCEPT ![r] = Append(@, TrainerWeights[Len(@) + 1])]
  BY <1>2, <1>4
<1> QED
  BY <1>5, <1>6 DEF Delivery!Load, TrainerWeights

\* Whatever the order of packing, broadcasts, copies and messages, a server only ever loads the weight that is next,
\* with the trainer's bytes: the safety of OrderedDelivery.  (That it ends up with all of them needs fairness.)
THEOREM DeliveredInOrder == TransferSpec => Delivery!Init /\ [][\E r \in Ranks : Delivery!Load(r)]_loaded
<1>1. TransferInit => Delivery!Init
  BY DeliveryInit
<1>2. Inv /\ [TransferNext]_transferVars => [\E r \in Ranks : Delivery!Load(r)]_loaded
  BY DeliveryStep
<1> QED
  BY <1>1, <1>2, InvAlways, PTL DEF TransferSpec

=============================================================================
