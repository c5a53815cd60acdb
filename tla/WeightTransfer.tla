-------------------------- MODULE WeightTransfer --------------------------
(***************************************************************************)
(* How new weights get from the trainer into the rollout servers.  Stage   *)
(* one, NCCLCheckpointEngine: the trainer splits weights into chunks, packs *)
(* them into buckets in two buffers by turns, and broadcasts each bucket   *)
(* to the checkpoint workers, which receive into two buffers by turns and  *)
(* yield views of them.  Stage two, BucketedWeightSender in a checkpoint   *)
(* worker and BucketedWeightReceiver in the server's worker: the weights   *)
(* are packed again, into one buffer shared by the two processes, each     *)
(* bucket acknowledged before the next.  Stage two pulls from stage one:   *)
(* asking for the next weight is what makes the generators go on.          *)
(*                                                                         *)
(* Buffers hold bytes, a byte being a weight and a position in it.  Copies *)
(* a checkpoint worker starts are asynchronous: they read their source at  *)
(* any time up to the next synchronize.  Those of the trainer are taken as *)
(* done at once, since it synchronizes before it hands over a bucket.  The *)
(* subscribers are taken to be known to the publisher after the barrier of *)
(* init_process_group.                                                     *)
(***************************************************************************)
EXTENDS Integers, Sequences, FiniteSets

CONSTANTS
    Ranks,      \* checkpoint workers, one per worker of a rollout server
    Sizes,      \* bytes of each weight, in the order of the trainer's generator
    Bucket      \* bytes of a bucket: update_weights_bucket_megabytes, the same on both stages

ASSUME TransferAssumption ==
    /\ Sizes \in Seq(Nat \ {0})
    /\ Bucket \in Nat \ {0}

VARIABLES
    \* trainer, send_weights
    nextWeight,     \* the weight being split
    nextByte,       \* chunk_offset in it
    sendBufs,       \* its two buffers
    fill,           \* the one it packs
    bucketMeta,     \* chunks packed: weight, at (chunk_offset), size, offset in the buffer
    op,             \* the broadcast started last: buffer, chunks, is_last
    unreached,      \* ranks that operation has not reached
    \* checkpoint worker, _receive_weight_chunks and merge_weight_chunks
    recvBufs,       \* its two buffers
    yielding,       \* the one chunks are yielded from (send_buf)
    listening,      \* the one a broadcast is awaited in, 0 when none is
    arrived,        \* metadata of a bucket that is there and not begun
    chunks,         \* chunks of the bucket being yielded that are left
    isLast,         \* it is the last bucket
    merging,        \* chunks of a large weight merged so far: which weight and how many bytes
    mergeBuf,       \* merge_buffer
    \* checkpoint worker, async_send_weights
    item,           \* the weight in its hands
    ipcMeta,        \* tensors packed: weight, size, offset
    ipcBuf,         \* the shared buffer
    pending,        \* copies started and not done: from where, to where, how many bytes
    unacked,        \* a message has not been acknowledged
    sender,         \* where it is
    \* worker of the server, receive_weights
    inbox,          \* tensors of the message that are not loaded yet
    loaded          \* weights loaded, with the bytes read

packVars == <<nextWeight, nextByte, sendBufs, fill, bucketMeta>>
broadcastVars == <<op, unreached>>
chunkVars == <<yielding, listening, arrived, chunks, isLast>>
mergeVars == <<merging, item>>
copyVars == <<recvBufs, mergeBuf, ipcBuf, pending>>
senderVars == <<ipcMeta, unacked, sender>>
receiverVars == <<inbox, loaded>>
transferVars == <<packVars, broadcastVars, chunkVars, mergeVars, copyVars, senderVars, receiverVars>>

N == Len(Sizes)
NoByte == <<0, 0>>
None == [weight |-> 0]
NotMerging == [weight |-> 0, bytes |-> 0]

WeightBytes(w) == [i \in 0 .. Sizes[w] - 1 |-> <<w, i>>]
Blank(size) == [i \in 0 .. size - 1 |-> NoByte]
Slice(buf, offset, size) == [i \in 0 .. size - 1 |-> buf[offset + i]]
Overwrite(buf, offset, bytes) ==
    [i \in DOMAIN buf |-> IF i - offset \in DOMAIN bytes THEN bytes[i - offset] ELSE buf[i]]

\* offset: where the next entry of a bucket goes.
Used(meta) == IF meta = <<>> THEN 0 ELSE meta[Len(meta)].offset + meta[Len(meta)].size

-----------------------------------------------------------------------------
(* The trainer: split_weight_chunks and send_weights of rank 0. *)

\* Mutant of NextChunk: a chunk fills up what is left of the bucket.
NextChunkFillsUp ==
    LET room == IF Used(bucketMeta) = Bucket THEN Bucket ELSE Bucket - Used(bucketMeta)
        rest == Sizes[nextWeight] - nextByte
    IN  [weight |-> nextWeight, at |-> nextByte, size |-> IF room < rest THEN room ELSE rest]

NextChunk ==
    [weight |-> nextWeight, at |-> nextByte,
     size |-> IF Bucket < Sizes[nextWeight] - nextByte THEN Bucket ELSE Sizes[nextWeight] - nextByte]

\* Mutant of Fits: what is in the bucket already is forgotten.
FitsAlone(chunk) == chunk.size <= Bucket

Fits(chunk) == Used(bucketMeta) + chunk.size <= Bucket

PackChunk ==
    /\ nextWeight <= N
    /\ Fits(NextChunk)
    /\ LET chunk == NextChunk
           offset == Used(bucketMeta)
           wholeWeight == nextByte + chunk.size = Sizes[nextWeight]
           entry == [weight |-> chunk.weight, at |-> chunk.at, size |-> chunk.size, offset |-> offset]
           bytes == Slice(WeightBytes(nextWeight), nextByte, chunk.size)
       IN  /\ bucketMeta' = Append(bucketMeta, entry)
           /\ sendBufs' = [sendBufs EXCEPT ![fill] = Overwrite(@, offset, bytes)]
           /\ nextWeight' = IF wholeWeight THEN nextWeight + 1 ELSE nextWeight
           /\ nextByte' = IF wholeWeight THEN 0 ELSE nextByte + chunk.size
    /\ UNCHANGED <<fill, broadcastVars, chunkVars, mergeVars, copyVars, senderVars, receiverVars>>

\* A full bucket is broadcast once the previous broadcast is over; the other buffer is packed meanwhile.
BroadcastBucket ==
    /\ nextWeight <= N
    /\ ~Fits(NextChunk)
    /\ unreached = {}
    /\ op' = [buffer |-> fill, chunks |-> bucketMeta, last |-> FALSE]
    /\ unreached' = Ranks
    /\ fill' = 3 - fill
    /\ bucketMeta' = <<>>
    /\ UNCHANGED <<nextWeight, nextByte, sendBufs, chunkVars, mergeVars, copyVars, senderVars, receiverVars>>

BroadcastLast ==
    /\ nextWeight > N
    /\ unreached = {}
    /\ ~op.last
    /\ op' = [buffer |-> fill, chunks |-> bucketMeta, last |-> TRUE]
    /\ unreached' = Ranks
    /\ UNCHANGED <<packVars, chunkVars, mergeVars, copyVars, senderVars, receiverVars>>

-----------------------------------------------------------------------------
(* BroadcastOperation: metadata and bucket reach a rank that has started its part of the operation. *)

Broadcast(r) ==
    /\ r \in unreached
    /\ listening[r] # 0
    /\ recvBufs' = [recvBufs EXCEPT ![r][listening[r]] = sendBufs[op.buffer]]
    /\ arrived' = [arrived EXCEPT ![r] = <<[chunks |-> op.chunks, last |-> op.last]>>]
    /\ listening' = [listening EXCEPT ![r] = 0]
    /\ unreached' = unreached \ {r}
    /\ UNCHANGED <<packVars, op, yielding, chunks, isLast, mergeVars, mergeBuf, ipcBuf, pending, senderVars,
                   receiverVars>>

-----------------------------------------------------------------------------
(* A checkpoint worker.  Its sender is about to ask for the next weight when sender is "pull". *)

Pulling(r) == sender[r] = "pull" /\ ~unacked[r]
Synchronized(r) == pending[r] = <<>>

StartCopy(r, buffer, offset, size, into, at) ==
    pending' = [pending EXCEPT ![r] = Append(@,
                  [buffer |-> buffer, offset |-> offset, size |-> size, into |-> into, at |-> at])]

\* A tensor as the server finds it: in the shared buffer, or in the merged weight behind a handle.
TensorOf(w, offset, shared) == [weight |-> w, size |-> Sizes[w], offset |-> offset, shared |-> shared]

\* Mutant of SwapBuffers: the copies out of the used bucket are not waited for.
SwapBuffersAtOnce(r) ==
    /\ Pulling(r)
    /\ chunks[r] = <<>>
    /\ arrived[r] # <<>>
    /\ yielding' = [yielding EXCEPT ![r] = 3 - @]
    /\ chunks' = [chunks EXCEPT ![r] = arrived[r][1].chunks]
    /\ isLast' = [isLast EXCEPT ![r] = arrived[r][1].last]
    /\ listening' = [listening EXCEPT ![r] = IF arrived[r][1].last THEN 0 ELSE yielding[r]]
    /\ arrived' = [arrived EXCEPT ![r] = <<>>]
    /\ UNCHANGED <<packVars, broadcastVars, mergeVars, copyVars, senderVars, receiverVars>>

\* The bucket is used up: the one that has arrived takes its place, and the next is listened for in the other buffer.
SwapBuffers(r) ==
    /\ Pulling(r)
    /\ chunks[r] = <<>>
    /\ arrived[r] # <<>>
    /\ Synchronized(r)
    /\ yielding' = [yielding EXCEPT ![r] = 3 - @]
    /\ chunks' = [chunks EXCEPT ![r] = arrived[r][1].chunks]
    /\ isLast' = [isLast EXCEPT ![r] = arrived[r][1].last]
    /\ listening' = [listening EXCEPT ![r] = IF arrived[r][1].last THEN 0 ELSE yielding[r]]
    /\ arrived' = [arrived EXCEPT ![r] = <<>>]
    /\ UNCHANGED <<packVars, broadcastVars, mergeVars, copyVars, senderVars, receiverVars>>

\* A chunk that is a whole weight is passed on as a view of the receive buffer.
YieldView(r) ==
    /\ Pulling(r)
    /\ chunks[r] # <<>>
    /\ LET chunk == Head(chunks[r])
       IN  /\ Sizes[chunk.weight] <= Bucket
           /\ item' = [item EXCEPT ![r] = [weight |-> chunk.weight, buffer |-> yielding[r], offset |-> chunk.offset]]
    /\ chunks' = [chunks EXCEPT ![r] = Tail(@)]
    /\ sender' = [sender EXCEPT ![r] = "place"]
    /\ UNCHANGED <<packVars, broadcastVars, yielding, listening, arrived, isLast, merging, copyVars, ipcMeta,
                   unacked, receiverVars>>

\* The chunks of a larger one are copied together; the last of them passes it on.
MergeChunk(r) ==
    /\ Pulling(r)
    /\ chunks[r] # <<>>
    /\ LET chunk == Head(chunks[r])
           w == chunk.weight
           complete == chunk.at + chunk.size = Sizes[w]
       IN  /\ Sizes[w] > Bucket
           /\ mergeBuf' = [mergeBuf EXCEPT ![r] = IF merging[r] = NotMerging THEN Blank(Sizes[w]) ELSE @]
           /\ StartCopy(r, yielding[r], chunk.offset, chunk.size, "merge", chunk.at)
           /\ merging' = [merging EXCEPT ![r] =
                 IF complete THEN NotMerging ELSE [weight |-> w, bytes |-> @.bytes + chunk.size]]
           /\ item' = [item EXCEPT ![r] = IF complete THEN [weight |-> w, buffer |-> 0, offset |-> 0] ELSE @]
           /\ sender' = [sender EXCEPT ![r] = IF complete THEN "place" ELSE @]
    /\ chunks' = [chunks EXCEPT ![r] = Tail(@)]
    /\ UNCHANGED <<packVars, broadcastVars, yielding, listening, arrived, isLast, recvBufs, ipcBuf, ipcMeta,
                   unacked, receiverVars>>

\* A started copy is done by the device.
LandCopy(r) ==
    /\ pending[r] # <<>>
    /\ LET copy == Head(pending[r])
           bytes == Slice(recvBufs[r][copy.buffer], copy.offset, copy.size)
       IN  IF copy.into = "merge"
           THEN mergeBuf' = [mergeBuf EXCEPT ![r] = Overwrite(@, copy.at, bytes)] /\ UNCHANGED ipcBuf
           ELSE ipcBuf' = [ipcBuf EXCEPT ![r] = Overwrite(@, copy.at, bytes)] /\ UNCHANGED mergeBuf
    /\ pending' = [pending EXCEPT ![r] = Tail(@)]
    /\ UNCHANGED <<packVars, broadcastVars, recvBufs, chunkVars, mergeVars, senderVars, receiverVars>>

Placing(r) == sender[r] = "place" /\ ~unacked[r]
FitsIpc(r) == Used(ipcMeta[r]) + Sizes[item[r].weight] <= Bucket

\* send_pyobj, then recv: nothing is done before the acknowledgement.
Send(r, tensors, next) ==
    /\ inbox' = [inbox EXCEPT ![r] = tensors]
    /\ unacked' = [unacked EXCEPT ![r] = TRUE]
    /\ sender' = [sender EXCEPT ![r] = next]

Place(r) ==
    /\ Placing(r)
    /\ FitsIpc(r)
    /\ LET w == item[r].weight
           offset == Used(ipcMeta[r])
       IN  /\ ipcMeta' = [ipcMeta EXCEPT ![r] = Append(@, TensorOf(w, offset, TRUE))]
           /\ StartCopy(r, item[r].buffer, item[r].offset, Sizes[w], "ipc", offset)
    /\ item' = [item EXCEPT ![r] = None]
    /\ sender' = [sender EXCEPT ![r] = "pull"]
    /\ UNCHANGED <<packVars, broadcastVars, recvBufs, mergeBuf, ipcBuf, chunkVars, merging, unacked, receiverVars>>

SendBucket(r) ==
    /\ Placing(r)
    /\ ~FitsIpc(r)
    /\ ipcMeta[r] # <<>>
    /\ Synchronized(r)
    /\ Send(r, ipcMeta[r], "place")
    /\ ipcMeta' = [ipcMeta EXCEPT ![r] = <<>>]
    /\ UNCHANGED <<packVars, broadcastVars, chunkVars, mergeVars, copyVars, loaded>>

\* _direct_send_large_weight: a handle to the merged weight; the handle carries an event the reader waits for.
SendLargeWeight(r) ==
    /\ Placing(r)
    /\ ~FitsIpc(r)
    /\ ipcMeta[r] = <<>>
    /\ Synchronized(r)
    /\ Send(r, <<TensorOf(item[r].weight, 0, FALSE)>>, "pull")
    /\ item' = [item EXCEPT ![r] = None]
    /\ UNCHANGED <<packVars, broadcastVars, chunkVars, merging, copyVars, ipcMeta, loaded>>

SendLastBucket(r) ==
    /\ Pulling(r)
    /\ isLast[r]
    /\ chunks[r] = <<>>
    /\ Synchronized(r)
    /\ Send(r, ipcMeta[r], "done")
    /\ ipcMeta' = [ipcMeta EXCEPT ![r] = <<>>]
    /\ UNCHANGED <<packVars, broadcastVars, chunkVars, mergeVars, copyVars, loaded>>

-----------------------------------------------------------------------------
(* The worker of the server. *)

LoadTensor(r) ==
    /\ inbox[r] # <<>>
    /\ LET tensor == Head(inbox[r])
           bytes == Slice(IF tensor.shared THEN ipcBuf[r] ELSE mergeBuf[r], tensor.offset, tensor.size)
       IN  loaded' = [loaded EXCEPT ![r] = Append(@, [weight |-> tensor.weight, bytes |-> bytes])]
    /\ inbox' = [inbox EXCEPT ![r] = Tail(@)]
    /\ UNCHANGED <<packVars, broadcastVars, chunkVars, mergeVars, copyVars, senderVars>>

\* The message is acknowledged when everything in it has been loaded.
Acknowledge(r) ==
    /\ unacked[r]
    /\ inbox[r] = <<>>
    /\ unacked' = [unacked EXCEPT ![r] = FALSE]
    /\ UNCHANGED <<packVars, broadcastVars, chunkVars, mergeVars, copyVars, ipcMeta, sender, receiverVars>>

-----------------------------------------------------------------------------
TransferInit ==
    /\ nextWeight = 1 /\ nextByte = 0 /\ fill = 1 /\ bucketMeta = <<>>
    /\ sendBufs = [b \in {1, 2} |-> Blank(Bucket)]
    /\ op = [buffer |-> 2, chunks |-> <<>>, last |-> FALSE] /\ unreached = {}
    /\ recvBufs = [r \in Ranks |-> [b \in {1, 2} |-> Blank(Bucket)]]
    /\ yielding = [r \in Ranks |-> 1] /\ listening = [r \in Ranks |-> 2]
    /\ arrived = [r \in Ranks |-> <<>>] /\ chunks = [r \in Ranks |-> <<>>] /\ isLast = [r \in Ranks |-> FALSE]
    /\ merging = [r \in Ranks |-> NotMerging] /\ item = [r \in Ranks |-> None]
    /\ mergeBuf = [r \in Ranks |-> Blank(0)] /\ ipcBuf = [r \in Ranks |-> Blank(Bucket)]
    /\ pending = [r \in Ranks |-> <<>>] /\ ipcMeta = [r \in Ranks |-> <<>>]
    /\ unacked = [r \in Ranks |-> FALSE] /\ sender = [r \in Ranks |-> "pull"]
    /\ inbox = [r \in Ranks |-> <<>>] /\ loaded = [r \in Ranks |-> <<>>]

TrainerSide == PackChunk \/ BroadcastBucket \/ BroadcastLast

Worker(r) ==
    \/ SwapBuffers(r) \/ YieldView(r) \/ MergeChunk(r)
    \/ Place(r) \/ SendBucket(r) \/ SendLargeWeight(r) \/ SendLastBucket(r)

Server(r) == LoadTensor(r) \/ Acknowledge(r)

Over ==
    /\ op.last /\ unreached = {} /\ \A r \in Ranks : sender[r] = "done" /\ ~unacked[r]
    /\ UNCHANGED transferVars

TransferNext == TrainerSide \/ (\E r \in Ranks : Broadcast(r) \/ LandCopy(r) \/ Worker(r) \/ Server(r)) \/ Over

\* Processes and the device go on with what they can do.
TransferFairness ==
    /\ WF_transferVars(TrainerSide)
    /\ \A r \in Ranks : WF_transferVars(Broadcast(r)) /\ WF_transferVars(LandCopy(r)) /\ WF_transferVars(Worker(r)) /\ WF_transferVars(Server(r))

TransferSpec == TransferInit /\ [][TransferNext]_transferVars /\ TransferFairness

-----------------------------------------------------------------------------
Chunk == [weight : 1 .. N, at : Nat, size : Nat \ {0}, offset : Nat]
Tensor == [weight : 1 .. N, size : Nat \ {0}, offset : Nat, shared : BOOLEAN]
InBucket(meta) == Used(meta) <= Bucket

TransferTypeOK ==
    /\ nextWeight \in 1 .. N + 1 /\ nextByte \in Nat /\ fill \in {1, 2}
    /\ bucketMeta \in Seq(Chunk) /\ InBucket(bucketMeta)
    /\ op.buffer \in {1, 2} /\ op.chunks \in Seq(Chunk) /\ op.last \in BOOLEAN /\ unreached \subseteq Ranks
    /\ \A r \in Ranks :
          /\ yielding[r] \in {1, 2} /\ listening[r] \in {0, 1, 2} /\ isLast[r] \in BOOLEAN
          /\ listening[r] # 0 => listening[r] # yielding[r] /\ arrived[r] = <<>>
          /\ chunks[r] \in Seq(Chunk) /\ Len(arrived[r]) <= 1
          /\ ipcMeta[r] \in Seq(Tensor) /\ InBucket(ipcMeta[r]) /\ inbox[r] \in Seq(Tensor)
          /\ DOMAIN ipcBuf[r] = 0 .. Bucket - 1 /\ \A b \in {1, 2} : DOMAIN recvBufs[r][b] = 0 .. Bucket - 1
          /\ sender[r] \in {"pull", "place", "done"} /\ unacked[r] \in BOOLEAN
          /\ sender[r] = "place" <=> item[r] # None

\* The assertions of the code hold.  send_weights: no weight has two chunks in a bucket.  merge_weight_chunks: a
\* weight that fits a bucket comes whole and never between the chunks of another, and those come in order.
MergesInOrder ==
    /\ \A i, j \in DOMAIN bucketMeta : bucketMeta[i].weight = bucketMeta[j].weight => i = j
    /\ \A r \in Ranks : chunks[r] # <<>> =>
          LET chunk == Head(chunks[r])
          IN  /\ Sizes[chunk.weight] <= Bucket => chunk.size = Sizes[chunk.weight]
              /\ chunk.at = merging[r].bytes
              /\ merging[r] # NotMerging => merging[r].weight = chunk.weight

\* However the two pipelines interleave and whatever buffer is reused when, every server loads every weight of the
\* trainer, byte for byte, in order and once; and in the end all of them.
Delivery == INSTANCE OrderedDelivery WITH
    Ranks <- Ranks,
    Weights <- [w \in 1 .. N |-> [weight |-> w, bytes |-> WeightBytes(w)]],
    loaded <- loaded
WeightsDelivered == Delivery!Spec
=============================================================================
