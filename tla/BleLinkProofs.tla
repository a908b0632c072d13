--------------------------- MODULE BleLinkProofs ---------------------------
(***************************************************************************)
(* Proofs about the BLE link.                                              *)
(***************************************************************************)
EXTENDS BleLinkProps, SequenceTheorems, FiniteSetTheorems, TLAPS

-----------------------------------------------------------------------------
(* Sequences *)

(* Taking an element out moves those behind it up by one.                  *)
LEMMA Removal ==
    ASSUME NEW S, NEW s \in Seq(S), NEW k \in 1..Len(s)
    PROVE  /\ RemoveAt(s, k) \in Seq(S)
           /\ Len(RemoveAt(s, k)) = Len(s) - 1
           /\ \A i \in 1..(Len(s) - 1) : RemoveAt(s, k)[i] = s[IF i < k THEN i ELSE i + 1]
<1> DEFINE a == SubSeq(s, 1, k - 1)
<1> DEFINE b == SubSeq(s, k + 1, Len(s))
<1>1. Len(s) \in Nat /\ k \in Nat /\ k <= Len(s) /\ k >= 1 /\ \A i \in 1..Len(s) : s[i] \in S
    BY LenProperties, ElementOfSeq
<1>2. a \in Seq(S) /\ Len(a) = k - 1 /\ \A i \in 1..(k - 1) : a[i] = s[i]
    BY <1>1, SubSeqProperties
<1>3. b \in Seq(S) /\ Len(b) = Len(s) - k /\ \A i \in 1..(Len(s) - k) : b[i] = s[i + k]
    BY <1>1, SubSeqProperties
<1> HIDE DEF a, b
<1>4. RemoveAt(s, k) = a \o b
    BY DEF RemoveAt, a, b
<1>5. \A i \in 1..(Len(s) - 1) : (a \o b)[i] = IF i <= k - 1 THEN a[i] ELSE b[i - (k - 1)]
    BY <1>1, <1>2, <1>3, ConcatProperties
<1>6. \A i \in 1..(Len(s) - 1) : (a \o b)[i] = s[IF i < k THEN i ELSE i + 1]
    <2> TAKE i \in 1..(Len(s) - 1)
    <2>1. CASE i < k
        BY <2>1, <1>1, <1>2, <1>5
    <2>2. CASE ~ i < k
        <3>1. i - (k - 1) \in 1..(Len(s) - k) /\ i - (k - 1) + k = i + 1
            BY <2>2, <1>1
        <3>2. b[i - (k - 1)] = s[i + 1]
            BY <3>1, <1>3
        <3>3. ~ i <= k - 1
            BY <2>2, <1>1
        <3>4. (a \o b)[i] = b[i - (k - 1)]
            BY <3>3, <1>5
        <3> QED BY <2>2, <3>2, <3>4
    <2> QED BY <2>1, <2>2
<1>7. a \o b \in Seq(S) /\ Len(a \o b) = Len(a) + Len(b)
    BY <1>2, <1>3, ConcatProperties
<1>8. Len(a) + Len(b) = Len(s) - 1
    BY <1>1, <1>2, <1>3
<1> QED BY <1>4, <1>6, <1>7, <1>8

(* What is left of a queue when its head is taken.                         *)
LEMMA Tailing ==
    ASSUME NEW S, NEW s \in Seq(S), s # <<>>
    PROVE  /\ Tail(s) \in Seq(S)
           /\ Len(Tail(s)) = Len(s) - 1 /\ Len(s) \in Nat \ {0}
           /\ \A i \in 1..(Len(s) - 1) : Tail(s)[i] = s[i + 1]
           /\ Head(s) = s[1] /\ Head(s) \in S
BY HeadTailProperties, EmptySeq

(* A queue with one more element.                                          *)
LEMMA Appending ==
    ASSUME NEW S, NEW s \in Seq(S), NEW e \in S
    PROVE  /\ Append(s, e) \in Seq(S)
           /\ Len(Append(s, e)) = Len(s) + 1 /\ Len(s) \in Nat
           /\ \A i \in 1..Len(s) : Append(s, e)[i] = s[i]
           /\ Append(s, e)[Len(s) + 1] = e
BY AppendProperties, LenProperties

-----------------------------------------------------------------------------
(* Chunks *)

(* A message has at least one chunk, and all but the last are not enough.  *)
LEMMA ChunkCounts ==
    ASSUME NEW bytes \in 1..MAX_MESSAGE
    PROVE  ChunkCount(bytes) \in Nat \ {0} /\ (ChunkCount(bytes) - 1) * PAYLOAD < bytes
BY PayloadAssumption, MaxMessageAssumption, SMTT(60) DEF ChunkCount

(* The chunks of a message are chunks.                                     *)
LEMMA ChunkType ==
    ASSUME NEW W, NEW id \in Nat, NEW what \in W, NEW bytes \in 1..MAX_MESSAGE,
           NEW i \in 1..ChunkCount(bytes)
    PROVE  Chunk(id, what, bytes, i) \in ChunksOf(W)
<1>1. ChunkCount(bytes) \in Nat \ {0} /\ (ChunkCount(bytes) - 1) * PAYLOAD < bytes
    BY ChunkCounts
<1>2. bytes \in Nat /\ PAYLOAD \in Nat /\ i \in Nat /\ i - 1 \in Nat
    BY <1>1, PayloadAssumption, MaxMessageAssumption
<1>3. (IF i = ChunkCount(bytes) THEN bytes - (ChunkCount(bytes) - 1) * PAYLOAD ELSE PAYLOAD) \in Nat
    <2> DEFINE most == (ChunkCount(bytes) - 1) * PAYLOAD
    <2>1. most \in Int /\ most < bytes
        BY <1>1, <1>2
    <2> HIDE DEF most
    <2>2. bytes - most \in Nat
        BY <2>1, <1>2
    <2> QED BY <2>2, <1>2 DEF most
<1> QED BY <1>1, <1>2, <1>3 DEF Chunk, ChunksOf

(* encode_chunks gives the chunks of a message in their order, at least    *)
(* one.                                                                    *)
LEMMA ChunksType ==
    ASSUME NEW W, NEW id \in Nat, NEW what \in W, NEW bytes \in 1..MAX_MESSAGE
    PROVE  /\ Chunks(id, what, bytes) \in Seq(ChunksOf(W))
           /\ Len(Chunks(id, what, bytes)) = ChunkCount(bytes)
           /\ Chunks(id, what, bytes) # <<>>
           /\ \A i \in 1..ChunkCount(bytes) : Chunks(id, what, bytes)[i] = Chunk(id, what, bytes, i)
<1>1. ChunkCount(bytes) \in Nat \ {0}
    BY ChunkCounts
<1>2. \A i \in 1..ChunkCount(bytes) : Chunk(id, what, bytes, i) \in ChunksOf(W)
    BY ChunkType
<1> DEFINE e(i) == Chunk(id, what, bytes, i)
<1>3. \A i \in 1..ChunkCount(bytes) : e(i) \in ChunksOf(W)
    BY <1>2
<1> HIDE DEF e
<1>4. [i \in 1..ChunkCount(bytes) |-> e(i)] \in Seq(ChunksOf(W))
    BY <1>1, <1>3
<1>5. Chunks(id, what, bytes) = [i \in 1..ChunkCount(bytes) |-> e(i)]
    BY DEF Chunks, e
<1>6. Len([i \in 1..ChunkCount(bytes) |-> e(i)]) = ChunkCount(bytes)
    BY <1>1
<1> QED BY <1>1, <1>4, <1>5, <1>6 DEF e

(* A message says in its first fragment what it is about.                  *)
LEMMA MessageType ==
    ASSUME NEW W, NEW what \in W, NEW bytes \in 1..MAX_MESSAGE
    PROVE  Message(what, bytes) \in Seq(W \X Nat) /\ Message(what, bytes)[1] = <<what, 1>>
<1>1. ChunkCount(bytes) \in Nat \ {0}
    BY ChunkCounts
<1> QED BY <1>1 DEF Message

(* reassemble_chunk keeps a partial message within the length the chunk    *)
(* announces.                                                              *)
LEMMA ReassembledType ==
    ASSUME NEW W, NEW partial \in PartialsOf(W) \cup {NONE}, NEW chunk \in ChunksOf(W),
           NONE \notin PartialsOf(W)
    PROVE  /\ Reassembled(partial, chunk).partial \in PartialsOf(W) \cup {NONE}
           /\ Reassembled(partial, chunk).message \in Seq(W \X Nat) \cup {NONE}
           /\ Reassembled(partial, chunk).partial # NONE =>
                Reassembled(partial, chunk).partial.size <= Reassembled(partial, chunk).partial.total_message_len
                /\ Reassembled(partial, chunk).partial.total_message_len = chunk.total_message_len
<1> DEFINE current == IF chunk.chunk_index = 0 THEN Started(chunk) ELSE partial
<1> DEFINE grown == Grown(current, chunk)
<1>1. current \in PartialsOf(W) \cup {NONE}
    BY DEF PartialsOf, ChunksOf, Started
<1>2. chunk.fragment \in W \X Nat /\ chunk.size \in Nat
    BY DEF ChunksOf
<1> HIDE DEF current
<1>3. ASSUME current # NONE
      PROVE  grown \in PartialsOf(W) /\ grown.total_message_len = current.total_message_len
    <2>1. current \in PartialsOf(W)
        BY <1>1, <1>3
    <2>2. Append(current.payload, chunk.fragment) \in Seq(W \X Nat)
        BY <2>1, <1>2, AppendProperties DEF PartialsOf
    <2>3. current.size + chunk.size \in Nat /\ current.next_chunk_index + 1 \in Nat
        BY <2>1, <1>2 DEF PartialsOf
    <2> QED BY <2>1, <2>2, <2>3 DEF Grown, PartialsOf
<1> HIDE DEF grown
<1> DEFINE r == Reassembled(partial, chunk)
<1>4. r = IF current = NONE \/ ~ Continues(current, chunk) THEN Dropped
          ELSE IF grown.size > grown.total_message_len THEN Dropped
          ELSE IF ~ chunk.last THEN [partial |-> grown, message |-> NONE]
          ELSE [partial |-> NONE,
                message |-> IF grown.size = grown.total_message_len THEN grown.payload ELSE NONE]
    BY DEF r, Reassembled, current, grown
<1> HIDE DEF r
<1> SUFFICES /\ r.partial \in PartialsOf(W) \cup {NONE}
             /\ r.message \in Seq(W \X Nat) \cup {NONE}
             /\ r.partial # NONE => r.partial.size <= r.partial.total_message_len
                                    /\ r.partial.total_message_len = chunk.total_message_len
    BY DEF r
<1>5. CASE current = NONE \/ ~ Continues(current, chunk)
    BY <1>4, <1>5 DEF Dropped
<1>6. CASE current # NONE /\ Continues(current, chunk)
    <2>1. grown \in PartialsOf(W) /\ grown.total_message_len = chunk.total_message_len
        BY <1>3, <1>6 DEF Continues
    <2>2. grown.size \in Nat /\ grown.total_message_len \in Nat /\ grown.payload \in Seq(W \X Nat)
        BY <2>1 DEF PartialsOf
    <2>3. CASE grown.size > grown.total_message_len
        BY <1>4, <1>6, <2>3 DEF Dropped
    <2>4. CASE ~ grown.size > grown.total_message_len /\ ~ chunk.last
        BY <1>4, <1>6, <2>1, <2>2, <2>4
    <2>5. CASE ~ grown.size > grown.total_message_len /\ chunk.last
        BY <1>4, <1>6, <2>1, <2>2, <2>5
    <2> QED BY <2>3, <2>4, <2>5
<1> QED BY <1>5, <1>6

(* So does what the server makes of a write, which refuses lengths above   *)
(* the maximum.                                                            *)
LEMMA ReceivedType ==
    ASSUME NEW partial \in PartialsOf(Tags) \cup {NONE}, NEW chunk \in ChunksOf(Tags)
    PROVE  /\ Received(partial, chunk).partial \in PartialsOf(Tags) \cup {NONE}
           /\ Received(partial, chunk).message \in Seq(Tags \X Nat) \cup {NONE}
           /\ Received(partial, chunk).partial # NONE =>
                Received(partial, chunk).partial.size <= Received(partial, chunk).partial.total_message_len
                /\ Received(partial, chunk).partial.total_message_len <= MAX_MESSAGE
<1>1. CASE WellFormed(chunk)
    <2>1. chunk.total_message_len <= MAX_MESSAGE
        BY <1>1 DEF WellFormed
    <2>2. Received(partial, chunk) = Reassembled(partial, chunk)
        BY <1>1 DEF Received
    <2>3. NONE \notin PartialsOf(Tags)
        BY NoneAssumption
    <2>4. /\ Reassembled(partial, chunk).partial \in PartialsOf(Tags) \cup {NONE}
          /\ Reassembled(partial, chunk).message \in Seq(Tags \X Nat) \cup {NONE}
          /\ Reassembled(partial, chunk).partial # NONE =>
               Reassembled(partial, chunk).partial.size <= Reassembled(partial, chunk).partial.total_message_len
               /\ Reassembled(partial, chunk).partial.total_message_len = chunk.total_message_len
        BY <2>3, ReassembledType
    <2> QED BY <2>1, <2>2, <2>4
<1>2. CASE ~ WellFormed(chunk)
    BY <1>2 DEF Received, Dropped
<1> QED BY <1>1, <1>2

-----------------------------------------------------------------------------
(* Types *)

Entries == [phone : Phones, on : Nat, chunk : ChunksOf(Tags) \cup {NONE}]
PartialFits == partial_rx # NONE => partial_rx.size <= partial_rx.total_message_len
                                    /\ partial_rx.total_message_len <= MAX_MESSAGE

(* Type correctness in its three parts: server, phones, sizes of partial   *)
(* messages.                                                               *)
LEMMA TypeIsThree == TypeOK <=> ServerTypeOK /\ PhonesTypeOK /\ PartialFits
BY DEF TypeOK, PartialFits

LEMMA Lengths == {HELLO_BYTES, ANSWER_BYTES, ERROR_BYTES} \subseteq 1..MAX_MESSAGE
BY LengthAssumption

(* The chunks of a new request.                                            *)
LEMMA HelloChunksType ==
    ASSUME TypeOK, NEW p \in Phones
    PROVE  /\ <<p, link[p], Len(hellos[p]) + 1>> \in Tags
           /\ Chunks(nextTransportMessageId[p], <<p, link[p], Len(hellos[p]) + 1>>, HELLO_BYTES)
                \in Seq(ChunksOf(Tags))
<1>1. nextTransportMessageId[p] \in Nat /\ link[p] \in Nat /\ Len(hellos[p]) + 1 \in Nat
    BY LenProperties DEF TypeOK, PhonesTypeOK
<1>2. <<p, link[p], Len(hellos[p]) + 1>> \in Tags
    BY <1>1 DEF Tags
<1> QED BY <1>1, <1>2, Lengths, ChunksType

(* The app writes its next chunk, or has none.                             *)
LEMMA WriteNextChunkType ==
    ASSUME TypeOK, NEW p \in Phones, NEW chunks \in Seq(ChunksOf(Tags)), NEW queue \in Seq(Entries),
           WriteNextChunk(p, chunks, queue)
    PROVE  /\ pendingWrites' \in [Phones -> Seq(ChunksOf(Tags))]
           /\ waiting' \in Seq(Entries) /\ writing' \in [Phones -> BOOLEAN]
<1>1. pendingWrites \in [Phones -> Seq(ChunksOf(Tags))] /\ writing \in [Phones -> BOOLEAN] /\ link[p] \in Nat
    BY DEF TypeOK, PhonesTypeOK
<1>2. CASE chunks = <<>>
    BY <1>1, <1>2 DEF WriteNextChunk
<1>3. CASE chunks # <<>>
    <2>1. Tail(chunks) \in Seq(ChunksOf(Tags)) /\ Head(chunks) \in ChunksOf(Tags)
        BY <1>3, Tailing
    <2>2. [phone |-> p, on |-> link[p], chunk |-> Head(chunks)] \in Entries
        BY <1>1, <2>1 DEF Entries
    <2>3. Append(queue, [phone |-> p, on |-> link[p], chunk |-> Head(chunks)]) \in Seq(Entries)
        BY <2>2, AppendProperties
    <2>4. pendingWrites' = [pendingWrites EXCEPT ![p] = Tail(chunks)]
        BY <1>3 DEF WriteNextChunk
    <2>5. \/ waiting' = queue /\ writing' = writing
          \/ /\ writing' = [writing EXCEPT ![p] = TRUE]
             /\ waiting' = Append(queue, [phone |-> p, on |-> link[p], chunk |-> Head(chunks)])
        BY <1>3 DEF WriteNextChunk
    <2> QED BY <1>1, <2>1, <2>3, <2>4, <2>5
<1> QED BY <1>2, <1>3

(* The server confirms a write.                                            *)
LEMMA ConfirmType ==
    ASSUME TypeOK, NEW p \in Phones, NEW on, Confirm(p, on)
    PROVE  writing' \in [Phones -> BOOLEAN] /\ callbacks' \in [Phones -> Nat]
<1>1. writing \in [Phones -> BOOLEAN] /\ callbacks \in [Phones -> Nat]
    BY DEF TypeOK, PhonesTypeOK
<1>2. CASE link[p] = on
    <2>1. /\ writing' = [writing EXCEPT ![p] = FALSE]
          /\ callbacks' = [callbacks EXCEPT ![p] = @ + 1]
        BY <1>2 DEF Confirm
    <2>2. writing' \in [Phones -> BOOLEAN]
        BY <1>1, <2>1
    <2>3. callbacks[p] + 1 \in Nat
        BY <1>1
    <2>4. callbacks' \in [Phones -> Nat]
        BY <1>1, <2>1, <2>3
    <2> QED BY <2>2, <2>4
<1>3. CASE link[p] # on
    BY <1>1, <1>3 DEF Confirm
<1> QED BY <1>2, <1>3

LEMMA ConnectType == ASSUME TypeOK, NEW p \in Phones, Connect(p) PROVE TypeOK'
<1>1. connects' \in Nat /\ link' \in [Phones -> Nat]
    BY DEF TypeOK, PhonesTypeOK, Connect
<1>2. ServerTypeOK' /\ PartialFits'
    BY TypeIsThree DEF ServerTypeOK, PartialFits, Connect, server
<1>3. PhonesTypeOK'
    BY <1>1 DEF TypeOK, PhonesTypeOK, Connect
<1> QED BY <1>2, <1>3 DEF TypeOK, PartialFits

LEMMA OnDescriptorWriteType == ASSUME TypeOK, NEW p \in Phones, OnDescriptorWrite(p) PROVE TypeOK'
<1> DEFINE chunks == Chunks(nextTransportMessageId[p], <<p, link[p], Len(hellos[p]) + 1>>, HELLO_BYTES)
<1> DEFINE queue == IF p \in subscribed THEN waiting
                    ELSE Append(waiting, [phone |-> p, on |-> link[p], chunk |-> NONE])
<1>1. chunks \in Seq(ChunksOf(Tags))
    BY HelloChunksType
<1>2. queue \in Seq(Entries)
    <2>1. waiting \in Seq(Entries) /\ link[p] \in Nat
        BY DEF TypeOK, ServerTypeOK, PhonesTypeOK, Entries
    <2>2. [phone |-> p, on |-> link[p], chunk |-> NONE] \in Entries
        BY <2>1 DEF Entries
    <2> QED BY <2>1, <2>2, AppendProperties
<1>3. WriteNextChunk(p, chunks, queue)
    BY DEF OnDescriptorWrite
<1> HIDE DEF chunks, queue
<1>4. /\ pendingWrites' \in [Phones -> Seq(ChunksOf(Tags))]
      /\ waiting' \in Seq(Entries) /\ writing' \in [Phones -> BOOLEAN]
    BY <1>1, <1>2, <1>3, WriteNextChunkType
<1>5. Append(hellos[p], link[p]) \in Seq(Nat)
    BY AppendProperties DEF TypeOK, PhonesTypeOK
<1>6. hellos' \in [Phones -> Seq(Nat)]
    BY <1>5 DEF TypeOK, PhonesTypeOK, OnDescriptorWrite
<1>7. nextTransportMessageId' \in [Phones -> Nat] /\ subscribed' \subseteq Phones
    BY DEF TypeOK, PhonesTypeOK, OnDescriptorWrite
<1>8. PhonesTypeOK'
    BY <1>4, <1>6, <1>7 DEF TypeOK, PhonesTypeOK, OnDescriptorWrite
<1>9. ServerTypeOK'
    BY <1>4 DEF TypeOK, ServerTypeOK, OnDescriptorWrite, Entries
<1>10. PartialFits'
    BY TypeIsThree DEF PartialFits, OnDescriptorWrite
<1> QED BY <1>8, <1>9, <1>10 DEF TypeOK, PartialFits

LEMMA OnCharacteristicWriteType == ASSUME TypeOK, NEW p \in Phones, OnCharacteristicWrite(p) PROVE TypeOK'
<1>1. waiting \in Seq(Entries) /\ pendingWrites[p] \in Seq(ChunksOf(Tags))
    BY DEF TypeOK, ServerTypeOK, PhonesTypeOK, Entries
<1>2. WriteNextChunk(p, pendingWrites[p], waiting)
    BY DEF OnCharacteristicWrite
<1>3. /\ pendingWrites' \in [Phones -> Seq(ChunksOf(Tags))]
      /\ waiting' \in Seq(Entries) /\ writing' \in [Phones -> BOOLEAN]
    BY <1>1, <1>2, WriteNextChunkType
<1>4. callbacks' \in [Phones -> Nat]
    BY DEF TypeOK, PhonesTypeOK, OnCharacteristicWrite
<1>5. PhonesTypeOK'
    BY <1>3, <1>4 DEF TypeOK, PhonesTypeOK, OnCharacteristicWrite
<1>6. ServerTypeOK'
    BY <1>3 DEF TypeOK, ServerTypeOK, OnCharacteristicWrite, Entries
<1>7. PartialFits'
    BY TypeIsThree DEF PartialFits, OnCharacteristicWrite
<1> QED BY <1>5, <1>6, <1>7 DEF TypeOK, PartialFits

LEMMA OnCharacteristicChangedType == ASSUME TypeOK, NEW p \in Phones, OnCharacteristicChanged(p) PROVE TypeOK'
<1> DEFINE result == Reassembled(partialTx[p], Head(air[p]))
<1>1. Tail(air[p]) \in Seq(ChunksOf(AnswerTags)) /\ Head(air[p]) \in ChunksOf(AnswerTags)
    BY Tailing DEF TypeOK, PhonesTypeOK, OnCharacteristicChanged
<1>2. partialTx[p] \in PartialsOf(AnswerTags) \cup {NONE} /\ NONE \notin PartialsOf(AnswerTags)
    BY NoneAssumption DEF TypeOK, PhonesTypeOK
<1>3. result.partial \in PartialsOf(AnswerTags) \cup {NONE}
      /\ result.message \in Seq(AnswerTags \X Nat) \cup {NONE}
    BY <1>1, <1>2, ReassembledType
<1>4. /\ partialTx' = [partialTx EXCEPT ![p] = result.partial]
      /\ logged' = IF result.message = NONE THEN logged
                   ELSE [logged EXCEPT ![p] = Append(@, result.message)]
    BY DEF OnCharacteristicChanged
<1> HIDE DEF result
<1>5. logged \in [Phones -> Seq(Seq(AnswerTags \X Nat))]
      /\ partialTx \in [Phones -> PartialsOf(AnswerTags) \cup {NONE}]
    BY DEF TypeOK, PhonesTypeOK
<1>6. logged' \in [Phones -> Seq(Seq(AnswerTags \X Nat))]
    <2>1. CASE result.message = NONE
        BY <1>4, <1>5, <2>1
    <2>2. CASE result.message # NONE
        <3>1. Append(logged[p], result.message) \in Seq(Seq(AnswerTags \X Nat))
            BY <1>3, <1>5, <2>2, AppendProperties
        <3> QED BY <1>4, <1>5, <2>2, <3>1
    <2> QED BY <2>1, <2>2
<1>7. partialTx' \in [Phones -> PartialsOf(AnswerTags) \cup {NONE}]
    BY <1>3, <1>4, <1>5
<1>8. air' \in [Phones -> Seq(ChunksOf(AnswerTags))]
    BY <1>1 DEF TypeOK, PhonesTypeOK, OnCharacteristicChanged
<1>9. PhonesTypeOK'
    BY <1>6, <1>7, <1>8 DEF TypeOK, PhonesTypeOK, OnCharacteristicChanged
<1>10. ServerTypeOK' /\ PartialFits'
    BY TypeIsThree DEF ServerTypeOK, PartialFits, OnCharacteristicChanged, server
<1> QED BY <1>9, <1>10 DEF TypeOK, PartialFits

(* What the end of a link clears.                                          *)
LEMMA LinkEndsType ==
    ASSUME TypeOK, NEW p \in Phones, LinkEnds(p)
    PROVE  /\ link' \in [Phones -> Nat] /\ subscribed' \subseteq Phones
           /\ air' \in [Phones -> Seq(ChunksOf(AnswerTags))]
           /\ writing' \in [Phones -> BOOLEAN] /\ callbacks' \in [Phones -> Nat]
           /\ waiting' \in Seq(Entries)
<1>1. waiting \in Seq(Entries)
    BY DEF TypeOK, ServerTypeOK, Entries
<1>2. waiting' \in Seq(Entries)
    BY <1>1, Removal, LenProperties DEF LinkEnds
<1>3. <<>> \in Seq(ChunksOf(AnswerTags))
    BY EmptySeq
<1> QED BY <1>2, <1>3 DEF TypeOK, PhonesTypeOK, LinkEnds

LEMMA DisconnectType == ASSUME TypeOK, NEW p \in Phones, Disconnect(p) PROVE TypeOK'
<1>1. LinkEnds(p)
    BY DEF Disconnect
<1>2. PhonesTypeOK'
    BY <1>1, LinkEndsType DEF TypeOK, PhonesTypeOK, Disconnect
<1>3. ServerTypeOK'
    BY <1>1, LinkEndsType DEF TypeOK, ServerTypeOK, Disconnect, Entries
<1>4. PartialFits'
    BY TypeIsThree DEF PartialFits, Disconnect
<1> QED BY <1>2, <1>3, <1>4 DEF TypeOK, PartialFits

LEMMA AppRestartType == ASSUME TypeOK, NEW p \in Phones, AppRestart(p) PROVE TypeOK'
<1>1. LinkEnds(p)
    BY DEF AppRestart
<1>2. /\ pendingWrites' \in [Phones -> Seq(ChunksOf(Tags))]
      /\ partialTx' \in [Phones -> PartialsOf(AnswerTags) \cup {NONE}]
      /\ nextTransportMessageId' \in [Phones -> Nat]
    BY EmptySeq DEF TypeOK, PhonesTypeOK, AppRestart
<1>3. PhonesTypeOK'
    BY <1>1, <1>2, LinkEndsType DEF TypeOK, PhonesTypeOK, AppRestart
<1>4. ServerTypeOK'
    BY <1>1, LinkEndsType DEF TypeOK, ServerTypeOK, AppRestart, Entries
<1>5. PartialFits'
    BY TypeIsThree DEF PartialFits, AppRestart
<1> QED BY <1>3, <1>4, <1>5 DEF TypeOK, PartialFits

(* The chunks of an answer, or of an error.                                *)
LEMMA AnswerChunksType ==
    ASSUME NEW message \in Seq(Tags \X Nat)
    PROVE  AnswerChunks(message) \in Seq(ChunksOf(AnswerTags)) /\ AnswerChunks(message) # <<>>
<1>0. ASSUME NEW what \in AnswerTags, NEW bytes \in {ANSWER_BYTES, ERROR_BYTES}
      PROVE  Chunks(1, what, bytes) \in Seq(ChunksOf(AnswerTags)) /\ Chunks(1, what, bytes) # <<>>
    <2>1. bytes \in 1..MAX_MESSAGE
        BY Lengths
    <2> QED BY <2>1, ChunksType
<1>1. CASE IsHello(message)
    <2>1. message = Message(message[1][1], HELLO_BYTES)
        BY <1>1 DEF IsHello
    <2>2. ChunkCount(HELLO_BYTES) \in Nat \ {0}
        BY Lengths, ChunkCounts
    <2>3. 1 \in DOMAIN message
        BY <2>1, <2>2 DEF Message
    <2>4. message[1][1] \in Tags
        BY <2>3
    <2>5. [to |-> message[1][1]] \in AnswerTags
        BY <2>4 DEF AnswerTags
    <2>6. AnswerChunks(message) = Chunks(1, [to |-> message[1][1]], ANSWER_BYTES)
        BY <1>1 DEF AnswerChunks
    <2> QED BY <1>0, <2>5, <2>6
<1>2. CASE ~ IsHello(message)
    <2>1. [to |-> NONE] \in AnswerTags
        BY DEF AnswerTags
    <2>2. AnswerChunks(message) = Chunks(1, [to |-> NONE], ERROR_BYTES)
        BY <1>2 DEF AnswerChunks
    <2> QED BY <1>0, <2>1, <2>2
<1> QED BY <1>1, <1>2

LEMMA HandleRxChunkType ==
    ASSUME TypeOK, NEW k \in DOMAIN waiting, HandleRxChunk(k)
    PROVE  TypeOK'
<1> DEFINE w == waiting[k]
<1> DEFINE result == Received(partial_rx, w.chunk)
<1>1. waiting \in Seq(Entries) /\ k \in 1..Len(waiting)
    BY LenProperties DEF TypeOK, ServerTypeOK, Entries
<1>2. w \in Entries /\ w.chunk # NONE
    BY <1>1, ElementOfSeq DEF HandleRxChunk, IsTurn
<1>3. w.phone \in Phones /\ w.on \in Nat /\ w.chunk \in ChunksOf(Tags)
    BY <1>2 DEF Entries
<1>4. partial_rx \in PartialsOf(Tags) \cup {NONE} /\ handled \in Seq(Seq(Tags \X Nat))
      /\ reply \in Replies \cup {NONE} /\ (reply # NONE => reply.rest # <<>> /\ tx_writer # NONE)
    BY DEF TypeOK, ServerTypeOK
<1>5. /\ result.partial \in PartialsOf(Tags) \cup {NONE}
      /\ result.message \in Seq(Tags \X Nat) \cup {NONE}
      /\ result.partial # NONE => result.partial.size <= result.partial.total_message_len
                                 /\ result.partial.total_message_len <= MAX_MESSAGE
    BY <1>3, <1>4, ReceivedType
<1>6. /\ waiting' = RemoveAt(waiting, k)
      /\ partial_rx' = result.partial
      /\ handled' = IF result.message = NONE THEN handled ELSE Append(handled, result.message)
      /\ IF IsAnswered(result.message)
         THEN /\ reply' = [phone |-> w.phone, on |-> w.on, rest |-> AnswerChunks(result.message)]
              /\ UNCHANGED <<writing, callbacks>>
         ELSE Confirm(w.phone, w.on) /\ UNCHANGED reply
      /\ UNCHANGED <<tx_writer, link, subscribed, air, pendingWrites, partialTx,
                     nextTransportMessageId, connects, hellos, logged>>
    BY DEF HandleRxChunk
<1> HIDE DEF result, w
<1>7. waiting' \in Seq(Entries)
    BY <1>1, <1>6, Removal
<1>8. handled' \in Seq(Seq(Tags \X Nat))
    <2>1. CASE result.message = NONE
        BY <1>4, <1>6, <2>1
    <2>2. CASE result.message # NONE
        BY <1>4, <1>5, <1>6, <2>2, AppendProperties
    <2> QED BY <2>1, <2>2
<1>9. /\ reply' \in Replies \cup {NONE} /\ (reply' # NONE => reply'.rest # <<>> /\ tx_writer' # NONE)
      /\ writing' \in [Phones -> BOOLEAN] /\ callbacks' \in [Phones -> Nat]
    <2>1. CASE IsAnswered(result.message)
        <3>1. result.message \in Seq(Tags \X Nat) /\ tx_writer # NONE
            BY <1>5, <2>1 DEF IsAnswered
        <3>2. AnswerChunks(result.message) \in Seq(ChunksOf(AnswerTags)) /\ AnswerChunks(result.message) # <<>>
            BY <3>1, AnswerChunksType
        <3>3. reply' = [phone |-> w.phone, on |-> w.on, rest |-> AnswerChunks(result.message)]
              /\ UNCHANGED <<writing, callbacks, tx_writer>>
            BY <1>6, <2>1
        <3> HIDE DEF AnswerChunks
        <3>4. reply' \in Replies /\ reply'.rest = AnswerChunks(result.message)
            BY <1>3, <3>2, <3>3 DEF Replies
        <3>5. writing \in [Phones -> BOOLEAN] /\ callbacks \in [Phones -> Nat]
            BY DEF TypeOK, PhonesTypeOK
        <3> QED BY <3>1, <3>2, <3>3, <3>4, <3>5
    <2>2. CASE ~ IsAnswered(result.message)
        BY <1>3, <1>4, <1>6, <2>2, ConfirmType
    <2> QED BY <2>1, <2>2
<1>10. ServerTypeOK'
    BY <1>5, <1>6, <1>7, <1>8, <1>9 DEF TypeOK, ServerTypeOK, Entries
<1>11. PhonesTypeOK'
    BY <1>6, <1>9 DEF TypeOK, PhonesTypeOK
<1>12. PartialFits'
    BY <1>5, <1>6 DEF PartialFits
<1> QED BY <1>10, <1>11, <1>12 DEF TypeOK, PartialFits

LEMMA SendTxChunkType == ASSUME TypeOK, SendTxChunk PROVE TypeOK'
<1> DEFINE p == tx_writer[1]
<1> DEFINE live == link[p] = tx_writer[2]
<1>1. reply \in Replies /\ reply.rest # <<>> /\ tx_writer # NONE /\ tx_writer \in Phones \X Nat
    BY DEF TypeOK, ServerTypeOK, SendTxChunk
<1>2. p \in Phones /\ reply.phone \in Phones /\ reply.rest \in Seq(ChunksOf(AnswerTags)) /\ reply.on \in Nat
    BY <1>1 DEF Replies
<1>3. Tail(reply.rest) \in Seq(ChunksOf(AnswerTags)) /\ Head(reply.rest) \in ChunksOf(AnswerTags)
      /\ Len(Tail(reply.rest)) = Len(reply.rest) - 1 /\ Len(reply.rest) \in Nat
    BY <1>1, <1>2, Tailing
<1>4. /\ air' = IF live THEN [air EXCEPT ![p] = Append(@, Head(reply.rest))] ELSE air
      /\ IF live /\ Len(reply.rest) > 1
         THEN reply' = [reply EXCEPT !.rest = Tail(@)] /\ UNCHANGED <<writing, callbacks>>
         ELSE reply' = NONE /\ Confirm(reply.phone, reply.on)
      /\ UNCHANGED <<tx_writer, partial_rx, waiting, link, subscribed, pendingWrites, partialTx,
                     nextTransportMessageId, connects, hellos, handled, logged>>
    BY DEF SendTxChunk
<1>5. air \in [Phones -> Seq(ChunksOf(AnswerTags))]
    BY DEF TypeOK, PhonesTypeOK
<1> HIDE DEF p, live
<1>6. air' \in [Phones -> Seq(ChunksOf(AnswerTags))]
    <2>1. Append(air[p], Head(reply.rest)) \in Seq(ChunksOf(AnswerTags))
        BY <1>2, <1>3, <1>5, AppendProperties
    <2> QED BY <1>2, <1>4, <1>5, <2>1
<1>7. /\ reply' \in Replies \cup {NONE} /\ (reply' # NONE => reply'.rest # <<>> /\ tx_writer' # NONE)
      /\ writing' \in [Phones -> BOOLEAN] /\ callbacks' \in [Phones -> Nat]
    <2>1. CASE live /\ Len(reply.rest) > 1
        <3>1. reply' = [reply EXCEPT !.rest = Tail(@)] /\ UNCHANGED <<writing, callbacks, tx_writer>>
            BY <1>4, <2>1
        <3>2. reply' \in Replies /\ reply'.rest = Tail(reply.rest)
            BY <1>1, <1>3, <3>1 DEF Replies
        <3>3. Tail(reply.rest) # <<>>
            BY <1>3, <2>1
        <3>4. writing \in [Phones -> BOOLEAN] /\ callbacks \in [Phones -> Nat]
            BY DEF TypeOK, PhonesTypeOK
        <3> QED BY <1>1, <3>1, <3>2, <3>3, <3>4
    <2>2. CASE ~ (live /\ Len(reply.rest) > 1)
        BY <1>2, <1>4, <2>2, ConfirmType
    <2> QED BY <2>1, <2>2
<1>8. ServerTypeOK'
    BY <1>4, <1>7 DEF TypeOK, ServerTypeOK
<1>9. PhonesTypeOK'
    BY <1>4, <1>6, <1>7 DEF TypeOK, PhonesTypeOK
<1>10. PartialFits'
    BY <1>4, TypeIsThree DEF PartialFits
<1> QED BY <1>8, <1>9, <1>10 DEF TypeOK, PartialFits

LEMMA TakeSubscriptionType == ASSUME TypeOK, TakeSubscription PROVE TypeOK'
<1>1. waiting \in Seq(Entries) /\ waiting # <<>>
    BY DEF TypeOK, ServerTypeOK, Entries, TakeSubscription
<1>2. Tail(waiting) \in Seq(Entries) /\ Head(waiting) \in Entries
    BY <1>1, Tailing
<1>3. <<Head(waiting).phone, Head(waiting).on>> \in Phones \X Nat
    BY <1>2 DEF Entries
<1>4. ServerTypeOK'
    BY <1>2, <1>3 DEF TypeOK, ServerTypeOK, TakeSubscription, Entries
<1>5. PhonesTypeOK' /\ PartialFits'
    BY TypeIsThree DEF PhonesTypeOK, PartialFits, TakeSubscription, phones
<1> QED BY <1>4, <1>5 DEF TypeOK, PartialFits

LEMMA InitType == Init => TypeOK
<1>1. \A S : <<>> \in Seq(S)
    BY EmptySeq
<1> QED BY <1>1 DEF Init, TypeOK, ServerTypeOK, PhonesTypeOK

LEMMA NextType == TypeOK /\ [Next]_vars => TypeOK'
<1> SUFFICES ASSUME TypeOK, [Next]_vars PROVE TypeOK'
    OBVIOUS
<1>1. ASSUME NEW p \in Phones, Connect(p) PROVE TypeOK'
    BY <1>1, ConnectType
<1>2. ASSUME NEW p \in Phones, Disconnect(p) PROVE TypeOK'
    BY <1>2, DisconnectType
<1>3. ASSUME NEW p \in Phones, AppRestart(p) PROVE TypeOK'
    BY <1>3, AppRestartType
<1>4. ASSUME NEW p \in Phones, OnDescriptorWrite(p) PROVE TypeOK'
    BY <1>4, OnDescriptorWriteType
<1>5. ASSUME NEW p \in Phones, OnCharacteristicWrite(p) PROVE TypeOK'
    BY <1>5, OnCharacteristicWriteType
<1>6. ASSUME NEW p \in Phones, OnCharacteristicChanged(p) PROVE TypeOK'
    BY <1>6, OnCharacteristicChangedType
<1>7. CASE Server
    BY <1>7, HandleRxChunkType, SendTxChunkType, TakeSubscriptionType DEF Server
<1>8. CASE UNCHANGED vars
    BY <1>8 DEF TypeOK, ServerTypeOK, PhonesTypeOK, vars, server, phones
<1> QED BY <1>1, <1>2, <1>3, <1>4, <1>5, <1>6, <1>7, <1>8 DEF Next

(* However many links are up, the state of server and phones is well       *)
(* formed, a partial message stays within its length, and the server sends *)
(* an answer only while somebody has subscribed.                           *)
THEOREM Types == Spec => []TypeOK
<1>1. Init => TypeOK
    BY InitType
<1>2. TypeOK /\ [Next]_vars => TypeOK'
    BY NextType
<1> QED BY <1>1, <1>2, PTL DEF Spec

-----------------------------------------------------------------------------
(* The invariant with one link *)

TagOf(chunk) == chunk.fragment[1]
TagIn(partial) == partial.payload[1][1]
To(tag) == [to |-> tag]

(* Fragment i of the message about what, and any fragment of one.          *)
IsPiece(chunk, what, bytes, i) ==
    /\ i \in 1..ChunkCount(bytes)
    /\ chunk.fragment = <<what, i>> /\ chunk.chunk_index = i - 1
    /\ chunk.last <=> i = ChunkCount(bytes)
IsPart(chunk, bytes) == IsPiece(chunk, TagOf(chunk), bytes, chunk.fragment[2])

(* A partial message holds the first fragments of one message.             *)
IsBegun(partial) ==
    /\ partial.next_chunk_index \in Nat \ {0}
    /\ partial.payload = [i \in 1..partial.next_chunk_index |-> <<TagIn(partial), i>>]

Has(messages, what, bytes) == Contains(messages, Message(what, bytes))
IsAsked(book, tag) ==
    /\ tag \in Tags /\ tag[3] \in 1..Len(book[tag[1]])
    /\ tag[2] = book[tag[1]][tag[3]]

(* Until it restarts, an app numbers its messages as it numbers its        *)
(* requests, but for a fixed difference.                                   *)
Shift(id, tag) == id - tag[3]
CurrentShift(p) == nextTransportMessageId[p] - 1 - Len(hellos[p])
Latest(p) == <<p, hellos[p][Len(hellos[p])], Len(hellos[p])>>

LinksOK ==
    /\ \A p \in Phones : link[p] # 0 => link[p] = connects
    /\ \A p, q \in Phones : link[p] # 0 /\ link[q] # 0 => p = q
    /\ \A p \in Phones : \A n \in 1..Len(hellos[p]) :
         hellos[p][n] \in 1..connects /\ \A m \in 1..n : hellos[p][m] <= hellos[p][n]
    /\ tx_writer # NONE => tx_writer[2] \in 1..connects

(* A write that waits, against the partial message it will meet.           *)
MeetsPartial(w) ==
    partial_rx # NONE =>
        /\ w.chunk.chunk_index > 0 => TagIn(partial_rx)[2] = w.on
        /\ TagIn(partial_rx)[2] = w.on =>
             /\ TagIn(partial_rx)[1] = w.phone
             /\ Shift(partial_rx.message_id, TagIn(partial_rx)) = Shift(w.chunk.message_id, TagOf(w.chunk))
(* A last chunk that waits will complete a request not yet completed.      *)
IsNew(w) ==
    w.chunk.last => /\ ~ Has(handled, TagOf(w.chunk), HELLO_BYTES)
                    /\ pendingWrites[w.phone] = <<>> \/ TagOf(w.chunk) # Latest(w.phone)
WriteOK(w) ==
    /\ IsPart(w.chunk, HELLO_BYTES) /\ IsAsked(hellos, TagOf(w.chunk))
    /\ TagOf(w.chunk)[1] = w.phone /\ TagOf(w.chunk)[2] = w.on
    /\ link[w.phone] = w.on => Shift(w.chunk.message_id, TagOf(w.chunk)) = CurrentShift(w.phone)
    /\ reply # NONE => reply.on <= w.on
    /\ \A p \in Phones : callbacks[p] > 0 => w.on = link[p]
    /\ MeetsPartial(w) /\ IsNew(w)
EntryOK(w) ==
    /\ w.on \in 1..connects
    /\ tx_writer # NONE => tx_writer[2] <= w.on
    /\ \A p \in Phones : link[p] = w.on => p = w.phone
    /\ w.chunk # NONE => WriteOK(w)
WaitingOK == \A k \in 1..Len(waiting) : EntryOK(waiting[k])

(* Of two entries that wait, the one that came later.                      *)
After(v, w) ==
    /\ v.on <= w.on
    /\ v.chunk # NONE /\ w.chunk # NONE =>
         /\ v.on = w.on =>
              /\ v.phone = w.phone
              /\ Shift(v.chunk.message_id, TagOf(v.chunk)) = Shift(w.chunk.message_id, TagOf(w.chunk))
         /\ w.chunk.chunk_index > 0 => v.on = w.on
         /\ v.chunk.last /\ w.chunk.last => TagOf(v.chunk) # TagOf(w.chunk)
InOrder(queue) == \A k \in 1..Len(queue) : \A j \in 1..(k - 1) : After(queue[j], queue[k])

PartialOK ==
    partial_rx # NONE =>
        /\ IsBegun(partial_rx) /\ IsAsked(hellos, TagIn(partial_rx))
        /\ \A p \in Phones : link[p] = TagIn(partial_rx)[2] =>
             /\ p = TagIn(partial_rx)[1]
             /\ Shift(partial_rx.message_id, TagIn(partial_rx)) = CurrentShift(p)

PendingOK(p) ==
    pendingWrites[p] # <<>> =>
        /\ Len(pendingWrites[p]) < ChunkCount(HELLO_BYTES)
        /\ hellos[p] # <<>> /\ ~ Has(handled, Latest(p), HELLO_BYTES)
        /\ \A k \in 1..Len(pendingWrites[p]) :
             /\ IsPiece(pendingWrites[p][k], Latest(p), HELLO_BYTES,
                        ChunkCount(HELLO_BYTES) - Len(pendingWrites[p]) + k)
             /\ pendingWrites[p][k].message_id = nextTransportMessageId[p] - 1
CallbackOK(p) ==
    callbacks[p] > 0 =>
        /\ link[p] # 0 /\ hellos[p] # <<>> /\ Latest(p)[2] = link[p]
        /\ partial_rx # NONE => TagIn(partial_rx)[2] = link[p]
PhonesOK == \A p \in Phones : PendingOK(p) /\ CallbackOK(p)

MessagesOK ==
    /\ \A t \in Tags : Has(handled, t, HELLO_BYTES) => IsAsked(hellos, t)
    /\ \A p \in Phones : \A t \in Tags : Has(logged[p], To(t), ANSWER_BYTES) => Has(handled, t, HELLO_BYTES)

Live == link[tx_writer[1]] = tx_writer[2]
(* What the phone has or will have of the answer once its air is empty.    *)
Follows(p, what, n) ==
    IF air[p] = <<>>
    THEN partialTx[p] # NONE => TagIn(partialTx[p]) = what /\ partialTx[p].next_chunk_index = n
    ELSE air[p][Len(air[p])].fragment = <<what, n>>
ReplyFor(t) ==
    /\ IsAsked(hellos, t) /\ Has(handled, t, HELLO_BYTES)
    /\ Len(reply.rest) <= ChunkCount(ANSWER_BYTES)
    /\ \A k \in 1..Len(reply.rest) :
         IsPiece(reply.rest[k], To(t), ANSWER_BYTES, ChunkCount(ANSWER_BYTES) - Len(reply.rest) + k)
    /\ \A p \in Phones : /\ ~ Has(logged[p], To(t), ANSWER_BYTES)
                         /\ \A k \in 1..Len(air[p]) : air[p][k].last => TagOf(air[p][k]) # To(t)
    /\ Live => t[1] = tx_writer[1]
    /\ Live /\ Len(reply.rest) < ChunkCount(ANSWER_BYTES) =>
         Follows(tx_writer[1], To(t), ChunkCount(ANSWER_BYTES) - Len(reply.rest))
ReplyOK ==
    reply # NONE =>
        /\ partial_rx = NONE
        /\ reply.on \in 1..connects
        /\ \E n \in 1..Len(hellos[reply.phone]) : hellos[reply.phone][n] = reply.on
        /\ \E t \in Tags : ReplyFor(t)

FragmentOK(p, chunk) ==
    /\ IsPart(chunk, ANSWER_BYTES) /\ TagOf(chunk) = To(TagOf(chunk).to)
    /\ IsAsked(hellos, TagOf(chunk).to) /\ Has(handled, TagOf(chunk).to, HELLO_BYTES)
    /\ TagOf(chunk).to[1] = p
    /\ chunk.last => ~ Has(logged[p], TagOf(chunk), ANSWER_BYTES)
AirOK(p) ==
    /\ \A k \in 1..Len(air[p]) : FragmentOK(p, air[p][k])
    /\ \A k \in 1..Len(air[p]) : \A j \in 1..(k - 1) :
         air[p][j].last /\ air[p][k].last => TagOf(air[p][j]) # TagOf(air[p][k])
    /\ \A k \in 2..Len(air[p]) : air[p][k].chunk_index > 0 =>
         air[p][k - 1].fragment = <<TagOf(air[p][k]), air[p][k].chunk_index>>
    /\ air[p] # <<>> /\ air[p][1].chunk_index > 0 /\ partialTx[p] # NONE =>
         TagIn(partialTx[p]) = TagOf(air[p][1]) /\ partialTx[p].next_chunk_index = air[p][1].chunk_index
    /\ partialTx[p] # NONE => IsBegun(partialTx[p])
AirsOK == \A p \in Phones : AirOK(p)

OneLink ==
    /\ TypeOK /\ LinksOK /\ WaitingOK /\ InOrder(waiting) /\ PartialOK
    /\ PhonesOK /\ MessagesOK /\ ReplyOK /\ AirsOK

-----------------------------------------------------------------------------
(* Tags and messages *)

LEMMA TagParts == \A t \in Tags : t[1] \in Phones /\ t[2] \in Nat /\ t[3] \in Nat
                                  /\ t = <<t[1], t[2], t[3]>> /\ To(t) \in AnswerTags /\ To(t).to = t
BY DEF Tags, To, AnswerTags

(* A phone has one request of each number.                                 *)
LEMMA SameRequest ==
    ASSUME NEW book, NEW s, NEW t, IsAsked(book, s), IsAsked(book, t), s[1] = t[1], s[3] = t[3]
    PROVE  s = t
BY TagParts DEF IsAsked

(* Which messages a longer log has.                                        *)
LEMMA HasAfter ==
    ASSUME NEW W, NEW messages \in Seq(Seq(W \X Nat)), NEW what \in W, NEW other \in W,
           NEW bytes \in 1..MAX_MESSAGE
    PROVE  Has(Append(messages, Message(other, bytes)), what, bytes) <=> Has(messages, what, bytes) \/ what = other
<1>1. Message(other, bytes) \in Seq(W \X Nat) /\ Message(other, bytes)[1] = <<other, 1>>
      /\ Message(what, bytes)[1] = <<what, 1>>
    BY MessageType
<1>2. Message(what, bytes) = Message(other, bytes) <=> what = other
    BY <1>1
<1> HIDE DEF Message
<1> DEFINE more == Append(messages, Message(other, bytes))
<1>3. Len(more) = Len(messages) + 1 /\ Len(messages) \in Nat /\ more[Len(messages) + 1] = Message(other, bytes)
      /\ \A i \in 1..Len(messages) : more[i] = messages[i]
    BY <1>1, Appending
<1> HIDE DEF more
<1>4. Has(more, what, bytes) <=> Has(messages, what, bytes) \/ what = other
    <2> DEFINE m == Message(what, bytes)
    <2> DEFINE o == Message(other, bytes)
    <2> HIDE DEF m, o
    <2>1. (\E i \in 1..Len(more) : more[i] = m) <=> (\E i \in 1..Len(messages) : messages[i] = m) \/ o = m
        <3>1. more[Len(messages) + 1] = o /\ Len(messages) + 1 \in 1..Len(more)
            BY <1>3 DEF o
        <3>2. \A i \in 1..Len(more) : i \in 1..Len(messages) \/ i = Len(messages) + 1
            BY <1>3
        <3>3. \A i \in 1..Len(messages) : i \in 1..Len(more) /\ more[i] = messages[i]
            BY <1>3
        <3> QED BY <3>1, <3>2, <3>3
    <2> QED BY <1>2, <2>1 DEF Has, Contains, m, o
<1> QED BY <1>4 DEF more

(* What was asked stays asked.                                             *)
LEMMA AskedAfter ==
    ASSUME NEW book \in [Phones -> Seq(Nat)], NEW p \in Phones, NEW on \in Nat, NEW t, IsAsked(book, t)
    PROVE  IsAsked([book EXCEPT ![p] = Append(@, on)], t)
<1>1. t[1] \in Phones
    BY TagParts DEF IsAsked
<1>2. Len(Append(book[p], on)) = Len(book[p]) + 1 /\ Len(book[p]) \in Nat
      /\ \A i \in 1..Len(book[p]) : Append(book[p], on)[i] = book[p][i]
    BY Appending
<1> QED BY <1>1, <1>2 DEF IsAsked

(* The heart of the matter: when a chunk that continues the partial        *)
(* message is about the same message, what comes of it is about that       *)
(* message too, and whole when it is complete.                             *)
LEMMA Reassembling ==
    ASSUME NEW W, NEW bytes \in 1..MAX_MESSAGE, NEW chunk \in ChunksOf(W), IsPart(chunk, bytes),
           NEW partial, partial \in PartialsOf(W) \cup {NONE},
           NONE \notin PartialsOf(W), NONE \notin Seq(W \X Nat),
           partial # NONE => IsBegun(partial),
           partial # NONE /\ chunk.chunk_index > 0 /\ Continues(partial, chunk) => TagIn(partial) = TagOf(chunk),
           NEW result, result = Reassembled(partial, chunk) \/ result = Dropped
    PROVE  /\ result.partial # NONE =>
                /\ IsBegun(result.partial) /\ TagIn(result.partial) = TagOf(chunk)
                /\ result.partial.message_id = chunk.message_id
                /\ result.partial.next_chunk_index = chunk.chunk_index + 1
                /\ ~ chunk.last
           /\ result.message # NONE =>
                chunk.last /\ result.message = Message(TagOf(chunk), bytes) /\ result.partial = NONE
<1> DEFINE tag == TagOf(chunk)
<1> DEFINE n == chunk.chunk_index
<1> DEFINE current == IF n = 0 THEN Started(chunk) ELSE partial
<1> DEFINE grown == Grown(current, chunk)
<1>1. n \in Nat /\ n + 1 \in 1..ChunkCount(bytes) /\ chunk.fragment = <<tag, n + 1>> /\ tag \in W
      /\ (chunk.last <=> n + 1 = ChunkCount(bytes))
    <2>1. ChunkCount(bytes) \in Nat
        BY ChunkCounts
    <2>2. chunk.fragment \in W \X Nat /\ n \in Nat
        BY DEF ChunksOf
    <2>3. tag \in W
        BY <2>2 DEF TagOf
    <2> HIDE DEF tag
    <2>4. /\ chunk.fragment[2] \in 1..ChunkCount(bytes)
          /\ chunk.fragment = <<tag, chunk.fragment[2]>> /\ n = chunk.fragment[2] - 1
          /\ chunk.last <=> chunk.fragment[2] = ChunkCount(bytes)
        BY DEF IsPart, IsPiece, tag
    <2>5. chunk.fragment[2] = n + 1
        BY <2>1, <2>4
    <2> QED BY <2>1, <2>2, <2>3, <2>4, <2>5
<1>2. ASSUME current # NONE, Continues(current, chunk)
      PROVE  /\ grown.payload = [i \in 1..(n + 1) |-> <<tag, i>>] /\ grown.next_chunk_index = n + 1
             /\ grown.message_id = chunk.message_id
    <2>1. current \in PartialsOf(W)
        BY <1>1, <1>2 DEF PartialsOf, ChunksOf, Started
    <2>2. current.next_chunk_index = n /\ current.message_id = chunk.message_id
        BY <1>2 DEF Continues
    <2>3. current.payload \in Seq(W \X Nat) /\ Len(current.payload) = n
          /\ \A i \in 1..n : current.payload[i] = <<tag, i>>
        <3>1. CASE n = 0
            BY <3>1, EmptySeq DEF Started
        <3>2. CASE n # 0
            <4>1. current = partial /\ partial # NONE /\ partial \in PartialsOf(W)
                BY <1>2, <3>2
            <4>2. IsBegun(partial) /\ TagIn(partial) = tag
                BY <1>1, <1>2, <3>2, <4>1
            <4>3. partial.payload = [i \in 1..n |-> <<tag, i>>]
                BY <2>2, <4>1, <4>2 DEF IsBegun
            <4>4. [i \in 1..n |-> <<tag, i>>] \in Seq(W \X Nat) /\ Len([i \in 1..n |-> <<tag, i>>]) = n
                BY <1>1
            <4> QED BY <4>1, <4>3, <4>4
        <3> QED BY <3>1, <3>2
    <2> DEFINE payload == Append(current.payload, <<tag, n + 1>>)
    <2>4. <<tag, n + 1>> \in W \X Nat
        BY <1>1
    <2>5. payload \in Seq(W \X Nat) /\ Len(payload) = n + 1 /\ payload[n + 1] = <<tag, n + 1>>
          /\ \A i \in 1..n : payload[i] = <<tag, i>>
        BY <2>3, <2>4, Appending
    <2>6. grown.payload = payload /\ grown.next_chunk_index = n + 1 /\ grown.message_id = chunk.message_id
        BY <1>1, <2>1, <2>2 DEF Grown, PartialsOf
    <2>7. \A i \in 1..(n + 1) : payload[i] = <<tag, i>>
        BY <1>1, <2>5
    <2> HIDE DEF payload
    <2>8. payload = [i \in 1..(n + 1) |-> <<tag, i>>]
        BY <1>1, <2>5, <2>7
    <2> QED BY <2>6, <2>8
<1> DEFINE r == Reassembled(partial, chunk)
<1>3. r = IF current = NONE \/ ~ Continues(current, chunk) THEN Dropped
          ELSE IF grown.size > grown.total_message_len THEN Dropped
          ELSE IF ~ chunk.last THEN [partial |-> grown, message |-> NONE]
          ELSE [partial |-> NONE,
                message |-> IF grown.size = grown.total_message_len THEN grown.payload ELSE NONE]
    BY DEF r, Reassembled, current, grown
<1>4. CASE result = Dropped
    BY <1>4 DEF Dropped
<1>5. CASE result = r /\ r # Dropped
    <2> HIDE DEF current, grown, r
    <2>1. current # NONE /\ Continues(current, chunk) /\ ~ grown.size > grown.total_message_len
        BY <1>3, <1>5
    <2>2. /\ grown.payload = [i \in 1..(n + 1) |-> <<tag, i>>] /\ grown.next_chunk_index = n + 1
          /\ grown.message_id = chunk.message_id
        BY <1>2, <2>1
    <2>3. TagIn(grown) = tag
        BY <1>1, <2>2 DEF TagIn
    <2>4. IsBegun(grown)
        BY <1>1, <2>2, <2>3 DEF IsBegun
    <2>5. CASE ~ chunk.last
        <3>1. result.partial = grown /\ result.message = NONE
            BY <1>3, <1>5, <2>1, <2>5
        <3> QED BY <2>2, <2>3, <2>4, <2>5, <3>1
    <2>6. CASE chunk.last
        <3>1. result.partial = NONE /\ (result.message # NONE => result.message = grown.payload)
            BY <1>3, <1>5, <2>1, <2>6
        <3>2. grown.payload = Message(tag, bytes)
            BY <1>1, <2>2, <2>6 DEF Message
        <3> QED BY <2>6, <3>1, <3>2
    <2> QED BY <2>5, <2>6
<1> QED BY <1>4, <1>5

-----------------------------------------------------------------------------
(* The queue of entries *)

(* Whoever waits for the lock, the order of the others stays.              *)
LEMMA InOrderRemoval ==
    ASSUME NEW queue \in Seq(Entries), NEW k \in 1..Len(queue), InOrder(queue)
    PROVE  InOrder(RemoveAt(queue, k))
<1> DEFINE rest == RemoveAt(queue, k)
<1>1. Len(rest) = Len(queue) - 1 /\ Len(queue) \in Nat
      /\ \A i \in 1..(Len(queue) - 1) : rest[i] = queue[IF i < k THEN i ELSE i + 1]
    BY Removal, LenProperties
<1> HIDE DEF rest
<1> SUFFICES ASSUME NEW i \in 1..Len(rest), NEW j \in 1..(i - 1) PROVE After(rest[j], rest[i])
    BY DEF InOrder, rest
<1> DEFINE a == IF i < k THEN i ELSE i + 1
<1> DEFINE b == IF j < k THEN j ELSE j + 1
<1>2. rest[i] = queue[a] /\ rest[j] = queue[b]
    BY <1>1
<1>3. a \in 1..Len(queue) /\ b \in 1..(a - 1)
    BY <1>1
<1> HIDE DEF a, b
<1>4. After(queue[b], queue[a])
    BY <1>3 DEF InOrder
<1> QED BY <1>2, <1>4

(* The one who waited longest leaves.                                      *)
LEMMA InOrderTail ==
    ASSUME NEW queue \in Seq(Entries), queue # <<>>, InOrder(queue)
    PROVE  InOrder(Tail(queue))
<1>1. Len(Tail(queue)) = Len(queue) - 1 /\ Len(queue) \in Nat
      /\ \A i \in 1..(Len(queue) - 1) : Tail(queue)[i] = queue[i + 1]
    BY Tailing
<1> SUFFICES ASSUME NEW i \in 1..Len(Tail(queue)), NEW j \in 1..(i - 1) PROVE After(Tail(queue)[j], Tail(queue)[i])
    BY DEF InOrder
<1>2. Tail(queue)[i] = queue[i + 1] /\ Tail(queue)[j] = queue[j + 1]
    BY <1>1
<1>3. i + 1 \in 1..Len(queue) /\ j + 1 \in 1..(i + 1 - 1)
    BY <1>1
<1>4. After(queue[j + 1], queue[i + 1])
    BY <1>3 DEF InOrder
<1> QED BY <1>2, <1>4

(* One more waits, behind all others.                                      *)
LEMMA InOrderAppend ==
    ASSUME NEW queue \in Seq(Entries), NEW w \in Entries, InOrder(queue),
           \A j \in 1..Len(queue) : After(queue[j], w)
    PROVE  InOrder(Append(queue, w))
<1> DEFINE more == Append(queue, w)
<1>1. Len(more) = Len(queue) + 1 /\ Len(queue) \in Nat /\ more[Len(queue) + 1] = w
      /\ \A i \in 1..Len(queue) : more[i] = queue[i]
    BY Appending
<1> HIDE DEF more
<1> SUFFICES ASSUME NEW i \in 1..Len(more), NEW j \in 1..(i - 1) PROVE After(more[j], more[i])
    BY DEF InOrder, more
<1>2. more[j] = queue[j] /\ j \in 1..Len(queue)
    BY <1>1
<1>3. CASE i = Len(queue) + 1
    BY <1>1, <1>2, <1>3
<1>4. CASE i # Len(queue) + 1
    <2>1. i \in 1..Len(queue) /\ more[i] = queue[i]
        BY <1>1, <1>4
    <2>2. After(queue[j], queue[i])
        BY <2>1 DEF InOrder
    <2> QED BY <1>2, <2>1, <2>2
<1> QED BY <1>3, <1>4

(* The queue for the lock after a step.                                    *)
LEMMA WaitingIs ==
    ASSUME NEW q, waiting' = q, \A j \in 1..Len(q) : EntryOK(q[j])', InOrder(q)
    PROVE  WaitingOK' /\ InOrder(waiting)'
<1>1. ASSUME NEW k \in 1..Len(waiting') PROVE EntryOK(waiting[k])'
    <2> PICK w : w = q[k]
        OBVIOUS
    <2>1. EntryOK(w)' /\ w = waiting'[k]
        OBVIOUS
    <2> QED BY <2>1 DEF EntryOK, WriteOK, MeetsPartial, IsNew, CurrentShift, Latest
<1>2. WaitingOK'
    BY <1>1 DEF WaitingOK
<1> QED BY <1>2

(* Entries that leave the queue disturb nobody.                            *)
LEMMA WaitingShrinks ==
    ASSUME TypeOK, WaitingOK, InOrder(waiting),
           \A w \in Entries : EntryOK(w) => EntryOK(w)',
           \/ waiting' = waiting
           \/ \E k \in 1..Len(waiting) : waiting' = RemoveAt(waiting, k)
           \/ waiting # <<>> /\ waiting' = Tail(waiting)
    PROVE  WaitingOK' /\ InOrder(waiting)'
<1> PICK q : q = waiting
    OBVIOUS
<1>1. q \in Seq(Entries) /\ InOrder(q) /\ Len(q) \in Nat /\ \A j \in 1..Len(q) : EntryOK(q[j]) /\ q[j] \in Entries
    BY LenProperties, ElementOfSeq DEF TypeOK, ServerTypeOK, Entries, WaitingOK
<1>2. \A j \in 1..Len(q) : EntryOK(q[j])'
    BY <1>1
<1>3. CASE waiting' = waiting
    BY <1>1, <1>2, <1>3, WaitingIs
<1>4. ASSUME NEW k \in 1..Len(waiting), waiting' = RemoveAt(waiting, k)
      PROVE  WaitingOK' /\ InOrder(waiting)'
    <2> PICK r : r = RemoveAt(q, k)
        OBVIOUS
    <2>1. InOrder(r)
        BY <1>1, InOrderRemoval
    <2>2. Len(r) = Len(q) - 1 /\ \A i \in 1..(Len(q) - 1) : r[i] = q[IF i < k THEN i ELSE i + 1]
        BY <1>1, Removal
    <2>3. \A j \in 1..Len(r) : \E i \in 1..Len(q) : r[j] = q[i]
        BY <1>1, <2>2
    <2>4. \A j \in 1..Len(r) : EntryOK(r[j])'
        BY <1>2, <2>3
    <2> QED BY <1>4, <2>1, <2>4, WaitingIs
<1>5. CASE waiting # <<>> /\ waiting' = Tail(waiting)
    <2> PICK r : r = Tail(q)
        OBVIOUS
    <2>1. InOrder(r)
        BY <1>1, <1>5, InOrderTail
    <2>2. Len(r) = Len(q) - 1 /\ \A i \in 1..(Len(q) - 1) : r[i] = q[i + 1]
        BY <1>1, <1>5, Tailing
    <2>3. \A j \in 1..Len(r) : \E i \in 1..Len(q) : r[j] = q[i]
        BY <1>1, <2>2
    <2>4. \A j \in 1..Len(r) : EntryOK(r[j])'
        BY <1>2, <2>3
    <2> QED BY <1>5, <2>1, <2>4, WaitingIs
<1> QED BY <1>3, <1>4, <1>5

(* A task queues for the lock.                                             *)
LEMMA QueueGrows ==
    ASSUME NEW q \in Seq(Entries), InOrder(q), \A j \in 1..Len(q) : EntryOK(q[j])',
           NEW e \in Entries, EntryOK(e)', \A j \in 1..Len(q) : After(q[j], e)
    PROVE  /\ Append(q, e) \in Seq(Entries) /\ InOrder(Append(q, e))
           /\ \A j \in 1..Len(Append(q, e)) : EntryOK(Append(q, e)[j])'
<1> PICK r : r = Append(q, e)
    OBVIOUS
<1>1. /\ r \in Seq(Entries)
      /\ Len(r) = Len(q) + 1 /\ Len(q) \in Nat
      /\ \A i \in 1..Len(q) : r[i] = q[i]
      /\ r[Len(q) + 1] = e
    BY Appending
<1>2. InOrder(r)
    BY InOrderAppend
<1>3. ASSUME NEW j \in 1..Len(r) PROVE EntryOK(r[j])'
    <2>1. CASE j = Len(q) + 1
        BY <1>1, <2>1
    <2>2. CASE j # Len(q) + 1
        <3>1. j \in 1..Len(q) /\ r[j] = q[j]
            BY <1>1, <2>2
        <3> QED BY <3>1
    <2> QED BY <2>1, <2>2
<1> QED BY <1>1, <1>2, <1>3

-----------------------------------------------------------------------------
(* What the invariant says of a phone and its link *)

LEMMA EntryParts ==
    ASSUME NEW w \in Entries
    PROVE  /\ w.phone \in Phones /\ w.on \in Nat
           /\ w.chunk # NONE => w.chunk \in ChunksOf(Tags) /\ TagOf(w.chunk) \in Tags
                                /\ w.chunk.message_id \in Nat /\ w.chunk.last \in BOOLEAN
BY DEF Entries, ChunksOf, TagOf

(* Connections, requests and messages, from the type invariant.            *)
LEMMA LinkTypes ==
    ASSUME TypeOK
    PROVE  /\ link \in [Phones -> Nat] /\ callbacks \in [Phones -> Nat] /\ connects \in Nat
           /\ hellos \in [Phones -> Seq(Nat)] /\ nextTransportMessageId \in [Phones -> Nat]
           /\ pendingWrites \in [Phones -> Seq(ChunksOf(Tags))]
           /\ air \in [Phones -> Seq(ChunksOf(AnswerTags))]
           /\ partialTx \in [Phones -> PartialsOf(AnswerTags) \cup {NONE}]
           /\ logged \in [Phones -> Seq(Seq(AnswerTags \X Nat))]
           /\ waiting \in Seq(Entries) /\ handled \in Seq(Seq(Tags \X Nat))
           /\ partial_rx \in PartialsOf(Tags) \cup {NONE} /\ reply \in Replies \cup {NONE}
           /\ tx_writer \in (Phones \X Nat) \cup {NONE}
           /\ reply # NONE => reply.rest # <<>> /\ tx_writer # NONE
BY DEF TypeOK, ServerTypeOK, PhonesTypeOK, Entries

(* A phone with a link is the only one.                                    *)
LEMMA Connected ==
    ASSUME OneLink, NEW p \in Phones, link[p] # 0
    PROVE  /\ link[p] = connects /\ connects \in Nat \ {0}
           /\ \A q \in Phones : q # p => link[q] = 0 /\ ~ callbacks[q] > 0
<1>1. link \in [Phones -> Nat] /\ connects \in Nat
    BY LinkTypes DEF OneLink
<1>2. link[p] = connects /\ \A q \in Phones : q # p => link[q] = 0
    BY DEF OneLink, LinksOK
<1>3. \A q \in Phones : q # p => ~ callbacks[q] > 0
    BY <1>2 DEF OneLink, PhonesOK, CallbackOK
<1> QED BY <1>1, <1>2, <1>3

(* A phone connects only when nobody has a link.                           *)
LEMMA NoLink ==
    ASSUME TypeOK, MaxLinks = 1, NEW p \in Phones, Connect(p)
    PROVE  \A q \in Phones : link[q] = 0
<1> DEFINE up == {q \in Phones : link[q] # 0}
<1>1. IsFiniteSet(up)
    BY PhonesAssumption, FS_Subset
<1>2. Cardinality(up) < 1
    BY DEF Connect
<1>3. Cardinality(up) = 0
    BY <1>1, <1>2, FS_CardinalityType
<1> QED BY <1>1, <1>3, FS_EmptySet

(* A request was made on a connection there has been.                      *)
LEMMA AskedParts ==
    ASSUME OneLink, NEW t, IsAsked(hellos, t)
    PROVE  t \in Tags /\ t[1] \in Phones /\ t[2] \in 1..connects /\ t[2] \in Nat /\ t[3] \in 1..Len(hellos[t[1]])
           /\ Len(hellos[t[1]]) \in Nat
<1>1. t \in Tags /\ t[1] \in Phones
    BY TagParts DEF IsAsked
<1>2. Len(hellos[t[1]]) \in Nat
    BY <1>1, LinkTypes, LenProperties DEF OneLink
<1> QED BY <1>1, <1>2, TagParts DEF OneLink, LinksOK, IsAsked

-----------------------------------------------------------------------------
(* Connections *)

(* A phone connects; its predecessors' chunks still wait.                  *)
LEMMA ConnectKeeps ==
    ASSUME OneLink, MaxLinks = 1, NEW p \in Phones, Connect(p)
    PROVE  OneLink'
<1>1. TypeOK'
    BY ConnectType DEF OneLink
<1>2. /\ connects' = connects + 1 /\ link' = [link EXCEPT ![p] = connects + 1] /\ connects \in Nat
      /\ \A q \in Phones : link[q] = 0 /\ (q # p => link'[q] = 0) /\ ~ callbacks[q] > 0
      /\ link'[p] = connects + 1
    <2>1. \A q \in Phones : link[q] = 0
        BY NoLink DEF OneLink
    <2>2. \A q \in Phones : ~ callbacks[q] > 0
        BY <2>1 DEF OneLink, PhonesOK, CallbackOK
    <2> QED BY <2>1, <2>2, LinkTypes DEF OneLink, Connect
<1>3. /\ tx_writer' = tx_writer /\ partial_rx' = partial_rx /\ waiting' = waiting /\ reply' = reply
      /\ callbacks' = callbacks /\ air' = air /\ pendingWrites' = pendingWrites /\ partialTx' = partialTx
      /\ nextTransportMessageId' = nextTransportMessageId /\ hellos' = hellos
      /\ handled' = handled /\ logged' = logged
    BY DEF Connect, server
<1>4. LinksOK'
    BY <1>2, <1>3 DEF OneLink, LinksOK
<1>5. ASSUME NEW w \in Entries, EntryOK(w) PROVE EntryOK(w)'
    <2>1. w.on \in 1..connects /\ \A q \in Phones : link'[q] # w.on
        BY <1>2, <1>5 DEF EntryOK
    <2>2. ASSUME w.chunk # NONE PROVE WriteOK(w)'
        <3>1. WriteOK(w) /\ w.phone \in Phones
            BY <1>5, <2>2, EntryParts DEF EntryOK
        <3>2. MeetsPartial(w)' /\ IsNew(w)'
            BY <1>3, <3>1 DEF WriteOK, MeetsPartial, IsNew, Latest
        <3> QED BY <1>2, <1>3, <2>1, <3>1, <3>2 DEF WriteOK
    <2> QED BY <1>2, <1>3, <1>5, <2>1, <2>2 DEF EntryOK
<1>6. WaitingOK' /\ InOrder(waiting)'
    BY <1>3, <1>5, WaitingShrinks DEF OneLink
<1>7. PartialOK'
    <2> SUFFICES ASSUME partial_rx # NONE PROVE PartialOK'
        BY <1>3 DEF PartialOK
    <2>1. IsBegun(partial_rx) /\ IsAsked(hellos, TagIn(partial_rx))
        BY DEF OneLink, PartialOK
    <2>2. TagIn(partial_rx)[2] \in 1..connects
        BY <2>1, AskedParts
    <2>3. \A q \in Phones : link'[q] # TagIn(partial_rx)[2]
        BY <1>2, <2>2
    <2> QED BY <1>3, <2>1, <2>3 DEF PartialOK
<1>8. PhonesOK'
    BY <1>2, <1>3 DEF OneLink, PhonesOK, PendingOK, CallbackOK, Latest
<1>9. MessagesOK'
    BY <1>3 DEF OneLink, MessagesOK
<1>10. ReplyOK'
    <2> SUFFICES ASSUME reply # NONE PROVE ReplyOK'
        BY <1>3 DEF ReplyOK
    <2>1. tx_writer \in Phones \X Nat /\ tx_writer[2] \in 1..connects
        BY LinkTypes DEF OneLink, LinksOK
    <2>2. ~ Live'
        BY <1>2, <1>3, <2>1 DEF Live
    <2>3. PICK t \in Tags : ReplyFor(t)
        BY DEF OneLink, ReplyOK
    <2>4. ReplyFor(t)'
        BY <1>3, <2>2, <2>3 DEF ReplyFor
    <2> QED BY <1>2, <1>3, <2>4 DEF OneLink, ReplyOK
<1>11. AirsOK'
    BY <1>3 DEF OneLink, AirsOK, AirOK, FragmentOK
<1> QED BY <1>1, <1>4, <1>6, <1>7, <1>8, <1>9, <1>10, <1>11 DEF OneLink

(* After the end of the link nobody has one; the app keeps what it has or  *)
(* forgets all of it.                                                      *)
LEMMA LinkEndsKeeps ==
    ASSUME OneLink, TypeOK', NEW p \in Phones, LinkEnds(p),
           UNCHANGED <<tx_writer, partial_rx, reply, connects, hellos, handled, logged>>,
           \A q \in Phones : \/ /\ pendingWrites'[q] = pendingWrites[q] /\ partialTx'[q] = partialTx[q]
                                /\ nextTransportMessageId'[q] = nextTransportMessageId[q]
                             \/ pendingWrites'[q] = <<>> /\ partialTx'[q] = NONE
    PROVE  OneLink'
<1>1. /\ connects' = connects /\ tx_writer' = tx_writer /\ partial_rx' = partial_rx /\ reply' = reply
      /\ hellos' = hellos /\ handled' = handled /\ logged' = logged
    OBVIOUS
<1>2. /\ connects \in Nat \ {0}
      /\ \A q \in Phones : link'[q] = 0 /\ ~ callbacks'[q] > 0
      /\ \A q \in Phones : air'[q] = IF q = p THEN <<>> ELSE air[q]
    <2>1. link[p] # 0
        BY DEF LinkEnds
    <2>2. /\ connects \in Nat \ {0} /\ \A q \in Phones : q # p => link[q] = 0 /\ ~ callbacks[q] > 0
        BY <2>1, Connected
    <2>3. /\ link' = [link EXCEPT ![p] = 0] /\ callbacks' = [callbacks EXCEPT ![p] = 0]
          /\ air' = [air EXCEPT ![p] = <<>>]
        BY DEF LinkEnds
    <2> QED BY <2>2, <2>3, LinkTypes DEF OneLink
<1>3. LinksOK'
    BY <1>1, <1>2 DEF OneLink, LinksOK
<1>4. ASSUME NEW w \in Entries, EntryOK(w) PROVE EntryOK(w)'
    <2>1. w.on \in 1..connects /\ \A q \in Phones : link'[q] # w.on
        BY <1>2, <1>4 DEF EntryOK
    <2>2. ASSUME w.chunk # NONE PROVE WriteOK(w)'
        <3>1. WriteOK(w) /\ w.phone \in Phones
            BY <1>4, <2>2, EntryParts DEF EntryOK
        <3>2. MeetsPartial(w)'
            BY <1>1, <3>1 DEF WriteOK, MeetsPartial
        <3>3. IsNew(w)'
            BY <1>1, <3>1 DEF WriteOK, IsNew, Latest
        <3> QED BY <1>1, <1>2, <2>1, <3>1, <3>2, <3>3 DEF WriteOK
    <2> QED BY <1>1, <1>2, <1>4, <2>1, <2>2 DEF EntryOK
<1>5. WaitingOK' /\ InOrder(waiting)'
    <2>1. \/ waiting' = waiting
          \/ \E k \in 1..Len(waiting) : waiting' = RemoveAt(waiting, k)
        BY LinkTypes, LenProperties DEF LinkEnds, OneLink
    <2> QED BY <1>4, <2>1, WaitingShrinks DEF OneLink
<1>6. PartialOK'
    <2> SUFFICES ASSUME partial_rx # NONE PROVE PartialOK'
        BY <1>1 DEF PartialOK
    <2>1. IsBegun(partial_rx) /\ IsAsked(hellos, TagIn(partial_rx))
        BY DEF OneLink, PartialOK
    <2>2. TagIn(partial_rx)[2] \in 1..connects
        BY <2>1, AskedParts
    <2>3. \A q \in Phones : link'[q] # TagIn(partial_rx)[2]
        BY <1>2, <2>2
    <2> QED BY <1>1, <2>1, <2>3 DEF PartialOK
<1>7. PhonesOK'
    <2>1. ASSUME NEW q \in Phones PROVE PendingOK(q)'
        <3>1. PendingOK(q)
            BY DEF OneLink, PhonesOK
        <3> QED BY <1>1, <3>1 DEF PendingOK, Latest
    <2> QED BY <1>2, <2>1 DEF PhonesOK, CallbackOK
<1>8. MessagesOK'
    BY <1>1 DEF OneLink, MessagesOK
<1>9. ReplyOK'
    <2> SUFFICES ASSUME reply # NONE PROVE ReplyOK'
        BY <1>1 DEF ReplyOK
    <2>1. tx_writer \in Phones \X Nat /\ tx_writer[2] \in 1..connects
        BY LinkTypes DEF OneLink, LinksOK
    <2>2. ~ Live'
        BY <1>1, <1>2, <2>1 DEF Live
    <2>3. PICK t \in Tags : ReplyFor(t)
        BY DEF OneLink, ReplyOK
    <2>4. \A q \in Phones : \A k \in 1..Len(air'[q]) : air'[q][k].last => TagOf(air'[q][k]) # To(t)
        <3> SUFFICES ASSUME NEW q \in Phones, NEW k \in 1..Len(air'[q])
                     PROVE  air'[q][k].last => TagOf(air'[q][k]) # To(t)
            OBVIOUS
        <3>1. q # p /\ air'[q] = air[q]
            BY <1>2
        <3> QED BY <2>3, <3>1 DEF ReplyFor
    <2>5. ReplyFor(t)'
        BY <1>1, <2>2, <2>3, <2>4 DEF ReplyFor
    <2> QED BY <1>1, <2>5 DEF OneLink, ReplyOK
<1>10. AirsOK'
    <2> SUFFICES ASSUME NEW q \in Phones PROVE AirOK(q)'
        BY DEF AirsOK
    <2>1. AirOK(q)
        BY DEF OneLink, AirsOK
    <2>2. CASE q = p
        BY <1>1, <1>2, <2>1, <2>2 DEF AirOK
    <2>3. CASE q # p
        <3>1. air'[q] = air[q]
            BY <1>2, <2>3
        <3> QED BY <1>1, <2>1, <3>1 DEF AirOK, FragmentOK
    <2> QED BY <2>2, <2>3
<1> QED BY <1>3, <1>5, <1>6, <1>7, <1>8, <1>9, <1>10 DEF OneLink

(* The link breaks: writes and notifications under way may be lost.        *)
LEMMA DisconnectKeeps == ASSUME OneLink, NEW p \in Phones, Disconnect(p) PROVE OneLink'
<1>1. TypeOK'
    BY DisconnectType DEF OneLink
<1> QED BY <1>1, LinkEndsKeeps DEF Disconnect

(* The app restarts: its message ids begin with 1 again.                   *)
LEMMA AppRestartKeeps == ASSUME OneLink, NEW p \in Phones, AppRestart(p) PROVE OneLink'
<1>1. TypeOK'
    BY AppRestartType DEF OneLink
<1>2. LinkEnds(p) /\ UNCHANGED <<tx_writer, partial_rx, reply, connects, hellos, handled, logged>>
    BY DEF AppRestart
<1>3. ASSUME NEW q \in Phones
      PROVE  \/ /\ pendingWrites'[q] = pendingWrites[q] /\ partialTx'[q] = partialTx[q]
                /\ nextTransportMessageId'[q] = nextTransportMessageId[q]
             \/ pendingWrites'[q] = <<>> /\ partialTx'[q] = NONE
    BY LinkTypes DEF OneLink, AppRestart
<1> QED BY <1>1, <1>2, <1>3, LinkEndsKeeps

-----------------------------------------------------------------------------
(* Writes *)

(* A chunk that arrives now comes after all that wait.                     *)
LEMMA NewWrite ==
    ASSUME OneLink, NEW p \in Phones, link[p] # 0,
           NEW w \in Entries, w.phone = p, w.on = link[p], w.chunk # NONE,
           Shift(w.chunk.message_id, TagOf(w.chunk)) = CurrentShift(p),
           NEW v \in Entries, EntryOK(v),
           w.chunk.chunk_index > 0 => callbacks[p] > 0,
           v.chunk # NONE /\ v.chunk.last /\ v.phone = p => TagOf(v.chunk) # TagOf(w.chunk),
           TagOf(w.chunk)[1] = p
    PROVE  After(v, w)
<1>1. link[p] = connects /\ connects \in Nat
    BY Connected
<1>2. v.on \in 1..connects /\ (v.on = link[p] => v.phone = p)
    BY DEF EntryOK
<1>3. ASSUME v.chunk # NONE
      PROVE  /\ v.on = w.on => v.phone = w.phone
                               /\ Shift(v.chunk.message_id, TagOf(v.chunk)) = Shift(w.chunk.message_id, TagOf(w.chunk))
             /\ w.chunk.chunk_index > 0 => v.on = w.on
             /\ v.chunk.last /\ w.chunk.last => TagOf(v.chunk) # TagOf(w.chunk)
    <2>1. WriteOK(v)
        BY <1>3 DEF EntryOK
    <2>2. v.on = w.on => v.phone = w.phone
                         /\ Shift(v.chunk.message_id, TagOf(v.chunk)) = Shift(w.chunk.message_id, TagOf(w.chunk))
        BY <1>2, <2>1 DEF WriteOK
    <2>3. w.chunk.chunk_index > 0 => v.on = w.on
        BY <2>1 DEF WriteOK
    <2>4. v.chunk.last /\ w.chunk.last => TagOf(v.chunk) # TagOf(w.chunk)
        BY <1>3, <2>1 DEF WriteOK
    <2> QED BY <2>2, <2>3, <2>4
<1> QED BY <1>1, <1>2, <1>3 DEF After

(* What a partial message of the server has to do with a chunk of this     *)
(* connection.                                                             *)
LEMMA PartialOfLink ==
    ASSUME OneLink, NEW p \in Phones, link[p] # 0, partial_rx # NONE, TagIn(partial_rx)[2] = link[p]
    PROVE  TagIn(partial_rx)[1] = p
           /\ Shift(partial_rx.message_id, TagIn(partial_rx)) = CurrentShift(p)
BY DEF OneLink, PartialOK

(* The chunks of a message are pieces of it.                               *)
LEMMA ChunkIsPiece ==
    ASSUME NEW id, NEW what, NEW bytes, NEW i \in 1..ChunkCount(bytes)
    PROVE  /\ IsPiece(Chunk(id, what, bytes, i), what, bytes, i)
           /\ IsPart(Chunk(id, what, bytes, i), bytes)
           /\ TagOf(Chunk(id, what, bytes, i)) = what
           /\ Chunk(id, what, bytes, i).message_id = id
BY DEF Chunk, IsPiece, IsPart, TagOf

(* A piece of a message is a part of it.                                   *)
LEMMA PieceParts ==
    ASSUME NEW c, NEW what, NEW bytes, NEW i, IsPiece(c, what, bytes, i)
    PROVE  /\ c.fragment = <<what, i>> /\ c.chunk_index = i - 1
           /\ (c.last => i = ChunkCount(bytes))
BY DEF IsPiece

(* A phone has subscribed and writes the first chunk of its request.       *)
LEMMA OnDescriptorWriteKeeps == ASSUME OneLink, NEW p \in Phones, OnDescriptorWrite(p) PROVE OneLink'
<1> DEFINE tag == <<p, link[p], Len(hellos[p]) + 1>>
<1> DEFINE id == nextTransportMessageId[p]
<1> DEFINE chunks == Chunks(id, tag, HELLO_BYTES)
<1> DEFINE NC == ChunkCount(HELLO_BYTES)
<1>1. /\ connects' = connects /\ tx_writer' = tx_writer /\ partial_rx' = partial_rx /\ reply' = reply
      /\ link' = link /\ callbacks' = callbacks /\ air' = air /\ partialTx' = partialTx
      /\ handled' = handled /\ logged' = logged
      /\ hellos' = [hellos EXCEPT ![p] = Append(@, link[p])]
      /\ nextTransportMessageId' = [nextTransportMessageId EXCEPT ![p] = @ + 1]
    BY DEF OnDescriptorWrite
<1>2. link[p] # 0 /\ link[p] = connects /\ connects \in Nat \ {0} /\ id \in Nat
      /\ hellos[p] \in Seq(Nat) /\ Len(hellos[p]) \in Nat
    BY Connected, LinkTypes, LenProperties DEF OnDescriptorWrite, OneLink
<1>3. /\ chunks \in Seq(ChunksOf(Tags)) /\ tag \in Tags /\ chunks # <<>> /\ Len(chunks) = NC
      /\ \A i \in 1..NC : chunks[i] = Chunk(id, tag, HELLO_BYTES, i)
      /\ NC \in Nat \ {0}
    <2>1. tag \in Tags /\ HELLO_BYTES \in 1..MAX_MESSAGE
        BY HelloChunksType, Lengths DEF OneLink
    <2>0. id \in Nat
        BY <1>2
    <2> HIDE DEF tag, id
    <2>2. /\ chunks \in Seq(ChunksOf(Tags)) /\ chunks # <<>> /\ Len(chunks) = NC
          /\ \A i \in 1..NC : chunks[i] = Chunk(id, tag, HELLO_BYTES, i)
        BY <2>0, <2>1, ChunksType
    <2>3. NC \in Nat \ {0}
        BY <2>1, ChunkCounts
    <2> QED BY <2>1, <2>2, <2>3
<1>4. /\ Tail(chunks) \in Seq(ChunksOf(Tags)) /\ Len(Tail(chunks)) = NC - 1 /\ Head(chunks) \in ChunksOf(Tags)
      /\ Head(chunks) = Chunk(id, tag, HELLO_BYTES, 1)
      /\ \A k \in 1..(NC - 1) : Tail(chunks)[k] = Chunk(id, tag, HELLO_BYTES, k + 1)
    <2>1. \A k \in 1..(NC - 1) : k + 1 \in 1..NC
        BY <1>3
    <2>2. 1 \in 1..NC
        BY <1>3
    <2> QED BY <1>3, <2>1, <2>2, Tailing
<1>5. tag[1] = p /\ tag[2] = link[p] /\ tag[3] = Len(hellos[p]) + 1
    OBVIOUS
<1>6. WriteNextChunk(p, chunks, IF p \in subscribed THEN waiting
                                ELSE Append(waiting, [phone |-> p, on |-> link[p], chunk |-> NONE]))
    BY DEF OnDescriptorWrite
<1> HIDE DEF tag, chunks, id, NC
<1>7. pendingWrites' = [pendingWrites EXCEPT ![p] = Tail(chunks)]
    BY <1>3, <1>6 DEF WriteNextChunk
<1>8. /\ Len(hellos'[p]) = Len(hellos[p]) + 1 /\ hellos'[p][Len(hellos[p]) + 1] = link[p] /\ hellos'[p] # <<>>
      /\ \A n \in 1..Len(hellos[p]) : hellos'[p][n] = hellos[p][n]
      /\ \A q \in Phones : q # p => hellos'[q] = hellos[q]
    <2> DEFINE more == Append(hellos[p], link[p])
    <2>1. /\ Len(more) = Len(hellos[p]) + 1 /\ more[Len(hellos[p]) + 1] = link[p] /\ more # <<>>
          /\ \A n \in 1..Len(hellos[p]) : more[n] = hellos[p][n]
        BY <1>2, Appending, AppendProperties
    <2>2. hellos' = [hellos EXCEPT ![p] = more] /\ hellos \in [Phones -> Seq(Nat)]
        BY <1>1, LinkTypes DEF OneLink
    <2> HIDE DEF more
    <2> QED BY <2>1, <2>2
<1>9. Latest(p)' = tag /\ \A q \in Phones : q # p => Latest(q)' = Latest(q)
    BY <1>1, <1>8 DEF Latest, tag
<1>10. \A q \in Phones : CurrentShift(q)' = CurrentShift(q)
    <2> SUFFICES ASSUME NEW q \in Phones PROVE CurrentShift(q)' = CurrentShift(q)
        OBVIOUS
    <2>1. CASE q = p
        <3>1. nextTransportMessageId'[p] = id + 1
            BY <1>1, LinkTypes DEF OneLink, id
        <3> QED BY <1>2, <1>8, <2>1, <3>1 DEF CurrentShift, id
    <2>2. CASE q # p
        BY <1>1, <1>8, <2>2, LinkTypes DEF CurrentShift, OneLink
    <2> QED BY <2>1, <2>2
<1>11. ASSUME NEW t, IsAsked(hellos, t) PROVE IsAsked(hellos', t) /\ t # tag
    <2>1. IsAsked(hellos', t)
        BY <1>1, <1>2, <1>11, AskedAfter, LinkTypes DEF OneLink
    <2>2. t # tag
        BY <1>2, <1>5, <1>11 DEF IsAsked
    <2> QED BY <2>1, <2>2
<1>12. IsAsked(hellos', tag)
    BY <1>2, <1>3, <1>5, <1>8 DEF IsAsked
<1>13. ~ Has(handled, tag, HELLO_BYTES)
    BY <1>3, <1>11 DEF OneLink, MessagesOK
<1>14. TypeOK'
    BY OnDescriptorWriteType DEF OneLink
<1>15. LinksOK'
    <2>1. ASSUME NEW q \in Phones, NEW n \in 1..Len(hellos'[q])
          PROVE  hellos'[q][n] \in 1..connects /\ \A m \in 1..n : hellos'[q][m] <= hellos'[q][n]
        <3>1. CASE q # p
            BY <1>8, <3>1 DEF OneLink, LinksOK
        <3>2. CASE q = p /\ n \in 1..Len(hellos[p])
            <4>1. \A m \in 1..n : m \in 1..Len(hellos[p])
                BY <1>2, <3>2
            <4> QED BY <1>8, <3>2, <4>1 DEF OneLink, LinksOK
        <3>3. CASE q = p /\ n = Len(hellos[p]) + 1
            <4>1. hellos'[p][n] = connects
                BY <1>2, <1>8, <3>3
            <4>2. \A m \in 1..n : hellos'[p][m] \in 1..connects
                <5> TAKE m \in 1..n
                <5>1. m \in 1..Len(hellos[p]) \/ m = n
                    BY <1>2, <3>3
                <5>2. CASE m \in 1..Len(hellos[p])
                    BY <1>8, <5>2 DEF OneLink, LinksOK
                <5>3. CASE m = n
                    BY <1>2, <4>1, <5>3
                <5> QED BY <5>1, <5>2, <5>3
            <4> QED BY <1>2, <3>3, <4>1, <4>2
        <3> QED BY <1>2, <1>8, <3>1, <3>2, <3>3
    <2> QED BY <1>1, <2>1 DEF OneLink, LinksOK
<1>16. ASSUME NEW w \in Entries, EntryOK(w) PROVE EntryOK(w)'
    <2>1. ASSUME w.chunk # NONE PROVE WriteOK(w)'
        <3>1. WriteOK(w) /\ w.phone \in Phones
            BY <1>16, <2>1, EntryParts DEF EntryOK
        <3>2. MeetsPartial(w)'
            BY <1>1, <3>1 DEF WriteOK, MeetsPartial
        <3>3. IsAsked(hellos', TagOf(w.chunk)) /\ TagOf(w.chunk) # tag
            BY <1>11, <3>1 DEF WriteOK
        <3>4. IsNew(w)'
            <4>1. CASE w.phone = p
                BY <1>1, <1>9, <3>1, <3>3, <4>1 DEF WriteOK, IsNew
            <4>2. CASE w.phone # p
                <5>1. pendingWrites'[w.phone] = pendingWrites[w.phone]
                    BY <1>7, <3>1, <4>2, LinkTypes DEF OneLink
                <5> QED BY <1>1, <1>9, <3>1, <4>2, <5>1 DEF WriteOK, IsNew
            <4> QED BY <4>1, <4>2
        <3> QED BY <1>1, <1>10, <3>1, <3>2, <3>3, <3>4 DEF WriteOK
    <2> QED BY <1>1, <1>16, <2>1 DEF EntryOK
<1>17. PartialOK'
    BY <1>1, <1>10, <1>11 DEF OneLink, PartialOK
<1>18. PhonesOK'
    <2> SUFFICES ASSUME NEW q \in Phones PROVE PendingOK(q)' /\ CallbackOK(q)'
        BY DEF PhonesOK
    <2>1. PendingOK(q) /\ CallbackOK(q)
        BY DEF OneLink, PhonesOK
    <2>2. CASE q # p
        <3>1. pendingWrites'[q] = pendingWrites[q] /\ nextTransportMessageId'[q] = nextTransportMessageId[q]
            BY <1>1, <1>7, <2>2, LinkTypes DEF OneLink
        <3> QED BY <1>1, <1>8, <1>9, <2>1, <2>2, <3>1 DEF PendingOK, CallbackOK
    <2>3. CASE q = p
        <3>1. pendingWrites'[p] = Tail(chunks) /\ nextTransportMessageId'[p] - 1 = id
            BY <1>1, <1>2, <1>7, LinkTypes DEF OneLink, id
        <3>2. ASSUME NEW k \in 1..Len(Tail(chunks))
              PROVE  /\ IsPiece(Tail(chunks)[k], tag, HELLO_BYTES, NC - Len(Tail(chunks)) + k)
                     /\ Tail(chunks)[k].message_id = id
            <4>1. NC - Len(Tail(chunks)) + k = k + 1 /\ k + 1 \in 1..NC /\ k \in 1..(NC - 1)
                BY <1>3, <1>4
            <4>2. k + 1 \in 1..ChunkCount(HELLO_BYTES)
                BY <4>1 DEF NC
            <4> QED BY <1>4, <4>1, <4>2, ChunkIsPiece
        <3>3. Len(Tail(chunks)) < NC
            BY <1>3, <1>4
        <3>4. PendingOK(p)'
            BY <1>1, <1>8, <1>9, <1>13, <3>1, <3>2, <3>3 DEF PendingOK, NC
        <3>5. CallbackOK(p)'
            BY <1>1, <1>5, <1>8, <1>9, <2>1, <2>3 DEF CallbackOK
        <3> QED BY <2>3, <3>4, <3>5
    <2> QED BY <2>2, <2>3
<1>19. MessagesOK'
    BY <1>1, <1>11 DEF OneLink, MessagesOK
<1>20. ReplyOK'
    <2> SUFFICES ASSUME reply # NONE PROVE ReplyOK'
        BY <1>1 DEF ReplyOK
    <2>1. PICK t \in Tags : ReplyFor(t)
        BY DEF OneLink, ReplyOK
    <2>2. ReplyFor(t)'
        BY <1>1, <1>11, <2>1 DEF ReplyFor, Live, Follows
    <2>3. PICK n \in 1..Len(hellos[reply.phone]) : hellos[reply.phone][n] = reply.on
        BY DEF OneLink, ReplyOK
    <2>4. n \in 1..Len(hellos'[reply.phone]) /\ hellos'[reply.phone][n] = reply.on
        <3>1. reply.phone \in Phones
            BY LinkTypes DEF OneLink, Replies
        <3> QED BY <1>2, <1>8, <2>3, <3>1
    <2> QED BY <1>1, <2>2, <2>4 DEF OneLink, ReplyOK
<1>21. AirsOK'
    <2> SUFFICES ASSUME NEW q \in Phones PROVE AirOK(q)'
        BY DEF AirsOK
    <2>1. AirOK(q)
        BY DEF OneLink, AirsOK
    <2>2. ASSUME NEW c, FragmentOK(q, c) PROVE FragmentOK(q, c)'
        BY <1>1, <1>11, <2>2 DEF FragmentOK
    <2>3. \A k \in 1..Len(air[q]) : FragmentOK(q, air[q][k])'
        <3> SUFFICES ASSUME NEW k \in 1..Len(air'[q]) PROVE FragmentOK(q, air[q][k])'
            BY <1>1
        <3> PICK c : c = air[q][k]
            OBVIOUS
        <3>1. FragmentOK(q, c)
            BY <1>1, <2>1 DEF AirOK
        <3>2. FragmentOK(q, c)'
            BY <2>2, <3>1
        <3> QED BY <1>1, <3>2 DEF FragmentOK
    <2> QED BY <1>1, <2>1, <2>3 DEF AirOK
<1>22. WaitingOK' /\ InOrder(waiting)'
    <2> PICK q0 : q0 = waiting
        OBVIOUS
    <2> DEFINE sub == [phone |-> p, on |-> link[p], chunk |-> NONE]
    <2> PICK q1 : q1 = IF p \in subscribed THEN q0 ELSE Append(q0, sub)
        OBVIOUS
    <2> DEFINE w == [phone |-> p, on |-> link[p], chunk |-> Head(chunks)]
    <2>1. /\ q0 \in Seq(Entries) /\ InOrder(q0) /\ Len(q0) \in Nat
          /\ \A j \in 1..Len(q0) : EntryOK(q0[j]) /\ q0[j] \in Entries
        BY LinkTypes, LenProperties, ElementOfSeq DEF OneLink, WaitingOK
    <2>2. \A j \in 1..Len(q0) : EntryOK(q0[j])'
        BY <1>16, <2>1
    <2>3. \A v \in Entries : EntryOK(v) => v.on <= link[p]
        BY <1>2 DEF EntryOK
    <2>4. \A q \in Phones : link'[q] = link[p] => q = p
        BY <1>1, <1>2, Connected
    <2>5. tx_writer # NONE => tx_writer[2] <= link[p]
        BY <1>2 DEF OneLink, LinksOK
    <2>6. sub \in Entries /\ w \in Entries
        BY <1>2, <1>4 DEF Entries
    <2>7. q1 \in Seq(Entries) /\ InOrder(q1) /\ \A j \in 1..Len(q1) : EntryOK(q1[j])'
        <3>1. CASE p \in subscribed
            BY <2>1, <2>2, <3>1
        <3>2. CASE p \notin subscribed
            <4>1. sub.on = link[p] /\ sub.chunk = NONE /\ sub.phone = p
                OBVIOUS
            <4> HIDE DEF sub
            <4>2. PICK e : e = sub
                OBVIOUS
            <4>3. EntryOK(e)'
                BY <1>1, <1>2, <2>4, <2>5, <4>1, <4>2 DEF EntryOK
            <4>4. \A j \in 1..Len(q0) : After(q0[j], e)
                BY <2>1, <2>3, <4>1, <4>2 DEF After
            <4> QED BY <2>1, <2>2, <2>6, <3>2, <4>2, <4>3, <4>4, QueueGrows
        <3> QED BY <3>1, <3>2
    <2>8. \/ waiting' = q1
          \/ waiting' = Append(q1, w)
        BY <1>3, <1>6 DEF WriteNextChunk
    <2>9. CASE waiting' = q1
        BY <2>7, <2>9, WaitingIs
    <2>10. CASE waiting' = Append(q1, w)
        <3>1. /\ w.on = link[p] /\ w.phone = p /\ w.chunk = Chunk(id, tag, HELLO_BYTES, 1)
            BY <1>4
        <3>2. 1 \in 1..ChunkCount(HELLO_BYTES)
            BY <1>3 DEF NC
        <3>3. /\ IsPiece(w.chunk, tag, HELLO_BYTES, 1) /\ IsPart(w.chunk, HELLO_BYTES)
              /\ TagOf(w.chunk) = tag /\ w.chunk.message_id = id
            BY <3>1, <3>2, ChunkIsPiece
        <3>4. w.chunk # NONE
            BY <1>4, <3>1, NoneAssumption
        <3> HIDE DEF w
        <3>5. PICK e : e = w
            OBVIOUS
        <3>6. Shift(id, tag) = CurrentShift(p)
            BY <1>2, <1>5, LinkTypes DEF Shift, CurrentShift, OneLink, id
        <3>7. e.chunk.chunk_index = 0
            BY <3>3, <3>5 DEF IsPiece
        <3>8. MeetsPartial(e)'
            BY <1>1, <1>2, <1>5, <3>1, <3>3, <3>5, <3>6, <3>7, PartialOfLink DEF MeetsPartial
        <3>9. IsNew(e)'
            <4> SUFFICES ASSUME e.chunk.last PROVE pendingWrites'[p] = <<>>
                BY <1>1, <1>13, <3>1, <3>3, <3>5 DEF IsNew
            <4>1. NC = 1
                BY <3>3, <3>5 DEF IsPiece, NC
            <4>2. Len(Tail(chunks)) = 0
                BY <1>4, <4>1
            <4>3. Tail(chunks) = <<>>
                BY <1>4, <4>2, EmptySeq
            <4> QED BY <1>7, <4>3, LinkTypes DEF OneLink
        <3>10. reply # NONE => reply.on <= link[p]
            BY <1>2 DEF OneLink, ReplyOK
        <3>11. \A q \in Phones : callbacks[q] > 0 => link[p] = link[q]
            BY <1>2, Connected
        <3>12. WriteOK(e)'
            BY <1>1, <1>5, <1>10, <1>12, <3>1, <3>3, <3>5, <3>6, <3>8, <3>9, <3>10, <3>11 DEF WriteOK
        <3>13. EntryOK(e)'
            BY <1>1, <1>2, <2>4, <2>5, <3>1, <3>5, <3>12 DEF EntryOK
        <3>14. ASSUME NEW v \in Entries, EntryOK(v) PROVE After(v, e)
            <4>1. v.chunk # NONE => TagOf(v.chunk) # TagOf(e.chunk)
                BY <1>11, <3>3, <3>5, <3>14 DEF EntryOK, WriteOK
            <4>2. ~ e.chunk.chunk_index > 0
                BY <3>7
            <4> QED BY <1>2, <1>5, <2>6, <3>1, <3>3, <3>4, <3>5, <3>6, <3>14, <4>1, <4>2, NewWrite
        <3>15. \A j \in 1..Len(q1) : After(q1[j], e)
            <4>1. \A j \in 1..Len(q0) : After(q0[j], e)
                BY <2>1, <3>14
            <4>2. CASE p \in subscribed
                BY <4>1, <4>2
            <4>3. CASE p \notin subscribed
                <5>1. /\ Len(q1) = Len(q0) + 1 /\ q1[Len(q0) + 1] = sub /\ Len(q0) \in Nat
                      /\ \A j \in 1..Len(q0) : q1[j] = q0[j]
                    BY <2>1, <2>6, <4>3, Appending
                <5>2. After(sub, e)
                    BY <1>2, <3>1, <3>5 DEF After
                <5>3. \A j \in 1..Len(q1) : j \in 1..Len(q0) \/ j = Len(q0) + 1
                    BY <5>1
                <5> QED BY <4>1, <5>1, <5>2, <5>3
            <4> QED BY <4>2, <4>3
        <3>16. PICK r : r = Append(q1, e)
            OBVIOUS
        <3>17. InOrder(r) /\ \A j \in 1..Len(r) : EntryOK(r[j])'
            BY <2>6, <2>7, <3>5, <3>13, <3>15, <3>16, QueueGrows
        <3> QED BY <2>10, <3>5, <3>16, <3>17, WaitingIs
    <2> QED BY <2>8, <2>9, <2>10
<1> QED BY <1>14, <1>15, <1>17, <1>18, <1>19, <1>20, <1>21, <1>22 DEF OneLink

(* A write was confirmed; the phone writes the next chunk.                 *)
LEMMA OnCharacteristicWriteKeeps == ASSUME OneLink, NEW p \in Phones, OnCharacteristicWrite(p) PROVE OneLink'
<1> DEFINE chunks == pendingWrites[p]
<1> DEFINE NC == ChunkCount(HELLO_BYTES)
<1> DEFINE next == IF chunks = <<>> THEN <<>> ELSE Tail(chunks)
<1>1. /\ connects' = connects /\ tx_writer' = tx_writer /\ partial_rx' = partial_rx /\ reply' = reply
      /\ link' = link /\ air' = air /\ partialTx' = partialTx
      /\ handled' = handled /\ logged' = logged /\ hellos' = hellos
      /\ nextTransportMessageId' = nextTransportMessageId
      /\ callbacks' = [callbacks EXCEPT ![p] = @ - 1] /\ callbacks[p] > 0
    BY DEF OnCharacteristicWrite
<1>2. /\ link[p] # 0 /\ hellos[p] # <<>> /\ Latest(p)[2] = link[p]
      /\ partial_rx # NONE => TagIn(partial_rx)[2] = link[p]
    BY <1>1 DEF OneLink, PhonesOK, CallbackOK
<1>3. link[p] = connects /\ connects \in Nat \ {0} /\ hellos[p] \in Seq(Nat) /\ Len(hellos[p]) \in Nat \ {0}
    BY <1>2, Connected, LinkTypes, EmptySeq DEF OneLink
<1>4. chunks \in Seq(ChunksOf(Tags)) /\ NC \in Nat \ {0}
    BY LinkTypes, ChunkCounts, Lengths DEF OneLink
<1>5. WriteNextChunk(p, chunks, waiting)
    BY DEF OnCharacteristicWrite
<1>6. pendingWrites' = [pendingWrites EXCEPT ![p] = next]
    BY <1>5 DEF WriteNextChunk
<1>7. pendingWrites'[p] = next /\ \A q \in Phones : q # p => pendingWrites'[q] = pendingWrites[q]
    BY <1>6, LinkTypes DEF OneLink
<1>8. \A q \in Phones : callbacks'[q] > 0 => callbacks[q] > 0
    BY <1>1, LinkTypes DEF OneLink
<1>9. \A q \in Phones : Latest(q)' = Latest(q) /\ CurrentShift(q)' = CurrentShift(q)
    BY <1>1 DEF Latest, CurrentShift
<1>10. PendingOK(p)
    BY DEF OneLink, PhonesOK
<1>11. TypeOK'
    BY OnCharacteristicWriteType DEF OneLink
<1>12. LinksOK' /\ PartialOK' /\ MessagesOK' /\ ReplyOK' /\ AirsOK'
    <2>1. LinksOK'
        BY <1>1 DEF OneLink, LinksOK
    <2>2. PartialOK'
        BY <1>1, <1>9 DEF OneLink, PartialOK
    <2>3. MessagesOK'
        BY <1>1 DEF OneLink, MessagesOK
    <2>4. ReplyOK'
        BY <1>1 DEF OneLink, ReplyOK, ReplyFor, Live, Follows
    <2>5. AirsOK'
        BY <1>1 DEF OneLink, AirsOK, AirOK, FragmentOK
    <2> QED BY <2>1, <2>2, <2>3, <2>4, <2>5
<1> HIDE DEF chunks, NC, next
<1>14. ASSUME NEW w \in Entries, EntryOK(w) PROVE EntryOK(w)'
    <2>1. ASSUME w.chunk # NONE PROVE WriteOK(w)'
        <3>1. WriteOK(w) /\ w.phone \in Phones
            BY <1>14, <2>1, EntryParts DEF EntryOK
        <3>2. MeetsPartial(w)'
            BY <1>1, <3>1 DEF WriteOK, MeetsPartial
        <3>3. IsNew(w)'
            <4>1. pendingWrites[w.phone] = <<>> => pendingWrites'[w.phone] = <<>>
                BY <1>7, <3>1 DEF next, chunks
            <4> QED BY <1>1, <1>9, <3>1, <4>1 DEF WriteOK, IsNew
        <3> QED BY <1>1, <1>8, <1>9, <3>1, <3>2, <3>3 DEF WriteOK
    <2> QED BY <1>1, <1>14, <2>1 DEF EntryOK
<1>15. PhonesOK'
    <2> SUFFICES ASSUME NEW q \in Phones PROVE PendingOK(q)' /\ CallbackOK(q)'
        BY DEF PhonesOK
    <2>1. PendingOK(q) /\ CallbackOK(q)
        BY DEF OneLink, PhonesOK
    <2>2. CallbackOK(q)'
        BY <1>1, <1>8, <1>9, <2>1 DEF CallbackOK
    <2>3. CASE q # p
        BY <1>1, <1>7, <1>9, <2>1, <2>2, <2>3 DEF PendingOK
    <2>4. CASE q = p /\ chunks = <<>>
        BY <1>7, <2>2, <2>4 DEF PendingOK, next
    <2>5. CASE q = p /\ chunks # <<>>
        <3>1. /\ Tail(chunks) \in Seq(ChunksOf(Tags)) /\ Len(chunks) \in Nat \ {0}
              /\ Len(Tail(chunks)) = Len(chunks) - 1
              /\ \A k \in 1..(Len(chunks) - 1) : Tail(chunks)[k] = chunks[k + 1]
              /\ Len(chunks) < NC
            BY <1>4, <2>5, Tailing, <1>10 DEF PendingOK, chunks, NC
        <3>2. /\ ~ Has(handled, Latest(p), HELLO_BYTES)
              /\ \A k \in 1..Len(chunks) : /\ IsPiece(chunks[k], Latest(p), HELLO_BYTES, NC - Len(chunks) + k)
                                           /\ chunks[k].message_id = nextTransportMessageId[p] - 1
            BY <1>10, <2>5 DEF PendingOK, chunks, NC
        <3>3. ASSUME NEW k \in 1..Len(Tail(chunks))
              PROVE  /\ IsPiece(Tail(chunks)[k], Latest(p), HELLO_BYTES, NC - Len(Tail(chunks)) + k)
                     /\ Tail(chunks)[k].message_id = nextTransportMessageId[p] - 1
            <4>1. k + 1 \in 1..Len(chunks) /\ k \in 1..(Len(chunks) - 1)
                BY <3>1
            <4>2. NC - Len(Tail(chunks)) + k = NC - Len(chunks) + (k + 1)
                BY <1>4, <3>1
            <4> QED BY <3>1, <3>2, <4>1, <4>2
        <3>4. Len(Tail(chunks)) < NC
            BY <1>4, <3>1
        <3>5. pendingWrites'[p] = Tail(chunks)
            BY <1>7, <2>5 DEF next
        <3>6. PendingOK(p)'
            BY <1>1, <1>2, <1>9, <3>2, <3>3, <3>4, <3>5 DEF PendingOK, NC
        <3> QED BY <2>2, <2>5, <3>6
    <2> QED BY <2>3, <2>4, <2>5
<1>16. WaitingOK' /\ InOrder(waiting)'
    <2>1. CASE waiting' = waiting
        BY <1>14, <2>1, WaitingShrinks DEF OneLink
    <2>2. CASE waiting' # waiting
        <3> DEFINE w == [phone |-> p, on |-> link[p], chunk |-> Head(chunks)]
        <3>1. chunks # <<>> /\ waiting' = Append(waiting, w)
            BY <1>5, <2>2 DEF WriteNextChunk
        <3>2. /\ Len(chunks) \in Nat \ {0} /\ Head(chunks) = chunks[1] /\ Head(chunks) \in ChunksOf(Tags)
              /\ Len(Tail(chunks)) = Len(chunks) - 1 /\ Tail(chunks) \in Seq(ChunksOf(Tags))
            BY <1>4, <3>1, Tailing
        <3>3. /\ ~ Has(handled, Latest(p), HELLO_BYTES) /\ Len(chunks) < NC
              /\ IsPiece(chunks[1], Latest(p), HELLO_BYTES, NC - Len(chunks) + 1)
              /\ chunks[1].message_id = nextTransportMessageId[p] - 1
            BY <1>10, <3>1, <3>2 DEF PendingOK, chunks, NC
        <3>4. w \in Entries /\ w.phone = p /\ w.on = link[p] /\ w.chunk = chunks[1]
            BY <1>3, <3>2 DEF Entries
        <3> HIDE DEF w
        <3> PICK e : e = w
            OBVIOUS
        <3>5. /\ IsPart(e.chunk, HELLO_BYTES) /\ TagOf(e.chunk) = Latest(p) /\ e.chunk \in ChunksOf(Tags)
              /\ e.chunk.message_id = nextTransportMessageId[p] - 1 /\ e.chunk # NONE
              /\ (e.chunk.last => Len(chunks) = 1)
            BY <1>4, <3>2, <3>3, <3>4, NoneAssumption DEF IsPart, IsPiece, TagOf, NC
        <3>6. Latest(p)[1] = p /\ Latest(p)[2] = link[p] /\ Latest(p)[3] = Len(hellos[p])
            BY <1>2 DEF Latest
        <3>7. IsAsked(hellos, Latest(p))
            <4>1. hellos[p][Len(hellos[p])] = link[p] /\ link[p] \in Nat
                BY <1>2, <1>3 DEF Latest
            <4>2. Latest(p) \in Tags
                BY <1>3, <4>1 DEF Latest, Tags
            <4> QED BY <1>3, <3>6, <4>1, <4>2 DEF IsAsked
        <3>8. Shift(e.chunk.message_id, TagOf(e.chunk)) = CurrentShift(p)
            BY <3>5, <3>6 DEF Shift, CurrentShift
        <3>9. MeetsPartial(e)'
            BY <1>1, <1>2, <3>4, <3>8, PartialOfLink DEF MeetsPartial
        <3>10. IsNew(e)'
            <4> SUFFICES ASSUME e.chunk.last PROVE pendingWrites'[p] = <<>>
                BY <1>1, <3>3, <3>4, <3>5 DEF IsNew
            <4>1. Len(Tail(chunks)) = 0
                <5>1. Len(chunks) = 1
                    BY <3>5
                <5>2. Len(Tail(chunks)) = Len(chunks) - 1
                    BY <3>2
                <5> QED BY <5>1, <5>2
            <4>2. Tail(chunks) = <<>>
                BY <3>2, <4>1, EmptySeq
            <4> QED BY <1>7, <3>1, <4>2 DEF next
        <3>11. reply # NONE => reply.on <= link[p]
            BY <1>3 DEF OneLink, ReplyOK
        <3>12. \A q \in Phones : callbacks'[q] > 0 => link[p] = link[q]
            BY <1>2, <1>8, Connected
        <3>13. WriteOK(e)'
            BY <1>1, <1>9, <3>4, <3>5, <3>6, <3>7, <3>8, <3>9, <3>10, <3>11, <3>12 DEF WriteOK
        <3>14. \A q \in Phones : link[q] = link[p] => q = p
            BY <1>2, Connected
        <3>15. tx_writer # NONE => tx_writer[2] <= link[p]
            BY <1>3 DEF OneLink, LinksOK
        <3>16. EntryOK(e)'
            BY <1>1, <1>3, <3>4, <3>13, <3>14, <3>15 DEF EntryOK
        <3>17. ASSUME NEW v \in Entries, EntryOK(v) PROVE After(v, e)
            <4>1. ASSUME v.chunk # NONE, v.chunk.last, v.phone = p PROVE TagOf(v.chunk) # TagOf(e.chunk)
                BY <3>1, <3>5, <3>17, <4>1 DEF EntryOK, WriteOK, IsNew, chunks
            <4> QED BY <1>1, <1>2, <3>4, <3>5, <3>6, <3>8, <3>17, <4>1, NewWrite
        <3> PICK q : q = waiting
            OBVIOUS
        <3>18. /\ q \in Seq(Entries) /\ InOrder(q)
               /\ \A j \in 1..Len(q) : EntryOK(q[j]) /\ q[j] \in Entries
            BY LinkTypes, ElementOfSeq DEF OneLink, WaitingOK
        <3>19. \A j \in 1..Len(q) : EntryOK(q[j])' /\ After(q[j], e)
            BY <1>14, <3>17, <3>18
        <3> PICK r : r = Append(q, e)
            OBVIOUS
        <3>20. InOrder(r) /\ \A j \in 1..Len(r) : EntryOK(r[j])'
            BY <3>4, <3>16, <3>18, <3>19, QueueGrows
        <3> QED BY <3>1, <3>20, WaitingIs
    <2> QED BY <2>1, <2>2
<1> QED BY <1>11, <1>12, <1>15, <1>16 DEF OneLink

(* A phone's latest request was asked.                                     *)
LEMMA LatestAsked ==
    ASSUME OneLink, NEW p \in Phones, hellos[p] # <<>>
    PROVE  /\ IsAsked(hellos, Latest(p)) /\ Latest(p) \in Tags
           /\ Latest(p)[1] = p /\ Latest(p)[3] = Len(hellos[p]) /\ Latest(p)[2] = hellos[p][Len(hellos[p])]
<1>1. hellos[p] \in Seq(Nat) /\ Len(hellos[p]) \in Nat \ {0}
    BY LinkTypes, EmptySeq DEF OneLink
<1>2. hellos[p][Len(hellos[p])] \in Nat
    BY <1>1
<1>3. Latest(p) \in Tags
    BY <1>1, <1>2 DEF Latest, Tags
<1>4. Latest(p)[1] = p /\ Latest(p)[3] = Len(hellos[p]) /\ Latest(p)[2] = hellos[p][Len(hellos[p])]
    BY DEF Latest
<1> QED BY <1>1, <1>3, <1>4 DEF IsAsked

(* A phone that is on the connection of one of its requests is on that of  *)
(* its latest.                                                             *)
LEMMA LatestOfLink ==
    ASSUME OneLink, NEW p \in Phones, NEW n \in 1..Len(hellos[p]), hellos[p][n] = link[p]
    PROVE  link[p] # 0 /\ hellos[p] # <<>> /\ Latest(p)[2] = link[p]
<1>1. hellos[p] \in Seq(Nat) /\ Len(hellos[p]) \in Nat /\ hellos[p] # <<>> /\ Len(hellos[p]) \in 1..Len(hellos[p])
    BY LinkTypes, LenProperties, EmptySeq DEF OneLink
<1>2. link[p] \in 1..connects
    <2>1. LinksOK
        BY DEF OneLink
    <2>2. hellos[p][n] \in 1..connects
        BY <2>1 DEF LinksOK
    <2> QED BY <2>2
<1>3. link[p] # 0 /\ link[p] = connects /\ connects \in Nat
    <2>1. connects \in Nat
        BY LinkTypes DEF OneLink
    <2>2. link[p] # 0
        BY <1>2, <2>1
    <2> QED BY <2>1, <2>2, Connected
<1>4. hellos[p][Len(hellos[p])] \in 1..connects /\ hellos[p][n] <= hellos[p][Len(hellos[p])]
    <2>1. \A k \in 1..Len(hellos[p]) : hellos[p][k] \in 1..connects
                                      /\ \A m \in 1..k : hellos[p][m] <= hellos[p][k]
        BY DEF OneLink, LinksOK
    <2>2. n \in 1..Len(hellos[p])
        OBVIOUS
    <2> QED BY <1>1, <2>1, <2>2
<1> QED BY <1>1, <1>3, <1>4, LatestAsked

-----------------------------------------------------------------------------
(* The server *)

(* Only a live link sees its write confirmed.                              *)
LEMMA ConfirmCallbacks ==
    ASSUME TypeOK, NEW p \in Phones, NEW on, Confirm(p, on) \/ UNCHANGED <<writing, callbacks>>
    PROVE  \A q \in Phones : callbacks'[q] > 0 => callbacks[q] > 0 \/ (q = p /\ link[p] = on)
<1>1. CASE Confirm(p, on) /\ link[p] = on
    <2>1. callbacks' = [callbacks EXCEPT ![p] = @ + 1]
        BY <1>1 DEF Confirm
    <2> QED BY <1>1, <2>1, LinkTypes
<1>2. CASE Confirm(p, on) /\ link[p] # on
    BY <1>2 DEF Confirm
<1>3. CASE UNCHANGED <<writing, callbacks>>
    BY <1>3
<1> QED BY <1>1, <1>2, <1>3

(* What the server makes of a chunk: more of the request it belongs to, or *)
(* that request.                                                           *)
LEMMA ReceivedChunk ==
    ASSUME OneLink, NEW w \in Entries, w.chunk # NONE, EntryOK(w),
           NEW result, result = Received(partial_rx, w.chunk)
    PROVE  /\ result.partial # NONE =>
                /\ IsBegun(result.partial) /\ TagIn(result.partial) = TagOf(w.chunk)
                /\ result.partial.message_id = w.chunk.message_id
           /\ result.message # NONE =>
                w.chunk.last /\ result.message = Message(TagOf(w.chunk), HELLO_BYTES) /\ result.partial = NONE
<1>1. w.chunk \in ChunksOf(Tags) /\ WriteOK(w) /\ TagOf(w.chunk) \in Tags /\ w.chunk.message_id \in Nat
    BY EntryParts DEF EntryOK
<1>2. /\ IsPart(w.chunk, HELLO_BYTES) /\ IsAsked(hellos, TagOf(w.chunk))
      /\ TagOf(w.chunk)[1] = w.phone /\ MeetsPartial(w)
    BY <1>1 DEF WriteOK
<1>3. partial_rx \in PartialsOf(Tags) \cup {NONE} /\ NONE \notin PartialsOf(Tags) /\ NONE \notin Seq(Tags \X Nat)
    BY LinkTypes, NoneAssumption DEF OneLink
<1>4. partial_rx # NONE => IsBegun(partial_rx) /\ IsAsked(hellos, TagIn(partial_rx))
                           /\ partial_rx.message_id \in Nat
    BY <1>3 DEF OneLink, PartialOK, PartialsOf
<1>5. ASSUME partial_rx # NONE, w.chunk.chunk_index > 0, Continues(partial_rx, w.chunk)
      PROVE  TagIn(partial_rx) = TagOf(w.chunk)
    <2>1. /\ TagIn(partial_rx)[1] = w.phone
          /\ Shift(partial_rx.message_id, TagIn(partial_rx)) = Shift(w.chunk.message_id, TagOf(w.chunk))
        BY <1>2, <1>5 DEF MeetsPartial
    <2>2. partial_rx.message_id = w.chunk.message_id
        BY <1>5 DEF Continues
    <2>3. TagIn(partial_rx)[3] \in Nat /\ TagOf(w.chunk)[3] \in Nat
        BY <1>1, <1>4, <1>5, TagParts, AskedParts
    <2>4. TagIn(partial_rx)[3] = TagOf(w.chunk)[3]
        BY <1>1, <2>1, <2>2, <2>3 DEF Shift
    <2> QED BY <1>2, <1>4, <1>5, <2>1, <2>4, SameRequest
<1>6. result = Reassembled(partial_rx, w.chunk) \/ result = Dropped
    BY DEF Received
<1> QED BY <1>1, <1>2, <1>3, <1>4, <1>5, <1>6, Lengths, Reassembling

(* What the server answers to a request.                                   *)
LEMMA HelloAnswer ==
    ASSUME NEW tag \in Tags
    PROVE  /\ IsHello(Message(tag, HELLO_BYTES))
           /\ AnswerChunks(Message(tag, HELLO_BYTES)) = Chunks(1, To(tag), ANSWER_BYTES)
           /\ Answer(Message(tag, HELLO_BYTES)) = Message(To(tag), ANSWER_BYTES)
<1>1. Message(tag, HELLO_BYTES)[1] = <<tag, 1>>
    BY Lengths, MessageType
<1>2. Message(tag, HELLO_BYTES)[1][1] = tag
    BY <1>1
<1> QED BY <1>2 DEF IsHello, AnswerChunks, Answer, To

LEMMA Countdown == \A m, n \in Nat : (m - n + 1 = m => n = 1) /\ (m - n + 1) - 1 = m - n
OBVIOUS

(* The server handles one write (handle_rx_chunk).                         *)
LEMMA HandleRxChunkKeeps == ASSUME OneLink, NEW k \in DOMAIN waiting, HandleRxChunk(k) PROVE OneLink'
<1> DEFINE NA == ChunkCount(ANSWER_BYTES)
<1> PICK w : w = waiting[k]
    OBVIOUS
<1> PICK result : result = Received(partial_rx, w.chunk)
    OBVIOUS
<1> PICK tag : tag = TagOf(w.chunk)
    OBVIOUS
<1>1. waiting \in Seq(Entries) /\ k \in 1..Len(waiting) /\ Len(waiting) \in Nat
    BY LinkTypes, LenProperties DEF OneLink
<1>2. w \in Entries /\ w.chunk # NONE /\ EntryOK(w) /\ reply = NONE /\ \A j \in 1..(k - 1) : waiting[j].chunk = NONE
    BY <1>1, ElementOfSeq DEF HandleRxChunk, IsTurn, OneLink, WaitingOK
<1>3. /\ w.phone \in Phones /\ w.on \in 1..connects /\ tag \in Tags /\ connects \in Nat
      /\ IsAsked(hellos, tag) /\ tag[1] = w.phone /\ tag[2] = w.on
      /\ (link[w.phone] = w.on => Shift(w.chunk.message_id, tag) = CurrentShift(w.phone))
      /\ (\A q \in Phones : callbacks[q] > 0 => w.on = link[q])
      /\ (\A q \in Phones : link[q] = w.on => q = w.phone)
      /\ IsNew(w)
    BY <1>2, EntryParts, LinkTypes DEF EntryOK, WriteOK, OneLink
<1>4. /\ result.partial # NONE =>
           /\ IsBegun(result.partial) /\ TagIn(result.partial) = tag
           /\ result.partial.message_id = w.chunk.message_id
      /\ result.message # NONE =>
           w.chunk.last /\ result.message = Message(tag, HELLO_BYTES) /\ result.partial = NONE
    BY <1>2, ReceivedChunk
<1>5. /\ waiting' = RemoveAt(waiting, k) /\ partial_rx' = result.partial
      /\ handled' = IF result.message = NONE THEN handled ELSE Append(handled, result.message)
      /\ tx_writer' = tx_writer /\ link' = link /\ air' = air /\ pendingWrites' = pendingWrites
      /\ partialTx' = partialTx /\ nextTransportMessageId' = nextTransportMessageId
      /\ connects' = connects /\ hellos' = hellos /\ logged' = logged
    BY DEF HandleRxChunk
<1>6. \/ /\ IsAnswered(result.message)
         /\ reply' = [phone |-> w.phone, on |-> w.on, rest |-> AnswerChunks(result.message)]
         /\ UNCHANGED <<writing, callbacks>>
      \/ Confirm(w.phone, w.on) /\ reply' = NONE
    BY <1>2 DEF HandleRxChunk
<1>7. \A q \in Phones : callbacks'[q] > 0 => callbacks[q] > 0 \/ (q = w.phone /\ link[q] = w.on)
    BY <1>3, <1>6, ConfirmCallbacks DEF OneLink
<1>8. \A t \in Tags : Has(handled', t, HELLO_BYTES) <=>
                        Has(handled, t, HELLO_BYTES) \/ (result.message # NONE /\ t = tag)
    <2>1. CASE result.message = NONE
        BY <1>5, <2>1
    <2>2. CASE result.message # NONE
        <3>1. handled' = Append(handled, Message(tag, HELLO_BYTES)) /\ handled \in Seq(Seq(Tags \X Nat))
              /\ HELLO_BYTES \in 1..MAX_MESSAGE
            BY <1>4, <1>5, <2>2, LinkTypes, Lengths DEF OneLink
        <3>2. \A t \in Tags : Has(Append(handled, Message(tag, HELLO_BYTES)), t, HELLO_BYTES) <=>
                               Has(handled, t, HELLO_BYTES) \/ t = tag
            BY <1>3, <3>1, HasAfter
        <3> QED BY <2>2, <3>1, <3>2
    <2> QED BY <2>1, <2>2
<1>9. reply' # NONE =>
        /\ result.message # NONE /\ tx_writer # NONE
        /\ reply'.on = w.on /\ reply'.phone = w.phone /\ reply'.rest = Chunks(1, To(tag), ANSWER_BYTES)
    BY <1>3, <1>4, <1>6, HelloAnswer DEF IsAnswered
<1>10. TypeOK'
    BY HandleRxChunkType DEF OneLink
<1>11. LinksOK'
    BY <1>5 DEF OneLink, LinksOK
<1>12. ASSUME NEW q \in Phones, callbacks'[q] > 0 PROVE link[q] = w.on /\ link[q] = connects
    <2>1. link[q] = w.on
        BY <1>3, <1>7, <1>12
    <2> QED BY <1>3, <2>1 DEF OneLink, LinksOK
<1>13. ASSUME NEW v \in Entries, EntryOK(v), v.chunk = NONE \/ After(w, v) PROVE EntryOK(v)'
    <2>1. ASSUME v.chunk # NONE PROVE WriteOK(v)'
        <3>1. WriteOK(v) /\ v.phone \in Phones /\ v.on \in 1..connects /\ TagOf(v.chunk) \in Tags
            BY <1>13, <2>1, EntryParts DEF EntryOK
        <3>2. /\ w.on <= v.on
              /\ w.on = v.on =>
                   w.phone = v.phone /\ Shift(w.chunk.message_id, tag) = Shift(v.chunk.message_id, TagOf(v.chunk))
              /\ v.chunk.chunk_index > 0 => w.on = v.on
              /\ w.chunk.last /\ v.chunk.last => tag # TagOf(v.chunk)
            BY <1>2, <1>13, <2>1 DEF After
        <3>3. MeetsPartial(v)'
            BY <1>3, <1>4, <1>5, <3>2 DEF MeetsPartial
        <3>4. IsNew(v)'
            <4> SUFFICES ASSUME v.chunk.last
                         PROVE  /\ ~ Has(handled', TagOf(v.chunk), HELLO_BYTES)
                                /\ pendingWrites'[v.phone] = <<>> \/ TagOf(v.chunk) # Latest(v.phone)'
                BY DEF IsNew
            <4>1. Latest(v.phone)' = Latest(v.phone)
                BY <1>5 DEF Latest
            <4>2. ~ (result.message # NONE /\ TagOf(v.chunk) = tag)
                BY <1>4, <3>2
            <4> QED BY <1>5, <1>8, <3>1, <4>1, <4>2 DEF WriteOK, IsNew
        <3>5. reply' # NONE => reply'.on <= v.on
            BY <1>9, <3>2
        <3>6. \A q \in Phones : callbacks'[q] > 0 => v.on = link[q]
            BY <1>3, <1>12, <3>1, <3>2
        <3>7. CurrentShift(v.phone)' = CurrentShift(v.phone)
            BY <1>5 DEF CurrentShift
        <3> QED BY <1>5, <3>1, <3>3, <3>4, <3>5, <3>6, <3>7 DEF WriteOK
    <2> QED BY <1>5, <1>13, <2>1 DEF EntryOK
<1>14. WaitingOK' /\ InOrder(waiting)'
    <2> PICK q : q = waiting
        OBVIOUS
    <2> PICK r : r = RemoveAt(q, k)
        OBVIOUS
    <2>1. InOrder(r)
        BY <1>1, InOrderRemoval DEF OneLink
    <2>2. Len(r) = Len(q) - 1 /\ \A i \in 1..(Len(q) - 1) : r[i] = q[IF i < k THEN i ELSE i + 1]
        BY <1>1, Removal
    <2>3. ASSUME NEW i \in 1..Len(r) PROVE EntryOK(r[i])'
        <3>1. PICK j \in 1..Len(q) : r[i] = q[j] /\ j # k
            <4>1. (IF i < k THEN i ELSE i + 1) \in 1..Len(q) /\ (IF i < k THEN i ELSE i + 1) # k
                BY <1>1, <2>2
            <4> QED BY <1>1, <2>2, <4>1
        <3>2. q[j] \in Entries /\ EntryOK(q[j])
            BY <1>1, ElementOfSeq DEF OneLink, WaitingOK
        <3>3. q[j].chunk = NONE \/ After(w, q[j])
            <4>1. CASE j < k
                BY <1>1, <1>2, <4>1
            <4>2. CASE j > k
                <5>1. k \in 1..(j - 1)
                    BY <1>1, <4>2
                <5> QED BY <5>1 DEF OneLink, InOrder
            <4> QED BY <1>1, <3>1, <4>1, <4>2
        <3> QED BY <1>13, <3>1, <3>2, <3>3
    <2> QED BY <1>5, <2>1, <2>3, WaitingIs
<1>15. PartialOK'
    <2>1. \A q \in Phones : CurrentShift(q)' = CurrentShift(q)
        BY <1>5 DEF CurrentShift
    <2> QED BY <1>3, <1>4, <1>5, <2>1 DEF PartialOK
<1>16. PhonesOK'
    <2> SUFFICES ASSUME NEW q \in Phones PROVE PendingOK(q)' /\ CallbackOK(q)'
        BY DEF PhonesOK
    <2>1. PendingOK(q) /\ CallbackOK(q) /\ Latest(q)' = Latest(q)
        BY <1>5 DEF OneLink, PhonesOK, Latest
    <2>2. PendingOK(q)'
        <3> SUFFICES ASSUME pendingWrites[q] # <<>> PROVE ~ Has(handled', Latest(q), HELLO_BYTES)
            BY <1>5, <2>1 DEF PendingOK
        <3>1. hellos[q] # <<>> /\ ~ Has(handled, Latest(q), HELLO_BYTES)
            BY <2>1 DEF PendingOK
        <3>2. Latest(q) \in Tags /\ Latest(q)[1] = q
            BY <3>1, LatestAsked
        <3>3. result.message # NONE => Latest(q) # tag
            BY <1>3, <1>4, <3>2 DEF IsNew
        <3> QED BY <1>8, <3>1, <3>2, <3>3
    <2>3. CallbackOK(q)'
        <3> SUFFICES ASSUME callbacks'[q] > 0 PROVE CallbackOK(q)'
            BY DEF CallbackOK
        <3>1. link[q] = w.on
            BY <1>12
        <3>2. link[q] # 0 /\ hellos[q] # <<>> /\ Latest(q)[2] = link[q]
            <4>1. q = w.phone
                BY <1>3, <3>1
            <4>2. tag[3] \in 1..Len(hellos[q]) /\ hellos[q][tag[3]] = link[q]
                BY <1>3, <3>1, <4>1 DEF IsAsked
            <4> QED BY <4>2, LatestOfLink
        <3>3. partial_rx' # NONE => TagIn(partial_rx')[2] = link[q]
            BY <1>3, <1>4, <1>5, <3>1
        <3> QED BY <1>5, <2>1, <3>2, <3>3 DEF CallbackOK
    <2> QED BY <2>2, <2>3
<1>17. MessagesOK'
    <2>1. \A t \in Tags : Has(handled', t, HELLO_BYTES) => IsAsked(hellos', t)
        BY <1>3, <1>5, <1>8 DEF OneLink, MessagesOK
    <2>2. \A p \in Phones : \A t \in Tags :
            Has(logged'[p], To(t), ANSWER_BYTES) => Has(handled', t, HELLO_BYTES)
        BY <1>5, <1>8 DEF OneLink, MessagesOK
    <2> QED BY <2>1, <2>2 DEF MessagesOK
<1>18. ReplyOK'
    <2> SUFFICES ASSUME reply' # NONE PROVE ReplyOK'
        BY DEF ReplyOK
    <2>1. /\ result.message # NONE /\ tx_writer # NONE
          /\ reply'.on = w.on /\ reply'.phone = w.phone /\ reply'.rest = Chunks(1, To(tag), ANSWER_BYTES)
        BY <1>9
    <2>2. w.chunk.last /\ partial_rx' = NONE /\ ~ Has(handled, tag, HELLO_BYTES)
        BY <1>3, <1>4, <1>5, <2>1 DEF IsNew
    <2>3. tag[3] \in 1..Len(hellos'[reply'.phone]) /\ hellos'[reply'.phone][tag[3]] = reply'.on
        BY <1>3, <1>5, <2>1 DEF IsAsked
    <2>4. ReplyFor(tag)'
        <3>1. IsAsked(hellos', tag) /\ Has(handled', tag, HELLO_BYTES)
            BY <1>3, <1>5, <1>8, <2>1
        <3>2. NA \in Nat \ {0} /\ To(tag) \in AnswerTags /\ To(tag).to = tag
            BY <1>3, ChunkCounts, Lengths, TagParts
        <3>3. Len(reply'.rest) = NA /\ \A i \in 1..NA : reply'.rest[i] = Chunk(1, To(tag), ANSWER_BYTES, i)
            <4>1. ANSWER_BYTES \in 1..MAX_MESSAGE /\ 1 \in Nat
                BY Lengths
            <4>2. /\ Len(Chunks(1, To(tag), ANSWER_BYTES)) = NA
                  /\ \A i \in 1..NA : Chunks(1, To(tag), ANSWER_BYTES)[i] = Chunk(1, To(tag), ANSWER_BYTES, i)
                <5>1. To(tag) \in AnswerTags
                    BY <3>2
                <5>2. \A what \in AnswerTags :
                        /\ Len(Chunks(1, what, ANSWER_BYTES)) = ChunkCount(ANSWER_BYTES)
                        /\ \A i \in 1..ChunkCount(ANSWER_BYTES) :
                             Chunks(1, what, ANSWER_BYTES)[i] = Chunk(1, what, ANSWER_BYTES, i)
                    BY <4>1, ChunksType
                <5> QED BY <5>1, <5>2
            <4> QED BY <2>1, <4>2
        <3>4. \A i \in 1..Len(reply'.rest) :
                IsPiece(reply'.rest[i], To(tag), ANSWER_BYTES, NA - Len(reply'.rest) + i)
            <4> SUFFICES ASSUME NEW i \in 1..NA PROVE IsPiece(Chunk(1, To(tag), ANSWER_BYTES, i), To(tag), ANSWER_BYTES, i)
                BY <3>2, <3>3
            <4> QED BY ChunkIsPiece
        <3>5. \A p \in Phones : ~ Has(logged'[p], To(tag), ANSWER_BYTES)
            BY <1>3, <1>5, <2>2 DEF OneLink, MessagesOK
        <3>6. ASSUME NEW p \in Phones, NEW i \in 1..Len(air'[p]) PROVE TagOf(air'[p][i]) # To(tag)
            <4>1. FragmentOK(p, air[p][i])
                BY <1>5 DEF OneLink, AirsOK, AirOK
            <4> QED BY <1>5, <2>2, <3>2, <4>1 DEF FragmentOK
        <3>7. Live' => tag[1] = tx_writer'[1]
            <4> SUFFICES ASSUME link[tx_writer[1]] = tx_writer[2] PROVE tag[1] = tx_writer[1]
                BY <1>5 DEF Live
            <4>1. tx_writer[1] \in Phones /\ tx_writer[2] \in 1..connects /\ tx_writer[2] <= w.on
                BY <1>2, <2>1, LinkTypes DEF OneLink, LinksOK, EntryOK
            <4>2. link[tx_writer[1]] = connects
                BY <1>3, <4>1 DEF OneLink, LinksOK
            <4>3. w.on = link[tx_writer[1]]
                BY <1>3, <4>1, <4>2
            <4> QED BY <1>3, <4>1, <4>3
        <3>8. ~ Len(reply'.rest) < NA /\ Len(reply'.rest) <= NA
            BY <3>2, <3>3
        <3> QED BY <3>1, <3>4, <3>5, <3>6, <3>7, <3>8 DEF ReplyFor
    <2>5. reply'.on \in 1..connects'
        BY <1>3, <1>5, <2>1
    <2> QED BY <1>3, <2>2, <2>3, <2>4, <2>5 DEF ReplyOK
<1>19. AirsOK'
    <2> SUFFICES ASSUME NEW q \in Phones PROVE AirOK(q)'
        BY DEF AirsOK
    <2>1. AirOK(q)
        BY DEF OneLink, AirsOK
    <2>2. ASSUME NEW i \in 1..Len(air'[q]) PROVE FragmentOK(q, air[q][i])'
        <3>1. FragmentOK(q, air[q][i])
            BY <1>5, <2>1 DEF AirOK
        <3>2. TagOf(air[q][i]).to \in Tags
            BY <3>1 DEF FragmentOK, IsAsked
        <3> QED BY <1>5, <1>8, <3>1, <3>2 DEF FragmentOK
    <2> QED BY <1>5, <2>1, <2>2 DEF AirOK
<1> QED BY <1>10, <1>11, <1>14, <1>15, <1>16, <1>17, <1>18, <1>19 DEF OneLink

(* The server takes a subscription (handle_tx_subscriptions).              *)
LEMMA TakeSubscriptionKeeps == ASSUME OneLink, TakeSubscription PROVE OneLink'
<1> PICK w : w = Head(waiting)
    OBVIOUS
<1>1. /\ waiting \in Seq(Entries) /\ waiting # <<>> /\ reply = NONE
      /\ tx_writer' = <<w.phone, w.on>> /\ waiting' = Tail(waiting)
      /\ partial_rx' = partial_rx /\ reply' = reply /\ connects' = connects /\ hellos' = hellos
      /\ handled' = handled /\ logged' = logged /\ link' = link /\ callbacks' = callbacks /\ air' = air
      /\ pendingWrites' = pendingWrites /\ partialTx' = partialTx
      /\ nextTransportMessageId' = nextTransportMessageId
    BY LinkTypes DEF OneLink, TakeSubscription, phones
<1>2. w = waiting[1] /\ 1 \in 1..Len(waiting) /\ w \in Entries /\ Len(waiting) \in Nat \ {0}
    BY <1>1, Tailing
<1>3. EntryOK(w) /\ w.on \in 1..connects
    BY <1>2 DEF OneLink, WaitingOK, EntryOK
<1>4. TypeOK'
    BY TakeSubscriptionType DEF OneLink
<1>5. LinksOK'
    BY <1>1, <1>3 DEF OneLink, LinksOK
<1>6. ASSUME NEW v \in Entries, EntryOK(v), After(w, v) PROVE EntryOK(v)'
    <2>1. ASSUME v.chunk # NONE PROVE WriteOK(v)'
        <3>1. WriteOK(v)
            BY <1>6, <2>1 DEF EntryOK
        <3>2. MeetsPartial(v)' /\ IsNew(v)'
            BY <1>1, <3>1 DEF WriteOK, MeetsPartial, IsNew, Latest
        <3> QED BY <1>1, <3>1, <3>2 DEF WriteOK, CurrentShift
    <2>2. w.on <= v.on
        BY <1>6 DEF After
    <2> QED BY <1>1, <1>6, <2>1, <2>2 DEF EntryOK
<1>7. WaitingOK' /\ InOrder(waiting)'
    <2> PICK q : q = waiting
        OBVIOUS
    <2> PICK r : r = Tail(q)
        OBVIOUS
    <2>1. InOrder(r)
        BY <1>1, InOrderTail DEF OneLink
    <2>2. Len(r) = Len(q) - 1 /\ \A i \in 1..(Len(q) - 1) : r[i] = q[i + 1]
        BY <1>1, Tailing
    <2>3. ASSUME NEW i \in 1..Len(r) PROVE EntryOK(r[i])'
        <3>1. i + 1 \in 1..Len(q) /\ 1 \in 1..(i + 1 - 1) /\ r[i] = q[i + 1]
            BY <1>2, <2>2
        <3>2. q[i + 1] \in Entries /\ EntryOK(q[i + 1]) /\ After(q[1], q[i + 1])
            BY <1>1, <3>1, ElementOfSeq DEF OneLink, WaitingOK, InOrder
        <3> QED BY <1>2, <1>6, <3>1, <3>2
    <2> QED BY <1>1, <2>1, <2>3, WaitingIs
<1>8. PartialOK' /\ MessagesOK'
    BY <1>1 DEF OneLink, PartialOK, MessagesOK, CurrentShift
<1>9. PhonesOK'
    BY <1>1 DEF OneLink, PhonesOK, PendingOK, CallbackOK, Latest
<1>10. ReplyOK'
    BY <1>1 DEF ReplyOK
<1>11. AirsOK'
    BY <1>1 DEF OneLink, AirsOK, AirOK, FragmentOK
<1> QED BY <1>4, <1>5, <1>7, <1>8, <1>9, <1>10, <1>11 DEF OneLink

(* The server sends one chunk of its answer (send_tx_message).             *)
LEMMA SendTxChunkKeeps == ASSUME OneLink, SendTxChunk PROVE OneLink'
<1> DEFINE NA == ChunkCount(ANSWER_BYTES)
<1> PICK p : p = tx_writer[1]
    OBVIOUS
<1> PICK rest : rest = reply.rest
    OBVIOUS
<1> PICK c : c = Head(reply.rest)
    OBVIOUS
<1>1. reply \in Replies /\ reply # NONE /\ rest # <<>> /\ tx_writer # NONE /\ p \in Phones
      /\ reply.phone \in Phones /\ rest \in Seq(ChunksOf(AnswerTags))
    BY LinkTypes DEF OneLink, SendTxChunk, Replies
<1>2. /\ Tail(rest) \in Seq(ChunksOf(AnswerTags)) /\ Len(Tail(rest)) = Len(rest) - 1 /\ Len(rest) \in Nat \ {0}
      /\ c = rest[1] /\ c \in ChunksOf(AnswerTags)
      /\ \A i \in 1..(Len(rest) - 1) : Tail(rest)[i] = rest[i + 1]
    BY <1>1, Tailing
<1>3. /\ air' = IF Live THEN [air EXCEPT ![p] = Append(@, c)] ELSE air
      /\ \/ Live /\ Len(rest) > 1 /\ reply' = [reply EXCEPT !.rest = Tail(@)] /\ UNCHANGED <<writing, callbacks>>
         \/ reply' = NONE /\ Confirm(reply.phone, reply.on)
      /\ partial_rx' = partial_rx /\ tx_writer' = tx_writer /\ waiting' = waiting
      /\ connects' = connects /\ hellos' = hellos /\ handled' = handled /\ logged' = logged
      /\ link' = link /\ pendingWrites' = pendingWrites /\ partialTx' = partialTx
      /\ nextTransportMessageId' = nextTransportMessageId
    BY DEF SendTxChunk, Live
<1>4. \A q \in Phones : callbacks'[q] > 0 => callbacks[q] > 0 \/ (q = reply.phone /\ link[q] = reply.on)
    BY <1>1, <1>3, ConfirmCallbacks DEF OneLink
<1>5. reply' # NONE => /\ Live /\ Len(rest) > 1
                       /\ reply'.on = reply.on /\ reply'.phone = reply.phone /\ reply'.rest = Tail(rest)
    <2>1. ASSUME reply' = [reply EXCEPT !.rest = Tail(@)]
          PROVE  reply'.on = reply.on /\ reply'.phone = reply.phone /\ reply'.rest = Tail(rest)
        BY <1>1, <2>1 DEF Replies
    <2> QED BY <1>3, <2>1
<1>6. PICK t \in Tags : ReplyFor(t)
    BY <1>1 DEF OneLink, ReplyOK
<1>7. /\ partial_rx = NONE /\ reply.on \in 1..connects
      /\ \E n \in 1..Len(hellos[reply.phone]) : hellos[reply.phone][n] = reply.on
    BY <1>1 DEF OneLink, ReplyOK
<1>8. /\ NA \in Nat \ {0} /\ Len(rest) <= NA /\ To(t) \in AnswerTags /\ To(t).to = t
      /\ \A i \in 1..Len(rest) : IsPiece(rest[i], To(t), ANSWER_BYTES, NA - Len(rest) + i)
    BY <1>6, ChunkCounts, Lengths, TagParts DEF ReplyFor
<1>9. /\ c.fragment = <<To(t), NA - Len(rest) + 1>> /\ c.chunk_index = NA - Len(rest)
      /\ TagOf(c) = To(t) /\ IsPart(c, ANSWER_BYTES) /\ (c.last => Len(rest) = 1)
    <2>1. 1 \in 1..Len(rest) /\ NA \in Nat /\ Len(rest) \in Nat
        BY <1>2, <1>8
    <2>2. IsPiece(rest[1], To(t), ANSWER_BYTES, NA - Len(rest) + 1)
        BY <1>8, <2>1
    <2>3. \A i : IsPiece(c, To(t), ANSWER_BYTES, i) =>
            /\ c.fragment = <<To(t), i>> /\ c.chunk_index = i - 1 /\ (c.last => i = NA)
            /\ TagOf(c) = To(t) /\ IsPart(c, ANSWER_BYTES)
        <3> SUFFICES ASSUME NEW i, IsPiece(c, To(t), ANSWER_BYTES, i)
                     PROVE  /\ c.fragment = <<To(t), i>> /\ c.chunk_index = i - 1 /\ (c.last => i = NA)
                            /\ TagOf(c) = To(t) /\ IsPart(c, ANSWER_BYTES)
            OBVIOUS
        <3>1. c.fragment = <<To(t), i>> /\ c.chunk_index = i - 1 /\ (c.last => i = NA)
            BY PieceParts
        <3>2. TagOf(c) = To(t) /\ c.fragment[2] = i
            BY <3>1 DEF TagOf
        <3> QED BY <3>1, <3>2 DEF IsPart
    <2>4. (NA - Len(rest) + 1 = NA => Len(rest) = 1) /\ (NA - Len(rest) + 1) - 1 = NA - Len(rest)
        BY <2>1, Countdown
    <2>5. IsPiece(c, To(t), ANSWER_BYTES, NA - Len(rest) + 1)
        BY <1>2, <2>2
    <2> HIDE DEF NA
    <2>6. /\ c.fragment = <<To(t), NA - Len(rest) + 1>> /\ c.chunk_index = (NA - Len(rest) + 1) - 1
          /\ (c.last => NA - Len(rest) + 1 = NA) /\ TagOf(c) = To(t) /\ IsPart(c, ANSWER_BYTES)
        BY <2>3, <2>5
    <2> QED BY <2>4, <2>6
<1>10. TypeOK'
    BY SendTxChunkType DEF OneLink
<1>11. LinksOK' /\ PartialOK' /\ MessagesOK'
    <2>1. LinksOK'
        BY <1>3 DEF OneLink, LinksOK
    <2>2. PartialOK'
        BY <1>3, <1>7 DEF PartialOK
    <2>3. MessagesOK'
        BY <1>3 DEF OneLink, MessagesOK
    <2> QED BY <2>1, <2>2, <2>3
<1>12. ASSUME NEW q \in Phones, callbacks'[q] > 0, ~ callbacks[q] > 0
       PROVE  q = reply.phone /\ link[q] = reply.on /\ link[q] = connects /\ connects \in Nat
    <2>1. q = reply.phone /\ link[q] = reply.on
        BY <1>4, <1>12
    <2> QED BY <1>7, <2>1, LinkTypes, SMTT(30) DEF OneLink, LinksOK
<1>13. ASSUME NEW v \in Entries, EntryOK(v) PROVE EntryOK(v)'
    <2>1. ASSUME v.chunk # NONE PROVE WriteOK(v)'
        <3>1. WriteOK(v) /\ v.on \in 1..connects
            BY <1>13, <2>1 DEF EntryOK
        <3>2. MeetsPartial(v)' /\ IsNew(v)'
            BY <1>3, <3>1 DEF WriteOK, MeetsPartial, IsNew, Latest
        <3>3. reply.on <= v.on
            BY <1>1, <3>1 DEF WriteOK
        <3>4. ASSUME NEW q \in Phones, callbacks'[q] > 0 PROVE v.on = link[q]
            <4>1. CASE callbacks[q] > 0
                BY <3>1, <4>1 DEF WriteOK
            <4>2. CASE ~ callbacks[q] > 0
                BY <1>7, <1>12, <3>1, <3>3, <3>4, <4>2
            <4> QED BY <4>1, <4>2
        <3>5. reply' # NONE => reply'.on <= v.on
            BY <1>5, <3>3
        <3> QED BY <1>3, <3>1, <3>2, <3>4, <3>5 DEF WriteOK, CurrentShift
    <2> QED BY <1>3, <1>13, <2>1 DEF EntryOK
<1>14. WaitingOK' /\ InOrder(waiting)'
    BY <1>3, <1>13, WaitingShrinks DEF OneLink
<1>15. PhonesOK'
    <2> SUFFICES ASSUME NEW q \in Phones PROVE PendingOK(q)' /\ CallbackOK(q)'
        BY DEF PhonesOK
    <2>1. PendingOK(q) /\ CallbackOK(q) /\ Latest(q)' = Latest(q)
        BY <1>3 DEF OneLink, PhonesOK, Latest
    <2>2. PendingOK(q)'
        BY <1>3, <2>1 DEF PendingOK
    <2>3. CallbackOK(q)'
        <3> SUFFICES ASSUME callbacks'[q] > 0 PROVE CallbackOK(q)'
            BY DEF CallbackOK
        <3>1. CASE callbacks[q] > 0
            BY <1>3, <2>1, <3>1 DEF CallbackOK
        <3>2. CASE ~ callbacks[q] > 0
            <4>1. q = reply.phone /\ link[q] = reply.on
                BY <1>12, <3>2
            <4>2. link[q] # 0 /\ hellos[q] # <<>> /\ Latest(q)[2] = link[q]
                BY <1>7, <4>1, LatestOfLink
            <4> QED BY <1>3, <1>7, <2>1, <4>2 DEF CallbackOK
        <3> QED BY <3>1, <3>2
    <2> QED BY <2>2, <2>3
<1>16. ASSUME Live
       PROVE  /\ air'[p] \in Seq(ChunksOf(AnswerTags)) /\ Len(air'[p]) = Len(air[p]) + 1 /\ Len(air[p]) \in Nat
              /\ air'[p][Len(air[p]) + 1] = c
              /\ \A i \in 1..Len(air[p]) : air'[p][i] = air[p][i]
              /\ \A q \in Phones : q # p => air'[q] = air[q]
    <2>1. air[p] \in Seq(ChunksOf(AnswerTags)) /\ air \in [Phones -> Seq(ChunksOf(AnswerTags))]
        BY <1>1, LinkTypes DEF OneLink
    <2> PICK more : more = Append(air[p], c)
        OBVIOUS
    <2>2. /\ more \in Seq(ChunksOf(AnswerTags)) /\ Len(more) = Len(air[p]) + 1 /\ Len(air[p]) \in Nat
          /\ more[Len(air[p]) + 1] = c /\ \A i \in 1..Len(air[p]) : more[i] = air[p][i]
        BY <1>2, <2>1, Appending
    <2>3. air'[p] = more /\ \A q \in Phones : q # p => air'[q] = air[q]
        BY <1>1, <1>3, <1>16, <2>1
    <2> QED BY <2>2, <2>3
<1>17. ReplyOK'
    <2> SUFFICES ASSUME reply' # NONE PROVE ReplyOK'
        BY DEF ReplyOK
    <2>1. Live /\ Len(rest) > 1 /\ reply'.on = reply.on /\ reply'.phone = reply.phone /\ reply'.rest = Tail(rest)
        BY <1>5
    <2>2. Live' <=> Live
        BY <1>3 DEF Live
    <2>3. IsAsked(hellos', t) /\ Has(handled', t, HELLO_BYTES) /\ t[1] = tx_writer'[1]
        BY <1>3, <1>6, <2>1 DEF ReplyFor
    <2>4. Len(reply'.rest) <= NA /\ NA - Len(reply'.rest) = NA - Len(rest) + 1
        BY <1>2, <1>8, <2>1
    <2>5. ASSUME NEW i \in 1..Len(reply'.rest)
          PROVE  IsPiece(reply'.rest[i], To(t), ANSWER_BYTES, NA - Len(reply'.rest) + i)
        <3>1. i + 1 \in 1..Len(rest) /\ i \in 1..(Len(rest) - 1) /\ NA - Len(reply'.rest) + i = NA - Len(rest) + (i + 1)
            BY <1>2, <1>8, <2>1
        <3>2. reply'.rest[i] = rest[i + 1]
            BY <1>2, <2>1, <3>1
        <3> QED BY <1>8, <3>1, <3>2
    <2>6. \A q \in Phones : ~ Has(logged'[q], To(t), ANSWER_BYTES)
        BY <1>3, <1>6 DEF ReplyFor
    <2>7. ASSUME NEW q \in Phones, NEW i \in 1..Len(air'[q]), air'[q][i].last
          PROVE  TagOf(air'[q][i]) # To(t)
        <3>1. CASE q # p \/ i \in 1..Len(air[p])
            <4>1. air'[q][i] = air[q][i] /\ i \in 1..Len(air[q])
                BY <1>16, <2>1, <2>7, <3>1
            <4> QED BY <1>6, <2>7, <4>1 DEF ReplyFor
        <3>2. CASE q = p /\ i \notin 1..Len(air[p])
            <4>1. i = Len(air[p]) + 1
                BY <1>16, <2>1, <3>2
            <4>2. Len(rest) # 1
                BY <1>2, <2>1
            <4>3. ~ c.last
                BY <1>9, <4>2
            <4> QED BY <1>16, <2>1, <2>7, <3>2, <4>1, <4>3
        <3> QED BY <3>1, <3>2
    <2>8. Follows(tx_writer[1], To(t), NA - Len(reply.rest))'
        <3>1. air'[p] # <<>> /\ air'[p][Len(air'[p])] = c
            <4>1. Len(air'[p]) # 0
                BY <1>16, <2>1
            <4> QED BY <1>16, <2>1, <4>1, EmptySeq
        <3>2. air'[p][Len(air'[p])].fragment = <<To(t), NA - Len(reply'.rest)>>
            BY <1>9, <2>4, <3>1
        <3> QED BY <1>3, <3>1, <3>2 DEF Follows
    <2>9. ReplyFor(t)'
        BY <2>1, <2>2, <2>3, <2>4, <2>5, <2>6, <2>7, <2>8 DEF ReplyFor
    <2> QED BY <1>3, <1>7, <2>1, <2>9 DEF ReplyOK
<1>18. AirsOK'
    <2> SUFFICES ASSUME NEW q \in Phones PROVE AirOK(q)'
        BY DEF AirsOK
    <2>1. AirOK(q)
        BY DEF OneLink, AirsOK
    <2>2. \A d : FragmentOK(q, d) => FragmentOK(q, d)'
        BY <1>3 DEF FragmentOK
    <2>3. CASE ~ (Live /\ q = p)
        <3>1. air'[q] = air[q]
            BY <1>3, <1>16, <2>3
        <3>2. ASSUME NEW i \in 1..Len(air'[q]) PROVE FragmentOK(q, air[q][i])'
            <4> PICK d : d = air[q][i]
                OBVIOUS
            <4>1. FragmentOK(q, d)
                BY <2>1, <3>1 DEF AirOK
            <4>2. FragmentOK(q, d)'
                BY <2>2, <4>1
            <4> QED BY <3>1, <4>2 DEF FragmentOK
        <3> QED BY <1>3, <2>1, <3>1, <3>2 DEF AirOK
    <2>4. CASE Live /\ q = p
        <3> PICK n : n = Len(air[p])
            OBVIOUS
        <3>1. /\ Len(air'[p]) = n + 1 /\ n \in Nat /\ air'[p][n + 1] = c
              /\ \A i \in 1..n : air'[p][i] = air[p][i]
            BY <1>16, <2>4
        <3>2. /\ IsAsked(hellos, t) /\ Has(handled, t, HELLO_BYTES) /\ t[1] = p
              /\ ~ Has(logged[p], To(t), ANSWER_BYTES)
              /\ \A i \in 1..n : air[p][i].last => TagOf(air[p][i]) # To(t)
              /\ Len(rest) < NA => Follows(p, To(t), NA - Len(rest))
            BY <1>6, <2>4 DEF ReplyFor
        <3>3. FragmentOK(p, c)
            BY <1>8, <1>9, <3>2 DEF FragmentOK
        <3>4. ASSUME NEW i \in 1..Len(air'[p]) PROVE FragmentOK(p, air[p][i])'
            <4> PICK d : d = air'[p][i]
                OBVIOUS
            <4>1. FragmentOK(p, d)
                BY <2>1, <2>4, <3>1, <3>3 DEF AirOK
            <4>2. FragmentOK(p, d)'
                BY <2>2, <2>4, <4>1
            <4> QED BY <4>2 DEF FragmentOK
        <3>5. ASSUME NEW i \in 1..Len(air'[p]), NEW j \in 1..(i - 1), air'[p][j].last, air'[p][i].last
              PROVE  TagOf(air'[p][j]) # TagOf(air'[p][i])
            <4>1. air'[p][j] = air[p][j] /\ j \in 1..n
                BY <3>1, <3>5
            <4>2. CASE i = n + 1
                BY <1>9, <3>1, <3>2, <3>5, <4>1, <4>2
            <4>3. CASE i # n + 1
                <5>0. i \in 1..n
                    BY <3>1, <3>5, <4>3
                <5>1. air'[p][i] = air[p][i] /\ i \in 1..n
                    BY <3>1, <5>0
                <5> QED BY <2>1, <2>4, <3>5, <4>1, <5>1 DEF AirOK
            <4> QED BY <4>2, <4>3
        <3>6. c.chunk_index > 0 => Follows(p, To(t), c.chunk_index)
            <4>1. c.chunk_index = NA - Len(rest) /\ (NA - Len(rest) > 0 => Len(rest) < NA)
                BY <1>2, <1>8, <1>9
            <4> QED BY <3>2, <4>1
        <3>7. ASSUME NEW i \in 2..Len(air'[p]), air'[p][i].chunk_index > 0
              PROVE  air'[p][i - 1].fragment = <<TagOf(air'[p][i]), air'[p][i].chunk_index>>
            <4>1. air'[p][i - 1] = air[p][i - 1] /\ i - 1 \in 1..n
                BY <3>1
            <4>2. CASE i = n + 1
                <5>1. air[p] # <<>> /\ air'[p][i] = c /\ i - 1 = n
                    BY <3>1, <4>1, <4>2, EmptySeq
                <5>2. air[p][n].fragment = <<To(t), c.chunk_index>>
                    BY <3>6, <3>7, <5>1 DEF Follows
                <5> QED BY <1>9, <4>1, <5>1, <5>2
            <4>3. CASE i # n + 1
                <5>1. air'[p][i] = air[p][i] /\ i \in 2..n
                    BY <3>1, <4>3
                <5> QED BY <2>1, <2>4, <3>7, <4>1, <5>1 DEF AirOK
            <4> QED BY <4>2, <4>3
        <3>8. ASSUME air'[p][1].chunk_index > 0, partialTx[p] # NONE
              PROVE  TagIn(partialTx[p]) = TagOf(air'[p][1]) /\ partialTx[p].next_chunk_index = air'[p][1].chunk_index
            <4>1. CASE n = 0
                <5>1. air[p] = <<>> /\ air'[p][1] = c
                    <6>1. air[p] \in Seq(ChunksOf(AnswerTags)) /\ Len(air[p]) = 0
                        BY <1>1, <4>1, LinkTypes DEF OneLink
                    <6>2. air[p] = <<>>
                        BY <6>1, EmptySeq
                    <6> QED BY <3>1, <4>1, <6>2
                <5> QED BY <1>9, <3>6, <3>8, <5>1 DEF Follows
            <4>2. CASE n # 0
                <5>1. air[p] # <<>> /\ air'[p][1] = air[p][1]
                    BY <3>1, <4>2, EmptySeq
                <5> QED BY <2>1, <2>4, <3>8, <5>1 DEF AirOK
            <4> QED BY <4>1, <4>2
        <3>9. partialTx[p] # NONE => IsBegun(partialTx[p])
            BY <2>1, <2>4 DEF AirOK
        <3> QED BY <1>3, <2>4, <3>4, <3>5, <3>7, <3>8, <3>9 DEF AirOK
    <2> QED BY <2>3, <2>4
<1> QED BY <1>10, <1>11, <1>14, <1>15, <1>17, <1>18 DEF OneLink

-----------------------------------------------------------------------------
LEMMA Predecessor ==
    \A n \in Nat \ {0} : /\ (n - 1) + 1 = n
                         /\ n # 1 => n - 1 \in 1..(n - 1) /\ n - 1 # 0
                         /\ n - 1 # 0 => 1 \in 1..(n - 1) /\ 2 \in 2..n
OBVIOUS

(* What a phone makes of a notification: more of the answer it belongs to, *)
(* or that answer.                                                         *)
LEMMA ToldChunk ==
    ASSUME OneLink, NEW p \in Phones, air[p] # <<>>,
           NEW c, c = Head(air[p]), NEW result, result = Reassembled(partialTx[p], c)
    PROVE  /\ FragmentOK(p, c) /\ c \in ChunksOf(AnswerTags) /\ TagOf(c) \in AnswerTags
           /\ c.chunk_index \in Nat /\ c.fragment = <<TagOf(c), c.chunk_index + 1>>
           /\ result.partial # NONE =>
                /\ IsBegun(result.partial) /\ TagIn(result.partial) = TagOf(c)
                /\ result.partial.next_chunk_index = c.chunk_index + 1
           /\ result.message # NONE => c.last /\ result.message = Message(TagOf(c), ANSWER_BYTES)
<1>1. air[p] \in Seq(ChunksOf(AnswerTags)) /\ partialTx[p] \in PartialsOf(AnswerTags) \cup {NONE}
    BY LinkTypes DEF OneLink
<1>2. c = air[p][1] /\ c \in ChunksOf(AnswerTags) /\ 1 \in 1..Len(air[p])
    BY <1>1, Tailing
<1>3. AirOK(p)
    BY DEF OneLink, AirsOK
<1>4. FragmentOK(p, c) /\ (partialTx[p] # NONE => IsBegun(partialTx[p]))
      /\ (partialTx[p] # NONE /\ c.chunk_index > 0 => TagIn(partialTx[p]) = TagOf(c))
    BY <1>2, <1>3 DEF AirOK
<1>5. c.chunk_index \in Nat /\ c.fragment \in AnswerTags \X Nat /\ c.fragment[2] \in Nat
      /\ TagOf(c) \in AnswerTags
    BY <1>2 DEF ChunksOf, TagOf
<1>6. IsPart(c, ANSWER_BYTES)
    BY <1>4 DEF FragmentOK
<1>7. c.fragment = <<TagOf(c), c.chunk_index + 1>>
    <2>1. c.fragment = <<TagOf(c), c.fragment[2]>> /\ c.chunk_index = c.fragment[2] - 1
        BY <1>6, PieceParts DEF IsPart
    <2>2. c.fragment[2] = c.chunk_index + 1
        BY <1>5, <2>1
    <2> QED BY <2>1, <2>2
<1>8. ANSWER_BYTES \in 1..MAX_MESSAGE /\ NONE \notin PartialsOf(AnswerTags) /\ NONE \notin Seq(AnswerTags \X Nat)
    BY Lengths, NoneAssumption
<1>9. /\ result.partial # NONE =>
           /\ IsBegun(result.partial) /\ TagIn(result.partial) = TagOf(c)
           /\ result.partial.next_chunk_index = c.chunk_index + 1
      /\ result.message # NONE => c.last /\ result.message = Message(TagOf(c), ANSWER_BYTES)
    <2> PICK partial : partial = partialTx[p]
        OBVIOUS
    <2> QED BY <1>1, <1>2, <1>4, <1>6, <1>8, Reassembling
<1> QED BY <1>2, <1>4, <1>5, <1>7, <1>9

(* What a phone does with a notification.  The fragments on their way      *)
(* follow one another, so that what it completes is one answer, and the    *)
(* last fragment of that answer is not on its way a second time.           *)
LEMMA OnCharacteristicChangedKeeps ==
    ASSUME OneLink, NEW p \in Phones, OnCharacteristicChanged(p) PROVE OneLink'
<1> PICK a : a = air[p]
    OBVIOUS
<1> PICK n : n = Len(a)
    OBVIOUS
<1> PICK c : c = Head(air[p])
    OBVIOUS
<1> PICK result : result = Reassembled(partialTx[p], Head(air[p]))
    OBVIOUS
<1>1. /\ a # <<>> /\ air' = [air EXCEPT ![p] = Tail(@)]
      /\ partialTx' = [partialTx EXCEPT ![p] = result.partial]
      /\ logged' = IF result.message = NONE THEN logged
                   ELSE [logged EXCEPT ![p] = Append(@, result.message)]
      /\ tx_writer' = tx_writer /\ partial_rx' = partial_rx /\ waiting' = waiting /\ reply' = reply
      /\ link' = link /\ callbacks' = callbacks /\ pendingWrites' = pendingWrites
      /\ nextTransportMessageId' = nextTransportMessageId
      /\ connects' = connects /\ hellos' = hellos /\ handled' = handled
    BY DEF OnCharacteristicChanged, server
<1>2. /\ a \in Seq(ChunksOf(AnswerTags)) /\ air \in [Phones -> Seq(ChunksOf(AnswerTags))]
      /\ partialTx \in [Phones -> PartialsOf(AnswerTags) \cup {NONE}]
      /\ logged \in [Phones -> Seq(Seq(AnswerTags \X Nat))]
    BY LinkTypes DEF OneLink
<1>3. /\ n \in Nat \ {0} /\ c = a[1] /\ c \in ChunksOf(AnswerTags) /\ 1 \in 1..n
      /\ Len(air'[p]) = n - 1 /\ \A i \in 1..(n - 1) : air'[p][i] = a[i + 1] /\ i + 1 \in 1..n
      /\ air'[p] \in Seq(ChunksOf(AnswerTags))
    <2> PICK b : b = Tail(a)
        OBVIOUS
    <2>1. /\ n \in Nat \ {0} /\ c = a[1] /\ c \in ChunksOf(AnswerTags)
          /\ Len(b) = n - 1 /\ (\A i \in 1..(n - 1) : b[i] = a[i + 1]) /\ b \in Seq(ChunksOf(AnswerTags))
        BY <1>1, <1>2, Tailing
    <2>2. air'[p] = b
        BY <1>1, <1>2
    <2>3. 1 \in 1..n /\ \A i \in 1..(n - 1) : i + 1 \in 1..n
        BY <2>1
    <2> QED BY <2>1, <2>2, <2>3
<1>0. n \in Nat \ {0} /\ Len(air'[p]) = n - 1
    BY <1>3
<1>4. /\ \A q \in Phones : q # p => air'[q] = air[q] /\ partialTx'[q] = partialTx[q] /\ logged'[q] = logged[q]
      /\ partialTx'[p] = result.partial
    BY <1>1, <1>2
<1>5. AirOK(p) /\ \A q \in Phones : AirOK(q)
    BY DEF OneLink, AirsOK
<1>6. /\ \A i \in 1..n : FragmentOK(p, a[i])
      /\ \A i \in 1..n : \A j \in 1..(i - 1) : a[j].last /\ a[i].last => TagOf(a[j]) # TagOf(a[i])
      /\ \A i \in 2..n : a[i].chunk_index > 0 => a[i - 1].fragment = <<TagOf(a[i]), a[i].chunk_index>>
      /\ a[1].chunk_index > 0 /\ partialTx[p] # NONE =>
           TagIn(partialTx[p]) = TagOf(a[1]) /\ partialTx[p].next_chunk_index = a[1].chunk_index
      /\ partialTx[p] # NONE => IsBegun(partialTx[p])
    BY <1>1, <1>5 DEF AirOK
<1>7. \A i \in 1..n : a[i] \in ChunksOf(AnswerTags) /\ TagOf(a[i]) \in AnswerTags
    <2> SUFFICES ASSUME NEW i \in 1..n PROVE a[i] \in ChunksOf(AnswerTags) /\ TagOf(a[i]) \in AnswerTags
        OBVIOUS
    <2>1. a[i] \in ChunksOf(AnswerTags)
        BY <1>2
    <2>2. a[i].fragment \in AnswerTags \X Nat
        BY <2>1 DEF ChunksOf
    <2> QED BY <2>1, <2>2 DEF TagOf
<1>8. /\ IsPart(c, ANSWER_BYTES) /\ TagOf(c) = To(TagOf(c).to) /\ TagOf(c) \in AnswerTags
      /\ IsAsked(hellos, TagOf(c).to) /\ Has(handled, TagOf(c).to, HELLO_BYTES)
      /\ c.chunk_index \in Nat /\ c.fragment = <<TagOf(c), c.chunk_index + 1>>
    BY <1>1, ToldChunk DEF FragmentOK
<1>9. /\ result.partial # NONE =>
           /\ IsBegun(result.partial) /\ TagIn(result.partial) = TagOf(c)
           /\ result.partial.next_chunk_index = c.chunk_index + 1
      /\ result.message # NONE => c.last /\ result.message = Message(TagOf(c), ANSWER_BYTES)
    BY <1>1, ToldChunk
<1>10. ASSUME NEW q \in Phones, NEW what \in AnswerTags, Has(logged'[q], what, ANSWER_BYTES)
       PROVE  Has(logged[q], what, ANSWER_BYTES) \/ (q = p /\ c.last /\ what = TagOf(c))
    <2>1. CASE q # p \/ result.message = NONE
        <3>1. logged'[q] = logged[q]
            BY <1>1, <1>4, <2>1
        <3> QED BY <1>10, <3>1
    <2>2. CASE q = p /\ result.message # NONE
        <3>1. logged'[p] = Append(logged[p], Message(TagOf(c), ANSWER_BYTES)) /\ c.last
            BY <1>1, <1>2, <1>9, <2>2
        <3>2. Has(logged[p], what, ANSWER_BYTES) \/ what = TagOf(c)
            <4>1. logged[p] \in Seq(Seq(AnswerTags \X Nat)) /\ ANSWER_BYTES \in 1..MAX_MESSAGE
                BY <1>2, Lengths
            <4>2. Has(Append(logged[p], Message(TagOf(c), ANSWER_BYTES)), what, ANSWER_BYTES)
                BY <1>10, <2>2, <3>1
            <4> QED BY <1>8, <4>1, <4>2, HasAfter
        <3> QED BY <2>2, <3>1, <3>2
    <2> QED BY <2>1, <2>2
<1>11. TypeOK'
    BY OnCharacteristicChangedType DEF OneLink
<1>12. LinksOK' /\ PartialOK' /\ PhonesOK'
    <2>1. LinksOK'
        BY <1>1 DEF OneLink, LinksOK
    <2>2. PartialOK'
        BY <1>1 DEF OneLink, PartialOK, CurrentShift
    <2>3. PhonesOK'
        BY <1>1 DEF OneLink, PhonesOK, PendingOK, CallbackOK, Latest
    <2> QED BY <2>1, <2>2, <2>3
<1>13. WaitingOK' /\ InOrder(waiting)'
    <2>1. ASSUME NEW v \in Entries, EntryOK(v) PROVE EntryOK(v)'
        <3>1. ASSUME v.chunk # NONE PROVE WriteOK(v)'
            <4>1. WriteOK(v)
                BY <2>1, <3>1 DEF EntryOK
            <4>2. MeetsPartial(v)' /\ IsNew(v)'
                BY <1>1, <4>1 DEF WriteOK, MeetsPartial, IsNew, Latest
            <4> QED BY <1>1, <4>1, <4>2 DEF WriteOK, CurrentShift
        <3> QED BY <1>1, <2>1, <3>1 DEF EntryOK
    <2> QED BY <1>1, <2>1, WaitingShrinks DEF OneLink
<1>14. MessagesOK'
    <2>1. \A t \in Tags : Has(handled, t, HELLO_BYTES) => IsAsked(hellos, t)
        BY DEF OneLink, MessagesOK
    <2>2. ASSUME NEW q \in Phones, NEW t \in Tags, Has(logged'[q], To(t), ANSWER_BYTES)
          PROVE  Has(handled, t, HELLO_BYTES)
        <3>1. To(t) \in AnswerTags /\ To(t).to = t
            BY TagParts
        <3>2. CASE Has(logged[q], To(t), ANSWER_BYTES)
            BY <3>2 DEF OneLink, MessagesOK
        <3>3. CASE To(t) = TagOf(c)
            BY <1>8, <3>1, <3>3
        <3> QED BY <1>10, <2>2, <3>1, <3>2, <3>3
    <2> QED BY <1>1, <2>1, <2>2 DEF MessagesOK
<1>15. ReplyOK'
    <2> SUFFICES ASSUME reply # NONE PROVE ReplyOK'
        BY <1>1 DEF ReplyOK
    <2>1. /\ partial_rx = NONE /\ reply.on \in 1..connects
          /\ \E i \in 1..Len(hellos[reply.phone]) : hellos[reply.phone][i] = reply.on
        BY DEF OneLink, ReplyOK
    <2>2. PICK t \in Tags : ReplyFor(t)
        BY DEF OneLink, ReplyOK
    <2>3. To(t) \in AnswerTags
        BY TagParts
    <2>4. \A q \in Phones : \A i \in 1..Len(air[q]) : air[q][i].last => TagOf(air[q][i]) # To(t)
        BY <2>2 DEF ReplyFor
    <2>5. ASSUME NEW q \in Phones PROVE ~ Has(logged'[q], To(t), ANSWER_BYTES)
        <3>1. ~ Has(logged[q], To(t), ANSWER_BYTES)
            BY <2>2 DEF ReplyFor
        <3>2. ~ (c.last /\ To(t) = TagOf(c))
            BY <1>3, <2>4
        <3> QED BY <1>10, <2>3, <3>1, <3>2
    <2>6. ASSUME NEW q \in Phones, NEW i \in 1..Len(air'[q]), air'[q][i].last PROVE TagOf(air'[q][i]) # To(t)
        <3>1. CASE q = p
            <4>1. air'[q][i] = a[i + 1] /\ i + 1 \in 1..n
                BY <1>3, <3>1
            <4> QED BY <2>4, <2>6, <3>1, <4>1
        <3>2. CASE q # p
            BY <1>4, <2>4, <2>6, <3>2
        <3> QED BY <3>1, <3>2
    <2>7. ASSUME NEW m, Follows(tx_writer[1], To(t), m) PROVE Follows(tx_writer[1], To(t), m)'
        <3>1. tx_writer # NONE /\ tx_writer[1] \in Phones
            BY LinkTypes DEF OneLink
        <3>2. CASE tx_writer[1] # p
            BY <1>1, <1>4, <2>7, <3>1, <3>2 DEF Follows
        <3>3. CASE tx_writer[1] = p
            <4>1. a[n].fragment = <<To(t), m>>
                BY <1>1, <2>7, <3>3 DEF Follows
            <4>2. CASE n = 1
                <5>1. air'[p] = <<>>
                    <6>1. Len(air'[p]) = 0
                        BY <1>3, <4>2
                    <6> QED BY <1>3, <6>1, EmptySeq
                <5>2. TagOf(c) = To(t) /\ c.chunk_index + 1 = m
                    BY <1>3, <1>8, <4>1, <4>2
                <5>3. result.partial # NONE =>
                        TagIn(result.partial) = To(t) /\ result.partial.next_chunk_index = m
                    BY <1>9, <5>2
                <5> QED BY <1>1, <1>4, <3>3, <5>1, <5>3 DEF Follows
            <4>3. CASE n # 1
                <5>1. n - 1 \in 1..(n - 1) /\ (n - 1) + 1 = n /\ n - 1 # 0
                    BY <1>0, <4>3, Predecessor
                <5>2. air'[p] # <<>>
                    BY <1>3, <5>1, EmptySeq
                <5>3. air'[p][Len(air'[p])] = a[n]
                    BY <1>3, <5>1
                <5> QED BY <1>1, <3>3, <4>1, <5>2, <5>3 DEF Follows
            <4> QED BY <4>2, <4>3
        <3> QED BY <3>2, <3>3
    <2>8. ReplyFor(t)'
        <3>1. Live' <=> Live
            BY <1>1 DEF Live
        <3> QED BY <1>1, <2>2, <2>5, <2>6, <2>7, <3>1 DEF ReplyFor
    <2> QED BY <1>1, <2>1, <2>8 DEF ReplyOK
<1>16. AirsOK'
    <2> SUFFICES ASSUME NEW q \in Phones PROVE AirOK(q)'
        BY DEF AirsOK
    <2>1. CASE q # p
        <3>1. \A d : FragmentOK(q, d) => FragmentOK(q, d)'
            BY <1>1, <1>4, <2>1 DEF FragmentOK
        <3>2. ASSUME NEW i \in 1..Len(air'[q]) PROVE FragmentOK(q, air[q][i])'
            <4> PICK d : d = air[q][i]
                OBVIOUS
            <4>1. air'[q] = air[q] /\ AirOK(q)
                BY <1>4, <1>5, <2>1
            <4>2. FragmentOK(q, d)
                BY <4>1 DEF AirOK
            <4>3. FragmentOK(q, d)'
                BY <3>1, <4>2
            <4> QED BY <4>1, <4>3
        <3>3. AirOK(q) /\ air'[q] = air[q] /\ partialTx'[q] = partialTx[q]
            BY <1>4, <1>5, <2>1
        <3> QED BY <3>2, <3>3 DEF AirOK
    <2>2. CASE q = p
        <3>1. ASSUME NEW i \in 1..(n - 1) PROVE FragmentOK(p, air[p][i])'
            <4> PICK d : d = a[i + 1]
                OBVIOUS
            <4>1. FragmentOK(p, d) /\ d = air'[p][i] /\ i + 1 \in 1..n /\ TagOf(d) \in AnswerTags
                BY <1>3, <1>6, <1>7
            <4>2. d.last => ~ Has(logged'[p], TagOf(d), ANSWER_BYTES)
                <5> SUFFICES ASSUME d.last PROVE ~ Has(logged'[p], TagOf(d), ANSWER_BYTES)
                    OBVIOUS
                <5>1. 1 \in 1..(i + 1 - 1)
                    BY <1>3
                <5>2. ~ (c.last /\ TagOf(d) = TagOf(c))
                    BY <1>3, <1>6, <4>1, <5>1
                <5>3. ~ Has(logged[p], TagOf(d), ANSWER_BYTES)
                    BY <4>1 DEF FragmentOK
                <5> QED BY <1>10, <4>1, <5>2, <5>3
            <4>3. FragmentOK(p, d)'
                BY <1>1, <4>1, <4>2 DEF FragmentOK
            <4> QED BY <4>1, <4>3
        <3>2. ASSUME NEW i \in 1..(n - 1), NEW j \in 1..(i - 1), air'[p][j].last, air'[p][i].last
              PROVE  TagOf(air'[p][j]) # TagOf(air'[p][i])
            <4>1. air'[p][i] = a[i + 1] /\ i + 1 \in 1..n /\ j + 1 \in 1..((i + 1) - 1) /\ j \in 1..(n - 1)
                BY <1>3
            <4>2. air'[p][j] = a[j + 1]
                BY <1>3, <4>1
            <4> QED BY <1>6, <3>2, <4>1, <4>2
        <3>3. ASSUME NEW i \in 2..(n - 1), air'[p][i].chunk_index > 0
              PROVE  air'[p][i - 1].fragment = <<TagOf(air'[p][i]), air'[p][i].chunk_index>>
            <4>1. i + 1 \in 2..n /\ i \in 1..(n - 1) /\ i - 1 \in 1..(n - 1) /\ (i - 1) + 1 = (i + 1) - 1
                BY <1>3
            <4>2. air'[p][i] = a[i + 1] /\ air'[p][i - 1] = a[(i + 1) - 1]
                BY <1>3, <4>1
            <4> QED BY <1>6, <3>3, <4>1, <4>2
        <3>4. ASSUME air'[p] # <<>>, air'[p][1].chunk_index > 0, result.partial # NONE
              PROVE  TagIn(result.partial) = TagOf(air'[p][1])
                     /\ result.partial.next_chunk_index = air'[p][1].chunk_index
            <4>1. Len(air'[p]) # 0
                BY <1>3, <3>4, EmptySeq
            <4>2. 1 \in 1..(n - 1) /\ 2 \in 2..n
                BY <1>0, <4>1, Predecessor
            <4>3. air'[p][1] = a[2]
                BY <1>3, <4>2
            <4>4. a[1].fragment = <<TagOf(a[2]), a[2].chunk_index>>
                BY <1>6, <3>4, <4>2, <4>3
            <4>5. TagOf(c) = TagOf(a[2]) /\ c.chunk_index + 1 = a[2].chunk_index
                BY <1>3, <1>8, <4>4
            <4> QED BY <1>9, <3>4, <4>3, <4>5
        <3>5. result.partial # NONE => IsBegun(result.partial)
            BY <1>9
        <3> QED BY <1>3, <1>4, <2>2, <3>1, <3>2, <3>3, <3>4, <3>5 DEF AirOK
    <2> QED BY <2>1, <2>2
<1> QED BY <1>11, <1>12, <1>13, <1>14, <1>15, <1>16 DEF OneLink

-----------------------------------------------------------------------------
(* Every step *)

(* Nothing waits and nothing was said initially.                           *)
LEMMA InitKeeps == Init => OneLink
<1> SUFFICES ASSUME Init PROVE OneLink
    OBVIOUS
<1>1. TypeOK
    BY InitType
<1>2. /\ link = [p \in Phones |-> 0] /\ hellos = [p \in Phones |-> <<>>] /\ tx_writer = NONE
      /\ waiting = <<>> /\ partial_rx = NONE /\ reply = NONE
      /\ pendingWrites = [p \in Phones |-> <<>>] /\ callbacks = [p \in Phones |-> 0]
      /\ handled = <<>> /\ logged = [p \in Phones |-> <<>>]
      /\ air = [p \in Phones |-> <<>>] /\ partialTx = [p \in Phones |-> NONE]
    BY DEF Init
<1>3. LinksOK
    BY <1>2 DEF LinksOK
<1>4. WaitingOK /\ InOrder(waiting)
    BY <1>2 DEF WaitingOK, InOrder
<1>5. PartialOK /\ ReplyOK
    BY <1>2 DEF PartialOK, ReplyOK
<1>6. PhonesOK
    BY <1>2 DEF PhonesOK, PendingOK, CallbackOK
<1>7. MessagesOK
    BY <1>2 DEF MessagesOK, Has, Contains
<1>8. AirsOK
    BY <1>2 DEF AirsOK, AirOK
<1> QED BY <1>1, <1>3, <1>4, <1>5, <1>6, <1>7, <1>8 DEF OneLink

(* Every step keeps the invariant, one link being up at most.              *)
LEMMA NextKeeps == ASSUME MaxLinks = 1 PROVE OneLink /\ [Next]_vars => OneLink'
<1> SUFFICES ASSUME OneLink, [Next]_vars PROVE OneLink'
    OBVIOUS
<1>1. ASSUME NEW p \in Phones, Connect(p) PROVE OneLink'
    BY <1>1, ConnectKeeps
<1>2. ASSUME NEW p \in Phones, Disconnect(p) PROVE OneLink'
    BY <1>2, DisconnectKeeps
<1>3. ASSUME NEW p \in Phones, AppRestart(p) PROVE OneLink'
    BY <1>3, AppRestartKeeps
<1>4. ASSUME NEW p \in Phones, OnDescriptorWrite(p) PROVE OneLink'
    BY <1>4, OnDescriptorWriteKeeps
<1>5. ASSUME NEW p \in Phones, OnCharacteristicWrite(p) PROVE OneLink'
    BY <1>5, OnCharacteristicWriteKeeps
<1>6. ASSUME NEW p \in Phones, OnCharacteristicChanged(p) PROVE OneLink'
    BY <1>6, OnCharacteristicChangedKeeps
<1>7. CASE Server
    BY <1>7, HandleRxChunkKeeps, SendTxChunkKeeps, TakeSubscriptionKeeps DEF Server
<1>8. CASE UNCHANGED vars
    <2>1. /\ tx_writer' = tx_writer /\ partial_rx' = partial_rx /\ waiting' = waiting /\ reply' = reply
          /\ link' = link /\ subscribed' = subscribed /\ writing' = writing /\ callbacks' = callbacks
          /\ air' = air /\ pendingWrites' = pendingWrites /\ partialTx' = partialTx
          /\ nextTransportMessageId' = nextTransportMessageId
          /\ connects' = connects /\ hellos' = hellos /\ handled' = handled /\ logged' = logged
        BY <1>8 DEF vars, server, phones
    <2>2. TypeOK'
        BY <1>8, NextType DEF OneLink
    <2>3. LinksOK' /\ PartialOK' /\ MessagesOK'
        BY <2>1 DEF OneLink, LinksOK, PartialOK, CurrentShift, MessagesOK
    <2>4. WaitingOK' /\ InOrder(waiting)'
        <3>1. \A v : EntryOK(v) => EntryOK(v)'
            BY <2>1 DEF EntryOK, WriteOK, MeetsPartial, IsNew, CurrentShift, Latest
        <3> QED BY <2>1, <3>1, WaitingShrinks DEF OneLink
    <2>5. PhonesOK'
        BY <2>1 DEF OneLink, PhonesOK, PendingOK, CallbackOK, Latest
    <2>6. ReplyOK'
        <3>1. \A t : ReplyFor(t) => ReplyFor(t)'
            BY <2>1 DEF ReplyFor, Live, Follows
        <3> QED BY <2>1, <3>1 DEF OneLink, ReplyOK
    <2>7. AirsOK'
        <3>1. \A q, d : FragmentOK(q, d) => FragmentOK(q, d)'
            BY <2>1 DEF FragmentOK
        <3>2. ASSUME NEW q \in Phones PROVE AirOK(q)'
            <4>1. AirOK(q)
                BY DEF OneLink, AirsOK
            <4>2. ASSUME NEW i \in 1..Len(air'[q]) PROVE FragmentOK(q, air[q][i])'
                <5> PICK d : d = air[q][i]
                    OBVIOUS
                <5>1. FragmentOK(q, d)'
                    BY <2>1, <3>1, <4>1 DEF AirOK
                <5> QED BY <2>1, <5>1
            <4> QED BY <2>1, <4>1, <4>2 DEF AirOK
        <3> QED BY <3>2 DEF AirsOK
    <2> QED BY <2>2, <2>3, <2>4, <2>5, <2>6, <2>7 DEF OneLink
<1> QED BY <1>1, <1>2, <1>3, <1>4, <1>5, <1>6, <1>7, <1>8 DEF Next

(* While one link is up at most ("only one active control session"), what  *)
(* waits, what is half received and what is on its way agree: no chunk can *)
(* meet a partial message it does not belong to, and no last chunk comes   *)
(* twice.                                                                  *)
THEOREM Inductive == ASSUME MaxLinks = 1 PROVE Spec => []OneLink
<1>1. Init => OneLink
    BY InitKeeps
<1>2. OneLink /\ [Next]_vars => OneLink'
    BY NextKeeps
<1> QED BY <1>1, <1>2, PTL DEF Spec

-----------------------------------------------------------------------------
(* Messages are whole *)

(* What was asked is a request of BleExchange.                             *)
LEMMA RequestOf ==
    ASSUME NEW t, IsAsked(hellos, t)
    PROVE  t \in Tags /\ t[1] \in Phones /\ Message(t, HELLO_BYTES) \in Requests(t[1])
<1>1. t \in Tags /\ t = <<t[1], t[2], t[3]>> /\ t[1] \in Phones
      /\ t[3] \in 1..Len(hellos[t[1]]) /\ t[2] = hellos[t[1]][t[3]]
    BY TagParts DEF IsAsked
<1>2. Message(t, HELLO_BYTES) = Hello(t[1], t[3])
    BY <1>1 DEF Hello
<1>3. t[3] \in DOMAIN hellos[t[1]]
    BY <1>1
<1> QED BY <1>1, <1>2, <1>3 DEF Requests

(* A subscription taken by the phone is its request.                       *)
LEMMA AskStep == ASSUME OneLink, NEW p \in Phones, OnDescriptorWrite(p) PROVE Exchange!Ask(p)
<1>1. /\ hellos' = [hellos EXCEPT ![p] = Append(@, link[p])] /\ handled' = handled /\ logged' = logged
      /\ hellos \in [Phones -> Seq(Nat)] /\ link[p] \in Nat
    BY LinkTypes DEF OneLink, OnDescriptorWrite
<1>2. /\ Len(hellos'[p]) = Len(hellos[p]) + 1 /\ Len(hellos[p]) \in Nat
      /\ \A n \in 1..Len(hellos[p]) : hellos'[p][n] = hellos[p][n]
      /\ DOMAIN hellos[p] = 1..Len(hellos[p]) /\ DOMAIN hellos'[p] = 1..Len(hellos'[p])
    <2> PICK more : more = Append(hellos[p], link[p])
        OBVIOUS
    <2>1. /\ Len(more) = Len(hellos[p]) + 1 /\ Len(hellos[p]) \in Nat /\ more \in Seq(Nat)
          /\ \A n \in 1..Len(hellos[p]) : more[n] = hellos[p][n]
        BY <1>1, Appending
    <2>2. hellos'[p] = more
        BY <1>1
    <2> QED BY <1>1, <2>1, <2>2
<1>3. Requests(p) \subseteq Requests(p)'
    <2> SUFFICES ASSUME NEW n \in DOMAIN hellos[p] PROVE Hello(p, n) \in Requests(p)'
        BY DEF Requests
    <2>1. n \in DOMAIN hellos'[p] /\ hellos'[p][n] = hellos[p][n]
        BY <1>2
    <2>2. Hello(p, n) = Hello(p, n)'
        BY <2>1 DEF Hello
    <2> QED BY <2>1, <2>2 DEF Requests
<1>4. ASSUME NEW q \in Phones, q # p PROVE Requests(q)' = Requests(q)
    <2>1. hellos'[q] = hellos[q]
        BY <1>1, <1>4
    <2> QED BY <2>1 DEF Requests, Hello
<1> QED BY <1>1, <1>3, <1>4 DEF Exchange!Ask

(* A write that completes a request serves it; any other changes nothing.  *)
LEMMA ServeStep ==
    ASSUME OneLink, NEW k \in DOMAIN waiting, HandleRxChunk(k)
    PROVE  Exchange!Next \/ UNCHANGED Exchange!vars
<1> PICK w : w = waiting[k]
    OBVIOUS
<1> PICK result : result = Received(partial_rx, w.chunk)
    OBVIOUS
<1> PICK tag : tag = TagOf(w.chunk)
    OBVIOUS
<1>1. waiting \in Seq(Entries) /\ k \in 1..Len(waiting)
    BY LinkTypes, LenProperties DEF OneLink
<1>2. w \in Entries /\ w.chunk # NONE /\ EntryOK(w)
    BY <1>1, ElementOfSeq DEF HandleRxChunk, IsTurn, OneLink, WaitingOK
<1>3. WriteOK(w)
    BY <1>2 DEF EntryOK
<1>4. IsAsked(hellos, tag) /\ IsNew(w)
    BY <1>3 DEF WriteOK
<1>5. result.message # NONE => w.chunk.last /\ result.message = Message(tag, HELLO_BYTES)
    BY <1>2, ReceivedChunk
<1>6. /\ handled' = IF result.message = NONE THEN handled ELSE Append(handled, result.message)
      /\ hellos' = hellos /\ logged' = logged
    BY DEF HandleRxChunk
<1>7. CASE result.message = NONE
    BY <1>6, <1>7 DEF Exchange!vars, Requests, Hello
<1>8. CASE result.message # NONE
    <2> PICK request : request = Message(tag, HELLO_BYTES)
        OBVIOUS
    <2>1. tag[1] \in Phones /\ request \in Requests(tag[1])
        BY <1>4, RequestOf
    <2>2. ~ Contains(handled, request)
        BY <1>4, <1>5, <1>8 DEF IsNew, Has
    <2>3. handled' = Append(handled, request)
        BY <1>5, <1>6, <1>8
    <2>4. Exchange!Serve(request)
        BY <1>6, <2>2, <2>3 DEF Exchange!Serve, Exchange!Contains, Contains, Requests, Hello
    <2> QED BY <2>1, <2>4 DEF Exchange!Next
<1> QED BY <1>7, <1>8

(* A notification that completes an answer tells it; any other changes     *)
(* nothing.                                                                *)
LEMMA TellStep ==
    ASSUME OneLink, NEW p \in Phones, OnCharacteristicChanged(p)
    PROVE  Exchange!Next \/ UNCHANGED Exchange!vars
<1> PICK c : c = Head(air[p])
    OBVIOUS
<1> PICK result : result = Reassembled(partialTx[p], Head(air[p]))
    OBVIOUS
<1> PICK t : t = TagOf(c).to
    OBVIOUS
<1>1. /\ logged' = IF result.message = NONE THEN logged
                   ELSE [logged EXCEPT ![p] = Append(@, result.message)]
      /\ hellos' = hellos /\ handled' = handled
    BY DEF OnCharacteristicChanged
<1>2. /\ FragmentOK(p, c)
      /\ result.message # NONE => c.last /\ result.message = Message(TagOf(c), ANSWER_BYTES)
    <2>1. air[p] # <<>>
        BY DEF OnCharacteristicChanged
    <2> QED BY <2>1, ToldChunk
<1>3. /\ TagOf(c) = To(t) /\ IsAsked(hellos, t) /\ Has(handled, t, HELLO_BYTES) /\ t[1] = p
      /\ c.last => ~ Has(logged[p], To(t), ANSWER_BYTES)
    BY <1>2 DEF FragmentOK
<1>4. CASE result.message = NONE
    BY <1>1, <1>4 DEF Exchange!vars, Requests, Hello
<1>5. CASE result.message # NONE
    <2> PICK request : request = Message(t, HELLO_BYTES)
        OBVIOUS
    <2>1. request \in Requests(p) /\ Answer(request) = Message(To(t), ANSWER_BYTES)
        BY <1>3, RequestOf, HelloAnswer
    <2>2. Contains(handled, request) /\ ~ Contains(logged[p], Answer(request))
        BY <1>2, <1>3, <1>5, <2>1 DEF Has
    <2>3. logged' = [logged EXCEPT ![p] = Append(@, Answer(request))]
        BY <1>1, <1>2, <1>3, <1>5, <2>1
    <2>4. Exchange!Tell(p, request)
        <3>1. Exchange!Contains(handled, request) /\ ~ Exchange!Contains(logged[p], Answer(request))
            BY <2>2 DEF Exchange!Contains, Contains
        <3>2. UNCHANGED <<[q \in Phones |-> Requests(q)], handled>>
            BY <1>1 DEF Requests, Hello
        <3> QED BY <2>3, <3>1, <3>2 DEF Exchange!Tell
    <2> QED BY <2>1, <2>4 DEF Exchange!Next
<1> QED BY <1>4, <1>5

(* While one link is up at most, the BLE link implements the exchange of   *)
(* whole messages: each step of it is a step of BleExchange or changes     *)
(* nothing BleExchange knows of.                                           *)
THEOREM Whole == ASSUME MaxLinks = 1 PROVE Spec => MessagesAreWhole
<1>1. Init => Exchange!Init
    <2>1. Init => \A p \in Phones : Requests(p) = {}
        BY DEF Init, Requests
    <2> QED BY <2>1 DEF Init, Exchange!Init
<1>2. OneLink /\ [Next]_vars => [Exchange!Next]_(Exchange!vars)
    <2> SUFFICES ASSUME OneLink, [Next]_vars PROVE Exchange!Next \/ UNCHANGED Exchange!vars
        OBVIOUS
    <2>1. ASSUME hellos' = hellos, handled' = handled, logged' = logged PROVE UNCHANGED Exchange!vars
        BY <2>1 DEF Exchange!vars, Requests, Hello
    <2>2. ASSUME NEW p \in Phones, OnDescriptorWrite(p) PROVE Exchange!Next
        BY <2>2, AskStep DEF Exchange!Next
    <2>3. ASSUME NEW p \in Phones, Connect(p) \/ Disconnect(p) \/ AppRestart(p) \/ OnCharacteristicWrite(p)
          PROVE  hellos' = hellos /\ handled' = handled /\ logged' = logged
        BY <2>3 DEF Connect, Disconnect, AppRestart, OnCharacteristicWrite
    <2>4. ASSUME SendTxChunk \/ TakeSubscription \/ UNCHANGED vars
          PROVE  hellos' = hellos /\ handled' = handled /\ logged' = logged
        BY <2>4 DEF SendTxChunk, TakeSubscription, vars
    <2> QED BY <2>1, <2>2, <2>3, <2>4, ServeStep, TellStep DEF Next, Server
<1>3. Spec => []OneLink
    BY Inductive
<1> QED BY <1>1, <1>2, <1>3, PTL DEF Spec, MessagesAreWhole, Exchange!Spec
=============================================================================
