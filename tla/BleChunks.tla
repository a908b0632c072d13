----------------------------- MODULE BleChunks -----------------------------
(***************************************************************************)
(* The chunk protocol "MB" version 1 that carries messages over one GATT   *)
(* characteristic: what encode_chunks, parse_chunk and reassemble_chunk of *)
(* tools/ble-gatt-spike/src/main.rs compute, and MainActivity.java's       *)
(* encodeChunks and reassembleChunk with them.                             *)
(*                                                                         *)
(* A message is the sequence of its fragments; a fragment is a pair of     *)
(* what it belongs to and its number.  Magic, version and the bytes of a   *)
(* fragment are left out, its size is not: lengths are what the receiver   *)
(* compares.                                                               *)
(***************************************************************************)
EXTENDS Integers, Sequences

CONSTANTS
    PAYLOAD,      \* bytes of a full fragment (TARGET_CHUNK_PAYLOAD_BYTES, 228)
    MAX_MESSAGE,  \* longest message a receiver starts on (MAX_MESSAGE_BYTES, 16 KiB)
    NONE          \* no partial message, no completed message

ASSUME PayloadAssumption == PAYLOAD \in Nat \ {0}
ASSUME MaxMessageAssumption == MAX_MESSAGE \in Nat

-----------------------------------------------------------------------------
(* Sending *)

ChunkCount(bytes) == IF bytes = 0 THEN 1 ELSE (bytes + PAYLOAD - 1) \div PAYLOAD

Message(what, bytes) == [i \in 1..ChunkCount(bytes) |-> <<what, i>>]

Chunk(id, what, bytes, i) ==
    LET count == ChunkCount(bytes) IN
    [message_id |-> id, chunk_index |-> i - 1, chunk_count |-> count,
     total_message_len |-> bytes, first |-> i = 1, last |-> i = count,
     fragment |-> <<what, i>>,
     size |-> IF i = count THEN bytes - (count - 1) * PAYLOAD ELSE PAYLOAD]

Chunks(id, what, bytes) == [i \in 1..ChunkCount(bytes) |-> Chunk(id, what, bytes, i)]

-----------------------------------------------------------------------------
(* Receiving *)

(* What parse_chunk accepts.                                               *)
WellFormed(chunk) ==
    /\ chunk.chunk_index < chunk.chunk_count
    /\ chunk.total_message_len <= MAX_MESSAGE
    /\ chunk.chunk_index = 0 => chunk.first
    /\ chunk.chunk_index + 1 = chunk.chunk_count => chunk.last

(* The partial message a chunk of index 0 starts.                          *)
Started(chunk) ==
    [message_id |-> chunk.message_id, next_chunk_index |-> 0,
     chunk_count |-> chunk.chunk_count, total_message_len |-> chunk.total_message_len,
     payload |-> <<>>, size |-> 0]

Continues_AnyMessage(partial, chunk) ==   \* Mutant: message_id is not compared.
    /\ partial.chunk_count = chunk.chunk_count
    /\ partial.total_message_len = chunk.total_message_len
    /\ partial.next_chunk_index = chunk.chunk_index
(* Does this chunk come next in that partial message?                      *)
Continues(partial, chunk) ==
    /\ partial.message_id = chunk.message_id
    /\ partial.chunk_count = chunk.chunk_count
    /\ partial.total_message_len = chunk.total_message_len
    /\ partial.next_chunk_index = chunk.chunk_index

Grown(partial, chunk) ==
    [partial EXCEPT !.payload = Append(@, chunk.fragment),
                    !.size = @ + chunk.size, !.next_chunk_index = @ + 1]

Dropped == [partial |-> NONE, message |-> NONE]

(* The partial message after a chunk, and the message it completes, if     *)
(* any.  A chunk of index 0 starts over whatever was there.                *)
Reassembled(partial, chunk) ==
    LET current == IF chunk.chunk_index = 0 THEN Started(chunk) ELSE partial
        grown == Grown(current, chunk) IN
    IF current = NONE \/ ~ Continues(current, chunk) THEN Dropped
    ELSE IF grown.size > grown.total_message_len THEN Dropped
    ELSE IF ~ chunk.last THEN [partial |-> grown, message |-> NONE]
    ELSE [partial |-> NONE,
          message |-> IF grown.size = grown.total_message_len THEN grown.payload ELSE NONE]

(* handle_rx_chunk: a malformed chunk drops the partial message as well.   *)
Received(partial, chunk) ==
    IF WellFormed(chunk) THEN Reassembled(partial, chunk) ELSE Dropped
=============================================================================
