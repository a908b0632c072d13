---------------------------- MODULE BleLinkProps ----------------------------
(***************************************************************************)
(* What the BLE link promises: correctness properties of BleLink.          *)
(***************************************************************************)
EXTENDS BleLink

Tags == Phones \X Nat \X Nat
ChunksOf(Whats) == [message_id : Nat, chunk_index : Nat, chunk_count : Nat,
                    total_message_len : Nat, first : BOOLEAN, last : BOOLEAN,
                    fragment : Whats \X Nat, size : Nat]
PartialsOf(Whats) == [message_id : Nat, next_chunk_index : Nat, chunk_count : Nat,
                      total_message_len : Nat, payload : Seq(Whats \X Nat), size : Nat]
AnswerTags == [to : Tags \cup {NONE}]
Replies == [phone : Phones, on : Nat, rest : Seq(ChunksOf(AnswerTags))]

ASSUME NoneAssumption ==
    /\ NONE \notin ChunksOf(Tags) /\ NONE \notin PartialsOf(Tags) \cup PartialsOf(AnswerTags)
    /\ NONE \notin Seq(Tags \X Nat) \cup Seq(AnswerTags \X Nat)
    /\ NONE \notin Tags /\ NONE \notin Phones \X Nat /\ NONE \notin Replies

ServerTypeOK ==
    /\ tx_writer \in (Phones \X Nat) \cup {NONE}
    /\ partial_rx \in PartialsOf(Tags) \cup {NONE}
    /\ waiting \in Seq([phone : Phones, on : Nat, chunk : ChunksOf(Tags) \cup {NONE}])
    /\ reply \in Replies \cup {NONE}
    /\ reply # NONE => reply.rest # <<>> /\ tx_writer # NONE
    /\ handled \in Seq(Seq(Tags \X Nat))
PhonesTypeOK ==
    /\ link \in [Phones -> Nat] /\ subscribed \subseteq Phones
    /\ writing \in [Phones -> BOOLEAN] /\ callbacks \in [Phones -> Nat]
    /\ air \in [Phones -> Seq(ChunksOf(AnswerTags))]
    /\ pendingWrites \in [Phones -> Seq(ChunksOf(Tags))]
    /\ partialTx \in [Phones -> PartialsOf(AnswerTags) \cup {NONE}]
    /\ nextTransportMessageId \in [Phones -> Nat]
    /\ connects \in Nat /\ hellos \in [Phones -> Seq(Nat)]
    /\ logged \in [Phones -> Seq(Seq(AnswerTags \X Nat))]

(* No partial message grows past its length, a message under way is never  *)
(* longer than the receiver allows, and an answer is sent to a subscriber. *)
TypeOK ==
    /\ ServerTypeOK /\ PhonesTypeOK
    /\ partial_rx # NONE => partial_rx.size <= partial_rx.total_message_len
                            /\ partial_rx.total_message_len <= MAX_MESSAGE

Requests(p) == {Hello(p, n) : n \in DOMAIN hellos[p]}

(* Messages are exchanged whole: through chunks that are lost or not       *)
(* queued, links that break, apps that restart with the same message ids,  *)
(* and server state that outlives them all, no two messages are ever       *)
(* joined, no request is acted on twice, and a phone shows only answers to *)
(* its own requests, each once.  reassemble_chunk, handle_rx_chunk.        *)
Exchange == INSTANCE BleExchange WITH
    asked <- [p \in Phones |-> Requests(p)], served <- handled, told <- logged
MessagesAreWhole == Exchange!Spec

-----------------------------------------------------------------------------
(* Liveness *)

(* Every write returns: no chunk waits for the lock for ever, although it  *)
(* is held while an answer is sent to a phone that may have gone.          *)
EveryWriteReturns == \A p \in Phones : writing[p] ~> ~ writing[p]

Begun(p, n) ==
    /\ n \in DOMAIN hellos[p] /\ tx_writer = <<p, hellos[p][n]>> /\ hellos[p][n] = link[p]
    /\ reply # NONE /\ Head(reply.rest).fragment[1].to = <<p, hellos[p][n], n>>
(* Once the server starts an answer to the phone that asked for it, the    *)
(* phone shows the whole answer or loses the link.                         *)
AnswersArrive ==
    \A p \in Phones, n \in 1..MaxHellos :
        Begun(p, n) ~> \/ n \in DOMAIN hellos[p] /\ hellos[p][n] # link[p]
                       \/ n \in DOMAIN hellos[p] /\ Contains(logged[p], Answer(Hello(p, n)))
=============================================================================
