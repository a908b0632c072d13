------------------------------ MODULE BleLink ------------------------------
(***************************************************************************)
(* The BLE link: the GATT server tools/ble-gatt-spike/src/main.rs and the  *)
(* app tools/android-ble-smoke (MainActivity.java) on the phones that use  *)
(* it.  A phone connects, subscribes to the TX characteristic and writes   *)
(* system.hello to the RX characteristic, one chunk per write; the server  *)
(* reassembles the request and notifies its answer, also in chunks.        *)
(*                                                                         *)
(* The server keeps one SpikeState for everybody and never learns of a     *)
(* disconnect.  Each written chunk is handled under its lock, held until   *)
(* the last chunk of an answer is sent; the task that takes new            *)
(* subscriptions needs the same lock.  Links break and apps restart at any *)
(* time.  BlueZ, Android's GATT stack and the radio are external: on a     *)
(* link nothing is reordered or repeated, and what is under way when it    *)
(* breaks may be lost.  rx_count, which nothing reads, is left out.        *)
(***************************************************************************)
EXTENDS BleChunks, FiniteSets, SequencesExt

CONSTANTS
    Phones,
    HELLO_BYTES,   \* length of a system.hello request
    ANSWER_BYTES,  \* length of its answer
    ERROR_BYTES,   \* length of a bad_request answer
    MaxLinks,      \* links up at once (1: "only one active control session")
    MaxConnects,   \* bound: connections made in all
    MaxHellos      \* bound: requests of one phone

ASSUME PhonesAssumption == IsFiniteSet(Phones)
ASSUME LengthAssumption == {HELLO_BYTES, ANSWER_BYTES, ERROR_BYTES} \subseteq 1..MAX_MESSAGE
ASSUME LinkBoundsAssumption == MaxLinks \in Nat /\ MaxConnects \in Nat /\ MaxHellos \in Nat

VARIABLES
    \* the server: SpikeState, and who waits for or holds its lock
    tx_writer,   \* <<phone, connection>> of the subscription taken last, or NONE
    partial_rx,  \* the request being reassembled, or NONE
    waiting,     \* handlers and subscriptions waiting for the lock, oldest first
    reply,       \* the answer being sent under the lock, or NONE
    \* the phones
    link,        \* the number of the phone's connection, 0 when it has none
    subscribed,  \* the phones whose subscription Android has confirmed
    writing,     \* a write of the phone is under way
    callbacks,   \* confirmed writes whose callback is due
    air,         \* notifications on their way to each phone
    pendingWrites, partialTx, nextTransportMessageId,
    \* history
    connects,    \* connections made so far
    hellos,      \* for each phone, the connection on which each request was made
    handled,     \* the messages the server has reassembled ("reassembled RX message")
    logged       \* the messages each phone has shown ("Complete TX message")

server == <<tx_writer, partial_rx, waiting, reply>>
phones == <<link, subscribed, writing, callbacks, air, pendingWrites, partialTx,
            nextTransportMessageId>>
vars == <<server, phones, connects, hellos, handled, logged>>

Hello(p, n) == Message(<<p, hellos[p][n], n>>, HELLO_BYTES)

(* handle_message: a whole hello is answered, anything else is not JSON.   *)
IsHello(message) == message = Message(message[1][1], HELLO_BYTES)
Answer(message) ==
    IF IsHello(message) THEN Message([to |-> message[1][1]], ANSWER_BYTES)
                        ELSE Message([to |-> NONE], ERROR_BYTES)
AnswerChunks(message) ==
    IF IsHello(message) THEN Chunks(1, [to |-> message[1][1]], ANSWER_BYTES)
                        ELSE Chunks(1, [to |-> NONE], ERROR_BYTES)

Init ==
    /\ tx_writer = NONE /\ partial_rx = NONE /\ waiting = <<>> /\ reply = NONE
    /\ link = [p \in Phones |-> 0] /\ subscribed = {}
    /\ writing = [p \in Phones |-> FALSE] /\ callbacks = [p \in Phones |-> 0]
    /\ air = [p \in Phones |-> <<>>]
    /\ pendingWrites = [p \in Phones |-> <<>>]
    /\ partialTx = [p \in Phones |-> NONE]
    /\ nextTransportMessageId = [p \in Phones |-> 1]
    /\ connects = 0 /\ hellos = [p \in Phones |-> <<>>]
    /\ handled = <<>> /\ logged = [p \in Phones |-> <<>>]

-----------------------------------------------------------------------------
(* The phones *)

Connect(p) ==
    /\ link[p] = 0 /\ Cardinality({q \in Phones : link[q] # 0}) < MaxLinks
    /\ connects < MaxConnects /\ connects' = connects + 1
    /\ link' = [link EXCEPT ![p] = connects']
    /\ UNCHANGED <<server, subscribed, writing, callbacks, air, pendingWrites, partialTx,
                   nextTransportMessageId, hellos, handled, logged>>

(* writeNextChunk: the next chunk is taken off the queue and then given to *)
(* Android, which may refuse it and does while another write is under way. *)
WriteNextChunk(p, chunks, queue) ==
    IF chunks = <<>>
    THEN /\ pendingWrites' = [pendingWrites EXCEPT ![p] = <<>>]
         /\ waiting' = queue /\ UNCHANGED writing
    ELSE /\ pendingWrites' = [pendingWrites EXCEPT ![p] = Tail(chunks)]
         /\ \/ waiting' = queue /\ UNCHANGED writing
            \/ /\ ~ writing[p]
               /\ writing' = [writing EXCEPT ![p] = TRUE]
               /\ waiting' = Append(queue, [phone |-> p, on |-> link[p], chunk |-> Head(chunks)])

(* onDescriptorWrite: notifications are enabled, the app sends its hello.  *)
(* Two scan results open two connections of the app on one link; only the  *)
(* first of them makes BlueZ announce a subscription to the server.        *)
OnDescriptorWrite(p) ==
    /\ link[p] # 0 /\ Len(hellos[p]) < MaxHellos
    /\ subscribed' = subscribed \cup {p}
    /\ hellos' = [hellos EXCEPT ![p] = Append(@, link[p])]
    /\ nextTransportMessageId' = [nextTransportMessageId EXCEPT ![p] = @ + 1]
    /\ WriteNextChunk(p, Chunks(nextTransportMessageId[p],
                                <<p, link[p], Len(hellos[p]) + 1>>, HELLO_BYTES),
                      IF p \in subscribed THEN waiting
                      ELSE Append(waiting, [phone |-> p, on |-> link[p], chunk |-> NONE]))
    /\ UNCHANGED <<tx_writer, partial_rx, reply, link, callbacks, air, partialTx,
                   connects, handled, logged>>

(* onCharacteristicWrite with GATT_SUCCESS.                                *)
OnCharacteristicWrite(p) ==
    /\ callbacks[p] > 0 /\ callbacks' = [callbacks EXCEPT ![p] = @ - 1]
    /\ WriteNextChunk(p, pendingWrites[p], waiting)
    /\ UNCHANGED <<tx_writer, partial_rx, reply, link, subscribed, air, partialTx,
                   nextTransportMessageId, connects, hellos, handled, logged>>

(* handleNotification: what does not fit is an exception that drops the    *)
(* partial message.                                                        *)
OnCharacteristicChanged(p) ==
    /\ air[p] # <<>>
    /\ air' = [air EXCEPT ![p] = Tail(@)]
    /\ LET result == Reassembled(partialTx[p], Head(air[p])) IN
       /\ partialTx' = [partialTx EXCEPT ![p] = result.partial]
       /\ logged' = IF result.message = NONE THEN logged
                    ELSE [logged EXCEPT ![p] = Append(@, result.message)]
    /\ UNCHANGED <<server, link, subscribed, writing, callbacks, pendingWrites,
                   nextTransportMessageId, connects, hellos, handled>>

(* The link ends; the write under way, if any, may or may not have reached *)
(* the server.                                                             *)
LinkEnds(p) ==
    /\ link[p] # 0
    /\ link' = [link EXCEPT ![p] = 0] /\ subscribed' = subscribed \ {p}
    /\ air' = [air EXCEPT ![p] = <<>>]
    /\ writing' = [writing EXCEPT ![p] = FALSE]
    /\ callbacks' = [callbacks EXCEPT ![p] = 0]
    /\ \/ UNCHANGED waiting
       \/ \E k \in DOMAIN waiting : /\ waiting[k].on = link[p] /\ waiting[k].chunk # NONE
                                  /\ waiting' = RemoveAt(waiting, k)

(* The app does nothing about a disconnect: its queue and its partial      *)
(* message stay.                                                           *)
Disconnect(p) ==
    /\ LinkEnds(p)
    /\ UNCHANGED <<tx_writer, partial_rx, reply, pendingWrites, partialTx,
                   nextTransportMessageId, connects, hellos, handled, logged>>

(* The activity is closed and opened again.                                *)
AppRestart(p) ==
    /\ LinkEnds(p)
    /\ pendingWrites' = [pendingWrites EXCEPT ![p] = <<>>]
    /\ partialTx' = [partialTx EXCEPT ![p] = NONE]
    /\ nextTransportMessageId' = [nextTransportMessageId EXCEPT ![p] = 1]
    /\ UNCHANGED <<tx_writer, partial_rx, reply, connects, hellos, handled, logged>>

-----------------------------------------------------------------------------
(* The server *)

(* The lock is fair: handlers get it in the order their chunks arrived.  A *)
(* subscription comes through one more channel and task, so that a handler *)
(* may get the lock before it.                                             *)
IsTurn(k) ==
    /\ reply = NONE /\ k \in DOMAIN waiting /\ waiting[k].chunk # NONE
    /\ \A j \in 1..(k - 1) : waiting[j].chunk = NONE

(* The handler of a write returns and BlueZ confirms the write.            *)
Confirm(p, on) ==
    IF link[p] = on THEN /\ writing' = [writing EXCEPT ![p] = FALSE]
                         /\ callbacks' = [callbacks EXCEPT ![p] = @ + 1]
                    ELSE UNCHANGED <<writing, callbacks>>

(* send_tx_message gives up where nobody has subscribed.                   *)
IsAnswered_Anyway(message) == message # NONE   \* Mutant: whether or not anybody has.
IsAnswered(message) == message # NONE /\ tx_writer # NONE

HandleRxChunk(k) ==
    /\ IsTurn(k)
    /\ waiting' = RemoveAt(waiting, k)
    /\ LET w == waiting[k]
           result == Received(partial_rx, w.chunk) IN
       /\ partial_rx' = result.partial
       /\ handled' = IF result.message = NONE THEN handled ELSE Append(handled, result.message)
       /\ IF IsAnswered(result.message)
          THEN /\ reply' = [phone |-> w.phone, on |-> w.on,
                            rest |-> AnswerChunks(result.message)]
               /\ UNCHANGED <<writing, callbacks>>
          ELSE Confirm(w.phone, w.on) /\ UNCHANGED reply
    /\ UNCHANGED <<tx_writer, link, subscribed, air, pendingWrites, partialTx,
                   nextTransportMessageId, connects, hellos, logged>>

SendTxChunk_OneShort ==   \* Mutant: the last chunk is not sent.
    /\ reply # NONE
    /\ LET p == tx_writer[1]
           live == link[p] = tx_writer[2] IN
       /\ air' = IF live THEN [air EXCEPT ![p] = Append(@, Head(reply.rest))] ELSE air
       /\ IF live /\ Len(reply.rest) > 2
          THEN reply' = [reply EXCEPT !.rest = Tail(@)] /\ UNCHANGED <<writing, callbacks>>
          ELSE reply' = NONE /\ Confirm(reply.phone, reply.on)
    /\ UNCHANGED <<tx_writer, partial_rx, waiting, link, subscribed, pendingWrites, partialTx,
                   nextTransportMessageId, connects, hellos, handled, logged>>
SendTxChunk_Waits ==   \* Mutant: the lock is kept until the subscriber is back.
    /\ reply # NONE /\ link[tx_writer[1]] = tx_writer[2]
    /\ air' = [air EXCEPT ![tx_writer[1]] = Append(@, Head(reply.rest))]
    /\ IF Len(reply.rest) > 1
       THEN reply' = [reply EXCEPT !.rest = Tail(@)] /\ UNCHANGED <<writing, callbacks>>
       ELSE reply' = NONE /\ Confirm(reply.phone, reply.on)
    /\ UNCHANGED <<tx_writer, partial_rx, waiting, link, subscribed, pendingWrites, partialTx,
                   nextTransportMessageId, connects, hellos, handled, logged>>
(* One writer.send: on a subscription that is over it fails and the rest   *)
(* of the answer is not sent.                                              *)
SendTxChunk ==
    /\ reply # NONE
    /\ LET p == tx_writer[1]
           live == link[p] = tx_writer[2] IN
       /\ air' = IF live THEN [air EXCEPT ![p] = Append(@, Head(reply.rest))] ELSE air
       /\ IF live /\ Len(reply.rest) > 1
          THEN reply' = [reply EXCEPT !.rest = Tail(@)] /\ UNCHANGED <<writing, callbacks>>
          ELSE reply' = NONE /\ Confirm(reply.phone, reply.on)
    /\ UNCHANGED <<tx_writer, partial_rx, waiting, link, subscribed, pendingWrites, partialTx,
                   nextTransportMessageId, connects, hellos, handled, logged>>

(* handle_tx_subscriptions, once it has the lock.                          *)
TakeSubscription ==
    /\ reply = NONE /\ waiting # <<>> /\ Head(waiting).chunk = NONE
    /\ tx_writer' = <<Head(waiting).phone, Head(waiting).on>>
    /\ waiting' = Tail(waiting)
    /\ UNCHANGED <<partial_rx, reply, phones, connects, hellos, handled, logged>>

Server == (\E k \in DOMAIN waiting : HandleRxChunk(k)) \/ SendTxChunk \/ TakeSubscription

Next ==
    \/ \E p \in Phones : \/ Connect(p) \/ Disconnect(p) \/ AppRestart(p)
                         \/ OnDescriptorWrite(p) \/ OnCharacteristicWrite(p)
                         \/ OnCharacteristicChanged(p)
    \/ Server
Spec == Init /\ [][Next]_vars

(* The runtime polls its tasks and Android calls back; nothing makes a     *)
(* phone connect, disconnect or subscribe.                                 *)
FairSpec == /\ Spec /\ WF_vars(Server)
            /\ \A p \in Phones : WF_vars(OnCharacteristicChanged(p))
=============================================================================
