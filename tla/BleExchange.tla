---------------------------- MODULE BleExchange ----------------------------
(***************************************************************************)
(* What the BLE link promises, without chunks, connections or locks: a     *)
(* phone asks; the server acts on a request at most once and never on      *)
(* anything but a request; a phone is told at most once, and only, the     *)
(* answers to what it asked itself.  Requests and answers may get lost.    *)
(***************************************************************************)
EXTENDS Sequences, SequencesExt

CONSTANTS Phones, Answer(_)

VARIABLES
    asked,   \* the requests of each phone
    served,  \* the requests the server acted on, in order
    told     \* the answers each phone was given, in order
vars == <<asked, served, told>>

Init == asked = [p \in Phones |-> {}] /\ served = <<>> /\ told = [p \in Phones |-> <<>>]

Ask(p) ==
    /\ asked[p] \subseteq asked'[p]
    /\ \A q \in Phones \ {p} : asked'[q] = asked[q]
    /\ UNCHANGED <<served, told>>

Serve(request) ==
    /\ ~ Contains(served, request)
    /\ served' = Append(served, request)
    /\ UNCHANGED <<asked, told>>

Tell(p, request) ==
    /\ Contains(served, request) /\ ~ Contains(told[p], Answer(request))
    /\ told' = [told EXCEPT ![p] = Append(@, Answer(request))]
    /\ UNCHANGED <<asked, served>>

Next == \E p \in Phones : Ask(p) \/ \E request \in asked[p] : Serve(request) \/ Tell(p, request)
Spec == Init /\ [][Next]_vars
=============================================================================
