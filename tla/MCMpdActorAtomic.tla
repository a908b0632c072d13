-------------------------- MODULE MCMpdActorAtomic --------------------------
(***************************************************************************)
(* A small instance of MpdActorAtomic for TLC.                             *)
(***************************************************************************)
EXTENDS MCMpdActor, MpdActorAtomic

Simple(name) == [kind |-> "action", cmd |-> [name |-> name]]
ById(n) == [by |-> "id", id |-> n]
ByPosition(n) == [by |-> "position", position |-> n]
OnSong(name, target) == [kind |-> "action", cmd |-> [name |-> name, target |-> target]]

(* Every request whose handler awaits MPD more than once, enqueues that    *)
(* fail half way, and edits that conflict with each.                       *)
QueueRequests ==
    {Toggle, Enqueue(<<good, good>>), Enqueue(<<good, bad>>), PlayNext(1),
     Simple("clear"), Simple("next"), OnSong("delete", ById(1)), OnSong("playsong", ByPosition(1)),
     SeekOverflow}
QueuesSaved == {<<>>, <<1, 2>>}
=============================================================================
