----------------------------- MODULE MCMpdActor -----------------------------
(***************************************************************************)
(* Small instances of MpdActor for TLC.                                    *)
(***************************************************************************)
EXTENDS MpdActorProps

CONSTANTS c1, c2, c3, good, bad

Enqueue(paths) == [kind |-> "enqueue", paths |-> paths]
SetVolume(n) == [kind |-> "setvol", level |-> n]
PlayNext(n) == [kind |-> "move_after_current", target |-> [by |-> "position", position |-> n]]
Toggle == [kind |-> "toggle"]
SeekOverflow == [kind |-> "seek_overflow"]

NothingSaved == {<<>>}

(* Three callers: one request in hand, one in the channel, one before it.  *)
TransportRequests == {SetVolume(255), Toggle, SeekOverflow, Enqueue(<<good>>)}

(* An enqueue with its autoplay, one of nothing, play-next, and a panic.   *)
LiveRequests == {Enqueue(<<good>>), Enqueue(<<>>), PlayNext(0), SeekOverflow}

Symmetry == Permutations(Calls)
=============================================================================
