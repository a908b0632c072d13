----------------------------- MODULE MpdServer -----------------------------
(***************************************************************************)
(* The Music Player Daemon as mba-player uses it: its playback state and   *)
(* what each protocol command that crates/mba-player/src/mpd.rs sends does *)
(* to it.  MPD is not part of the repository.  A command has a set of      *)
(* outcomes: an outcome says whether MPD accepts (OK) or refuses (ACK) the *)
(* command and the state it leaves.                                        *)
(*                                                                         *)
(* Abstracted: elapsed time, tags, the music database (adding a path may   *)
(* be accepted or refused) and queue modes (repeat, random), which         *)
(* mba-player never sets.                                                  *)
(***************************************************************************)
EXTENDS Integers, Sequences, SequencesExt

CONSTANTS
    SongIds,   \* queue ids MPD can have in use at once; a full queue refuses "add"
    Levels,    \* volume levels that clients ask for
    NONE       \* no song, no snapshot, no call

ASSUME SongIdsAssumption == SongIds \subseteq Nat
ASSUME LevelsAssumption == Levels \subseteq Nat
ASSUME NoneAssumption == NONE \notin SongIds

PlayStates == {"play", "pause", "stop"}
Volumes == 0..100

(* MPD's state: the queue is a sequence of distinct ids; current is the id *)
(* of the current song, which stays current while stopped.                 *)
MpdStates == [state : PlayStates, volume : Volumes,
              queue : Seq(SongIds), current : SongIds \cup {NONE}]

(* MPD as it starts with the queue of its state file, playing or not.      *)
RestoredMpd(q, level) ==
    [state : {"stop"}, volume : {level}, queue : {q}, current : {NONE}] \cup
    [state : PlayStates, volume : {level}, queue : {q}, current : {q[i] : i \in DOMAIN q}]

Holds(m, id) == \E i \in DOMAIN m.queue : m.queue[i] = id
IndexOf(m, id) == CHOOSE i \in DOMAIN m.queue : m.queue[i] = id

(* What "currentsong" and "status" answer; positions count from 0.         *)
CurrentSongOf(m) ==
    IF Holds(m, m.current)
    THEN [position |-> IndexOf(m, m.current) - 1, id |-> m.current]
    ELSE NONE
StatusOf(m) == [state |-> m.state, volume |-> m.volume,
                playlist_length |-> Len(m.queue), current_song |-> CurrentSongOf(m)]

-----------------------------------------------------------------------------
(* Outcomes *)

Ok(m) == [ok |-> TRUE, mpd |-> m]
Ack(m) == [ok |-> FALSE, mpd |-> m]

At(m, state, current) == [m EXCEPT !.state = state, !.current = current]
WithQueue(m, queue) == [m EXCEPT !.queue = queue]
WithVolume(m, volume) == [m EXCEPT !.volume = volume]

(* Playback moves past the current song, or stops and forgets it.          *)
StopAtEnd(m) == At(m, "stop", NONE)
AfterCurrent(m) ==
    IF Holds(m, m.current) /\ IndexOf(m, m.current) < Len(m.queue)
    THEN At(m, "play", m.queue[IndexOf(m, m.current) + 1])
    ELSE StopAtEnd(m)
BeforeCurrent(m) ==
    IF Holds(m, m.current) /\ IndexOf(m, m.current) > 1
    THEN At(m, "play", m.queue[IndexOf(m, m.current) - 1])
    ELSE At(m, "play", m.current)

PlayCurrent(m) ==
    IF m.queue = <<>> THEN m
    ELSE At(m, "play", IF m.current = NONE THEN m.queue[1] ELSE m.current)
Paused(m) == IF m.state = "play" THEN At(m, "pause", m.current) ELSE m

Cleared(m) == WithQueue(StopAtEnd(m), <<>>)

FreeIds(m) == {id \in SongIds : ~ Holds(m, id)}
Added(m) == WithQueue(m, Append(m.queue, CHOOSE id \in FreeIds(m) : TRUE))

(* A target names an id or a position; one not in the queue is refused.    *)
TargetIndexes(m, target) ==
    {i \in DOMAIN m.queue : IF target.by = "id" THEN m.queue[i] = target.id
                                                ELSE i = target.position + 1}

(* Deleting the current song stops playback or moves on to its successor.  *)
DeletedAt(m, i) ==
    LET rest == WithQueue(m, RemoveAt(m.queue, i))
    IN IF m.queue[i] # m.current THEN {rest}
       ELSE {StopAtEnd(rest)} \cup
            {At(rest, m.state, m.queue[j]) : j \in {i + 1} \cap DOMAIN m.queue}

MovedTo(m, i, to) == WithQueue(m, InsertAt(RemoveAt(m.queue, i), to, m.queue[i]))

(* "move <target> +0": just after the current song, which must exist and   *)
(* must not be the moved one.                                              *)
MovedAfterCurrent(m, i) ==
    LET c == IndexOf(m, m.current) IN MovedTo(m, i, IF i < c THEN c ELSE c + 1)

-----------------------------------------------------------------------------
(* The commands mpd.rs sends.  Queries leave MPD as it is; "update" starts *)
(* a database scan, "seek" moves within the song: neither changes the      *)
(* modelled state.                                                         *)

Queries == {"status", "currentsong", "playlistinfo"}

(* The commands on one song of the queue, at its index.                    *)
SongCommands == {"playsong", "delete", "move", "move_after_current"}
SongOutcomes(m, cmd, i) ==
    CASE cmd.name = "playsong" -> {Ok(At(m, "play", m.queue[i]))}
      [] cmd.name = "delete" -> {Ok(n) : n \in DeletedAt(m, i)}
      [] cmd.name = "move" -> {IF cmd.to < Len(m.queue) THEN Ok(MovedTo(m, i, cmd.to + 1))
                                                        ELSE Ack(m)}
      [] OTHER -> {IF Holds(m, m.current) /\ m.queue[i] # m.current
                   THEN Ok(MovedAfterCurrent(m, i)) ELSE Ack(m)}

PlainCommands == Queries \cup {"play", "pause", "stop", "next", "previous", "seek", "setvol",
                               "clear", "update", "add"}
CommandNames == PlainCommands \cup SongCommands

PlainOutcomes(m, cmd) ==
    CASE cmd.name = "play" -> {Ok(PlayCurrent(m))}
      [] cmd.name = "pause" -> {Ok(Paused(m))}
      [] cmd.name = "stop" -> {Ok(At(m, "stop", m.current))}
      [] cmd.name = "next" -> {IF m.state = "stop" THEN Ack(m) ELSE Ok(AfterCurrent(m))}
      [] cmd.name = "previous" -> {IF m.state = "stop" THEN Ack(m) ELSE Ok(BeforeCurrent(m))}
      [] cmd.name = "seek" -> {IF m.state = "stop" THEN Ack(m) ELSE Ok(m)}
      [] cmd.name = "setvol" -> {IF cmd.level \in Volumes THEN Ok(WithVolume(m, cmd.level))
                                                          ELSE Ack(m)}
      [] cmd.name = "clear" -> {Ok(Cleared(m))}
      [] cmd.name = "add" -> {Ack(m)} \cup (IF FreeIds(m) = {} THEN {} ELSE {Ok(Added(m))})
      [] OTHER -> {Ok(m)}

Outcomes(m, cmd) ==
    IF cmd.name \notin SongCommands THEN PlainOutcomes(m, cmd)
    ELSE IF TargetIndexes(m, cmd.target) = {} THEN {Ack(m)}
    ELSE UNION {SongOutcomes(m, cmd, i) : i \in TargetIndexes(m, cmd.target)}

-----------------------------------------------------------------------------
(* The idle subsystems MPD flags to a connected client.                    *)

Subsystems == {"Player", "Mixer", "Queue", "Update"}

Changes(m, n) ==
    (IF m.state # n.state \/ m.current # n.current THEN {"Player"} ELSE {}) \cup
    (IF m.volume # n.volume THEN {"Mixer"} ELSE {}) \cup
    (IF m.queue # n.queue THEN {"Queue"} ELSE {})

Flags(m, cmd, outcome) ==
    Changes(m, outcome.mpd) \cup
    (IF cmd.name = "seek" /\ outcome.ok THEN {"Player"} ELSE {}) \cup
    (IF cmd.name = "update" THEN {"Update"} ELSE {})

(* What MPD does without being asked by mba-player: a song ends, and the   *)
(* other clients on the machine (mpc of the startup-volume service, an     *)
(* administrator) clear the queue, pause or change the volume.             *)
Spontaneous(m) ==
    {Cleared(m)} \cup
    {WithVolume(m, level) : level \in Levels \cap Volumes} \cup
    (IF m.state = "play" THEN {AfterCurrent(m), Paused(m)} ELSE {})
=============================================================================
