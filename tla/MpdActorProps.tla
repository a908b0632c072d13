--------------------------- MODULE MpdActorProps ---------------------------
(***************************************************************************)
(* What the MPD client actor promises: correctness properties of MpdActor. *)
(***************************************************************************)
EXTENDS MpdActor

StatusSet == [state : PlayStates, volume : Volumes, playlist_length : Nat,
              current_song : [position : Nat, id : SongIds] \cup {NONE}]
SongSet == [position : Nat, id : SongIds] \cup {NONE}
PlaybackSet == [state : PlayStates, volume : Volumes, queue_length : Nat,
                queue_position : Nat \cup {NONE}, queue_id : SongIds \cup {NONE}]
WellFormed(cmd) == cmd.name \in CommandNames /\ (cmd.name = "move" => cmd.to \in Nat)
ResultSet == [kind : {"none", "Ok", "Command", "Unavailable", "ChannelClosed",
                      "Partial", "Unreconciled"}, added : Nat]
CallSet == [at : {"new", "sending", "waiting", "abandoned", "done"},
            req : Requests \cup {NoRequest}, result : ResultSet]
FrameSet == [status : StatusSet \cup {NONE}, added : Nat, failed : BOOLEAN]

ServerTypeOK ==
    /\ mpd \in MpdStates
    /\ link \in {"down", "up", "broken"}
    /\ events \subseteq Subsystems
    /\ spontaneous \in 0..MaxSpontaneous
CallersTypeOK ==
    /\ open \in BOOLEAN
    /\ call \in [Calls -> CallSet]
    /\ \A c \in Calls : call[c].at # "new" => call[c].req \in Requests
    /\ log \in [Calls -> Seq(CommandNames)]
ActorTypeOK ==
    /\ inbox \in Seq(Calls) /\ Len(inbox) <= COMMAND_QUEUE
    /\ snapshot \in PlaybackSet \cup {NONE}
    /\ pc \in ActorPoints
    /\ hand \in Calls \cup {NONE} /\ (hand # NONE <=> pc \in HandlerPoints)
    /\ frame \in FrameSet /\ (pc = "publish_song" => frame.status \in StatusSet)
    /\ backoff \in RECONNECT_INITIAL..RECONNECT_MAX
WireTypeOK ==
    /\ wire.at \in {"idle", "sent", "ok", "err"} /\ (wire.at = "idle" <=> pc \notin AwaitPoints)
    /\ wire.at # "idle" => WellFormed(wire.cmd)
    /\ wire.at = "ok" => wire.status \in StatusSet /\ wire.song \in SongSet

(* Every variable has its type; the channel is never over its capacity,    *)
(* a request is in hand exactly while a handler awaits MPD, and a command  *)
(* is in flight exactly while the actor awaits.                            *)
TypeOK == ServerTypeOK /\ CallersTypeOK /\ ActorTypeOK /\ WireTypeOK

-----------------------------------------------------------------------------
(* Calls and their answers *)

Places(c) == {i \in DOMAIN inbox : inbox[i] = c}

(* No call is lost or duplicated: a call whose caller awaits an answer is  *)
(* at one place, the command channel or the actor's hand, whatever         *)
(* reconnects, rejections and a dying task happened; a request whose       *)
(* caller has gone is at no more than one, and nothing else is anywhere.   *)
CallsAreHeldOnce ==
    /\ \A c \in Calls :
        /\ call[c].at = "waiting" => hand = c \/ Places(c) # {}
        /\ call[c].at \in {"new", "sending", "done"} => hand # c /\ Places(c) = {}
        /\ hand = c => Places(c) = {}
    /\ \A i, j \in DOMAIN inbox : inbox[i] = inbox[j] => i = j

CountOf(c, name) == Cardinality({i \in DOMAIN log[c] : log[c][i] = name})

(* 503 is safe to retry: a call answered Unavailable or ChannelClosed had  *)
(* no effect on MPD, even if it was queued while MPD was connected.        *)
RetryableMeansUntouched ==
    \A c \in Calls : call[c].result.kind \in {"Unavailable", "ChannelClosed"} => log[c] = <<>>

(* Nothing is done twice, and nothing that was not asked: whatever breaks, *)
(* reconnects and abandoned calls happened, MPD carried out at most one    *)
(* change for an action, and for an enqueue at most its paths, in order,   *)
(* followed by at most one autoplay.                                       *)
EffectsAreBounded ==
    \A c \in Calls : log[c] # <<>> =>
        LET req == call[c].req IN
        IF req.kind = "enqueue"
        THEN /\ Len(log[c]) <= Len(req.paths) + 1
             /\ CountOf(c, "add") <= Len(req.paths)
             /\ \A i \in DOMAIN log[c] : log[c][i] = "add" \/ (i = Len(log[c]) /\ i > 1)
        ELSE /\ Len(log[c]) = 1
             /\ log[c][1] \in CASE req.kind = "toggle" -> {"play", "pause"}
                                [] req.kind = "move_after_current" -> {"move", "move_after_current"}
                                [] req.kind = "setvol" -> {"setvol"}
                                [] OTHER -> {req.cmd.name}

(* An accepted answer is true: a call answered Ok was carried out, all of  *)
(* it (a move of the current song after itself has nothing to do).         *)
OkMeansDone ==
    \A c \in Calls : call[c].result.kind = "Ok" =>
        LET req == call[c].req IN
        CASE req.kind = "enqueue" -> CountOf(c, "add") = Len(req.paths)
          [] req.kind = "move_after_current" -> TRUE
          [] req.kind = "action" -> req.cmd.name \notin Queries => log[c] # <<>>
          [] OTHER -> log[c] # <<>>

(* The failure report of a directory enqueue counts the tracks MPD took:   *)
(* all of them when only playback reconciliation failed; when an add       *)
(* failed, some but not all of them, and MPD may have taken exactly one    *)
(* more whose answer was lost with the connection.                         *)
FailureReportsCountTracks ==
    \A c \in Calls :
        LET result == call[c].result  total == Len(call[c].req.paths) IN
        /\ result.kind = "Partial" => /\ result.added \in 1..(total - 1)
                                      /\ CountOf(c, "add") \in {result.added, result.added + 1}
        /\ result.kind = "Unreconciled" => CountOf(c, "add") = result.added /\ result.added = total

-----------------------------------------------------------------------------
(* The published status *)

(* No status is published while the actor knows it has no connection.      *)
NoSnapshotWithoutConnection ==
    pc \in {"connect", "backoff", "stopped"} => snapshot = NONE

(* No change is missed: when the actor is back in its select! on a live    *)
(* connection with no relevant change left to consume, the status it       *)
(* published is exactly MPD's, although it was read in two commands while  *)
(* MPD kept changing and although changes flagged during a request are     *)
(* only buffered.                                                          *)
SettledSnapshotIsCurrent ==
    (pc = "select" /\ link = "up" /\ \A e \in events : ~ AffectsPlayback(e))
        => snapshot = PlaybackOf(mpd)

(* The strengthening that makes it inductive: no relevant change is        *)
(* unconsumed, and what has been read or published so far is MPD's.        *)
NoChangeToConsume == \A e \in events : ~ AffectsPlayback(e)
PublishPoints == {"publish_status", "publish_song"}
ReadsAreCurrent ==
    link = "up" =>
      /\ pc \in PublishPoints => /\ wire.at # "err"
                                 /\ wire.cmd.name = IF pc = "publish_song" THEN "currentsong"
                                                                           ELSE "status"
      /\ NoChangeToConsume =>
           /\ pc = "publish_status" /\ wire.at = "ok" => wire.status = StatusOf(mpd)
           /\ pc = "publish_song" => frame.status = StatusOf(mpd)
           /\ pc = "publish_song" /\ wire.at = "ok" => wire.song = CurrentSongOf(mpd)
           /\ pc \in {"select"} \cup HandlerPoints => snapshot = PlaybackOf(mpd)

-----------------------------------------------------------------------------
(* Handlers against a queue nobody else touches *)

Replies(c) == call[c].at = "waiting" /\ call'[c].at = "done"

(* Enqueue starts playback when the queue was empty: unless someone else   *)
(* changes MPD, an enqueue of at least one track into an empty queue that  *)
(* is answered Ok leaves MPD playing, whatever other requests are queued.  *)
EnqueueAutoplays ==
    [][\A c \in Calls :
         (/\ Replies(c) /\ call'[c].result.kind = "Ok"
          /\ call[c].req.kind = "enqueue" /\ hand = c
          /\ frame.status.playlist_length = 0 /\ spontaneous = 0)
         => mpd.state = "play"]_vars

(* The task outlives every request it was given: only dropping all handles *)
(* ends it (http.rs accepts every non-negative finite seek position).      *)
ActorOutlivesRequests == open => pc \notin DeadPoints

-----------------------------------------------------------------------------
(* Liveness *)

Pending(c) == call[c].at \in {"sending", "waiting"}

(* Every call returns: a caller that stays is answered, be it with an      *)
(* error, through full channels, broken connections, failing reconnects    *)
(* and a dying task.                                                       *)
EveryCallReturns == \A c \in Calls : Pending(c) ~> ~ Pending(c)

(* The status converges: if the connection is eventually stable (and MPD   *)
(* stops changing, which MaxSpontaneous and the finitely many calls bring  *)
(* about), the published status is eventually MPD's for good.              *)
SnapshotConverges == <>[](link = "up") => <>[](snapshot = PlaybackOf(mpd))
=============================================================================
