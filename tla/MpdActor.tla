------------------------------ MODULE MpdActor ------------------------------
(***************************************************************************)
(* The MPD client actor of mba-player (crates/mba-player/src/mpd.rs): one  *)
(* task owns the only connection to MPD, takes requests from a bounded     *)
(* channel one at a time, answers each on its own one-shot channel, and    *)
(* publishes the playback status in a watch channel whenever MPD flags a   *)
(* change.  Between two awaits of a handler MPD and its other clients go   *)
(* on, the connection may break, and callers (HTTP handlers) come and go.  *)
(*                                                                         *)
(* Every await of the actor on MPD is a control point of its own (pc), the *)
(* command in flight is in wire, and MPD answers it in a separate step.    *)
(***************************************************************************)
EXTENDS MpdServer, FiniteSets

CONSTANTS
    Calls,              \* the calls of MpdHandle methods; each is made at most once
    Requests,           \* the requests the calls may carry
    Paths,              \* the paths enqueued
    BadPaths,           \* those that cannot be encoded as a protocol argument
    SavedQueues,        \* the queues MPD may have restored from its state file
    COMMAND_QUEUE,      \* capacity of the command channel (32 in the code)
    RECONNECT_INITIAL,  \* first backoff, in half seconds (1 in the code)
    RECONNECT_MAX,      \* longest backoff, in half seconds (20 in the code)
    MaxSpontaneous      \* bound: changes MPD makes that mba-player did not ask for

ASSUME QueueAssumption == COMMAND_QUEUE \in Nat \ {0}
ASSUME BackoffAssumption == /\ RECONNECT_INITIAL \in Nat \ {0}
                            /\ RECONNECT_MAX \in Nat
                            /\ RECONNECT_INITIAL <= RECONNECT_MAX
ASSUME BoundAssumption == MaxSpontaneous \in Nat
ASSUME NoCallAssumption == NONE \notin Calls
ASSUME SavedAssumption == \A q \in SavedQueues : q \in Seq(SongIds) /\ IsInjective(q)

(* QueueItemTarget, Action and Request.  A request of one command carries  *)
(* that command; the others are built by their handlers.                   *)
Targets == [by : {"id"}, id : Nat] \cup [by : {"position"}, position : Nat]
Commands == [name : {"play", "pause", "stop", "next", "previous", "seek", "clear", "update",
                     "playlistinfo"}]
            \cup [name : {"playsong", "delete"}, target : Targets]
            \cup [name : {"move"}, target : Targets, to : Nat]
RequestSet == [kind : {"action"}, cmd : Commands]
              \cup [kind : {"setvol"}, level : 0..255]
              \cup [kind : {"toggle", "seek_overflow"}]
              \cup [kind : {"move_after_current"}, target : Targets]
              \cup [kind : {"enqueue"}, paths : Seq(Paths)]
ASSUME RequestsAssumption == Requests \subseteq RequestSet

VARIABLES
    \* MPD and the connection
    mpd,          \* MPD's state
    link,         \* "down", "up", or "broken": lost and not noticed by the actor yet
    wire,         \* the command in flight, and MPD's answer once it came
    events,       \* subsystem changes received and not yet consumed
    spontaneous,  \* counts the changes bounded by MaxSpontaneous
    \* the callers
    open,         \* some MpdHandle still exists
    call,         \* each call: where it stands, its request, its result
    log,          \* history: the commands MPD carried out for each call
    \* the actor
    inbox,        \* the command channel, a sequence of calls
    snapshot,     \* the watch channel: the status published, or NONE
    pc,           \* where the actor task is
    hand,         \* the call being handled, or NONE
    frame,        \* the locals of the handler in progress
    backoff       \* the next reconnect delay, in half seconds

server == <<mpd, link, wire, events, spontaneous>>
callers == <<open, call, log>>
actor == <<inbox, snapshot, pc, hand, frame, backoff>>
vars == <<server, callers, actor>>

-----------------------------------------------------------------------------
(* Values *)

NoCommand == [name |-> "none"]
Idle == [at |-> "idle", cmd |-> NoCommand]

(* The locals of a handler: the status read first, the number of paths     *)
(* added and whether an add has failed.                                    *)
NoFrame == [status |-> NONE, added |-> 0, failed |-> FALSE]

Result(kind) == [kind |-> kind, added |-> 0]
Counted(kind, n) == [kind |-> kind, added |-> n]
NoResult == Result("none")
NoRequest == [kind |-> "none"]

AwaitPoints == {"publish_status", "publish_song", "action", "toggle", "move_after_current",
                "enqueue_before", "enqueue_add", "enqueue_after", "enqueue_play"}
HandlerPoints == AwaitPoints \ {"publish_status", "publish_song"}
DeadPoints == {"stopped", "panicked"}
ActorPoints == {"connect", "backoff", "select"} \cup AwaitPoints \cup DeadPoints

(* playback_from: the status, with the song of the second read.            *)
PlaybackFrom(status, song) ==
    [state |-> status.state, volume |-> status.volume,
     queue_length |-> status.playlist_length,
     queue_position |-> IF song = NONE THEN NONE ELSE song.position,
     queue_id |-> IF song = NONE THEN NONE ELSE song.id]
PlaybackOf(m) == PlaybackFrom(StatusOf(m), CurrentSongOf(m))

(* Mutants are named after the definition they change and the bug.         *)
AffectsPlayback_NoMixer(subsystem) == subsystem \in {"Player", "Queue"}

(* subsystem_affects_playback                                              *)
AffectsPlayback(subsystem) == subsystem \in {"Player", "Mixer", "Queue"}

Init ==
    /\ \E q \in SavedQueues, level \in Levels \cap Volumes : mpd \in RestoredMpd(q, level)
    /\ link = "down" /\ wire = Idle /\ events = {} /\ spontaneous = 0
    /\ open = TRUE
    /\ call = [c \in Calls |-> [at |-> "new", req |-> NoRequest, result |-> NoResult]]
    /\ log = [c \in Calls |-> <<>>]
    /\ inbox = <<>> /\ snapshot = NONE
    /\ pc = "connect" /\ hand = NONE /\ frame = NoFrame /\ backoff = RECONNECT_INITIAL

-----------------------------------------------------------------------------
(* The callers: HTTP handlers awaiting a method of MpdHandle *)

(* A method builds a request and starts to send it: commands.send().await. *)
Issue(c, req) ==
    /\ open /\ call[c].at = "new"
    /\ call' = [call EXCEPT ![c].at = "sending", ![c].req = req]
    /\ UNCHANGED <<server, open, log, actor>>

(* The channel has room: the request is queued, the caller awaits rx.      *)
Accept(c) ==
    /\ call[c].at = "sending" /\ pc \notin DeadPoints /\ Len(inbox) < COMMAND_QUEUE
    /\ inbox' = Append(inbox, c)
    /\ call' = [call EXCEPT ![c].at = "waiting"]
    /\ UNCHANGED <<server, open, log, snapshot, pc, hand, frame, backoff>>

(* The receiver is gone: send fails.                                       *)
SendFails(c) ==
    /\ call[c].at = "sending" /\ pc \in DeadPoints
    /\ call' = [call EXCEPT ![c].at = "done", ![c].result = Result("ChannelClosed")]
    /\ UNCHANGED <<server, open, log, actor>>

(* The HTTP client goes away (a closed page, mba-device's 3 s timeout) and *)
(* the handler future is dropped; a request already queued stays queued.   *)
Abandon(c) ==
    /\ call[c].at \in {"sending", "waiting"}
    /\ call' = [call EXCEPT ![c].at = "abandoned"]
    /\ UNCHANGED <<server, open, log, actor>>

(* The last MpdHandle is dropped; a pending call holds one.                *)
DropHandles ==
    /\ open /\ \A c \in Calls : call[c].at \notin {"sending", "waiting"}
    /\ open' = FALSE
    /\ UNCHANGED <<server, call, log, actor>>

-----------------------------------------------------------------------------
(* MPD and the connection *)

(* MPD carries out the command in flight and answers it.                   *)
MpdAnswers ==
    /\ wire.at = "sent" /\ link = "up"
    /\ \E outcome \in Outcomes(mpd, wire.cmd) :
         /\ mpd' = outcome.mpd
         /\ events' = events \cup Flags(mpd, wire.cmd, outcome)
         /\ wire' = [at |-> IF outcome.ok THEN "ok" ELSE "err", cmd |-> wire.cmd,
                     status |-> StatusOf(mpd), song |-> CurrentSongOf(mpd)]
         /\ log' = IF hand # NONE /\ outcome.ok /\ wire.cmd.name \notin Queries
                   THEN [log EXCEPT ![hand] = Append(@, wire.cmd.name)] ELSE log
    /\ UNCHANGED <<link, spontaneous, open, call, actor>>

(* MPD changes on its own, whether or not mba-player is connected.         *)
MpdChanges ==
    /\ spontaneous < MaxSpontaneous
    /\ spontaneous' = spontaneous + 1
    /\ mpd' \in Spontaneous(mpd) \ {mpd}
    /\ events' = IF link = "up" THEN events \cup Changes(mpd, mpd') ELSE events
    /\ UNCHANGED <<link, wire, callers, actor>>

(* The connection is lost: before MPD executes the command in flight, or   *)
(* after, and then the answer may be lost with it.                         *)
LinkBreaks ==
    /\ link = "up"
    /\ link' = "broken"
    /\ \/ wire.at # "sent" /\ UNCHANGED wire
       \/ wire.at \in {"sent", "ok"} /\ wire' = [at |-> "err", cmd |-> wire.cmd]
    /\ UNCHANGED <<mpd, events, spontaneous, callers, actor>>

-----------------------------------------------------------------------------
(* The pieces of the actor's steps *)

(* Mutant: a command on a lost connection waits for an answer.             *)
Send_HangsWhenBroken(cmd) == wire' = [at |-> "sent", cmd |-> cmd]

(* client.command(cmd).await: on a lost connection it fails at once.       *)
Send(cmd) == wire' = IF link = "up" THEN [at |-> "sent", cmd |-> cmd]
                                    ELSE [at |-> "err", cmd |-> cmd]

(* reply.send(result): dropped when the caller no longer awaits it.        *)
Answered(c, result) == IF c.at = "waiting" THEN [c EXCEPT !.at = "done", !.result = result] ELSE c

Await(point, cmd) ==
    /\ pc' = point /\ Send(cmd)
    /\ UNCHANGED <<mpd, link, events, spontaneous, callers, inbox, snapshot, hand, backoff>>

Reply(result) ==
    /\ call' = [call EXCEPT ![hand] = Answered(@, result)]
    /\ pc' = "select" /\ hand' = NONE /\ frame' = NoFrame /\ wire' = Idle
    /\ UNCHANGED <<mpd, link, events, spontaneous, open, log, inbox, snapshot, backoff>>

Resumes(point, answer) == pc = point /\ wire.at = answer

Request == call[hand].req

-----------------------------------------------------------------------------
(* actor_loop and drain_during_backoff *)

(* Mutant: the status is not published on connecting.                      *)
ConnectOk_NoPublish ==
    /\ pc = "connect"
    /\ link' = "up" /\ events' = {}
    /\ backoff' = RECONNECT_INITIAL
    /\ pc' = "select"
    /\ UNCHANGED <<mpd, wire, spontaneous, callers, inbox, snapshot, hand, frame>>

ConnectOk ==
    /\ pc = "connect"
    /\ link' = "up" /\ events' = {}
    /\ backoff' = RECONNECT_INITIAL
    /\ pc' = "publish_status" /\ wire' = [at |-> "sent", cmd |-> [name |-> "status"]]
    /\ UNCHANGED <<mpd, spontaneous, callers, inbox, snapshot, hand, frame>>

ConnectErr ==
    /\ pc = "connect"
    /\ snapshot' = NONE /\ pc' = "backoff"
    /\ UNCHANGED <<server, callers, inbox, hand, frame, backoff>>

DrainReject ==
    /\ pc = "backoff" /\ inbox # <<>>
    /\ inbox' = Tail(inbox)
    /\ call' = [call EXCEPT ![Head(inbox)] = Answered(@, Result("Unavailable"))]
    /\ UNCHANGED <<server, open, log, snapshot, pc, hand, frame, backoff>>

(* Mutant: the backoff doubles without limit.                              *)
BackoffElapsed_Uncapped ==
    /\ pc = "backoff"
    /\ backoff' = 2 * backoff /\ pc' = "connect"
    /\ UNCHANGED <<server, callers, inbox, snapshot, hand, frame>>

BackoffElapsed ==
    /\ pc = "backoff"
    /\ backoff' = IF 2 * backoff < RECONNECT_MAX THEN 2 * backoff ELSE RECONNECT_MAX
    /\ pc' = "connect"
    /\ UNCHANGED <<server, callers, inbox, snapshot, hand, frame>>

(* commands.recv() returns None: every handle dropped, nothing queued.     *)
Shutdown ==
    /\ pc \in {"backoff", "select"} /\ ~ open /\ inbox = <<>>
    /\ pc' = "stopped" /\ snapshot' = NONE
    /\ link' = "down" /\ events' = {}
    /\ UNCHANGED <<mpd, wire, spontaneous, callers, inbox, hand, frame, backoff>>

-----------------------------------------------------------------------------
(* session_loop: the two branches of its select! *)

(* The first await of the handler of each request.                         *)
FirstCommand(req) ==
    IF req.kind \in {"toggle", "move_after_current", "enqueue"} THEN [name |-> "status"]
    ELSE IF req.kind = "setvol"
         THEN [name |-> "setvol", level |-> IF req.level < 100 THEN req.level ELSE 100]
    ELSE req.cmd
FirstPoint(req) ==
    CASE req.kind = "toggle" -> "toggle"
      [] req.kind = "move_after_current" -> "move_after_current"
      [] req.kind = "enqueue" -> "enqueue_before"
      [] OTHER -> "action"

(* A seek beyond what Duration holds panics in Duration::from_secs_f64.    *)
Panics(req) == req.kind = "seek_overflow"
NothingToDo(req) == req.kind = "enqueue" /\ req.paths = <<>>

(* Mutant: a request leaves the channel only when a later one is handled.  *)
RecvRequest_Peeks ==
    /\ pc = "select" /\ inbox # <<>>
    /\ LET c == Head(inbox)  req == call[c].req IN
         /\ ~ Panics(req) /\ ~ NothingToDo(req)
         /\ hand' = c /\ pc' = FirstPoint(req) /\ Send(FirstCommand(req))
    /\ UNCHANGED <<mpd, link, events, spontaneous, callers, inbox, snapshot, frame, backoff>>

RecvRequest ==
    /\ pc = "select" /\ inbox # <<>>
    /\ LET c == Head(inbox)  req == call[c].req IN
         /\ ~ Panics(req) /\ ~ NothingToDo(req)
         /\ hand' = c /\ pc' = FirstPoint(req) /\ Send(FirstCommand(req))
    /\ inbox' = Tail(inbox)
    /\ UNCHANGED <<mpd, link, events, spontaneous, callers, snapshot, frame, backoff>>

RecvNothingToDo ==
    /\ pc = "select" /\ inbox # <<>> /\ NothingToDo(call[Head(inbox)].req)
    /\ call' = [call EXCEPT ![Head(inbox)] = Answered(@, Result("Ok"))]
    /\ inbox' = Tail(inbox)
    /\ UNCHANGED <<server, open, log, snapshot, pc, hand, frame, backoff>>

(* The task dies: its receiver and every reply sender queued are dropped,  *)
(* and the watch channel keeps the last value published.                   *)
RecvPanics ==
    /\ pc = "select" /\ inbox # <<>> /\ Panics(call[Head(inbox)].req)
    /\ call' = [c \in Calls |-> IF \E i \in DOMAIN inbox : inbox[i] = c
                                THEN Answered(call[c], Result("ChannelClosed")) ELSE call[c]]
    /\ inbox' = <<>> /\ pc' = "panicked" /\ link' = "down" /\ events' = {}
    /\ UNCHANGED <<mpd, wire, spontaneous, open, log, snapshot, hand, frame, backoff>>

NextEvent ==
    /\ pc = "select"
    /\ \E subsystem \in events :
         /\ events' = events \ {subsystem}
         /\ IF AffectsPlayback(subsystem)
            THEN pc' = "publish_status" /\ Send([name |-> "status"])
            ELSE UNCHANGED <<pc, wire>>
    /\ UNCHANGED <<mpd, link, spontaneous, callers, inbox, snapshot, hand, frame, backoff>>

(* Mutant: the last status stays published while reconnecting.             *)
ConnectionClosed_KeepsSnapshot ==
    /\ pc = "select" /\ link = "broken" /\ events = {}
    /\ link' = "down" /\ pc' = "connect"
    /\ UNCHANGED <<mpd, wire, events, spontaneous, callers, inbox, snapshot, hand, frame, backoff>>

(* The closed connection shows after the events received before it.        *)
ConnectionClosed ==
    /\ pc = "select" /\ link = "broken" /\ events = {}
    /\ link' = "down" /\ snapshot' = NONE /\ pc' = "connect"
    /\ UNCHANGED <<mpd, wire, events, spontaneous, callers, inbox, hand, frame, backoff>>

-----------------------------------------------------------------------------
(* publish_state and read_playback: two reads, then the watch channel *)

PublishReadSong ==
    /\ Resumes("publish_status", "ok")
    /\ frame' = [frame EXCEPT !.status = wire.status]
    /\ Await("publish_song", [name |-> "currentsong"])

PublishDone ==
    /\ \/ Resumes("publish_status", "err") /\ UNCHANGED snapshot
       \/ Resumes("publish_song", "err") /\ UNCHANGED snapshot
       \/ Resumes("publish_song", "ok") /\ snapshot' = PlaybackFrom(frame.status, wire.song)
    /\ pc' = "select" /\ wire' = Idle /\ frame' = NoFrame
    /\ UNCHANGED <<mpd, link, events, spontaneous, callers, inbox, hand, backoff>>

-----------------------------------------------------------------------------
(* handle_action, handle_rescan, handle_clear_queue, handle_list_queue *)

(* Mutants: a failed command is reported as done, or as not attempted.     *)
ActionReplies_SwallowsError ==
    (Resumes("action", "ok") \/ Resumes("action", "err")) /\ Reply(Result("Ok"))
ActionReplies_Unavailable ==
    \/ Resumes("action", "ok") /\ Reply(Result("Ok"))
    \/ Resumes("action", "err") /\ Reply(Result("Unavailable"))

ActionReplies ==
    \/ Resumes("action", "ok") /\ Reply(Result("Ok"))
    \/ Resumes("action", "err") /\ Reply(Result("Command"))

(* Mutant: toggle pauses unless MPD is stopped.                            *)
ToggleReadStatus_PausesPaused ==
    \/ /\ Resumes("toggle", "ok")
       /\ Await("action", [name |-> IF wire.status.state = "stop" THEN "play" ELSE "pause"])
       /\ UNCHANGED frame
    \/ Resumes("toggle", "err") /\ Reply(Result("Command"))

ToggleReadStatus ==
    \/ /\ Resumes("toggle", "ok")
       /\ Await("action", [name |-> IF wire.status.state = "play" THEN "pause" ELSE "play"])
       /\ UNCHANGED frame
    \/ Resumes("toggle", "err") /\ Reply(Result("Command"))

(* queue_target_matches_current                                            *)
TargetMatchesCurrent(target, current) ==
    /\ current # NONE
    /\ IF target.by = "id" THEN target.id = current.id ELSE target.position = current.position

MoveReadStatus ==
    LET target == Request.target  current == wire.status.current_song IN
    \/ Resumes("move_after_current", "err") /\ Reply(Result("Command"))
    \/ /\ Resumes("move_after_current", "ok") /\ TargetMatchesCurrent(target, current)
       /\ Reply(Result("Ok"))
    \/ /\ Resumes("move_after_current", "ok") /\ ~ TargetMatchesCurrent(target, current)
       /\ Await("action", IF current # NONE
                          THEN [name |-> "move_after_current", target |-> target]
                          ELSE [name |-> "move", target |-> target, to |-> 0])
       /\ UNCHANGED frame

-----------------------------------------------------------------------------
(* handle_enqueue *)

(* Mutant: only a failed enqueue looks whether to start playback.          *)
EnqueueEnds_NoAutoplay(f) ==
    IF f.failed /\ f.added > 0 /\ f.status.playlist_length = 0
    THEN Await("enqueue_after", [name |-> "status"]) /\ frame' = f
    ELSE Reply(CASE ~ f.failed -> Result("Ok")
                 [] f.failed /\ f.added = 0 -> Result("Command")
                 [] OTHER -> Counted("Partial", f.added))

(* finish_enqueue_failure, autoplay_after_enqueue_if_needed and the end of *)
(* enqueue_and_autoplay_if_empty: with something added to what was an      *)
(* empty queue, read the status again; else reply.                         *)
EnqueueEnds(f) ==
    IF f.added > 0 /\ f.status.playlist_length = 0
    THEN Await("enqueue_after", [name |-> "status"]) /\ frame' = f
    ELSE Reply(CASE ~ f.failed -> Result("Ok")
                 [] f.failed /\ f.added = 0 -> Result("Command")
                 [] OTHER -> Counted("Partial", f.added))

(* The loop over the paths, at the path after those already added.         *)
EnqueueNextPath(f) ==
    IF f.added = Len(Request.paths) THEN EnqueueEnds(f)
    ELSE IF Request.paths[f.added + 1] \in BadPaths
         THEN EnqueueEnds([f EXCEPT !.failed = TRUE])
         ELSE /\ Await("enqueue_add", [name |-> "add", path |-> Request.paths[f.added + 1]])
              /\ frame' = f

EnqueueReadBefore ==
    \/ Resumes("enqueue_before", "err") /\ Reply(Result("Command"))
    \/ Resumes("enqueue_before", "ok") /\ EnqueueNextPath([frame EXCEPT !.status = wire.status])

(* Mutant: the position in the paths does not advance.                     *)
EnqueueAdded_NoAdvance ==
    \/ Resumes("enqueue_add", "ok") /\ EnqueueNextPath(frame)
    \/ Resumes("enqueue_add", "err") /\ EnqueueEnds([frame EXCEPT !.failed = TRUE])

EnqueueAdded ==
    \/ Resumes("enqueue_add", "ok") /\ EnqueueNextPath([frame EXCEPT !.added = @ + 1])
    \/ Resumes("enqueue_add", "err") /\ EnqueueEnds([frame EXCEPT !.failed = TRUE])

(* Mutant: a failed autoplay hides that an add had failed.                 *)
EnqueueReply_SwappedOrder(autoplayOk) ==
    Reply(IF ~ autoplayOk THEN Counted("Unreconciled", frame.added)
          ELSE IF frame.failed THEN Counted("Partial", frame.added)
          ELSE Result("Ok"))

(* Once autoplay is settled: what finish_enqueue_failure or                *)
(* post_enqueue_reconciliation_failure report.                             *)
EnqueueReply(autoplayOk) ==
    Reply(IF frame.failed THEN Counted("Partial", frame.added)
          ELSE IF autoplayOk THEN Result("Ok")
          ELSE Counted("Unreconciled", frame.added))

EnqueueReadAfter ==
    \/ Resumes("enqueue_after", "err") /\ EnqueueReply(FALSE)
    \/ /\ Resumes("enqueue_after", "ok") /\ wire.status.playlist_length = 0
       /\ EnqueueReply(TRUE)
    \/ /\ Resumes("enqueue_after", "ok") /\ wire.status.playlist_length > 0
       /\ Await("enqueue_play", [name |-> "play"])
       /\ UNCHANGED frame

EnqueueAutoplayed ==
    \/ Resumes("enqueue_play", "ok") /\ EnqueueReply(TRUE)
    \/ Resumes("enqueue_play", "err") /\ EnqueueReply(FALSE)

-----------------------------------------------------------------------------
(* Specification *)

CallersStep == \/ \E c \in Calls, req \in Requests : Issue(c, req)
               \/ \E c \in Calls : Accept(c) \/ SendFails(c) \/ Abandon(c)
               \/ DropHandles
ServerStep == MpdAnswers \/ MpdChanges \/ LinkBreaks
SessionRecv == RecvRequest \/ RecvNothingToDo \/ RecvPanics
Resume == \/ PublishReadSong \/ PublishDone
          \/ ActionReplies \/ ToggleReadStatus \/ MoveReadStatus
          \/ EnqueueReadBefore \/ EnqueueAdded \/ EnqueueReadAfter \/ EnqueueAutoplayed
ActorStep == \/ ConnectOk \/ ConnectErr \/ DrainReject \/ BackoffElapsed \/ Shutdown
             \/ SessionRecv \/ NextEvent \/ ConnectionClosed \/ Resume

Next == CallersStep \/ ServerStep \/ ActorStep
Spec == Init /\ [][Next]_vars

(* Scheduling.  The runtime goes on polling the task, MPD answers a        *)
(* command or the connection breaks, and a connection attempt ends.  A     *)
(* select! polls its ready branches in random order, so a branch that is   *)
(* ready again and again is taken (SF); a channel with room lets its       *)
(* senders in, first come first served (SF).  No caller has to issue,      *)
(* abandon or drop anything, no link has to break.                         *)
Fairness ==
    /\ WF_vars(MpdAnswers)
    /\ WF_vars(ConnectOk \/ ConnectErr)
    /\ WF_vars(BackoffElapsed) /\ WF_vars(Shutdown) /\ WF_vars(Resume)
    /\ SF_vars(DrainReject) /\ SF_vars(SessionRecv)
    /\ SF_vars(NextEvent) /\ WF_vars(ConnectionClosed)
    /\ \A c \in Calls : SF_vars(Accept(c)) /\ WF_vars(SendFails(c))
FairSpec == Spec /\ Fairness
=============================================================================
