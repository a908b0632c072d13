--------------------------- MODULE MpdActorProofs ---------------------------
(***************************************************************************)
(* Theorems about MpdActor, for every set of calls and requests, every     *)
(* channel capacity and every bound: the type invariant, that no call is   *)
(* lost, and that a settled status is current.                             *)
(***************************************************************************)
EXTENDS MpdActorProps, SequenceTheorems, TLAPS

(* MPD keeps its type whatever command it is given.                        *)
LEMMA UpdatesType ==
    ASSUME NEW m \in MpdStates, NEW s \in PlayStates, NEW id \in SongIds \cup {NONE},
           NEW q \in Seq(SongIds), NEW v \in Volumes
    PROVE  At(m, s, id) \in MpdStates /\ WithQueue(m, q) \in MpdStates
           /\ WithVolume(m, v) \in MpdStates
<1> DEFINE Ids == SongIds \cup {NONE}
<1>1. id \in Ids /\ MpdStates = [state : PlayStates, volume : Volumes,
                                 queue : Seq(SongIds), current : Ids]
  BY DEF MpdStates
<1> HIDE DEF Ids
<1> QED BY <1>1 DEF At, WithQueue, WithVolume

(* The fields of an MPD state have their types.                            *)
LEMMA FieldsType ==
    ASSUME NEW m \in MpdStates
    PROVE  /\ m.state \in PlayStates /\ m.volume \in Volumes
           /\ m.queue \in Seq(SongIds) /\ m.current \in SongIds \cup {NONE}
           /\ \A i \in DOMAIN m.queue : m.queue[i] \in SongIds
           /\ DOMAIN m.queue = 1..Len(m.queue) /\ Len(m.queue) \in Nat
  BY DEF MpdStates

(* Removing an element of a sequence leaves a shorter sequence.            *)
LEMMA RemoveAtType ==
    ASSUME NEW S, NEW s \in Seq(S), NEW i \in DOMAIN s
    PROVE  RemoveAt(s, i) \in Seq(S) /\ Len(RemoveAt(s, i)) = Len(s) - 1
  BY DEF RemoveAt

(* Inserting an element into a sequence gives a sequence.                  *)
LEMMA InsertAtType ==
    ASSUME NEW S, NEW s \in Seq(S), NEW i \in 1..(Len(s) + 1), NEW e \in S
    PROVE  InsertAt(s, i, e) \in Seq(S)
  BY DEF InsertAt

(* The index of a current song that is queued is a place of the queue.     *)
LEMMA IndexOfCurrent ==
    ASSUME NEW m \in MpdStates, Holds(m, m.current)
    PROVE  /\ IndexOf(m, m.current) \in DOMAIN m.queue
           /\ m.queue[IndexOf(m, m.current)] = m.current
  BY DEF Holds, IndexOf

(* The transport commands keep MPD's type.                                 *)
LEMMA NeighboursType ==
    ASSUME NEW m \in MpdStates
    PROVE  AfterCurrent(m) \in MpdStates /\ BeforeCurrent(m) \in MpdStates
           /\ StopAtEnd(m) \in MpdStates /\ PlayCurrent(m) \in MpdStates
           /\ Paused(m) \in MpdStates /\ Cleared(m) \in MpdStates
<1>1. "play" \in PlayStates /\ "stop" \in PlayStates /\ "pause" \in PlayStates
  BY DEF PlayStates
<1>2. StopAtEnd(m) \in MpdStates
  BY <1>1, UpdatesType, FieldsType DEF StopAtEnd
<1>3. Cleared(m) \in MpdStates
  <2>1. <<>> \in Seq(SongIds)
    OBVIOUS
  <2> QED BY <1>2, <2>1, UpdatesType, FieldsType DEF Cleared
<1>4. PlayCurrent(m) \in MpdStates /\ Paused(m) \in MpdStates
  BY <1>1, UpdatesType, FieldsType DEF PlayCurrent, Paused
<1>5. ASSUME Holds(m, m.current)
      PROVE  /\ IndexOf(m, m.current) < Len(m.queue)
                    => m.queue[IndexOf(m, m.current) + 1] \in SongIds
             /\ IndexOf(m, m.current) > 1 => m.queue[IndexOf(m, m.current) - 1] \in SongIds
  BY <1>5, IndexOfCurrent, FieldsType
<1>6. AfterCurrent(m) \in MpdStates /\ BeforeCurrent(m) \in MpdStates
  BY <1>1, <1>2, <1>5, UpdatesType, FieldsType DEF AfterCurrent, BeforeCurrent
<1> QED BY <1>2, <1>3, <1>4, <1>6

(* So do all the commands that name no song.                               *)
LEMMA PlainOutcomesType ==
    ASSUME NEW m \in MpdStates, NEW cmd, NEW o \in PlainOutcomes(m, cmd)
    PROVE  o.ok \in BOOLEAN /\ o.mpd \in MpdStates
<1>1. FreeIds(m) # {} => Added(m) \in MpdStates
  <2> DEFINE id == CHOOSE n \in FreeIds(m) : TRUE
  <2>1. FreeIds(m) # {} => id \in SongIds
    BY DEF FreeIds
  <2>2. id \in SongIds => Append(m.queue, id) \in Seq(SongIds)
    BY FieldsType
  <2> QED BY <2>1, <2>2, UpdatesType, FieldsType DEF Added
<1>2. \A n \in MpdStates : /\ Ok(n).ok \in BOOLEAN /\ Ok(n).mpd \in MpdStates
                           /\ Ack(n).ok \in BOOLEAN /\ Ack(n).mpd \in MpdStates
  BY DEF Ok, Ack
<1>4. CASE cmd.name \in {"play", "clear", "next", "previous", "pause", "seek"}
  BY <1>2, <1>4, NeighboursType DEF PlainOutcomes
<1>5. CASE cmd.name \in {"stop", "setvol"}
  BY <1>2, <1>5, UpdatesType, FieldsType DEF PlainOutcomes, PlayStates
<1>6. CASE cmd.name = "add"
  BY <1>1, <1>2, <1>6 DEF PlainOutcomes
<1>7. CASE cmd.name \notin {"play", "clear", "next", "previous", "pause", "stop", "seek",
                          "setvol", "add"}
  BY <1>2, <1>7 DEF PlainOutcomes
<1> QED BY <1>4, <1>5, <1>6, <1>7

(* So do the commands on the song at a place of the queue.                 *)
LEMMA SongOutcomesType ==
    ASSUME NEW m \in MpdStates, NEW cmd, WellFormed(cmd), cmd.name \in SongCommands,
           NEW i \in DOMAIN m.queue, NEW o \in SongOutcomes(m, cmd, i)
    PROVE  o.ok \in BOOLEAN /\ o.mpd \in MpdStates
<1>1. \A to \in 1..Len(m.queue) : MovedTo(m, i, to) \in MpdStates
  <2> DEFINE rest == RemoveAt(m.queue, i)
  <2>1. rest \in Seq(SongIds) /\ Len(rest) = Len(m.queue) - 1 /\ m.queue[i] \in SongIds
    BY RemoveAtType, FieldsType
  <2>2. ASSUME NEW to \in 1..Len(m.queue) PROVE InsertAt(rest, to, m.queue[i]) \in Seq(SongIds)
    BY <2>1, InsertAtType, FieldsType
  <2> QED BY <2>2, UpdatesType, FieldsType DEF MovedTo
<1>2. DeletedAt(m, i) \subseteq MpdStates
  <2> DEFINE rest == WithQueue(m, RemoveAt(m.queue, i))
  <2>1. rest \in MpdStates
    BY RemoveAtType, UpdatesType, FieldsType
  <2>2. StopAtEnd(rest) \in MpdStates
    BY <2>1, NeighboursType
  <2>3. \A j \in DOMAIN m.queue : At(rest, m.state, m.queue[j]) \in MpdStates
    BY <2>1, UpdatesType, FieldsType
  <2> QED BY <2>1, <2>2, <2>3 DEF DeletedAt
<1>3. ASSUME Holds(m, m.current), m.queue[i] # m.current
      PROVE  MovedAfterCurrent(m, i) \in MpdStates
  BY <1>1, <1>3, IndexOfCurrent, FieldsType DEF MovedAfterCurrent
<1>4. \A n \in MpdStates : /\ Ok(n).ok \in BOOLEAN /\ Ok(n).mpd \in MpdStates
                           /\ Ack(n).ok \in BOOLEAN /\ Ack(n).mpd \in MpdStates
  BY DEF Ok, Ack
<1>5. CASE cmd.name = "playsong"
  BY <1>4, <1>5, UpdatesType, FieldsType DEF SongOutcomes, PlayStates
<1>6. CASE cmd.name = "delete"
  BY <1>2, <1>4, <1>6 DEF SongOutcomes
<1>7. CASE cmd.name = "move"
  BY <1>1, <1>4, <1>7, FieldsType DEF SongOutcomes, WellFormed
<1>8. CASE cmd.name = "move_after_current"
  BY <1>3, <1>4, <1>8 DEF SongOutcomes
<1> QED BY <1>5, <1>6, <1>7, <1>8 DEF SongCommands

(* So does every command the actor may send.                               *)
LEMMA OutcomesType ==
    ASSUME NEW m \in MpdStates, NEW cmd, WellFormed(cmd), NEW o \in Outcomes(m, cmd)
    PROVE  o.ok \in BOOLEAN /\ o.mpd \in MpdStates
<1>1. CASE cmd.name \notin SongCommands
  BY <1>1, PlainOutcomesType DEF Outcomes
<1>2. CASE cmd.name \in SongCommands /\ TargetIndexes(m, cmd.target) = {}
  <2>1. o = Ack(m)
    BY <1>2 DEF Outcomes
  <2> QED BY <2>1 DEF Ack
<1>3. CASE cmd.name \in SongCommands /\ TargetIndexes(m, cmd.target) # {}
  <2>1. PICK i \in TargetIndexes(m, cmd.target) : o \in SongOutcomes(m, cmd, i)
    BY <1>3 DEF Outcomes
  <2> QED BY <1>3, <2>1, SongOutcomesType DEF TargetIndexes
<1> QED BY <1>1, <1>2, <1>3

(* So does what MPD does on its own.                                       *)
LEMMA SpontaneousType ==
    ASSUME NEW m \in MpdStates, NEW n \in Spontaneous(m)
    PROVE  n \in MpdStates
  BY NeighboursType, UpdatesType, FieldsType DEF Spontaneous

(* What MPD answers to a query is well typed.                              *)
LEMMA AnswersType ==
    ASSUME NEW m \in MpdStates
    PROVE  StatusOf(m) \in StatusSet /\ CurrentSongOf(m) \in SongSet
  BY IndexOfCurrent DEF StatusOf, CurrentSongOf, StatusSet, SongSet, MpdStates

-----------------------------------------------------------------------------
(* The pieces of the actor's steps *)

(* Answering a call keeps its type and ends its wait.                      *)
LEMMA AnsweredType ==
    ASSUME NEW c \in CallSet, NEW result \in ResultSet
    PROVE  /\ Answered(c, result) \in CallSet
           /\ Answered(c, result).req = c.req
           /\ Answered(c, result).at = IF c.at = "waiting" THEN "done" ELSE c.at
  BY DEF Answered, CallSet

(* The results that the handlers report are results.                       *)
LEMMA ResultType ==
    ASSUME NEW kind \in {"none", "Ok", "Command", "Unavailable", "ChannelClosed",
                         "Partial", "Unreconciled"}, NEW n \in Nat
    PROVE  Result(kind) \in ResultSet /\ Counted(kind, n) \in ResultSet
  BY DEF Result, Counted, ResultSet

(* The first command of a request's handler is one MPD knows, and the  *)
(* control point it is awaited at is a handler's.                          *)
LEMMA FirstCommandType ==
    ASSUME NEW req \in Requests, ~ Panics(req)
    PROVE  WellFormed(FirstCommand(req)) /\ FirstPoint(req) \in HandlerPoints
<1>1. req \in RequestSet
  BY RequestsAssumption
<1>2. CASE req.kind = "action"
  <2>1. req.cmd \in Commands
    BY <1>1, <1>2 DEF RequestSet
  <2>2. WellFormed(req.cmd)
    BY <2>1 DEF Commands, WellFormed, CommandNames, PlainCommands, SongCommands, Queries
  <2> QED BY <1>2, <2>2 DEF FirstCommand, FirstPoint, HandlerPoints, AwaitPoints
<1>3. CASE req.kind # "action"
  <2>1. req.kind \in {"toggle", "move_after_current", "enqueue", "setvol"}
    BY <1>1, <1>3 DEF RequestSet, Panics
  <2> QED BY <2>1 DEF FirstCommand, FirstPoint, HandlerPoints, AwaitPoints, WellFormed,
                      CommandNames, PlainCommands, Queries
<1> QED BY <1>2, <1>3

(* A command sent is in flight or has failed, never idle.                  *)
LEMMA SendType ==
    ASSUME NEW cmd, Send(cmd)
    PROVE  wire'.at \in {"sent", "err"} /\ wire'.cmd = cmd
           /\ (wire'.at = "err" => link # "up")
  BY DEF Send

(* The command a handler sends at each of its points.                      *)
LEMMA SentCommandsType ==
    /\ \A name \in PlainCommands : WellFormed([name |-> name])
    /\ \A path : WellFormed([name |-> "add", path |-> path])
    /\ \A target : /\ WellFormed([name |-> "move_after_current", target |-> target])
                   /\ WellFormed([name |-> "move", target |-> target, to |-> 0])
  BY DEF WellFormed, CommandNames, PlainCommands, SongCommands, Queries

(* A handler's locals keep their types.                                    *)
LEMMA FrameUpdatesType ==
    ASSUME NEW f \in FrameSet
    PROVE  /\ [f EXCEPT !.added = @ + 1] \in FrameSet
           /\ [f EXCEPT !.failed = TRUE] \in FrameSet
           /\ \A s \in StatusSet : [f EXCEPT !.status = s] \in FrameSet
           /\ NoFrame \in FrameSet
<1> DEFINE Statuses == StatusSet \cup {NONE}
<1>1. FrameSet = [status : Statuses, added : Nat, failed : BOOLEAN]
      /\ StatusSet \subseteq Statuses /\ NONE \in Statuses
  BY DEF FrameSet
<1> HIDE DEF Statuses
<1>2. NoFrame \in FrameSet
  BY <1>1 DEF NoFrame
<1>3. [f EXCEPT !.added = @ + 1] \in FrameSet
  BY <1>1
<1>4. [f EXCEPT !.failed = TRUE] \in FrameSet
  BY <1>1
<1>5. ASSUME NEW s \in StatusSet PROVE [f EXCEPT !.status = s] \in FrameSet
  BY <1>1
<1> QED BY <1>2, <1>3, <1>4, <1>5

(* What a handler does when an answer comes: it awaits MPD again, or it    *)
(* replies.                                                                *)
HandlerAwaits == /\ pc \in HandlerPoints /\ frame' \in FrameSet
                 /\ \E cmd : WellFormed(cmd) /\ \E point \in HandlerPoints : Await(point, cmd)
HandlerReplies == pc \in HandlerPoints /\ \E result \in ResultSet : Reply(result)

(* A handler that resumes awaits another command or replies.               *)
LEMMA ResumeShape ==
    ASSUME TypeOK, Resume
    PROVE  PublishReadSong \/ PublishDone \/ HandlerAwaits \/ HandlerReplies
<1> USE DEF HandlerAwaits, HandlerReplies, HandlerPoints, AwaitPoints, Resumes
<1>1. frame \in FrameSet
  BY DEF TypeOK, ActorTypeOK
<1>2. \A n \in Nat : /\ \A kind \in {"Ok", "Command"} : Result(kind) \in ResultSet
                     /\ \A kind \in {"Partial", "Unreconciled"} : Counted(kind, n) \in ResultSet
  BY ResultType
<1>3. ASSUME NEW f \in FrameSet, pc \in HandlerPoints, EnqueueEnds(f)
      PROVE  HandlerAwaits \/ HandlerReplies
  <2>1. CASE f.added > 0 /\ f.status.playlist_length = 0
    BY <1>3, <2>1, SentCommandsType DEF EnqueueEnds, PlainCommands, Queries
  <2>2. CASE ~ (f.added > 0 /\ f.status.playlist_length = 0)
    BY <1>2, <1>3, <2>2 DEF EnqueueEnds, FrameSet
  <2> QED BY <2>1, <2>2
<1>4. ASSUME NEW f \in FrameSet, pc \in HandlerPoints, EnqueueNextPath(f)
      PROVE  HandlerAwaits \/ HandlerReplies
  <2>1. [f EXCEPT !.failed = TRUE] \in FrameSet
    BY FrameUpdatesType
  <2>2. EnqueueEnds(f) \/ EnqueueEnds([f EXCEPT !.failed = TRUE])
        \/ \E path : Await("enqueue_add", [name |-> "add", path |-> path]) /\ frame' = f
    BY <1>4 DEF EnqueueNextPath
  <2> QED BY <1>3, <1>4, <2>1, <2>2, SentCommandsType
<1>5. CASE EnqueueReadBefore
  <2>1. pc \in HandlerPoints
    BY <1>5 DEF EnqueueReadBefore
  <2>2. CASE wire.at = "ok"
    <3>1. [frame EXCEPT !.status = wire.status] \in FrameSet
      BY <1>1, <2>2, FrameUpdatesType DEF TypeOK, WireTypeOK
    <3> QED BY <1>4, <1>5, <2>1, <2>2, <3>1 DEF EnqueueReadBefore
  <2>3. CASE wire.at # "ok"
    BY <1>2, <1>5, <2>1, <2>3 DEF EnqueueReadBefore
  <2> QED BY <2>2, <2>3
<1>6. CASE EnqueueAdded
  <2>1. [frame EXCEPT !.added = @ + 1] \in FrameSet /\ [frame EXCEPT !.failed = TRUE] \in FrameSet
    BY <1>1, FrameUpdatesType
  <2> QED BY <1>3, <1>4, <1>6, <2>1 DEF EnqueueAdded
<1>7. CASE EnqueueReadAfter \/ EnqueueAutoplayed
  <2>1. \A ok \in BOOLEAN : pc \in HandlerPoints /\ EnqueueReply(ok) => HandlerReplies
    BY <1>1, <1>2 DEF EnqueueReply, FrameSet
  <2> QED BY <1>1, <1>7, <2>1, SentCommandsType
       DEF EnqueueReadAfter, EnqueueAutoplayed, PlainCommands
<1>8. CASE ActionReplies \/ ToggleReadStatus \/ MoveReadStatus
  BY <1>1, <1>2, <1>8, SentCommandsType
     DEF ActionReplies, ToggleReadStatus, MoveReadStatus, PlainCommands
<1> QED BY <1>5, <1>6, <1>7, <1>8 DEF Resume

-----------------------------------------------------------------------------
(* One lemma for each part of the invariant: Next preserves it.            *)

IInv == /\ TypeOK /\ CallsAreHeldOnce
        /\ NoSnapshotWithoutConnection /\ ReadsAreCurrent

(* MPD and the connection keep their types.                                *)
LEMMA ServerTypeStep ==
    ASSUME TypeOK, Next
    PROVE  ServerTypeOK'
<1> USE DEF TypeOK, ServerTypeOK
<1>1. CASE MpdAnswers
  <2>1. WellFormed(wire.cmd)
    BY <1>1 DEF MpdAnswers, WireTypeOK
  <2>2. PICK outcome \in Outcomes(mpd, wire.cmd) :
           mpd' = outcome.mpd /\ events' = events \cup Flags(mpd, wire.cmd, outcome)
    BY <1>1 DEF MpdAnswers
  <2>3. mpd' \in MpdStates
    BY <2>1, <2>2, OutcomesType
  <2>4. events' \subseteq Subsystems
    BY <2>2 DEF Flags, Changes, Subsystems
  <2> QED BY <1>1, <2>3, <2>4 DEF MpdAnswers
<1>2. CASE MpdChanges
  <2>1. mpd' \in MpdStates
    BY <1>2, SpontaneousType DEF MpdChanges
  <2>2. events' \subseteq Subsystems
    BY <1>2 DEF MpdChanges, Changes, Subsystems
  <2> QED BY <1>2, <2>1, <2>2, BoundAssumption DEF MpdChanges
<1>3. CASE LinkBreaks
  BY <1>3 DEF LinkBreaks
<1>4. CASE ConnectOk \/ ConnectionClosed \/ Shutdown \/ RecvPanics \/ NextEvent
  BY <1>4 DEF ConnectOk, ConnectionClosed, Shutdown, RecvPanics, NextEvent
<1>5. CASE CallersStep
  BY <1>5 DEF CallersStep, Issue, Accept, SendFails, Abandon, DropHandles, server
<1>6. CASE ConnectErr \/ DrainReject \/ BackoffElapsed \/ RecvRequest \/ RecvNothingToDo
  BY <1>6 DEF ConnectErr, DrainReject, BackoffElapsed, RecvRequest, RecvNothingToDo, server
<1>7. CASE PublishReadSong \/ PublishDone \/ HandlerAwaits \/ HandlerReplies
  BY <1>7 DEF PublishReadSong, PublishDone, HandlerAwaits, HandlerReplies, Await, Reply
<1> QED BY <1>1, <1>2, <1>3, <1>4, <1>5, <1>6, <1>7, ResumeShape
     DEF Next, ServerStep, ActorStep, SessionRecv

(* A command is in flight exactly while the actor awaits one.              *)
LEMMA WireTypeStep ==
    ASSUME TypeOK, CallsAreHeldOnce, Next
    PROVE  WireTypeOK'
<1> USE DEF TypeOK, WireTypeOK, AwaitPoints
<1>1. CASE MpdAnswers
  <2>1. StatusOf(mpd) \in StatusSet /\ CurrentSongOf(mpd) \in SongSet
    BY AnswersType DEF ServerTypeOK
  <2> QED BY <1>1, <2>1 DEF MpdAnswers, actor
<1>2. CASE MpdChanges
  BY <1>2 DEF MpdChanges, actor
<1>3. CASE LinkBreaks
  BY <1>3 DEF LinkBreaks, actor
<1>4. CASE ConnectOk
  BY <1>4, SentCommandsType DEF ConnectOk, PlainCommands, Queries
<1>5. CASE ConnectErr \/ DrainReject \/ BackoffElapsed \/ Shutdown \/ ConnectionClosed
           \/ RecvNothingToDo \/ RecvPanics
  BY <1>5 DEF ConnectErr, DrainReject, BackoffElapsed, Shutdown, ConnectionClosed,
              RecvNothingToDo, RecvPanics, server
<1>6. CASE NextEvent
  <2>1. UNCHANGED <<pc, wire>> \/ (pc' = "publish_status" /\ Send([name |-> "status"]))
    BY <1>6 DEF NextEvent
  <2> QED BY <2>1, SendType, SentCommandsType DEF PlainCommands, Queries
<1>7. CASE RecvRequest
  <2> DEFINE c == Head(inbox)
  <2>1. c \in Calls /\ Places(c) # {}
    BY <1>7 DEF RecvRequest, ActorTypeOK, Places
  <2>2. call[c].req \in Requests
    BY <2>1 DEF CallersTypeOK, CallsAreHeldOnce
  <2>3. WellFormed(FirstCommand(call[c].req)) /\ FirstPoint(call[c].req) \in HandlerPoints
    BY <1>7, <2>2, FirstCommandType DEF RecvRequest
  <2>4. pc' = FirstPoint(call[c].req) /\ Send(FirstCommand(call[c].req))
    BY <1>7 DEF RecvRequest
  <2> QED BY <2>3, <2>4, SendType DEF HandlerPoints
<1>8. CASE CallersStep
  BY <1>8 DEF CallersStep, Issue, Accept, SendFails, Abandon, DropHandles, server, actor
<1>9. CASE PublishReadSong \/ PublishDone
  BY <1>9, SendType, SentCommandsType
     DEF PublishReadSong, PublishDone, Await, Idle, PlainCommands, Queries
<1>10. CASE HandlerAwaits
  BY <1>10, SendType DEF HandlerAwaits, Await, HandlerPoints
<1>11. CASE HandlerReplies
  BY <1>11 DEF HandlerReplies, Reply, Idle
<1> QED BY <1>1, <1>2, <1>3, <1>4, <1>5, <1>6, <1>7, <1>8, <1>9, <1>10, <1>11, ResumeShape
     DEF Next, ServerStep, ActorStep, SessionRecv

(* Replacing one call by a well-typed one that stays issued.               *)
LEMMA CallUpdate ==
    ASSUME CallersTypeOK, NEW c \in Calls, NEW new \in CallSet,
           call' = [call EXCEPT ![c] = new], UNCHANGED <<open, log>>,
           new.at # "new" => new.req \in Requests
    PROVE  CallersTypeOK'
  BY DEF CallersTypeOK

(* Answering a call keeps the callers' types.                              *)
LEMMA AnswerUpdate ==
    ASSUME CallersTypeOK, NEW c \in Calls, NEW result \in ResultSet,
           call' = [call EXCEPT ![c] = Answered(@, result)], UNCHANGED <<open, log>>
    PROVE  CallersTypeOK'
<1>1. call[c] \in CallSet /\ (call[c].at # "new" => call[c].req \in Requests)
  BY DEF CallersTypeOK
<1>2. Answered(call[c], result) \in CallSet
      /\ (Answered(call[c], result).at # "new" => Answered(call[c], result).req \in Requests)
  BY <1>1, AnsweredType
<1> QED BY <1>2, CallUpdate

(* The callers keep their types.                                           *)
LEMMA CallersTypeStep ==
    ASSUME TypeOK, Next
    PROVE  CallersTypeOK'
<1> USE DEF TypeOK
<1>1. \A c \in Calls : call[c] \in CallSet /\ (call[c].at # "new" => call[c].req \in Requests)
  BY DEF CallersTypeOK
<1>2. \A kind \in {"Ok", "Unavailable", "ChannelClosed"} : Result(kind) \in ResultSet
  BY ResultType
<1>3. ASSUME NEW c \in Calls, NEW req \in Requests, Issue(c, req) PROVE CallersTypeOK'
  <2> DEFINE new == [call[c] EXCEPT !.at = "sending", !.req = req]
  <2>1. new \in CallSet /\ new.req \in Requests
    BY <1>1 DEF CallSet
  <2>2. call' = [call EXCEPT ![c] = new] /\ UNCHANGED <<open, log>>
    BY <1>3 DEF Issue, CallersTypeOK
  <2> QED BY <2>1, <2>2, CallUpdate
<1>4. ASSUME NEW c \in Calls, Accept(c) \/ Abandon(c) PROVE CallersTypeOK'
  <2>1. PICK at \in {"waiting", "abandoned"} : call' = [call EXCEPT ![c].at = at]
    BY <1>4 DEF Accept, Abandon
  <2> DEFINE new == [call[c] EXCEPT !.at = at]
  <2>2. new \in CallSet /\ new.req = call[c].req /\ call[c].at # "new"
    BY <1>1, <1>4 DEF CallSet, Accept, Abandon
  <2>3. call' = [call EXCEPT ![c] = new] /\ UNCHANGED <<open, log>>
    BY <1>4, <2>1 DEF Accept, Abandon, CallersTypeOK
  <2> QED BY <1>1, <2>2, <2>3, CallUpdate
<1>5. ASSUME NEW c \in Calls, SendFails(c) PROVE CallersTypeOK'
  <2> DEFINE new == [call[c] EXCEPT !.at = "done", !.result = Result("ChannelClosed")]
  <2>1. new \in CallSet /\ new.req = call[c].req /\ call[c].at # "new"
    BY <1>1, <1>2, <1>5 DEF CallSet, SendFails
  <2>2. call' = [call EXCEPT ![c] = new] /\ UNCHANGED <<open, log>>
    BY <1>5 DEF SendFails, CallersTypeOK
  <2> QED BY <1>1, <2>1, <2>2, CallUpdate
<1>6. CASE DropHandles
  BY <1>6 DEF DropHandles, CallersTypeOK
<1>7. CASE MpdAnswers
  <2>1. wire.cmd.name \in CommandNames
    BY <1>7 DEF MpdAnswers, WireTypeOK, WellFormed
  <2>2. log' = log \/ (hand # NONE /\ log' = [log EXCEPT ![hand] = Append(@, wire.cmd.name)])
    BY <1>7 DEF MpdAnswers
  <2>3. hand # NONE => Append(log[hand], wire.cmd.name) \in Seq(CommandNames)
    BY <2>1 DEF ActorTypeOK, CallersTypeOK
  <2> QED BY <1>7, <2>2, <2>3 DEF MpdAnswers, CallersTypeOK, ActorTypeOK
<1>8. CASE DrainReject \/ RecvNothingToDo
  <2> DEFINE c == Head(inbox)
  <2>1. c \in Calls
    BY <1>8 DEF DrainReject, RecvNothingToDo, ActorTypeOK
  <2>2. PICK kind \in {"Ok", "Unavailable"} : call' = [call EXCEPT ![c] = Answered(@, Result(kind))]
    BY <1>8 DEF DrainReject, RecvNothingToDo
  <2> QED BY <1>2, <1>8, <2>1, <2>2, AnswerUpdate DEF DrainReject, RecvNothingToDo
<1>9. CASE RecvPanics
  <2> DEFINE new(c) == IF \E i \in DOMAIN inbox : inbox[i] = c
                       THEN Answered(call[c], Result("ChannelClosed")) ELSE call[c]
  <2>1. \A c \in Calls : new(c) \in CallSet /\ (new(c).at # "new" => new(c).req \in Requests)
    <3>1. ASSUME NEW c \in Calls
          PROVE  LET a == Answered(call[c], Result("ChannelClosed")) IN
                 a \in CallSet /\ (a.at # "new" => a.req \in Requests)
      BY <1>1, <1>2, AnsweredType
    <3> QED BY <1>1, <3>1
  <2>2. call' = [c \in Calls |-> new(c)] /\ UNCHANGED <<open, log>>
    BY <1>9 DEF RecvPanics
  <2> HIDE DEF new
  <2>3. call' \in [Calls -> CallSet] /\ \A c \in Calls : call'[c] = new(c)
    BY <2>1, <2>2
  <2> QED BY <2>1, <2>2, <2>3 DEF CallersTypeOK
<1>10. CASE HandlerReplies
  <2>1. PICK result \in ResultSet : Reply(result)
    BY <1>10 DEF HandlerReplies
  <2>2. hand \in Calls
    BY <1>10 DEF HandlerReplies, ActorTypeOK
  <2> QED BY <2>1, <2>2, AnswerUpdate DEF Reply
<1>11. CASE PublishReadSong \/ PublishDone \/ HandlerAwaits
  BY <1>11 DEF PublishReadSong, PublishDone, HandlerAwaits, Await, callers, CallersTypeOK
<1>12. CASE MpdChanges \/ LinkBreaks \/ ConnectOk \/ ConnectErr \/ BackoffElapsed \/ Shutdown
            \/ RecvRequest \/ NextEvent \/ ConnectionClosed
  BY <1>12 DEF MpdChanges, LinkBreaks, ConnectOk, ConnectErr, BackoffElapsed, Shutdown,
      RecvRequest, NextEvent, ConnectionClosed, callers, CallersTypeOK
<1> QED BY <1>3, <1>4, <1>5, <1>6, <1>7, <1>8, <1>9, <1>10, <1>11, <1>12, ResumeShape
     DEF Next, ServerStep, ActorStep, SessionRecv, CallersStep

(* The actor keeps its types, and the channel its capacity.                *)
LEMMA ActorTypeStep ==
    ASSUME TypeOK, CallsAreHeldOnce, Next
    PROVE  ActorTypeOK'
<1> USE DEF TypeOK, ActorTypeOK
<1>1. CASE ServerStep
  BY <1>1 DEF ServerStep, MpdAnswers, MpdChanges, LinkBreaks, actor
<1>2. CASE \/ \E c \in Calls, req \in Requests : Issue(c, req)
           \/ \E c \in Calls : SendFails(c) \/ Abandon(c)
           \/ DropHandles
  BY <1>2 DEF Issue, SendFails, Abandon, DropHandles, actor
<1>3. ASSUME NEW c \in Calls, Accept(c) PROVE ActorTypeOK'
  BY <1>3, QueueAssumption DEF Accept
<1>4. CASE DrainReject \/ RecvNothingToDo \/ RecvRequest
  <2> DEFINE c == Head(inbox)
  <2>1. inbox # <<>> /\ inbox' = Tail(inbox)
    BY <1>4 DEF DrainReject, RecvNothingToDo, RecvRequest
  <2>2. inbox' \in Seq(Calls) /\ Len(inbox') <= COMMAND_QUEUE /\ c \in Calls
    BY <2>1, QueueAssumption
  <2>3. CASE DrainReject \/ RecvNothingToDo
    BY <2>2, <2>3 DEF DrainReject, RecvNothingToDo
  <2>4. CASE RecvRequest
    <3>1. Places(c) # {}
      BY <2>1 DEF Places
    <3>2. call[c].req \in Requests
      BY <2>2, <3>1 DEF CallersTypeOK, CallsAreHeldOnce
    <3>3. hand' = c /\ pc' \in HandlerPoints /\ UNCHANGED <<snapshot, frame, backoff>>
      BY <2>4, <3>2, FirstCommandType DEF RecvRequest
    <3> QED BY <2>2, <3>3, NoCallAssumption DEF HandlerPoints, AwaitPoints, ActorPoints
  <2> QED BY <1>4, <2>3, <2>4
<1>5. CASE RecvPanics
  BY <1>5, QueueAssumption
     DEF RecvPanics, HandlerPoints, AwaitPoints, ActorPoints, DeadPoints
<1>6. CASE ConnectErr \/ ConnectionClosed \/ Shutdown
  BY <1>6 DEF ConnectErr, ConnectionClosed, Shutdown, HandlerPoints, AwaitPoints, ActorPoints,
              DeadPoints
<1>7. CASE ConnectOk \/ BackoffElapsed
  BY <1>7, BackoffAssumption
     DEF ConnectOk, BackoffElapsed, HandlerPoints, AwaitPoints, ActorPoints
<1>8. CASE NextEvent
  BY <1>8 DEF NextEvent, HandlerPoints, AwaitPoints, ActorPoints
<1>9. CASE PublishReadSong
  <2>1. frame' = [frame EXCEPT !.status = wire.status] /\ wire.status \in StatusSet
    BY <1>9 DEF PublishReadSong, Resumes, WireTypeOK
  <2>2. frame' \in FrameSet /\ frame'.status \in StatusSet
    BY <2>1, FrameUpdatesType DEF FrameSet
  <2> QED BY <1>9, <2>2
       DEF PublishReadSong, Resumes, Await, HandlerPoints, AwaitPoints, ActorPoints
<1>10. CASE PublishDone
  <2>1. snapshot' \in PlaybackSet \cup {NONE}
    <3>1. CASE UNCHANGED snapshot
      BY <3>1
    <3>2. CASE Resumes("publish_song", "ok") /\ snapshot' = PlaybackFrom(frame.status, wire.song)
      <4>1. frame.status \in StatusSet /\ wire.song \in SongSet
        BY <3>2 DEF Resumes, WireTypeOK
      <4> QED BY <3>2, <4>1 DEF PlaybackFrom, PlaybackSet, StatusSet, SongSet
    <3> QED BY <1>10, <3>1, <3>2 DEF PublishDone
  <2> QED BY <1>10, <2>1, FrameUpdatesType
       DEF PublishDone, Resumes, HandlerPoints, AwaitPoints, ActorPoints
<1>11. CASE HandlerAwaits
  BY <1>11 DEF HandlerAwaits, Await, HandlerPoints, AwaitPoints, ActorPoints
<1>12. CASE HandlerReplies
  BY <1>12, FrameUpdatesType DEF HandlerReplies, Reply, HandlerPoints, AwaitPoints, ActorPoints
<1> QED BY <1>1, <1>2, <1>3, <1>4, <1>5, <1>6, <1>7, <1>8, <1>9, <1>10, <1>11, <1>12, ResumeShape
     DEF Next, ActorStep, SessionRecv, CallersStep

-----------------------------------------------------------------------------
(* No call is lost *)

(* Taking the first request out of the channel.                            *)
LEMMA TakeFirst ==
    ASSUME TypeOK, CallsAreHeldOnce, inbox # <<>>, inbox' = Tail(inbox)
    PROVE  /\ Head(inbox) \in Calls /\ Places(Head(inbox)) # {}
           /\ \A i, j \in DOMAIN inbox' : inbox'[i] = inbox'[j] => i = j
           /\ \A c \in Calls : Places(c)' # {} <=> (c # Head(inbox) /\ Places(c) # {})
<1>1. inbox \in Seq(Calls) /\ \A i, j \in DOMAIN inbox : inbox[i] = inbox[j] => i = j
  BY DEF TypeOK, ActorTypeOK, CallsAreHeldOnce
<1>2. /\ Head(inbox) = inbox[1] /\ DOMAIN inbox = 1..Len(inbox) /\ Len(inbox) \in Nat \ {0}
      /\ DOMAIN inbox' = 1..(Len(inbox) - 1)
      /\ \A i \in DOMAIN inbox' : inbox'[i] = inbox[i + 1]
  BY <1>1
<1>3. Head(inbox) \in Calls /\ Places(Head(inbox)) # {}
  BY <1>1, <1>2 DEF Places
<1>4. \A i, j \in DOMAIN inbox' : inbox'[i] = inbox'[j] => i = j
  BY <1>1, <1>2
<1>5. ASSUME NEW c \in Calls, Places(c)' # {} PROVE c # Head(inbox) /\ Places(c) # {}
  <2>1. PICK i \in DOMAIN inbox' : inbox'[i] = c
    BY <1>5 DEF Places
  <2> QED BY <1>1, <1>2, <2>1 DEF Places
<1>6. ASSUME NEW c \in Calls, c # Head(inbox), Places(c) # {} PROVE Places(c)' # {}
  <2>1. PICK i \in DOMAIN inbox : inbox[i] = c
    BY <1>6 DEF Places
  <2>2. i - 1 \in DOMAIN inbox' /\ inbox'[i - 1] = c
    BY <1>2, <1>6, <2>1
  <2> QED BY <2>2 DEF Places
<1> QED BY <1>3, <1>4, <1>5, <1>6

(* No step loses or duplicates a call.                                     *)
LEMMA CallsHeldStep ==
    ASSUME TypeOK, CallsAreHeldOnce, Next
    PROVE  CallsAreHeldOnce'
<1> USE DEF TypeOK
<1>1. /\ \A c \in Calls : call[c] \in CallSet /\ call \in [Calls -> CallSet]
      /\ inbox \in Seq(Calls) /\ hand \in Calls \cup {NONE} /\ (hand # NONE <=> pc \in HandlerPoints)
  BY DEF CallersTypeOK, ActorTypeOK
<1>2. \A kind \in {"Ok", "Unavailable", "ChannelClosed"} : Result(kind) \in ResultSet
  BY ResultType
<1>3. CASE \E c \in Calls, req \in Requests : Issue(c, req)
  BY <1>1, <1>3 DEF Issue, actor, CallsAreHeldOnce, Places, CallSet
<1>4. ASSUME NEW c \in Calls, Accept(c) PROVE CallsAreHeldOnce'
  <2>1. Places(c) = {} /\ hand' = hand /\ hand # c /\ inbox' = Append(inbox, c)
    BY <1>4 DEF Accept, CallsAreHeldOnce
  <2>2. \A i, j \in DOMAIN inbox' : inbox'[i] = inbox'[j] => i = j
    BY <1>1, <2>1 DEF Places, CallsAreHeldOnce
  <2>3. \A d \in Calls : Places(d)' # {} <=> (d = c \/ Places(d) # {})
    <3>1. DOMAIN inbox' = DOMAIN inbox \cup {Len(inbox) + 1} /\ inbox'[Len(inbox) + 1] = c
          /\ \A i \in DOMAIN inbox : inbox'[i] = inbox[i]
      BY <1>1, <2>1
    <3> QED BY <3>1 DEF Places
  <2>4. \A d \in Calls : call'[d].at = IF d = c THEN "waiting" ELSE call[d].at
    BY <1>1, <1>4 DEF Accept, CallSet
  <2> QED BY <2>1, <2>2, <2>3, <2>4 DEF CallsAreHeldOnce
<1>5. ASSUME NEW c \in Calls, SendFails(c) \/ Abandon(c) PROVE CallsAreHeldOnce'
  <2>1. hand' = hand /\ inbox' = inbox
    BY <1>5 DEF SendFails, Abandon, actor
  <2>2. \A d \in Calls : \/ call'[d].at = call[d].at
                         \/ call'[d].at = "abandoned"
                         \/ call'[d].at = "done" /\ call[d].at = "sending"
    <3>1. CASE SendFails(c)
      BY <1>1, <3>1 DEF SendFails, CallSet
    <3>2. CASE Abandon(c)
      BY <1>1, <3>2 DEF Abandon, CallSet
    <3> QED BY <1>5, <3>1, <3>2
  <2> QED BY <2>1, <2>2 DEF CallsAreHeldOnce, Places
<1>6. CASE DrainReject \/ RecvNothingToDo
  <2> DEFINE c == Head(inbox)
  <2>1. inbox # <<>> /\ inbox' = Tail(inbox) /\ hand' = hand
    BY <1>6 DEF DrainReject, RecvNothingToDo
  <2>2. \E result \in ResultSet : call' = [call EXCEPT ![c] = Answered(@, result)]
    BY <1>2, <1>6 DEF DrainReject, RecvNothingToDo
  <2>3. \A d \in Calls : call'[d].at = IF d = c /\ call[d].at = "waiting" THEN "done" ELSE call[d].at
    BY <1>1, <2>2, AnsweredType
  <2>4. hand = NONE
    BY <1>1, <1>6 DEF DrainReject, RecvNothingToDo, HandlerPoints, AwaitPoints
  <2> QED BY <2>1, <2>3, <2>4, TakeFirst, NoCallAssumption DEF CallsAreHeldOnce
<1>7. CASE RecvRequest
  <2>1. inbox # <<>> /\ inbox' = Tail(inbox) /\ hand' = Head(inbox) /\ call' = call
    BY <1>7 DEF RecvRequest, callers
  <2>2. hand = NONE
    BY <1>1, <1>7 DEF RecvRequest, HandlerPoints, AwaitPoints
  <2> QED BY <2>1, <2>2, TakeFirst, NoCallAssumption DEF CallsAreHeldOnce
<1>8. CASE RecvPanics
  <2>1. hand' = NONE /\ hand = NONE /\ inbox' = <<>>
    BY <1>1, <1>8 DEF RecvPanics, HandlerPoints, AwaitPoints
  <2>2. \A c \in Calls : call'[c].at = IF Places(c) # {} /\ call[c].at = "waiting" THEN "done"
                                       ELSE call[c].at
    BY <1>1, <1>2, <1>8, AnsweredType DEF RecvPanics, Places
  <2> QED BY <2>1, <2>2, NoCallAssumption DEF CallsAreHeldOnce, Places
<1>9. CASE HandlerReplies
  <2>1. PICK result \in ResultSet : Reply(result)
    BY <1>9 DEF HandlerReplies
  <2>2. hand \in Calls /\ hand' = NONE /\ inbox' = inbox
    BY <1>1, <1>9, <2>1 DEF HandlerReplies, Reply
  <2>3. \A d \in Calls : call'[d].at = IF d = hand /\ call[d].at = "waiting" THEN "done"
                                       ELSE call[d].at
    BY <1>1, <2>1, <2>2, AnsweredType DEF Reply
  <2> QED BY <2>2, <2>3, NoCallAssumption DEF CallsAreHeldOnce, Places
<1>10. CASE UNCHANGED <<call, inbox, hand>>
  BY <1>10 DEF CallsAreHeldOnce, Places
<1>11. CASE ServerStep \/ DropHandles
  BY <1>10, <1>11 DEF ServerStep, MpdAnswers, MpdChanges, LinkBreaks, DropHandles, actor, callers
<1>12. CASE ConnectOk \/ ConnectErr \/ BackoffElapsed \/ Shutdown \/ NextEvent \/ ConnectionClosed
            \/ PublishReadSong \/ PublishDone \/ HandlerAwaits
  BY <1>10, <1>12 DEF ConnectOk, ConnectErr, BackoffElapsed, Shutdown, NextEvent, ConnectionClosed,
      PublishReadSong, PublishDone, HandlerAwaits, Await, callers
<1> QED BY <1>3, <1>4, <1>5, <1>6, <1>7, <1>8, <1>9, <1>11, <1>12, ResumeShape
     DEF Next, ActorStep, SessionRecv, CallersStep

-----------------------------------------------------------------------------
(* The published status *)

(* No step publishes a status without a connection.                        *)
LEMMA NoSnapshotStep ==
    ASSUME TypeOK, NoSnapshotWithoutConnection, Next
    PROVE  NoSnapshotWithoutConnection'
<1> USE DEF NoSnapshotWithoutConnection
<1>1. CASE CallersStep \/ ServerStep
  BY <1>1 DEF CallersStep, Issue, Accept, SendFails, Abandon, DropHandles,
              ServerStep, MpdAnswers, MpdChanges, LinkBreaks, actor
<1>2. CASE ConnectOk \/ ConnectErr \/ DrainReject \/ BackoffElapsed \/ Shutdown
           \/ RecvNothingToDo \/ RecvPanics \/ NextEvent \/ ConnectionClosed
  BY <1>2 DEF ConnectOk, ConnectErr, DrainReject, BackoffElapsed, Shutdown, RecvNothingToDo,
              RecvPanics, NextEvent, ConnectionClosed
<1>3. CASE RecvRequest
  BY <1>3 DEF RecvRequest, FirstPoint
<1>4. CASE PublishReadSong \/ PublishDone \/ HandlerReplies
  BY <1>4 DEF PublishReadSong, Await, PublishDone, HandlerReplies, Reply
<1>5. CASE HandlerAwaits
  BY <1>5 DEF HandlerAwaits, Await, HandlerPoints, AwaitPoints
<1> QED BY <1>1, <1>2, <1>3, <1>4, <1>5, ResumeShape DEF Next, ActorStep, SessionRecv

(* MPD flags every change of what the status shows.                        *)
LEMMA UnflaggedIsUnchanged ==
    ASSUME NEW m \in MpdStates, NEW n \in MpdStates,
           \A e \in Changes(m, n) : ~ AffectsPlayback(e)
    PROVE  m = n
<1>1. m.state = n.state /\ m.current = n.current /\ m.volume = n.volume /\ m.queue = n.queue
  BY DEF Changes, AffectsPlayback
<1> QED BY <1>1 DEF MpdStates

(* MPD never refuses a query.                                              *)
LEMMA QueriesSucceed ==
    ASSUME NEW m, NEW cmd, cmd.name \in {"status", "currentsong"}, NEW o \in Outcomes(m, cmd)
    PROVE  o.ok
<1>1. cmd.name \notin SongCommands
  BY DEF SongCommands
<1>2. o = Ok(m)
  BY <1>1 DEF Outcomes, PlainOutcomes
<1> QED BY <1>2 DEF Ok

(* Reads that no change was flagged since stay current: MPD flags every  *)
(* change, and a change flagged is consumed by a new publication.          *)
LEMMA ReadsStep ==
    ASSUME TypeOK, ReadsAreCurrent, Next
    PROVE  ReadsAreCurrent'
<1> USE DEF PublishPoints
<1>1. CASE MpdAnswers
  <2>1. PICK outcome \in Outcomes(mpd, wire.cmd) :
           /\ mpd' = outcome.mpd /\ events' = events \cup Flags(mpd, wire.cmd, outcome)
           /\ wire' = [at |-> IF outcome.ok THEN "ok" ELSE "err", cmd |-> wire.cmd,
                       status |-> StatusOf(mpd), song |-> CurrentSongOf(mpd)]
    BY <1>1 DEF MpdAnswers
  <2>2. link = "up" /\ UNCHANGED <<pc, frame, snapshot>>
    BY <1>1 DEF MpdAnswers, actor
  <2>3. pc \in PublishPoints => wire'.at # "err" /\ wire'.cmd = wire.cmd
    BY <2>1, <2>2, QueriesSucceed DEF ReadsAreCurrent
  <2>4. NoChangeToConsume' => mpd' = mpd /\ NoChangeToConsume
    <3>1. mpd' \in MpdStates /\ mpd \in MpdStates
      BY ServerTypeStep DEF TypeOK, ServerTypeOK
    <3>2. NoChangeToConsume' => NoChangeToConsume /\ \A e \in Changes(mpd, mpd') : ~ AffectsPlayback(e)
      BY <2>1 DEF NoChangeToConsume, Flags
    <3> QED BY <3>1, <3>2, UnflaggedIsUnchanged
  <2> QED BY <2>1, <2>2, <2>3, <2>4 DEF ReadsAreCurrent
<1>2. CASE MpdChanges
  <2>1. UNCHANGED <<link, wire, pc, frame, snapshot>>
    BY <1>2 DEF MpdChanges, actor
  <2>2. link = "up" /\ NoChangeToConsume' => mpd' = mpd /\ NoChangeToConsume
    <3>1. mpd' \in MpdStates /\ mpd \in MpdStates
      BY ServerTypeStep DEF TypeOK, ServerTypeOK
    <3>2. link = "up" /\ NoChangeToConsume'
            => NoChangeToConsume /\ \A e \in Changes(mpd, mpd') : ~ AffectsPlayback(e)
      BY <1>2 DEF MpdChanges, NoChangeToConsume
    <3> QED BY <3>1, <3>2, UnflaggedIsUnchanged
  <2> QED BY <2>1, <2>2 DEF ReadsAreCurrent
<1>3. CASE LinkBreaks \/ Shutdown \/ RecvPanics \/ ConnectionClosed
  BY <1>3 DEF LinkBreaks, Shutdown, RecvPanics, ConnectionClosed, ReadsAreCurrent
<1>4. CASE ConnectOk \/ ConnectErr \/ DrainReject \/ BackoffElapsed
  BY <1>4 DEF ConnectOk, ConnectErr, DrainReject, BackoffElapsed, ReadsAreCurrent,
              HandlerPoints, AwaitPoints
<1>5. CASE RecvRequest
  <2>1. pc = "select" /\ pc' \in HandlerPoints /\ UNCHANGED <<mpd, link, events, snapshot>>
    BY <1>5 DEF RecvRequest, FirstPoint, HandlerPoints, AwaitPoints
  <2> QED BY <2>1 DEF ReadsAreCurrent, NoChangeToConsume, HandlerPoints
<1>6. CASE RecvNothingToDo \/ CallersStep
  BY <1>6 DEF RecvNothingToDo, CallersStep, Issue, Accept, SendFails, Abandon, DropHandles,
              server, actor, ReadsAreCurrent, NoChangeToConsume
<1>7. CASE NextEvent
  <2>1. PICK e \in events :
           /\ events' = events \ {e} /\ UNCHANGED <<mpd, link, snapshot>> /\ pc = "select"
           /\ \/ pc' = "publish_status" /\ Send([name |-> "status"])
              \/ ~ AffectsPlayback(e) /\ UNCHANGED <<pc, wire>>
    BY <1>7 DEF NextEvent
  <2>2. CASE pc' = "publish_status" /\ Send([name |-> "status"])
    BY <2>1, <2>2 DEF Send, ReadsAreCurrent, HandlerPoints
  <2>3. CASE ~ AffectsPlayback(e) /\ UNCHANGED <<pc, wire>>
    <3>1. NoChangeToConsume' => NoChangeToConsume
      BY <2>1, <2>3 DEF NoChangeToConsume
    <3> QED BY <2>1, <2>3, <3>1 DEF ReadsAreCurrent
  <2> QED BY <2>1, <2>2, <2>3
<1>8. CASE PublishReadSong
  <2>1. /\ pc = "publish_status" /\ wire.at = "ok" /\ pc' = "publish_song"
        /\ frame' = [frame EXCEPT !.status = wire.status]
        /\ Send([name |-> "currentsong"]) /\ UNCHANGED <<mpd, link, events, snapshot>>
    BY <1>8 DEF PublishReadSong, Resumes, Await
  <2>2. frame'.status = wire.status
    BY <2>1 DEF TypeOK, ActorTypeOK, FrameSet
  <2> QED BY <2>1, <2>2 DEF ReadsAreCurrent, NoChangeToConsume, Send, HandlerPoints
<1>9. CASE PublishDone
  <2>1. pc \in PublishPoints /\ pc' = "select" /\ UNCHANGED <<mpd, link, events>>
    BY <1>9 DEF PublishDone, Resumes
  <2>2. link = "up" => pc = "publish_song" /\ wire.at = "ok"
                       /\ snapshot' = PlaybackFrom(frame.status, wire.song)
    BY <1>9, <2>1 DEF PublishDone, Resumes, ReadsAreCurrent
  <2> QED BY <2>1, <2>2 DEF ReadsAreCurrent, NoChangeToConsume, PlaybackOf
<1>10. CASE HandlerAwaits \/ HandlerReplies
  <2>1. pc \in HandlerPoints /\ pc' \in {"select"} \cup HandlerPoints
        /\ UNCHANGED <<mpd, link, events, snapshot>>
    BY <1>10 DEF HandlerAwaits, HandlerReplies, Await, Reply
  <2> QED BY <2>1 DEF ReadsAreCurrent, NoChangeToConsume, HandlerPoints
<1> QED BY <1>1, <1>2, <1>3, <1>4, <1>5, <1>6, <1>7, <1>8, <1>9, <1>10, ResumeShape
     DEF Next, ServerStep, ActorStep, SessionRecv

-----------------------------------------------------------------------------
(* The inductive invariant, and the theorems *)

(* The inductive invariant holds initially ...                             *)
LEMMA InitInvariant == Init => IInv
<1> SUFFICES ASSUME Init PROVE IInv
  OBVIOUS
<1> USE NoneAssumption, BackoffAssumption, QueueAssumption, BoundAssumption DEF Init
<1>1. mpd \in MpdStates
  <2>1. PICK q \in SavedQueues, level \in Levels \cap Volumes : mpd \in RestoredMpd(q, level)
    OBVIOUS
  <2>2. q \in Seq(SongIds) /\ \A i \in DOMAIN q : q[i] \in SongIds
    BY SavedAssumption
  <2> QED BY <2>1, <2>2 DEF RestoredMpd, MpdStates, PlayStates
<1>2. ServerTypeOK
  BY <1>1 DEF ServerTypeOK
<1>3. CallersTypeOK
  <2>1. NoResult \in ResultSet
    BY ResultType DEF NoResult
  <2> QED BY <2>1 DEF CallersTypeOK, CallSet
<1>4. ActorTypeOK /\ WireTypeOK
  BY FrameUpdatesType
     DEF ActorTypeOK, WireTypeOK, ActorPoints, HandlerPoints, AwaitPoints, Idle, FrameSet, NoFrame
<1>5. CallsAreHeldOnce
  BY NoCallAssumption DEF CallsAreHeldOnce, Places
<1>6. NoSnapshotWithoutConnection /\ ReadsAreCurrent
  BY DEF NoSnapshotWithoutConnection, ReadsAreCurrent
<1> QED BY <1>2, <1>3, <1>4, <1>5, <1>6 DEF IInv, TypeOK

(* ... and every step keeps it.                                            *)
LEMMA NextInvariant == IInv /\ [Next]_vars => IInv'
<1> SUFFICES ASSUME IInv, [Next]_vars PROVE IInv'
  OBVIOUS
<1> USE DEF IInv
<1>1. CASE Next
  <2>1. TypeOK'
    BY <1>1, ServerTypeStep, CallersTypeStep, ActorTypeStep, WireTypeStep DEF TypeOK
  <2> QED BY <1>1, <2>1, CallsHeldStep, NoSnapshotStep, ReadsStep
<1>2. CASE UNCHANGED vars
  BY <1>2 DEF vars, server, callers, actor, TypeOK, ServerTypeOK, CallersTypeOK, ActorTypeOK,
      WireTypeOK, CallsAreHeldOnce, Places, NoSnapshotWithoutConnection, ReadsAreCurrent,
      NoChangeToConsume
<1> QED BY <1>1, <1>2

(* The inductive invariant holds of every behaviour.                       *)
THEOREM Invariant == Spec => []IInv
  BY InitInvariant, NextInvariant, PTL DEF Spec

(* Type correctness: in particular the command channel never exceeds its   *)
(* capacity, a request is in hand exactly while a handler awaits MPD, and  *)
(* the backoff stays between its bounds (mpd.rs actor_loop).               *)
THEOREM TypeCorrect == Spec => []TypeOK
<1>1. IInv => TypeOK
  BY DEF IInv
<1> QED BY <1>1, Invariant, PTL

(* No call is lost: whoever awaits an answer has its request, once, in the *)
(* channel or in the actor's hand (mpd.rs, the one-shot reply senders).    *)
THEOREM NoCallIsLost == Spec => []CallsAreHeldOnce
<1>1. IInv => CallsAreHeldOnce
  BY DEF IInv
<1> QED BY <1>1, Invariant, PTL

(* The status is withdrawn while the actor has no connection (mpd.rs       *)
(* actor_loop, state.send(None)).                                          *)
THEOREM SnapshotIsWithdrawn == Spec => []NoSnapshotWithoutConnection
<1>1. IInv => NoSnapshotWithoutConnection
  BY DEF IInv
<1> QED BY <1>1, Invariant, PTL

(* No change is missed: back in select!, with nothing left to consume on a *)
(* live connection, the published status is MPD's (mpd.rs session_loop,    *)
(* publish_state).                                                         *)
THEOREM SettledSnapshot == Spec => []SettledSnapshotIsCurrent
<1>1. IInv => SettledSnapshotIsCurrent
  BY DEF IInv, ReadsAreCurrent, SettledSnapshotIsCurrent, NoChangeToConsume
<1> QED BY <1>1, Invariant, PTL
=============================================================================
