---------------------------- MODULE HttpApiProps ----------------------------
(***************************************************************************)
(* What the HTTP API and mba-cli promise: correctness properties of Cli    *)
(* and, below it, HttpApi and Library.                                     *)
(***************************************************************************)
EXTENDS Cli

Points == {"none", "lookup", "read", "helper", "calling", "answered"}
TypeOK ==
    /\ tree \in Trees /\ changes \in 0..MaxChanges /\ asks \in 0..MaxAsks
    /\ \A c \in Clients : LET r == request[c] IN
         /\ r.at \in Points /\ r.id \in 0..asks /\ r.depth <= Len(r.path)
         /\ (r.at = "calling") => r.call # NONE
         /\ (r.at = "read") => r.todo # <<>> /\ Head(r.todo).dir
         /\ (r.at = "answered") <=> r.status \in {200, 202, 400, 404, 500, 502, 503}
    /\ \A e \in effects : e.by \in 1..asks
    /\ \A r \in orphans : r.id \in 1..asks /\ r.at = "calling"
    /\ exit \in [Shells -> {NONE, 0, 1}]

Queued(c) == request[c].at = "calling" /\ request[c].ask.kind = "directory"
Tracks(c) == request[c].call.tracks

(* A directory is queued depth first and in order, nothing twice, even if  *)
(* the tree changes between the reads.  collect_audio_files_depth_first.   *)
TracksInOrder ==
    \A c \in Clients : Queued(c) =>
        \A i, j \in DOMAIN Tracks(c) : i < j => Before(Tracks(c)[i], Tracks(c)[j])

(* Nothing is missed and nothing made up: what reaches the actor is every  *)
(* track the directory held all the time, and only tracks it held at some  *)
(* time.  A directory that cannot be read is an error, never a gap.        *)
NothingMissed ==
    \A c \in Clients : Queued(c) =>
        /\ seen[c].always \subseteq ToSet(Tracks(c))
        /\ ToSet(Tracks(c)) \subseteq seen[c].ever

(* What a listing shows can be opened: unless the tree has changed, each   *)
(* of its paths, sent back as it is, passes validation and lookup as what  *)
(* it was listed as.  Not so for names that end in a blank, which          *)
(* normalize_library_path trims, nor for top-level names that begin with   *)
(* "file:", which it refuses: the trees of this model have none of these.  *)
Opens(raw, kinds) ==
    /\ ~ Refused(raw) /\ Normalized(raw) = raw
    /\ \A k \in 0..Len(raw) : LookupStatus(tree, Prefix(raw, k)) = 200
    /\ tree[raw] \in kinds
ListedCanBeOpened ==
    \A c \in Clients : seen[c].fresh /\ request[c].at = "answered" =>
        \A path \in ToSet(request[c].found) :
            \/ Trim(path) # path \/ Opens(path, Directories)
            \/ (Opens(path, {"file"}) /\ Last(path) \in Audio)

EffectsOf(id) == {e \in effects : e.by = id}

(* Answers tell the truth, from the file system and the actor to the exit  *)
(* code: after 202, or exit 0 of a command that changes something, the     *)
(* whole call was carried out; after 400, 404, 500 and 503, which a client *)
(* may send again, nothing was, and nothing will be.                       *)
AnswersTellTheTruth ==
    \A c \in Clients : LET r == request[c] IN
        /\ r.status = 202 => \E e \in EffectsOf(r.id) : e.whole
        /\ r.status \in {400, 404, 500, 503} =>
              EffectsOf(r.id) = {} /\ \A o \in orphans : o.id # r.id
        /\ (c \in Shells /\ exit[c] = 0 /\ r.ask.kind \notin {"list", "status"}) =>
              \E e \in EffectsOf(r.id) : e.whole

(* What reaches the actor is what was typed, through the body mba-cli      *)
(* builds and the handler that reads it: the item by its id if there is    *)
(* one and else by its position, the destination, the level.               *)
Typed(cmd) == (IF cmd.verb = "queue-move" THEN cmd.positions ELSE <<cmd.position>>)
Means(cmd, call) ==
    CASE cmd.verb = "volume" -> call.name = "volume" /\ call.level = cmd.level
      [] cmd.verb = "seek" -> call.name = "seek" /\ call.seconds = cmd.seconds
      [] cmd.verb \in {"queue-remove", "queue-next", "queue-move"} ->
            /\ <<cmd.verb, call.name>> \in {<<"queue-remove", "remove">>, <<"queue-next", "play-next">>,
                                            <<"queue-move", "move">>}
            /\ call.target = IF cmd.id # NONE THEN <<"id", cmd.id>>
                             ELSE <<"position", Head(Typed(cmd))>>
            /\ call.name = "move" => call.to = IF cmd.to # NONE THEN cmd.to ELSE Last(cmd.positions)
      [] cmd.verb = "enqueue" -> call.tracks = <<Normalized(cmd.raw)>>
      [] cmd.verb = "enqueue-dir" -> \A i \in DOMAIN call.tracks : Below(call.tracks[i], Normalized(cmd.raw))
      [] OTHER -> call.name = cmd.verb
EffectsAreMeant ==
    \A e \in effects : meant[e.by] # NONE => Means(meant[e.by], e.call)

-----------------------------------------------------------------------------
(* Every request is answered, unless its client leaves: every handler ends *)
(* its walk, and a network helper that hangs does not hold GET status.     *)
(* run_network_status_command, collect_audio_files_depth_first.            *)
EveryRequestIsAnswered ==
    \A c \in Clients : request[c].at # "none" ~> request[c].at \in {"none", "answered"}
=============================================================================
