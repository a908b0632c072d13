------------------------------ MODULE HttpApi ------------------------------
(***************************************************************************)
(* The HTTP API of mba-player (crates/mba-player/src/http.rs): what each   *)
(* handler does with a request, from its validation, through the system    *)
(* calls of library.rs and the call of the MPD actor, to the status code.  *)
(*                                                                         *)
(* Handlers run concurrently with each other and with changes of the music *)
(* tree.  A client may leave at any await; the handler is then dropped,    *)
(* not what it already gave to the actor.  The actor is what MpdService    *)
(* says: it carries a call out at most once, before it answers; it answers *)
(* 503 only if nothing happened and an error otherwise if a part may have. *)
(*                                                                         *)
(* Left out: the static pages, the rest of a status (playback is the       *)
(* actor's snapshot), helper processes that outlive their request, and     *)
(* links made by a change of the tree.                                     *)
(***************************************************************************)
EXTENDS Library, FiniteSets

CONSTANTS
    Clients, NONE,
    INFINITE,       \* a number that is not finite
    InitialTrees,   \* the trees at first
    ChangingPaths,  \* the paths that change
    MaxChanges,     \* bound: changes of the tree
    MaxAsks         \* bound: requests in all

ASSUME TreesAssumption == /\ InitialTrees \subseteq {t \in Trees : IsTree(t)}
                          /\ ChangingPaths \subseteq LibraryPaths \ {<<>>}
ASSUME ApiBoundsAssumption == MaxChanges \in Nat /\ MaxAsks \in Nat

VARIABLES
    tree,     \* the file tree under the music root
    changes,  \* how often it has changed
    request,  \* the request of each client, its handler's locals and its answer
    asks,     \* numbers the requests
    orphans,  \* the calls whose handler was dropped and the actor may still hold
    effects,  \* history: what the actor carried out, for which request
    seen      \* history: the tracks its directory held always, and ever, since each
              \* client's request began, and whether the tree is still what it listed
vars == <<tree, changes, request, asks, orphans, effects, seen>>

NoRequest == [id |-> 0, ask |-> NONE, at |-> "none", path |-> <<>>, depth |-> 0,
              todo |-> <<>>, found |-> <<>>, call |-> NONE, status |-> 0, network |-> NONE]
Unseen == [always |-> {}, ever |-> {}, fresh |-> FALSE]

Init ==
    /\ tree \in InitialTrees /\ changes = 0
    /\ request = [c \in Clients |-> NoRequest] /\ asks = 0
    /\ orphans = {} /\ effects = {} /\ seen = [c \in Clients |-> Unseen]

-----------------------------------------------------------------------------
(* From the body of a request to the call of MpdHandle it asks for, or     *)
(* NONE where the handler answers 400.                                     *)

Target_PositionFirst(id, position) ==   \* Mutant: the position wins.
    IF position # NONE THEN <<"position", position>>
    ELSE IF id # NONE THEN <<"id", id>> ELSE NONE
Target(id, position) == IF id # NONE THEN <<"id", id>>
                        ELSE IF position # NONE THEN <<"position", position>> ELSE NONE

SeekCall(seconds) == IF seconds = INFINITE \/ seconds < 0 THEN NONE
                     ELSE [name |-> "seek", seconds |-> seconds]
VolumeCall(level) == IF level \notin 0..100 THEN NONE
                     ELSE [name |-> "volume", level |-> level % 256]
EditCall(ask) == LET target == Target(ask.id, ask.position) IN
                 IF target = NONE THEN NONE
                 ELSE [name |-> ask.name, target |-> target, to |-> ask.to]
Call(ask) ==
    CASE ask.kind = "seek" -> SeekCall(ask.seconds)
      [] ask.kind = "volume" -> VolumeCall(ask.level)
      [] ask.kind = "edit" -> EditCall(ask)
      [] OTHER -> [name |-> ask.name]
Enqueue(tracks) == [name |-> "enqueue", tracks |-> tracks]

Answer(r, status) == [r EXCEPT !.at = "answered", !.status = status]
Calling(r, call) == [r EXCEPT !.at = "calling", !.call = call]

(* The part of a library handler before its first system call.             *)
PathKinds == {"list", "file", "directory"}
ResolvePath(r) ==
    LET path == Normalized(r.ask.raw) IN
    IF \/ Refused(r.ask.raw)
       \/ path = <<>> /\ r.ask.kind # "list"
       \/ path # <<>> /\ r.ask.kind = "file" /\ Last(path) \notin Audio
    THEN Answer(r, 400) ELSE [r EXCEPT !.at = "lookup", !.path = path]

Handle(r) ==
    CASE r.ask.kind \in PathKinds -> ResolvePath(r)
      [] r.ask.kind = "status" -> [r EXCEPT !.at = "helper"]
      [] OTHER -> IF Call(r.ask) = NONE THEN Answer(r, 400) ELSE Calling(r, Call(r.ask))

IsFree(c) == request[c].at \in {"none", "answered"} /\ asks < MaxAsks
Receive(c, ask) ==
    /\ IsFree(c) /\ asks' = asks + 1
    /\ LET r == Handle([NoRequest EXCEPT !.id = asks', !.ask = ask])
           under == IF ask.kind = "directory" THEN TracksUnder(tree, r.path) ELSE {} IN
       /\ request' = [request EXCEPT ![c] = r]
       /\ seen' = [seen EXCEPT ![c] = [always |-> under, ever |-> under, fresh |-> FALSE]]
    /\ UNCHANGED <<tree, changes, orphans, effects>>

Step(c, r) ==
    /\ request' = [request EXCEPT ![c] = r]
    /\ UNCHANGED <<tree, changes, asks, orphans, effects>>

-----------------------------------------------------------------------------
(* library.rs, one system call a step; nothing is awaited here *)

Items(paths, isDir) == [i \in DOMAIN paths |-> [path |-> paths[i], dir |-> isDir]]

(* The kind of the last component decides; the root must be a directory.   *)
Resolved(r) ==
    CASE r.ask.kind = "file" -> IF tree[r.path] = "file" THEN Calling(r, Enqueue(<<r.path>>))
                                ELSE Answer(r, 400)
      [] OTHER -> IF tree[r.path] \in Directories THEN [r EXCEPT !.at = "read", !.todo = Items(<<r.path>>, TRUE)]
                  ELSE Answer(r, 400)

Lookup(c) ==
    LET r == request[c]
        status == LookupStatus(tree, Prefix(r.path, r.depth)) IN
    /\ r.at = "lookup"
    /\ Step(c, IF status # 200 THEN Answer(r, status)
               ELSE IF r.depth = 0 /\ tree[<<>>] \notin Directories THEN Answer(r, 400)
               ELSE IF r.depth < Len(r.path) THEN [r EXCEPT !.depth = @ + 1]
               ELSE Resolved(r))
    /\ UNCHANGED seen

ListDirectory(c) ==
    LET r == request[c] IN
    /\ r.at = "read" /\ r.ask.kind = "list" /\ Readable(tree, r.path)
    /\ Step(c, [Answer(r, 200) EXCEPT !.found = DirectoriesIn(tree, r.path) \o TracksIn(tree, r.path),
                                     !.todo = <<>>])
    /\ seen' = [seen EXCEPT ![c].fresh = TRUE]

(* collect_audio_files_depth_first: the children of a directory come       *)
(* before whatever the walk still has to do; the tracks before the next    *)
(* directory are collected.                                                *)
Collected(r, todo, done) ==
    [r EXCEPT !.found = @ \o [i \in 1..done |-> todo[i].path],
              !.todo = SubSeq(todo, done + 1, Len(todo))]
TracksFirst(todo) == LET next == SelectInSeq(todo, LAMBDA item : item.dir) IN
                     IF next = 0 THEN Len(todo) ELSE next - 1
Walked_BreadthFirst(r, children) ==   \* Mutant: children wait behind the rest.
    LET todo == Tail(r.todo) \o children IN Collected(r, todo, TracksFirst(todo))
Walked_OffByOne(r, children) ==   \* Mutant: one item too many is taken.
    LET todo == children \o Tail(r.todo) IN
    Collected(r, todo, IF todo = <<>> THEN 0 ELSE TracksFirst(todo) + 1)
Walked(r, children) ==
    LET todo == children \o Tail(r.todo) IN Collected(r, todo, TracksFirst(todo))

(* audio_files_for_directory, when nothing is left to walk.                *)
WalkedOn(r) == IF r.todo # <<>> THEN r
               ELSE IF r.found = <<>> THEN Answer(r, 400) ELSE Calling(r, Enqueue(r.found))

WalkDirectory(c) ==
    LET r == request[c]
        dir == Head(r.todo).path IN
    /\ r.at = "read" /\ r.ask.kind = "directory" /\ Readable(tree, dir)
    /\ \E children \in {Items(DirectoriesIn(tree, dir), TRUE) \o Items(TracksIn(tree, dir), FALSE)} :
          Step(c, WalkedOn(Walked(r, children)))
    /\ UNCHANGED seen

(* One directory that is gone or closed by now fails the whole request.    *)
ReadFails_Skips(c) ==   \* Mutant: what cannot be read is passed over.
    LET r == request[c] IN
    /\ r.at = "read" /\ ~ Readable(tree, Head(r.todo).path)
    /\ Step(c, WalkedOn(Walked(r, <<>>))) /\ UNCHANGED seen
ReadFails(c) ==
    LET r == request[c] IN
    /\ r.at = "read" /\ ~ Readable(tree, Head(r.todo).path)
    /\ Step(c, Answer(r, 500)) /\ UNCHANGED seen

-----------------------------------------------------------------------------
(* The actor *)

Effect(r, whole) == [by |-> r.id, call |-> r.call, whole |-> whole]

(* What a call may have done when the actor answers an error: everything,  *)
(* nothing, or the first of several tracks.                                *)
Partially(r) == {effects, effects \cup {Effect(r, TRUE)}} \cup
                (IF r.call.name = "enqueue" THEN {effects \cup {Effect(r, FALSE)}} ELSE {})

ActorAnswers(c, status, outcomes) ==
    /\ request[c].at = "calling"
    /\ effects' \in outcomes
    /\ request' = [request EXCEPT ![c] = Answer(@, status)]
    /\ UNCHANGED <<tree, changes, asks, orphans, seen>>

(* Ok; ApiError::from(MpdError): Unavailable and ChannelClosed, Command.   *)
Succeeds(c) == LET r == request[c] IN
    ActorAnswers(c, IF r.ask.kind = "plain" /\ r.ask.name \in {"queue", "rescan"} THEN 200 ELSE 202,
                 {effects \cup {Effect(r, TRUE)}})
IsUnavailable(c) == ActorAnswers(c, 503, {effects})
CommandFails_Unavailable(c) ==   \* Mutant: every failure may be retried.
    ActorAnswers(c, 503, Partially(request[c]))
CommandFails(c) == ActorAnswers(c, 502, Partially(request[c]))

(* The client leaves; the actor may hold its call, and carries it out later*)
(* or not at all.                                                          *)
ClientLeaves(c) ==
    /\ request[c].at \in {"helper", "calling"}
    /\ orphans' \in {orphans} \cup (IF request[c].at = "calling" THEN {orphans \cup {request[c]}} ELSE {})
    /\ request' = [request EXCEPT ![c] = NoRequest]
    /\ UNCHANGED <<tree, changes, asks, effects, seen>>

OrphanEnds(r) ==
    /\ r \in orphans /\ orphans' = orphans \ {r}
    /\ effects' \in Partially(r)
    /\ UNCHANGED <<tree, changes, request, asks, seen>>

-----------------------------------------------------------------------------
(* GET status waits for the network helper, which may never end, and for   *)
(* five seconds at most; both ways its answer is 200.                      *)

HelperEnds(c) ==
    /\ request[c].at = "helper"
    /\ \E network \in {NONE, "shown"} : Step(c, [Answer(request[c], 200) EXCEPT !.network = network])
    /\ UNCHANGED seen
HelperTimesOut_Never(c) ==   \* Mutant: nothing bounds the helper.
    request[c].at = "helper" /\ FALSE /\ UNCHANGED vars
HelperTimesOut(c) ==
    /\ request[c].at = "helper"
    /\ Step(c, Answer(request[c], 200))
    /\ UNCHANGED seen

-----------------------------------------------------------------------------
(* rsync puts a file or a directory in place (from a hidden name), deletes *)
(* what is there with all below it, or changes a mode.                     *)
TreeChanges(path, kind) ==
    /\ changes < MaxChanges /\ changes' = changes + 1
    /\ tree[Front(path)] \in Directories /\ kind # tree[path]
    /\ tree' = [p \in LibraryPaths |->
                   IF p = path THEN kind
                   ELSE IF Below(p, path) /\ {kind, tree[path]} # Directories THEN "absent" ELSE tree[p]]
    /\ seen' = [c \in Clients |->
          LET r == request[c]
              under == IF r.at # "none" /\ r.ask.kind = "directory" THEN TracksUnder(tree', r.path) ELSE {} IN
          [always |-> seen[c].always \cap under, ever |-> seen[c].ever \cup under, fresh |-> FALSE]]
    /\ UNCHANGED <<request, asks, orphans, effects>>

Handler(c) == Lookup(c) \/ ListDirectory(c) \/ WalkDirectory(c) \/ ReadFails(c) \/ HelperTimesOut(c)
Actor(c) == Succeeds(c) \/ IsUnavailable(c) \/ CommandFails(c)
Environment ==
    \/ \E c \in Clients : HelperEnds(c)
    \/ \E r \in orphans : OrphanEnds(r)
    \/ \E path \in ChangingPaths, kind \in {"dir", "closed", "file", "absent"} : TreeChanges(path, kind)
=============================================================================
