--------------------------- MODULE HttpApiProofs ---------------------------
(***************************************************************************)
(* Theorems about Cli and HttpApi, for any clients, command lines, requests*)
(* and file trees that change any number of times: answers tell the truth  *)
(* (from IInv), and what is listed, queued and carried out is what the     *)
(* tree holds and the user typed (from JInv, with IInv).                   *)
(***************************************************************************)
EXTENDS HttpApiProps, LibraryProofs

-----------------------------------------------------------------------------
(* Answers tell the truth *)

Fields == {"id", "ask", "at", "path", "depth", "todo", "found", "call", "status", "network"}
Busy == {"lookup", "read", "helper", "calling"}
Nothing == {400, 404, 500, 503}
Queries == {"list", "status"}

(* A request of ours when n were made: its number, and how far it is.      *)
RequestOK(r, n) ==
    /\ DOMAIN r = Fields /\ r.at \in {"none", "answered"} \cup Busy
    /\ r.id \in 0..n /\ (r.at = "none" <=> r.id = 0)
    /\ r.at = "helper" => r.ask.kind = "status"
    /\ r.at # "answered" => r.status = 0

(* What its answer says is true of what was done.                          *)
DoneFor(id, done) == {e \in done : e.by = id}
AnswerOK(r, done) ==
    /\ r.at \in Busy => DoneFor(r.id, done) = {}
    /\ r.status = 202 => \E e \in DoneFor(r.id, done) : e.whole
    /\ (r.status = 200 /\ r.ask.kind \notin Queries) => \E e \in DoneFor(r.id, done) : e.whole
    /\ r.status \notin {200, 202} => r.status \notin 200..299
    /\ r.status \in Nothing => DoneFor(r.id, done) = {}

(* Requests, those the actor still holds for clients that left among them, *)
(* never share a number.                                                   *)
NumbersDiffer ==
    /\ \A c, d \in Clients : request[c].id = request[d].id => c = d \/ request[c].id = 0
    /\ \A o \in orphans : o.id \in 1..asks /\ \A c \in Clients : request[c].id # o.id
    /\ \A e \in effects : e.by \in 1..asks

ExitOK ==
    \A c \in Shells : exit[c] = 0 => request[c].at = "answered" /\ request[c].status \in 200..299

IInv ==
    /\ asks \in Nat /\ request = [c \in Clients |-> request[c]] /\ exit = [c \in Shells |-> exit[c]]
    /\ \A c \in Clients : RequestOK(request[c], asks)
    /\ \A c \in Clients : AnswerOK(request[c], effects)
    /\ NumbersDiffer /\ ExitOK

(* The invariant says that answers tell the truth.                         *)
LEMMA InvariantIsTrue == ASSUME IInv PROVE AnswersTellTheTruth
<1> SUFFICES ASSUME NEW c \in Clients
    PROVE  LET r == request[c] IN
        /\ r.status = 202 => \E e \in EffectsOf(r.id) : e.whole
        /\ r.status \in {400, 404, 500, 503} =>
              EffectsOf(r.id) = {} /\ \A o \in orphans : o.id # r.id
        /\ (c \in Shells /\ exit[c] = 0 /\ r.ask.kind \notin {"list", "status"}) =>
              \E e \in EffectsOf(r.id) : e.whole
  BY DEF AnswersTellTheTruth
<1>1. EffectsOf(request[c].id) = DoneFor(request[c].id, effects)
  BY DEF EffectsOf, DoneFor
<1>2. AnswerOK(request[c], effects)
  BY DEF IInv
<1>3. \A o \in orphans : o.id # request[c].id
  BY DEF IInv, NumbersDiffer
<1>4. (c \in Shells /\ exit[c] = 0) => request[c].status \in {200, 202}
  BY <1>2 DEF IInv, ExitOK, AnswerOK
<1> QED BY <1>1, <1>2, <1>3, <1>4 DEF AnswerOK, Nothing, Queries

-----------------------------------------------------------------------------
(* One request goes on *)

(* What is done for one request says nothing of another.                   *)
ActsFor(id) == effects \subseteq effects' /\ \A e \in effects' \ effects : e.by = id

(* What is done for one request leaves the answers of others true.         *)
LEMMA OthersUntouched ==
    ASSUME NEW id, NEW r, r.id # id, ActsFor(id), AnswerOK(r, effects)
    PROVE  AnswerOK(r, effects')
<1>1. DoneFor(r.id, effects') = DoneFor(r.id, effects)
  BY DEF ActsFor, DoneFor
<1> QED BY <1>1 DEF AnswerOK

(* A request goes on or is answered, and the actor acted only for it.      *)
LEMMA RequestMoves ==
    ASSUME IInv, NEW c \in Clients, NEW r, request[c].at \in Busy,
           RequestOK(r, asks), r.id = request[c].id, AnswerOK(r, effects'), ActsFor(r.id),
           request' = [request EXCEPT ![c] = r], UNCHANGED <<asks, orphans, exit>>
    PROVE  IInv'
<1>1. asks \in Nat /\ r.id \in 1..asks
  BY DEF IInv, RequestOK, Busy
<1>2. \A d \in Clients : request'[d] = IF d = c THEN r ELSE request[d]
  BY DEF IInv
<1>3. \A d \in Clients : request'[d].id = request[d].id
  BY <1>2
<1>4. \A d \in Clients : RequestOK(request'[d], asks)
  BY <1>2 DEF IInv
<1>5. \A d \in Clients : AnswerOK(request'[d], effects')
  <2> SUFFICES ASSUME NEW d \in Clients, d # c PROVE AnswerOK(request'[d], effects')
    BY <1>2
  <2>1. request[d].id # r.id
    BY <1>1 DEF IInv, NumbersDiffer
  <2> QED BY <1>2, <2>1, OthersUntouched DEF IInv
<1>6. NumbersDiffer'
  BY <1>1, <1>3 DEF IInv, NumbersDiffer, ActsFor
<1>7. ExitOK'
  <2>1. Shells \subseteq Clients /\ request[c].at # "answered"
    BY ShellsAssumption DEF Busy
  <2> QED BY <1>2, <2>1 DEF IInv, ExitOK
<1> QED BY <1>1, <1>4, <1>5, <1>6, <1>7 DEF IInv

-----------------------------------------------------------------------------
(* The handlers *)

Same(r, s) == DOMAIN r = Fields /\ r.id = s.id /\ r.ask = s.ask
Still(r, s) == Same(r, s) /\ r.at = s.at /\ r.status = s.status

(* A handler goes on without an answer, or it answers that nothing was     *)
(* done or what was asked.                                                 *)
Moves(r, s) ==
    /\ Same(r, s)
    /\ \/ r.at \in {"lookup", "read", "calling"} /\ r.status = 0
       \/ r.at = "answered" /\ r.status \in Nothing
       \/ r.at = "answered" /\ r.status = 200 /\ r.ask.kind \in Queries

LEMMA AnswerFields ==
    ASSUME NEW r, DOMAIN r = Fields, NEW status
    PROVE  Same(Answer(r, status), r) /\ Answer(r, status).at = "answered" /\ Answer(r, status).status = status
  BY DEF Same, Fields, Answer

LEMMA CallingFields ==
    ASSUME NEW r, DOMAIN r = Fields, NEW call
    PROVE  Same(Calling(r, call), r) /\ Calling(r, call).at = "calling" /\ Calling(r, call).status = r.status
  BY DEF Same, Fields, Calling

LEMMA DepthFields ==
    ASSUME NEW r, DOMAIN r = Fields PROVE Still([r EXCEPT !.depth = @ + 1], r)
  BY DEF Still, Same, Fields

LEMMA ReadFields ==
    ASSUME NEW r, DOMAIN r = Fields, NEW todo
    PROVE  LET s == [r EXCEPT !.at = "read", !.todo = todo] IN
           Same(s, r) /\ s.at = "read" /\ s.status = r.status
  BY DEF Same, Fields

LEMMA FoundFields ==
    ASSUME NEW r, DOMAIN r = Fields, NEW found, NEW todo
    PROVE  Still([r EXCEPT !.found = found, !.todo = todo], r)
  BY DEF Still, Same, Fields

LEMMA NetworkFields ==
    ASSUME NEW r, DOMAIN r = Fields, NEW network
    PROVE  Still([r EXCEPT !.network = network], r)
  BY DEF Still, Same, Fields

(* A handler goes on without the actor.                                    *)
LEMMA HandlerMoves ==
    ASSUME IInv, NEW c \in Clients, NEW r, request[c].at \in Busy, Moves(r, request[c]),
           Step(c, r), UNCHANGED exit
    PROVE  IInv'
<1>1. RequestOK(request[c], asks) /\ AnswerOK(request[c], effects) /\ asks \in Nat
  BY DEF IInv
<1>2. RequestOK(r, asks)
  BY <1>1 DEF RequestOK, Moves, Same, Busy
<1>3. effects' = effects /\ DoneFor(r.id, effects) = {}
  BY <1>1 DEF AnswerOK, Moves, Same, Step
<1>4. AnswerOK(r, effects')
  BY <1>3 DEF AnswerOK, Moves, Nothing, Busy
<1>5. ActsFor(r.id)
  BY <1>3 DEF ActsFor
<1> QED BY <1>2, <1>4, <1>5, RequestMoves DEF Moves, Same, Step

(* The steps of the handlers, one by one.                                  *)
LEMMA LookupInvariant == ASSUME IInv, NEW c \in Clients, Lookup(c), UNCHANGED exit PROVE IInv'
<1> DEFINE r      == request[c]
           status == LookupStatus(tree, Prefix(r.path, r.depth))
<1>1. DOMAIN r = Fields /\ r.at = "lookup" /\ r.status = 0
  BY DEF IInv, RequestOK, Lookup
<1>2. \E next : Step(c, next) /\ Moves(next, r)
  <2>1. CASE status # 200
    <3>1. Step(c, Answer(r, status))
      BY <2>1 DEF Lookup
    <3>2. status \in Nothing
      BY <2>1 DEF LookupStatus, Nothing
    <3>3. Moves(Answer(r, status), r)
      BY <1>1, <3>2, AnswerFields DEF Moves
    <3> QED BY <3>1, <3>3
  <2>2. ASSUME Step(c, Answer(r, 400)) PROVE \E next : Step(c, next) /\ Moves(next, r)
    <3>1. Moves(Answer(r, 400), r)
      BY <1>1, AnswerFields DEF Moves, Nothing
    <3> QED BY <2>2, <3>1
  <2>3. CASE status = 200 /\ r.depth = 0 /\ tree[<<>>] \notin Directories
    <3>1. Step(c, Answer(r, 400))
      BY <2>3 DEF Lookup
    <3> QED BY <2>2, <3>1
  <2>4. CASE Step(c, [r EXCEPT !.depth = @ + 1])
    <3>1. Moves([r EXCEPT !.depth = @ + 1], r)
      BY <1>1, DepthFields DEF Moves, Still
    <3> QED BY <2>4, <3>1
  <2>5. CASE Step(c, Resolved(r))
    <3>1. CASE Resolved(r) = Calling(r, Enqueue(<<r.path>>))
      <4>1. Moves(Calling(r, Enqueue(<<r.path>>)), r)
        BY <1>1, CallingFields DEF Moves
      <4> QED BY <2>5, <3>1, <4>1
    <3>2. CASE Resolved(r) = Answer(r, 400)
      BY <2>2, <2>5, <3>2
    <3>3. CASE Resolved(r) = [r EXCEPT !.at = "read", !.todo = Items(<<r.path>>, TRUE)]
      <4>1. Moves([r EXCEPT !.at = "read", !.todo = Items(<<r.path>>, TRUE)], r)
        BY <1>1, ReadFields DEF Moves
      <4> QED BY <2>5, <3>3, <4>1
    <3> QED BY <3>1, <3>2, <3>3 DEF Resolved
  <2>6. CASE status = 200 /\ ~ (r.depth = 0 /\ tree[<<>>] \notin Directories)
    <3>1. CASE r.depth < Len(r.path)
      BY <2>4, <2>6, <3>1 DEF Lookup
    <3>2. CASE ~ (r.depth < Len(r.path))
      BY <2>5, <2>6, <3>2 DEF Lookup
    <3> QED BY <3>1, <3>2
  <2> QED BY <2>1, <2>3, <2>6
<1> QED BY <1>1, <1>2, HandlerMoves DEF Busy

LEMMA ListedFields ==
    ASSUME NEW r, DOMAIN r = Fields, NEW found
    PROVE  Still([Answer(r, 200) EXCEPT !.found = found, !.todo = <<>>], Answer(r, 200))
<1> DEFINE s == Answer(r, 200)
<1>1. DOMAIN s = Fields
  BY AnswerFields DEF Same
<1> HIDE DEF s
<1>2. Still([s EXCEPT !.found = found, !.todo = <<>>], s)
  BY <1>1, FoundFields
<1> QED BY <1>2 DEF s

LEMMA ListInvariant == ASSUME IInv, NEW c \in Clients, ListDirectory(c), UNCHANGED exit PROVE IInv'
<1> DEFINE r     == request[c]
           found == DirectoriesIn(tree, r.path) \o TracksIn(tree, r.path)
           next  == [Answer(r, 200) EXCEPT !.found = found, !.todo = <<>>]
<1>1. DOMAIN r = Fields /\ r.at = "read" /\ r.ask.kind = "list"
  BY DEF IInv, RequestOK, ListDirectory
<1>2. Step(c, next)
  BY DEF ListDirectory
<1>3. Still(next, Answer(r, 200))
  BY <1>1, ListedFields
<1> HIDE DEF next
<1>4. Moves(next, r)
  BY <1>1, <1>3, AnswerFields DEF Moves, Still, Same, Queries
<1> QED BY <1>1, <1>2, <1>4, HandlerMoves DEF Busy

LEMMA WalkedOnMoves ==
    ASSUME NEW r, NEW s, Still(s, r), r.at = "read", r.status = 0 PROVE Moves(WalkedOn(s), r)
<1>1. DOMAIN s = Fields /\ s.at = "read" /\ s.status = 0
  BY DEF Still, Same
<1>2. CASE WalkedOn(s) = s
  BY <1>1, <1>2 DEF Moves, Still
<1>3. CASE WalkedOn(s) = Answer(s, 400)
  BY <1>1, <1>3, AnswerFields DEF Moves, Still, Same, Nothing
<1>4. CASE WalkedOn(s) = Calling(s, Enqueue(s.found))
  BY <1>1, <1>4, CallingFields DEF Moves, Still, Same
<1> QED BY <1>2, <1>3, <1>4 DEF WalkedOn

LEMMA WalkInvariant == ASSUME IInv, NEW c \in Clients, WalkDirectory(c), UNCHANGED exit PROVE IInv'
<1> DEFINE r        == request[c]
           dir      == Head(r.todo).path
           children == Items(DirectoriesIn(tree, dir), TRUE) \o Items(TracksIn(tree, dir), FALSE)
<1>1. DOMAIN r = Fields /\ r.at = "read" /\ r.status = 0
  BY DEF IInv, RequestOK, WalkDirectory
<1>2. Step(c, WalkedOn(Walked(r, children)))
  BY DEF WalkDirectory
<1> HIDE DEF children
<1>3. Still(Walked(r, children), r)
  BY <1>1, FoundFields DEF Walked, Collected
<1>4. Moves(WalkedOn(Walked(r, children)), r)
  BY <1>1, <1>3, WalkedOnMoves
<1> QED BY <1>1, <1>2, <1>4, HandlerMoves DEF Busy

LEMMA ReadFailsInvariant == ASSUME IInv, NEW c \in Clients, ReadFails(c), UNCHANGED exit PROVE IInv'
<1>1. DOMAIN request[c] = Fields /\ request[c].at = "read"
  BY DEF IInv, RequestOK, ReadFails
<1>2. Step(c, Answer(request[c], 500))
  BY DEF ReadFails
<1>3. Moves(Answer(request[c], 500), request[c])
  BY <1>1, AnswerFields DEF Moves, Nothing
<1> QED BY <1>1, <1>2, <1>3, HandlerMoves DEF Busy

LEMMA HelperInvariant ==
    ASSUME IInv, NEW c \in Clients, HelperEnds(c) \/ HelperTimesOut(c), UNCHANGED exit
    PROVE  IInv'
<1> DEFINE r == request[c]
<1>1. DOMAIN r = Fields /\ r.at = "helper" /\ r.ask.kind = "status"
  BY DEF IInv, RequestOK, HelperEnds, HelperTimesOut
<1>2. Moves(Answer(r, 200), r)
  BY <1>1, AnswerFields DEF Moves, Same, Queries
<1>3. CASE HelperTimesOut(c)
  <2>1. Step(c, Answer(r, 200))
    BY <1>3 DEF HelperTimesOut
  <2> QED BY <1>1, <1>2, <2>1, HandlerMoves DEF Busy
<1>4. CASE HelperEnds(c)
  <2>1. PICK network \in {NONE, "shown"} : Step(c, [Answer(r, 200) EXCEPT !.network = network])
    BY <1>4 DEF HelperEnds
  <2> DEFINE next == [Answer(r, 200) EXCEPT !.network = network]
  <2>2. Still(next, Answer(r, 200))
    BY <1>1, AnswerFields, NetworkFields DEF Same
  <2> HIDE DEF next
  <2>3. Moves(next, r)
    BY <1>2, <2>2 DEF Moves, Still, Same
  <2>4. Step(c, next)
    BY <2>1 DEF next
  <2> QED BY <1>1, <2>3, <2>4, HandlerMoves DEF Busy
<1> QED BY <1>3, <1>4
-----------------------------------------------------------------------------
(* A request begins *)

Begins(r, s) ==
    /\ Same(r, s)
    /\ \/ r.at \in {"lookup", "calling"} /\ r.status = 0
       \/ r.at = "helper" /\ r.status = 0 /\ r.ask.kind = "status"
       \/ r.at = "answered" /\ r.status = 400

LEMMA NewRequestFields ==
    ASSUME NEW n, NEW ask
    PROVE  LET s == [NoRequest EXCEPT !.id = n, !.ask = ask] IN
           DOMAIN s = Fields /\ s.id = n /\ s.ask = ask /\ s.status = 0
  BY DEF NoRequest, Fields

LEMMA LookupFields ==
    ASSUME NEW r, DOMAIN r = Fields, NEW path
    PROVE  LET s == [r EXCEPT !.at = "lookup", !.path = path] IN
           Same(s, r) /\ s.at = "lookup" /\ s.status = r.status
  BY DEF Same, Fields

LEMMA HelperFields ==
    ASSUME NEW r, DOMAIN r = Fields
    PROVE  LET s == [r EXCEPT !.at = "helper"] IN
           Same(s, r) /\ s.at = "helper" /\ s.status = r.status
  BY DEF Same, Fields

(* The beginning of a handler: refused, answered, or on its way.           *)
LEMMA HandleBegins ==
    ASSUME NEW s, DOMAIN s = Fields, s.status = 0 PROVE Begins(Handle(s), s)
<1>1. CASE Handle(s) = Answer(s, 400)
  BY <1>1, AnswerFields DEF Begins
<1>2. CASE Handle(s) = Calling(s, Call(s.ask))
  BY <1>2, CallingFields DEF Begins
<1>3. CASE Handle(s) = [s EXCEPT !.at = "helper"] /\ s.ask.kind = "status"
  BY <1>3, HelperFields DEF Begins, Same
<1>4. CASE Handle(s) = [s EXCEPT !.at = "lookup", !.path = Normalized(s.ask.raw)]
  <2> DEFINE r == [s EXCEPT !.at = "lookup", !.path = Normalized(s.ask.raw)]
  <2>1. Same(r, s) /\ r.at = "lookup" /\ r.status = s.status
    BY LookupFields
  <2> HIDE DEF r
  <2>2. Handle(s) = r
    BY <1>4 DEF r
  <2> QED BY <2>1, <2>2 DEF Begins
<1>5. \/ ResolvePath(s) = Answer(s, 400)
      \/ ResolvePath(s) = [s EXCEPT !.at = "lookup", !.path = Normalized(s.ask.raw)]
  BY Zenon DEF ResolvePath
<1>6. CASE s.ask.kind \in PathKinds
  <2>1. Handle(s) = ResolvePath(s)
    BY <1>6 DEF Handle, PathKinds
  <2> QED BY <2>1, <1>1, <1>4, <1>5
<1>7. CASE s.ask.kind = "status"
  BY <1>3, <1>7 DEF Handle, PathKinds
<1>8. CASE s.ask.kind \notin PathKinds \cup {"status"}
  BY <1>1, <1>2, <1>8 DEF Handle
<1> QED BY <1>6, <1>7, <1>8

(* A request comes in, with a new number.                                  *)
LEMMA ReceiveInvariant ==
    ASSUME IInv, NEW c \in Clients, NEW ask, Receive(c, ask),
           \/ c \notin Shells /\ UNCHANGED exit
           \/ c \in Shells /\ exit' = [exit EXCEPT ![c] = NONE]
    PROVE  IInv'
<1> DEFINE s == [NoRequest EXCEPT !.id = asks', !.ask = ask]
           r == Handle(s)
<1>1. /\ asks \in Nat /\ asks' = asks + 1 /\ UNCHANGED <<orphans, effects>>
      /\ request' = [request EXCEPT ![c] = r]
  BY DEF IInv, Receive
<1>2. DOMAIN s = Fields /\ s.id = asks' /\ s.status = 0
  BY NewRequestFields
<1> HIDE DEF s
<1>3. Begins(r, s)
  BY <1>2, HandleBegins
<1> HIDE DEF r
<1>4. r.id = asks' /\ asks' \in Nat /\ asks' # 0 /\ \A n \in 0..asks : n # asks' /\ n \in 0..asks'
  BY <1>1, <1>2, <1>3 DEF Begins, Same
<1>5. \A d \in Clients : request'[d] = IF d = c THEN r ELSE request[d]
  BY <1>1 DEF IInv
<1>6. RequestOK(r, asks')
  BY <1>2, <1>3, <1>4 DEF RequestOK, Begins, Same, Busy
<1>7. \A d \in Clients : RequestOK(request'[d], asks')
  BY <1>4, <1>5, <1>6 DEF IInv, RequestOK
<1>8. \A d \in Clients : AnswerOK(request'[d], effects')
  <2>1. DoneFor(r.id, effects) = {}
    BY <1>1, <1>4 DEF IInv, NumbersDiffer, DoneFor
  <2>2. AnswerOK(r, effects)
    BY <2>1, <1>3 DEF AnswerOK, Begins, Nothing, Busy
  <2> QED BY <2>2, <1>1, <1>5 DEF IInv
<1>9. NumbersDiffer'
  <2>1. \A d \in Clients : d # c => request'[d].id = request[d].id /\ request[d].id # asks'
    BY <1>4, <1>5 DEF IInv, RequestOK
  <2>2. request'[c].id = asks'
    BY <1>4, <1>5
  <2>3. \A n \in 1..asks : n \in 1..asks' /\ n # asks'
    BY <1>1
  <2> QED BY <2>1, <2>2, <2>3, <1>1 DEF IInv, NumbersDiffer
<1>10. ExitOK' /\ exit' = [d \in Shells |-> exit'[d]]
  <2>1. NONE # 0
    BY NoneAssumption
  <2>2. exit' = [d \in Shells |-> exit'[d]] /\ \A d \in Shells : exit'[d] = 0 => exit[d] = 0 /\ d # c
    BY <2>1 DEF IInv
  <2> QED BY <1>5, <2>2, ShellsAssumption DEF IInv, ExitOK
<1> QED BY <1>1, <1>4, <1>5, <1>7, <1>8, <1>9, <1>10 DEF IInv

-----------------------------------------------------------------------------
(* The actor answers, or the client leaves *)

(* An actor that fails may have acted, for this request alone.             *)
LEMMA PartialEffects ==
    ASSUME NEW r, effects' \in Partially(r) PROVE ActsFor(r.id)
  BY DEF Partially, ActsFor, Effect

(* The actor answers.                                                      *)
LEMMA ActorInvariant ==
    ASSUME IInv, NEW c \in Clients, Actor(c), UNCHANGED exit PROVE IInv'
<1> DEFINE r == request[c]
<1>1. DOMAIN r = Fields /\ r.at = "calling" /\ r.id \in 0..asks /\ r.id # 0 /\ asks \in Nat
  BY DEF IInv, RequestOK, Actor, Succeeds, IsUnavailable, CommandFails, ActorAnswers
<1>2. DoneFor(r.id, effects) = {}
  BY <1>1 DEF IInv, AnswerOK, Busy
<1>3. ASSUME NEW status, NEW outcomes, ActorAnswers(c, status, outcomes), ActsFor(r.id),
             AnswerOK(Answer(r, status), effects')
      PROVE  IInv'
  <2>1. RequestOK(Answer(r, status), asks) /\ Answer(r, status).id = r.id
    BY <1>1, AnswerFields DEF RequestOK, Same
  <2>2. request' = [request EXCEPT ![c] = Answer(r, status)] /\ UNCHANGED <<asks, orphans>>
    BY <1>3 DEF ActorAnswers
  <2> DEFINE a == Answer(r, status)
  <2>3. RequestOK(a, asks) /\ a.id = r.id /\ AnswerOK(a, effects')
    BY <1>3, <2>1
  <2>4. request' = [request EXCEPT ![c] = a] /\ UNCHANGED <<asks, orphans, exit>>
    BY <2>2
  <2> HIDE DEF a
  <2>5. r.at \in Busy /\ ActsFor(a.id)
    BY <1>1, <1>3, <2>3 DEF Busy
  <2> QED BY <2>3, <2>4, <2>5, RequestMoves
<1>4. CASE IsUnavailable(c)
  <2>1. effects' = effects
    BY <1>4 DEF IsUnavailable, ActorAnswers
  <2>2. ActsFor(r.id) /\ AnswerOK(Answer(r, 503), effects')
    BY <1>1, <1>2, <2>1, AnswerFields DEF ActsFor, AnswerOK, Same, Nothing, Busy
  <2> QED BY <1>3, <1>4, <2>2 DEF IsUnavailable
<1>5. CASE CommandFails(c)
  <2>1. ActsFor(r.id)
    BY <1>5, PartialEffects DEF CommandFails, ActorAnswers
  <2>2. AnswerOK(Answer(r, 502), effects')
    BY <1>1, AnswerFields DEF AnswerOK, Nothing, Busy
  <2> QED BY <1>3, <1>5, <2>1, <2>2 DEF CommandFails
<1>6. CASE Succeeds(c)
  <2> DEFINE status == IF r.ask.kind = "plain" /\ r.ask.name \in {"queue", "rescan"} THEN 200 ELSE 202
  <2>1. ActorAnswers(c, status, {effects \cup {Effect(r, TRUE)}})
    BY <1>6 DEF Succeeds
  <2>2. effects' = effects \cup {Effect(r, TRUE)}
    BY <2>1 DEF ActorAnswers
  <2>3. ActsFor(r.id)
    BY <2>2 DEF ActsFor, Effect
  <2>4. \E e \in DoneFor(r.id, effects') : e.whole
    <3>1. Effect(r, TRUE).by = r.id /\ Effect(r, TRUE).whole
      BY DEF Effect
    <3> QED BY <2>2, <3>1 DEF DoneFor
  <2>5. status \in {200, 202}
    OBVIOUS
  <2> HIDE DEF status
  <2>6. AnswerOK(Answer(r, status), effects')
    BY <1>1, <2>4, <2>5, AnswerFields DEF AnswerOK, Same, Nothing, Busy
  <2> QED BY <1>3, <2>1, <2>3, <2>6
<1> QED BY <1>4, <1>5, <1>6 DEF Actor

(* A client leaves; its call may still act.                                *)
LEMMA LeaveInvariant ==
    ASSUME IInv, NEW c \in Clients, ClientLeaves(c), UNCHANGED exit PROVE IInv'
<1>1. /\ asks \in Nat /\ UNCHANGED <<asks, effects, exit>> /\ request[c].at \in Busy
      /\ request' = [request EXCEPT ![c] = NoRequest]
      /\ orphans' \in {orphans, orphans \cup {request[c]}}
  BY DEF IInv, ClientLeaves, Busy
<1>2. \A d \in Clients : request'[d] = IF d = c THEN NoRequest ELSE request[d]
  BY <1>1 DEF IInv
<1>3. DOMAIN NoRequest = Fields /\ NoRequest.at = "none" /\ NoRequest.id = 0 /\ NoRequest.status = 0
  BY DEF NoRequest, Fields
<1>4. RequestOK(NoRequest, asks) /\ AnswerOK(NoRequest, effects)
  BY <1>1, <1>3 DEF RequestOK, AnswerOK, Busy, Nothing, IInv, NumbersDiffer, DoneFor
<1>5. NumbersDiffer'
  <2>1. request[c].id \in 1..asks /\ \A d \in Clients : d # c => request[d].id # request[c].id
    BY <1>1 DEF IInv, RequestOK, NumbersDiffer, Busy
  <2>2. \A o \in orphans' : o \in orphans \/ o = request[c]
    BY <1>1
  <2>3. \A o \in orphans' : o.id \in 1..asks /\ \A d \in Clients : request'[d].id # o.id
    BY <2>1, <2>2, <1>1, <1>2, <1>3 DEF IInv, NumbersDiffer
  <2>4. \A d, e \in Clients : request'[d].id = request'[e].id => d = e \/ request'[d].id = 0
    BY <1>2, <1>3 DEF IInv, NumbersDiffer
  <2> QED BY <2>3, <2>4, <1>1 DEF IInv, NumbersDiffer
<1>6. ExitOK'
  BY <1>1, <1>2, ShellsAssumption DEF IInv, ExitOK, Busy
<1> QED BY <1>1, <1>2, <1>4, <1>5, <1>6 DEF IInv

(* The actor carries out, or drops, the call of a client that left.        *)
LEMMA OrphanInvariant ==
    ASSUME IInv, NEW r \in orphans, OrphanEnds(r), UNCHANGED exit PROVE IInv'
<1>1. UNCHANGED <<request, asks, exit>> /\ orphans' \subseteq orphans /\ ActsFor(r.id)
  BY PartialEffects DEF OrphanEnds
<1>2. r.id \in 1..asks /\ \A c \in Clients : request[c].id # r.id
  BY DEF IInv, NumbersDiffer
<1>3. \A c \in Clients : AnswerOK(request[c], effects')
  BY <1>1, <1>2, OthersUntouched DEF IInv
<1>4. NumbersDiffer'
  BY <1>1, <1>2 DEF IInv, NumbersDiffer, ActsFor
<1> QED BY <1>1, <1>3, <1>4 DEF IInv, ExitOK

-----------------------------------------------------------------------------
(* mba-cli *)

(* mba-cli ends with the exit code of its answer.                          *)
LEMMA ExitInvariant == ASSUME IInv, NEW c \in Shells, Exit(c) PROVE IInv'
<1>1. UNCHANGED <<request, asks, orphans, effects>> /\ request[c].at = "answered"
  BY DEF Exit, vars
<1>2. exit' = [exit EXCEPT ![c] = IF request[c].status \in 200..299 THEN 0 ELSE 1]
  BY DEF Exit
<1>3. ExitOK'
  BY <1>1, <1>2 DEF IInv, ExitOK
<1>4. exit' = [d \in Shells |-> exit'[d]]
  BY <1>2 DEF IInv
<1> QED BY <1>1, <1>3, <1>4 DEF IInv, NumbersDiffer

(* mba-cli fails without sending anything.                                 *)
LEMMA Exit1Invariant == ASSUME IInv, NEW c \in Shells, Exit1(c) PROVE IInv'
<1>1. /\ UNCHANGED <<asks, orphans, effects>> /\ asks \in Nat
      /\ request' = [request EXCEPT ![c] = NoRequest] /\ exit' = [exit EXCEPT ![c] = 1]
  BY DEF Exit1, IInv
<1>2. c \in Clients /\ \A d \in Clients : request'[d] = IF d = c THEN NoRequest ELSE request[d]
  BY <1>1, ShellsAssumption DEF IInv
<1>3. DOMAIN NoRequest = Fields /\ NoRequest.at = "none" /\ NoRequest.id = 0 /\ NoRequest.status = 0
  BY DEF NoRequest, Fields
<1>4. RequestOK(NoRequest, asks) /\ AnswerOK(NoRequest, effects)
  BY <1>1, <1>3 DEF RequestOK, AnswerOK, Busy, Nothing, IInv, NumbersDiffer, DoneFor
<1>5. NumbersDiffer'
  BY <1>1, <1>2, <1>3 DEF IInv, NumbersDiffer
<1>6. ExitOK' /\ exit' = [d \in Shells |-> exit'[d]]
  BY <1>1, <1>2, ShellsAssumption DEF IInv, ExitOK
<1> QED BY <1>1, <1>2, <1>4, <1>5, <1>6 DEF IInv

-----------------------------------------------------------------------------

(* Nothing was asked initially.                                            *)
LEMMA InitInvariant == ASSUME CliInit PROVE IInv
<1>1. /\ request = [c \in Clients |-> NoRequest] /\ asks = 0 /\ orphans = {} /\ effects = {}
      /\ exit = [c \in Shells |-> NONE]
  BY DEF CliInit, Init
<1>2. DOMAIN NoRequest = Fields /\ NoRequest.at = "none" /\ NoRequest.id = 0 /\ NoRequest.status = 0
  BY DEF NoRequest, Fields
<1>3. RequestOK(NoRequest, asks) /\ AnswerOK(NoRequest, effects)
  BY <1>1, <1>2 DEF RequestOK, AnswerOK, Busy, Nothing, DoneFor
<1>4. NumbersDiffer /\ ExitOK
  BY <1>1, <1>2, NoneAssumption DEF NumbersDiffer, ExitOK
<1> QED BY <1>1, <1>3, <1>4 DEF IInv

(* Every step keeps the invariant.                                         *)
LEMMA StepInvariant == ASSUME IInv, [CliNext]_cliVars PROVE IInv'
<1>1. ASSUME NEW c \in Shells, NEW cmd \in CommandLines, Run(c, cmd) PROVE IInv'
  <2>1. Receive(c, Sent(cmd)) /\ exit' = [exit EXCEPT ![c] = NONE] /\ c \in Clients
    BY <1>1, ShellsAssumption DEF Run
  <2> QED BY <2>1, ReceiveInvariant
<1>2. ASSUME NEW c \in Clients \ Shells, NEW ask \in Asks, Receive(c, ask), UNCHANGED exit PROVE IInv'
  BY <1>2, ReceiveInvariant
<1>3. ASSUME NEW c \in Clients, Handler(c) \/ Actor(c), UNCHANGED exit PROVE IInv'
  BY <1>3, LookupInvariant, ListInvariant, WalkInvariant, ReadFailsInvariant, HelperInvariant, ActorInvariant
  DEF Handler
<1>4. CASE Environment /\ UNCHANGED exit
  <2>1. ASSUME NEW c \in Clients, HelperEnds(c) PROVE IInv'
    BY <1>4, <2>1, HelperInvariant
  <2>2. ASSUME NEW r \in orphans, OrphanEnds(r) PROVE IInv'
    BY <1>4, <2>2, OrphanInvariant
  <2>3. ASSUME NEW path \in ChangingPaths, NEW kind, TreeChanges(path, kind) PROVE IInv'
    <3>1. UNCHANGED <<asks, request, orphans, effects, exit>>
      BY <1>4, <2>3 DEF TreeChanges
    <3> QED BY <3>1 DEF IInv, NumbersDiffer, ExitOK
  <2> QED BY <1>4, <2>1, <2>2, <2>3 DEF Environment
<1>5. CASE UNCHANGED cliVars
  BY <1>5 DEF cliVars, vars, IInv, NumbersDiffer, ExitOK
<1> QED BY <1>1, <1>2, <1>3, <1>4, <1>5, LeaveInvariant, ExitInvariant, Exit1Invariant DEF CliNext, Serving

(* Answers tell the truth, whatever the clients ask, the actor does and    *)
(* leaves undone, and rsync changes under the walk: from http.rs and       *)
(* library.rs to the exit code of mba-cli.                                 *)
THEOREM AnswersAreTrue == CliSpec => []AnswersTellTheTruth
<1>1. CliInit => IInv
  BY InitInvariant
<1>2. IInv /\ [CliNext]_cliVars => IInv'
  BY StepInvariant
<1>3. IInv => AnswersTellTheTruth
  BY InvariantIsTrue
<1> QED BY <1>1, <1>2, <1>3, PTL DEF CliSpec

-----------------------------------------------------------------------------
(* The invariant of the walk, of listings and of what was typed *)

Item == [path : LibraryPaths, dir : BOOLEAN]

(* An item of the walk stands for a track, or for the tracks a directory   *)
(* holds at any depth.                                                     *)
StandsFor(item, path) == IF item.dir THEN Below(path, item.path) ELSE path = item.path

(* Where two items part, a directory comes before a file, and else the     *)
(* names decide.  Between tracks this is Before.                           *)
Long(item, k) == k < Len(item.path) \/ item.dir
Precedes(x, y) ==
    \E k \in DOMAIN x.path \cap DOMAIN y.path :
        /\ Prefix(x.path, k - 1) = Prefix(y.path, k - 1) /\ x.path[k] # y.path[k]
        /\ IF Long(x, k) <=> Long(y, k) THEN Rank(x.path[k]) < Rank(y.path[k]) ELSE Long(x, k)
Ordered(items) == \A i, j \in DOMAIN items : i < j => Precedes(items[i], items[j])
Ahead(S, T) == \A x \in S, y \in T : Precedes(x, y)

(* The request has passed validation.                                      *)
Asked(r) == /\ r.ask.raw \in Seq(Parts) /\ ~ Refused(r.ask.raw)
            /\ r.path = Normalized(r.ask.raw) /\ Visible(r.path)

Statuses == {200, 202, 400, 404, 500, 502, 503}

(* The tracks of a directory are collected in order, and each was there.   *)
Queues(r, tracks, s) ==
    /\ tracks \in Seq(LibraryPaths) /\ Ordered(Items(tracks, FALSE))
    /\ \A path \in ToSet(tracks) : Below(path, r.path) /\ path \in s.ever

(* What is still to be walked comes after what is collected, in order, and *)
(* a track that was always there is collected or stood for.                *)
Walks(r, s) ==
    /\ Queues(r, r.found, s)
    /\ r.todo \in Seq(Item) /\ Ordered(r.todo) /\ Ahead(ToSet(Items(r.found, FALSE)), ToSet(r.todo))
    /\ \A item \in ToSet(r.todo) :
          /\ Visible(item.path) /\ (Below(item.path, r.path) \/ item = [path |-> r.path, dir |-> TRUE])
          /\ item.dir \/ item.path \in s.ever
    /\ \A path \in s.always :
          path \in ToSet(r.found) \/ \E item \in ToSet(r.todo) : StandsFor(item, path)

(* The call of a request is what it asked for.                             *)
Called(r, s) ==
    CASE r.ask.kind = "file" -> Asked(r) /\ r.call = Enqueue(<<r.path>>)
      [] r.ask.kind = "directory" -> /\ r.call = Enqueue(r.call.tracks) /\ Asked(r)
                                     /\ Queues(r, r.call.tracks, s)
                                     /\ s.always \subseteq ToSet(r.call.tracks)
      [] OTHER -> r.ask.kind \notin {"list", "status"} /\ r.call = Call(r.ask)

(* Each directory on the way to a path may be entered, and what is there   *)
(* is a directory or a track.                                              *)
Opened(path, t) ==
    /\ path \in LibraryPaths \ {<<>>} /\ Visible(path)
    /\ t[path] \in Directories \/ (t[path] = "file" /\ Last(path) \in Audio)
    /\ \A k \in 0..(Len(path) - 1) : t[Prefix(path, k)] = "dir"

(* A request in progress, the history of its tracks, and its listing.      *)
GoesOn(r, s) ==
    /\ r.path \in Seq(Names) /\ r.depth \in 0..Len(r.path)
    /\ r.at = "lookup" => r.ask.kind \in PathKinds /\ Asked(r) /\ r.found = <<>>
    /\ r.at = "read" =>
          /\ r.ask.kind \in {"list", "directory"} /\ Asked(r) /\ r.path \in LibraryPaths
          /\ r.todo # <<>> /\ Head(r.todo).dir
          /\ r.ask.kind = "directory" => Walks(r, s)
    /\ r.at = "calling" => r.call # NONE /\ Called(r, s)
    /\ r.at = "answered" => r.status \in Statuses
Holds(r, s, t) ==
    r.at \in {"lookup", "read", "calling"} /\ r.ask.kind = "directory" =>
        s.always \subseteq TracksUnder(t, r.path) /\ TracksUnder(t, r.path) \subseteq s.ever
Listed(r, s, t) ==
    s.fresh => /\ r.at \in {"none", "answered"}
               /\ r.at = "answered" => \A path \in ToSet(r.found) : Opened(path, t)

(* A request made by a command line is the one it stands for.              *)
AskedBy(r, cmd) == cmd # NONE => cmd \in CommandLines /\ r.ask = Sent(cmd) /\ r.ask # Missing

Seen == [always : SUBSET LibraryPaths, ever : SUBSET LibraryPaths, fresh : BOOLEAN]
TreeOK == tree \in Trees /\ IsTree(tree) /\ changes \in 0..MaxChanges
RequestsOK ==
    /\ \A c \in Clients : GoesOn(request[c], seen[c])
    /\ \A c \in Clients : Holds(request[c], seen[c], tree)
    /\ \A c \in Clients : Listed(request[c], seen[c], tree)
MeantOK ==
    /\ \A c \in Clients : request[c].id # 0 => AskedBy(request[c], meant[request[c].id])
    /\ \A o \in orphans : o.at = "calling" /\ (meant[o.id] # NONE => Means(meant[o.id], o.call))
    /\ \A e \in effects : meant[e.by] # NONE => Means(meant[e.by], e.call)
    /\ \A id \in 1..MaxAsks : asks < id => meant[id] = NONE
JInv ==
    /\ TreeOK /\ asks \in 0..MaxAsks /\ seen \in [Clients -> Seen]
    /\ exit \in [Shells -> {NONE, 0, 1}] /\ meant = [id \in 1..MaxAsks |-> meant[id]]
    /\ RequestsOK /\ MeantOK

-----------------------------------------------------------------------------
(* The tree changes *)

(* rsync leaves a tree a tree.                                             *)
LEMMA TreeStays ==
    ASSUME tree \in Trees, IsTree(tree), NEW path \in ChangingPaths,
           NEW kind \in {"dir", "closed", "file", "absent"}, TreeChanges(path, kind)
    PROVE  tree' \in Trees /\ IsTree(tree')
<1> DEFINE gone == {kind, tree[path]} # Directories
<1>1. /\ tree[Front(path)] \in Directories
      /\ tree' = [p \in LibraryPaths |-> IF p = path THEN kind
                                         ELSE IF Below(p, path) /\ gone THEN "absent" ELSE tree[p]]
  BY DEF TreeChanges
<1>2. path \in LibraryPaths /\ path # <<>> /\ LibraryPaths \subseteq Seq(Names)
  BY TreesAssumption, PathsAssumption
<1>3. ~ gone => kind \in Directories /\ tree[path] \in Directories
  BY DEF Directories
<1> HIDE DEF gone
<1>4. \A p \in LibraryPaths : tree'[p] = IF p = path THEN kind
                                         ELSE IF Below(p, path) /\ gone THEN "absent" ELSE tree[p]
  BY <1>1
<1>5. tree' \in Trees
  BY <1>1 DEF Trees, Directories
<1>6. ASSUME NEW p \in LibraryPaths, tree'[p] # "absent", NEW k \in 0..(Len(p) - 1)
      PROVE  tree'[Prefix(p, k)] \in Directories
  <2> DEFINE q == Prefix(p, k)
  <2>1. p \in Seq(Names) /\ path \in Seq(Names) /\ Len(p) \in Nat /\ Len(path) \in Nat /\ k \in 0..Len(p) /\ k < Len(p)
    BY <1>2
  <2>2. q \in LibraryPaths /\ q \in Seq(Names) /\ Len(q) = k
    BY <2>1, PathsAssumption, PrefixIs
  <2>3. q = path => Below(p, path)
    BY <2>1, <2>2 DEF Below
  <2>4. Below(q, path) => Below(p, path)
    <3>1. Below(p, q)
      BY <2>1, <2>2 DEF Below
    <3> QED BY <3>1, <2>1, <2>2, BelowTrans
  <2> HIDE DEF q
  <2>5. CASE p = path
    <3>1. ~ Below(p, path)
      BY <2>5, <2>1 DEF Below
    <3>2. q # path /\ ~ Below(q, path)
      BY <3>1, <2>3, <2>4
    <3>3. tree'[q] = tree[q]
      BY <3>2, <1>4, <2>2
    <3>4. Len(path) \in Nat /\ Len(path) # 0 /\ k \in 0..(Len(path) - 1) /\ Len(path) - 1 \in 0..Len(path)
      <4>1. Len(path) # 0
        BY <2>1, <1>2, EmptySeq
      <4> QED BY <4>1, <2>1, <2>5
    <3>5. Front(path) = Prefix(path, Len(path) - 1)
      BY DEF Front, Prefix
    <3>6. Front(path) \in LibraryPaths /\ Front(path) \in Seq(Names) /\ Len(Front(path)) = Len(path) - 1
      BY <3>4, <3>5, <2>1, <1>2, PathsAssumption, PrefixIs
    <3>7. CASE k = Len(path) - 1
      BY <3>3, <3>5, <3>7, <1>1, <2>5 DEF q
    <3>8. CASE k # Len(path) - 1
      <4>1. k \in 0..(Len(Front(path)) - 1)
        BY <3>4, <3>6, <3>8
      <4>2. tree[Front(path)] # "absent"
        BY <1>1 DEF Directories
      <4>3. tree[Prefix(Front(path), k)] \in Directories
        BY <4>1, <4>2, <3>6 DEF IsTree
      <4>4. k \in 0..(Len(path) - 1)
        BY <3>4
      <4>5. Prefix(Front(path), k) = Prefix(path, k)
        BY <4>4, <3>4, <3>5, <2>1, PrefixOfPrefix
      <4> QED BY <4>3, <4>5, <3>3, <2>5 DEF q
    <3> QED BY <3>7, <3>8 DEF q
  <2>6. CASE p # path
    <3>1. ~ (Below(p, path) /\ gone) /\ tree[p] # "absent"
      BY <1>4, <1>6, <2>6
    <3>2. tree[q] \in Directories
      BY <3>1, <1>6 DEF IsTree, q
    <3>3. CASE q = path
      BY <3>1, <3>3, <2>3, <1>3, <1>4, <2>2 DEF q
    <3>4. CASE q # path
      BY <3>1, <3>2, <3>4, <2>4, <1>4, <2>2 DEF q
    <3> QED BY <3>3, <3>4
  <2> QED BY <2>5, <2>6
<1>7. IsTree(tree')
  BY <1>6 DEF IsTree
<1> QED BY <1>5, <1>7

-----------------------------------------------------------------------------
(* The order of the walk *)

(* What is below a directory comes before or after others as it does.      *)
LEMMA EarlierBelow ==
    ASSUME NEW x \in Item, NEW y \in Item, NEW z \in Item, x.dir, Below(z.path, x.path), Precedes(x, y)
    PROVE  Precedes(z, y)
<1>1. x.path \in Seq(Names) /\ y.path \in Seq(Names) /\ z.path \in Seq(Names)
  BY PathsAreNames DEF Item
<1>2. PICK k \in DOMAIN x.path \cap DOMAIN y.path :
        /\ Prefix(x.path, k - 1) = Prefix(y.path, k - 1) /\ x.path[k] # y.path[k]
        /\ IF Long(x, k) <=> Long(y, k) THEN Rank(x.path[k]) < Rank(y.path[k]) ELSE Long(x, k)
  BY DEF Precedes
<1>3. /\ Len(x.path) < Len(z.path) /\ Prefix(z.path, Len(x.path)) = x.path
      /\ Len(x.path) \in Nat /\ Len(z.path) \in Nat /\ k \in 1..Len(x.path) /\ k \in 1..Len(z.path) /\ k < Len(z.path)
      /\ k - 1 \in 0..Len(x.path) /\ Len(x.path) \in 0..Len(z.path)
  BY <1>1 DEF Below
<1>4. z.path[k] = x.path[k]
  <2>1. \A i \in 1..Len(x.path) : Prefix(z.path, Len(x.path))[i] = z.path[i]
    BY <1>1, <1>3, PrefixIs
  <2> QED BY <2>1, <1>3
<1>5. Prefix(z.path, k - 1) = Prefix(x.path, k - 1)
  BY <1>1, <1>3, PrefixOfPrefix
<1>6. Long(z, k) /\ Long(x, k)
  BY <1>3 DEF Long
<1>7. k \in DOMAIN z.path \cap DOMAIN y.path
  BY <1>1, <1>2, <1>3
<1>8. IF Long(z, k) <=> Long(y, k) THEN Rank(z.path[k]) < Rank(y.path[k]) ELSE Long(z, k)
  BY <1>2, <1>4, <1>6
<1> QED BY <1>2, <1>4, <1>5, <1>7, <1>8 DEF Precedes

(* What precedes a directory precedes all it holds.                        *)
LEMMA LaterBelow ==
    ASSUME NEW x \in Item, NEW y \in Item, NEW z \in Item, y.dir, Below(z.path, y.path), Precedes(x, y)
    PROVE  Precedes(x, z)
<1>1. x.path \in Seq(Names) /\ y.path \in Seq(Names) /\ z.path \in Seq(Names)
  BY PathsAreNames DEF Item
<1>2. PICK k \in DOMAIN x.path \cap DOMAIN y.path :
        /\ Prefix(x.path, k - 1) = Prefix(y.path, k - 1) /\ x.path[k] # y.path[k]
        /\ IF Long(x, k) <=> Long(y, k) THEN Rank(x.path[k]) < Rank(y.path[k]) ELSE Long(x, k)
  BY DEF Precedes
<1>3. /\ Len(y.path) < Len(z.path) /\ Prefix(z.path, Len(y.path)) = y.path
      /\ Len(y.path) \in Nat /\ Len(z.path) \in Nat /\ k \in 1..Len(y.path) /\ k \in 1..Len(z.path) /\ k < Len(z.path)
      /\ k - 1 \in 0..Len(y.path) /\ Len(y.path) \in 0..Len(z.path)
  BY <1>1 DEF Below
<1>4. z.path[k] = y.path[k]
  <2>1. \A i \in 1..Len(y.path) : Prefix(z.path, Len(y.path))[i] = z.path[i]
    BY <1>1, <1>3, PrefixIs
  <2> QED BY <2>1, <1>3
<1>5. Prefix(z.path, k - 1) = Prefix(y.path, k - 1)
  BY <1>1, <1>3, PrefixOfPrefix
<1>6. Long(z, k) /\ Long(y, k)
  BY <1>3 DEF Long
<1>7. k \in DOMAIN x.path \cap DOMAIN z.path
  BY <1>1, <1>2, <1>3
<1>8. IF Long(x, k) <=> Long(z, k) THEN Rank(x.path[k]) < Rank(z.path[k]) ELSE Long(x, k)
  BY <1>2, <1>4, <1>6
<1> QED BY <1>2, <1>4, <1>5, <1>7, <1>8 DEF Precedes

(* Two children of one directory.                                          *)
LEMMA SiblingsPrecede ==
    ASSUME NEW d \in Seq(Names), NEW n \in Names, NEW m \in Names, n # m,
           NEW x, NEW y, x.path = Append(d, n), y.path = Append(d, m),
           IF x.dir <=> y.dir THEN Rank(n) < Rank(m) ELSE x.dir
    PROVE  Precedes(x, y)
<1> DEFINE k == Len(d) + 1
<1>1. Len(d) \in Nat /\ k - 1 = Len(d) /\ k \in Nat
  OBVIOUS
<1>2. x.path \in Seq(Names) /\ Len(x.path) = k /\ x.path[k] = n /\ Prefix(x.path, Len(d)) = d
  BY ChildIs
<1>3. y.path \in Seq(Names) /\ Len(y.path) = k /\ y.path[k] = m /\ Prefix(y.path, Len(d)) = d
  BY ChildIs
<1> HIDE DEF k
<1>4. k \in DOMAIN x.path \cap DOMAIN y.path
  <2>1. k \in 1..k
    BY <1>1 DEF k
  <2> QED BY <2>1, <1>2, <1>3
<1>5. (Long(x, k) <=> x.dir) /\ (Long(y, k) <=> y.dir)
  BY <1>1, <1>2, <1>3 DEF Long
<1>6. IF Long(x, k) <=> Long(y, k) THEN Rank(x.path[k]) < Rank(y.path[k]) ELSE Long(x, k)
  BY <1>2, <1>3, <1>5
<1>7. Prefix(x.path, k - 1) = Prefix(y.path, k - 1)
  BY <1>1, <1>2, <1>3
<1> QED BY <1>2, <1>3, <1>4, <1>6, <1>7 DEF Precedes

(* Between tracks, the order is that of the property.                      *)
LEMMA FilesPrecede ==
    ASSUME NEW x, NEW y, ~ x.dir, ~ y.dir, Precedes(x, y) PROVE Before(x.path, y.path)
<1>1. PICK k \in DOMAIN x.path \cap DOMAIN y.path :
        /\ Prefix(x.path, k - 1) = Prefix(y.path, k - 1) /\ x.path[k] # y.path[k]
        /\ IF Long(x, k) <=> Long(y, k) THEN Rank(x.path[k]) < Rank(y.path[k]) ELSE Long(x, k)
  BY DEF Precedes
<1>2. (Long(x, k) <=> k < Len(x.path)) /\ (Long(y, k) <=> k < Len(y.path))
  BY DEF Long
<1> QED BY <1>1, <1>2 DEF Before

-----------------------------------------------------------------------------
(* The items of the walk *)

(* When a concatenation is in order.                                       *)
LEMMA OrderedConcat ==
    ASSUME NEW D, NEW a \in Seq(D), NEW b \in Seq(D)
    PROVE  Ordered(a \o b) <=> Ordered(a) /\ Ordered(b) /\ Ahead(ToSet(a), ToSet(b))
<1> DEFINE c == a \o b
<1>1. /\ c \in Seq(D) /\ Len(c) = Len(a) + Len(b)
      /\ \A i \in 1..Len(a) : c[i] = a[i]
      /\ \A i \in 1..Len(b) : Len(a) + i \in 1..Len(c) /\ c[Len(a) + i] = b[i]
      /\ \A i \in DOMAIN c : i \in DOMAIN a \/ \E j \in DOMAIN b : i = Len(a) + j
  BY ConcatIs
<1>2. DOMAIN a = 1..Len(a) /\ DOMAIN b = 1..Len(b) /\ DOMAIN c = 1..Len(c) /\ Len(a) \in Nat /\ Len(b) \in Nat
  BY <1>1
<1> HIDE DEF c
<1>3. \A i \in 1..Len(a) : i \in 1..Len(c)
  BY <1>1, <1>2
<1>4. ASSUME Ordered(c) PROVE Ordered(a)
  BY <1>1, <1>2, <1>3, <1>4 DEF Ordered
<1>5. ASSUME Ordered(c) PROVE Ordered(b)
  <2> SUFFICES ASSUME NEW i \in DOMAIN b, NEW j \in DOMAIN b, i < j PROVE Precedes(b[i], b[j])
    BY DEF Ordered
  <2>1. Len(a) + i < Len(a) + j /\ Len(a) + i \in DOMAIN c /\ Len(a) + j \in DOMAIN c
    BY <1>1, <1>2
  <2>2. Precedes(c[Len(a) + i], c[Len(a) + j])
    BY <1>5, <2>1 DEF Ordered
  <2> QED BY <2>2, <1>1, <1>2
<1>6. ASSUME Ordered(c) PROVE Ahead(ToSet(a), ToSet(b))
  <2> SUFFICES ASSUME NEW i \in DOMAIN a, NEW j \in DOMAIN b PROVE Precedes(a[i], b[j])
    BY DEF Ahead, ToSet
  <2>1. i < Len(a) + j /\ i \in DOMAIN c /\ Len(a) + j \in DOMAIN c
    BY <1>1, <1>2
  <2>2. Precedes(c[i], c[Len(a) + j])
    BY <1>6, <2>1 DEF Ordered
  <2> QED BY <2>2, <1>1, <1>2
<1>7. ASSUME Ordered(a), Ordered(b), Ahead(ToSet(a), ToSet(b)) PROVE Ordered(c)
  <2> SUFFICES ASSUME NEW i \in DOMAIN c, NEW j \in DOMAIN c, i < j PROVE Precedes(c[i], c[j])
    BY DEF Ordered
  <2>1. CASE i \in DOMAIN a /\ j \in DOMAIN a
    BY <1>1, <1>2, <1>7, <2>1 DEF Ordered
  <2>2. ASSUME i \in DOMAIN a, NEW m \in DOMAIN b, j = Len(a) + m PROVE Precedes(c[i], c[j])
    <3>1. Precedes(a[i], b[m])
      BY <1>7, <2>2 DEF Ahead, ToSet
    <3> QED BY <3>1, <1>1, <1>2, <2>2
  <2>3. ASSUME NEW l \in DOMAIN b, i = Len(a) + l, NEW m \in DOMAIN b, j = Len(a) + m PROVE Precedes(c[i], c[j])
    <3>1. l < m
      BY <1>2, <2>3
    <3>2. Precedes(b[l], b[m])
      BY <1>7, <3>1 DEF Ordered
    <3> QED BY <3>2, <1>1, <1>2, <2>3
  <2>4. ASSUME j \in DOMAIN a PROVE i \in DOMAIN a
    BY <1>2, <2>4
  <2> QED BY <1>1, <2>1, <2>2, <2>3, <2>4
<1> QED BY <1>4, <1>5, <1>6, <1>7 DEF c

-----------------------------------------------------------------------------

(* The items of some paths.                                                *)
LEMMA ItemsAre ==
    ASSUME NEW paths \in Seq(LibraryPaths), NEW isDir \in BOOLEAN
    PROVE  LET items == Items(paths, isDir) IN
           /\ items \in Seq(Item) /\ Len(items) = Len(paths) /\ DOMAIN items = DOMAIN paths
           /\ \A i \in DOMAIN paths : items[i] = [path |-> paths[i], dir |-> isDir]
           /\ \A item \in ToSet(items) : item.dir = isDir /\ item.path \in ToSet(paths)
           /\ \A path \in ToSet(paths) : [path |-> path, dir |-> isDir] \in ToSet(items)
<1> DEFINE items == Items(paths, isDir)
<1>1. /\ items = [i \in 1..Len(paths) |-> [path |-> paths[i], dir |-> isDir]]
      /\ Len(paths) \in Nat /\ DOMAIN paths = 1..Len(paths)
  BY DEF Items
<1>2. \A i \in 1..Len(paths) : [path |-> paths[i], dir |-> isDir] \in Item
  BY DEF Item
<1>3. items \in Seq(Item)
  <2>1. [i \in 1..Len(paths) |-> [path |-> paths[i], dir |-> isDir]] \in Seq(Item)
    BY <1>1, <1>2, IsASeq
  <2> QED BY <1>1, <2>1
<1>4. DOMAIN items = DOMAIN paths /\ \A i \in DOMAIN paths : items[i] = [path |-> paths[i], dir |-> isDir]
  BY <1>1
<1>5. Len(items) = Len(paths)
  BY <1>1, <1>3, <1>4, LenProperties
<1> HIDE DEF items
<1>6. \A item \in ToSet(items) : item.dir = isDir /\ item.path \in ToSet(paths)
  BY <1>4 DEF ToSet
<1>7. \A path \in ToSet(paths) : [path |-> path, dir |-> isDir] \in ToSet(items)
  BY <1>4 DEF ToSet
<1> QED BY <1>3, <1>4, <1>5, <1>6, <1>7 DEF items

(* Items of a concatenation.                                               *)
LEMMA ItemsConcat ==
    ASSUME NEW a \in Seq(LibraryPaths), NEW b \in Seq(LibraryPaths), NEW isDir \in BOOLEAN
    PROVE  Items(a \o b, isDir) = Items(a, isDir) \o Items(b, isDir)
<1> DEFINE x == Items(a, isDir)
           y == Items(b, isDir)
           z == Items(a \o b, isDir)
           c == a \o b
<1>1. /\ c \in Seq(LibraryPaths) /\ Len(c) = Len(a) + Len(b)
      /\ \A i \in 1..Len(a) : c[i] = a[i]
      /\ \A i \in 1..Len(b) : Len(a) + i \in 1..Len(c) /\ c[Len(a) + i] = b[i]
      /\ \A i \in DOMAIN c : i \in DOMAIN a \/ \E j \in DOMAIN b : i = Len(a) + j
  BY ConcatIs
<1>2. x \in Seq(Item) /\ Len(x) = Len(a) /\ \A i \in DOMAIN a : x[i] = [path |-> a[i], dir |-> isDir]
  BY ItemsAre
<1>3. y \in Seq(Item) /\ Len(y) = Len(b) /\ \A i \in DOMAIN b : y[i] = [path |-> b[i], dir |-> isDir]
  BY ItemsAre
<1>4. z \in Seq(Item) /\ Len(z) = Len(c) /\ \A i \in DOMAIN c : z[i] = [path |-> c[i], dir |-> isDir]
  <2> HIDE DEF c
  <2>1. c \in Seq(LibraryPaths)
    BY <1>1
  <2>2. LET items == Items(c, isDir) IN
        /\ items \in Seq(Item) /\ Len(items) = Len(c)
        /\ \A i \in DOMAIN c : items[i] = [path |-> c[i], dir |-> isDir]
    BY <2>1, ItemsAre
  <2> QED BY <2>2 DEF c
<1> HIDE DEF x, y, z, c
<1>5. /\ x \o y \in Seq(Item) /\ Len(x \o y) = Len(x) + Len(y)
      /\ \A i \in 1..Len(x) : (x \o y)[i] = x[i]
      /\ \A i \in 1..Len(y) : Len(x) + i \in 1..Len(x \o y) /\ (x \o y)[Len(x) + i] = y[i]
  <2>1. x \in Seq(Item) /\ y \in Seq(Item)
    BY <1>2, <1>3
  <2> QED BY <2>1, ConcatIs
<1>6. DOMAIN a = 1..Len(a) /\ DOMAIN b = 1..Len(b) /\ DOMAIN c = 1..Len(c)
  BY <1>1
<1>7. ASSUME NEW i \in 1..Len(z) PROVE z[i] = (x \o y)[i]
  <2>1. i \in DOMAIN c
    BY <1>4, <1>6
  <2>2. CASE i \in DOMAIN a
    BY <2>1, <2>2, <1>1, <1>2, <1>4, <1>5, <1>6
  <2>3. ASSUME NEW j \in DOMAIN b, i = Len(a) + j PROVE z[i] = (x \o y)[i]
    <3>1. z[i] = [path |-> b[j], dir |-> isDir]
      BY <2>1, <2>3, <1>1, <1>4, <1>6
    <3>2. (x \o y)[i] = y[j]
      BY <2>3, <1>2, <1>3, <1>5, <1>6
    <3> QED BY <3>1, <3>2, <1>3
  <2> QED BY <2>1, <2>2, <2>3, <1>1
<1>8. Len(z) = Len(x \o y)
  BY <1>1, <1>2, <1>3, <1>4, <1>5
<1>9. z = x \o y
  BY <1>4, <1>5, <1>7, <1>8, SeqEqual
<1> QED BY <1>9 DEF x, y, z, c

(* The tracks before the next directory.                                   *)
LEMMA TracksFirstIs ==
    ASSUME NEW todo \in Seq(Item)
    PROVE  LET n == TracksFirst(todo) IN
           /\ n \in 0..Len(todo) /\ \A i \in 1..n : ~ todo[i].dir
           /\ n < Len(todo) => todo[n + 1].dir
<1> DEFINE I == {i \in 1..Len(todo) : todo[i].dir}
           next == IF I # {} THEN Min(I) ELSE 0
<1>1. TracksFirst(todo) = IF next = 0 THEN Len(todo) ELSE next - 1
  BY DEF TracksFirst, SelectInSeq
<1>2. Len(todo) \in Nat /\ I \subseteq 1..Len(todo)
  OBVIOUS
<1>3. CASE I = {}
  <2>1. TracksFirst(todo) = Len(todo)
    BY <1>1, <1>3
  <2> QED BY <2>1, <1>2, <1>3
<1>4. CASE I # {}
  <2>1. \E i \in I : \A j \in I : i <= j
    <3>1. I \in SUBSET Nat
      BY <1>2
    <3> HIDE DEF I
    <3> QED BY <3>1, <1>4, Least
  <2>2. Min(I) \in I /\ \A j \in I : Min(I) <= j
    BY <2>1 DEF Min
  <2>3. PICK m : m = Min(I)
    OBVIOUS
  <2>4. m \in 1..Len(todo) /\ todo[m].dir /\ \A i \in 1..Len(todo) : todo[i].dir => m <= i
    BY <2>2, <2>3
  <2>5. TracksFirst(todo) = m - 1
    BY <1>1, <1>4, <2>3, <2>4
  <2>6. m - 1 \in 0..Len(todo) /\ m - 1 + 1 = m /\ \A i \in 1..(m - 1) : i \in 1..Len(todo) /\ ~ (m <= i)
    BY <2>4, <1>2
  <2> QED BY <2>4, <2>5, <2>6
<1> QED BY <1>3, <1>4

(* A sequence cut in two.                                                  *)
LEMMA Split ==
    ASSUME NEW todo \in Seq(Item), NEW n \in 0..Len(todo)
    PROVE  LET a == SubSeq(todo, 1, n)
               b == SubSeq(todo, n + 1, Len(todo)) IN
           /\ a \in Seq(Item) /\ b \in Seq(Item) /\ todo = a \o b
           /\ Len(a) = n /\ Len(b) = Len(todo) - n /\ \A i \in 1..n : a[i] = todo[i]
           /\ n < Len(todo) => b # <<>> /\ Head(b) = todo[n + 1]
           /\ n = Len(todo) => b = <<>>
<1> DEFINE a == SubSeq(todo, 1, n)
           b == SubSeq(todo, n + 1, Len(todo))
           L == Len(todo)
<1>1. L \in Nat /\ n \in Nat /\ n <= L /\ n + 1 \in Int /\ (\A i \in 1..n : todo[i] \in Item)
      /\ \A i \in (n + 1)..L : todo[i] \in Item
  OBVIOUS
<1>2. a \in Seq(Item) /\ Len(a) = n /\ \A i \in 1..n : a[i] = todo[i]
  BY PrefixIs DEF Prefix
<1>3. /\ b \in Seq(Item) /\ Len(b) = IF n + 1 <= L THEN L - (n + 1) + 1 ELSE 0
      /\ \A i \in 1..(L - (n + 1) + 1) : b[i] = todo[n + 1 + i - 1]
  BY <1>1, SubSeqProperties
<1> HIDE DEF a, b, L
<1>4. Len(b) = L - n
  BY <1>1, <1>3
<1>5. ASSUME NEW i \in 1..(L - n) PROVE b[i] = todo[n + i]
  <2>1. i \in 1..(L - (n + 1) + 1) /\ n + 1 + i - 1 = n + i
    BY <1>1
  <2> QED BY <2>1, <1>3
<1>6. /\ a \o b \in Seq(Item) /\ Len(a \o b) = Len(a) + Len(b)
      /\ \A i \in 1..Len(a) : (a \o b)[i] = a[i]
      /\ \A i \in 1..Len(b) : Len(a) + i \in 1..Len(a \o b) /\ (a \o b)[Len(a) + i] = b[i]
  <2>1. a \in Seq(Item) /\ b \in Seq(Item)
    BY <1>2, <1>3
  <2> QED BY <2>1, ConcatIs
<1>7. ASSUME NEW i \in 1..L PROVE todo[i] = (a \o b)[i]
  <2>1. CASE i <= n
    BY <2>1, <1>1, <1>2, <1>6
  <2>2. CASE ~ (i <= n)
    <3>1. i - n \in 1..(L - n) /\ n + (i - n) = i
      BY <2>2, <1>1
    <3>2. b[i - n] = todo[i]
      BY <3>1, <1>5
    <3>3. (a \o b)[n + (i - n)] = b[i - n]
      BY <3>1, <1>2, <1>4, <1>6
    <3> QED BY <3>1, <3>2, <3>3
  <2> QED BY <2>1, <2>2
<1>8. Len(todo) = Len(a \o b)
  BY <1>1, <1>2, <1>4, <1>6 DEF L
<1>9. todo = a \o b
  BY <1>6, <1>7, <1>8, SeqEqual DEF L
<1>10. ASSUME n < L PROVE b # <<>> /\ Head(b) = todo[n + 1]
  <2>1. 1 \in 1..(L - n) /\ Len(b) # 0
    BY <1>1, <1>4, <1>10
  <2>2. b[1] = todo[n + 1]
    BY <2>1, <1>5
  <2> QED BY <2>1, <2>2, <1>3
<1>11. ASSUME n = L PROVE b = <<>>
  <2>1. Len(b) = 0
    BY <1>1, <1>4, <1>11
  <2> QED BY <2>1, <1>3
<1> QED BY <1>2, <1>3, <1>4, <1>9, <1>10, <1>11 DEF a, b, L

-----------------------------------------------------------------------------
(* What a directory shows, as items of the walk *)

Shown(t, d) == Items(DirectoriesIn(t, d), TRUE) \o Items(TracksIn(t, d), FALSE)

(* read_visible_children returns the visible directories and the tracks,   *)
(* each of them.                                                           *)
LEMMA ShownIs ==
    ASSUME NEW t, NEW d
    PROVE  LET dirs == Items(DirectoriesIn(t, d), TRUE)
               tracks == Items(TracksIn(t, d), FALSE) IN
           /\ DirectoriesIn(t, d) \in Seq(LibraryPaths) /\ TracksIn(t, d) \in Seq(LibraryPaths)
           /\ dirs \in Seq(Item) /\ tracks \in Seq(Item)
           /\ \A x \in ToSet(dirs) : x.dir /\ Child(x.path, d, Names, Directories, t)
           /\ \A x \in ToSet(tracks) : ~ x.dir /\ Child(x.path, d, Audio, {"file"}, t)
           /\ \A p : Child(p, d, Names, Directories, t) => [path |-> p, dir |-> TRUE] \in ToSet(dirs)
           /\ \A p : Child(p, d, Audio, {"file"}, t) => [path |-> p, dir |-> FALSE] \in ToSet(tracks)
<1> DEFINE ds == DirectoriesIn(t, d)
           ts == TracksIn(t, d)
<1>1. /\ ds \in Seq(LibraryPaths)
      /\ \A i \in DOMAIN ds : Child(ds[i], d, Names, Directories, t)
      /\ \A p : Child(p, d, Names, Directories, t) => \E i \in DOMAIN ds : ds[i] = p
  BY ChildrenAre DEF DirectoriesIn
<1>2. Audio \subseteq Names
  BY NamesAssumption
<1>3. /\ ts \in Seq(LibraryPaths)
      /\ \A i \in DOMAIN ts : Child(ts[i], d, Audio, {"file"}, t)
      /\ \A p : Child(p, d, Audio, {"file"}, t) => \E i \in DOMAIN ts : ts[i] = p
  BY <1>2, ChildrenAre DEF TracksIn
<1> HIDE DEF ds, ts
<1> DEFINE di == Items(ds, TRUE)
           ti == Items(ts, FALSE)
<1>4. /\ di \in Seq(Item)
      /\ \A item \in ToSet(di) : item.dir = TRUE /\ item.path \in ToSet(ds)
      /\ \A path \in ToSet(ds) : [path |-> path, dir |-> TRUE] \in ToSet(di)
  BY <1>1, ItemsAre
<1>5. /\ ti \in Seq(Item)
      /\ \A item \in ToSet(ti) : item.dir = FALSE /\ item.path \in ToSet(ts)
      /\ \A path \in ToSet(ts) : [path |-> path, dir |-> FALSE] \in ToSet(ti)
  BY <1>3, ItemsAre
<1> HIDE DEF di, ti
<1>6. \A p \in ToSet(ds) : Child(p, d, Names, Directories, t)
  BY <1>1 DEF ToSet
<1>7. \A p \in ToSet(ts) : Child(p, d, Audio, {"file"}, t)
  BY <1>3 DEF ToSet
<1>8. \A p : Child(p, d, Names, Directories, t) => p \in ToSet(ds)
  BY <1>1 DEF ToSet
<1>9. \A p : Child(p, d, Audio, {"file"}, t) => p \in ToSet(ts)
  BY <1>3 DEF ToSet
<1> QED BY <1>1, <1>3, <1>4, <1>5, <1>6, <1>7, <1>8, <1>9 DEF ds, ts, di, ti

(* Children of one kind come in the order of their names.                  *)
LEMMA ChildrenOrdered ==
    ASSUME NEW t, NEW d \in Seq(Names), NEW kinds, NEW names, names \subseteq Names, NEW isDir \in BOOLEAN
    PROVE  Ordered(Items(ChildrenOf(t, d, kinds, names), isDir))
<1> DEFINE c == ChildrenOf(t, d, kinds, names)
           items == Items(c, isDir)
<1>1. /\ c \in Seq(LibraryPaths)
      /\ \A i, j \in DOMAIN c : i < j =>
            \E n, m \in Names : c[i] = Append(d, n) /\ c[j] = Append(d, m) /\ Rank(n) < Rank(m)
  BY ChildrenAre
<1> HIDE DEF c
<1>2. DOMAIN items = DOMAIN c /\ \A i \in DOMAIN c : items[i] = [path |-> c[i], dir |-> isDir]
  BY <1>1, ItemsAre
<1> HIDE DEF items
<1>3. DOMAIN c = 1..Len(c) /\ Len(c) \in Nat
  BY <1>1
<1>4. ASSUME NEW i \in DOMAIN items, NEW j \in DOMAIN items, i < j PROVE Precedes(items[i], items[j])
  <2>1. PICK n \in Names, m \in Names : c[i] = Append(d, n) /\ c[j] = Append(d, m) /\ Rank(n) < Rank(m)
    BY <1>1, <1>2, <1>4
  <2>2. n # m
    <3>1. Rank(n) \in Int /\ Rank(m) \in Int
      <4>1. PICK a \in DOMAIN NameOrder, b \in DOMAIN NameOrder : NameOrder[a] = n /\ NameOrder[b] = m
        BY NamesAre
      <4>2. Rank(n) = a /\ Rank(m) = b
        BY <4>1, RankIs
      <4> QED BY <4>1, <4>2, NamesAre
    <3> QED BY <2>1, <3>1
  <2> DEFINE x == items[i]
             y == items[j]
  <2>3. x.path = Append(d, n) /\ y.path = Append(d, m) /\ x.dir = isDir /\ y.dir = isDir
    BY <1>2, <1>4, <2>1
  <2> HIDE DEF x, y
  <2>4. IF x.dir <=> y.dir THEN Rank(n) < Rank(m) ELSE x.dir
    BY <2>1, <2>3
  <2>5. Precedes(x, y)
    BY <2>2, <2>3, <2>4, SiblingsPrecede
  <2> QED BY <2>5 DEF x, y
<1> QED BY <1>4 DEF Ordered, items, c

(* A directory read once is in the order of the walk.                      *)
LEMMA ShownOrdered ==
    ASSUME NEW t, NEW d \in Seq(Names) PROVE Shown(t, d) \in Seq(Item) /\ Ordered(Shown(t, d))
<1> DEFINE di == Items(DirectoriesIn(t, d), TRUE)
           ti == Items(TracksIn(t, d), FALSE)
<1>1. /\ di \in Seq(Item) /\ ti \in Seq(Item)
      /\ \A x \in ToSet(di) : x.dir /\ Child(x.path, d, Names, Directories, t)
      /\ \A x \in ToSet(ti) : ~ x.dir /\ Child(x.path, d, Audio, {"file"}, t)
  BY ShownIs
<1>2. Ordered(di)
  BY ChildrenOrdered DEF DirectoriesIn
<1>3. Ordered(ti)
  BY ChildrenOrdered, NamesAssumption DEF TracksIn
<1> HIDE DEF di, ti
<1>4. ASSUME NEW x \in ToSet(di), NEW y \in ToSet(ti) PROVE Precedes(x, y)
  <2>1. PICK n \in Names \ Hidden : x.path = Append(d, n) /\ t[x.path] \in Directories
    BY <1>1 DEF Child
  <2>2. PICK m \in Audio \ Hidden : y.path = Append(d, m) /\ t[y.path] = "file"
    BY <1>1 DEF Child
  <2>3. n # m
    BY <2>1, <2>2 DEF Directories
  <2>4. n \in Names /\ m \in Names
    BY <2>1, <2>2, NamesAssumption
  <2>5. IF x.dir <=> y.dir THEN Rank(n) < Rank(m) ELSE x.dir
    BY <1>1
  <2>6. x.path = Append(d, n) /\ y.path = Append(d, m)
    BY <2>1, <2>2
  <2> QED BY <2>3, <2>4, <2>5, <2>6, SiblingsPrecede
<1>5. Ahead(ToSet(di), ToSet(ti))
  BY <1>4 DEF Ahead
<1>6. Ordered(di \o ti) /\ di \o ti \in Seq(Item)
  BY <1>1, <1>2, <1>3, <1>5, OrderedConcat, ConcatIs
<1> QED BY <1>6 DEF Shown, di, ti

(* Every item of a directory is below it; and every track below it is one  *)
(* of them, or below one.                                                  *)
LEMMA ShownCovers ==
    ASSUME NEW t, NEW d, Visible(d)
    PROVE  /\ \A x \in ToSet(Shown(t, d)) :
                 /\ x \in Item /\ Visible(x.path) /\ Below(x.path, d)
                 /\ ~ x.dir => t[x.path] = "file" /\ Last(x.path) \in Audio
                               /\ \A k \in 0..Len(d) : Prefix(x.path, k) = Prefix(d, k)
                               /\ Len(x.path) = Len(d) + 1 /\ x.path # <<>>
           /\ \A dir : \A p \in TracksUnder(t, dir) :
                 Below(p, d) => \E x \in ToSet(Shown(t, d)) : StandsFor(x, p)
<1> DEFINE di == Items(DirectoriesIn(t, d), TRUE)
           ti == Items(TracksIn(t, d), FALSE)
<1>0. d \in Seq(Names)
  BY VisibleNames
<1>1. /\ di \in Seq(Item) /\ ti \in Seq(Item)
      /\ \A x \in ToSet(di) : x.dir /\ Child(x.path, d, Names, Directories, t)
      /\ \A x \in ToSet(ti) : ~ x.dir /\ Child(x.path, d, Audio, {"file"}, t)
      /\ \A p : Child(p, d, Names, Directories, t) => [path |-> p, dir |-> TRUE] \in ToSet(di)
      /\ \A p : Child(p, d, Audio, {"file"}, t) => [path |-> p, dir |-> FALSE] \in ToSet(ti)
  BY ShownIs
<1> HIDE DEF di, ti
<1>2. ToSet(Shown(t, d)) = ToSet(di) \cup ToSet(ti)
  <2>1. ToSet(di \o ti) = ToSet(di) \cup ToSet(ti)
    BY <1>1, ToSetConcat
  <2>2. Shown(t, d) = di \o ti
    BY DEF Shown, di, ti
  <2> QED BY <2>1, <2>2
<1>3. ToSet(di) \subseteq Item /\ ToSet(ti) \subseteq Item
  BY <1>1 DEF ToSet
<1>4. ASSUME NEW x \in ToSet(Shown(t, d))
      PROVE  /\ x \in Item /\ Visible(x.path) /\ Below(x.path, d)
             /\ ~ x.dir => t[x.path] = "file" /\ Last(x.path) \in Audio
                           /\ \A k \in 0..Len(d) : Prefix(x.path, k) = Prefix(d, k)
                           /\ Len(x.path) = Len(d) + 1 /\ x.path # <<>>
  <2>1. PICK n \in Names \ Hidden : /\ x.path = Append(d, n)
                                    /\ ~ x.dir => n \in Audio /\ t[x.path] = "file"
    BY <1>1, <1>2, <1>4, NamesAssumption DEF Child
  <2>2. /\ Last(x.path) = n /\ Len(x.path) = Len(d) + 1 /\ x.path # <<>>
        /\ (\A k \in 0..Len(d) : Prefix(x.path, k) = Prefix(d, k)) /\ Below(x.path, d)
    BY <2>1, <1>0, ChildIs
  <2>3. Visible(x.path)
    BY <2>1, VisibleChild
  <2> QED BY <1>2, <1>3, <1>4, <2>1, <2>2, <2>3
<1>5. ASSUME NEW dir, NEW p \in TracksUnder(t, dir), Below(p, d)
      PROVE  \E x \in ToSet(Shown(t, d)) : StandsFor(x, p)
  <2>1. /\ p \in LibraryPaths /\ p # <<>> /\ t[p] = "file" /\ Last(p) \in Audio /\ p \in Seq(Names)
        /\ (\A k \in 0..(Len(p) - 1) : t[Prefix(p, k)] \in Directories)
        /\ (\A k \in DOMAIN p : p[k] \notin Hidden)
    BY TracksUnderAre, PathsAreNames
  <2> DEFINE n == Len(d) + 1
             name == p[n]
             c == Append(d, name)
  <2>2. name \in Names /\ n \in 1..Len(p) /\ c = Prefix(p, n) /\ (p = c \/ Below(p, c))
    BY <1>0, <1>5, <2>1, Towards
  <2>3. Len(p) \in Nat /\ DOMAIN p = 1..Len(p) /\ n \in 0..Len(p)
    BY <2>1, <2>2
  <2>4. name \notin Hidden
    BY <2>1, <2>2, <2>3
  <2>5. c \in LibraryPaths /\ c \in Seq(Names) /\ Len(c) = n /\ Last(c) = name
    <3>1. c \in LibraryPaths
      <4>1. Prefix(p, n) \in LibraryPaths
        <5> HIDE DEF n
        <5> QED BY <2>1, <2>3, PathsAssumption
      <4> QED BY <2>2, <4>1
    <3>2. c \in Seq(Names) /\ Len(c) = Len(d) + 1 /\ Last(c) = name
      <4>1. d \in Seq(Names) /\ name \in Names
        BY <1>0, <2>2
      <4> HIDE DEF name
      <4> QED BY <4>1, ChildIs
    <3> QED BY <3>1, <3>2
  <2> HIDE DEF c, name, n
  <2>6. CASE p = c
    <3>1. Child(c, d, Audio, {"file"}, t)
      BY <2>1, <2>4, <2>5, <2>6 DEF Child, c
    <3>2. [path |-> c, dir |-> FALSE] \in ToSet(Shown(t, d))
      BY <3>1, <1>1, <1>2
    <3>3. StandsFor([path |-> c, dir |-> FALSE], p)
      BY <2>6 DEF StandsFor
    <3> QED BY <3>2, <3>3
  <2>7. CASE p # c
    <3>1. Below(p, c)
      BY <2>2, <2>7
    <3>2. n \in 0..(Len(p) - 1)
      BY <3>1, <2>3, <2>5 DEF Below
    <3>3. t[c] \in Directories
      BY <3>2, <2>1, <2>2
    <3>4. Child(c, d, Names, Directories, t)
      BY <3>3, <2>2, <2>4, <2>5 DEF Child, c
    <3>5. [path |-> c, dir |-> TRUE] \in ToSet(Shown(t, d))
      BY <3>4, <1>1, <1>2
    <3>6. StandsFor([path |-> c, dir |-> TRUE], p)
      BY <3>1 DEF StandsFor
    <3> QED BY <3>5, <3>6
  <2> QED BY <2>6, <2>7
<1> QED BY <1>4, <1>5

-----------------------------------------------------------------------------
(* One step of the walk *)

(* The tracks at the front of the walk are collected.                      *)
Moved(todo, n) == [i \in 1..n |-> todo[i].path]
Left(todo, n) == SubSeq(todo, n + 1, Len(todo))

(* What is left when the tracks at the front are collected.                *)
LEMMA CollectedIs ==
    ASSUME NEW r, DOMAIN r = Fields, NEW todo, NEW n
    PROVE  LET w == Collected(r, todo, n) IN
           /\ Still(w, r) /\ w.path = r.path /\ w.depth = r.depth /\ w.call = r.call
           /\ w.found = r.found \o Moved(todo, n) /\ w.todo = Left(todo, n)
  BY DEF Collected, Moved, Left, Fields, Still, Same

(* The tracks at the front of the walk, as paths.                          *)
LEMMA MovedIs ==
    ASSUME NEW todo \in Seq(Item), NEW n \in 0..Len(todo), \A i \in 1..n : ~ todo[i].dir
    PROVE  LET m == Moved(todo, n) IN
           /\ m \in Seq(LibraryPaths) /\ Items(m, FALSE) = SubSeq(todo, 1, n)
<1> DEFINE m == Moved(todo, n)
           a == SubSeq(todo, 1, n)
           x == Items(m, FALSE)
<1>0. m = [i \in 1..n |-> todo[i].path]
  BY DEF Moved
<1>1. n \in Nat /\ \A i \in 1..n : todo[i] \in Item /\ todo[i].path \in LibraryPaths
  <2>1. n \in Nat /\ \A i \in 1..n : todo[i] \in Item
    OBVIOUS
  <2>2. \A y \in Item : y.path \in LibraryPaths
    BY DEF Item
  <2> QED BY <2>1, <2>2
<1>2. m \in Seq(LibraryPaths) /\ \A i \in 1..n : m[i] = todo[i].path
  BY <1>0, <1>1, IsASeq
<1>3. DOMAIN m = 1..n /\ Len(m) = n
  BY <1>0, <1>1, <1>2, LenProperties
<1> HIDE DEF m, x, a
<1>4. x \in Seq(Item) /\ Len(x) = Len(m) /\ \A i \in DOMAIN m : x[i] = [path |-> m[i], dir |-> FALSE]
  BY <1>2, ItemsAre DEF x
<1>5. a \in Seq(Item) /\ Len(a) = n /\ \A i \in 1..n : a[i] = todo[i]
  BY Split DEF a
<1>6. ASSUME NEW i \in 1..n PROVE x[i] = a[i]
  <2>1. todo[i] \in Item /\ todo[i].dir = FALSE
    BY <1>1 DEF Item
  <2>2. todo[i] = [path |-> todo[i].path, dir |-> FALSE]
    BY <2>1 DEF Item
  <2> QED BY <2>2, <1>2, <1>3, <1>4, <1>5
<1>7. x = a
  BY <1>3, <1>4, <1>5, <1>6, SeqEqual
<1> QED BY <1>2, <1>7 DEF m, x, a

(* The next item of the walk comes before all others.                      *)
LEMMA FirstOf ==
    ASSUME NEW todo \in Seq(Item), todo # <<>>
    PROVE  /\ Tail(todo) \in Seq(Item) /\ Head(todo) \in Item
           /\ ToSet(todo) = {Head(todo)} \cup ToSet(Tail(todo))
           /\ Ordered(todo) => Ordered(Tail(todo)) /\ Ahead({Head(todo)}, ToSet(Tail(todo)))
<1> DEFINE a == SubSeq(todo, 1, 1)
           b == SubSeq(todo, 2, Len(todo))
<1>1. Len(todo) \in Nat /\ 1 \in 0..Len(todo) /\ 1 + 1 = 2 /\ Head(todo) = todo[1] /\ Head(todo) \in Item
  <2>1. Len(todo) # 0
    BY EmptySeq
  <2> QED BY <2>1
<1>2. a \in Seq(Item) /\ b \in Seq(Item) /\ todo = a \o b /\ Len(a) = 1 /\ a[1] = todo[1]
  BY <1>1, Split
<1>3. Tail(todo) = b
  BY TailIsSubSeq
<1> HIDE DEF a, b
<1>4. ToSet(a) = {Head(todo)}
  <2>1. DOMAIN a = {1}
    BY <1>2
  <2> QED BY <2>1, <1>1, <1>2 DEF ToSet
<1>5. ToSet(todo) = ToSet(a) \cup ToSet(b)
  BY <1>2, ToSetConcat
<1>6. Ordered(todo) => Ordered(b) /\ Ahead(ToSet(a), ToSet(b))
  BY <1>2, OrderedConcat
<1> QED BY <1>1, <1>2, <1>3, <1>4, <1>5, <1>6

-----------------------------------------------------------------------------
(* One directory is walked *)

(* A track read is one the directory asked for holds now.                  *)
LEMMA TrackHere ==
    ASSUME NEW t, IsTree(t), NEW d \in LibraryPaths, t[d] = "dir", Visible(d), NEW dir, Visible(dir),
           d = dir \/ Below(d, dir), NEW x \in ToSet(Shown(t, d)), ~ x.dir
    PROVE  x.path \in TracksUnder(t, dir)
<1> DEFINE p == x.path
<1>1. /\ x \in Item /\ Visible(p) /\ Below(p, d) /\ t[p] = "file" /\ Last(p) \in Audio
      /\ (\A k \in 0..Len(d) : Prefix(p, k) = Prefix(d, k))
      /\ Len(p) = Len(d) + 1 /\ p # <<>>
  BY ShownCovers
<1>2. p \in LibraryPaths
  BY <1>1 DEF Item
<1> HIDE DEF p
<1>3. p \in Seq(Names) /\ d \in Seq(Names) /\ dir \in Seq(Names) /\ \A k \in DOMAIN p : p[k] \notin Hidden
  BY <1>1, VisibleNames
<1>4. Below(p, dir)
  <2>1. CASE d = dir
    BY <1>1, <2>1
  <2>2. CASE Below(d, dir)
    <3>1. Len(d) \in Nat /\ Len(dir) \in Nat
      BY <1>3
    <3> QED BY <3>1, <1>1, <1>3, <2>2, BelowTrans
  <2> QED BY <2>1, <2>2
<1>5. ASSUME NEW k \in 0..(Len(p) - 1) PROVE t[Prefix(p, k)] \in Directories
  <2>1. Len(d) \in Nat /\ k \in 0..Len(d)
    BY <1>1, <1>3
  <2>2. Prefix(p, k) = Prefix(d, k)
    BY <1>1, <2>1
  <2>3. CASE k = Len(d)
    <3>1. Prefix(d, k) = d
      BY <2>3, <1>3, PrefixAll
    <3> QED BY <3>1, <2>2 DEF Directories
  <2>4. CASE k # Len(d)
    <3>1. k \in 0..(Len(d) - 1)
      BY <2>1, <2>4
    <3> QED BY <3>1, <2>2 DEF IsTree
  <2> QED BY <2>3, <2>4
<1> QED BY <1>1, <1>2, <1>3, <1>4, <1>5, TracksUnderAre DEF p

(* A directory at the front gives way to what it holds.                    *)
LEMMA Replaced ==
    ASSUME NEW F \in Seq(Item), NEW K \in Seq(Item), NEW rest \in Seq(Item), NEW x \in Item, x.dir,
           Ordered(K), Ordered(rest), Ahead({x}, ToSet(rest)), Ahead(ToSet(F), {x} \cup ToSet(rest)),
           \A y \in ToSet(K) : Below(y.path, x.path)
    PROVE  /\ K \o rest \in Seq(Item) /\ ToSet(K \o rest) = ToSet(K) \cup ToSet(rest)
           /\ Ordered(K \o rest) /\ Ahead(ToSet(F), ToSet(K \o rest))
<1>1. K \o rest \in Seq(Item)
  BY ConcatIs
<1>2. ToSet(K \o rest) = ToSet(K) \cup ToSet(rest)
  BY ToSetConcat
<1>3. ToSet(F) \subseteq Item /\ ToSet(K) \subseteq Item /\ ToSet(rest) \subseteq Item
  BY DEF ToSet
<1>4. Ahead(ToSet(K), ToSet(rest))
  <2> SUFFICES ASSUME NEW y \in ToSet(K), NEW z \in ToSet(rest) PROVE Precedes(y, z)
    BY DEF Ahead
  <2>1. Precedes(x, z) /\ Below(y.path, x.path) /\ y \in Item /\ z \in Item
    BY <1>3 DEF Ahead
  <2> QED BY <2>1, EarlierBelow
<1>5. Ordered(K \o rest)
  BY <1>4, OrderedConcat
<1>6. Ahead(ToSet(F), ToSet(K \o rest))
  <2> SUFFICES ASSUME NEW y \in ToSet(F), NEW z \in ToSet(K) \cup ToSet(rest) PROVE Precedes(y, z)
    BY <1>2 DEF Ahead
  <2>1. CASE z \in ToSet(rest)
    BY <2>1 DEF Ahead
  <2>2. CASE z \in ToSet(K)
    <3>1. Precedes(y, x) /\ Below(z.path, x.path) /\ y \in Item /\ z \in Item
      BY <2>2, <1>3 DEF Ahead
    <3> QED BY <3>1, LaterBelow
  <2> QED BY <2>1, <2>2
<1> QED BY <1>1, <1>2, <1>5, <1>6

(* Collecting the tracks at the front keeps the order.                     *)
LEMMA SplitOrder ==
    ASSUME NEW F \in Seq(Item), NEW todo \in Seq(Item), NEW n \in 0..Len(todo),
           Ordered(F), Ordered(todo), Ahead(ToSet(F), ToSet(todo))
    PROVE  LET a == SubSeq(todo, 1, n)
               b == SubSeq(todo, n + 1, Len(todo)) IN
           /\ Ordered(F \o a) /\ Ordered(b) /\ Ahead(ToSet(F \o a), ToSet(b))
           /\ ToSet(todo) = ToSet(a) \cup ToSet(b)
<1> DEFINE a == SubSeq(todo, 1, n)
           b == SubSeq(todo, n + 1, Len(todo))
<1>1. a \in Seq(Item) /\ b \in Seq(Item) /\ todo = a \o b
  BY Split
<1> HIDE DEF a, b
<1>2. Ordered(a) /\ Ordered(b) /\ Ahead(ToSet(a), ToSet(b)) /\ ToSet(todo) = ToSet(a) \cup ToSet(b)
  BY <1>1, OrderedConcat, ToSetConcat
<1>3. Ahead(ToSet(F), ToSet(a)) /\ Ahead(ToSet(F), ToSet(b))
  BY <1>2 DEF Ahead
<1>4. Ordered(F \o a)
  BY <1>1, <1>2, <1>3, OrderedConcat
<1>5. ToSet(F \o a) = ToSet(F) \cup ToSet(a)
  BY <1>1, ToSetConcat
<1>6. Ahead(ToSet(F \o a), ToSet(b))
  BY <1>2, <1>3, <1>5 DEF Ahead
<1> QED BY <1>2, <1>4, <1>6 DEF a, b

(* The step of the walk: the directory read next is replaced, in its       *)
(* place, by what it holds now; order, and the tracks that were always     *)
(* there, survive.                                                         *)
LEMMA WalkGoesOn ==
    ASSUME NEW r, NEW s, NEW t, DOMAIN r = Fields, IsTree(t), Walks(r, s), r.todo # <<>>, Head(r.todo).dir,
           Visible(r.path), t[Head(r.todo).path] = "dir",
           s.always \subseteq TracksUnder(t, r.path), TracksUnder(t, r.path) \subseteq s.ever
    PROVE  LET w == Walked(r, Shown(t, Head(r.todo).path)) IN
           /\ Still(w, r) /\ w.path = r.path /\ w.depth = r.depth
           /\ Walks(w, s) /\ (w.todo # <<>> => Head(w.todo).dir)
<1> DEFINE x    == Head(r.todo)
           d    == x.path
           rest == Tail(r.todo)
           K    == Shown(t, d)
           todo == K \o rest
           n    == TracksFirst(todo)
           m    == Moved(todo, n)
           a    == SubSeq(todo, 1, n)
           b    == Left(todo, n)
           F    == Items(r.found, FALSE)
           w    == Walked(r, K)
<1>1. /\ r.found \in Seq(LibraryPaths) /\ Ordered(F) /\ r.todo \in Seq(Item) /\ Ordered(r.todo)
      /\ Ahead(ToSet(F), ToSet(r.todo))
      /\ \A path \in ToSet(r.found) : Below(path, r.path) /\ path \in s.ever
      /\ \A item \in ToSet(r.todo) :
           /\ Visible(item.path) /\ (Below(item.path, r.path) \/ item = [path |-> r.path, dir |-> TRUE])
           /\ item.dir \/ item.path \in s.ever
      /\ \A path \in s.always :
           path \in ToSet(r.found) \/ \E item \in ToSet(r.todo) : StandsFor(item, path)
  BY DEF Walks, Queues
<1>2. /\ rest \in Seq(Item) /\ x \in Item /\ ToSet(r.todo) = {x} \cup ToSet(rest)
      /\ Ordered(rest) /\ Ahead({x}, ToSet(rest))
  BY <1>1, FirstOf
<1>3. Visible(d) /\ d \in LibraryPaths /\ x.dir /\ (d = r.path \/ Below(d, r.path)) /\ t[d] = "dir"
  <2>1. x \in ToSet(r.todo)
    BY <1>2
  <2>2. d \in LibraryPaths
    BY <1>2 DEF Item
  <2> QED BY <2>1, <2>2, <1>1
<1>4. d \in Seq(Names) /\ r.path \in Seq(Names)
  BY <1>3, VisibleNames
<1>5. K \in Seq(Item) /\ Ordered(K)
  BY <1>4, ShownOrdered
<1>6. \A y \in ToSet(K) : y \in Item /\ Visible(y.path) /\ Below(y.path, d)
  BY <1>3, ShownCovers
<1>7. F \in Seq(Item) /\ (\A y \in ToSet(F) : ~ y.dir)
  BY <1>1, ItemsAre
<1>8. \A y \in ToSet(K) : y.dir \/ y.path \in s.ever
  BY <1>3, TrackHere
<1>9. \A p \in s.always : Below(p, d) => \E y \in ToSet(K) : StandsFor(y, p)
  BY <1>3, ShownCovers
<1>10. /\ Still(w, r) /\ w.path = r.path /\ w.depth = r.depth
       /\ w.found = r.found \o m /\ w.todo = b
  <2>1. w = Collected(r, todo, n)
    BY DEF Walked
  <2> HIDE DEF w, todo, n
  <2>2. LET v == Collected(r, todo, n) IN
        /\ Still(v, r) /\ v.path = r.path /\ v.depth = r.depth
        /\ v.found = r.found \o m /\ v.todo = b
    BY CollectedIs
  <2> QED BY <2>1, <2>2
<1> HIDE DEF K, rest, F, w, x
<1>11. todo \in Seq(Item) /\ ToSet(todo) = ToSet(K) \cup ToSet(rest) /\ Ordered(todo) /\ Ahead(ToSet(F), ToSet(todo))
  <2>1. Ahead(ToSet(F), {x} \cup ToSet(rest)) /\ \A y \in ToSet(K) : Below(y.path, x.path)
    BY <1>1, <1>2, <1>6
  <2> QED BY <2>1, <1>2, <1>3, <1>5, <1>7, Replaced
<1> HIDE DEF todo
<1>12. n \in 0..Len(todo) /\ (\A i \in 1..n : ~ todo[i].dir) /\ (n < Len(todo) => todo[n + 1].dir)
  BY <1>11, TracksFirstIs
<1> HIDE DEF n
<1>13. m \in Seq(LibraryPaths) /\ Items(m, FALSE) = a
  BY <1>11, <1>12, MovedIs
<1>14. /\ a \in Seq(Item) /\ b \in Seq(Item)
       /\ (n < Len(todo) => b # <<>> /\ Head(b) = todo[n + 1]) /\ (n = Len(todo) => b = <<>>)
  BY <1>11, <1>12, Split DEF Left
<1>15. /\ Ordered(F \o a) /\ Ordered(b) /\ Ahead(ToSet(F \o a), ToSet(b))
       /\ ToSet(todo) = ToSet(a) \cup ToSet(b)
  BY <1>1, <1>7, <1>11, <1>12, SplitOrder DEF Left
<1> HIDE DEF a, b, m
<1>16. Items(r.found \o m, FALSE) = F \o a
  BY <1>1, <1>13, ItemsConcat DEF F
<1>17. r.found \o m \in Seq(LibraryPaths) /\ ToSet(r.found \o m) = ToSet(r.found) \cup ToSet(m)
  BY <1>1, <1>13, ConcatIs, ToSetConcat
<1>18. /\ \A y \in ToSet(a) : ~ y.dir /\ y.path \in ToSet(m)
       /\ \A p \in ToSet(m) : [path |-> p, dir |-> FALSE] \in ToSet(a)
  BY <1>13, ItemsAre
<1>19. \A y \in ToSet(todo) :
          /\ Visible(y.path) /\ (Below(y.path, r.path) \/ y = [path |-> r.path, dir |-> TRUE])
          /\ y.dir \/ y.path \in s.ever
  <2> SUFFICES ASSUME NEW y \in ToSet(K)
               PROVE  /\ Visible(y.path) /\ Below(y.path, r.path)
                      /\ y.dir \/ y.path \in s.ever
    BY <1>1, <1>2, <1>11
  <2>1. Below(y.path, r.path)
    <3>1. y.path \in Seq(Names) /\ Len(d) \in Nat /\ Len(r.path) \in Nat
      BY <1>4, <1>6, VisibleNames
    <3> QED BY <3>1, <1>3, <1>6, BelowTrans
  <2> QED BY <2>1, <1>6, <1>8
<1>20. \A p \in ToSet(r.found \o m) : Below(p, r.path) /\ p \in s.ever
  <2> SUFFICES ASSUME NEW p \in ToSet(m) PROVE Below(p, r.path) /\ p \in s.ever
    BY <1>1, <1>17
  <2> DEFINE y == [path |-> p, dir |-> FALSE]
  <2>1. y \in ToSet(todo) /\ y.path = p /\ ~ y.dir
    BY <1>15, <1>18
  <2>2. y # [path |-> r.path, dir |-> TRUE]
    OBVIOUS
  <2> HIDE DEF y
  <2> QED BY <2>1, <2>2, <1>19
<1>21. \A p \in s.always : p \in ToSet(r.found \o m) \/ \E y \in ToSet(b) : StandsFor(y, p)
  <2> SUFFICES ASSUME NEW p \in s.always, p \notin ToSet(r.found)
               PROVE  p \in ToSet(m) \/ \E y \in ToSet(b) : StandsFor(y, p)
    BY <1>17
  <2>1. \E y \in ToSet(todo) : StandsFor(y, p)
    <3>1. PICK y \in {x} \cup ToSet(rest) : StandsFor(y, p)
      BY <1>1, <1>2
    <3>2. CASE y = x
      BY <3>1, <3>2, <1>3, <1>9, <1>11 DEF StandsFor
    <3> QED BY <3>1, <3>2, <1>11
  <2>2. PICK y \in ToSet(todo) : StandsFor(y, p)
    BY <2>1
  <2>3. CASE y \in ToSet(a)
    BY <2>2, <2>3, <1>18 DEF StandsFor
  <2> QED BY <2>2, <2>3, <1>15
<1>22. b # <<>> => Head(b).dir
  BY <1>12, <1>14
<1>23. ToSet(b) \subseteq ToSet(todo)
  BY <1>15
<1>24. Walks(w, s)
  BY <1>10, <1>14, <1>15, <1>16, <1>17, <1>19, <1>20, <1>21, <1>23 DEF Walks, Queues
<1> QED BY <1>10, <1>22, <1>24 DEF w, K, x

-----------------------------------------------------------------------------
(* The steps of a handler keep the invariant *)

ClientOK(r, s, t) == GoesOn(r, s) /\ Holds(r, s, t) /\ Listed(r, s, t)

(* The invariant, for one client.                                          *)
LEMMA JClient == ASSUME JInv, NEW c \in Clients PROVE ClientOK(request[c], seen[c], tree)
  BY DEF JInv, RequestsOK, ClientOK

(* One request moves, the others stay.                                     *)
LEMMA ClientMoves ==
    ASSUME IInv, JInv, NEW c \in Clients, NEW r, Same(r, request[c]), request[c].id \in 1..asks,
           request' = [request EXCEPT ![c] = r], seen' \in [Clients -> Seen],
           \A d \in Clients : d # c => seen'[d] = seen[d],
           ClientOK(r, seen'[c], tree), UNCHANGED <<tree, changes, asks, orphans, exit, meant>>,
           \A e \in effects' : e \in effects \/ (meant[e.by] # NONE => Means(meant[e.by], e.call))
    PROVE  JInv'
<1>1. \A d \in Clients : request'[d] = IF d = c THEN r ELSE request[d]
  BY DEF IInv
<1>2. \A d \in Clients : ClientOK(request'[d], seen'[d], tree)
  BY <1>1, JClient
<1>3. RequestsOK'
  BY <1>2 DEF RequestsOK, ClientOK
<1>4. \A d \in Clients : request'[d].id # 0 => AskedBy(request'[d], meant[request'[d].id])
  <2> SUFFICES ASSUME NEW d \in Clients, request'[d].id # 0 PROVE AskedBy(request'[d], meant[request'[d].id])
    OBVIOUS
  <2>1. CASE d = c
    BY <1>1, <2>1 DEF JInv, MeantOK, AskedBy, Same
  <2>2. CASE d # c
    BY <1>1, <2>2 DEF JInv, MeantOK
  <2> QED BY <2>1, <2>2
<1>5. \A e \in effects' : meant[e.by] # NONE => Means(meant[e.by], e.call)
  BY DEF JInv, MeantOK
<1>6. MeantOK'
  BY <1>4, <1>5 DEF JInv, MeantOK
<1> QED BY <1>3, <1>6 DEF JInv, TreeOK

LEMMA AnswerKeeps ==
    ASSUME NEW r, DOMAIN r = Fields, NEW status
    PROVE  LET a == Answer(r, status) IN
           /\ Same(a, r) /\ a.at = "answered" /\ a.status = status
           /\ a.path = r.path /\ a.depth = r.depth /\ a.found = r.found
  BY DEF Same, Fields, Answer

LEMMA CallingKeeps ==
    ASSUME NEW r, DOMAIN r = Fields, NEW call
    PROVE  LET a == Calling(r, call) IN
           /\ Same(a, r) /\ a.at = "calling" /\ a.call = call
           /\ a.path = r.path /\ a.depth = r.depth
  BY DEF Same, Fields, Calling

(* An answered request has nothing left to hold.                           *)
LEMMA AnsweredOK ==
    ASSUME NEW r, NEW s, NEW t, DOMAIN r = Fields, GoesOn(r, s), ~ s.fresh, NEW status \in Statuses
    PROVE  ClientOK(Answer(r, status), s, t)
<1> DEFINE a == Answer(r, status)
<1>1. a.at = "answered" /\ a.status = status /\ a.path = r.path /\ a.depth = r.depth
  BY AnswerKeeps
<1> HIDE DEF a
<1>2. GoesOn(a, s)
  BY <1>1 DEF GoesOn
<1>3. Holds(a, s, t) /\ Listed(a, s, t)
  BY <1>1 DEF Holds, Listed
<1> QED BY <1>2, <1>3 DEF ClientOK, a

(* Only an answered listing can be fresh.                                  *)
LEMMA BusyNotFresh ==
    ASSUME NEW r, NEW s, NEW t, ClientOK(r, s, t), r.at \in Busy PROVE ~ s.fresh
  BY DEF ClientOK, Listed, Busy

LEMMA BusyNumbered == ASSUME IInv, NEW c \in Clients, request[c].at \in Busy
                      PROVE request[c].id \in 1..asks /\ DOMAIN request[c] = Fields
  BY DEF IInv, RequestOK, Busy

(* A handler takes a step that changes nothing but its request.            *)
LEMMA StepOK ==
    ASSUME IInv, JInv, NEW c \in Clients, request[c].at \in Busy, NEW r, Same(r, request[c]), Step(c, r),
           UNCHANGED <<seen, exit, meant>>, ClientOK(r, seen[c], tree)
    PROVE  JInv'
<1>1. request[c].id \in 1..asks
  BY BusyNumbered
<1>2. request' = [request EXCEPT ![c] = r] /\ UNCHANGED <<tree, changes, asks, orphans, exit, meant, effects>>
  BY DEF Step
<1>3. seen' \in [Clients -> Seen] /\ (\A d \in Clients : d # c => seen'[d] = seen[d]) /\ ClientOK(r, seen'[c], tree)
  BY DEF JInv
<1> QED BY <1>1, <1>2, <1>3, ClientMoves

(* A handler answers.                                                      *)
LEMMA AnswerStepOK ==
    ASSUME IInv, JInv, NEW c \in Clients, request[c].at \in Busy, NEW status \in Statuses,
           Step(c, Answer(request[c], status)), UNCHANGED <<seen, exit, meant>>
    PROVE  JInv'
<1>1. DOMAIN request[c] = Fields /\ ClientOK(request[c], seen[c], tree)
  BY BusyNumbered, JClient
<1>2. ~ seen[c].fresh /\ GoesOn(request[c], seen[c])
  BY <1>1, BusyNotFresh DEF ClientOK
<1>3. ClientOK(Answer(request[c], status), seen[c], tree)
  BY <1>1, <1>2, AnsweredOK
<1>4. Same(Answer(request[c], status), request[c])
  BY <1>1, AnswerKeeps
<1> QED BY <1>3, <1>4, StepOK

(* A directory cannot be read.                                             *)
LEMMA ReadFailsOK == ASSUME IInv, JInv, NEW c \in Clients, ReadFails(c), UNCHANGED <<exit, meant>> PROVE JInv'
  BY AnswerStepOK DEF ReadFails, Busy, Statuses

(* The network helper ends, or its timeout.                                *)
LEMMA HelperOK ==
    ASSUME IInv, JInv, NEW c \in Clients, HelperEnds(c) \/ HelperTimesOut(c), UNCHANGED <<exit, meant>>
    PROVE  JInv'
<1> DEFINE r == request[c]
           a == Answer(r, 200)
<1>1. r.at = "helper" /\ r.at \in Busy /\ UNCHANGED seen
  BY DEF HelperEnds, HelperTimesOut, Busy
<1>2. CASE HelperTimesOut(c)
  BY <1>1, <1>2, AnswerStepOK DEF HelperTimesOut, Statuses
<1>3. CASE HelperEnds(c)
  <2>1. PICK network \in {NONE, "shown"} : Step(c, [a EXCEPT !.network = network])
    BY <1>3 DEF HelperEnds
  <2> DEFINE n == [a EXCEPT !.network = network]
  <2>2. DOMAIN r = Fields /\ ClientOK(r, seen[c], tree)
    BY <1>1, BusyNumbered, JClient
  <2>3. ClientOK(a, seen[c], tree) /\ ~ seen[c].fresh
    BY <1>1, <2>2, BusyNotFresh, AnsweredOK DEF ClientOK, Statuses
  <2>4. Same(a, r) /\ a.at = "answered"
    BY <2>2, AnswerKeeps
  <2> HIDE DEF a
  <2>5. Same(n, r) /\ n.at = "answered" /\ n.path = a.path /\ n.depth = a.depth /\ n.status = a.status
    BY <2>4 DEF Same, Fields
  <2> HIDE DEF n
  <2>6. ClientOK(n, seen[c], tree)
    BY <2>3, <2>4, <2>5 DEF ClientOK, GoesOn, Holds, Listed
  <2>7. Step(c, n)
    BY <2>1 DEF n
  <2> QED BY <1>1, <2>5, <2>6, <2>7, StepOK
<1> QED BY <1>2, <1>3

LEMMA EnqueueIs ==
    ASSUME NEW tracks \in Seq(Seq(Names))
    PROVE  Enqueue(tracks) # NONE /\ Enqueue(tracks) = Enqueue(Enqueue(tracks).tracks)
           /\ Enqueue(tracks).tracks = tracks /\ Enqueue(tracks).name = "enqueue"
<1>1. Enqueue(tracks) \in [name : {"enqueue"}, tracks : Seq(Seq(Names))]
  BY DEF Enqueue
<1>2. Enqueue(tracks) # NONE
  BY <1>1, NoneAssumption
<1> QED BY <1>2 DEF Enqueue

(* What is known during the lookup of a path.                              *)
LEMMA LookupHolds ==
    ASSUME NEW r, NEW s, NEW t, GoesOn(r, s), r.at = "lookup"
    PROVE  r.ask.kind \in PathKinds /\ Asked(r) /\ r.found = <<>> /\ r.path \in Seq(Names) /\ Visible(r.path)
           /\ Len(r.path) \in Nat /\ r.depth \in 0..Len(r.path)
<1>1. r.path \in Seq(Names)
  BY DEF GoesOn
<1> QED BY <1>1 DEF GoesOn, Asked

(* One component was found; the next one is looked up.                     *)
LEMMA DepthOK ==
    ASSUME NEW r, NEW s, NEW t, DOMAIN r = Fields, ClientOK(r, s, t), r.at = "lookup", r.depth < Len(r.path)
    PROVE  ClientOK([r EXCEPT !.depth = @ + 1], s, t)
<1> DEFINE n == [r EXCEPT !.depth = @ + 1]
<1>1. /\ n.at = r.at /\ n.path = r.path /\ n.ask = r.ask /\ n.found = r.found /\ n.depth = r.depth + 1
  BY DEF Fields
<1>2. ~ s.fresh /\ GoesOn(r, s)
  BY BusyNotFresh DEF Busy, ClientOK
<1> HIDE DEF n
<1>3. n.depth \in 0..Len(n.path)
  BY <1>1, <1>2, LookupHolds
<1>4. GoesOn(n, s)
  BY <1>1, <1>2, <1>3 DEF GoesOn, Asked
<1>5. Holds(n, s, t) /\ Listed(n, s, t)
  BY <1>1, <1>2 DEF ClientOK, Holds, Listed
<1> QED BY <1>4, <1>5 DEF ClientOK, n

(* A track was found: the actor is called.                                 *)
LEMMA FileOK ==
    ASSUME NEW r, NEW s, NEW t, DOMAIN r = Fields, ClientOK(r, s, t), r.at = "lookup", r.ask.kind = "file"
    PROVE  ClientOK(Calling(r, Enqueue(<<r.path>>)), s, t)
<1> DEFINE n == Calling(r, Enqueue(<<r.path>>))
<1>1. /\ n.at = "calling" /\ n.path = r.path /\ n.ask = r.ask /\ n.depth = r.depth /\ n.call = Enqueue(<<r.path>>)
  BY CallingKeeps DEF Same
<1>2. ~ s.fresh /\ GoesOn(r, s)
  BY BusyNotFresh DEF Busy, ClientOK
<1>3. Asked(r) /\ r.path \in Seq(Names)
  BY <1>2, LookupHolds
<1>4. Enqueue(<<r.path>>) # NONE
  <2>1. <<r.path>> \in Seq(Seq(Names))
    BY <1>3
  <2> QED BY <2>1, EnqueueIs
<1> HIDE DEF n
<1>5. Called(n, s)
  BY <1>1, <1>3 DEF Called, Asked
<1>6. GoesOn(n, s)
  BY <1>1, <1>2, <1>4, <1>5 DEF GoesOn
<1>7. Holds(n, s, t) /\ Listed(n, s, t)
  BY <1>1, <1>2 DEF Holds, Listed
<1> QED BY <1>6, <1>7 DEF ClientOK, n

(* A directory was found: it is read, or walked.                           *)
LEMMA ReadOK ==
    ASSUME NEW r, NEW s, NEW t, DOMAIN r = Fields, ClientOK(r, s, t), r.at = "lookup",
           r.ask.kind \in {"list", "directory"}, r.path \in LibraryPaths
    PROVE  ClientOK([r EXCEPT !.at = "read", !.todo = Items(<<r.path>>, TRUE)], s, t)
<1> DEFINE todo == Items(<<r.path>>, TRUE)
           n == [r EXCEPT !.at = "read", !.todo = todo]
           x == [path |-> r.path, dir |-> TRUE]
<1>1. /\ n.at = "read" /\ n.path = r.path /\ n.ask = r.ask /\ n.depth = r.depth /\ n.found = r.found /\ n.todo = todo
  BY DEF Fields
<1>2. ~ s.fresh /\ GoesOn(r, s)
  BY BusyNotFresh DEF Busy, ClientOK
<1>3. Asked(r) /\ r.found = <<>> /\ Visible(r.path)
  BY <1>2, LookupHolds
<1> HIDE DEF n
<1>4. todo \in Seq(Item) /\ Len(todo) = 1 /\ DOMAIN todo = {1} /\ todo[1] = x
  <2>1. <<r.path>> \in Seq(LibraryPaths) /\ DOMAIN <<r.path>> = {1} /\ <<r.path>>[1] = r.path /\ Len(<<r.path>>) = 1
    OBVIOUS
  <2>2. PICK p : p = <<r.path>>
    OBVIOUS
  <2>3. p \in Seq(LibraryPaths) /\ DOMAIN p = {1} /\ p[1] = r.path /\ Len(p) = 1 /\ todo = Items(p, TRUE)
    BY <2>1, <2>2
  <2> HIDE DEF todo
  <2>4. LET items == Items(p, TRUE) IN
        /\ items \in Seq(Item) /\ Len(items) = Len(p) /\ DOMAIN items = DOMAIN p
        /\ \A i \in DOMAIN p : items[i] = [path |-> p[i], dir |-> TRUE]
    BY <2>3, ItemsAre
  <2> QED BY <2>3, <2>4
<1> HIDE DEF todo
<1>5. todo # <<>> /\ Head(todo).dir /\ todo \in Seq(Item) /\ ToSet(todo) = {x} /\ Ordered(todo)
  <2> HIDE DEF x
  <2>1. todo # <<>> /\ Head(todo) = x
    <3>1. todo # <<>>
      <4>1. Len(<<>>) = 0
        OBVIOUS
      <4> QED BY <1>4, <4>1
    <3>2. Head(todo) = todo[1]
      BY <1>4, <3>1
    <3> QED BY <1>4, <3>1, <3>2
  <2>2. ToSet(todo) = {x}
    BY <1>4 DEF ToSet
  <2>3. Ordered(todo)
    BY <1>4 DEF Ordered
  <2>4. x.dir
    BY DEF x
  <2> QED BY <1>4, <2>1, <2>2, <2>3, <2>4
<1>6. ASSUME r.ask.kind = "directory" PROVE Walks(n, s)
  <2>1. n.found = <<>> /\ n.todo = todo /\ n.path = r.path
    BY <1>1, <1>3
  <2>2. Items(<<>>, FALSE) = <<>> /\ ToSet(<<>>) = {}
    BY DEF Items, ToSet
  <2>3. Queues(n, n.found, s)
    <3>1. <<>> \in Seq(LibraryPaths) /\ Ordered(<<>>)
      BY DEF Ordered
    <3> QED BY <2>1, <2>2, <3>1 DEF Queues
  <2>4. Ahead(ToSet(Items(n.found, FALSE)), ToSet(n.todo))
    BY <2>1, <2>2 DEF Ahead
  <2>5. \A item \in ToSet(n.todo) :
           /\ Visible(item.path) /\ (Below(item.path, n.path) \/ item = [path |-> n.path, dir |-> TRUE])
           /\ item.dir \/ item.path \in s.ever
    BY <2>1, <1>3, <1>5
  <2>6. \A p \in s.always : \E item \in ToSet(n.todo) : StandsFor(item, p)
    <3> SUFFICES ASSUME NEW p \in s.always PROVE StandsFor(x, p)
      BY <2>1, <1>5
    <3>1. p \in TracksUnder(t, r.path)
      BY <1>6 DEF ClientOK, Holds
    <3> QED BY <3>1, TracksUnderAre DEF StandsFor
  <2> QED BY <2>1, <2>3, <2>4, <2>5, <2>6, <1>5 DEF Walks
<1>7. GoesOn(n, s)
  BY <1>1, <1>2, <1>3, <1>5, <1>6 DEF GoesOn, Asked
<1>8. Holds(n, s, t) /\ Listed(n, s, t)
  BY <1>1, <1>2 DEF ClientOK, Holds, Listed
<1> QED BY <1>7, <1>8 DEF ClientOK, n, todo

(* The lookup of a component (resolve_existing).                           *)
LEMMA LookupOK == ASSUME IInv, JInv, NEW c \in Clients, Lookup(c), UNCHANGED <<exit, meant>> PROVE JInv'
<1> DEFINE r      == request[c]
           s      == seen[c]
           path   == Prefix(r.path, r.depth)
           status == LookupStatus(tree, path)
<1>1. r.at = "lookup" /\ r.at \in Busy /\ UNCHANGED seen
  BY DEF Lookup, Busy
<1>2. DOMAIN r = Fields /\ ClientOK(r, s, tree) /\ GoesOn(r, s)
  BY <1>1, BusyNumbered, JClient DEF ClientOK
<1>3. CASE status # 200
  <2>1. Step(c, Answer(r, status))
    BY <1>3 DEF Lookup
  <2>2. status \in Statuses
    BY <1>3 DEF LookupStatus, Statuses
  <2> QED BY <1>1, <2>1, <2>2, AnswerStepOK
<1>4. ASSUME Step(c, Answer(r, 400)) PROVE JInv'
  BY <1>1, <1>4, AnswerStepOK DEF Statuses
<1>5. CASE status = 200 /\ r.depth = 0 /\ tree[<<>>] \notin Directories
  BY <1>4, <1>5 DEF Lookup
<1>6. CASE status = 200 /\ ~ (r.depth = 0 /\ tree[<<>>] \notin Directories)
  <2>1. CASE r.depth < Len(r.path)
    <3> DEFINE n == [r EXCEPT !.depth = @ + 1]
    <3>1. Step(c, n)
      BY <1>6, <2>1 DEF Lookup
    <3>2. ClientOK(n, s, tree)
      BY <1>1, <1>2, <2>1, DepthOK
    <3>3. Same(n, r)
      BY <1>2, DepthFields DEF Still
    <3> HIDE DEF n
    <3> QED BY <1>1, <3>1, <3>2, <3>3, StepOK
  <2>2. CASE ~ (r.depth < Len(r.path))
    <3>1. Step(c, Resolved(r))
      BY <1>6, <2>2 DEF Lookup
    <3>2. r.path \in LibraryPaths /\ r.ask.kind \in PathKinds
      <4>1. r.path \in Seq(Names) /\ r.depth = Len(r.path) /\ r.ask.kind \in PathKinds
        BY <1>1, <1>2, <2>2, LookupHolds
      <4>2. path = r.path
        BY <4>1, PrefixAll
      <4>3. Found(tree, path) # "absent"
        BY <1>6 DEF LookupStatus
      <4> QED BY <4>1, <4>2, <4>3 DEF Found
    <3>3. CASE Resolved(r) = Answer(r, 400)
      BY <1>4, <3>1, <3>3
    <3>4. CASE r.ask.kind = "file" /\ Resolved(r) = Calling(r, Enqueue(<<r.path>>))
      <4> DEFINE n == Calling(r, Enqueue(<<r.path>>))
      <4>1. ClientOK(n, s, tree) /\ Same(n, r) /\ Step(c, n)
        BY <1>1, <1>2, <3>1, <3>4, FileOK, CallingKeeps
      <4> HIDE DEF n
      <4> QED BY <1>1, <4>1, StepOK
    <3>5. CASE r.ask.kind # "file" /\ Resolved(r) = [r EXCEPT !.at = "read", !.todo = Items(<<r.path>>, TRUE)]
      <4> DEFINE n == [r EXCEPT !.at = "read", !.todo = Items(<<r.path>>, TRUE)]
      <4>1. r.ask.kind \in {"list", "directory"}
        BY <3>2, <3>5 DEF PathKinds
      <4>2. ClientOK(n, s, tree)
        BY <1>1, <1>2, <3>2, <4>1, ReadOK
      <4>3. Same(n, r)
        BY <1>2, ReadFields
      <4>4. Step(c, n)
        BY <3>1, <3>5
      <4> HIDE DEF n
      <4> QED BY <1>1, <4>2, <4>3, <4>4, StepOK
    <3> QED BY <3>3, <3>4, <3>5 DEF Resolved
  <2> QED BY <2>1, <2>2
<1> QED BY <1>3, <1>5, <1>6

(* What a listing shows.                                                   *)
LEMMA ListedIsOpened ==
    ASSUME NEW t, IsTree(t), NEW d \in LibraryPaths, Visible(d), t[d] = "dir", ~ Blocked(t, d)
    PROVE  \A path \in ToSet(DirectoriesIn(t, d) \o TracksIn(t, d)) : Opened(path, t)
<1> DEFINE ds == DirectoriesIn(t, d)
           ts == TracksIn(t, d)
<1>0. d \in Seq(Names) /\ Len(d) \in Nat
  BY VisibleNames
<1>1. /\ ds \in Seq(LibraryPaths)
      /\ \A i \in DOMAIN ds : Child(ds[i], d, Names, Directories, t)
  BY ChildrenAre DEF DirectoriesIn
<1>2. Audio \subseteq Names
  BY NamesAssumption
<1>3. /\ ts \in Seq(LibraryPaths)
      /\ \A i \in DOMAIN ts : Child(ts[i], d, Audio, {"file"}, t)
  BY <1>2, ChildrenAre DEF TracksIn
<1> HIDE DEF ds, ts
<1>4. ToSet(ds \o ts) = ToSet(ds) \cup ToSet(ts)
  BY <1>1, <1>3, ToSetConcat
<1>5. ASSUME NEW k \in 0..Len(d) PROVE t[Prefix(d, k)] = "dir"
  <2>1. CASE k = Len(d)
    BY <2>1, <1>0, PrefixAll
  <2>2. CASE k # Len(d)
    <3>1. k \in 0..(Len(d) - 1)
      BY <2>2, <1>0
    <3>2. t[Prefix(d, k)] \in Directories
      BY <3>1 DEF IsTree
    <3>3. t[Prefix(d, k)] # "closed"
      BY <3>1 DEF Blocked
    <3> QED BY <3>2, <3>3 DEF Directories
  <2> QED BY <2>1, <2>2
<1>6. ASSUME NEW p, NEW n \in Names \ Hidden, p = Append(d, n), p \in LibraryPaths,
             t[p] \in Directories \/ (t[p] = "file" /\ n \in Audio)
      PROVE  Opened(p, t)
  <2>1. /\ Len(p) = Len(d) + 1 /\ p # <<>> /\ Last(p) = n
        /\ \A k \in 0..Len(d) : Prefix(p, k) = Prefix(d, k)
    BY <1>0, <1>6, ChildIs
  <2>2. \A k \in 0..(Len(p) - 1) : t[Prefix(p, k)] = "dir"
    <3>1. \A k \in 0..(Len(p) - 1) : k \in 0..Len(d)
      BY <1>0, <2>1
    <3> QED BY <3>1, <2>1, <1>5
  <2>3. Visible(p)
    BY <1>6, VisibleChild
  <2> QED BY <1>6, <2>1, <2>2, <2>3 DEF Opened
<1>7. \A p \in ToSet(ds) : Opened(p, t)
  BY <1>1, <1>6 DEF ToSet, Child
<1>8. \A p \in ToSet(ts) : Opened(p, t)
  BY <1>2, <1>3, <1>6 DEF ToSet, Child
<1> QED BY <1>4, <1>7, <1>8 DEF ds, ts

(* The answer to a listing.                                                *)
LEMMA ListedKeeps ==
    ASSUME NEW r, DOMAIN r = Fields, NEW found
    PROVE  LET n == [Answer(r, 200) EXCEPT !.found = found, !.todo = <<>>] IN
           /\ Same(n, r) /\ n.at = "answered" /\ n.status = 200 /\ n.found = found
           /\ n.path = r.path /\ n.depth = r.depth
<1> DEFINE a == Answer(r, 200)
<1>1. /\ Same(a, r) /\ a.at = "answered" /\ a.status = 200 /\ a.path = r.path /\ a.depth = r.depth
  BY AnswerKeeps
<1> HIDE DEF a
<1> DEFINE n == [a EXCEPT !.found = found, !.todo = <<>>]
<1>2. /\ Same(n, a) /\ n.at = a.at /\ n.status = a.status /\ n.found = found /\ n.path = a.path /\ n.depth = a.depth
  BY <1>1 DEF Same, Fields
<1> HIDE DEF n
<1>3. Same(n, r)
  BY <1>1, <1>2 DEF Same
<1> QED BY <1>1, <1>2, <1>3 DEF n, a

(* A directory is listed (list_directory).                                 *)
LEMMA ListDirectoryOK ==
    ASSUME IInv, JInv, NEW c \in Clients, ListDirectory(c), UNCHANGED <<exit, meant>> PROVE JInv'
<1> DEFINE r     == request[c]
           found == DirectoriesIn(tree, r.path) \o TracksIn(tree, r.path)
           n     == [Answer(r, 200) EXCEPT !.found = found, !.todo = <<>>]
<1>1. /\ r.at = "read" /\ r.at \in Busy /\ Readable(tree, r.path) /\ Step(c, n)
      /\ seen' = [seen EXCEPT ![c].fresh = TRUE]
  BY DEF ListDirectory, Busy
<1>2. DOMAIN r = Fields /\ r.id \in 1..asks /\ GoesOn(r, seen[c])
  BY <1>1, BusyNumbered, JClient DEF ClientOK
<1>3. Asked(r) /\ r.path \in LibraryPaths /\ r.path \in Seq(Names) /\ r.depth \in 0..Len(r.path)
  BY <1>1, <1>2 DEF GoesOn
<1>4. IsTree(tree) /\ tree[r.path] = "dir" /\ ~ Blocked(tree, r.path) /\ Visible(r.path)
  <2>1. IsTree(tree)
    BY DEF JInv, TreeOK
  <2> HIDE DEF r
  <2> QED BY <1>1, <1>3, <2>1 DEF Readable, Asked
<1>5. \A path \in ToSet(found) : Opened(path, tree)
  BY <1>3, <1>4, ListedIsOpened
<1> HIDE DEF found
<1>6. /\ Same(n, r) /\ n.at = "answered" /\ n.status = 200 /\ n.found = found
      /\ n.path = r.path /\ n.depth = r.depth
  <2>1. DOMAIN r = Fields
    BY <1>2
  <2> HIDE DEF r
  <2> QED BY <2>1, ListedKeeps, ZenonT(40)
<1> HIDE DEF n
<1>7. seen' \in [Clients -> Seen] /\ (\A d \in Clients : d # c => seen'[d] = seen[d])
  BY <1>1 DEF JInv, Seen
<1>8. GoesOn(n, seen'[c])
  BY <1>3, <1>6 DEF GoesOn, Statuses
<1>9. Holds(n, seen'[c], tree) /\ Listed(n, seen'[c], tree)
  BY <1>5, <1>6 DEF Holds, Listed
<1>10. request' = [request EXCEPT ![c] = n] /\ UNCHANGED <<tree, changes, asks, orphans, exit, meant, effects>>
  BY <1>1 DEF Step
<1>11. ClientOK(n, seen'[c], tree) /\ Same(n, r)
  BY <1>6, <1>8, <1>9 DEF ClientOK
<1>12. \A e \in effects' : e \in effects \/ (meant[e.by] # NONE => Means(meant[e.by], e.call))
  BY <1>10
<1>13. r.id \in 1..asks
  BY <1>2
<1> QED BY <1>7, <1>10, <1>11, <1>12, <1>13, ClientMoves

(* A directory of the walk is read (collect_audio_files_depth_first).      *)
LEMMA WalkDirectoryOK ==
    ASSUME IInv, JInv, NEW c \in Clients, WalkDirectory(c), UNCHANGED <<exit, meant>> PROVE JInv'
<1> DEFINE r == request[c]
           s == seen[c]
           d == Head(r.todo).path
           w == Walked(r, Shown(tree, d))
<1>1. /\ r.at = "read" /\ r.at \in Busy /\ r.ask.kind = "directory" /\ tree[d] = "dir"
      /\ Step(c, WalkedOn(w)) /\ UNCHANGED seen
  BY DEF WalkDirectory, Busy, Readable, Shown
<1>2. DOMAIN r = Fields /\ ClientOK(r, s, tree) /\ GoesOn(r, s)
  BY <1>1, BusyNumbered, JClient DEF ClientOK
<1>3. /\ Walks(r, s) /\ r.todo # <<>> /\ Head(r.todo).dir /\ Asked(r) /\ r.path \in LibraryPaths
      /\ r.path \in Seq(Names) /\ r.depth \in 0..Len(r.path) /\ ~ s.fresh
  BY <1>1, <1>2, BusyNotFresh DEF GoesOn
<1>4. s.always \subseteq TracksUnder(tree, r.path) /\ TracksUnder(tree, r.path) \subseteq s.ever
  BY <1>1, <1>2 DEF ClientOK, Holds
<1>5. /\ Still(w, r) /\ w.path = r.path /\ w.depth = r.depth
      /\ Walks(w, s) /\ (w.todo # <<>> => Head(w.todo).dir)
  BY <1>1, <1>2, <1>3, <1>4, WalkGoesOn DEF JInv, TreeOK, Asked
<1> HIDE DEF w
<1>6. DOMAIN w = Fields /\ w.at = "read" /\ w.ask = r.ask /\ Same(w, r)
  BY <1>1, <1>5 DEF Still, Same
<1>7. CASE w.todo # <<>>
  <2>1. WalkedOn(w) = w
    BY <1>7 DEF WalkedOn
  <2>2. GoesOn(w, s)
    BY <1>1, <1>3, <1>5, <1>6, <1>7 DEF GoesOn, Asked
  <2>3. ClientOK(w, s, tree)
    BY <1>3, <1>4, <1>5, <2>2 DEF ClientOK, Holds, Listed
  <2> QED BY <1>1, <1>6, <2>1, <2>3, StepOK
<1>8. CASE w.todo = <<>> /\ w.found = <<>>
  <2> DEFINE a == Answer(w, 400)
  <2>1. WalkedOn(w) = a
    BY <1>8 DEF WalkedOn
  <2>2. Same(a, w) /\ a.at = "answered" /\ a.status = 400 /\ a.path = w.path /\ a.depth = w.depth
    BY <1>6, AnswerKeeps
  <2> HIDE DEF a
  <2>3. GoesOn(a, s)
    BY <1>3, <1>5, <2>2 DEF GoesOn, Statuses
  <2>4. ClientOK(a, s, tree)
    BY <1>3, <2>2, <2>3 DEF ClientOK, Holds, Listed
  <2>5. Same(a, r)
    BY <1>6, <2>2 DEF Same
  <2> QED BY <1>1, <2>1, <2>4, <2>5, StepOK
<1>9. CASE w.todo = <<>> /\ w.found # <<>>
  <2> DEFINE a == Calling(w, Enqueue(w.found))
  <2>1. WalkedOn(w) = a
    BY <1>9 DEF WalkedOn
  <2>2. Same(a, w) /\ a.at = "calling" /\ a.call = Enqueue(w.found) /\ a.path = w.path /\ a.depth = w.depth
    BY <1>6, CallingKeeps
  <2> HIDE DEF a
  <2>3. Queues(w, w.found, s) /\ w.found \in Seq(LibraryPaths)
    BY <1>5 DEF Walks, Queues
  <2>4. w.found \in Seq(Seq(Names))
    BY <2>3, PathsAreNames, SeqMonotonic
  <2>5. /\ a.call # NONE /\ a.call = Enqueue(a.call.tracks) /\ a.call.tracks = w.found
    BY <2>2, <2>4, EnqueueIs
  <2>6. s.always \subseteq ToSet(w.found)
    <3>1. ToSet(w.todo) = {}
      BY <1>9 DEF ToSet
    <3> QED BY <3>1, <1>5 DEF Walks
  <2>7. Queues(a, a.call.tracks, s)
    BY <2>2, <2>3, <2>5 DEF Queues
  <2>8. Asked(a) /\ a.ask.kind = "directory"
    BY <1>1, <1>3, <1>5, <1>6, <2>2 DEF Asked, Same
  <2>9. Called(a, s)
    BY <2>5, <2>6, <2>7, <2>8 DEF Called
  <2>10. GoesOn(a, s)
    BY <1>3, <1>5, <2>2, <2>5, <2>9 DEF GoesOn
  <2>11. Holds(a, s, tree) /\ Listed(a, s, tree)
    BY <1>3, <1>4, <1>5, <2>2 DEF Holds, Listed
  <2>12. Same(a, r)
    BY <1>6, <2>2 DEF Same
  <2> QED BY <1>1, <2>1, <2>10, <2>11, <2>12, StepOK DEF ClientOK
<1> QED BY <1>7, <1>8, <1>9

-----------------------------------------------------------------------------
(* The body mba-cli sends *)

LEMMA SentRaw ==
    ASSUME NEW cmd \in CommandLines, Sent(cmd) # Missing, Sent(cmd).kind \in PathKinds
    PROVE  Sent(cmd).raw \in Seq(Parts)
<1>1. CASE cmd.verb = "list"
  <2>1. Sent(cmd) = [kind |-> "list", raw |-> cmd.raw]
    BY <1>1 DEF Sent
  <2> QED BY <1>1, <2>1, AsksAssumption
<1>2. CASE cmd.verb = "enqueue"
  <2>1. Sent(cmd) = [kind |-> "file", raw |-> cmd.raw]
    BY <1>2 DEF Sent, PathBody
  <2> QED BY <1>2, <2>1, AsksAssumption
<1>3. CASE cmd.verb = "enqueue-dir"
  <2>1. Sent(cmd) = [kind |-> "directory", raw |-> cmd.raw]
    BY <1>3 DEF Sent, PathBody
  <2> QED BY <1>3, <2>1, AsksAssumption
<1>4. CASE cmd.verb \notin {"list", "enqueue", "enqueue-dir"}
  BY <1>4 DEF Sent, TargetBody, MoveBody, Edit, PathKinds
<1> QED BY <1>1, <1>2, <1>3, <1>4

(* The destination is last among the positions.                            *)
LEMMA OneMore ==
    ASSUME NEW p \in Seq(Nat), NEW x \in Nat, NEW g, g = p \o <<x>>
    PROVE  /\ g \in Seq(Nat) /\ Len(g) = Len(p) + 1 /\ g[Len(p) + 1] = x
           /\ (\A i \in 1..Len(p) : g[i] = p[i]) /\ (Len(g) = 2 => Len(p) = 1)
<1>1. PICK q : q = <<x>>
  OBVIOUS
<1>2. q \in Seq(Nat) /\ Len(q) = 1 /\ q[1] = x /\ g = p \o q
  BY <1>1
<1>3. /\ p \o q \in Seq(Nat) /\ Len(p \o q) = Len(p) + Len(q)
      /\ \A i \in 1..Len(p) : (p \o q)[i] = p[i]
      /\ \A i \in 1..Len(q) : Len(p) + i \in 1..Len(p \o q) /\ (p \o q)[Len(p) + i] = q[i]
  BY <1>2, ConcatIs
<1>4. g[Len(p) + 1] = q[1]
  BY <1>2, <1>3
<1>5. Len(g) = Len(p) + 1
  BY <1>2, <1>3
<1>6. Len(p) \in Nat
  OBVIOUS
<1>7. Len(g) = 2 => Len(p) = 1
  BY <1>5, <1>6
<1> QED BY <1>2, <1>3, <1>4, <1>7

(* queue move: what is sent for the positions and the destination typed.   *)
LEMMA MoveIsMeant ==
    ASSUME NEW cmd \in CommandLines, cmd.verb = "queue-move", Sent(cmd) # Missing,
           Call(Sent(cmd)) # NONE
    PROVE  Means(cmd, Call(Sent(cmd)))
<1> DEFINE id    == cmd.id
           to    == cmd.to
           p     == cmd.positions
           given == p \o (IF to = NONE THEN <<>> ELSE <<to>>)
           body  == Edit("move", id, IF id = NONE THEN given[1] ELSE NONE, Last(given))
           call  == Call(body)
<1>1. p \in Seq(Nat) /\ to \in Nat \cup {NONE}
  BY AsksAssumption
<1>2. Sent(cmd) = MoveBody(id, to, p)
  BY DEF Sent
<1>3. Sent(cmd) = body /\ Len(given) = IF id = NONE THEN 2 ELSE 1
  BY <1>2 DEF MoveBody
<1>4. /\ (to = NONE => given = p) /\ (to # NONE => given = p \o <<to>>) /\ given \in Seq(Nat)
  <2>1. CASE to = NONE
    BY <1>1, <2>1, ConcatEmptySeq
  <2>2. CASE to # NONE
    <3>1. to \in Nat /\ given = p \o <<to>>
      BY <1>1, <2>2
    <3> QED BY <1>1, <2>2, <3>1, OneMore
  <2> QED BY <2>1, <2>2
<1> HIDE DEF given
<1>5. body.kind = "edit" /\ body.name = "move" /\ body.id = id /\ body.to = Last(given)
      /\ body.position = IF id = NONE THEN given[1] ELSE NONE
  BY DEF Edit
<1> HIDE DEF body
<1>6. call = EditCall(body)
  BY <1>5 DEF Call
<1>7. call.name = "move" /\ call.target = Target(id, body.position) /\ call.to = Last(given)
  BY <1>3, <1>5, <1>6 DEF EditCall
<1>8. Last(given) = IF to # NONE THEN to ELSE Last(p)
  <2>1. CASE to = NONE
    BY <1>4, <2>1
  <2>2. CASE to # NONE
    <3>1. to \in Nat /\ given = p \o <<to>>
      BY <1>1, <1>4, <2>2
    <3>2. Len(given) = Len(p) + 1 /\ given[Len(p) + 1] = to
      BY <1>1, <3>1, OneMore
    <3> QED BY <2>2, <3>2 DEF Last
  <2> QED BY <2>1, <2>2
<1>9. call.target = IF id # NONE THEN <<"id", id>> ELSE <<"position", Head(p)>>
  <2>1. CASE id # NONE
    BY <1>7, <2>1 DEF Target
  <2>2. CASE id = NONE
    <3>1. Len(given) = 2 /\ given[1] \in Nat
      <4>1. Len(given) = 2
        BY <1>3, <2>2
      <4>2. 1 \in 1..Len(given)
        BY <4>1
      <4>3. given[1] \in Nat
        BY <4>2, <1>4
      <4> QED BY <4>1, <4>3
    <3>2. given[1] # NONE
      BY <3>1, NoneAssumption
    <3>3. call.target = <<"position", given[1]>>
      BY <1>5, <1>7, <2>2, <3>2 DEF Target
    <3>4. given[1] = Head(p)
      <4>1. CASE to = NONE
        BY <1>1, <1>4, <3>1, <4>1
      <4>2. CASE to # NONE
        <5>1. to \in Nat /\ given = p \o <<to>>
          BY <1>1, <1>4, <4>2
        <5>2. (Len(given) = 2 => Len(p) = 1) /\ \A i \in 1..Len(p) : given[i] = p[i]
          BY <1>1, <5>1, OneMore
        <5>3. Len(p) = 1
          BY <3>1, <5>2
        <5> QED BY <1>1, <5>2, <5>3
      <4> QED BY <4>1, <4>2
    <3> QED BY <2>2, <3>3, <3>4
  <2> QED BY <2>1, <2>2
<1>10. Typed(cmd) = p
  BY DEF Typed
<1> QED BY <1>3, <1>7, <1>8, <1>9, <1>10 DEF Means

(* An item typed by its id or its position is the one meant.               *)
LEMMA TargetIsMeant ==
    ASSUME NEW cmd, cmd.verb \in {"queue-remove", "queue-next"}, Sent(cmd) # Missing,
           Call(Sent(cmd)) # NONE
    PROVE  Means(cmd, Call(Sent(cmd)))
<1> DEFINE name == IF cmd.verb = "queue-remove" THEN "remove" ELSE "play-next"
           body == Edit(name, cmd.id, cmd.position, NONE)
<1>1. Sent(cmd) = body /\ ~ (cmd.id = NONE /\ cmd.position = NONE)
  BY DEF Sent, TargetBody
<1>2. body.kind = "edit" /\ body.name = name /\ body.id = cmd.id /\ body.position = cmd.position
  BY DEF Edit
<1> HIDE DEF body
<1>3. Target(cmd.id, cmd.position) = IF cmd.id # NONE THEN <<"id", cmd.id>> ELSE <<"position", cmd.position>>
  BY <1>1 DEF Target
<1>4. Call(body) = EditCall(body)
  BY <1>2 DEF Call
<1>5. Call(body).name = name /\ Call(body).target = Target(cmd.id, cmd.position)
  BY <1>1, <1>2, <1>4 DEF EditCall
<1>6. Typed(cmd) = <<cmd.position>> /\ Head(<<cmd.position>>) = cmd.position
  BY DEF Typed
<1>7. CASE cmd.verb = "queue-remove"
  BY <1>1, <1>3, <1>5, <1>6, <1>7 DEF Means
<1>8. CASE cmd.verb = "queue-next"
  BY <1>1, <1>3, <1>5, <1>6, <1>8 DEF Means
<1> QED BY <1>7, <1>8

(* A call is what the command line behind its request means.               *)
LEMMA CalledMeans ==
    ASSUME NEW r, NEW s, Called(r, s), r.call # NONE,
           NEW cmd \in CommandLines, r.ask = Sent(cmd), r.ask # Missing
    PROVE  Means(cmd, r.call)
<1>1. CASE cmd.verb = "seek"
  <2>1. r.ask = [kind |-> "seek", seconds |-> cmd.seconds]
    BY <1>1 DEF Sent
  <2>2. r.ask.kind = "seek" /\ r.ask.seconds = cmd.seconds
    BY <2>1
  <2>3. r.call = SeekCall(cmd.seconds)
    BY <2>2 DEF Called, Call
  <2>4. r.call = [name |-> "seek", seconds |-> cmd.seconds]
    BY <2>3 DEF SeekCall
  <2> QED BY <1>1, <2>4 DEF Means
<1>2. CASE cmd.verb = "volume"
  <2>1. r.ask = [kind |-> "volume", level |-> cmd.level] /\ cmd.level \in 0..100
    BY <1>2 DEF Sent
  <2>2. r.ask.kind = "volume" /\ r.ask.level = cmd.level
    BY <2>1
  <2>3. r.call = VolumeCall(cmd.level)
    BY <2>2 DEF Called, Call
  <2>4. r.call = [name |-> "volume", level |-> cmd.level % 256] /\ cmd.level % 256 = cmd.level
    BY <2>1, <2>3 DEF VolumeCall
  <2> QED BY <1>2, <2>4 DEF Means
<1>3. CASE cmd.verb = "list"
  <2>1. r.ask = [kind |-> "list", raw |-> cmd.raw]
    BY <1>3 DEF Sent
  <2> QED BY <2>1 DEF Called
<1>4. CASE cmd.verb = "enqueue"
  <2>1. r.ask = [kind |-> "file", raw |-> cmd.raw]
    BY <1>4 DEF Sent, PathBody
  <2>2. r.ask.kind = "file" /\ r.ask.raw = cmd.raw
    BY <2>1
  <2>3. r.call = Enqueue(<<r.path>>) /\ r.path = Normalized(cmd.raw)
    BY <2>2 DEF Called, Asked
  <2>4. r.call.tracks = <<Normalized(cmd.raw)>>
    BY <2>3 DEF Enqueue
  <2> QED BY <1>4, <2>4 DEF Means
<1>5. CASE cmd.verb = "enqueue-dir"
  <2>1. r.ask = [kind |-> "directory", raw |-> cmd.raw]
    BY <1>5 DEF Sent, PathBody
  <2>2. r.ask.kind = "directory" /\ r.ask.raw = cmd.raw
    BY <2>1
  <2>3. Queues(r, r.call.tracks, s) /\ r.path = Normalized(cmd.raw)
    BY <2>2 DEF Called, Asked
  <2>4. \A i \in DOMAIN r.call.tracks : Below(r.call.tracks[i], Normalized(cmd.raw))
    BY <2>3 DEF Queues, ToSet
  <2> QED BY <1>5, <2>4 DEF Means
<1>6. CASE cmd.verb = "status"
  <2>1. r.ask = [kind |-> "status"]
    BY <1>6 DEF Sent
  <2> QED BY <2>1 DEF Called
<1>7. CASE cmd.verb \in {"queue-remove", "queue-next", "queue-move"}
  <2>1. r.ask.kind = "edit"
    <3>1. CASE cmd.verb = "queue-move"
      <4>1. r.ask = MoveBody(cmd.id, cmd.to, cmd.positions)
        BY <3>1 DEF Sent
      <4>2. r.ask = Missing \/ \E a, b : r.ask = Edit("move", cmd.id, a, b)
        BY <4>1, Zenon DEF MoveBody
      <4> QED BY <4>2 DEF Edit
    <3>2. CASE cmd.verb \in {"queue-remove", "queue-next"}
      BY <3>2 DEF Sent, TargetBody, Edit
    <3> QED BY <1>7, <3>1, <3>2
  <2>2. r.call = Call(Sent(cmd))
    BY <2>1 DEF Called
  <2> QED BY <1>7, <2>2, MoveIsMeant, TargetIsMeant
<1>8. CASE cmd.verb \notin {"seek", "volume", "list", "enqueue", "enqueue-dir", "status",
                            "queue-remove", "queue-next", "queue-move"}
  <2>1. r.ask = [kind |-> "plain", name |-> cmd.verb]
    BY <1>8 DEF Sent
  <2>2. r.ask.kind = "plain" /\ r.ask.name = cmd.verb
    BY <2>1
  <2>3. r.call = [name |-> cmd.verb]
    BY <2>2 DEF Called, Call
  <2>4. r.call.name = cmd.verb
    BY <2>3
  <2> QED BY <1>8, <2>4 DEF Means
<1> QED BY <1>1, <1>2, <1>3, <1>4, <1>5, <1>6, <1>7, <1>8

(* A call is what its command line stands for.                             *)
LEMMA CallMeant ==
    ASSUME IInv, JInv, NEW c \in Clients, request[c].at = "calling", meant[request[c].id] # NONE
    PROVE  Means(meant[request[c].id], request[c].call)
<1> DEFINE r   == request[c]
           cmd == meant[r.id]
<1>1. r.id # 0 /\ GoesOn(r, seen[c])
  BY JClient DEF IInv, RequestOK, ClientOK
<1>2. AskedBy(r, cmd)
  BY <1>1 DEF JInv, MeantOK
<1>3. Called(r, seen[c]) /\ r.call # NONE
  BY <1>1 DEF GoesOn
<1>4. cmd \in CommandLines /\ r.ask = Sent(cmd) /\ r.ask # Missing
  BY <1>2 DEF AskedBy
<1> QED BY <1>3, <1>4, CalledMeans

-----------------------------------------------------------------------------
(* The actor answers, or the client leaves *)

(* So is what the actor does for it.                                       *)
LEMMA EffectsMeant ==
    ASSUME NEW r, effects' \in {effects, effects \cup {Effect(r, TRUE)}} \cup Partially(r),
           meant[r.id] # NONE => Means(meant[r.id], r.call)
    PROVE  \A e \in effects' : e \in effects \/ (meant[e.by] # NONE => Means(meant[e.by], e.call))
<1>1. \A e \in effects' : e \in effects \/ \E whole \in BOOLEAN : e = Effect(r, whole)
  BY DEF Partially
<1>2. \A whole \in BOOLEAN : Effect(r, whole).by = r.id /\ Effect(r, whole).call = r.call
  BY DEF Effect
<1> QED BY <1>1, <1>2

(* The actor answers.                                                      *)
LEMMA ActorOK == ASSUME IInv, JInv, NEW c \in Clients, Actor(c), UNCHANGED <<exit, meant>> PROVE JInv'
<1> DEFINE r == request[c]
<1>1. ASSUME NEW status \in Statuses, NEW outcomes, ActorAnswers(c, status, outcomes),
             outcomes \subseteq {effects, effects \cup {Effect(r, TRUE)}} \cup Partially(r)
      PROVE  JInv'
  <2> DEFINE a == Answer(r, status)
  <2>1. /\ r.at = "calling" /\ effects' \in outcomes /\ request' = [request EXCEPT ![c] = a]
        /\ UNCHANGED <<tree, changes, asks, orphans, seen>>
    BY <1>1 DEF ActorAnswers
  <2>2. r.at \in Busy /\ r.id \in 1..asks /\ DOMAIN r = Fields /\ ClientOK(r, seen[c], tree)
    BY <2>1, BusyNumbered, JClient DEF Busy
  <2>3. GoesOn(r, seen[c]) /\ ~ seen[c].fresh
    BY <2>2, BusyNotFresh DEF ClientOK
  <2>4. ClientOK(a, seen[c], tree)
    BY <2>2, <2>3, AnsweredOK
  <2>5. Same(a, r)
    BY <2>2, AnswerKeeps
  <2>6. \A e \in effects' : e \in effects \/ (meant[e.by] # NONE => Means(meant[e.by], e.call))
    <3>1. meant[r.id] # NONE => Means(meant[r.id], r.call)
      BY <2>1, CallMeant
    <3>2. effects' \in {effects, effects \cup {Effect(r, TRUE)}} \cup Partially(r)
      BY <1>1, <2>1
    <3> QED BY <3>1, <3>2, EffectsMeant
  <2> HIDE DEF a
  <2>7. /\ seen' \in [Clients -> Seen] /\ \A d \in Clients : d # c => seen'[d] = seen[d]
        /\ ClientOK(a, seen'[c], tree) /\ UNCHANGED <<tree, changes, asks, orphans, exit, meant>>
    BY <2>1, <2>4 DEF JInv
  <2> QED BY <2>1, <2>2, <2>5, <2>6, <2>7, ClientMoves
<1>2. CASE Succeeds(c)
  <2> DEFINE status == IF r.ask.kind = "plain" /\ r.ask.name \in {"queue", "rescan"} THEN 200 ELSE 202
  <2>1. ActorAnswers(c, status, {effects \cup {Effect(r, TRUE)}}) /\ status \in Statuses
    BY <1>2 DEF Succeeds, Statuses
  <2> HIDE DEF status
  <2>2. {effects \cup {Effect(r, TRUE)}} \subseteq {effects, effects \cup {Effect(r, TRUE)}} \cup Partially(r)
    OBVIOUS
  <2> QED BY <1>1, <2>1, <2>2
<1>3. CASE IsUnavailable(c)
  <2>1. {effects} \subseteq {effects, effects \cup {Effect(r, TRUE)}} \cup Partially(r) /\ 503 \in Statuses
    BY DEF Statuses
  <2> QED BY <1>1, <1>3, <2>1 DEF IsUnavailable
<1>4. CASE CommandFails(c)
  <2>1. Partially(r) \subseteq {effects, effects \cup {Effect(r, TRUE)}} \cup Partially(r)
    OBVIOUS
  <2>2. 502 \in Statuses
    BY DEF Statuses
  <2>3. ActorAnswers(c, 502, Partially(r))
    BY <1>4 DEF CommandFails
  <2> QED BY <1>1, <2>1, <2>2, <2>3
<1> QED BY <1>2, <1>3, <1>4 DEF Actor

(* A client without a request.                                             *)
LEMMA NoRequestOK == ASSUME NEW s, NEW t PROVE ClientOK(NoRequest, s, t)
<1>1. NoRequest.at = "none" /\ NoRequest.path = <<>> /\ NoRequest.depth = 0 /\ Len(<<>>) = 0 /\ <<>> \in Seq(Names)
  BY DEF NoRequest
<1>2. GoesOn(NoRequest, s)
  BY <1>1 DEF GoesOn
<1> QED BY <1>1, <1>2 DEF ClientOK, Holds, Listed

(* A client has no request any more; the actor may still hold its call.    *)
LEMMA NoMoreOK ==
    ASSUME IInv, JInv, NEW c \in Clients, request' = [request EXCEPT ![c] = NoRequest],
           UNCHANGED <<tree, changes, asks, effects, seen, meant>>, exit' \in [Shells -> {NONE, 0, 1}],
           \A o \in orphans' : o \in orphans \/ (o = request[c] /\ o.at = "calling")
    PROVE  JInv'
<1>1. \A d \in Clients : request'[d] = IF d = c THEN NoRequest ELSE request[d]
  BY DEF IInv
<1>2. \A d \in Clients : ClientOK(request'[d], seen[d], tree)
  BY <1>1, JClient, NoRequestOK
<1>3. RequestsOK'
  BY <1>2 DEF RequestsOK, ClientOK
<1>4. NoRequest.id = 0
  BY DEF NoRequest
<1>5. ASSUME NEW d \in Clients, request'[d].id # 0
      PROVE  AskedBy(request'[d], meant[request'[d].id])
  <2>1. request'[d] = request[d]
    BY <1>1, <1>4, <1>5
  <2> QED BY <1>5, <2>1 DEF JInv, MeantOK
<1>6. \A o \in orphans' : o.at = "calling" /\ (meant[o.id] # NONE => Means(meant[o.id], o.call))
  BY CallMeant DEF JInv, MeantOK
<1>7. MeantOK'
  BY <1>5, <1>6 DEF JInv, MeantOK
<1> QED BY <1>3, <1>7 DEF JInv, TreeOK

(* A client leaves its call behind.                                        *)
LEMMA ClientLeavesOK ==
    ASSUME IInv, JInv, NEW c \in Clients, ClientLeaves(c), UNCHANGED <<exit, meant>> PROVE JInv'
<1>1. \A o \in orphans' : o \in orphans \/ (o = request[c] /\ o.at = "calling")
  BY DEF ClientLeaves
<1> QED BY <1>1, NoMoreOK DEF ClientLeaves, JInv

LEMMA Exit1OK == ASSUME IInv, JInv, NEW c \in Shells, Exit1(c) PROVE JInv'
<1>1. c \in Clients /\ exit' \in [Shells -> {NONE, 0, 1}]
  BY ShellsAssumption DEF Exit1, JInv
<1> QED BY <1>1, NoMoreOK DEF Exit1

LEMMA ExitOfOK == ASSUME IInv, JInv, NEW c \in Shells, Exit(c) PROVE JInv'
<1>1. UNCHANGED <<tree, changes, request, asks, orphans, effects, seen, meant>>
  BY DEF Exit, vars
<1>2. exit' \in [Shells -> {NONE, 0, 1}]
  BY DEF Exit, JInv
<1> QED BY <1>1, <1>2 DEF JInv, TreeOK, RequestsOK, MeantOK

(* A call left behind acts, or is dropped.                                 *)
LEMMA OrphanOK == ASSUME IInv, JInv, NEW r \in orphans, OrphanEnds(r), UNCHANGED <<exit, meant>> PROVE JInv'
<1>1. UNCHANGED <<tree, changes, request, asks, seen, exit, meant>> /\ orphans' \subseteq orphans
  BY DEF OrphanEnds
<1>2. effects' \in Partially(r)
  BY DEF OrphanEnds
<1>3. \A e \in effects' : e \in effects \/ (meant[e.by] # NONE => Means(meant[e.by], e.call))
  BY <1>2, EffectsMeant DEF JInv, MeantOK
<1>4. MeantOK'
  BY <1>1, <1>3 DEF JInv, MeantOK
<1> QED BY <1>1, <1>4 DEF JInv, TreeOK, RequestsOK

-----------------------------------------------------------------------------
(* A request begins *)

LEMMA LookupKeeps ==
    ASSUME NEW r, DOMAIN r = Fields, NEW path
    PROVE  LET n == [r EXCEPT !.at = "lookup", !.path = path] IN
           Same(n, r) /\ n.at = "lookup" /\ n.path = path /\ n.depth = r.depth /\ n.found = r.found
  BY DEF Same, Fields

LEMMA HelperKeeps ==
    ASSUME NEW r, DOMAIN r = Fields
    PROVE  LET n == [r EXCEPT !.at = "helper"] IN
           Same(n, r) /\ n.at = "helper" /\ n.path = r.path /\ n.depth = r.depth
  BY DEF Same, Fields

(* A request received goes to its handler.                                 *)
LEMMA HandleGoesOn ==
    ASSUME NEW r, DOMAIN r = Fields, r.path = <<>>, r.depth = 0, r.found = <<>>, NEW s,
           r.ask.kind \in PathKinds => r.ask.raw \in Seq(Parts)
    PROVE  GoesOn(Handle(r), s) /\ Handle(r).ask = r.ask /\ Handle(r).id = r.id
<1>0. Len(<<>>) = 0 /\ <<>> \in Seq(Names) /\ 0 \in 0..0
  OBVIOUS
<1>1. CASE Handle(r) = Answer(r, 400)
  <2> DEFINE a == Answer(r, 400)
  <2>1. Same(a, r) /\ a.at = "answered" /\ a.status = 400 /\ a.path = r.path /\ a.depth = r.depth
    BY AnswerKeeps
  <2> HIDE DEF a
  <2>2. GoesOn(a, s)
    BY <1>0, <2>1 DEF GoesOn, Statuses
  <2> QED BY <1>1, <2>1, <2>2 DEF Same, a
<1>2. CASE /\ Handle(r) = Calling(r, Call(r.ask)) /\ Call(r.ask) # NONE
           /\ r.ask.kind \notin PathKinds \cup {"status"}
  <2> DEFINE a == Calling(r, Call(r.ask))
  <2>1. Same(a, r) /\ a.at = "calling" /\ a.call = Call(r.ask) /\ a.path = r.path /\ a.depth = r.depth
    BY CallingKeeps
  <2> HIDE DEF a
  <2>2. a.ask = r.ask /\ Called(a, s)
    BY <1>2, <2>1 DEF Called, Same, PathKinds
  <2>3. GoesOn(a, s)
    BY <1>0, <1>2, <2>1, <2>2 DEF GoesOn
  <2> QED BY <1>2, <2>1, <2>3 DEF Same, a
<1>3. CASE Handle(r) = [r EXCEPT !.at = "helper"]
  <2> DEFINE a == [r EXCEPT !.at = "helper"]
  <2>1. Same(a, r) /\ a.at = "helper" /\ a.path = r.path /\ a.depth = r.depth
    BY HelperKeeps
  <2> HIDE DEF a
  <2>2. GoesOn(a, s)
    BY <1>0, <2>1 DEF GoesOn
  <2> QED BY <1>3, <2>1, <2>2 DEF Same, a
<1>4. CASE /\ r.ask.kind \in PathKinds /\ ~ Refused(r.ask.raw)
           /\ Handle(r) = [r EXCEPT !.at = "lookup", !.path = Normalized(r.ask.raw)]
  <2> DEFINE path == Normalized(r.ask.raw)
             a == [r EXCEPT !.at = "lookup", !.path = path]
  <2>1. Visible(path)
    <3>1. r.ask.raw \in Seq(Parts) /\ ~ Refused(r.ask.raw)
      BY <1>4
    <3> QED BY <3>1, NormalizedIs
  <2> HIDE DEF path
  <2>2. Same(a, r) /\ a.at = "lookup" /\ a.path = path /\ a.depth = r.depth /\ a.found = r.found
    BY LookupKeeps
  <2> HIDE DEF a
  <2>3. Asked(a) /\ a.ask = r.ask
    BY <1>4, <2>1, <2>2 DEF Asked, Same, path
  <2>4. a.path \in Seq(Names) /\ a.depth \in 0..Len(a.path)
    <3>1. path \in Seq(Names)
      BY <2>1, VisibleNames
    <3>2. Len(path) \in Nat
      BY <3>1
    <3> QED BY <2>2, <3>1, <3>2
  <2>5. GoesOn(a, s)
    BY <1>4, <2>2, <2>3, <2>4 DEF GoesOn
  <2> QED BY <1>4, <2>2, <2>5 DEF Same, a, path
<1>5. ResolvePath(r) = Answer(r, 400) \/
      (~ Refused(r.ask.raw) /\ ResolvePath(r) = [r EXCEPT !.at = "lookup", !.path = Normalized(r.ask.raw)])
  BY Zenon DEF ResolvePath
<1>6. CASE r.ask.kind \in PathKinds
  <2>1. Handle(r) = ResolvePath(r)
    BY <1>6 DEF Handle, PathKinds
  <2> QED BY <2>1, <1>1, <1>4, <1>5, <1>6
<1>7. CASE r.ask.kind = "status"
  BY <1>3, <1>7 DEF Handle, PathKinds
<1>8. CASE r.ask.kind \notin PathKinds \cup {"status"}
  BY <1>1, <1>2, <1>8 DEF Handle
<1> QED BY <1>6, <1>7, <1>8

LEMMA NewRequestIs ==
    ASSUME NEW n, NEW ask
    PROVE  LET r == [NoRequest EXCEPT !.id = n, !.ask = ask] IN
           /\ DOMAIN r = Fields /\ r.id = n /\ r.ask = ask
           /\ r.path = <<>> /\ r.depth = 0 /\ r.found = <<>>
  BY DEF NoRequest, Fields

LEMMA UnderIsLibrary == ASSUME NEW t, NEW path PROVE TracksUnder(t, path) \subseteq LibraryPaths
  BY DEF TracksUnder

LEMMA ReceiveClient ==
    ASSUME IInv, JInv, NEW c \in Clients, NEW ask, Receive(c, ask),
           ask.kind \in PathKinds => ask.raw \in Seq(Parts)
    PROVE  /\ request'[c].ask = ask /\ request'[c].id = asks'
           /\ seen' \in [Clients -> Seen] /\ \A d \in Clients : d # c => seen'[d] = seen[d]
           /\ ClientOK(request'[c], seen'[c], tree)
<1> DEFINE s     == [NoRequest EXCEPT !.id = asks', !.ask = ask]
           r     == Handle(s)
           under == IF ask.kind = "directory" THEN TracksUnder(tree, r.path) ELSE {}
           now   == [always |-> under, ever |-> under, fresh |-> FALSE]
<1>1. request' = [request EXCEPT ![c] = r] /\ seen' = [seen EXCEPT ![c] = now]
  BY DEF Receive
<1>2. /\ DOMAIN s = Fields /\ s.id = asks' /\ s.ask = ask
      /\ s.path = <<>> /\ s.depth = 0 /\ s.found = <<>>
  BY NewRequestIs
<1> HIDE DEF s
<1>3. r.ask = ask /\ r.id = asks' /\ \A x : GoesOn(r, x)
  <2> SUFFICES ASSUME NEW x PROVE GoesOn(r, x) /\ r.ask = ask /\ r.id = asks'
    OBVIOUS
  <2> QED BY <1>2, HandleGoesOn
<1> HIDE DEF r
<1>4. under \subseteq LibraryPaths /\ (ask.kind = "directory" => under = TracksUnder(tree, r.path))
  BY UnderIsLibrary
<1> HIDE DEF under
<1>5. now \in Seen /\ now.always = under /\ now.ever = under /\ ~ now.fresh
  BY <1>4 DEF Seen
<1> HIDE DEF now
<1>6. request'[c] = r
  BY <1>1 DEF IInv
<1>7. seen' \in [Clients -> Seen] /\ seen'[c] = now /\ \A d \in Clients : d # c => seen'[d] = seen[d]
  BY <1>1, <1>5 DEF JInv
<1>8. ClientOK(r, now, tree)
  BY <1>3, <1>4, <1>5 DEF ClientOK, Holds, Listed
<1> QED BY <1>3, <1>6, <1>7, <1>8

(* A request comes in.                                                     *)
LEMMA ReceiveOK ==
    ASSUME IInv, JInv, NEW c \in Clients, NEW ask, Receive(c, ask),
           ask.kind \in PathKinds => ask.raw \in Seq(Parts),
           exit' \in [Shells -> {NONE, 0, 1}],
           \/ UNCHANGED meant
           \/ \E cmd \in CommandLines :
                 ask = Sent(cmd) /\ ask # Missing /\ meant' = [meant EXCEPT ![asks'] = cmd]
    PROVE  JInv'
<1>1. /\ asks \in 0..MaxAsks /\ asks < MaxAsks /\ asks' = asks + 1
      /\ UNCHANGED <<tree, changes, orphans, effects>>
      /\ \A d \in Clients : d # c => request'[d] = request[d]
  <2>1. asks < MaxAsks /\ asks' = asks + 1 /\ UNCHANGED <<tree, changes, orphans, effects>>
    BY DEF Receive, IsFree
  <2>2. \A d \in Clients : d # c => request'[d] = request[d]
    BY DEF Receive, IInv
  <2> QED BY <2>1, <2>2 DEF JInv
<1>2. /\ asks' \in 0..MaxAsks /\ asks' \in 1..MaxAsks /\ asks < asks'
      /\ \A id \in 1..asks : id # asks' /\ id \in 1..MaxAsks
  BY <1>1, ApiBoundsAssumption
<1>3. /\ request'[c].ask = ask /\ request'[c].id = asks'
      /\ seen' \in [Clients -> Seen] /\ \A d \in Clients : d # c => seen'[d] = seen[d]
      /\ ClientOK(request'[c], seen'[c], tree)
  BY ReceiveClient
<1>4. \A d \in Clients : ClientOK(request'[d], seen'[d], tree)
  BY <1>1, <1>3, JClient
<1>5. RequestsOK'
  BY <1>1, <1>4 DEF RequestsOK, ClientOK
<1>6. /\ meant' = [id \in 1..MaxAsks |-> meant'[id]]
      /\ \A id \in 1..MaxAsks : id # asks' => meant'[id] = meant[id]
      /\ meant'[asks'] # NONE => \E cmd \in CommandLines : meant'[asks'] = cmd /\ ask = Sent(cmd) /\ ask # Missing
  <2>1. meant = [id \in 1..MaxAsks |-> meant[id]] /\ meant[asks'] = NONE
    BY <1>2 DEF JInv, MeantOK
  <2>2. CASE UNCHANGED meant
    BY <2>1, <2>2
  <2>3. CASE \E cmd \in CommandLines :
                 ask = Sent(cmd) /\ ask # Missing /\ meant' = [meant EXCEPT ![asks'] = cmd]
    BY <2>1, <2>3, <1>2
  <2> QED BY <2>2, <2>3
<1>7. AskedBy(request'[c], meant'[asks'])
  BY <1>3, <1>6 DEF AskedBy
<1>8. \A d \in Clients : request'[d].id # 0 => AskedBy(request'[d], meant'[request'[d].id])
  <2> SUFFICES ASSUME NEW d \in Clients, d # c, request'[d].id # 0
               PROVE  AskedBy(request'[d], meant'[request'[d].id])
    BY <1>3, <1>7
  <2>1. request'[d] = request[d]
    BY <1>1
  <2>2. request[d].id \in 1..asks
    BY <2>1 DEF IInv, RequestOK
  <2>3. meant'[request[d].id] = meant[request[d].id]
    BY <2>2, <1>2, <1>6
  <2> QED BY <2>1, <2>3 DEF JInv, MeantOK
<1>9. \A o \in orphans : meant'[o.id] = meant[o.id]
  BY <1>2, <1>6 DEF IInv, NumbersDiffer
<1>10. \A e \in effects : meant'[e.by] = meant[e.by]
  BY <1>2, <1>6 DEF IInv, NumbersDiffer
<1>11. \A id \in 1..MaxAsks : asks' < id => meant'[id] = NONE
  <2>1. \A id \in 1..MaxAsks : asks' < id => asks < id /\ id # asks'
    BY <1>1, <1>2
  <2> QED BY <2>1, <1>6 DEF JInv, MeantOK
<1>12. MeantOK'
  BY <1>1, <1>8, <1>9, <1>10, <1>11 DEF JInv, MeantOK
<1> QED BY <1>1, <1>2, <1>3, <1>5, <1>6, <1>12 DEF JInv, TreeOK

-----------------------------------------------------------------------------
(* The tree changes under the requests: less was there always, more ever.  *)

(* What was collected stays right as more tracks have ever been there.     *)
LEMMA QueuesKeep ==
    ASSUME NEW r, NEW tracks, NEW s, NEW u, Queues(r, tracks, s), s.ever \subseteq u.ever
    PROVE  Queues(r, tracks, u)
  BY DEF Queues

(* So does all that is known of a request, as fewer have always been       *)
(* there.                                                                  *)
LEMMA GoesOnKeeps ==
    ASSUME NEW r, NEW s, NEW u, GoesOn(r, s), u.always \subseteq s.always, s.ever \subseteq u.ever
    PROVE  GoesOn(r, u)
<1>1. Walks(r, s) => Walks(r, u)
  <2> SUFFICES ASSUME Walks(r, s) PROVE Walks(r, u)
    OBVIOUS
  <2>1. Queues(r, r.found, u)
    BY QueuesKeep DEF Walks
  <2> QED BY <2>1 DEF Walks
<1>2. Called(r, s) => Called(r, u)
  <2> SUFFICES ASSUME Called(r, s) PROVE Called(r, u)
    OBVIOUS
  <2>1. CASE r.ask.kind = "directory"
    <3>1. Queues(r, r.call.tracks, s)
      BY <2>1 DEF Called
    <3>2. Queues(r, r.call.tracks, u)
      BY <3>1, QueuesKeep
    <3> QED BY <2>1, <3>2 DEF Called
  <2>2. CASE r.ask.kind # "directory"
    BY <2>2 DEF Called
  <2> QED BY <2>1, <2>2
<1> QED BY <1>1, <1>2 DEF GoesOn

(* rsync changes the tree.                                                 *)
LEMMA TreeChangesOK ==
    ASSUME IInv, JInv, NEW path \in ChangingPaths, NEW kind \in {"dir", "closed", "file", "absent"},
           TreeChanges(path, kind), UNCHANGED <<exit, meant>>
    PROVE  JInv'
<1> DEFINE under(c) == IF request[c].at # "none" /\ request[c].ask.kind = "directory"
                       THEN TracksUnder(tree', request[c].path) ELSE {}
           now(c) == [always |-> seen[c].always \cap under(c), ever |-> seen[c].ever \cup under(c), fresh |-> FALSE]
<1>1. /\ changes < MaxChanges /\ changes' = changes + 1
      /\ seen' = [c \in Clients |-> now(c)]
      /\ UNCHANGED <<request, asks, orphans, effects>>
  BY DEF TreeChanges
<1>2. tree' \in Trees /\ IsTree(tree')
  BY TreeStays DEF JInv, TreeOK
<1>3. changes' \in 0..MaxChanges
  BY <1>1, ApiBoundsAssumption DEF JInv, TreeOK
<1>4. ASSUME NEW c \in Clients PROVE now(c) \in Seen /\ ClientOK(request[c], now(c), tree')
  <2> DEFINE r == request[c]
             s == seen[c]
             u == now(c)
  <2>1. under(c) \subseteq LibraryPaths
    BY UnderIsLibrary
  <2>2. r.at # "none" /\ r.ask.kind = "directory" => under(c) = TracksUnder(tree', r.path)
    OBVIOUS
  <2>3. s \in Seen
    BY DEF JInv
  <2>4. u.always = s.always \cap under(c) /\ u.ever = s.ever \cup under(c) /\ ~ u.fresh /\ u \in Seen
    BY <2>1, <2>3 DEF Seen
  <2> HIDE DEF u, now, under
  <2>5. GoesOn(r, s)
    BY JClient DEF ClientOK
  <2>6. GoesOn(r, u)
    BY <2>4, <2>5, GoesOnKeeps
  <2>7. Holds(r, u, tree') /\ Listed(r, u, tree')
    BY <2>2, <2>4 DEF Holds, Listed
  <2> QED BY <2>4, <2>6, <2>7 DEF ClientOK, u
<1> HIDE DEF now, under
<1>5. seen' \in [Clients -> Seen] /\ \A c \in Clients : ClientOK(request'[c], seen'[c], tree')
  BY <1>1, <1>4
<1>6. RequestsOK'
  BY <1>5 DEF RequestsOK, ClientOK
<1>7. MeantOK'
  BY <1>1 DEF JInv, MeantOK
<1> QED BY <1>1, <1>2, <1>3, <1>5, <1>6, <1>7 DEF JInv, TreeOK

-----------------------------------------------------------------------------

(* Nothing was asked, and the tree is a tree.                              *)
LEMMA InitJ == ASSUME CliInit PROVE JInv
<1>1. /\ tree \in InitialTrees /\ changes = 0 /\ asks = 0 /\ request = [c \in Clients |-> NoRequest]
      /\ orphans = {} /\ effects = {} /\ seen = [c \in Clients |-> Unseen]
      /\ exit = [c \in Shells |-> NONE] /\ meant = [id \in 1..MaxAsks |-> NONE]
  BY DEF CliInit, Init
<1>2. TreeOK /\ asks \in 0..MaxAsks
  BY <1>1, TreesAssumption, ApiBoundsAssumption DEF TreeOK
<1>3. Unseen \in Seen
  BY DEF Unseen, Seen
<1>4. RequestsOK
  BY <1>1, NoRequestOK DEF RequestsOK, ClientOK
<1>5. NoRequest.id = 0
  BY DEF NoRequest
<1>6. MeantOK
  BY <1>1, <1>5 DEF MeantOK
<1> QED BY <1>1, <1>2, <1>3, <1>4, <1>6 DEF JInv

(* Every step keeps the second invariant.                                  *)
LEMMA StepJ == ASSUME IInv, JInv, [CliNext]_cliVars PROVE JInv'
<1>1. ASSUME NEW c \in Shells, NEW cmd \in CommandLines, Run(c, cmd) PROVE JInv'
  <2> DEFINE ask == Sent(cmd)
  <2>1. /\ c \in Clients /\ Receive(c, ask) /\ ask # Missing
        /\ exit' = [exit EXCEPT ![c] = NONE] /\ meant' = [meant EXCEPT ![asks'] = cmd]
    BY <1>1, ShellsAssumption DEF Run
  <2>2. ask.kind \in PathKinds => ask.raw \in Seq(Parts)
    BY <2>1, SentRaw
  <2>3. exit' \in [Shells -> {NONE, 0, 1}]
    BY <2>1 DEF JInv
  <2>4. \E k \in CommandLines : ask = Sent(k) /\ ask # Missing /\ meant' = [meant EXCEPT ![asks'] = k]
    BY <2>1
  <2> HIDE DEF ask
  <2> QED BY <2>1, <2>2, <2>3, <2>4, ReceiveOK
<1>2. ASSUME NEW c \in Clients \ Shells, NEW ask \in Asks, Receive(c, ask), UNCHANGED <<exit, meant>> PROVE JInv'
  <2>1. ask.kind \in PathKinds => ask.raw \in Seq(Parts)
    BY AsksAssumption
  <2>2. exit' \in [Shells -> {NONE, 0, 1}] /\ c \in Clients
    BY <1>2 DEF JInv
  <2> QED BY <1>2, <2>1, <2>2, ReceiveOK
<1>3. ASSUME NEW c \in Clients, Handler(c) \/ Actor(c), UNCHANGED <<exit, meant>> PROVE JInv'
  BY <1>3, LookupOK, ListDirectoryOK, WalkDirectoryOK, ReadFailsOK, HelperOK, ActorOK DEF Handler
<1>4. CASE Environment /\ UNCHANGED <<exit, meant>>
  <2>1. ASSUME NEW c \in Clients, HelperEnds(c) PROVE JInv'
    BY <1>4, <2>1, HelperOK
  <2>2. ASSUME NEW r \in orphans, OrphanEnds(r) PROVE JInv'
    BY <1>4, <2>2, OrphanOK
  <2>3. ASSUME NEW path \in ChangingPaths, NEW kind \in {"dir", "closed", "file", "absent"}, TreeChanges(path, kind)
        PROVE  JInv'
    BY <1>4, <2>3, TreeChangesOK
  <2> QED BY <1>4, <2>1, <2>2, <2>3 DEF Environment
<1>5. CASE UNCHANGED cliVars
  BY <1>5 DEF cliVars, vars, JInv, TreeOK, RequestsOK, MeantOK
<1> QED BY <1>1, <1>2, <1>3, <1>4, <1>5, ClientLeavesOK, ExitOfOK, Exit1OK DEF CliNext, Serving

-----------------------------------------------------------------------------

(* What was queued is what the walk has collected.                         *)
LEMMA QueuedIs ==
    ASSUME JInv, NEW c \in Clients, Queued(c)
    PROVE  /\ Queues(request[c], Tracks(c), seen[c]) /\ Tracks(c) \in Seq(LibraryPaths)
           /\ seen[c].always \subseteq ToSet(Tracks(c))
<1>1. Called(request[c], seen[c]) /\ request[c].ask.kind = "directory"
  BY JClient DEF Queued, ClientOK, GoesOn
<1> QED BY <1>1 DEF Called, Queues, Tracks

(* The properties follow from the invariant.                               *)
LEMMA JInvOrders == ASSUME JInv PROVE TracksInOrder
<1> SUFFICES ASSUME NEW c \in Clients, Queued(c), NEW i \in DOMAIN Tracks(c), NEW j \in DOMAIN Tracks(c), i < j
             PROVE  Before(Tracks(c)[i], Tracks(c)[j])
  BY DEF TracksInOrder
<1> DEFINE p == Tracks(c)
           items == Items(p, FALSE)
<1>1. p \in Seq(LibraryPaths) /\ Ordered(items)
  BY QueuedIs DEF Queues
<1> HIDE DEF p
<1>2. /\ DOMAIN items = DOMAIN p
      /\ \A k \in DOMAIN p : items[k] = [path |-> p[k], dir |-> FALSE]
  BY DEF Items
<1>3. i \in DOMAIN p /\ j \in DOMAIN p
  BY DEF p
<1> HIDE DEF items
<1>4. Precedes(items[i], items[j])
  BY <1>1, <1>2, <1>3 DEF Ordered
<1>5. /\ items[i].path = p[i] /\ ~ items[i].dir /\ items[j].path = p[j] /\ ~ items[j].dir
  BY <1>2, <1>3
<1>6. Before(items[i].path, items[j].path)
  BY <1>4, <1>5, FilesPrecede
<1> QED BY <1>5, <1>6 DEF p

LEMMA JInvMissesNothing == ASSUME JInv PROVE NothingMissed
  BY QueuedIs DEF NothingMissed, Queues

(* A listed path passes the lookup of each of its components.              *)
LEMMA OpenedOpens ==
    ASSUME NEW path, Opened(path, tree), Trim(path) = path
    PROVE  Opens(path, Directories) \/ (Opens(path, {"file"}) /\ Last(path) \in Audio)
<1>1. ~ Refused(path) /\ Normalized(path) = path
  BY PlainIs DEF Opened
<1>2. path \in LibraryPaths /\ path \in Seq(Names) /\ Len(path) \in Nat
  BY PathsAreNames DEF Opened
<1>3. ASSUME NEW k \in 0..Len(path) PROVE LookupStatus(tree, Prefix(path, k)) = 200
  <2> DEFINE q == Prefix(path, k)
  <2>1. q \in LibraryPaths /\ q \in Seq(Names) /\ Len(q) = k
    BY <1>2, PathsAssumption, PrefixIs
  <2>2. \A m \in 0..(Len(q) - 1) : tree[Prefix(q, m)] = "dir"
    <3> SUFFICES ASSUME NEW m \in 0..(Len(q) - 1) PROVE tree[Prefix(q, m)] = "dir"
      OBVIOUS
    <3>1. m \in 0..k /\ m \in 0..(Len(path) - 1)
      BY <1>2, <2>1
    <3>2. Prefix(q, m) = Prefix(path, m)
      BY <1>2, <3>1, PrefixOfPrefix
    <3> QED BY <3>1, <3>2 DEF Opened
  <2>3. ~ Blocked(tree, q)
    BY <2>2 DEF Blocked
  <2>4. tree[q] \in {"dir", "closed", "file"}
    <3>1. CASE k = Len(path)
      BY <1>2, <3>1, PrefixAll DEF Opened, Directories
    <3>2. CASE k # Len(path)
      <4>1. k \in 0..(Len(path) - 1)
        BY <1>2, <3>2
      <4> QED BY <4>1 DEF Opened
    <3> QED BY <3>1, <3>2
  <2>5. Found(tree, q) = tree[q]
    BY <2>1 DEF Found
  <2> HIDE DEF q
  <2> QED BY <2>3, <2>4, <2>5 DEF LookupStatus, q
<1> QED BY <1>1, <1>3 DEF Opens, Opened

LEMMA JInvOpens == ASSUME JInv PROVE ListedCanBeOpened
<1> SUFFICES ASSUME NEW c \in Clients, seen[c].fresh, request[c].at = "answered",
                    NEW path \in ToSet(request[c].found), Trim(path) = path
             PROVE  Opens(path, Directories) \/ (Opens(path, {"file"}) /\ Last(path) \in Audio)
  BY DEF ListedCanBeOpened
<1>1. Opened(path, tree)
  BY JClient DEF ClientOK, Listed
<1> QED BY <1>1, OpenedOpens

LEMMA JInvMeans == ASSUME JInv PROVE EffectsAreMeant
  BY DEF JInv, MeantOK, EffectsAreMeant

LEMMA JInvTypes == ASSUME IInv, JInv PROVE TypeOK
<1>1. ASSUME NEW c \in Clients
      PROVE  LET r == request[c] IN
         /\ r.at \in Points /\ r.id \in 0..asks /\ r.depth <= Len(r.path)
         /\ (r.at = "calling") => r.call # NONE
         /\ (r.at = "read") => r.todo # <<>> /\ Head(r.todo).dir
         /\ (r.at = "answered") <=> r.status \in Statuses
  <2> DEFINE r == request[c]
  <2>1. RequestOK(r, asks) /\ GoesOn(r, seen[c])
    BY JClient DEF IInv, ClientOK
  <2>2. r.depth <= Len(r.path)
    <3>1. r.path \in Seq(Names) /\ r.depth \in 0..Len(r.path)
      BY <2>1 DEF GoesOn
    <3> QED BY <3>1
  <2>3. r.at \in Points /\ r.id \in 0..asks
    BY <2>1 DEF RequestOK, Busy, Points
  <2>4. (r.at = "answered") <=> r.status \in Statuses
    BY <2>1 DEF RequestOK, GoesOn, Statuses
  <2> QED BY <2>1, <2>2, <2>3, <2>4 DEF GoesOn
<1>2. \A r \in orphans : r.id \in 1..asks /\ r.at = "calling"
  BY DEF IInv, NumbersDiffer, JInv, MeantOK
<1>3. \A e \in effects : e.by \in 1..asks
  BY DEF IInv, NumbersDiffer
<1> QED BY <1>1, <1>2, <1>3 DEF TypeOK, JInv, TreeOK, Statuses

-----------------------------------------------------------------------------
(* The theorems *)

(* Both invariants hold of every behaviour.                                *)
THEOREM Invariant == CliSpec => [](IInv /\ JInv)
<1>1. CliInit => IInv /\ JInv
  BY InitInvariant, InitJ
<1>2. (IInv /\ JInv) /\ [CliNext]_cliVars => (IInv /\ JInv)'
  BY StepInvariant, StepJ
<1> QED BY <1>1, <1>2, PTL DEF CliSpec

(* Type correctness: an answer has one of the statuses of ApiError and of  *)
(* the handlers, and a request at the actor has a call.                    *)
THEOREM TypeCorrect == CliSpec => []TypeOK
<1>1. IInv /\ JInv => TypeOK
  BY JInvTypes
<1> QED BY <1>1, Invariant, PTL

(* A directory is queued depth first and in order, nothing twice, whatever *)
(* rsync does between the reads (collect_audio_files_depth_first).         *)
THEOREM QueuedInOrder == CliSpec => []TracksInOrder
<1>1. JInv => TracksInOrder
  BY JInvOrders
<1> QED BY <1>1, Invariant, PTL

(* What is queued is every track the directory held all the time, and only *)
(* tracks it held at some time (audio_files_for_directory).                *)
THEOREM NothingIsMissed == CliSpec => []NothingMissed
<1>1. JInv => NothingMissed
  BY JInvMissesNothing
<1> QED BY <1>1, Invariant, PTL

(* Unless the tree has changed, a path of a listing passes validation and  *)
(* lookup as what it was listed as, but for names that end in a blank, in  *)
(* trees whose top-level names do not begin with "file:" (list_directory,  *)
(* normalize_library_path, resolve_existing).                              *)
THEOREM ListedOpens == CliSpec => []ListedCanBeOpened
<1>1. JInv => ListedCanBeOpened
  BY JInvOpens
<1> QED BY <1>1, Invariant, PTL

(* What the actor carries out is what was typed (mba-cli's queue_move_body *)
(* and queue_target_body, the handlers of http.rs), also for a client that *)
(* has left.                                                               *)
THEOREM EffectsMean == CliSpec => []EffectsAreMeant
<1>1. JInv => EffectsAreMeant
  BY JInvMeans
<1> QED BY <1>1, Invariant, PTL
=============================================================================
