------------------------ MODULE MpdActorAnswersProofs ------------------------
(***************************************************************************)
(* Theorems about what the callers of MpdActor are told: for every set of  *)
(* calls and requests and every bound, the answer of a call agrees with    *)
(* what MPD carried out for it; and, while nobody else changes MPD, the    *)
(* actor implements MpdService, whose requests are single steps.           *)
(***************************************************************************)
EXTENDS MpdActorProofs, MpdActorAtomic, FiniteSetTheorems

(* What an enqueue has done: n paths added, and then playback started.     *)
Adds(s, n) == Len(s) = n /\ \A i \in 1..n : s[i] = "add"
AddsThenPlay(s, n) == Len(s) = n + 1 /\ s[n + 1] = "play" /\ \A i \in 1..n : s[i] = "add"
Count(s) == Cardinality({i \in DOMAIN s : s[i] = "add"})

(* The commands by which the handler of another request changes MPD.       *)
OwnCommands(req) == CASE req.kind = "toggle" -> {"play", "pause"}
                      [] req.kind = "move_after_current" -> {"move", "move_after_current"}
                      [] req.kind = "setvol" -> {"setvol"}
                      [] OTHER -> {req.cmd.name}

(* The properties proved, of one request, its result and its log.          *)
Bounded(req, s) ==
    s # <<>> => IF req.kind = "enqueue"
                THEN /\ Len(s) <= Len(req.paths) + 1 /\ Count(s) <= Len(req.paths)
                     /\ \A i \in DOMAIN s : s[i] = "add" \/ (i = Len(s) /\ i > 1)
                ELSE Len(s) = 1 /\ s[1] \in OwnCommands(req)
OkIsTrue(req, s) ==
    CASE req.kind = "enqueue" -> Count(s) = Len(req.paths)
      [] req.kind = "move_after_current" -> TRUE
      [] req.kind = "action" -> req.cmd.name \notin Queries => s # <<>>
      [] OTHER -> s # <<>>
Truthful(req, result, s) ==
    /\ result.kind \in {"Unavailable", "ChannelClosed"} => s = <<>>
    /\ result.kind = "Ok" => OkIsTrue(req, s)
    /\ result.kind = "Partial" => /\ result.added \in 1..(Len(req.paths) - 1)
                                  /\ Count(s) \in {result.added, result.added + 1}
    /\ result.kind = "Unreconciled" => Count(s) = result.added /\ result.added = Len(req.paths)

(* The strengthening: at each point of a handler, its request, its locals  *)
(* and the command in flight determine what MPD has carried out for it.    *)
Taken(f, total) == {n \in {f.added, f.added + 1} :
                      IF f.failed THEN f.added < total ELSE n = f.added /\ n = total}
InHand(point, w, f, req, s) ==
    /\ point = "action" =>
         /\ req.kind \in {"action", "setvol", "toggle", "move_after_current"}
         /\ w.cmd.name \in OwnCommands(req)
         /\ s = <<>> \/ (w.at \in {"ok", "err"} /\ s = <<w.cmd.name>>)
         /\ w.at = "ok" /\ w.cmd.name \notin Queries => s # <<>>
    /\ point \in {"toggle", "move_after_current", "enqueue_before"} =>
         /\ req.kind = IF point = "enqueue_before" THEN "enqueue" ELSE point
         /\ w.cmd.name = "status" /\ f = NoFrame /\ s = <<>>
    /\ point = "enqueue_add" =>
         /\ req.kind = "enqueue" /\ w.cmd.name = "add"
         /\ f.failed = FALSE /\ f.added < Len(req.paths)
         /\ w.at = "sent" => Adds(s, f.added)
         /\ w.at = "ok" => Adds(s, f.added + 1)
         /\ w.at = "err" => Adds(s, f.added) \/ Adds(s, f.added + 1)
    /\ point \in {"enqueue_after", "enqueue_play"} =>
         /\ req.kind = "enqueue" /\ f.added > 0
         /\ w.cmd.name = IF point = "enqueue_after" THEN "status" ELSE "play"
         /\ \E n \in Taken(f, Len(req.paths)) :
              \/ Adds(s, n) /\ (point = "enqueue_play" => w.at # "ok")
              \/ AddsThenPlay(s, n) /\ point = "enqueue_play" /\ w.at \in {"ok", "err"}

(* A call is not answered before it is done, and MPD does nothing for it   *)
(* before it is in hand.                                                   *)
Unanswered == \A c \in Calls : call[c].at # "done" => call[c].result = NoResult
Unstarted == \A c \in Calls : call[c].at \in {"new", "sending"} \/ Places(c) # {} => log[c] = <<>>
Accounts == \A c \in Calls : /\ Bounded(call[c].req, log[c])
                             /\ Truthful(call[c].req, call[c].result, log[c])
FrameIsReset == pc \notin HandlerPoints \cup {"publish_song"} => frame = NoFrame
HandAgrees == hand # NONE => InHand(pc, wire, frame, call[hand].req, log[hand])

History == Unanswered /\ Unstarted /\ Accounts /\ FrameIsReset /\ HandAgrees

-----------------------------------------------------------------------------
(* What an enqueue has done *)

(* The adds among the commands of an enqueue are counted.                  *)
LEMMA CountAdds ==
    ASSUME NEW n \in Nat, NEW s \in Seq(CommandNames), Adds(s, n) \/ AddsThenPlay(s, n)
    PROVE  Count(s) = n
<1>1. {i \in DOMAIN s : s[i] = "add"} = 1..n
  <2>1. DOMAIN s = 1..Len(s)
    OBVIOUS
  <2>2. CASE Adds(s, n)
    BY <2>1, <2>2 DEF Adds
  <2>3. CASE AddsThenPlay(s, n)
    <3>1. DOMAIN s = 1..(n + 1) /\ s[n + 1] # "add" /\ \A i \in 1..n : s[i] = "add"
      BY <2>1, <2>3 DEF AddsThenPlay
    <3> QED BY <3>1
  <2> QED BY <2>2, <2>3
<1>2. Cardinality(1..n) = n
  BY FS_Interval
<1> QED BY <1>1, <1>2 DEF Count

(* One more command carried out.                                           *)
LEMMA OneMore ==
    ASSUME NEW n \in Nat, NEW s \in Seq(CommandNames), Adds(s, n)
    PROVE  Adds(Append(s, "add"), n + 1) /\ AddsThenPlay(Append(s, "play"), n)
  BY DEF Adds, AddsThenPlay

(* The first add makes one.                                                *)
LEMMA NothingAdded == Adds(<<>>, 0) /\ Count(<<>>) = 0
<1>1. Adds(<<>>, 0)
  BY DEF Adds
<1>2. <<>> \in Seq(CommandNames)
  OBVIOUS
<1> QED BY <1>1, <1>2, CountAdds

(* What an enqueue has done is bounded by its paths.                       *)
LEMMA EnqueueIsBounded ==
    ASSUME NEW req, req.kind = "enqueue", Len(req.paths) \in Nat,
           NEW n \in Nat, n <= Len(req.paths), NEW s \in Seq(CommandNames),
           Adds(s, n) \/ (AddsThenPlay(s, n) /\ n > 0)
    PROVE  Bounded(req, s)
<1>1. Count(s) = n
  BY CountAdds
<1>2. Len(s) <= n + 1 /\ \A i \in DOMAIN s : s[i] = "add" \/ (i = Len(s) /\ i > 1)
  BY DEF Adds, AddsThenPlay
<1> QED BY <1>1, <1>2 DEF Bounded

(* So is what has been done of the request in hand.                        *)
LEMMA HandIsBounded ==
    ASSUME NEW point \in HandlerPoints, NEW w, NEW f \in FrameSet,
           NEW req \in RequestSet, NEW s \in Seq(CommandNames), InHand(point, w, f, req, s),
           w.at \in {"sent", "ok", "err"}
    PROVE  Bounded(req, s)
<1>1. f.added \in Nat
  BY DEF FrameSet
<1>2. CASE s = <<>>
  BY <1>2 DEF Bounded
<1>3. CASE s # <<>> /\ point = "action"
  <2>1. req.kind # "enqueue" /\ s = <<w.cmd.name>> /\ w.cmd.name \in OwnCommands(req)
    BY <1>3 DEF InHand
  <2> QED BY <2>1 DEF Bounded
<1>4. CASE s # <<>> /\ point # "action"
  <2>1. point \in {"enqueue_add", "enqueue_after", "enqueue_play"} /\ req.kind = "enqueue"
    BY <1>4 DEF InHand, HandlerPoints, AwaitPoints
  <2>2. Len(req.paths) \in Nat
    BY <2>1 DEF RequestSet
  <2>3. CASE point = "enqueue_add"
    <3>1. f.added < Len(req.paths) /\ (Adds(s, f.added) \/ Adds(s, f.added + 1))
      BY <2>3 DEF InHand
    <3> QED BY <1>1, <2>1, <2>2, <3>1, EnqueueIsBounded
  <2>4. CASE point \in {"enqueue_after", "enqueue_play"}
    <3>1. PICK n \in Taken(f, Len(req.paths)) : f.added > 0 /\ (Adds(s, n) \/ AddsThenPlay(s, n))
      BY <2>4 DEF InHand
    <3>2. n \in Nat /\ n > 0 /\ n <= Len(req.paths)
      BY <1>1, <2>2, <3>1 DEF Taken
    <3> QED BY <2>1, <2>2, <3>1, <3>2, EnqueueIsBounded
  <2> QED BY <2>1, <2>3, <2>4
<1> QED BY <1>2, <1>3, <1>4

-----------------------------------------------------------------------------
(* The pieces of the actor's steps *)

(* The request in hand was issued, has no answer yet and is nowhere else.  *)
LEMMA HandFacts ==
    ASSUME IInv, History, hand # NONE
    PROVE  /\ hand \in Calls /\ pc \in HandlerPoints /\ frame \in FrameSet
           /\ call[hand] \in CallSet /\ Request \in RequestSet
           /\ call[hand].at \in {"waiting", "abandoned"} /\ call[hand].result = NoResult
           /\ log[hand] \in Seq(CommandNames) /\ Places(hand) = {}
           /\ InHand(pc, wire, frame, Request, log[hand])
           /\ wire.at \in {"sent", "ok", "err"}
<1>1. hand \in Calls /\ pc \in HandlerPoints /\ frame \in FrameSet
  BY DEF IInv, TypeOK, ActorTypeOK
<1>2. call[hand] \in CallSet /\ log[hand] \in Seq(CommandNames)
  BY <1>1 DEF IInv, TypeOK, CallersTypeOK
<1>3. call[hand].at \notin {"new", "sending", "done"} /\ Places(hand) = {}
  BY <1>1 DEF IInv, CallsAreHeldOnce
<1>4. call[hand].at \in {"waiting", "abandoned"}
  BY <1>2, <1>3 DEF CallSet
<1>5. Request \in RequestSet
  BY <1>1, <1>4, RequestsAssumption DEF IInv, TypeOK, CallersTypeOK, Request
<1>6. wire.at \in {"sent", "ok", "err"}
  BY <1>1 DEF IInv, TypeOK, WireTypeOK, HandlerPoints
<1> QED BY <1>1, <1>2, <1>3, <1>4, <1>5, <1>6 DEF History, Unanswered, HandAgrees, Request

(* A handler goes on: the command it sends next fits what has been done.   *)
LEMMA GoesOn ==
    ASSUME IInv, History, hand # NONE, NEW point \in HandlerPoints, NEW cmd, Await(point, cmd),
           \A w : w.cmd = cmd /\ w.at \in {"sent", "err"}
                    => InHand(point, w, frame', Request, log[hand])
    PROVE  History'
<1>1. UNCHANGED <<call, log, inbox, hand>> /\ pc' = point
  BY DEF Await, callers
<1>2. wire'.at \in {"sent", "err"} /\ wire'.cmd = cmd
  BY SendType DEF Await
<1>3. HandAgrees'
  BY <1>1, <1>2 DEF HandAgrees, Request
<1>4. FrameIsReset'
  BY <1>1 DEF FrameIsReset
<1>5. Unanswered' /\ Unstarted' /\ Accounts'
  BY <1>1 DEF History, Unanswered, Unstarted, Places, Accounts
<1> QED BY <1>3, <1>4, <1>5 DEF History

(* An answer changes one call, and nothing but its result.                 *)
LEMMA AnsweredFields ==
    ASSUME NEW c \in CallSet, NEW result \in ResultSet
    PROVE  LET d == Answered(c, result) IN
           /\ d.req = c.req
           /\ d.at = IF c.at = "waiting" THEN "done" ELSE c.at
           /\ d.result = IF c.at = "waiting" THEN result ELSE c.result
  BY DEF Answered, CallSet

(* A handler replies: what it reports agrees with what has been done.      *)
LEMMA RepliesAgree ==
    ASSUME IInv, History, hand # NONE, NEW result \in ResultSet, Reply(result),
           Truthful(Request, result, log[hand])
    PROVE  History'
<1>1. /\ call \in [Calls -> CallSet] /\ hand \in Calls
      /\ call' = [call EXCEPT ![hand] = Answered(@, result)]
      /\ hand' = NONE /\ pc' = "select" /\ frame' = NoFrame /\ UNCHANGED <<log, inbox>>
  BY HandFacts DEF Reply, IInv, TypeOK, CallersTypeOK
<1>2. ASSUME NEW c \in Calls
      PROVE  /\ call'[c].req = call[c].req
             /\ call'[c].at = IF c = hand /\ call[c].at = "waiting" THEN "done" ELSE call[c].at
             /\ call'[c].result = IF c = hand /\ call[c].at = "waiting" THEN result
                                  ELSE call[c].result
  BY <1>1, AnsweredFields
<1>3. Unanswered'
  BY <1>2 DEF History, Unanswered
<1>4. Unstarted'
  BY <1>1, <1>2 DEF History, Unstarted, Places
<1>5. Accounts'
  BY <1>1, <1>2 DEF History, Accounts, Request
<1>6. FrameIsReset' /\ HandAgrees'
  BY <1>1 DEF FrameIsReset, HandAgrees
<1> QED BY <1>3, <1>4, <1>5, <1>6 DEF History

(* A call outside the actor's hand is answered without having acted.       *)
LEMMA AnsweredUnstarted ==
    ASSUME NEW req, NEW kind \in {"none", "Unavailable", "ChannelClosed"}
    PROVE  Truthful(req, Result(kind), <<>>)
  BY DEF Truthful, Result

(* Steps that leave the logs alone, and the call in hand if there is one.  *)
LEMMA OutsideHand ==
    ASSUME IInv, History, UNCHANGED <<log, hand>>,
           hand = NONE \/ UNCHANGED <<pc, wire, frame>>, FrameIsReset',
           \A c \in Calls :
              /\ \/ /\ call'[c].req = call[c].req /\ call'[c].result = call[c].result
                    /\ call[c].at = "done" => call'[c].at = "done"
                 \/ /\ c # hand /\ log[c] = <<>> /\ Truthful(call'[c].req, call'[c].result, <<>>)
                    /\ call'[c].at # "done" => call'[c].result = NoResult
              /\ call'[c].at \in {"new", "sending"} \/ Places(c)' # {} => log[c] = <<>>
    PROVE  History'
<1>1. Unanswered' /\ Unstarted'
  BY DEF History, Unanswered, Unstarted
<1>2. Accounts'
  <2>1. \A req : Bounded(req, <<>>)
    BY DEF Bounded
  <2> QED BY <2>1 DEF History, Accounts
<1>3. HandAgrees'
  <2>1. CASE hand = NONE
    BY <2>1 DEF HandAgrees
  <2>2. CASE hand # NONE
    <3>1. hand \in Calls /\ call'[hand].req = call[hand].req /\ UNCHANGED <<pc, wire, frame>>
      BY <2>2, HandFacts
    <3> QED BY <3>1 DEF History, HandAgrees
  <2> QED BY <2>1, <2>2
<1> QED BY <1>1, <1>2, <1>3 DEF History

(* The link breaks: a command in flight may or may not have been done.     *)
LEMMA BreakAgrees ==
    ASSUME NEW point, NEW w, NEW v, NEW f, NEW req, NEW s, InHand(point, w, f, req, s),
           w.at \in {"sent", "ok"}, v.at = "err", v.cmd = w.cmd
    PROVE  InHand(point, v, f, req, s)
  BY DEF InHand

(* MPD answers the command in flight, and has done it if it accepts.       *)
LEMMA AnswerAgrees ==
    ASSUME NEW point \in HandlerPoints, NEW w, NEW v, NEW f \in FrameSet, NEW req \in RequestSet,
           NEW s \in Seq(CommandNames), InHand(point, w, f, req, s), w.at = "sent",
           v.cmd = w.cmd, v.at \in {"ok", "err"}, NEW t,
           t = IF v.at = "ok" /\ w.cmd.name \notin Queries THEN Append(s, w.cmd.name) ELSE s
    PROVE  InHand(point, v, f, req, t)
<1>1. f.added \in Nat
  BY DEF FrameSet
<1>2. CASE point = "action"
  <2>1. s = <<>> /\ w.cmd.name \in OwnCommands(req)
        /\ req.kind \in {"action", "setvol", "toggle", "move_after_current"}
    BY <1>2 DEF InHand
  <2>2. t = <<>> \/ t = <<w.cmd.name>>
    BY <2>1
  <2>3. v.at = "ok" /\ v.cmd.name \notin Queries => t # <<>>
    BY <2>1
  <2> QED BY <1>2, <2>1, <2>2, <2>3 DEF InHand
<1>3. CASE point \in {"toggle", "move_after_current", "enqueue_before"}
  BY <1>3 DEF InHand, Queries
<1>4. CASE point = "enqueue_add"
  <2>1. Adds(s, f.added) /\ w.cmd.name = "add" /\ "add" \notin Queries
    BY <1>4 DEF InHand, Queries
  <2>2. IF v.at = "ok" THEN Adds(t, f.added + 1) ELSE Adds(t, f.added)
    BY <1>1, <2>1, OneMore
  <2> QED BY <1>4, <2>2 DEF InHand
<1>5. CASE point = "enqueue_after"
  BY <1>5 DEF InHand, Queries
<1>6. CASE point = "enqueue_play"
  <2>1. PICK n \in Taken(f, Len(req.paths)) : Adds(s, n)
    BY <1>6 DEF InHand
  <2>2. n \in Nat /\ w.cmd.name = "play" /\ "play" \notin Queries
    BY <1>1, <1>6 DEF InHand, Queries, Taken
  <2>3. IF v.at = "ok" THEN AddsThenPlay(t, n) ELSE Adds(t, n)
    BY <2>1, <2>2, OneMore
  <2> QED BY <1>6, <2>1, <2>3 DEF InHand
<1> QED BY <1>2, <1>3, <1>4, <1>5, <1>6 DEF HandlerPoints, AwaitPoints

(* A request taken from the channel: nothing has been done for it.         *)
LEMMA FirstAgrees ==
    ASSUME NEW req \in RequestSet, ~ Panics(req), NEW w, w.cmd = FirstCommand(req),
           w.at \in {"sent", "err"}
    PROVE  InHand(FirstPoint(req), w, NoFrame, req, <<>>)
<1>1. CASE req.kind \in {"toggle", "move_after_current", "enqueue"}
  BY <1>1 DEF FirstPoint, FirstCommand, InHand
<1>2. CASE req.kind \in {"action", "setvol"}
  BY <1>2 DEF FirstPoint, FirstCommand, InHand, OwnCommands
<1> QED BY <1>1, <1>2 DEF RequestSet, Panics

-----------------------------------------------------------------------------
(* The steps *)

(* The callers come, wait, fail and go.                                    *)
LEMMA CallersHistory ==
    ASSUME IInv, History, CallersStep
    PROVE  History'
<1>1. /\ \A c \in Calls : call[c] \in CallSet /\ call \in [Calls -> CallSet]
      /\ UNCHANGED <<log, hand, pc, wire, frame>> /\ FrameIsReset'
  BY DEF IInv, TypeOK, CallersTypeOK, CallersStep, Issue, Accept, SendFails, Abandon, DropHandles,
         History, FrameIsReset, server, actor
<1>2. \A req : Truthful(req, NoResult, <<>>) /\ Truthful(req, Result("ChannelClosed"), <<>>)
  BY AnsweredUnstarted DEF NoResult
<1>3. \A c \in Calls : call[c].at \in {"new", "sending"} =>
         c # hand /\ log[c] = <<>> /\ call[c].result = NoResult
  BY DEF IInv, CallsAreHeldOnce, History, Unstarted, Unanswered
<1>4. ASSUME NEW c \in Calls, NEW req \in Requests, Issue(c, req) PROVE History'
  <2>1. /\ call' = [call EXCEPT ![c].at = "sending", ![c].req = req]
        /\ call[c].at = "new" /\ inbox' = inbox
    BY <1>4 DEF Issue, actor
  <2>2. call'[c].at = "sending" /\ call'[c].req = req /\ call'[c].result = call[c].result
        /\ \A d \in Calls : d # c => call'[d] = call[d]
    BY <1>1, <2>1 DEF CallSet
  <2> QED BY <1>1, <1>2, <1>3, <2>1, <2>2, OutsideHand DEF History, Unstarted, Places
<1>5. ASSUME NEW c \in Calls, Accept(c) PROVE History'
  <2>1. call' = [call EXCEPT ![c].at = "waiting"] /\ call[c].at = "sending"
        /\ inbox' = Append(inbox, c)
    BY <1>5 DEF Accept
  <2>2. call'[c].at = "waiting" /\ call'[c].req = call[c].req /\ call'[c].result = call[c].result
        /\ \A d \in Calls : d # c => call'[d] = call[d]
    BY <1>1, <2>1 DEF CallSet
  <2>3. \A d \in Calls : Places(d)' # {} => d = c \/ Places(d) # {}
    <3>1. inbox \in Seq(Calls)
      BY DEF IInv, TypeOK, ActorTypeOK
    <3>2. DOMAIN inbox' = DOMAIN inbox \cup {Len(inbox) + 1} /\ inbox'[Len(inbox) + 1] = c
          /\ \A i \in DOMAIN inbox : inbox'[i] = inbox[i]
      BY <2>1, <3>1
    <3> QED BY <3>2 DEF Places
  <2> QED BY <1>1, <1>3, <2>1, <2>2, <2>3, OutsideHand DEF History, Unstarted
<1>6. ASSUME NEW c \in Calls, SendFails(c) PROVE History'
  <2>1. call' = [call EXCEPT ![c].at = "done", ![c].result = Result("ChannelClosed")]
        /\ call[c].at = "sending" /\ inbox' = inbox
    BY <1>6 DEF SendFails, actor
  <2>2. call'[c].at = "done" /\ call'[c].req = call[c].req
        /\ call'[c].result = Result("ChannelClosed") /\ \A d \in Calls : d # c => call'[d] = call[d]
    BY <1>1, <2>1 DEF CallSet
  <2> QED BY <1>1, <1>2, <1>3, <2>1, <2>2, OutsideHand DEF History, Unstarted, Places
<1>7. ASSUME NEW c \in Calls, Abandon(c) PROVE History'
  <2>1. call' = [call EXCEPT ![c].at = "abandoned"] /\ call[c].at \in {"sending", "waiting"}
        /\ inbox' = inbox
    BY <1>7 DEF Abandon, actor
  <2>2. call'[c].at = "abandoned" /\ call'[c].req = call[c].req /\ call'[c].result = call[c].result
        /\ \A d \in Calls : d # c => call'[d] = call[d]
    BY <1>1, <2>1 DEF CallSet
  <2> QED BY <1>1, <2>1, <2>2, OutsideHand DEF History, Unstarted, Places
<1>8. CASE DropHandles
  <2>1. UNCHANGED <<call, inbox>>
    BY <1>8 DEF DropHandles, actor
  <2> QED BY <1>1, <2>1, OutsideHand DEF History, Unstarted, Places
<1> QED BY <1>4, <1>5, <1>6, <1>7, <1>8 DEF CallersStep

(* MPD answers, changes, or is cut off.                                    *)
LEMMA ServerHistory ==
    ASSUME IInv, History, ServerStep
    PROVE  History'
<1>1. UNCHANGED <<call, inbox, hand, pc, frame>> /\ FrameIsReset'
  BY DEF ServerStep, MpdAnswers, MpdChanges, LinkBreaks, actor, callers, History, FrameIsReset
<1>2. CASE MpdChanges
  <2>1. UNCHANGED <<log, wire>>
    BY <1>2 DEF MpdChanges, callers
  <2> QED BY <1>1, <2>1, OutsideHand DEF History, Unstarted, Places
<1>3. CASE LinkBreaks
  <2>1. log' = log /\ (wire' = wire \/
                       (wire.at \in {"sent", "ok"} /\ wire' = [at |-> "err", cmd |-> wire.cmd]))
    BY <1>3 DEF LinkBreaks, callers
  <2>2. HandAgrees'
    <3>1. CASE hand = NONE
      BY <1>1, <3>1 DEF HandAgrees
    <3>2. CASE hand # NONE /\ wire' = wire
      BY <1>1, <2>1, <3>2 DEF History, HandAgrees
    <3>3. CASE hand # NONE /\ wire.at \in {"sent", "ok"} /\ wire' = [at |-> "err", cmd |-> wire.cmd]
      <4>1. wire'.at = "err" /\ wire'.cmd = wire.cmd
        BY <3>3
      <4>2. InHand(pc, wire', frame, Request, log[hand])
        BY <3>3, <4>1, HandFacts, BreakAgrees
      <4> QED BY <1>1, <2>1, <4>2 DEF HandAgrees, Request
    <3> QED BY <2>1, <3>1, <3>2, <3>3
  <2> QED BY <1>1, <2>1, <2>2 DEF History, Unanswered, Unstarted, Places, Accounts
<1>4. CASE MpdAnswers
  <2>1. PICK outcome \in Outcomes(mpd, wire.cmd) :
          /\ wire' = [at |-> IF outcome.ok THEN "ok" ELSE "err", cmd |-> wire.cmd,
                      status |-> StatusOf(mpd), song |-> CurrentSongOf(mpd)]
          /\ log' = IF hand # NONE /\ outcome.ok /\ wire.cmd.name \notin Queries
                    THEN [log EXCEPT ![hand] = Append(@, wire.cmd.name)] ELSE log
    BY <1>4 DEF MpdAnswers
  <2>2. wire.at = "sent" /\ wire'.at = (IF outcome.ok THEN "ok" ELSE "err") /\ wire'.cmd = wire.cmd
    BY <1>4, <2>1 DEF MpdAnswers
  <2>3. log \in [Calls -> Seq(CommandNames)]
    BY DEF IInv, TypeOK, CallersTypeOK
  <2>4. CASE hand = NONE
    <3>1. log' = log
      BY <2>1, <2>4
    <3> QED BY <1>1, <2>4, <3>1, OutsideHand DEF History, Unstarted, Places
  <2>5. CASE hand # NONE
    <3> DEFINE s == log[hand]
    <3> DEFINE t == IF wire'.at = "ok" /\ wire.cmd.name \notin Queries
                    THEN Append(s, wire.cmd.name) ELSE s
    <3>1. hand \in Calls /\ log'[hand] = t /\ \A c \in Calls : c # hand => log'[c] = log[c]
      BY <2>1, <2>2, <2>3, <2>5, HandFacts
    <3>2. InHand(pc, wire', frame, Request, t)
      BY <2>2, <2>5, HandFacts, AnswerAgrees
    <3>3. wire.cmd.name \in CommandNames
      BY <2>2 DEF IInv, TypeOK, WireTypeOK, WellFormed
    <3>4. t \in Seq(CommandNames)
      BY <2>5, <3>3, HandFacts
    <3>5. Bounded(Request, t)
      BY <2>2, <2>5, <3>2, <3>4, HandFacts, HandIsBounded
    <3>6. Truthful(Request, call[hand].result, t)
      BY <2>5, HandFacts DEF Truthful, NoResult, Result
    <3> HIDE DEF t
    <3>7. HandAgrees'
      BY <1>1, <3>1, <3>2 DEF HandAgrees, Request
    <3>8. Accounts'
      BY <1>1, <3>1, <3>5, <3>6 DEF History, Accounts, Request
    <3>9. Unstarted' /\ Unanswered'
      BY <1>1, <2>5, <3>1, HandFacts DEF History, Unstarted, Unanswered, Places
    <3> QED BY <1>1, <3>7, <3>8, <3>9 DEF History
  <2> QED BY <2>4, <2>5
<1> QED BY <1>2, <1>3, <1>4 DEF ServerStep

(* The actor reconnects and publishes, with no request in hand.            *)
LEMMA LoopHistory ==
    ASSUME IInv, History,
           ConnectOk \/ ConnectErr \/ BackoffElapsed \/ Shutdown \/ NextEvent \/ ConnectionClosed
             \/ PublishReadSong \/ PublishDone
    PROVE  History'
<1>1. UNCHANGED <<call, log, inbox, hand>>
  BY DEF ConnectOk, ConnectErr, BackoffElapsed, Shutdown, NextEvent, ConnectionClosed,
         PublishReadSong, PublishDone, Await, callers
<1>2. hand = NONE
  <2>1. pc \notin HandlerPoints
    BY DEF ConnectOk, ConnectErr, BackoffElapsed, Shutdown, NextEvent, ConnectionClosed,
           PublishReadSong, PublishDone, Resumes, HandlerPoints, AwaitPoints
  <2> QED BY <2>1 DEF IInv, TypeOK, ActorTypeOK
<1>3. FrameIsReset'
  BY DEF ConnectOk, ConnectErr, BackoffElapsed, Shutdown, NextEvent, ConnectionClosed,
         PublishReadSong, PublishDone, Await, Resumes, HandlerPoints, AwaitPoints, History, FrameIsReset
<1> QED BY <1>1, <1>2, <1>3, OutsideHand DEF History, Unstarted, Places

(* Requests leave the channel: rejected, with nothing to do, dropped by a  *)
(* dying task, or into the actor's hand.                                   *)
LEMMA ChannelHistory ==
    ASSUME IInv, History, DrainReject \/ SessionRecv
    PROVE  History'
<1> DEFINE c == Head(inbox)
<1>1. /\ inbox # <<>> /\ log' = log /\ hand = NONE
      /\ \A d \in Calls : call[d] \in CallSet /\ call \in [Calls -> CallSet]
  <2>1. pc \notin HandlerPoints /\ inbox # <<>> /\ log' = log
    BY DEF DrainReject, SessionRecv, RecvNothingToDo, RecvPanics, RecvRequest,
           HandlerPoints, AwaitPoints, callers
  <2> QED BY <2>1 DEF IInv, TypeOK, ActorTypeOK, CallersTypeOK
<1>2. frame' = frame /\ frame = NoFrame
  BY DEF DrainReject, SessionRecv, RecvNothingToDo, RecvPanics, RecvRequest,
         History, FrameIsReset, HandlerPoints, AwaitPoints
<1>3. c \in Calls /\ log[c] = <<>> /\ call[c].req \in RequestSet
  <2>1. c \in Calls /\ Places(c) # {}
    BY <1>1 DEF IInv, TypeOK, ActorTypeOK, Places
  <2>2. call[c].at # "new"
    BY <2>1 DEF IInv, CallsAreHeldOnce
  <2> QED BY <2>1, <2>2, RequestsAssumption DEF History, Unstarted, IInv, TypeOK, CallersTypeOK
<1>4. \A d \in Calls : call[d].at \in {"new", "sending"} \/ Places(d) # {} => log[d] = <<>>
  BY DEF History, Unstarted
<1>5. ASSUME NEW result \in ResultSet, Truthful(call[c].req, result, <<>>),
             call' = [call EXCEPT ![c] = Answered(@, result)], inbox' = Tail(inbox),
             UNCHANGED <<hand, pc>>
      PROVE  History'
  <2>1. \A d \in Calls : d # c => call'[d] = call[d]
    BY <1>1, <1>5
  <2>2. call'[c] = Answered(call[c], result)
    BY <1>1, <1>3, <1>5
  <2>3. /\ call'[c].req = call[c].req
        /\ call'[c].at = IF call[c].at = "waiting" THEN "done" ELSE call[c].at
        /\ call'[c].result = IF call[c].at = "waiting" THEN result ELSE call[c].result
    BY <1>1, <1>3, <1>5, <2>2, AnsweredFields
  <2>4. c # hand
    BY <1>1, <1>3, NoCallAssumption
  <2>5. \A d \in Calls : Places(d)' # {} => Places(d) # {}
    BY <1>1, <1>5, TakeFirst DEF IInv
  <2>6. FrameIsReset'
    BY <1>2 DEF FrameIsReset
  <2>7. /\ \/ /\ call'[c].req = call[c].req /\ call'[c].result = call[c].result
              /\ call[c].at = "done" => call'[c].at = "done"
           \/ /\ c # hand /\ log[c] = <<>> /\ Truthful(call'[c].req, call'[c].result, <<>>)
              /\ call'[c].at # "done" => call'[c].result = NoResult
        /\ call'[c].at \in {"new", "sending"} \/ Places(c)' # {} => log[c] = <<>>
    BY <1>3, <1>5, <2>3, <2>4
  <2>8. UNCHANGED <<log, hand>>
    BY <1>1, <1>5
  <2>9. \A d \in Calls :
          /\ \/ /\ call'[d].req = call[d].req /\ call'[d].result = call[d].result
                /\ call[d].at = "done" => call'[d].at = "done"
             \/ /\ d # hand /\ log[d] = <<>> /\ Truthful(call'[d].req, call'[d].result, <<>>)
                /\ call'[d].at # "done" => call'[d].result = NoResult
          /\ call'[d].at \in {"new", "sending"} \/ Places(d)' # {} => log[d] = <<>>
    BY <1>4, <2>1, <2>5, <2>7
  <2> QED BY <1>1, <2>6, <2>8, <2>9, OutsideHand
<1>6. CASE DrainReject
  <2>1. Truthful(call[c].req, Result("Unavailable"), <<>>) /\ Result("Unavailable") \in ResultSet
    BY AnsweredUnstarted, ResultType
  <2> QED BY <1>5, <1>6, <2>1 DEF DrainReject
<1>7. CASE RecvNothingToDo
  <2>1. call[c].req.kind = "enqueue" /\ call[c].req.paths = <<>>
    BY <1>7 DEF RecvNothingToDo, NothingToDo
  <2>2. Truthful(call[c].req, Result("Ok"), <<>>) /\ Result("Ok") \in ResultSet
    BY <2>1, NothingAdded, ResultType DEF Truthful, OkIsTrue, Result
  <2> QED BY <1>5, <1>7, <2>2 DEF RecvNothingToDo
<1>8. CASE RecvPanics
  <2>1. inbox' = <<>> /\ hand' = hand /\ pc' = "panicked"
    BY <1>8 DEF RecvPanics
  <2>2. \A d \in Calls : call'[d] = IF Places(d) # {} THEN Answered(call[d], Result("ChannelClosed"))
                                                      ELSE call[d]
    BY <1>8 DEF RecvPanics, Places
  <2>3. Result("ChannelClosed") \in ResultSet
        /\ \A req : Truthful(req, Result("ChannelClosed"), <<>>)
    BY AnsweredUnstarted, ResultType
  <2>4. ASSUME NEW d \in Calls
        PROVE  /\ \/ /\ call'[d].req = call[d].req /\ call'[d].result = call[d].result
                     /\ call[d].at = "done" => call'[d].at = "done"
                  \/ /\ d # hand /\ log[d] = <<>> /\ Truthful(call'[d].req, call'[d].result, <<>>)
                     /\ call'[d].at # "done" => call'[d].result = NoResult
               /\ call'[d].at \in {"new", "sending"} \/ Places(d)' # {} => log[d] = <<>>
    <3>1. d # hand /\ Places(d)' = {}
      BY <1>1, <2>1, NoCallAssumption DEF Places
    <3>2. CASE Places(d) = {}
      BY <1>4, <2>2, <3>1, <3>2
    <3>3. CASE Places(d) # {}
      <4>1. /\ call'[d].req = call[d].req
            /\ call'[d].at = IF call[d].at = "waiting" THEN "done" ELSE call[d].at
            /\ call'[d].result = IF call[d].at = "waiting" THEN Result("ChannelClosed")
                                                           ELSE call[d].result
        BY <1>1, <2>2, <2>3, <3>3, AnsweredFields
      <4> QED BY <1>4, <2>3, <3>1, <3>3, <4>1
    <3> QED BY <3>2, <3>3
  <2>5. FrameIsReset' /\ UNCHANGED <<log, hand>>
    BY <1>1, <1>2, <2>1 DEF FrameIsReset
  <2> QED BY <1>1, <2>4, <2>5, OutsideHand
<1>9. CASE RecvRequest
  <2>1. /\ hand' = c /\ call' = call /\ inbox' = Tail(inbox) /\ ~ Panics(call[c].req)
        /\ pc' = FirstPoint(call[c].req) /\ Send(FirstCommand(call[c].req))
    BY <1>9 DEF RecvRequest, callers
  <2>2. wire'.cmd = FirstCommand(call[c].req) /\ wire'.at \in {"sent", "err"}
    BY <2>1, SendType
  <2>3. InHand(FirstPoint(call[c].req), wire', NoFrame, call[c].req, <<>>)
    BY <1>3, <2>1, <2>2, FirstAgrees
  <2>4. HandAgrees'
    BY <1>1, <1>2, <1>3, <2>1, <2>3 DEF HandAgrees
  <2>5. FrameIsReset'
    BY <1>2 DEF FrameIsReset
  <2>6. \A d \in Calls : Places(d)' # {} => Places(d) # {}
    BY <1>1, <2>1, TakeFirst DEF IInv
  <2>7. Unanswered' /\ Unstarted' /\ Accounts'
    BY <1>1, <2>1, <2>6 DEF History, Unanswered, Unstarted, Accounts
  <2> QED BY <2>4, <2>5, <2>7 DEF History
<1> QED BY <1>6, <1>7, <1>8, <1>9 DEF SessionRecv

(* The handlers of one command, toggle and play-next.                      *)
LEMMA ActionHistory ==
    ASSUME IInv, History, ActionReplies \/ ToggleReadStatus \/ MoveReadStatus
    PROVE  History'
<1>1. pc \in {"action", "toggle", "move_after_current"} /\ hand # NONE
  <2>1. pc \in {"action", "toggle", "move_after_current"}
    BY DEF ActionReplies, ToggleReadStatus, MoveReadStatus, Resumes
  <2> QED BY <2>1 DEF IInv, TypeOK, ActorTypeOK, HandlerPoints, AwaitPoints
<1> DEFINE s == log[hand]
<1>2. /\ InHand(pc, wire, frame, Request, s) /\ Request \in RequestSet
      /\ \A kind \in {"Ok", "Command"} : Result(kind) \in ResultSet
  BY <1>1, HandFacts, ResultType
<1>3. Truthful(Request, Result("Command"), s)
  BY DEF Truthful, Result
<1>4. ASSUME Reply(Result("Command")) PROVE History'
  BY <1>1, <1>2, <1>3, <1>4, RepliesAgree
<1>5. ASSUME ActionReplies PROVE History'
  <2>1. CASE Resumes("action", "ok")
    <3>1. pc = "action" /\ wire.at = "ok" /\ Reply(Result("Ok"))
      BY <1>5, <2>1 DEF ActionReplies, Resumes
    <3>2. /\ Request.kind \in {"action", "setvol", "toggle", "move_after_current"}
          /\ wire.cmd.name \in OwnCommands(Request)
          /\ wire.cmd.name \notin Queries => s # <<>>
      BY <1>2, <3>1 DEF InHand
    <3>3. OkIsTrue(Request, s)
      BY <3>2 DEF OkIsTrue, OwnCommands, Queries
    <3>4. Truthful(Request, Result("Ok"), s)
      BY <3>3 DEF Truthful, Result
    <3> QED BY <1>1, <1>2, <3>1, <3>4, RepliesAgree
  <2>2. CASE ~ Resumes("action", "ok")
    BY <1>4, <1>5, <2>2 DEF ActionReplies
  <2> QED BY <2>1, <2>2
<1>6. ASSUME ToggleReadStatus PROVE History'
  <2>1. CASE Resumes("toggle", "ok")
    <3>1. /\ pc = "toggle" /\ wire.at = "ok"
          /\ \E name \in {"play", "pause"} : Await("action", [name |-> name])
      BY <1>6, <2>1 DEF ToggleReadStatus, Resumes
    <3>2. PICK name \in {"play", "pause"} : Await("action", [name |-> name])
      BY <3>1
    <3>3. Request.kind = "toggle" /\ s = <<>>
      BY <1>2, <3>1 DEF InHand
    <3>4. \A w : w.cmd = [name |-> name] /\ w.at \in {"sent", "err"}
                   => InHand("action", w, frame', Request, s)
      BY <3>3 DEF InHand, OwnCommands
    <3> QED BY <1>1, <3>2, <3>4, GoesOn DEF HandlerPoints, AwaitPoints
  <2>2. CASE ~ Resumes("toggle", "ok")
    BY <1>4, <1>6, <2>2 DEF ToggleReadStatus
  <2> QED BY <2>1, <2>2
<1>7. ASSUME MoveReadStatus PROVE History'
  <2>1. CASE Reply(Result("Command"))
    BY <1>4, <2>1
  <2>2. CASE ~ Reply(Result("Command"))
    <3>1. pc = "move_after_current" /\ wire.at = "ok"
      BY <1>7, <2>2 DEF MoveReadStatus, Resumes
    <3>2. Request.kind = "move_after_current" /\ s = <<>>
      BY <1>2, <3>1 DEF InHand
    <3>3. CASE Reply(Result("Ok"))
      <4>1. Truthful(Request, Result("Ok"), s)
        BY <3>2 DEF Truthful, OkIsTrue, Result
      <4> QED BY <1>1, <1>2, <3>3, <4>1, RepliesAgree
    <3>4. CASE ~ Reply(Result("Ok"))
      <4>1. PICK cmd : cmd.name \in {"move", "move_after_current"} /\ Await("action", cmd)
        BY <1>7, <2>2, <3>4 DEF MoveReadStatus
      <4>2. \A w : w.cmd = cmd /\ w.at \in {"sent", "err"}
                     => InHand("action", w, frame', Request, s)
        BY <3>2, <4>1 DEF InHand, OwnCommands
      <4> QED BY <1>1, <4>1, <4>2, GoesOn DEF HandlerPoints, AwaitPoints
    <3> QED BY <3>3, <3>4
  <2> QED BY <2>1, <2>2
<1> QED BY <1>5, <1>6, <1>7

(* The end of an enqueue's loop.                                           *)
LEMMA EndsHistory ==
    ASSUME IInv, History, hand # NONE, Request.kind = "enqueue", NEW f \in FrameSet,
           NEW n \in Taken(f, Len(Request.paths)), Adds(log[hand], n), EnqueueEnds(f)
    PROVE  History'
<1> DEFINE s == log[hand]
<1> DEFINE total == Len(Request.paths)
<1>1. total \in Nat /\ f.added \in Nat /\ f.failed \in BOOLEAN /\ n \in Nat
  BY HandFacts DEF FrameSet, RequestSet, Taken
<1>2. Count(s) = n
  BY <1>1, HandFacts, CountAdds
<1>3. CASE f.added > 0 /\ f.status.playlist_length = 0
  <2>1. Await("enqueue_after", [name |-> "status"]) /\ frame' = f
    BY <1>3 DEF EnqueueEnds
  <2>2. \A w : w.cmd = [name |-> "status"] /\ w.at \in {"sent", "err"}
                 => InHand("enqueue_after", w, frame', Request, s)
    BY <1>3, <2>1 DEF InHand
  <2> QED BY <2>1, <2>2, GoesOn DEF HandlerPoints, AwaitPoints
<1>4. CASE ~ (f.added > 0 /\ f.status.playlist_length = 0)
  <2>1. CASE f.failed = FALSE
    <3>1. Reply(Result("Ok")) /\ Result("Ok") \in ResultSet
      BY <1>4, <2>1, ResultType DEF EnqueueEnds
    <3>2. n = total
      BY <2>1 DEF Taken
    <3>3. Truthful(Request, Result("Ok"), s)
      BY <1>2, <3>2 DEF Truthful, OkIsTrue, Result
    <3> QED BY <3>1, <3>3, RepliesAgree
  <2>2. CASE f.failed = TRUE /\ f.added = 0
    <3>1. Reply(Result("Command")) /\ Result("Command") \in ResultSet
      BY <1>4, <2>2, ResultType DEF EnqueueEnds
    <3>2. Truthful(Request, Result("Command"), s)
      BY DEF Truthful, Result
    <3> QED BY <3>1, <3>2, RepliesAgree
  <2>3. CASE f.failed = TRUE /\ f.added # 0
    <3>1. Reply(Counted("Partial", f.added)) /\ Counted("Partial", f.added) \in ResultSet
      BY <1>1, <1>4, <2>3, ResultType DEF EnqueueEnds
    <3>2. n \in {f.added, f.added + 1} /\ f.added \in 1..(total - 1)
      BY <1>1, <2>3 DEF Taken
    <3>3. Truthful(Request, Counted("Partial", f.added), s)
      BY <1>2, <3>2 DEF Truthful, Counted
    <3> QED BY <3>1, <3>3, RepliesAgree
  <2> QED BY <1>1, <2>1, <2>2, <2>3
<1> QED BY <1>3, <1>4

(* The next path of an enqueue, with all those before it added.            *)
LEMMA NextPathHistory ==
    ASSUME IInv, History, hand # NONE, Request.kind = "enqueue", NEW f \in FrameSet,
           f.failed = FALSE, f.added <= Len(Request.paths), Adds(log[hand], f.added),
           EnqueueNextPath(f)
    PROVE  History'
<1> DEFINE total == Len(Request.paths)
<1>1. total \in Nat /\ f.added \in Nat
  BY HandFacts DEF FrameSet, RequestSet
<1>2. CASE f.added = total
  <2>1. f.added \in Taken(f, total)
    BY <1>2 DEF Taken
  <2> QED BY <1>2, <2>1, EndsHistory DEF EnqueueNextPath
<1>3. CASE f.added # total /\ Request.paths[f.added + 1] \in BadPaths
  <2> DEFINE g == [f EXCEPT !.failed = TRUE]
  <2>1. g \in FrameSet /\ g.added = f.added /\ g.failed = TRUE
    BY FrameUpdatesType DEF FrameSet
  <2>2. EnqueueEnds(g)
    BY <1>3 DEF EnqueueNextPath
  <2> HIDE DEF g
  <2>3. f.added \in Taken(g, total)
    BY <1>1, <1>3, <2>1 DEF Taken
  <2> QED BY <2>1, <2>2, <2>3, EndsHistory
<1>4. CASE f.added # total /\ Request.paths[f.added + 1] \notin BadPaths
  <2>1. PICK path : Await("enqueue_add", [name |-> "add", path |-> path]) /\ frame' = f
    BY <1>4 DEF EnqueueNextPath
  <2>2. f.added < total
    BY <1>1, <1>4
  <2>3. \A w : w.cmd = [name |-> "add", path |-> path] /\ w.at \in {"sent", "err"}
                 => InHand("enqueue_add", w, frame', Request, log[hand])
    BY <2>1, <2>2 DEF InHand
  <2> QED BY <2>1, <2>3, GoesOn DEF HandlerPoints, AwaitPoints
<1> QED BY <1>2, <1>3, <1>4

(* What is reported once playback is settled.                              *)
LEMMA SettledHistory ==
    ASSUME IInv, History, hand # NONE, Request.kind = "enqueue", frame.added > 0,
           NEW n \in Taken(frame, Len(Request.paths)),
           Adds(log[hand], n) \/ AddsThenPlay(log[hand], n),
           NEW ok \in BOOLEAN, EnqueueReply(ok)
    PROVE  History'
<1> DEFINE s == log[hand]
<1> DEFINE total == Len(Request.paths)
<1>1. total \in Nat /\ frame.added \in Nat /\ frame.failed \in BOOLEAN /\ n \in Nat
  BY HandFacts DEF FrameSet, RequestSet, Taken
<1>2. Count(s) = n
  BY <1>1, HandFacts, CountAdds
<1>3. CASE frame.failed = TRUE
  <2>1. Reply(Counted("Partial", frame.added)) /\ Counted("Partial", frame.added) \in ResultSet
    BY <1>1, <1>3, ResultType DEF EnqueueReply
  <2>2. n \in {frame.added, frame.added + 1} /\ frame.added \in 1..(total - 1)
    BY <1>1, <1>3 DEF Taken
  <2>3. Truthful(Request, Counted("Partial", frame.added), s)
    BY <1>2, <2>2 DEF Truthful, Counted
  <2> QED BY <2>1, <2>3, RepliesAgree
<1>4. CASE frame.failed = FALSE
  <2>1. n = frame.added /\ n = total
    BY <1>4 DEF Taken
  <2>2. Truthful(Request, Result("Ok"), s) /\ Truthful(Request, Counted("Unreconciled", n), s)
    BY <1>2, <2>1 DEF Truthful, OkIsTrue, Result, Counted
  <2>3. Reply(Result("Ok")) \/ Reply(Counted("Unreconciled", n))
    BY <1>4, <2>1 DEF EnqueueReply
  <2>4. Result("Ok") \in ResultSet /\ Counted("Unreconciled", n) \in ResultSet
    BY <1>1, ResultType
  <2> QED BY <2>2, <2>3, <2>4, RepliesAgree
<1> QED BY <1>1, <1>3, <1>4

(* The steps of an enqueue.                                                *)
LEMMA EnqueueHistory ==
    ASSUME IInv, History,
           EnqueueReadBefore \/ EnqueueAdded \/ EnqueueReadAfter \/ EnqueueAutoplayed
    PROVE  History'
<1>1. pc \in {"enqueue_before", "enqueue_add", "enqueue_after", "enqueue_play"} /\ hand # NONE
  <2>1. pc \in {"enqueue_before", "enqueue_add", "enqueue_after", "enqueue_play"}
    BY DEF EnqueueReadBefore, EnqueueAdded, EnqueueReadAfter, EnqueueAutoplayed, Resumes
  <2> QED BY <2>1 DEF IInv, TypeOK, ActorTypeOK, HandlerPoints, AwaitPoints
<1> DEFINE s == log[hand]
<1> DEFINE total == Len(Request.paths)
<1>2. InHand(pc, wire, frame, Request, s) /\ frame \in FrameSet
  BY <1>1, HandFacts
<1>3. Request.kind = "enqueue"
  BY <1>1, <1>2 DEF InHand
<1>4. total \in Nat /\ frame.added \in Nat
  BY <1>1, <1>3, HandFacts DEF FrameSet, RequestSet
<1>5. ASSUME EnqueueReadBefore PROVE History'
  <2>1. CASE Resumes("enqueue_before", "ok")
    <3> DEFINE f == [frame EXCEPT !.status = wire.status]
    <3>1. pc = "enqueue_before" /\ wire.at = "ok" /\ EnqueueNextPath(f)
      BY <1>5, <2>1 DEF EnqueueReadBefore, Resumes
    <3>2. frame = NoFrame /\ s = <<>>
      BY <1>2, <3>1 DEF InHand
    <3>3. wire.status \in StatusSet
      BY <3>1 DEF IInv, TypeOK, WireTypeOK
    <3>4. f \in FrameSet /\ f.added = 0 /\ f.failed = FALSE
      BY <1>2, <3>2, <3>3, FrameUpdatesType DEF NoFrame
    <3> HIDE DEF f
    <3>5. Adds(s, f.added)
      BY <3>2, <3>4, NothingAdded
    <3>6. f.added <= Len(Request.paths)
      BY <1>4, <3>4
    <3>7. Adds(log[hand], f.added)
      BY <3>5
    <3> QED BY <1>1, <1>3, <3>1, <3>4, <3>6, <3>7, NextPathHistory
  <2>2. CASE ~ Resumes("enqueue_before", "ok")
    <3>1. Reply(Result("Command")) /\ Result("Command") \in ResultSet
      BY <1>5, <2>2, ResultType DEF EnqueueReadBefore
    <3>2. Truthful(Request, Result("Command"), s)
      BY DEF Truthful, Result
    <3> QED BY <1>1, <3>1, <3>2, RepliesAgree
  <2> QED BY <2>1, <2>2
<1>6. ASSUME EnqueueAdded PROVE History'
  <2>1. CASE Resumes("enqueue_add", "ok")
    <3> DEFINE f == [frame EXCEPT !.added = @ + 1]
    <3>1. pc = "enqueue_add" /\ wire.at = "ok" /\ EnqueueNextPath(f)
      BY <1>6, <2>1 DEF EnqueueAdded, Resumes
    <3>2. Adds(s, frame.added + 1) /\ frame.failed = FALSE /\ frame.added < total
      BY <1>2, <3>1 DEF InHand
    <3>3. f \in FrameSet /\ f.added = frame.added + 1 /\ f.failed = FALSE
      BY <1>2, <3>2, FrameUpdatesType DEF FrameSet
    <3> HIDE DEF f
    <3>4. f.added <= Len(Request.paths)
      BY <1>4, <3>2, <3>3
    <3>5. Adds(log[hand], f.added)
      BY <3>2, <3>3
    <3> QED BY <1>1, <1>3, <3>1, <3>3, <3>4, <3>5, NextPathHistory
  <2>2. CASE ~ Resumes("enqueue_add", "ok")
    <3> DEFINE f == [frame EXCEPT !.failed = TRUE]
    <3>1. pc = "enqueue_add" /\ wire.at = "err" /\ EnqueueEnds(f)
      BY <1>6, <2>2 DEF EnqueueAdded, Resumes
    <3>2. (Adds(s, frame.added) \/ Adds(s, frame.added + 1)) /\ frame.added < total
      BY <1>2, <3>1 DEF InHand
    <3>3. f \in FrameSet /\ f.added = frame.added /\ f.failed = TRUE
      BY <1>2, FrameUpdatesType DEF FrameSet
    <3> HIDE DEF f
    <3>4. frame.added \in Taken(f, total) /\ frame.added + 1 \in Taken(f, total)
      BY <1>4, <3>2, <3>3 DEF Taken
    <3> QED BY <1>1, <1>3, <3>1, <3>2, <3>3, <3>4, EndsHistory
  <2> QED BY <2>1, <2>2
<1>7. ASSUME EnqueueReadAfter \/ EnqueueAutoplayed PROVE History'
  <2>1. pc \in {"enqueue_after", "enqueue_play"} /\ frame.added > 0
    <3>1. pc \in {"enqueue_after", "enqueue_play"}
      BY <1>7 DEF EnqueueReadAfter, EnqueueAutoplayed, Resumes
    <3> QED BY <1>2, <3>1 DEF InHand
  <2>2. PICK n \in Taken(frame, total) :
          \/ Adds(s, n) /\ (pc = "enqueue_play" => wire.at # "ok")
          \/ AddsThenPlay(s, n) /\ pc = "enqueue_play" /\ wire.at \in {"ok", "err"}
    BY <1>2, <2>1 DEF InHand
  <2>3. CASE \E ok \in BOOLEAN : EnqueueReply(ok)
    BY <1>1, <1>3, <2>1, <2>2, <2>3, SettledHistory
  <2>4. CASE ~ \E ok \in BOOLEAN : EnqueueReply(ok)
    <3>1. pc = "enqueue_after" /\ Await("enqueue_play", [name |-> "play"]) /\ frame' = frame
      BY <1>7, <2>4 DEF EnqueueReadAfter, EnqueueAutoplayed, Resumes
    <3>2. Adds(s, n)
      BY <2>2, <3>1
    <3>3. \A w : w.cmd = [name |-> "play"] /\ w.at \in {"sent", "err"}
                   => InHand("enqueue_play", w, frame', Request, s)
      BY <1>3, <2>1, <3>1, <3>2 DEF InHand
    <3> QED BY <1>1, <3>1, <3>3, GoesOn DEF HandlerPoints, AwaitPoints
  <2> QED BY <2>3, <2>4
<1> QED BY <1>5, <1>6, <1>7

-----------------------------------------------------------------------------
(* The inductive invariant, and the theorems *)

(* The invariant of the history holds initially ...                        *)
LEMMA InitHistory == Init => History
<1> SUFFICES ASSUME Init PROVE History
  OBVIOUS
<1> USE DEF Init
<1>1. Unanswered /\ Unstarted
  BY DEF Unanswered, Unstarted
<1>2. Accounts
  BY AnsweredUnstarted DEF Accounts, Bounded, NoResult
<1> QED BY <1>1, <1>2 DEF History, FrameIsReset, HandAgrees

(* ... and every step keeps it.                                            *)
LEMMA NextHistory == IInv /\ History /\ [Next]_vars => History'
<1> SUFFICES ASSUME IInv, History, [Next]_vars PROVE History'
  OBVIOUS
<1>1. CASE UNCHANGED vars
  BY <1>1 DEF vars, server, callers, actor, History, Unanswered, Unstarted, Places, Accounts,
              FrameIsReset, HandAgrees
<1>2. CASE Next
  BY <1>2, CallersHistory, ServerHistory, LoopHistory, ChannelHistory, ActionHistory, EnqueueHistory
     DEF Next, ActorStep, Resume
<1> QED BY <1>1, <1>2

(* The invariant of the history holds of every behaviour.                  *)
THEOREM HistoryInvariant == Spec => []History
  BY Invariant, InitHistory, NextHistory, PTL DEF Spec

(* 503 is safe to retry: a call answered Unavailable or ChannelClosed did  *)
(* nothing to MPD (mpd.rs drain_during_backoff, Request::reject).          *)
THEOREM RetriesAreSafe == Spec => []RetryableMeansUntouched
<1>1. History => RetryableMeansUntouched
  BY DEF History, Accounts, Truthful, RetryableMeansUntouched
<1> QED BY <1>1, HistoryInvariant, PTL

(* Nothing is done twice, whatever breaks, reconnects or is abandoned:     *)
(* one command for an action, its paths and one autoplay for an enqueue    *)
(* (mpd.rs handle_action, enqueue_and_autoplay_if_empty).                  *)
THEOREM NothingIsDoneTwice == Spec => []EffectsAreBounded
<1>1. History => EffectsAreBounded
  BY DEF History, Accounts, Bounded, Count, OwnCommands, EffectsAreBounded, CountOf
<1> QED BY <1>1, HistoryInvariant, PTL

(* A call answered Ok was carried out, all of it (mpd.rs handle_action,    *)
(* finish_enqueue_failure).                                                *)
THEOREM OkIsDone == Spec => []OkMeansDone
<1>1. History => OkMeansDone
  BY DEF History, Accounts, Truthful, OkIsTrue, Count, OkMeansDone, CountOf
<1> QED BY <1>1, HistoryInvariant, PTL

(* The report of a failed enqueue counts the tracks that MPD took, give or *)
(* take the one whose answer was lost (mpd.rs finish_enqueue_failure,      *)
(* post_enqueue_reconciliation_failure).                                   *)
THEOREM ReportsCountTracks == Spec => []FailureReportsCountTracks
<1>1. History => FailureReportsCountTracks
  BY DEF History, Accounts, Truthful, Count, FailureReportsCountTracks, CountOf
<1> QED BY <1>1, HistoryInvariant, PTL
-----------------------------------------------------------------------------
(* What a request in hand has done to MPD                                  *)

(* The strengthening for atomicity: at each point of a handler, m is what  *)
(* it has made so far of s, MPD as the request found it.                   *)
Ran(point, w, f, req, s, m) ==
    /\ point = "action" =>
         /\ Accepted(s, w.cmd) \subseteq Effects(s, req)
         /\ m = s \/ (w.at \in {"ok", "err"} /\ m \in Effects(s, req))
         /\ w.at = "ok" => m \in Effects(s, req)
    /\ point \in {"toggle", "move_after_current", "enqueue_before"} =>
         /\ m = s /\ (w.at = "ok" => w.status = StatusOf(s))
         /\ point = "enqueue_before" => req.paths # <<>>
    /\ point = "enqueue_add" =>
         /\ f.status.playlist_length = Len(s.queue)
         /\ w.at = "sent" => m \in AddedTo(s, f.added)
         /\ w.at = "ok" => m \in AddedTo(s, f.added + 1)
         /\ w.at = "err" => m \in AddedTo(s, f.added) \/ m \in AddedTo(s, f.added + 1)
    /\ point \in {"enqueue_after", "enqueue_play"} =>
         /\ s.queue = <<>>
         /\ \E n \in Taken(f, Len(req.paths)), x \in MpdStates :
              /\ x \in AddedTo(s, n)
              /\ \/ m = x /\ (point = "enqueue_play" => w.at # "ok")
                 \/ m = PlayCurrent(x) /\ point = "enqueue_play" /\ w.at \in {"ok", "err"}
         /\ point = "enqueue_after" /\ w.at = "ok" => w.status.playlist_length = Len(m.queue)

(* A refused command and a query leave MPD alone.                          *)
LEMMA RefusedIsUnchanged ==
    ASSUME NEW m, NEW cmd, NEW o \in Outcomes(m, cmd), ~ o.ok \/ cmd.name \in Queries
    PROVE  o.mpd = m
<1>1. CASE cmd.name \notin SongCommands
  <2>1. o \in PlainOutcomes(m, cmd)
    BY <1>1 DEF Outcomes
  <2> QED BY <2>1 DEF PlainOutcomes, Ok, Ack, Queries
<1>2. CASE cmd.name \in SongCommands
  <2>1. cmd.name \notin Queries
    BY <1>2 DEF SongCommands, Queries
  <2>2. CASE TargetIndexes(m, cmd.target) = {}
    BY <1>2, <2>2 DEF Outcomes, Ack
  <2>3. CASE TargetIndexes(m, cmd.target) # {}
    <3>1. PICK i \in TargetIndexes(m, cmd.target) : o \in SongOutcomes(m, cmd, i)
      BY <1>2, <2>3 DEF Outcomes
    <3> QED BY <2>1, <3>1 DEF SongOutcomes, Ok, Ack
  <2> QED BY <2>2, <2>3
<1> QED BY <1>1, <1>2

(* What MPD makes of the commands of an enqueue.                           *)
LEMMA AddOutcome ==
    ASSUME NEW m, NEW cmd, cmd.name = "add", NEW o \in Outcomes(m, cmd), o.ok
    PROVE  FreeIds(m) # {} /\ o.mpd = Added(m)
<1>1. o \in PlainOutcomes(m, cmd)
  BY DEF Outcomes, SongCommands
<1> QED BY <1>1 DEF PlainOutcomes, Ok, Ack

(* A play is accepted whatever the state, and starts the current song.    *)
LEMMA PlayOutcome ==
    ASSUME NEW m, NEW cmd, cmd.name = "play", NEW o \in Outcomes(m, cmd)
    PROVE  o.ok /\ o.mpd = PlayCurrent(m)
<1>1. o \in PlainOutcomes(m, cmd)
  BY DEF Outcomes, SongCommands
<1> QED BY <1>1 DEF PlainOutcomes, Ok, Ack

(* Adding no track changes nothing.                                        *)
LEMMA NoneAdded ==
    ASSUME NEW m \in MpdStates
    PROVE  AddedTo(m, 0) = {m}
<1>1. <<>> \in [1..0 -> FreeIds(m)] /\ IsInjective(<<>>)
  BY DEF IsInjective
<1>2. m.queue \o <<>> = m.queue
  BY FieldsType
<1>3. WithQueue(m, m.queue) = m
  BY DEF WithQueue, MpdStates
<1>4. \A ids \in [1..0 -> FreeIds(m)] : ids = <<>>
  OBVIOUS
<1> QED BY <1>1, <1>2, <1>3, <1>4 DEF AddedTo

(* Appending to the second of two sequences.                               *)
LEMMA AppendToConcat ==
    \A p, q \in Seq(SongIds), e \in SongIds : Append(p \o q, e) = p \o Append(q, e)
<1> SUFFICES ASSUME NEW p \in Seq(SongIds), NEW q \in Seq(SongIds), NEW e \in SongIds
             PROVE  Append(p \o q, e) = p \o Append(q, e)
  OBVIOUS
<1>1. p \o q \in Seq(SongIds) /\ <<e>> \in Seq(SongIds)
  OBVIOUS
<1>2. Append(q, e) = q \o <<e>>
  BY AppendIsConcat
<1>3. Append(p \o q, e) = (p \o q) \o <<e>>
  BY <1>1, AppendIsConcat
<1>4. (p \o q) \o <<e>> = p \o (q \o <<e>>)
  BY <1>1, ConcatAssociative
<1> QED BY <1>2, <1>3, <1>4

(* Adding one more track to n added is adding n + 1.                       *)
LEMMA AddedOneMore ==
    ASSUME NEW s \in MpdStates, NEW n \in Nat, NEW m \in AddedTo(s, n), FreeIds(m) # {}
    PROVE  Added(m) \in AddedTo(s, n + 1)
<1> PICK ids \in [1..n -> FreeIds(s)] : IsInjective(ids) /\ m = WithQueue(s, s.queue \o ids)
  BY DEF AddedTo
<1> PICK id : id = CHOOSE d \in FreeIds(m) : TRUE
  OBVIOUS
<1> PICK more : more = [i \in 1..(n + 1) |-> IF i = n + 1 THEN id ELSE ids[i]]
  OBVIOUS
<1>1. id \in FreeIds(m)
  OBVIOUS
<1>2. /\ s.queue \in Seq(SongIds) /\ Len(s.queue) \in Nat /\ DOMAIN s.queue = 1..Len(s.queue)
      /\ s = [state |-> s.state, volume |-> s.volume, queue |-> s.queue, current |-> s.current]
  BY FieldsType DEF MpdStates
<1>3. m.queue = s.queue \o ids /\ m = [s EXCEPT !.queue = s.queue \o ids]
  BY <1>2 DEF WithQueue
<1>4. ids \in Seq(SongIds) /\ Len(ids) = n /\ \A i \in 1..n : ids[i] \in FreeIds(s)
  BY DEF FreeIds
<1>5. /\ Len(m.queue) = Len(s.queue) + n /\ DOMAIN m.queue = 1..(Len(s.queue) + n)
      /\ \A i \in 1..Len(s.queue) : m.queue[i] = s.queue[i]
      /\ \A i \in 1..n : m.queue[Len(s.queue) + i] = ids[i]
  BY <1>2, <1>3, <1>4
<1>6. id \in SongIds /\ \A i \in DOMAIN m.queue : m.queue[i] # id
  BY <1>1 DEF FreeIds, Holds
<1>7. id \in FreeIds(s) /\ \A i \in 1..n : ids[i] # id
  <2>1. \A i \in DOMAIN s.queue : s.queue[i] # id
    BY <1>2, <1>4, <1>5, <1>6
  <2>2. \A i \in 1..n : ids[i] # id
    <3> SUFFICES ASSUME NEW i \in 1..n PROVE ids[i] # id
      OBVIOUS
    <3>1. Len(s.queue) + i \in DOMAIN m.queue
      BY <1>2, <1>5
    <3> QED BY <1>5, <1>6, <3>1
  <2> QED BY <1>6, <2>1, <2>2 DEF FreeIds, Holds
<1>8. more \in [1..(n + 1) -> FreeIds(s)] /\ IsInjective(more)
  <2>1. more \in [1..(n + 1) -> FreeIds(s)]
    <3>1. \A i \in 1..(n + 1) : more[i] \in FreeIds(s)
      <4> SUFFICES ASSUME NEW i \in 1..(n + 1) PROVE more[i] \in FreeIds(s)
        OBVIOUS
      <4>1. CASE i = n + 1
        BY <1>7, <4>1
      <4>2. CASE i # n + 1
        BY <1>4, <4>2
      <4> QED BY <4>1, <4>2
    <3> QED BY <3>1
  <2>2. \A a, b \in 1..n : ids[a] = ids[b] => a = b
    BY <1>4 DEF IsInjective
  <2>3. \A a, b \in 1..(n + 1) : more[a] = more[b] => a = b
    BY <1>7, <2>2
  <2> QED BY <2>1, <2>3 DEF IsInjective
<1>9. more = Append(ids, id)
  <2>1. more \in Seq(SongIds) /\ Append(ids, id) \in Seq(SongIds)
    BY <1>4, <1>6, <1>8 DEF FreeIds
  <2>2. Len(more) = n + 1 /\ Len(Append(ids, id)) = n + 1
    BY <1>4
  <2>3. \A i \in 1..(n + 1) : more[i] = Append(ids, id)[i]
    BY <1>4
  <2> QED BY <2>1, <2>2, <2>3, SeqEqual
<1>10. Append(m.queue, id) = s.queue \o more
  <2> PICK q : q = s.queue
    OBVIOUS
  <2>1. q \in Seq(SongIds) /\ ids \in Seq(SongIds) /\ id \in SongIds
    BY <1>2, <1>4, <1>6
  <2>2. Append(q \o ids, id) = q \o Append(ids, id)
    BY <2>1, AppendToConcat, Zenon
  <2> QED BY <1>3, <1>9, <2>2
<1>11. Added(m) = WithQueue(s, s.queue \o more)
  BY <1>2, <1>3, <1>10 DEF Added, WithQueue
<1> QED BY <1>8, <1>11 DEF AddedTo

(* The states with n tracks added.                                         *)
LEMMA AddedLength ==
    ASSUME NEW s \in MpdStates, NEW n \in Nat, NEW m \in AddedTo(s, n)
    PROVE  m.queue \in Seq(SongIds) /\ Len(m.queue) = Len(s.queue) + n
           /\ Len(s.queue) \in Nat /\ m \in MpdStates
<1> PICK ids \in [1..n -> FreeIds(s)] : IsInjective(ids) /\ m = WithQueue(s, s.queue \o ids)
  BY DEF AddedTo
<1>1. s.queue \in Seq(SongIds) /\ Len(s.queue) \in Nat
  BY FieldsType
<1>2. ids \in Seq(SongIds) /\ Len(ids) = n
  BY DEF FreeIds
<1>3. s.queue \o ids \in Seq(SongIds) /\ Len(s.queue \o ids) = Len(s.queue) + n
  BY <1>1, <1>2
<1>4. m \in MpdStates
  <2>1. "play" \in PlayStates /\ 0 \in Volumes /\ NONE \in SongIds \cup {NONE}
    BY DEF PlayStates, Volumes
  <2> QED BY <1>3, <2>1, UpdatesType
<1>5. m.queue = s.queue \o ids
  BY DEF WithQueue, MpdStates
<1> QED BY <1>1, <1>3, <1>4, <1>5

(* An enqueue that fails may have added some of its tracks.                *)
LEMMA AddedIsPartial ==
    ASSUME NEW s \in MpdStates, NEW req, req.kind = "enqueue", Len(req.paths) \in Nat,
           NEW n \in 0..Len(req.paths), NEW m \in AddedTo(s, n)
    PROVE  /\ m \in PartialEffects(s, req)
           /\ n > 0 => Autoplayed(s, m) \in PartialEffects(s, req)
<1>1. CASE n = 0
  BY <1>1, NoneAdded DEF PartialEffects
<1>2. CASE n > 0
  <2>1. n \in 1..Len(req.paths)
    BY <1>2
  <2> QED BY <2>1 DEF PartialEffects
<1> QED BY <1>1, <1>2

-----------------------------------------------------------------------------
(* The steps of a handler, as the service sees them *)

(* An answer fits what was done: Ok says all of it, an error some of it.   *)
Fits(kind, s, m, req) ==
    \/ kind = "Ok" /\ m \in Effects(s, req)
    \/ kind \in {"Command", "Partial", "Unreconciled"} /\ m \in PartialEffects(s, req)

(* A handler goes on, having changed nothing; or it answers.               *)
Goes(s) == /\ UNCHANGED <<hand, mpd, call, inbox>>
           /\ Ran(pc', wire', frame', Request, s, mpd)
Ends(s) == \E result \in ResultSet : Reply(result) /\ Fits(result.kind, s, mpd, Request)

(* A handler that awaits an answer goes on: the command fails at once when *)
(* the connection is broken.                                               *)
LEMMA AwaitGoes ==
    ASSUME NEW s, NEW point, NEW cmd, Await(point, cmd),
           \A w : w.cmd = cmd /\ w.at \in {"sent", "err"}
                    => Ran(point, w, frame', Request, s, mpd)
    PROVE  Goes(s)
<1>1. UNCHANGED <<hand, mpd, call, inbox>> /\ pc' = point
  BY DEF Await, callers
<1>2. wire'.at \in {"sent", "err"} /\ wire'.cmd = cmd
  BY SendType DEF Await
<1> QED BY <1>1, <1>2 DEF Goes

(* MPD answers the command in flight.                                      *)
LEMMA AnswerRan ==
    ASSUME NEW point \in HandlerPoints, NEW w, NEW v, NEW f \in FrameSet, NEW req, NEW log0,
           NEW s \in MpdStates, NEW m \in MpdStates, InHand(point, w, f, req, log0),
           Ran(point, w, f, req, s, m), w.at = "sent", NEW o \in Outcomes(m, w.cmd),
           v.cmd = w.cmd, v.at = IF o.ok THEN "ok" ELSE "err", v.status = StatusOf(m)
    PROVE  Ran(point, v, f, req, s, o.mpd)
<1>1. f.added \in Nat
  BY DEF FrameSet
<1>2. ~ o.ok \/ w.cmd.name \in Queries => o.mpd = m
  BY RefusedIsUnchanged
<1>3. CASE point = "action"
  <2>1. m = s /\ Accepted(s, w.cmd) \subseteq Effects(s, req)
    BY <1>3 DEF Ran
  <2>2. o.ok => o.mpd \in Accepted(s, w.cmd)
    BY <2>1 DEF Accepted
  <2> QED BY <1>2, <1>3, <2>1, <2>2 DEF Ran
<1>4. CASE point \in {"toggle", "move_after_current", "enqueue_before"}
  <2>1. m = s /\ w.cmd.name \in Queries
    BY <1>4 DEF Ran, InHand, Queries
  <2> QED BY <1>2, <1>4, <2>1 DEF Ran
<1>5. CASE point = "enqueue_add"
  <2>1. m \in AddedTo(s, f.added) /\ w.cmd.name = "add"
        /\ f.status.playlist_length = Len(s.queue)
    BY <1>5 DEF Ran, InHand
  <2>2. o.ok => o.mpd \in AddedTo(s, f.added + 1)
    <3> SUFFICES ASSUME o.ok PROVE o.mpd \in AddedTo(s, f.added + 1)
      OBVIOUS
    <3>1. FreeIds(m) # {} /\ o.mpd = Added(m)
      BY <2>1, AddOutcome
    <3> QED BY <1>1, <2>1, <3>1, AddedOneMore
  <2> QED BY <1>2, <1>5, <2>1, <2>2 DEF Ran
<1>6. CASE point \in {"enqueue_after", "enqueue_play"}
  <2>1. PICK n \in Taken(f, Len(req.paths)), x \in MpdStates :
          s.queue = <<>> /\ x \in AddedTo(s, n) /\ m = x
    BY <1>6 DEF Ran
  <2>2. CASE point = "enqueue_after"
    <3>1. o.mpd = m
      BY <1>2, <2>2 DEF InHand, Queries
    <3>2. StatusOf(m).playlist_length = Len(m.queue)
      BY DEF StatusOf
    <3> QED BY <2>1, <2>2, <3>1, <3>2 DEF Ran
  <2>3. CASE point = "enqueue_play"
    <3>1. o.ok /\ o.mpd = PlayCurrent(m)
      BY <2>3, PlayOutcome DEF InHand
    <3> QED BY <2>1, <2>3, <3>1 DEF Ran
  <2> QED BY <1>6, <2>2, <2>3
<1> QED BY <1>3, <1>4, <1>5, <1>6 DEF HandlerPoints, AwaitPoints

(* The connection breaks under a command.                                  *)
LEMMA BreakRan ==
    ASSUME NEW point, NEW w, NEW v, NEW f, NEW req, NEW s, NEW m, Ran(point, w, f, req, s, m),
           w.at \in {"sent", "ok"}, v.at = "err", v.cmd = w.cmd
    PROVE  Ran(point, v, f, req, s, m)
  BY DEF Ran

(* A request taken from the channel finds MPD as it is.                    *)
LEMMA FirstRan ==
    ASSUME NEW req \in RequestSet, ~ Panics(req), ~ NothingToDo(req), NEW w,
           w.cmd = FirstCommand(req), w.at \in {"sent", "err"}, NEW m
    PROVE  Ran(FirstPoint(req), w, NoFrame, req, m, m)
<1>1. CASE req.kind \in {"toggle", "move_after_current", "enqueue"}
  BY <1>1 DEF FirstPoint, Ran, NothingToDo
<1>2. CASE req.kind \in {"action", "setvol"}
  <2>1. Accepted(m, FirstCommand(req)) \subseteq Effects(m, req)
    <3>1. CASE req.kind = "action"
      BY <3>1 DEF FirstCommand, Effects
    <3>2. CASE req.kind = "setvol"
      <4>1. req.level \in 0..255
        BY <3>2 DEF RequestSet
      <4> PICK level : level = IF req.level < 100 THEN req.level ELSE 100
        OBVIOUS
      <4>2. FirstCommand(req) = [name |-> "setvol", level |-> level] /\ level \in Volumes
            /\ Effects(m, req) = {WithVolume(m, level)}
        BY <3>2, <4>1 DEF FirstCommand, Effects, Volumes
      <4>3. ASSUME NEW o \in Outcomes(m, FirstCommand(req)) PROVE o.mpd = WithVolume(m, level)
        <5>1. o \in PlainOutcomes(m, FirstCommand(req))
          BY <4>2 DEF Outcomes, SongCommands
        <5> QED BY <4>2, <5>1 DEF PlainOutcomes, Ok
      <4> QED BY <4>2, <4>3 DEF Accepted
    <3> QED BY <1>2, <3>1, <3>2
  <2>2. FirstPoint(req) = "action"
    BY <1>2 DEF FirstPoint
  <2> QED BY <2>1, <2>2 DEF Ran
<1> QED BY <1>1, <1>2 DEF RequestSet, Panics

(* The handlers of one command, toggle and play-next.                      *)
LEMMA ActionRan ==
    ASSUME IInv, History, hand # NONE, NEW s \in MpdStates,
           Ran(pc, wire, frame, Request, s, mpd),
           ActionReplies \/ ToggleReadStatus \/ MoveReadStatus
    PROVE  Goes(s) \/ Ends(s)
<1>1. /\ InHand(pc, wire, frame, Request, log[hand]) /\ Request \in RequestSet
      /\ \A kind \in {"Ok", "Command"} : Result(kind) \in ResultSet /\ Result(kind).kind = kind
  BY HandFacts, ResultType DEF Result
<1>2. s \in PartialEffects(s, Request) /\ Effects(s, Request) \subseteq PartialEffects(s, Request)
  BY DEF PartialEffects
<1>3. ASSUME Reply(Result("Command")), mpd \in PartialEffects(s, Request) PROVE Ends(s)
  BY <1>1, <1>3 DEF Ends, Fits
<1>4. ASSUME Reply(Result("Ok")), mpd \in Effects(s, Request) PROVE Ends(s)
  BY <1>1, <1>4 DEF Ends, Fits
<1>5. ASSUME ActionReplies PROVE Ends(s)
  <2>1. pc = "action"
    BY <1>5 DEF ActionReplies, Resumes
  <2>2. CASE Resumes("action", "ok")
    <3>1. wire.at = "ok" /\ Reply(Result("Ok"))
      BY <1>5, <2>2 DEF ActionReplies, Resumes
    <3>2. mpd \in Effects(s, Request)
      BY <2>1, <3>1 DEF Ran
    <3> QED BY <1>4, <3>1, <3>2
  <2>3. CASE ~ Resumes("action", "ok")
    <3>1. Reply(Result("Command"))
      BY <1>5, <2>3 DEF ActionReplies
    <3>2. mpd \in PartialEffects(s, Request)
      BY <1>2, <2>1 DEF Ran
    <3> QED BY <1>3, <3>1, <3>2
  <2> QED BY <2>2, <2>3
<1>6. ASSUME ToggleReadStatus PROVE Goes(s) \/ Ends(s)
  <2>1. pc = "toggle" /\ mpd = s
    BY <1>6 DEF ToggleReadStatus, Resumes, Ran
  <2>2. CASE Resumes("toggle", "ok")
    <3> PICK cmd : cmd = [name |-> IF wire.status.state = "play" THEN "pause" ELSE "play"]
      OBVIOUS
    <3>1. wire.at = "ok" /\ Await("action", cmd)
      BY <1>6, <2>2 DEF ToggleReadStatus, Resumes
    <3>2. wire.status.state = s.state
      BY <2>1, <3>1 DEF Ran, StatusOf
    <3>3. Request.kind = "toggle"
      BY <1>1, <2>1 DEF InHand
    <3>4. Accepted(s, cmd) \subseteq Effects(s, Request)
      BY <3>2, <3>3 DEF Effects
    <3>5. \A w : w.cmd = cmd /\ w.at \in {"sent", "err"}
                     => Ran("action", w, frame', Request, s, mpd)
      BY <2>1, <3>4 DEF Ran
    <3> QED BY <3>1, <3>5, AwaitGoes
  <2>3. CASE ~ Resumes("toggle", "ok")
    <3>1. Reply(Result("Command"))
      BY <1>6, <2>3 DEF ToggleReadStatus
    <3> QED BY <1>2, <1>3, <2>1, <3>1
  <2> QED BY <2>2, <2>3
<1>7. ASSUME MoveReadStatus PROVE Goes(s) \/ Ends(s)
  <2> PICK current : current = wire.status.current_song
    OBVIOUS
  <2>1. pc = "move_after_current" /\ mpd = s
    BY <1>7 DEF MoveReadStatus, Resumes, Ran
  <2>2. CASE Resumes("move_after_current", "err")
    <3>1. Reply(Result("Command"))
      BY <1>7, <2>2 DEF MoveReadStatus, Resumes
    <3> QED BY <1>2, <1>3, <2>1, <3>1
  <2>3. CASE ~ Resumes("move_after_current", "err")
    <3>1. wire.at = "ok"
      BY <1>7, <2>3 DEF MoveReadStatus, Resumes
    <3>2. current = CurrentSongOf(s)
      BY <2>1, <3>1 DEF Ran, StatusOf
    <3>3. Request.kind = "move_after_current"
      BY <1>1, <2>1 DEF InHand
    <3>4. CASE TargetMatchesCurrent(Request.target, current)
      <4>1. Reply(Result("Ok"))
        BY <1>7, <2>3, <3>4 DEF MoveReadStatus
      <4>2. s \in Effects(s, Request)
        BY <3>2, <3>3, <3>4 DEF Effects
      <4> QED BY <1>4, <2>1, <4>1, <4>2
    <3>5. CASE ~ TargetMatchesCurrent(Request.target, current)
      <4> PICK cmd : cmd = IF current # NONE
                           THEN [name |-> "move_after_current", target |-> Request.target]
                           ELSE [name |-> "move", target |-> Request.target, to |-> 0]
        OBVIOUS
      <4>1. Await("action", cmd)
        BY <1>7, <2>3, <3>5 DEF MoveReadStatus
      <4>2. Accepted(s, cmd) \subseteq Effects(s, Request)
        BY <3>2, <3>3, <3>5 DEF Effects
      <4>3. \A w : w.cmd = cmd /\ w.at \in {"sent", "err"}
                     => Ran("action", w, frame', Request, s, mpd)
        BY <2>1, <4>2 DEF Ran
      <4> QED BY <4>1, <4>3, AwaitGoes
    <3> QED BY <3>4, <3>5
  <2> QED BY <2>2, <2>3
<1> QED BY <1>5, <1>6, <1>7

(* The end of an enqueue's loop.                                           *)
LEMMA EndsRan ==
    ASSUME IInv, History, hand # NONE, Request.kind = "enqueue", NEW s \in MpdStates,
           NEW f \in FrameSet, NEW n \in Taken(f, Len(Request.paths)), mpd \in AddedTo(s, n),
           f.added > 0 => f.status.playlist_length = Len(s.queue),
           f.failed = FALSE => f.added > 0, EnqueueEnds(f)
    PROVE  Goes(s) \/ Ends(s)
<1> DEFINE total == Len(Request.paths)
<1>1. total \in Nat /\ f.added \in Nat /\ f.failed \in BOOLEAN /\ n \in Nat
  BY HandFacts DEF FrameSet, RequestSet, Taken
<1>2. mpd \in MpdStates /\ Len(s.queue) \in Nat /\ s.queue \in Seq(SongIds)
  BY FieldsType DEF IInv, TypeOK, ServerTypeOK
<1>3. CASE f.added > 0 /\ f.status.playlist_length = 0
  <2>1. Await("enqueue_after", [name |-> "status"]) /\ frame' = f
    BY <1>3 DEF EnqueueEnds
  <2>2. s.queue = <<>>
    BY <1>2, <1>3
  <2>3. \A w : w.at \in {"sent", "err"} => Ran("enqueue_after", w, frame', Request, s, mpd)
    BY <1>2, <2>1, <2>2 DEF Ran
  <2> QED BY <2>1, <2>3, AwaitGoes
<1>4. CASE ~ (f.added > 0 /\ f.status.playlist_length = 0)
  <2>1. n <= total
    BY <1>1 DEF Taken
  <2>2. mpd \in PartialEffects(s, Request)
    <3>1. n \in 0..Len(Request.paths)
      BY <1>1, <2>1
    <3> QED BY <1>1, <3>1, AddedIsPartial
  <2>3. CASE f.failed = FALSE
    <3>1. Reply(Result("Ok")) /\ Result("Ok") \in ResultSet
      BY <1>4, <2>3, ResultType DEF EnqueueEnds
    <3>2. n = total /\ s.queue # <<>>
      BY <1>4, <2>3 DEF Taken
    <3>3. mpd \in Effects(s, Request)
      BY <3>2 DEF Effects, Autoplayed
    <3> QED BY <3>1, <3>3 DEF Ends, Fits, Result
  <2>4. CASE f.failed = TRUE /\ f.added = 0
    <3>1. Reply(Result("Command")) /\ Result("Command") \in ResultSet
      BY <1>4, <2>4, ResultType DEF EnqueueEnds
    <3> QED BY <2>2, <3>1 DEF Ends, Fits, Result
  <2>5. CASE f.failed = TRUE /\ f.added # 0
    <3>1. Reply(Counted("Partial", f.added)) /\ Counted("Partial", f.added) \in ResultSet
      BY <1>1, <1>4, <2>5, ResultType DEF EnqueueEnds
    <3> QED BY <2>2, <3>1 DEF Ends, Fits, Counted
  <2> QED BY <1>1, <2>3, <2>4, <2>5
<1> QED BY <1>3, <1>4

(* The next path of an enqueue.                                            *)
LEMMA NextPathRan ==
    ASSUME IInv, History, hand # NONE, Request.kind = "enqueue", Request.paths # <<>>,
           NEW s \in MpdStates, NEW f \in FrameSet, f.failed = FALSE,
           f.added <= Len(Request.paths), f.status.playlist_length = Len(s.queue),
           mpd \in AddedTo(s, f.added), EnqueueNextPath(f)
    PROVE  Goes(s) \/ Ends(s)
<1> DEFINE total == Len(Request.paths)
<1>1. total \in Nat /\ f.added \in Nat /\ total > 0
  BY HandFacts DEF FrameSet, RequestSet
<1>2. CASE f.added = total
  <2>1. f.added \in Taken(f, total) /\ f.added > 0
    BY <1>1, <1>2 DEF Taken
  <2> QED BY <1>2, <2>1, EndsRan DEF EnqueueNextPath
<1>3. CASE f.added # total /\ Request.paths[f.added + 1] \in BadPaths
  <2> DEFINE g == [f EXCEPT !.failed = TRUE]
  <2>1. g \in FrameSet /\ g.added = f.added /\ g.failed = TRUE /\ g.status = f.status
    BY FrameUpdatesType DEF FrameSet
  <2>2. EnqueueEnds(g)
    BY <1>3 DEF EnqueueNextPath
  <2> HIDE DEF g
  <2>3. f.added \in Taken(g, total)
    BY <1>1, <1>3, <2>1 DEF Taken
  <2> QED BY <2>1, <2>2, <2>3, EndsRan
<1>4. CASE f.added # total /\ Request.paths[f.added + 1] \notin BadPaths
  <2>1. PICK path : Await("enqueue_add", [name |-> "add", path |-> path]) /\ frame' = f
    BY <1>4 DEF EnqueueNextPath
  <2>2. \A w : w.at \in {"sent", "err"} => Ran("enqueue_add", w, frame', Request, s, mpd)
    BY <2>1 DEF Ran
  <2> QED BY <2>1, <2>2, AwaitGoes
<1> QED BY <1>2, <1>3, <1>4

(* What is reported once playback is settled.                              *)
LEMMA SettledRan ==
    ASSUME IInv, History, hand # NONE, Request.kind = "enqueue", frame.added > 0,
           NEW s \in MpdStates, s.queue = <<>>,
           NEW n \in Taken(frame, Len(Request.paths)), NEW x \in AddedTo(s, n),
           NEW ok \in BOOLEAN, mpd = PlayCurrent(x) \/ (mpd = x /\ ~ ok), EnqueueReply(ok)
    PROVE  Ends(s)
<1> DEFINE total == Len(Request.paths)
<1>1. total \in Nat /\ frame.added \in Nat /\ frame.failed \in BOOLEAN
  BY HandFacts DEF FrameSet, RequestSet
<1>2. n \in 0..total /\ n > 0
  BY <1>1 DEF Taken
<1>3. Autoplayed(s, x) = PlayCurrent(x)
  BY DEF Autoplayed
<1>4. mpd \in PartialEffects(s, Request)
  BY <1>1, <1>2, <1>3, AddedIsPartial
<1>5. CASE frame.failed = TRUE
  <2>1. Reply(Counted("Partial", frame.added)) /\ Counted("Partial", frame.added) \in ResultSet
    BY <1>1, <1>5, ResultType DEF EnqueueReply
  <2> QED BY <1>4, <2>1 DEF Ends, Fits, Counted
<1>6. CASE frame.failed = FALSE /\ ok
  <2>1. Reply(Result("Ok")) /\ Result("Ok") \in ResultSet
    BY <1>6, ResultType DEF EnqueueReply
  <2>2. n = total /\ mpd = Autoplayed(s, x)
    BY <1>3, <1>6 DEF Taken
  <2>3. mpd \in Effects(s, Request)
    BY <2>2 DEF Effects
  <2> QED BY <2>1, <2>3 DEF Ends, Fits, Result
<1>7. CASE frame.failed = FALSE /\ ~ ok
  <2>1. Reply(Counted("Unreconciled", frame.added))
        /\ Counted("Unreconciled", frame.added) \in ResultSet
    BY <1>1, <1>7, ResultType DEF EnqueueReply
  <2> QED BY <1>4, <2>1 DEF Ends, Fits, Counted
<1> QED BY <1>1, <1>5, <1>6, <1>7

(* The steps of an enqueue.                                                *)
LEMMA EnqueueRan ==
    ASSUME IInv, History, hand # NONE, NEW s \in MpdStates,
           Ran(pc, wire, frame, Request, s, mpd),
           EnqueueReadBefore \/ EnqueueAdded \/ EnqueueReadAfter \/ EnqueueAutoplayed
    PROVE  Goes(s) \/ Ends(s)
<1>1. pc \in {"enqueue_before", "enqueue_add", "enqueue_after", "enqueue_play"}
  BY DEF EnqueueReadBefore, EnqueueAdded, EnqueueReadAfter, EnqueueAutoplayed, Resumes
<1> DEFINE total == Len(Request.paths)
<1>2. InHand(pc, wire, frame, Request, log[hand]) /\ frame \in FrameSet
  BY HandFacts
<1>3. Request.kind = "enqueue"
  BY <1>1, <1>2 DEF InHand
<1>4. total \in Nat /\ frame.added \in Nat
  BY <1>3, HandFacts DEF FrameSet, RequestSet
<1>5. ASSUME EnqueueReadBefore PROVE Goes(s) \/ Ends(s)
  <2>1. mpd = s /\ Request.paths # <<>> /\ frame = NoFrame
    <3>1. pc = "enqueue_before"
      BY <1>5 DEF EnqueueReadBefore, Resumes
    <3> QED BY <1>2, <3>1 DEF Ran, InHand
  <2>2. CASE Resumes("enqueue_before", "ok")
    <3> DEFINE f == [frame EXCEPT !.status = wire.status]
    <3>1. pc = "enqueue_before" /\ wire.at = "ok" /\ EnqueueNextPath(f)
      BY <1>5, <2>2 DEF EnqueueReadBefore, Resumes
    <3>2. wire.status \in StatusSet
      BY <3>1 DEF IInv, TypeOK, WireTypeOK
    <3>3. wire.status.playlist_length = Len(s.queue)
      BY <3>1 DEF Ran, StatusOf
    <3>4. f \in FrameSet /\ f.added = 0 /\ f.failed = FALSE
          /\ f.status.playlist_length = Len(s.queue)
      BY <1>2, <2>1, <3>2, <3>3, FrameUpdatesType DEF NoFrame
    <3> HIDE DEF f
    <3>5. mpd \in AddedTo(s, f.added) /\ f.added <= Len(Request.paths)
      BY <1>4, <2>1, <3>4, NoneAdded
    <3> QED BY <1>3, <2>1, <3>1, <3>4, <3>5, NextPathRan
  <2>3. CASE ~ Resumes("enqueue_before", "ok")
    <3>1. Reply(Result("Command")) /\ Result("Command") \in ResultSet
      BY <1>5, <2>3, ResultType DEF EnqueueReadBefore
    <3>2. mpd \in PartialEffects(s, Request)
      BY <2>1 DEF PartialEffects
    <3> QED BY <3>1, <3>2 DEF Ends, Fits, Result
  <2> QED BY <2>2, <2>3
<1>6. ASSUME EnqueueAdded PROVE Goes(s) \/ Ends(s)
  <2>1. pc = "enqueue_add" /\ frame.failed = FALSE /\ frame.added < total
        /\ frame.status.playlist_length = Len(s.queue)
    <3>1. pc = "enqueue_add"
      BY <1>6 DEF EnqueueAdded, Resumes
    <3> QED BY <1>2, <3>1 DEF Ran, InHand
  <2>2. CASE Resumes("enqueue_add", "ok")
    <3> DEFINE f == [frame EXCEPT !.added = @ + 1]
    <3>1. wire.at = "ok" /\ EnqueueNextPath(f)
      BY <1>6, <2>2 DEF EnqueueAdded, Resumes
    <3>2. f \in FrameSet /\ f.added = frame.added + 1 /\ f.failed = FALSE
          /\ f.status = frame.status
      BY <1>2, <2>1, FrameUpdatesType DEF FrameSet
    <3> HIDE DEF f
    <3>3. mpd \in AddedTo(s, f.added)
      BY <2>1, <3>1, <3>2 DEF Ran
    <3>4. f.added <= Len(Request.paths) /\ Request.paths # <<>>
      BY <1>4, <2>1, <3>2
    <3> QED BY <1>3, <2>1, <3>1, <3>2, <3>3, <3>4, NextPathRan
  <2>3. CASE ~ Resumes("enqueue_add", "ok")
    <3> DEFINE f == [frame EXCEPT !.failed = TRUE]
    <3>1. wire.at = "err" /\ EnqueueEnds(f)
      BY <1>6, <2>3 DEF EnqueueAdded, Resumes
    <3>2. f \in FrameSet /\ f.added = frame.added /\ f.failed = TRUE /\ f.status = frame.status
      BY <1>2, FrameUpdatesType DEF FrameSet
    <3> HIDE DEF f
    <3>3. frame.added \in Taken(f, total) /\ frame.added + 1 \in Taken(f, total)
      BY <1>4, <2>1, <3>2 DEF Taken
    <3>4. mpd \in AddedTo(s, frame.added) \/ mpd \in AddedTo(s, frame.added + 1)
      BY <2>1, <3>1 DEF Ran
    <3> QED BY <1>3, <2>1, <3>1, <3>2, <3>3, <3>4, EndsRan
  <2> QED BY <2>2, <2>3
<1>7. ASSUME EnqueueReadAfter \/ EnqueueAutoplayed PROVE Goes(s) \/ Ends(s)
  <2>1. pc \in {"enqueue_after", "enqueue_play"}
    BY <1>7 DEF EnqueueReadAfter, EnqueueAutoplayed, Resumes
  <2>2. frame.added > 0 /\ s.queue = <<>>
    BY <1>2, <2>1 DEF InHand, Ran
  <2>3. PICK n \in Taken(frame, total), x \in MpdStates :
          /\ x \in AddedTo(s, n)
          /\ \/ mpd = x /\ (pc = "enqueue_play" => wire.at # "ok")
             \/ mpd = PlayCurrent(x) /\ pc = "enqueue_play" /\ wire.at \in {"ok", "err"}
    BY <2>1 DEF Ran
  <2>4. CASE EnqueueReadAfter /\ Resumes("enqueue_after", "err")
    <3>1. EnqueueReply(FALSE) /\ mpd = x
      BY <2>3, <2>4 DEF EnqueueReadAfter, Resumes
    <3> QED BY <1>3, <2>2, <2>3, <3>1, SettledRan
  <2>5. CASE EnqueueReadAfter /\ ~ Resumes("enqueue_after", "err")
    <3>1. pc = "enqueue_after" /\ wire.at = "ok" /\ mpd = x
      BY <2>3, <2>5 DEF EnqueueReadAfter, Resumes
    <3>2. wire.status.playlist_length = Len(mpd.queue)
      BY <3>1 DEF Ran
    <3>3. n \in Nat /\ n > 0
      BY <1>4, <2>2 DEF Taken
    <3>4. Len(mpd.queue) = Len(s.queue) + n /\ Len(s.queue) \in Nat
      BY <2>3, <3>1, <3>3, AddedLength
    <3>5. Await("enqueue_play", [name |-> "play"]) /\ frame' = frame
      <4>1. wire.status.playlist_length > 0 /\ wire.status.playlist_length # 0
        BY <3>2, <3>3, <3>4
      <4> QED BY <2>5, <4>1 DEF EnqueueReadAfter
    <3>6. \A w : w.at \in {"sent", "err"} => Ran("enqueue_play", w, frame', Request, s, mpd)
      <4> SUFFICES ASSUME NEW w, w.at \in {"sent", "err"}
                   PROVE  Ran("enqueue_play", w, frame', Request, s, mpd)
        OBVIOUS
      <4> QED BY <2>2, <2>3, <3>1, <3>5 DEF Ran
    <3> QED BY <3>5, <3>6, AwaitGoes
  <2>6. CASE EnqueueAutoplayed
    <3>1. pc = "enqueue_play" /\ ((EnqueueReply(TRUE) /\ wire.at = "ok") \/ EnqueueReply(FALSE))
      BY <2>6 DEF EnqueueAutoplayed, Resumes
    <3>2. CASE EnqueueReply(TRUE) /\ wire.at = "ok"
      <4>1. mpd = PlayCurrent(x)
        BY <2>3, <3>1, <3>2
      <4> QED BY <1>3, <2>2, <2>3, <3>2, <4>1, SettledRan
    <3>3. CASE EnqueueReply(FALSE)
      BY <1>3, <2>2, <2>3, <3>3, SettledRan
    <3> QED BY <3>1, <3>2, <3>3
  <2> QED BY <1>7, <2>4, <2>5, <2>6
<1> QED BY <1>5, <1>6, <1>7

(* While a request is in hand and nobody else changes MPD, every step      *)
(* agrees with what its handler has done, or ends it.                      *)
LEMMA RanKept ==
    ASSUME IInv, History, hand # NONE, NEW s \in MpdStates,
           Ran(pc, wire, frame, Request, s, mpd), Next, ~ MpdChanges
    PROVE  \/ hand' = hand /\ Ran(pc', wire', frame', call'[hand].req, s, mpd')
           \/ Ends(s)
<1>1. pc \in HandlerPoints /\ hand \in Calls /\ call \in [Calls -> CallSet]
      /\ call[hand].at # "new"
  BY HandFacts DEF IInv, TypeOK, CallersTypeOK
<1>2. CASE CallersStep
  <2>1. UNCHANGED <<mpd, pc, wire, frame, hand>>
    BY <1>2 DEF CallersStep, Issue, Accept, SendFails, Abandon, DropHandles, server, actor
  <2>2. ASSUME NEW c \in Calls, NEW req \in Requests, Issue(c, req)
        PROVE  call'[hand].req = call[hand].req
    <3>1. c # hand /\ call' = [call EXCEPT ![c].at = "sending", ![c].req = req]
      BY <1>1, <2>2 DEF Issue
    <3> QED BY <1>1, <3>1
  <2>3. ASSUME NEW c \in Calls, Accept(c) \/ SendFails(c) \/ Abandon(c)
        PROVE  call'[hand].req = call[hand].req
    BY <1>1, <2>3 DEF Accept, SendFails, Abandon, CallSet
  <2>4. DropHandles => call'[hand].req = call[hand].req
    BY DEF DropHandles
  <2>5. call'[hand].req = call[hand].req
    BY <1>2, <2>2, <2>3, <2>4 DEF CallersStep
  <2> QED BY <2>1, <2>5 DEF Request
<1>3. CASE LinkBreaks
  <2>1. /\ UNCHANGED <<mpd, pc, frame, hand, call>>
        /\ wire' = wire \/ (wire.at \in {"sent", "ok"} /\ wire' = [at |-> "err", cmd |-> wire.cmd])
    BY <1>3 DEF LinkBreaks, callers, actor
  <2>2. CASE wire' = wire
    BY <2>1, <2>2 DEF Request
  <2>3. CASE wire.at \in {"sent", "ok"} /\ wire' = [at |-> "err", cmd |-> wire.cmd]
    <3>1. wire'.at = "err" /\ wire'.cmd = wire.cmd
      BY <2>3
    <3>2. Ran(pc, wire', frame, Request, s, mpd)
      BY <2>3, <3>1, BreakRan
    <3> QED BY <2>1, <3>2 DEF Request
  <2> QED BY <2>1, <2>2, <2>3
<1>4. CASE MpdAnswers
  <2>1. PICK outcome \in Outcomes(mpd, wire.cmd) :
          /\ mpd' = outcome.mpd
          /\ wire' = [at |-> IF outcome.ok THEN "ok" ELSE "err", cmd |-> wire.cmd,
                      status |-> StatusOf(mpd), song |-> CurrentSongOf(mpd)]
    BY <1>4 DEF MpdAnswers
  <2>2. wire.at = "sent" /\ UNCHANGED <<pc, frame, hand, call>>
    BY <1>4 DEF MpdAnswers, actor
  <2>3. wire'.cmd = wire.cmd /\ wire'.at = (IF outcome.ok THEN "ok" ELSE "err")
        /\ wire'.status = StatusOf(mpd)
    BY <2>1
  <2>4. mpd \in MpdStates /\ frame \in FrameSet /\ InHand(pc, wire, frame, Request, log[hand])
    BY HandFacts DEF IInv, TypeOK, ServerTypeOK
  <2>5. Ran(pc, wire', frame, Request, s, outcome.mpd)
    BY <1>1, <2>2, <2>3, <2>4, AnswerRan
  <2> QED BY <2>1, <2>2, <2>5 DEF Request
<1>5. CASE ActorStep
  <2>1. ActionReplies \/ ToggleReadStatus \/ MoveReadStatus
        \/ EnqueueReadBefore \/ EnqueueAdded \/ EnqueueReadAfter \/ EnqueueAutoplayed
    BY <1>1, <1>5
       DEF ActorStep, ConnectOk, ConnectErr, DrainReject, BackoffElapsed, Shutdown, SessionRecv,
           RecvRequest, RecvNothingToDo, RecvPanics, NextEvent, ConnectionClosed, Resume,
           PublishReadSong, PublishDone, Resumes, HandlerPoints, AwaitPoints
  <2>2. Goes(s) \/ Ends(s)
    BY <2>1, ActionRan, EnqueueRan
  <2> QED BY <2>2 DEF Goes, Request
<1> QED BY <1>2, <1>3, <1>4, <1>5 DEF Next, ServerStep

(* A request taken into the hand has done nothing yet.                     *)
LEMMA RanStarts ==
    ASSUME IInv, History, hand = NONE, Next, hand' # NONE
    PROVE  /\ RecvRequest /\ UNCHANGED <<mpd, call>> /\ hand' = Head(inbox) /\ inbox # <<>>
           /\ inbox' = Tail(inbox)
           /\ Ran(pc', wire', frame', call[hand'].req, mpd, mpd)
<1>1. pc \notin HandlerPoints
  BY DEF IInv, TypeOK, ActorTypeOK
<1>2. RecvRequest
  BY <1>1 DEF Next, CallersStep, Issue, Accept, SendFails, Abandon, DropHandles, ServerStep,
           MpdAnswers, MpdChanges, LinkBreaks, ActorStep, ConnectOk, ConnectErr, DrainReject,
           BackoffElapsed, Shutdown, SessionRecv, RecvNothingToDo, RecvPanics, NextEvent,
           ConnectionClosed, Resume, PublishReadSong, PublishDone, Await, Reply, Resumes,
           HandlerPoints, AwaitPoints, ActionReplies, ToggleReadStatus, MoveReadStatus,
           EnqueueReadBefore, EnqueueAdded, EnqueueReadAfter, EnqueueAutoplayed, actor
<1> PICK c : c = Head(inbox)
  OBVIOUS
<1>3. /\ inbox # <<>> /\ hand' = c /\ UNCHANGED <<mpd, call, frame>> /\ inbox' = Tail(inbox)
      /\ ~ Panics(call[c].req) /\ ~ NothingToDo(call[c].req) /\ pc = "select"
      /\ pc' = FirstPoint(call[c].req) /\ Send(FirstCommand(call[c].req))
  BY <1>2 DEF RecvRequest, callers
<1>4. frame = NoFrame
  BY <1>1, <1>3 DEF History, FrameIsReset
<1>5. call[c].req \in RequestSet
  <2>1. c \in Calls /\ Places(c) # {}
    BY <1>3 DEF IInv, TypeOK, ActorTypeOK, Places
  <2>2. call[c].at # "new"
    BY <2>1 DEF IInv, CallsAreHeldOnce
  <2> QED BY <2>1, <2>2, RequestsAssumption DEF IInv, TypeOK, CallersTypeOK
<1>6. wire'.at \in {"sent", "err"} /\ wire'.cmd = FirstCommand(call[c].req)
  BY <1>3, SendType
<1>7. Ran(FirstPoint(call[c].req), wire', NoFrame, call[c].req, mpd, mpd)
  BY <1>3, <1>5, <1>6, FirstRan
<1> QED BY <1>2, <1>3, <1>4, <1>7

-----------------------------------------------------------------------------
(* Autoplay *)

(* As long as nobody else has changed MPD, it is what the handler in       *)
(* progress has made of what its request found.                            *)
Alone == spontaneous = 0 /\ hand # NONE
            => \E s \in MpdStates : Ran(pc, wire, frame, Request, s, mpd)

(* Every change of MPD by somebody else is counted.                        *)
LEMMA ChangesAreCounted ==
    ASSUME TypeOK, Next
    PROVE  spontaneous \in Nat /\ (IF MpdChanges THEN spontaneous' = spontaneous + 1
                                                 ELSE spontaneous' = spontaneous)
<1>1. spontaneous \in Nat
  BY BoundAssumption DEF TypeOK, ServerTypeOK
<1>2. CASE ServerStep
  BY <1>1, <1>2 DEF ServerStep, MpdAnswers, MpdChanges, LinkBreaks
<1>3. CASE CallersStep
  BY <1>1, <1>3 DEF CallersStep, Issue, Accept, SendFails, Abandon, DropHandles, server, MpdChanges
<1>4. CASE ActorStep
  <2>1. spontaneous' = spontaneous
    BY <1>4, ResumeShape DEF ActorStep, ConnectOk, ConnectErr, DrainReject, BackoffElapsed, Shutdown,
        SessionRecv, RecvRequest, RecvNothingToDo, RecvPanics, NextEvent, ConnectionClosed,
        PublishReadSong, PublishDone, HandlerAwaits, HandlerReplies, Await, Reply, server
  <2> QED BY <1>1, <2>1 DEF MpdChanges
<1> QED BY <1>2, <1>3, <1>4 DEF Next

(* Every step keeps it.                                                    *)
LEMMA NextAlone == IInv /\ History /\ Alone /\ [Next]_vars => Alone'
<1> SUFFICES ASSUME IInv, History, Alone, [Next]_vars PROVE Alone'
  OBVIOUS
<1>1. CASE UNCHANGED vars
  BY <1>1 DEF vars, server, callers, actor, Alone, Request
<1>2. CASE Next
  <2> SUFFICES ASSUME spontaneous' = 0, hand' # NONE
               PROVE  \E s \in MpdStates : Ran(pc', wire', frame', call'[hand'].req, s, mpd')
    BY DEF Alone, Request
  <2>1. spontaneous = 0 /\ ~ MpdChanges
    BY <1>2, ChangesAreCounted DEF IInv
  <2>2. CASE hand = NONE
    <3>1. mpd' = mpd /\ call' = call /\ Ran(pc', wire', frame', call[hand'].req, mpd, mpd)
      BY <1>2, <2>2, RanStarts
    <3>2. mpd \in MpdStates
      BY DEF IInv, TypeOK, ServerTypeOK
    <3> QED BY <3>1, <3>2
  <2>3. CASE hand # NONE
    <3>1. PICK s \in MpdStates : Ran(pc, wire, frame, Request, s, mpd)
      BY <2>1, <2>3 DEF Alone
    <3>2. ~ Ends(s)
      BY DEF Ends, Reply
    <3>3. hand' = hand /\ Ran(pc', wire', frame', call'[hand].req, s, mpd')
      BY <1>2, <2>1, <2>3, <3>1, <3>2, RanKept
    <3> QED BY <3>3
  <2> QED BY <2>2, <2>3
<1> QED BY <1>1, <1>2

(* Enqueueing into an empty queue starts playback, whatever else is asked  *)
(* meanwhile (mpd.rs autoplay_after_enqueue_if_needed).                    *)
THEOREM EnqueueStartsPlayback == Spec => EnqueueAutoplays
<1>1. Init => Alone
  BY DEF Init, Alone
<1>2. IInv /\ History /\ Alone /\ [Next]_vars =>
        [\A c \in Calls :
           (/\ Replies(c) /\ call'[c].result.kind = "Ok"
            /\ call[c].req.kind = "enqueue" /\ hand = c
            /\ frame.status.playlist_length = 0 /\ spontaneous = 0)
           => mpd.state = "play"]_vars
  <2> SUFFICES ASSUME IInv, History, Alone, Next, NEW c \in Calls, Replies(c),
                      call'[c].result.kind = "Ok", call[c].req.kind = "enqueue", hand = c,
                      frame.status.playlist_length = 0, spontaneous = 0
               PROVE  mpd.state = "play"
    OBVIOUS
  <2> DEFINE total == Len(Request.paths)
  <2>1. hand # NONE /\ ~ MpdChanges
    BY NoCallAssumption DEF MpdChanges, callers, Replies
  <2>2. /\ InHand(pc, wire, frame, Request, log[hand]) /\ frame \in FrameSet
        /\ pc \in HandlerPoints /\ Request.kind = "enqueue" /\ call \in [Calls -> CallSet]
    BY <2>1, HandFacts DEF Request, IInv, TypeOK, CallersTypeOK
  <2>3. total \in Nat /\ frame.added \in Nat
    BY <2>1, <2>2, HandFacts DEF FrameSet, RequestSet
  <2>4. PICK s \in MpdStates : Ran(pc, wire, frame, Request, s, mpd)
    BY <2>1 DEF Alone
  <2>5. Ends(s)
    <3>1. hand' = hand => FALSE
      <4>1. IInv'
        BY NextInvariant
      <4> QED BY <4>1 DEF IInv, CallsAreHeldOnce, Replies
    <3> QED BY <2>1, <2>4, <3>1, RanKept
  <2>6. mpd \in Effects(s, Request)
    <3>1. PICK result \in ResultSet : Reply(result) /\ Fits(result.kind, s, mpd, Request)
      BY <2>5 DEF Ends
    <3>2. call'[c] = Answered(call[c], result)
      BY <2>2, <3>1 DEF Reply
    <3>3. call'[c].result = result
      BY <2>2, <3>2, AnsweredFields DEF Replies
    <3> QED BY <3>1, <3>3 DEF Fits
  <2>7. PICK x \in AddedTo(s, total) : mpd = Autoplayed(s, x)
    BY <2>2, <2>6 DEF Effects
  <2>8. /\ x.queue \in Seq(SongIds) /\ Len(x.queue) = Len(s.queue) + total
        /\ Len(s.queue) \in Nat /\ x \in MpdStates /\ s.queue \in Seq(SongIds)
    BY <2>3, AddedLength, FieldsType
  <2>9. PlayCurrent(x).queue = x.queue /\ (x.queue # <<>> => PlayCurrent(x).state = "play")
    BY <2>8 DEF PlayCurrent, At, MpdStates
  <2>10. pc \in {"enqueue_before", "enqueue_add", "enqueue_after", "enqueue_play"}
    BY <2>2 DEF InHand, HandlerPoints, AwaitPoints
  <2>11. total > 0
    <3>1. CASE pc = "enqueue_before"
      <4>1. Request.paths # <<>> /\ Request.paths \in Seq(Paths)
        BY <2>1, <2>2, <2>4, <3>1, HandFacts DEF Ran, RequestSet
      <4> QED BY <4>1
    <3>2. CASE pc = "enqueue_add"
      BY <2>2, <2>3, <3>2 DEF InHand
    <3>3. CASE pc \in {"enqueue_after", "enqueue_play"}
      BY <2>2, <2>3, <3>3 DEF InHand, Taken
    <3> QED BY <2>10, <3>1, <3>2, <3>3
  <2> HIDE DEF total
  <2>12. Len(x.queue) # Len(s.queue) /\ Len(x.queue) # 0
    BY <2>3, <2>8, <2>11
  <2>13. s.queue = <<>>
    <3>1. CASE pc = "enqueue_before"
      <4>1. mpd.queue = s.queue
        BY <2>4, <3>1 DEF Ran
      <4>2. mpd.queue = x.queue
        BY <2>7, <2>9 DEF Autoplayed
      <4> QED BY <2>12, <4>1, <4>2
    <3>2. CASE pc = "enqueue_add"
      <4>1. Len(s.queue) = 0
        BY <2>4, <3>2 DEF Ran
      <4> QED BY <2>8, <4>1
    <3>3. CASE pc \in {"enqueue_after", "enqueue_play"}
      BY <2>4, <3>3 DEF Ran
    <3> QED BY <2>10, <3>1, <3>2, <3>3
  <2>14. x.queue # <<>>
    BY <2>12
  <2> QED BY <2>7, <2>9, <2>13, <2>14 DEF Autoplayed
<1> QED BY <1>1, <1>2, Invariant, HistoryInvariant, NextAlone, PTL DEF Spec, EnqueueAutoplays

-----------------------------------------------------------------------------
(* The actor implements the service *)

(* The history variable holds what the request in hand found.              *)
Found == /\ start \in MpdStates
         /\ hand = NONE => start = mpd
         /\ hand # NONE => Ran(pc, wire, frame, Request, start, mpd)

(* Where a call stands, for the service.                                   *)
LEMMA PointFacts ==
    ASSUME IInv, NEW c \in Calls
    PROVE  /\ call[c].at \in {"new", "sending", "waiting", "abandoned", "done"}
           /\ Queued(c) => call[c].at \in {"waiting", "abandoned"}
           /\ PointOf(c) = CASE call[c].at \in {"sending", "waiting"} -> "pending"
                              [] call[c].at = "abandoned" /\ Queued(c) -> "gone"
                              [] call[c].at = "new" -> "new"
                              [] OTHER -> "done"
<1>1. call[c] \in CallSet
  BY DEF IInv, TypeOK, CallersTypeOK
<1>2. call[c].at \in {"new", "sending", "waiting", "abandoned", "done"}
  BY <1>1 DEF CallSet
<1>3. Queued(c) => call[c].at \in {"waiting", "abandoned"}
  BY <1>2 DEF IInv, CallsAreHeldOnce, Queued
<1> QED BY <1>2, <1>3 DEF PointOf

(* A step the service does not see.                                        *)
LEMMA ServiceStutters ==
    ASSUME start' = start,
           \A c \in Calls : /\ PointOf(c)' = PointOf(c)
                            /\ call'[c].req = call[c].req /\ call'[c].result = call[c].result
    PROVE  UNCHANGED Service!vars
<1>1. [c \in Calls |-> PointOf(c)]' = [c \in Calls |-> PointOf(c)]
  OBVIOUS
<1>2. [c \in Calls |-> call[c].req]' = [c \in Calls |-> call[c].req]
  OBVIOUS
<1>3. [c \in Calls |-> call[c].result.kind]' = [c \in Calls |-> call[c].result.kind]
  OBVIOUS
<1> QED BY <1>1, <1>2, <1>3 DEF Service!vars

(* A call is served.                                                       *)
LEMMA ServiceServes ==
    ASSUME NEW c \in Calls, PointOf(c) \in {"pending", "gone"}, PointOf(c)' = "done",
           call'[c].req = call[c].req, NEW kind,
           call'[c].result.kind = IF PointOf(c) = "pending" THEN kind ELSE call[c].result.kind,
           Fits(kind, start, start', call[c].req),
           \A d \in Calls \ {c} : PointOf(d)' = PointOf(d) /\ call'[d].req = call[d].req
                                  /\ call'[d].result = call[d].result
    PROVE  Service!Next
<1> DEFINE at == [d \in Calls |-> PointOf(d)]
<1> DEFINE request == [d \in Calls |-> call[d].req]
<1> DEFINE result == [d \in Calls |-> call[d].result.kind]
<1>1. at[c] \in {"pending", "gone"} /\ at' = [at EXCEPT ![c] = "done"]
  OBVIOUS
<1>2. result' = IF at[c] = "pending" THEN [result EXCEPT ![c] = kind] ELSE result
  OBVIOUS
<1>3. request' = request /\ request[c] = call[c].req
  OBVIOUS
<1> HIDE DEF at, request, result
<1>4. Service!Serve(c, kind)
  BY <1>1, <1>2, <1>3 DEF Service!Serve, at, request, result
<1>5. Service!Succeed(c) \/ Service!Fail(c)
  BY <1>3, <1>4 DEF Fits, Service!Succeed, Service!Fail, request
<1> QED BY <1>5 DEF Service!Next

(* Calls are refused together.                                             *)
LEMMA ServiceRefuses ==
    ASSUME NEW group \in SUBSET Calls, group # {}, start' = start,
           NEW kind \in {"Unavailable", "ChannelClosed"},
           \A c \in Calls : call'[c].req = call[c].req,
           \A c \in group : /\ PointOf(c) \in {"pending", "gone"} /\ PointOf(c)' = "done"
                            /\ call'[c].result.kind = IF PointOf(c) = "pending" THEN kind
                                                      ELSE call[c].result.kind,
           \A c \in Calls \ group : PointOf(c)' = PointOf(c) /\ call'[c].result = call[c].result
    PROVE  Service!Next
<1> DEFINE at == [d \in Calls |-> PointOf(d)]
<1> DEFINE request == [d \in Calls |-> call[d].req]
<1> DEFINE result == [d \in Calls |-> call[d].result.kind]
<1>1. \A c \in group : at[c] \in {"pending", "gone"}
  OBVIOUS
<1>2. at' = [c \in Calls |-> IF c \in group THEN "done" ELSE at[c]]
  OBVIOUS
<1>3. result' = [c \in Calls |-> IF c \in group /\ at[c] = "pending" THEN kind ELSE result[c]]
  OBVIOUS
<1>4. request' = request
  OBVIOUS
<1> HIDE DEF at, request, result
<1>5. Service!Refuse(group, kind)
  BY <1>1, <1>2, <1>3, <1>4 DEF Service!Refuse, at, request, result
<1> QED BY <1>5 DEF Service!Next

(* The handler answers the request in hand: the service serves it.         *)
LEMMA HandIsServed ==
    ASSUME IInv, History, Found, hand # NONE, Ends(start), start' = mpd
    PROVE  Service!Next
<1>1. PICK result \in ResultSet : Reply(result) /\ Fits(result.kind, start, mpd, Request)
  BY DEF Ends
<1>2. /\ hand \in Calls /\ call \in [Calls -> CallSet] /\ Places(hand) = {}
      /\ call[hand].at \in {"waiting", "abandoned"}
  BY HandFacts DEF IInv, TypeOK, CallersTypeOK
<1> PICK c \in Calls : c = hand
  BY <1>2
<1>3. /\ call' = [call EXCEPT ![c] = Answered(@, result)] /\ hand' = NONE /\ inbox' = inbox
      /\ Places(c) = {} /\ call[c].at \in {"waiting", "abandoned"}
  BY <1>1, <1>2 DEF Reply
<1>4. call'[c] = Answered(call[c], result)
  BY <1>2, <1>3
<1>5. /\ call'[c].req = call[c].req
      /\ call'[c].at = IF call[c].at = "waiting" THEN "done" ELSE call[c].at
      /\ call'[c].result = IF call[c].at = "waiting" THEN result ELSE call[c].result
  BY <1>2, <1>4, AnsweredFields
<1>6. PointOf(c) = IF call[c].at = "waiting" THEN "pending" ELSE "gone"
  BY <1>2, <1>3 DEF PointOf, Queued
<1>7. PointOf(c)' = "done"
  <2>1. ~ (hand' = c \/ Places(c)' # {})
    BY <1>3, NoCallAssumption DEF Places
  <2> QED BY <1>3, <1>5, <2>1 DEF PointOf, Queued
<1>8. ASSUME NEW d \in Calls \ {c}
      PROVE  call'[d] = call[d] /\ PointOf(d)' = PointOf(d)
  BY <1>2, <1>3, NoCallAssumption DEF PointOf, Queued, Places
<1>9. Fits(result.kind, start, start', call[c].req)
  BY <1>1 DEF Request
<1>10. call'[c].result.kind = IF PointOf(c) = "pending" THEN result.kind ELSE call[c].result.kind
  BY <1>3, <1>5, <1>6
<1> QED BY <1>5, <1>6, <1>7, <1>8, <1>9, <1>10, ServiceServes

(* A request taken from the channel and answered at once leaves it; those  *)
(* of the other calls stay.                                                *)
LEMMA HeadLeaves ==
    ASSUME IInv, hand = NONE, hand' = hand, inbox # <<>>, inbox' = Tail(inbox),
           NEW c, c = Head(inbox), NEW result \in ResultSet,
           call' = [call EXCEPT ![c] = Answered(@, result)]
    PROVE  /\ c \in Calls /\ PointOf(c) \in {"pending", "gone"} /\ PointOf(c)' = "done"
           /\ call'[c].req = call[c].req
           /\ call'[c].result = IF PointOf(c) = "pending" THEN result ELSE call[c].result
           /\ \A d \in Calls \ {c} : call'[d] = call[d] /\ PointOf(d)' = PointOf(d)
<1>1. c \in Calls /\ Places(c) # {} /\ \A d \in Calls : Places(d)' # {} <=> (d # c /\ Places(d) # {})
  BY TakeFirst DEF IInv
<1>2. call \in [Calls -> CallSet]
  BY DEF IInv, TypeOK, CallersTypeOK
<1>3. call[c].at \in {"waiting", "abandoned"} /\ Queued(c)
  BY <1>1, PointFacts DEF Queued
<1>4. call'[c] = Answered(call[c], result)
  BY <1>1, <1>2
<1>5. /\ call'[c].req = call[c].req
      /\ call'[c].at = IF call[c].at = "waiting" THEN "done" ELSE call[c].at
      /\ call'[c].result = IF call[c].at = "waiting" THEN result ELSE call[c].result
  BY <1>1, <1>2, <1>4, AnsweredFields
<1>6. PointOf(c) = IF call[c].at = "waiting" THEN "pending" ELSE "gone"
  BY <1>3 DEF PointOf
<1>7. PointOf(c)' = "done"
  BY <1>1, <1>3, <1>5, NoCallAssumption DEF PointOf, Queued
<1>8. \A d \in Calls \ {c} : call'[d] = call[d] /\ PointOf(d)' = PointOf(d)
  BY <1>1, <1>2 DEF PointOf, Queued
<1> QED BY <1>1, <1>3, <1>5, <1>6, <1>7, <1>8

(* The channel, for the service: a request is refused, has nothing to do,  *)
(* or is dropped with all the others when the task dies.                   *)
LEMMA ChannelIsServed ==
    ASSUME IInv, History, Found, start' = mpd', DrainReject \/ RecvNothingToDo \/ RecvPanics
    PROVE  Service!Next
<1> PICK c : c = Head(inbox)
  OBVIOUS
<1>1. /\ hand = NONE /\ hand' = hand /\ inbox # <<>> /\ start = mpd /\ start' = start
      /\ call \in [Calls -> CallSet]
  <2>1. pc \notin HandlerPoints /\ inbox # <<>> /\ UNCHANGED <<mpd, hand>>
    BY DEF DrainReject, RecvNothingToDo, RecvPanics, HandlerPoints, AwaitPoints, server
  <2> QED BY <2>1 DEF IInv, TypeOK, ActorTypeOK, CallersTypeOK, Found
<1>2. CASE DrainReject
  <2>1. inbox' = Tail(inbox) /\ call' = [call EXCEPT ![c] = Answered(@, Result("Unavailable"))]
        /\ Result("Unavailable") \in ResultSet
    BY <1>2, ResultType DEF DrainReject
  <2>2. /\ c \in Calls /\ PointOf(c) \in {"pending", "gone"} /\ PointOf(c)' = "done"
        /\ call'[c].req = call[c].req
        /\ call'[c].result = IF PointOf(c) = "pending" THEN Result("Unavailable")
                             ELSE call[c].result
        /\ \A d \in Calls \ {c} : call'[d] = call[d] /\ PointOf(d)' = PointOf(d)
    BY <1>1, <2>1, HeadLeaves
  <2>3. call'[c].result.kind = IF PointOf(c) = "pending" THEN "Unavailable"
                               ELSE call[c].result.kind
    BY <2>2 DEF Result
  <2>4. \A d \in Calls : call'[d].req = call[d].req
    BY <2>2
  <2>5. {c} \in SUBSET Calls /\ {c} # {}
    BY <2>2
  <2> QED BY <1>1, <2>2, <2>3, <2>4, <2>5, ServiceRefuses
<1>3. CASE RecvNothingToDo
  <2>1. inbox' = Tail(inbox) /\ call' = [call EXCEPT ![c] = Answered(@, Result("Ok"))]
        /\ Result("Ok") \in ResultSet /\ call[c].req.kind = "enqueue" /\ call[c].req.paths = <<>>
    BY <1>3, ResultType DEF RecvNothingToDo, NothingToDo
  <2>2. /\ c \in Calls /\ PointOf(c) \in {"pending", "gone"} /\ PointOf(c)' = "done"
        /\ call'[c].req = call[c].req
        /\ call'[c].result = IF PointOf(c) = "pending" THEN Result("Ok") ELSE call[c].result
        /\ \A d \in Calls \ {c} : call'[d] = call[d] /\ PointOf(d)' = PointOf(d)
    BY <1>1, <2>1, HeadLeaves
  <2>3. call'[c].result.kind = IF PointOf(c) = "pending" THEN "Ok" ELSE call[c].result.kind
    BY <2>2 DEF Result
  <2>4. Fits("Ok", start, start', call[c].req)
    <3>1. AddedTo(start, 0) = {start} /\ Autoplayed(start, start) = start
      BY NoneAdded DEF Found, Autoplayed, PlayCurrent
    <3>2. start \in Effects(start, call[c].req)
      BY <2>1, <3>1 DEF Effects
    <3> QED BY <1>1, <3>2 DEF Fits
  <2> QED BY <2>2, <2>3, <2>4, ServiceServes
<1>4. CASE RecvPanics
  <2> DEFINE group == {d \in Calls : Places(d) # {}}
  <2>1. inbox' = <<>>
        /\ \A d \in Calls : call'[d] = IF d \in group THEN Answered(call[d], Result("ChannelClosed"))
                                                       ELSE call[d]
    BY <1>4 DEF RecvPanics, Places
  <2>2. group \in SUBSET Calls /\ group # {}
    BY <1>1, TakeFirst DEF IInv, TypeOK, ActorTypeOK, Places
  <2>3. Result("ChannelClosed") \in ResultSet
    BY ResultType
  <2>4. ASSUME NEW d \in group
        PROVE  /\ PointOf(d) \in {"pending", "gone"} /\ PointOf(d)' = "done"
               /\ call'[d].req = call[d].req
               /\ call'[d].result.kind = IF PointOf(d) = "pending" THEN "ChannelClosed"
                                         ELSE call[d].result.kind
    <3>1. d \in Calls /\ Places(d) # {} /\ Places(d)' = {} /\ hand' # d
      BY <1>1, <2>1, NoCallAssumption DEF Places
    <3>2. call[d].at \in {"waiting", "abandoned"} /\ Queued(d)
      BY <3>1, PointFacts DEF Queued
    <3>3. /\ call'[d].req = call[d].req
          /\ call'[d].at = IF call[d].at = "waiting" THEN "done" ELSE call[d].at
          /\ call'[d].result = IF call[d].at = "waiting" THEN Result("ChannelClosed")
                                                         ELSE call[d].result
      BY <1>1, <2>1, <2>3, <3>1, AnsweredFields
    <3>4. PointOf(d) = IF call[d].at = "waiting" THEN "pending" ELSE "gone"
      BY <3>2 DEF PointOf
    <3>5. PointOf(d)' = "done"
      BY <3>1, <3>2, <3>3 DEF PointOf, Queued
    <3> QED BY <3>2, <3>3, <3>4, <3>5 DEF Result
  <2>5. ASSUME NEW d \in Calls \ group
        PROVE  PointOf(d)' = PointOf(d) /\ call'[d] = call[d]
    <3>1. Places(d) = {} /\ Places(d)' = {} /\ call'[d] = call[d]
      BY <2>1 DEF Places
    <3> QED BY <1>1, <3>1 DEF PointOf, Queued
  <2> HIDE DEF group
  <2>6. \A d \in Calls : call'[d].req = call[d].req
    BY <2>4, <2>5
  <2> QED BY <1>1, <2>2, <2>4, <2>5, <2>6, ServiceRefuses
<1> QED BY <1>2, <1>3, <1>4

(* The callers, for the service: they call, and give up.                   *)
LEMMA CallersAreServed ==
    ASSUME IInv, CallersStep, start' = start
    PROVE  Service!Next \/ UNCHANGED Service!vars
<1>1. call \in [Calls -> CallSet] /\ hand' = hand
  BY DEF IInv, TypeOK, CallersTypeOK, CallersStep, Issue, Accept, SendFails, Abandon, DropHandles,
         actor
<1> DEFINE at == [d \in Calls |-> PointOf(d)]
<1> DEFINE request == [d \in Calls |-> call[d].req]
<1> DEFINE result == [d \in Calls |-> call[d].result.kind]
<1>2. ASSUME NEW c \in Calls, NEW req \in Requests, Issue(c, req) PROVE Service!Next
  <2>1. /\ call[c].at = "new" /\ call' = [call EXCEPT ![c].at = "sending", ![c].req = req]
        /\ inbox' = inbox
    BY <1>2 DEF Issue, actor
  <2>2. /\ call'[c].at = "sending" /\ call'[c].req = req /\ call'[c].result = call[c].result
        /\ \A d \in Calls \ {c} : call'[d] = call[d]
    BY <1>1, <2>1 DEF CallSet
  <2>3. PointOf(c) = "new" /\ PointOf(c)' = "pending"
        /\ \A d \in Calls \ {c} : PointOf(d)' = PointOf(d)
    BY <1>1, <2>1, <2>2 DEF PointOf, Queued, Places
  <2>4. at[c] = "new" /\ at' = [at EXCEPT ![c] = "pending"]
    BY <2>3
  <2>5. request' = [request EXCEPT ![c] = req] /\ result' = result
    BY <2>2
  <2> HIDE DEF at, request, result
  <2>6. Service!Call(c, req)
    BY <2>4, <2>5 DEF Service!Call, at, request, result
  <2> QED BY <2>6 DEF Service!Next
<1>3. ASSUME NEW c \in Calls, Accept(c) PROVE UNCHANGED Service!vars
  <2>1. /\ call[c].at = "sending" /\ call' = [call EXCEPT ![c].at = "waiting"]
        /\ inbox' = Append(inbox, c)
    BY <1>3 DEF Accept
  <2>2. /\ call'[c].at = "waiting" /\ call'[c].req = call[c].req
        /\ call'[c].result = call[c].result /\ \A d \in Calls \ {c} : call'[d] = call[d]
    BY <1>1, <2>1 DEF CallSet
  <2>3. \A d \in Calls \ {c} : Places(d)' # {} <=> Places(d) # {}
    <3>1. inbox \in Seq(Calls)
      BY DEF IInv, TypeOK, ActorTypeOK
    <3>2. DOMAIN inbox' = DOMAIN inbox \cup {Len(inbox) + 1} /\ inbox'[Len(inbox) + 1] = c
          /\ \A i \in DOMAIN inbox : inbox'[i] = inbox[i]
      BY <2>1, <3>1
    <3> QED BY <3>2 DEF Places
  <2>4. PointOf(c) = "pending" /\ PointOf(c)' = "pending"
        /\ \A d \in Calls \ {c} : PointOf(d)' = PointOf(d)
    BY <1>1, <2>1, <2>2, <2>3 DEF PointOf, Queued
  <2> QED BY <2>2, <2>4, ServiceStutters
<1>4. ASSUME NEW c \in Calls, SendFails(c) PROVE Service!Next
  <2>1. /\ call[c].at = "sending" /\ inbox' = inbox
        /\ call' = [call EXCEPT ![c].at = "done", ![c].result = Result("ChannelClosed")]
    BY <1>4 DEF SendFails, actor
  <2>2. /\ call'[c].at = "done" /\ call'[c].req = call[c].req
        /\ call'[c].result.kind = "ChannelClosed" /\ \A d \in Calls \ {c} : call'[d] = call[d]
    BY <1>1, <2>1 DEF CallSet, Result
  <2>3. PointOf(c) = "pending" /\ PointOf(c)' = "done"
        /\ \A d \in Calls \ {c} : PointOf(d)' = PointOf(d)
    BY <1>1, <2>1, <2>2 DEF PointOf, Queued, Places
  <2>4. {c} \in SUBSET Calls /\ {c} # {}
    OBVIOUS
  <2> QED BY <2>2, <2>3, <2>4, ServiceRefuses
<1>5. ASSUME NEW c \in Calls, Abandon(c) PROVE Service!Next
  <2>1. /\ call[c].at \in {"sending", "waiting"} /\ inbox' = inbox
        /\ call' = [call EXCEPT ![c].at = "abandoned"]
    BY <1>5 DEF Abandon, actor
  <2>2. /\ call'[c].at = "abandoned" /\ call'[c].req = call[c].req
        /\ call'[c].result = call[c].result /\ \A d \in Calls \ {c} : call'[d] = call[d]
    BY <1>1, <2>1 DEF CallSet
  <2> PICK point : point = IF Queued(c) THEN "gone" ELSE "done"
    OBVIOUS
  <2>3. PointOf(c) = "pending" /\ PointOf(c)' = point
        /\ \A d \in Calls \ {c} : PointOf(d)' = PointOf(d)
    BY <1>1, <2>1, <2>2 DEF PointOf, Queued, Places
  <2>4. at[c] = "pending" /\ at' = [at EXCEPT ![c] = point] /\ point \in {"gone", "done"}
    BY <2>3
  <2>5. request' = request /\ result' = result
    BY <2>2
  <2> HIDE DEF at, request, result
  <2>6. Service!GiveUp(c)
    BY <2>4, <2>5 DEF Service!GiveUp, at, request, result
  <2> QED BY <2>6 DEF Service!Next
<1>6. ASSUME DropHandles PROVE UNCHANGED Service!vars
  <2>1. UNCHANGED <<call, inbox>>
    BY <1>6 DEF DropHandles, actor
  <2>2. \A d \in Calls : PointOf(d)' = PointOf(d)
    BY <1>1, <2>1 DEF PointOf, Queued, Places
  <2> QED BY <2>1, <2>2, ServiceStutters
<1> QED BY <1>2, <1>3, <1>4, <1>5, <1>6 DEF CallersStep

(* A step that leaves calls, channel and hand alone is not seen.           *)
LEMMA Unseen ==
    ASSUME start' = start, UNCHANGED <<call, inbox, hand>>
    PROVE  UNCHANGED Service!vars
<1>1. \A d \in Calls : PointOf(d)' = PointOf(d)
  BY DEF PointOf, Queued, Places
<1> QED BY <1>1, ServiceStutters

(* A step while nothing is in hand.                                        *)
LEMMA IdleStep ==
    ASSUME IInv, IInv', History, Found, AtomicNext, ~ MpdChanges, hand = NONE
    PROVE  Found' /\ (Service!Next \/ UNCHANGED Service!vars)
<1>1. Next /\ start' = (IF hand' = NONE THEN mpd' ELSE start) /\ start = mpd
      /\ mpd \in MpdStates /\ pc \notin HandlerPoints
  BY DEF AtomicNext, Found, IInv, TypeOK, ServerTypeOK, ActorTypeOK
<1>2. CASE hand' # NONE
  <2>1. /\ UNCHANGED <<mpd, call>> /\ hand' = Head(inbox) /\ inbox # <<>> /\ inbox' = Tail(inbox)
        /\ Ran(pc', wire', frame', call[hand'].req, mpd, mpd)
    BY <1>1, <1>2, RanStarts
  <2>2. start' = start
    BY <1>1, <1>2
  <2>3. Found'
    BY <1>1, <1>2, <2>1, <2>2 DEF Found, Request
  <2>4. \A d \in Calls : Queued(d)' <=> Queued(d)
    BY <2>1, TakeFirst, NoCallAssumption DEF IInv, Queued
  <2>5. \A d \in Calls : PointOf(d)' = PointOf(d)
    BY <2>1, <2>4 DEF PointOf
  <2> QED BY <2>1, <2>2, <2>3, <2>5, ServiceStutters
<1>3. CASE hand' = NONE
  <2>1. start' = mpd' /\ mpd' \in MpdStates
    BY <1>1, <1>3 DEF IInv, TypeOK, ServerTypeOK
  <2>2. Found'
    BY <1>3, <2>1 DEF Found
  <2>3. CASE CallersStep
    <3>1. mpd' = mpd
      BY <2>3 DEF CallersStep, Issue, Accept, SendFails, Abandon, DropHandles, server
    <3> QED BY <1>1, <2>1, <2>2, <2>3, <3>1, CallersAreServed
  <2>4. CASE DrainReject \/ RecvNothingToDo \/ RecvPanics
    BY <2>1, <2>2, <2>4, ChannelIsServed
  <2>5. CASE MpdAnswers
    <3>1. /\ wire.at = "sent" /\ link = "up" /\ UNCHANGED <<call, inbox, hand>>
          /\ \E outcome \in Outcomes(mpd, wire.cmd) : mpd' = outcome.mpd
      BY <2>5 DEF MpdAnswers, actor
    <3>2. pc \in PublishPoints
      BY <1>1, <3>1 DEF IInv, TypeOK, WireTypeOK, HandlerPoints, PublishPoints
    <3>3. wire.cmd.name \in Queries
      BY <3>1, <3>2 DEF IInv, ReadsAreCurrent, Queries
    <3>4. mpd' = mpd
      BY <3>1, <3>3, RefusedIsUnchanged
    <3> QED BY <1>1, <2>1, <2>2, <3>1, <3>4, Unseen
  <2>6. CASE LinkBreaks \/ ConnectOk \/ ConnectErr \/ BackoffElapsed \/ Shutdown \/ NextEvent
             \/ ConnectionClosed \/ PublishReadSong \/ PublishDone
    <3>1. UNCHANGED <<mpd, call, inbox, hand>>
      BY <2>6 DEF LinkBreaks, ConnectOk, ConnectErr, BackoffElapsed, Shutdown, NextEvent,
           ConnectionClosed, PublishReadSong, PublishDone, Await, callers, actor, server
    <3> QED BY <1>1, <2>1, <2>2, <3>1, Unseen
  <2>7. ~ RecvRequest
    <3>1. RecvRequest => hand' = Head(inbox) /\ inbox # <<>>
      BY DEF RecvRequest
    <3>2. inbox # <<>> => Head(inbox) \in Calls
      BY DEF IInv, TypeOK, ActorTypeOK
    <3> QED BY <1>3, <3>1, <3>2, NoCallAssumption
  <2>8. ~ (ActionReplies \/ ToggleReadStatus \/ MoveReadStatus
           \/ EnqueueReadBefore \/ EnqueueAdded \/ EnqueueReadAfter \/ EnqueueAutoplayed)
    BY <1>1 DEF ActionReplies, ToggleReadStatus, MoveReadStatus, EnqueueReadBefore, EnqueueAdded,
         EnqueueReadAfter, EnqueueAutoplayed, Resumes, HandlerPoints, AwaitPoints
  <2> QED BY <1>1, <2>3, <2>4, <2>5, <2>6, <2>7, <2>8
       DEF Next, ServerStep, ActorStep, SessionRecv, Resume
<1> QED BY <1>2, <1>3

(* A step while a request is in hand.                                      *)
LEMMA HandStep ==
    ASSUME IInv, IInv', History, Found, AtomicNext, ~ MpdChanges, hand # NONE
    PROVE  Found' /\ (Service!Next \/ UNCHANGED Service!vars)
<1>1. Next /\ start' = (IF hand' = NONE THEN mpd' ELSE start) /\ start \in MpdStates
      /\ Ran(pc, wire, frame, Request, start, mpd) /\ pc \in HandlerPoints
  BY HandFacts DEF AtomicNext, Found
<1> PICK s \in MpdStates : s = start
  BY <1>1
<1>2. CASE Ends(s)
  <2>1. hand' = NONE /\ mpd' = mpd
    BY <1>2 DEF Ends, Reply
  <2>2. start' = mpd /\ mpd \in MpdStates
    BY <1>1, <2>1 DEF IInv, TypeOK, ServerTypeOK
  <2>3. Found'
    BY <2>1, <2>2 DEF Found
  <2> QED BY <1>2, <2>2, <2>3, HandIsServed
<1>3. CASE ~ Ends(s)
  <2>1. hand' = hand /\ Ran(pc', wire', frame', call'[hand].req, s, mpd')
    BY <1>1, <1>3, RanKept
  <2>2. start' = start
    BY <1>1, <2>1
  <2>3. Found'
    BY <1>1, <2>1, <2>2 DEF Found, Request
  <2>4. CASE CallersStep
    BY <2>2, <2>3, <2>4, CallersAreServed
  <2>5. CASE ~ CallersStep
    <3>1. UNCHANGED <<call, inbox>>
      <4>1. CASE MpdAnswers \/ LinkBreaks
        BY <4>1 DEF MpdAnswers, LinkBreaks, callers, actor
      <4>2. CASE ActorStep
        <5>1. Resume /\ ~ PublishReadSong /\ ~ PublishDone
          BY <1>1, <4>2 DEF ActorStep, ConnectOk, ConnectErr, DrainReject, BackoffElapsed, Shutdown,
             SessionRecv, RecvRequest, RecvNothingToDo, RecvPanics, NextEvent, ConnectionClosed,
             PublishReadSong, PublishDone, Resumes, HandlerPoints, AwaitPoints
        <5>2. HandlerAwaits
          <6>1. HandlerAwaits \/ HandlerReplies
            BY <5>1, ResumeShape DEF IInv
          <6>2. HandlerReplies => hand' = NONE
            BY DEF HandlerReplies, Reply
          <6> QED BY <2>1, <6>1, <6>2
        <5> QED BY <5>2 DEF HandlerAwaits, Await, callers
      <4> QED BY <1>1, <2>5, <4>1, <4>2 DEF Next, ServerStep
    <3> QED BY <2>1, <2>2, <2>3, <3>1, Unseen
  <2> QED BY <2>4, <2>5
<1> QED BY <1>2, <1>3

(* Requests are atomic: while nobody else changes MPD, the actor, with all *)
(* its awaits, reconnects and lost answers, implements the service that    *)
(* serves each request in one step (mpd.rs; mpd.conf's "only intended      *)
(* client").                                                               *)
THEOREM Atomicity == ASSUME MaxSpontaneous = 0 PROVE AtomicSpec => RequestsAreAtomic
<1>1. AtomicInit => Found /\ Service!Init
  <2> SUFFICES ASSUME AtomicInit PROVE Found /\ Service!Init
    OBVIOUS
  <2>1. IInv /\ start = mpd /\ hand = NONE
        /\ call = [c \in Calls |-> [at |-> "new", req |-> NoRequest, result |-> NoResult]]
    BY InitInvariant DEF AtomicInit, Init
  <2>2. start \in MpdStates
    BY <2>1 DEF IInv, TypeOK, ServerTypeOK
  <2>3. \A c \in Calls : PointOf(c) = "new"
    BY <2>1 DEF PointOf
  <2>4. Service!Init
    BY <2>1, <2>2, <2>3 DEF Service!Init, NoRequest, NoResult, Result
  <2> QED BY <2>1, <2>2, <2>4 DEF Found
<1>2. IInv /\ IInv' /\ History /\ Found /\ [AtomicNext]_<<vars, start>>
        => Found' /\ [Service!Next]_(Service!vars)
  <2> SUFFICES ASSUME IInv, IInv', History, Found, [AtomicNext]_<<vars, start>>
               PROVE  Found' /\ (Service!Next \/ UNCHANGED Service!vars)
    OBVIOUS
  <2>1. CASE UNCHANGED <<vars, start>>
    <3>1. UNCHANGED <<mpd, call, inbox, hand, pc, wire, frame, start>>
      BY <2>1 DEF vars, server, callers, actor
    <3> QED BY <3>1, Unseen DEF Found, Request
  <2>2. CASE AtomicNext
    <3>1. ~ MpdChanges
      BY DEF MpdChanges, IInv, TypeOK, ServerTypeOK
    <3> QED BY <2>2, <3>1, IdleStep, HandStep
  <2> QED BY <2>1, <2>2
<1>3. AtomicSpec => Spec
  <2>1. AtomicInit => Init
    BY DEF AtomicInit
  <2>2. [AtomicNext]_<<vars, start>> => [Next]_vars
    BY DEF AtomicNext
  <2> QED BY <2>1, <2>2, PTL DEF AtomicSpec, Spec
<1> QED BY <1>1, <1>2, <1>3, Invariant, HistoryInvariant, PTL
     DEF AtomicSpec, RequestsAreAtomic, Service!Spec
=============================================================================
