--------------------------- MODULE WebController ---------------------------
(***************************************************************************)
(* The web page: asynchronous tasks of one JavaScript thread (status       *)
(* polls, clicks and their timers, refreshes), each waiting for a response *)
(* of mba-player at a time.  Requests travel on separate connections: they *)
(* are served, and their answers arrive, in any order.                     *)
(*                                                                         *)
(* Abstracted: rendering, the library view, volume and seek; queue items   *)
(* are their MPD ids, so the fallbacks to position and uri never apply.    *)
(***************************************************************************)
EXTENDS Naturals, Sequences, SequencesExt

CONSTANTS
    Items,        \* queue ids MPD may give
    FirstQueue,   \* the queue at first
    NONE,         \* no item, no selection
    DOWN,         \* the status while mba-player has no connection to MPD
    Gestures,     \* bound: what each click of the user may be
    Polls,        \* status polls that may be under way together
    MaxClicks,    \* bound: clicks of the user
    MaxChanges,   \* bound: changes of MPD by itself or by others
    MaxFailures,  \* bound: requests that fail for no reason of the queue
    MaxEvents     \* bound: all of these together

ASSUME ItemsAssumption == {NONE, DOWN} \cap Items = {} /\ NONE # DOWN
ASSUME FirstQueueAssumption == FirstQueue \in Seq(Items) /\ IsInjective(FirstQueue)
ASSUME GesturesAssumption ==
    Gestures \in [1..MaxClicks -> SUBSET {"play", "remove", "clear", "add", "next", "queue"}]
ASSUME BoundsAssumption == {MaxClicks, MaxChanges, MaxFailures, MaxEvents} \subseteq Nat

VARIABLES
    queue, current,  \* MPD
    published,       \* the current item according to the status of mba-player
    unused,          \* the ids MPD has not given yet
    status, shown,   \* state.status (its current item) and state.queue
    pending,         \* state.pendingQueueSelection
    queueSelectionRequestId,
    task,            \* the asynchronous tasks
    clicks, changes, failures
server == <<queue, current, published, unused>>
page == <<status, shown, pending, queueSelectionRequestId>>
bounds == <<clicks, changes, failures>>
vars == <<server, page, task, bounds>>

(* A click runs a task of its own and, at its side, its timer or a second  *)
(* refresh.                                                                *)
Main(k) == <<k, "main">>
Side(k) == <<k, "side">>
Tasks == Polls \cup ((1..MaxClicks) \X {"main", "side"})
StatusSteps == {"status", "play_status", "timer_status"}
EditSteps == {"add", "remove", "clear"}
Free == [step |-> "free", item |-> NONE, req |-> 0, at |-> "page", ok |-> TRUE, items |-> <<>>]
NoSelection == [item |-> NONE, req |-> 0]

(* fetch: the task waits for the response to step.                         *)
Fetch(step, item, req) == [Free EXCEPT !.step = step, !.item = item, !.req = req, !.at = "server"]

Init ==
    /\ queue = FirstQueue /\ unused = Items \ ToSet(FirstQueue)
    /\ current \in ToSet(FirstQueue) \cup {NONE} /\ published = current
    /\ status = current /\ shown = FirstQueue
    /\ pending = NoSelection /\ queueSelectionRequestId = 0
    /\ task = [t \in Tasks |-> Free]
    /\ clicks = 0 /\ changes = 0 /\ failures = 0

MoreEvents == clicks + changes + failures < MaxEvents

-----------------------------------------------------------------------------
(* mba-player and MPD *)

After(item) ==
    LET i == CHOOSE j \in DOMAIN queue : queue[j] = item
    IN IF i < Len(queue) THEN queue[i + 1] ELSE NONE

(* Whether MPD accepts the command of a task, and what it then does.       *)
Accepts(t) == task[t].step \in {"play", "remove"} => Contains(queue, task[t].item)
Execute(t) ==
    LET item == task[t].item IN
    \/ /\ task[t].step = "play" /\ current' = item /\ UNCHANGED <<queue, unused>>
    \/ /\ task[t].step = "remove" /\ UNCHANGED unused
       /\ \E i \in DOMAIN queue : queue[i] = item /\ queue' = RemoveAt(queue, i)
       /\ current' = IF current = item THEN After(item) ELSE current
    \/ /\ task[t].step = "clear" /\ queue' = <<>> /\ current' = NONE /\ UNCHANGED unused
    \/ /\ task[t].step = "add"
       /\ \/ unused = {} /\ UNCHANGED <<queue, current, unused>>
          \/ \E new \in unused :
               /\ queue' = Append(queue, new) /\ unused' = unused \ {new}
               /\ current' = IF queue = <<>> THEN new ELSE current
    \/ /\ task[t].step = "next" /\ UNCHANGED <<queue, unused>>
       /\ current' = IF current = NONE THEN NONE ELSE After(current)
    \/ /\ task[t].step \in StatusSteps \cup {"queue"} /\ UNCHANGED <<queue, current, unused>>

Answer(t, answer) == task' = [task EXCEPT ![t] = answer]
Failed(t) == [task[t] EXCEPT !.at = "page", !.ok = FALSE]
Read(t) ==
    CASE task[t].step \in StatusSteps -> [task[t] EXCEPT !.at = "page", !.item = published]
      [] task[t].step = "queue" -> [task[t] EXCEPT !.at = "page", !.items = queue]
      [] OTHER -> [task[t] EXCEPT !.at = "page"]

Serve(t) ==
    /\ task[t].at = "server"
    /\ IF Accepts(t) THEN Execute(t) /\ Answer(t, Read(t))
                     ELSE Answer(t, Failed(t)) /\ UNCHANGED <<queue, current, unused>>
    /\ UNCHANGED <<published, page, bounds>>

(* The connection fails, before or after the command was carried out.      *)
Fail(t) ==
    /\ task[t].at = "server" /\ failures < MaxFailures /\ MoreEvents
    /\ \/ UNCHANGED <<queue, current, unused>>
       \/ Accepts(t) /\ Execute(t)
    /\ Answer(t, Failed(t)) /\ failures' = failures + 1
    /\ UNCHANGED <<published, page, clicks, changes>>

(* The actor publishes the status some time after MPD changed; while it    *)
(* reconnects there is none.                                               *)
Publish ==
    /\ published # current
    /\ published' = current
    /\ UNCHANGED <<queue, current, unused, page, task, bounds>>
Change ==
    /\ changes < MaxChanges /\ MoreEvents /\ changes' = changes + 1
    /\ \/ current' \in (ToSet(queue) \cup {NONE}) \ {current} /\ UNCHANGED published
       \/ published' = DOWN /\ UNCHANGED current
    /\ UNCHANGED <<queue, unused, page, task, clicks, failures>>

-----------------------------------------------------------------------------
(* The user and the timers of the page *)

(* setInterval(refreshStatus, 2500)                                        *)
Poll(t) ==
    /\ task[t] = Free
    /\ Answer(t, Fetch("status", NONE, 0))
    /\ UNCHANGED <<server, page, bounds>>

Click == clicks < MaxClicks /\ MoreEvents /\ clicks' = clicks + 1 /\ UNCHANGED <<server, changes, failures>>

PlayQueueItem_NoTimer(item) ==   \* Mutant: no timer reconciles the selection.
    /\ Click
    /\ queueSelectionRequestId' = queueSelectionRequestId + 1
    /\ pending' = [item |-> item, req |-> queueSelectionRequestId']
    /\ Answer(Main(clicks'), Fetch("play", item, queueSelectionRequestId'))
    /\ UNCHANGED <<status, shown>>
PlayQueueItem(item) ==
    /\ Click
    /\ queueSelectionRequestId' = queueSelectionRequestId + 1
    /\ pending' = [item |-> item, req |-> queueSelectionRequestId']
    /\ task' = [task EXCEPT ![Main(clicks')] = Fetch("play", item, queueSelectionRequestId'),
                            ![Side(clicks')] = [Free EXCEPT !.step = "timer",
                                                            !.req = queueSelectionRequestId']]
    /\ UNCHANGED <<status, shown>>

(* Remove, clear and add of a library entry; next; the tab of the queue.   *)
Start(step, item) ==
    /\ Click
    /\ task' = [task EXCEPT ![Main(clicks')] = Fetch(step, item, 0)]
    /\ UNCHANGED page

May(gesture) == clicks + 1 \in DOMAIN Gestures /\ gesture \in Gestures[clicks + 1]
Clicked ==
    \/ May("play") /\ \E item \in ToSet(shown) : PlayQueueItem(item)
    \/ May("remove") /\ \E item \in ToSet(shown) : Start("remove", item)
    \/ May("clear") /\ shown # <<>> /\ Start("clear", NONE)
    \/ \E step \in {"add", "next", "queue"} : May(step) /\ Start(step, NONE)

-----------------------------------------------------------------------------
(* What the page does with a response *)

IsLatest(req) == pending # NoSelection /\ pending.req = req

(* refreshStatus: the status is shown whatever was requested since, and    *)
(* reconcilePendingQueueSelection withdraws a selection it confirms.       *)
Reconciled(t) ==
    IF task[t].ok /\ pending.item = task[t].item THEN NoSelection ELSE pending
ShowStatus(t) == status' = IF task[t].ok THEN task[t].item ELSE status

StatusArrives(t) ==
    /\ task[t].step = "status" /\ task[t].at = "page"
    /\ ShowStatus(t) /\ pending' = Reconciled(t)
    /\ Answer(t, Free)
    /\ UNCHANGED <<server, shown, queueSelectionRequestId, bounds>>

QueueArrives(t) ==
    /\ task[t].step = "queue" /\ task[t].at = "page"
    /\ shown' = IF task[t].ok THEN task[t].items ELSE shown
    /\ Answer(t, Free)
    /\ UNCHANGED <<server, status, pending, queueSelectionRequestId, bounds>>

PlayArrives(t) ==
    /\ task[t].step = "play" /\ task[t].at = "page"
    /\ IF IsLatest(task[t].req)
       THEN \/ ~ task[t].ok /\ pending' = NoSelection /\ Answer(t, Fetch("status", NONE, 0))
            \/ task[t].ok /\ Answer(t, Fetch("play_status", NONE, task[t].req)) /\ UNCHANGED pending
       ELSE Answer(t, Free) /\ UNCHANGED pending
    /\ UNCHANGED <<server, status, shown, queueSelectionRequestId, bounds>>

PlayStatusArrives(t) ==
    /\ task[t].step = "play_status" /\ task[t].at = "page"
    /\ ShowStatus(t) /\ pending' = Reconciled(t)
    /\ Answer(t, Fetch("queue", NONE, 0))
    /\ UNCHANGED <<server, shown, queueSelectionRequestId, bounds>>

(* An edit is followed by both refreshes at once.                          *)
EditArrives_HalfClears(k) ==   \* Mutant: removal forgets the item, not the request.
    LET t == task[Main(k)] IN
    /\ t.step \in EditSteps /\ t.at = "page"
    /\ IF t.ok
       THEN /\ task' = [task EXCEPT ![Main(k)] = Fetch("status", NONE, 0),
                                    ![Side(k)] = Fetch("queue", NONE, 0)]
            /\ pending' = IF t.step = "remove" /\ pending.item = t.item
                          THEN [pending EXCEPT !.item = NONE] ELSE pending
       ELSE Answer(Main(k), Free) /\ UNCHANGED pending
    /\ UNCHANGED <<server, status, shown, queueSelectionRequestId, bounds>>
EditArrives(k) ==
    LET t == task[Main(k)] IN
    /\ t.step \in EditSteps /\ t.at = "page"
    /\ IF t.ok
       THEN /\ task' = [task EXCEPT ![Main(k)] = Fetch("status", NONE, 0),
                                    ![Side(k)] = Fetch("queue", NONE, 0)]
            /\ pending' = IF t.step = "remove" /\ pending.item = t.item THEN NoSelection ELSE pending
       ELSE Answer(Main(k), Free) /\ UNCHANGED pending
    /\ UNCHANGED <<server, status, shown, queueSelectionRequestId, bounds>>

NextArrives(t) ==
    /\ task[t].step = "next" /\ task[t].at = "page"
    /\ Answer(t, IF task[t].ok THEN Fetch("status", NONE, 0) ELSE Free)
    /\ UNCHANGED <<server, page, bounds>>

(* scheduleQueueSelectionReconcile, 1800 ms after the click.               *)
TimerFires(t) ==
    /\ task[t].step = "timer"
    /\ Answer(t, IF IsLatest(task[t].req) THEN Fetch("timer_status", NONE, task[t].req) ELSE Free)
    /\ UNCHANGED <<server, page, bounds>>

TimerStatusArrives_AnyTimer(t) ==   \* Mutant: a timer withdraws whatever is selected.
    /\ task[t].step = "timer_status" /\ task[t].at = "page"
    /\ ShowStatus(t) /\ pending' = NoSelection
    /\ Answer(t, Free)
    /\ UNCHANGED <<server, shown, queueSelectionRequestId, bounds>>
TimerStatusArrives(t) ==
    /\ task[t].step = "timer_status" /\ task[t].at = "page"
    /\ ShowStatus(t)
    /\ pending' = IF IsLatest(task[t].req) THEN NoSelection ELSE Reconciled(t)
    /\ Answer(t, Free)
    /\ UNCHANGED <<server, shown, queueSelectionRequestId, bounds>>

-----------------------------------------------------------------------------
(* Specification *)

Arrives(t) ==
    \/ StatusArrives(t) \/ QueueArrives(t) \/ PlayArrives(t) \/ PlayStatusArrives(t)
    \/ NextArrives(t) \/ TimerFires(t) \/ TimerStatusArrives(t)
Next ==
    \/ Publish \/ Change \/ Clicked
    \/ \E t \in Tasks : Serve(t) \/ Fail(t) \/ Arrives(t)
    \/ \E k \in 1..MaxClicks : EditArrives(k)
    \/ \E t \in Polls : Poll(t)
Spec == Init /\ [][Next]_vars

(* Whatever a task waits for comes: its request is answered, its timer     *)
(* fires, the next poll is due; of the tasks of clicks, which end, some    *)
(* one goes on.  SnapshotConverges of the actor gives the fairness of      *)
(* Publish.  Nothing obliges the user.                                     *)
GoesOn(t) == \/ Serve(t) \/ Arrives(t)
             \/ \E k \in 1..MaxClicks : t = Main(k) /\ EditArrives(k)
             \/ t \in Polls /\ Poll(t)
FairSpec == /\ Spec /\ WF_vars(Publish)
            /\ WF_vars(\E t \in Tasks \ Polls : GoesOn(t)) /\ \A t \in Polls : WF_vars(GoesOn(t))
=============================================================================
