------------------------ MODULE WebControllerProofs ------------------------
(***************************************************************************)
(* Theorems about WebController, for any queue, any number of clicks,      *)
(* polls, changes and failures: the type invariant, by which the selection *)
(* is always that of the latest click, and that only its own events        *)
(* withdraw it.                                                            *)
(***************************************************************************)
EXTENDS WebControllerProps, SequenceTheorems, TLAPS

Shown == Items \cup {NONE, DOWN}
Steps == StatusSteps \cup EditSteps \cup {"free", "play", "queue", "next", "timer"}
Queues == {q \in Seq(Items) : IsInjective(q)}
TaskSet(latest) == [step : Steps, item : Shown, req : 0..latest, at : {"page", "server"},
                    ok : BOOLEAN, items : Queues]

(* The type invariant made inductive: it says which sets hold the          *)
(* sequences and the functions TypeOK speaks about.                        *)
ServerOK ==
    /\ queue \in Queues /\ unused \subseteq Items /\ ToSet(queue) \cap unused = {}
    /\ current \in ToSet(queue) \cup {NONE} /\ published \in Shown
PageOK ==
    /\ status \in Shown /\ shown \in Queues /\ queueSelectionRequestId \in Nat
    /\ pending \in [item : Items, req : {queueSelectionRequestId}] \cup {NoSelection}
TasksOK == task \in [Tasks -> TaskSet(queueSelectionRequestId)]
BoundsOK == clicks \in 0..MaxClicks /\ changes \in 0..MaxChanges /\ failures \in 0..MaxFailures
IInv == ServerOK /\ PageOK /\ TasksOK /\ BoundsOK

(* The invariant says more than the type invariant.                        *)
LEMMA InvariantIsTyped == ASSUME IInv PROVE TypeOK
<1>1. \A q \in Queues : IsQueue(q)
  BY DEF Queues, IsQueue, ToSet
<1>2. /\ IsQueue(queue) /\ IsQueue(shown) /\ ToSet(queue) \cap unused = {}
      /\ current \in ToSet(queue) \cup {NONE}
  BY <1>1 DEF IInv, ServerOK, PageOK
<1>3. {published, status} \subseteq Items \cup {NONE, DOWN}
  BY DEF IInv, ServerOK, PageOK, Shown
<1>4. \A t \in Tasks : task[t] \in TaskSet(queueSelectionRequestId)
  BY DEF IInv, TasksOK
<1>5. \A t \in Tasks :
         /\ task[t].step \in Steps /\ task[t].item \in Shown
         /\ task[t].req \in 0..queueSelectionRequestId
         /\ task[t].at \in {"page", "server"}
         /\ task[t].ok \in BOOLEAN /\ IsQueue(task[t].items)
  BY <1>1, <1>4 DEF TaskSet
<1> QED BY <1>2, <1>3, <1>5 DEF TypeOK, IInv, PageOK, BoundsOK, Steps, Shown

-----------------------------------------------------------------------------
(* Queues *)

(* Removing one item keeps the others, each once.                          *)
LEMMA Removal ==
    ASSUME NEW q \in Queues, NEW i \in DOMAIN q
    PROVE  RemoveAt(q, i) \in Queues /\ ToSet(RemoveAt(q, i)) = ToSet(q) \ {q[i]}
<1> DEFINE r == RemoveAt(q, i)
<1>1. q \in Seq(Items) /\ i \in 1..Len(q) /\ IsInjective(q)
  BY DEF Queues
<1> DEFINE before == SubSeq(q, 1, i - 1)
           after  == SubSeq(q, i + 1, Len(q))
<1>2. r = before \o after
  BY DEF RemoveAt
<1>3. /\ before \in Seq(Items) /\ Len(before) = i - 1
      /\ \A k \in 1..(i - 1) : before[k] = q[k]
  BY <1>1, SubSeqProperties, \A k \in 1..(i - 1) : q[k] \in Items
<1>4. /\ after \in Seq(Items) /\ Len(after) = Len(q) - i
      /\ \A k \in 1..(Len(q) - i) : after[k] = q[i + k]
  BY <1>1, SubSeqProperties
<1> HIDE DEF r, before, after
<1>5. /\ r \in Seq(Items) /\ Len(r) = (i - 1) + (Len(q) - i)
      /\ \A k \in 1..((i - 1) + (Len(q) - i)) :
            r[k] = IF k <= i - 1 THEN before[k] ELSE after[k - (i - 1)]
  <2>1. /\ before \o after \in Seq(Items) /\ Len(before \o after) = Len(before) + Len(after)
        /\ \A k \in 1..(Len(before) + Len(after)) :
              (before \o after)[k] = IF k <= Len(before) THEN before[k] ELSE after[k - Len(before)]
    BY <1>3, <1>4, ConcatProperties
  <2>2. Len(before) = i - 1 /\ Len(after) = Len(q) - i
    BY <1>3, <1>4
  <2> QED BY <1>2, <2>1, <2>2
<1>6. i \in Int /\ Len(q) \in Int
  BY <1>1
<1>10. r \in Seq(Items) /\ Len(r) = Len(q) - 1
  BY <1>5, <1>6
<1>11. \A k \in 1..Len(r) : r[k] = IF k < i THEN q[k] ELSE q[k + 1]
  <2> SUFFICES ASSUME NEW k \in 1..Len(r) PROVE r[k] = IF k < i THEN q[k] ELSE q[k + 1]
    OBVIOUS
  <2>1. k \in Int /\ 1 <= k /\ k <= Len(q) - 1 /\ k \in 1..((i - 1) + (Len(q) - i))
    BY <1>6, <1>10
  <2>2. CASE k < i
    BY <1>3, <1>5, <1>6, <2>1, <2>2
  <2>3. CASE ~ (k < i)
    <3>1. r[k] = after[k - (i - 1)] /\ k - (i - 1) \in 1..(Len(q) - i)
      BY <1>5, <1>6, <2>1, <2>3
    <3>2. after[k - (i - 1)] = q[i + (k - (i - 1))]
      BY <1>4, <3>1
    <3>3. i + (k - (i - 1)) = k + 1
      BY <1>6, <2>1
    <3> QED BY <2>3, <3>1, <3>2, <3>3
  <2> QED BY <2>2, <2>3
<1>7. IsInjective(r)
  <2> SUFFICES ASSUME NEW a \in 1..Len(r), NEW b \in 1..Len(r), r[a] = r[b] PROVE a = b
    BY <1>10 DEF IsInjective
  <2>1. \A j, k \in 1..Len(q) : q[j] = q[k] => j = k
    BY <1>1 DEF IsInjective
  <2> DEFINE place(k) == IF k < i THEN k ELSE k + 1
  <2>2. \A k \in 1..Len(r) : place(k) \in 1..Len(q) /\ r[k] = q[place(k)]
    BY <1>1, <1>6, <1>10, <1>11
  <2> HIDE DEF place
  <2>3. place(a) = place(b)
    BY <2>1, <2>2
  <2>4. a \in Int /\ b \in Int
    BY <1>6, <1>10
  <2> QED BY <1>6, <2>3, <2>4 DEF place
<1>8. ToSet(r) \subseteq ToSet(q) \ {q[i]}
  BY <1>1, <1>10, <1>11 DEF ToSet, IsInjective
<1>9. ASSUME NEW x \in ToSet(q), x # q[i] PROVE x \in ToSet(r)
  <2>1. PICK k \in 1..Len(q) : q[k] = x
    BY <1>1 DEF ToSet
  <2>2. CASE k < i
    BY <1>1, <1>10, <1>11, <2>1, <2>2 DEF ToSet
  <2>3. CASE k > i
    <3>1. k - 1 \in 1..Len(r) /\ r[k - 1] = q[k]
      BY <1>1, <1>10, <1>11, <2>1, <2>3
    <3> QED BY <1>10, <2>1, <3>1 DEF ToSet
  <2> QED BY <1>1, <1>9, <2>1, <2>2, <2>3
<1> QED BY <1>10, <1>7, <1>8, <1>9 DEF Queues, r

(* Adding an item that is not there.                                       *)
LEMMA Addition ==
    ASSUME NEW q \in Queues, NEW x \in Items, x \notin ToSet(q)
    PROVE  Append(q, x) \in Queues /\ ToSet(Append(q, x)) = ToSet(q) \cup {x}
<1>1. q \in Seq(Items) /\ IsInjective(q) /\ \A i \in 1..Len(q) : q[i] # x
  BY DEF Queues, ToSet
<1>2. /\ Append(q, x) \in Seq(Items) /\ Len(Append(q, x)) = Len(q) + 1
      /\ \A i \in 1..Len(q) : Append(q, x)[i] = q[i]
      /\ Append(q, x)[Len(q) + 1] = x
  BY <1>1
<1>3. IsInjective(Append(q, x))
  BY <1>1, <1>2 DEF IsInjective
<1>4. ToSet(Append(q, x)) = ToSet(q) \cup {x}
  BY <1>1, <1>2 DEF ToSet
<1> QED BY <1>2, <1>3, <1>4 DEF Queues

(* The item after another one is a different one.                          *)
LEMMA NextItem ==
    ASSUME queue \in Queues, NEW item \in ToSet(queue)
    PROVE  After(item) \in (ToSet(queue) \ {item}) \cup {NONE}
<1>1. queue \in Seq(Items) /\ IsInjective(queue)
  BY DEF Queues
<1>2. \E j \in DOMAIN queue : queue[j] = item
  BY DEF ToSet
<1> DEFINE i == CHOOSE j \in DOMAIN queue : queue[j] = item
<1>3. i \in DOMAIN queue /\ queue[i] = item
  BY <1>2
<1> HIDE DEF i
<1>4. i < Len(queue) => queue[i + 1] \in ToSet(queue) /\ queue[i + 1] # item
  BY <1>1, <1>3 DEF ToSet, IsInjective
<1>5. After(item) = IF i < Len(queue) THEN queue[i + 1] ELSE NONE
  BY DEF After, i
<1> QED BY <1>4, <1>5

-----------------------------------------------------------------------------
(* Tasks *)

(* A new request of a task.                                                *)
LEMMA FetchType ==
    ASSUME NEW n \in Nat
    PROVE  /\ Free \in TaskSet(n)
           /\ \A step \in Steps, item \in Shown, req \in 0..n : Fetch(step, item, req) \in TaskSet(n)
<1>1. <<>> \in Queues
  BY DEF Queues, IsInjective
<1>2. "free" \in Steps /\ NONE \in Shown /\ 0 \in 0..n
  BY DEF Steps, Shown
<1>3. Free \in TaskSet(n)
  BY <1>1, <1>2 DEF Free, TaskSet
<1>4. ASSUME NEW step \in Steps, NEW item \in Shown, NEW req \in 0..n
      PROVE  Fetch(step, item, req) \in TaskSet(n)
  BY <1>3 DEF Fetch, TaskSet
<1> QED BY <1>3, <1>4

(* One task goes on, no click on a queue row.                              *)
LEMMA TaskGoesOn ==
    ASSUME TasksOK, NEW t \in Tasks, NEW a \in TaskSet(queueSelectionRequestId),
           Answer(t, a), UNCHANGED queueSelectionRequestId
    PROVE  TasksOK'
  BY DEF TasksOK, Answer

(* The type of a task read off its record.                                 *)
LEMMA TaskType ==
    ASSUME TasksOK, NEW t \in Tasks
    PROVE  /\ task[t] \in TaskSet(queueSelectionRequestId)
           /\ task[t].step \in Steps /\ task[t].item \in Shown
           /\ task[t].req \in 0..queueSelectionRequestId
           /\ task[t].ok \in BOOLEAN /\ task[t].items \in Queues
  BY DEF TasksOK, TaskSet

(* What a click or a timer may fetch.                                      *)
LEMMA Fetches ==
    ASSUME PageOK, TasksOK, NEW t \in Tasks
    PROVE  /\ Free \in TaskSet(queueSelectionRequestId)
           /\ \A step \in Steps : Fetch(step, NONE, 0) \in TaskSet(queueSelectionRequestId)
           /\ \A step \in Steps : Fetch(step, NONE, task[t].req) \in TaskSet(queueSelectionRequestId)
<1>1. queueSelectionRequestId \in Nat /\ NONE \in Shown /\ 0 \in 0..queueSelectionRequestId
  BY DEF PageOK, Shown
<1> QED BY <1>1, FetchType, TaskType

-----------------------------------------------------------------------------
(* mba-player and MPD *)

(* The server executes a request it accepts.                               *)
LEMMA ServerStep ==
    ASSUME ServerOK, TasksOK, NEW t \in Tasks, Accepts(t), Execute(t), UNCHANGED published
    PROVE  ServerOK'
<1> DEFINE item == task[t].item
<1>1. /\ queue \in Queues /\ unused \subseteq Items /\ ToSet(queue) \cap unused = {}
      /\ current \in ToSet(queue) \cup {NONE} /\ published \in Shown
  BY DEF ServerOK
<1>2. NONE \notin Items
  BY ItemsAssumption
<1>3. task[t].step \in {"play", "remove"} => item \in ToSet(queue)
  BY <1>1 DEF Accepts, Contains, ToSet, Queues
<1> SUFFICES /\ queue' \in Queues /\ unused' \subseteq Items /\ ToSet(queue') \cap unused' = {}
             /\ current' \in ToSet(queue') \cup {NONE}
  BY <1>1 DEF ServerOK
<1>4. CASE task[t].step = "play" /\ current' = item /\ UNCHANGED <<queue, unused>>
  BY <1>1, <1>3, <1>4
<1>5. CASE /\ task[t].step = "remove" /\ UNCHANGED unused
           /\ \E i \in DOMAIN queue : queue[i] = item /\ queue' = RemoveAt(queue, i)
           /\ current' = IF current = item THEN After(item) ELSE current
  <2>1. PICK i \in DOMAIN queue : queue[i] = item /\ queue' = RemoveAt(queue, i)
    BY <1>5
  <2>2. queue' \in Queues /\ ToSet(queue') = ToSet(queue) \ {item}
    BY <1>1, <2>1, Removal
  <2>3. After(item) \in (ToSet(queue) \ {item}) \cup {NONE}
    BY <1>1, <1>3, <1>5, NextItem
  <2> QED BY <1>1, <1>5, <2>2, <2>3
<1>6. CASE queue' = <<>> /\ current' = NONE /\ UNCHANGED unused
  <2>1. <<>> \in Queues /\ ToSet(<<>>) = {}
    BY DEF Queues, IsInjective, ToSet
  <2> QED BY <1>1, <1>6, <2>1
<1>7. CASE \E new \in unused :
              /\ queue' = Append(queue, new) /\ unused' = unused \ {new}
              /\ current' = IF queue = <<>> THEN new ELSE current
  <2>1. PICK new \in unused :
              /\ queue' = Append(queue, new) /\ unused' = unused \ {new}
              /\ current' = IF queue = <<>> THEN new ELSE current
    BY <1>7
  <2>2. queue' \in Queues /\ ToSet(queue') = ToSet(queue) \cup {new}
    BY <1>1, <2>1, Addition
  <2> QED BY <1>1, <2>1, <2>2
<1>8. CASE UNCHANGED <<queue, unused>> /\ current' = IF current = NONE THEN NONE ELSE After(current)
  <2>1. current # NONE => After(current) \in ToSet(queue) \cup {NONE}
    BY <1>1, NextItem
  <2> QED BY <1>1, <1>8, <2>1
<1>9. CASE UNCHANGED <<queue, current, unused>>
  BY <1>1, <1>9
<1> QED BY <1>4, <1>5, <1>6, <1>7, <1>8, <1>9 DEF Execute

(* What a response carries.                                                *)
LEMMA ResponseType ==
    ASSUME ServerOK, TasksOK, NEW t \in Tasks
    PROVE  /\ Failed(t) \in TaskSet(queueSelectionRequestId)
           /\ Read(t) \in TaskSet(queueSelectionRequestId)
<1>1. task[t] \in TaskSet(queueSelectionRequestId)
  BY TaskType
<1>2. published \in Shown /\ queue \in Queues
  BY DEF ServerOK
<1> QED BY <1>1, <1>2 DEF Failed, Read, TaskSet

-----------------------------------------------------------------------------
(* The inductive invariant *)

(* Nothing was clicked initially.                                          *)
LEMMA InitInvariant == ASSUME Init PROVE IInv
<1>1. FirstQueue \in Queues
  BY FirstQueueAssumption DEF Queues
<1>2. ServerOK
  <2>1. ToSet(FirstQueue) \subseteq Items
    BY <1>1 DEF Queues, ToSet
  <2> QED BY <1>1, <2>1 DEF Init, ServerOK, Shown
<1>3. PageOK
  BY <1>1, <1>2 DEF Init, PageOK, ServerOK, Shown
<1>4. TasksOK
  BY FetchType DEF Init, TasksOK
<1>5. BoundsOK
  BY BoundsAssumption DEF Init, BoundsOK
<1> QED BY <1>2, <1>3, <1>4, <1>5 DEF IInv

(* The steps of the server: it publishes the status,                       *)
LEMMA PublishInvariant == ASSUME IInv, Publish PROVE IInv'
<1>1. current \in Shown
  BY DEF IInv, ServerOK, Shown, ToSet, Queues
<1>2. ServerOK'
  BY <1>1 DEF IInv, ServerOK, Publish
<1> QED BY <1>2 DEF IInv, Publish, PageOK, TasksOK, BoundsOK, page, bounds

(* its queue or song changes by itself,                                    *)
LEMMA ChangeInvariant == ASSUME IInv, Change PROVE IInv'
<1>1. ServerOK'
  BY DEF IInv, ServerOK, Change, Shown
<1>2. BoundsOK'
  BY BoundsAssumption DEF IInv, BoundsOK, Change
<1> QED BY <1>1, <1>2 DEF IInv, Change, PageOK, TasksOK, page

(* it executes a request,                                                  *)
LEMMA ServeInvariant == ASSUME IInv, NEW t \in Tasks, Serve(t) PROVE IInv'
<1>1. ServerOK'
  <2>1. CASE Accepts(t)
    BY <2>1, ServerStep DEF IInv, Serve
  <2>2. CASE ~ Accepts(t)
    BY <2>2 DEF IInv, Serve, ServerOK
  <2> QED BY <2>1, <2>2
<1>2. TasksOK'
  BY ResponseType, TaskGoesOn DEF IInv, Serve, page
<1> QED BY <1>1, <1>2 DEF IInv, Serve, PageOK, BoundsOK, page, bounds

(* or a request is lost.                                                   *)
LEMMA FailInvariant == ASSUME IInv, NEW t \in Tasks, Fail(t) PROVE IInv'
<1>1. ServerOK'
  <2>1. CASE Accepts(t) /\ Execute(t)
    BY <2>1, ServerStep DEF IInv, Fail
  <2>2. CASE UNCHANGED <<queue, current, unused>>
    BY <2>2 DEF IInv, Fail, ServerOK
  <2> QED BY <2>1, <2>2 DEF Fail
<1>2. TasksOK'
  BY ResponseType, TaskGoesOn DEF IInv, Fail, page
<1>3. BoundsOK'
  BY BoundsAssumption DEF IInv, BoundsOK, Fail
<1> QED BY <1>1, <1>2, <1>3 DEF IInv, Fail, PageOK, page

(* The steps of the page: it polls,                                        *)
LEMMA PollInvariant == ASSUME IInv, NEW t \in Polls, Poll(t) PROVE IInv'
<1>1. t \in Tasks /\ "status" \in Steps
  BY DEF Tasks, Steps, StatusSteps
<1>2. TasksOK'
  BY <1>1, Fetches, TaskGoesOn DEF IInv, Poll, page
<1> QED BY <1>2 DEF IInv, Poll, ServerOK, PageOK, BoundsOK, server, page, bounds

(* The tasks of a click.                                                   *)
LEMMA ClickTasks == ASSUME IInv, Click PROVE /\ Main(clicks') \in Tasks /\ Side(clicks') \in Tasks
                                             /\ BoundsOK'
<1>1. clicks' \in 1..MaxClicks
  BY BoundsAssumption DEF IInv, BoundsOK, Click
<1> QED BY <1>1 DEF IInv, BoundsOK, Click, Main, Side, Tasks

(* a row is clicked,                                                       *)
LEMMA PlayInvariant == ASSUME IInv, NEW item \in ToSet(shown), PlayQueueItem(item) PROVE IInv'
<1> DEFINE latest == queueSelectionRequestId'
           play   == Fetch("play", item, latest)
           timer  == [Free EXCEPT !.step = "timer", !.req = latest]
<1>1. queueSelectionRequestId \in Nat /\ latest = queueSelectionRequestId + 1
  BY DEF IInv, PageOK, PlayQueueItem
<1>2. item \in Items
  BY DEF IInv, PageOK, Queues, ToSet
<1>3. Main(clicks') \in Tasks /\ Side(clicks') \in Tasks /\ BoundsOK'
  BY ClickTasks DEF PlayQueueItem
<1>4. play \in TaskSet(latest) /\ timer \in TaskSet(latest)
  <2>1. latest \in Nat /\ latest \in 0..latest /\ item \in Shown
    BY <1>1, <1>2 DEF Shown
  <2>2. "play" \in Steps /\ "timer" \in Steps
    BY DEF Steps
  <2> HIDE DEF latest
  <2> QED BY <2>1, <2>2, FetchType DEF TaskSet
<1>5. \A t \in Tasks : task[t] \in TaskSet(latest)
  <2> SUFFICES ASSUME NEW t \in Tasks PROVE task[t] \in TaskSet(latest)
    OBVIOUS
  <2>1. task[t] \in TaskSet(queueSelectionRequestId)
    BY TaskType DEF IInv
  <2>2. 0..queueSelectionRequestId \subseteq 0..latest
    BY <1>1
  <2> HIDE DEF latest
  <2> QED BY <2>1, <2>2 DEF TaskSet
<1>6. task' = [task EXCEPT ![Main(clicks')] = play, ![Side(clicks')] = timer]
  BY DEF PlayQueueItem
<1> HIDE DEF play, timer
<1>7. task' \in [Tasks -> TaskSet(latest)]
  BY <1>3, <1>4, <1>5, <1>6 DEF IInv, TasksOK
<1>8. TasksOK'
  BY <1>7 DEF TasksOK, TaskSet
<1>9. PageOK'
  BY <1>1, <1>2 DEF IInv, PageOK, PlayQueueItem
<1> QED BY <1>3, <1>8, <1>9 DEF IInv, PlayQueueItem, Click, ServerOK, server

LEMMA StartInvariant ==
    ASSUME IInv, NEW step \in Steps, NEW item \in ToSet(shown) \cup {NONE}, Start(step, item)
    PROVE  IInv'
<1>1. item \in Shown /\ queueSelectionRequestId \in Nat /\ 0 \in 0..queueSelectionRequestId
  BY DEF IInv, PageOK, Queues, ToSet, Shown
<1>2. Main(clicks') \in Tasks /\ BoundsOK'
  BY ClickTasks DEF Start
<1>3. Fetch(step, item, 0) \in TaskSet(queueSelectionRequestId)
  BY <1>1, FetchType
<1>4. TasksOK'
  BY <1>2, <1>3, TaskGoesOn DEF IInv, Start, Answer, page
<1> QED BY <1>2, <1>4 DEF IInv, Start, Click, ServerOK, PageOK, server, page

(* a button is pressed,                                                    *)
LEMMA ClickedInvariant == ASSUME IInv, Clicked PROVE IInv'
<1>1. {"remove", "clear", "add", "next", "queue"} \subseteq Steps
  BY DEF Steps, EditSteps
<1>2. CASE \E item \in ToSet(shown) : PlayQueueItem(item)
  BY <1>2, PlayInvariant
<1>3. CASE \E item \in ToSet(shown) : Start("remove", item)
  BY <1>1, <1>3, StartInvariant
<1>4. CASE \E step \in {"clear", "add", "next", "queue"} : Start(step, NONE)
  BY <1>1, <1>4, StartInvariant
<1> QED BY <1>2, <1>3, <1>4 DEF Clicked

-----------------------------------------------------------------------------
(* Responses *)

(* What a response may do to the selection: leave or withdraw it.          *)
LEMMA PageStep ==
    ASSUME PageOK, UNCHANGED queueSelectionRequestId,
           pending' \in {pending, NoSelection}, status' \in Shown, shown' \in Queues
    PROVE  PageOK'
  BY DEF PageOK

LEMMA StatusIsShown ==
    ASSUME IInv, NEW t \in Tasks, ShowStatus(t)
    PROVE  status' \in Shown /\ shown \in Queues /\ Reconciled(t) \in {pending, NoSelection}
<1>1. task[t].item \in Shown
  BY TaskType DEF IInv
<1> QED BY <1>1 DEF IInv, PageOK, ShowStatus, Reconciled

(* or a response arrives.                                                  *)
LEMMA ArrivesInvariant == ASSUME IInv, NEW t \in Tasks, Arrives(t) PROVE IInv'
<1>1. {"status", "queue", "play_status", "timer_status"} \subseteq Steps
  BY DEF Steps, StatusSteps
<1>2. /\ Free \in TaskSet(queueSelectionRequestId)
      /\ \A step \in Steps : Fetch(step, NONE, 0) \in TaskSet(queueSelectionRequestId)
      /\ \A step \in Steps : Fetch(step, NONE, task[t].req) \in TaskSet(queueSelectionRequestId)
  BY Fetches DEF IInv
<1> SUFFICES PageOK' /\ TasksOK' /\ UNCHANGED server /\ UNCHANGED bounds
  BY DEF IInv, ServerOK, BoundsOK, server, bounds
<1>3. CASE StatusArrives(t)
  BY <1>2, <1>3, StatusIsShown, PageStep, TaskGoesOn DEF StatusArrives, IInv
<1>4. CASE QueueArrives(t)
  <2>1. shown' \in Queues
    BY <1>4, TaskType DEF QueueArrives, IInv, PageOK
  <2>2. PageOK'
    BY <1>4, <2>1, PageStep DEF QueueArrives, IInv, PageOK
  <2> QED BY <1>2, <1>4, <2>2, TaskGoesOn DEF QueueArrives, IInv
<1>5. CASE PlayArrives(t)
  <2>1. PageOK'
    BY <1>5, PageStep DEF PlayArrives, IInv, PageOK
  <2> QED BY <1>1, <1>2, <1>5, <2>1, TaskGoesOn DEF PlayArrives, IInv
<1>6. CASE PlayStatusArrives(t)
  BY <1>1, <1>2, <1>6, StatusIsShown, PageStep, TaskGoesOn DEF PlayStatusArrives, IInv
<1>7. CASE NextArrives(t)
  <2>1. PageOK' /\ UNCHANGED queueSelectionRequestId
    BY <1>7 DEF NextArrives, IInv, PageOK, page
  <2> QED BY <1>1, <1>2, <1>7, <2>1, TaskGoesOn DEF NextArrives, IInv
<1>8. CASE TimerFires(t)
  <2>1. PageOK' /\ UNCHANGED queueSelectionRequestId
    BY <1>8 DEF TimerFires, IInv, PageOK, page
  <2> QED BY <1>1, <1>2, <1>8, <2>1, TaskGoesOn DEF TimerFires, IInv
<1>9. CASE TimerStatusArrives(t)
  BY <1>2, <1>9, StatusIsShown, PageStep, TaskGoesOn DEF TimerStatusArrives, IInv
<1> QED BY <1>3, <1>4, <1>5, <1>6, <1>7, <1>8, <1>9 DEF Arrives

LEMMA EditInvariant == ASSUME IInv, NEW k \in 1..MaxClicks, EditArrives(k) PROVE IInv'
<1> DEFINE t == task[Main(k)]
<1>1. Main(k) \in Tasks /\ Side(k) \in Tasks
  BY DEF Main, Side, Tasks
<1>2. {"status", "queue"} \subseteq Steps
  BY DEF Steps, StatusSteps
<1>3. /\ Free \in TaskSet(queueSelectionRequestId)
      /\ \A step \in Steps : Fetch(step, NONE, 0) \in TaskSet(queueSelectionRequestId)
  BY <1>1, Fetches DEF IInv
<1>4. PageOK'
  BY PageStep DEF EditArrives, IInv, PageOK
<1>5. TasksOK'
  <2>1. CASE t.ok
    <3>1. task' = [task EXCEPT ![Main(k)] = Fetch("status", NONE, 0),
                               ![Side(k)] = Fetch("queue", NONE, 0)]
      BY <2>1 DEF EditArrives
    <3> QED BY <1>1, <1>2, <1>3, <3>1 DEF EditArrives, IInv, TasksOK
  <2>2. CASE ~ t.ok
    BY <1>1, <1>3, <2>2, TaskGoesOn DEF EditArrives, IInv
  <2> QED BY <2>1, <2>2
<1> QED BY <1>4, <1>5 DEF EditArrives, IInv, ServerOK, BoundsOK, server, bounds

(* Every step keeps the invariant.                                         *)
LEMMA NextInvariant == ASSUME IInv, [Next]_vars PROVE IInv'
<1>1. CASE UNCHANGED vars
  BY <1>1 DEF vars, server, page, bounds, IInv, ServerOK, PageOK, TasksOK, BoundsOK
<1>2. CASE Publish \/ Change \/ Clicked
  BY <1>2, PublishInvariant, ChangeInvariant, ClickedInvariant
<1>3. CASE \E t \in Tasks : Serve(t) \/ Fail(t) \/ Arrives(t)
  BY <1>3, ServeInvariant, FailInvariant, ArrivesInvariant
<1>4. CASE \E k \in 1..MaxClicks : EditArrives(k)
  BY <1>4, EditInvariant
<1>5. CASE \E t \in Polls : Poll(t)
  BY <1>5, PollInvariant
<1> QED BY <1>1, <1>2, <1>3, <1>4, <1>5 DEF Next

(* Every reachable state is well typed; in particular the selection is     *)
(* that of the latest click on a queue row (playQueueItem,                 *)
(* removeQueueItem), and MPD's ids stay distinct on the page.              *)
THEOREM TypeCorrect == Spec => []TypeOK
<1>1. Init => IInv
  BY InitInvariant
<1>2. IInv /\ [Next]_vars => IInv'
  BY NextInvariant
<1>3. IInv => TypeOK
  BY InvariantIsTyped
<1> QED BY <1>1, <1>2, <1>3, PTL DEF Spec

-----------------------------------------------------------------------------
(* The highlight *)

(* A highlight is withdrawn by the status it waits for, or by a task of    *)
(* its own click or the removal of its row.                                *)
LEMMA OwnEvents ==
    ASSUME IInv, [Next]_vars, pending # NoSelection, pending' = NoSelection
    PROVE  \/ status' = pending.item
           \/ \E t \in Tasks :
                /\ task'[t] # task[t]
                /\ \/ task[t].req = pending.req
                   \/ task[t].step = "remove" /\ task[t].item = pending.item
<1>1. \A t \in Tasks : \A a : Answer(t, a) => task'[t] = a
  BY DEF IInv, TasksOK, Answer
<1>2. \A t \in Tasks : ShowStatus(t) /\ pending' = Reconciled(t) => status' = pending.item
  BY DEF ShowStatus, Reconciled
<1>3. ASSUME NEW t \in Tasks, Arrives(t) PROVE status' = pending.item \/
              (task'[t] # task[t] /\ task[t].req = pending.req)
  <2>1. CASE StatusArrives(t)
    BY <1>2, <2>1 DEF StatusArrives
  <2>2. CASE PlayArrives(t)
    <3>1. IsLatest(task[t].req) /\ Answer(t, Fetch("status", NONE, 0)) /\ task[t].step = "play"
      BY <2>2 DEF PlayArrives
    <3>2. task'[t].step = "status"
      BY <1>1, <3>1 DEF Fetch, Free
    <3> QED BY <3>1, <3>2 DEF IsLatest
  <2>3. CASE PlayStatusArrives(t)
    BY <1>2, <2>3 DEF PlayStatusArrives
  <2>4. CASE TimerStatusArrives(t)
    <3>1. CASE IsLatest(task[t].req)
      <4>1. task'[t].step = "free" /\ task[t].step = "timer_status"
        BY <1>1, <2>4 DEF TimerStatusArrives, Free
      <4> QED BY <3>1, <4>1 DEF IsLatest
    <3>2. CASE ~ IsLatest(task[t].req)
      BY <1>2, <2>4, <3>2 DEF TimerStatusArrives
    <3> QED BY <3>1, <3>2
  <2> QED BY <1>3, <2>1, <2>2, <2>3, <2>4
         DEF Arrives, QueueArrives, NextArrives, TimerFires, page
<1>4. ASSUME NEW k \in 1..MaxClicks, EditArrives(k)
      PROVE  /\ task'[Main(k)] # task[Main(k)]
             /\ task[Main(k)].step = "remove" /\ task[Main(k)].item = pending.item
  <2> DEFINE t == task[Main(k)]
  <2>1. t.ok /\ t.step = "remove" /\ t.item = pending.item
    BY <1>4 DEF EditArrives
  <2>2. Main(k) \in Tasks /\ Main(k) # Side(k)
    BY DEF Main, Side, Tasks
  <2>3. task' = [task EXCEPT ![Main(k)] = Fetch("status", NONE, 0),
                             ![Side(k)] = Fetch("queue", NONE, 0)]
    BY <1>4, <2>1 DEF EditArrives
  <2>4. task'[Main(k)] = Fetch("status", NONE, 0)
    BY <2>2, <2>3 DEF IInv, TasksOK
  <2>5. task'[Main(k)].step = "status"
    BY <2>4 DEF Fetch, Free
  <2> QED BY <2>1, <2>5
<1>5. \A k \in 1..MaxClicks : Main(k) \in Tasks
  BY DEF Main, Tasks
<1>6. ~ Clicked
  <2>1. \A item : ~ PlayQueueItem(item)
    <3> SUFFICES ASSUME NEW item, PlayQueueItem(item) PROVE FALSE
      OBVIOUS
    <3>1. queueSelectionRequestId' # 0
      BY DEF IInv, PageOK, PlayQueueItem
    <3> QED BY <3>1 DEF PlayQueueItem, NoSelection
  <2> QED BY <2>1 DEF Clicked, Start, page
<1>7. \A t \in Tasks : ~ Serve(t) /\ ~ Fail(t)
  BY DEF Serve, Fail, page
<1>8. ~ Publish /\ ~ Change /\ (\A t \in Polls : ~ Poll(t)) /\ ~ UNCHANGED vars
  BY DEF Publish, Change, Poll, vars, page
<1> QED BY <1>3, <1>4, <1>5, <1>6, <1>7, <1>8 DEF Next

(* A highlight is withdrawn by the status catching up with it, by its own  *)
(* request or timer, or by the removal of its row: never by the failure or *)
(* the timer of an older click, however many are under way                 *)
(* (isLatestQueueSelection, reconcilePendingQueueSelection).               *)
THEOREM HighlightWithdrawn == Spec => HighlightIsOwn
<1>1. Init => IInv
  BY InitInvariant
<1>2. IInv /\ [Next]_vars => IInv'
  BY NextInvariant
<1>3. IInv /\ [Next]_vars =>
        [(pending # NoSelection /\ pending' = NoSelection) =>
         \/ status' = pending.item
         \/ \E t \in Tasks :
              /\ task'[t] # task[t]
              /\ \/ task[t].req = pending.req
                 \/ task[t].step = "remove" /\ task[t].item = pending.item]_vars
  BY OwnEvents
<1> QED BY <1>1, <1>2, <1>3, PTL DEF Spec, HighlightIsOwn
=============================================================================
