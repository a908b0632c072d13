------------------------- MODULE WebControllerProps -------------------------
(***************************************************************************)
(* What the web page promises its user.                                    *)
(***************************************************************************)
EXTENDS WebController

IsQueue(q) == ToSet(q) \subseteq Items /\ IsInjective(q)

(* Every variable has its type; a selection is always that of the latest   *)
(* click on a queue row, and a request of an older one never holds it.     *)
TypeOK ==
    /\ IsQueue(queue) /\ IsQueue(shown) /\ ToSet(queue) \cap unused = {}
    /\ current \in ToSet(queue) \cup {NONE}
    /\ {published, status} \subseteq Items \cup {NONE, DOWN}
    /\ pending \in [item : Items, req : {queueSelectionRequestId}] \cup {NoSelection}
    /\ \A t \in Tasks :
         /\ task[t].step \in StatusSteps \cup EditSteps
                             \cup {"free", "play", "queue", "next", "timer"}
         /\ task[t].item \in Items \cup {NONE, DOWN}
         /\ task[t].req \in 0..queueSelectionRequestId
         /\ task[t].at \in {"page", "server"}
         /\ task[t].ok \in BOOLEAN /\ IsQueue(task[t].items)
    /\ clicks \in 0..MaxClicks /\ changes \in 0..MaxChanges /\ failures \in 0..MaxFailures

(* The optimistic highlight is withdrawn by the status catching up with    *)
(* it, by its own request or timer, or by the removal of its row: never by *)
(* the failure or the timer of an older click.                             *)
HighlightIsOwn ==
    [][(pending # NoSelection /\ pending' = NoSelection) =>
         \/ status' = pending.item
         \/ \E t \in Tasks :
              /\ task'[t] # task[t]
              /\ \/ task[t].req = pending.req
                 \/ task[t].step = "remove" /\ task[t].item = pending.item]_vars

(* Once user and MPD are quiet, the page shows the item that plays and no  *)
(* highlight that waits for it, whatever responses overtook each other,    *)
(* failed, or reported a status from before the command.                   *)
PageConverges == <>[](status = current /\ pending = NoSelection)

(* "Show queue contents": once user and MPD are quiet the queue view shows *)
(* the queue, if only this page changed it.                                *)
QueueViewConverges == <>[](shown = queue)
=============================================================================
