----------------------------- MODULE MpdService -----------------------------
(***************************************************************************)
(* What MpdHandle promises to its callers, abstractly: every request acts  *)
(* on MPD at one instant, at most once, between the call and its answer.   *)
(* No channel, connection, await or reconnect appears here.  An answer Ok  *)
(* says the whole effect happened; a refusal (Unavailable, ChannelClosed)  *)
(* says none did; any other error leaves some part of it.  A request whose *)
(* caller gave up may still act, later.  What a request does to MPD is a   *)
(* parameter.                                                              *)
(***************************************************************************)
CONSTANTS
    Calls, Requests,
    States,                \* the states of MPD
    Effects(_, _),         \* the states that a request may leave when it succeeds,
    PartialEffects(_, _)   \* and when it fails, given the state it found

VARIABLES
    mpd,      \* MPD's state
    at,       \* each call: "new", "pending", "gone" (its caller gave up) or "done"
    request,  \* each call's request
    result    \* each call's answer, by kind
vars == <<mpd, at, request, result>>

Init ==
    /\ mpd \in States
    /\ at = [c \in Calls |-> "new"]
    /\ request = [c \in Calls |-> [kind |-> "none"]]
    /\ result = [c \in Calls |-> "none"]

Call(c, req) ==
    /\ at[c] = "new"
    /\ at' = [at EXCEPT ![c] = "pending"] /\ request' = [request EXCEPT ![c] = req]
    /\ UNCHANGED <<mpd, result>>

(* The caller leaves; a request that was not queued yet never acts.        *)
GiveUp(c) ==
    /\ at[c] = "pending"
    /\ \E point \in {"gone", "done"} : at' = [at EXCEPT ![c] = point]
    /\ UNCHANGED <<mpd, request, result>>

(* A call is served once; its caller learns the kind if it still waits.    *)
Serve(c, kind) ==
    /\ at[c] \in {"pending", "gone"}
    /\ at' = [at EXCEPT ![c] = "done"]
    /\ result' = IF at[c] = "pending" THEN [result EXCEPT ![c] = kind] ELSE result
    /\ UNCHANGED request

Succeed(c) == Serve(c, "Ok") /\ mpd' \in Effects(mpd, request[c])
Fail(c) == /\ \E kind \in {"Command", "Partial", "Unreconciled"} : Serve(c, kind)
           /\ mpd' \in PartialEffects(mpd, request[c])

(* Calls refused together, as when the task that served them dies.         *)
Refuse(group, kind) ==
    /\ group # {} /\ \A c \in group : at[c] \in {"pending", "gone"}
    /\ at' = [c \in Calls |-> IF c \in group THEN "done" ELSE at[c]]
    /\ result' = [c \in Calls |-> IF c \in group /\ at[c] = "pending" THEN kind ELSE result[c]]
    /\ UNCHANGED <<mpd, request>>

Next == \/ \E c \in Calls : \/ \E req \in Requests : Call(c, req)
                            \/ GiveUp(c) \/ Succeed(c) \/ Fail(c)
        \/ \E group \in SUBSET Calls, kind \in {"Unavailable", "ChannelClosed"} :
               Refuse(group, kind)
Spec == Init /\ [][Next]_vars
=============================================================================
