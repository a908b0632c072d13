--------------------------- MODULE MpdActorAtomic ---------------------------
(***************************************************************************)
(* MpdActor implements MpdService: although its handlers await MPD several *)
(* times, and connections break between and during the awaits, requests    *)
(* take effect one after the other, as if each were a single step at the   *)
(* moment it is answered.  This is claimed of an MPD nobody else changes   *)
(* (MaxSpontaneous = 0, mpd.conf's "only intended client"); with other     *)
(* clients it is false, the handlers' awaits being visible to them.        *)
(***************************************************************************)
EXTENDS MpdActorProps

(* What a request does to MPD in one go: what MPD makes of a command it    *)
(* accepts; for an enqueue, n tracks at the end of the queue, and playback *)
(* started when there was nothing to play.                                 *)
Accepted(m, cmd) == {outcome.mpd : outcome \in {o \in Outcomes(m, cmd) : o.ok}}
AddedTo(m, n) == {WithQueue(m, m.queue \o ids) :
                    ids \in {s \in [1..n -> FreeIds(m)] : IsInjective(s)}}
Autoplayed(m, added) == IF m.queue = <<>> THEN PlayCurrent(added) ELSE added

(* The states a request may leave when it succeeds.                        *)
Effects(m, req) ==
    CASE req.kind = "action" -> Accepted(m, req.cmd)
      [] req.kind = "setvol" -> {WithVolume(m, IF req.level < 100 THEN req.level ELSE 100)}
      [] req.kind = "toggle" ->
            Accepted(m, [name |-> IF m.state = "play" THEN "pause" ELSE "play"])
      [] req.kind = "move_after_current" ->
            LET current == CurrentSongOf(m) IN
            IF TargetMatchesCurrent(req.target, current) THEN {m}
            ELSE Accepted(m, IF current # NONE
                             THEN [name |-> "move_after_current", target |-> req.target]
                             ELSE [name |-> "move", target |-> req.target, to |-> 0])
      [] req.kind = "enqueue" -> {Autoplayed(m, n) : n \in AddedTo(m, Len(req.paths))}
      [] OTHER -> {}

(* The states a request may leave when it fails: an enqueue may have added *)
(* some of its tracks and started playback.                                *)
PartialEffects(m, req) ==
    {m} \cup Effects(m, req) \cup
    IF req.kind # "enqueue" THEN {}
    ELSE UNION {AddedTo(m, k) \cup {Autoplayed(m, n) : n \in AddedTo(m, k)} :
                k \in 1..Len(req.paths)}

-----------------------------------------------------------------------------
(* The actor, and the service it implements *)

VARIABLE start   \* history: MPD as the request in hand found it; without one, MPD

AtomicInit == Init /\ start = mpd
AtomicNext == Next /\ start' = IF hand' = NONE THEN mpd' ELSE start
AtomicSpec == AtomicInit /\ [][AtomicNext]_<<vars, start>>

(* The service's state in terms of the actor's: the effect of the request  *)
(* in hand is not counted before it is answered.                           *)
Queued(c) == hand = c \/ Places(c) # {}
PointOf(c) == CASE call[c].at \in {"sending", "waiting"} -> "pending"
                [] call[c].at = "abandoned" -> IF Queued(c) THEN "gone" ELSE "done"
                [] OTHER -> call[c].at
Service == INSTANCE MpdService WITH
    States <- MpdStates,
    mpd <- start,
    at <- [c \in Calls |-> PointOf(c)],
    request <- [c \in Calls |-> call[c].req],
    result <- [c \in Calls |-> call[c].result.kind]

(* Requests are atomic: every behaviour of the actor is, through that      *)
(* mapping, a behaviour of the service.                                    *)
RequestsAreAtomic == Service!Spec
=============================================================================
