----------------------------- MODULE DeviceProps -----------------------------
(***************************************************************************)
(* What mba-device promises to fingers and to snapshot clients.            *)
(***************************************************************************)
EXTENDS Device

(* Every variable has its type; the reply senders in the channel that are  *)
(* alive are those of the clients that wait, one each.                     *)
TypeOK ==
    /\ pin \in [Pins -> [down : BOOLEAN, held : 0..LONG_PRESS, was_pressed : BOOLEAN,
                         since : 0..LONG_PRESS, presses : Nat, acts : Nat]]
    /\ \A p \in Pins : pin[p].presses <= MaxPresses[p]
    /\ events \subseteq [pin : Pins, kind : {"short", "long"}, held : 0..LONG_PRESS]
    /\ pc \in Blocking \cup {"poll", "events", "drain", "sleeping"}
    /\ spent \in 0..(IF pc = "sleeping" THEN POLL_INTERVAL ELSE MaxBlock)
    /\ display \in BOOLEAN /\ message \in Messages /\ frame \in Messages \cup {"blank"}
    /\ last_display \in 0..DISPLAY_REFRESH /\ last_network_toggle \in 0..BUTTON_COOLDOWN
    /\ since_toggle \in 0..BUTTON_COOLDOWN
    /\ client \in [Clients -> [at : {"idle", "waiting", "answered", "failed", "timed_out"},
                               age : 0..SNAPSHOT_REPLY_TIMEOUT, shown : Messages \cup {"blank"}]]
    /\ \A c \in Clients :
         LET mine == {i \in DOMAIN channel : channel[i] = [from |-> c, alive |-> TRUE]}
         IN \A i, j \in mine : i = j /\ client[c].at = "waiting"

(* The network is switched only by a button that was held: the implementa- *)
(* tion plan's "a short press only prompts the hold action".               *)
ShortPressNeverToggles ==
    pc \in {"toggle_render", "toggling"} => Event.held >= LONG_PRESS

(* Between the end of one toggle and the start of the next NetworkManager  *)
(* has BUTTON_COOLDOWN to settle, however long the toggle took and whatever *)
(* was pressed while it blocked the loop.                                  *)
TogglesAreSpaced ==
    pc \in {"toggle_render", "toggling"} => since_toggle >= BUTTON_COOLDOWN

(* A press acts at most once, whether it falls between two polls, spans a  *)
(* blocked loop or is followed by another before the loop looks again.     *)
ActsOncePerPress == \A p \in Pins : pin[p].acts <= pin[p].presses

(* A snapshot shows how the last command ended, never its progress message *)
(* nor an older message: requests are drained after the forced refresh.    *)
SnapshotShowsOutcome ==
    /\ (pc = "drain" /\ display) => frame = message
    /\ \A c \in Clients :
         client[c].at = "answered" =>
            IF display THEN client[c].shown \in Messages \ {"progress"}
                       ELSE client[c].shown = "blank"

(* A snapshot client never times out while the loop sleeps between polls,  *)
(* only while commands or a render keep it busy: what was asked for before *)
(* the sleep is answered before the sleep.                                 *)
NoTimeoutWhileIdle ==
    [][\A c \in Clients :
         (client[c].at = "waiting" /\ client'[c].at = "timed_out") => pc # "sleeping"]_vars

(* A hold released outside the cooldown switches the network, unless the   *)
(* finger is back before the loop looks; other buttons released in the     *)
(* same iteration do not swallow it.                                       *)
HoldSwitches ==
    \A p \in YPins :
      (pin[p].was_pressed /\ ~ pin[p].down /\ pin[p].since >= LONG_PRESS
         /\ last_network_toggle >= BUTTON_COOLDOWN)
        ~> (pc = "toggling" \/ pin[p].down)
=============================================================================
