------------------------------- MODULE Device -------------------------------
(***************************************************************************)
(* mba-device: one thread polls the buttons, runs what they ask for,       *)
(* refreshes the display and answers snapshot requests.  The network       *)
(* script and the HTTP calls block it, so presses begin and end, and       *)
(* snapshot clients come and give up, while it looks at none of them.      *)
(*                                                                         *)
(* Time is counted in ticks; only blocking calls and the sleep take any.   *)
(* An age stops at the constant it is compared with.  Abstracted: pixels,  *)
(* the SPI bus and what the dashboard shows besides the message.           *)
(***************************************************************************)
EXTENDS Naturals, Sequences

CONSTANTS
    PinOrder,     \* the pins of ButtonSet, in the order poll visits them
    YPins,        \* those that toggle the network; the others send commands
    Clients,      \* processes that connect to the snapshot socket
    LONG_PRESS, SHORT_PRESS_MIN, POLL_INTERVAL, DISPLAY_REFRESH, BUTTON_COOLDOWN,
    SNAPSHOT_REPLY_TIMEOUT,
    MaxBlock,     \* bound: ticks a blocking call takes
    MaxPresses,   \* bound: presses of each pin
    MaxQueued     \* bound: reply senders in the snapshot channel

Pins == {PinOrder[i] : i \in DOMAIN PinOrder}
Place(p) == CHOOSE i \in DOMAIN PinOrder : PinOrder[i] = p

ASSUME PinsAssumption == PinOrder \in Seq(Pins) /\ YPins \subseteq Pins
ASSUME TimesAssumption ==
    /\ {LONG_PRESS, SHORT_PRESS_MIN, POLL_INTERVAL, DISPLAY_REFRESH, BUTTON_COOLDOWN,
        SNAPSHOT_REPLY_TIMEOUT, MaxBlock, MaxQueued} \subseteq Nat \ {0}
    /\ MaxPresses \in [Pins -> Nat]
    /\ POLL_INTERVAL < SHORT_PRESS_MIN /\ SHORT_PRESS_MIN < LONG_PRESS
    /\ POLL_INTERVAL + LONG_PRESS < BUTTON_COOLDOWN
    /\ POLL_INTERVAL < SNAPSHOT_REPLY_TIMEOUT

VARIABLES
    pin,       \* each pin: pressed now, for how long, and its ButtonState
    events,    \* the events of the last poll still to be handled
    pc, spent, \* where the loop is, and the ticks spent in a blocking call
    display,   \* whether the display could be opened
    message,   \* the message to show
    frame,     \* the message in the framebuffer
    last_display, last_network_toggle,   \* their ages
    since_toggle,   \* ticks since the network script ended its last toggle
    client,    \* each snapshot client, its age and the message it was sent
    channel    \* reply senders; not alive when their client has given up
loop == <<pin, events, pc, spent, message, last_display, last_network_toggle, since_toggle>>
vars == <<loop, display, frame, client, channel>>

Messages == {"hint", "hold", "progress", "outcome"}
Blocking == {"toggle_render", "toggling", "post_render", "posting", "refreshing"}

Limit(n, max) == IF n > max THEN max ELSE n

Init ==
    /\ pin = [p \in Pins |-> [down |-> FALSE, held |-> 0, was_pressed |-> FALSE, since |-> 0,
                              presses |-> 0, acts |-> 0]]
    /\ events = {} /\ pc = "poll" /\ spent = 0
    /\ display \in BOOLEAN /\ message = "hint" /\ frame = "blank"
    /\ last_display = DISPLAY_REFRESH /\ last_network_toggle = BUTTON_COOLDOWN
    /\ since_toggle = BUTTON_COOLDOWN
    /\ client = [c \in Clients |-> [at |-> "idle", age |-> 0, shown |-> "blank"]]
    /\ channel = <<>>

-----------------------------------------------------------------------------
(* Time, fingers and snapshot clients *)

(* A call on a device without display returns at once.                     *)
TakesTime ==
    \/ pc \in {"toggling", "posting"}
    \/ pc \in {"toggle_render", "post_render", "refreshing"} /\ display
    \/ pc = "sleeping"

Tick ==
    /\ TakesTime /\ spent < (IF pc = "sleeping" THEN POLL_INTERVAL ELSE MaxBlock)
    /\ spent' = spent + 1
    /\ pin' = [p \in Pins |->
                 [pin[p] EXCEPT !.held = IF pin[p].down THEN Limit(@ + 1, LONG_PRESS) ELSE @,
                                !.since = IF pin[p].was_pressed THEN Limit(@ + 1, LONG_PRESS)
                                                                ELSE @]]
    /\ last_display' = Limit(last_display + 1, DISPLAY_REFRESH)
    /\ last_network_toggle' = Limit(last_network_toggle + 1, BUTTON_COOLDOWN)
    /\ since_toggle' = Limit(since_toggle + 1, BUTTON_COOLDOWN)
    /\ client' = [c \in Clients |->
                    [client[c] EXCEPT !.age = IF client[c].at = "waiting"
                                              THEN Limit(@ + 1, SNAPSHOT_REPLY_TIMEOUT) ELSE @]]
    /\ UNCHANGED <<events, pc, display, message, frame, channel>>

(* held is the time the pin is down since the press the loop tracks began. *)
Press(p) ==
    /\ ~ pin[p].down /\ pin[p].presses < MaxPresses[p]
    /\ pin' = [pin EXCEPT ![p].down = TRUE, ![p].presses = @ + 1,
                          ![p].held = IF pin[p].was_pressed THEN @ ELSE 0]
    /\ UNCHANGED <<events, pc, spent, display, message, frame, last_display,
                   last_network_toggle, since_toggle, client, channel>>

Release(p) ==
    /\ pin[p].down
    /\ pin' = [pin EXCEPT ![p].down = FALSE]
    /\ UNCHANGED <<events, pc, spent, display, message, frame, last_display,
                   last_network_toggle, since_toggle, client, channel>>

(* handle_snapshot_request: a thread of its own for each connection.       *)
Request(c) ==
    /\ client[c].at # "waiting" /\ Len(channel) < MaxQueued
    /\ client' = [client EXCEPT ![c] = [at |-> "waiting", age |-> 0, shown |-> "blank"]]
    /\ channel' = Append(channel, [from |-> c, alive |-> TRUE])
    /\ UNCHANGED <<loop, display, frame>>

GiveUp_KeepsReceiver(c) ==   \* Mutant: the reply channel outlives the handler.
    /\ client[c].at = "waiting" /\ client[c].age = SNAPSHOT_REPLY_TIMEOUT
    /\ client' = [client EXCEPT ![c].at = "timed_out", ![c].age = 0]
    /\ UNCHANGED <<loop, display, frame, channel>>
GiveUp(c) ==
    /\ client[c].at = "waiting" /\ client[c].age = SNAPSHOT_REPLY_TIMEOUT
    /\ client' = [client EXCEPT ![c].at = "timed_out", ![c].age = 0]
    /\ channel' = [i \in DOMAIN channel |->
                     IF channel[i].from = c THEN [channel[i] EXCEPT !.alive = FALSE]
                                            ELSE channel[i]]
    /\ UNCHANGED <<loop, display, frame>>

-----------------------------------------------------------------------------
(* ButtonState::poll *)

(* A release is judged by the time between the two polls that saw it.      *)
Released(p) == pin[p].was_pressed /\ ~ pin[p].down
Fires(p) == Released(p) /\ pin[p].since >= SHORT_PRESS_MIN
Kind(p) == IF pin[p].since >= LONG_PRESS THEN "long" ELSE "short"

(* Mutant: a release does not clear was_pressed.                           *)
AfterPoll_KeepsPressed(p) ==
    IF pin[p].down /\ ~ pin[p].was_pressed
    THEN [pin[p] EXCEPT !.since = 0, !.was_pressed = TRUE]
    ELSE pin[p]
AfterPoll(p) ==
    CASE pin[p].down /\ ~ pin[p].was_pressed ->
           [pin[p] EXCEPT !.since = 0, !.was_pressed = TRUE]
      [] Released(p) -> [pin[p] EXCEPT !.since = 0, !.was_pressed = FALSE, !.held = 0]
      [] OTHER -> pin[p]

(* ButtonSet::poll; the mutant returns with the first event.               *)
EventOf(p) == [pin |-> p, kind |-> Kind(p), held |-> pin[p].held]
PolledEvents_First ==
    {EventOf(p) : p \in {q \in Pins : Fires(q) /\ \A r \in Pins : Fires(r) => Place(q) <= Place(r)}}
PolledEvents == {EventOf(p) : p \in {q \in Pins : Fires(q)}}

Poll ==
    /\ pc = "poll"
    /\ events' = PolledEvents
    /\ pin' = [p \in Pins |-> AfterPoll(p)]
    /\ pc' = "events"
    /\ UNCHANGED <<spent, display, message, frame, last_display, last_network_toggle,
                   since_toggle, client, channel>>

-----------------------------------------------------------------------------
(* The events, in the order of their pins *)

Event == CHOOSE e \in events : \A f \in events : Place(e.pin) <= Place(f.pin)
IsToggle == Event.pin \in YPins

ShortY ==
    /\ pc = "events" /\ events # {} /\ IsToggle /\ Event.kind = "short"
    /\ message' = "hold" /\ last_display' = DISPLAY_REFRESH
    /\ events' = events \ {Event}
    /\ UNCHANGED <<pin, pc, spent, display, frame, last_network_toggle, since_toggle, client,
                   channel>>

(* A hold within the cooldown is ignored.                                  *)
LongY ==
    /\ pc = "events" /\ events # {} /\ IsToggle /\ Event.kind = "long"
    /\ IF last_network_toggle >= BUTTON_COOLDOWN
       THEN /\ message' = "progress" /\ pc' = "toggle_render" /\ spent' = 0
            /\ pin' = [pin EXCEPT ![Event.pin].acts = @ + 1]
            /\ UNCHANGED events
       ELSE events' = events \ {Event} /\ UNCHANGED <<message, pc, spent, pin>>
    /\ UNCHANGED <<display, frame, last_display, last_network_toggle, since_toggle, client,
                   channel>>

Playback ==
    /\ pc = "events" /\ events # {} /\ ~ IsToggle
    /\ message' = "progress" /\ pc' = "post_render" /\ spent' = 0
    /\ pin' = [pin EXCEPT ![Event.pin].acts = @ + 1]
    /\ UNCHANGED <<events, display, frame, last_display, last_network_toggle, since_toggle,
                   client, channel>>

(* render_status: draws the message unless there is no display.            *)
Draw == frame' = IF display THEN message ELSE frame

Rendered ==
    /\ pc \in {"toggle_render", "post_render"}
    /\ Draw /\ spent' = 0
    /\ pc' = IF pc = "toggle_render" THEN "toggling" ELSE "posting"
    /\ UNCHANGED <<pin, events, display, message, last_display, last_network_toggle,
                   since_toggle, client, channel>>

(* run_network_toggle and run_playback_command return.  Mutants: the       *)
(* cooldown runs from the start of the toggle; the result of a command is  *)
(* left to the next periodic refresh.                                      *)
Toggled_CooldownFromStart ==
    /\ pc = "toggling"
    /\ message' = "outcome"
    /\ last_network_toggle' = Limit(spent, BUTTON_COOLDOWN) /\ since_toggle' = 0
    /\ last_display' = DISPLAY_REFRESH
    /\ events' = events \ {Event} /\ pc' = "events" /\ spent' = 0
    /\ UNCHANGED <<pin, display, frame, client, channel>>
Toggled ==
    /\ pc = "toggling"
    /\ message' = "outcome"
    /\ last_network_toggle' = 0 /\ since_toggle' = 0 /\ last_display' = DISPLAY_REFRESH
    /\ events' = events \ {Event} /\ pc' = "events" /\ spent' = 0
    /\ UNCHANGED <<pin, display, frame, client, channel>>

Posted_NoRefresh ==
    /\ pc = "posting"
    /\ message' = "outcome"
    /\ events' = events \ {Event} /\ pc' = "events" /\ spent' = 0
    /\ UNCHANGED <<pin, display, frame, last_display, last_network_toggle, since_toggle, client,
                   channel>>
Posted ==
    /\ pc = "posting"
    /\ message' = "outcome" /\ last_display' = DISPLAY_REFRESH
    /\ events' = events \ {Event} /\ pc' = "events" /\ spent' = 0
    /\ UNCHANGED <<pin, display, frame, last_network_toggle, since_toggle, client, channel>>

-----------------------------------------------------------------------------
(* The rest of an iteration: refresh, drain_snapshot_requests, sleep *)

EventsDone ==
    /\ pc = "events" /\ events = {}
    /\ pc' = IF last_display >= DISPLAY_REFRESH THEN "refreshing" ELSE "drain"
    /\ spent' = 0
    /\ UNCHANGED <<pin, events, display, message, frame, last_display, last_network_toggle,
                   since_toggle, client, channel>>

Refreshed ==
    /\ pc = "refreshing"
    /\ Draw /\ last_display' = 0
    /\ pc' = "drain" /\ spent' = 0
    /\ UNCHANGED <<pin, events, display, message, last_network_toggle, since_toggle, client,
                   channel>>

(* Sending to a client that gave up fails, and is ignored; when the frame  *)
(* cannot be encoded the client sees its reply channel closed.             *)
Answer ==
    \/ ~ Head(channel).alive /\ UNCHANGED client
    \/ /\ Head(channel).alive
       /\ \E reply \in {[at |-> "answered", age |-> 0, shown |-> frame],
                        [at |-> "failed", age |-> 0, shown |-> "blank"]} :
            client' = [client EXCEPT ![Head(channel).from] = reply]

Drain_Once ==   \* Mutant: one request for each iteration.
    /\ pc = "drain"
    /\ IF channel = <<>> THEN UNCHANGED <<client, channel>>
                         ELSE Answer /\ channel' = Tail(channel)
    /\ pc' = "sleeping" /\ spent' = 0
    /\ UNCHANGED <<pin, events, display, message, frame, last_display, last_network_toggle,
                   since_toggle>>
Drain ==
    /\ pc = "drain"
    /\ IF channel = <<>>
       THEN pc' = "sleeping" /\ spent' = 0 /\ UNCHANGED <<client, channel>>
       ELSE Answer /\ channel' = Tail(channel) /\ UNCHANGED <<pc, spent>>
    /\ UNCHANGED <<pin, events, display, message, frame, last_display, last_network_toggle,
                   since_toggle>>

Wake ==
    /\ pc = "sleeping" /\ spent = POLL_INTERVAL
    /\ pc' = "poll" /\ spent' = 0
    /\ UNCHANGED <<pin, events, display, message, frame, last_display, last_network_toggle,
                   since_toggle, client, channel>>

-----------------------------------------------------------------------------
(* Specification *)

Loop == Poll \/ ShortY \/ LongY \/ Playback \/ Rendered \/ Toggled \/ Posted
        \/ EventsDone \/ Refreshed \/ Drain \/ Wake
Next == \/ Tick \/ Loop
        \/ \E p \in Pins : Press(p) \/ Release(p)
        \/ \E c \in Clients : Request(c) \/ GiveUp(c)
Spec == Init /\ [][Next]_vars

(* The scheduler goes on running the loop and time passes; nobody has to   *)
(* press, to ask or to give up.  A client that asks again as soon as it is *)
(* answered does not win against try_recv every time (SF), so that         *)
(* draining the channel ends.                                              *)
FairSpec == Spec /\ WF_vars(Loop \/ Tick) /\ SF_vars(Drain /\ channel = <<>>)
=============================================================================
