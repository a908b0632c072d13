---------------------------- MODULE DeviceProofs ----------------------------
(***************************************************************************)
(* Theorems about Device, for any pins, clients, times and numbers of      *)
(* presses, and display or none.                                           *)
(***************************************************************************)
EXTENDS DeviceProps, FiniteSets, FiniteSetTheorems, WellFoundedInduction, SequenceTheorems, TLAPS

Acting == {"toggle_render", "toggling", "post_render", "posting"}

(* A pin has one event at most, and events are there while they are        *)
(* handled.                                                                *)
EventsOK ==
    /\ \A e, f \in events : e.pin = f.pin => e = f
    /\ pc \in Acting => events # {}
    /\ pc \notin Acting \cup {"events"} => events = {}

(* Each press is one of: acted upon, owed an action, still seen or unseen. *)
Owed(p) == \E e \in events : e.pin = p /\ ~ (pc \in Acting /\ e = Event)
Open(p) == pin[p].down \/ pin[p].was_pressed
One(b) == IF b THEN 1 ELSE 0
PressesCover == \A p \in Pins : pin[p].acts + One(Owed(p)) + One(Open(p)) <= pin[p].presses

(* Whoever waits has its sender in the channel.                            *)
Senders == [from : Clients, alive : BOOLEAN]
Sender(c) == [from |-> c, alive |-> TRUE]
ChannelOK ==
    /\ channel \in Seq(Senders)
    /\ \A c \in Clients : client[c].at = "waiting" => \E i \in DOMAIN channel : channel[i] = Sender(c)

(* The cooldown is exactly the time since the last toggle ended.           *)
CooldownOK ==
    /\ since_toggle = last_network_toggle
    /\ pc \in {"toggle_render", "toggling"} => last_network_toggle >= BUTTON_COOLDOWN

(* What is not drawn yet is about to be, and no progress message stays.    *)
FrameOK ==
    /\ ~ display => frame = "blank"
    /\ message = "progress" => pc \in Acting
    /\ (display /\ pc \notin Acting) =>
          frame = message \/ (pc # "drain" /\ last_display >= DISPLAY_REFRESH)

(* Whoever waits asked after the loop went to sleep.                       *)
SleepOK == pc = "sleeping" => \A c \in Clients : client[c].at = "waiting" => client[c].age <= spent

IInv == /\ TypeOK /\ EventsOK /\ PressesCover /\ ChannelOK /\ CooldownOK
        /\ FrameOK /\ SnapshotShowsOutcome /\ SleepOK

-----------------------------------------------------------------------------
(* Sets of numbers and the next event *)

(* A set of numbers has a least element.                                   *)
LEMMA LeastNumber == ASSUME NEW S \in SUBSET Nat, S # {} PROVE \E n \in S : \A m \in S : n <= m
<1> DEFINE Initials == {0..n : n \in S}
<1>1. IsWellFoundedOn(StrictSubsetOrdering(Nat), FiniteSubsetsOf(Nat))
  BY FS_StrictSubsetOrderingWellFounded
<1>2. Initials \subseteq FiniteSubsetsOf(Nat) /\ Initials # {}
  <2>1. \A n \in S : IsFiniteSet(0..n) /\ 0..n \in SUBSET Nat
    BY FS_Interval
  <2> QED BY <2>1 DEF FiniteSubsetsOf
<1>3. \E x \in Initials : \A y \in Initials : <<y, x>> \notin StrictSubsetOrdering(Nat)
  BY <1>1, <1>2, WFMin
<1>4. PICK n \in S : \A m \in S : <<0..m, 0..n>> \notin StrictSubsetOrdering(Nat)
  BY <1>3
<1>5. ASSUME NEW m \in S, m < n PROVE FALSE
  <2>1. 0..m \subseteq 0..n /\ 0..m # 0..n /\ 0..m \in SUBSET Nat /\ 0..n \in SUBSET Nat
    BY <1>5
  <2> QED BY <2>1, <1>4 DEF StrictSubsetOrdering
<1> QED BY <1>5

LEMMA PlaceOfPin == \A p \in Pins : Place(p) \in Nat
  BY PinsAssumption DEF Pins, Place

(* While events are left, the loop handles one of them.                    *)
LEMMA EventIsThere ==
    ASSUME NEW set, set # {}, \A e \in set : e.pin \in Pins
    PROVE  (CHOOSE e \in set : \A f \in set : Place(e.pin) <= Place(f.pin)) \in set
<1> DEFINE places == {Place(e.pin) : e \in set}
<1>1. places \in SUBSET Nat /\ places # {}
  BY PlaceOfPin
<1>2. PICK n \in places : \A m \in places : n <= m
  BY <1>1, LeastNumber
<1>3. \E e \in set : \A f \in set : Place(e.pin) <= Place(f.pin)
  BY <1>2
<1> QED BY <1>3

-----------------------------------------------------------------------------
(* Types *)

PinState == [down : BOOLEAN, held : 0..LONG_PRESS, was_pressed : BOOLEAN,
             since : 0..LONG_PRESS, presses : Nat, acts : Nat]
PinsOK == pin \in [Pins -> PinState] /\ \A p \in Pins : pin[p].presses <= MaxPresses[p]
LoopOK ==
    /\ events \subseteq [pin : Pins, kind : {"short", "long"}, held : 0..LONG_PRESS]
    /\ pc \in Blocking \cup {"poll", "events", "drain", "sleeping"}
    /\ spent \in 0..(IF pc = "sleeping" THEN POLL_INTERVAL ELSE MaxBlock)
    /\ display \in BOOLEAN /\ message \in Messages /\ frame \in Messages \cup {"blank"}
    /\ last_display \in 0..DISPLAY_REFRESH /\ last_network_toggle \in 0..BUTTON_COOLDOWN
    /\ since_toggle \in 0..BUTTON_COOLDOWN
ClientsOK ==
    client \in [Clients -> [at : {"idle", "waiting", "answered", "failed", "timed_out"},
                            age : 0..SNAPSHOT_REPLY_TIMEOUT, shown : Messages \cup {"blank"}]]
SendersOK ==
    \A c \in Clients, i, j \in DOMAIN channel :
        channel[i] = Sender(c) /\ channel[j] = Sender(c) => i = j /\ client[c].at = "waiting"

(* Type correctness, pin by pin and client by client.                      *)
LEMMA TypesInParts == TypeOK <=> PinsOK /\ LoopOK /\ ClientsOK /\ SendersOK
<1>1. SendersOK <=>
        \A c \in Clients :
          LET mine == {i \in DOMAIN channel : channel[i] = [from |-> c, alive |-> TRUE]}
          IN \A i, j \in mine : i = j /\ client[c].at = "waiting"
  BY DEF SendersOK, Sender
<1> QED BY <1>1 DEF TypeOK, PinsOK, PinState, LoopOK, ClientsOK

LEMMA LimitIsBounded == \A n, max \in Nat : Limit(n, max) \in 0..max
  BY DEF Limit

(* The next event is one of those polled.                                  *)
LEMMA EventOfLoop == ASSUME TypeOK, EventsOK, events # {} PROVE Event \in events
  BY EventIsThere, TypesInParts DEF LoopOK, Event

(* What the updates of a pin's record leave alone.                         *)
LEMMA PinTicked ==
    ASSUME NEW r \in PinState, NEW held \in 0..LONG_PRESS, NEW since \in 0..LONG_PRESS
    PROVE  LET s == [r EXCEPT !.held = held, !.since = since] IN
           /\ s \in PinState /\ s.down = r.down /\ s.was_pressed = r.was_pressed
           /\ s.presses = r.presses /\ s.acts = r.acts
  BY DEF PinState
LEMMA PinActs ==
    ASSUME NEW r \in PinState
    PROVE  LET s == [r EXCEPT !.acts = @ + 1] IN
           /\ s \in PinState /\ s.down = r.down /\ s.was_pressed = r.was_pressed
           /\ s.presses = r.presses /\ s.acts = r.acts + 1
  BY DEF PinState
LEMMA PinReleased ==
    ASSUME NEW r \in PinState
    PROVE  LET s == [r EXCEPT !.down = FALSE] IN
           /\ s \in PinState /\ ~ s.down /\ s.was_pressed = r.was_pressed
           /\ s.presses = r.presses /\ s.acts = r.acts
  BY DEF PinState
LEMMA PinPressed ==
    ASSUME NEW r \in PinState, NEW held \in 0..LONG_PRESS, NEW n \in Nat
    PROVE  LET s == [r EXCEPT !.down = TRUE, !.presses = n, !.held = held] IN
           /\ s \in PinState /\ s.down /\ s.was_pressed = r.was_pressed
           /\ s.presses = n /\ s.acts = r.acts
  BY DEF PinState
LEMMA PinSeen ==
    ASSUME NEW r \in PinState, 0 \in 0..LONG_PRESS
    PROVE  LET s == [r EXCEPT !.since = 0, !.was_pressed = TRUE] IN
           /\ s \in PinState /\ s.down = r.down /\ s.was_pressed = TRUE
           /\ s.presses = r.presses /\ s.acts = r.acts
  BY DEF PinState
LEMMA PinUnseen ==
    ASSUME NEW r \in PinState, 0 \in 0..LONG_PRESS
    PROVE  LET s == [r EXCEPT !.since = 0, !.was_pressed = FALSE, !.held = 0] IN
           /\ s \in PinState /\ s.down = r.down /\ s.was_pressed = FALSE
           /\ s.presses = r.presses /\ s.acts = r.acts
  BY DEF PinState

LEMMA PinsTyped == ASSUME IInv PROVE
    /\ PinsOK /\ pin \in [Pins -> PinState] /\ (\A p \in Pins : pin[p] \in PinState)
    /\ LONG_PRESS \in Nat /\ 0 \in 0..LONG_PRESS /\ MaxPresses \in [Pins -> Nat]
  BY TypesInParts, TimesAssumption DEF IInv, PinsOK

(* What each action does to a pin.                                         *)
Steady(p) == /\ pin'[p].down = pin[p].down /\ pin'[p].was_pressed = pin[p].was_pressed
             /\ pin'[p].presses = pin[p].presses

LEMMA TickPins ==
    ASSUME IInv, Tick
    PROVE  pin' \in [Pins -> PinState] /\ \A p \in Pins : Steady(p) /\ pin'[p].acts = pin[p].acts
<1> DEFINE held(p) == IF pin[p].down THEN Limit(pin[p].held + 1, LONG_PRESS) ELSE pin[p].held
           since(p) == IF pin[p].was_pressed THEN Limit(pin[p].since + 1, LONG_PRESS) ELSE pin[p].since
<1>1. ASSUME NEW p \in Pins PROVE held(p) \in 0..LONG_PRESS /\ since(p) \in 0..LONG_PRESS
  <2>1. pin[p].held \in 0..LONG_PRESS /\ pin[p].since \in 0..LONG_PRESS /\ LONG_PRESS \in Nat
    BY PinsTyped DEF PinState
  <2>2. pin[p].held + 1 \in Nat /\ pin[p].since + 1 \in Nat
    BY <2>1
  <2>3. Limit(pin[p].held + 1, LONG_PRESS) \in 0..LONG_PRESS /\ Limit(pin[p].since + 1, LONG_PRESS) \in 0..LONG_PRESS
    BY <2>1, <2>2, LimitIsBounded
  <2> QED BY <2>1, <2>3
<1>2. \A p \in Pins : pin'[p] = [pin[p] EXCEPT !.held = held(p), !.since = since(p)]
  BY PinsTyped DEF Tick, PinState
<1>3. pin' = [p \in Pins |-> pin'[p]]
  BY DEF Tick
<1> HIDE DEF held, since
<1>4. ASSUME NEW p \in Pins PROVE pin'[p] \in PinState /\ Steady(p) /\ pin'[p].acts = pin[p].acts
  <2> DEFINE r == pin[p]
  <2>1. r \in PinState
    BY PinsTyped
  <2>2. LET s == [r EXCEPT !.held = held(p), !.since = since(p)] IN
          /\ s \in PinState /\ s.down = r.down /\ s.was_pressed = r.was_pressed
          /\ s.presses = r.presses /\ s.acts = r.acts
    <3>1. held(p) \in 0..LONG_PRESS /\ since(p) \in 0..LONG_PRESS
      BY <1>1
    <3> HIDE DEF r
    <3> QED BY <2>1, <3>1, PinTicked
  <2>3. pin'[p] = [r EXCEPT !.held = held(p), !.since = since(p)]
    BY <1>2
  <2> QED BY <2>2, <2>3 DEF Steady
<1> QED BY <1>3, <1>4

LEMMA PressPins ==
    ASSUME IInv, NEW p \in Pins, Press(p)
    PROVE  /\ pin' \in [Pins -> PinState] /\ (\A q \in Pins \ {p} : pin'[q] = pin[q]) /\ ~ pin[p].down
           /\ pin'[p].down /\ pin'[p].was_pressed = pin[p].was_pressed /\ pin'[p].acts = pin[p].acts
           /\ pin'[p].presses = pin[p].presses + 1 /\ pin[p].presses < MaxPresses[p]
<1> DEFINE held == IF pin[p].was_pressed THEN pin[p].held ELSE 0
           n    == pin[p].presses + 1
<1>1. held \in 0..LONG_PRESS /\ n \in Nat
  BY PinsTyped DEF PinState
<1>2. pin' = [pin EXCEPT ![p] = [pin[p] EXCEPT !.down = TRUE, !.presses = n, !.held = held]]
  BY PinsTyped DEF Press, PinState
<1>3. n = pin[p].presses + 1 /\ pin[p].presses < MaxPresses[p] /\ ~ pin[p].down
  BY DEF Press
<1> DEFINE r == pin[p]
           s == [r EXCEPT !.down = TRUE, !.presses = n, !.held = held]
<1>4. r \in PinState
  BY PinsTyped
<1> HIDE DEF held, n, r
<1>5. /\ s \in PinState /\ s.down /\ s.was_pressed = r.was_pressed
      /\ s.presses = n /\ s.acts = r.acts
  BY <1>1, <1>4, PinPressed
<1>6. pin' = [pin EXCEPT ![p] = s]
  BY <1>2 DEF r
<1> HIDE DEF s
<1> QED BY <1>3, <1>5, <1>6, PinsTyped DEF r

LEMMA ReleasePins ==
    ASSUME IInv, NEW p \in Pins, Release(p)
    PROVE  /\ pin' \in [Pins -> PinState] /\ (\A q \in Pins \ {p} : pin'[q] = pin[q])
           /\ pin[p].down /\ ~ pin'[p].down /\ pin'[p].was_pressed = pin[p].was_pressed
           /\ pin'[p].acts = pin[p].acts /\ pin'[p].presses = pin[p].presses
<1>1. pin' = [pin EXCEPT ![p] = [pin[p] EXCEPT !.down = FALSE]] /\ pin[p].down
  BY PinsTyped DEF Release
<1> QED BY <1>1, PinsTyped, PinReleased

LEMMA PollPins ==
    ASSUME IInv, Poll
    PROVE  /\ pin' \in [Pins -> PinState]
           /\ \A p \in Pins : /\ pin'[p].acts = pin[p].acts /\ pin'[p].presses = pin[p].presses
                              /\ pin'[p].down = pin[p].down /\ pin'[p].was_pressed = pin[p].down
<1>1. \A p \in Pins : pin'[p] = AfterPoll(p)
  BY DEF Poll
<1>2. ASSUME NEW p \in Pins
      PROVE  /\ AfterPoll(p) \in PinState /\ AfterPoll(p).acts = pin[p].acts
             /\ AfterPoll(p).presses = pin[p].presses /\ AfterPoll(p).down = pin[p].down
             /\ AfterPoll(p).was_pressed = pin[p].down
  <2>1. CASE pin[p].down /\ ~ pin[p].was_pressed
    <3>1. AfterPoll(p) = [pin[p] EXCEPT !.since = 0, !.was_pressed = TRUE]
      BY <2>1, Zenon DEF AfterPoll, Released
    <3>2. pin[p] \in PinState /\ pin[p].down = TRUE
      BY <2>1, PinsTyped DEF PinState
    <3> QED BY <3>1, <3>2, PinSeen, PinsTyped
  <2>2. CASE Released(p)
    <3>1. AfterPoll(p) = [pin[p] EXCEPT !.since = 0, !.was_pressed = FALSE, !.held = 0]
      BY <2>2, Zenon DEF AfterPoll, Released
    <3>2. pin[p] \in PinState /\ pin[p].down = FALSE
      BY <2>2, PinsTyped DEF PinState, Released
    <3> QED BY <3>1, <3>2, PinUnseen, PinsTyped
  <2>3. CASE ~ (pin[p].down /\ ~ pin[p].was_pressed) /\ ~ Released(p)
    <3>1. AfterPoll(p) = pin[p]
      BY <2>3 DEF AfterPoll
    <3>2. pin[p].down \in BOOLEAN /\ pin[p].was_pressed \in BOOLEAN
      BY PinsTyped DEF PinState
    <3> QED BY <2>3, <3>1, <3>2, PinsTyped DEF Released
  <2> QED BY <2>1, <2>2, <2>3
<1>3. pin' = [p \in Pins |-> pin'[p]]
  BY DEF Poll
<1> QED BY <1>1, <1>2, <1>3

LEMMA ActPins ==
    ASSUME IInv, NEW p \in Pins, pin' = [pin EXCEPT ![p].acts = @ + 1]
    PROVE  /\ pin' \in [Pins -> PinState] /\ (\A q \in Pins : Steady(q))
           /\ (\A q \in Pins \ {p} : pin'[q].acts = pin[q].acts) /\ pin'[p].acts = pin[p].acts + 1
<1>1. pin' = [pin EXCEPT ![p] = [pin[p] EXCEPT !.acts = @ + 1]]
  OBVIOUS
<1> QED BY <1>1, PinsTyped, PinActs DEF Steady

(* Every step keeps the pins well formed,                                  *)
LEMMA PinsStep == ASSUME IInv, [Next]_vars PROVE PinsOK'
<1>1. CASE UNCHANGED pin
  BY <1>1, PinsTyped DEF PinsOK
<1>2. ASSUME pin' \in [Pins -> PinState], \A p \in Pins : Steady(p) PROVE PinsOK'
  BY <1>2, PinsTyped DEF PinsOK, Steady
<1>3. CASE Tick
  BY <1>2, <1>3, TickPins
<1>4. CASE Poll
  <2>1. pin' \in [Pins -> PinState] /\ \A p \in Pins : pin'[p].presses = pin[p].presses
    BY <1>4, PollPins
  <2> QED BY <2>1, PinsTyped DEF PinsOK
<1>5. ASSUME NEW p \in Pins, Press(p) PROVE PinsOK'
  <2>1. pin[p].presses \in Nat /\ MaxPresses[p] \in Nat
    BY PinsTyped DEF PinState
  <2>2. pin'[p].presses <= MaxPresses[p]
    BY <1>5, <2>1, PressPins
  <2>3. \A q \in Pins : pin'[q].presses <= MaxPresses[q]
    BY <1>5, <2>2, PressPins, PinsTyped DEF PinsOK
  <2> QED BY <1>5, <2>3, PressPins DEF PinsOK
<1>6. ASSUME NEW p \in Pins, Release(p) PROVE PinsOK'
  BY <1>6, ReleasePins, PinsTyped DEF PinsOK
<1>7. ASSUME events # {}, pin' = [pin EXCEPT ![Event.pin].acts = @ + 1] PROVE PinsOK'
  <2>1. Event.pin \in Pins
    BY <1>7, EventOfLoop, TypesInParts DEF IInv, LoopOK
  <2> QED BY <1>2, <1>7, <2>1, ActPins
<1>8. CASE LongY
  BY <1>1, <1>7, <1>8 DEF LongY
<1>9. CASE Playback
  BY <1>7, <1>9 DEF Playback
<1> QED BY <1>1, <1>3, <1>4, <1>5, <1>6, <1>8, <1>9
        DEF Next, Loop, ShortY, Rendered, Toggled, Posted, EventsDone, Refreshed, Drain, Wake, Request, GiveUp, vars, loop

(* and the loop, within the durations of its calls.                        *)
LEMMA LoopStep == ASSUME IInv, [Next]_vars PROVE LoopOK'
<1>1. /\ LoopOK
      /\ {LONG_PRESS, POLL_INTERVAL, DISPLAY_REFRESH, BUTTON_COOLDOWN, MaxBlock} \subseteq Nat \ {0}
  BY TypesInParts, TimesAssumption DEF IInv
<1>2. CASE UNCHANGED <<events, pc, spent, display, message, frame, last_display, last_network_toggle, since_toggle>>
  BY <1>1, <1>2 DEF LoopOK
<1>3. CASE Tick
  <2>1. /\ last_display + 1 \in Nat /\ last_network_toggle + 1 \in Nat /\ since_toggle + 1 \in Nat
        /\ spent \in Nat
    BY <1>1 DEF LoopOK
  <2>2. /\ last_display' \in 0..DISPLAY_REFRESH /\ last_network_toggle' \in 0..BUTTON_COOLDOWN
        /\ since_toggle' \in 0..BUTTON_COOLDOWN
    BY <1>1, <1>3, <2>1, LimitIsBounded DEF Tick
  <2>3. spent' \in 0..(IF pc' = "sleeping" THEN POLL_INTERVAL ELSE MaxBlock)
    <3>1. spent < (IF pc = "sleeping" THEN POLL_INTERVAL ELSE MaxBlock) /\ spent' = spent + 1 /\ pc' = pc
      BY <1>3 DEF Tick
    <3>2. CASE pc = "sleeping"
      BY <1>1, <2>1, <3>1, <3>2
    <3>3. CASE pc # "sleeping"
      BY <1>1, <2>1, <3>1, <3>3
    <3> QED BY <3>2, <3>3
  <2> QED BY <1>1, <1>3, <2>2, <2>3 DEF Tick, LoopOK
<1>4. CASE Poll
  <2>1. \A p \in Pins : EventOf(p) \in [pin : Pins, kind : {"short", "long"}, held : 0..LONG_PRESS]
    BY PinsTyped DEF EventOf, Kind, PinState
  <2>2. events' \subseteq [pin : Pins, kind : {"short", "long"}, held : 0..LONG_PRESS]
    BY <1>4, <2>1 DEF Poll, PolledEvents
  <2>3. spent' \in 0..(IF pc' = "sleeping" THEN POLL_INTERVAL ELSE MaxBlock)
    BY <1>1, <1>4 DEF Poll, LoopOK
  <2> QED BY <1>1, <1>4, <2>2, <2>3 DEF Poll, LoopOK
<1>5. CASE ShortY
  BY <1>1, <1>5 DEF ShortY, LoopOK, Messages
<1>6. CASE LongY
  BY <1>1, <1>6 DEF LongY, LoopOK, Messages, Blocking
<1>7. CASE Playback
  BY <1>1, <1>7 DEF Playback, LoopOK, Messages, Blocking
<1>8. CASE Rendered
  BY <1>1, <1>8 DEF Rendered, Draw, LoopOK, Blocking
<1>9. CASE Toggled
  BY <1>1, <1>9 DEF Toggled, LoopOK, Messages
<1>10. CASE Posted
  BY <1>1, <1>10 DEF Posted, LoopOK, Messages
<1>11. CASE EventsDone
  BY <1>1, <1>11 DEF EventsDone, LoopOK, Blocking
<1>12. CASE Refreshed
  BY <1>1, <1>12 DEF Refreshed, Draw, LoopOK
<1>13. CASE Drain
  BY <1>1, <1>13 DEF Drain, LoopOK
<1>14. CASE Wake
  BY <1>1, <1>14 DEF Wake, LoopOK
<1> QED BY <1>2, <1>3, <1>4, <1>5, <1>6, <1>7, <1>8, <1>9, <1>10, <1>11, <1>12, <1>13, <1>14
        DEF Next, Loop, Press, Release, Request, GiveUp, vars, loop

(* A pin has one event at most, and one is there while it is handled.      *)
LEMMA EventsStep == ASSUME IInv, [Next]_vars PROVE EventsOK'
<1> USE DEF EventsOK, Acting
<1>1. EventsOK
  BY DEF IInv
<1>2. CASE UNCHANGED <<events, pc>>
  BY <1>1, <1>2
<1>3. CASE Poll
  BY <1>3 DEF Poll, PolledEvents, EventOf
<1>4. CASE ShortY
  BY <1>1, <1>4 DEF ShortY
<1>5. CASE LongY
  BY <1>1, <1>5 DEF LongY
<1>6. CASE Playback
  BY <1>1, <1>6 DEF Playback
<1>7. CASE Rendered
  BY <1>1, <1>7 DEF Rendered
<1>8. CASE Toggled \/ Posted
  BY <1>1, <1>8 DEF Toggled, Posted
<1>9. CASE EventsDone \/ Refreshed \/ Drain \/ Wake
  BY <1>1, <1>9 DEF EventsDone, Refreshed, Drain, Wake
<1> QED BY <1>2, <1>3, <1>4, <1>5, <1>6, <1>7, <1>8, <1>9
        DEF Next, Loop, Tick, Press, Release, Request, GiveUp, vars, loop

(* A pin for which nothing is added.                                       *)
LEMMA CoverKept ==
    ASSUME IInv, NEW p \in Pins, pin'[p].acts = pin[p].acts, pin'[p].presses = pin[p].presses,
           Owed(p)' => Owed(p), Open(p)' => Open(p)
    PROVE  pin'[p].acts + One(Owed(p)') + One(Open(p)') <= pin'[p].presses
<1>1. pin[p].acts \in Nat /\ pin[p].presses \in Nat
  BY PinsTyped DEF PinState
<1>2. pin[p].acts + One(Owed(p)) + One(Open(p)) <= pin[p].presses
  BY DEF IInv, PressesCover
<1> HIDE DEF Owed, Open
<1> QED BY <1>1, <1>2 DEF One

(* What a pin is owed depends on the events alone.                         *)
LEMMA OwedKept ==
    ASSUME UNCHANGED events, pc \in Acting <=> pc' \in Acting, NEW p PROVE Owed(p)' <=> Owed(p)
  BY DEF Owed, Event

(* Whether a press may still act depends on its pin alone.                 *)
LEMMA OpenKept == ASSUME NEW p, Steady(p) PROVE Open(p)' <=> Open(p)
  BY DEF Open, Steady

(* Acting on an event uses up the press it was polled for.                 *)
LEMMA ActCovers ==
    ASSUME IInv, pc = "events", events # {}, pc' \in Acting, UNCHANGED events,
           pin' = [pin EXCEPT ![Event.pin].acts = @ + 1]
    PROVE  PressesCover'
<1>1. Event \in events /\ Event.pin \in Pins
  BY EventOfLoop, TypesInParts DEF IInv, LoopOK
<1>2. Event' = Event
  BY DEF Event
<1> HIDE DEF Event
<1>3. \A q \in Pins : Steady(q) /\ (q # Event.pin => pin'[q].acts = pin[q].acts)
  BY <1>1, ActPins
<1>4. pin'[Event.pin].acts = pin[Event.pin].acts + 1
  BY <1>1, ActPins
<1>5. ASSUME NEW q \in Pins, q # Event.pin
      PROVE  pin'[q].acts + One(Owed(q)') + One(Open(q)') <= pin'[q].presses
  <2>1. Owed(q)' => Owed(q)
    BY <1>2 DEF Owed, Acting
  <2> QED BY <1>3, <1>5, <2>1, CoverKept, OpenKept DEF Steady
<1>6. ASSUME NEW p \in Pins, p = Event.pin
      PROVE  pin'[p].acts + One(Owed(p)') + One(Open(p)') <= pin'[p].presses
  <2>1. Owed(p)
    BY <1>1, <1>6 DEF Owed, Acting
  <2>2. ~ Owed(p)'
    BY <1>1, <1>2, <1>6 DEF Owed, IInv, EventsOK
  <2>3. Open(p)' <=> Open(p)
    BY <1>3, OpenKept
  <2>4. pin[p].acts \in Nat /\ pin[p].presses \in Nat /\ pin'[p].presses = pin[p].presses
    BY <1>3, PinsTyped DEF PinState, Steady
  <2>5. pin[p].acts + One(Owed(p)) + One(Open(p)) <= pin[p].presses
    BY DEF IInv, PressesCover
  <2>6. pin'[p].acts = pin[p].acts + 1
    BY <1>4, <1>6
  <2> HIDE DEF Owed, Open
  <2> QED BY <2>1, <2>2, <2>3, <2>4, <2>5, <2>6 DEF One
<1> QED BY <1>5, <1>6 DEF PressesCover

(* No step makes a press act twice.                                        *)
LEMMA PressesStep == ASSUME IInv, [Next]_vars PROVE PressesCover'
<1>1. ASSUME \A p \in Pins : Steady(p) /\ pin'[p].acts = pin[p].acts /\ (Owed(p)' => Owed(p))
      PROVE  PressesCover'
  BY <1>1, CoverKept, OpenKept DEF PressesCover, Steady
<1>2. ASSUME UNCHANGED pin, \A p \in Pins : Owed(p)' => Owed(p) PROVE PressesCover'
  BY <1>1, <1>2 DEF Steady
<1>3. CASE UNCHANGED <<pin, events, pc>>
  BY <1>2, <1>3, OwedKept
<1>4. CASE Tick
  BY <1>1, <1>4, TickPins, OwedKept DEF Tick
<1>5. ASSUME NEW p \in Pins, Press(p) PROVE PressesCover'
  <2>1. UNCHANGED <<events, pc>>
    BY <1>5 DEF Press
  <2>2. ASSUME NEW q \in Pins \ {p}
        PROVE  pin'[q].acts + One(Owed(q)') + One(Open(q)') <= pin'[q].presses
    BY <1>5, <2>1, CoverKept, OwedKept, PressPins DEF Open
  <2>3. pin'[p].acts + One(Owed(p)') + One(Open(p)') <= pin'[p].presses
    <3>1. pin[p].acts + One(Owed(p)) + One(Open(p)) <= pin[p].presses
      BY DEF IInv, PressesCover
    <3>2. Owed(p)' <=> Owed(p)
      BY <2>1, OwedKept
    <3>3. pin[p].acts \in Nat /\ pin[p].presses \in Nat
      BY PinsTyped DEF PinState
    <3>4. pin'[p].acts = pin[p].acts /\ pin'[p].presses = pin[p].presses + 1
      BY <1>5, PressPins
    <3> HIDE DEF Owed, Open
    <3> QED BY <3>1, <3>2, <3>3, <3>4 DEF One
  <2> QED BY <2>2, <2>3 DEF PressesCover
<1>6. ASSUME NEW p \in Pins, Release(p) PROVE PressesCover'
  <2>1. UNCHANGED <<events, pc>>
    BY <1>6 DEF Release
  <2>2. ASSUME NEW q \in Pins
        PROVE  pin'[q].acts + One(Owed(q)') + One(Open(q)') <= pin'[q].presses
    BY <1>6, <2>1, CoverKept, OwedKept, ReleasePins DEF Open
  <2> QED BY <2>2 DEF PressesCover
<1>7. CASE Poll
  <2>1. ASSUME NEW p \in Pins
        PROVE  pin'[p].acts + One(Owed(p)') + One(Open(p)') <= pin'[p].presses
    <3>1. /\ pin'[p].acts = pin[p].acts /\ pin'[p].presses = pin[p].presses
          /\ pin'[p].down = pin[p].down /\ pin'[p].was_pressed = pin[p].down
      BY <1>7, PollPins
    <3>2. Owed(p)' => Fires(p)
      BY <1>7 DEF Poll, PolledEvents, EventOf, Owed
    <3>3. CASE Owed(p)'
      <4>1. pin[p].was_pressed /\ ~ pin[p].down
        BY <3>2, <3>3 DEF Fires, Released
      <4>2. Open(p) /\ ~ Open(p)'
        BY <3>1, <4>1 DEF Open
      <4>3. pin[p].acts + One(Owed(p)) + One(Open(p)) <= pin[p].presses
        BY DEF IInv, PressesCover
      <4>4. pin[p].acts \in Nat /\ pin[p].presses \in Nat
        BY PinsTyped DEF PinState
      <4> HIDE DEF Owed, Open
      <4> QED BY <3>1, <3>3, <4>2, <4>3, <4>4 DEF One
    <3>4. CASE ~ Owed(p)'
      BY <3>1, <3>4, CoverKept DEF Open
    <3> QED BY <3>3, <3>4
  <2> QED BY <2>1 DEF PressesCover
<1>8. CASE UNCHANGED pin /\ pc = "events" /\ events' \subseteq events
  BY <1>2, <1>8 DEF Owed, Acting
<1>9. CASE LongY \/ Playback
  <2>1. CASE Playback \/ (LongY /\ last_network_toggle >= BUTTON_COOLDOWN)
    BY <2>1, ActCovers DEF LongY, Playback, Acting
  <2>2. CASE LongY /\ ~ (last_network_toggle >= BUTTON_COOLDOWN)
    <3>1. UNCHANGED pin /\ pc = "events" /\ events' \subseteq events
      BY <2>2 DEF LongY
    <3> QED BY <1>8, <3>1
  <2> QED BY <1>9, <2>1, <2>2
<1>10. CASE Toggled \/ Posted
  <2>1. UNCHANGED pin /\ pc \in Acting /\ events' = events \ {Event}
    BY <1>10 DEF Toggled, Posted, Acting
  <2>2. \A p \in Pins : Owed(p)' => Owed(p)
    BY <2>1 DEF Owed
  <2> QED BY <1>2, <2>1, <2>2
<1>11. CASE Rendered
  BY <1>2, <1>11, OwedKept DEF Rendered, Acting
<1>12. CASE ShortY \/ EventsDone
  BY <1>8, <1>12 DEF ShortY, EventsDone
<1>13. CASE Refreshed \/ Drain \/ Wake
  BY <1>2, <1>13, OwedKept DEF Refreshed, Drain, Wake, Acting
<1> QED BY <1>3, <1>4, <1>5, <1>6, <1>7, <1>9, <1>10, <1>11, <1>12, <1>13
        DEF Next, Loop, Request, GiveUp, vars, loop

-----------------------------------------------------------------------------
(* The cooldown, the display and the snapshot clients *)

(* The age the code keeps of the last toggle is the true one, until both   *)
(* are past the cooldown.                                                  *)
LEMMA CooldownStep == ASSUME IInv, [Next]_vars PROVE CooldownOK'
<1>1. CooldownOK /\ last_network_toggle \in 0..BUTTON_COOLDOWN /\ BUTTON_COOLDOWN \in Nat
  BY TypesInParts, TimesAssumption DEF IInv, LoopOK
<1> USE DEF CooldownOK
<1>2. CASE Tick
  <2>1. /\ last_network_toggle' = Limit(last_network_toggle + 1, BUTTON_COOLDOWN)
        /\ since_toggle' = Limit(since_toggle + 1, BUTTON_COOLDOWN) /\ pc' = pc
    BY <1>2 DEF Tick
  <2>2. last_network_toggle >= BUTTON_COOLDOWN => last_network_toggle' >= BUTTON_COOLDOWN
    BY <1>1, <2>1 DEF Limit
  <2> QED BY <1>1, <2>1, <2>2
<1>3. CASE UNCHANGED <<pc, last_network_toggle, since_toggle>>
  BY <1>1, <1>3
<1>4. CASE Toggled
  BY <1>1, <1>4 DEF Toggled
<1>5. CASE LongY
  <2>1. CASE last_network_toggle >= BUTTON_COOLDOWN
    BY <1>1, <1>5, <2>1 DEF LongY
  <2>2. CASE ~ (last_network_toggle >= BUTTON_COOLDOWN)
    BY <1>3, <1>5, <2>2 DEF LongY
  <2> QED BY <2>1, <2>2
<1>6. CASE Rendered
  BY <1>1, <1>6 DEF Rendered
<1>7. CASE Poll \/ Playback \/ Posted
  BY <1>1, <1>7 DEF Poll, Playback, Posted
<1>8. CASE EventsDone \/ Refreshed \/ Drain \/ Wake
  BY <1>1, <1>8 DEF EventsDone, Refreshed, Drain, Wake
<1> QED BY <1>2, <1>3, <1>4, <1>5, <1>6, <1>7, <1>8
        DEF Next, Loop, Press, Release, Request, GiveUp, ShortY, vars, loop

(* What is not drawn is about to be.                                       *)
LEMMA FrameStep == ASSUME IInv, [Next]_vars PROVE FrameOK'
<1> USE DEF FrameOK, Acting
<1>1. FrameOK /\ last_display \in 0..DISPLAY_REFRESH /\ DISPLAY_REFRESH \in Nat
  BY TypesInParts, TimesAssumption DEF IInv, LoopOK
<1>2. CASE UNCHANGED <<display, frame, message, pc, last_display>>
  BY <1>1, <1>2
<1>3. CASE Tick
  <2>1. last_display' = Limit(last_display + 1, DISPLAY_REFRESH) /\ UNCHANGED <<display, frame, message, pc>>
    BY <1>3 DEF Tick
  <2>2. last_display >= DISPLAY_REFRESH => last_display' >= DISPLAY_REFRESH
    BY <1>1, <2>1 DEF Limit
  <2> QED BY <1>1, <2>1, <2>2
<1>4. CASE Poll
  BY <1>1, <1>4 DEF Poll
<1>5. CASE ShortY
  BY <1>1, <1>5 DEF ShortY
<1>6. CASE LongY
  <2>1. CASE last_network_toggle >= BUTTON_COOLDOWN
    BY <1>1, <1>6, <2>1 DEF LongY
  <2>2. CASE ~ (last_network_toggle >= BUTTON_COOLDOWN)
    BY <1>2, <1>6, <2>2 DEF LongY
  <2> QED BY <2>1, <2>2
<1>7. CASE Playback
  BY <1>1, <1>7 DEF Playback
<1>8. CASE Rendered
  BY <1>1, <1>8 DEF Rendered, Draw
<1>9. CASE Toggled \/ Posted
  BY <1>1, <1>9 DEF Toggled, Posted
<1>10. CASE EventsDone
  BY <1>1, <1>10 DEF EventsDone
<1>11. CASE Refreshed
  BY <1>1, <1>11 DEF Refreshed, Draw
<1>12. CASE Drain \/ Wake
  BY <1>1, <1>12 DEF Drain, Wake
<1> QED BY <1>2, <1>3, <1>4, <1>5, <1>6, <1>7, <1>8, <1>9, <1>10, <1>11, <1>12
        DEF Next, Loop, Press, Release, Request, GiveUp, vars, loop

ClientState == [at : {"idle", "waiting", "answered", "failed", "timed_out"},
                age : 0..SNAPSHOT_REPLY_TIMEOUT, shown : Messages \cup {"blank"}]
ShownOK(r) == r.at = "answered" => IF display THEN r.shown \in Messages \ {"progress"} ELSE r.shown = "blank"

LEMMA ClientAged ==
    ASSUME NEW r \in ClientState, NEW age \in 0..SNAPSHOT_REPLY_TIMEOUT
    PROVE  LET s == [r EXCEPT !.age = age] IN
           s \in ClientState /\ s.at = r.at /\ s.shown = r.shown /\ s.age = age
  BY DEF ClientState
LEMMA ClientGone ==
    ASSUME NEW r \in ClientState, 0 \in 0..SNAPSHOT_REPLY_TIMEOUT
    PROVE  LET s == [r EXCEPT !.at = "timed_out", !.age = 0] IN
           s \in ClientState /\ s.at = "timed_out"
  BY DEF ClientState

LEMMA ClientsTyped == ASSUME IInv PROVE
    /\ client \in [Clients -> ClientState] /\ (\A c \in Clients : client[c] \in ClientState)
    /\ SNAPSHOT_REPLY_TIMEOUT \in Nat /\ 0 \in 0..SNAPSHOT_REPLY_TIMEOUT
    /\ \A c \in Clients : ShownOK(client[c])
  BY TypesInParts, TimesAssumption DEF IInv, ClientsOK, ClientState, SnapshotShowsOutcome, ShownOK

LEMMA TickClients ==
    ASSUME IInv, Tick
    PROVE  /\ client' \in [Clients -> ClientState]
           /\ \A c \in Clients : /\ client'[c].at = client[c].at /\ client'[c].shown = client[c].shown
                                 /\ client[c].at = "waiting" => client'[c].age <= client[c].age + 1
<1> DEFINE age(c) == IF client[c].at = "waiting" THEN Limit(client[c].age + 1, SNAPSHOT_REPLY_TIMEOUT)
                     ELSE client[c].age
<1>1. ASSUME NEW c \in Clients
      PROVE  age(c) \in 0..SNAPSHOT_REPLY_TIMEOUT /\ (client[c].at = "waiting" => age(c) <= client[c].age + 1)
  <2>1. client[c].age \in 0..SNAPSHOT_REPLY_TIMEOUT /\ SNAPSHOT_REPLY_TIMEOUT \in Nat
    BY ClientsTyped DEF ClientState
  <2> QED BY <2>1 DEF Limit
<1>2. client' = [c \in Clients |-> [client[c] EXCEPT !.age = age(c)]]
  BY DEF Tick
<1> HIDE DEF age
<1>3. ASSUME NEW c \in Clients
      PROVE  LET s == [client[c] EXCEPT !.age = age(c)] IN
             s \in ClientState /\ s.at = client[c].at /\ s.shown = client[c].shown /\ s.age = age(c)
  <2> DEFINE r == client[c]
  <2>1. r \in ClientState
    BY ClientsTyped
  <2> HIDE DEF r
  <2>2. LET s == [r EXCEPT !.age = age(c)] IN
             s \in ClientState /\ s.at = r.at /\ s.shown = r.shown /\ s.age = age(c)
    BY <1>1, <2>1, ClientAged
  <2> QED BY <2>2 DEF r
<1> QED BY <1>1, <1>2, <1>3

(* Whoever waits has a sender in the channel.                              *)
LEMMA ChannelTyped == ASSUME IInv PROVE
    /\ channel \in Seq(Senders) /\ SendersOK
    /\ \A c \in Clients : client[c].at = "waiting" => \E i \in DOMAIN channel : channel[i] = Sender(c)
  BY TypesInParts DEF IInv, ChannelOK

RequestRecord == [at |-> "waiting", age |-> 0, shown |-> "blank"]

LEMMA RequestClients ==
    ASSUME IInv, NEW c \in Clients, Request(c)
    PROVE  /\ client' \in [Clients -> ClientState] /\ client[c].at # "waiting"
           /\ client'[c] = RequestRecord /\ \A d \in Clients \ {c} : client'[d] = client[d]
           /\ channel' \in Seq(Senders) /\ Len(channel') = Len(channel) + 1
           /\ channel'[Len(channel) + 1] = Sender(c) /\ \A i \in 1..Len(channel) : channel'[i] = channel[i]
<1>1. RequestRecord \in ClientState
  BY ClientsTyped DEF RequestRecord, ClientState
<1>2. client' = [client EXCEPT ![c] = RequestRecord] /\ channel' = Append(channel, Sender(c))
  BY DEF Request, RequestRecord, Sender
<1>3. Sender(c) \in Senders
  BY DEF Sender, Senders
<1>4. /\ channel' \in Seq(Senders) /\ Len(channel') = Len(channel) + 1
      /\ channel'[Len(channel) + 1] = Sender(c) /\ \A i \in 1..Len(channel) : channel'[i] = channel[i]
  BY <1>2, <1>3, ChannelTyped, AppendProperties
<1> QED BY <1>1, <1>2, <1>4, ClientsTyped DEF Request

LEMMA SenderFrom == \A c : Sender(c).from = c
  BY DEF Sender

LEMMA SenderLeft ==
    ASSUME NEW r \in Senders
    PROVE  LET s == [r EXCEPT !.alive = FALSE] IN s \in Senders /\ s.from = r.from /\ s.alive = FALSE
  BY DEF Senders

LEMMA GiveUpClients ==
    ASSUME IInv, NEW c \in Clients, GiveUp(c)
    PROVE  /\ client' \in [Clients -> ClientState]
           /\ client'[c].at = "timed_out" /\ \A d \in Clients \ {c} : client'[d] = client[d]
           /\ channel' \in Seq(Senders) /\ DOMAIN channel' = DOMAIN channel
           /\ \A i \in DOMAIN channel : /\ channel'[i] # Sender(c)
                                        /\ channel[i].from # c => channel'[i] = channel[i]
                                        /\ channel'[i].from = channel[i].from
<1> DEFINE s == [client[c] EXCEPT !.at = "timed_out", !.age = 0]
<1>1. s \in ClientState /\ s.at = "timed_out"
  BY ClientsTyped, ClientGone
<1>2. client' = [client EXCEPT ![c] = s]
  BY ClientsTyped DEF GiveUp
<1> HIDE DEF s
<1>3. client' \in [Clients -> ClientState] /\ client'[c].at = "timed_out" /\ \A d \in Clients \ {c} : client'[d] = client[d]
  BY <1>1, <1>2, ClientsTyped
<1> DEFINE left(i) == IF channel[i].from = c THEN [channel[i] EXCEPT !.alive = FALSE] ELSE channel[i]
<1>4. channel' = [i \in DOMAIN channel |-> left(i)]
  BY DEF GiveUp
<1>5. Len(channel) \in Nat /\ DOMAIN channel = 1..Len(channel) /\ \A i \in DOMAIN channel : channel[i] \in Senders
  BY ChannelTyped, LenProperties, ElementOfSeq
<1>6. \A i \in DOMAIN channel : left(i) \in Senders /\ left(i) # Sender(c) /\ left(i).from = channel[i].from
  <2> SUFFICES ASSUME NEW i \in DOMAIN channel
      PROVE  left(i) \in Senders /\ left(i) # Sender(c) /\ left(i).from = channel[i].from
    OBVIOUS
  <2>1. channel[i] \in Senders
    BY <1>5
  <2>2. CASE channel[i].from = c
    BY <2>1, <2>2, SenderLeft DEF Sender
  <2>3. CASE channel[i].from # c
    BY <2>1, <2>3 DEF Sender
  <2> QED BY <2>2, <2>3
<1>7. \A i \in DOMAIN channel : channel[i].from # c => left(i) = channel[i]
  OBVIOUS
<1> HIDE DEF left
<1>8. channel' \in Seq(Senders)
  BY <1>4, <1>5, <1>6, IsASeq
<1> QED BY <1>3, <1>4, <1>6, <1>7, <1>8

(* Drain takes the first sender; whoever waits with it is answered.        *)
LEMMA DrainClients ==
    ASSUME IInv, Drain, channel # <<>>
    PROVE  /\ client' \in [Clients -> ClientState] /\ pc' = pc
           /\ channel' \in Seq(Senders) /\ Len(channel') = Len(channel) - 1 /\ Len(channel) \in Nat \ {0}
           /\ \A i \in 1..(Len(channel) - 1) : channel'[i] = channel[i + 1]
           /\ \A c \in Clients :
                 \/ channel[1] # Sender(c) /\ client'[c] = client[c]
                 \/ channel[1] = Sender(c) /\ \/ client'[c].at = "answered" /\ client'[c].shown = frame
                                              \/ client'[c].at = "failed"
<1>1. /\ Len(channel) \in Nat \ {0} /\ Head(channel) = channel[1] /\ channel[1] \in Senders
      /\ Tail(channel) \in Seq(Senders) /\ Len(Tail(channel)) = Len(channel) - 1
      /\ \A i \in 1..(Len(channel) - 1) : Tail(channel)[i] = channel[i + 1]
  BY ChannelTyped, HeadTailProperties, LenProperties, EmptySeq, ElementOfSeq
<1>2. channel' = Tail(channel) /\ Answer /\ pc' = pc /\ frame \in Messages \cup {"blank"}
  BY TypesInParts DEF Drain, IInv, LoopOK
<1>3. CASE ~ Head(channel).alive
  <2>1. client' = client /\ \A c \in Clients : channel[1] # Sender(c)
    BY <1>1, <1>2, <1>3 DEF Answer, Sender
  <2> QED BY <1>1, <1>2, <2>1, ClientsTyped
<1>4. CASE Head(channel).alive
  <2>1. PICK reply \in {[at |-> "answered", age |-> 0, shown |-> frame], [at |-> "failed", age |-> 0, shown |-> "blank"]} :
           client' = [client EXCEPT ![Head(channel).from] = reply]
    BY <1>2, <1>4 DEF Answer
  <2>2. reply \in ClientState /\ ((reply.at = "answered" /\ reply.shown = frame) \/ reply.at = "failed")
    <3>1. CASE reply = [at |-> "answered", age |-> 0, shown |-> frame]
      BY <1>2, <3>1, ClientsTyped DEF ClientState
    <3>2. CASE reply = [at |-> "failed", age |-> 0, shown |-> "blank"]
      BY <3>2, ClientsTyped DEF ClientState
    <3> QED BY <2>1, <3>1, <3>2
  <2>3. channel[1] = Sender(channel[1].from) /\ channel[1].from \in Clients
    BY <1>1, <1>4 DEF Senders, Sender
  <2>4. \A c \in Clients : channel[1] = Sender(c) <=> c = channel[1].from
    BY <2>3, SenderFrom
  <2>5. client' = [client EXCEPT ![channel[1].from] = reply]
    BY <1>1, <2>1
  <2>6. client' \in [Clients -> ClientState]
    BY <2>2, <2>5, ClientsTyped
  <2>7. \A c \in Clients : client'[c] = IF c = channel[1].from THEN reply ELSE client[c]
    BY <2>5, ClientsTyped
  <2> QED BY <1>1, <1>2, <2>2, <2>4, <2>6, <2>7
<1> QED BY <1>3, <1>4

(* All other actions leave clients and channel alone.                      *)
LEMMA ClientCases ==
    ASSUME IInv, [Next]_vars
    PROVE  \/ Tick \/ (\E c \in Clients : Request(c) \/ GiveUp(c)) \/ (Drain /\ channel # <<>>)
           \/ UNCHANGED <<client, channel>>
  BY DEF Next, Loop, Press, Release, Poll, ShortY, LongY, Playback, Rendered, Toggled, Posted, EventsDone,
         Refreshed, Drain, Wake, vars

(* Every step keeps the clients well formed,                               *)
LEMMA ClientsStep == ASSUME IInv, [Next]_vars PROVE ClientsOK'
<1>1. ClientsOK' <=> client' \in [Clients -> ClientState]
  BY DEF ClientsOK, ClientState
<1> QED BY <1>1, ClientCases, ClientsTyped, TickClients, RequestClients, GiveUpClients, DrainClients

(* and the channel.                                                        *)
LEMMA ChannelStep == ASSUME IInv, [Next]_vars PROVE ChannelOK' /\ SendersOK'
<1>1. Len(channel) \in Nat /\ DOMAIN channel = 1..Len(channel)
  BY ChannelTyped, LenProperties
<1>2. CASE UNCHANGED <<client, channel>>
  BY <1>2, ChannelTyped DEF ChannelOK, SendersOK
<1>3. CASE Tick
  <2>1. UNCHANGED channel /\ \A c \in Clients : client'[c].at = client[c].at
    BY <1>3, TickClients DEF Tick
  <2> QED BY <2>1, ChannelTyped DEF ChannelOK, SendersOK
<1>4. ASSUME NEW c \in Clients, Request(c) PROVE ChannelOK' /\ SendersOK'
  <2>1. DOMAIN channel' = 1..(Len(channel) + 1)
    BY <1>4, RequestClients, LenProperties
  <2>2. \A i \in 1..Len(channel) : channel'[i] # Sender(c)
    BY <1>1, <1>4, RequestClients, ChannelTyped DEF SendersOK
  <2>3. \A d \in Clients \ {c} : channel'[Len(channel) + 1] # Sender(d)
    BY <1>4, RequestClients, SenderFrom
  <2>4. ChannelOK'
    BY <1>1, <1>4, <2>1, RequestClients, ChannelTyped DEF ChannelOK
  <2>5. SendersOK'
    BY <1>1, <1>4, <2>1, <2>2, <2>3, RequestClients, ChannelTyped DEF SendersOK, RequestRecord
  <2> QED BY <2>4, <2>5
<1>5. ASSUME NEW c \in Clients, GiveUp(c) PROVE ChannelOK' /\ SendersOK'
  <2>1. \A d \in Clients \ {c}, i \in DOMAIN channel : channel'[i] = Sender(d) <=> channel[i] = Sender(d)
    BY <1>5, GiveUpClients, SenderFrom
  <2>2. ChannelOK'
    BY <1>5, <2>1, GiveUpClients, ChannelTyped DEF ChannelOK
  <2>3. SendersOK'
    BY <1>5, <2>1, GiveUpClients, ChannelTyped DEF SendersOK
  <2> QED BY <2>2, <2>3
<1>6. CASE Drain /\ channel # <<>>
  <2>1. DOMAIN channel' = 1..(Len(channel) - 1)
    BY <1>6, DrainClients, LenProperties
  <2>2. ASSUME NEW c \in Clients, channel[1] = Sender(c)
        PROVE  client'[c].at # "waiting" /\ \A i \in DOMAIN channel' : channel'[i] # Sender(c)
    <3>1. \A i \in DOMAIN channel : channel[i] = Sender(c) => i = 1
      BY <1>1, <1>6, <2>2, DrainClients, ChannelTyped DEF SendersOK
    <3>2. client'[c].at # "waiting"
      BY <1>6, <2>2, DrainClients
    <3>3. \A i \in DOMAIN channel' : channel'[i] = channel[i + 1] /\ i + 1 \in DOMAIN channel /\ i + 1 # 1
      BY <1>1, <1>6, <2>1, DrainClients
    <3> QED BY <3>1, <3>2, <3>3
  <2>3. ASSUME NEW c \in Clients, channel[1] # Sender(c)
        PROVE  client'[c] = client[c] /\ \A i \in DOMAIN channel' : i + 1 \in DOMAIN channel /\ channel'[i] = channel[i + 1]
    BY <1>1, <1>6, <2>1, <2>3, DrainClients
  <2>4. ASSUME NEW c \in Clients, channel[1] # Sender(c), NEW i \in DOMAIN channel, channel[i] = Sender(c)
        PROVE  i - 1 \in DOMAIN channel' /\ channel'[i - 1] = Sender(c)
    <3>1. i # 1 /\ i \in 1..Len(channel)
      BY <1>1, <2>4
    <3>2. i - 1 \in 1..(Len(channel) - 1) /\ (i - 1) + 1 = i
      BY <1>1, <3>1
    <3> QED BY <2>1, <2>4, <3>2, <1>6, DrainClients
  <2>5. ChannelOK'
    <3>1. ASSUME NEW c \in Clients, client'[c].at = "waiting"
          PROVE  \E i \in DOMAIN channel' : channel'[i] = Sender(c)
      <4>1. channel[1] # Sender(c) /\ client[c].at = "waiting"
        BY <2>2, <2>3, <3>1
      <4> QED BY <2>4, <4>1, ChannelTyped
    <3> QED BY <1>6, <3>1, DrainClients DEF ChannelOK
  <2>6. SendersOK'
    <3>1. ASSUME NEW c \in Clients, NEW i \in DOMAIN channel', NEW j \in DOMAIN channel',
                 channel'[i] = Sender(c), channel'[j] = Sender(c)
          PROVE  i = j /\ client'[c].at = "waiting"
      <4>1. channel[1] # Sender(c)
        BY <2>2, <3>1
      <4>2. channel[i + 1] = Sender(c) /\ channel[j + 1] = Sender(c) /\ i + 1 \in DOMAIN channel /\ j + 1 \in DOMAIN channel
        BY <2>3, <3>1, <4>1
      <4>3. i + 1 = j + 1 /\ client[c].at = "waiting"
        BY <4>2, ChannelTyped DEF SendersOK
      <4>4. i \in Nat /\ j \in Nat
        BY <2>1
      <4> QED BY <2>3, <4>1, <4>3, <4>4
    <3> QED BY <3>1 DEF SendersOK
  <2> QED BY <2>5, <2>6
<1> QED BY <1>2, <1>3, <1>4, <1>5, <1>6, ClientCases

(* A snapshot answered shows no progress message of a command that has     *)
(* ended.                                                                  *)
LEMMA ShownStep == ASSUME IInv, FrameOK', [Next]_vars PROVE SnapshotShowsOutcome'
<1>1. (pc' = "drain" /\ display') => frame' = message'
  BY DEF FrameOK, Acting
<1>2. ASSUME NEW c \in Clients
      PROVE  client'[c].at = "answered" =>
                IF display' THEN client'[c].shown \in Messages \ {"progress"} ELSE client'[c].shown = "blank"
  <2>1. display' = display
    BY DEF Next, Loop, Tick, Press, Release, Request, GiveUp, Poll, ShortY, LongY, Playback, Rendered, Toggled, Posted,
           EventsDone, Refreshed, Drain, Wake, vars
  <2>2. ShownOK(client[c])
    BY ClientsTyped
  <2>3. CASE client'[c] = client[c]
    BY <2>1, <2>2, <2>3 DEF ShownOK
  <2>4. CASE Tick
    BY <2>1, <2>2, <2>4, TickClients DEF ShownOK
  <2>5. ASSUME NEW d \in Clients, Request(d) \/ GiveUp(d), client'[c] # client[c] PROVE client'[c].at # "answered"
    BY <2>5, RequestClients, GiveUpClients DEF RequestRecord
  <2>6. CASE Drain /\ channel # <<>>
    <3>1. /\ display => frame = message /\ message # "progress"
          /\ message \in Messages /\ (~ display => frame = "blank")
      BY <2>6, TypesInParts DEF IInv, FrameOK, LoopOK, Drain, Acting
    <3>2. CASE client'[c].at = "answered" /\ client'[c].shown = frame
      BY <2>1, <3>1, <3>2
    <3> QED BY <2>3, <2>6, <3>2, DrainClients
  <2> QED BY <2>3, <2>4, <2>5, <2>6, ClientCases
<1> QED BY <1>1, <1>2 DEF SnapshotShowsOutcome

(* Whoever waits during a sleep has asked during it.                       *)
LEMMA SleepStep == ASSUME IInv, [Next]_vars PROVE SleepOK'
<1>1. spent \in Nat /\ spent' \in Nat /\ \A c \in Clients : client[c].age \in Nat
  <2>1. spent \in Nat
    BY TypesInParts, TimesAssumption DEF IInv, LoopOK
  <2>2. LoopOK' /\ {POLL_INTERVAL, MaxBlock} \subseteq Nat
    BY LoopStep, TimesAssumption
  <2>3. spent' \in Nat
    BY <2>2 DEF LoopOK
  <2> QED BY <2>1, <2>3, ClientsTyped DEF ClientState
<1>2. CASE UNCHANGED <<pc, spent>> /\ \A c \in Clients : client'[c] = client[c]
  BY <1>2 DEF IInv, SleepOK
<1>3. CASE Tick
  <2>1. spent' = spent + 1 /\ pc' = pc
    BY <1>3 DEF Tick
  <2>2. ASSUME NEW c \in Clients, pc' = "sleeping", client'[c].at = "waiting" PROVE client'[c].age <= spent'
    <3>1. client[c].age <= spent /\ client'[c].age <= client[c].age + 1
      BY <1>3, <2>1, <2>2, TickClients DEF IInv, SleepOK
    <3>2. client'[c].age \in Nat
      BY <1>3, TickClients, ClientsTyped DEF ClientState
    <3> QED BY <1>1, <2>1, <3>1, <3>2
  <2> QED BY <2>2 DEF SleepOK
<1>4. ASSUME NEW c \in Clients, Request(c) PROVE SleepOK'
  <2>1. client'[c].age = 0 /\ UNCHANGED <<pc, spent>>
    BY <1>4, RequestClients DEF RequestRecord, Request, loop
  <2> QED BY <1>1, <1>4, <2>1, RequestClients DEF IInv, SleepOK
<1>5. ASSUME NEW c \in Clients, GiveUp(c) PROVE SleepOK'
  <2>1. UNCHANGED <<pc, spent>>
    BY <1>5 DEF GiveUp, loop
  <2> QED BY <1>5, <2>1, GiveUpClients DEF IInv, SleepOK
<1>6. CASE Drain
  <2>1. CASE channel = <<>>
    <3>1. UNCHANGED client /\ \A c \in Clients : client[c].at # "waiting"
      BY <1>6, <2>1, ChannelTyped DEF Drain
    <3> QED BY <3>1 DEF SleepOK
  <2>2. CASE channel # <<>>
    BY <1>6, <2>2, DrainClients DEF SleepOK, Drain
  <2> QED BY <2>1, <2>2
<1>7. CASE pc' # "sleeping"
  BY <1>7 DEF SleepOK
<1>8. CASE UNCHANGED vars
  BY <1>2, <1>8 DEF vars, loop
<1>9. ASSUME NEW p \in Pins, Press(p) \/ Release(p) PROVE SleepOK'
  BY <1>2, <1>9 DEF Press, Release
<1>10. CASE Poll \/ ShortY \/ LongY \/ Playback \/ Rendered \/ Toggled \/ Posted \/ EventsDone \/ Refreshed \/ Wake
  BY <1>7, <1>10 DEF Poll, ShortY, LongY, Playback, Rendered, Toggled, Posted, EventsDone, Refreshed, Wake
<1> QED BY <1>3, <1>4, <1>5, <1>6, <1>8, <1>9, <1>10 DEF Next, Loop

-----------------------------------------------------------------------------
(* The theorems *)

(* Nothing was pressed or asked initially.                                 *)
LEMMA InitInvariant == ASSUME Init PROVE IInv
<1>1. /\ {LONG_PRESS, POLL_INTERVAL, DISPLAY_REFRESH, BUTTON_COOLDOWN, SNAPSHOT_REPLY_TIMEOUT, MaxBlock} \subseteq Nat \ {0}
      /\ MaxPresses \in [Pins -> Nat]
  BY TimesAssumption
<1>2. PinsOK
  <2>1. [down |-> FALSE, held |-> 0, was_pressed |-> FALSE, since |-> 0, presses |-> 0, acts |-> 0] \in PinState
    BY <1>1 DEF PinState
  <2> QED BY <1>1, <2>1 DEF Init, PinsOK
<1>3. LoopOK
  BY <1>1 DEF Init, LoopOK, Messages
<1>4. ClientsOK
  <2>1. [at |-> "idle", age |-> 0, shown |-> "blank"] \in ClientState
    BY <1>1 DEF ClientState
  <2> QED BY <2>1 DEF Init, ClientsOK, ClientState
<1>5. SendersOK /\ ChannelOK /\ SleepOK /\ SnapshotShowsOutcome
  BY DEF Init, SendersOK, ChannelOK, SleepOK, SnapshotShowsOutcome
<1>6. EventsOK /\ PressesCover
  <2>1. \A p \in Pins : pin[p].acts = 0 /\ pin[p].presses = 0 /\ ~ Owed(p) /\ ~ Open(p)
    BY DEF Init, Owed, Open
  <2>2. \A p \in Pins : One(Owed(p)) = 0 /\ One(Open(p)) = 0
    BY <2>1 DEF One
  <2>3. EventsOK
    BY DEF Init, EventsOK, Acting
  <2> HIDE DEF Owed, Open
  <2> QED BY <2>1, <2>2, <2>3 DEF PressesCover
<1>7. CooldownOK /\ FrameOK
  BY <1>1 DEF Init, CooldownOK, FrameOK
<1> QED BY <1>2, <1>3, <1>4, <1>5, <1>6, <1>7, TypesInParts DEF IInv

LEMMA TypesInPartsNext == TypeOK' <=> (PinsOK /\ LoopOK /\ ClientsOK /\ SendersOK)'
  BY TypesInParts, PTL

(* Every step keeps the invariant.                                         *)
LEMMA StepInvariant == ASSUME IInv, [Next]_vars PROVE IInv'
<1>1. TypeOK'
  BY PinsStep, LoopStep, ClientsStep, ChannelStep, TypesInPartsNext
<1> QED BY <1>1, EventsStep, PressesStep, ChannelStep, CooldownStep, FrameStep, ShownStep, SleepStep DEF IInv

(* So it always holds.                                                     *)
LEMMA Invariant == Spec => []IInv
<1>1. Init => IInv
  BY InitInvariant
<1>2. IInv /\ [Next]_vars => IInv'
  BY StepInvariant
<1> QED BY <1>1, <1>2, PTL DEF Spec

(* Every variable has its type; whoever waits has one sender, no one else. *)
THEOREM TypeCorrect == Spec => []TypeOK
<1>1. IInv => TypeOK
  BY DEF IInv
<1> QED BY <1>1, Invariant, PTL

(* However often the buttons are pressed and however long the loop is      *)
(* blocked, a press acts at most once (ButtonState::poll).                 *)
THEOREM OnceForEachPress == Spec => []ActsOncePerPress
<1>1. ASSUME IInv, NEW p \in Pins PROVE pin[p].acts <= pin[p].presses
  <2>1. pin[p].acts \in Nat /\ pin[p].presses \in Nat
    BY <1>1, PinsTyped DEF PinState
  <2>2. pin[p].acts + One(Owed(p)) + One(Open(p)) <= pin[p].presses
    BY <1>1 DEF IInv, PressesCover
  <2> HIDE DEF Owed, Open
  <2> QED BY <2>1, <2>2 DEF One
<1>2. IInv => ActsOncePerPress
  BY <1>1 DEF ActsOncePerPress
<1> QED BY <1>2, Invariant, PTL

(* Toggles are BUTTON_COOLDOWN apart, end to start.                        *)
THEOREM CooldownIsKept == Spec => []TogglesAreSpaced
<1>1. IInv => TogglesAreSpaced
  BY DEF IInv, CooldownOK, TogglesAreSpaced
<1> QED BY <1>1, Invariant, PTL

(* No snapshot shows a progress message or a message of before.            *)
THEOREM SnapshotsAreCurrent == Spec => []SnapshotShowsOutcome
<1>1. IInv => SnapshotShowsOutcome
  BY DEF IInv
<1> QED BY <1>1, Invariant, PTL

(* While the loop sleeps nobody waits long enough to give up.              *)
THEOREM IdleLoopAnswers == Spec => NoTimeoutWhileIdle
<1>1. ASSUME IInv, [Next]_vars, NEW c \in Clients, client[c].at = "waiting", client'[c].at = "timed_out"
      PROVE  pc # "sleeping"
  <2>1. GiveUp(c)
    <3>1. CASE Tick \/ UNCHANGED <<client, channel>>
      BY <1>1, <3>1, TickClients
    <3>2. CASE Drain /\ channel # <<>>
      BY <1>1, <3>2, DrainClients
    <3>3. ASSUME NEW d \in Clients, Request(d) \/ GiveUp(d) PROVE GiveUp(c)
      BY <1>1, <3>3, RequestClients, GiveUpClients DEF RequestRecord
    <3> QED BY <1>1, <3>1, <3>2, <3>3, ClientCases
  <2>2. SUFFICES ASSUME pc = "sleeping" PROVE FALSE
    OBVIOUS
  <2>3. client[c].age = SNAPSHOT_REPLY_TIMEOUT /\ client[c].age <= spent
    BY <1>1, <2>1, <2>2 DEF GiveUp, IInv, SleepOK
  <2>4. spent \in 0..POLL_INTERVAL /\ POLL_INTERVAL < SNAPSHOT_REPLY_TIMEOUT
        /\ POLL_INTERVAL \in Nat /\ SNAPSHOT_REPLY_TIMEOUT \in Nat
    BY <1>1, <2>2, TypesInParts, TimesAssumption DEF IInv, LoopOK
  <2> QED BY <2>3, <2>4
<1>2. IInv /\ [Next]_vars => [\A c \in Clients :
         (client[c].at = "waiting" /\ client'[c].at = "timed_out") => pc # "sleeping"]_vars
  BY <1>1
<1> QED BY <1>2, Invariant, PTL DEF Spec, NoTimeoutWhileIdle
=============================================================================
