# matchbox-audio: formal models

matchbox-audio turns a Raspberry Pi Zero 2 W into a small audio player for a car and a home:
MPD plays, `mba-player` controls it over HTTP, a web page and a device with buttons and a display
control `mba-player`, and shell scripts switch its network. This directory holds TLA+ models of
its concurrent, crash-prone and asynchronous parts, TLC runs that check them on small instances,
and TLAPS proofs for all values of their constants. Paths below are relative to `src/`.

Contents: [inventory](#inventory) · [plan](#plan) · [the models](#the-models) ·
[runs and bounds](#runs-and-bounds) · [fairness](#fairness) · [proofs](#proofs) ·
[findings](#findings) · [not modelled](#not-modelled)

## Inventory

How the parts interact:

    buttons -> mba-device --HTTP--> mba-player --channel--> MPD client actor --TCP--> MPD
                  |                  ^   ^  \--reads--> music directory
                  |        web page -+   +- mba-cli
                  +--runs--> mba-network-mode --nmcli--> NetworkManager (wlan0)
    snapshot clients --unix socket--> mba-device
    boot: data-init, boot-config, network-mode-restore, mpd, startup-volume, mba-player, mba-device
    Android client --BLE--> ble-gatt-spike        host: update.mjs --ssh--> device

| Component | State | Operations and interaction | What is hard | What makes it correct |
|---|---|---|---|---|
| **MPD client actor** (`crates/mba-player/src/mpd.rs`) | one connection; a bounded command channel; a watch channel with the last status; the reconnect delay | `MpdHandle` methods send a request with a one-shot reply; the task serves one request at a time, publishes the status on every change event, reconnects with backoff and rejects requests meanwhile | every handler awaits MPD several times while MPD, its other clients and the link go on; callers vanish; a panic kills the task | no call lost or answered twice; answers tell the truth; requests look atomic; published status is MPD's; calls return |
| **HTTP API** (`crates/mba-player/src/http.rs`, `main.rs`) | none of its own | one handler per request; `GET status` reads the watch channel and runs the network helper for up to 5 s | the client leaves first (device 3 s, page never); error mapping decides who retries | 503 only when nothing happened; validated input cannot hurt the actor |
| **Library browser** (`library.rs`) | none (the file system) | list, validate a track, collect a directory recursively | symlinks, and a tree that changes between check and use | nothing outside the root; order and completeness of a directory enqueue |
| **Web page** (`crates/mba-player/web/app.js`) | status, queue, library view, the pending selection and its number | polls each 2.5 s, requests on clicks, a reconcile timer per click | answers overtake each other; errors and timers of older clicks | page converges on what plays; highlight belongs to the latest click |
| **Device daemon** (`crates/mba-device/src/main.rs`) | button states, cooldown, message, framebuffer, snapshot channel | one loop: poll buttons, run commands, redraw, answer snapshots, sleep 50 ms | the loop blocks for seconds in commands and HTTP calls; clients time out | holds and presses told apart; toggles spaced; snapshots show outcomes |
| **Network mode** (`yocto/.../files/mba-network-mode`, its restore unit) | saved mode, saved home connection, `hotspot.env`, the hotspot profile, wlan0 | restore at boot, toggle by the device, any command by ssh | no lock; power cuts between any two commands; two fallbacks that call each other | the script brings up a secured hotspot only; saved mode equals the mode in effect; every invocation ends |
| **BLE link** (`tools/ble-gatt-spike`, `tools/android-ble-smoke`) | partial message and notification writer on one side; write queue and partial message on the other | chunking, reassembly, hello/response | lost links between chunks, state that outlives a connection | no two messages joined; a client gets its own answer |
| **Startup volume** (`mba-mpd-startup-volume`, units) | MPD's volume | clamp once after MPD starts | unit ordering: `mba-player` and the device are not ordered after it | nothing plays above the clamp before it ran |
| **Remote update** (`yocto/scripts/update.mjs`, `mba-ab-update`, `mba-boot-config`) | image, checksum and key on the device; boot partition | preflight, upload, verify, write the inactive slot, reboot, cleanup | a dozen remote steps; the connection dies between any two | a device that boots; a retry that starts clean |
| **mba-cli** (`crates/mba-cli/src/main.rs`) | none | one request per command, its answer becomes an exit code | optional ids, positions and destinations that two programs interpret | what is typed is what is done; exit 0 means done |
| **mba-protocol**, **data-init**, build/flash/test scripts, Yocto layer | none, or directories | sequential | nothing | – |

`PROJECT.json` lists the same components with their sources and status, and under `hazards` each
place in the code that a test would hardly reach, at its line, with the properties that watch it.

## Plan

Ordered by what matters most to the system; 1 to 6 are done.

1. **MPD client actor**: `MpdServer`, `MpdActor`, the abstract service `MpdService`, the
   refinement `MpdActorAtomic`. Every safety property of its runs is proved, the refinement
   included.
2. **Network mode**: `NetworkMode`, races in `NetworkModeRaces`. Every property of its passing run
   is proved.
3. **Device daemon**: `Device`, with time. Everything but its liveness property is proved.
4. **Web page**: `WebController`, against a server that answers in any order. Type correctness and
   the ownership of the highlight are proved.
5. **BLE link**: chunk codec `BleChunks`, server and phones `BleLink`, the abstract
   `BleExchange` they implement. The type invariant is proved for any number of links, the
   refinement for one at a time.
6. **Library, HTTP API, command line**: `Library` (one system call), `HttpApi` (handlers over it),
   `Cli` (mba-cli in front of them), checked together; every safety property is proved.
7. **Boot order and startup volume**, **update flow**: not modelled, see [below](#not-modelled).

Runs are kept few: one safety run per component or composition, one under fairness where a liveness
property needs a smaller instance, and one for each finding.

## The models

Conventions: a component is one module with one action per operation or per await; `...Props`
states its properties; `MC...` holds the values of a small instance; `...Proofs` the theorems. A
definition whose name is `X_Something` is a mutant of `X`: a plausible bug, which the property it
belongs to must detect (`PROJECT.json`, `mutants`).

### MpdServer, MpdActor

`MpdServer` is MPD as this code uses it (external): state, volume, queue of song ids, current
song, and for each protocol command the set of its outcomes (accepted or refused, new state), plus
the changes MPD or its other clients make by themselves. Elapsed time, tags and files are left
out; `add` may be refused for any path.

`MpdActor` is `mpd.rs`:

| Model | Code |
|---|---|
| `call[c].at`: new, sending, waiting, done, abandoned | a call of an `MpdHandle` method: `commands.send().await`, `rx.await`, its return, its future dropped |
| `inbox`, `COMMAND_QUEUE` | the mpsc channel of 32 |
| `pc`, `hand`, `frame` | the point where the task awaits, the request in hand and the locals of its handler |
| `wire` | the command in flight and MPD's answer; `Send` is `client.command().await`, which fails at once on a lost link |
| `events` | subsystem changes buffered by the client library until the `select!` looks |
| `snapshot` | the watch channel, `NONE` while there is no connection |
| `ConnectOk`, `ConnectErr`, `BackoffElapsed`, `DrainReject`, `Shutdown` | `actor_loop` and `drain_during_backoff` |
| `RecvRequest`, `NextEvent`, `ConnectionClosed` | the branches of `session_loop`'s `select!` |
| `PublishReadSong`, `PublishDone` | `publish_state`: two commands, then one write |
| `ActionReplies`, `ToggleReadStatus`, `MoveReadStatus`, `Enqueue...` | the handlers, one action per await |
| `log` | history: what MPD carried out for each call |

`MpdService` is what callers may rely on: every request acts on MPD at one instant between call and
answer; `Ok` means all of it, `Unavailable` and `ChannelClosed` none of it, other errors a part of
it. What a request does to MPD is a parameter (`Effects`, `PartialEffects`). `MpdActorAtomic` gives
it: what MPD makes of one accepted command; of the one command that the state found calls for
(toggle, play-next); or, for an enqueue, as many tracks as it has paths at the end of the queue,
under any ids that are free and differ, and playback started if the queue was empty. An enqueue
that fails may have added some of its tracks, and may have started playback. A history variable
`start` is MPD as the request in hand found it, and the module states that `MpdActor` implements
`MpdService` when nobody else changes MPD, which `mpd.conf` calls "only intended client". With
other clients it is false: toggle and play-next decide on a status they read one await earlier, and an enqueue on a queue
length. So a song that ends, or another client, between the read and the command is covered neither
by `RequestsAreAtomic` nor by `EnqueueAutoplays`; the other requests of `mba-player` are.

### NetworkMode, NetworkModeRaces

Each command of `mba-network-mode` that reads or changes a file, a profile or wlan0 is one action
of an invocation `p`; `run[p]` is its place in the script and the shell variables still to be read.
A redirection is two steps, truncate and write. `ActivationEnds`, `AutoConnect`, `LoseHome` and
`PowerCut` are the environment. The invokers are the restore unit, once per boot; the device,
started after it and one command at a time; and administrators, whom nothing orders. `outcome`
remembers how the switch started last has ended.

| Model | Code |
|---|---|
| `Toggle`, `ToggleHome`, `ToggleMode` | the reads of `mode_status` that decide the mode, one after the other |
| `TestEnv`, `CreateEnv`, `WriteEnv`, `ReadEnv` | `ensure_hotspot_env`: the test, the redirection's truncation, its `echo`s, the two `awk`s |
| `ListProfiles`, `AddProfile`, `SecureProfile` | `ensure_hotspot_profile`: `connection show`, `connection add`, `connection modify` |
| `hotspots` | the profiles that bear the hotspot's name, each `"bare"` as added or with its passphrase |
| `ReadHome` ... `RestoreWait`, `ReadSavedHome` ... `HomeWait` | the rest of `switch_car` and `switch_home` |
| `RestoreHome`/`RestoreCat`, `ReadSavedHome`/`CatHome` | `saved_home_connection`: the test `-s`, then `cat` |

`nmcli` names profiles by name, and NetworkManager allows two of one name: two invocations that both
list none both add one, and from then on `SecureProfile` and `HotspotUp` take any of them. A profile
that was added and not yet modified is a client's with NetworkManager's default `autoconnect yes`,
so `AutoConnect` may bring it up (`by = NONE`). `wifi.psk` is the passphrase wlan0 was brought up
with, which a later `connection modify` does not change.

What is claimed of the hotspot is therefore about the script and one profile: `HotspotIsSecured`
says that no invocation brings it up without a passphrase as long as one profile bears its name
(`OneHotspot`). With two it is false, and of what NetworkManager brings up by itself it says
nothing. `NetworkModeRaces` adds a history variable
`raced`, set when two invocations overlap and cleared by the next boot: what the script promises of
the saved mode and of the passphrase shown holds for invocations that follow one another; of racing
invocations only that they end and that the hotspot is secured. `ModeIsRemembered` also excludes
lost links, and after a power cut it speaks only of the switches since.

### Device

Time is counted in ticks and passes only in blocking calls and in the sleep of the loop. A pin has
its real state (`down`, `held`) and the `ButtonState` of the code (`was_pressed`, `since`), which
changes only in `Poll`. The events of a poll are a set, handled in the order of their pins as
`ButtonSet::poll` returns them; `LongY`, `Playback` and the steps after them are the handlers,
`Refreshed` and `Drain` the rest of an iteration. `Instant`s are ages that stop at the constant
they are compared with. `held`, `presses`, `acts` and `since_toggle` are history. How a command
ended is one message, since nothing depends on which; what the dashboard shows besides the message
is left out.

### WebController

Each asynchronous task of the page (`Polls`, and for each click a main and a side task) waits for
one response at a time. `Serve` executes a request, `Arrives` hands the response to the page at
any later time, so requests overtake each other in both directions; `Fail` loses one before or
after it took effect. `Publish` is the delay between a change of MPD and the status `mba-player`
reports. A status of before the command may therefore confirm a new selection too early;
`PageConverges` says that the page ends up right all the same. `pending` and `queueSelectionRequestId` are those of `app.js`. `Gestures` says what each
click may be.

### BleChunks, BleLink, BleExchange

`BleChunks` is the codec both ends share (`encode_chunks`, `parse_chunk`, `reassemble_chunk`, and
`encodeChunks`, `reassembleChunk` of the app): pure operators on records that keep every field the
receiver compares, bytes being abstracted to numbered fragments with sizes.

| Model (`BleLink`) | Code |
|---|---|
| `tx_writer`, `partial_rx` | the two fields of `SpikeState` the code acts on (`rx_count` is only counted) |
| `waiting`, `reply` | the tasks queued at its mutex, and the answer sent chunk by chunk while it is held |
| `HandleRxChunk`, `SendTxChunk`, `TakeSubscription` | `handle_rx_chunk`, `send_tx_message`, `handle_tx_subscriptions` |
| `pendingWrites`, `partialTx`, `nextTransportMessageId` | the fields of `MainActivity` |
| `OnDescriptorWrite`, `OnCharacteristicWrite`, `OnCharacteristicChanged` | the callbacks of its GATT client |
| `Disconnect`, `AppRestart` | the end of a link; the app restarted, with its message ids from 1 again |

The mutex is fair, but a subscription reaches it through one more task and may be overtaken by the
first write: a hello can then go unanswered, which is why `AnswersArrive` begins at the moment the
server starts to answer (`tools/ble-gatt-spike/README.md` promises an answer only to a client that
has subscribed). On a link nothing is reordered; a write or a notification under way when it breaks
may be lost. Android refuses a write while another is under way, and the app drops the chunk then.
Partial messages and the writer outlive a connection on purpose: the properties say that this is
harmless.

`BleExchange` is what a user of the link may rely on, with neither chunks nor connections: the
server acts on each request at most once and on nothing else, a phone is told at most once each
answer to its own requests. `MessagesAreWhole` states that `BleLink` implements it. It holds for one
link at a time (`MaxLinks = 1`, "only one active control session" in
`docs/android-app-design.md`), which the spike relies on rather than enforces: with two links at
once, chunks of both arrive in one partial message and an answer goes to whoever subscribed last.

### Library, HttpApi, Cli

`Library` gives what one system call on a file tree answers and what `library.rs` makes of it:
normalisation, the lookup of one component, one directory read, and the references the properties
compare with (`TracksUnder`, `Before`). `HttpApi` runs the handlers: a request is validated, its
path looked up component by component, directories read one after the other, then the actor called;
between any two of these steps `TreeChanges` (the host's rsync) may add and remove files and
directories, and `ClientLeaves` drops the handler, whose call the actor may still hold (`orphans`).
The actor is its promise to callers (`ActorAnswers`, what `MpdActor` is shown to keep), the network
helper may answer, fail or hang. `Cli` puts mba-cli in front: a command line becomes a request,
its answer an exit code; `meant` remembers the command line behind each request.

Left out: links made by a change of the tree (existing ones are there), helper processes that
outlive their request, static pages, JSON. Names with blanks at an end, or beginning with `file:`
at the top level, are listed but cannot be opened; `ListedCanBeOpened` excepts the first, the tree
has none of the second. It claims nothing once the tree has changed; what then holds of a walk is
`NothingMissed`.

## Runs and bounds

| Run | Instance | Shows |
|---|---|---|
| `mpd_transport` | 3 calls, channel of 1, 1 song, 1 spontaneous change | `TypeOK`, `CallsAreHeldOnce`, `OkMeansDone`, `RetryableMeansUntouched`, `NoSnapshotWithoutConnection`, `SettledSnapshotIsCurrent` |
| `mpd_queue` | 2 calls of 9 requests, 3 songs, nobody else changes MPD | `RequestsAreAtomic` (refinement), `EffectsAreBounded`, `FailureReportsCountTracks`, `EnqueueAutoplays` |
| `mpd_live` | 2 calls of 4 requests, constant backoff, fairness | `EveryCallReturns`, `SnapshotConverges` |
| `mpd_seek_panics` | as `mpd_transport`, 2 calls | finding |
| `network_modes` | 1 home; restore, device, 1 administrator; 2 commands started; 1 power cut or lost link; 3 initial contents | `TypeOK`, `HotspotIsSecured`, `ModeIsRemembered`, `ShownPassphraseIsUsed`, `InvocationsAdvance` |
| `network_power_cut` | 1 home, no administrator, 1 command started, 1 cut or lost link | finding |
| `device_loop` | 2 pins (1 and 2 presses), 1 snapshot client, fairness | `TypeOK`, `TogglesAreSpaced`, `ActsOncePerPress`, `SnapshotShowsOutcome`, `NoTimeoutWhileIdle`, `HoldSwitches` |
| `device_short_press` | 1 network button pressed once | finding |
| `web_clicks` | 3 items, 2 events (clicks, changes, failures), fairness | `TypeOK`, `HighlightIsOwn`, `PageConverges` |
| `web_queue_view` | 2 removals, fairness | finding |
| `ble_link` | 2 phones, 1 link at a time, 2 connections, 2 hellos of 2 chunks, answers of 3, fairness | `TypeOK`, `MessagesAreWhole` (refinement), `EveryWriteReturns`, `AnswersArrive` |
| `http_api` | mba-cli and another client, 14 command lines, 5 other requests, 2 requests, 1 change of a tree of 12 paths, fairness | `TypeOK`, `TracksInOrder`, `NothingMissed`, `ListedCanBeOpened`, `AnswersTellTheTruth`, `EffectsAreMeant`, `EveryRequestIsAnswered` |

Why the bounds are enough:

- *Calls.* Two calls conflict in every pair of handlers; the third in `mpd_transport` is the one
  that waits for a place in the channel while another is in it and a third in hand. The safety
  properties are proved for any number.
- `COMMAND_QUEUE = 1` makes the channel full at once; `RECONNECT_MAX = 2` reaches the cap at the
  second failure (in `mpd_live` the delay, which has no duration in the model, stays 1). Links break
  and connection attempts fail any number of times.
- `MaxSpontaneous = 1`: a change between the two reads of a publication needs one. The refinement
  needs 0.
- *Ticks.* The constants of the code keep their order where the code compares them (poll < short <
  long, poll + long < cooldown, poll < timeout); `MaxBlock = 2` lets a render and a command
  together last as long as a hold and longer than a snapshot client waits. The proofs hold for any
  durations.
- `MaxPresses`: two presses of the network button are needed for the cooldown.
- *Clicks.* Highlight and number interact with one older click; the first click is a play, a
  removal or an addition, the second anything but an addition, since what the page does with their
  answers does not depend on which click came first. `MaxEvents` bounds clicks, changes and
  failures together; that the failure of an older click spares a newer highlight takes three events
  and rests on the proof, which has no bound.
- *Invocations.* `MaxStarts = 2` commands besides the one at boot, by the device and an
  administrator or twice by one of them, race in every pair of places. With one home the mix-ups of
  two homes are left to the proof, which has any number of homes, commands and faults.
- *Power cuts and lost links.* `MaxFaults = 1` of either, anywhere. The initial contents are those
  of a device never used, used at home, and used in the car with a passphrase that is too short; a
  cut during the first boot adds the bare profile and the truncated files.
- *Links.* Two connections are what it takes for one to meet what another left behind, of the same
  phone or of another, after a disconnect or a restart. The run was repeated once with three
  connections and with hellos of three chunks (`HELLO_BYTES = 5`), longer than is practical for
  every change.
- *Requests and trees.* One request walks a directory while the tree changes under it; the second
  shares the actor with it or asks again. Repeated once with one request and three changes.

Deadlock checking is off where the system really stops: when all calls are made and the handles
dropped, when no invocation is left to make and no power cut allowed (`network_modes`,
`network_power_cut`), and when all connections, hellos or requests of the instance are used up
(`ble_link`, `http_api`). It is on for `Device` and `WebController`, which never stop.

## Fairness

- `MpdActor`: the runtime polls the task; MPD answers a command or the link breaks (`WF` on
  `MpdAnswers` and `Resume`); a connection attempt ends. `select!` picks among ready branches at
  random, so a branch that is ready again and again is taken (`SF` on `SessionRecv`, `NextEvent`,
  `DrainReject`); a tokio channel serves its senders first come first served (`SF` on `Accept`). No
  caller has to call, give up or drop its handle, and no link has to break. `SnapshotConverges`
  assumes in its statement that the link eventually stays up. That an attempt ends is the kernel's
  TCP timeout; a peer that accepts and never greets would hold it for good, since the code sets no
  timeout.
- `Device`: the loop runs and time passes, as one (`WF` on `Loop` or `Tick`): which of the two it is
  depends only on whether the loop is blocked, and a blocking call returns within `MaxBlock`. A
  snapshot client that asks again at once does not beat `try_recv` every time (`SF` on finding the
  channel empty: a new request needs a new connection and thread). The network script has no
  timeout, so that it returns is an assumption; a hanging one is a hazard no property covers.
- `WebController`: requests are answered or fail, timers fire, polls go on, the status is published
  (`SnapshotConverges` of the actor). The tasks of clicks share one `WF`, which is enough as each of
  them ends. The user need do nothing.
- `BleLink`: the runtime polls the tasks of the server, and Android delivers notifications. No phone
  has to connect, subscribe, write or stay.
- `HttpApi`: the runtime polls handlers, system calls return, the actor answers
  (`EveryCallReturns`), and the timeout of the helper elapses. The helper need never end and the
  client never leave.
- `NetworkMode` states no fairness. `InvocationsAdvance` bounds every invocation: each of its
  commands moves it to a later stage of the script, so it ends as soon as its commands do (`nmcli
  --wait 30` and the 30 s polling bound the two that wait).

## Proofs

| Module | Theorem | For all values of |
|---|---|---|
| `MpdActorProofs` | `TypeCorrect` : `[]TypeOK` | calls, requests, channel capacity, backoff bounds, song ids, spontaneous changes |
| | `NoCallIsLost` : `[]CallsAreHeldOnce` | |
| | `SnapshotIsWithdrawn` : `[]NoSnapshotWithoutConnection` | |
| | `SettledSnapshot` : `[]SettledSnapshotIsCurrent` | |
| `MpdActorAnswersProofs` | `RetriesAreSafe` : `[]RetryableMeansUntouched` | the same |
| | `NothingIsDoneTwice` : `[]EffectsAreBounded` | |
| | `OkIsDone` : `[]OkMeansDone` | |
| | `ReportsCountTracks` : `[]FailureReportsCountTracks` | |
| | `EnqueueStartsPlayback` : `EnqueueAutoplays` | |
| | `Atomicity` : `RequestsAreAtomic` (implements `MpdService`) | the same, without spontaneous changes |
| `NetworkModeProofs` | `TypeCorrect` : in particular the saved home connection is never the hotspot | home profiles, administrators, stored files, power cuts, lost links |
| | `HotspotSecured` : `[]HotspotIsSecured` | |
| | `InvocationsEnd` : `InvocationsAdvance` | |
| | `ModeRemembered` : `[]ModeIsRemembered` | |
| | `PassphraseShown` : `[]ShownPassphraseIsUsed` | |
| `DeviceProofs` | `TypeCorrect`, `OnceForEachPress` : `[]ActsOncePerPress`, `CooldownIsKept` : `[]TogglesAreSpaced` | pins, presses, clients, all durations, the lengths of blocking calls |
| | `SnapshotsAreCurrent` : `[]SnapshotShowsOutcome`, `IdleLoopAnswers` : `NoTimeoutWhileIdle` | |
| `WebControllerProofs` | `TypeCorrect`, `HighlightWithdrawn` : `HighlightIsOwn` | items, queues, clicks, polls, changes, failures |
| `BleLinkProofs` | `Types` : `[]TypeOK` | phones, links, connections, requests, the lengths of messages and chunks |
| | `Inductive` : `[]OneLink`, `Whole` : `MessagesAreWhole` (implements `BleExchange`) | the same, one link at a time |
| `LibraryProofs` | `NormalizedIs` : what is not refused has visible names only; `PlainIs` : a listed path is accepted as it is | names, requested paths |
| `HttpApiProofs` | `AnswersAreTrue` : `[]AnswersTellTheTruth` | clients, command lines, requests, trees, names and their order, changes |
| | `TypeCorrect` : `[]TypeOK` | |
| | `QueuedInOrder` : `[]TracksInOrder`, `NothingIsMissed` : `[]NothingMissed` | |
| | `ListedOpens` : `[]ListedCanBeOpened` | |
| | `EffectsMean` : `[]EffectsAreMeant` | |

Each follows the same pattern: an inductive invariant `IInv` implies the property, holds initially,
and is kept by every action (one lemma per action or group of actions).

*The actor.* The inductive invariant is `TypeOK /\ CallsAreHeldOnce /\ NoSnapshotWithoutConnection
/\ ReadsAreCurrent`. `SettledSnapshotIsCurrent` speaks only of the actor at rest; what makes it true
is that every change of MPD that a published status shows is flagged, and that a publication reads
*after* it consumed the flag. `ReadsAreCurrent` says this at each point of the two reads: as long as
no relevant event is unconsumed, what has been read (`wire`, `frame`) or published is what MPD would
answer now. The key lemma is `UnflaggedIsUnchanged`: a change of MPD that flags no relevant subsystem
leaves status and current song alone. Type lemmas about MPD's commands (`OutcomesType` and those it
rests on) come first, then for each conjunct a lemma that every step preserves it.

*Its answers.* What a caller is told is about the past, so the invariant ties the history `log` to
the present: `HandAgrees` says for each point of each handler what MPD has carried out for the
request in hand, given the locals of the handler and whether the command in flight is unanswered,
accepted or lost; `Unstarted` that nothing was done for a call before it is in hand; `Accounts` that
what was answered is true. A lost link is where the two outcomes of a command become one error, so
`Taken` allows an enqueue one track more than it counted.

*Its atomicity.* `Ran` says at each point of a handler what it has made of MPD as its request found
it: nothing before the first command that changes something; after `k` accepted `add`s one of the
states with `k` tracks appended, or `k + 1` if the answer to the last was lost; then the same with
playback started or not. It also ties the status read first to that state, so that what the handler
decided by it is still right. `Found` says that `start` is the state it found. Of each step there
is then one of two things to show (`RanKept`): the handler goes on and `Ran` holds again, a stutter
of the service; or it answers, and MPD is what `Effects` or `PartialEffects` make of `start`
(`Fits`). The lemma the enqueue rests on is `AddedOneMore`: one free track appended to a state with
`n` tracks appended is one with `n + 1`. `EnqueueStartsPlayback` needs the same for *some* state
found, as long as nobody else has changed MPD (`Alone`). `Atomicity` assumes `MaxSpontaneous = 0`,
and nothing about what is asked.

*Network mode.* Invariance of `HotspotIsSecured` needs to know that an invocation past
`ensure_hotspot_profile` finds a profile, and a secured one if it is the only one (`SecuredFirst`).
That is kept because no step removes a profile or takes a passphrase away, and adding a bare one,
which another invocation may still do that had found none, ends `OneHotspot`, which nothing
restores. `WifiSecured` carries it over to wlan0: a profile modified after its activation changes
nothing on the air. The lemmas `Added` and `Modified` say what the two nmcli commands make of the
sequence of profiles. The type invariant needs `VariablesAreSet`: a shell variable about to be
read was set, and it names a home connection where it is about to be saved or activated. A lemma for
each way an invocation goes on (`GoesOn`, `GoesNaming`, ...) keeps the 29 cases short.

*Its ends and races.* `InvocationsAdvance` needs one invariant, that an invocation remembers where to
return only within `ensure_hotspot_env`. For the saved mode and the passphrase shown,
`AloneAgrees` says of the only invocation under way what it has established so far (the passphrase
it read is that of the file, the profile was secured with it, the connection it waited for is up, ...); `Overlaps` that without a race
there is no other.

*The device.* `PressesCover` counts the presses that have been tracked, queued or acted on;
`CooldownOK` relates the age the code keeps to the true one; `FrameOK` and `SleepOK` say that what is
not drawn is about to be, and that whoever waits during a sleep asked during it. The next event is
the one with the least place: that a set of numbers has a least element is proved from the
well-foundedness of the finite subsets of the naturals.

*The web page.* The type invariant is inductive once it names the sets of queues and tasks; its
heart is that a selection always carries the number of the latest click. `HighlightIsOwn` follows
for each action that withdraws a selection.

*The BLE link.* A link that breaks leaves chunks in five places: the app's write queue, the tasks
waiting for the lock, the partial message, the answer being sent and the notifications on their
way. `OneLink` says how they agree. Whatever waits or was begun is part of a request that a phone
made (`IsAsked`); of the entries that wait, none belongs to a newer connection than one behind it,
and a chunk after the first follows one of its own connection (`After`); on one connection of one
phone the message ids differ from the requests' numbers by a constant (`Shift`), so that chunks
with equal ids are of one message, although a restarted app counts from 1 again; an answer under
way is for a request completed and not answered to its end (`ReplyOK`). The hypothesis `MaxLinks =
1` is the design's "only one active control session": with two links up, two phones that both
number their messages from 1 can have their chunks joined. `TypeOK` needs no such hypothesis.

*The HTTP API.* `IInv` is about answers: `AnswerOK` says of each request that nothing was done for
it while it is under way, and that its status code tells what was; `NumbersDiffer` that no call of a
client that left can be taken for another's. `JInv` is about trees and walks: `Walks` says that
what is still to be read comes after what is collected, in the order of tracks, and that each track
that was there all the time is collected or below an entry still to be read; it survives the
reading of a directory because the entry read is replaced, in its place, by its own entries in
their order (`WalkGoesOn`), and a change of the tree because it speaks of the tracks that were
there all the time (`always`) or ever (`Holds`). `Listed` says that each directory on the way to a
listed path may be entered; `Called` and `AskedBy` that a call is what its request, and a request
what its command line, asked for. Where an argument runs over a path or a sequence (the first place
at which two paths part), it takes the least counterexample.

The constants of the library are assumed to be what a file system gives: `NameOrder` lists no name
twice (`NamesAssumption`), a path's prefixes are paths (`PathsAssumption`), and whatever exists
initially is in a directory (`TreesAssumption`); requests and command lines hold paths and numbers
of the types clap and serde give (`AsksAssumption`).

The proofs assume the named `ASSUME`s of the constants, which TLC evaluates in the runs, and
nothing else.

*Model-checked only.* The liveness properties and whatever rests on fairness (TLAPS 1.4.5 has no
`ENABLED`): `EveryCallReturns`, `SnapshotConverges`, `HoldSwitches`, `PageConverges`,
`EveryWriteReturns`, `AnswersArrive`, `EveryRequestIsAnswered`. Every other property of the passing
runs is stated by a theorem. The library's induction theorems take an operator and cannot be used,
so that nothing is proved by induction over data; the models describe messages, chunks and the items
of a walk as functions on the positions of a sequence instead, and what the one recursive function
(`Kept`, the elements of a sequence that are in a set) computes is proved from its least
counterexample (`LibraryProofs`).

## Findings

Four runs end in a violation; `PROJECT.json` (`findings`) quotes the documents and lines.

1. `mpd_seek_panics`: `POST /playback/seek` with a finite number that no `Duration` holds passes
   validation and panics the actor task; nothing restarts it, every later call answers 503 and the
   last status stays published.
2. `network_power_cut`: the saved mode is written by truncating the file; power lost there makes the
   next boot forget home mode.
3. `device_short_press`: a press is measured between polls, and a blocking refresh lies between
   them: a short press of the network button can count as a hold.
4. `web_queue_view`: two queue refreshes answered out of order leave a removed item on the page, as
   nothing polls the queue.

## Not modelled

- *Startup volume and boot order.* `mba-mpd-startup-volume` reads the volume once and lowers it
  once; it has no other state and nothing waits for it. What could go wrong is the order of units,
  which systemd keeps and this repository only states (`hazards` lists the missing dependency).
- *Update flow.* `update.mjs` runs remote steps one after the other, and the ones that matter when a
  connection dies (writing the inactive slot, switching to it) live in a git submodule outside the
  repository: a model would rest on guesses.
- *The web page's library view, volume and moves.* Moves refresh like removals; the library view has
  the race of `QueueViewConverges` in a second place (`hazards`); rendering and sliders hold no state
  that others depend on.
- *Rendering, the ST7789 driver, PNG encoding*: no state the loop depends on. *JSON, clap, playlist
  parsing* (`parse_queue` included): tags are shown and nothing depends on them.
- *mba-protocol* (data types), `mba-data-init`, build, flash, music sync and test scripts
  (sequential, one program after the other), Yocto recipes.
