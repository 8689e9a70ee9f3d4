# GeserDesk: models, checks and proofs

GeserDesk shares one keyboard and mouse between machines. A *server* owns the devices; when
the cursor crosses an edge of its screen, or a hotkey is pressed, it grabs them and sends
what the user does to a *client*, which injects it. Clipboard and files follow. This
directory holds TLA+ models of that program, configurations for TLC, and theorems that
TLAPS checks. `PROJECT.json` lists the components, the runs, which definition models which
lines, the hazards and the theorems.

## 1. The system

| Part | State | Operations | Talks to | Module |
|---|---|---|---|---|
| Hub (`geserdesk-server/hub.rs`) | `clients`, `disabled`, `added`, event and clipboard streams | `register`, `unregister` (drop), `set_monitors`, `set_disabled`, `send`, `disconnect`, `broadcast_except` | session tasks, router task, clipboard task, administration | `HubRegistry`; `TrustAdmin`, `ClipboardRelay`, `PointerPath` for the last ones |
| Router core (`router.rs`, `Core`) | `state`, `connected`, `switch`, `fired`, virtual cursor, desk | `handle` (pointer, motion, key, button, hotkey, failed grab), `client_connected`, `client_disconnected`, `refresh` | pure: returns a list of actions | `InputRouting`, `KeyForwarding`, `PointerPath` |
| Router task (`run_shared`) | the list of actions under way | `select!` over capture and hub events, then the actions one by one | capture thread (commands), hub (`send`) | `InputRouting` |
| Switch policy (`layout.rs`) | `dwell`, `last_tap` | `evaluate`, `left_edge`, `switched` | called by `on_pointer` | `SwitchGate` |
| Desk (`desk.rs`, `geometry.rs`, `layout.rs`, `admin.rs`, `config.rs`) | positions, sizes, links; the editor's view and the router's copy | frames, origins, crossings; `apply_layout`, `validate` | router, hub events, editor | `DeskGeometry`, `PointerPath` |
| Capture thread, X11 (`x11.rs`) | `grabbed`, `pressed`, `hotkey_down`, `last_local`, warp state | grab, release, report events, poll the hotkey and the pointer | router task, through two unbounded channels | `InputRouting`, `KeyForwarding`, `PointerPath` |
| Capture thread, Windows (`windows.rs`) | `HookState` | two hooks, resync, grab, ungrab | the same | `WindowsCapture` |
| Server session (`server/net.rs`) | outbox, `missed` keep-alives | handshake, relay, keep-alive, close | client, hub, file router | `SessionLink`, `TrustAdmin` |
| Client (`client/net.rs`, `trust_store.rs`) | connection, pinned certificate, back-off, silence deadline | connect, ask, reconnect, read | server session | `SessionLink` |
| Client's sink (`inject.rs`) | `held_keys`, `held_buttons`, cursor | inject, let go on Leave and on disconnect | the OS | `WindowsCapture`, `KeyForwarding`, `InputForms` |
| Trust (`server/trust.rs`, `admin.rs`, `config.rs`) | trusted and pending fingerprints, the config file | approve, dismiss, revoke, on/off, save and undo | handshake, hub, config file | `TrustAdmin` |
| Clipboard (`server/clipboard.rs`, `geserdesk-clipboard`) | transfer number, last content seen per machine, chunks | poll, apply, broadcast, assemble | hub, client sessions | `ClipboardRelay`, `ClipboardContent` |
| Files (`server/files.rs`, `client/files.rs`, `pull.rs`, `stage.rs`) | owner, pending requests, staging folders | announce, request, reply, pull, cancel | hub, sessions, clipboard | `FilePull`, `FileTree` |
| Session, daemon, controllers (`geserdesk-app`, desktop, CLI) | the one running session, socket and token, timers, what an app shows | start, stop, attach, subscribe, idle exit | all of the above | `Lifecycle` |

Hard in this code:

* the hub's registry, its `disabled` set and the router's copy of both are changed under
  different locks and kept in step by a queue;
* the router acts on capture events that were true a moment ago, and on hub events that may
  come before or after a failed send has told it the same thing;
* grab and release are commands on a queue, a failed grab is an event on another;
* keys go up and down while the input changes hands, and three places remember keys; on
  Windows the hooks see both sides of a grab, and are skipped when they are slow;
* X11's queued motion events are measured against a centre the pointer was warped to since;
* the desk changes, in two events, while the cursor is on it;
* keep-alives and silence timeouts on both ends, writes that block both, reconnects that
  overlap the old session;
* administration that changes memory, file and live sessions in several steps;
* copies and file announcements that cross on the wire; pulls with timeouts and cancels;
* commands of several controllers in a daemon that is about to leave.

What makes each part correct: the hub has one owner per name and the router knows what is
connected and on; the input is on one reachable screen, comes home when that is lost, and
the devices are grabbed exactly while it is away; a client holds nothing the user does not;
every movement of the hand counts once; each desk pixel is of one machine; a switch happens
when the policy says and not otherwise; a dead connection is noticed and a working one kept;
trust in memory and on disk agree and a revoked client is out; all clipboards agree in the
end; every file is its owner's; a running session can always be stopped.

## 2. The modules

**`HubRegistry`.** A *session* is a connection slot; two slots of one name are a connection
and the one that follows it. `register` is three steps (`Register` under the lock,
`CheckDisabled`, `Announce`), `unregister` two (`Unregister`, `SayGone`), `set_disabled` two
(`SetDisabled`, `TellToggle`), since the code holds no lock across them and the tasks run on
several worker threads. `RouterHears` is the router reading one event, `RouterMisses` its
finding out by a failed send.

**`InputFocus`** is the abstract promise: one screen owns the input, the server's own or a
reachable one; a screen that is lost loses the input to the server in that step.

**`InputRouting`** (extends `HubRegistry`, implements `InputFocus`). The router task, the
capture thread and the clients. A handler of `Core` is one step that sets `active` and the
list `pending`; the actions are then carried out one by one (`CarryOutCommand`,
`CarryOutSend`, `SendFails`), and only then the next event is read, as in `run_shared`. The
capture thread obeys commands and reports; a grab may fail; the thread or the server may
stop. Clients read messages in order, drop and come back. Positions are left out, so that
crossings lead to any screen the router knows; one key stands for all a client can hold.

**`KeyForwarding`.** One client and a small keyboard, with the X11 thread's `pressed` and
`hotkeyDown`, the router's `fired`, and the client's `held`. A message is the set of keys it
presses or releases.

**`WindowsCapture`.** The same journey from a Windows server: what the desktop's own programs
take to be down (`desk`), the hook's state, the router, and the client's sink with what its
system has down. `Hands` gives each behaviour the keys one person uses, AltGr with its
made-up Ctrl among them, how often Windows skips the hook, and how many commands wait. Of the
histories, `misled` holds the modifiers, and the hotkey's key, of which the hook was last told
wrong: its call was skipped, or Windows, read back by the resync, did not know.

**`InputForms`** (operators). X11's keymap from keycode and state to a character, the
client's way from a character or key to what is asked of the OS on both systems, buttons,
wheel notches, and the normalised coordinates of `move_virtual`.

**`SwitchGate`.** `SwitchState` with `on_pointer`. A position is the first edge with a
client it touches and whether it is near a corner; times are ages, capped at the largest
the policy tells apart. Scroll Lock is left out, since nothing in the server engages it
(`docs/PLAN.md:538`).

**`DeskGeometry`** (operators) and **`PointerPath`** (extends it). Rectangles, frames,
effective origins, crossings and return points; and on top of them the hand, the X server's
queue, the X11 thread's warps and deltas, `Core` with its positions, the hub's events and
the layout editor. Histories: `owed` is what the hand moved and the thread has not reported,
`slipped` the ways that count is lost, `landed` where the cursor was put when it came home
and the monitors the router meant.

**`TrustAdmin`.** Handshakes (`Knock`, `Authorize`, `Welcome`, `Admit`), the trust list, the
registry, and controllers whose commands go through read, opening the temporary file, filling
it, rename and, when a save fails, undo. All saves share that file's name, and `open` follows
the one each has open, wherever it was renamed to. The server may restart from the file at any
step. A session's loop may wait in a write (`writing`), and then takes nothing from its outbox.

**`SessionLink`.** One client and its server over pipes of bounded capacity; both loops
block in their writes. Time is counted in keep-alive intervals. A connection can be cut
without a word, the server can stop or come back with another certificate, and the client
asks, pins, backs off and tries again.

**`ClipboardContent`** (operators) and **`ClipboardRelay`** (extends it). Formats, what fits
a limit, chunks and the assembler; the clipboards of all machines with `seen` and the change
count, the relay task, announcements of files and who serves them, switching sharing off and
on.

**`FileTree`** (operators) and **`FilePull`** (extends it). Walking, sanitising and staging
a tree; and the requests of pulls through `FileRouter`, owners and pullers that disconnect
and come back, cancels, timeouts, restarts of the server and its numbers.

**`Lifecycle`.** Daemons from launch to exit with socket and token file, `Session::start` and
`stop` split at their awaits, controllers of several kinds (an app that follows events, CLI
commands, one of another protocol version), idle and linger timers, crashes.

The proofs of a module `M` are in `M_proofs`, those of `HubRegistry` in `InputRouting_proofs`
(which needs them) and those of `SwitchGate` and `TrustAdmin` in `SessionLink_proofs`.

How they compose: `InputRouting` contains `HubRegistry`; `PointerPath` and `FilePull` build
on their operator modules; the others meet at what they leave out and name in their headers:
`TrustAdmin` has a registry reduced to who holds a name, `SessionLink` leaves approval to
`TrustAdmin`, `ClipboardRelay` makes a pull one step that `FilePull` takes apart.

Definitions named *Mutant of ...* in the modules are deliberately wrong forms of the
definition they precede; `PROJECT.json` names the property each one breaks, which shows
that the property depends on the code it is about. No specification uses them.

## 3. The runs

| Run | Instance | Checks |
|---|---|---|
| `hub_registry` | one screen, two slots, two arrangements, 4 events | `NoGhost`, `FreshMonitors` |
| `routing_two_screens` | two screens, one slot each, a grab may fail, one screen is turned off and on | `ActiveIsKnown`, `RemoteIsCaptured`, `HeldUntilLeave` |
| `routing_reconnect` | one screen, two slots, the thread or the server may stop, fairness | `CursorNotStranded`, `InputOnlyInside`, `StrandedComesHome`, `DevicesGivenBack`, `ImplementsFocus` |
| `key_forwarding` | one modifier, one rule, the hotkey | `NothingLeftDown`, `HeldIsAccounted`, `FiresAlone` |
| `windows_capture` | six persons, each with two or three of eight keys and a button | `NothingStuckHere`, `NothingStuckThere`, `HotkeyIsTheChord`; the assumptions about `InputForms` |
| `switch_gate` | two edges, every combination of gates, fairness | `SwitchNeedsRest`, `NoBounce`, `RestIsRewarded` |
| `pointer_path` | a server and two clients, monitors of a few pixels, three configurations, four edits | `EveryMoveCounts`, `OnePlaceUnlessRounded`, `StaysHome`, `HandCarries`, `SameDesk` |
| `trust_admin` | one screen, one controller, two connections, two certificates, a failing disk, restarts, fairness | `SavedIsTrusted`, `ServedIsTrusted`, `RevokedGoes` |
| `session_link` | two connection slots, pipes of 3 and bursts of 4, faults and bursts, fairness | `DeadIsNoticed`, `HealthyIsKept`, `NeverStuck` |
| `clipboard_relay` | the server and two clients, six contents, one fault | `KeptEqualUnlessCrossed`, `OwnerServes`, `NoEcho`; the assumptions about `ClipboardContent` |
| `file_pull` | the server, an owner and a puller, two pulls, a cancel, a fault | `OwnBytesUnlessOwed`, `NoReadLost`, `CancelCounts`; the assumptions about `FileTree` |
| `lifecycle` | four scenes of daemons and controllers, one crash, fairness | `SessionAccounted`, `Reachable`, `ViewCatchesUp`, `AskedToEndEnds` |

All runs pass. `session_link` needs no MC module: its configuration runs on `SessionLink`
itself. Beside the runs hold three properties that are proved (`HandOver`, `PinnedOnly`:
nothing is said to a server whose certificate is not the one confirmed or pinned, and
`DeskOfRunning`) and three that TLC finds true when they are added to a run's configuration:
`LeaveIsCarriedOut` and `CaptureFollows` (`MCInputRoutingLive.cfg`), `IdleLeaves`
(`MCLifecycle.cfg`). Every module has a `TypeOK`; no run spends time on it, and it is proved
wherever anything is.

Pure algorithms are compared with a reference definition, as named ASSUMEs that TLC
evaluates in the run of the module that extends them:

* `AssemblerIsItsGrammar`, `StreamsComeBack`, `FittingIsStable` (`MCClipboardRelay`): the
  chunk assembler accepts exactly the streams its grammar describes, whatever came before; a
  content comes back from any chunking if it is within the limit; what fits, fits again.
* `CopiesAreFaithful`, `CopiesAreRefused` (`MCFilePull`): every pick of up to two paths of a
  small disk is staged as it was, or refused for depth, number, size or colliding names.
* `SameLayoutTypesTheSame`, `LikeModifiersTypeTheSame`, `OtherModifiersTypeOther`,
  `KeypadFollowsNumLock`, `BuiltInsAreNamed`, `ModifiersAreToldApart`, `ActionsGoOneStep`,
  `ButtonsComeUp`, `WheelTurnsAlike`, `EveryPixelIsReached` (`MCWindowsCapture`): what keys,
  buttons, wheel and moves become, over a German and a US layout.

### Bounds

Every bound is a constant in a guard. The channels are unbounded in the code; the bounds
(`MaxHubEvents` 2 to 4, `MaxInputs` 1 to 2, `MaxCmds` 1 to 2, `MaxQueue` 1, `MaxWire` 1
before one more event, `MaxX` and `MaxEvents` 2) hold a sender back, as a slow thread would,
and lose nothing. They are large enough for the cases at issue: an announcement overtaken by
a goodbye, a grab and a release both under way, an event read after the state it reports is
over, a press queued behind the hotkey, motion queued before a warp. What each hides:

* `routing_two_screens`: only one screen is turned off and no connection ends; connections
  that end are in `routing_reconnect`, with one screen. Both at once are only in the proofs.
* `key_forwarding`: one modifier key stands for left and right; the proof of `FiresAlone` is
  for any keyboard.
* `windows_capture`: a person uses two or three things, and at most one hook call is
  skipped. Chord, Shift with a letter, AltGr with its made-up Ctrl, and an unmapped key each
  have a person of their own; more of them at once are only in the proofs, which found a
  case among them (section 4). The chord is there twice, with two commands waiting, and with
  one and a skipped call.
* `pointer_path`: `Budgets` trades movements against hotkeys and changes of the desk (four
  movements, or two changes, or one of each). Monitors are 2 to 8 pixels wide, so that every
  edge, corner and jump zone is crossed.
* `trust_admin`: one controller, so commands follow one another, and each save has the
  temporary file to itself; commands that overlap, and several screens, are only in the proofs
  (and in section 6).
* `session_link`: faults and bursts together are at most two: two faults in a row, a fault
  with a blocked writer, or both writers blocked. `MaxDelay` is 2 intervals, so that the
  back-off reaches its cap.
* `clipboard_relay`: two copies by applications, one disconnection or switch: enough for two
  copies to cross and for a machine to miss one.
* `file_pull`: two announcements and two pulls: a pull and the one that follows it in the
  same or another run of the server.
* `lifecycle`: `Casts` lets the daemons, controllers and sessions of one of four scenes meet:
  two commands over one daemon, two daemons in succession, an app over its daemon, a
  controller of another version. One crash.

Deadlock is checked in `hub_registry`, `routing_two_screens`, `key_forwarding`,
`switch_gate`, `trust_admin` and `session_link`. The others turn it off: there the bounds on
what people do run out, or a thread, a server or a daemon stops for good.

### Fairness

* `routing_reconnect`: the router task and the capture thread run when they have something
  to do; `select!` picks among ready branches at random, so neither stream waits for ever
  (strong fairness of `HandleInput` and `HandleHubEvent`); a session task carries out the
  rest of `register` and `unregister`, which await nothing; a client reads what it is sent,
  and one whose session ended finds the connection closed or silent. The user need do
  nothing.
* `switch_gate`: time passes, the router reads, the thread reports and obeys.
* `trust_admin`: a command that began proceeds, and a session that has a Close in its outbox,
  and again and again comes back from its writes, reads it: `select!` picks at random among
  what is ready, so the outbox is not passed over for ever (strong fairness of `EndSession`
  outside a write). That a write ends is not assumed, since it has no timeout
  (`server/net.rs:779-785`): `RevokedGoes` is about the behaviours in which the loop does not
  come to wait for ever. `EndSession` of other sessions is not fair.
* `session_link`: tasks run, time passes, kernels give up on what nobody acknowledges, and a
  server that stopped is started again. No person need answer: `ComesBack` ends at a
  question.
* `lifecycle`: a daemon's main loop, session tasks and the handlers of connections run; no
  controller need ask for anything, and no signal is sure to be taken: the loop makes its
  signal future anew in each iteration (`daemon.rs:84`, `126-146`), and a signal between two of
  them is lost, which is a stutter of `Terminate`.

## 4. The proofs

For every number of screens, slots, connections, machines, daemons, keys and rules, and
every bound. Each starts from the types; what else its induction needs is named.

* `InputRouting_proofs`, on `HubRegistry`. **`HubOwnership`** (`OneOwner`: an entry belongs to one registered
  session) is inductive together with the types. **`HubNoGhost`** (`NoGhost`) needs it
  besides: only the session that owns an entry removes it, and it says goodbye after, so of
  the events about a name that is gone the last is a goodbye, or the goodbye is still to be
  sent. **`HubFreshMonitors`** (`FreshMonitors`): what the router will know of a screen, once
  it has read its queue and what is about to be told, is the entry's arrangement.
* `InputRouting_proofs`, on `InputRouting`. Every step of the composition is a step of the hub or leaves its
  variables alone (`StepOfHub`), so the hub's theorems carry over. **`RoutingTypes`** and
  **`CursorOnKnown`** (`ActiveIsKnown`) are proved together, since the list of actions is
  well typed only when the active screen is a name. **`RefinesFocus`**
  (`ImplementsFocus`): every step is a step of `InputFocus` or changes neither the owner nor
  the reachable screens. **`CursorComesHome`** (`CursorNotStranded`) follows from `NoGhost`
  and `CursorOnKnown`: of the events about the active screen there is a last one, and if it
  is not a `Connected` it is the goodbye. **`InputFollowsCursor`** (`RemoteIsCaptured`) is
  inductive with the types: carrying out the first action moves the last order from the
  list to the queue to the thread, and messages to clients do not touch it.
  **`InputIsHandedOver`** (`HandOver`), **`InputComesInside`** (`InputOnlyInside`) and
  **`HeldIsReleased`** (`HeldUntilLeave`) rest on the order of the router's actions
  (`Orders`: what is meant for the screen with the input is decided last and is no Leave, and
  any other screen gets at most a move and the Leave) and speak of a client's whole queue:
  after the last message it is inside (`ActiveIsInside`), and every press in it, or already
  held, has a Leave after it or to come (`ReleasedLater`).
* `KeyForwarding_proofs`. **`KeyTypes`**. **`NoKeyLeftDown`** (`NothingLeftDown`): reading a
  message does not change what the client will hold in the end, a Leave empties it, and
  `forward` sends nothing while the input is here. **`CombinationFiresAlone`**
  (`FiresAlone`): only `FiresRule` makes a key stand for an action, and of its two messages
  the first releases the modifiers and the second presses no key. **`HeldKeysAreAccounted`**
  (`HeldIsAccounted`) needs the order of a key's events in the router's queue (`Ordered`): a
  key that is not astray is clear at its next `down`, and at the end of the queue when it is up
  or the thread does not know it to be down, where clear means that every press, and what the
  client holds already, has a release after it; and while it stands for an action the client
  does not hold the key itself.
* `WindowsCapture_proofs`. **`CaptureTypes`**. **`NothingStaysHere`** (`NothingStuckHere`)
  needs to know that no key this desktop took to be down is one the hook would swallow the
  release of (`HereInv`): nothing is in `swallowed` outside a grab, and a key in both is
  excused. **`NothingStaysThere`** (`NothingStuckThere`) speaks of the events in the queue
  (`ThereInv`): every press in it, and all the sink holds, belongs to a key that is down or
  astray or has its release behind it. **`HotkeyTold`** (`HotkeyIsTheChord`): until
  the thread is gone, what the hook holds for held is what is down, and the hotkey's key is
  down when it has it so, but for the keys in `misled` (`ChordInv`): a call about a key takes
  it out, a skipped call puts it in, and a resync puts in what Windows answers wrong.
* `SessionLink_proofs`, on `SwitchGate`. **`GateTypes`**, **`GateNeedsRest`**
  (`SwitchNeedsRest`), **`GateNoBounce`** (`NoBounce`). `Armed` compares the marks of the code
  with the histories: a mark exists only where its gate is asked for and no client has the
  input, and is never older than the cursor's rest at that edge nor than its time at home.
* `SessionLink_proofs`, on `TrustAdmin`. **`TrustServed`** (`ServedIsTrusted`): a certificate that passed the
  check is the trusted one or was overtaken, and a session that serves another one has a
  Close in its outbox or a revocation of its screen on the way to it. **`TrustSaved`**
  (`SavedIsTrusted`): `Before` and `After` say for each stage of a command what memory and
  the file differ by (until its rename the one fingerprint, with what an undo needs; after it
  the new screen or the switch), so that with no command under way they do not differ.
  **`TrustTypes`**.
* `SessionLink_proofs`, on `SessionLink`. What is said of a connection is an operator on its record.
  **`LinkDeadIsNoticed`** (`DeadIsNoticed`): since a connection was cut the server's task has
  sent a probe for each interval, or waits in a write (`SrvSide`); the client's silence
  passes the limit only while it waits in a write nothing will take (`Noticed`).
  **`LinkHealthyIsKept`** (`HealthyIsKept`): on a connection that is up at most one probe is
  unanswered, and until it is answered the question, or something for the server to read, is
  in a pipe or being written (`Exchange`). **`LinkPinnedOnly`** (`PinnedOnly`), **`LinkTypes`**.
* `ClipboardRelay_proofs`. **`RelayNoEcho`** (`NoEcho`): only what the poll finds to be new is
  pushed or numbered, and that was put there by somebody at the machine. **`RelayOwnerServes`**
  (`OwnerServes`): an awaited announcement is served, or its echo is the next announcement in
  that client's queue (`Awaits`). **`RelayKeepsEqual`** (`KeptEqualUnlessCrossed`): for each
  client the texts on their way go one way only, the last of them is what its sender saw last,
  and without any both ends saw the same (`Agrees`); it needs that what fits the limit fits
  again after a round trip (`FitCases`, and the lemmas on `Placed` and `Reported`).
  **`RelayTypesHold`**.
* `FilePull_proofs`. **`PullNoReadLost`** (`NoReadLost`) follows a request along both legs
  (`Accounted`): the router's numbers and those of a session are used once
  (`RouterNumbers`, `SessionNumbers`), a request that was sent on is with its owner or the
  owner's end answers for it (`OwnersLeg`), and that of a pull that waits is at the router or
  on the puller's own session, or its answer is (`PullersLeg`). **`PullOwnBytes`**
  (`OwnBytesUnlessOwed`) adds what is in the messages: a number names one announcement of
  this run of the server, in every table that has it (`Announced`); a request in hand is the
  next read of its pull, and a pull has one out (`InHand`, `OneOut`); the owner's answers and
  those on the way to a puller are the bytes asked for (`OwnersBytes`, `Replies`). For the
  clipboard's half: a machine pulls an announcement once, into a folder of its own that holds
  what the pull got (`FolderInv`). **`PullCancelCounts`** (`CancelCounts`), **`PullTypeOK`**.
* `PointerPath_proofs`. **`PointerTypes`** is where the geometry is: an origin is a pair of
  numbers, and every listed machine has one, by induction over the steps of the recursive
  functions that place them (`Recursion`); the nearest point of a list of monitors is on one of
  them; and a command that sends the cursor home names a place more than the jump zone inside
  the monitors the router has (`TypeInv`, `Landings`). **`EveryMoveCountsAlways`**
  (`EveryMoveCounts`) says what each waiting event will be measured against: those before the
  warp's own against the last position, those behind it against the centre, so that what is
  owed is the way from there to the newest position (`Counted`, `Awaited`, `Newest`).
  **`HandCarriesAlways`** (`HandCarries`); **`StaysHomeAlways`** (`StaysHome`): a point at an
  edge and one further inside than the jump zone are two pixels apart.
  **`SameDeskAlways`** (`SameDesk`) is about the queue: who reads it will know of the desk the
  hub and the editor have (`WillKnow`), since the last event about each thing tells what it
  is now and the added screens are announced in their order; and the router's origins are
  worked out of what it holds (`LaidOut`). **`OnePlaceAlways`** (`OnePlaceUnlessRounded`): as
  long as nobody changed since `validate` accepted a desk, whoever is here has a position and
  fits (`Accepted`), and a pixel that maps into a monitor is in the rectangle the editor
  compared, where a stretch gives a whole number of pixels or goes by one monitor only
  (`ExactCovers`).
* `Lifecycle_proofs`. The invariant is `LInv`. `Endpoint`: unless two daemons bound over one
  another, the one that listens has the socket, and the token once it is up; with it
  **`LifecycleReachable`** (`Reachable`). `OfUp` and `Own`: sessions, commands and closings
  are those of daemons that are up, and what runs or was taken out is the daemon's own.
  `Room`: there is a slot for every command that will start a session, by counting finite
  sets. `Orderly`: a live session is the one that runs or one a stop took out, nothing runs
  while a stop is under way, and a desk to be set is that of a live server; with it
  **`LifecycleAccounted`** (`SessionAccounted`) and **`LifecycleDesk`** (`DeskOfRunning`).
  `Following`: a subscribed app has the status or news of it waiting; with it
  **`LifecycleViews`** (`ViewCatchesUp`). **`LifecycleTypes`**.

The assumptions are the named ASSUMEs on the constants, one in each module: distinct values
and types, and beyond that of the rules what `Rule::parse` guarantees (`KeysAssumption`), that
the age of a tap can be counted past the double-tap time (`GateAssumption`), that finitely
many daemons, controllers and sessions exist and a controller is no daemon
(`LifecycleAssumption`), that a chunk has room for the protocol's overhead
(`ContentAssumption`), that owners are those who have a tree to copy and no announcement,
answer or number is `None` (`PullAssumption`), that neither AltGr's made-up Ctrl nor the
hotkey's key is a modifier or without a HID usage (`WindowsAssumption`), that positions are
points and every monitor of this machine is wider and higher than its two jump zones
(`PointerAssumption`, `GeometryAssumption`), and more than one missed probe before the server gives up
(`LinkAssumption`; `KEEPALIVE_MISSES` is 3, `server/net.rs:93`): with one, a healthy client is
dropped at the first probe that is due.

Proving corrected the models and what was said of them:

* `KeptEqualUnlessCrossed` was false for three copies, more than the run has: an announcement
  of files ended what was remembered of a crossing of texts. `crossed` is now about texts, and
  `OwnerServes` has a history of its own, `awaited`.
* `SavedIsTrusted` was false for two controllers; `mixed` names the overlap.
* `HealthyIsKept` is stronger than before: it speaks of the step in which the server gives up
  a client, for every number of misses.
* `NoReadLost` had an exception it did not need, for pullers an answer was owed to, and did
  not say what kind of message a number is in; both legs are now followed by type.
* `HotkeyIsTheChord` was false for a person with one key more than the run's: with Alt held,
  the resync reads AltGr's made-up Ctrl back as Left Ctrl, and the hook goes on holding that
  for held when AltGr is up again, so that Alt and Home are the hotkey. `misled` remembers
  it, and stands for two exceptions that took more away than the code does: a chord pressed
  under the grab, and all that follows the first skipped call.
* `WindowsAssumption` excluded only that the made-up Ctrl and the hotkey's key are both
  modifiers or without a HID usage: neither is. And `OsKeys`, as it was bracketed, had `None`
  among its members.
* `EveryMoveCounts` was false when this machine's monitors changed under a grab and changed
  back, and when no monitor lies at the centre of their bounds, where a warp ends elsewhere;
  `slipped` and `KnowsScreen` now name both. The model's pointer began on such a centre.
* `StaysHome` was false when the router had stale monitors of this machine as it sent the
  cursor home; `landed` remembers which ones it meant.
* `SameDesk` was false for a desk on which every machine is known but one that is away was
  stretched to the size the editor remembers; `SizesAgree` says when the two agree.

So every safety invariant and action property of the runs is a theorem. Only model-checked:

* All liveness (`CursorNotStranded`'s counterpart `StrandedComesHome`, `DevicesGivenBack`,
  `RestIsRewarded`, `RevokedGoes`, `NeverStuck`, `AskedToEndEnds`): it needs fairness, and
  with it ENABLED, which the prover does not treat.
* What the recursive algorithms of `ClipboardContent`, `FileTree` and `InputForms` compute,
  and with them `ReadsAreServed` (`FilePull`): that a tree, walked and served, gives the bytes
  that were asked for. Each would need an induction over the data. `PullOwnBytes` is about
  any `Reading` and `Served`; it takes from `ReadsAreServed` that a read that is asked for is
  served as asked, which TLC finds true for the trees of the run.

## 5. Faithfulness

* One `Core` handler is one step: `Core` is owned by the router task and awaits nothing.
* Sending on a channel is a step with what precedes it under no lock; it never blocks.
  Writing to a connection does (`SessionLink`).
* A client that connects has no other connection open to this server under its name
  (`Connect`): the second slot of a name is the same client's next attempt. The server's end
  of the old one may still be up; then `Register` is refused, as in `handle_client`.
* Where nothing else moves the state, a message that is sent and what its reader does are
  one step (`PointerPath`, `WindowsCapture`); `InputRouting` has the queue between.
* `KeyForwarding` lets grabs succeed and actions be carried out at once; what happens
  otherwise is `InputRouting`'s matter.
* The listener of the control socket is a library's (`interprocess`), which by default removes
  whatever socket is at its path when it is dropped (`transport.rs:132-138`); `DropListener`
  takes closing and removing for one step. `Reachable` holds with it: who looked while the
  predecessor listened does not bind, and who bound over it is in `raced`.
* What a pull makes, writes and flushes on the disk may fail at any point (`Stops`); that a
  failed pull's folder cannot be removed either is left out.
* A clipboard transfer is one message in `ClipboardRelay`: its chunks are queued together and
  read in order.
* The desk's scaling is f64 in the code and an exact ratio in `DeskGeometry`; a product that
  a double represents inexactly near a half may round the other way there.
* Times are counted in the intervals the code compares them with.

## 6. Disagreements between code and documents

Each is the violation of a property that says what a document, a comment or a name says;
`tlc -config <file> <module>` finds it. No run lists them.

| Configuration (module) | Property | What the code does |
|---|---|---|
| `MCHubRegistryOff` (`MCHubRegistry`) | `DisabledUnknown` | `register` finds the screen on; it is turned off and the goodbye is queued; then `register` announces it. The cursor can go to a screen the user turned off. The mirror image: one session's late goodbye makes the router forget the next one of that name. |
| `MCInputRoutingGrab` (`MCInputRouting`) | `LocalIsReleased` | A grab fails; before the router reads that, the hotkey goes home and out again, and the second grab succeeds. The router then reads the old failure, goes to Local and sends no release: the devices stay grabbed until the next hotkey. |
| `MCInputRoutingOff` (`MCInputRouting`) | `ReleasedWhenLeft` | A screen that is turned off under the cursor gets no Leave; its client is still there and holds what it held. |
| `MCKeyForwardingStale` (`MCKeyForwarding`) | `FiredUntilReleased` | The release of a combination's key after the input came home is not reported, and `fired` keeps it: its next press on a client sends the action, whatever modifiers are held. |
| `MCSwitchGateTap` (`MCSwitchGate`) | `TwoTouches` | Two reports of one touch, a pixel apart, open the double-tap gate. |
| `MCWindowsCaptureStuck` (`MCWindowsCapture`) | `NothingStuck` | "A release of any other key began before the grab and belongs to the local desktop" (`windows.rs:135`): a key whose repeat the grab swallows counts as pressed under it, and its release is swallowed too. |
| the same, with `PROPERTY HotkeyWorks` for the invariant | `HotkeyWorks` | "The hotkey works in both modes" (`windows.rs:244`): not with a modifier pressed under the grab and still held after it, once the resync has looked. |
| `MCPointerPathPlace` (`MCPointerPath`) | `OnePlaceToGo` | "No two machines may occupy the same desk pixels" (`admin.rs:312`): the editor rounds the edges between a stretched machine's monitors, the router does not, and two machines that touch share pixels. |
| `MCTrustAdmin` (`MCTrustAdmin`) with two controllers and `INVARIANT WholeConfig` | `WholeConfig` | "Replace atomically so a crash never leaves a half-written config" (`admin.rs:476`): all saves use one temporary file (`admin.rs:477-479`), and one command may rename it to the config when another has emptied it and not written yet; if the server dies there, the config is empty. |
| `MCSessionLinkJam` (`SessionLink`) | `WritesEnd` | A client pushes a large copy while the server sends it one. Both await their write inside `select!`, each pipe is full, and neither reads: no keep-alive, no silence deadline and no Close from the outbox ends it, as long as both kernels answer. |
| `MCClipboardRelayEqual` (`MCClipboardRelay`) | `KeptEqual` | "The server's own clipboard and every client's are kept equal" (`clipboard.rs`): a client's push and a broadcast that crosses it leave that client with the older copy. |
| `MCFilePullOwed` (`MCFilePull`) | `OwnBytes` | "Whatever this client owned or was owed an answer for is now nobody's" (`server/net.rs:687`): `on_disconnected` drops what was asked *of* the client only (`server/files.rs:94-117`). The client's next session numbers its requests from 1 again (`client/files.rs:38-47`), and the answer to its old request 1 is taken for the new one's: a file gets another file's bytes. |
| `MCLifecycleOne` (`MCLifecycle`) | `AtMostOneSession` | "Runs at most one client or server" (`session.rs`): two controllers' starts both pass `is_running` before either stores its session (`session.rs:215`); the first one is then stopped by nobody. |
| `MCLifecycleSpare` (`MCLifecycle`) | `GaveNothingToDo` | "A daemon we just made and gave nothing to do" (`state.rs:140-144`): between its start and the failed one another controller may have given it a session, which the app's shutdown ends. |

One more is checked as an ASSUME, `OtherModifiersTypeOther` (`MCWindowsCapture`):
`docs/PLAN.md:324` has M6 done when typing works on Windows from the Linux keyboard,
"including mismatched layouts", and `inject.rs:341-345` relies on the OS having the right
Shift held. A character that takes Shift on one layout and none on the other, one of AltGr,
and letters with Caps Lock on at one side come out as others.

## 7. Known exceptions

The properties name the cases in which the code does less, rather than leave them out:

* `HeldUntilLeave` excepts screens in `orphaned`: the router heard they went away.
  `InputOnlyInside` excepts sessions in `stranger`: they began while the router was still
  driving an earlier session of that name, and may get input with no Enter before it.
* `HeldIsAccounted` excepts keys in `astray`. A hotkey key that went down before its
  modifiers is forwarded, and its release with the chord held is swallowed
  (`x11.rs:480-482`). And a press of one grab may be read after the input came home and went
  out again: it is forwarded, but the thread has forgotten the key or the grab was over when
  it was let go of. Both leave a key down on the client until the cursor leaves it.
* `SwitchNeedsRest` is stated for policies without the double tap. With both gates on, a
  report at another edge ends at the tap gate before the dwell is looked at
  (`layout.rs:214-224`), and the dwell of the first edge counts on. `RestIsRewarded` speaks
  of a cursor that keeps moving along the edge: a position that was reported is not reported
  again (`x11.rs:254`), so one that rests perfectly still never goes over.
* `NothingStuckHere` excepts what is in `stolen` and keys without a HID usage, whose releases
  are swallowed under any grab; `NothingStuckThere` keys in `astray`; `HotkeyIsTheChord` the
  time in which the hook's last word on a key of the chord is wrong (`misled`): its call was
  skipped, or the resync counted AltGr's made-up Ctrl as Left Ctrl, or missed a modifier
  pressed under a grab and held beyond it.
* `EveryMoveCounts` excepts `slipped`: a pointer moved onto the exact centre is taken for the
  warp's own event (`x11.rs:411`), and motion queued at a re-grab is measured against the new
  centre; a screen that changed under the grab, or since the thread started, whose centre is
  no longer the one warped to (`x11.rs:372`); and monitors of which none lies at the centre of
  them all.
* `StaysHome` excepts a cursor that was sent home by other monitors than the router has when
  it goes over again.
* `OnePlaceUnlessRounded` excepts stretched machines of several monitors. `SameDesk` excepts
  a desk with a machine that is away, whose size editor and router take differently, and one
  without a position of its own, whose automatic place may follow from that size.
* `SavedIsTrusted` excepts what is left when two commands were under way at once (`mixed`):
  each reads the file, edits it and renames a new one over it, under no lock
  (`edit_screens`, `admin.rs:449-481`), by way of one temporary file, so that the config may
  even be left empty or mixed, and no server starts from it until it is repaired.
* `ServedIsTrusted` excepts sessions in `late`: they were past the check and not yet in the
  registry when the certificate was revoked, or an approval of another one came; nobody ends
  them. `RevokedGoes` excepts a session whose loop waits in a write for ever: its client does
  not read, or the two sides jam (section 6), and the Close stays in the outbox.
* `DeadIsNoticed` excepts a side that waits in a write, and `NeverStuck` both sides waiting.
* `KeptEqualUnlessCrossed` excepts clients in `crossed` (a text sent to them and a text they
  pushed crossed) and `dropped` (something was withheld from them, or kept to themselves).
  `OwnerServes` excepts announcements whose client was not waiting for just this one
  (`awaited`): the first announcement after a push is taken for its echo
  (`client/net.rs:671`), and `pending_own_files` waits for one that never comes when sharing
  is turned off or the manifest is over the limit (`client/net.rs:633`,
  `server/net.rs:812`).
* `OwnBytesUnlessOwed` excepts pullers that left while an answer was owed to them, and after
  a restart of the server the staging folders of the run before, whose numbers are used
  again. `NoReadLost` excepts requests sent between `on_disconnected` and the end of the
  owner's registration: `READ_TIMEOUT` ends their pull. `CancelCounts` speaks of pulls that
  still lack a chunk.
* `SessionAccounted` excepts daemons in `overlap`: a start was committed while another
  command or a close was under way. `Reachable` excepts two daemons that looked before
  either listened (`raced`). `ViewCatchesUp` excepts a link that heard its events fell
  behind, until the next one.

## 8. Not modelled

`PROJECT.json` gives each component's status. Left out: TLS cryptography and certificate
formats, and the wire encoding (the models use the verdicts, and a FIFO of messages); image
conversions, the clipboard's history list and the platforms' change notification; settings,
log and key files and the transfer list, which one process reads and writes; the X11 and
Windows key tables and the setup of either backend; parsing of the config and of `keys.toml`
but for what their rules guarantee; the desktop application's windows and forms and the
command line's arguments and output, which are presentation. The trust question's slot
(`PromptSlot`, one question at a time) is not in `Lifecycle`, and `SessionLink` has the
answer only.
