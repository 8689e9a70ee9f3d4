---------------------------- MODULE KeyForwarding ----------------------------
(***************************************************************************)
(* One key at a time: from the keyboard through the capture thread (x11.rs)*)
(* and the router (router.rs, on_key) to what the client holds down        *)
(* (inject.rs).                                                            *)
(*                                                                         *)
(* The hotkey and the key combinations of keys.toml are read from the same *)
(* keyboard, in three places that each remember something: the capture     *)
(* thread which keys it saw go down (`pressed`) and whether the hotkey was *)
(* down at its last look (`hotkeyDown`), the router which keys stand for an*)
(* action (`fired`), the client what it pressed (`held`).  Keys keep going *)
(* up and down while the input changes hands.                              *)
(*                                                                         *)
(* How the input changes hands is InputRouting's matter: here there is one *)
(* client, the router carries out what it decides in one step, and a grab  *)
(* succeeds.  Enter is left out of the wire, since it presses and releases *)
(* nothing; characters and the keymap are left out too.  The keys let go of*)
(* before an action are one message.                                       *)
(***************************************************************************)
EXTENDS Integers, Sequences, FiniteSets

CONSTANTS
  Keys,       \* the physical keys that matter
  Mods,       \* the modifiers of a combination
  KeysOf,     \* [Mods -> SUBSET Keys]: MODIFIER_KEYS, left and right
  HotKey,     \* the key of the screen-switch chord
  Chord,      \* the modifiers of the chord
  Actions,    \* what a combination can stand for; no keys of this keyboard
  Rules,      \* keys.toml: the combinations and their actions
  NoAction,   \* a key that stands for itself
  MaxInputs,  \* bound: events waiting for the router
  MaxCmds,    \* bound: commands waiting for the capture thread
  MaxWire     \* bound: messages on their way to the client, before one more event

Rule == [mods : SUBSET Mods, key : Keys, action : Actions]

\* Rule::parse knows no rule without a key, and no action that is a key.
ASSUME KeysAssumption ==
  /\ KeysOf \in [Mods -> SUBSET Keys]
  /\ HotKey \in Keys
  /\ Chord \subseteq Mods
  /\ Actions \cap Keys = {}
  /\ NoAction \notin Actions
  /\ Rules \subseteq Rule
  /\ {MaxInputs, MaxCmds, MaxWire} \subseteq Nat \ {0}

VARIABLES
  physical,    \* the keys the user holds down
  grabbed,     \* Capture::grabbed
  pressed,     \* Capture::pressed: keys seen going down since the grab
  hotkeyDown,  \* Capture::hotkey_down: the chord at the last look without a grab
  inputs,      \* capture events, unread by the router
  cmds,        \* capture commands, unread by the capture thread
  linked,      \* the router knows the client
  remote,      \* Core::state is Remote
  fired,       \* Core::fired
  wire,        \* messages on their way to the client
  held,        \* EnigoSink::held_keys
  astray       \* history: keys whose release the capture thread may keep to itself

captureVars == <<grabbed, pressed, hotkeyDown>>
routerVars == <<linked, remote, fired>>
vars == <<physical, captureVars, inputs, cmds, routerVars, wire, held, astray>>

Hids == Keys \cup Actions
ModKeys == UNION {KeysOf[m] : m \in Mods}

Press == {"down", "repeat"}
KeyEvent == [ev : Press \cup {"up"}, key : Keys, mods : SUBSET Mods]
OtherEvent == [ev : {"hotkey", "pointer", "motion"}]
Msg == [act : Press \cup {"up"}, hids : SUBSET Hids]

Other(e) == [ev |-> e]
Sent(act, hids) == [act |-> act, hids |-> hids]
\* The client releases everything on a Leave.
Leave == Sent("up", Hids)

Init ==
  /\ physical = {} /\ grabbed = FALSE /\ pressed = {} /\ hotkeyDown = FALSE
  /\ inputs = <<>> /\ cmds = <<>>
  /\ linked = TRUE /\ remote = FALSE /\ fired = [k \in Keys |-> NoAction]
  /\ wire = <<>> /\ held = {} /\ astray = {}

----------------------------------------------------------------------------
(* What the client will hold once it has read the wire.                    *)

Presses(m, h) == m.act \in Press /\ h \in m.hids
Releases(m, h) == m.act = "up" /\ h \in m.hids

KeptAfter(h, i) == \A j \in 1..Len(wire) : j > i => ~ Releases(wire[j], h)
WillHold(h) ==
  \/ h \in held /\ KeptAfter(h, 0)
  \/ \E i \in 1..Len(wire) : Presses(wire[i], h) /\ KeptAfter(h, i)

\* The router will hear of k going down, or up.
Coming(k, evs) == \E i \in 1..Len(inputs) : inputs[i].ev \in evs /\ inputs[i].key = k

\* A press of k was acted on, or will be.
Taken(k) == Coming(k, Press) \/ WillHold(k) \/ fired[k] # NoAction

----------------------------------------------------------------------------
(* The user and the capture thread.                                        *)

\* X reports the modifiers held before the key event.
ModsDown == {m \in Mods : KeysOf[m] \cap physical # {}}
ChordKey(k) == k = HotKey /\ Chord \subseteq ModsDown

Report(e) == Len(inputs) < MaxInputs /\ inputs' = Append(inputs, e)
ReportKey(act, k) == Report([ev |-> act, key |-> k, mods |-> ModsDown])

\* Capture::on_key for a press: a held key presses again and again (auto-repeat), and so
\* does the hotkey.
OnKeyPress(k) ==
  IF ChordKey(k)
  THEN Report(Other("hotkey")) /\ UNCHANGED pressed
  ELSE /\ ReportKey(IF k \in pressed THEN "repeat" ELSE "down", k)
       /\ pressed' = pressed \cup {k}

\* Capture::on_key for a release: the hotkey's own is swallowed.
OnKeyRelease(k) ==
  IF ChordKey(k)
  THEN UNCHANGED <<inputs, pressed>>
  ELSE ReportKey("up", k) /\ pressed' = pressed \ {k}

KeyDown(k) ==
  /\ k \notin physical
  /\ physical' = physical \cup {k}
  /\ IF grabbed THEN OnKeyPress(k) ELSE UNCHANGED <<inputs, pressed>>
  /\ UNCHANGED <<grabbed, hotkeyDown, cmds, routerVars, wire, held, astray>>

\* X repeats held keys, modifiers excepted.
AutoRepeat(k) ==
  /\ grabbed /\ k \in physical \ ModKeys
  /\ OnKeyPress(k)
  /\ UNCHANGED <<physical, grabbed, hotkeyDown, cmds, routerVars, wire, held, astray>>

KeyUp(k) ==
  /\ k \in physical
  /\ physical' = physical \ {k}
  /\ IF grabbed THEN OnKeyRelease(k) ELSE UNCHANGED <<inputs, pressed>>
  /\ astray' = IF grabbed /\ ChordKey(k) THEN astray \cup {k} ELSE astray
  /\ UNCHANGED <<grabbed, hotkeyDown, cmds, routerVars, wire, held>>

\* Without a grab the thread looks at the keyboard itself (query_keymap): the chord is
\* reported when it was not down at the last look.
PollHotkey ==
  LET down == HotKey \in physical /\ Chord \subseteq ModsDown
  IN /\ ~ grabbed /\ down # hotkeyDown
     /\ hotkeyDown' = down
     /\ IF down THEN Report(Other("hotkey")) ELSE UNCHANGED inputs
     /\ UNCHANGED <<physical, grabbed, pressed, cmds, routerVars, wire, held, astray>>

\* The pointer's position without a grab, its motion with one.
PointerMoves ==
  /\ Report(Other(IF grabbed THEN "motion" ELSE "pointer"))
  /\ UNCHANGED <<physical, captureVars, cmds, routerVars, wire, held, astray>>

\* Capture::on_cmd: grab (nothing when grabbed) and release.
CaptureObeys ==
  /\ cmds # <<>>
  /\ cmds' = Tail(cmds)
  /\ IF Head(cmds) = "grab"
     THEN /\ grabbed' = TRUE
          /\ pressed' = IF grabbed THEN pressed ELSE {}
          /\ UNCHANGED hotkeyDown
     ELSE grabbed' = FALSE /\ pressed' = {} /\ hotkeyDown' = TRUE
  /\ astray' = IF Head(cmds) = "ungrab" THEN astray \cup {k \in Keys : Taken(k)} ELSE astray
  /\ UNCHANGED <<physical, inputs, routerVars, wire, held>>

----------------------------------------------------------------------------
(* The router.                                                             *)

\* The client lets go of everything: what went astray is over, but for a press still to
\* come and a key that still stands for an action.
Settled == {k \in astray : ~ Coming(k, Press) /\ fired[k] = NoAction}

Command(c) == Len(cmds) < MaxCmds /\ cmds' = Append(cmds, c)

\* Mutant of Forward: to the client although the input is here.
ForwardAlways(msgs) == Len(wire) < MaxWire /\ wire' = IF linked THEN wire \o msgs ELSE wire

\* Core::forward: to the client that has the input, if one has.
Forward(msgs) == Len(wire) < MaxWire /\ wire' = IF remote THEN wire \o msgs ELSE wire

\* Rule::matches; of several rules for one combination, any.
Fits(k, mods) == {r \in Rules : r.key = k /\ r.mods = mods}

\* Mutant of LetGo: the modifiers stay down on the client.
LetGoNothing(r) == Sent("up", {})

\* The keys of the rule's modifiers, left and right.
LetGo(r) == Sent("up", UNION {KeysOf[m] : m \in r.mods})

\* Mutant of StandsForAction: the release is sent as the key's own.
StandsForActionOnce(e) ==
  /\ fired[e.key] # NoAction
  /\ Forward(<<Sent(e.ev, {IF e.ev = "up" THEN e.key ELSE fired[e.key]})>>)
  /\ fired' = IF e.ev = "up" THEN [fired EXCEPT ![e.key] = NoAction] ELSE fired

\* Core::on_key, a key whose press fired a rule.
StandsForAction(e) ==
  /\ fired[e.key] # NoAction
  /\ Forward(<<Sent(e.ev, {fired[e.key]})>>)
  /\ fired' = IF e.ev = "up" THEN [fired EXCEPT ![e.key] = NoAction] ELSE fired

\* Core::on_key, a press that completes a combination while a client has the input.
FiresRule(e) ==
  /\ fired[e.key] = NoAction /\ e.ev = "down" /\ remote
  /\ \E r \in Fits(e.key, e.mods) :
       /\ Forward(<<LetGo(r), Sent("down", {r.action})>>)
       /\ fired' = [fired EXCEPT ![e.key] = r.action]

\* Core::on_key, any other key event.
StandsForItself(e) ==
  /\ fired[e.key] = NoAction
  /\ e.ev # "down" \/ ~ remote \/ Fits(e.key, e.mods) = {}
  /\ Forward(<<Sent(e.ev, {e.key})>>)
  /\ UNCHANGED fired

HandleKey ==
  /\ inputs # <<>> /\ Head(inputs).ev \in Press \cup {"up"}
  /\ inputs' = Tail(inputs)
  /\ \/ StandsForAction(Head(inputs))
     \/ FiresRule(Head(inputs))
     \/ StandsForItself(Head(inputs))
  /\ UNCHANGED <<physical, captureVars, cmds, linked, remote, held, astray>>

\* Core::enter.
Enter == linked /\ remote' = TRUE /\ Command("grab") /\ UNCHANGED <<wire, astray>>

\* Core::go_local.
GoLocal ==
  /\ remote' = FALSE
  /\ Command("ungrab")
  /\ Len(wire) < MaxWire /\ wire' = Append(wire, Leave)
  /\ astray' = astray \ Settled

\* Core::on_hotkey, on_motion and on_pointer, as far as the input changes hands.
HandleOther ==
  /\ inputs # <<>>
  /\ inputs' = Tail(inputs)
  /\ \/ remote /\ Head(inputs).ev \in {"hotkey", "motion"} /\ GoLocal
     \/ ~ remote /\ Head(inputs).ev \in {"hotkey", "pointer"} /\ Enter
     \/ /\ \/ Head(inputs).ev \in {"motion", "pointer"}
           \/ Head(inputs).ev = "hotkey" /\ ~ remote /\ ~ linked
        /\ UNCHANGED <<remote, cmds, wire, astray>>
  /\ UNCHANGED <<physical, captureVars, linked, fired, held>>

----------------------------------------------------------------------------
(* The client.                                                             *)

\* EnigoSink::key and EnigoSink::leave.
ClientReads ==
  /\ wire # <<>>
  /\ wire' = Tail(wire)
  /\ held' = IF Head(wire).act = "up" THEN held \ Head(wire).hids ELSE held \cup Head(wire).hids
  /\ UNCHANGED <<physical, captureVars, inputs, cmds, routerVars, astray>>

\* The client goes: its sink lets go of everything, and the router takes the input back
\* (Core::client_disconnected).
ClientGone ==
  /\ linked
  /\ linked' = FALSE
  /\ remote' = FALSE
  /\ IF remote THEN Command("ungrab") ELSE UNCHANGED cmds
  /\ wire' = <<>> /\ held' = {}
  /\ astray' = astray \ Settled
  /\ UNCHANGED <<physical, captureVars, inputs, fired>>

ClientBack ==
  /\ ~ linked
  /\ linked' = TRUE
  /\ UNCHANGED <<physical, captureVars, inputs, cmds, remote, fired, wire, held, astray>>

----------------------------------------------------------------------------

UserStep ==
  \/ \E k \in Keys : KeyDown(k) \/ KeyUp(k) \/ AutoRepeat(k)
  \/ PointerMoves

RouterStep == HandleKey \/ HandleOther

Next ==
  \/ UserStep
  \/ PollHotkey \/ CaptureObeys
  \/ RouterStep
  \/ ClientReads \/ ClientGone \/ ClientBack

Spec == Init /\ [][Next]_vars

----------------------------------------------------------------------------
(* Properties.                                                             *)

\* Every variable keeps its type.
TypeOK ==
  /\ physical \in SUBSET Keys
  /\ grabbed \in BOOLEAN
  /\ pressed \in SUBSET Keys
  /\ hotkeyDown \in BOOLEAN
  /\ inputs \in Seq(KeyEvent \cup OtherEvent)
  /\ cmds \in Seq({"grab", "ungrab"})
  /\ linked \in BOOLEAN
  /\ remote \in BOOLEAN
  /\ fired \in [Keys -> Actions \cup {NoAction}]
  /\ wire \in Seq(Msg)
  /\ held \in SUBSET Hids
  /\ astray \in SUBSET Keys

\* PROTOCOL.md on Leave: "The client releases all held keys/buttons".  While the input
\* is here the client holds nothing once it has read what was sent: go_local's Leave is
\* the last word, whatever key events were still queued behind the switch.
NothingLeftDown == ~ remote => \A h \in Hids : ~ WillHold(h)

\* The key is down, or its release is on its way to the router, or it went astray.
Accounted(k) == k \in physical \cup astray \/ Coming(k, {"up"})

\* No stuck key: what the client holds goes back to a key the user still holds down, or
\* to an action such a key stands for.  The exceptions, `astray`, are the hotkey's key
\* let go of with the chord held, which is swallowed, and a key pressed in a grab that
\* ended, when the router had taken the input back again before it read the press.
HeldIsAccounted ==
  /\ \A k \in Keys : WillHold(k) => Accounted(k)
  /\ \A a \in Actions : WillHold(a) => \E k \in Keys : fired[k] = a /\ Accounted(k)

\* When a combination fires, the client will hold the action and none of the
\* combination's modifiers (on_key lets go of them, left and right, first).
FiresAlone ==
  [][\A k \in Keys, a \in Actions : fired[k] = NoAction /\ fired'[k] = a =>
       /\ WillHold(a)'
       /\ \A m \in Head(inputs).mods : \A h \in KeysOf[m] : ~ WillHold(h)']_vars

\* router.rs on `fired`: "the action each one stands for until released".
FiredUntilReleased ==
  \A k \in Keys : fired[k] # NoAction => k \in physical \/ Coming(k, {"up"})
=============================================================================
