--------------------------- MODULE WindowsCapture ---------------------------
(***************************************************************************)
(* Keys and buttons from the hands of the person at a Windows server to    *)
(* the client's injected input: the low-level hooks and the capture thread *)
(* (geserdesk-platform windows.rs), the router as far as it hands the      *)
(* input over (router.rs), and the client's sink (geserdesk-client         *)
(* inject.rs).                                                             *)
(*                                                                         *)
(* The hooks run in the capture thread's message loop, so a hook call is   *)
(* one step; between two of them the thread may obey a command.  An event  *)
(* waits in a channel for the router; what the router sends is read by the *)
(* client in order and nothing else changes the sink, so the two are one   *)
(* step.  Windows repeats the key pressed last, and AltGr comes with a     *)
(* made-up Ctrl (Unreported) that goes down before it and up after.        *)
(*                                                                         *)
(* Left out: positions (PointerPath), lock keys, the rules that replace    *)
(* keys (KeyForwarding).                                                   *)
(***************************************************************************)
EXTENDS Integers, Sequences, FiniteSets

CONSTANTS
  Keys, Buttons,
  Mods,        \* the modifier keys
  Shift,       \* the Shift keys
  Chord,       \* of each of these sets of modifiers the hotkey needs one
  HotKey,      \* Home
  MadeUp,      \* the Ctrl that comes with AltGr
  AltGr,
  LCtrl,       \* the key MadeUp is mistaken for
  Unmapped,    \* the keys with no HID usage
  Types,       \* per key, without and with Shift: the key the client presses for it, if any
  None,
  Hands,       \* bound: per behaviour, the keys and buttons used, hook calls skipped, commands waiting
  MaxInputs, MaxCmds   \* bounds: events waiting, commands waiting at most

Things == Keys \cup Buttons
OsKeys == ((UNION {{Types[k][s] : s \in BOOLEAN} : k \in Keys}) \ {None}) \cup Buttons

ASSUME WindowsAssumption ==
  /\ Mods \subseteq Keys /\ Shift \subseteq Mods /\ Chord \subseteq SUBSET Mods
  /\ {HotKey, MadeUp, AltGr, LCtrl} \cup Unmapped \subseteq Keys
  /\ AltGr \in Mods /\ LCtrl \in Mods
  /\ {MadeUp, HotKey} \cap (Mods \cup Unmapped) = {} /\ MadeUp # HotKey
  /\ None \notin Things
  /\ Hands \subseteq [uses : SUBSET Things, skips : Nat, cmds : 0..MaxCmds]
  /\ {MaxInputs, MaxCmds} \subseteq Nat

VARIABLES
  hand,       \* what this behaviour's person may press
  phys,       \* what is down in truth
  repeating,  \* the key that repeats
  desk,       \* what this desktop's programs take to be down
  grabbed, swallowed, hotkeyDown, modsHeld,   \* HookState: grabbed, keys and buttons, hotkey_down, held
  cmds, thread,        \* commands to the thread; it is up, left by the server, or gone
  inputs,              \* events to the router
  remote,              \* a client has the input
  pressed, osDown,     \* the sink: what it holds for each key, and what the client's system has down
  skips,
  stolen,     \* history: keys down on this desktop that the hook saw go down again, or not at all
  misled,     \* history: modifiers, and the hotkey's key, of which the hook was last told wrong
  astray      \* history: keys whose release will not be reported to the client

hook == <<grabbed, swallowed, hotkeyDown, modsHeld>>
sink == <<pressed, osDown>>
vars == <<hand, phys, repeating, desk, hook, cmds, thread, inputs, remote, sink,
          skips, stolen, misled, astray>>

Unreported == Unmapped \cup {MadeUp}
Key(k, act, os) == [ev |-> "key", key |-> k, act |-> act, os |-> os]
Other(ev) == [ev |-> ev]

Init ==
  /\ hand \in Hands
  /\ phys = {} /\ repeating = None /\ desk = {}
  /\ grabbed = FALSE /\ swallowed = {} /\ hotkeyDown = FALSE /\ modsHeld = {}
  /\ cmds = <<>> /\ thread = "up" /\ inputs = <<>> /\ remote = FALSE
  /\ pressed = [k \in Things |-> None] /\ osDown = {}
  /\ skips = 0 /\ stolen = {} /\ misled = {} /\ astray = {}

(* A send to a router that is gone is ignored. *)
Hear(e) == IF thread = "up" THEN Len(inputs) < MaxInputs /\ inputs' = Append(inputs, e)
           ELSE UNCHANGED inputs
Coming(k, acts) ==
  \E i \in 1..Len(inputs) : inputs[i].ev = "key" /\ inputs[i].key = k /\ inputs[i].act \in acts
Taken(k) == pressed[k] # None \/ Coming(k, {"down", "repeat"})

-----------------------------------------------------------------------------
(* HookState::on_key and button: the four ways a hook call goes. *)

(* A key event changes what is held before anything else is asked. *)
TrackedUnseen(k, down) == IF grabbed THEN modsHeld
                          ELSE IF down THEN modsHeld \cup ({k} \cap Mods) ELSE modsHeld \ {k}
Tracked(k, down) == IF down THEN modsHeld \cup ({k} \cap Mods) ELSE modsHeld \ {k}
ChordHeld == \A side \in Chord : side \cap modsHeld # {}

(* ctrl_and_alt_held with the hotkey's key: told once, its repeats swallowed. *)
IsHotkey(k, down) == k = HotKey /\ down /\ ChordHeld
(* The rest of a hotkey already told. *)
EndsHotkey(k, down) == k = HotKey /\ ~ IsHotkey(k, down) /\ hotkeyDown

(* Mutant of Passes: whatever comes under a grab is swallowed. *)
PassesNever(k, down) == ~ grabbed
(* Not grabbed, or a release whose press was before the grab. *)
Passes(k, down) == ~ grabbed \/ (~ down /\ k \notin swallowed \cup Unreported)

(* char_for: a printable key is reported with the character it types. *)
Char(k) == IF k \in Keys THEN Types[k][modsHeld' \cap Shift # {}] ELSE k

OnHotkey(k, down) ==
  /\ IsHotkey(k, down)
  /\ IF hotkeyDown THEN UNCHANGED inputs ELSE Hear(Other("hotkey"))
  /\ hotkeyDown' = TRUE
  /\ UNCHANGED <<swallowed, desk>>

OnHotkeysEnd(k, down) ==
  /\ EndsHotkey(k, down)
  /\ hotkeyDown' = down
  /\ UNCHANGED <<swallowed, desk, inputs>>

LeftAlone(k, down) ==
  /\ ~ IsHotkey(k, down) /\ ~ EndsHotkey(k, down) /\ Passes(k, down)
  /\ desk' = IF down THEN desk \cup {k} ELSE desk \ {k}
  /\ UNCHANGED <<swallowed, hotkeyDown, inputs>>

Swallow(k, down) ==
  /\ ~ IsHotkey(k, down) /\ ~ EndsHotkey(k, down) /\ ~ Passes(k, down)
  /\ IF k \in Unreported
       THEN UNCHANGED <<swallowed, inputs>>
       ELSE /\ swallowed' = IF down THEN swallowed \cup {k} ELSE swallowed \ {k}
            /\ Hear(Key(k, IF ~ down THEN "up" ELSE IF k \in swallowed THEN "repeat" ELSE "down",
                        Char(k)))
  /\ UNCHANGED <<hotkeyDown, desk>>

(* keyboard_proc and mouse_proc: the hook is asked about every event. *)
Hooked(k, down) ==
  /\ thread # "gone"
  /\ misled' = misled \ {k}
  /\ modsHeld' = Tracked(k, down)
  /\ \/ OnHotkey(k, down) \/ OnHotkeysEnd(k, down) \/ LeftAlone(k, down) \/ Swallow(k, down)
  /\ UNCHANGED <<grabbed, skips>>

(* A hook that answers too late is skipped, and none is asked once the thread is gone: the *)
(* event goes to this desktop.                                                             *)
Skipped(k, down) ==
  /\ IF thread = "gone" THEN UNCHANGED skips ELSE skips < hand.skips /\ skips' = skips + 1
  /\ desk' = IF down THEN desk \cup {k} ELSE desk \ {k}
  /\ misled' = misled \cup ({k} \cap (Mods \cup {HotKey}))
  /\ UNCHANGED <<hook, inputs>>

Event(k, down) ==
  /\ Hooked(k, down) \/ Skipped(k, down)
  /\ stolen' = (IF down /\ (k \in desk \/ skips' # skips) THEN stolen \cup {k} ELSE stolen) \cap desk'
  /\ astray' = IF ~ down /\ Taken(k) /\ inputs' = inputs THEN astray \cup {k} ELSE astray
  /\ UNCHANGED <<hand, cmds, thread, remote, sink>>

(* The made-up Ctrl is down around AltGr. *)
Press(k) ==
  /\ k \in hand.uses \ phys
  /\ k = MadeUp => AltGr \notin phys
  /\ k = AltGr => MadeUp \in phys
  /\ phys' = phys \cup {k}
  /\ repeating' = IF k \in Keys THEN k ELSE repeating
  /\ Event(k, TRUE)

Release(k) ==
  /\ k \in phys
  /\ k = MadeUp => AltGr \notin phys
  /\ phys' = phys \ {k}
  /\ repeating' = IF repeating = k THEN None ELSE repeating
  /\ Event(k, FALSE)

AutoRepeat ==
  /\ repeating # None
  /\ UNCHANGED <<phys, repeating>>
  /\ Event(repeating, TRUE)

(* The pointer is reported while this machine has it, its motion under the grab. *)
PointerMoves ==
  /\ thread = "up"
  /\ Hear(Other(IF grabbed THEN "motion" ELSE "pointer"))
  /\ UNCHANGED <<hand, phys, repeating, desk, hook, cmds, thread, remote, sink,
                 skips, stolen, misled, astray>>

-----------------------------------------------------------------------------
(* The capture thread. *)

(* What Windows says is held: what this desktop saw, the made-up Ctrl as the real one. *)
SystemMods == (desk \cap Mods) \cup (IF MadeUp \in desk THEN {LCtrl} ELSE {})

(* resync; Windows is wrong about what a grab swallowed and about the made-up Ctrl. *)
ReadBack ==
  /\ modsHeld' = SystemMods
  /\ misled' = (misled \cap {HotKey}) \cup {m \in Mods : (m \in SystemMods) # (m \in phys)}

Resync ==
  /\ thread # "gone" /\ ~ grabbed /\ modsHeld # SystemMods
  /\ ReadBack
  /\ UNCHANGED <<hand, phys, repeating, desk, grabbed, swallowed, hotkeyDown, cmds, thread,
                 inputs, remote, sink, skips, stolen, astray>>

(* grab, unless grabbed; it fails when the cursor cannot be moved (a secure desktop). *)
Grab ==
  /\ cmds # <<>> /\ Head(cmds) = "grab"
  /\ cmds' = Tail(cmds)
  /\ IF grabbed
       THEN UNCHANGED <<hook, misled, inputs>>
       ELSE /\ ReadBack
            /\ \/ grabbed' = TRUE /\ swallowed' = {} /\ UNCHANGED inputs
               \/ Hear(Other("failed")) /\ UNCHANGED <<grabbed, swallowed>>
            /\ UNCHANGED hotkeyDown
  /\ UNCHANGED <<hand, phys, repeating, desk, thread, remote, sink, skips, stolen, astray>>

LetGo ==
  /\ grabbed' = FALSE /\ swallowed' = {}
  /\ astray' = astray \cup {k \in Things : Taken(k)}
  /\ UNCHANGED <<hotkeyDown, modsHeld>>

(* release *)
Ungrab ==
  /\ cmds # <<>> /\ Head(cmds) = "ungrab"
  /\ cmds' = Tail(cmds)
  /\ LetGo
  /\ UNCHANGED <<hand, phys, repeating, desk, thread, inputs, remote, sink, skips, stolen, misled>>

(* The handle is dropped: the thread gives the devices back and ends. *)
ThreadEnds ==
  /\ thread = "left" /\ cmds = <<>>
  /\ thread' = "gone"
  /\ LetGo
  /\ UNCHANGED <<hand, phys, repeating, desk, cmds, inputs, remote, sink, skips,
                 stolen, misled>>

-----------------------------------------------------------------------------
(* The router, and the client's sink. *)

(* EnigoSink::key and mouse: a release lifts what the press put down. *)
SinkReleasesTyped(e) ==
  IF e.act # "up" THEN LET o == IF pressed[e.key] = None THEN e.os ELSE pressed[e.key] IN
    pressed' = [pressed EXCEPT ![e.key] = o] /\ osDown' = osDown \cup ({o} \ {None})
  ELSE pressed' = [pressed EXCEPT ![e.key] = None] /\ osDown' = osDown \ {e.os}
SinkKey(e) ==
  LET o == IF pressed[e.key] = None THEN e.os ELSE pressed[e.key] IN
  IF e.act # "up"
    THEN /\ pressed' = [pressed EXCEPT ![e.key] = o]
         /\ osDown' = osDown \cup ({o} \ {None})
    ELSE /\ pressed' = [pressed EXCEPT ![e.key] = None]
         /\ osDown' = osDown \ {pressed[e.key]}

(* EnigoSink::leave *)
SinkLeave ==
  /\ pressed' = [k \in Things |-> None]
  /\ osDown' = osDown \ {pressed[k] : k \in Things}
  /\ astray' = {k \in astray : Coming(k, {"down", "repeat"})}

Command(c) == Len(cmds) < hand.cmds /\ cmds' = Append(cmds, c)

(* Core::enter, go_local, on_grab_failed; a client that reads Enter holds nothing. *)
Enter == remote' = TRUE /\ Command("grab") /\ UNCHANGED <<sink, astray>>
GoLocal == remote' = FALSE /\ Command("ungrab") /\ SinkLeave
GrabFailed == remote' = FALSE /\ SinkLeave /\ UNCHANGED cmds
Ignored == UNCHANGED <<remote, cmds, sink, astray>>

(* Core::handle, with an edge to cross or not where the pointer is. *)
Route ==
  /\ thread = "up" /\ inputs # <<>>
  /\ inputs' = Tail(inputs)
  /\ LET e == Head(inputs) IN
     \/ e.ev = "key" /\ remote /\ SinkKey(e) /\ UNCHANGED <<remote, cmds, astray>>
     \/ e.ev = "key" /\ ~ remote /\ Ignored
     \/ e.ev = "hotkey" /\ IF remote THEN GoLocal ELSE Enter
     \/ e.ev = "motion" /\ remote /\ GoLocal
     \/ e.ev = "pointer" /\ ~ remote /\ Enter
     \/ e.ev = "failed" /\ remote /\ GrabFailed
     \/ e.ev \in {"motion", "pointer"} /\ Ignored
     \/ e.ev = "failed" /\ ~ remote /\ Ignored
  /\ UNCHANGED <<hand, phys, repeating, desk, hook, thread, skips, stolen, misled>>

(* The server stops: its handle is dropped, and its clients let go as it disconnects. *)
Stop ==
  /\ thread = "up"
  /\ thread' = "left" /\ remote' = FALSE /\ inputs' = <<>>
  /\ pressed' = [k \in Things |-> None]
  /\ osDown' = osDown \ {pressed[k] : k \in Things}
  /\ astray' = {}
  /\ UNCHANGED <<hand, phys, repeating, desk, hook, cmds, skips, stolen, misled>>

Next ==
  \/ \E k \in Things : Press(k) \/ Release(k)
  \/ AutoRepeat \/ PointerMoves
  \/ Resync \/ Grab \/ Ungrab \/ ThreadEnds
  \/ Route \/ Stop

Spec == Init /\ [][Next]_vars

-----------------------------------------------------------------------------
(* What each variable can hold (HookState, EnigoSink). *)
TypeOK ==
  /\ hand \in Hands /\ phys \subseteq hand.uses /\ repeating \in Keys \cup {None}
  /\ {desk, swallowed, stolen, astray} \subseteq SUBSET Things
  /\ modsHeld \subseteq Mods /\ misled \subseteq Mods \cup {HotKey}
  /\ {grabbed, hotkeyDown, remote} \subseteq BOOLEAN
  /\ thread \in {"up", "left", "gone"}
  /\ cmds \in Seq({"grab", "ungrab"}) /\ Len(cmds) <= MaxCmds /\ Len(inputs) <= MaxInputs
  /\ \A i \in 1..Len(inputs) : inputs[i].ev \in {"key", "hotkey", "pointer", "motion", "failed"}
  /\ pressed \in [Things -> OsKeys \cup {None}] /\ osDown \subseteq OsKeys
  /\ skips \in 0..hand.skips

(* "the release must reach the local desktop or its button would stay down" (button): what *)
(* this desktop takes to be down is down.  Not so for a key whose repeat a grab took for a *)
(* press, nor for the keys a grab swallows whichever way they go.                          *)
NothingStuckHere == desk \subseteq phys \cup stolen \cup Unreported

(* "A release of any other key began before the grab and belongs to the local desktop"     *)
(* (HookState.keys), whatever is pressed when the grab comes.                              *)
NothingStuck == skips = 0 => desk \subseteq phys

(* The client's system has down only what the sink holds for a key, and the sink only what *)
(* is held in truth, or is about to be let go of (EnigoSink.held_keys).                    *)
NothingStuckThere ==
  /\ osDown \subseteq {pressed[k] : k \in Things}
  /\ ~ remote => osDown = {}
  /\ \A k \in Things : pressed[k] # None => k \in phys \cup astray \/ Coming(k, {"up"})

(* The letter of the hotkey goes down; the hotkey is told; its chord is held in truth. *)
Asked == phys' # phys /\ HotKey \in phys' \ phys /\ skips' = skips
Told == Len(inputs') > Len(inputs) /\ inputs'[Len(inputs')].ev = "hotkey"
InTruth == \A side \in Chord : side \cap phys # {}

(* The hotkey is told when a Ctrl and an Alt are held in truth, and then it is, under a     *)
(* grab or not and whatever hook calls were skipped before: unless what the hook was last  *)
(* told of one of its keys is wrong, because that event's call was skipped or Windows      *)
(* itself, read back, did not know (held, hotkey_down, resync).                            *)
HotkeyIsTheChord ==
  [][ Asked /\ misled \cap ({HotKey} \cup UNION Chord) = {} /\ thread = "up"
        => (Told <=> InTruth) ]_vars

(* "The hotkey works in both modes" (on_key). *)
HotkeyWorks ==
  [][ Asked /\ skips = 0 /\ ~ hotkeyDown /\ MadeUp \notin hand.uses /\ thread = "up" => (InTruth => Told) ]_vars
=============================================================================
