----------------------------- MODULE InputForms -----------------------------
(***************************************************************************)
(* What a key, a button, a turn of the wheel and a move become on their    *)
(* way: from the X server's event to the protocol's (geserdesk-platform    *)
(* x11.rs), and from there to what the client's system is told             *)
(* (geserdesk-client inject.rs).  Pure operators; KeyForwarding and        *)
(* WindowsCapture have the order in which it happens.                      *)
(*                                                                         *)
(* A keysym is a letter, another character, a key of the keypad, or one    *)
(* that types nothing.  A Windows layout is a function from a virtual key  *)
(* and the modifiers held to a character.                                  *)
(***************************************************************************)
EXTENDS Integers, Sequences, FiniteSets

LOCAL INSTANCE SequencesExt
LOCAL INSTANCE FiniteSetsExt

CONSTANT NoChar   \* types nothing, or there is no key

-----------------------------------------------------------------------------
(* The server's keyboard, X11.  A state is a set of modifier bits.         *)

NoSym == [is |-> "none", ch |-> NoChar]
SymAt(km, code, i) == IF i < km.levels THEN km.syms[code][i + 1] ELSE NoSym

One(b) == IF b THEN 1 ELSE 0

\* Which symbol of the key counts: the keypad goes by Num Lock, letters by Caps Lock.
Level(km, base, state) ==
  LET shifted == "shift" \in state IN
  CASE base.is = "keypad" -> One(("mod2" \in state) # shifted)
    [] base.is # "keypad" /\ "mod5" \in state /\ km.levels >= 6 -> 4 + One(shifted)
    [] base.is = "letter" /\ ("mod5" \notin state \/ km.levels < 6) -> One(shifted # ("lock" \in state))
    [] OTHER -> One(shifted)

\* The character reported with a key event; a level without a symbol falls back to the first.
CharFor(km, code, state) ==
  LET base == SymAt(km, code, 0)
      sym == SymAt(km, code, Level(km, base, state))
  IN (IF sym = NoSym THEN base ELSE sym).ch

\* mods_from_state.
ModName == [shift |-> "SHIFT", lock |-> "CAPS_LOCK", control |-> "CONTROL", mod1 |-> "ALT",
            mod2 |-> "NUM_LOCK", mod4 |-> "SUPER", mod5 |-> "ALT_GR"]
ModsFromState(state) == {ModName[bit] : bit \in state}

-----------------------------------------------------------------------------
(* Keys at the client.                                                     *)

Browser == {"browser_search", "browser_home", "browser_back", "browser_forward",
            "browser_stop", "browser_refresh", "browser_favorites"}
Extras == {"mute", "volume_up", "volume_down", "mic_mute", "play_pause", "next_track",
           "previous_track", "stop", "brightness_up", "brightness_down", "mail",
           "calculator", "explorer", "browser"} \cup Browser

\* named_key, for the special keys.
Named(system) ==
  {"mute", "volume_down", "volume_up", "play_pause", "next_track", "previous_track", "stop",
   "mail", "explorer", "calculator"} \cup Browser
  \cup (IF system = "x11" THEN {"brightness_up", "brightness_down", "mic_mute", "browser"} ELSE {})

\* named_key, for the modifiers: AltGr is pressed as Alt, the right Windows key as the left.
Modifier == [lshift |-> "shift", rshift |-> "shift", lctrl |-> "ctrl", rctrl |-> "ctrl",
             lalt |-> "alt", ralt |-> "alt", lmeta |-> "meta", rmeta |-> "meta"]

HasBuiltIn(system, extra) ==
  system = "windows" => extra \notin {"brightness_up", "brightness_down", "mic_mute", "browser"}

\* keys.toml of the client: another action goes one step and no further.
Resolve(perform, hid) ==
  IF hid \in Extras /\ hid \in DOMAIN perform
  THEN IF perform[hid].do = "action" THEN [do |-> "key", to |-> perform[hid].to] ELSE perform[hid]
  ELSE [do |-> "key", to |-> hid]

\* VkKeyScanExW: a key and the modifiers it needs for this character, the fewest.
Lookup(layout, c) ==
  LET ways == {way \in DOMAIN layout : layout[way] = c}
  IN {way \in ways : \A other \in ways : Cardinality(way[2]) <= Cardinality(other[2])}
TextOnly(layout, c) == Lookup(layout, c) = {}

\* os_key, and what enigo makes of a character: without os_key one that needs a modifier
\* becomes an invalid key.
OsKey(layout, c) ==
  IF TextOnly(layout, c) THEN [is |-> "text", ch |-> c]
  ELSE [is |-> "vk", vk |-> (CHOOSE way \in Lookup(layout, c) : TRUE)[1]]

\* EnigoSink::key on a press on Windows: what is pressed, if anything.
PressOf(perform, layout, hid, c) ==
  LET r == Resolve(perform, hid)
      nothing == [is |-> "nothing"]
  IN CASE r.do \in {"ignore", "keysym"} -> nothing
       [] r.do = "vk" -> [is |-> "vk", vk |-> r.to]
       [] r.do = "key" /\ r.to \in Named("windows") \cup DOMAIN Modifier -> [is |-> "named", key |-> r.to]
       [] r.do = "key" /\ r.to \notin Named("windows") \cup DOMAIN Modifier ->
            IF c = NoChar THEN nothing ELSE OsKey(layout, c)

\* What Windows types for it, with these modifiers and Caps Lock as they are there.
Typed(layout, letters, down, caps, press) ==
  LET mods == IF caps /\ press.vk \in letters /\ down \subseteq {"shift"} THEN {"shift"} \ down ELSE down
  IN IF press.is = "text" THEN press.ch
     ELSE IF press.is = "vk" /\ <<press.vk, mods>> \in DOMAIN layout THEN layout[press.vk, mods]
     ELSE NoChar

\* The modifiers the client's system has down while the server's are in this state.
DownThere(state) ==
  (IF "shift" \in state THEN {Modifier.lshift} ELSE {})
  \cup (IF "control" \in state THEN {Modifier.lctrl} ELSE {})
  \cup (IF "mod1" \in state THEN {Modifier.lalt} ELSE {})
  \cup (IF "mod5" \in state THEN {Modifier.ralt} ELSE {})

\* A character key of an X11 server pressed in this state, at a Windows client.
Arrives(km, code, state, layout, letters, caps) ==
  LET press == PressOf(<<>>, layout, code, CharFor(km, code, state))
  IN IF press.is \in {"nothing", "named"} THEN NoChar
     ELSE Typed(layout, letters, DownThere(state), caps, press)

-----------------------------------------------------------------------------
(* Buttons and the wheel.                                                  *)

Btn(name) == [is |-> name, n |-> 0]
Extra(n) == [is |-> "extra", n |-> n]
NamedButtons == <<"left", "middle", "right", "back", "forward">>

\* Capture::on_button: four of X's buttons are the wheel, one notch a press.
WheelDelta == <<[dx |-> 0, dy |-> 120], [dx |-> 0, dy |-> -120],
                [dx |-> -120, dy |-> 0], [dx |-> 120, dy |-> 0]>>
IsWheel(detail) == detail \in 4..7
ButtonOf(detail) ==
  IF detail <= 3 THEN Btn(NamedButtons[detail])
  ELSE IF detail \in {8, 9} THEN Btn(NamedButtons[detail - 4])
  ELSE Extra(IF detail < 9 THEN 0 ELSE detail - 9)

\* encode_button, decode_button: a byte, saturating.
EncodeButton(b) ==
  IF b.is = "extra" THEN IF b.n > 245 THEN 255 ELSE 10 + b.n
  ELSE (CHOOSE i \in DOMAIN NamedButtons : NamedButtons[i] = b.is) - 1
DecodeButton(code) ==
  IF code < 5 THEN Btn(NamedButtons[code + 1]) ELSE Extra(IF code < 10 THEN 0 ELSE code - 10)

\* map_button: the system has no further buttons.
MapButton(b) == IF b.is = "extra" THEN "left" ELSE b.is

\* EnigoSink::mouse and leave, for buttons: what the sink holds, what the system has down.
NoButtons == [held |-> {}, down |-> {}]
SinkButton(s, ev) ==
  IF ev.down
  THEN [held |-> s.held \cup {EncodeButton(ev.button)}, down |-> s.down \cup {MapButton(ev.button)}]
  ELSE [held |-> s.held \ {EncodeButton(ev.button)}, down |-> s.down \ {MapButton(ev.button)}]
SinkButtonsLeave(s) ==
  [held |-> {}, down |-> s.down \ {MapButton(DecodeButton(code)) : code \in s.held}]
AfterEvents(evs) == FoldLeft(SinkButton, NoButtons, evs)

\* Rust's division drops the fraction; a delta below a notch counts as one.
Sign(d) == IF d < 0 THEN -1 ELSE One(d > 0)
Abs(d) == IF d < 0 THEN -d ELSE d
Notches(delta) ==
  IF Abs(delta) < 120 THEN Sign(delta) ELSE Sign(delta) * (Abs(delta) \div 120)

\* EnigoSink::mouse, for the wheel: notches to the right, and down.
Scrolled(ev) == [right |-> Notches(ev.dx), down |-> -Notches(ev.dy)]

-----------------------------------------------------------------------------
(* Moves on a Windows client: win::move_virtual.  d is the virtual desktop.  *)

Inside(v, size) == IF v < 0 THEN 0 ELSE IF v >= size THEN size - 1 ELSE v
Norm(p, size) == (p * 65536 + size - 1) \div size

\* The moves it asks for: absolute in 65536ths, or relative; none without a desktop.
MoveVirtual(d, x, y) ==
  LET cx == Inside(x - d.x, d.w)
      cy == Inside(y - d.y, d.h)
      Absolute(px) == [abs |-> TRUE, x |-> Norm(px, d.w), y |-> Norm(cy, d.h)]
  IN IF d.w < 2 \/ d.h < 2 THEN <<>>
     ELSE IF cx = d.w - 1 THEN <<Absolute(cx - 1), [abs |-> FALSE, x |-> 8, y |-> 0]>>
     ELSE <<Absolute(cx)>>

\* What Windows does with one: an absolute move onto the last column is dropped.
WindowsMoves(d, at, move) ==
  LET to == [x |-> (move.x * d.w) \div 65536, y |-> (move.y * d.h) \div 65536] IN
  IF move.abs THEN IF to.x = d.w - 1 THEN at ELSE to
  ELSE [x |-> Inside(at.x + move.x, d.w), y |-> Inside(at.y + move.y, d.h)]
Lands(d, at, x, y) == FoldLeft(LAMBDA p, move : WindowsMoves(d, p, move), at, MoveVirtual(d, x, y))
=============================================================================
