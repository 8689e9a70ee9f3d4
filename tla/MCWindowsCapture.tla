-------------------------- MODULE MCWindowsCapture --------------------------
(***************************************************************************)
(* Small instances of WindowsCapture: the chord with a letter, a letter    *)
(* with Shift and a button, AltGr with its made-up Ctrl, a key without a   *)
(* HID usage.  And what InputForms says of the keys, buttons and moves     *)
(* themselves, checked over small keyboards.                               *)
(***************************************************************************)
EXTENDS WindowsCapture, InputForms, TLC

CONSTANTS home, lctrl, alt, altgr, madeup, shift, letter, fn, left,
          Big, Small, Alt, Ctrl, Home, ShiftKey

Same(o) == [s \in BOOLEAN |-> o]
KeyTable ==
  [k \in {home, lctrl, alt, altgr, madeup, shift, letter, fn} |->
     CASE k = letter -> [s \in BOOLEAN |-> IF s THEN Big ELSE Small]
       [] k = home -> Same(Home)
       [] k = lctrl -> Same(Ctrl)
       [] k \in {alt, altgr} -> Same(Alt)
       [] k = shift -> Same(ShiftKey)
       [] OTHER -> Same(None)]
CtrlAndAlt == {{lctrl}, {alt, altgr}}
Uses(things, late, waiting) == [uses |-> things, skips |-> late, cmds |-> waiting]
Persons ==
  {Uses({home, lctrl, alt}, 0, 2), Uses({home, lctrl, alt}, 1, 1), Uses({shift, letter}, 1, 2),
   Uses({fn, left}, 1, 2), Uses({altgr, madeup, home}, 0, 2), Uses({alt, altgr, madeup}, 0, 2)}

-----------------------------------------------------------------------------
(* A German keyboard on the X11 server (Q, Z, 7, a dead accent), the same on a Windows    *)
(* client, and a US one.                                                                  *)

Sym(kind, ch) == [is |-> kind, ch |-> ch]
German ==
  [levels |-> 6,
   syms |-> [q |-> <<Sym("letter", "q"), Sym("letter", "Q"), NoSym, NoSym, Sym("char", "@"), NoSym>>,
             z |-> <<Sym("letter", "z"), Sym("letter", "Z"), NoSym, NoSym, NoSym, NoSym>>,
             seven |-> <<Sym("char", "7"), Sym("char", "/"), NoSym, NoSym, Sym("char", "{"), NoSym>>,
             kp7 |-> <<Sym("keypad", NoChar), Sym("keypad", "7"), NoSym, NoSym, NoSym, NoSym>>,
             accent |-> <<Sym("dead", NoChar), Sym("dead", NoChar), NoSym, NoSym, NoSym, NoSym>>]]
Plain == {}
Sh == {"shift"}
GermanThere ==
  <<"VK_Q", Plain>> :> "q" @@ <<"VK_Q", Sh>> :> "Q" @@ <<"VK_Q", {"ctrl", "alt"}>> :> "@"
  @@ <<"VK_Z", Plain>> :> "z" @@ <<"VK_Z", Sh>> :> "Z"
  @@ <<"VK_7", Plain>> :> "7" @@ <<"VK_7", Sh>> :> "/" @@ <<"VK_7", {"ctrl", "alt"}>> :> "{"
USThere ==
  <<"VK_Q", Plain>> :> "q" @@ <<"VK_Q", Sh>> :> "Q" @@ <<"VK_Z", Plain>> :> "z" @@ <<"VK_Z", Sh>> :> "Z"
  @@ <<"VK_7", Plain>> :> "7" @@ <<"VK_2", Sh>> :> "@" @@ <<"VK_OEM_2", Plain>> :> "/"
NoneThere == <<"VK_A", Plain>> :> "greek"
Letters == {"VK_Q", "VK_Z"}
CharKeys == {"q", "z", "seven", "accent"}

\* With the same layout and Caps Lock alike on both sides, a key types at the client what it
\* types at the server, plain, with Shift and with Caps Lock ("the server sends Shift as a
\* key of its own, so the OS already has it held", os_key).
ASSUME SameLayoutTypesTheSame ==
  \A code \in CharKeys, state \in SUBSET {"shift", "lock"} :
    Arrives(German, code, state, GermanThere, Letters, "lock" \in state) = CharFor(German, code, state)

\* The same on another layout, if the character takes the same modifiers there or has no key
\* at all (text_only).
ASSUME LikeModifiersTypeTheSame ==
  \A code \in CharKeys, state \in SUBSET {"shift"}, there \in {USThere, NoneThere} :
    LET c == CharFor(German, code, state) IN
    TextOnly(there, c) \/ \E way \in Lookup(there, c) : way[2] = DownThere(state)
    => Arrives(German, code, state, there, Letters, FALSE) = c

\* But not "mismatched layouts" in general (docs/PLAN.md, M6): a character that takes Shift
\* here and none there comes out as another one, a character of AltGr as none even where the
\* layouts agree, and letters as capitals where Caps Lock is on at one side only.
ASSUME OtherModifiersTypeOther ==
  /\ Arrives(German, "seven", Sh, USThere, Letters, FALSE) # "/"
  /\ Arrives(German, "q", {"mod5"}, GermanThere, Letters, FALSE) # CharFor(German, "q", {"mod5"})
  /\ Arrives(German, "z", {"lock"}, GermanThere, Letters, FALSE) = "z"

\* The keypad is the digit with Num Lock or Shift, not with both.
ASSUME KeypadFollowsNumLock ==
  \A state \in SUBSET {"shift", "mod2", "lock"} :
    (CharFor(German, "kp7", state) = "7") = (Cardinality(state \cap {"shift", "mod2"}) = 1)

\* Of the special keys each system knows those it is said to (has_built_in), the modifiers
\* of a key event are told apart, and two actions that name each other do not loop.
ASSUME BuiltInsAreNamed ==
  \A system \in {"x11", "windows"} : \A e \in Extras : (e \in Named(system)) = HasBuiltIn(system, e)
ASSUME ModifiersAreToldApart ==
  \A s, t \in SUBSET DOMAIN ModName : ModsFromState(s) = ModsFromState(t) => s = t
ASSUME ActionsGoOneStep ==
  LET swapped == [mute |-> [do |-> "action", to |-> "stop"], stop |-> [do |-> "action", to |-> "mute"]]
  IN \A e \in {"mute", "stop"} : Resolve(swapped, e) = [do |-> "key", to |-> swapped[e].to]

-----------------------------------------------------------------------------
Details == {1, 3, 8, 10, 255}   \* left, right, back, two further ones
ButtonEvents == {[button |-> ButtonOf(d), down |-> b] : d \in Details, b \in BOOLEAN}
Sequences(n) == UNION {[1..k -> ButtonEvents] : k \in 0..n}

\* Whatever buttons went down and up, after Leave none is down at the client; until then the
\* system has down what the sink holds, but for a further button let go of, which lifts the
\* left one.
ASSUME ButtonsComeUp ==
  \A evs \in Sequences(4) :
    LET s == AfterEvents(evs) IN
    /\ SinkButtonsLeave(s).down = {}
    /\ (\A i \in DOMAIN evs : evs[i].button.is # "extra")
       => s.down = {MapButton(DecodeButton(code)) : code \in s.held}

\* A notch of X's wheel is a notch at the client, the same way round; a smaller step counts
\* as one too, and no step turns the other way.
ASSUME WheelTurnsAlike ==
  /\ \A d \in 4..7 : IsWheel(d) /\ LET s == Scrolled(WheelDelta[d - 3])
                                       IN s.right * 120 = WheelDelta[d - 3].dx
                                          /\ s.down * 120 = -WheelDelta[d - 3].dy
  /\ \A delta \in -500..500 : /\ Notches(delta) * delta >= 0 /\ (delta # 0 => Notches(delta) # 0)
                              /\ Abs(Notches(delta)) * 120 <= Abs(delta) \/ Abs(delta) < 120

\* Every pixel of the virtual desktop can be reached, the last column included; a point
\* beyond it is its nearest one.
ASSUME EveryPixelIsReached ==
  \A w \in {2, 3, 7, 1366, 1920} : \A px \in -2..(w + 2) :
    LET d == [x |-> -5, y |-> 0, w |-> w, h |-> 4] IN
    /\ Lands(d, [x |-> 0, y |-> 0], px - 5, 3) = [x |-> Inside(px, w), y |-> 3]
    /\ Lands(d, [x |-> w - 1, y |-> 2], px - 5, -1) = [x |-> Inside(px, w), y |-> 0]
=============================================================================
