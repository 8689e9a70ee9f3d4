----------------------- MODULE WindowsCapture_proofs -----------------------
(***************************************************************************)
(* Theorems about WindowsCapture, for any keyboard, chord and person, and  *)
(* any bounds.                                                             *)
(***************************************************************************)
EXTENDS WindowsCapture, TLAPS

(* What the router is told, and what the variables hold besides TypeOK. *)
Events == [ev : {"key"}, key : Things, act : {"down", "repeat", "up"}, os : OsKeys \cup {None}]
          \cup [ev : {"hotkey", "pointer", "motion", "failed"}]
Typed ==
  /\ TypeOK
  /\ inputs \in Seq(Events)
  /\ repeating # None => repeating \in phys
  /\ \A h \in Hands : h.skips \in Nat

-----------------------------------------------------------------------------
(* This desktop: what it takes to be down and the hook would not pass on. *)

Excused(k) == k \in stolen \cup Unreported
HereInv ==
  /\ \A k \in desk : k \in phys \/ Excused(k)
  /\ ~ grabbed => swallowed = {}
  /\ thread # "gone" => \A k \in desk : k \in swallowed \/ (k = HotKey /\ hotkeyDown) => Excused(k)

-----------------------------------------------------------------------------
(* The client: every press that is on its way, or was done, has its release to come. *)

IsUp(e, k) == e.ev = "key" /\ e.key = k /\ e.act = "up"
Held == phys \cup astray
ThereInv ==
  /\ osDown \subseteq {pressed[k] : k \in Things}
  /\ ~ remote => osDown = {} /\ \A k \in Things : pressed[k] = None
  /\ \A k \in Things : pressed[k] # None => k \in Held \/ \E i \in 1..Len(inputs) : IsUp(inputs[i], k)
  /\ \A i \in 1..Len(inputs) : inputs[i].ev = "key" /\ inputs[i].act # "up" =>
       inputs[i].key \in Held \/ \E j \in (i + 1)..Len(inputs) : IsUp(inputs[j], inputs[i].key)

-----------------------------------------------------------------------------
(* The chord: what the hook holds for held is held, but for what it was told wrong. *)

ChordInv ==
  thread # "gone" =>
    /\ \A m \in Mods \ misled : m \in modsHeld <=> m \in phys
    /\ hotkeyDown /\ HotKey \notin misled => HotKey \in phys

-----------------------------------------------------------------------------
(* What a hook call does. *)

LEMMA TypesIs ==
  ASSUME Typed
  PROVE  /\ hand \in Hands /\ phys \subseteq Things /\ repeating \in Keys \cup {None}
         /\ desk \subseteq Things /\ swallowed \subseteq Things /\ stolen \subseteq Things
         /\ astray \subseteq Things /\ modsHeld \subseteq Mods
         /\ misled \subseteq Mods \cup {HotKey}
         /\ grabbed \in BOOLEAN /\ hotkeyDown \in BOOLEAN /\ remote \in BOOLEAN
         /\ thread \in {"up", "left", "gone"} /\ inputs \in Seq(Events) /\ Len(inputs) \in Nat
         /\ pressed \in [Things -> OsKeys \cup {None}] /\ osDown \subseteq OsKeys
         /\ skips \in Nat /\ hand.skips \in Nat /\ None \notin Things
<1>1. phys \subseteq Things
  BY WindowsAssumption DEF Typed, TypeOK
<1>2. skips \in Nat /\ hand.skips \in Nat
  BY DEF Typed, TypeOK
<1> QED BY <1>1, <1>2, WindowsAssumption DEF Typed, TypeOK

LEMMA CharIs ==
  ASSUME NEW k \in Things
  PROVE  Char(k) \in OsKeys \cup {None}
<1>1. (modsHeld' \cap Shift # {}) \in BOOLEAN
  OBVIOUS
<1>2. ASSUME k \in Keys, NEW s \in BOOLEAN PROVE Types[k][s] \in OsKeys \cup {None}
  <2> DEFINE Of(j) == {Types[j][t] : t \in BOOLEAN}
  <2>1. Types[k][s] \in Of(k) /\ Of(k) \in {Of(j) : j \in Keys}
    BY <1>2
  <2>2. Types[k][s] \in UNION {Of(j) : j \in Keys}
    BY <2>1
  <2>3. OsKeys = ((UNION {Of(j) : j \in Keys}) \ {None}) \cup Buttons
    BY Zenon DEF OsKeys
  <2> HIDE DEF Of
  <2> QED BY <2>2, <2>3
<1>3. CASE k \in Keys
  BY <1>1, <1>2, <1>3 DEF Char
<1>4. CASE k \notin Keys
  BY <1>4 DEF Char, Things, OsKeys
<1> QED BY <1>3, <1>4

(* The router hears of it, or nothing is sent. *)
Says(k, down, e) ==
  /\ e \in Events
  /\ \/ e = Other("hotkey") /\ OnHotkey(k, down) /\ ~ hotkeyDown
     \/ /\ e.ev = "key" /\ e.key = k /\ (e.act = "up") = ~ down
        /\ Swallow(k, down) /\ k \notin Unreported

LEMMA HookTells ==
  ASSUME Typed, NEW k \in Things, NEW down \in BOOLEAN,
         OnHotkey(k, down) \/ OnHotkeysEnd(k, down) \/ LeftAlone(k, down) \/ Swallow(k, down)
  PROVE  \/ UNCHANGED inputs
         \/ /\ thread = "up" /\ Len(inputs) < MaxInputs
            /\ \E e \in Events : inputs' = Append(inputs, e) /\ Says(k, down, e)
<1>1. ASSUME NEW e \in Events, Hear(e), Says(k, down, e)
      PROVE  \/ UNCHANGED inputs
             \/ /\ thread = "up" /\ Len(inputs) < MaxInputs
                /\ \E f \in Events : inputs' = Append(inputs, f) /\ Says(k, down, f)
  BY <1>1 DEF Hear
<1>2. CASE OnHotkey(k, down)
  <2>1. Other("hotkey") \in Events
    BY DEF Other, Events
  <2>2. CASE hotkeyDown
    BY <1>2, <2>2 DEF OnHotkey
  <2>3. CASE ~ hotkeyDown
    <3>1. Hear(Other("hotkey")) /\ Says(k, down, Other("hotkey"))
      BY <1>2, <2>1, <2>3 DEF OnHotkey, Says
    <3> QED BY <1>1, <2>1, <3>1
  <2> QED BY <2>2, <2>3
<1>3. CASE OnHotkeysEnd(k, down) \/ LeftAlone(k, down)
  BY <1>3 DEF OnHotkeysEnd, LeftAlone
<1>4. CASE Swallow(k, down)
  <2> DEFINE act == IF ~ down THEN "up" ELSE IF k \in swallowed THEN "repeat" ELSE "down"
             e == Key(k, act, Char(k))
  <2>1. CASE k \in Unreported
    BY <1>4, <2>1 DEF Swallow
  <2>2. CASE k \notin Unreported
    <3>1. act \in {"down", "repeat", "up"} /\ (act = "up") = ~ down
      OBVIOUS
    <3>2. Char(k) \in OsKeys \cup {None}
      BY CharIs
    <3>3. Hear(e)
      BY <1>4, <2>2 DEF Swallow
    <3> HIDE DEF act
    <3>4. e \in Events /\ e.ev = "key" /\ e.key = k /\ e.act = act
      BY <3>1, <3>2 DEF Key, Events
    <3>5. Says(k, down, e)
      BY <1>4, <2>2, <3>1, <3>4 DEF Says
    <3> QED BY <1>1, <3>3, <3>4, <3>5
  <2> QED BY <2>1, <2>2
<1> QED BY <1>2, <1>3, <1>4

(* The two ways of an event. *)
LEMMA EventIs ==
  ASSUME Typed, NEW k \in Things, NEW down \in BOOLEAN, Event(k, down)
  PROVE  /\ UNCHANGED <<hand, cmds, thread, remote, sink, grabbed>>
         /\ desk' \in {desk, IF down THEN desk \cup {k} ELSE desk \ {k}}
         /\ stolen' = (IF down /\ (k \in desk \/ skips' # skips) THEN stolen \cup {k} ELSE stolen) \cap desk'
         /\ astray' = (IF ~ down /\ Taken(k) /\ inputs' = inputs THEN astray \cup {k} ELSE astray)
         /\ \/ UNCHANGED inputs
            \/ /\ thread = "up" /\ Len(inputs) < MaxInputs
               /\ \E e \in Events : inputs' = Append(inputs, e) /\ Says(k, down, e)
         /\ \/ /\ Hooked(k, down) /\ thread # "gone" /\ UNCHANGED skips
               /\ modsHeld' = Tracked(k, down) /\ misled' = misled \ {k}
            \/ /\ Skipped(k, down) /\ UNCHANGED <<swallowed, hotkeyDown, modsHeld>>
               /\ misled' = misled \cup ({k} \cap (Mods \cup {HotKey}))
               /\ desk' = (IF down THEN desk \cup {k} ELSE desk \ {k})
               /\ (thread = "gone" /\ UNCHANGED skips) \/ (skips' = skips + 1 /\ skips' \in 0..hand.skips)
<1>1. Hooked(k, down) \/ Skipped(k, down)
  BY DEF Event
<1>2. CASE Hooked(k, down)
  <2>1. OnHotkey(k, down) \/ OnHotkeysEnd(k, down) \/ LeftAlone(k, down) \/ Swallow(k, down)
    BY <1>2 DEF Hooked
  <2>2. desk' \in {desk, IF down THEN desk \cup {k} ELSE desk \ {k}}
    BY <2>1 DEF OnHotkey, OnHotkeysEnd, LeftAlone, Swallow
  <2> QED BY <1>2, <2>1, <2>2, HookTells DEF Event, Hooked
<1>3. CASE Skipped(k, down)
  <2>1. (thread = "gone" /\ UNCHANGED skips) \/ (skips' = skips + 1 /\ skips' \in 0..hand.skips)
    BY <1>3, TypesIs DEF Skipped
  <2> QED BY <1>3, <2>1 DEF Event, Skipped, hook
<1> QED BY <1>1, <1>2, <1>3

-----------------------------------------------------------------------------
(* The types. *)

LEMMA TypedFrom ==
  ASSUME Typed,
         hand' \in Hands, phys' \subseteq hand'.uses, repeating' \in Keys \cup {None},
         repeating' # None => repeating' \in phys',
         desk' \subseteq Things, swallowed' \subseteq Things, stolen' \subseteq Things,
         astray' \subseteq Things, modsHeld' \subseteq Mods, misled' \subseteq Mods \cup {HotKey},
         grabbed' \in BOOLEAN, hotkeyDown' \in BOOLEAN, remote' \in BOOLEAN,
         thread' \in {"up", "left", "gone"},
         cmds' \in Seq({"grab", "ungrab"}), Len(cmds') <= MaxCmds,
         inputs' \in Seq(Events), Len(inputs') <= MaxInputs,
         pressed' \in [Things -> OsKeys \cup {None}], osDown' \subseteq OsKeys,
         skips' \in 0..hand'.skips
  PROVE  Typed'
<1>1. \A i \in 1..Len(inputs') : inputs'[i].ev \in {"key", "hotkey", "pointer", "motion", "failed"}
  <2>1. \A e \in Events : e.ev \in {"key", "hotkey", "pointer", "motion", "failed"}
    BY DEF Events
  <2>2. \A i \in 1..Len(inputs') : inputs'[i] \in Events
    OBVIOUS
  <2> QED BY <2>1, <2>2
<1>2. TypeOK'
  BY <1>1 DEF TypeOK
<1> QED BY <1>2 DEF Typed

LEMMA AppendIs ==
  ASSUME Typed, NEW e \in Events, Len(inputs) < MaxInputs
  PROVE  /\ Append(inputs, e) \in Seq(Events) /\ Len(Append(inputs, e)) <= MaxInputs
         /\ Len(Append(inputs, e)) = Len(inputs) + 1 /\ Append(inputs, e)[Len(inputs) + 1] = e
         /\ \A i \in 1..Len(inputs) : Append(inputs, e)[i] = inputs[i]
<1>1. inputs \in Seq(Events) /\ Len(inputs) \in Nat /\ MaxInputs \in Nat
  BY TypesIs, WindowsAssumption
<1> QED BY <1>1

LEMMA TrackedIs ==
  ASSUME Typed, NEW k, NEW down
  PROVE  Tracked(k, down) \subseteq Mods
BY TypesIs DEF Tracked

LEMMA EventTyped ==
  ASSUME Typed, NEW k \in Things, NEW down \in BOOLEAN, Event(k, down),
         phys' \subseteq hand.uses, repeating' \in Keys \cup {None},
         repeating' # None => repeating' \in phys'
  PROVE  Typed'
<1>1. /\ UNCHANGED <<hand, cmds, thread, remote, sink, grabbed>>
      /\ desk' \subseteq Things /\ stolen' \subseteq Things /\ astray' \subseteq Things
      /\ misled' \subseteq Mods \cup {HotKey}
  <2>1. /\ UNCHANGED <<hand, cmds, thread, remote, sink, grabbed>>
        /\ desk' \in {desk, IF down THEN desk \cup {k} ELSE desk \ {k}}
    BY EventIs
  <2>2. desk' \subseteq Things
    BY <2>1, TypesIs
  <2>3. stolen' \subseteq desk'
    BY EventIs
  <2>4. misled' \subseteq Mods \cup {HotKey}
    BY EventIs, TypesIs
  <2>5. astray' \subseteq astray \cup {k}
    BY EventIs
  <2> QED BY <2>1, <2>2, <2>3, <2>4, <2>5, TypesIs
<1>2. inputs' \in Seq(Events) /\ Len(inputs') <= MaxInputs
  <2>1. CASE UNCHANGED inputs
    BY <2>1, TypesIs DEF Typed, TypeOK
  <2>2. CASE Len(inputs) < MaxInputs /\ \E e \in Events : inputs' = Append(inputs, e)
    BY <2>2, AppendIs
  <2> QED BY <2>1, <2>2, EventIs
<1>3. swallowed' \subseteq Things /\ hotkeyDown' \in BOOLEAN
  <2>1. CASE Hooked(k, down)
    <3>1. swallowed' \in {swallowed, swallowed \cup {k}, swallowed \ {k}} /\ hotkeyDown' \in {hotkeyDown, TRUE, down}
      BY <2>1 DEF Hooked, OnHotkey, OnHotkeysEnd, LeftAlone, Swallow
    <3> QED BY <3>1, TypesIs
  <2>2. CASE Skipped(k, down)
    BY <2>2, TypesIs DEF Skipped, hook
  <2> QED BY <2>1, <2>2 DEF Event
<1>4. modsHeld' \subseteq Mods
  BY EventIs, TypesIs, TrackedIs
<1>5. skips' \in 0..hand.skips
  <2>1. skips \in 0..hand.skips
    BY DEF Typed, TypeOK
  <2> QED BY <2>1, EventIs
<1>6. /\ hand' \in Hands /\ phys' \subseteq hand'.uses /\ grabbed' \in BOOLEAN /\ remote' \in BOOLEAN
      /\ thread' \in {"up", "left", "gone"} /\ cmds' \in Seq({"grab", "ungrab"}) /\ Len(cmds') <= MaxCmds
      /\ pressed' \in [Things -> OsKeys \cup {None}] /\ osDown' \subseteq OsKeys
      /\ skips' \in 0..hand'.skips
  BY <1>1, <1>5 DEF Typed, TypeOK, sink
<1> QED BY <1>1, <1>2, <1>3, <1>4, <1>6, TypedFrom

(* An event is a press, a release or a repeat. *)
LEMMA HandIs ==
  ASSUME Typed, NEW k \in Things, NEW down \in BOOLEAN,
         (Press(k) /\ down) \/ (Release(k) /\ ~ down) \/ (AutoRepeat /\ k = repeating /\ down)
  PROVE  /\ Event(k, down)
         /\ phys' = (IF down THEN phys \cup {k} ELSE phys \ {k})
         /\ phys' \subseteq hand.uses /\ repeating' \in Keys \cup {None}
         /\ repeating' # None => repeating' \in phys'
         /\ (down /\ k \in phys => AutoRepeat /\ k \in Keys)
<1>1. phys \subseteq hand.uses /\ repeating \in Keys \cup {None} /\ (repeating # None => repeating \in phys)
  BY DEF Typed, TypeOK
<1>2. CASE Press(k) /\ down
  BY <1>1, <1>2 DEF Press
<1>3. CASE Release(k) /\ ~ down
  BY <1>1, <1>3 DEF Release
<1>4. CASE AutoRepeat /\ k = repeating /\ down
  BY <1>1, <1>4 DEF AutoRepeat
<1> QED BY <1>2, <1>3, <1>4

LEMMA OthersTyped ==
  ASSUME Typed, PointerMoves \/ Resync \/ Grab \/ Ungrab \/ ThreadEnds
  PROVE  Typed'
<1> USE TypesIs
<1>1. /\ hand \in Hands /\ phys \subseteq hand.uses /\ repeating \in Keys \cup {None}
      /\ repeating # None => repeating \in phys
      /\ cmds \in Seq({"grab", "ungrab"}) /\ Len(cmds) <= MaxCmds
      /\ inputs \in Seq(Events) /\ Len(inputs) <= MaxInputs
      /\ skips \in 0..hand.skips
  BY DEF Typed, TypeOK
<1>2. ASSUME NEW ev \in {"hotkey", "pointer", "motion", "failed"}, Hear(Other(ev))
      PROVE  inputs' \in Seq(Events) /\ Len(inputs') <= MaxInputs
  <2>1. Other(ev) \in Events
    BY <1>2 DEF Other, Events
  <2>2. CASE UNCHANGED inputs
    BY <1>1, <2>2
  <2>3. CASE Len(inputs) < MaxInputs /\ inputs' = Append(inputs, Other(ev))
    BY <2>1, <2>3, AppendIs
  <2> QED BY <1>2, <2>2, <2>3 DEF Hear
<1>3. cmds # <<>> => Tail(cmds) \in Seq({"grab", "ungrab"}) /\ Len(Tail(cmds)) <= MaxCmds
  <2>1. MaxCmds \in Nat
    BY WindowsAssumption
  <2> QED BY <1>1, <2>1
<1>4. SystemMods \subseteq Mods
  BY WindowsAssumption DEF SystemMods
<1>5. CASE PointerMoves
  <2>1. inputs' \in Seq(Events) /\ Len(inputs') <= MaxInputs
    BY <1>2, <1>5 DEF PointerMoves
  <2>2. UNCHANGED <<hand, phys, repeating, desk, grabbed, swallowed, hotkeyDown, modsHeld, cmds, thread,
                    remote, pressed, osDown, skips, stolen, misled, astray>>
    BY <1>5 DEF PointerMoves, hook, sink
  <2> QED BY <1>1, <2>1, <2>2, TypedFrom
<1>6. CASE Resync
  <2>1. UNCHANGED <<hand, phys, repeating, desk, grabbed, swallowed, hotkeyDown, cmds, thread, inputs,
                    remote, pressed, osDown, skips, stolen, astray>>
    BY <1>6 DEF Resync, sink
  <2>2. modsHeld' \subseteq Mods /\ misled' \subseteq Mods \cup {HotKey}
    BY <1>1, <1>4, <1>6 DEF Resync, ReadBack
  <2> QED BY <1>1, <2>1, <2>2, TypedFrom
<1>7. CASE Grab
  <2>1. UNCHANGED <<hand, phys, repeating, desk, hotkeyDown, thread,
                    remote, pressed, osDown, skips, stolen, astray>>
    BY <1>7 DEF Grab, sink, hook
  <2>2. modsHeld' \subseteq Mods /\ misled' \subseteq Mods \cup {HotKey}
    <3>1. CASE grabbed
      BY <1>1, <1>7, <3>1 DEF Grab, hook
    <3>2. CASE ~ grabbed
      BY <1>1, <1>4, <1>7, <3>2 DEF Grab, ReadBack
    <3> QED BY <3>1, <3>2
  <2>3. inputs' \in Seq(Events) /\ Len(inputs') <= MaxInputs
    BY <1>1, <1>2, <1>7 DEF Grab
  <2>4. grabbed' \in BOOLEAN /\ swallowed' \subseteq Things
    BY <1>7 DEF Grab, hook
  <2>5. cmds' \in Seq({"grab", "ungrab"}) /\ Len(cmds') <= MaxCmds
    BY <1>3, <1>7 DEF Grab
  <2> QED BY <1>1, <2>1, <2>2, <2>3, <2>4, <2>5, TypedFrom
<1>8. CASE Ungrab \/ ThreadEnds
  <2>1. UNCHANGED <<hand, phys, repeating, desk, inputs, hotkeyDown, modsHeld,
                    remote, pressed, osDown, skips, stolen, misled>>
    BY <1>8 DEF Ungrab, ThreadEnds, LetGo, sink
  <2>2. grabbed' = FALSE /\ swallowed' = {} /\ astray' \subseteq Things
    BY <1>8 DEF Ungrab, ThreadEnds, LetGo
  <2>3. cmds' \in Seq({"grab", "ungrab"}) /\ Len(cmds') <= MaxCmds /\ thread' \in {"up", "left", "gone"}
    BY <1>1, <1>3, <1>8 DEF Ungrab, ThreadEnds
  <2> QED BY <1>1, <2>1, <2>2, <2>3, TypedFrom
<1> QED BY <1>5, <1>6, <1>7, <1>8

LEMMA InputIs ==
  ASSUME Typed, inputs # <<>>
  PROVE  /\ Head(inputs) \in Events /\ Head(inputs) = inputs[1] /\ 1 \in 1..Len(inputs)
         /\ Tail(inputs) \in Seq(Events) /\ Len(Tail(inputs)) = Len(inputs) - 1
         /\ \A i \in 1..Len(Tail(inputs)) : Tail(inputs)[i] = inputs[i + 1]
BY TypesIs

LEMMA RouteIs ==
  ASSUME Typed, Route
  PROVE  /\ inputs # <<>> /\ inputs' = Tail(inputs) /\ thread = "up"
         /\ UNCHANGED <<hand, phys, repeating, desk, grabbed, swallowed, hotkeyDown, modsHeld, thread,
                        skips, stolen, misled>>
         /\ \/ /\ inputs[1] \in [ev : {"key"}, key : Things, act : {"down", "repeat", "up"},
                                 os : OsKeys \cup {None}]
               /\ inputs[1].ev = "key" /\ remote
               /\ SinkKey(inputs[1]) /\ UNCHANGED <<remote, cmds, astray>>
            \/ Ignored /\ (inputs[1].ev = "key" => ~ remote)
            \/ inputs[1].ev # "key" /\ Enter /\ ~ remote
            \/ inputs[1].ev # "key" /\ (GoLocal \/ GrabFailed)
<1> DEFINE e == inputs[1]
<1>1. inputs # <<>> /\ inputs' = Tail(inputs) /\ thread = "up" /\ e = Head(inputs) /\ e \in Events
  BY InputIs DEF Route
<1>2. UNCHANGED <<hand, phys, repeating, desk, grabbed, swallowed, hotkeyDown, modsHeld, thread,
                  skips, stolen, misled>>
  BY DEF Route, hook
<1>3. e.ev = "key" => e \in [ev : {"key"}, key : Things, act : {"down", "repeat", "up"},
                             os : OsKeys \cup {None}]
  BY <1>1 DEF Events
<1>4. \/ e.ev = "key" /\ remote /\ SinkKey(e) /\ UNCHANGED <<remote, cmds, astray>>
      \/ e.ev = "key" /\ ~ remote /\ Ignored
      \/ e.ev = "hotkey" /\ IF remote THEN GoLocal ELSE Enter
      \/ e.ev = "motion" /\ remote /\ GoLocal
      \/ e.ev = "pointer" /\ ~ remote /\ Enter
      \/ e.ev = "failed" /\ remote /\ GrabFailed
      \/ e.ev \in {"motion", "pointer"} /\ Ignored
      \/ e.ev = "failed" /\ ~ remote /\ Ignored
  BY <1>1 DEF Route
<1> HIDE DEF e
<1>5. \/ /\ e \in [ev : {"key"}, key : Things, act : {"down", "repeat", "up"}, os : OsKeys \cup {None}]
         /\ e.ev = "key" /\ remote
         /\ SinkKey(e) /\ UNCHANGED <<remote, cmds, astray>>
      \/ Ignored /\ (e.ev = "key" => ~ remote)
      \/ e.ev # "key" /\ Enter /\ ~ remote
      \/ e.ev # "key" /\ (GoLocal \/ GrabFailed)
  BY <1>3, <1>4
<1> QED BY <1>1, <1>2, <1>5 DEF e

LEMMA CommandIs ==
  ASSUME Typed, NEW c \in {"grab", "ungrab"}, Command(c)
  PROVE  cmds' \in Seq({"grab", "ungrab"}) /\ Len(cmds') <= MaxCmds
<1>1. cmds \in Seq({"grab", "ungrab"}) /\ hand.cmds \in 0..MaxCmds /\ MaxCmds \in Nat
  BY WindowsAssumption DEF Typed, TypeOK
<1> QED BY <1>1 DEF Command

LEMMA RouteTyped ==
  ASSUME Typed, Route
  PROVE  Typed'
<1> USE TypesIs
<1>1. /\ hand' \in Hands /\ phys' \subseteq hand'.uses /\ repeating' \in Keys \cup {None}
      /\ repeating' # None => repeating' \in phys'
      /\ desk' \subseteq Things /\ swallowed' \subseteq Things /\ stolen' \subseteq Things
      /\ modsHeld' \subseteq Mods /\ misled' \subseteq Mods \cup {HotKey}
      /\ grabbed' \in BOOLEAN /\ hotkeyDown' \in BOOLEAN
      /\ thread' \in {"up", "left", "gone"} /\ skips' \in 0..hand'.skips
  BY RouteIs DEF Typed, TypeOK
<1>2. inputs' \in Seq(Events) /\ Len(inputs') <= MaxInputs
  <2>1. Len(inputs) <= MaxInputs /\ MaxInputs \in Nat
    BY WindowsAssumption DEF Typed, TypeOK
  <2> QED BY <2>1, RouteIs, InputIs
<1>3. /\ cmds' \in Seq({"grab", "ungrab"}) /\ Len(cmds') <= MaxCmds /\ remote' \in BOOLEAN
      /\ astray' \subseteq Things
      /\ pressed' \in [Things -> OsKeys \cup {None}] /\ osDown' \subseteq OsKeys
  <2>1. cmds \in Seq({"grab", "ungrab"}) /\ Len(cmds) <= MaxCmds
    BY DEF Typed, TypeOK
  <2>2. CASE /\ inputs[1] \in [ev : {"key"}, key : Things, act : {"down", "repeat", "up"},
                               os : OsKeys \cup {None}]
             /\ SinkKey(inputs[1]) /\ UNCHANGED <<remote, cmds, astray>>
    <3> DEFINE e == inputs[1]
               o == IF pressed[e.key] = None THEN e.os ELSE pressed[e.key]
    <3>1. e.key \in Things /\ e.os \in OsKeys \cup {None}
      BY <2>2
    <3>2. o \in OsKeys \cup {None}
      BY <3>1
    <3>3. \/ pressed' = [pressed EXCEPT ![e.key] = o] /\ osDown' = osDown \cup ({o} \ {None})
          \/ pressed' = [pressed EXCEPT ![e.key] = None] /\ osDown' = osDown \ {pressed[e.key]}
      BY <2>2 DEF SinkKey
    <3> HIDE DEF e, o
    <3> QED BY <2>1, <2>2, <3>1, <3>2, <3>3
  <2>3. CASE Ignored
    BY <2>1, <2>3 DEF Ignored, sink
  <2>4. CASE Enter
    BY <2>4, CommandIs DEF Enter, sink
  <2>5. ASSUME SinkLeave
        PROVE  /\ astray' \subseteq Things
               /\ pressed' \in [Things -> OsKeys \cup {None}] /\ osDown' \subseteq OsKeys
    BY <2>5 DEF SinkLeave
  <2>6. CASE GoLocal \/ GrabFailed
    BY <2>1, <2>5, <2>6, CommandIs DEF GoLocal, GrabFailed
  <2> QED BY <2>2, <2>3, <2>4, <2>6, RouteIs
<1> QED BY <1>1, <1>2, <1>3, TypedFrom

LEMMA StopTyped ==
  ASSUME Typed, Stop
  PROVE  Typed'
<1> USE TypesIs
<1>1. /\ hand' \in Hands /\ phys' \subseteq hand'.uses /\ repeating' \in Keys \cup {None}
      /\ repeating' # None => repeating' \in phys'
      /\ desk' \subseteq Things /\ swallowed' \subseteq Things /\ stolen' \subseteq Things
      /\ modsHeld' \subseteq Mods /\ misled' \subseteq Mods \cup {HotKey}
      /\ grabbed' \in BOOLEAN /\ hotkeyDown' \in BOOLEAN
      /\ skips' \in 0..hand'.skips
      /\ cmds' \in Seq({"grab", "ungrab"}) /\ Len(cmds') <= MaxCmds
  BY DEF Stop, hook, Typed, TypeOK
<1>2. inputs' \in Seq(Events) /\ Len(inputs') <= MaxInputs
  <2>1. MaxInputs \in Nat /\ inputs' = <<>>
    BY WindowsAssumption DEF Stop
  <2> QED BY <2>1
<1>3. /\ thread' \in {"up", "left", "gone"} /\ remote' \in BOOLEAN /\ astray' \subseteq Things
      /\ pressed' \in [Things -> OsKeys \cup {None}] /\ osDown' \subseteq OsKeys
  BY DEF Stop
<1> QED BY <1>1, <1>2, <1>3, TypedFrom

LEMMA InitTyped ==
  ASSUME Init
  PROVE  Typed
<1>1. hand \in Hands /\ hand.skips \in Nat /\ \A h \in Hands : h.skips \in Nat
  BY WindowsAssumption DEF Init
<1>2. MaxInputs \in Nat /\ MaxCmds \in Nat
  BY WindowsAssumption
<1>3. cmds \in Seq({"grab", "ungrab"}) /\ Len(cmds) = 0 /\ inputs \in Seq(Events) /\ Len(inputs) = 0
  BY DEF Init
<1>4. pressed \in [Things -> OsKeys \cup {None}] /\ skips \in 0..hand.skips
  BY <1>1 DEF Init
<1>5. {desk, swallowed, stolen, astray} \subseteq SUBSET Things /\ modsHeld \subseteq Mods
      /\ misled \subseteq Mods \cup {HotKey}
  BY DEF Init
<1>6. {grabbed, hotkeyDown, remote} \subseteq BOOLEAN
  BY DEF Init
<1>7. \A i \in 1..Len(inputs) : inputs[i].ev \in {"key", "hotkey", "pointer", "motion", "failed"}
  BY <1>3
<1>8. /\ hand \in Hands /\ phys \subseteq hand.uses /\ repeating \in Keys \cup {None}
      /\ thread \in {"up", "left", "gone"} /\ osDown \subseteq OsKeys
  BY DEF Init
<1>9. Len(cmds) <= MaxCmds /\ Len(inputs) <= MaxInputs
  BY <1>2, <1>3
<1>10. TypeOK
  BY <1>3, <1>4, <1>5, <1>6, <1>7, <1>8, <1>9 DEF TypeOK
<1> QED BY <1>1, <1>3, <1>10 DEF Init, Typed

LEMMA StutterTyped ==
  ASSUME Typed, UNCHANGED vars
  PROVE  Typed'
BY DEF Typed, TypeOK, vars, hook, sink, Events

LEMMA NextTyped ==
  ASSUME Typed, [Next]_vars
  PROVE  Typed'
<1>1. ASSUME NEW k \in Things, NEW down \in BOOLEAN,
             (Press(k) /\ down) \/ (Release(k) /\ ~ down) \/ (AutoRepeat /\ k = repeating /\ down)
      PROVE  Typed'
  BY <1>1, HandIs, EventTyped
<1>2. CASE \E k \in Things : Press(k) \/ Release(k)
  BY <1>1, <1>2
<1>3. CASE AutoRepeat
  <2>1. repeating \in Things
    BY <1>3, TypesIs DEF AutoRepeat, Things
  <2> QED BY <1>1, <1>3, <2>1
<1>4. CASE PointerMoves \/ Resync \/ Grab \/ Ungrab \/ ThreadEnds
  BY <1>4, OthersTyped
<1>5. CASE Route \/ Stop
  BY <1>5, RouteTyped, StopTyped
<1> QED BY <1>2, <1>3, <1>4, <1>5, StutterTyped DEF Next

(* Every variable keeps its type: the hook state, the commands and events in their queues, *)
(* what the sink holds for each key (HookState, EnigoSink).                                *)
THEOREM CaptureTypes == Spec => []TypeOK
<1>1. Spec => []Typed
  BY InitTyped, NextTyped, PTL DEF Spec
<1>2. Typed => TypeOK
  BY DEF Typed
<1> QED BY <1>1, <1>2, PTL

(* A key this desktop goes on holding although its event was another's to end. *)
LEMMA EventHere ==
  ASSUME Typed, HereInv, NEW k \in Things, NEW down \in BOOLEAN, Event(k, down),
         phys' = (IF down THEN phys \cup {k} ELSE phys \ {k})
  PROVE  HereInv'
<1>1. /\ UNCHANGED <<thread, grabbed>>
      /\ desk' \in {desk, IF down THEN desk \cup {k} ELSE desk \ {k}}
      /\ stolen' = (IF down /\ (k \in desk \/ skips' # skips) THEN stolen \cup {k} ELSE stolen) \cap desk'
  BY EventIs
<1>2. /\ \A x \in desk : x \in phys \/ x \in stolen \cup Unreported
      /\ ~ grabbed => swallowed = {}
      /\ thread # "gone" => \A x \in desk : x \in swallowed \/ (x = HotKey /\ hotkeyDown)
                                              => x \in stolen \cup Unreported
  BY DEF HereInv, Excused
<1>3. \/ /\ thread # "gone" /\ UNCHANGED skips
         /\ OnHotkey(k, down) \/ OnHotkeysEnd(k, down) \/ LeftAlone(k, down) \/ Swallow(k, down)
      \/ Skipped(k, down)
  BY DEF Event, Hooked
<1>4. ASSUME Skipped(k, down)
      PROVE  /\ UNCHANGED <<swallowed, hotkeyDown>>
             /\ desk' = (IF down THEN desk \cup {k} ELSE desk \ {k})
             /\ thread = "gone" \/ skips' # skips
  <2>1. skips \in Nat
    BY TypesIs
  <2> QED BY <1>4, <2>1 DEF Skipped, hook
<1>5. ~ grabbed => swallowed' = {}
  <2>1. Swallow(k, down) => grabbed
    BY DEF Swallow, Passes
  <2> QED BY <1>2, <1>3, <1>4, <2>1 DEF OnHotkey, OnHotkeysEnd, LeftAlone
<1>6. ASSUME NEW x \in desk', x # k
      PROVE  /\ x \in phys' \/ x \in stolen' \cup Unreported
             /\ thread # "gone" /\ (x \in swallowed' \/ (x = HotKey /\ hotkeyDown'))
                  => x \in stolen' \cup Unreported
  <2>1. x \in desk /\ (x \in phys' <=> x \in phys) /\ (x \in stolen' <=> x \in stolen)
    BY <1>1, <1>6
  <2>2. (x \in swallowed' => x \in swallowed) /\ (x = HotKey /\ hotkeyDown' => hotkeyDown)
    <3>1. CASE Skipped(k, down)
      BY <1>4, <3>1
    <3>2. CASE OnHotkey(k, down) \/ OnHotkeysEnd(k, down)
      BY <1>6, <3>2 DEF OnHotkey, OnHotkeysEnd, IsHotkey, EndsHotkey
    <3>3. CASE LeftAlone(k, down)
      BY <3>3 DEF LeftAlone
    <3>4. CASE Swallow(k, down)
      <4>1. swallowed' \in {swallowed, swallowed \cup {k}, swallowed \ {k}} /\ UNCHANGED hotkeyDown
        BY <3>4 DEF Swallow
      <4> QED BY <1>6, <4>1
    <3> QED BY <1>3, <3>1, <3>2, <3>3, <3>4
  <2> QED BY <1>2, <2>1, <2>2
<1>7. ASSUME k \in desk', down
      PROVE  /\ k \in phys'
             /\ thread # "gone" /\ (k \in swallowed' \/ (k = HotKey /\ hotkeyDown'))
                  => k \in stolen' \cup Unreported
  <2>1. k \in phys'
    BY <1>7
  <2>2. k \in desk \/ skips' # skips => k \in stolen'
    BY <1>1, <1>7
  <2>3. CASE LeftAlone(k, down)
    <3>1. swallowed' = {} /\ ~ (k = HotKey /\ hotkeyDown')
      BY <1>2, <1>7, <2>3 DEF LeftAlone, Passes, EndsHotkey
    <3> QED BY <2>1, <3>1
  <2>4. CASE OnHotkey(k, down) \/ OnHotkeysEnd(k, down) \/ Swallow(k, down)
    <3>1. k \in desk
      BY <1>7, <2>4 DEF OnHotkey, OnHotkeysEnd, Swallow
    <3> QED BY <2>1, <2>2, <3>1
  <2>5. CASE Skipped(k, down)
    BY <1>4, <2>1, <2>2, <2>5
  <2> QED BY <1>3, <2>3, <2>4, <2>5
<1>8. ASSUME k \in desk', ~ down
      PROVE  k \in stolen' \cup Unreported
  <2>1. k \in desk /\ desk' = desk /\ (k \in stolen => k \in stolen')
    BY <1>1, <1>8
  <2>2. thread # "gone" /\ ~ Skipped(k, down) /\ ~ LeftAlone(k, down) /\ ~ OnHotkey(k, down)
    BY <1>3, <1>4, <1>8 DEF LeftAlone, OnHotkey, IsHotkey
  <2>3. CASE OnHotkeysEnd(k, down)
    BY <1>2, <2>1, <2>2, <2>3 DEF OnHotkeysEnd, EndsHotkey
  <2>4. CASE Swallow(k, down)
    <3>1. k \in swallowed \cup Unreported
      BY <1>8, <2>4 DEF Swallow, Passes
    <3> QED BY <1>2, <2>1, <2>2, <3>1
  <2> QED BY <1>3, <2>2, <2>3, <2>4
<1>9. /\ \A x \in desk' : x \in phys' \/ x \in stolen' \cup Unreported
      /\ thread # "gone" => \A x \in desk' : x \in swallowed' \/ (x = HotKey /\ hotkeyDown')
                                              => x \in stolen' \cup Unreported
  BY <1>6, <1>7, <1>8
<1> QED BY <1>1, <1>5, <1>9 DEF HereInv, Excused

LEMMA OthersHere ==
  ASSUME Typed, HereInv,
         PointerMoves \/ Resync \/ Grab \/ Ungrab \/ ThreadEnds \/ Route \/ Stop \/ UNCHANGED vars
  PROVE  HereInv'
<1>1. UNCHANGED <<desk, phys, stolen, hotkeyDown>>
  BY DEF PointerMoves, Resync, Grab, Ungrab, ThreadEnds, LetGo, Route, Stop, vars, hook
<1>2. thread' = thread \/ thread # "gone" \/ thread' = "gone"
  BY DEF PointerMoves, Resync, Grab, Ungrab, ThreadEnds, LetGo, Route, Stop, vars
<1>3. UNCHANGED <<grabbed, swallowed>> \/ swallowed' = {}
  BY DEF PointerMoves, Resync, Grab, Ungrab, ThreadEnds, LetGo, Route, Stop, vars, hook
<1> QED BY <1>1, <1>2, <1>3 DEF HereInv, Excused

(* What a server's desktop takes to be down is down, whatever is pressed when a grab comes *)
(* or goes: a release belongs to whoever saw its press (HookState.keys).                   *)
THEOREM NothingStaysHere == Spec => []NothingStuckHere
<1>1. Init => HereInv
  BY DEF Init, HereInv
<1>2. ASSUME Typed, HereInv, [Next]_vars
      PROVE  HereInv'
  <2>1. ASSUME NEW k \in Things, NEW down \in BOOLEAN,
               (Press(k) /\ down) \/ (Release(k) /\ ~ down) \/ (AutoRepeat /\ k = repeating /\ down)
        PROVE  HereInv'
    BY <1>2, <2>1, HandIs, EventHere
  <2>2. AutoRepeat => repeating \in Things
    BY <1>2, TypesIs DEF AutoRepeat, Things
  <2> QED BY <1>2, <2>1, <2>2, OthersHere DEF Next
<1>3. Typed /\ HereInv => NothingStuckHere
  BY DEF HereInv, Excused, NothingStuckHere
<1>4. Spec => [](Typed /\ HereInv)
  BY <1>1, <1>2, InitTyped, NextTyped, PTL DEF Spec
<1> QED BY <1>3, <1>4, PTL

-----------------------------------------------------------------------------
(* The client. *)

LEMMA NoneIsNoKey ==
  ASSUME Typed
  PROVE  None \notin OsKeys /\ None \notin osDown
<1>1. None \notin OsKeys
  BY WindowsAssumption DEF OsKeys, Things
<1> QED BY <1>1, TypesIs

(* Nothing is taken from the queue: what was true of an event in it stays so. *)
LEMMA Appended ==
  ASSUME Typed, ThereInv, NEW e \in Events, UNCHANGED <<sink, remote>>,
         UNCHANGED inputs \/ (Len(inputs) < MaxInputs /\ inputs' = Append(inputs, e)),
         \A k \in Things : k \in Held =>
           \/ k \in Held' \/ ~ Taken(k)
           \/ (e.ev = "key" /\ e.key = k /\ e.act = "up" /\ inputs' = Append(inputs, e)),
         inputs' = Append(inputs, e) /\ e.ev = "key" /\ e.act # "up" => e.key \in Held'
  PROVE  ThereInv'
<1> DEFINE n == Len(inputs)
<1>1. n \in Nat /\ \A i \in 1..n : i \in 1..Len(inputs') /\ inputs'[i] = inputs[i]
  <2>1. CASE UNCHANGED inputs
    BY <2>1, TypesIs
  <2>2. CASE n < MaxInputs /\ inputs' = Append(inputs, e)
    BY <2>2, TypesIs, AppendIs
  <2> QED BY <2>1, <2>2
<1>2. Len(inputs') = n \/ (Len(inputs') = n + 1 /\ inputs'[n + 1] = e /\ inputs' = Append(inputs, e))
  BY AppendIs
<1>3. \A i \in 1..n, k \in Things : IsUp(inputs[i], k) => i \in 1..Len(inputs') /\ IsUp(inputs'[i], k)
  BY <1>1 DEF IsUp
<1>4. ASSUME NEW k \in Things \cap Held, Taken(k)
      PROVE  k \in Held' \/ (n + 1 \in 1..Len(inputs') /\ IsUp(inputs'[n + 1], k))
  <2>1. CASE e.ev = "key" /\ e.key = k /\ e.act = "up" /\ inputs' = Append(inputs, e)
    <3>1. Len(inputs') = n + 1 /\ inputs'[n + 1] = e
      BY <2>1, <1>1, <1>2, AppendIs
    <3> QED BY <1>1, <2>1, <3>1 DEF IsUp
  <2> QED BY <1>4, <2>1
<1>5. ASSUME NEW k \in Things, pressed'[k] # None
      PROVE  k \in Held' \/ \E i \in 1..Len(inputs') : IsUp(inputs'[i], k)
  <2>1. pressed[k] # None /\ Taken(k)
    BY <1>5 DEF Taken, sink
  <2>2. k \in Held \/ \E i \in 1..n : IsUp(inputs[i], k)
    BY <2>1 DEF ThereInv
  <2> QED BY <1>3, <1>4, <2>1, <2>2
<1>6. ASSUME NEW i \in 1..Len(inputs'), inputs'[i].ev = "key", inputs'[i].act # "up"
      PROVE  inputs'[i].key \in Held' \/ \E j \in (i + 1)..Len(inputs') : IsUp(inputs'[j], inputs'[i].key)
  <2>1. CASE i = n + 1 /\ inputs'[n + 1] = e /\ inputs' = Append(inputs, e)
    BY <1>6, <2>1
  <2>2. CASE i \in 1..n
    <3>1. inputs[i] = inputs'[i] /\ inputs[i] \in Events
      BY <1>1, <2>2, TypesIs
    <3> DEFINE k == inputs[i].key
    <3>2. k \in Things /\ inputs[i].act \in {"down", "repeat"}
      BY <1>6, <3>1 DEF Events
    <3>3. Taken(k)
      BY <1>6, <2>2, <3>1, <3>2 DEF Taken, Coming
    <3>4. k \in Held \/ \E j \in (i + 1)..n : IsUp(inputs[j], k)
      BY <1>6, <2>2, <3>1 DEF ThereInv
    <3> HIDE DEF k
    <3>5. CASE k \in Held
      BY <1>1, <1>4, <2>2, <3>1, <3>2, <3>3, <3>5 DEF k
    <3>6. CASE \E j \in (i + 1)..n : IsUp(inputs[j], k)
      <4> PICK j \in (i + 1)..n : IsUp(inputs[j], k)
        BY <3>6
      <4>1. j \in 1..n /\ j \in (i + 1)..Len(inputs')
        BY <1>1, <1>2, <2>2
      <4>2. IsUp(inputs'[j], k)
        BY <1>3, <3>2, <4>1
      <4> QED BY <3>1, <4>1, <4>2 DEF k
    <3> QED BY <3>4, <3>5, <3>6
  <2> QED BY <1>1, <1>2, <2>1, <2>2
<1>7. /\ osDown' \subseteq {pressed'[k] : k \in Things}
      /\ ~ remote' => osDown' = {} /\ \A k \in Things : pressed'[k] = None
  BY DEF ThereInv, sink
<1> QED BY <1>5, <1>6, <1>7 DEF ThereInv

LEMMA EventThere ==
  ASSUME Typed, ThereInv, NEW k \in Things, NEW down \in BOOLEAN, Event(k, down),
         phys' = (IF down THEN phys \cup {k} ELSE phys \ {k})
  PROVE  ThereInv'
<1>1. UNCHANGED <<sink, remote>>
  BY EventIs
<1>2. astray \subseteq astray' /\ (~ down /\ Taken(k) /\ inputs' = inputs => k \in astray')
  BY EventIs
<1>3. \A x \in Things : x \in Held => x \in Held' \/ (x = k /\ ~ down)
  BY <1>2 DEF Held
<1>4. down => k \in Held'
  BY DEF Held
<1>5. CASE UNCHANGED inputs
  <2>1. Other("hotkey") \in Events /\ Len(inputs) # Len(inputs) + 1
    BY TypesIs DEF Other, Events
  <2>2. inputs' # Append(inputs, Other("hotkey"))
    BY <1>5, <2>1, TypesIs
  <2>3. k \in Held' \/ ~ Taken(k)
    BY <1>2, <1>4, <1>5 DEF Held
  <2> QED BY <1>1, <1>3, <1>5, <2>1, <2>2, <2>3, Appended
<1>6. ASSUME NEW e \in Events, Len(inputs) < MaxInputs, inputs' = Append(inputs, e), Says(k, down, e)
      PROVE  ThereInv'
  <2>1. e.ev = "key" => e.key = k /\ (e.act = "up") = ~ down
    BY <1>6 DEF Says, Other
  <2>2. ~ down => e.ev = "key"
    BY <1>6 DEF Says, OnHotkey, IsHotkey
  <2>3. e.ev = "key" /\ e.act # "up" => e.key \in Held'
    BY <1>4, <2>1
  <2>4. \A x \in Things : x \in Held =>
           \/ x \in Held' \/ ~ Taken(x)
           \/ (e.ev = "key" /\ e.key = x /\ e.act = "up" /\ inputs' = Append(inputs, e))
    BY <1>3, <1>6, <2>1, <2>2
  <2> QED BY <1>1, <1>6, <2>3, <2>4, Appended
<1> QED BY <1>5, <1>6, EventIs

LEMMA QuietThere ==
  ASSUME Typed, ThereInv,
         PointerMoves \/ Resync \/ Grab \/ Ungrab \/ ThreadEnds \/ UNCHANGED vars
  PROVE  ThereInv'
<1>1. UNCHANGED <<sink, remote, phys>> /\ astray \subseteq astray'
  BY DEF PointerMoves, Resync, Grab, Ungrab, ThreadEnds, LetGo, vars
<1>2. \A x \in Things : x \in Held => x \in Held'
  BY <1>1 DEF Held
<1>3. ASSUME NEW ev \in {"hotkey", "pointer", "motion", "failed"}, UNCHANGED inputs \/ Hear(Other(ev))
      PROVE  ThereInv'
  <2>1. Other(ev) \in Events /\ Other(ev).ev # "key"
    BY <1>3 DEF Other, Events
  <2>2. UNCHANGED inputs \/ (Len(inputs) < MaxInputs /\ inputs' = Append(inputs, Other(ev)))
    BY <1>3 DEF Hear
  <2> HIDE DEF Other
  <2> QED BY <1>1, <1>2, <2>1, <2>2, Appended
<1>4. \E ev \in {"hotkey", "pointer", "motion", "failed"} : UNCHANGED inputs \/ Hear(Other(ev))
  BY DEF PointerMoves, Resync, Grab, Ungrab, ThreadEnds, vars
<1> QED BY <1>3, <1>4

(* The router takes the first event: the others move up. *)
LEMMA Popped ==
  ASSUME Typed, ThereInv, inputs # <<>>, inputs' = Tail(inputs),
         \A k \in Things : k \in Held /\ Coming(k, {"down", "repeat"}) => k \in Held'
  PROVE  /\ \A k \in Things : (\E i \in 1..Len(inputs) : IsUp(inputs[i], k))
                                => IsUp(inputs[1], k) \/ \E i \in 1..Len(inputs') : IsUp(inputs'[i], k)
         /\ inputs[1].ev = "key" /\ inputs[1].act # "up" =>
              inputs[1].key \in Held \/ \E i \in 1..Len(inputs') : IsUp(inputs'[i], inputs[1].key)
         /\ \A i \in 1..Len(inputs') : inputs'[i].ev = "key" /\ inputs'[i].act # "up" =>
              inputs'[i].key \in Held' \/ \E j \in (i + 1)..Len(inputs') : IsUp(inputs'[j], inputs'[i].key)
<1>1. /\ Len(inputs) \in Nat /\ 1 \in 1..Len(inputs) /\ Len(inputs') = Len(inputs) - 1
      /\ \A i \in 1..Len(inputs') : inputs'[i] = inputs[i + 1]
  BY TypesIs, InputIs
<1>2. \A i \in 2..Len(inputs) : i - 1 \in 1..Len(inputs') /\ inputs'[i - 1] = inputs[i]
  BY <1>1
<1>3. \A k : \A i \in 1..Len(inputs) : IsUp(inputs[i], k)
        => IsUp(inputs[1], k) \/ \E j \in 1..Len(inputs') : IsUp(inputs'[j], k)
  <2> SUFFICES ASSUME NEW k, NEW i \in 2..Len(inputs), IsUp(inputs[i], k)
               PROVE  \E j \in 1..Len(inputs') : IsUp(inputs'[j], k)
    BY <1>1
  <2> QED BY <1>2
<1>4. inputs[1].ev = "key" /\ inputs[1].act # "up" =>
        inputs[1].key \in Held \/ \E i \in 1..Len(inputs') : IsUp(inputs'[i], inputs[1].key)
  <2> SUFFICES ASSUME inputs[1].ev = "key", inputs[1].act # "up", inputs[1].key \notin Held
               PROVE  \E i \in 1..Len(inputs') : IsUp(inputs'[i], inputs[1].key)
    OBVIOUS
  <2>1. \E j \in 2..Len(inputs) : IsUp(inputs[j], inputs[1].key)
    BY <1>1 DEF ThereInv
  <2> QED BY <1>2, <2>1
<1>5. ASSUME NEW i \in 1..Len(inputs'), inputs'[i].ev = "key", inputs'[i].act # "up",
             inputs'[i].key \notin Held'
      PROVE  \E j \in (i + 1)..Len(inputs') : IsUp(inputs'[j], inputs'[i].key)
  <2> DEFINE e == inputs[i + 1]
  <2>1. i + 1 \in 1..Len(inputs) /\ inputs'[i] = e /\ e \in Events
    BY <1>1, TypesIs
  <2>2. e.ev = "key" /\ e.act \in {"down", "repeat"} /\ e.key \in Things
    BY <1>5, <2>1 DEF Events
  <2>3. e.key \notin Held
    BY <1>5, <2>1, <2>2 DEF Coming
  <2>4. \E j \in (i + 2)..Len(inputs) : IsUp(inputs[j], e.key)
    BY <1>5, <2>1, <2>2, <2>3 DEF ThereInv
  <2>5. PICK j \in (i + 2)..Len(inputs) : IsUp(inputs[j], e.key)
    BY <2>4
  <2>6. j - 1 \in (i + 1)..Len(inputs') /\ inputs'[j - 1] = inputs[j]
    BY <1>1, <2>5
  <2> QED BY <2>1, <2>5, <2>6
<1> QED BY <1>3, <1>4, <1>5

LEMMA RouteThere ==
  ASSUME Typed, ThereInv, Route
  PROVE  ThereInv'
<1>1. inputs # <<>> /\ inputs' = Tail(inputs) /\ phys' = phys /\ inputs[1] \in Events
  BY RouteIs, InputIs
<1>2. /\ osDown \subseteq {pressed[k] : k \in Things}
      /\ ~ remote => osDown = {} /\ \A k \in Things : pressed[k] = None
      /\ \A k \in Things : pressed[k] # None => k \in Held \/ \E i \in 1..Len(inputs) : IsUp(inputs[i], k)
  BY DEF ThereInv
<1>3. pressed \in [Things -> OsKeys \cup {None}] /\ None \notin osDown
  BY TypesIs, NoneIsNoKey
<1>4. ASSUME astray' = astray
      PROVE  \A k \in Things : k \in Held /\ Coming(k, {"down", "repeat"}) => k \in Held'
  BY <1>1, <1>4 DEF Held
<1>5. ASSUME UNCHANGED <<sink, astray>>, remote => remote', inputs[1].ev # "key" \/ ~ remote
      PROVE  ThereInv'
  <2>1. \A k \in Things : k \in Held' <=> k \in Held
    BY <1>1, <1>5 DEF Held
  <2>2. \A k \in Things : pressed'[k] # None => k \in Held' \/ \E i \in 1..Len(inputs') : IsUp(inputs'[i], k)
    <3> SUFFICES ASSUME NEW k \in Things, pressed'[k] # None, k \notin Held'
                 PROVE  \E i \in 1..Len(inputs') : IsUp(inputs'[i], k)
      OBVIOUS
    <3>1. pressed[k] # None /\ k \notin Held /\ remote
      BY <1>2, <1>5, <2>1 DEF sink
    <3>2. ~ IsUp(inputs[1], k)
      BY <1>5, <3>1 DEF IsUp
    <3> QED BY <1>1, <1>2, <1>4, <1>5, <3>1, <3>2, Popped
  <2>3. /\ osDown' \subseteq {pressed'[k] : k \in Things}
        /\ ~ remote' => osDown' = {} /\ \A k \in Things : pressed'[k] = None
    BY <1>2, <1>5 DEF sink
  <2>4. \A i \in 1..Len(inputs') : inputs'[i].ev = "key" /\ inputs'[i].act # "up" =>
              inputs'[i].key \in Held' \/ \E j \in (i + 1)..Len(inputs') : IsUp(inputs'[j], inputs'[i].key)
    BY <1>1, <1>4, <1>5, Popped
  <2> QED BY <2>2, <2>3, <2>4 DEF ThereInv
<1>6. CASE Ignored /\ (inputs[1].ev = "key" => ~ remote)
  BY <1>5, <1>6 DEF Ignored
<1>7. CASE inputs[1].ev # "key" /\ Enter
  BY <1>5, <1>7 DEF Enter
<1>8. CASE GoLocal \/ GrabFailed
  <2>1. SinkLeave
    BY <1>8 DEF GoLocal, GrabFailed
  <2>2. \A k \in Things : k \in Held /\ Coming(k, {"down", "repeat"}) => k \in Held'
    BY <1>1, <2>1 DEF Held, SinkLeave
  <2>3. osDown' = {} /\ \A k \in Things : pressed'[k] = None
    BY <1>2, <2>1 DEF SinkLeave
  <2>4. \A i \in 1..Len(inputs') : inputs'[i].ev = "key" /\ inputs'[i].act # "up" =>
              inputs'[i].key \in Held' \/ \E j \in (i + 1)..Len(inputs') : IsUp(inputs'[j], inputs'[i].key)
    BY <1>1, <2>2, Popped
  <2> QED BY <2>3, <2>4 DEF ThereInv
<1>9. ASSUME inputs[1] \in [ev : {"key"}, key : Things, act : {"down", "repeat", "up"},
                            os : OsKeys \cup {None}],
             remote, SinkKey(inputs[1]), UNCHANGED <<remote, astray>>
      PROVE  ThereInv'
  <2> DEFINE e == inputs[1]
             key == e.key
             o == IF pressed[key] = None THEN e.os ELSE pressed[key]
  <2>1. key \in Things /\ e.ev = "key" /\ e.act \in {"down", "repeat", "up"}
    BY <1>9
  <2>2. /\ e.act # "up" => pressed' = [pressed EXCEPT ![key] = o] /\ osDown' = osDown \cup ({o} \ {None})
        /\ e.act = "up" => pressed' = [pressed EXCEPT ![key] = None] /\ osDown' = osDown \ {pressed[key]}
    BY <1>9 DEF SinkKey
  <2>3. \A k \in Things : k # key => pressed'[k] = pressed[k] /\ ~ IsUp(e, k)
    BY <1>3, <2>1, <2>2 DEF IsUp
  <2>4. /\ e.act # "up" => pressed'[key] = o
        /\ e.act = "up" => pressed'[key] = None
    BY <1>3, <2>1, <2>2
  <2>5. \A k \in Things : k \in Held' <=> k \in Held
    BY <1>1, <1>9 DEF Held
  <2>6. pressed[key] # None => o = pressed[key]
    OBVIOUS
  <2> HIDE DEF o, key, e
  <2>7. osDown' \subseteq {pressed'[k] : k \in Things}
    <3> SUFFICES ASSUME NEW y \in osDown'
                 PROVE  \E k \in Things : pressed'[k] = y
      OBVIOUS
    <3>1. CASE y = o /\ e.act # "up"
      BY <2>1, <2>4, <3>1
    <3>2. CASE y \in osDown
      <4> PICK k \in Things : y = pressed[k]
        BY <1>2, <3>2
      <4>1. CASE k # key
        BY <2>3, <4>1
      <4>2. CASE k = key
        <5>1. y # None
          BY <1>3, <3>2
        <5>2. e.act # "up" /\ y = o
          BY <2>1, <2>2, <2>6, <4>2, <5>1
        <5> QED BY <3>1, <5>2
      <4> QED BY <4>1, <4>2
    <3> QED BY <2>1, <2>2, <3>1, <3>2
  <2>8. \A k \in Things : pressed'[k] # None => k \in Held' \/ \E i \in 1..Len(inputs') : IsUp(inputs'[i], k)
    <3> SUFFICES ASSUME NEW k \in Things, pressed'[k] # None, k \notin Held'
                 PROVE  \E i \in 1..Len(inputs') : IsUp(inputs'[i], k)
      OBVIOUS
    <3>1. k \notin Held
      BY <2>5
    <3>2. CASE k # key
      <4>1. pressed[k] # None /\ ~ IsUp(inputs[1], k)
        BY <2>3, <3>2 DEF e
      <4> QED BY <1>1, <1>2, <1>4, <1>9, <3>1, <4>1, Popped
    <3>3. CASE k = key
      <4>1. e.act # "up"
        BY <2>4, <3>3
      <4>2. inputs[1].ev = "key" /\ inputs[1].act # "up" /\ inputs[1].key = k
        BY <2>1, <3>3, <4>1 DEF e, key
      <4> QED BY <1>1, <1>4, <1>9, <3>1, <4>2, Popped
    <3> QED BY <3>2, <3>3
  <2>9. \A i \in 1..Len(inputs') : inputs'[i].ev = "key" /\ inputs'[i].act # "up" =>
              inputs'[i].key \in Held' \/ \E j \in (i + 1)..Len(inputs') : IsUp(inputs'[j], inputs'[i].key)
    BY <1>1, <1>4, <1>9, Popped
  <2>10. remote'
    BY <1>9
  <2> QED BY <2>7, <2>8, <2>9, <2>10 DEF ThereInv
<1> QED BY <1>6, <1>7, <1>8, <1>9, RouteIs

LEMMA StopThere ==
  ASSUME Typed, ThereInv, Stop
  PROVE  ThereInv'
<1>1. inputs' = <<>> /\ osDown' = {} /\ \A k \in Things : pressed'[k] = None
  BY DEF Stop, ThereInv
<1> QED BY <1>1 DEF ThereInv

(* What a client's system has down is what its sink holds for a key, and that is down at   *)
(* the server too, or its release is on its way, or the grab that would have reported it   *)
(* is over (EnigoSink.held_keys, HookState.keys).                                          *)
THEOREM NothingStaysThere == Spec => []NothingStuckThere
<1>1. Init => ThereInv
  BY DEF Init, ThereInv
<1>2. ASSUME Typed, ThereInv, [Next]_vars
      PROVE  ThereInv'
  <2>1. ASSUME NEW k \in Things, NEW down \in BOOLEAN,
               (Press(k) /\ down) \/ (Release(k) /\ ~ down) \/ (AutoRepeat /\ k = repeating /\ down)
        PROVE  ThereInv'
    BY <1>2, <2>1, HandIs, EventThere
  <2>2. AutoRepeat => repeating \in Things
    BY <1>2, TypesIs DEF AutoRepeat, Things
  <2> QED BY <1>2, <2>1, <2>2, QuietThere, RouteThere, StopThere DEF Next
<1>3. Typed /\ ThereInv => NothingStuckThere
  BY DEF ThereInv, Held, IsUp, Coming, NothingStuckThere
<1>4. Spec => [](Typed /\ ThereInv)
  BY <1>1, <1>2, InitTyped, NextTyped, PTL DEF Spec
<1> QED BY <1>3, <1>4, PTL

-----------------------------------------------------------------------------
(* The hotkey. *)

LEMMA EventChord ==
  ASSUME Typed, ChordInv, NEW k \in Things, NEW down \in BOOLEAN, Event(k, down),
         phys' = (IF down THEN phys \cup {k} ELSE phys \ {k})
  PROVE  ChordInv'
<1> SUFFICES ASSUME thread # "gone"
             PROVE  /\ \A m \in Mods \ misled' : m \in modsHeld' <=> m \in phys'
                    /\ hotkeyDown' /\ HotKey \notin misled' => HotKey \in phys'
  BY EventIs DEF ChordInv
<1>1. /\ \A m \in Mods \ misled : m \in modsHeld <=> m \in phys
      /\ hotkeyDown /\ HotKey \notin misled => HotKey \in phys
  BY DEF ChordInv
<1>2. \A m : m # k => (m \in phys' <=> m \in phys)
  OBVIOUS
<1>3. CASE Hooked(k, down) /\ modsHeld' = Tracked(k, down) /\ misled' = misled \ {k}
  <2>1. \A m \in Mods \ misled' : m \in modsHeld' <=> m \in phys'
    BY <1>1, <1>2, <1>3 DEF Tracked
  <2>2. k = HotKey => hotkeyDown' \in {FALSE, down}
    <3>1. OnHotkey(k, down) \/ OnHotkeysEnd(k, down) \/ LeftAlone(k, down) \/ Swallow(k, down)
      BY <1>3 DEF Hooked
    <3>2. OnHotkey(k, down) => down /\ hotkeyDown' = TRUE
      BY DEF OnHotkey, IsHotkey
    <3>3. k = HotKey /\ (LeftAlone(k, down) \/ Swallow(k, down)) => ~ hotkeyDown /\ UNCHANGED hotkeyDown
      BY DEF LeftAlone, Swallow, EndsHotkey
    <3> QED BY <3>1, <3>2, <3>3, TypesIs DEF OnHotkeysEnd
  <2>3. k # HotKey => UNCHANGED hotkeyDown
    BY <1>3 DEF Hooked, OnHotkey, OnHotkeysEnd, LeftAlone, Swallow, IsHotkey, EndsHotkey
  <2>4. CASE k = HotKey
    <3>1. CASE down
      <4>1. HotKey \in phys'
        BY <2>4, <3>1
      <4> QED BY <2>1, <4>1
    <3>2. CASE ~ down
      <4>1. hotkeyDown' = FALSE
        BY <2>2, <2>4, <3>2
      <4> QED BY <2>1, <4>1
    <3> QED BY <3>1, <3>2
  <2>5. CASE k # HotKey
    BY <1>1, <1>2, <1>3, <2>1, <2>3, <2>5
  <2> QED BY <2>4, <2>5
<1>4. CASE UNCHANGED <<hotkeyDown, modsHeld>> /\ misled' = misled \cup ({k} \cap (Mods \cup {HotKey}))
  BY <1>1, <1>2, <1>4
<1> QED BY <1>3, <1>4, EventIs

LEMMA OthersChord ==
  ASSUME Typed, ChordInv,
         PointerMoves \/ Resync \/ Grab \/ Ungrab \/ ThreadEnds \/ Route \/ Stop \/ UNCHANGED vars
  PROVE  ChordInv'
<1>1. UNCHANGED <<phys, hotkeyDown>>
  BY DEF PointerMoves, Resync, Grab, Ungrab, ThreadEnds, LetGo, Route, Stop, vars, hook
<1>2. thread' = thread \/ thread # "gone" \/ thread' = "gone"
  BY DEF PointerMoves, Resync, Grab, Ungrab, ThreadEnds, LetGo, Route, Stop, vars
<1>3. UNCHANGED <<modsHeld, misled>> \/ ReadBack
  BY DEF PointerMoves, Resync, Grab, Ungrab, ThreadEnds, LetGo, Route, Stop, vars, hook
<1>4. CASE UNCHANGED <<modsHeld, misled>>
  BY <1>1, <1>2, <1>4 DEF ChordInv
<1>5. CASE ReadBack
  <2>1. \A m \in Mods \ misled' : m \in modsHeld' <=> m \in phys
    BY <1>5 DEF ReadBack
  <2>2. HotKey \in misled => HotKey \in misled'
    BY <1>5 DEF ReadBack
  <2> QED BY <1>1, <1>2, <2>1, <2>2 DEF ChordInv
<1> QED BY <1>3, <1>4, <1>5

(* The hook was not told wrong of any key of the chord, nor of the hotkey's. *)
Unmisled == misled \cap ({HotKey} \cup UNION Chord) = {}

LEMMA HotkeyEvent ==
  ASSUME Typed, ChordInv, Event(HotKey, TRUE), skips' = skips, HotKey \notin phys,
         Unmisled, thread = "up"
  PROVE  Told <=> InTruth
<1>1. HotKey \in Things /\ HotKey \notin Mods /\ \A side \in Chord : side \subseteq Mods
  BY WindowsAssumption DEF Things
<1>2. /\ Len(inputs) \in Nat
      /\ OnHotkey(HotKey, TRUE) \/ OnHotkeysEnd(HotKey, TRUE) \/ LeftAlone(HotKey, TRUE) \/ Swallow(HotKey, TRUE)
  <2>1. Len(inputs) \in Nat /\ skips \in Nat
    BY TypesIs
  <2>2. ~ Skipped(HotKey, TRUE)
    BY <2>1 DEF Skipped
  <2> QED BY <2>1, <2>2 DEF Event, Hooked
<1>3. /\ \A side \in Chord : \A m \in side : m \in modsHeld <=> m \in phys
      /\ ~ hotkeyDown
  BY <1>1 DEF ChordInv, Unmisled
<1>4. ChordHeld <=> InTruth
  BY <1>1, <1>3 DEF ChordHeld, InTruth
<1>5. CASE ChordHeld
  <2>1. OnHotkey(HotKey, TRUE)
    BY <1>2, <1>5 DEF OnHotkeysEnd, LeftAlone, Swallow, EndsHotkey, IsHotkey
  <2>2. Len(inputs) < MaxInputs /\ inputs' = Append(inputs, Other("hotkey"))
    BY <1>3, <2>1 DEF OnHotkey, Hear
  <2>3. Other("hotkey") \in Events /\ Other("hotkey").ev = "hotkey"
    BY DEF Other, Events
  <2> HIDE DEF Other
  <2>4. Len(inputs') = Len(inputs) + 1 /\ inputs'[Len(inputs')].ev = "hotkey"
    BY <2>2, <2>3, AppendIs
  <2> QED BY <1>2, <1>4, <1>5, <2>4 DEF Told
<1>6. CASE ~ ChordHeld
  <2>1. ~ OnHotkey(HotKey, TRUE)
    BY <1>6 DEF OnHotkey, IsHotkey
  <2>2. UNCHANGED inputs \/ (\E e \in Events : Len(inputs) < MaxInputs /\ inputs' = Append(inputs, e) /\ e.ev = "key")
    BY <1>1, <1>2, <2>1, HookTells DEF Says
  <2>3. ~ Told
    <3>1. CASE UNCHANGED inputs
      BY <1>2, <3>1 DEF Told
    <3>2. CASE \E e \in Events : Len(inputs) < MaxInputs /\ inputs' = Append(inputs, e) /\ e.ev = "key"
      BY <1>2, <3>2, AppendIs DEF Told
    <3> QED BY <2>2, <3>1, <3>2
  <2> QED BY <1>4, <1>6, <2>3
<1> QED BY <1>5, <1>6

(* The hotkey is told when a Ctrl and an Alt are down in truth and only then, under a grab  *)
(* or not, whatever commands wait and whatever hook calls were skipped before, once the     *)
(* hook's last word on each of the keys is right: its call was not skipped, and Windows     *)
(* knew it when read back (HookState.held, hotkey_down, resync).                            *)
THEOREM HotkeyTold == Spec => HotkeyIsTheChord
<1>1. Init => ChordInv
  BY DEF Init, ChordInv
<1>2. ASSUME Typed, ChordInv, [Next]_vars
      PROVE  ChordInv'
  <2>1. ASSUME NEW k \in Things, NEW down \in BOOLEAN,
               (Press(k) /\ down) \/ (Release(k) /\ ~ down) \/ (AutoRepeat /\ k = repeating /\ down)
        PROVE  ChordInv'
    BY <1>2, <2>1, HandIs, EventChord
  <2>2. AutoRepeat => repeating \in Things
    BY <1>2, TypesIs DEF AutoRepeat, Things
  <2> QED BY <1>2, <2>1, <2>2, OthersChord DEF Next
<1>3. ASSUME Typed, ChordInv, Next, Asked, Unmisled, thread = "up"
      PROVE  Told <=> InTruth
  <2>1. phys' # phys /\ HotKey \in phys' /\ HotKey \notin phys /\ skips' = skips
    BY <1>3 DEF Asked
  <2>2. ~ (PointerMoves \/ Resync \/ Grab \/ Ungrab \/ ThreadEnds \/ Route \/ Stop \/ AutoRepeat)
    BY <2>1 DEF PointerMoves, Resync, Grab, Ungrab, ThreadEnds, Route, Stop, AutoRepeat
  <2>3. \E k \in Things : Press(k) /\ k = HotKey
    BY <1>3, <2>1, <2>2 DEF Next, Press, Release
  <2>4. Event(HotKey, TRUE)
    BY <2>3 DEF Press
  <2> QED BY <1>3, <2>1, <2>4, HotkeyEvent
<1>4. ASSUME Typed, ChordInv, [Next]_vars
      PROVE  [Asked /\ misled \cap ({HotKey} \cup UNION Chord) = {} /\ thread = "up"
                => (Told <=> InTruth)]_vars
  BY <1>3, <1>4 DEF Unmisled
<1>5. Spec => [](Typed /\ ChordInv)
  BY <1>1, <1>2, InitTyped, NextTyped, PTL DEF Spec
<1> QED BY <1>4, <1>5, PTL DEF Spec, HotkeyIsTheChord
=============================================================================
