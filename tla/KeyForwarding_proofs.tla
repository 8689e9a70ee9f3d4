----------------------- MODULE KeyForwarding_proofs -----------------------
(***************************************************************************)
(* Theorems about KeyForwarding, for any keyboard, chord, rules and bounds.*)
(***************************************************************************)
EXTENDS KeyForwarding, TLAPS

----------------------------------------------------------------------------
(* Types.                                                                  *)

Event == KeyEvent \cup OtherEvent

\* What the capture thread reports is an event.
LEMMA ReportTypes ==
  ASSUME TypeOK
  PROVE  /\ \A e \in {"hotkey", "pointer", "motion"} : Other(e) \in Event
         /\ \A act \in Press \cup {"up"}, k \in Keys : [ev |-> act, key |-> k, mods |-> ModsDown] \in Event
         /\ \A e \in Event : Report(e) => inputs' \in Seq(Event)
<1>1. ModsDown \subseteq Mods
  BY DEF ModsDown
<1>2. \A e \in {"hotkey", "pointer", "motion"} : Other(e) \in Event
  BY DEF Other, Event, OtherEvent
<1>3. \A act \in Press \cup {"up"}, k \in Keys : [ev |-> act, key |-> k, mods |-> ModsDown] \in Event
  BY <1>1 DEF Event, KeyEvent
<1>4. ASSUME NEW e \in Event, Report(e) PROVE inputs' \in Seq(Event)
  BY <1>4 DEF Report, TypeOK, Event
<1> QED
  BY <1>2, <1>3, <1>4

LEMMA PressTypes ==
  ASSUME TypeOK, NEW k \in Keys, OnKeyPress(k)
  PROVE  inputs' \in Seq(Event) /\ pressed' \in SUBSET Keys
<1>1. "down" \in Press /\ "repeat" \in Press
  BY DEF Press
<1>2. (IF k \in pressed THEN "repeat" ELSE "down") \in Press \cup {"up"}
  BY <1>1
<1>3. CASE ChordKey(k)
  BY <1>3, ReportTypes DEF OnKeyPress, TypeOK
<1>4. CASE ~ ChordKey(k)
  BY <1>2, <1>4, ReportTypes DEF OnKeyPress, ReportKey, TypeOK
<1> QED
  BY <1>3, <1>4

LEMMA ReleaseTypes ==
  ASSUME TypeOK, NEW k \in Keys, OnKeyRelease(k)
  PROVE  inputs' \in Seq(Event) /\ pressed' \in SUBSET Keys
<1>1. CASE ChordKey(k)
  BY <1>1 DEF OnKeyRelease, TypeOK, Event
<1>2. CASE ~ ChordKey(k)
  BY <1>2, ReportTypes DEF OnKeyRelease, ReportKey, TypeOK
<1> QED
  BY <1>1, <1>2

\* The first event, when it is a key's.
LEMMA HeadTypes ==
  ASSUME TypeOK, inputs # <<>>, Head(inputs).ev \in Press \cup {"up"}
  PROVE  Head(inputs) \in KeyEvent /\ Head(inputs).key \in Keys /\ Head(inputs).mods \subseteq Mods
<1>1. Head(inputs) \in Event
  BY DEF TypeOK, Event
<1>2. Head(inputs) \notin OtherEvent
  BY DEF OtherEvent, Press
<1> QED
  BY <1>1, <1>2 DEF Event, KeyEvent

\* Messages that are forwarded.
LEMMA ForwardTypes ==
  ASSUME TypeOK, NEW msgs \in Seq(Msg), Forward(msgs)
  PROVE  wire' \in Seq(Msg)
  BY DEF Forward, TypeOK

\* A message about one key or action; the modifiers that are let go.
LEMMA MsgTypes ==
  /\ \A act \in Press \cup {"up"}, hids \in SUBSET Hids : <<Sent(act, hids)>> \in Seq(Msg)
  /\ \A r \in Rules : <<LetGo(r), Sent("down", {r.action})>> \in Seq(Msg)
<1>1. \A act \in Press \cup {"up"}, hids \in SUBSET Hids : Sent(act, hids) \in Msg
  BY DEF Sent, Msg
<1>2. ASSUME NEW r \in Rules PROVE LetGo(r) \in Msg /\ Sent("down", {r.action}) \in Msg
  <2>1. r.mods \subseteq Mods /\ r.action \in Actions
    BY KeysAssumption DEF Rule
  <2>2. UNION {KeysOf[m] : m \in r.mods} \subseteq Hids
    BY <2>1, KeysAssumption DEF Hids
  <2>3. {r.action} \subseteq Hids
    BY <2>1 DEF Hids
  <2> QED
    BY <1>1, <2>2, <2>3 DEF LetGo, Press
<1> HIDE DEF Msg, Sent, LetGo
<1>3. \A x, y \in Msg : <<x>> \in Seq(Msg) /\ <<x, y>> \in Seq(Msg)
  OBVIOUS
<1> QED
  BY <1>1, <1>2, <1>3

LEMMA HandleKeyTypes ==
  ASSUME TypeOK, HandleKey
  PROVE  wire' \in Seq(Msg) /\ fired' \in [Keys -> Actions \cup {NoAction}]
<1> DEFINE e == Head(inputs)
<1>0. e \in KeyEvent /\ e.key \in Keys /\ e.ev \in Press \cup {"up"}
  BY HeadTypes DEF HandleKey
<1>1. CASE StandsForAction(e)
  <2>1. fired[e.key] \in Actions
    BY <1>0, <1>1 DEF StandsForAction, TypeOK
  <2>2. {fired[e.key]} \in SUBSET Hids
    BY <2>1 DEF Hids
  <2>3. wire' \in Seq(Msg)
    BY <1>0, <1>1, <2>2, MsgTypes, ForwardTypes DEF StandsForAction
  <2>4. fired' \in [Keys -> Actions \cup {NoAction}]
    BY <1>0, <1>1 DEF StandsForAction, TypeOK
  <2> QED
    BY <2>3, <2>4
<1>2. CASE FiresRule(e)
  <2>1. PICK r \in Rules : /\ Forward(<<LetGo(r), Sent("down", {r.action})>>)
                           /\ fired' = [fired EXCEPT ![e.key] = r.action]
    BY <1>2 DEF FiresRule, Fits
  <2>2. wire' \in Seq(Msg)
    BY <2>1, MsgTypes, ForwardTypes
  <2>3. r.action \in Actions
    BY KeysAssumption DEF Rule
  <2>4. fired' \in [Keys -> Actions \cup {NoAction}]
    BY <1>0, <2>1, <2>3 DEF TypeOK
  <2> QED
    BY <2>2, <2>4
<1>3. CASE StandsForItself(e)
  <2>1. {e.key} \in SUBSET Hids
    BY <1>0 DEF Hids
  <2>2. wire' \in Seq(Msg)
    BY <1>0, <1>3, <2>1, MsgTypes, ForwardTypes DEF StandsForItself
  <2> QED
    BY <1>3, <2>2 DEF StandsForItself, TypeOK
<1> QED
  BY <1>1, <1>2, <1>3 DEF HandleKey

\* A Leave is a message.
LEMMA LeaveType == Leave \in Msg
  BY DEF Leave, Sent, Msg

LEMMA CommandTypes ==
  ASSUME TypeOK, NEW c \in {"grab", "ungrab"}, Command(c)
  PROVE  cmds' \in Seq({"grab", "ungrab"})
  BY DEF Command, TypeOK

LEMMA InitTypes == Init => TypeOK
<1> SUFFICES ASSUME Init PROVE TypeOK
  OBVIOUS
<1>1. <<>> \in Seq(KeyEvent \cup OtherEvent) /\ <<>> \in Seq({"grab", "ungrab"}) /\ <<>> \in Seq(Msg)
  OBVIOUS
<1>2. fired \in [Keys -> Actions \cup {NoAction}]
  BY DEF Init
<1> QED
  BY <1>1, <1>2, Zenon DEF Init, TypeOK

\* The variables of the user and the capture thread, and those of the router and the client.
UserTypes ==
  /\ physical \in SUBSET Keys /\ grabbed \in BOOLEAN /\ pressed \in SUBSET Keys
  /\ hotkeyDown \in BOOLEAN /\ inputs \in Seq(Event)
  /\ astray \in SUBSET Keys
RouterTypes ==
  /\ cmds \in Seq({"grab", "ungrab"}) /\ linked \in BOOLEAN /\ remote \in BOOLEAN
  /\ fired \in [Keys -> Actions \cup {NoAction}]
ClientTypes == wire \in Seq(Msg) /\ held \in SUBSET Hids

LEMMA TypeParts ==
  /\ TypeOK <=> UserTypes /\ RouterTypes /\ ClientTypes
  /\ TypeOK' <=> UserTypes' /\ RouterTypes' /\ ClientTypes'
  BY DEF TypeOK, UserTypes, RouterTypes, ClientTypes, Event

LEMMA NextUserTypes == TypeOK /\ [Next]_vars => UserTypes'
<1> SUFFICES ASSUME TypeOK, [Next]_vars PROVE UserTypes'
  OBVIOUS
<1>0. UserTypes
  BY TypeParts
<1> USE DEF captureVars
<1>1. ASSUME NEW k \in Keys, KeyDown(k) PROVE UserTypes'
  <2>1. inputs' \in Seq(Event) /\ pressed' \in SUBSET Keys
    BY <1>0, <1>1, PressTypes DEF KeyDown, UserTypes
  <2> QED
    BY <1>0, <1>1, <2>1, Zenon DEF KeyDown, UserTypes
<1>2. ASSUME NEW k \in Keys, KeyUp(k) PROVE UserTypes'
  <2>1. inputs' \in Seq(Event) /\ pressed' \in SUBSET Keys
    BY <1>0, <1>2, ReleaseTypes DEF KeyUp, UserTypes
  <2>2. astray' \in SUBSET Keys /\ physical' \in SUBSET Keys
    BY <1>0, <1>2 DEF KeyUp, UserTypes
  <2> QED
    BY <1>0, <1>2, <2>1, <2>2, Zenon DEF KeyUp, UserTypes
<1>3. ASSUME NEW k \in Keys, AutoRepeat(k) PROVE UserTypes'
  <2>1. inputs' \in Seq(Event) /\ pressed' \in SUBSET Keys
    BY <1>3, PressTypes DEF AutoRepeat
  <2> QED
    BY <1>0, <1>3, <2>1, Zenon DEF AutoRepeat, UserTypes
<1>4. CASE PollHotkey
  <2>1. inputs' \in Seq(Event)
    BY <1>0, <1>4, ReportTypes DEF PollHotkey, UserTypes
  <2>2. hotkeyDown' \in BOOLEAN
    BY <1>4 DEF PollHotkey
  <2> QED
    BY <1>0, <1>4, <2>1, <2>2, Zenon DEF PollHotkey, UserTypes
<1>5. CASE PointerMoves
  <2>1. inputs' \in Seq(Event)
    BY <1>5, ReportTypes DEF PointerMoves
  <2> QED
    BY <1>0, <1>5, <2>1, Zenon DEF PointerMoves, UserTypes
<1>6. CASE CaptureObeys
  <2>1. grabbed' \in BOOLEAN /\ hotkeyDown' \in BOOLEAN
    BY <1>0, <1>6, Zenon DEF CaptureObeys, UserTypes
  <2>2. pressed' \in SUBSET Keys /\ astray' \in SUBSET Keys
    BY <1>0, <1>6 DEF CaptureObeys, UserTypes
  <2> QED
    BY <1>0, <1>6, <2>1, <2>2, Zenon DEF CaptureObeys, UserTypes
<1>7. CASE HandleKey
  <2>1. inputs' \in Seq(Event)
    BY <1>0, <1>7 DEF HandleKey, UserTypes
  <2> QED
    BY <1>0, <1>7, <2>1, Zenon DEF HandleKey, UserTypes
<1>8. CASE HandleOther
  <2>1. inputs' \in Seq(Event)
    BY <1>0, <1>8 DEF HandleOther, UserTypes
  <2>2. astray' \in SUBSET Keys
    BY <1>0, <1>8 DEF HandleOther, GoLocal, Enter, UserTypes
  <2> QED
    BY <1>0, <1>8, <2>1, <2>2, Zenon DEF HandleOther, UserTypes
<1>9. CASE ClientReads \/ ClientBack
  BY <1>0, <1>9, Zenon DEF ClientReads, ClientBack, UserTypes
<1>10. CASE ClientGone
  <2>1. astray' \in SUBSET Keys
    BY <1>0, <1>10 DEF ClientGone, UserTypes
  <2> QED
    BY <1>0, <1>10, <2>1, Zenon DEF ClientGone, UserTypes
<1>11. CASE UNCHANGED vars
  BY <1>0, <1>11, Zenon DEF vars, UserTypes
<1> QED
  BY <1>1, <1>2, <1>3, <1>4, <1>5, <1>6, <1>7, <1>8, <1>9, <1>10, <1>11 DEF Next, UserStep, RouterStep

LEMMA NextRouterTypes == TypeOK /\ [Next]_vars => RouterTypes'
<1> SUFFICES ASSUME TypeOK, [Next]_vars PROVE RouterTypes'
  OBVIOUS
<1>0. RouterTypes
  BY TypeParts
<1>a. ASSUME UNCHANGED <<cmds, routerVars>> PROVE RouterTypes'
  BY <1>0, <1>a, Zenon DEF routerVars, RouterTypes
<1>1. ASSUME NEW k \in Keys, KeyDown(k) \/ KeyUp(k) \/ AutoRepeat(k) PROVE RouterTypes'
  BY <1>1, <1>a DEF KeyDown, KeyUp, AutoRepeat
<1>2. CASE PollHotkey \/ PointerMoves \/ ClientReads
  BY <1>2, <1>a DEF PollHotkey, PointerMoves, ClientReads
<1>3. CASE CaptureObeys
  <2>1. cmds' \in Seq({"grab", "ungrab"})
    BY <1>0, <1>3 DEF CaptureObeys, RouterTypes
  <2> QED
    BY <1>0, <1>3, <2>1, Zenon DEF CaptureObeys, routerVars, RouterTypes
<1>4. CASE HandleKey
  <2>1. fired' \in [Keys -> Actions \cup {NoAction}]
    BY <1>4, HandleKeyTypes
  <2> QED
    BY <1>0, <1>4, <2>1, Zenon DEF HandleKey, RouterTypes
<1>5. CASE HandleOther
  <2>1. cmds' \in Seq({"grab", "ungrab"})
    BY <1>0, <1>5, CommandTypes DEF HandleOther, GoLocal, Enter, RouterTypes
  <2>2. remote' \in BOOLEAN
    BY <1>0, <1>5, Zenon DEF HandleOther, GoLocal, Enter, RouterTypes
  <2> QED
    BY <1>0, <1>5, <2>1, <2>2, Zenon DEF HandleOther, RouterTypes
<1>6. CASE ClientGone
  <2>1. cmds' \in Seq({"grab", "ungrab"})
    BY <1>0, <1>6, CommandTypes DEF ClientGone, RouterTypes
  <2> QED
    BY <1>0, <1>6, <2>1, Zenon DEF ClientGone, RouterTypes
<1>7. CASE ClientBack
  BY <1>0, <1>7, Zenon DEF ClientBack, RouterTypes
<1>8. CASE UNCHANGED vars
  BY <1>8, <1>a DEF vars
<1> QED
  BY <1>1, <1>2, <1>3, <1>4, <1>5, <1>6, <1>7, <1>8 DEF Next, UserStep, RouterStep

LEMMA NextClientTypes == TypeOK /\ [Next]_vars => ClientTypes'
<1> SUFFICES ASSUME TypeOK, [Next]_vars PROVE ClientTypes'
  OBVIOUS
<1>0. ClientTypes
  BY TypeParts
<1>a. ASSUME UNCHANGED <<wire, held>> PROVE ClientTypes'
  BY <1>0, <1>a DEF ClientTypes
<1>1. ASSUME NEW k \in Keys, KeyDown(k) \/ KeyUp(k) \/ AutoRepeat(k) PROVE ClientTypes'
  BY <1>1, <1>a DEF KeyDown, KeyUp, AutoRepeat
<1>2. CASE PollHotkey \/ PointerMoves \/ CaptureObeys \/ ClientBack
  BY <1>2, <1>a DEF PollHotkey, PointerMoves, CaptureObeys, ClientBack
<1>3. CASE HandleKey
  BY <1>0, <1>3, HandleKeyTypes DEF HandleKey, ClientTypes
<1>4. CASE HandleOther
  <2>1. Append(wire, Leave) \in Seq(Msg)
    BY <1>0, LeaveType DEF ClientTypes
  <2>2. wire' = Append(wire, Leave) \/ wire' = wire
    BY <1>4, Zenon DEF HandleOther, GoLocal, Enter
  <2>3. held' = held
    BY <1>4 DEF HandleOther
  <2> QED
    BY <1>0, <2>1, <2>2, <2>3 DEF ClientTypes
<1>5. CASE ClientReads
  <2>1. Head(wire) \in Msg /\ wire' \in Seq(Msg)
    BY <1>0, <1>5 DEF ClientReads, ClientTypes
  <2>2. Head(wire).hids \subseteq Hids
    BY <2>1 DEF Msg
  <2> QED
    BY <1>0, <1>5, <2>1, <2>2 DEF ClientReads, ClientTypes
<1>6. CASE ClientGone
  BY <1>6 DEF ClientGone, ClientTypes
<1>7. CASE UNCHANGED vars
  BY <1>7, <1>a DEF vars
<1> QED
  BY <1>1, <1>2, <1>3, <1>4, <1>5, <1>6, <1>7 DEF Next, UserStep, RouterStep

\* Every variable of the keyboard, the capture thread, the router and the client keeps
\* its type.
THEOREM KeyTypes == Spec => []TypeOK
  BY InitTypes, NextUserTypes, NextRouterTypes, NextClientTypes, TypeParts, PTL DEF Spec

----------------------------------------------------------------------------
(* What the client will hold.                                              *)

\* A message presses or releases, not both.
LEMMA PressIsNoRelease ==
  ASSUME NEW m \in Msg, NEW h
  PROVE  (Presses(m, h) => ~ Releases(m, h)) /\ (h \in m.hids => Presses(m, h) \/ Releases(m, h))
  BY DEF Msg, Presses, Releases, Press

\* Reading a message adds nothing to what the client will hold in the end.
LEMMA ReadingKeeps ==
  ASSUME TypeOK, ClientReads, NEW h, WillHold(h)'
  PROVE  WillHold(h)
<1>0. /\ Len(wire) \in Nat \ {0}
      /\ Len(wire') = Len(wire) - 1
      /\ \A j \in 1..Len(wire') : wire'[j] = wire[j + 1]
      /\ \A j \in 2..Len(wire) : j - 1 \in 1..Len(wire') /\ wire'[j - 1] = wire[j]
      /\ Head(wire) = wire[1] /\ wire[1] \in Msg /\ 1 \in 1..Len(wire)
  BY DEF ClientReads, TypeOK
<1>1. ASSUME NEW i \in 0..Len(wire'), KeptAfter(h, i)' PROVE KeptAfter(h, i + 1)
  <2> SUFFICES ASSUME NEW j \in 1..Len(wire), j > i + 1 PROVE ~ Releases(wire[j], h)
    BY DEF KeptAfter
  <2>1. j - 1 \in 1..Len(wire') /\ j - 1 > i /\ wire'[j - 1] = wire[j]
    BY <1>0, <1>1
  <2>2. ~ Releases(wire'[j - 1], h)
    BY <1>1, <2>1 DEF KeptAfter
  <2> QED
    BY <2>1, <2>2
<1>2. CASE \E i \in 1..Len(wire') : Presses(wire'[i], h) /\ KeptAfter(h, i)'
  <2>1. PICK i \in 1..Len(wire') : Presses(wire'[i], h) /\ KeptAfter(h, i)'
    BY <1>2
  <2>2. i + 1 \in 1..Len(wire) /\ Presses(wire[i + 1], h) /\ KeptAfter(h, i + 1)
    BY <1>0, <1>1, <2>1
  <2> QED
    BY <2>2 DEF WillHold
<1>3. CASE h \in held' /\ KeptAfter(h, 0)'
  <2>1. KeptAfter(h, 1)
    BY <1>0, <1>1, <1>3
  <2>2. CASE Presses(wire[1], h)
    BY <1>0, <2>1, <2>2 DEF WillHold
  <2>3. CASE ~ Presses(wire[1], h)
    <3>1. ~ Releases(wire[1], h) /\ h \in held
      BY <1>0, <1>3, <2>3, PressIsNoRelease DEF ClientReads, Releases
    <3>2. KeptAfter(h, 0)
      BY <1>0, <2>1, <3>1 DEF KeptAfter
    <3> QED
      BY <3>1, <3>2 DEF WillHold
  <2> QED
    BY <2>2, <2>3
<1> QED
  BY <1>2, <1>3 DEF WillHold

\* After a Leave nothing will be held.
LEMMA LeaveEmpties ==
  ASSUME TypeOK, wire' = Append(wire, Leave), NEW h \in Hids
  PROVE  ~ WillHold(h)'
<1>0. /\ Len(wire) \in Nat /\ Len(wire') = Len(wire) + 1
      /\ Len(wire') \in 1..Len(wire') /\ wire'[Len(wire')] = Leave
  BY DEF TypeOK
<1>1. Releases(Leave, h) /\ ~ Presses(Leave, h)
  BY DEF Leave, Sent, Releases, Presses, Press
<1>2. ASSUME NEW i \in 0..Len(wire), KeptAfter(h, i)' PROVE FALSE
  BY <1>0, <1>1, <1>2 DEF KeptAfter
<1>3. ASSUME NEW i \in 1..Len(wire'), Presses(wire'[i], h), KeptAfter(h, i)' PROVE FALSE
  BY <1>0, <1>1, <1>2, <1>3
<1> QED
  BY <1>0, <1>2, <1>3 DEF WillHold

LEMMA NextLeftDown == TypeOK /\ NothingLeftDown /\ [Next]_vars => NothingLeftDown'
<1> SUFFICES ASSUME TypeOK, NothingLeftDown, [Next]_vars, ~ remote', NEW h \in Hids
             PROVE  ~ WillHold(h)'
  BY DEF NothingLeftDown, Hids
<1>a. ASSUME UNCHANGED <<remote, wire, held>> PROVE ~ WillHold(h)'
  BY <1>a DEF NothingLeftDown, WillHold, KeptAfter
<1>1. ASSUME NEW k \in Keys, KeyDown(k) \/ KeyUp(k) \/ AutoRepeat(k) PROVE ~ WillHold(h)'
  BY <1>1, <1>a DEF KeyDown, KeyUp, AutoRepeat, routerVars
<1>2. CASE PollHotkey \/ PointerMoves \/ CaptureObeys \/ ClientBack
  BY <1>2, <1>a DEF PollHotkey, PointerMoves, CaptureObeys, ClientBack, routerVars
<1>3. CASE HandleKey
  <2>1. ~ remote /\ UNCHANGED <<remote, held>>
    BY <1>3 DEF HandleKey
  <2>2. wire' = wire
    BY <1>3, <2>1 DEF HandleKey, StandsForAction, FiresRule, StandsForItself, Forward
  <2> QED
    BY <1>a, <2>1, <2>2
<1>4. CASE HandleOther
  <2>1. CASE GoLocal
    BY <2>1, LeaveEmpties DEF GoLocal
  <2>2. CASE Enter
    BY <2>2, Zenon DEF Enter
  <2>3. CASE UNCHANGED <<remote, wire>>
    BY <1>4, <1>a, <2>3 DEF HandleOther
  <2> QED
    BY <1>4, <2>1, <2>2, <2>3 DEF HandleOther
<1>5. CASE ClientReads
  BY <1>5, ReadingKeeps DEF ClientReads, routerVars, NothingLeftDown
<1>6. CASE ClientGone
  BY <1>6 DEF ClientGone, WillHold
<1>7. CASE UNCHANGED vars
  BY <1>7, <1>a DEF vars, routerVars
<1> QED
  BY <1>1, <1>2, <1>3, <1>4, <1>5, <1>6, <1>7 DEF Next, UserStep, RouterStep

\* While the input is here the client will hold nothing once it has read what was sent:
\* whatever key events were queued behind the switch, go_local's Leave is the last word
\* and Core::forward sends nothing after it.
THEOREM NoKeyLeftDown == Spec => []NothingLeftDown
<1>1. Init => NothingLeftDown
  BY DEF Init, NothingLeftDown, WillHold
<1> QED
  BY <1>1, NextLeftDown, KeyTypes, PTL DEF Spec

----------------------------------------------------------------------------
(* A combination fires alone.                                              *)

\* A step that makes a key stand for an action forwards the release of the modifiers it
\* was pressed with and then the press of the action.
LEMMA FiringStep ==
  ASSUME TypeOK, [Next]_vars, NEW k \in Keys, fired[k] = NoAction, fired'[k] # NoAction
  PROVE  \E r \in Rules : /\ r.action = fired'[k] /\ r.mods = Head(inputs).mods
                          /\ wire' = wire \o <<LetGo(r), Sent("down", {r.action})>>
<1>a. fired' # fired
  OBVIOUS
<1>1. HandleKey
  <2>1. ASSUME NEW x \in Keys, KeyDown(x) \/ KeyUp(x) \/ AutoRepeat(x) PROVE FALSE
    BY <1>a, <2>1 DEF KeyDown, KeyUp, AutoRepeat, routerVars
  <2>2. ~ (PollHotkey \/ PointerMoves \/ CaptureObeys \/ ClientReads)
    BY <1>a DEF PollHotkey, PointerMoves, CaptureObeys, ClientReads, routerVars
  <2>3. ~ (HandleOther \/ ClientGone \/ ClientBack)
    BY <1>a DEF HandleOther, ClientGone, ClientBack
  <2>4. ~ UNCHANGED vars
    BY <1>a DEF vars, routerVars
  <2> QED
    BY <2>1, <2>2, <2>3, <2>4 DEF Next, UserStep, RouterStep
<1> DEFINE e == Head(inputs)
<1>2. e.key \in Keys
  BY <1>1, HeadTypes DEF HandleKey
<1>3. ~ StandsForItself(e)
  BY <1>a DEF StandsForItself
<1>4. ~ StandsForAction(e)
  BY <1>2 DEF StandsForAction, TypeOK
<1>5. FiresRule(e)
  BY <1>1, <1>3, <1>4 DEF HandleKey
<1>6. PICK r \in Rules : /\ r.mods = e.mods
                         /\ Forward(<<LetGo(r), Sent("down", {r.action})>>)
                         /\ fired' = [fired EXCEPT ![e.key] = r.action]
  BY <1>5 DEF FiresRule, Fits
<1>7. r.action = fired'[k]
  BY <1>2, <1>6 DEF TypeOK
<1>8. wire' = wire \o <<LetGo(r), Sent("down", {r.action})>>
  BY <1>5, <1>6 DEF FiresRule, Forward
<1> QED
  BY <1>6, <1>7, <1>8

\* After those two messages the client will hold the action and no key of the modifiers.
LEMMA LetGoBeforeAction ==
  ASSUME TypeOK, NEW r \in Rules, wire' = wire \o <<LetGo(r), Sent("down", {r.action})>>
  PROVE  /\ WillHold(r.action)'
         /\ \A m \in r.mods : \A h \in KeysOf[m] : ~ WillHold(h)'
<1> DEFINE n == Len(wire)
<1>0. /\ n \in Nat /\ Len(wire') = n + 2
      /\ wire'[n + 1] = LetGo(r) /\ wire'[n + 2] = Sent("down", {r.action})
      /\ n + 1 \in 1..Len(wire') /\ n + 2 \in 1..Len(wire')
  BY DEF TypeOK
<1>1. r.action \in Actions /\ r.mods \subseteq Mods
  BY KeysAssumption DEF Rule
<1>2. WillHold(r.action)'
  <2>1. ASSUME NEW i, i = n + 2 PROVE WillHold(r.action)'
    <3>1. i \in 1..Len(wire') /\ Presses(wire'[i], r.action)
      BY <1>0, <2>1 DEF Presses, Sent, Press
    <3>2. \A j \in 1..Len(wire') : ~ (j > i)
      BY <1>0, <2>1
    <3>3. KeptAfter(r.action, i)'
      BY <3>2 DEF KeptAfter
    <3> QED
      BY <3>1, <3>3 DEF WillHold
  <2> QED
    BY <2>1
<1>3. ASSUME NEW m \in r.mods, NEW h \in KeysOf[m] PROVE ~ WillHold(h)'
  <2>1. h \in Keys /\ h # r.action
    BY <1>1, KeysAssumption
  <2>2. Releases(wire'[n + 1], h)
    BY <1>0 DEF LetGo, Sent, Releases
  <2>3. ~ Presses(wire'[n + 1], h) /\ ~ Presses(wire'[n + 2], h)
    BY <1>0, <2>1 DEF LetGo, Sent, Presses, Press
  <2>4. ASSUME NEW i \in 0..n, KeptAfter(h, i)' PROVE FALSE
    BY <1>0, <2>2, <2>4 DEF KeptAfter
  <2>5. ASSUME NEW i \in 1..Len(wire'), Presses(wire'[i], h), KeptAfter(h, i)' PROVE FALSE
    BY <1>0, <2>3, <2>4, <2>5
  <2> QED
    BY <1>0, <2>4, <2>5 DEF WillHold
<1> QED
  BY <1>2, <1>3

\* When a combination fires, the client will hold its action and none of the keys, left
\* or right, of the modifiers it was pressed with (Core::on_key lets go of them first).
THEOREM CombinationFiresAlone == Spec => FiresAlone
<1> DEFINE Alone ==
      \A k \in Keys, a \in Actions : fired[k] = NoAction /\ fired'[k] = a =>
        /\ WillHold(a)'
        /\ \A m \in Head(inputs).mods : \A h \in KeysOf[m] : ~ WillHold(h)'
<1>1. TypeOK /\ [Next]_vars => [Alone]_vars
  <2> SUFFICES ASSUME TypeOK, [Next]_vars, NEW k \in Keys, NEW a \in Actions,
                      fired[k] = NoAction, fired'[k] = a
               PROVE  /\ WillHold(a)'
                      /\ \A m \in Head(inputs).mods : \A h \in KeysOf[m] : ~ WillHold(h)'
    OBVIOUS
  <2>0. a # NoAction
    BY KeysAssumption
  <2>1. PICK r \in Rules : /\ r.action = a /\ r.mods = Head(inputs).mods
                           /\ wire' = wire \o <<LetGo(r), Sent("down", {r.action})>>
    BY <2>0, FiringStep
  <2>2. WillHold(r.action)' /\ \A m \in r.mods : \A h \in KeysOf[m] : ~ WillHold(h)'
    BY <2>1, LetGoBeforeAction
  <2> QED
    BY <2>1, <2>2
<1> QED
  BY <1>1, KeyTypes, PTL DEF Spec, FiresAlone

----------------------------------------------------------------------------
(* What the client holds is accounted for.                                 *)

UpOf(k, e) == e.ev = "up" /\ e.key = k
PressOf(k, e) == e.ev \in Press /\ e.key = k

\* The router reads a release of k after the j-th event and before the i-th.
ReleasedIn(k, j, i) == \E m \in (j + 1)..(i - 1) : UpOf(k, inputs[m])

\* The client holds k, or k stands for an action, as far as the router has read.
Bears(k) == WillHold(k) \/ fired[k] # NoAction

\* When the router comes to its i-th event, nothing is left of earlier presses of k.
ClearBefore(k, i) ==
  /\ \A j \in 1..(i - 1) : PressOf(k, inputs[j]) => ReleasedIn(k, j, i)
  /\ Bears(k) => ReleasedIn(k, 0, i)
Clear(k) == ClearBefore(k, Len(inputs) + 1)

\* A key whose releases are all reported: what is up, or not known to be down, is clear or
\* will be; a first press finds it clear; and it does not stand for an action while the
\* client holds the key itself.
Order(k) ==
  /\ k \notin pressed => Clear(k)
  /\ k \notin physical => Clear(k)
  /\ \A i \in 1..Len(inputs) :
       inputs[i].ev = "down" /\ inputs[i].key = k => ClearBefore(k, i)
  /\ fired[k] # NoAction => ~ WillHold(k)

Ordered == \A k \in Keys \ astray : Order(k)

\* Without a grab no key is known to be down.
Resting == ~ grabbed => pressed = {}

\* An action the client holds is one that a key stands for.
Standing == \A a \in Actions : WillHold(a) => \E k \in Keys : fired[k] = a

HeldInv == TypeOK /\ NothingLeftDown /\ Resting /\ Ordered /\ Standing

LEMMA HoldFrame ==
  ASSUME UNCHANGED <<wire, held>>, NEW h
  PROVE  WillHold(h)' <=> WillHold(h)
  BY DEF WillHold, KeptAfter

\* Another event at the end of the queue.
LEMMA Appending ==
  ASSUME TypeOK, NEW e \in Event, inputs' = Append(inputs, e), NEW k, Bears(k)' => Bears(k)
  PROVE  /\ Len(inputs') = Len(inputs) + 1 /\ inputs'[Len(inputs) + 1] = e
         /\ \A i \in 1..Len(inputs) : inputs'[i] = inputs[i]
         /\ \A i \in 1..(Len(inputs) + 1) : ClearBefore(k, i) => ClearBefore(k, i)'
         /\ UpOf(k, e) => Clear(k)'
         /\ ~ PressOf(k, e) /\ Clear(k) => Clear(k)'
<1> DEFINE n == Len(inputs)
<1>0. /\ n \in Nat /\ Len(inputs') = n + 1 /\ inputs'[n + 1] = e
      /\ \A i \in 1..n : inputs'[i] = inputs[i]
  BY DEF TypeOK, Event
<1>1. \A j \in 0..n, i \in 1..(n + 1) : ReleasedIn(k, j, i) <=> ReleasedIn(k, j, i)'
  <2> SUFFICES ASSUME NEW j \in 0..n, NEW i \in 1..(n + 1)
               PROVE  ReleasedIn(k, j, i) <=> ReleasedIn(k, j, i)'
    OBVIOUS
  <2>1. \A m \in (j + 1)..(i - 1) : inputs'[m] = inputs[m]
    BY <1>0
  <2> QED
    BY <2>1 DEF ReleasedIn
<1>2. ASSUME NEW i \in 1..(n + 1), ClearBefore(k, i) PROVE ClearBefore(k, i)'
  <2>1. \A j \in 1..(i - 1) : j \in 0..n /\ inputs'[j] = inputs[j]
    BY <1>0
  <2>2. 0 \in 0..n
    BY <1>0
  <2> QED
    BY <1>1, <1>2, <2>1, <2>2 DEF ClearBefore
<1>3. ASSUME UpOf(k, e) PROVE Clear(k)'
  <2> SUFFICES ASSUME NEW i, i = Len(inputs') + 1 PROVE ClearBefore(k, i)'
    BY DEF Clear, ClearBefore, ReleasedIn
  <2>1. ASSUME NEW j \in 0..n PROVE ReleasedIn(k, j, i)'
    <3>1. n + 1 \in (j + 1)..(i - 1) /\ UpOf(k, inputs'[n + 1])
      BY <1>0, <1>3
    <3> QED
      BY <3>1 DEF ReleasedIn
  <2>2. ~ PressOf(k, e)
    BY <1>3 DEF UpOf, PressOf, Press
  <2>3. 0 \in 0..n /\ \A j \in 1..(i - 1) : j \in 0..n \/ j = n + 1
    BY <1>0
  <2> QED
    BY <1>0, <2>1, <2>2, <2>3 DEF ClearBefore
<1>4. ASSUME ~ PressOf(k, e), Clear(k) PROVE Clear(k)'
  <2> SUFFICES ASSUME NEW i, i = Len(inputs') + 1 PROVE ClearBefore(k, i)'
    BY DEF Clear, ClearBefore, ReleasedIn
  <2>1. ASSUME NEW j \in 0..n, ReleasedIn(k, j, n + 1) PROVE ReleasedIn(k, j, i)'
    <3>1. PICK m \in (j + 1)..(n + 1 - 1) : UpOf(k, inputs[m])
      BY <2>1 DEF ReleasedIn
    <3>2. m \in (j + 1)..(i - 1) /\ inputs'[m] = inputs[m]
      BY <1>0, <3>1
    <3> QED
      BY <3>1, <3>2 DEF ReleasedIn
  <2>2. \A j \in 1..(i - 1) : (j \in 1..(n + 1 - 1) /\ j \in 0..n /\ inputs'[j] = inputs[j]) \/ j = n + 1
    BY <1>0
  <2>3. 0 \in 0..n /\ ClearBefore(k, n + 1)
    BY <1>0, <1>4 DEF Clear
  <2> QED
    BY <1>0, <1>4, <2>1, <2>2, <2>3 DEF ClearBefore
<1> QED
  BY <1>0, <1>2, <1>3, <1>4

\* The first event is read: a release takes away what its key is borne for, and only a
\* press adds to it.
LEMMA Taking ==
  ASSUME TypeOK, inputs # <<>>, inputs' = Tail(inputs), NEW k,
         Bears(k)' => /\ ~ UpOf(k, Head(inputs))
                      /\ Bears(k) \/ PressOf(k, Head(inputs))
  PROVE  /\ Len(inputs') = Len(inputs) - 1 /\ Head(inputs) = inputs[1]
         /\ \A i \in 1..Len(inputs') : i + 1 \in 1..Len(inputs) /\ inputs'[i] = inputs[i + 1]
         /\ \A i \in 1..Len(inputs) : ClearBefore(k, i + 1) => ClearBefore(k, i)'
         /\ Clear(k) => Clear(k)'
<1> DEFINE n == Len(inputs)
<1>0. /\ n \in Nat \ {0} /\ Len(inputs') = n - 1 /\ Head(inputs) = inputs[1]
      /\ \A i \in 1..(n - 1) : i + 1 \in 1..n /\ inputs'[i] = inputs[i + 1]
  BY DEF TypeOK
<1>1. ASSUME NEW j \in 1..n, NEW i \in 1..n, ReleasedIn(k, j, i + 1) PROVE ReleasedIn(k, j - 1, i)'
  <2>1. PICK m \in (j + 1)..(i + 1 - 1) : UpOf(k, inputs[m])
    BY <1>1 DEF ReleasedIn
  <2>2. m - 1 \in (j - 1 + 1)..(i - 1) /\ m - 1 \in 1..(n - 1) /\ m - 1 + 1 = m
    BY <1>0, <2>1
  <2>3. inputs'[m - 1] = inputs[m]
    BY <1>0, <2>2
  <2> QED
    BY <2>1, <2>2, <2>3 DEF ReleasedIn
<1>2. ASSUME NEW i \in 1..n, ClearBefore(k, i + 1) PROVE ClearBefore(k, i)'
  <2>1. ASSUME NEW j \in 1..(i - 1), PressOf(k, inputs'[j]) PROVE ReleasedIn(k, j, i)'
    <3>1. j \in 1..(n - 1) /\ j + 1 \in 1..(i + 1 - 1) /\ j + 1 - 1 = j /\ j + 1 \in 1..n
      BY <1>0
    <3>2. PressOf(k, inputs[j + 1])
      BY <1>0, <2>1, <3>1
    <3>3. ReleasedIn(k, j + 1, i + 1)
      BY <1>2, <3>1, <3>2 DEF ClearBefore
    <3>4. ReleasedIn(k, j + 1 - 1, i)'
      BY <1>1, <3>1, <3>3
    <3> QED
      BY <3>1, <3>4
  <2>2. ASSUME Bears(k)' PROVE ReleasedIn(k, 0, i)'
    <3>1. ReleasedIn(k, 1, i + 1)
      <4>1. CASE PressOf(k, inputs[1])
        <5>1. 1 \in 1..(i + 1 - 1)
          OBVIOUS
        <5> QED
          BY <1>2, <4>1, <5>1 DEF ClearBefore
      <4>2. CASE ~ PressOf(k, inputs[1])
        <5>1. ReleasedIn(k, 0, i + 1)
          BY <1>0, <1>2, <2>2, <4>2 DEF ClearBefore
        <5>2. PICK m \in (0 + 1)..(i + 1 - 1) : UpOf(k, inputs[m])
          BY <5>1 DEF ReleasedIn
        <5>3. m # 1
          BY <1>0, <2>2, <5>2
        <5>4. m \in (1 + 1)..(i + 1 - 1)
          BY <5>2, <5>3
        <5> QED
          BY <5>2, <5>4 DEF ReleasedIn
      <4> QED
        BY <4>1, <4>2
    <3>2. 1 \in 1..n /\ 1 - 1 = 0
      BY <1>0
    <3>3. ReleasedIn(k, 1 - 1, i)'
      BY <1>1, <3>1, <3>2
    <3> QED
      BY <3>2, <3>3
  <2> QED
    BY <2>1, <2>2 DEF ClearBefore
<1>3. ASSUME Clear(k) PROVE Clear(k)'
  <2> SUFFICES ASSUME NEW i, i = Len(inputs') + 1 PROVE ClearBefore(k, i)'
    BY DEF Clear, ClearBefore, ReleasedIn
  <2>1. i \in 1..n /\ i = n
    BY <1>0
  <2> QED
    BY <1>2, <1>3, <2>1 DEF Clear
<1> QED
  BY <1>0, <1>2, <1>3

\* A key of which no press is to come, and that is not borne, is clear at every event.
LEMMA Untaken ==
  ASSUME TypeOK, NEW k, ~ Coming(k, Press), ~ Bears(k)
  PROVE  Clear(k) /\ \A i \in 1..(Len(inputs) + 1) : ClearBefore(k, i)
<1>1. \A j \in 1..Len(inputs) : ~ PressOf(k, inputs[j])
  BY DEF Coming, PressOf
<1>2. ASSUME NEW i \in 1..(Len(inputs) + 1) PROVE ClearBefore(k, i)
  <2>1. Len(inputs) \in Nat
    BY DEF TypeOK
  <2>2. \A j \in 1..(i - 1) : j \in 1..Len(inputs)
    BY <2>1
  <2> QED
    BY <1>1, <2>2 DEF ClearBefore
<1>3. Len(inputs) + 1 \in 1..(Len(inputs) + 1)
  BY DEF TypeOK
<1> QED
  BY <1>2, <1>3 DEF Clear

\* A step that leaves the events, the client and the key's action alone, and after which
\* the key is no less down, or known to be.
LEMMA OrderFrame ==
  ASSUME NEW k, Order(k), UNCHANGED <<inputs, wire, held, fired>>,
         k \in pressed => k \in pressed' \/ Clear(k), k \in physical => k \in physical' \/ Clear(k)
  PROVE  Order(k)'
<1>1. Bears(k)' <=> Bears(k)
  BY HoldFrame DEF Bears
<1>2. \A i : ClearBefore(k, i)' <=> ClearBefore(k, i)
  BY <1>1 DEF ClearBefore, ReleasedIn
<1>3. Clear(k)' <=> Clear(k)
  BY <1>2 DEF Clear
<1> QED
  BY <1>2, <1>3, HoldFrame DEF Order

\* Another event, that is no press of the key, and after which the key is no less down, or
\* its release.
LEMMA OrderReport ==
  ASSUME TypeOK, NEW k, Order(k), NEW e \in Event, Report(e), UNCHANGED <<wire, held, fired>>,
         \/ UpOf(k, e)
         \/ ~ PressOf(k, e) /\ (k \in pressed => k \in pressed') /\ (k \in physical => k \in physical')
  PROVE  Order(k)'
<1>1. Bears(k)' <=> Bears(k)
  BY HoldFrame DEF Bears
<1>2. inputs' = Append(inputs, e)
  BY DEF Report
<1> USE <1>2
<1>3. ~ PressOf(k, e)
  BY DEF UpOf, PressOf, Press
<1>4. ASSUME NEW i \in 1..Len(inputs'), inputs'[i].ev = "down", inputs'[i].key = k
      PROVE  ClearBefore(k, i)'
  <2>0. Len(inputs) \in Nat
    BY DEF TypeOK
  <2>1. i \in 1..Len(inputs)
    <3>1. Len(inputs') = Len(inputs) + 1 /\ inputs'[Len(inputs) + 1] = e
      BY <1>1, Appending
    <3> QED
      BY <1>3, <1>4, <2>0, <3>1 DEF PressOf, Press
  <2>2. inputs'[i] = inputs[i]
    BY <1>1, <2>1, Appending
  <2>3. i \in 1..(Len(inputs) + 1) /\ ClearBefore(k, i)
    BY <1>4, <2>0, <2>1, <2>2 DEF Order
  <2> QED
    BY <1>1, <2>3, Appending
<1>5. (k \notin pressed' => Clear(k)') /\ (k \notin physical' => Clear(k)')
  BY <1>1, <1>3, Appending DEF Order
<1>6. fired'[k] # NoAction => ~ WillHold(k)'
  BY HoldFrame DEF Order
<1> QED
  BY <1>4, <1>5, <1>6 DEF Order

\* A press of x that the thread sees.
LEMMA OrderPress ==
  ASSUME TypeOK, NEW k \in Keys, Order(k), NEW x \in Keys, OnKeyPress(x),
         UNCHANGED <<wire, held, fired>>, x \in physical', physical \subseteq physical'
  PROVE  Order(k)'
<1>1. CASE ChordKey(x)
  <2>1. Other("hotkey") \in Event /\ Report(Other("hotkey")) /\ pressed' = pressed
    BY <1>1, ReportTypes DEF OnKeyPress
  <2>2. ~ PressOf(k, Other("hotkey"))
    BY DEF Other, PressOf, Press
  <2> QED
    BY <2>1, <2>2, OrderReport
<1>2. CASE ~ ChordKey(x)
  <2> DEFINE act == IF x \in pressed THEN "repeat" ELSE "down"
             e == [ev |-> act, key |-> x, mods |-> ModsDown]
  <2>1. Report(e) /\ pressed' = pressed \cup {x}
    BY <1>2 DEF OnKeyPress, ReportKey
  <2>2. e \in Event
    <3>1. act \in Press \cup {"up"}
      BY DEF Press
    <3> QED
      BY <3>1, ReportTypes
  <2>3. e.key = x /\ (e.ev = "down" => x \notin pressed)
    OBVIOUS
  <2> HIDE DEF e, act
  <2>4. CASE k # x
    <3>1. ~ PressOf(k, e)
      BY <2>3, <2>4 DEF PressOf
    <3> QED
      BY <2>1, <2>2, <3>1, OrderReport
  <2>5. CASE k = x
    <3>1. inputs' = Append(inputs, e) /\ (Bears(k)' <=> Bears(k))
      BY <2>1, HoldFrame DEF Report, Bears
    <3>2. k \in pressed' /\ k \in physical'
      BY <2>1, <2>5
    <3>3. ASSUME NEW i \in 1..Len(inputs'), inputs'[i].ev = "down", inputs'[i].key = k
          PROVE  ClearBefore(k, i)'
      <4>0. Len(inputs) \in Nat /\ Len(inputs') = Len(inputs) + 1
        BY <2>2, <3>1, Appending DEF TypeOK
      <4>1. CASE i = Len(inputs) + 1
        <5>1. inputs'[i] = e
          BY <2>2, <3>1, <4>1, Appending
        <5>2. ClearBefore(k, i)
          BY <2>3, <2>5, <3>3, <4>1, <5>1 DEF Order, Clear
        <5>3. i \in 1..(Len(inputs) + 1)
          BY <4>0, <4>1
        <5> QED
          BY <2>2, <3>1, <5>2, <5>3, Appending
      <4>2. CASE i # Len(inputs) + 1
        <5>1. i \in 1..Len(inputs) /\ i \in 1..(Len(inputs) + 1)
          BY <4>0, <4>2
        <5>2. ClearBefore(k, i)
          BY <2>2, <3>1, <3>3, <5>1, Appending DEF Order
        <5> QED
          BY <2>2, <3>1, <5>1, <5>2, Appending
      <4> QED
        BY <4>1, <4>2
    <3>4. fired'[k] # NoAction => ~ WillHold(k)'
      BY HoldFrame DEF Order
    <3> QED
      BY <3>2, <3>3, <3>4 DEF Order
  <2> QED
    BY <2>4, <2>5
<1> QED
  BY <1>1, <1>2

\* The user's steps and the capture thread's.
LEMMA OrderUser ==
  ASSUME HeldInv, NEW k \in Keys, k \notin astray',
         \/ UserStep \/ PollHotkey \/ CaptureObeys
  PROVE  Order(k)'
<1>0. TypeOK /\ Resting
  BY DEF HeldInv
<1>a. k \notin astray => Order(k)
  BY DEF HeldInv, Ordered
<1> USE DEF captureVars, routerVars
<1>1. ASSUME NEW x \in Keys, KeyDown(x) PROVE Order(k)'
  <2>1. Order(k) /\ UNCHANGED <<wire, held, fired>>
        /\ x \in physical' /\ physical \subseteq physical'
    BY <1>a, <1>1 DEF KeyDown
  <2>2. CASE grabbed
    BY <1>0, <1>1, <2>1, <2>2, OrderPress DEF KeyDown
  <2>3. CASE ~ grabbed
    BY <1>1, <2>1, <2>3, OrderFrame DEF KeyDown
  <2> QED
    BY <2>2, <2>3
<1>2. ASSUME NEW x \in Keys, AutoRepeat(x) PROVE Order(k)'
  <2>1. Order(k) /\ UNCHANGED <<wire, held, fired>>
        /\ x \in physical' /\ physical \subseteq physical' /\ OnKeyPress(x)
    BY <1>a, <1>2 DEF AutoRepeat
  <2> QED
    BY <1>0, <2>1, OrderPress
<1>3. ASSUME NEW x \in Keys, KeyUp(x) PROVE Order(k)'
  <2>1. Order(k) /\ UNCHANGED <<wire, held, fired>> /\ physical' = physical \ {x}
    BY <1>a, <1>3 DEF KeyUp
  <2>2. CASE ~ grabbed
    <3>1. pressed = {} /\ UNCHANGED <<inputs, pressed>>
      BY <1>0, <1>3, <2>2 DEF KeyUp, Resting
    <3>2. Clear(k)
      BY <2>1, <3>1 DEF Order
    <3> QED
      BY <2>1, <3>1, <3>2, OrderFrame
  <2>3. CASE grabbed /\ ChordKey(x)
    <3>1. x \in astray' /\ UNCHANGED <<inputs, pressed>>
      BY <1>3, <2>3 DEF KeyUp, OnKeyRelease
    <3>2. k # x
      BY <3>1
    <3> QED
      BY <2>1, <3>1, <3>2, OrderFrame
  <2>4. CASE grabbed /\ ~ ChordKey(x)
    <3> DEFINE e == [ev |-> "up", key |-> x, mods |-> ModsDown]
    <3>1. Report(e) /\ pressed' = pressed \ {x}
      BY <1>3, <2>4 DEF KeyUp, OnKeyRelease, ReportKey
    <3>2. e \in Event
      BY <1>0, ReportTypes
    <3>3. UpOf(k, e) \/ (~ PressOf(k, e) /\ k # x)
      BY DEF UpOf, PressOf
    <3> HIDE DEF e
    <3> QED
      BY <1>0, <2>1, <3>1, <3>2, <3>3, OrderReport
  <2> QED
    BY <2>2, <2>3, <2>4
<1>4. CASE PointerMoves
  <2> DEFINE e == Other(IF grabbed THEN "motion" ELSE "pointer")
  <2>1. Order(k) /\ Report(e) /\ UNCHANGED <<wire, held, fired, pressed, physical>>
    BY <1>a, <1>4 DEF PointerMoves
  <2>2. e \in Event
    BY <1>0, ReportTypes
  <2>3. ~ PressOf(k, e)
    BY DEF PressOf, Other, Press
  <2> HIDE DEF e
  <2> QED
    BY <1>0, <2>1, <2>2, <2>3, OrderReport
<1>5. CASE PollHotkey
  <2> DEFINE e == Other("hotkey")
  <2>1. Order(k) /\ UNCHANGED <<wire, held, fired, pressed, physical>>
        /\ (Report(e) \/ UNCHANGED inputs)
    BY <1>a, <1>5, Zenon DEF PollHotkey
  <2>2. e \in Event
    BY <1>0, ReportTypes
  <2>3. ~ PressOf(k, e)
    BY DEF PressOf, Other, Press
  <2> HIDE DEF e
  <2> QED
    BY <1>0, <2>1, <2>2, <2>3, OrderReport, OrderFrame
<1>6. CASE CaptureObeys
  <2>1. UNCHANGED <<inputs, wire, held, fired, physical>>
    BY <1>6 DEF CaptureObeys
  <2>2. CASE Head(cmds) = "grab"
    <3>1. pressed' = pressed /\ Order(k)
      BY <1>0, <1>a, <1>6, <2>2 DEF CaptureObeys, Resting
    <3> QED
      BY <2>1, <3>1, OrderFrame
  <2>3. CASE Head(cmds) # "grab"
    <3>1. astray' = astray \cup {x \in Keys : Taken(x)}
      <4>1. Head(cmds) \in {"grab", "ungrab"}
        BY <1>0, <1>6 DEF CaptureObeys, TypeOK
      <4> QED
        BY <1>6, <2>3, <4>1 DEF CaptureObeys
    <3>2. Order(k) /\ ~ Taken(k)
      BY <1>a, <3>1
    <3>3. Clear(k)
      BY <1>0, <3>2, Untaken DEF Taken, Bears
    <3> QED
      BY <2>1, <3>2, <3>3, OrderFrame
  <2> QED
    BY <2>2, <2>3
<1> QED
  BY <1>1, <1>2, <1>3, <1>4, <1>5, <1>6 DEF UserStep

\* What is forwarded is held afterwards, if nothing after it in the messages releases it;
\* and what was held before, if nothing in them does.
LEMMA Forwarded ==
  ASSUME TypeOK, NothingLeftDown, NEW msgs \in Seq(Msg), Forward(msgs),
         UNCHANGED <<held, remote>>, NEW h \in Hids, WillHold(h)'
  PROVE  \/ \E i \in 1..Len(msgs) : Presses(msgs[i], h)
         \/ WillHold(h) /\ \A i \in 1..Len(msgs) : ~ Releases(msgs[i], h)
<1> DEFINE n == Len(wire)
<1>1. CASE ~ remote
  <2>1. UNCHANGED <<wire, held>> /\ ~ WillHold(h)
    BY <1>1 DEF Forward, NothingLeftDown, Hids
  <2> QED
    BY <2>1, HoldFrame
<1>2. CASE remote
  <2>0. /\ n \in Nat /\ Len(msgs) \in Nat /\ Len(wire') = n + Len(msgs)
        /\ \A i \in 1..n : wire'[i] = wire[i] /\ i \in 1..Len(wire')
        /\ \A i \in 1..Len(msgs) : wire'[n + i] = msgs[i] /\ n + i \in 1..Len(wire')
        /\ \A i \in 1..Len(wire') : i \in 1..n \/ (i - n \in 1..Len(msgs) /\ n + (i - n) = i)
    BY <1>2 DEF Forward, TypeOK
  <2>1. ASSUME NEW i \in 0..n, KeptAfter(h, i)'
        PROVE  KeptAfter(h, i) /\ \A j \in 1..Len(msgs) : ~ Releases(msgs[j], h)
    <3>1. ASSUME NEW j \in 1..n, j > i PROVE ~ Releases(wire[j], h)
      BY <2>0, <2>1, <3>1 DEF KeptAfter
    <3>2. ASSUME NEW j \in 1..Len(msgs) PROVE ~ Releases(msgs[j], h)
      <4>1. n + j > i /\ n + j \in 1..Len(wire')
        BY <2>0
      <4> QED
        BY <2>0, <2>1, <4>1 DEF KeptAfter
    <3> QED
      BY <3>1, <3>2 DEF KeptAfter
  <2>2. CASE h \in held' /\ KeptAfter(h, 0)'
    <3>1. 0 \in 0..n
      BY <2>0
    <3> QED
      BY <2>1, <2>2, <3>1 DEF WillHold
  <2>3. ASSUME NEW i \in 1..Len(wire'), Presses(wire'[i], h), KeptAfter(h, i)'
        PROVE  \/ \E j \in 1..Len(msgs) : Presses(msgs[j], h)
               \/ WillHold(h) /\ \A j \in 1..Len(msgs) : ~ Releases(msgs[j], h)
    <3>1. CASE i \in 1..n
      <4>1. i \in 0..n /\ Presses(wire[i], h)
        BY <2>0, <2>3, <3>1
      <4> QED
        BY <2>1, <2>3, <3>1, <4>1 DEF WillHold
    <3>2. CASE i - n \in 1..Len(msgs) /\ n + (i - n) = i
      <4>1. Presses(msgs[i - n], h)
        BY <2>0, <2>3, <3>2
      <4> QED
        BY <3>2, <4>1
    <3> QED
      BY <2>0, <3>1, <3>2
  <2> QED
    BY <2>2, <2>3 DEF WillHold
<1> QED
  BY <1>1, <1>2

\* The same of one message.
LEMMA ForwardedOne ==
  ASSUME TypeOK, NothingLeftDown, NEW act \in Press \cup {"up"}, NEW x \in Hids,
         Forward(<<Sent(act, {x})>>), UNCHANGED <<held, remote>>, NEW h \in Hids, WillHold(h)'
  PROVE  \/ h = x /\ act \in Press
         \/ WillHold(h) /\ ~ (h = x /\ act = "up")
<1> DEFINE m == Sent(act, {x})
<1>1. <<m>> \in Seq(Msg)
  BY MsgTypes
<1>2. Len(<<m>>) = 1 /\ <<m>>[1] = m /\ 1 \in 1..1 /\ \A i \in 1..1 : i = 1
  OBVIOUS
<1>3. /\ Presses(m, h) => h = x /\ act \in Press
      /\ h = x /\ act = "up" => Releases(m, h)
  BY DEF Sent, Presses, Releases
<1> HIDE DEF m
<1>4. Presses(m, h) \/ (WillHold(h) /\ ~ Releases(m, h))
  BY <1>1, <1>2, Forwarded DEF m
<1> QED
  BY <1>3, <1>4

\* The router reads one event.
LEMMA OrderRead ==
  ASSUME TypeOK, NEW k, Order(k), inputs # <<>>, inputs' = Tail(inputs),
         UNCHANGED <<pressed, physical>>,
         Bears(k)' => /\ ~ UpOf(k, Head(inputs))
                      /\ Bears(k) \/ PressOf(k, Head(inputs)),
         fired'[k] # NoAction => ~ WillHold(k)'
  PROVE  Order(k)'
<1>1. (k \notin pressed' => Clear(k)') /\ (k \notin physical' => Clear(k)')
  BY Taking DEF Order
<1>2. ASSUME NEW i \in 1..Len(inputs'), inputs'[i].ev = "down", inputs'[i].key = k
      PROVE  ClearBefore(k, i)'
  <2>1. i + 1 \in 1..Len(inputs) /\ inputs'[i] = inputs[i + 1]
    BY Taking
  <2>2. i \in 1..Len(inputs) /\ ClearBefore(k, i + 1)
    BY <1>2, <2>1 DEF Order, TypeOK
  <2> QED
    BY <2>2, Taking
<1> QED
  BY <1>1, <1>2 DEF Order

\* A key event is read: by it the key is let go of, or taken to be down.
LEMMA OrderKey ==
  ASSUME HeldInv, HandleKey, NEW k \in Keys, k \notin astray'
  PROVE  Order(k)'
<1> DEFINE e == Head(inputs)
<1>0. /\ TypeOK /\ NothingLeftDown /\ Order(k) /\ k \in Hids
      /\ inputs # <<>> /\ inputs' = Tail(inputs)
      /\ UNCHANGED <<pressed, physical, held, remote>>
  BY DEF HeldInv, Ordered, HandleKey, Hids, captureVars
<1>e. e.key \in Keys /\ e.ev \in Press \cup {"up"} /\ e.key \in Hids
  BY <1>0, HeadTypes DEF HandleKey, Hids
<1>f. k \notin Actions /\ e.key \notin Actions
  BY <1>e, KeysAssumption
<1>g. \A x \in Keys : fired[x] \in Actions \cup {NoAction}
  BY <1>0 DEF TypeOK
<1>p. "up" \notin Press /\ "down" \in Press
  BY DEF Press
<1> DEFINE Read == /\ Bears(k)' => ~ UpOf(k, e) /\ (Bears(k) \/ PressOf(k, e))
                   /\ fired'[k] # NoAction => ~ WillHold(k)'
<1>1. CASE StandsForAction(e)
  <2>1. fired[e.key] \in Actions /\ fired[e.key] \in Hids /\ fired[e.key] # k
    BY <1>1, <1>e, <1>f, <1>g DEF StandsForAction, Hids
  <2>2. WillHold(k)' => WillHold(k)
    BY <1>0, <1>1, <1>e, <2>1, ForwardedOne DEF StandsForAction
  <2>3. /\ fired'[k] # NoAction => fired[k] # NoAction
        /\ e.key = k /\ e.ev = "up" => fired'[k] = NoAction /\ fired[k] # NoAction
    BY <1>0, <1>1 DEF StandsForAction, TypeOK
  <2>4. fired[k] # NoAction => ~ WillHold(k)
    BY <1>0 DEF Order
  <2>5. Read
    BY <2>2, <2>3, <2>4 DEF Bears, UpOf
  <2> QED
    BY <1>0, <2>5, OrderRead
<1>2. CASE FiresRule(e)
  <2>1. PICK r \in Rules : /\ Forward(<<LetGo(r), Sent("down", {r.action})>>)
                           /\ fired' = [fired EXCEPT ![e.key] = r.action]
    BY <1>2 DEF FiresRule, Fits
  <2>2. WillHold(k)' => WillHold(k)
    <3> DEFINE a == LetGo(r)
               b == Sent("down", {r.action})
    <3>1. <<a, b>> \in Seq(Msg)
      BY MsgTypes
    <3>2. r.action \in Actions
      BY KeysAssumption DEF Rule
    <3>3. ~ Presses(a, k) /\ ~ Presses(b, k)
      BY <1>f, <1>p, <3>2 DEF LetGo, Sent, Presses
    <3> HIDE DEF a, b
    <3>4. Len(<<a, b>>) = 2 /\ \A i \in 1..2 : <<a, b>>[i] \in {a, b}
      OBVIOUS
    <3> QED
      BY <1>0, <2>1, <3>1, <3>3, <3>4, Forwarded DEF a, b
  <2>3. e.ev = "down" /\ fired[e.key] = NoAction
    BY <1>2 DEF FiresRule
  <2>4. e.key = k => ~ Bears(k)
    <3>1. SUFFICES ASSUME e.key = k PROVE ~ Bears(k)
      OBVIOUS
    <3>2. 1 \in 1..Len(inputs) /\ inputs[1] = e
      BY <1>0 DEF TypeOK
    <3>3. ClearBefore(k, 1)
      BY <1>0, <2>3, <3>1, <3>2 DEF Order
    <3>4. (0 + 1)..(1 - 1) = {}
      OBVIOUS
    <3> QED
      BY <3>3, <3>4 DEF ClearBefore, ReleasedIn
  <2>5. e.key # k => fired'[k] = fired[k]
    BY <1>0, <2>1 DEF TypeOK
  <2>6. fired[k] # NoAction => ~ WillHold(k)
    BY <1>0 DEF Order
  <2>7. Read
    BY <1>p, <2>2, <2>3, <2>4, <2>5, <2>6 DEF Bears, UpOf, PressOf
  <2> QED
    BY <1>0, <2>7, OrderRead
<1>3. CASE StandsForItself(e)
  <2>1. fired' = fired /\ fired[e.key] = NoAction /\ Forward(<<Sent(e.ev, {e.key})>>)
    BY <1>3 DEF StandsForItself
  <2>2. WillHold(k)' => (k = e.key /\ e.ev \in Press) \/ (WillHold(k) /\ ~ (k = e.key /\ e.ev = "up"))
    BY <1>0, <1>e, <2>1, ForwardedOne
  <2>3. fired[k] # NoAction => ~ WillHold(k)
    BY <1>0 DEF Order
  <2>4. Read
    BY <1>e, <1>p, <2>1, <2>2, <2>3 DEF Bears, UpOf, PressOf
  <2> QED
    BY <1>0, <2>4, OrderRead
<1> QED
  BY <1>1, <1>2, <1>3 DEF HandleKey

\* After the step: what Untaken says before it.
LEMMA UntakenNext ==
  ASSUME TypeOK', NEW k, ~ Coming(k, Press)', ~ Bears(k)'
  PROVE  Clear(k)' /\ \A i \in 1..Len(inputs') : ClearBefore(k, i)'
<1>0. Len(inputs') \in Nat
  BY DEF TypeOK
<1>1. \A j \in 1..Len(inputs') : ~ PressOf(k, inputs'[j])
  BY DEF Coming, PressOf
<1>2. ASSUME NEW i \in 1..(Len(inputs') + 1) PROVE ClearBefore(k, i)'
  <2>1. \A j \in 1..(i - 1) : j \in 1..Len(inputs')
    BY <1>0
  <2> QED
    BY <1>1, <2>1 DEF ClearBefore
<1>3. Len(inputs') + 1 \in 1..(Len(inputs') + 1) /\ \A i \in 1..Len(inputs') : i \in 1..(Len(inputs') + 1)
  BY <1>0
<1> QED
  BY <1>2, <1>3 DEF Clear

\* The client's steps, and the router's when the input changes hands: nobody presses.
LEMMA HoldLess ==
  ASSUME TypeOK, HandleOther \/ ClientReads \/ ClientGone \/ ClientBack, NEW h \in Hids
  PROVE  (WillHold(h)' => WillHold(h)) /\ fired' = fired
<1>1. CASE HandleOther
  <2>1. CASE GoLocal
    BY <1>1, <2>1, LeaveEmpties DEF HandleOther, GoLocal
  <2>2. CASE wire' = wire
    BY <1>1, <2>2, HoldFrame DEF HandleOther
  <2> QED
    BY <1>1, <2>1, <2>2, Zenon DEF HandleOther, Enter
<1>2. CASE ClientReads
  BY <1>2, ReadingKeeps DEF ClientReads, routerVars
<1>3. CASE ClientGone
  BY <1>3 DEF ClientGone, WillHold
<1>4. CASE ClientBack
  BY <1>4, HoldFrame DEF ClientBack
<1> QED
  BY <1>1, <1>2, <1>3, <1>4

\* A key that is settled when the client lets go of everything.
LEMMA OrderSettled ==
  ASSUME TypeOK, TypeOK', NEW k \in Settled, ~ WillHold(k)', fired' = fired,
         inputs' = inputs \/ (inputs # <<>> /\ inputs' = Tail(inputs))
  PROVE  Order(k)'
<1>1. ~ Coming(k, Press) /\ fired'[k] = NoAction
  BY DEF Settled
<1>2. ~ Coming(k, Press)'
  <2>1. CASE inputs' = inputs
    BY <1>1, <2>1 DEF Coming
  <2>2. CASE inputs # <<>> /\ inputs' = Tail(inputs)
    <3>1. \A i \in 1..Len(inputs') : i + 1 \in 1..Len(inputs) /\ inputs'[i] = inputs[i + 1]
      BY <2>2 DEF TypeOK
    <3> QED
      BY <1>1, <3>1 DEF Coming
  <2> QED
    BY <2>1, <2>2
<1>3. ~ Bears(k)'
  BY <1>1 DEF Bears
<1> QED
  BY <1>1, <1>2, <1>3, UntakenNext DEF Order

LEMMA OrderClient ==
  ASSUME HeldInv, TypeOK', HandleOther \/ ClientReads \/ ClientGone \/ ClientBack,
         NEW k \in Keys, k \notin astray'
  PROVE  Order(k)'
<1>0. TypeOK /\ k \in Hids
  BY DEF HeldInv, Hids
<1>1. (WillHold(k)' => WillHold(k)) /\ fired' = fired
  BY <1>0, HoldLess
<1>2. UNCHANGED <<pressed, physical>>
  BY DEF HandleOther, ClientReads, ClientGone, ClientBack, captureVars
<1>3. inputs' = inputs \/ (inputs # <<>> /\ inputs' = Tail(inputs) /\ HandleOther)
  BY DEF HandleOther, ClientReads, ClientGone, ClientBack
<1>4. CASE k \notin astray
  <2>1. Order(k)
    BY <1>4 DEF HeldInv, Ordered
  <2>2. fired'[k] # NoAction => ~ WillHold(k)'
    BY <1>1, <2>1 DEF Order
  <2>3. Bears(k)' => Bears(k)
    BY <1>1 DEF Bears
  <2>4. CASE inputs' = inputs
    <3>1. \A i : ClearBefore(k, i) => ClearBefore(k, i)'
      BY <2>3, <2>4 DEF ClearBefore, ReleasedIn
    <3> QED
      BY <1>2, <2>1, <2>2, <2>4, <3>1 DEF Order, Clear
  <2>5. CASE inputs # <<>> /\ inputs' = Tail(inputs) /\ HandleOther
    <3>1. ~ UpOf(k, Head(inputs))
      BY <2>5, Zenon DEF HandleOther, GoLocal, Enter, UpOf
    <3> QED
      BY <1>0, <1>2, <2>1, <2>2, <2>3, <2>5, <3>1, OrderRead
  <2> QED
    BY <1>3, <2>4, <2>5
<1>5. CASE k \in astray
  <2>1. k \in Settled /\ (GoLocal \/ ClientGone)
    BY <1>5 DEF HandleOther, GoLocal, Enter, ClientReads, ClientGone, ClientBack
  <2>2. ~ WillHold(k)'
    BY <1>0, <2>1, LeaveEmpties DEF GoLocal, ClientGone, WillHold
  <2> QED
    BY <1>0, <1>1, <1>3, <2>1, <2>2, OrderSettled
<1> QED
  BY <1>4, <1>5

LEMMA NextResting == Resting /\ [Next]_vars => Resting'
<1> SUFFICES ASSUME Resting, [Next]_vars PROVE Resting'
  OBVIOUS
<1> USE DEF Resting, captureVars
<1>1. ASSUME NEW k \in Keys, KeyDown(k) \/ KeyUp(k) \/ AutoRepeat(k) PROVE Resting'
  BY <1>1 DEF KeyDown, KeyUp, AutoRepeat
<1>2. CASE CaptureObeys
  BY <1>2 DEF CaptureObeys
<1>3. CASE PollHotkey \/ PointerMoves \/ RouterStep
  BY <1>3 DEF PollHotkey, PointerMoves, RouterStep, HandleKey, HandleOther
<1>4. CASE ClientReads \/ ClientGone \/ ClientBack \/ UNCHANGED vars
  BY <1>4 DEF ClientReads, ClientGone, ClientBack, vars
<1> QED
  BY <1>1, <1>2, <1>3, <1>4 DEF Next, UserStep

LEMMA NextStanding == HeldInv /\ [Next]_vars => Standing'
<1> SUFFICES ASSUME HeldInv, [Next]_vars, NEW a \in Actions, WillHold(a)'
             PROVE  \E k \in Keys : fired'[k] = a
  BY DEF Standing
<1>0. TypeOK /\ NothingLeftDown /\ a \in Hids /\ a \notin Keys /\ a # NoAction
  BY KeysAssumption DEF HeldInv, Hids
<1>a. ASSUME WillHold(a), fired' = fired PROVE \E k \in Keys : fired'[k] = a
  BY <1>a DEF HeldInv, Standing
<1>b. ASSUME UNCHANGED <<wire, held, fired>> PROVE \E k \in Keys : fired'[k] = a
  BY <1>a, <1>b, HoldFrame
<1>1. ASSUME NEW k \in Keys, KeyDown(k) \/ KeyUp(k) \/ AutoRepeat(k)
      PROVE  \E x \in Keys : fired'[x] = a
  BY <1>1, <1>b DEF KeyDown, KeyUp, AutoRepeat, routerVars
<1>2. CASE PollHotkey \/ PointerMoves \/ CaptureObeys \/ UNCHANGED vars
  BY <1>2, <1>b DEF PollHotkey, PointerMoves, CaptureObeys, vars, routerVars
<1>3. CASE HandleOther \/ ClientReads \/ ClientGone \/ ClientBack
  BY <1>0, <1>3, <1>a, HoldLess
<1>4. CASE HandleKey
  <2> DEFINE e == Head(inputs)
  <2>0. /\ e.key \in Keys /\ e.ev \in Press \cup {"up"} /\ e.key \in Hids
        /\ UNCHANGED <<held, remote>> /\ a # e.key
    BY <1>0, <1>4, HeadTypes DEF HandleKey, Hids
  <2>1. CASE StandsForAction(e)
    <3>1. fired[e.key] \in Hids
      BY <1>0, <2>0, <2>1 DEF StandsForAction, TypeOK, Hids
    <3>2. \/ a = fired[e.key] /\ e.ev \in Press
          \/ WillHold(a) /\ ~ (a = fired[e.key] /\ e.ev = "up")
      BY <1>0, <2>0, <2>1, <3>1, ForwardedOne DEF StandsForAction
    <3>3. CASE a = fired[e.key] /\ e.ev \in Press
      BY <2>0, <2>1, <3>3 DEF StandsForAction, Press
    <3>4. CASE WillHold(a) /\ ~ (a = fired[e.key] /\ e.ev = "up")
      <4>1. PICK k \in Keys : fired[k] = a
        BY <3>4 DEF HeldInv, Standing
      <4>2. fired'[k] = a
        BY <1>0, <2>0, <2>1, <3>4, <4>1 DEF StandsForAction, TypeOK
      <4> QED
        BY <4>2
    <3> QED
      BY <3>2, <3>3, <3>4
  <2>2. CASE FiresRule(e)
    <3>1. PICK r \in Rules : /\ Forward(<<LetGo(r), Sent("down", {r.action})>>)
                             /\ fired' = [fired EXCEPT ![e.key] = r.action]
      BY <2>2 DEF FiresRule, Fits
    <3> DEFINE x == LetGo(r)
               y == Sent("down", {r.action})
    <3>2. <<x, y>> \in Seq(Msg)
      BY MsgTypes
    <3>3. ~ Presses(x, a) /\ (Presses(y, a) => a = r.action)
      BY DEF LetGo, Sent, Presses, Press
    <3> HIDE DEF x, y
    <3>4. Len(<<x, y>>) = 2 /\ \A i \in 1..2 : <<x, y>>[i] \in {x, y}
      OBVIOUS
    <3>5. a = r.action \/ WillHold(a)
      BY <1>0, <2>0, <3>1, <3>2, <3>3, <3>4, Forwarded DEF x, y
    <3>6. CASE a = r.action
      BY <1>0, <2>0, <3>1, <3>6 DEF TypeOK
    <3>7. CASE WillHold(a)
      <4>1. PICK k \in Keys : fired[k] = a
        BY <3>7 DEF HeldInv, Standing
      <4>2. k # e.key
        BY <1>0, <2>2, <4>1 DEF FiresRule
      <4>3. fired'[k] = a
        BY <1>0, <3>1, <4>1, <4>2 DEF TypeOK
      <4> QED
        BY <4>3
    <3> QED
      BY <3>5, <3>6, <3>7
  <2>3. CASE StandsForItself(e)
    <3>1. WillHold(a) /\ fired' = fired
      BY <1>0, <2>0, <2>3, ForwardedOne DEF StandsForItself
    <3> QED
      BY <1>a, <3>1
  <2> QED
    BY <1>4, <2>1, <2>2, <2>3 DEF HandleKey
<1> QED
  BY <1>1, <1>2, <1>3, <1>4 DEF Next, UserStep, RouterStep

LEMMA NextHeld == HeldInv /\ [Next]_vars => HeldInv'
<1> SUFFICES ASSUME HeldInv, [Next]_vars PROVE HeldInv'
  OBVIOUS
<1>1. TypeOK' /\ NothingLeftDown' /\ Resting' /\ Standing'
  BY NextUserTypes, NextRouterTypes, NextClientTypes, TypeParts, NextLeftDown, NextResting,
     NextStanding DEF HeldInv
<1>2. ASSUME NEW k \in Keys, k \notin astray' PROVE Order(k)'
  <2>1. CASE UNCHANGED vars
    <3>1. Order(k) /\ UNCHANGED <<inputs, wire, held, fired, pressed, physical>>
      BY <1>2, <2>1 DEF HeldInv, Ordered, vars, captureVars, routerVars
    <3> QED
      BY <3>1, OrderFrame
  <2> QED
    BY <1>1, <1>2, <2>1, OrderUser, OrderKey, OrderClient DEF Next, RouterStep
<1> QED
  BY <1>1, <1>2 DEF HeldInv, Ordered

LEMMA InitHeld == Init => HeldInv
<1> SUFFICES ASSUME Init PROVE HeldInv
  OBVIOUS
<1>1. TypeOK
  BY InitTypes
<1>2. \A h : ~ WillHold(h)
  BY DEF Init, WillHold
<1>3. \A k \in Keys : ~ Bears(k) /\ ~ Coming(k, Press) /\ Len(inputs) = 0
  BY <1>2 DEF Init, Bears, Coming
<1>4. ASSUME NEW k \in Keys PROVE Order(k)
  BY <1>1, <1>2, <1>3, Untaken DEF Order
<1> QED
  BY <1>1, <1>2, <1>4 DEF HeldInv, NothingLeftDown, Ordered, Standing, Resting, Init

\* No stuck key: what the client will hold goes back to a key that is down or whose
\* release the router is about to read, or to an action that such a key stands for, unless
\* the capture thread kept the release to itself (Capture::on_key, on_cmd; Core::on_key).
THEOREM HeldKeysAreAccounted == Spec => []HeldIsAccounted
<1>1. HeldInv => HeldIsAccounted
  <2> SUFFICES ASSUME HeldInv PROVE HeldIsAccounted
    OBVIOUS
  <2>1. ASSUME NEW k \in Keys, Bears(k) PROVE Accounted(k)
    <3>1. CASE k \notin physical \cup astray
      <4>1. Clear(k)
        BY <3>1 DEF HeldInv, Ordered, Order
      <4>2. PICK m \in (0 + 1)..(Len(inputs) + 1 - 1) : UpOf(k, inputs[m])
        BY <2>1, <4>1 DEF Clear, ClearBefore, ReleasedIn
      <4>3. m \in 1..Len(inputs)
        BY <4>2 DEF HeldInv, TypeOK
      <4> QED
        BY <4>2, <4>3 DEF Accounted, Coming, UpOf
    <3> QED
      BY <3>1 DEF Accounted
  <2>2. ASSUME NEW a \in Actions, WillHold(a) PROVE \E k \in Keys : fired[k] = a /\ Accounted(k)
    BY <2>1, <2>2, KeysAssumption DEF HeldInv, Standing, Bears
  <2> QED
    BY <2>1, <2>2 DEF HeldIsAccounted, Bears
<1> QED
  BY <1>1, InitHeld, NextHeld, PTL DEF Spec
=============================================================================
