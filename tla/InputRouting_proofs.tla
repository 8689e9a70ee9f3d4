------------------------ MODULE InputRouting_proofs ------------------------
(***************************************************************************)
(* Theorems about HubRegistry, and then about its composition with the     *)
(* router, InputRouting, for any number of screens, connection slots and   *)
(* bounds.                                                                 *)
(***************************************************************************)
EXTENDS InputRouting, WellFoundedInduction, SequenceTheorems, TLAPS

----------------------------------------------------------------------------
(* The hub by itself.                                                      *)

\* Who owns which entry, with the types: inductive without NoGhost, and what NoGhost
\* rests on.
Ownership == HubTypeOK /\ OneOwner

----------------------------------------------------------------------------
(* Types and ownership.                                                    *)

LEMMA HubInitOwnership == HubInit => Ownership
<1> SUFFICES ASSUME HubInit PROVE Ownership
  OBVIOUS
<1>1. HubTypeOK
  BY HubAssumption DEF HubInit, HubTypeOK, TaskState
<1>2. OneOwner
  BY DEF HubInit, OneOwner, Registered
<1> QED
  BY <1>1, <1>2 DEF Ownership

LEMMA HubNextOwnership == Ownership /\ [HubNext]_hubVars => Ownership'
<1> SUFFICES ASSUME HubTypeOK, OneOwner, [HubNext]_hubVars PROVE HubTypeOK' /\ OneOwner'
  BY DEF Ownership
<1> USE HubAssumption DEF HubTypeOK, Entry, HubEvent, TaskState, Connected, Disconnected,
                         OneOwner, Registered
<1>1. ASSUME NEW s \in Sessions, NEW m \in Arrangements, Register(s, m)
      PROVE  HubTypeOK' /\ OneOwner'
  BY <1>1 DEF Register
<1>2. ASSUME NEW s \in Sessions, NEW m \in Arrangements, ChangeMonitors(s, m)
      PROVE  HubTypeOK' /\ OneOwner'
  <2>1. entry[NameOf[s]] \in Entry
    BY <1>2 DEF ChangeMonitors
  <2>2. [entry[NameOf[s]] EXCEPT !.monitors = m] \in Entry
    BY <2>1
  <2>3. [entry[NameOf[s]] EXCEPT !.monitors = m].session = entry[NameOf[s]].session
    BY <2>1
  <2> QED
    BY <1>2, <2>2, <2>3 DEF ChangeMonitors
<1>3. ASSUME NEW s \in Sessions, CheckDisabled(s)
      PROVE  HubTypeOK' /\ OneOwner'
  BY <1>3 DEF CheckDisabled
<1>4. ASSUME NEW s \in Sessions, Announce(s)
      PROVE  HubTypeOK' /\ OneOwner'
  <2>1. Connected(NameOf[s], entry[NameOf[s]].monitors) \in HubEvent
    BY <1>4 DEF Announce
  <2> QED
    BY <1>4, <2>1 DEF Announce
<1>5. ASSUME NEW s \in Sessions, Unregister(s)
      PROVE  HubTypeOK' /\ OneOwner'
  BY <1>5 DEF Unregister
<1>6. ASSUME NEW s \in Sessions, SayGone(s)
      PROVE  HubTypeOK' /\ OneOwner'
  BY <1>6 DEF SayGone
<1>7. ASSUME NEW n \in Names, NEW off \in BOOLEAN, SetDisabled(n, off)
      PROVE  HubTypeOK' /\ OneOwner'
  BY <1>7 DEF SetDisabled
<1>8. ASSUME NEW n \in Names, NEW off \in BOOLEAN, TellToggle(n, off)
      PROVE  HubTypeOK' /\ OneOwner'
  <2>1. UNCHANGED <<entry, disabled, task, connected>> /\ telling' \in SUBSET (Names \X BOOLEAN)
    BY <1>8 DEF TellToggle
  <2>2. hubEvents' \in Seq(HubEvent)
    <3>1. CASE entry[n] = None
      BY <1>8, <3>1 DEF TellToggle
    <3>2. CASE entry[n] # None
      <4>1. Connected(n, entry[n].monitors) \in HubEvent /\ Disconnected(n) \in HubEvent
        BY <3>2
      <4> DEFINE e == IF off THEN Disconnected(n) ELSE Connected(n, entry[n].monitors)
      <4>2. e \in HubEvent
        BY <4>1
      <4>3. hubEvents' = Append(hubEvents, e)
        BY <1>8, <3>2 DEF TellToggle
      <4> HIDE DEF e
      <4> QED
        BY <4>2, <4>3
    <3> QED
      BY <3>1, <3>2
  <2> QED
    BY <2>1, <2>2
<1>9. CASE RouterHears
  <2>1. Head(hubEvents) \in HubEvent
    BY <1>9 DEF RouterHears
  <2>2. Head(hubEvents).name \in Names
        /\ (Head(hubEvents).ev = "connected" => Head(hubEvents).monitors \in Arrangements)
    BY <2>1
  <2>3. Tail(hubEvents) \in Seq(HubEvent)
    BY <1>9 DEF RouterHears
  <2> QED
    BY <1>9, <2>2, <2>3 DEF RouterHears, Hear
<1>10. ASSUME NEW n \in Names, RouterMisses(n)
       PROVE  HubTypeOK' /\ OneOwner'
  BY <1>10 DEF RouterMisses
<1>11. CASE UNCHANGED hubVars
  BY <1>11 DEF hubVars
<1> QED
  BY <1>1, <1>2, <1>3, <1>4, <1>5, <1>6, <1>7, <1>8, <1>9, <1>10, <1>11
     DEF HubNext, SessionStep, ToggleStep

\* Every variable of the hub and the router's copy keeps its type, and live connections
\* never share a name (Hub::register and Hub::unregister under the lock of `clients`).
THEOREM HubOwnership == HubSpec => [](HubTypeOK /\ OneOwner)
  BY HubInitOwnership, HubNextOwnership, PTL DEF HubSpec, Ownership

----------------------------------------------------------------------------
(* The router never keeps a screen that is gone.                           *)

\* An event added at the end decides for its own screen and changes nothing for another.
LEMMA KnowAfterAppend ==
  ASSUME HubTypeOK, NEW e \in HubEvent, hubEvents' = Append(hubEvents, e),
         connected' = connected, NEW n \in Names, WillKnow(n)'
  PROVE  IF e.name = n THEN e.ev = "connected" ELSE WillKnow(n)
<1> USE DEF HubTypeOK, WillKnow, Silent, LastAbout
<1>1. /\ Len(hubEvents') = Len(hubEvents) + 1
      /\ hubEvents'[Len(hubEvents) + 1] = e
      /\ \A i \in 1..Len(hubEvents) : hubEvents'[i] = hubEvents[i]
  OBVIOUS
<1>2. CASE e.name = n
  BY <1>1, <1>2
<1>3. CASE e.name # n
  BY <1>1, <1>3
<1> QED
  BY <1>2, <1>3

\* Reading the first event teaches the router nothing it was not about to know.
LEMMA KnowAfterHear ==
  ASSUME HubTypeOK, hubEvents # <<>>, hubEvents' = Tail(hubEvents), Hear(Head(hubEvents)),
         NEW n \in Names, WillKnow(n)'
  PROVE  WillKnow(n)
<1> USE DEF HubTypeOK
<1>1. /\ Len(hubEvents) \in Nat \ {0}
      /\ Len(hubEvents') = Len(hubEvents) - 1
      /\ Head(hubEvents) = hubEvents[1]
      /\ \A i \in 1..Len(hubEvents') : hubEvents'[i] = hubEvents[i + 1]
  OBVIOUS
<1>2. CASE Silent(n)' /\ connected'[n] # None
  <2>1. \A i \in 2..Len(hubEvents) : hubEvents[i].name # n
    <3>1. \A i \in 2..Len(hubEvents) : i - 1 \in 1..Len(hubEvents') /\ (i - 1) + 1 = i
      BY <1>1
    <3> QED
      BY <1>1, <1>2, <3>1 DEF Silent
  <2>2. CASE hubEvents[1].name = n
    <3>1. hubEvents[1].ev = "connected"
      BY <1>1, <1>2, <2>2 DEF Hear
    <3>2. LastAbout(n, 1)
      BY <1>1, <2>1, <2>2 DEF LastAbout
    <3> QED
      BY <1>1, <3>1, <3>2 DEF WillKnow
  <2>3. CASE hubEvents[1].name # n
    <3>1. Silent(n)
      BY <1>1, <2>1, <2>3 DEF Silent
    <3>2. connected[n] # None
      BY <1>1, <1>2, <2>3 DEF Hear
    <3> QED
      BY <3>1, <3>2 DEF WillKnow
  <2> QED
    BY <2>2, <2>3
<1>3. ASSUME NEW i \in 1..Len(hubEvents'), LastAbout(n, i)', hubEvents'[i].ev = "connected"
      PROVE  WillKnow(n)
  <2>1. i + 1 \in 1..Len(hubEvents) /\ hubEvents[i + 1].name = n /\ hubEvents[i + 1].ev = "connected"
    BY <1>1, <1>3 DEF LastAbout
  <2>2. \A j \in 1..Len(hubEvents) : j > i + 1 => hubEvents[j].name # n
    <3>1. \A j \in 1..Len(hubEvents) :
            j > i + 1 => j - 1 \in 1..Len(hubEvents') /\ j - 1 > i /\ (j - 1) + 1 = j
      BY <1>1
    <3> QED
      BY <1>1, <1>3, <3>1 DEF LastAbout
  <2> QED
    BY <2>1, <2>2 DEF WillKnow, LastAbout
<1> QED
  BY <1>2, <1>3 DEF WillKnow

LEMMA HubNextNoGhost == Ownership /\ NoGhost /\ [HubNext]_hubVars => NoGhost'
<1> SUFFICES ASSUME HubTypeOK, OneOwner, NoGhost, [HubNext]_hubVars,
                    NEW n \in Names, entry'[n] = None, WillKnow(n)'
             PROVE  \E s \in Sessions : NameOf[s] = n /\ task'[s] = "leaving"
  BY DEF Ownership, NoGhost
<1> USE HubAssumption
<1>0. NameOf \in [Sessions -> Names] /\ task \in [Sessions -> TaskState]
      /\ entry \in [Names -> Entry \cup {None}]
  BY DEF HubTypeOK
\* What is left to show when the step leaves the task of a leaving session alone.
<1>a. ASSUME WillKnow(n), entry[n] = None,
             \A s \in Sessions : task[s] = "leaving" => task'[s] = "leaving"
      PROVE  \E s \in Sessions : NameOf[s] = n /\ task'[s] = "leaving"
  BY <1>a DEF NoGhost
\* ... and nothing the router hears or knows changes.
<1>b. ASSUME UNCHANGED <<hubEvents, connected>> PROVE WillKnow(n)
  BY <1>b DEF WillKnow, Silent, LastAbout
<1>1. ASSUME NEW s \in Sessions, NEW m \in Arrangements, Register(s, m)
      PROVE  \E t \in Sessions : NameOf[t] = n /\ task'[t] = "leaving"
  <2>1. [session |-> s, monitors |-> m] # None
    BY DEF Entry
  <2> QED
    BY <1>1, <1>0, <1>a, <1>b, <2>1 DEF Register
<1>2. ASSUME NEW s \in Sessions, NEW m \in Arrangements, ChangeMonitors(s, m)
      PROVE  \E t \in Sessions : NameOf[t] = n /\ task'[t] = "leaving"
  <2>1. entry[NameOf[s]] # None
    BY <1>2 DEF ChangeMonitors, OneOwner, Registered
  <2>2. n # NameOf[s] \/ entry[n] # None
    BY <2>1
  <2>3. entry[n] = None
    <3>1. Ownership'
      BY HubNextOwnership DEF Ownership
    <3>2. s \in Registered'
      BY <1>2, <1>0 DEF ChangeMonitors, Registered
    <3>3. entry'[NameOf[s]] # None
      BY <3>1, <3>2 DEF Ownership, OneOwner
    <3> QED
      BY <1>2, <1>0, <3>3 DEF ChangeMonitors
  <2> QED
    BY <1>2, <1>0, <1>a, <1>b, <2>3 DEF ChangeMonitors
<1>3. ASSUME NEW s \in Sessions, CheckDisabled(s)
      PROVE  \E t \in Sessions : NameOf[t] = n /\ task'[t] = "leaving"
  BY <1>3, <1>0, <1>a, <1>b DEF CheckDisabled
<1>4. ASSUME NEW s \in Sessions, Announce(s)
      PROVE  \E t \in Sessions : NameOf[t] = n /\ task'[t] = "leaving"
  <2>1. entry[NameOf[s]] \in Entry
    BY <1>4, <1>0 DEF Announce, OneOwner, Registered
  <2> DEFINE e == Connected(NameOf[s], entry[NameOf[s]].monitors)
  <2>2. e \in HubEvent /\ e.name = NameOf[s]
    BY <2>1, <1>0 DEF HubEvent, Connected, Entry
  <2>3. NameOf[s] # n
    BY <1>4, <2>1 DEF Announce
  <2>4. WillKnow(n)
    BY <1>4, <2>2, <2>3, KnowAfterAppend DEF Announce
  <2> QED
    BY <1>4, <1>0, <1>a, <2>4 DEF Announce
<1>5. ASSUME NEW s \in Sessions, Unregister(s)
      PROVE  \E t \in Sessions : NameOf[t] = n /\ task'[t] = "leaving"
  <2>1. CASE NameOf[s] = n
    BY <1>5, <1>0, <2>1 DEF Unregister
  <2>2. CASE NameOf[s] # n
    BY <1>5, <1>0, <1>a, <1>b, <2>2 DEF Unregister
  <2> QED
    BY <2>1, <2>2
<1>6. ASSUME NEW s \in Sessions, SayGone(s)
      PROVE  \E t \in Sessions : NameOf[t] = n /\ task'[t] = "leaving"
  <2> DEFINE e == Disconnected(NameOf[s])
  <2>1. e \in HubEvent /\ e.name = NameOf[s] /\ e.ev # "connected"
    BY <1>0 DEF HubEvent, Disconnected
  <2>2. NameOf[s] # n /\ WillKnow(n)
    BY <1>6, <2>1, KnowAfterAppend DEF SayGone
  <2>3. PICK t \in Sessions : NameOf[t] = n /\ task[t] = "leaving"
    BY <1>6, <2>2 DEF SayGone, NoGhost
  <2> QED
    BY <1>6, <1>0, <2>2, <2>3 DEF SayGone
<1>7. ASSUME NEW x \in Names, NEW off \in BOOLEAN, SetDisabled(x, off)
      PROVE  \E t \in Sessions : NameOf[t] = n /\ task'[t] = "leaving"
  BY <1>7, <1>a, <1>b DEF SetDisabled
<1>8. ASSUME NEW x \in Names, NEW off \in BOOLEAN, TellToggle(x, off)
      PROVE  \E t \in Sessions : NameOf[t] = n /\ task'[t] = "leaving"
  <2>1. CASE entry[x] = None
    BY <1>8, <1>a, <1>b, <2>1 DEF TellToggle
  <2>2. CASE entry[x] # None
    <3> DEFINE e == IF off THEN Disconnected(x) ELSE Connected(x, entry[x].monitors)
    <3>1. /\ Connected(x, entry[x].monitors) \in HubEvent
          /\ Connected(x, entry[x].monitors).name = x
          /\ Disconnected(x) \in HubEvent
          /\ Disconnected(x).name = x
      BY <1>0, <2>2 DEF HubEvent, Connected, Disconnected, Entry
    <3>2. e \in HubEvent /\ e.name = x
      BY <3>1
    <3>3. hubEvents' = Append(hubEvents, e) /\ UNCHANGED <<entry, task, connected>>
      BY <1>8, <2>2 DEF TellToggle
    <3> HIDE DEF e
    <3>4. WillKnow(n)
      BY <2>2, <3>2, <3>3, KnowAfterAppend
    <3> QED
      BY <1>a, <3>3, <3>4
  <2> QED
    BY <2>1, <2>2
<1>9. ASSUME RouterHears
      PROVE  \E t \in Sessions : NameOf[t] = n /\ task'[t] = "leaving"
  <2>1. WillKnow(n)
    BY <1>9, KnowAfterHear DEF RouterHears
  <2> QED
    BY <1>9, <1>a, <2>1 DEF RouterHears
<1>10. ASSUME NEW x \in Names, RouterMisses(x)
       PROVE  \E t \in Sessions : NameOf[t] = n /\ task'[t] = "leaving"
  <2>1. connected'[n] # None => connected[n] # None
    BY <1>10 DEF RouterMisses, HubTypeOK
  <2>2. WillKnow(n)
    BY <1>10, <2>1 DEF RouterMisses, WillKnow, Silent, LastAbout
  <2> QED
    BY <1>10, <1>a, <2>2 DEF RouterMisses
<1>11. ASSUME UNCHANGED hubVars
       PROVE  \E t \in Sessions : NameOf[t] = n /\ task'[t] = "leaving"
  BY <1>11, <1>a, <1>b DEF hubVars
<1> QED
  BY <1>1, <1>2, <1>3, <1>4, <1>5, <1>6, <1>7, <1>8, <1>9, <1>10, <1>11
     DEF HubNext, SessionStep, ToggleStep

\* A screen that left the registry is known to the router only while its session has its
\* goodbye to send (Hub::unregister), however sessions, switch and router interleave.
THEOREM HubNoGhost == HubSpec => []NoGhost
<1>1. HubInit => NoGhost
  BY DEF HubInit, NoGhost, WillKnow, Silent, LastAbout
<1> QED
  BY <1>1, HubInitOwnership, HubNextOwnership, HubNextNoGhost, PTL DEF HubSpec

----------------------------------------------------------------------------
(* What the router knows of a screen is not out of date.                   *)

\* The router will have these monitors for n once it has read every event that waits.
WillKnowAs(n, m) ==
  \/ Silent(n) /\ connected[n] = m
  \/ \E i \in 1..Len(hubEvents) : LastAbout(n, i) /\ hubEvents[i] = Connected(n, m)

\* With nothing left to announce, what the router will know of a screen that is on are the
\* monitors in its entry.
Current(n) ==
  /\ entry[n] # None /\ n \notin disabled
  /\ task[entry[n].session] = "serving" /\ <<n, FALSE>> \notin telling
  /\ WillKnow(n)
  => WillKnowAs(n, entry[n].monitors)
AllCurrent == \A n \in Names : Current(n)

LEMMA KnowAsAfterAppend ==
  ASSUME HubTypeOK, NEW e \in HubEvent, hubEvents' = Append(hubEvents, e),
         connected' = connected, NEW n \in Names, NEW m
  PROVE  /\ e.name # n /\ WillKnowAs(n, m) => WillKnowAs(n, m)'
         /\ e = Connected(n, m) => WillKnowAs(n, m)'
<1> USE DEF HubTypeOK, WillKnowAs, Silent, LastAbout
<1>1. /\ Len(hubEvents') = Len(hubEvents) + 1 /\ Len(hubEvents) \in Nat
      /\ hubEvents'[Len(hubEvents) + 1] = e
      /\ \A i \in 1..Len(hubEvents) : hubEvents'[i] = hubEvents[i]
  OBVIOUS
<1>2. ASSUME e.name # n, WillKnowAs(n, m) PROVE WillKnowAs(n, m)'
  BY <1>1, <1>2
<1>3. ASSUME e = Connected(n, m) PROVE WillKnowAs(n, m)'
  <2>1. Len(hubEvents) + 1 \in 1..Len(hubEvents') /\ hubEvents'[Len(hubEvents) + 1].name = n
    BY <1>1, <1>3 DEF Connected
  <2> QED
    BY <1>1, <1>3, <2>1
<1> QED
  BY <1>2, <1>3

\* Reading an event does not change what the router will know in the end.
LEMMA KnowAsAfterHear ==
  ASSUME HubTypeOK, hubEvents # <<>>, hubEvents' = Tail(hubEvents), Hear(Head(hubEvents)),
         NEW n \in Names, NEW m, WillKnowAs(n, m)
  PROVE  WillKnowAs(n, m)'
<1> USE DEF HubTypeOK
<1>1. /\ Len(hubEvents) \in Nat \ {0}
      /\ Len(hubEvents') = Len(hubEvents) - 1
      /\ Head(hubEvents) = hubEvents[1] /\ hubEvents[1] \in HubEvent
      /\ \A i \in 1..Len(hubEvents') : hubEvents'[i] = hubEvents[i + 1] /\ i + 1 \in 1..Len(hubEvents)
  OBVIOUS
<1>2. CASE Silent(n) /\ connected[n] = m
  <2>1. Silent(n)'
    BY <1>1, <1>2 DEF Silent
  <2>2. connected'[n] = m
    BY <1>1, <1>2 DEF Hear, Silent
  <2> QED
    BY <2>1, <2>2 DEF WillKnowAs
<1>3. ASSUME NEW i \in 1..Len(hubEvents), LastAbout(n, i), hubEvents[i] = Connected(n, m)
      PROVE  WillKnowAs(n, m)'
  <2>1. CASE i = 1
    <3>1. Silent(n)'
      BY <1>1, <1>3, <2>1 DEF Silent, LastAbout
    <3>2. connected'[n] = m
      BY <1>1, <1>3, <2>1 DEF Hear, Connected
    <3> QED
      BY <3>1, <3>2 DEF WillKnowAs
  <2>2. CASE i # 1
    <3>1. i - 1 \in 1..Len(hubEvents') /\ hubEvents'[i - 1] = hubEvents[i]
      BY <1>1, <2>2
    <3>2. \A j \in 1..Len(hubEvents') : j > i - 1 => hubEvents'[j].name # n
      BY <1>1, <1>3 DEF LastAbout
    <3>3. LastAbout(n, i - 1)'
      BY <1>3, <3>1, <3>2 DEF LastAbout
    <3> QED
      BY <1>3, <3>1, <3>3 DEF WillKnowAs
  <2> QED
    BY <2>1, <2>2
<1> QED
  BY <1>2, <1>3 DEF WillKnowAs

LEMMA HubNextCurrent == Ownership /\ AllCurrent /\ [HubNext]_hubVars => AllCurrent'
<1> SUFFICES ASSUME HubTypeOK, OneOwner, AllCurrent, [HubNext]_hubVars, NEW n \in Names
             PROVE  Current(n)'
  BY DEF Ownership, AllCurrent
<1> USE HubAssumption
<1>0. /\ NameOf \in [Sessions -> Names] /\ task \in [Sessions -> TaskState]
      /\ entry \in [Names -> Entry \cup {None}] /\ Current(n)
      /\ entry[n] # None => entry[n].session \in Sessions /\ NameOf[entry[n].session] = n
  BY DEF HubTypeOK, AllCurrent, OneOwner, Registered
\* What is left to show when nothing that is about n changes.
<1>a. ASSUME entry'[n] = entry[n], n \notin disabled' => n \notin disabled,
             <<n, FALSE>> \in telling => <<n, FALSE>> \in telling',
             entry[n] # None /\ task'[entry[n].session] = "serving" => task[entry[n].session] = "serving",
             WillKnow(n)' => WillKnow(n), \A m : WillKnowAs(n, m) => WillKnowAs(n, m)'
      PROVE  Current(n)'
  BY <1>0, <1>a DEF Current
<1>b. ASSUME UNCHANGED <<hubEvents, connected>>
      PROVE  WillKnow(n)' = WillKnow(n) /\ \A m : WillKnowAs(n, m)' = WillKnowAs(n, m)
  BY <1>b DEF WillKnow, WillKnowAs, Silent, LastAbout
\* An event about n that was sent last.
<1>c. ASSUME NEW e \in HubEvent, hubEvents' = Append(hubEvents, e), connected' = connected, entry' = entry,
             e.name = n, e.ev # "connected" \/ (entry[n] # None /\ e = Connected(n, entry[n].monitors))
      PROVE  Current(n)'
  <2>1. CASE e.ev # "connected"
    <3>1. ~ WillKnow(n)'
      BY <1>c, <2>1, KnowAfterAppend
    <3> QED
      BY <3>1 DEF Current
  <2>2. CASE entry[n] # None /\ e = Connected(n, entry[n].monitors)
    <3>1. WillKnowAs(n, entry[n].monitors)'
      BY <1>c, <2>2, KnowAsAfterAppend
    <3> QED
      BY <1>c, <3>1 DEF Current
  <2> QED
    BY <1>c, <2>1, <2>2
\* An event about another screen.
<1>d. ASSUME NEW e \in HubEvent, hubEvents' = Append(hubEvents, e), connected' = connected, e.name # n
      PROVE  (WillKnow(n)' => WillKnow(n)) /\ \A m : WillKnowAs(n, m) => WillKnowAs(n, m)'
  BY <1>d, KnowAfterAppend, KnowAsAfterAppend
<1>1. ASSUME NEW s \in Sessions, NEW m \in Arrangements, Register(s, m) PROVE Current(n)'
  <2>1. CASE NameOf[s] = n
    <3>1. entry'[n].session = s /\ task'[s] = "checking"
      BY <1>0, <1>1, <2>1 DEF Register
    <3> QED
      BY <3>1 DEF Current
  <2>2. CASE NameOf[s] # n
    BY <1>0, <1>1, <1>a, <1>b, <2>2 DEF Register
  <2> QED
    BY <2>1, <2>2
<1>2. ASSUME NEW s \in Sessions, NEW m \in Arrangements, ChangeMonitors(s, m) PROVE Current(n)'
  <2>1. CASE NameOf[s] = n
    <3>1. entry[n].session = s /\ entry[n] \in Entry
      BY <1>0, <1>2, <2>1 DEF ChangeMonitors, OneOwner, Registered
    <3>2. entry' = [entry EXCEPT ![n] = [entry[n] EXCEPT !.monitors = m]] /\ task'[s] = "checking"
      BY <1>0, <1>2, <2>1 DEF ChangeMonitors
    <3>3. entry'[n].session = s
      BY <1>0, <3>1, <3>2 DEF Entry
    <3> QED
      BY <3>2, <3>3 DEF Current
  <2>2. CASE NameOf[s] # n
    BY <1>0, <1>2, <1>a, <1>b, <2>2 DEF ChangeMonitors
  <2> QED
    BY <2>1, <2>2
<1>3. ASSUME NEW s \in Sessions, CheckDisabled(s) PROVE Current(n)'
  <2>1. CASE entry[n] # None /\ entry[n].session = s
    <3>1. task'[s] = (IF n \in disabled THEN "serving" ELSE "announcing") /\ UNCHANGED <<entry, disabled>>
      BY <1>0, <1>3, <2>1 DEF CheckDisabled
    <3> QED
      BY <2>1, <3>1 DEF Current
  <2>2. CASE ~(entry[n] # None /\ entry[n].session = s)
    BY <1>0, <1>3, <1>a, <1>b, <2>2 DEF CheckDisabled
  <2> QED
    BY <2>1, <2>2
<1>4. ASSUME NEW s \in Sessions, Announce(s) PROVE Current(n)'
  <2> DEFINE e == Connected(NameOf[s], entry[NameOf[s]].monitors)
  <2>1. entry[NameOf[s]] \in Entry /\ entry[NameOf[s]].session = s
    BY <1>4, <1>0 DEF Announce, OneOwner, Registered
  <2>2. e \in HubEvent /\ e.name = NameOf[s] /\ entry[NameOf[s]] # None
    BY <2>1, <1>0 DEF HubEvent, Connected, Entry
  <2>3. hubEvents' = Append(hubEvents, e) /\ UNCHANGED <<entry, disabled, telling, connected>>
    BY <1>4 DEF Announce
  <2>4. CASE NameOf[s] = n
    BY <1>c, <2>2, <2>3, <2>4
  <2>5. CASE NameOf[s] # n
    <3>1. (WillKnow(n)' => WillKnow(n)) /\ \A m : WillKnowAs(n, m) => WillKnowAs(n, m)'
      BY <1>d, <2>2, <2>3, <2>5
    <3>2. entry[n] # None => task'[entry[n].session] = task[entry[n].session]
      BY <1>0, <1>4, <2>5 DEF Announce
    <3> QED
      BY <1>a, <2>3, <3>1, <3>2
  <2> QED
    BY <2>4, <2>5
<1>5. ASSUME NEW s \in Sessions, Unregister(s) PROVE Current(n)'
  <2>1. CASE NameOf[s] = n
    BY <1>0, <1>5, <2>1 DEF Unregister, Current
  <2>2. CASE NameOf[s] # n
    BY <1>0, <1>5, <1>a, <1>b, <2>2 DEF Unregister
  <2> QED
    BY <2>1, <2>2
<1>6. ASSUME NEW s \in Sessions, SayGone(s) PROVE Current(n)'
  <2> DEFINE e == Disconnected(NameOf[s])
  <2>1. e \in HubEvent /\ e.name = NameOf[s] /\ e.ev # "connected"
    BY <1>0 DEF HubEvent, Disconnected
  <2>2. hubEvents' = Append(hubEvents, e) /\ UNCHANGED <<entry, disabled, telling, connected>>
    BY <1>6 DEF SayGone
  <2>3. CASE NameOf[s] = n
    BY <1>c, <2>1, <2>2, <2>3
  <2>4. CASE NameOf[s] # n
    <3>1. (WillKnow(n)' => WillKnow(n)) /\ \A m : WillKnowAs(n, m) => WillKnowAs(n, m)'
      BY <1>d, <2>1, <2>2, <2>4
    <3>2. entry[n] # None => task'[entry[n].session] = task[entry[n].session]
      BY <1>0, <1>6, <2>4 DEF SayGone
    <3> QED
      BY <1>a, <2>2, <3>1, <3>2
  <2> QED
    BY <2>3, <2>4
<1>7. ASSUME NEW x \in Names, NEW off \in BOOLEAN, SetDisabled(x, off) PROVE Current(n)'
  <2>1. CASE n \in disabled /\ n \notin disabled'
    <3>1. <<n, FALSE>> \in telling'
      BY <1>7, <2>1 DEF SetDisabled
    <3> QED
      BY <3>1 DEF Current
  <2>2. CASE n \notin disabled' => n \notin disabled
    BY <1>7, <1>a, <1>b, <2>2 DEF SetDisabled
  <2> QED
    BY <2>1, <2>2
<1>8. ASSUME NEW x \in Names, NEW off \in BOOLEAN, TellToggle(x, off) PROVE Current(n)'
  <2>1. UNCHANGED <<entry, disabled, task, connected>> /\ telling' = telling \ {<<x, off>>}
    BY <1>8 DEF TellToggle
  <2>2. CASE entry[x] = None
    <3>1. UNCHANGED hubEvents
      BY <1>8, <2>2 DEF TellToggle
    <3>2. CASE x = n
      BY <2>1, <2>2, <3>2 DEF Current
    <3>3. CASE x # n
      BY <1>a, <1>b, <2>1, <3>1, <3>3
    <3> QED
      BY <3>2, <3>3
  <2>3. CASE entry[x] # None
    <3> DEFINE e == IF off THEN Disconnected(x) ELSE Connected(x, entry[x].monitors)
    <3>1. /\ Connected(x, entry[x].monitors) \in HubEvent
          /\ Connected(x, entry[x].monitors).name = x
          /\ Disconnected(x) \in HubEvent
          /\ Disconnected(x).name = x /\ Disconnected(x).ev # "connected"
      BY <1>0, <2>3 DEF HubEvent, Connected, Disconnected, Entry
    <3>2. /\ e \in HubEvent /\ e.name = x
          /\ e.ev # "connected" \/ e = Connected(x, entry[x].monitors)
      BY <3>1
    <3>3. hubEvents' = Append(hubEvents, e)
      BY <1>8, <2>3 DEF TellToggle
    <3> HIDE DEF e
    <3>4. CASE x = n
      BY <1>c, <2>1, <2>3, <3>2, <3>3, <3>4
    <3>5. CASE x # n
      <4>1. (WillKnow(n)' => WillKnow(n)) /\ \A m : WillKnowAs(n, m) => WillKnowAs(n, m)'
        BY <1>d, <2>1, <3>2, <3>3, <3>5
      <4> QED
        BY <1>a, <2>1, <3>5, <4>1
    <3> QED
      BY <3>4, <3>5
  <2> QED
    BY <2>2, <2>3
<1>9. CASE RouterHears
  <2>1. (WillKnow(n)' => WillKnow(n)) /\ \A m : WillKnowAs(n, m) => WillKnowAs(n, m)'
    BY <1>9, KnowAfterHear, KnowAsAfterHear DEF RouterHears
  <2> QED
    BY <1>9, <1>a, <2>1 DEF RouterHears
<1>10. ASSUME NEW x \in Names, RouterMisses(x) PROVE Current(n)'
  <2>1. CASE x = n
    BY <1>10, <2>1 DEF RouterMisses, Current
  <2>2. CASE x # n
    <3>1. connected'[n] = connected[n] /\ UNCHANGED <<entry, disabled, hubEvents, task, telling>>
      BY <1>10, <2>2 DEF RouterMisses, HubTypeOK
    <3>2. (WillKnow(n)' => WillKnow(n)) /\ \A m : WillKnowAs(n, m) => WillKnowAs(n, m)'
      BY <3>1 DEF WillKnow, WillKnowAs, Silent, LastAbout
    <3> QED
      BY <1>a, <3>1, <3>2
  <2> QED
    BY <2>1, <2>2
<1>11. CASE UNCHANGED hubVars
  BY <1>11, <1>a, <1>b DEF hubVars
<1> QED
  BY <1>1, <1>2, <1>3, <1>4, <1>5, <1>6, <1>7, <1>8, <1>9, <1>10, <1>11
     DEF HubNext, SessionStep, ToggleStep

\* When nothing about a screen is in flight, the monitors the router has for it are the ones
\* it last reported (Hub::set_monitors), even if it changed them while it was turned off and
\* however often it was turned off and on (Hub::set_disabled).
THEOREM HubFreshMonitors == HubSpec => []FreshMonitors
<1>1. HubInit => AllCurrent
  BY DEF HubInit, AllCurrent, Current
<1>2. Ownership /\ NoGhost /\ AllCurrent => FreshMonitors
  <2> SUFFICES ASSUME Ownership, NoGhost, AllCurrent, NEW n \in Names, SettledFor(n),
                      n \notin disabled, connected[n] # None
               PROVE  entry[n] # None /\ entry[n].monitors = connected[n]
    BY DEF FreshMonitors
  <2>1. Silent(n) /\ WillKnow(n)
    BY DEF SettledFor, WillKnow
  <2>2. entry[n] # None
    BY <2>1 DEF NoGhost, SettledFor
  <2>3. entry[n].session \in Registered /\ NameOf[entry[n].session] = n
    BY <2>2 DEF Ownership, OneOwner
  <2>4. task[entry[n].session] = "serving" /\ <<n, FALSE>> \notin telling
    BY <2>3 DEF SettledFor, Registered
  <2>5. WillKnowAs(n, entry[n].monitors)
    BY <2>1, <2>2, <2>4 DEF AllCurrent, Current
  <2> QED
    BY <2>1, <2>2, <2>5 DEF WillKnowAs, Silent, LastAbout
<1>3. HubInit => NoGhost
  BY DEF HubInit, NoGhost, WillKnow, Silent, LastAbout
<1> QED
  BY <1>1, <1>2, <1>3, HubInitOwnership, HubNextOwnership, HubNextNoGhost, HubNextCurrent, PTL
     DEF HubSpec

----------------------------------------------------------------------------
(* The hub's part.                                                         *)

\* Every step is one of the hub's, or leaves the hub's variables alone.
LEMMA StepOfHub == [Next]_vars => [HubNext]_hubVars
<1> SUFFICES ASSUME [Next]_vars PROVE [HubNext]_hubVars
  OBVIOUS
<1>1. CASE HandleInput
  BY <1>1 DEF HandleInput
<1>2. CASE HandleHubEvent
  BY <1>2 DEF HandleHubEvent, HubNext
<1>3. CASE CarryOutCommand
  BY <1>3 DEF CarryOutCommand
<1>4. CASE CarryOutSend
  BY <1>4 DEF CarryOutSend
<1>5. CASE RouterReturns \/ AbortRouter
  BY <1>5 DEF RouterReturns, AbortRouter
<1>6. CASE CaptureObeys
  BY <1>6 DEF CaptureObeys
<1>7. CASE CaptureEnds
  BY <1>7 DEF CaptureEnds
<1>8. ASSUME NEW e \in CaptureEvent, UserInput(e) PROVE [HubNext]_hubVars
  BY <1>8 DEF UserInput
<1>9. ASSUME NEW s \in Sessions, Receive(s) PROVE [HubNext]_hubVars
  BY <1>9 DEF Receive
<1>10. ASSUME NEW s \in Sessions, Drop(s) PROVE [HubNext]_hubVars
  BY <1>10 DEF Drop
<1>11. ASSUME NEW s \in Sessions, EndSession(s) PROVE [HubNext]_hubVars
  BY <1>11 DEF EndSession, HubNext, SessionStep
<1>12. ASSUME NEW s \in Sessions, NEW m \in Arrangements, Connect(s, m) PROVE [HubNext]_hubVars
  BY <1>12 DEF Connect, HubNext, SessionStep
<1>13. CASE HubSide
  BY <1>13 DEF HubSide, HubNext, SessionTalk, SessionStep
<1>14. CASE SendFails
  <2>1. Head(pending).to \in Names
    BY <1>14 DEF SendFails, ToClient
  <2> QED
    BY <1>14, <2>1 DEF SendFails, HubNext
<1>15. CASE UNCHANGED vars
  BY <1>15 DEF vars
<1> QED
  BY <1>1, <1>2, <1>3, <1>4, <1>5, <1>6, <1>7, <1>8, <1>9, <1>10, <1>11, <1>12, <1>13, <1>14,
     <1>15 DEF Next, RouterStep

\* What the hub's theorems say holds of every behaviour of the composition.
LEMMA HubPart == Spec => [](Ownership /\ NoGhost)
<1>1. RoutingInit => HubInit
  BY DEF RoutingInit
<1>2. HubInit => NoGhost
  BY DEF HubInit, NoGhost, WillKnow, Silent, LastAbout
<1> QED
  BY <1>1, <1>2, StepOfHub, HubInitOwnership, HubNextOwnership, HubNextNoGhost, PTL DEF Spec

----------------------------------------------------------------------------
(* Types.                                                                  *)

\* Short sequences over a set.
LEMMA ShortSeqs ==
  ASSUME NEW S, NEW x \in S, NEW y \in S, NEW z \in S
  PROVE  <<>> \in Seq(S) /\ <<x>> \in Seq(S) /\ <<x, y>> \in Seq(S) /\ <<x, y, z>> \in Seq(S)
  OBVIOUS

\* The lists of actions the router's handlers decide on.
LEMMA ActionTypes ==
  /\ <<>> \in Seq(ToCapture \cup ToClient)
  /\ \A n \in Names : EnterActions(n) \in Seq(ToCapture \cup ToClient)
  /\ \A n, k \in Names : CrossActions(n, k) \in Seq(ToCapture \cup ToClient)
  /\ \A n \in Names : HomeActions(n) \in Seq(ToCapture \cup ToClient)
  /\ \A n \in Names, m \in Msg : <<Send(n, m)>> \in Seq(ToCapture \cup ToClient)
<1> DEFINE S == ToCapture \cup ToClient
<1>1. Grab \in S /\ Ungrab \in S
  BY DEF Grab, Ungrab, ToCapture, CaptureCmd
<1>2. \A n \in Names, m \in Msg : Send(n, m) \in S
  BY DEF Send, ToClient
<1>3. {"enter", "leave", "move"} \subseteq Msg
  BY DEF Msg
<1>4. <<>> \in Seq(S)
  OBVIOUS
<1>5. ASSUME NEW n \in Names PROVE EnterActions(n) \in Seq(S)
  <2>1. Send(n, "enter") \in S
    BY <1>2, <1>3
  <2> HIDE DEF S
  <2>2. <<Grab, Send(n, "enter")>> \in Seq(S)
    BY <1>1, <2>1, ShortSeqs, Zenon
  <2> QED
    BY <2>2 DEF EnterActions
<1>6. ASSUME NEW n \in Names, NEW k \in Names PROVE CrossActions(n, k) \in Seq(S)
  <2>1. Send(n, "move") \in S /\ Send(n, "leave") \in S /\ Send(k, "enter") \in S
    BY <1>2, <1>3
  <2> HIDE DEF S
  <2>2. <<Send(n, "move"), Send(n, "leave"), Send(k, "enter")>> \in Seq(S)
    BY <2>1, ShortSeqs, Zenon
  <2> QED
    BY <2>2 DEF CrossActions
<1>7. ASSUME NEW n \in Names PROVE HomeActions(n) \in Seq(S)
  <2>1. Send(n, "leave") \in S
    BY <1>2, <1>3
  <2> HIDE DEF S
  <2>2. <<Send(n, "leave"), Ungrab>> \in Seq(S)
    BY <1>1, <2>1, ShortSeqs, Zenon
  <2> QED
    BY <2>2 DEF HomeActions
<1>8. ASSUME NEW n \in Names, NEW m \in Msg PROVE <<Send(n, m)>> \in Seq(S)
  <2>1. Send(n, m) \in S
    BY <1>2
  <2> HIDE DEF S
  <2> QED
    BY <2>1, ShortSeqs, Zenon
<1> QED
  BY <1>4, <1>5, <1>6, <1>7, <1>8 DEF S

\* What a handler of a capture event decides: at most where the input goes, which is home
\* or a screen the router knows, and a list of actions.
LEMMA DecisionTypes ==
  ASSUME TypeOK, ActiveIsKnown, HandleInput
  PROVE  /\ active' \in Known \cup {Local}
         /\ pending' \in Seq(ToCapture \cup ToClient)
<1> USE DEF Go, Stay
<1>1. active # Local => active \in Known /\ active \in Names
  BY DEF ActiveIsKnown, Known
<1>2. Known \subseteq Names
  BY DEF Known
<1>3. CASE OnPointer
  BY <1>1, <1>2, <1>3, ActionTypes DEF OnPointer
<1>4. CASE OnHotkey
  BY <1>1, <1>2, <1>4, ActionTypes DEF OnHotkey
<1>5. CASE OnGrabFailed
  <2>1. "leave" \in Msg
    BY DEF Msg
  <2> QED
    BY <1>1, <1>2, <1>5, <2>1, ActionTypes DEF OnGrabFailed
<1>6. CASE OnMotion
  <2>1. "move" \in Msg
    BY DEF Msg
  <2>2. \A q, r \in Seq(ToCapture \cup ToClient) : q \o r \in Seq(ToCapture \cup ToClient)
    OBVIOUS
  <2>3. CASE active \notin Known /\ Stay(<<>>)
    BY <1>1, <2>3, ActionTypes
  <2>4. CASE active \in Known /\ Stay(<<Send(active, "move")>>)
    BY <1>2, <2>1, <2>4, ActionTypes
  <2>5. ASSUME active \in Known, NEW n \in Known, Go(n, CrossActions(active, n))
        PROVE  active' \in Known \cup {Local} /\ pending' \in Seq(ToCapture \cup ToClient)
    BY <1>2, <2>5, ActionTypes
  <2>6. CASE active \in Known /\ Go(Local, <<Send(active, "move")>> \o HomeActions(active))
    BY <1>2, <2>1, <2>2, <2>6, ActionTypes
  <2> QED
    BY <1>6, <2>3, <2>4, <2>5, <2>6 DEF OnMotion
<1>7. ASSUME NEW m \in {"press", "release"}, Forward(m)
      PROVE  active' \in Known \cup {Local} /\ pending' \in Seq(ToCapture \cup ToClient)
  <2>1. m \in Msg
    BY DEF Msg
  <2> QED
    BY <1>1, <1>7, <2>1, ActionTypes DEF Forward
<1>8. inputs # <<>> /\ inputs \in Seq(CaptureEvent) => Head(inputs) \in CaptureEvent
  OBVIOUS
<1> QED
  BY <1>3, <1>4, <1>5, <1>6, <1>7, <1>8 DEF HandleInput, TypeOK, CaptureEvent

\* The parts of TypeOK that are not the hub's.
RouterTypes ==
  /\ active \in Names \cup {Local}
  /\ pending \in Seq(ToCapture \cup ToClient)
  /\ running \in BOOLEAN
CaptureTypes ==
  /\ inputs \in Seq(CaptureEvent)
  /\ cmds \in Seq(CaptureCmd)
  /\ grabbed \in BOOLEAN
  /\ capturing \in BOOLEAN
ClientTypes ==
  /\ queue \in [Sessions -> Seq(Msg)]
  /\ online \in [Sessions -> BOOLEAN]
  /\ held \in [Sessions -> BOOLEAN]
  /\ inside \in [Sessions -> BOOLEAN]
HistoryTypes ==
  /\ orphaned \in SUBSET Names
  /\ stranger \in SUBSET Sessions

LEMMA TypeParts ==
  /\ TypeOK <=> HubTypeOK /\ RouterTypes /\ CaptureTypes /\ ClientTypes /\ HistoryTypes
  /\ TypeOK' <=> HubTypeOK' /\ RouterTypes' /\ CaptureTypes' /\ ClientTypes' /\ HistoryTypes'
  BY DEF TypeOK, RouterTypes, CaptureTypes, ClientTypes, HistoryTypes

\* A prefix of a sequence is one over the same set.
LEMMA PrefixType ==
  ASSUME NEW S, NEW q \in Seq(S), NEW k \in 0..Len(q)
  PROVE  SubSeq(q, 1, k) \in Seq(S)
  OBVIOUS

\* The router's variables.
LEMMA NextRouterTypes == TypeOK /\ ActiveIsKnown /\ [Next]_vars => RouterTypes'
<1> SUFFICES ASSUME TypeOK, ActiveIsKnown, [Next]_vars PROVE RouterTypes'
  OBVIOUS
<1>0. RouterTypes /\ HubTypeOK
  BY TypeParts
<1>k. pending # <<>> => Tail(pending) \in Seq(ToCapture \cup ToClient)
  BY <1>0 DEF RouterTypes
<1>a. ASSUME UNCHANGED routerVars PROVE RouterTypes'
  BY <1>0, <1>a DEF RouterTypes, routerVars
<1>b. ASSUME NEW n \in Names, NEW rest \in Seq(ToCapture \cup ToClient), TakeBack(n, rest),
             UNCHANGED running
      PROVE  RouterTypes'
  <2>1. Ungrab \in ToCapture \cup ToClient
    BY DEF Ungrab, ToCapture, CaptureCmd
  <2>2. Append(rest, Ungrab) \in Seq(ToCapture \cup ToClient)
    BY <2>1
  <2> QED
    BY <1>0, <1>b, <2>2 DEF TakeBack, Go, Stay, RouterTypes
<1>1. CASE HandleInput
  <2>1. active' \in Names \cup {Local} /\ pending' \in Seq(ToCapture \cup ToClient)
    BY <1>1, DecisionTypes DEF Known
  <2> QED
    BY <1>0, <1>1, <2>1 DEF HandleInput, RouterTypes
<1>2. CASE HandleHubEvent
  <2>1. <<>> \in Seq(ToCapture \cup ToClient)
    OBVIOUS
  <2>2. Head(hubEvents) \in HubEvent
    BY <1>0, <1>2 DEF HandleHubEvent, RouterHears, HubTypeOK
  <2>3. Head(hubEvents).name \in Names
    BY <2>2 DEF HubEvent
  <2>4. CASE Head(hubEvents).ev = "connected"
    BY <1>0, <1>2, <2>1, <2>4 DEF HandleHubEvent, Stay, RouterTypes
  <2>5. CASE Head(hubEvents).ev # "connected"
    BY <1>b, <1>2, <2>1, <2>3, <2>5 DEF HandleHubEvent
  <2> QED
    BY <2>4, <2>5
<1>3. CASE CarryOutCommand
  <2>1. <<>> \in Seq(ToCapture \cup ToClient)
    OBVIOUS
  <2> QED
    BY <1>0, <1>3, <1>k, <2>1 DEF CarryOutCommand, RouterTypes
<1>4. CASE CarryOutSend
  BY <1>0, <1>4, <1>k DEF CarryOutSend, RouterTypes
<1>5. CASE SendFails
  <2>1. Head(pending).to \in Names
    BY <1>5 DEF SendFails, ToClient
  <2> QED
    BY <1>5, <1>b, <1>k, <2>1 DEF SendFails
<1>6. CASE RouterReturns \/ AbortRouter
  BY <1>0, <1>6 DEF RouterReturns, AbortRouter, RouterTypes
<1>7. CASE CaptureObeys
  BY <1>7, <1>a DEF CaptureObeys
<1>8. CASE CaptureEnds
  BY <1>8, <1>a DEF CaptureEnds
<1>9. ASSUME NEW e \in CaptureEvent, UserInput(e) PROVE RouterTypes'
  BY <1>9, <1>a DEF UserInput
<1>10. ASSUME NEW s \in Sessions, Receive(s) \/ Drop(s) \/ EndSession(s) PROVE RouterTypes'
  BY <1>10, <1>a DEF Receive, Drop, EndSession
<1>11. ASSUME NEW s \in Sessions, NEW m \in Arrangements, Connect(s, m) PROVE RouterTypes'
  BY <1>11, <1>a DEF Connect
<1>12. CASE HubSide
  BY <1>12, <1>a DEF HubSide
<1>13. CASE UNCHANGED vars
  BY <1>13, <1>a DEF vars
<1> QED
  BY <1>1, <1>2, <1>3, <1>4, <1>5, <1>6, <1>7, <1>8, <1>9, <1>10, <1>11, <1>12, <1>13
     DEF Next, RouterStep

\* The capture thread's variables.
LEMMA NextCaptureTypes == TypeOK /\ [Next]_vars => CaptureTypes'
<1> SUFFICES ASSUME TypeOK, [Next]_vars PROVE CaptureTypes'
  OBVIOUS
<1>0. CaptureTypes /\ RouterTypes
  BY TypeParts
<1>a. ASSUME UNCHANGED captureVars PROVE CaptureTypes'
  BY <1>0, <1>a DEF CaptureTypes, captureVars
<1>1. CASE HandleInput
  BY <1>0, <1>1 DEF HandleInput, CaptureTypes
<1>2. CASE CarryOutCommand
  <2>1. Head(pending).cmd \in CaptureCmd
    BY <1>2 DEF CarryOutCommand, ToCapture
  <2>2. cmds \in Seq(CaptureCmd) /\ Append(cmds, Head(pending).cmd) \in Seq(CaptureCmd)
    BY <1>0, <2>1 DEF CaptureTypes
  <2>3. cmds' = Append(cmds, Head(pending).cmd) \/ cmds' = cmds
    BY <1>2, Zenon DEF CarryOutCommand
  <2>4. UNCHANGED <<inputs, grabbed, capturing>>
    BY <1>2 DEF CarryOutCommand
  <2> QED
    BY <1>0, <2>2, <2>3, <2>4, Zenon DEF CaptureTypes
<1>3. CASE CaptureObeys
  <2>1. Tail(cmds) \in Seq(CaptureCmd)
    BY <1>0, <1>3 DEF CaptureObeys, CaptureTypes
  <2>2. Append(inputs, "grabFailed") \in Seq(CaptureEvent)
    BY <1>0 DEF CaptureEvent, CaptureTypes
  <2>3. grabbed' \in BOOLEAN
    <3>1. \/ grabbed' = (Head(cmds) = "grab")
          \/ grabbed' = TRUE
          \/ grabbed' = FALSE
      BY <1>3, Zenon DEF CaptureObeys
    <3> QED
      BY <3>1
  <2>4. inputs' \in Seq(CaptureEvent)
    BY <1>0, <1>3, <2>2, Zenon DEF CaptureObeys, CaptureTypes
  <2> QED
    BY <1>0, <1>3, <2>1, <2>3, <2>4 DEF CaptureObeys, CaptureTypes
<1>4. CASE CaptureEnds
  <2>1. <<>> \in Seq(CaptureCmd)
    OBVIOUS
  <2> QED
    BY <1>0, <1>4, <2>1, Zenon DEF CaptureEnds, CaptureTypes
<1>5. ASSUME NEW e \in CaptureEvent, UserInput(e) PROVE CaptureTypes'
  BY <1>0, <1>5 DEF UserInput, CaptureTypes
<1>6. CASE HandleHubEvent \/ CarryOutSend \/ SendFails
  BY <1>6, <1>a DEF HandleHubEvent, CarryOutSend, SendFails
<1>7. CASE RouterReturns \/ AbortRouter \/ HubSide
  BY <1>7, <1>a DEF RouterReturns, AbortRouter, HubSide
<1>8. ASSUME NEW s \in Sessions, Receive(s) \/ Drop(s) \/ EndSession(s) PROVE CaptureTypes'
  BY <1>8, <1>a DEF Receive, Drop, EndSession
<1>9. ASSUME NEW s \in Sessions, NEW m \in Arrangements, Connect(s, m) PROVE CaptureTypes'
  BY <1>9, <1>a DEF Connect
<1>10. CASE UNCHANGED vars
  BY <1>10, <1>a DEF vars
<1> QED
  BY <1>1, <1>2, <1>3, <1>4, <1>5, <1>6, <1>7, <1>8, <1>9, <1>10 DEF Next, RouterStep

\* The clients' variables.
LEMMA NextClientTypes == TypeOK /\ [Next]_vars => ClientTypes'
<1> SUFFICES ASSUME TypeOK, [Next]_vars PROVE ClientTypes'
  OBVIOUS
<1>0. ClientTypes /\ HubTypeOK
  BY TypeParts
<1>a. ASSUME UNCHANGED clientVars PROVE ClientTypes'
  BY <1>0, <1>a DEF ClientTypes, clientVars
<1>1. CASE CarryOutSend
  <2>1. Head(pending).msg \in Msg
    BY <1>1 DEF CarryOutSend, ToClient
  <2>2. \A q \in Seq(Msg) : Append(q, Head(pending).msg) \in Seq(Msg)
    BY <2>1
  <2>3. \E s : \E q \in {queue[s], Append(queue[s], Head(pending).msg)} :
          queue' = [queue EXCEPT ![s] = q]
    BY <1>1, Zenon DEF CarryOutSend
  <2>4. queue' \in [Sessions -> Seq(Msg)]
    <3>1. PICK s, q : /\ q \in {queue[s], Append(queue[s], Head(pending).msg)}
                      /\ queue' = [queue EXCEPT ![s] = q]
      BY <2>3
    <3>2. CASE s \in Sessions
      <4>1. queue[s] \in Seq(Msg)
        BY <1>0, <3>2 DEF ClientTypes
      <4>2. q \in Seq(Msg)
        BY <2>2, <3>1, <4>1
      <4> QED
        BY <1>0, <3>1, <4>2 DEF ClientTypes
    <3>3. CASE s \notin Sessions
      BY <1>0, <3>1, <3>3 DEF ClientTypes
    <3> QED
      BY <3>2, <3>3
  <2>5. UNCHANGED <<online, held, inside>>
    BY <1>1 DEF CarryOutSend
  <2> QED
    BY <1>0, <2>4, <2>5, Zenon DEF ClientTypes
<1>2. ASSUME NEW s \in Sessions, Receive(s) PROVE ClientTypes'
  <2>1. Tail(queue[s]) \in Seq(Msg) /\ queue' = [queue EXCEPT ![s] = Tail(queue[s])]
    BY <1>0, <1>2 DEF Receive, ClientTypes
  <2>2. \E b \in BOOLEAN : held' = [held EXCEPT ![s] = b]
    BY <1>0, <1>2 DEF Receive, ClientTypes
  <2>3. \E b \in BOOLEAN : inside' = [inside EXCEPT ![s] = b]
    BY <1>0, <1>2 DEF Receive, ClientTypes
  <2>4. UNCHANGED online
    BY <1>2 DEF Receive
  <2> QED
    BY <1>0, <2>1, <2>2, <2>3, <2>4 DEF ClientTypes
<1>3. ASSUME NEW s \in Sessions, Drop(s) PROVE ClientTypes'
  BY <1>0, <1>3 DEF Drop, ClientTypes
<1>4. ASSUME NEW s \in Sessions, EndSession(s) PROVE ClientTypes'
  <2>1. PICK k \in 0..Len(queue[s]) : queue' = [queue EXCEPT ![s] = SubSeq(queue[s], 1, k)]
    BY <1>4 DEF EndSession
  <2>2. SubSeq(queue[s], 1, k) \in Seq(Msg)
    BY <1>0, PrefixType DEF ClientTypes
  <2>3. UNCHANGED <<online, held, inside>>
    BY <1>4 DEF EndSession
  <2> QED
    BY <1>0, <2>1, <2>2, <2>3 DEF ClientTypes
<1>5. ASSUME NEW s \in Sessions, NEW m \in Arrangements, Connect(s, m) PROVE ClientTypes'
  BY <1>0, <1>5 DEF Connect, ClientTypes
<1>6. CASE HandleInput \/ HandleHubEvent \/ CarryOutCommand \/ SendFails
  BY <1>6, <1>a DEF HandleInput, HandleHubEvent, CarryOutCommand, SendFails
<1>7. CASE RouterReturns \/ AbortRouter \/ CaptureObeys \/ CaptureEnds \/ HubSide
  BY <1>7, <1>a DEF RouterReturns, AbortRouter, CaptureObeys, CaptureEnds, HubSide
<1>8. ASSUME NEW e \in CaptureEvent, UserInput(e) PROVE ClientTypes'
  BY <1>8, <1>a DEF UserInput
<1>9. CASE UNCHANGED vars
  BY <1>9, <1>a DEF vars
<1> QED
  BY <1>1, <1>2, <1>3, <1>4, <1>5, <1>6, <1>7, <1>8, <1>9 DEF Next, RouterStep

\* The history variables.
LEMMA NextHistoryTypes == TypeOK /\ [Next]_vars => HistoryTypes'
<1> SUFFICES ASSUME TypeOK, [Next]_vars PROVE HistoryTypes'
  OBVIOUS
<1>0. HistoryTypes /\ HubTypeOK
  BY TypeParts
<1>a. ASSUME UNCHANGED historyVars PROVE HistoryTypes'
  BY <1>0, <1>a DEF HistoryTypes, historyVars
<1>b. ASSUME NEW n \in Names, NEW rest, TakeBack(n, rest), UNCHANGED stranger PROVE HistoryTypes'
  BY <1>0, <1>b DEF TakeBack, HistoryTypes
<1>1. CASE HandleHubEvent
  <2>1. Head(hubEvents) \in HubEvent
    BY <1>0, <1>1 DEF HandleHubEvent, RouterHears, HubTypeOK
  <2>2. Head(hubEvents).name \in Names
    BY <2>1 DEF HubEvent
  <2> QED
    BY <1>0, <1>1, <1>b, <2>2 DEF HandleHubEvent, HistoryTypes
<1>2. CASE CarryOutSend
  BY <1>0, <1>2 DEF CarryOutSend, HistoryTypes
<1>3. CASE SendFails
  <2>1. Head(pending).to \in Names
    BY <1>3 DEF SendFails, ToClient
  <2> QED
    BY <1>3, <1>b, <2>1 DEF SendFails
<1>4. ASSUME NEW s \in Sessions, Drop(s) PROVE HistoryTypes'
  BY <1>0, <1>4 DEF Drop, HistoryTypes
<1>5. ASSUME NEW s \in Sessions, NEW m \in Arrangements, Connect(s, m) PROVE HistoryTypes'
  BY <1>0, <1>5 DEF Connect, HistoryTypes
<1>6. ASSUME NEW s \in Sessions, Receive(s) \/ EndSession(s) PROVE HistoryTypes'
  BY <1>6, <1>a DEF Receive, EndSession
<1>7. CASE HandleInput \/ CarryOutCommand \/ RouterReturns \/ AbortRouter
  BY <1>7, <1>a DEF HandleInput, CarryOutCommand, RouterReturns, AbortRouter
<1>8. CASE CaptureObeys \/ CaptureEnds \/ HubSide
  BY <1>8, <1>a DEF CaptureObeys, CaptureEnds, HubSide
<1>9. ASSUME NEW e \in CaptureEvent, UserInput(e) PROVE HistoryTypes'
  BY <1>9, <1>a DEF UserInput
<1>10. CASE UNCHANGED vars
  BY <1>10, <1>a DEF vars
<1> QED
  BY <1>1, <1>2, <1>3, <1>4, <1>5, <1>6, <1>7, <1>8, <1>9, <1>10 DEF Next, RouterStep

----------------------------------------------------------------------------
(* The input goes to screens the router knows.                             *)

\* A step of the router moves the input to a screen it knows or home, and forgets a
\* screen only by taking the input back from it.
LEMMA NextFocus ==
  TypeOK /\ ActiveIsKnown /\ [Next]_vars => [Focus!Next]_(Focus!focusVars)
<1> SUFFICES ASSUME TypeOK, ActiveIsKnown, [Next]_vars PROVE [Focus!Next]_(Focus!focusVars)
  OBVIOUS
<1> USE DEF Focus!focusVars, Known
<1>0. active \in Names \cup {Local} /\ (active # Local => active \in Known) /\ HubTypeOK
  BY DEF TypeOK, ActiveIsKnown
<1>a. ASSUME UNCHANGED <<active, connected>> PROVE [Focus!Next]_(Focus!focusVars)
  BY <1>a
\* Forgetting n with the input on it, or elsewhere.
<1>b. ASSUME NEW n \in Names, NEW rest, TakeBack(n, rest),
             connected' = [connected EXCEPT ![n] = None]
      PROVE  [Focus!Next]_(Focus!focusVars)
  <2>1. Known' = Known \ {n}
    BY <1>0, <1>b DEF HubTypeOK
  <2>2. active' = IF active = n THEN Local ELSE active
    BY <1>b DEF TakeBack, Go, Stay
  <2> QED
    BY <2>1, <2>2 DEF Focus!Next, Focus!Lose
<1>1. CASE HandleInput
  <2>1. active' \in Known \cup {Local} /\ UNCHANGED connected
    BY <1>1, DecisionTypes DEF HandleInput, hubVars
  <2>2. CASE active' \in Names
    BY <2>1, <2>2 DEF Focus!Next, Focus!Move
  <2>3. CASE active' = Local /\ active # Local
    BY <1>0, <2>1, <2>3 DEF Focus!Next, Focus!Move
  <2> QED
    BY <1>a, <2>1, <2>2, <2>3
<1>2. CASE HandleHubEvent
  <2> DEFINE ev == Head(hubEvents)
  <2>1. ev \in HubEvent
    BY <1>0, <1>2 DEF HandleHubEvent, RouterHears, HubTypeOK
  <2>2. ev.name \in Names /\ (ev.ev = "connected" => ev.monitors \in Arrangements)
    BY <2>1 DEF HubEvent
  <2>3. Hear(ev)
    BY <1>2 DEF HandleHubEvent, RouterHears
  <2>4. CASE ev.ev = "connected"
    <3>1. connected' = [connected EXCEPT ![ev.name] = ev.monitors] /\ ev.monitors # None
      BY <2>2, <2>3, <2>4, HubAssumption DEF Hear
    <3>2. Known' = Known \cup {ev.name}
      BY <1>0, <2>2, <3>1 DEF HubTypeOK
    <3>3. active' = active
      BY <1>2, <2>4 DEF HandleHubEvent, Stay
    <3> QED
      BY <2>2, <3>2, <3>3 DEF Focus!Next, Focus!Arrive
  <2>5. CASE ev.ev # "connected"
    <3>1. connected' = [connected EXCEPT ![ev.name] = None]
      BY <2>3, <2>5 DEF Hear
    <3>2. TakeBack(ev.name, <<>>)
      BY <1>2, <2>5 DEF HandleHubEvent
    <3> QED
      BY <1>b, <2>2, <3>1, <3>2
  <2> QED
    BY <2>4, <2>5
<1>3. CASE SendFails
  <2>1. Head(pending).to \in Names
    BY <1>3 DEF SendFails, ToClient
  <2> QED
    BY <1>3, <1>b, <2>1 DEF SendFails, RouterMisses
<1>4. CASE CarryOutCommand \/ CarryOutSend \/ RouterReturns \/ AbortRouter
  BY <1>4, <1>a DEF CarryOutCommand, CarryOutSend, RouterReturns, AbortRouter, hubVars
<1>5. CASE CaptureObeys \/ CaptureEnds
  BY <1>5, <1>a DEF CaptureObeys, CaptureEnds, hubVars, routerVars
<1>6. ASSUME NEW e \in CaptureEvent, UserInput(e) PROVE [Focus!Next]_(Focus!focusVars)
  BY <1>6, <1>a DEF UserInput, hubVars, routerVars
<1>7. ASSUME NEW s \in Sessions, Receive(s) \/ Drop(s) PROVE [Focus!Next]_(Focus!focusVars)
  BY <1>7, <1>a DEF Receive, Drop, hubVars, routerVars
<1>8. ASSUME NEW s \in Sessions, EndSession(s) PROVE [Focus!Next]_(Focus!focusVars)
  BY <1>8, <1>a DEF EndSession, Unregister, routerVars
<1>9. ASSUME NEW s \in Sessions, NEW m \in Arrangements, Connect(s, m)
      PROVE  [Focus!Next]_(Focus!focusVars)
  BY <1>9, <1>a DEF Connect, Register, routerVars
<1>10. CASE HubSide
  BY <1>10, <1>a DEF HubSide, SessionTalk, CheckDisabled, Announce, SayGone, ChangeMonitors,
                     ToggleStep, SetDisabled, TellToggle, routerVars
<1>11. CASE UNCHANGED vars
  BY <1>11, <1>a DEF vars, hubVars, routerVars
<1> QED
  BY <1>1, <1>2, <1>3, <1>4, <1>5, <1>6, <1>7, <1>8, <1>9, <1>10, <1>11 DEF Next, RouterStep

\* The abstract promise alone keeps the input on a reachable screen.
LEMMA FocusKept ==
  ActiveIsKnown /\ [Focus!Next]_(Focus!focusVars) => ActiveIsKnown'
<1> SUFFICES ASSUME ActiveIsKnown, [Focus!Next]_(Focus!focusVars) PROVE ActiveIsKnown'
  OBVIOUS
<1> USE DEF ActiveIsKnown, Focus!focusVars
<1>1. ASSUME NEW n \in Names, Focus!Arrive(n) PROVE ActiveIsKnown'
  BY <1>1 DEF Focus!Arrive
<1>2. ASSUME NEW n \in Names, Focus!Lose(n) PROVE ActiveIsKnown'
  BY <1>2 DEF Focus!Lose
<1>3. ASSUME NEW n, Focus!Move(n) PROVE ActiveIsKnown'
  BY <1>3 DEF Focus!Move
<1>4. CASE UNCHANGED Focus!focusVars
  BY <1>4
<1> QED
  BY <1>1, <1>2, <1>3, <1>4 DEF Focus!Next

\* Types, ownership and where the input goes, together inductive.
RoutingInv == TypeOK /\ OneOwner /\ ActiveIsKnown

LEMMA InitRoutingInv == RoutingInit => RoutingInv
<1> SUFFICES ASSUME RoutingInit PROVE RoutingInv
  OBVIOUS
<1>1. HubTypeOK /\ OneOwner
  BY HubInitOwnership DEF RoutingInit, Ownership
<1>2. RouterTypes /\ CaptureTypes /\ ClientTypes /\ HistoryTypes
  <2>1. <<>> \in Seq(ToCapture \cup ToClient) /\ <<>> \in Seq(CaptureEvent) /\ <<>> \in Seq(CaptureCmd)
    OBVIOUS
  <2>2. RouterTypes /\ CaptureTypes
    BY <2>1, Zenon DEF RoutingInit, RouterTypes, CaptureTypes
  <2>3. ClientTypes /\ HistoryTypes
    BY DEF RoutingInit, ClientTypes, HistoryTypes
  <2> QED
    BY <2>2, <2>3
<1>3. ActiveIsKnown
  BY DEF RoutingInit, ActiveIsKnown
<1> QED
  BY <1>1, <1>2, <1>3, TypeParts DEF RoutingInv

LEMMA NextRoutingInv == RoutingInv /\ [Next]_vars => RoutingInv'
<1> SUFFICES ASSUME RoutingInv, [Next]_vars PROVE RoutingInv'
  OBVIOUS
<1>1. HubTypeOK' /\ OneOwner'
  BY StepOfHub, HubNextOwnership, TypeParts DEF RoutingInv, Ownership
<1>2. TypeOK'
  BY <1>1, NextRouterTypes, NextCaptureTypes, NextClientTypes, NextHistoryTypes, TypeParts
     DEF RoutingInv
<1>3. ActiveIsKnown'
  BY NextFocus, FocusKept DEF RoutingInv
<1> QED
  BY <1>1, <1>2, <1>3 DEF RoutingInv

\* Every variable of the router, the capture thread and the clients keeps its type.
THEOREM RoutingTypes == Spec => []TypeOK
  BY InitRoutingInv, NextRoutingInv, PTL DEF Spec, RoutingInv

\* The cursor is only ever on a screen the router knows (Core::client_disconnected takes
\* the input back in the step that forgets the screen).
THEOREM CursorOnKnown == Spec => []ActiveIsKnown
  BY InitRoutingInv, NextRoutingInv, PTL DEF Spec, RoutingInv

\* The router, with all its queues, keeps the promise of InputFocus.
THEOREM RefinesFocus == Spec => ImplementsFocus
<1>1. RoutingInit => Focus!Init
  BY DEF RoutingInit, HubInit, Focus!Init, Known
<1>2. RoutingInv /\ [Next]_vars => [Focus!Next]_(Focus!focusVars)
  BY NextFocus DEF RoutingInv
<1> QED
  BY <1>1, <1>2, InitRoutingInv, NextRoutingInv, PTL DEF Spec, ImplementsFocus, Focus!Spec

----------------------------------------------------------------------------
(* The cursor is not stranded.                                             *)

\* Of the events about a screen, one is the last.
LEMMA LastEvent ==
  ASSUME HubTypeOK, NEW n \in Names, ~ Silent(n)
  PROVE  \E i \in 1..Len(hubEvents) : LastAbout(n, i)
<1> DEFINE I == {i \in 1..Len(hubEvents) : hubEvents[i].name = n}
           T == {Len(hubEvents) - i : i \in I}
<1>1. Len(hubEvents) \in Nat
  BY DEF HubTypeOK
<1>2. T \subseteq Nat /\ T # {}
  BY <1>1 DEF Silent
<1>3. PICK x \in T : \A y \in T : <<y, x>> \notin OpToRel(<, Nat)
  <2> HIDE DEF T
  <2> QED
    BY <1>2, WFMin, NatLessThanWellFounded
<1>4. \A y \in T : ~ (y < x)
  BY <1>2, <1>3 DEF OpToRel
<1>5. PICK i \in I : x = Len(hubEvents) - i
  OBVIOUS
<1>6. \A j \in I : ~ (Len(hubEvents) - j < Len(hubEvents) - i)
  BY <1>4, <1>5
<1> QED
  BY <1>1, <1>5, <1>6 DEF LastAbout

\* A screen the router knows and the registry does not is about to be forgotten: that is
\* NoGhost, seen from the cursor.
LEMMA StrandedIsHeard == TypeOK /\ ActiveIsKnown /\ NoGhost => CursorNotStranded
<1> SUFFICES ASSUME TypeOK, ActiveIsKnown, NoGhost, active # Local, entry[active] = None
             PROVE  \/ \E s \in Sessions : NameOf[s] = active /\ task[s] = "leaving"
                    \/ \E i \in 1..Len(hubEvents) : hubEvents[i] = Disconnected(active)
  BY DEF CursorNotStranded
<1>1. active \in Names /\ connected[active] # None
  BY DEF ActiveIsKnown, Known
<1>2. CASE WillKnow(active)
  BY <1>1, <1>2 DEF NoGhost
<1>3. CASE ~ WillKnow(active)
  <2>1. ~ Silent(active)
    BY <1>1, <1>3 DEF WillKnow
  <2>2. PICK i \in 1..Len(hubEvents) : LastAbout(active, i)
    BY <1>1, <2>1, LastEvent DEF TypeOK
  <2>3. hubEvents[i] \in HubEvent /\ hubEvents[i].ev # "connected"
    BY <1>3, <2>2 DEF WillKnow, TypeOK, HubTypeOK
  <2>4. hubEvents[i] = Disconnected(active)
    BY <2>2, <2>3 DEF LastAbout, HubEvent, Disconnected
  <2> QED
    BY <2>4
<1> QED
  BY <1>2, <1>3

\* A cursor on a screen that left the registry finds its way home: the goodbye is still
\* to be sent (Hub::unregister) or waits for the router.
THEOREM CursorComesHome == Spec => []CursorNotStranded
  BY HubPart, RoutingTypes, CursorOnKnown, StrandedIsHeard, PTL

----------------------------------------------------------------------------
(* Captured input follows the cursor.                                      *)

\* An action for a client is no command for the capture thread.
LEMMA SendIsNoCommand == ASSUME NEW n, NEW m PROVE Send(n, m) \notin ToCapture
<1> SUFFICES ASSUME Send(n, m) \in ToCapture PROVE FALSE
  OBVIOUS
<1>1. DOMAIN Send(n, m) = {"to", "msg"}
  BY DEF Send
<1>2. DOMAIN Send(n, m) = {"cmd"}
  BY DEF ToCapture
<1> QED
  BY <1>1, <1>2

\* The order that stands is not changed by sending messages.
LEMMA OrderWithoutCommands ==
  ASSUME TypeOK, pending = <<>>, LastOrder("grab"),
         \A j \in 1..Len(pending') : pending'[j] \notin ToCapture,
         UNCHANGED <<cmds, grabbed>>
  PROVE  LastOrder("grab")'
<1>1. IF cmds = <<>> THEN grabbed = ("grab" = "grab") ELSE cmds[Len(cmds)] = "grab"
  BY DEF LastOrder
<1>2. NoCommandAfter(0)'
  BY DEF NoCommandAfter
<1> QED
  BY <1>1, <1>2, Zenon DEF LastOrder

\* Nor by carrying out the first of the actions.
LEMMA OrderOfTheRest ==
  ASSUME TypeOK, pending # <<>>, LastOrder("grab"), pending' = Tail(pending),
         UNCHANGED grabbed,
         \/ Head(pending) \notin ToCapture /\ cmds' = cmds
         \/ Head(pending) \in ToCapture /\ cmds' = Append(cmds, Head(pending).cmd)
  PROVE  LastOrder("grab")'
<1>0. /\ Len(pending) \in Nat \ {0}
      /\ Len(pending') = Len(pending) - 1
      /\ \A j \in 1..Len(pending') : pending'[j] = pending[j + 1]
      /\ Head(pending) = pending[1]
      /\ 1 \in 1..Len(pending)
  BY DEF TypeOK
<1>1. ASSUME NEW i \in 1..Len(pending), pending[i] = Grab, NoCommandAfter(i)
      PROVE  LastOrder("grab")'
  <2>1. CASE i = 1
    <3>1. NoCommandAfter(0)'
      BY <1>0, <1>1, <2>1 DEF NoCommandAfter
    <3>2. Head(pending) = Grab /\ Grab \in ToCapture /\ Grab.cmd = "grab"
      BY <1>0, <1>1, <2>1 DEF Grab, ToCapture, CaptureCmd
    <3>3. cmds' = Append(cmds, "grab")
      BY <3>2
    <3>4. cmds' # <<>> /\ cmds'[Len(cmds')] = "grab"
      BY <3>3 DEF TypeOK
    <3> QED
      BY <3>1, <3>4 DEF LastOrder
  <2>2. CASE i # 1
    <3>1. i - 1 \in 1..Len(pending') /\ pending'[i - 1] = Grab
      BY <1>0, <1>1, <2>2
    <3>2. \A j \in 1..Len(pending') : j > i - 1 => pending'[j] \notin ToCapture
      BY <1>0, <1>1 DEF NoCommandAfter
    <3> QED
      BY <3>1, <3>2 DEF LastOrder, NoCommandAfter, Grab
  <2> QED
    BY <2>1, <2>2
<1>2. ASSUME NoCommandAfter(0),
             IF cmds = <<>> THEN grabbed = ("grab" = "grab") ELSE cmds[Len(cmds)] = "grab"
      PROVE  LastOrder("grab")'
  <2>1. Head(pending) \notin ToCapture
    BY <1>0, <1>2 DEF NoCommandAfter
  <2>2. cmds' = cmds
    BY <2>1
  <2>3. NoCommandAfter(0)'
    BY <1>0, <1>2 DEF NoCommandAfter
  <2> QED
    BY <1>2, <2>2, <2>3, Zenon DEF LastOrder
<1> QED
  BY <1>1, <1>2 DEF LastOrder, Grab

\* News of a failed grab waits for the router.
FailureWaits == \E i \in 1..Len(inputs) : inputs[i] = "grabFailed"

\* A list of messages holds no command; the one for entering a screen ends in a grab.
LEMMA OrdersOfActions ==
  ASSUME NEW n, NEW k, NEW m
  PROVE  /\ \A j \in 1..Len(<<Send(n, m)>>) : <<Send(n, m)>>[j] \notin ToCapture
         /\ \A j \in 1..Len(CrossActions(n, k)) : CrossActions(n, k)[j] \notin ToCapture
         /\ Len(EnterActions(n)) = 2 /\ EnterActions(n)[1] = Grab /\ EnterActions(n)[2] \notin ToCapture
<1>1. Send(n, m) \notin ToCapture /\ Send(n, "move") \notin ToCapture
  BY SendIsNoCommand
<1>2. Send(n, "leave") \notin ToCapture /\ Send(n, "enter") \notin ToCapture /\ Send(k, "enter") \notin ToCapture
  BY SendIsNoCommand
<1> HIDE DEF Send
<1> QED
  BY <1>1, <1>2 DEF CrossActions, EnterActions

\* A handler that leaves the input with a client, or gives it to one, keeps the order to
\* grab standing or gives it.
LEMMA InputKeepsCaptured ==
  ASSUME TypeOK, RemoteIsCaptured, HandleInput
  PROVE  RemoteIsCaptured'
<1> SUFFICES ASSUME running, capturing, active' # Local PROVE LastOrder("grab")' \/ FailureWaits'
  BY DEF HandleInput, RemoteIsCaptured, FailureWaits
<1>0. pending = <<>> /\ UNCHANGED <<cmds, grabbed>> /\ inputs # <<>> /\ inputs' = Tail(inputs)
  BY DEF HandleInput, RouterIdle
<1>1. ASSUME FailureWaits, Head(inputs) # "grabFailed" PROVE FailureWaits'
  <2>1. PICK i \in 1..Len(inputs) : inputs[i] = "grabFailed"
    BY <1>1 DEF FailureWaits
  <2>2. i - 1 \in 1..Len(inputs') /\ inputs'[i - 1] = "grabFailed"
    BY <1>0, <1>1, <2>1 DEF TypeOK
  <2> QED
    BY <2>2 DEF FailureWaits
<1>2. ASSUME NEW n, Go(n, EnterActions(n)) PROVE LastOrder("grab")'
  <2>1. Len(pending') = 2 /\ pending'[1] = Grab /\ pending'[2] \notin ToCapture
    BY <1>2, OrdersOfActions DEF Go
  <2>2. NoCommandAfter(1)' /\ 1 \in 1..Len(pending')
    BY <2>1 DEF NoCommandAfter
  <2> QED
    BY <2>1, <2>2 DEF LastOrder, Grab
\* The input was already with a client, and only messages are sent.
<1>3. ASSUME active # Local, Head(inputs) # "grabFailed",
             \A j \in 1..Len(pending') : pending'[j] \notin ToCapture
      PROVE  LastOrder("grab")' \/ FailureWaits'
  <2>1. LastOrder("grab") \/ FailureWaits
    BY <1>3 DEF RemoteIsCaptured, FailureWaits
  <2>2. LastOrder("grab") => LastOrder("grab")'
    BY <1>0, <1>3, OrderWithoutCommands
  <2> QED
    BY <1>1, <1>3, <2>1, <2>2
<1>4. ASSUME active # Local, Head(inputs) # "grabFailed", Stay(<<>>)
      PROVE  LastOrder("grab")' \/ FailureWaits'
  BY <1>3, <1>4 DEF Stay
<1>5. ASSUME active # Local, Head(inputs) # "grabFailed", NEW m, Stay(<<Send(active, m)>>)
      PROVE  LastOrder("grab")' \/ FailureWaits'
  <2>1. \A j \in 1..Len(pending') : pending'[j] \notin ToCapture
    BY <1>5, OrdersOfActions DEF Stay
  <2> QED
    BY <1>3, <1>5, <2>1
<1>6. CASE Head(inputs) = "pointer" /\ OnPointer
  BY <1>2, <1>4, <1>6 DEF OnPointer, Stay
<1>7. CASE Head(inputs) = "hotkey" /\ OnHotkey
  BY <1>2, <1>7 DEF OnHotkey, Stay, Go
<1>8. CASE OnGrabFailed
  BY <1>8 DEF OnGrabFailed, Stay, Go
<1>9. CASE Head(inputs) = "motion" /\ OnMotion
  <2>1. CASE Stay(<<>>)
    BY <1>4, <1>9, <2>1 DEF Stay
  <2>2. CASE Stay(<<Send(active, "move")>>)
    BY <1>5, <1>9, <2>2 DEF Stay
  <2>3. ASSUME active \in Known, NEW n, Go(n, CrossActions(active, n))
        PROVE  LastOrder("grab")' \/ FailureWaits'
    <3>1. active # Local
      BY <2>3, RoutingAssumption DEF Known
    <3>2. \A j \in 1..Len(pending') : pending'[j] \notin ToCapture
      BY <2>3, OrdersOfActions DEF Go
    <3> QED
      BY <1>3, <1>9, <3>1, <3>2
  <2>4. CASE Go(Local, <<Send(active, "move")>> \o HomeActions(active))
    BY <2>4 DEF Go
  <2> QED
    BY <1>9, <2>1, <2>2, <2>3, <2>4 DEF OnMotion
<1>10. ASSUME Head(inputs) # "grabFailed", NEW m, Forward(m)
       PROVE  LastOrder("grab")' \/ FailureWaits'
  BY <1>5, <1>10 DEF Forward, Stay
<1> QED
  BY <1>6, <1>7, <1>8, <1>9, <1>10 DEF HandleInput

\* The capture thread carries out an order, or reports that it could not.
LEMMA ObeyKeepsCaptured ==
  ASSUME TypeOK, RemoteIsCaptured, CaptureObeys
  PROVE  RemoteIsCaptured'
<1> SUFFICES ASSUME running, active # Local PROVE LastOrder("grab")' \/ FailureWaits'
  BY DEF CaptureObeys, routerVars, RemoteIsCaptured, FailureWaits
<1>0. cmds \in Seq(CaptureCmd) /\ inputs \in Seq(CaptureEvent) /\ cmds # <<>> /\ cmds' = Tail(cmds)
      /\ pending' = pending
  BY DEF TypeOK, CaptureObeys, routerVars
<1>1. LastOrder("grab") \/ FailureWaits
  BY DEF CaptureObeys, RemoteIsCaptured, FailureWaits
<1>2. inputs' = inputs \/ inputs' = Append(inputs, "grabFailed")
  BY Zenon DEF CaptureObeys
<1>3. FailureWaits => FailureWaits'
  BY <1>0, <1>2 DEF FailureWaits
<1>4. inputs' = Append(inputs, "grabFailed") => FailureWaits'
  <2> SUFFICES ASSUME inputs' = Append(inputs, "grabFailed") PROVE FailureWaits'
    OBVIOUS
  <2>1. Len(inputs') \in 1..Len(inputs') /\ inputs'[Len(inputs')] = "grabFailed"
    BY <1>0
  <2> QED
    BY <2>1 DEF FailureWaits
<1>5. ASSUME NEW i \in 1..Len(pending), pending[i] = Grab, NoCommandAfter(i) PROVE LastOrder("grab")'
  BY <1>0, <1>5 DEF LastOrder, NoCommandAfter, Grab
<1>6. ASSUME NoCommandAfter(0), cmds[Len(cmds)] = "grab" PROVE LastOrder("grab")' \/ FailureWaits'
  <2>1. NoCommandAfter(0)'
    BY <1>0, <1>6 DEF NoCommandAfter
  <2>2. CASE Len(cmds) = 1
    <3>0. Head(cmds) = "grab" /\ cmds' = <<>>
      BY <1>0, <1>6, <2>2
    <3>2. grabbed' = TRUE \/ inputs' = Append(inputs, "grabFailed")
      BY <3>0, Zenon DEF CaptureObeys
    <3>3. grabbed' = TRUE => LastOrder("grab")'
      BY <2>1, <3>0, Zenon DEF LastOrder
    <3> QED
      BY <1>4, <3>2, <3>3
  <2>3. CASE Len(cmds) # 1
    <3>0. Len(cmds) \in Nat \ {0}
      BY <1>0
    <3>a. Len(Tail(cmds)) = Len(cmds) - 1
      BY <1>0
    <3>1. Len(cmds) \in Nat /\ Len(cmds) > 1 /\ Len(cmds') = Len(cmds) - 1
      BY <1>0, <2>3, <3>0, <3>a
    <3>2. cmds'[Len(cmds')] = cmds[Len(cmds)]
      BY <1>0, <3>1
    <3>3. cmds' # <<>>
      BY <3>1
    <3> QED
      BY <1>6, <2>1, <3>2, <3>3 DEF LastOrder
  <2> QED
    BY <2>2, <2>3
<1> QED
  BY <1>0, <1>1, <1>3, <1>5, <1>6 DEF LastOrder, Grab

LEMMA NextCaptured == TypeOK /\ RemoteIsCaptured /\ [Next]_vars => RemoteIsCaptured'
<1> SUFFICES ASSUME TypeOK, RemoteIsCaptured, [Next]_vars PROVE RemoteIsCaptured'
  OBVIOUS
<1>a. ASSUME UNCHANGED <<active, pending, running, captureVars>> PROVE RemoteIsCaptured'
  BY <1>a DEF captureVars, RemoteIsCaptured, LastOrder, NoCommandAfter
<1>c. CASE UNCHANGED <<routerVars, captureVars>>
  BY <1>a, <1>c DEF routerVars
\* The first action is carried out, with the cursor where it was.
<1>b. ASSUME pending # <<>>, pending' = Tail(pending), UNCHANGED <<active, running, inputs, grabbed, capturing>>,
             \/ Head(pending) \notin ToCapture /\ cmds' = cmds
             \/ Head(pending) \in ToCapture /\ cmds' = Append(cmds, Head(pending).cmd)
      PROVE  RemoteIsCaptured'
  <2>1. LastOrder("grab") => LastOrder("grab")'
    BY <1>b, OrderOfTheRest
  <2> QED
    BY <1>b, <2>1 DEF RemoteIsCaptured
<1>k. ASSUME Head(pending) \in ToClient PROVE Head(pending) \notin ToCapture
  <2>1. Head(pending) = Send(Head(pending).to, Head(pending).msg)
    BY <1>k DEF ToClient, Send
  <2> QED
    BY <2>1, SendIsNoCommand, Zenon
<1>1. CASE HandleInput
  BY <1>1, InputKeepsCaptured
<1>2. CASE HandleHubEvent
  <2>1. pending = <<>> /\ UNCHANGED <<running, captureVars>>
    BY <1>2 DEF HandleHubEvent, RouterIdle
  <2>2. active' = Local \/ (active' = active /\ pending' = <<>>)
    BY <1>2 DEF HandleHubEvent, TakeBack, Go, Stay
  <2>3. CASE active' = Local
    BY <2>3 DEF RemoteIsCaptured
  <2>4. CASE active' = active /\ pending' = <<>>
    BY <1>a, <2>1, <2>4
  <2> QED
    BY <2>2, <2>3, <2>4
<1>3. CASE CarryOutCommand
  <2>1. CASE capturing
    BY <1>3, <1>b, <2>1 DEF CarryOutCommand
  <2>2. CASE ~ capturing
    <3>1. running' = FALSE
      BY <1>3, <2>2, Zenon DEF CarryOutCommand
    <3> QED
      BY <3>1 DEF RemoteIsCaptured
  <2> QED
    BY <2>1, <2>2
<1>4. CASE CarryOutSend
  BY <1>4, <1>b, <1>k DEF CarryOutSend, captureVars
<1>5. CASE SendFails
  <2>1. active' = Local \/ (active' = active /\ pending' = Tail(pending))
    BY <1>5 DEF SendFails, TakeBack, Go, Stay
  <2>2. CASE active' = Local
    BY <2>2 DEF RemoteIsCaptured
  <2>3. CASE active' = active /\ pending' = Tail(pending)
    BY <1>5, <1>b, <1>k, <2>3 DEF SendFails, captureVars
  <2> QED
    BY <2>1, <2>2, <2>3
<1>6. CASE RouterReturns \/ AbortRouter
  <2>1. running' = FALSE
    BY <1>6, Zenon DEF RouterReturns, AbortRouter
  <2> QED
    BY <2>1 DEF RemoteIsCaptured
<1>7. CASE CaptureObeys
  BY <1>7, ObeyKeepsCaptured
<1>8. CASE CaptureEnds
  <2>1. capturing' = FALSE
    BY <1>8, Zenon DEF CaptureEnds
  <2> QED
    BY <2>1 DEF RemoteIsCaptured
<1>9. ASSUME NEW e \in CaptureEvent, UserInput(e) PROVE RemoteIsCaptured'
  <2>1. UNCHANGED <<active, pending, running, cmds, grabbed, capturing>>
    BY <1>9 DEF UserInput, routerVars
  <2>2. LastOrder("grab") => LastOrder("grab")'
    BY <2>1 DEF LastOrder, NoCommandAfter
  <2>3. inputs' = Append(inputs, e) /\ inputs \in Seq(CaptureEvent)
    BY <1>9 DEF UserInput, TypeOK
  <2>4. FailureWaits => FailureWaits'
    BY <2>3 DEF FailureWaits
  <2> QED
    BY <2>1, <2>2, <2>4 DEF RemoteIsCaptured, FailureWaits
<1>10. ASSUME NEW s \in Sessions, Receive(s) \/ Drop(s) \/ EndSession(s) PROVE RemoteIsCaptured'
  BY <1>10, <1>c DEF Receive, Drop, EndSession
<1>11. ASSUME NEW s \in Sessions, NEW m \in Arrangements, Connect(s, m) PROVE RemoteIsCaptured'
  BY <1>11, <1>c DEF Connect
<1>12. CASE HubSide
  BY <1>12, <1>c DEF HubSide
<1>13. CASE UNCHANGED vars
  BY <1>13, <1>c DEF vars
<1> QED
  BY <1>1, <1>2, <1>3, <1>4, <1>5, <1>6, <1>7, <1>8, <1>9, <1>10, <1>11, <1>12, <1>13
     DEF Next, RouterStep

\* While a client has the input, the last order to the capture thread is to grab, or the
\* news that it could not waits for the router: whatever commands, crossings, failed
\* sends and disconnects are in flight, the user does not type into both machines.
THEOREM InputFollowsCursor == Spec => []RemoteIsCaptured
<1>1. RoutingInit => RemoteIsCaptured
  BY DEF RoutingInit, RemoteIsCaptured
<1> QED
  BY <1>1, NextCaptured, RoutingTypes, PTL DEF Spec

----------------------------------------------------------------------------
(* The order of the router's actions.                                      *)

\* An action for the screen that has the input is the last one decided on, and is no
\* Leave; a screen that does not have it is only sent the last move and the Leave.
Orders ==
  \A i \in 1..Len(pending) : pending[i] \in ToClient =>
    IF pending[i].to = active
    THEN i = Len(pending) /\ pending[i].msg # "leave"
    ELSE pending[i].msg \in {"move", "leave"}

\* The two kinds of action are told apart by their fields.
LEMMA CommandIsNoSend == Grab \notin ToClient /\ Ungrab \notin ToClient
<1>1. DOMAIN Grab = {"cmd"} /\ DOMAIN Ungrab = {"cmd"}
  BY DEF Grab, Ungrab
<1>2. \A x \in ToClient : DOMAIN x = {"to", "msg"}
  BY DEF ToClient
<1> QED
  BY <1>1, <1>2

\* One action and two more, each at its place; and what is left of a single one.
LEMMA ThreeInOrder ==
  ASSUME NEW S, NEW q \in Seq(S), NEW r \in Seq(S), Len(q) = 1, Len(r) = 2
  PROVE  Len(q \o r) = 3 /\ (q \o r)[1] = q[1] /\ (q \o r)[2] = r[1] /\ (q \o r)[3] = r[2]
<1>1. /\ Len(q \o r) = Len(q) + Len(r)
      /\ \A i \in 1..(Len(q) + Len(r)) : (q \o r)[i] =
            IF i <= Len(q) THEN q[i] ELSE r[i - Len(q)]
  BY ConcatProperties, Zenon
<1> QED
  BY <1>1

LEMMA NothingLeft ==
  ASSUME NEW S, NEW q \in Seq(S), Len(q) = 1
  PROVE  Tail(q) = <<>>
<1>1. q # <<>>
  OBVIOUS
<1>2. Tail(q) \in Seq(S) /\ Len(Tail(q)) = 0
  BY <1>1, HeadTailProperties
<1> QED
  BY <1>2, EmptySeq

\* The actions of one decision, each at its place.
LEMMA ActionsInOrder ==
  ASSUME NEW n \in Names, NEW k \in Names, NEW m \in Msg
  PROVE  /\ Len(<<Send(n, m)>>) = 1 /\ <<Send(n, m)>>[1] = Send(n, m)
         /\ Len(EnterActions(n)) = 2
         /\ EnterActions(n)[1] = Grab /\ EnterActions(n)[2] = Send(n, "enter")
         /\ Len(HomeActions(n)) = 2
         /\ HomeActions(n)[1] = Send(n, "leave") /\ HomeActions(n)[2] = Ungrab
         /\ Len(CrossActions(n, k)) = 3
         /\ CrossActions(n, k)[1] = Send(n, "move")
         /\ CrossActions(n, k)[2] = Send(n, "leave")
         /\ CrossActions(n, k)[3] = Send(k, "enter")
         /\ Len(<<Send(n, m)>> \o HomeActions(n)) = 3
         /\ (<<Send(n, m)>> \o HomeActions(n))[1] = Send(n, m)
         /\ (<<Send(n, m)>> \o HomeActions(n))[2] = Send(n, "leave")
         /\ (<<Send(n, m)>> \o HomeActions(n))[3] = Ungrab
<1>1. Len(HomeActions(n)) = 2 /\ HomeActions(n)[1] = Send(n, "leave") /\ HomeActions(n)[2] = Ungrab
  BY DEF HomeActions
<1> DEFINE S == {Send(n, m), Send(n, "leave"), Ungrab}
           q == <<Send(n, m)>> \o HomeActions(n)
<1>2. HomeActions(n) \in Seq(S) /\ <<Send(n, m)>> \in Seq(S)
  BY DEF HomeActions
<1>3. Len(q) = 3 /\ q[1] = Send(n, m) /\ q[2] = HomeActions(n)[1] /\ q[3] = HomeActions(n)[2]
  <2>1. Len(<<Send(n, m)>>) = 1 /\ <<Send(n, m)>>[1] = Send(n, m)
    OBVIOUS
  <2> HIDE DEF S
  <2> QED
    BY <1>1, <1>2, <2>1, ThreeInOrder
<1> QED
  BY <1>1, <1>3 DEF EnterActions, CrossActions

\* What Send says, field by field.
LEMMA SendFields ==
  ASSUME NEW n, NEW m
  PROVE  Send(n, m).to = n /\ Send(n, m).msg = m
  BY DEF Send

\* What a handler of a capture event may decide.
LEMMA Decisions ==
  ASSUME TypeOK, ActiveIsKnown, HandleInput
  PROVE  \/ Stay(<<>>)
         \/ \E n \in Names : active = Local /\ Go(n, EnterActions(n))
         \/ active \in Names /\ Go(Local, HomeActions(active))
         \/ active \in Names /\ Go(Local, <<Send(active, "leave")>>)
         \/ active \in Names /\ Go(Local, <<Send(active, "move")>> \o HomeActions(active))
         \/ active \in Names /\ \E n \in Names \ {active} : Go(n, CrossActions(active, n))
         \/ active \in Names /\ \E m \in {"move", "press", "release"} : Stay(<<Send(active, m)>>)
<1>1. active # Local => active \in Names
  BY DEF TypeOK
<1>2. Known \subseteq Names /\ Local \notin Names
  BY RoutingAssumption DEF Known
<1>3. Head(inputs) \in CaptureEvent
  BY DEF TypeOK, HandleInput
<1> HIDE DEF Go, Stay, Known
<1>4. CASE OnPointer
  BY <1>2, <1>4 DEF OnPointer
<1>5. CASE OnHotkey
  BY <1>1, <1>2, <1>5 DEF OnHotkey
<1>6. CASE OnGrabFailed
  BY <1>1, <1>6 DEF OnGrabFailed
<1>7. CASE OnMotion
  BY <1>2, <1>7 DEF OnMotion
<1>8. ASSUME NEW m \in {"press", "release"}, Forward(m) PROVE
         \/ Stay(<<>>)
         \/ active \in Names /\ Stay(<<Send(active, m)>>)
  BY <1>1, <1>8 DEF Forward
<1> QED
  BY <1>3, <1>4, <1>5, <1>6, <1>7, <1>8 DEF HandleInput, CaptureEvent

LEMMA NextOrders == RoutingInv /\ Orders /\ [Next]_vars => Orders'
<1> SUFFICES ASSUME RoutingInv, Orders, [Next]_vars PROVE Orders'
  OBVIOUS
<1>0. TypeOK /\ ActiveIsKnown /\ Local \notin Names
  BY RoutingAssumption DEF RoutingInv
<1>a. ASSUME UNCHANGED routerVars PROVE Orders'
  BY <1>a DEF Orders, routerVars
<1>b. ASSUME Len(pending') = 0 PROVE Orders'
  BY <1>b DEF Orders
<1>c. ASSUME pending # <<>>, pending' = Tail(pending), active' = active PROVE Orders'
  <2>1. /\ Len(pending) \in Nat /\ Len(pending') = Len(pending) - 1
        /\ \A j \in 1..Len(pending') : pending'[j] = pending[j + 1] /\ j + 1 \in 1..Len(pending)
    BY <1>0, <1>c DEF TypeOK
  <2> SUFFICES ASSUME NEW j \in 1..Len(pending'), pending'[j] \in ToClient
               PROVE  IF pending'[j].to = active
                      THEN j = Len(pending') /\ pending'[j].msg # "leave"
                      ELSE pending'[j].msg \in {"move", "leave"}
    BY <1>c DEF Orders
  <2>2. pending'[j] = pending[j + 1] /\ j + 1 \in 1..Len(pending)
    BY <2>1
  <2>3. IF pending[j + 1].to = active
        THEN j + 1 = Len(pending) /\ pending[j + 1].msg # "leave"
        ELSE pending[j + 1].msg \in {"move", "leave"}
    BY <2>2 DEF Orders
  <2> QED
    BY <2>1, <2>2, <2>3
\* The input is taken back from the screen whose message is the last, or is elsewhere.
<1>d. ASSUME NEW n, NEW rest, TakeBack(n, rest), active = n => rest = <<>>,
             active # n => (Stay(rest) => Orders')
      PROVE  Orders'
  <2>1. CASE active = n
    <3>1. pending' = <<Ungrab>>
      BY <1>d, <2>1 DEF TakeBack, Go
    <3>2. Len(pending') = 1 /\ pending'[1] = Ungrab
      BY <3>1
    <3> QED
      BY <3>2, CommandIsNoSend DEF Orders
  <2>2. CASE active # n
    BY <1>d, <2>2 DEF TakeBack
  <2> QED
    BY <2>1, <2>2
<1>1. CASE HandleInput
  <2> USE SendFields, CommandIsNoSend
  <2> USE DEF Go, Stay
  <2>0. {"enter", "leave", "move", "press", "release"} \subseteq Msg
    BY DEF Msg
  <2>1. CASE Stay(<<>>)
    BY <1>b, <2>1
  <2>2. ASSUME NEW n \in Names, Go(n, EnterActions(n)) PROVE Orders'
    <3>1. Len(pending') = 2 /\ pending'[1] = Grab /\ pending'[2] = Send(n, "enter")
      BY <2>0, <2>2, ActionsInOrder
    <3> QED
      BY <2>2, <3>1 DEF Orders
  <2>3. CASE active \in Names /\ Go(Local, HomeActions(active))
    <3>1. Len(pending') = 2 /\ pending'[1] = Send(active, "leave") /\ pending'[2] = Ungrab
      BY <2>0, <2>3, ActionsInOrder
    <3> QED
      BY <1>0, <2>3, <3>1 DEF Orders
  <2>4. CASE active \in Names /\ Go(Local, <<Send(active, "leave")>>)
    <3>1. Len(pending') = 1 /\ pending'[1] = Send(active, "leave")
      BY <2>0, <2>4, ActionsInOrder
    <3> QED
      BY <1>0, <2>4, <3>1 DEF Orders
  <2>5. CASE active \in Names /\ Go(Local, <<Send(active, "move")>> \o HomeActions(active))
    <3>1. /\ Len(pending') = 3 /\ pending'[1] = Send(active, "move")
          /\ pending'[2] = Send(active, "leave") /\ pending'[3] = Ungrab
      BY <2>0, <2>5, ActionsInOrder
    <3> QED
      BY <1>0, <2>5, <3>1 DEF Orders
  <2>6. ASSUME active \in Names, NEW n \in Names \ {active}, Go(n, CrossActions(active, n))
        PROVE  Orders'
    <3>1. /\ Len(pending') = 3 /\ pending'[1] = Send(active, "move")
          /\ pending'[2] = Send(active, "leave") /\ pending'[3] = Send(n, "enter")
      BY <2>0, <2>6, ActionsInOrder
    <3> QED
      BY <2>6, <3>1 DEF Orders
  <2>7. ASSUME active \in Names, NEW m \in {"move", "press", "release"}, Stay(<<Send(active, m)>>)
        PROVE  Orders'
    <3>1. Len(pending') = 1 /\ pending'[1] = Send(active, m)
      BY <2>0, <2>7, ActionsInOrder
    <3> QED
      BY <2>7, <3>1 DEF Orders
  <2> HIDE DEF Go, Stay
  <2> QED
    BY <1>0, <1>1, <2>1, <2>2, <2>3, <2>4, <2>5, <2>6, <2>7, Decisions
<1>2. CASE HandleHubEvent
  <2>1. Stay(<<>>) => Orders'
    BY <1>b DEF Stay
  <2> QED
    BY <1>2, <1>d, <2>1 DEF HandleHubEvent
<1>3. CASE CarryOutCommand
  <2>1. CASE capturing
    BY <1>3, <1>c, <2>1 DEF CarryOutCommand
  <2>2. CASE ~ capturing
    BY <1>3, <1>b, <2>2 DEF CarryOutCommand
  <2> QED
    BY <2>1, <2>2
<1>4. CASE CarryOutSend
  BY <1>4, <1>c DEF CarryOutSend
<1>5. CASE SendFails
  <2>1. pending # <<>> /\ Head(pending) \in ToClient /\ TakeBack(Head(pending).to, Tail(pending))
    BY <1>5 DEF SendFails
  <2>2. active = Head(pending).to => Tail(pending) = <<>>
    <3> SUFFICES ASSUME active = Head(pending).to PROVE Tail(pending) = <<>>
      OBVIOUS
    <3>1. 1 \in 1..Len(pending) /\ pending[1] = Head(pending)
      BY <1>0, <2>1 DEF TypeOK
    <3>2. Len(pending) = 1
      BY <2>1, <3>1 DEF Orders
    <3> QED
      BY <1>0, <3>2, NothingLeft DEF TypeOK
  <2>3. Stay(Tail(pending)) => Orders'
    BY <1>c, <2>1 DEF Stay
  <2> QED
    BY <1>d, <2>1, <2>2, <2>3
<1>6. CASE RouterReturns \/ AbortRouter
  BY <1>6, <1>a DEF RouterReturns, AbortRouter, routerVars, Orders
<1>7. CASE CaptureObeys \/ CaptureEnds \/ HubSide
  BY <1>7, <1>a DEF CaptureObeys, CaptureEnds, HubSide
<1>8. ASSUME NEW e \in CaptureEvent, UserInput(e) PROVE Orders'
  BY <1>8, <1>a DEF UserInput
<1>9. ASSUME NEW s \in Sessions, Receive(s) \/ Drop(s) \/ EndSession(s) PROVE Orders'
  BY <1>9, <1>a DEF Receive, Drop, EndSession
<1>10. ASSUME NEW s \in Sessions, NEW m \in Arrangements, Connect(s, m) PROVE Orders'
  BY <1>10, <1>a DEF Connect
<1>11. CASE UNCHANGED vars
  BY <1>11, <1>a DEF vars
<1> QED
  BY <1>1, <1>2, <1>3, <1>4, <1>5, <1>6, <1>7, <1>8, <1>9, <1>10, <1>11 DEF Next, RouterStep

----------------------------------------------------------------------------
(* The input is handed over.                                               *)

\* One step that takes the input from a client.
HandedOver ==
  \/ \E i \in 1..Len(pending') : pending'[i] = Send(active, "leave")
  \/ active \notin Known' /\ \E i \in 1..Len(pending') : pending'[i] = Ungrab

LEMMA NextHandOver ==
  ASSUME RoutingInv, [Next]_vars, active # active', active # Local
  PROVE  HandedOver
<1>0. TypeOK /\ ActiveIsKnown /\ active \in Names
  BY DEF RoutingInv, TypeOK
<1>1. CASE HandleInput
  <2> USE DEF Go
  <2>1. "move" \in Msg
    BY DEF Msg
  <2>2. CASE Go(Local, HomeActions(active))
    <3>1. Len(pending') = 2 /\ pending'[1] = Send(active, "leave")
      BY <1>0, <2>1, <2>2, ActionsInOrder
    <3> QED
      BY <3>1 DEF HandedOver
  <2>3. CASE Go(Local, <<Send(active, "leave")>>)
    <3>1. Len(pending') = 1 /\ pending'[1] = Send(active, "leave")
      BY <2>3
    <3> QED
      BY <3>1 DEF HandedOver
  <2>4. CASE Go(Local, <<Send(active, "move")>> \o HomeActions(active))
    <3>1. Len(pending') = 3 /\ pending'[2] = Send(active, "leave")
      BY <1>0, <2>1, <2>4, ActionsInOrder
    <3> QED
      BY <3>1 DEF HandedOver
  <2>5. ASSUME NEW n \in Names, Go(n, CrossActions(active, n)) PROVE HandedOver
    <3>1. Len(pending') = 3 /\ pending'[2] = Send(active, "leave")
      BY <1>0, <2>1, <2>5, ActionsInOrder
    <3> QED
      BY <3>1 DEF HandedOver
  <2> HIDE DEF Go
  <2> QED
    BY <1>0, <1>1, <2>2, <2>3, <2>4, <2>5, Decisions DEF Stay
<1>2. ASSUME NEW n \in Names, NEW rest \in Seq(ToCapture \cup ToClient), TakeBack(n, rest),
             connected' = [connected EXCEPT ![n] = None]
      PROVE  HandedOver
  <2>1. active = n /\ pending' = Append(rest, Ungrab)
    BY <1>2 DEF TakeBack, Go, Stay
  <2>2. Len(pending') \in 1..Len(pending') /\ pending'[Len(pending')] = Ungrab
    BY <2>1
  <2>3. active \notin Known'
    BY <1>0, <1>2, <2>1 DEF Known, TypeOK, HubTypeOK
  <2> QED
    BY <2>2, <2>3 DEF HandedOver
<1>3. CASE HandleHubEvent
  <2>1. Head(hubEvents) \in HubEvent
    BY <1>0, <1>3 DEF HandleHubEvent, RouterHears, TypeOK, HubTypeOK
  <2>2. Head(hubEvents).name \in Names
    BY <2>1 DEF HubEvent
  <2>3. Head(hubEvents).ev # "connected"
    BY <1>3 DEF HandleHubEvent, Stay
  <2>4. TakeBack(Head(hubEvents).name, <<>>)
    BY <1>3, <2>3 DEF HandleHubEvent
  <2>5. connected' = [connected EXCEPT ![Head(hubEvents).name] = None]
    BY <1>3, <2>3 DEF HandleHubEvent, RouterHears, Hear
  <2>6. <<>> \in Seq(ToCapture \cup ToClient)
    OBVIOUS
  <2> QED
    BY <1>2, <2>2, <2>4, <2>5, <2>6
<1>4. CASE SendFails
  <2>1. Head(pending).to \in Names /\ pending # <<>>
    BY <1>4 DEF SendFails, ToClient
  <2>2. Tail(pending) \in Seq(ToCapture \cup ToClient)
    BY <1>0, <2>1 DEF TypeOK
  <2> QED
    BY <1>2, <1>4, <2>1, <2>2 DEF SendFails, RouterMisses
<1>5. CASE CarryOutCommand \/ CarryOutSend \/ RouterReturns \/ AbortRouter
  BY <1>5 DEF CarryOutCommand, CarryOutSend, RouterReturns, AbortRouter
<1>6. CASE CaptureObeys \/ CaptureEnds \/ HubSide \/ UNCHANGED vars
  BY <1>6 DEF CaptureObeys, CaptureEnds, HubSide, routerVars, vars
<1>7. ASSUME NEW e \in CaptureEvent, UserInput(e) PROVE HandedOver
  BY <1>7 DEF UserInput, routerVars
<1>8. ASSUME NEW s \in Sessions, Receive(s) \/ Drop(s) \/ EndSession(s) PROVE HandedOver
  BY <1>8 DEF Receive, Drop, EndSession, routerVars
<1>9. ASSUME NEW s \in Sessions, NEW m \in Arrangements, Connect(s, m) PROVE HandedOver
  BY <1>9 DEF Connect, routerVars
<1> QED
  BY <1>1, <1>3, <1>4, <1>5, <1>6, <1>7, <1>8, <1>9 DEF Next, RouterStep

\* The input is never taken from a client unannounced: the step that moves it decides on
\* a Leave, or has just forgotten the screen and lets the capture go (Core::on_motion,
\* go_local, on_grab_failed and client_disconnected).
THEOREM InputIsHandedOver == Spec => HandOver
<1>1. RoutingInv /\ [Next]_vars =>
        [active # active' /\ active # Local =>
           \/ \E i \in 1..Len(pending') : pending'[i] = Send(active, "leave")
           \/ active \notin Known' /\ \E i \in 1..Len(pending') : pending'[i] = Ungrab]_vars
  BY NextHandOver DEF HandedOver
<1> QED
  BY <1>1, InitRoutingInv, NextRoutingInv, PTL DEF Spec, HandOver

----------------------------------------------------------------------------
(* What a client is sent, and what it holds.                               *)

\* A client that has no connection open holds nothing and is sent nothing.
Offline == \A s \in Sessions : ~ online[s] => queue[s] = <<>> /\ ~ held[s]

\* The router has told screen n to take the input, or will before anything else.
EnterWaits(n) == \E i \in 1..Len(pending) : pending[i] = Send(n, "enter")

\* The client that has the input was sent an Enter, and no Leave after it.
ActiveIsInside ==
  running => \A s \in Registered \ stranger :
    online[s] /\ NameOf[s] = active /\ ~ EnterWaits(active) => InsideAfter(s, Len(queue[s]))

\* The client holds something down when it has read the first i messages of its queue, as
\* it does now or by the last of them.
PressedAt(s, i) == IF i = 0 THEN held[s] ELSE queue[s][i] = "press"

LeaveWaits(n) == \E i \in 1..Len(pending) : pending[i] = Send(n, "leave")

LeaveAfter(s, i) == \E j \in (i + 1)..Len(queue[s]) : queue[s][j] = "leave"

\* HeldUntilLeave, for what the client holds and for every press still on its way.
ReleasedLater ==
  running => \A s \in Registered : \A i \in 0..Len(queue[s]) :
    PressedAt(s, i) => \/ NameOf[s] \in orphaned \cup {active}
                       \/ LeaveWaits(NameOf[s])
                       \/ LeaveAfter(s, i)

\* A registered session is the one that the registry sends its screen's messages to.
LEMMA OwnerIsServed ==
  ASSUME RoutingInv
  PROVE  /\ \A s \in Registered : s \in Sessions /\ NameOf[s] \in Names
         /\ \A s \in Registered : entry[NameOf[s]] # None /\ entry[NameOf[s]].session = s
         /\ \A n \in Names : entry[n] # None =>
              entry[n].session \in Registered /\ NameOf[entry[n].session] = n
  BY HubAssumption DEF RoutingInv, OneOwner, Registered

\* A step registers a session only by connecting it.
LEMMA RegisteredBefore ==
  ASSUME RoutingInv, [Next]_vars, NEW s \in Registered'
  PROVE  s \in Registered \/ \E m \in Arrangements : Connect(s, m)
<1>0. HubTypeOK
  BY DEF RoutingInv, TypeOK
<1>1. s \in Sessions /\ task'[s] \in {"checking", "announcing", "serving"}
  BY DEF Registered
<1>2. CASE task' = task
  BY <1>1, <1>2 DEF Registered
<1>3. ASSUME NEW t \in Sessions, NEW m \in Arrangements, Connect(t, m)
      PROVE  s \in Registered \/ Connect(s, m)
  <2>1. task' = [task EXCEPT ![t] = "checking"]
    BY <1>3 DEF Connect, Register
  <2> QED
    BY <1>0, <1>1, <1>3, <2>1 DEF Registered, HubTypeOK
<1>4. ASSUME NEW t \in Sessions, EndSession(t) PROVE s \in Registered
  <2>1. task' = [task EXCEPT ![t] = "leaving"]
    BY <1>4 DEF EndSession, Unregister
  <2> QED
    BY <1>0, <1>1, <2>1 DEF Registered, HubTypeOK
<1>5. ASSUME NEW t \in Sessions, SessionTalk(t) PROVE s \in Registered
  <2>1. CASE SayGone(t)
    <3>1. task' = [task EXCEPT ![t] = "idle"]
      BY <2>1 DEF SayGone
    <3> QED
      BY <1>0, <1>1, <3>1 DEF Registered, HubTypeOK
  <2>2. CASE CheckDisabled(t) \/ Announce(t)
    <3>1. task[t] \in {"checking", "announcing"} /\ \A u \in Sessions \ {t} : task'[u] = task[u]
      BY <1>0, <2>2 DEF CheckDisabled, Announce, HubTypeOK
    <3> QED
      BY <1>1, <3>1 DEF Registered
  <2> QED
    BY <1>5, <2>1, <2>2 DEF SessionTalk
<1>6. ASSUME NEW t \in Sessions, NEW m \in Arrangements, ChangeMonitors(t, m) PROVE s \in Registered
  <2>1. task[t] = "serving" /\ \A u \in Sessions \ {t} : task'[u] = task[u]
    BY <1>0, <1>6 DEF ChangeMonitors, HubTypeOK
  <2> QED
    BY <1>1, <2>1 DEF Registered
<1>7. CASE HubSide
  <2>1. ASSUME NEW n \in Names, ToggleStep(n) PROVE task' = task
    BY <2>1 DEF ToggleStep, SetDisabled, TellToggle
  <2> QED
    BY <1>2, <1>5, <1>6, <1>7, <2>1 DEF HubSide
<1>8. CASE HandleInput \/ HandleHubEvent \/ CarryOutCommand \/ CarryOutSend \/ SendFails
  BY <1>2, <1>8 DEF HandleInput, HandleHubEvent, RouterHears, CarryOutCommand, CarryOutSend,
                    SendFails, RouterMisses, hubVars
<1>9. CASE RouterReturns \/ AbortRouter \/ CaptureObeys \/ CaptureEnds \/ UNCHANGED vars
  BY <1>2, <1>9 DEF RouterReturns, AbortRouter, CaptureObeys, CaptureEnds, vars, hubVars
<1>10. ASSUME NEW e \in CaptureEvent, UserInput(e) PROVE task' = task
  BY <1>10 DEF UserInput, hubVars
<1>11. ASSUME NEW t \in Sessions, Receive(t) \/ Drop(t) PROVE task' = task
  BY <1>11 DEF Receive, Drop, hubVars
<1> QED
  BY <1>2, <1>3, <1>4, <1>7, <1>8, <1>9, <1>10, <1>11 DEF Next, RouterStep

\* What sending one message does: the session of its screen gets it at the end of what it
\* already has, if it is still there to read it; of the actions the rest remains.
LEMMA SendStep ==
  ASSUME RoutingInv, Orders, CarryOutSend
  PROVE  \E n \in Names, m \in Msg : \E s \in Registered :
           /\ pending # <<>> /\ Head(pending) = Send(n, m) /\ pending' = Tail(pending)
           /\ entry[n].session = s /\ NameOf[s] = n
           /\ queue' = [queue EXCEPT ![s] =
                IF online[s] /\ m # "move" THEN Append(queue[s], m) ELSE queue[s]]
           /\ orphaned' = IF m \in {"enter", "leave"} THEN orphaned \ {n} ELSE orphaned
           /\ n = active => Len(pending) = 1 /\ m # "leave"
           /\ n # active => m \in {"move", "leave"}
<1> DEFINE n == Head(pending).to
           m == Head(pending).msg
           s == entry[n].session
<1>1. pending # <<>> /\ Head(pending) \in ToClient
  BY DEF CarryOutSend
<1>2. n \in Names /\ m \in Msg /\ Head(pending) = Send(n, m)
  BY <1>1 DEF ToClient, Send
<1>3. entry[n] # None
  BY DEF CarryOutSend
<1>4. s \in Registered /\ NameOf[s] = n
  BY <1>2, <1>3, OwnerIsServed
<1>5. 1 \in 1..Len(pending) /\ pending[1] = Head(pending)
  BY <1>1 DEF RoutingInv, TypeOK
<1>6. /\ n = active => Len(pending) = 1 /\ m # "leave"
      /\ n # active => m \in {"move", "leave"}
  BY <1>1, <1>5 DEF Orders
<1>7. /\ pending' = Tail(pending)
      /\ queue' = [queue EXCEPT ![s] =
           IF online[s] /\ m # "move" THEN Append(queue[s], m) ELSE queue[s]]
      /\ orphaned' = IF m \in {"enter", "leave"} THEN orphaned \ {n} ELSE orphaned
  BY DEF CarryOutSend
<1>8. entry[n].session = s
  OBVIOUS
<1> HIDE DEF n, m, s
<1> QED
  BY <1>1, <1>2, <1>4, <1>6, <1>7, <1>8

\* What is left of the actions when the first is carried out.
LEMMA RestOfPending ==
  ASSUME TypeOK, pending # <<>>, pending' = Tail(pending)
  PROVE  /\ Len(pending) \in Nat \ {0} /\ Len(pending') = Len(pending) - 1
         /\ Head(pending) = pending[1]
         /\ \A j \in 1..Len(pending') : pending'[j] = pending[j + 1]
  BY DEF TypeOK

\* What is said about a client's queue holds of its first messages whatever follows them.
LEMMA InsideIsKept ==
  ASSUME NEW s, NEW k \in Nat, InsideAfter(s, k), inside'[s] = inside[s],
         \A j \in 1..k : queue'[s][j] = queue[s][j]
  PROVE  InsideAfter(s, k)'
  BY DEF InsideAfter

\* A client that has read the first of its messages is where it would have been.
LEMMA InsideIsRead ==
  ASSUME TypeOK, NEW s \in Sessions, Receive(s), NEW k \in 1..Len(queue[s]), InsideAfter(s, k)
  PROVE  InsideAfter(s, k - 1)'
<1>0. /\ k \in Nat \ {0} /\ 1 \in 1..k /\ k <= Len(queue[s])
      /\ \A j \in 1..(k - 1) : queue'[s][j] = queue[s][j + 1] /\ j + 1 \in 1..k
      /\ Head(queue[s]) = queue[s][1]
  <2>1. queue[s] \in Seq(Msg) /\ queue[s] # <<>> /\ queue'[s] = Tail(queue[s])
    BY DEF TypeOK, Receive
  <2> QED
    BY <2>1
<1>1. inside'[s] = CASE queue[s][1] = "enter" -> TRUE
                     [] queue[s][1] = "leave" -> FALSE
                     [] OTHER -> inside[s]
  BY <1>0 DEF TypeOK, Receive
<1>2. CASE inside[s] /\ \A j \in 1..k : queue[s][j] # "leave"
  <2>1. inside'[s]
    BY <1>0, <1>1, <1>2
  <2>2. \A j \in 1..(k - 1) : queue'[s][j] # "leave"
    BY <1>0, <1>2
  <2> QED
    BY <2>1, <2>2 DEF InsideAfter
<1>3. ASSUME NEW i \in 1..k, queue[s][i] = "enter", \A j \in i..k : queue[s][j] # "leave"
      PROVE  InsideAfter(s, k - 1)'
  <2>1. CASE i = 1
    <3>1. inside'[s]
      BY <1>1, <1>3, <2>1
    <3>2. \A j \in 1..(k - 1) : queue'[s][j] # "leave"
      BY <1>0, <1>3, <2>1
    <3> QED
      BY <3>1, <3>2 DEF InsideAfter
  <2>2. CASE i # 1
    <3>1. i - 1 \in 1..(k - 1) /\ queue'[s][i - 1] = "enter"
      BY <1>0, <1>3, <2>2
    <3>2. \A j \in (i - 1)..(k - 1) : queue'[s][j] # "leave"
      BY <1>0, <1>3, <2>2
    <3> QED
      BY <3>1, <3>2 DEF InsideAfter
  <2> QED
    BY <2>1, <2>2
<1> QED
  BY <1>2, <1>3 DEF InsideAfter

\* A client whose connection is closed holds nothing and finds nothing.
LEMMA NextOffline == RoutingInv /\ Orders /\ Offline /\ [Next]_vars => Offline'
<1> SUFFICES ASSUME RoutingInv, Orders, Offline, [Next]_vars PROVE Offline'
  OBVIOUS
<1>0. ClientTypes
  BY TypeParts DEF RoutingInv
<1>a. ASSUME UNCHANGED <<queue, online, held>> PROVE Offline'
  BY <1>a DEF Offline
<1>1. CASE CarryOutSend
  <2>1. PICK n \in Names, m \in Msg, t \in Registered :
          queue' = [queue EXCEPT ![t] =
             IF online[t] /\ m # "move" THEN Append(queue[t], m) ELSE queue[t]]
    BY <1>1, SendStep
  <2>2. UNCHANGED <<online, held>>
    BY <1>1 DEF CarryOutSend
  <2>3. \A s \in Sessions : ~ online[s] => queue'[s] = queue[s]
    BY <1>0, <2>1 DEF ClientTypes
  <2> QED
    BY <2>2, <2>3 DEF Offline
<1>2. ASSUME NEW t \in Sessions, Receive(t) PROVE Offline'
  <2>1. online[t] /\ online' = online
    BY <1>2 DEF Receive
  <2>2. \A s \in Sessions \ {t} : queue'[s] = queue[s] /\ held'[s] = held[s]
    BY <1>0, <1>2 DEF Receive, ClientTypes
  <2> QED
    BY <2>1, <2>2 DEF Offline
<1>3. ASSUME NEW t \in Sessions, Drop(t) PROVE Offline'
  <2>1. queue'[t] = <<>> /\ ~ held'[t]
    BY <1>0, <1>3 DEF Drop, ClientTypes
  <2>2. \A s \in Sessions \ {t} : queue'[s] = queue[s] /\ held'[s] = held[s] /\ online'[s] = online[s]
    BY <1>0, <1>3 DEF Drop, ClientTypes
  <2> QED
    BY <2>1, <2>2 DEF Offline
<1>4. ASSUME NEW t \in Sessions, EndSession(t) PROVE Offline'
  <2>1. PICK k \in 0..Len(queue[t]) : queue' = [queue EXCEPT ![t] = SubSeq(queue[t], 1, k)]
    BY <1>4 DEF EndSession
  <2>2. UNCHANGED <<online, held>>
    BY <1>4 DEF EndSession
  <2>3. \A s \in Sessions \ {t} : queue'[s] = queue[s]
    BY <1>0, <2>1 DEF ClientTypes
  <2>4. queue[t] = <<>> => queue'[t] = <<>>
    <3> SUFFICES ASSUME queue[t] = <<>> PROVE queue'[t] = <<>>
      OBVIOUS
    <3>1. k = 0
      OBVIOUS
    <3>2. queue'[t] = SubSeq(queue[t], 1, 0)
      BY <1>0, <2>1, <3>1 DEF ClientTypes
    <3>3. \A q \in Seq(Msg) : SubSeq(q, 1, 0) = <<>>
      OBVIOUS
    <3> QED
      BY <1>0, <3>2, <3>3 DEF ClientTypes
  <2> QED
    BY <2>2, <2>3, <2>4 DEF Offline
<1>5. ASSUME NEW t \in Sessions, NEW m \in Arrangements, Connect(t, m) PROVE Offline'
  <2>1. \A s \in Sessions : online[s] => online'[s]
    BY <1>0, <1>5 DEF Connect, ClientTypes
  <2> QED
    BY <1>5, <2>1 DEF Connect, Offline
<1>6. CASE HandleInput \/ HandleHubEvent \/ CarryOutCommand \/ SendFails
  BY <1>6, <1>a DEF HandleInput, HandleHubEvent, CarryOutCommand, SendFails, clientVars
<1>7. CASE RouterReturns \/ AbortRouter \/ CaptureObeys \/ CaptureEnds \/ HubSide
  BY <1>7, <1>a DEF RouterReturns, AbortRouter, CaptureObeys, CaptureEnds, HubSide, clientVars
<1>8. ASSUME NEW e \in CaptureEvent, UserInput(e) PROVE Offline'
  BY <1>8, <1>a DEF UserInput, clientVars
<1>9. CASE UNCHANGED vars
  BY <1>9, <1>a DEF vars, clientVars
<1> QED
  BY <1>1, <1>2, <1>3, <1>4, <1>5, <1>6, <1>7, <1>8, <1>9 DEF Next, RouterStep

\* A handler that moves the input to a client decides on its Enter.
LEMMA EnterIsDecided ==
  ASSUME RoutingInv, HandleInput
  PROVE  active' = active \/ active' = Local \/ EnterWaits(active)'
<1>1. "move" \in Msg
  BY DEF Msg
<1>2. ASSUME NEW n \in Names, Go(n, EnterActions(n)) PROVE EnterWaits(active)'
  <2>1. Len(pending') = 2 /\ pending'[2] = Send(active', "enter")
    BY <1>1, <1>2, ActionsInOrder DEF Go
  <2> QED
    BY <2>1 DEF EnterWaits
<1>3. ASSUME active \in Names, NEW n \in Names, Go(n, CrossActions(active, n))
      PROVE  EnterWaits(active)'
  <2>1. Len(pending') = 3 /\ pending'[3] = Send(active', "enter")
    BY <1>1, <1>3, ActionsInOrder DEF Go
  <2> QED
    BY <2>1 DEF EnterWaits
<1> QED
  BY <1>2, <1>3, Decisions DEF RoutingInv, Stay, Go

LEMMA NextActiveIsInside ==
  RoutingInv /\ Orders /\ Offline /\ ActiveIsInside /\ [Next]_vars => ActiveIsInside'
<1> SUFFICES ASSUME RoutingInv, Orders, ActiveIsInside, [Next]_vars, running',
                    NEW s \in Registered' \ stranger',
                    online'[s], NameOf[s] = active', ~ EnterWaits(active)'
             PROVE  InsideAfter(s, Len(queue[s]))'
  BY DEF ActiveIsInside
<1>0. TypeOK /\ HubTypeOK /\ ClientTypes /\ HistoryTypes
  BY TypeParts DEF RoutingInv
<1>s. s \in Sessions /\ NameOf[s] \in Names /\ active' # Local
  BY HubAssumption, RoutingAssumption DEF Registered
\* It was not connected by this step: then it is a stranger.
<1>c. ASSUME NEW t \in Sessions, NEW m \in Arrangements, Connect(t, m) PROVE t # s
  <2>1. active' = active /\ stranger' = IF Driven(NameOf[t]) THEN stranger \cup {t} ELSE stranger
    BY <1>c DEF Connect, routerVars
  <2> QED
    BY <2>1 DEF Driven
<1>r. s \in Registered
  BY <1>c, <1>s, RegisteredBefore DEF RoutingInv
\* Nothing happens to the client.
<1>k. ASSUME running, s \notin stranger, online[s], active' = active,
             EnterWaits(active) => EnterWaits(active)', queue'[s] = queue[s], inside'[s] = inside[s]
      PROVE  InsideAfter(s, Len(queue[s]))'
  <2> DEFINE k == Len(queue[s])
  <2>1. InsideAfter(s, k)
    BY <1>k, <1>r DEF ActiveIsInside
  <2>2. PICK j \in Nat : j = k
    BY <1>0, <1>s DEF ClientTypes
  <2>3. InsideAfter(s, j)'
    BY <1>k, <2>1, <2>2, InsideIsKept
  <2> QED
    BY <1>k, <2>2, <2>3
<1>q. ASSUME UNCHANGED <<routerVars, clientVars, historyVars>> PROVE InsideAfter(s, Len(queue[s]))'
  BY <1>q, <1>k DEF routerVars, clientVars, historyVars, EnterWaits
<1>1. CASE HandleInput
  <2>1. active' = active /\ pending = <<>> /\ running
    BY <1>1, <1>s, EnterIsDecided DEF HandleInput, RouterIdle
  <2> QED
    BY <1>1, <1>k, <2>1 DEF HandleInput, clientVars, historyVars, EnterWaits
<1>2. CASE HandleHubEvent
  <2>1. active' = active /\ pending = <<>> /\ running
    BY <1>2, <1>s DEF HandleHubEvent, RouterIdle, TakeBack, Stay, Go
  <2> QED
    BY <1>2, <1>k, <2>1 DEF HandleHubEvent, clientVars, EnterWaits
\* The head of the actions is carried out and is no Enter for the screen with the input.
<1>p. ASSUME pending # <<>>, pending' = Tail(pending), Head(pending) # Send(active, "enter"),
             active' = active, EnterWaits(active)
      PROVE  EnterWaits(active)'
  <2>1. PICK i \in 1..Len(pending) : pending[i] = Send(active, "enter")
    BY <1>p DEF EnterWaits
  <2>2. i # 1
    BY <1>0, <1>p, <2>1, RestOfPending
  <2>3. i - 1 \in 1..Len(pending') /\ pending'[i - 1] = Send(active', "enter")
    BY <1>0, <1>p, <2>1, <2>2, RestOfPending
  <2> QED
    BY <2>3 DEF EnterWaits
<1>3. CASE CarryOutCommand
  <2>1. capturing /\ pending' = Tail(pending)
    BY <1>3 DEF CarryOutCommand
  <2>2. Head(pending) # Send(active, "enter")
    BY <1>3, SendIsNoCommand DEF CarryOutCommand
  <2> QED
    BY <1>3, <1>k, <1>p, <2>1, <2>2 DEF CarryOutCommand, clientVars, historyVars
<1>4. CASE CarryOutSend
  <2>0. PICK n \in Names, m \in Msg, t \in Registered :
           /\ pending # <<>> /\ Head(pending) = Send(n, m) /\ pending' = Tail(pending)
           /\ entry[n].session = t /\ NameOf[t] = n
           /\ queue' = [queue EXCEPT ![t] =
                IF online[t] /\ m # "move" THEN Append(queue[t], m) ELSE queue[t]]
           /\ n = active => Len(pending) = 1 /\ m # "leave"
    BY <1>4, SendStep
  <2>1. active' = active /\ running /\ UNCHANGED <<online, inside, stranger>>
    BY <1>4 DEF CarryOutSend
  <2>2. CASE s # t
    <3>1. n # active
      BY <1>r, <2>0, <2>1, <2>2, OwnerIsServed
    <3>2. Head(pending) # Send(active, "enter")
      BY <2>0, <3>1, SendFields
    <3>3. queue'[s] = queue[s]
      BY <1>0, <1>s, <2>0, <2>2 DEF ClientTypes
    <3> QED
      BY <1>k, <1>p, <2>0, <2>1, <3>2, <3>3
  <2>3. CASE s = t /\ m = "move"
    <3>1. Head(pending) # Send(active, "enter")
      BY <2>0, <2>3, SendFields
    <3>2. queue'[s] = queue[s]
      BY <1>0, <1>s, <2>0, <2>3 DEF ClientTypes
    <3> QED
      BY <1>k, <1>p, <2>0, <2>1, <3>1, <3>2
  <2>4. CASE s = t /\ m # "move"
    <3>0. m # "leave" /\ n = active
      BY <2>0, <2>1, <2>4
    <3>1. PICK k \in Nat : k = Len(queue[s])
      BY <1>0, <1>s DEF ClientTypes
    <3>2. queue'[s] = Append(queue[s], m) /\ queue[s] \in Seq(Msg)
      BY <1>0, <1>s, <2>0, <2>1, <2>4 DEF ClientTypes
    <3>3. /\ Len(queue'[s]) = k + 1 /\ queue'[s][k + 1] = m
          /\ \A j \in 1..k : queue'[s][j] = queue[s][j]
      BY <3>1, <3>2
    <3>4. CASE m = "enter"
      <4>1. k + 1 \in 1..(k + 1) /\ \A j \in (k + 1)..(k + 1) : queue'[s][j] # "leave"
        BY <3>3, <3>4
      <4> QED
        BY <3>3, <3>4, <4>1 DEF InsideAfter
    <3>5. CASE m # "enter"
      <4>1. \A i \in 1..Len(pending) : pending[i] = Send(n, m)
        BY <1>0, <2>0, <3>0, RestOfPending
      <4>2. ~ EnterWaits(active)
        BY <3>5, <4>1, SendFields DEF EnterWaits
      <4>3. InsideAfter(s, k)
        BY <1>r, <2>1, <3>1, <4>2 DEF ActiveIsInside
      <4>4. InsideAfter(s, k)'
        BY <2>1, <3>3, <4>3, InsideIsKept
      <4> QED
        BY <3>0, <3>3, <4>4 DEF InsideAfter
    <3> QED
      BY <3>4, <3>5
  <2> QED
    BY <2>2, <2>3, <2>4
<1>5. CASE SendFails
  <2>1. pending # <<>> /\ TakeBack(Head(pending).to, Tail(pending)) /\ running
    BY <1>5 DEF SendFails
  <2>2. active' = active /\ active # Head(pending).to /\ pending' = Tail(pending)
    BY <1>s, <2>1 DEF TakeBack, Stay, Go
  <2>3. Head(pending) # Send(active, "enter")
    BY <2>2, SendFields
  <2> QED
    BY <1>5, <1>k, <1>p, <2>1, <2>2, <2>3 DEF SendFails, clientVars
<1>6. CASE RouterReturns \/ AbortRouter
  <2>1. running' = FALSE
    BY <1>6, Zenon DEF RouterReturns, AbortRouter
  <2> QED
    BY <2>1
<1>7. CASE CaptureObeys \/ CaptureEnds \/ HubSide
  BY <1>7, <1>q DEF CaptureObeys, CaptureEnds, HubSide
<1>8. ASSUME NEW e \in CaptureEvent, UserInput(e) PROVE InsideAfter(s, Len(queue[s]))'
  BY <1>8, <1>q DEF UserInput
<1>9. ASSUME NEW t \in Sessions, Receive(t) PROVE InsideAfter(s, Len(queue[s]))'
  <2>1. UNCHANGED <<routerVars, online, historyVars>>
    BY <1>9 DEF Receive
  <2>2. CASE s # t
    <3>1. queue'[s] = queue[s] /\ inside'[s] = inside[s]
      BY <1>0, <1>9, <1>s, <2>2 DEF Receive, ClientTypes
    <3> QED
      BY <1>k, <2>1, <3>1 DEF routerVars, historyVars, EnterWaits
  <2>3. CASE s = t
    <3>1. PICK k \in Nat : k = Len(queue[s])
      BY <1>0, <1>s DEF ClientTypes
    <3>2. InsideAfter(s, k)
      BY <1>r, <2>1, <3>1 DEF ActiveIsInside, routerVars, historyVars, EnterWaits
    <3>3. k \in 1..Len(queue[s]) /\ Len(queue'[s]) = k - 1
      <4>1. queue[s] \in Seq(Msg) /\ queue[s] # <<>> /\ queue'[s] = Tail(queue[s])
        BY <1>0, <1>9, <1>s, <2>3 DEF Receive, ClientTypes
      <4> QED
        BY <3>1, <4>1
    <3>4. InsideAfter(s, k - 1)'
      BY <1>0, <1>9, <2>3, <3>2, <3>3, InsideIsRead
    <3> QED
      BY <3>3, <3>4
  <2> QED
    BY <2>2, <2>3
<1>10. ASSUME NEW t \in Sessions, Drop(t) PROVE InsideAfter(s, Len(queue[s]))'
  <2>1. t # s
    BY <1>0, <1>10, <1>s DEF Drop, ClientTypes
  <2>2. queue'[s] = queue[s] /\ inside'[s] = inside[s] /\ online'[s] = online[s]
    BY <1>0, <1>10, <1>s, <2>1 DEF Drop, ClientTypes
  <2>3. s \notin stranger
    BY <1>10, <2>1 DEF Drop
  <2> QED
    BY <1>10, <1>k, <2>2, <2>3 DEF Drop, routerVars, EnterWaits
<1>11. ASSUME NEW t \in Sessions, EndSession(t) PROVE InsideAfter(s, Len(queue[s]))'
  <2>1. t # s
    BY <1>0, <1>11, <1>s DEF EndSession, Unregister, HubTypeOK, Registered
  <2>2. queue'[s] = queue[s]
    BY <1>0, <1>11, <1>s, <2>1 DEF EndSession, ClientTypes
  <2> QED
    BY <1>11, <1>k, <2>2 DEF EndSession, routerVars, historyVars, EnterWaits
<1>12. ASSUME NEW t \in Sessions, NEW m \in Arrangements, Connect(t, m)
       PROVE  InsideAfter(s, Len(queue[s]))'
  <2>1. online'[s] = online[s] /\ stranger \subseteq stranger'
    BY <1>0, <1>12, <1>c, <1>s DEF Connect, ClientTypes
  <2> QED
    BY <1>12, <1>k, <2>1 DEF Connect, routerVars, EnterWaits
<1>13. CASE UNCHANGED vars
  BY <1>13, <1>q DEF vars
<1> QED
  BY <1>1, <1>2, <1>3, <1>4, <1>5, <1>6, <1>7, <1>8, <1>9, <1>10, <1>11, <1>12, <1>13
     DEF Next, RouterStep

\* Every press and release a client will read comes while it is inside.
LEMMA NextInputOnlyInside ==
  RoutingInv /\ Orders /\ Offline /\ ActiveIsInside /\ InputOnlyInside /\ [Next]_vars
    => InputOnlyInside'
<1> SUFFICES ASSUME RoutingInv, Orders, Offline, ActiveIsInside, InputOnlyInside, [Next]_vars,
                    NEW s \in Sessions \ stranger', NEW i \in 1..Len(queue'[s]),
                    queue'[s][i] \in {"press", "release"}
             PROVE  InsideAfter(s, i - 1)'
  BY DEF InputOnlyInside
<1>0. TypeOK /\ HubTypeOK /\ ClientTypes /\ HistoryTypes
  BY TypeParts DEF RoutingInv
<1>i. i \in Nat \ {0} /\ i - 1 \in Nat
  OBVIOUS
\* What the client has waiting is the first part of what it had waiting.
<1>k. ASSUME s \notin stranger, inside'[s] = inside[s], i <= Len(queue[s]),
             \A j \in 1..i : queue'[s][j] = queue[s][j]
      PROVE  InsideAfter(s, i - 1)'
  <2>1. i \in 1..Len(queue[s]) /\ queue[s][i] \in {"press", "release"}
    BY <1>0, <1>i, <1>k DEF ClientTypes
  <2>2. InsideAfter(s, i - 1)
    BY <1>k, <2>1 DEF InputOnlyInside
  <2>3. \A j \in 1..(i - 1) : queue'[s][j] = queue[s][j]
    BY <1>i, <1>k
  <2> QED
    BY <1>i, <1>k, <2>2, <2>3, InsideIsKept
<1>u. ASSUME s \notin stranger, inside'[s] = inside[s], queue'[s] = queue[s]
      PROVE  InsideAfter(s, i - 1)'
  BY <1>i, <1>k, <1>u
<1>q. ASSUME UNCHANGED <<queue, inside>>, stranger \subseteq stranger' PROVE InsideAfter(s, i - 1)'
  BY <1>q, <1>u
<1>1. CASE CarryOutSend
  <2>0. PICK n \in Names, m \in Msg, t \in Registered :
           /\ pending # <<>> /\ Head(pending) = Send(n, m) /\ pending' = Tail(pending)
           /\ entry[n].session = t /\ NameOf[t] = n
           /\ queue' = [queue EXCEPT ![t] =
                IF online[t] /\ m # "move" THEN Append(queue[t], m) ELSE queue[t]]
           /\ n = active => Len(pending) = 1 /\ m # "leave"
           /\ n # active => m \in {"move", "leave"}
    BY <1>1, SendStep
  <2>1. active' = active /\ running /\ UNCHANGED <<online, inside, stranger>>
    BY <1>1 DEF CarryOutSend
  <2>2. CASE s # t \/ ~ online[t] \/ m = "move"
    <3>1. queue'[s] = queue[s]
      BY <1>0, <2>0, <2>2 DEF ClientTypes
    <3> QED
      BY <1>u, <2>1, <3>1
  <2>3. CASE s = t /\ online[t] /\ m # "move"
    <3>1. PICK k \in Nat : k = Len(queue[s])
      BY <1>0 DEF ClientTypes
    <3>2. queue'[s] = Append(queue[s], m) /\ queue[s] \in Seq(Msg)
      BY <1>0, <2>0, <2>3 DEF ClientTypes
    <3>3. /\ Len(queue'[s]) = k + 1 /\ queue'[s][k + 1] = m
          /\ \A j \in 1..k : queue'[s][j] = queue[s][j]
      BY <3>1, <3>2
    <3>4. CASE i <= k
      BY <1>k, <2>1, <3>1, <3>3, <3>4
    <3>5. CASE i = k + 1
      <4>1. m \in {"press", "release"} /\ n = active
        BY <2>0, <3>3, <3>5
      <4>2. \A j \in 1..Len(pending) : pending[j] = Send(n, m)
        BY <1>0, <2>0, <4>1, RestOfPending
      <4>3. ~ EnterWaits(active)
        BY <4>1, <4>2, SendFields DEF EnterWaits
      <4>4. InsideAfter(s, k)
        BY <2>0, <2>1, <2>3, <3>1, <4>1, <4>3 DEF ActiveIsInside
      <4>5. InsideAfter(s, k)'
        BY <2>1, <3>3, <4>4, InsideIsKept
      <4>6. k = i - 1
        BY <3>1, <3>5
      <4> QED
        BY <4>5, <4>6
    <3> QED
      BY <3>3, <3>4, <3>5
  <2> QED
    BY <2>2, <2>3
<1>2. ASSUME NEW t \in Sessions, Receive(t) PROVE InsideAfter(s, i - 1)'
  <2>1. stranger' = stranger
    BY <1>2 DEF Receive, historyVars
  <2>2. CASE s # t
    <3>1. queue'[s] = queue[s] /\ inside'[s] = inside[s]
      BY <1>0, <1>2, <2>2 DEF Receive, ClientTypes
    <3> QED
      BY <1>u, <2>1, <3>1
  <2>3. CASE s = t
    <3>1. /\ Len(queue'[s]) = Len(queue[s]) - 1 /\ Len(queue[s]) \in Nat
          /\ \A j \in 1..Len(queue'[s]) : queue'[s][j] = queue[s][j + 1]
      <4>1. queue[s] \in Seq(Msg) /\ queue[s] # <<>> /\ queue'[s] = Tail(queue[s])
        BY <1>0, <1>2, <2>3 DEF Receive, ClientTypes
      <4> QED
        BY <4>1
    <3>2. i + 1 \in 1..Len(queue[s]) /\ queue[s][i + 1] \in {"press", "release"}
      BY <1>i, <3>1
    <3>3. InsideAfter(s, (i + 1) - 1)
      BY <2>1, <3>2 DEF InputOnlyInside
    <3>4. (i + 1) - 1 = i /\ i \in 1..Len(queue[s])
      BY <1>i, <3>1
    <3>5. InsideAfter(s, i)
      BY <3>3, <3>4
    <3> QED
      BY <1>0, <1>2, <2>3, <3>4, <3>5, InsideIsRead
  <2> QED
    BY <2>2, <2>3
<1>3. ASSUME NEW t \in Sessions, Drop(t) PROVE InsideAfter(s, i - 1)'
  <2>1. s # t
    <3>1. queue'[t] = <<>>
      BY <1>0, <1>3 DEF Drop, ClientTypes
    <3> QED
      BY <3>1
  <2>2. queue'[s] = queue[s] /\ inside'[s] = inside[s] /\ s \notin stranger
    BY <1>0, <1>3, <2>1 DEF Drop, ClientTypes
  <2> QED
    BY <1>u, <2>2
<1>4. ASSUME NEW t \in Sessions, EndSession(t) PROVE InsideAfter(s, i - 1)'
  <2>0. PICK k \in 0..Len(queue[t]) : queue' = [queue EXCEPT ![t] = SubSeq(queue[t], 1, k)]
    BY <1>4 DEF EndSession
  <2>1. UNCHANGED <<inside, stranger>>
    BY <1>4 DEF EndSession, historyVars
  <2>2. CASE s # t
    BY <1>0, <1>u, <2>0, <2>1, <2>2 DEF ClientTypes
  <2>3. CASE s = t
    <3>1. queue'[s] = SubSeq(queue[s], 1, k) /\ queue[s] \in Seq(Msg)
      BY <1>0, <2>0, <2>3 DEF ClientTypes
    <3>2. \A q \in Seq(Msg) : \A l \in 0..Len(q) :
            Len(SubSeq(q, 1, l)) = l /\ \A j \in 1..l : SubSeq(q, 1, l)[j] = q[j]
      OBVIOUS
    <3>3. Len(queue'[s]) = k /\ \A j \in 1..k : queue'[s][j] = queue[s][j]
      BY <2>0, <2>3, <3>1, <3>2
    <3>4. i <= Len(queue[s]) /\ \A j \in 1..i : queue'[s][j] = queue[s][j]
      BY <1>i, <2>3, <3>1, <3>3
    <3> QED
      BY <1>k, <2>1, <3>4
  <2> QED
    BY <2>2, <2>3
<1>5. ASSUME NEW t \in Sessions, NEW m \in Arrangements, Connect(t, m) PROVE InsideAfter(s, i - 1)'
  BY <1>5, <1>q DEF Connect
<1>6. CASE HandleInput \/ HandleHubEvent \/ CarryOutCommand \/ SendFails
  BY <1>6, <1>q DEF HandleInput, HandleHubEvent, CarryOutCommand, SendFails, clientVars, historyVars
<1>7. CASE RouterReturns \/ AbortRouter \/ CaptureObeys \/ CaptureEnds \/ HubSide
  BY <1>7, <1>q DEF RouterReturns, AbortRouter, CaptureObeys, CaptureEnds, HubSide, clientVars,
                    historyVars
<1>8. ASSUME NEW e \in CaptureEvent, UserInput(e) PROVE InsideAfter(s, i - 1)'
  BY <1>8, <1>q DEF UserInput, clientVars, historyVars
<1>9. CASE UNCHANGED vars
  BY <1>9, <1>q DEF vars, clientVars, historyVars
<1> QED
  BY <1>1, <1>2, <1>3, <1>4, <1>5, <1>6, <1>7, <1>8, <1>9 DEF Next, RouterStep

\* A Leave that waits behind the first of the actions still waits once that is done,
\* whatever is decided on behind it.
LEMMA LeaveStillWaits ==
  ASSUME TypeOK, NEW n, LeaveWaits(n), pending # <<>>, Head(pending) # Send(n, "leave"),
         pending' = Tail(pending) \/ pending' = Append(Tail(pending), Ungrab)
  PROVE  LeaveWaits(n)'
<1>1. /\ Len(pending) \in Nat \ {0} /\ Head(pending) = pending[1]
      /\ Tail(pending) \in Seq(ToCapture \cup ToClient)
      /\ Len(Tail(pending)) = Len(pending) - 1
      /\ \A j \in 1..Len(Tail(pending)) : Tail(pending)[j] = pending[j + 1]
  BY DEF TypeOK
<1>2. PICK i \in 1..Len(pending) : pending[i] = Send(n, "leave")
  BY DEF LeaveWaits
<1>3. i - 1 \in 1..Len(Tail(pending)) /\ Tail(pending)[i - 1] = Send(n, "leave")
  BY <1>1, <1>2
<1>4. i - 1 \in 1..Len(pending') /\ pending'[i - 1] = Send(n, "leave")
  BY <1>1, <1>3
<1> QED
  BY <1>4 DEF LeaveWaits

\* What a client holds, or will when it has read its messages, is let go of later.
LEMMA NextReleasedLater ==
  RoutingInv /\ Orders /\ Offline /\ ReleasedLater /\ [Next]_vars => ReleasedLater'
<1> SUFFICES ASSUME RoutingInv, Orders, Offline, ReleasedLater, [Next]_vars, running',
                    NEW s \in Registered', NEW i \in 0..Len(queue'[s]), PressedAt(s, i)',
                    NameOf[s] \notin orphaned', NameOf[s] # active', ~ LeaveWaits(NameOf[s])'
             PROVE  LeaveAfter(s, i)'
  BY DEF ReleasedLater
<1>0. TypeOK /\ HubTypeOK /\ ClientTypes /\ HistoryTypes
  BY TypeParts DEF RoutingInv
<1>s. s \in Sessions /\ NameOf[s] \in Names /\ i \in Nat
  BY HubAssumption DEF Registered
\* A session that has just connected has nothing.
<1>c. ASSUME NEW t \in Sessions, NEW m \in Arrangements, Connect(t, m) PROVE t # s
  <2>1. ~ online[t] /\ UNCHANGED <<queue, held>>
    BY <1>c DEF Connect
  <2>2. ~ held'[t] /\ queue'[t] = <<>>
    BY <2>1 DEF Offline
  <2>3. \A j \in 0..Len(queue'[t]) : j = 0
    BY <2>2
  <2> QED
    BY <2>2, <2>3 DEF PressedAt
<1>r. s \in Registered
  BY <1>c, <1>s, RegisteredBefore
\* What the client holds and has waiting does not change, nor that nobody releases it.
<1>k. ASSUME running, queue'[s] = queue[s], held'[s] = held[s], NameOf[s] \notin orphaned,
             NameOf[s] # active, ~ LeaveWaits(NameOf[s])
      PROVE  LeaveAfter(s, i)'
  <2>1. i \in 0..Len(queue[s]) /\ PressedAt(s, i)
    BY <1>k DEF PressedAt
  <2>2. LeaveAfter(s, i)
    BY <1>k, <1>r, <2>1 DEF ReleasedLater
  <2> QED
    BY <1>k, <2>2 DEF LeaveAfter
<1>q. ASSUME UNCHANGED <<routerVars, clientVars, orphaned>> PROVE LeaveAfter(s, i)'
  BY <1>q, <1>k DEF routerVars, clientVars, LeaveWaits
<1>1. CASE HandleInput
  <2>1. pending = <<>> /\ running /\ UNCHANGED <<connected, queue, held, orphaned>>
    BY <1>1 DEF HandleInput, RouterIdle, hubVars, clientVars, historyVars
  <2>2. ~ LeaveWaits(NameOf[s])
    BY <2>1 DEF LeaveWaits
  <2>3. NameOf[s] # active
    <3> SUFFICES ASSUME NameOf[s] = active PROVE FALSE
      OBVIOUS
    <3>1. active # Local /\ active # active'
      BY <1>s, RoutingAssumption
    <3>2. HandedOver
      BY <3>1, NextHandOver
    <3>3. active \in Known'
      BY <2>1, <3>1 DEF RoutingInv, ActiveIsKnown, Known
    <3> QED
      BY <3>2, <3>3 DEF HandedOver, LeaveWaits
  <2> QED
    BY <1>k, <2>1, <2>2, <2>3
<1>2. CASE HandleHubEvent
  <2>1. pending = <<>> /\ running /\ UNCHANGED <<queue, held>>
    BY <1>2 DEF HandleHubEvent, RouterIdle, clientVars
  <2>2. NameOf[s] \notin orphaned /\ NameOf[s] # active
    BY <1>2 DEF HandleHubEvent, TakeBack, Stay, Go
  <2> QED
    BY <1>k, <2>1, <2>2 DEF LeaveWaits
<1>3. CASE CarryOutCommand
  <2>1. capturing /\ pending # <<>> /\ pending' = Tail(pending) /\ running
    BY <1>3 DEF CarryOutCommand
  <2>2. Head(pending) # Send(NameOf[s], "leave")
    BY <1>3, SendIsNoCommand DEF CarryOutCommand
  <2>3. ~ LeaveWaits(NameOf[s])
    BY <1>0, <2>1, <2>2, LeaveStillWaits
  <2> QED
    BY <1>3, <1>k, <2>1, <2>3 DEF CarryOutCommand, clientVars, historyVars
<1>4. CASE CarryOutSend
  <2>0. PICK n \in Names, m \in Msg, t \in Registered :
           /\ pending # <<>> /\ Head(pending) = Send(n, m) /\ pending' = Tail(pending)
           /\ entry[n].session = t /\ NameOf[t] = n
           /\ queue' = [queue EXCEPT ![t] =
                IF online[t] /\ m # "move" THEN Append(queue[t], m) ELSE queue[t]]
           /\ orphaned' = IF m \in {"enter", "leave"} THEN orphaned \ {n} ELSE orphaned
           /\ n # active => m \in {"move", "leave"}
    BY <1>4, SendStep
  <2>1. active' = active /\ running /\ UNCHANGED <<online, held>>
    BY <1>4 DEF CarryOutSend
  <2>2. CASE s # t
    <3>1. n # NameOf[s]
      BY <1>r, <2>0, <2>2, OwnerIsServed
    <3>2. Head(pending) # Send(NameOf[s], "leave")
      BY <2>0, <3>1, SendFields
    <3>3. ~ LeaveWaits(NameOf[s])
      BY <1>0, <2>0, <3>2, LeaveStillWaits
    <3>4. queue'[s] = queue[s] /\ NameOf[s] \notin orphaned
      BY <1>0, <1>s, <2>0, <2>2, <3>1 DEF ClientTypes
    <3> QED
      BY <1>k, <2>1, <3>3, <3>4
  <2>3. CASE s = t /\ m = "move"
    <3>1. Head(pending) # Send(NameOf[s], "leave")
      BY <2>0, <2>3, SendFields
    <3>2. ~ LeaveWaits(NameOf[s])
      BY <1>0, <2>0, <3>1, LeaveStillWaits
    <3>3. queue'[s] = queue[s] /\ NameOf[s] \notin orphaned
      BY <1>0, <1>s, <2>0, <2>3 DEF ClientTypes
    <3> QED
      BY <1>k, <2>1, <3>2, <3>3
  <2>4. CASE s = t /\ m # "move"
    <3>0. m = "leave"
      BY <2>0, <2>1, <2>4
    <3>1. CASE online[s]
      <4>1. queue'[s] = Append(queue[s], "leave") /\ queue[s] \in Seq(Msg)
        BY <1>0, <1>s, <2>0, <2>4, <3>0, <3>1 DEF ClientTypes
      <4>2. Len(queue'[s]) = Len(queue[s]) + 1 /\ Len(queue[s]) \in Nat
            /\ queue'[s][Len(queue[s]) + 1] = "leave"
        BY <4>1
      <4>3. i # Len(queue[s]) + 1
        BY <1>s, <4>2 DEF PressedAt
      <4>4. Len(queue[s]) + 1 \in (i + 1)..Len(queue'[s])
        BY <1>s, <4>2, <4>3
      <4> QED
        BY <4>2, <4>4 DEF LeaveAfter
    <3>2. CASE ~ online[s]
      <4>1. queue'[s] = queue[s] /\ queue[s] = <<>> /\ ~ held[s]
        BY <1>0, <1>s, <2>0, <2>4, <3>2 DEF ClientTypes, Offline
      <4>2. i = 0
        BY <4>1
      <4> QED
        BY <2>1, <4>1, <4>2 DEF PressedAt
    <3> QED
      BY <3>1, <3>2
  <2> QED
    BY <2>2, <2>3, <2>4
<1>5. CASE SendFails
  <2> DEFINE n == Head(pending).to
  <2>1. /\ pending # <<>> /\ Head(pending) \in ToClient /\ entry[n] = None
        /\ TakeBack(n, Tail(pending)) /\ running /\ UNCHANGED <<queue, held>>
    BY <1>5 DEF SendFails, RouterMisses, clientVars
  <2>2. n # NameOf[s]
    BY <1>r, <2>1, OwnerIsServed
  <2>3. Head(pending) # Send(NameOf[s], "leave")
    BY <2>2, SendFields
  <2>4. pending' = Tail(pending) \/ pending' = Append(Tail(pending), Ungrab)
    BY <2>1 DEF TakeBack, Stay, Go
  <2>5. ~ LeaveWaits(NameOf[s])
    BY <1>0, <2>1, <2>3, <2>4, LeaveStillWaits
  <2>6. NameOf[s] \notin orphaned /\ NameOf[s] # active
    BY <2>1, <2>2 DEF TakeBack, Stay, Go
  <2> QED
    BY <1>k, <2>1, <2>5, <2>6
<1>6. CASE RouterReturns \/ AbortRouter
  <2>1. running' = FALSE
    BY <1>6, Zenon DEF RouterReturns, AbortRouter
  <2> QED
    BY <2>1
<1>7. CASE CaptureObeys \/ CaptureEnds \/ HubSide
  BY <1>7, <1>q DEF CaptureObeys, CaptureEnds, HubSide, historyVars
<1>8. ASSUME NEW e \in CaptureEvent, UserInput(e) PROVE LeaveAfter(s, i)'
  BY <1>8, <1>q DEF UserInput, historyVars
<1>9. ASSUME NEW t \in Sessions, Receive(t) PROVE LeaveAfter(s, i)'
  <2>1. UNCHANGED <<routerVars, orphaned>>
    BY <1>9 DEF Receive, historyVars
  <2>2. running /\ NameOf[s] \notin orphaned /\ NameOf[s] # active /\ ~ LeaveWaits(NameOf[s])
    BY <2>1 DEF routerVars, LeaveWaits
  <2>3. CASE s # t
    <3>1. queue'[s] = queue[s] /\ held'[s] = held[s]
      BY <1>0, <1>9, <1>s, <2>3 DEF Receive, ClientTypes
    <3> QED
      BY <1>k, <2>2, <3>1
  <2>4. CASE s = t
    <3>1. queue[s] \in Seq(Msg) /\ queue[s] # <<>> /\ queue'[s] = Tail(queue[s])
      BY <1>0, <1>9, <1>s, <2>4 DEF Receive, ClientTypes
    <3>2. /\ Len(queue[s]) \in Nat \ {0} /\ Len(queue'[s]) = Len(queue[s]) - 1
          /\ \A j \in 1..Len(queue'[s]) : queue'[s][j] = queue[s][j + 1]
          /\ Head(queue[s]) = queue[s][1]
      BY <3>1
    <3>3. held'[s] = CASE queue[s][1] = "press" -> TRUE
                       [] queue[s][1] \in {"release", "leave"} -> FALSE
                       [] OTHER -> held[s]
      BY <1>0, <1>9, <1>s, <2>4, <3>2 DEF Receive, ClientTypes
    \* Before, it was so after one message more, or before it read this one.
    <3>4. ASSUME NEW k \in {0, i + 1}, k \in 0..Len(queue[s]), PressedAt(s, k),
                 k = 0 => i = 0 /\ queue[s][1] # "leave"
          PROVE  LeaveAfter(s, i)'
      <4>1. LeaveAfter(s, k)
        BY <1>r, <2>2, <3>4 DEF ReleasedLater
      <4>2. PICK j \in (k + 1)..Len(queue[s]) : queue[s][j] = "leave"
        BY <4>1 DEF LeaveAfter
      <4>3. j - 1 \in (i + 1)..Len(queue'[s])
        BY <1>s, <3>2, <3>4, <4>2
      <4>4. queue'[s][j - 1] = "leave"
        BY <1>s, <3>2, <4>2, <4>3
      <4> QED
        BY <4>3, <4>4 DEF LeaveAfter
    <3>5. CASE i # 0
      <4>1. i + 1 \in 0..Len(queue[s]) /\ i \in 1..Len(queue'[s]) /\ i + 1 # 0
        BY <1>s, <3>2, <3>5
      <4>2. PressedAt(s, i + 1)
        BY <3>2, <3>5, <4>1 DEF PressedAt
      <4> QED
        BY <3>4, <4>1, <4>2
    <3>6. CASE i = 0 /\ queue[s][1] = "press"
      <4>1. i + 1 \in 0..Len(queue[s]) /\ PressedAt(s, i + 1)
        BY <3>2, <3>6 DEF PressedAt
      <4> QED
        BY <3>4, <3>6, <4>1
    <3>7. CASE i = 0 /\ queue[s][1] # "press"
      <4>1. held'[s]
        BY <3>7 DEF PressedAt
      <4>2. queue[s][1] # "leave" /\ held[s]
        BY <3>3, <3>7, <4>1
      <4> QED
        BY <3>2, <3>4, <3>7, <4>2 DEF PressedAt
    <3> QED
      BY <3>5, <3>6, <3>7
  <2> QED
    BY <2>3, <2>4
<1>10. ASSUME NEW t \in Sessions, Drop(t) PROVE LeaveAfter(s, i)'
  <2>1. t # s
    <3>1. queue'[t] = <<>> /\ ~ held'[t]
      BY <1>0, <1>10 DEF Drop, ClientTypes
    <3>2. \A j \in 0..Len(queue'[t]) : j = 0
      BY <3>1
    <3> QED
      BY <3>1, <3>2 DEF PressedAt
  <2>2. queue'[s] = queue[s] /\ held'[s] = held[s]
    BY <1>0, <1>10, <1>s, <2>1 DEF Drop, ClientTypes
  <2> QED
    BY <1>10, <1>k, <2>2 DEF Drop, routerVars, LeaveWaits
<1>11. ASSUME NEW t \in Sessions, EndSession(t) PROVE LeaveAfter(s, i)'
  <2>1. t # s
    BY <1>0, <1>11, <1>s DEF EndSession, Unregister, HubTypeOK, Registered
  <2>2. queue'[s] = queue[s]
    BY <1>0, <1>11, <1>s, <2>1 DEF EndSession, ClientTypes
  <2> QED
    BY <1>11, <1>k, <2>2 DEF EndSession, routerVars, historyVars, LeaveWaits
<1>12. ASSUME NEW t \in Sessions, NEW m \in Arrangements, Connect(t, m) PROVE LeaveAfter(s, i)'
  BY <1>12, <1>k DEF Connect, routerVars, LeaveWaits
<1>13. CASE UNCHANGED vars
  BY <1>13, <1>q DEF vars, historyVars
<1> QED
  BY <1>1, <1>2, <1>3, <1>4, <1>5, <1>6, <1>7, <1>8, <1>9, <1>10, <1>11, <1>12, <1>13
     DEF Next, RouterStep

\* Together inductive, on top of RoutingInv.
ClientInv == Orders /\ Offline /\ ActiveIsInside /\ InputOnlyInside /\ ReleasedLater

LEMMA InitClientInv == RoutingInit => ClientInv
<1> SUFFICES ASSUME RoutingInit PROVE ClientInv
  OBVIOUS
<1>1. Orders /\ Offline
  BY DEF RoutingInit, Orders, Offline
<1>2. Registered = {}
  BY DEF RoutingInit, HubInit, Registered
<1>3. ActiveIsInside /\ ReleasedLater
  BY <1>2 DEF ActiveIsInside, ReleasedLater
<1>4. InputOnlyInside
  BY DEF RoutingInit, InputOnlyInside
<1> QED
  BY <1>1, <1>3, <1>4 DEF ClientInv

LEMMA NextClientInv == RoutingInv /\ ClientInv /\ [Next]_vars => ClientInv'
  BY NextOrders, NextOffline, NextActiveIsInside, NextInputOnlyInside, NextReleasedLater
     DEF ClientInv

LEMMA ClientInvHolds == Spec => [](RoutingInv /\ ClientInv)
  BY InitRoutingInv, NextRoutingInv, InitClientInv, NextClientInv, PTL DEF Spec

\* Keys and buttons reach a client between an Enter and a Leave only, whatever crossings,
\* lost connections and reconnections there are, unless its session began while the
\* router was still driving its name (Core::forward, Core::client_disconnected).
THEOREM InputComesInside == Spec => []InputOnlyInside
  BY ClientInvHolds, PTL DEF ClientInv

\* A client of a live session holds nothing down that is not released: the cursor is on
\* it, the Leave is on its way, or the router took the input back because it heard that
\* the screen went away.
THEOREM HeldIsReleased == Spec => []HeldUntilLeave
<1>1. RoutingInv /\ ClientInv => HeldUntilLeave
  <2> SUFFICES ASSUME RoutingInv, ClientInv, running, NEW s \in Registered, held[s]
               PROVE  NameOf[s] \in orphaned \cup {active} \/ LeaveOnItsWay(s)
    BY DEF HeldUntilLeave
  <2>1. 0 \in 0..Len(queue[s]) /\ Len(queue[s]) \in Nat
    BY DEF RoutingInv, TypeOK, Registered
  <2>2. PressedAt(s, 0)
    BY DEF PressedAt
  <2>3. \/ NameOf[s] \in orphaned \cup {active}
        \/ LeaveWaits(NameOf[s])
        \/ LeaveAfter(s, 0)
    BY <2>1, <2>2 DEF ClientInv, ReleasedLater
  <2>4. LeaveAfter(s, 0) => \E j \in 1..Len(queue[s]) : queue[s][j] = "leave"
    BY DEF LeaveAfter
  <2> QED
    BY <2>3, <2>4 DEF LeaveOnItsWay, LeaveWaits
<1> QED
  BY <1>1, ClientInvHolds, PTL
=============================================================================
