---------------------------- MODULE PointerPath ----------------------------
(***************************************************************************)
(* Where the cursor is: the hand on the server's mouse, the X server and   *)
(* its queue of motion events, the X11 capture thread that turns positions *)
(* into deltas (geserdesk-platform x11.rs), the router that carries the    *)
(* cursor over the desk (geserdesk-server router.rs), and the client's     *)
(* cursor; with the desk itself as the hub and the layout editor keep it   *)
(* (hub.rs, admin.rs) and as the router was told of it.                    *)
(*                                                                         *)
(* What the router sends a client is injected in order and nothing else    *)
(* moves that cursor, so sending and injecting are one step.  A client's   *)
(* monitors change and are reported in one step.                           *)
(*                                                                         *)
(* Left out: keys and buttons (KeyForwarding, WindowsCapture), what the    *)
(* edge asks for besides the place (SwitchGate), sessions and screens that *)
(* are turned off (HubRegistry, InputRouting).                             *)
(***************************************************************************)
EXTENDS DeskGeometry

CONSTANTS
  Clients, Local,
  Names,        \* every machine, by name
  Configs,      \* the screens a config may list, with their positions, sizes and links
  Reports,      \* per client, the monitor lists it may report
  Screens,      \* this machine's monitors, the first as the server starts
  Edits,        \* what the layout editor may ask for: positions and sizes
  Vectors,      \* the hand's movements
  Jump, Corner, \* the switch policy's jump zone and corner size
  Fallback,     \* the monitor assumed when nothing sane is reported
  None,
  Budgets,      \* bound: hand movements, hotkeys and changes of the desk in one behaviour
  MaxX, MaxEvents   \* bounds: X events waiting, capture events waiting

Machines == Clients \cup {Local}
ASSUME PointerAssumption ==
  /\ Local \notin Clients /\ None \notin Machines \cup Points \cup Monitors
  /\ Names \in Seq(Machines) /\ ToSet(Names) = Machines
  /\ \A cfg \in Configs :
       /\ cfg.listed \in Seq(Machines) /\ Local \in ToSet(cfg.listed)
       /\ DOMAIN cfg.positions \subseteq ToSet(cfg.listed)
       /\ cfg.positions \in [DOMAIN cfg.positions -> Points]
       /\ cfg.sizes \in [Machines -> Sizes \cup {NoSize}]
       /\ LinksAreListed(ToSet(cfg.listed), cfg.links)
  /\ \A c \in Clients : \A list \in Reports[c] : list \in Seq(Rects)
  /\ Fallback \in Monitors
  /\ \A edit \in Edits :
       /\ \A n \in DOMAIN edit.at : edit.at[n] \in Points
       /\ \A n \in DOMAIN edit.size : edit.size[n] \in Sizes
  /\ Vectors \subseteq Points /\ Jump \in Nat \ {0} /\ Corner \in Int
  /\ MaxX \in Nat \ {0} /\ MaxEvents \in Nat \ {0}
  (* every monitor of this machine is wider than its two jump zones *)
  /\ Screens \in Seq(MonitorLists) /\ Screens # <<>>
  /\ \A i \in 1..Len(Screens) : \A j \in 1..Len(Screens[i]) :
       Screens[i][j].w > 2 * Jump + 2 /\ Screens[i][j].h > 2 * Jump + 2

VARIABLES
  budget,
  screen, ptr, xq,                                  \* the X server: its monitors, pointer, events to the thread
  grab, bounds, last, expecting, lastLocal, cmds,   \* Capture, and the commands to it
  events,                                           \* what it told the router
  real, watched, hubq,                              \* the hub's clients; the local monitors last told; its events
  eScreens, ePositions, eSizes, known,              \* DeskState
  links,                                            \* Layout, as the config was loaded
  rScreens, rMons, rLocal, rPositions, rSizes, origins, \* Core: the desk
  active, pos, lastMonitor,                         \* Core: who has the input, and where
  cursor,                                           \* each client's own cursor
  owed,       \* history: the hand's movement under the grab that was not reported
  slipped,    \* history: under the grab the hand put the pointer on the very centre, the screen
              \* changed, or old motion was queued
  landed,     \* history: where the last release put the pointer, if that is where it was to be put,
              \* and the monitors it was meant for
  valid       \* history: nothing changed since the editor's last layout

xserver == <<screen, ptr, xq>>
capture == <<grab, bounds, last, expecting, lastLocal, cmds>>
hub == <<real, watched, hubq>>
editor == <<eScreens, ePositions, eSizes, known>>
desk == <<links, rScreens, rMons, rLocal, rPositions, rSizes, origins>>
router == <<active, pos, lastMonitor, cursor>>
history == <<owed, slipped, landed, valid>>
vars == <<budget, xserver, capture, events, hub, editor, desk, router, history>>

At(p) == [ev |-> "at", p |-> p]
Hot == [ev |-> "hotkey"]
Failed == [ev |-> "failed"]
Motion(d) == [ev |-> "motion", d |-> d]
Pointer(p, from) == [ev |-> "pointer", p |-> p, from |-> from]
Grab == [cmd |-> "grab"]
Home(warp, on) == [cmd |-> "ungrab", warp |-> warp, on |-> on]   \* history: on these monitors

Spend(what) == budget[what] > 0 /\ budget' = [budget EXCEPT ![what] = @ - 1]
Minus(p, q) == Pt(p.x - q.x, p.y - q.y)
Plus(p, q) == Pt(p.x + q.x, p.y + q.y)
Origin == Pt(0, 0)
OnScreen(p) == NearestPoint(p, screen)
Center == CenterOf(bounds)

(* Hello and ScreenChanged: sanitize_monitors. *)
Sanitize(list) ==
  LET sane == Among(list, {r \in ToSet(list) : r.w > 0 /\ r.h > 0})
  IN IF sane = <<>> THEN <<Fallback>> ELSE sane

MonsOf(local, mons) == [n \in Machines |-> IF n = Local THEN local ELSE mons[n]]
Placed(screens, mons, positions, sizes) ==
  EffectiveOrigins(screens, Local, links, positions, [n \in Machines |-> DeskSize(mons[n], sizes[n])])

Init ==
  /\ budget \in Budgets
  /\ screen = Screens[1] /\ ptr = NearestPoint(CenterOf(UnionAll(Screens[1])), screen) /\ xq = <<>>
  /\ grab = "no" /\ bounds = UnionAll(Screens[1]) /\ last = CenterOf(bounds) /\ expecting = FALSE
  /\ lastLocal = None /\ cmds = <<>> /\ events = <<>>
  /\ \E cfg \in Configs : eScreens = cfg.listed /\ ePositions = cfg.positions /\ eSizes = cfg.sizes
                          /\ links = LinksOf(cfg.links)
  /\ known = [c \in Clients |-> <<>>]
  /\ real \in [Clients -> UNION {{<<>>} \cup {Sanitize(r) : r \in Reports[c]} : c \in Clients}]
  /\ \A c \in Clients : real[c] \in {<<>>} \cup {Sanitize(r) : r \in Reports[c]}
  /\ \A c \in Clients : c \notin ToSet(eScreens) => real[c] = <<>>
  /\ watched = Screens[1] /\ hubq = <<>>
  /\ rScreens = eScreens /\ rMons = real /\ rLocal = Screens[1]
  /\ rPositions = ePositions /\ rSizes = eSizes
  /\ origins = Placed(eScreens, MonsOf(Screens[1], real), ePositions, eSizes)
  /\ active = Local /\ pos = Origin /\ lastMonitor = None
  /\ cursor = [c \in Clients |-> Origin]
  /\ owed = Origin /\ slipped = FALSE /\ landed = None /\ valid = FALSE

-----------------------------------------------------------------------------
(* The hand, and the X server. *)

HandMoves(d) ==
  /\ Spend("moves") /\ Len(xq) < MaxX
  /\ ptr' = OnScreen(Plus(ptr, d)) /\ ptr' # ptr
  /\ xq' = IF grab = "no" THEN xq ELSE Append(xq, At(ptr'))
  /\ owed' = IF grab = "yes" THEN Plus(owed, Minus(ptr', ptr)) ELSE owed
  /\ slipped' = (slipped \/ (grab # "no" /\ ptr' = Center))
  /\ UNCHANGED <<screen, capture, events, hub, editor, desk, router, landed, valid>>

HandPressesHotkey ==
  /\ Spend("hotkeys") /\ Len(xq) < MaxX
  /\ xq' = Append(xq, Hot)
  /\ UNCHANGED <<screen, ptr, capture, events, hub, editor, desk, router, history>>

(* The last step of a warp: where the X server lets it go, reported to a grab. *)
WarpTo(p) == ptr' = OnScreen(ClampTo(bounds, p))

-----------------------------------------------------------------------------
(* The capture thread. *)

Emit(e) == Len(events) < MaxEvents /\ events' = Append(events, e)

(* grab: the pointer is taken, and its motion queued, before its place is asked. *)
GrabPointer ==
  /\ cmds # <<>> /\ Head(cmds).cmd = "grab" /\ grab # "half"
  /\ cmds' = Tail(cmds)
  /\ \/ grab = "yes" /\ UNCHANGED <<grab, events>>
     \/ grab = "no" /\ grab' = "half" /\ UNCHANGED events
     \/ grab = "no" /\ Emit(Failed) /\ UNCHANGED grab
  /\ slipped' = IF grab = "no" THEN \E i \in 1..Len(xq) : xq[i].ev = "at" ELSE slipped
  /\ UNCHANGED <<budget, xserver, bounds, last, expecting, lastLocal, hub, editor, desk, router,
                 owed, landed, valid>>

(* ... and then the keyboard, or neither. *)
GrabRest ==
  /\ grab = "half"
  /\ \/ /\ grab' = "yes"
        /\ last' = ptr /\ expecting' = TRUE
        /\ WarpTo(Center) /\ xq' = Append(xq, At(ptr'))
        /\ owed' = Origin
        /\ UNCHANGED events
     \/ /\ grab' = "no" /\ Emit(Failed)
        /\ UNCHANGED <<last, expecting, ptr, xq, owed>>
  /\ UNCHANGED <<budget, screen, bounds, lastLocal, cmds, hub, editor, desk, router,
                 slipped, landed, valid>>

(* release *)
Ungrab ==
  /\ cmds # <<>> /\ Head(cmds).cmd = "ungrab" /\ grab # "half"
  /\ cmds' = Tail(cmds) /\ grab' = "no"
  /\ WarpTo(Head(cmds).warp)
  /\ landed' = IF ptr' = Head(cmds).warp THEN [p |-> ptr', on |-> Head(cmds).on] ELSE None
  /\ lastLocal' = Head(cmds).warp
  /\ UNCHANGED <<budget, screen, xq, bounds, last, expecting, events, hub, editor, desk, router,
                 owed, slipped, valid>>

(* on_motion: what position p means. *)
MeasuredFromCenter(p) == Minus(p, Center)
Measured(p) == Minus(p, IF expecting THEN last ELSE Center)

Report(d) ==
  /\ IF d = Origin THEN UNCHANGED events ELSE Emit(Motion(d))
  /\ owed' = Minus(owed, d)

OnMotion(p) ==
  /\ last' = IF expecting \/ p # Center THEN p ELSE last
  /\ IF expecting
       THEN /\ expecting' = (p # Center)
            /\ UNCHANGED ptr /\ xq' = Tail(xq)
            /\ IF p = Center THEN UNCHANGED <<events, owed>> ELSE Report(Measured(p))
       ELSE /\ Report(Measured(p))
            /\ expecting' = (p # Center)
            /\ IF p = Center THEN UNCHANGED ptr /\ xq' = Tail(xq)
               ELSE WarpTo(Center) /\ xq' = Append(Tail(xq), At(ptr'))

(* on_event: motion counts under the grab alone. *)
XEvent ==
  /\ xq # <<>> /\ grab # "half"
  /\ LET e == Head(xq) IN
     \/ e.ev = "at" /\ grab = "yes" /\ OnMotion(e.p)
     \/ e.ev = "at" /\ grab = "no" /\ xq' = Tail(xq) /\ UNCHANGED <<ptr, last, expecting, events, owed>>
     \/ e.ev = "hotkey" /\ xq' = Tail(xq) /\ Emit(Hot) /\ UNCHANGED <<ptr, last, expecting, owed>>
  /\ UNCHANGED <<budget, screen, grab, bounds, lastLocal, cmds, hub, editor, desk, router,
                 slipped, landed, valid>>

(* run: with no event left, where the pointer is, while this machine has it and it moved. *)
Sample ==
  /\ grab = "no" /\ xq = <<>> /\ lastLocal # ptr
  /\ lastLocal' = ptr /\ Emit(Pointer(ptr, landed))
  /\ UNCHANGED <<budget, xserver, grab, bounds, last, expecting, cmds, hub, editor, desk, router, history>>

-----------------------------------------------------------------------------
(* The hub and the layout editor. *)

Tell(e) == hubq' = Append(hubq, e)

(* register, with the monitors of Hello; set_monitors, with those of ScreenChanged. *)
Reported(c) ==
  /\ Spend("changes") /\ c \in ToSet(eScreens)
  /\ \E list \in Reports[c] :
       /\ Sanitize(list) # real[c]
       /\ real' = [real EXCEPT ![c] = Sanitize(list)]
       /\ cursor' = [cursor EXCEPT ![c] = NearestPoint(@, Sanitize(list))]
       /\ Tell([ev |-> "connected", name |-> c, mons |-> Sanitize(list)])
  /\ valid' = FALSE
  /\ UNCHANGED <<xserver, capture, events, watched, editor, desk, active, pos, lastMonitor,
                 owed, slipped, landed>>

Unregister(c) ==
  /\ Spend("changes") /\ real[c] # <<>>
  /\ real' = [real EXCEPT ![c] = <<>>]
  /\ Tell([ev |-> "gone", name |-> c])
  /\ UNCHANGED <<xserver, capture, events, watched, editor, desk, router, history>>

ScreenChanges ==
  /\ Spend("changes")
  /\ \E i \in 1..Len(Screens) :
       /\ Screens[i] # screen /\ screen' = Screens[i]
       /\ ptr' = NearestPoint(ptr, Screens[i])
  /\ slipped' = (slipped \/ grab # "no") /\ valid' = FALSE
  /\ UNCHANGED <<xq, capture, events, hub, editor, desk, router, owed, landed>>

(* watch_local_monitors *)
WatchLocal ==
  /\ screen # watched
  /\ watched' = screen /\ Tell([ev |-> "local", mons |-> screen])
  /\ UNCHANGED <<budget, xserver, capture, events, real, editor, desk, router, history>>

(* DeskState.approve of a machine the config does not list: add_screen. *)
AddScreen(c) ==
  /\ Spend("changes") /\ c \notin ToSet(eScreens)
  /\ eScreens' = Append(eScreens, c) /\ Tell([ev |-> "added", name |-> c])
  /\ UNCHANGED <<xserver, capture, events, real, watched, ePositions, eSizes, known, desk, router, history>>

(* DeskState.screens: the editor's own picture of the desk. *)
Live(n) == n = Local \/ real[n] # <<>>
ViewMons(n) ==
  IF n = Local THEN watched ELSE IF real[n] # <<>> THEN real[n]
  ELSE IF known[n] # <<>> THEN known[n] ELSE <<Rect(0, 0, DefaultSize.w, DefaultSize.h)>>
ViewOrigins == Placed(eScreens, [n \in Machines |-> ViewMons(n)], ePositions, eSizes)
Seen == [c \in Clients |-> IF c \in ToSet(eScreens) /\ real[c] # <<>> THEN real[c] ELSE known[c]]

Look ==
  /\ known # Seen /\ known' = Seen
  /\ UNCHANGED <<budget, xserver, capture, events, hub, eScreens, ePositions, eSizes, desk, router, history>>

(* validate *)
NextPositions(edit) == Over(edit.at, ViewOrigins)
NextSizes(edit) ==
  [n \in Machines |-> IF n \notin DOMAIN edit.size THEN eSizes[n]
                      ELSE IF edit.size[n] = DeskSize(ViewMons(n), NoSize) THEN NoSize
                      ELSE edit.size[n]]

(* Mutant of Fits: two machines are compared at their own sizes. *)
FitsUnstretched(at, sizes) ==
  \A a, b \in {n \in ToSet(eScreens) : Live(n)} : a # b =>
    \A x \in ToSet(ViewMons(a)), y \in ToSet(ViewMons(b)) :
      ~ Intersects(DeskRect(FrameOf(at[a], ViewMons(a), NoSize), x),
                   DeskRect(FrameOf(at[b], ViewMons(b), NoSize), y))

(* validate: no two machines that are here share desk pixels. *)
Fits(at, sizes) ==
  \A a, b \in {n \in ToSet(eScreens) : Live(n)} : a # b =>
    \A x \in ToSet(ViewMons(a)), y \in ToSet(ViewMons(b)) :
      ~ Intersects(DeskRect(FrameOf(at[a], ViewMons(a), sizes[a]), x),
                   DeskRect(FrameOf(at[b], ViewMons(b), sizes[b]), y))

(* apply_layout: two events, the sizes first. *)
ApplyLayout(edit) ==
  /\ Spend("changes")
  /\ DOMAIN edit.at \cup DOMAIN edit.size \subseteq ToSet(eScreens)
  /\ Fits(NextPositions(edit), NextSizes(edit))
  /\ ePositions' = NextPositions(edit) /\ eSizes' = NextSizes(edit) /\ known' = Seen
  /\ hubq' = hubq \o <<[ev |-> "sizes", sizes |-> eSizes'], [ev |-> "positions", at |-> ePositions']>>
  /\ valid' = (screen = watched)
  /\ UNCHANGED <<xserver, capture, events, real, watched, eScreens, desk, router, owed, slipped, landed>>

-----------------------------------------------------------------------------
(* Core: the desk. *)

Mons(n) == IF n = Local THEN rLocal ELSE rMons[n]
OriginOf(n) == IF n \in DOMAIN origins THEN origins[n] ELSE Origin
Frame(n) == FrameOf(OriginOf(n), Mons(n), rSizes[n])

(* locate: the first machine by name that has a monitor there. *)
Beneath(v, exclude) ==
  Among(Names, {n \in Machines \ {exclude} : OnAny(ToLocal(Frame(n), v), Mons(n))})

SnapInto(n, p) == IF Mons(n) = <<>> THEN p ELSE NearestPoint(p, Mons(n))
LocalCenter ==
  LET hasOrigin == Among(rLocal, {m \in ToSet(rLocal) : Holds(m, Origin)})
      home == IF lastMonitor # None /\ lastMonitor \in ToSet(rLocal) THEN lastMonitor
              ELSE IF hasOrigin # <<>> THEN hasOrigin[1] ELSE rLocal[1]
  IN SnapInto(Local, CenterOf(home))

(* Every change works the origins out anew. *)
Refreshed(screens, mons, local, positions, sizes) ==
  /\ rScreens' = screens /\ rMons' = mons /\ rLocal' = local
  /\ rPositions' = positions /\ rSizes' = sizes /\ UNCHANGED links
  /\ origins' = Placed(screens, MonsOf(local, mons), positions, sizes)

(* MoveAbs and Enter: where each client's cursor is put. *)
Moved(to) ==
  cursor' = [c \in Clients |-> IF c \in DOMAIN to /\ real[c] # <<>> THEN NearestPoint(to[c], real[c])
                               ELSE cursor[c]]

Command(c) == cmds' = Append(cmds, c)
StayPut == UNCHANGED <<active, pos, lastMonitor, cmds, cursor>>

(* set_local_monitors: the monitor input came from may be gone. *)
LocalMonitors(mons) ==
  IF mons = rLocal THEN UNCHANGED desk /\ StayPut
  ELSE /\ Refreshed(rScreens, rMons, mons, rPositions, rSizes)
       /\ lastMonitor' = IF lastMonitor # None /\ lastMonitor \in ToSet(mons) THEN lastMonitor ELSE None
       /\ UNCHANGED <<active, pos, cmds, cursor>>

(* client_disconnected: the input comes home. *)
ClientGone(c) ==
  /\ Refreshed(rScreens, [rMons EXCEPT ![c] = <<>>], rLocal, rPositions, rSizes)
  /\ IF active # c THEN StayPut
     ELSE /\ active' = Local /\ Command(Home(LocalCenter, rLocal))
          /\ UNCHANGED <<pos, lastMonitor, cursor>>

(* Mutant of Applied: the desk is not laid out anew when a client connects. *)
AppliedUnrefreshed(e) ==
  \/ /\ e.ev = "connected"
     /\ rMons' = [rMons EXCEPT ![e.name] = e.mons]
     /\ UNCHANGED <<links, rScreens, rLocal, rPositions, rSizes, origins>> /\ StayPut
  \/ e.ev = "gone" /\ ClientGone(e.name)
  \/ e.ev = "positions" /\ Refreshed(rScreens, rMons, rLocal, e.at, rSizes) /\ StayPut
  \/ e.ev = "sizes" /\ Refreshed(rScreens, rMons, rLocal, rPositions, e.sizes) /\ StayPut
  \/ e.ev = "added" /\ Refreshed(Append(rScreens, e.name), rMons, rLocal, rPositions, rSizes) /\ StayPut
  \/ e.ev = "local" /\ LocalMonitors(e.mons)

Applied(e) ==
  \/ /\ e.ev = "connected" /\ StayPut
     /\ Refreshed(rScreens, [rMons EXCEPT ![e.name] = e.mons], rLocal, rPositions, rSizes)
  \/ e.ev = "gone" /\ ClientGone(e.name)
  \/ e.ev = "positions" /\ Refreshed(rScreens, rMons, rLocal, e.at, rSizes) /\ StayPut
  \/ e.ev = "sizes" /\ Refreshed(rScreens, rMons, rLocal, rPositions, e.sizes) /\ StayPut
  \/ e.ev = "added" /\ Refreshed(Append(rScreens, e.name), rMons, rLocal, rPositions, rSizes) /\ StayPut
  \/ e.ev = "local" /\ LocalMonitors(e.mons)

HubEvent ==
  /\ hubq # <<>> /\ hubq' = Tail(hubq)
  /\ Applied(Head(hubq))
  /\ UNCHANGED <<budget, xserver, grab, bounds, last, expecting, lastLocal, events, real, watched,
                 editor, history>>

-----------------------------------------------------------------------------
(* Core: the cursor. *)

Enter(c, at) ==
  /\ active' = c /\ pos' = at /\ Command(Grab)
  /\ Moved(Only(c, at))

GoLocal(at) == active' = Local /\ Command(Home(at, rLocal)) /\ UNCHANGED pos

(* on_pointer: across the first edge with a machine beyond it. *)
Beyond(m, p) ==
  LET probe(edge) == StepTo(p, edge, Jump)
      there(edge) == Beneath(ToDesk(Frame(Local), probe(edge)), Local)
      open == Among(Edges, {edge \in ToSet(Edges) : AtEdge(m, p, edge, Jump) /\ ~ OnAny(probe(edge), rLocal)
                                                     /\ there(edge) # <<>>})
  IN IF open = <<>> THEN <<>>
     ELSE <<[edge |-> open[1], to |-> there(open[1])[1],
             at |-> ToLocal(Frame(there(open[1])[1]), ToDesk(Frame(Local), probe(open[1])))]>>

OnPointer(p) ==
  IF active # Local \/ ~ OnAny(p, rLocal) THEN StayPut
  ELSE LET m == OnWhich(p, rLocal)
           hit == Beyond(m, p)
       IN /\ lastMonitor' = m
          /\ \/ /\ hit # <<>> /\ NearCorner(m, p, hit[1].edge, Corner)
                /\ Enter(hit[1].to, hit[1].at)
             \/ UNCHANGED <<active, pos, cmds, cursor>>   \* nothing beyond, or the gate waits

(* on_hotkey: home, or to the machine whose centre is nearest. *)
CenterOnDesk(n) == ToDesk(Frame(n), CenterOf(UnionAll(Mons(n))))
OnHotkey ==
  IF active # Local
    THEN GoLocal(LocalCenter) /\ UNCHANGED <<lastMonitor, cursor>>
    ELSE LET there == Among(Names, {n \in Clients : Mons(n) # <<>>})
             near == there[FirstLeast([i \in 1..Len(there) |-> Dist2(CenterOnDesk(there[i]), CenterOnDesk(Local))])]
         IN IF there = <<>> THEN StayPut
            ELSE Enter(near, SnapInto(near, CenterOf(UnionAll(Mons(near))))) /\ UNCHANGED lastMonitor

OnGrabFailed ==
  /\ active' = Local
  /\ UNCHANGED <<pos, lastMonitor, cmds, cursor>>

(* Off this machine's monitors, towards q of machine next: its cursor goes to the edge first. *)
ReturnAtEdge(q, m) == q
ReturnAt(q, m) == InsetClamp(q, m, Jump + 1)
Cross(moved, next, q) ==
  LET edge == NearestPoint(moved, Mons(active)) IN
  IF next = Local
    THEN /\ GoLocal(ReturnAt(q, OnWhich(q, rLocal)))
         /\ Moved(Only(active, edge))
    ELSE /\ active' = next /\ pos' = q /\ UNCHANGED cmds
         /\ Moved(Over(Only(active, edge), Only(next, q)))

(* Mutant of Carried: from a position its monitors may no longer have. *)
CarriedFromOld(d) == Plus(pos, d)

(* The virtual position after a delta. *)
Carried(d) == Plus(NearestPoint(pos, Mons(active)), d)

(* on_motion, from the nearest point of the monitors as they are now. *)
OnRemoteMotion(d) ==
  LET moved == Carried(d)
      v == ToDesk(Frame(active), moved)
      beneath == Beneath(v, active)
  IN IF active = Local \/ Mons(active) = <<>> THEN StayPut
     ELSE /\ UNCHANGED lastMonitor
          /\ IF ~ OnAny(moved, Mons(active)) /\ beneath # <<>>
               THEN Cross(moved, beneath[1], ToLocal(Frame(beneath[1]), v))
               ELSE /\ pos' = IF OnAny(moved, Mons(active)) THEN moved ELSE NearestPoint(moved, Mons(active))
                    /\ Moved(Only(active, pos')) /\ UNCHANGED <<active, cmds>>

CaptureEvent ==
  /\ events # <<>> /\ events' = Tail(events)
  /\ LET e == Head(events) IN
     \/ e.ev = "pointer" /\ OnPointer(e.p)
     \/ e.ev = "hotkey" /\ OnHotkey
     \/ e.ev = "motion" /\ OnRemoteMotion(e.d)
     \/ e.ev = "failed" /\ active # Local /\ OnGrabFailed
     \/ e.ev = "failed" /\ active = Local /\ StayPut
  /\ UNCHANGED <<budget, xserver, grab, bounds, last, expecting, lastLocal, hub, editor, desk, history>>

Next ==
  \/ \E d \in Vectors : HandMoves(d)
  \/ HandPressesHotkey
  \/ GrabPointer \/ GrabRest \/ Ungrab \/ XEvent \/ Sample
  \/ \E c \in Clients : Reported(c) \/ Unregister(c) \/ AddScreen(c)
  \/ ScreenChanges \/ WatchLocal \/ Look
  \/ \E edit \in Edits : ApplyLayout(edit)
  \/ HubEvent \/ CaptureEvent

Spec == Init /\ [][Next]_vars

-----------------------------------------------------------------------------
(* What each variable can hold; the pointer is on one of this machine's screens (x11.rs). *)
TypeOK ==
  /\ {ptr, last, pos, owed} \subseteq Points
  /\ OnAny(ptr, screen)
  /\ grab \in {"no", "half", "yes"} /\ {expecting, slipped, valid} \subseteq BOOLEAN
  /\ active \in Machines /\ DOMAIN origins = ToSet(rScreens)
  /\ lastLocal = None \/ lastLocal \in Points
  /\ lastMonitor = None \/ OnAny(CenterOf(lastMonitor), <<lastMonitor>>)
  /\ Len(events) <= MaxEvents

(* The capture thread's idea of the screen is the screen, and its centre a place on it. *)
KnowsScreen == bounds = UnionAll(screen) /\ OnAny(Center, screen)

(* "Measuring against the centre too early would count the same movement twice" (on_motion): *)
(* with nothing waiting, the deltas reported under a grab are the movement the hand made     *)
(* under it, neither more nor less.  Not so once the hand put the pointer on the very centre *)
(* (taken for the warp's own event), when a grab followed another with motion still queued,   *)
(* when the screen changed under the grab, nor when it is not the one the thread started     *)
(* with or has no monitor at its centre (a warp there lands elsewhere and counts as movement).*)
EveryMoveCounts == grab = "yes" /\ xq = <<>> /\ KnowsScreen /\ ~ slipped => owed = Origin

(* "The client may have re-arranged its monitors under the cursor" (on_motion): a client's   *)
(* cursor moves by what the hand moved, as far as its monitors go, from where the router     *)
(* left it or its new monitors put it.                                                       *)
HandCarries ==
  [][ LET c == active IN
        (/\ events # <<>> /\ Head(events).ev = "motion" /\ events' = Tail(events)
         /\ c # Local /\ active' = c /\ real[c] # <<>> /\ rMons[c] = real[c]
         /\ cursor[c] = NearestPoint(pos, real[c]))
          => cursor'[c] = NearestPoint(Plus(cursor[c], Head(events).d), real[c]) ]_vars

Apart(p, q) == Dist2(p, q) >= 4

(* A cursor that came home over an edge goes back over it only when the hand moved on        *)
(* towards it: one pixel of trembling is not enough (inset_clamp by more than the jump zone).*)
(* Not so if the router was wrong about this machine's monitors when it sent the cursor home,*)
(* or has heard of other ones since.                                                         *)
StaysHome ==
  [][ active = Local /\ active' # Local /\ events # <<>> /\ Head(events).ev = "pointer"
      /\ Head(events).from # None /\ Head(events).from.on = rLocal
        => Apart(Head(events).p, Head(events).from.p) ]_vars

Covered(n) ==
  LET f == Frame(n)
      r == DeskRect(f, Bounds(Mons(n)))
  IN {v \in [x : (r.x - 1)..RightOf(r), y : (r.y - 1)..BottomOf(r)] : OnAny(ToLocal(f, v), Mons(n))}
Shared(a, b) == Covered(a) \cap Covered(b) # {}
Settled == hubq = <<>> /\ valid

(* A machine whose desk pixels need no rounding: at its own size, or of one monitor. *)
Exact(n) == rSizes[n] = NoSize \/ Len(Mons(n)) = 1

(* "No two machines may occupy the same desk pixels: the cursor would have two places to go" *)
(* (validate): what the editor accepted and the router has applied gives each pixel to one   *)
(* machine, as long as no machine changed since.  A stretched machine of several monitors is *)
(* an exception: the editor rounds the edges between them, the router does not.              *)
OnePlaceUnlessRounded ==
  Settled => \A a, b \in Machines : a # b /\ Exact(a) /\ Exact(b) => ~ Shared(a, b)

(* The same without the exception. *)
OnePlaceToGo == Settled => \A a, b \in Machines : a # b => ~ Shared(a, b)

(* The editor remembers the size of a machine that is away, the router assumes one. *)
SizesAgree ==
  \A n \in Machines : Live(n) \/ DeskSize(ViewMons(n), eSizes[n]) = DeskSize(<<>>, eSizes[n])
AllPlaced == ToSet(eScreens) \subseteq DOMAIN ePositions

(* The router goes by the desk the editor shows, once it heard of every change: unless there *)
(* is a machine that is away, whose size the two take differently, and one without a         *)
(* position of its own.                                                                      *)
SameDesk ==
  [][ hubq # <<>> /\ hubq' = <<>> /\ (SizesAgree \/ AllPlaced) =>
        (\A n \in ToSet(eScreens) : Live(n) => ViewOrigins[n] = origins'[n] /\ ViewMons(n) = Mons(n)') ]_vars
=============================================================================
