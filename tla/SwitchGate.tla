----------------------------- MODULE SwitchGate -----------------------------
(***************************************************************************)
(* When a cursor at an edge of the server's screen goes over to the client *)
(* there (layout.rs, SwitchState; router.rs, on_pointer).                  *)
(*                                                                         *)
(* The capture thread reports the pointer's position, each one once; the   *)
(* router judges a report when it reads it, with the clock of that moment, *)
(* by the two gates of the policy: the dwell and the double tap.  Between  *)
(* two reports clients come and go, the input leaves and comes home.       *)
(*                                                                         *)
(* A position is the first edge with a client it touches, and whether it is*)
(* near a corner.  Times are ages, counted to the largest the policy tells *)
(* apart.  Scroll Lock is left out: nothing in the server engages it.      *)
(***************************************************************************)
EXTENDS Integers, Sequences

CONSTANTS
  Edges,      \* the edges of the local screen
  NoEdge,     \* away from every edge
  Off,        \* outside the monitors the router knows
  Policies,   \* the settings under which the server may run
  MaxAge,     \* bound: the age at which times are no longer told apart
  MaxSamples, \* bound: reports waiting for the router
  MaxCmds     \* bound: commands waiting for the capture thread

Policy == [delay : 0..MaxAge, tap : 0..MaxAge, corner : BOOLEAN]

ASSUME GateAssumption ==
  /\ NoEdge \notin Edges /\ Off \notin Edges \cup {NoEdge}
  /\ MaxAge \in Nat
  /\ Policies \subseteq Policy
  /\ \A p \in Policies : p.tap < MaxAge
  /\ {MaxSamples, MaxCmds} \subseteq Nat \ {0}

VARIABLES
  policy,   \* SwitchPolicy; corner: only near a corner
  live,     \* the edges with a connected client behind them
  remote,   \* the edge whose client has the input, NoEdge when it is here
  dwell,    \* SwitchState::dwell
  lastTap,  \* SwitchState::last_tap
  pointer,  \* where the pointer is
  moved,    \* it is elsewhere than at the last report (Capture::last_local)
  samples,  \* reports, unread by the router
  cmds,     \* capture commands, unread by the capture thread
  grabbed,  \* Capture::grabbed
  rest,     \* history: the edge all reports since some moment were at, and that moment
  home      \* history: since the input came home, how long and how many edge reports

gate == <<dwell, lastTap>>
captureVars == <<pointer, moved, samples, grabbed>>
historyVars == <<rest, home>>
gateVars == <<policy, live, remote, gate, captureVars, cmds, historyVars>>

At(e, c) == [edge |-> e, corner |-> c]
Place == {At(e, c) : e \in Edges, c \in BOOLEAN} \cup {At(NoEdge, FALSE), At(Off, FALSE)}

\* A moment that concerns an edge.
Mark == [edge : Edges \cup {NoEdge}, age : 0..MaxAge]
NoMark == [edge |-> NoEdge, age |-> 0]
Now(e) == [edge |-> e, age |-> 0]
JustHome == [age |-> 0, samples |-> 0]

Older(t) == IF t < MaxAge THEN t + 1 ELSE t

GateInit ==
  /\ policy \in Policies
  /\ live = {} /\ remote = NoEdge
  /\ dwell = NoMark /\ lastTap = NoMark
  /\ pointer = At(NoEdge, FALSE) /\ moved = FALSE /\ samples = <<>>
  /\ cmds = <<>> /\ grabbed = FALSE
  /\ rest = NoMark /\ home = JustHome

----------------------------------------------------------------------------
(* SwitchState.                                                            *)

\* Mutant of Switched: the tap is not forgotten.
SwitchedButTap == dwell' = NoMark /\ UNCHANGED lastTap

\* SwitchState::switched.
Switched == dwell' = NoMark /\ lastTap' = NoMark

\* Mutant of LeftEdge: the dwell goes on.
LeftEdgeDwelling == UNCHANGED gate

\* SwitchState::left_edge, and evaluate outside the corner.
LeftEdge == dwell' = NoMark /\ UNCHANGED lastTap

\* The two gates of SwitchState::evaluate, for a report at edge e.
SecondTap(e) == policy.tap = 0 \/ (lastTap.edge = e /\ lastTap.age <= policy.tap)
Dwelt(e) == policy.delay = 0 \/ (dwell.edge = e /\ dwell.age >= policy.delay)

\* Mutant of Wait: every report starts the dwell again.
WaitAgain(e) ==
  /\ lastTap' = IF policy.tap > 0 THEN Now(e) ELSE lastTap
  /\ dwell' = IF SecondTap(e) THEN Now(e) ELSE dwell

\* Decision::Wait: the tap is noted; past that gate the dwell begins or goes on.
Wait(e) ==
  /\ lastTap' = IF policy.tap > 0 THEN Now(e) ELSE lastTap
  /\ dwell' = IF SecondTap(e) /\ dwell.edge # e THEN Now(e) ELSE dwell

----------------------------------------------------------------------------
(* The router.                                                             *)

Command(c) == Len(cmds) < MaxCmds /\ cmds' = Append(cmds, c)
Local == remote = NoEdge

\* Every report so far was at e, or this one is the first.
RestAt(e) == rest' = IF rest.edge = e THEN rest ELSE Now(e)
CountSample == home' = [home EXCEPT !.samples = IF @ < 2 THEN @ + 1 ELSE @]

\* Core::on_pointer: a report from before the grab, or outside the known monitors.
Ignore(p) ==
  /\ ~ Local \/ p.edge = Off
  /\ UNCHANGED <<remote, gate, cmds, historyVars>>

\* Core::on_pointer: at no edge with a client, or not where the policy wants it.
Elsewhere(p) ==
  /\ Local
  /\ p.edge # Off
  /\ p.edge \notin live \/ (policy.corner /\ ~ p.corner)
  /\ LeftEdge
  /\ rest' = NoMark
  /\ UNCHANGED <<remote, cmds, home>>

\* Core::on_pointer: at an edge with a client.
AtEdge(p) ==
  /\ Local
  /\ p.edge \in live /\ (policy.corner => p.corner)
  /\ RestAt(p.edge)
  /\ CountSample
  /\ IF SecondTap(p.edge) /\ Dwelt(p.edge)
     THEN remote' = p.edge /\ Switched /\ Command("grab")
     ELSE UNCHANGED <<remote, cmds>> /\ Wait(p.edge)

HandlePointer ==
  /\ samples # <<>>
  /\ samples' = Tail(samples)
  /\ LET p == Head(samples) IN Ignore(p) \/ Elsewhere(p) \/ AtEdge(p)
  /\ UNCHANGED <<policy, live, pointer, moved, grabbed>>

\* The input comes home: go_local, client_disconnected.
ComeHome ==
  /\ remote' = NoEdge
  /\ Switched
  /\ Command("ungrab")
  /\ rest' = NoMark /\ home' = JustHome

\* Core::on_motion and Core::on_hotkey, when they give the input back.
GoLocal ==
  /\ ~ Local
  /\ ComeHome
  /\ UNCHANGED <<policy, live, captureVars>>

\* Core::on_hotkey at home: to any client, whatever the gates say.
HotkeyEnters ==
  /\ Local
  /\ \E e \in live : remote' = e
  /\ Switched
  /\ Command("grab")
  /\ UNCHANGED <<policy, live, captureVars, historyVars>>

\* Core::client_connected.
Arrives(e) ==
  /\ live' = live \cup {e} /\ e \notin live
  /\ UNCHANGED <<policy, remote, gate, captureVars, cmds, historyVars>>

\* Core::client_disconnected.
Leaves(e) ==
  /\ e \in live
  /\ live' = live \ {e}
  /\ IF remote = e THEN ComeHome ELSE UNCHANGED <<remote, gate, cmds, historyVars>>
  /\ UNCHANGED <<policy, captureVars>>

----------------------------------------------------------------------------
(* The capture thread and the clock.                                       *)

\* The user moves the mouse, if only along an edge.
Move(p) ==
  /\ ~ grabbed
  /\ pointer' = p /\ moved' = TRUE
  /\ UNCHANGED <<policy, live, remote, gate, samples, cmds, grabbed, historyVars>>

\* The thread looks at the pointer; a position it has reported is not reported again.
Report ==
  /\ ~ grabbed /\ moved
  /\ Len(samples) < MaxSamples
  /\ samples' = Append(samples, pointer)
  /\ moved' = FALSE
  /\ UNCHANGED <<policy, live, remote, gate, pointer, cmds, grabbed, historyVars>>

\* Capture::on_cmd.  A release puts the pointer somewhere and counts that as reported.
CaptureObeys ==
  /\ cmds # <<>>
  /\ cmds' = Tail(cmds)
  /\ grabbed' = (Head(cmds) = "grab")
  /\ IF Head(cmds) = "grab"
     THEN UNCHANGED <<pointer, moved>>
     ELSE pointer' \in {p \in Place : p.edge # Off} /\ moved' = FALSE
  /\ UNCHANGED <<policy, live, remote, gate, samples, historyVars>>

GateTick ==
  /\ dwell' = IF dwell = NoMark THEN dwell ELSE [dwell EXCEPT !.age = Older(@)]
  /\ lastTap' = IF lastTap = NoMark THEN lastTap ELSE [lastTap EXCEPT !.age = Older(@)]
  /\ rest' = IF rest = NoMark THEN rest ELSE [rest EXCEPT !.age = Older(@)]
  /\ home' = [home EXCEPT !.age = Older(@)]
  /\ UNCHANGED <<policy, live, remote, captureVars, cmds>>

----------------------------------------------------------------------------

GateNext ==
  \/ HandlePointer \/ GoLocal \/ HotkeyEnters
  \/ \E e \in Edges : Arrives(e) \/ Leaves(e)
  \/ \E p \in Place : Move(p)
  \/ Report \/ CaptureObeys
  \/ GateTick

GateSpec == GateInit /\ [][GateNext]_gateVars

\* Time passes, and the router task and the capture thread keep running.
Fairness ==
  /\ WF_gateVars(GateTick)
  /\ WF_gateVars(HandlePointer) /\ WF_gateVars(Report) /\ WF_gateVars(CaptureObeys)

GateFairSpec == GateSpec /\ Fairness

----------------------------------------------------------------------------
(* Properties.                                                             *)

\* Every variable keeps its type; a gate is armed only when the policy asks for it, and
\* neither while a client has the input.
GateTypeOK ==
  /\ policy \in Policies
  /\ live \in SUBSET Edges
  /\ remote \in Edges \cup {NoEdge}
  /\ dwell \in Mark /\ (dwell # NoMark => policy.delay > 0 /\ Local)
  /\ lastTap \in Mark /\ (lastTap # NoMark => policy.tap > 0 /\ Local)
  /\ pointer \in Place
  /\ moved \in BOOLEAN
  /\ samples \in Seq(Place)
  /\ cmds \in Seq({"grab", "ungrab"})
  /\ grabbed \in BOOLEAN
  /\ rest \in Mark
  /\ home \in [age : 0..MaxAge, samples : 0..2]

\* The step is a switch the gates let through.
GateOpens(e) == Local /\ remote' = e /\ samples' # samples

\* layout.rs on delay_ms: "Cursor must rest against the edge for this many ms before
\* switching."  By the reports the router read, the cursor was at the edge, and at no
\* other place, for as long as the dwell asks.
SwitchNeedsRest ==
  [][policy.tap = 0 =>
       \A e \in Edges : GateOpens(e) /\ policy.delay > 0 =>
         rest.edge = e /\ rest.age >= policy.delay]_gateVars

\* layout.rs on switched: "to reset per-attempt state".  The input does not bounce: once
\* home it goes out again over an edge only after a dwell, or two taps, that began at home.
NoBounce ==
  [][\A e \in Edges : GateOpens(e) =>
       /\ policy.delay > 0 => home.age >= policy.delay
       /\ policy.tap > 0 => home'.samples = 2]_gateVars

\* layout.rs on Wait: "Keep feeding edge samples."  A cursor that keeps moving along one
\* edge, and at no time leaves it, goes over, unless a double tap is asked for.
RestIsRewarded ==
  \A e \in Edges :
    policy.tap = 0 /\ <>[](Local /\ rest.edge = e /\ pointer.edge = e) => <>[](samples = <<>>)

\* layout.rs on double_tap_ms: "Cursor must touch the edge twice within this many ms to
\* switch."  The report that opens the gate is a new touch: the one before it was not at
\* the same edge already.
TwoTouches ==
  [][\A e \in Edges : GateOpens(e) /\ policy.tap > 0 => rest.edge # e]_gateVars
=============================================================================
