---------------------------- MODULE InputRouting ----------------------------
(***************************************************************************)
(* Which screen owns the keyboard and the mouse.                           *)
(*                                                                         *)
(* Three actors share this machine's input.  The capture thread (platform, *)
(* x11.rs) grabs and releases the devices on command and reports what the  *)
(* user does.  The router task (server, router.rs) handles one event at a  *)
(* time, from the capture thread or from the hub, and then carries out the *)
(* actions it decided on, one by one: commands to the capture thread,      *)
(* messages to clients.  A client (client, net.rs and inject.rs) presses   *)
(* and releases what it is sent, and lets go of everything when the cursor *)
(* leaves or the connection drops.  They talk through queues, so each acts *)
(* on what was true a moment ago.  The hub between router and sessions is  *)
(* HubRegistry.                                                            *)
(*                                                                         *)
(* Positions are left out: where a move or a pointer sample leads is any   *)
(* screen the router knows (Core::locate returns nothing else), whether an *)
(* edge sample switches is any answer of the switch policy.  One key       *)
(* stands for everything a client can hold down.                           *)
(***************************************************************************)
EXTENDS HubRegistry

CONSTANTS
  Local,          \* the server's own screen
  Fickle,         \* bound: sessions whose connection may end
  GrabMayFail,    \* another program may hold a grab
  CaptureMayStop, \* the capture thread may end on an error, the server may stop
  MaxInputs,      \* bound: user input waiting for the router
  MaxCmds,        \* bound: commands waiting for the capture thread
  MaxQueue        \* bound: messages waiting for a client

ASSUME RoutingAssumption ==
  /\ Local \notin Names
  /\ Fickle \subseteq Sessions
  /\ GrabMayFail \in BOOLEAN
  /\ CaptureMayStop \in BOOLEAN
  /\ {MaxInputs, MaxCmds, MaxQueue} \subseteq Nat \ {0}

VARIABLES
  active,     \* Core::state: Local, or the screen of State::Remote
  pending,    \* actions of the event being handled that are still to be carried out
  running,    \* run_shared has not returned
  inputs,     \* capture events, unread by the router
  cmds,       \* capture commands, unread by the capture thread
  grabbed,    \* Capture::grabbed
  capturing,  \* the capture thread runs
  queue,      \* per session: messages on their way to the client
  online,     \* per session: the client's end of the connection is open
  held,       \* per session: the client has something pressed
  inside,     \* history, per session: the last of Enter and Leave was an Enter
  orphaned,   \* history: screens the input was taken from with no Leave after their Enter
  stranger    \* history: sessions that began while the router was still driving their name

routerVars == <<active, pending, running>>
captureVars == <<inputs, cmds, grabbed, capturing>>
clientVars == <<queue, online, held, inside>>
historyVars == <<orphaned, stranger>>
vars == <<hubVars, routerVars, captureVars, clientVars, historyVars>>

CaptureEvent == {"pointer", "motion", "press", "release", "hotkey", "grabFailed"}
CaptureCmd == {"grab", "ungrab"}
Msg == {"enter", "leave", "move", "press", "release"}
ToCapture == [cmd : CaptureCmd]
ToClient == [to : Names, msg : Msg]

Grab == [cmd |-> "grab"]
Ungrab == [cmd |-> "ungrab"]
Send(n, m) == [to |-> n, msg |-> m]

Known == {n \in Names : connected[n] # None}

RoutingInit ==
  /\ HubInit
  /\ active = Local
  /\ pending = <<>>
  /\ running = TRUE
  /\ inputs = <<>>
  /\ cmds = <<>>
  /\ grabbed = FALSE
  /\ capturing = TRUE
  /\ queue = [s \in Sessions |-> <<>>]
  /\ online = [s \in Sessions |-> FALSE]
  /\ held = [s \in Sessions |-> FALSE]
  /\ inside = [s \in Sessions |-> FALSE]
  /\ orphaned = {}
  /\ stranger = {}

----------------------------------------------------------------------------
(* The router: one event.                                                  *)

\* Mutant of EnterActions: the devices are not grabbed.
EnterUngrabbed(n) == <<Send(n, "enter")>>

\* Mutant of EnterActions: the client is not told.
EnterUntold(n) == <<Grab>>

\* Core::enter and Core::enter_from_remote.
EnterActions(n) == <<Grab, Send(n, "enter")>>

\* Mutant of CrossActions: the client that is left is not told.
CrossSilently(from, n) == <<Send(from, "move"), Send(n, "enter")>>

\* The crossing in Core::on_motion, with Core::enter_from_remote.
CrossActions(from, n) == <<Send(from, "move"), Send(from, "leave"), Send(n, "enter")>>

\* Core::go_local.
HomeActions(from) == <<Send(from, "leave"), Ungrab>>

Stay(actions) == active' = active /\ pending' = actions
Go(n, actions) == active' = n /\ pending' = actions

\* Core::on_pointer: a sample from before the grab is stale; one away from every live
\* edge, or held back by the switch policy, does nothing.
OnPointer ==
  \/ Stay(<<>>)
  \/ active = Local /\ \E n \in Known : Go(n, EnterActions(n))

\* Mutant of OnHotkey: to any configured screen.
OnHotkeyAnywhere ==
  IF active # Local THEN Go(Local, HomeActions(active))
  ELSE \E n \in Names : Go(n, EnterActions(n))

\* Core::on_hotkey: home, or to the nearest screen the router knows.
OnHotkey ==
  IF active # Local THEN Go(Local, HomeActions(active))
  ELSE IF Known = {} THEN Stay(<<>>)
  ELSE \E n \in Known : Go(n, EnterActions(n))

\* Core::on_grab_failed.
OnGrabFailed ==
  IF active = Local THEN Stay(<<>>) ELSE Go(Local, <<Send(active, "leave")>>)

\* Core::on_motion: on the same screen, onto another one, or home.
OnMotion ==
  \/ active \notin Known /\ Stay(<<>>)
  \/ active \in Known /\ Stay(<<Send(active, "move")>>)
  \/ /\ active \in Known
     /\ \/ \E n \in Known \ {active} : Go(n, CrossActions(active, n))
        \/ Go(Local, <<Send(active, "move")>> \o HomeActions(active))

\* Core::forward.
Forward(m) == IF active = Local THEN Stay(<<>>) ELSE Stay(<<Send(active, m)>>)

RouterIdle == running /\ pending = <<>>

\* One pass of run_shared over a capture event (Core::handle).
HandleInput ==
  /\ RouterIdle
  /\ inputs # <<>>
  /\ inputs' = Tail(inputs)
  /\ CASE Head(inputs) = "pointer"    -> OnPointer
       [] Head(inputs) = "hotkey"     -> OnHotkey
       [] Head(inputs) = "grabFailed" -> OnGrabFailed
       [] Head(inputs) = "motion"     -> OnMotion
       [] OTHER                       -> Forward(Head(inputs))
  /\ UNCHANGED <<hubVars, running, cmds, grabbed, capturing, clientVars, historyVars>>

\* Mutant of TakeBack: the screen is forgotten with the cursor on it.
KeepThere(n, rest) == Stay(rest) /\ UNCHANGED orphaned

\* Core::client_disconnected; `rest` are the actions already waiting.
TakeBack(n, rest) ==
  IF active = n
  THEN Go(Local, Append(rest, Ungrab)) /\ orphaned' = orphaned \cup {n}
  ELSE Stay(rest) /\ UNCHANGED orphaned

\* One pass over a hub event.
HandleHubEvent ==
  /\ RouterIdle
  /\ RouterHears
  /\ IF Head(hubEvents).ev = "connected"
     THEN Stay(<<>>) /\ UNCHANGED orphaned
     ELSE TakeBack(Head(hubEvents).name, <<>>)
  /\ UNCHANGED <<running, captureVars, clientVars, stranger>>

----------------------------------------------------------------------------
(* The router: one of the actions it decided on.                           *)

\* CaptureHandle::send; the router returns when the capture thread is gone.
CarryOutCommand ==
  /\ running /\ pending # <<>> /\ Head(pending) \in ToCapture
  /\ IF capturing
     THEN /\ Len(cmds) < MaxCmds
          /\ cmds' = Append(cmds, Head(pending).cmd)
          /\ pending' = Tail(pending)
          /\ UNCHANGED running
     ELSE running' = FALSE /\ pending' = <<>> /\ UNCHANGED cmds
  /\ UNCHANGED <<hubVars, active, inputs, grabbed, capturing, clientVars, historyVars>>

\* Hub::send to a screen that is registered: the session's outbox gets the message.
\* What the client will never read is dropped here, and so are moves: no property tells
\* apart a client that has read one.
CarryOutSend ==
  /\ running /\ pending # <<>> /\ Head(pending) \in ToClient
  /\ LET n == Head(pending).to
         m == Head(pending).msg
     IN /\ entry[n] # None
        /\ LET s == entry[n].session
           IN /\ Len(queue[s]) < MaxQueue
              /\ queue' = [queue EXCEPT ![s] = IF online[s] /\ m # "move" THEN Append(@, m) ELSE @]
        /\ orphaned' = IF m \in {"enter", "leave"} THEN orphaned \ {n} ELSE orphaned
  /\ pending' = Tail(pending)
  /\ UNCHANGED <<hubVars, active, running, captureVars, online, held, inside, stranger>>

\* Hub::send to a screen that left the registry: client_disconnected at once.
SendFails ==
  /\ running /\ pending # <<>> /\ Head(pending) \in ToClient
  /\ RouterMisses(Head(pending).to)
  /\ TakeBack(Head(pending).to, Tail(pending))
  /\ UNCHANGED <<running, captureVars, clientVars, stranger>>

\* run_shared returns: `capture_events.recv()` returns None once the thread is gone and
\* its events are read.
RouterReturns ==
  /\ RouterIdle
  /\ ~ capturing /\ inputs = <<>>
  /\ running' = FALSE
  /\ UNCHANGED <<hubVars, active, pending, captureVars, clientVars, historyVars>>

\* The server stops and aborts the task: the capture handle is dropped.
AbortRouter ==
  /\ RouterIdle
  /\ CaptureMayStop
  /\ running' = FALSE
  /\ UNCHANGED <<hubVars, active, pending, captureVars, clientVars, historyVars>>

RouterStep ==
  \/ HandleInput \/ HandleHubEvent
  \/ CarryOutCommand \/ CarryOutSend \/ SendFails
  \/ RouterReturns

----------------------------------------------------------------------------
(* The capture thread.                                                     *)

\* Capture::on_cmd.  Taking a grab twice or giving it back twice does nothing more.
CaptureObeys ==
  /\ capturing /\ cmds # <<>>
  /\ cmds' = Tail(cmds)
  /\ IF Head(cmds) = "ungrab" \/ grabbed
     THEN grabbed' = (Head(cmds) = "grab") /\ UNCHANGED inputs
     ELSE \/ grabbed' = TRUE /\ UNCHANGED inputs
          \/ GrabMayFail /\ grabbed' = FALSE /\ inputs' = Append(inputs, "grabFailed")
  /\ UNCHANGED <<hubVars, routerVars, capturing, clientVars, historyVars>>

\* What the user does is reported; motion, keys and buttons only while grabbed, the
\* pointer's position only while not, the hotkey always.
UserInput(e) ==
  /\ capturing /\ running
  /\ Len(inputs) < MaxInputs
  /\ e \in (IF grabbed THEN {"motion", "press", "release"} ELSE {"pointer"}) \cup {"hotkey"}
  /\ inputs' = Append(inputs, e)
  /\ UNCHANGED <<hubVars, routerVars, cmds, grabbed, capturing, clientVars, historyVars>>

\* Mutant of CaptureEnds: the grab outlives the thread.
CaptureEndsGrabbed ==
  /\ capturing
  /\ ~ running \/ CaptureMayStop
  /\ capturing' = FALSE
  /\ cmds' = <<>>
  /\ UNCHANGED <<hubVars, routerVars, inputs, grabbed, clientVars, historyVars>>

\* The thread ends: the router dropped its handle, or an error of the display
\* connection.  Either way the devices go back.
CaptureEnds ==
  /\ capturing
  /\ ~ running \/ CaptureMayStop
  /\ capturing' = FALSE
  /\ grabbed' = FALSE
  /\ cmds' = <<>>
  /\ UNCHANGED <<hubVars, routerVars, inputs, clientVars, historyVars>>

----------------------------------------------------------------------------
(* The client's session_loop and its sink.                                 *)

Receive(s) ==
  /\ online[s] /\ queue[s] # <<>>
  /\ LET m == Head(queue[s])
     IN /\ held' = [held EXCEPT ![s] = CASE m = "press" -> TRUE
                                         [] m \in {"release", "leave"} -> FALSE
                                         [] OTHER -> @]
        /\ inside' = [inside EXCEPT ![s] = CASE m = "enter" -> TRUE
                                             [] m = "leave" -> FALSE
                                             [] OTHER -> @]
  /\ queue' = [queue EXCEPT ![s] = Tail(@)]
  /\ UNCHANGED <<hubVars, routerVars, captureVars, online, historyVars>>

\* The connection is over for the client, for whatever reason: connect_with_status lets
\* go of everything (`sink.leave()`).
Drop(s) ==
  /\ s \in Fickle /\ online[s]
  /\ online' = [online EXCEPT ![s] = FALSE]
  /\ held' = [held EXCEPT ![s] = FALSE]
  /\ inside' = [inside EXCEPT ![s] = FALSE]
  /\ queue' = [queue EXCEPT ![s] = <<>>]
  /\ stranger' = stranger \ {s}
  /\ UNCHANGED <<hubVars, routerVars, captureVars, orphaned>>

----------------------------------------------------------------------------
(* The server's session task (HubRegistry) with its connection.            *)

\* The router still drives the name: it is active, or actions for it wait.
Driven(n) == active = n \/ \E i \in 1..Len(pending) : pending[i] \in [to : {n}, msg : Msg]

\* handle_client registers a client that has no other connection open.
Connect(s, m) ==
  /\ Register(s, m)
  /\ \A t \in Sessions : NameOf[t] = NameOf[s] => ~ online[t]
  /\ online' = [online EXCEPT ![s] = TRUE]
  /\ stranger' = IF Driven(NameOf[s]) THEN stranger \cup {s} ELSE stranger
  /\ UNCHANGED <<routerVars, captureVars, queue, held, inside, orphaned>>

\* The session ends (an error, no answer to the keep-alives, a Close): of what was
\* queued, some first part has reached the socket and the rest is lost.
EndSession(s) ==
  /\ s \in Fickle
  /\ Unregister(s)
  /\ \E k \in 0..Len(queue[s]) : queue' = [queue EXCEPT ![s] = SubSeq(@, 1, k)]
  /\ UNCHANGED <<routerVars, captureVars, online, held, inside, historyVars>>

SessionTalk(s) == CheckDisabled(s) \/ Announce(s) \/ SayGone(s)

HubSide ==
  /\ \/ \E s \in Sessions : SessionTalk(s) \/ \E m \in Arrangements : ChangeMonitors(s, m)
     \/ \E n \in Names : ToggleStep(n)
  /\ UNCHANGED <<routerVars, captureVars, clientVars, historyVars>>

----------------------------------------------------------------------------

Next ==
  \/ RouterStep
  \/ AbortRouter
  \/ CaptureObeys
  \/ CaptureEnds
  \/ \E e \in CaptureEvent : UserInput(e)
  \/ \E s \in Sessions : Receive(s) \/ Drop(s) \/ EndSession(s)
  \/ \E s \in Sessions, m \in Arrangements : Connect(s, m)
  \/ HubSide

Spec == RoutingInit /\ [][Next]_vars

\* Tasks and threads that have something to do are scheduled; the router's select!
\* picks at random among the streams that are ready, so neither waits for ever.
\* A client whose session has ended finds the connection closed or silent.
Fairness ==
  /\ WF_vars(RouterStep) /\ SF_vars(HandleInput) /\ SF_vars(HandleHubEvent)
  /\ WF_vars(CaptureObeys)
  /\ WF_vars(~ running /\ CaptureEnds)
  /\ \A s \in Sessions :
       /\ WF_vars(Receive(s))
       /\ WF_vars(s \notin Registered /\ queue[s] = <<>> /\ Drop(s))
       /\ WF_vars(SessionTalk(s) /\ UNCHANGED <<routerVars, captureVars, clientVars, historyVars>>)
  /\ \A n \in Names, off \in BOOLEAN :
       WF_vars(TellToggle(n, off) /\ UNCHANGED <<routerVars, captureVars, clientVars, historyVars>>)

FairSpec == Spec /\ Fairness

----------------------------------------------------------------------------
(* Properties.                                                             *)

\* Every variable keeps its type.
TypeOK ==
  /\ HubTypeOK
  /\ active \in Names \cup {Local}
  /\ pending \in Seq(ToCapture \cup ToClient)
  /\ running \in BOOLEAN
  /\ inputs \in Seq(CaptureEvent)
  /\ cmds \in Seq(CaptureCmd)
  /\ grabbed \in BOOLEAN
  /\ capturing \in BOOLEAN
  /\ queue \in [Sessions -> Seq(Msg)]
  /\ online \in [Sessions -> BOOLEAN]
  /\ held \in [Sessions -> BOOLEAN]
  /\ inside \in [Sessions -> BOOLEAN]
  /\ orphaned \in SUBSET Names
  /\ stranger \in SUBSET Sessions

\* The cursor is only ever on a screen the router knows: whatever makes it forget one
\* takes the input back in the same step (Core::client_disconnected), and no handler
\* moves the cursor to a screen it does not know.
ActiveIsKnown == active # Local => active \in Known

\* A cursor on a screen that left the registry is not stranded there: its goodbye is
\* still to be sent or waits for the router.
CursorNotStranded ==
  active # Local /\ entry[active] = None =>
    \/ \E s \in Sessions : NameOf[s] = active /\ task[s] = "leaving"
    \/ \E i \in 1..Len(hubEvents) : hubEvents[i] = Disconnected(active)

\* What the capture thread will have been told last once the router's actions are
\* carried out, or where it stands when nothing more is on its way.
NoCommandAfter(i) == \A j \in 1..Len(pending) : j > i => pending[j] \notin ToCapture
LastOrder(c) ==
  \/ \E i \in 1..Len(pending) : pending[i] = [cmd |-> c] /\ NoCommandAfter(i)
  \/ /\ NoCommandAfter(0)
     /\ IF cmds = <<>> THEN grabbed = (c = "grab") ELSE cmds[Len(cmds)] = c

\* While a client has the input, this machine's devices are grabbed, or will be by the
\* last command on its way, or the news that they could not be waits for the router:
\* the user never types into both machines for good.
RemoteIsCaptured ==
  running /\ capturing /\ active # Local =>
    LastOrder("grab") \/ \E i \in 1..Len(inputs) : inputs[i] = "grabFailed"

\* platform lib.rs on GrabFailed: "The backend is *not* grabbed."  While the server has
\* the input its devices are released, or the last command on its way releases them.
LocalIsReleased == running /\ capturing /\ active = Local => LastOrder("ungrab")

LeaveOnItsWay(s) ==
  \/ \E i \in 1..Len(queue[s]) : queue[s][i] = "leave"
  \/ \E i \in 1..Len(pending) : pending[i] = Send(NameOf[s], "leave")

\* A client of a live session holds something down only while the cursor is on it or the
\* Leave that releases it is on its way; the one exception is a screen the router took
\* the input back from because it heard that the screen went away.
HeldUntilLeave ==
  running => \A s \in Registered :
    held[s] => NameOf[s] \in orphaned \cup {active} \/ LeaveOnItsWay(s)

\* PROTOCOL.md on Leave: "The cursor left. The client releases all held keys/buttons".
\* Once nothing is in flight, does only the client the cursor is on hold anything?
ReleasedWhenLeft ==
  /\ RouterIdle /\ inputs = <<>> /\ \A n \in Names : SettledFor(n)
  => \A s \in Registered : held[s] /\ queue[s] = <<>> => NameOf[s] = active

\* After the first k messages of its queue, the last a client saw of Enter and Leave is
\* an Enter.
InsideAfter(s, k) ==
  \/ inside[s] /\ \A j \in 1..k : queue[s][j] # "leave"
  \/ \E i \in 1..k : queue[s][i] = "enter" /\ \A j \in i..k : queue[s][j] # "leave"

\* Input reaches a client between an Enter and a Leave only, in the order the router
\* sent them; the exception is a session that began under a name the router was driving.
InputOnlyInside ==
  \A s \in Sessions \ stranger : \A i \in 1..Len(queue[s]) :
    queue[s][i] \in {"press", "release"} => InsideAfter(s, i - 1)

\* A step that takes the input from one client tells that client or lets the capture
\* go: it never goes from a client to nowhere unannounced (enter, go_local, on_motion).
HandOver ==
  [][active # active' /\ active # Local =>
       \/ \E i \in 1..Len(pending') : pending'[i] = Send(active, "leave")
       \/ active \notin Known' /\ \E i \in 1..Len(pending') : pending'[i] = Ungrab]_vars

\* A cursor on a screen that went away comes home, unless the screen is back.
StrandedComesHome ==
  \A n \in Names :
    (running /\ active = n /\ entry[n] = None) ~> (~ running \/ active # n \/ entry[n] # None)

\* Once the router is gone the devices are given back.
DevicesGivenBack == ~ running ~> ~ grabbed

\* A client the cursor left lets go of what it holds.
LeaveIsCarriedOut ==
  \A s \in Sessions :
    (running /\ held[s] /\ LeaveOnItsWay(s)) ~> (~ running \/ ~ held[s])

\* Input captured for nobody is released again.
CaptureFollows ==
  (running /\ capturing /\ active = Local /\ grabbed) ~> (~ running \/ ~ capturing \/ active # Local \/ ~ grabbed)

Focus == INSTANCE InputFocus WITH owner <- active, reachable <- Known

\* Through all the queues the router keeps the promise of InputFocus: the input only
\* goes to a screen that is reachable, and comes home with the screen it was on.
ImplementsFocus == Focus!Spec
=============================================================================
