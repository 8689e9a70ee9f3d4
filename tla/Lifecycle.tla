----------------------------- MODULE Lifecycle -----------------------------
(***************************************************************************)
(* Who runs, and who can stop it: the daemons of one user, the control     *)
(* channel they listen on, the session each owns, and the controllers (the *)
(* desktop app, the CLI) attached to them (geserdesk-app session.rs,       *)
(* daemon.rs, control/, trust.rs; desktop state.rs, link.rs, tray.rs; cli  *)
(* control.rs).                                                            *)
(*                                                                         *)
(* Every connection has its own task in the daemon, which runs one command *)
(* at a time; Start and Stop are not atomic, so two connections' commands  *)
(* overlap.  A session is a client or a server task; what it does for its  *)
(* peers is in SessionLink and InputRouting.  A server needs the           *)
(* machine's one port.                                                     *)
(*                                                                         *)
(* All daemons leave with their session (every caller outside the tests    *)
(* sets exit_on_stop); the app's daemons also have an idle timeout.  A     *)
(* session slot is used once: Sessions bounds the starts.                  *)
(***************************************************************************)
EXTENDS Integers, FiniteSets

CONSTANTS
  Daemons,      \* daemon processes that may be launched
  Spare,        \* the ones an app launches, which start nothing of their own accord
  Controllers,
  Apps,         \* the controllers that keep a link: the others are CLI commands
  Spawners,     \* the controllers that run a daemon of their own where none answers
  Foreign,      \* the controllers that speak another version of the protocol
  Sessions,     \* bound: sessions that may be started
  None,
  Casts,        \* bound: the daemons, controllers and sessions that meet in one behaviour
  MaxCrashes    \* bound: daemons killed outright

ASSUME LifecycleAssumption ==
  /\ Spare \subseteq Daemons /\ Apps \cup Spawners \cup Foreign \subseteq Controllers
  /\ IsFiniteSet(Sessions) /\ IsFiniteSet(Controllers) /\ IsFiniteSet(Daemons)
  /\ Controllers \cap Daemons = {}
  /\ None \notin Daemons \cup Sessions
  /\ Casts \subseteq [daemons : SUBSET Daemons, controllers : SUBSET Controllers,
                      sessions : SUBSET Sessions]
  /\ MaxCrashes \in Nat

VARIABLES
  proc,     \* per daemon: how far its process is
  sock,     \* the daemon that created the socket at the endpoint
  token,    \* the daemon whose token is in the token file
  listener, \* per daemon: Bound, as the serve task keeps it
  closing,  \* per daemon: Service.closing
  sess,     \* per daemon: the fields of Session
  task,     \* per session slot: the task
  op,       \* per controller and per daemon's main loop: the command under way
  view,     \* per app: the status it shows, and how it follows the daemon's
  crashes,
  overlap,  \* history, per daemon: a start was committed during another command or a close
  raced     \* history: a daemon bound over one that had not listened yet when it looked

ctl == <<sock, token, listener>>
hist == <<crashes, overlap, raced>>
vars == <<proc, ctl, closing, sess, task, op, view, hist>>

Kinds == {"client", "server"}
Actors == Controllers \cup Daemons
Unused == [at |-> "free", of |-> None, kind |-> "client", desk |-> "none"]
Spent == [Unused EXCEPT !.at = "done"]
Ended(t) == [t EXCEPT !.at = "done", !.desk = IF @ = "sent" THEN @ ELSE "none"]
NoSession == [running |-> None, desk |-> None, status |-> "stopped"]
Out == [at |-> "out", on |-> None, kind |-> "none", took |-> None, made |-> FALSE]
NoView == [shows |-> "stopped", sub |-> "no", news |-> "none"]

Of(d) == {s \in Sessions : task[s].of = d}
Live(d) == {s \in Of(d) : task[s].at \in {"starting", "live", "stopping"}}
Listens(d) == d # None /\ listener[d] \in {"open", "dropping"}
FreeSlots == Cardinality({s \in Sessions : task[s].at = "free"})
               - Cardinality({x \in Actors : op[x].at = "start"})

(* A front end that follows the status of d hears of every change of it. *)
Notified(d) ==
  [c \in Controllers |-> IF op[c].on = d /\ view[c].sub # "no"
                           THEN [view[c] EXCEPT !.news = "waiting"] ELSE view[c]]

Init ==
  /\ \E cast \in Casts :
       /\ proc = [d \in Daemons |-> IF d \in cast.daemons THEN "none" ELSE "gone"]
       /\ task = [s \in Sessions |-> IF s \in cast.sessions THEN Unused ELSE Spent]
       /\ op = [x \in Actors |-> [Out EXCEPT !.at =
                  IF x \in Controllers \ cast.controllers THEN "away" ELSE "out"]]
  /\ sock = None /\ token = None
  /\ listener = [d \in Daemons |-> "none"]
  /\ closing = [d \in Daemons |-> FALSE]
  /\ sess = [d \in Daemons |-> NoSession]
  /\ view = [c \in Controllers |-> NoView]
  /\ crashes = 0 /\ overlap = [d \in Daemons |-> FALSE] /\ raced = FALSE

-----------------------------------------------------------------------------
(* Endpoint::bind: look whether someone answers, take the socket, write the token. *)

NextOf(ds) == CHOOSE d \in ds : proc[d] = "none"

(* The directory may be no good; and nothing is done where another daemon answers. *)
BindLook(d) ==
  /\ proc[d] = "launched" \/ (proc[d] = "none" /\ d \notin Spare /\ d = NextOf(Daemons \ Spare))
  /\ \E next \in {"looked", "gone"} :
       /\ next = "looked" => ~Listens(sock)
       /\ proc' = [proc EXCEPT ![d] = next]
  /\ UNCHANGED <<ctl, closing, sess, task, op, view, hist>>

BindTake(d) ==
  /\ proc[d] = "looked"
  /\ proc' = [proc EXCEPT ![d] = "bound"]
  /\ raced' = (raced \/ Listens(sock))
  /\ sock' = d
  /\ listener' = [listener EXCEPT ![d] = "open"]
  /\ UNCHANGED <<token, closing, sess, task, op, view, crashes, overlap>>

FreeSlot == CHOOSE s \in Sessions : task[s].at = "free"

(* The status is set first, then the task runs, and then it is the one running. *)
ClientTask(d) == [Unused EXCEPT !.at = "live", !.of = d]
ServerTask(d) == [Unused EXCEPT !.at = "starting", !.of = d, !.kind = "server"]
Launched(s, d, kind) ==
  /\ task' = [task EXCEPT ![s] = IF kind = "server" THEN ServerTask(d) ELSE ClientTask(d)]
  /\ sess' = [sess EXCEPT ![d].running = s, ![d].status = "up"]

(* The token is written and the main loop begins; the CLI's daemons start a session first. *)
BindToken(d) ==
  /\ proc[d] = "bound"
  /\ proc' = [proc EXCEPT ![d] = "up"]
  /\ token' = d
  /\ op' = [op EXCEPT ![d] = [Out EXCEPT !.at = "in", !.on = d]]
  /\ \/ UNCHANGED <<sess, task>>
     \/ d \notin Spare /\ FreeSlots > 0 /\ \E kind \in Kinds : Launched(FreeSlot, d, kind)
  /\ UNCHANGED <<sock, listener, closing, view, hist>>

(* The token cannot be written, or the CLI's session is refused: run returns, and with it *)
(* Bound is dropped and the program over.                                                 *)
BindFails(d) ==
  /\ proc[d] = "bound"
  /\ proc' = [proc EXCEPT ![d] = "up"]
  /\ token' = None
  /\ listener' = [listener EXCEPT ![d] = "dropping"]
  /\ closing' = [closing EXCEPT ![d] = TRUE]
  /\ UNCHANGED <<sock, sess, task, op, view, hist>>

-----------------------------------------------------------------------------
(* Controllers. *)

(* greet: who listens, and knows the token that is in the file. *)
Answers(d) == sock = d /\ token = d /\ listener[d] = "open" /\ proc[d] = "up"

(* AppState::daemon: none answers, so the app runs one and tries again until it does. *)
Spawn(c) ==
  /\ c \in Spawners /\ op[c].at = "out"
  /\ \A d \in Daemons : ~Answers(d)
  /\ \E d \in Spare : proc[d] = "none"
  /\ proc' = [proc EXCEPT ![NextOf(Spare)] = "launched"]
  /\ op' = [op EXCEPT ![c] = [Out EXCEPT !.at = "waits", !.made = TRUE]]
  /\ UNCHANGED <<ctl, closing, sess, task, view, hist>>

(* Remote::connect and the daemon's greet: the token read must be that of the daemon that *)
(* answers.  A failed attempt changes nothing.                                            *)
Connect(c, d) ==
  /\ op[c].at \in {"out", "waits"} /\ Answers(d)
  /\ op' = [op EXCEPT ![c].at = "in", ![c].on = d]
  /\ UNCHANGED <<proc, ctl, closing, sess, task, view, hist>>

(* attached: the changes are subscribed to first, then the status of now is asked for. *)
Subscribe(c) ==
  /\ c \in Apps \ Foreign /\ op[c].at = "in" /\ view[c].sub = "no"
  /\ view' = [view EXCEPT ![c].sub = "asking"]
  /\ UNCHANGED <<proc, ctl, closing, sess, task, op, hist>>

(* Mutant of ShowNow: the events are waited for, the status is not asked for. *)
ShowNowUnasked(c) ==
  /\ view[c].sub = "asking"
  /\ view' = [view EXCEPT ![c].sub = "yes"]
  /\ UNCHANGED <<proc, ctl, closing, sess, task, op, hist>>

ShowNow(c) ==
  /\ view[c].sub = "asking"
  /\ view' = [view EXCEPT ![c].sub = "yes", ![c].shows = sess[op[c].on].status]
  /\ UNCHANGED <<proc, ctl, closing, sess, task, op, hist>>

Mirror(c) ==
  /\ view[c].sub = "yes" /\ view[c].news = "waiting"
  /\ view' = [view EXCEPT ![c].news = "none", ![c].shows = sess[op[c].on].status]
  /\ UNCHANGED <<proc, ctl, closing, sess, task, op, hist>>

(* The events fell behind: the ones skipped are not asked for again. *)
Lag(c) ==
  /\ view[c].sub = "yes" /\ view[c].news = "waiting"
  /\ view' = [view EXCEPT ![c].news = "lost"]
  /\ UNCHANGED <<proc, ctl, closing, sess, task, op, hist>>

(* The daemon says goodbye or did not come up in time, or the controller leaves; the app *)
(* then shows no daemon.                                                                 *)
Detach(c) ==
  /\ op[c].at \in {"in", "waits", "spare"}
  /\ op' = [op EXCEPT ![c] = Out]
  /\ view' = [view EXCEPT ![c] = NoView]
  /\ UNCHANGED <<proc, ctl, closing, sess, task, hist>>

-----------------------------------------------------------------------------
(* Session::start and stop, as the connections' tasks and the main loop call them. *)

(* is_running: a task that ended no longer counts. *)
Finished(d) == sess[d].running # None /\ task[sess[d].running].at = "done"
Looked(d) ==
  IF Finished(d) THEN [sess[d] EXCEPT !.running = None, !.desk = None] ELSE sess[d]
IsRunning(d) == Looked(d).running # None

IsActive(c) == view[c].shows = "up"

(* The app's toggle asks for a start only when what it shows is not an active session. *)
MayAsk(c) ==
  /\ c \in Controllers \ Foreign /\ op[c].at = "in"
  /\ c \in Apps => ~IsActive(c)
  /\ FreeSlots > 0

(* AppState::start: a daemon made for a start that was refused is ended again. *)
Refused(c) == IF op[c].made THEN [op EXCEPT ![c].at = "spare"] ELSE op

StartCheck(c, kind) ==
  LET d == op[c].on IN
  /\ MayAsk(c)
  /\ sess' = [sess EXCEPT ![d] = Looked(d)]
  /\ op' = IF IsRunning(d) THEN Refused(c)
           ELSE [op EXCEPT ![c].at = "start", ![c].kind = kind]
  /\ UNCHANGED <<proc, ctl, closing, task, view, hist>>

(* The settings name no server or no screen, or the identity cannot be read. *)
ClientUnconfigured(c) ==
  LET d == op[c].on IN
  /\ MayAsk(c) /\ ~IsRunning(d)
  /\ sess' = [sess EXCEPT ![d] = Looked(d)]
  /\ op' = Refused(c)
  /\ UNCHANGED <<proc, ctl, closing, task, view, hist>>

(* The server's configuration is read before anything else is looked at. *)
ServerUnconfigured(c) ==
  /\ MayAsk(c)
  /\ op' = Refused(c)
  /\ UNCHANGED <<proc, ctl, closing, sess, task, view, hist>>

(* What was running, if anything is by now, is overwritten and so detached. *)
StartCommit(c) ==
  LET d == op[c].on IN
  /\ op[c].at = "start"
  /\ Launched(FreeSlot, d, op[c].kind)
  /\ op' = [op EXCEPT ![c].at = "in", ![c].kind = "none", ![c].made = FALSE]
  /\ view' = Notified(d)
  /\ overlap' = [overlap EXCEPT ![d] =
       @ \/ closing[d] \/ sess[d].running # None
         \/ \E x \in Actors \ {c} : op[x].on = d /\ op[x].at \in {"start", "stop"}]
  /\ UNCHANGED <<proc, ctl, closing, crashes, raced>>

(* Mutant of StopTake: the session that is taken out is not told to end. *)
StopTakeUnheard(x) ==
  LET d == op[x].on IN
  /\ op[x].at \in {"in", "spare"}
  /\ op' = [op EXCEPT ![x].at = "stop", ![x].took = sess[d].running]
  /\ sess' = [sess EXCEPT ![d].running = None, ![d].desk = None]
  /\ UNCHANGED <<proc, ctl, closing, task, view, hist>>

(* stop: the session is taken out first; a client is aborted, a server told and waited for. *)
StopTake(x) ==
  LET d == op[x].on
      s == sess[d].running
  IN
  /\ op[x].at \in {"in", "spare"}
  /\ op' = [op EXCEPT ![x].at = "stop", ![x].took = s]
  /\ IF s # None /\ task[s].at # "done"
       THEN task' = [task EXCEPT ![s].at = IF task[s].kind = "client" THEN "aborting"
                                           ELSE "stopping"]
       ELSE UNCHANGED task
  /\ IF s # None /\ task[s].kind = "client"
       THEN /\ sess' = [sess EXCEPT ![d].running = None, ![d].desk = None,
                                    ![d].status = "stopped"]
            /\ view' = Notified(d)
       ELSE /\ sess' = [sess EXCEPT ![d].running = None, ![d].desk = None]
            /\ UNCHANGED view
  /\ UNCHANGED <<proc, ctl, closing, hist>>

Stop(c) == c \in Controllers \ Foreign /\ op[c].at = "in" /\ StopTake(c)
Shutdown(c) == c \in Controllers /\ StopTake(c)
(* One that comes between two iterations of the main loop is lost: no step. *)
Terminate(d) == proc[d] = "up" /\ StopTake(d)

(* Mutant of StopDone: the daemon is not asked to end. *)
StopDoneStaying(x) ==
  LET d == op[x].on IN
  /\ op[x].at = "stop"
  /\ op' = [op EXCEPT ![x].at = "in", ![x].took = None]
  /\ sess' = [sess EXCEPT ![d].status = "stopped"]
  /\ view' = Notified(d)
  /\ task' = IF op[x].took = None THEN task ELSE [task EXCEPT ![op[x].took].at = "done"]
  /\ UNCHANGED <<proc, ctl, closing, hist>>

(* A server that does not end in time is aborted; the daemon is then asked to end. *)
StopDone(x) ==
  LET d == op[x].on
      s == op[x].took
      server == s # None /\ task[s].kind = "server"
  IN
  /\ op[x].at = "stop"
  /\ task' = IF server THEN [task EXCEPT ![s] = Ended(@)] ELSE task
  /\ IF server /\ sess[d].status # "failed"
       THEN sess' = [sess EXCEPT ![d].status = "stopped"] /\ view' = Notified(d)
       ELSE UNCHANGED <<sess, view>>
  /\ closing' = [closing EXCEPT ![d] = TRUE]
  /\ op' = [op EXCEPT ![x] = IF x = d THEN Out ELSE [@ EXCEPT !.at = "in", !.took = None, !.made = FALSE]]
  /\ UNCHANGED <<proc, ctl, hist>>

-----------------------------------------------------------------------------
(* The session's task. *)

(* serve_with_hub: the port is taken, and the desk sent to whoever waits for it. *)
ServerReady(s) ==
  LET d == task[s].of
      busy == \E t \in Sessions : task[t].at \in {"live", "stopping"} /\ task[t].desk # "none"
  IN
  /\ task[s].kind = "server" /\ task[s].desk = "none" /\ task[s].at \in {"starting", "stopping"}
  /\ IF busy
       THEN /\ task' = [task EXCEPT ![s] = Ended(@)]
            /\ sess' = [sess EXCEPT ![d].status = "failed"]
            /\ view' = Notified(d)
       ELSE /\ task' = [task EXCEPT ![s].at = IF @ = "starting" THEN "live" ELSE @,
                                    ![s].desk = "sent"]
            /\ UNCHANGED <<sess, view>>
  /\ UNCHANGED <<proc, ctl, closing, op, hist>>

(* The task that waits for the desk may come to run only after the server has ended. *)
DeskSet(s) ==
  /\ task[s].desk = "sent"
  /\ task' = [task EXCEPT ![s].desk = IF task[s].at = "done" THEN "none" ELSE "set"]
  /\ sess' = [sess EXCEPT ![task[s].of].desk = s]
  /\ UNCHANGED <<proc, ctl, closing, op, view, hist>>

(* The task ends by itself: an error, or (a client that does not reconnect) a clean end. *)
TaskEnds(s, clean) ==
  LET d == task[s].of IN
  /\ task[s].at = "live"
  /\ task[s].kind = "server" => ~clean /\ task[s].desk = "set"
  /\ task' = [task EXCEPT ![s] = Ended(@)]
  /\ sess' = [sess EXCEPT ![d].status = IF clean THEN "stopped" ELSE "failed"]
  /\ view' = Notified(d)
  /\ UNCHANGED <<proc, ctl, closing, op, hist>>

(* An aborted client ends at its next await; it may report a status before. *)
Aborted(s, late) ==
  LET d == task[s].of IN
  /\ task[s].at = "aborting"
  /\ task' = [task EXCEPT ![s] = Ended(@)]
  /\ IF late
       THEN sess' = [sess EXCEPT ![d].status = "up"] /\ view' = Notified(d)
       ELSE UNCHANGED <<sess, view>>
  /\ UNCHANGED <<proc, ctl, closing, op, hist>>

-----------------------------------------------------------------------------
(* daemon::run: the main loop and the way out. *)

(* A tick finds that nothing runs: the session is over and LINGER has passed, or none was *)
(* ever started and the idle timeout has.                                                 *)
Tick(d) ==
  /\ proc[d] = "up" /\ op[d].at = "in"
  /\ sess' = [sess EXCEPT ![d] = Looked(d)]
  /\ ~IsRunning(d)
  /\ closing' = [closing EXCEPT ![d] = TRUE]
  /\ op' = [op EXCEPT ![d] = Out]
  /\ UNCHANGED <<proc, ctl, task, view, hist>>

SeeClosing(d) ==
  /\ op[d].at = "in" /\ closing[d]
  /\ op' = [op EXCEPT ![d] = Out]
  /\ UNCHANGED <<proc, ctl, closing, sess, task, view, hist>>

(* Mutant of DropToken: the listener is closed before the token file is removed. *)
DropTokenLate(d) ==
  /\ \/ closing[d] /\ listener[d] = "open" /\ UNCHANGED token
        /\ listener' = [listener EXCEPT ![d] = "closed"]
     \/ proc[d] = "up" /\ listener[d] = "closed" /\ token' = None /\ UNCHANGED listener
  /\ UNCHANGED <<proc, sock, closing, sess, task, op, view, hist>>

(* The serve task ends: dropping Bound removes the token file, then closes the listener. *)
DropToken(d) ==
  /\ closing[d] /\ listener[d] = "open"
  /\ listener' = [listener EXCEPT ![d] = "dropping"]
  /\ token' = None
  /\ UNCHANGED <<proc, sock, closing, sess, task, op, view, hist>>

(* The library's listener removes its path as it is dropped, whosever socket is there.      *)
DropListener(d) ==
  /\ listener[d] = "dropping"
  /\ listener' = [listener EXCEPT ![d] = "closed"]
  /\ sock' = None
  /\ UNCHANGED <<proc, token, closing, sess, task, op, view, hist>>

(* A dead process: its tasks and connections are gone with it. *)
Gone(d) ==
  /\ proc' = [proc EXCEPT ![d] = "gone"]
  /\ task' = [s \in Sessions |-> IF task[s].of = d THEN Spent ELSE task[s]]
  /\ op' = [x \in Actors |-> IF op[x].on = d THEN Out ELSE op[x]]
  /\ view' = [c \in Controllers |-> IF op[c].on = d THEN NoView ELSE view[c]]
  /\ sess' = [sess EXCEPT ![d] = NoSession]
  /\ closing' = [closing EXCEPT ![d] = FALSE]
  /\ overlap' = [overlap EXCEPT ![d] = FALSE]

Exit(d) ==
  /\ proc[d] = "up" /\ listener[d] = "closed" /\ op[d].at = "out"
  /\ Gone(d)
  /\ UNCHANGED <<ctl, crashes, raced>>

Crash(d) ==
  /\ proc[d] = "up" /\ crashes < MaxCrashes
  /\ crashes' = crashes + 1
  /\ listener' = [listener EXCEPT ![d] = "closed"]
  /\ Gone(d)
  /\ UNCHANGED <<sock, token, raced>>

-----------------------------------------------------------------------------
DaemonStep(d) ==
  \/ BindTake(d) \/ BindToken(d) \/ BindFails(d) \/ Tick(d) \/ SeeClosing(d)
  \/ DropToken(d) \/ DropListener(d) \/ Exit(d) \/ StopDone(d)

TaskStep(s) == ServerReady(s) \/ DeskSet(s) \/ Aborted(s, FALSE)

HandlerStep(c) == StartCommit(c) \/ StopDone(c) \/ Subscribe(c) \/ ShowNow(c) \/ Mirror(c)

Next ==
  \/ \E d \in Daemons : DaemonStep(d) \/ BindLook(d) \/ Terminate(d) \/ Crash(d)
  \/ \E s \in Sessions : TaskStep(s) \/ Aborted(s, TRUE)
                         \/ \E clean \in BOOLEAN : TaskEnds(s, clean)
  \/ \E c \in Controllers :
       \/ HandlerStep(c) \/ Stop(c) \/ Shutdown(c) \/ Detach(c) \/ Lag(c)
       \/ Spawn(c) \/ ClientUnconfigured(c) \/ ServerUnconfigured(c)
       \/ \E d \in Daemons : Connect(c, d)
       \/ \E kind \in Kinds : StartCheck(c, kind)

Spec == Init /\ [][Next]_vars

(* The daemon's runtime polls every task that is ready, and its timers fire.  Nothing is  *)
(* assumed of the person, of the peers or of signals.                                     *)
FairSpec ==
  /\ Spec
  /\ \A d \in Daemons : WF_vars(DaemonStep(d))
  /\ \A s \in Sessions : WF_vars(TaskStep(s))
  /\ \A c \in Controllers : WF_vars(HandlerStep(c))

-----------------------------------------------------------------------------
(* What each variable can hold (the structs of session.rs, service.rs and link.rs). *)
TypeOK ==
  /\ proc \in [Daemons -> {"none", "launched", "looked", "bound", "up", "gone"}]
  /\ sock \in Daemons \cup {None} /\ token \in Daemons \cup {None}
  /\ listener \in [Daemons -> {"none", "open", "dropping", "closed"}]
  /\ closing \in [Daemons -> BOOLEAN]
  /\ sess \in [Daemons -> [running : Sessions \cup {None}, desk : Sessions \cup {None},
                           status : {"stopped", "up", "failed"}]]
  /\ task \in [Sessions -> [at : {"free", "starting", "live", "aborting", "stopping", "done"},
                            of : Daemons \cup {None}, kind : Kinds, desk : {"none", "sent", "set"}]]
  /\ op \in [Actors -> [at : {"away", "out", "waits", "in", "start", "spare", "stop"},
                        on : Daemons \cup {None}, kind : Kinds \cup {"none"},
                        took : Sessions \cup {None}, made : BOOLEAN]]
  /\ view \in [Controllers -> [shows : {"stopped", "up", "failed"}, sub : {"no", "asking", "yes"},
                               news : {"none", "waiting", "lost"}]]
  /\ crashes \in 0..MaxCrashes /\ overlap \in [Daemons -> BOOLEAN] /\ raced \in BOOLEAN

(* A daemon that listens is the one controllers find, with the token in the file: one that *)
(* leaves takes neither away from its successor.  Only two daemons that looked before      *)
(* either listened hide one another (Endpoint::bind, Drop for Bound).                      *)
Reachable ==
  \A d \in Daemons :
    proc[d] = "up" /\ listener[d] = "open" => raced \/ (sock = d /\ token = d)

(* Every client or server that lives can be stopped: it is the one Session runs, or a stop *)
(* waits for it, and none is left when the daemon leaves.  The exception is a start that   *)
(* was committed while another command or a close was under way (Session::start, stop).    *)
SessionAccounted ==
  \A d \in Daemons : \A s \in Live(d) :
    \/ overlap[d]
    \/ sess[d].running = s /\ ~closing[d]
    \/ \E x \in Actors : op[x].on = d /\ op[x].at = "stop" /\ op[x].took = s

(* Approvals and layouts go to the desk of the server that runs, or of one being stopped   *)
(* (Session::desk).                                                                        *)
DeskOfRunning ==
  \A d \in Daemons :
    \/ sess[d].desk \in {None, sess[d].running}
    \/ closing[d] \/ overlap[d]
    \/ \E x \in Actors : op[x].on = d /\ op[x].at = "stop"

(* "Runs at most one client or server" (session.rs), whatever the controllers do. *)
AtMostOneSession == \A d \in Daemons : Cardinality(Live(d)) <= 1

(* "A daemon we just made and gave nothing to do" (AppState::start): nothing runs in the  *)
(* daemon the app ends because its own start was refused.                                 *)
GaveNothingToDo ==
  \A c \in Spawners : op[c].at = "spare" => ~IsRunning(op[c].on)

(* A daemon asked to end, by a controller of any version or a signal, does end: nothing it *)
(* waits for on the way out keeps it (dispatch, daemon::run).                              *)
AskedToEndEnds ==
  \A d \in Daemons :
    (\E x \in Actors : op[x].on = d /\ op[x].at = "stop") ~> (proc[d] = "gone")

(* A daemon whose session is over, or that never got one, leaves unless one is started.    *)
IdleLeaves ==
  \A d \in Daemons : (proc[d] = "up" /\ Live(d) = {}) ~> (proc[d] = "gone" \/ Live(d) # {})

(* What the app shows is the daemon's status, unless a change is on its way to it or the   *)
(* events fell behind (link.rs attached; Subscribe in service.rs).                         *)
ViewCatchesUp ==
  \A c \in Apps : view[c].sub = "yes" =>
    view[c].news # "none" \/ view[c].shows = sess[op[c].on].status
=============================================================================
