------------------------------ MODULE FilePull ------------------------------
(***************************************************************************)
(* Pulling announced files (geserdesk-clipboard pull.rs, files.rs,         *)
(* stage.rs; geserdesk-server files.rs; geserdesk-client files.rs;         *)
(* geserdesk-app received.rs).                                             *)
(*                                                                         *)
(* A pull reads the announced bytes chunk by chunk into a staging folder   *)
(* named after the announcement's number, and then puts the folder's       *)
(* entries on the clipboard.  A client asks the server; FileRouter asks    *)
(* whoever announced last, under a number of its own, and hands the answer *)
(* back.  Pulls run in tasks of their own, beyond the session that started *)
(* them.                                                                   *)
(*                                                                         *)
(* What is copied is a tree (FileTree).  ClipboardRelay models how an      *)
(* announcement travels, so here it is one step.  A chunk is identified by *)
(* the announcement it belongs to (in which run of the server, or epoch)   *)
(* and by the read it answers.                                             *)
(***************************************************************************)
EXTENDS FileTree

CONSTANTS
  Clients, Srv,
  Owners,      \* the machines that copy files
  Pullers,     \* the machines the cursor visits
  Copyable,    \* per owner: what can be picked and copied there, sequences of paths
  MaxSeq,      \* bound: announcements in one run of the server
  MaxPulls,    \* bound: pulls
  MaxCancels,  \* bound: presses of Cancel
  MaxFaults    \* bound: lost connections, server restarts, folders removed by hand

Machines == Clients \cup {Srv}

Collected == [roots \in UNION Range(Copyable) |-> Collect(roots)]
Entries(a) == Collected[a.roots].entries

\* Per announcement and bytes that have come: the next read.
Reading ==
  LET ReadsOf(e) == [done \in 0..(TotalBytes(e) - 1) |-> NextRead(e, done)]
  IN  [roots \in {r \in DOMAIN Collected : Collected[r] # None} |-> ReadsOf(Collected[roots].entries)]

\* Announcements, what a read asks for, the chunks that may come of it, and answers.
Announcements == [seq : 1..MaxSeq, epoch : Nat, roots : DOMAIN Reading]
Asked == UNION {Range(Reading[roots]) : roots \in DOMAIN Reading}
Served(roots, at) == ReadAt(Collected[roots], at.index, at.offset, at.len)
Chunks == [ann : Announcements,
           at : {Served(roots, at) : roots \in DOMAIN Reading, at \in Asked}]
Answers == [ok : {TRUE}, data : Chunks] \cup [ok : {FALSE}, data : {None}]

ASSUME PullAssumption ==
  /\ Srv \notin Clients /\ None \notin Machines
  /\ Owners \cup Pullers \subseteq Machines /\ DOMAIN Copyable = Owners
  /\ {MaxSeq, MaxPulls} \subseteq Nat \ {0} /\ {MaxCancels, MaxFaults} \subseteq Nat
  /\ None \notin Announcements /\ None \notin Answers
  /\ None \notin Nat /\ None \notin Seq(Chunks)

\* A read of a pull asks for no more than its file has and no more than one read may bring,
\* so that the owner of an announced tree serves it as it was asked.
ASSUME ReadsAreServed ==
  \A roots \in DOMAIN Reading : \A at \in Range(Reading[roots]) : Served(roots, at) = at

VARIABLES
  cur,     \* FileRouter: current, the relay's number and (history) the server's run
  own,     \* per machine: FileOwner, the announcement served
  remote,  \* per machine: the announcement worth pulling, and last_pulled_seq
  conn,    \* per client: its session, on both ends
  up,      \* per client: file messages on their way to the server
  down,    \* per client: file messages on their way to it
  route,   \* reads whose owner FileRouter::route has looked up
  local,   \* reads of the server's own files under way
  pending, \* FileRouter: pending, by the router's request number
  nextReq, \* FileRouter: next_req
  pull,    \* the pulls started, in order
  cancel,  \* per machine: CancelSwitch
  disk,    \* per machine: the staging folders and what is in them
  clip,    \* per machine: the folder the clipboard refers to
  owed,    \* (history) clients that left while an answer was owed to them
  removed, \* (history) folders removed by hand
  faults

server == <<cur, route, local, pending, nextReq>>
links == <<conn, up, down>>
stage == <<disk, clip>>
history == <<owed, removed>>
vars == <<server, own, remote, links, pull, cancel, stage, history, faults>>

Init ==
  /\ cur = [who |-> None, seq |-> 0, epoch |-> 0]
  /\ own = [m \in Machines |-> None]
  /\ remote = [m \in Machines |-> [ann |-> None, last |-> None]]
  /\ conn = [c \in Clients |-> [st |-> "on", sess |-> 0, next |-> 1]]
  /\ up = [c \in Clients |-> <<>>] /\ down = [c \in Clients |-> <<>>]
  /\ route = {} /\ local = {}
  /\ pending = {} /\ nextReq = 1
  /\ pull = <<>>
  /\ cancel = [m \in Machines |-> 0]
  /\ disk = [m \in Machines |-> [s \in 1..MaxSeq |-> None]]
  /\ clip = [m \in Machines |-> None]
  /\ owed = {} /\ removed = {} /\ faults = 0

----------------------------------------------------------------------------
(* What there is to pull.                                                  *)

On(m) == IF m = Srv THEN TRUE ELSE conn[m].st = "on"

\* Files are copied on m: m serves them, the router asks m, and everyone else may pull.
Announce(m, roots) ==
  LET ann == [seq |-> cur.seq + 1, epoch |-> cur.epoch, roots |-> roots] IN
  /\ roots \in Copyable[m] /\ Collected[roots] # None
  /\ On(m) /\ cur.seq < MaxSeq
  /\ cur' = [cur EXCEPT !.who = m, !.seq = ann.seq]
  /\ own' = [own EXCEPT ![m] = ann]
  /\ remote' = [n \in Machines |->
                  IF n = m THEN [remote[n] EXCEPT !.ann = None]
                  ELSE IF On(n) THEN [remote[n] EXCEPT !.ann = ann] ELSE remote[n]]
  /\ UNCHANGED <<route, local, pending, nextReq, links, pull, cancel, stage, history, faults>>

\* pull_on_enter, run_shared: the cursor arrives.  The cancel watch is taken now.
Enter(m) ==
  /\ m \in Pullers /\ On(m) /\ Len(pull) < MaxPulls
  /\ remote[m].ann # None /\ remote[m].ann # remote[m].last
  /\ m = Srv => cur.who \in Clients
  /\ remote' = [remote EXCEPT ![m].last = remote[m].ann]
  /\ pull' = Append(pull, [who |-> m, ann |-> remote[m].ann, st |-> "new", got |-> <<>>,
                           req |-> 0, ans |-> None, gen |-> cancel[m],
                           sess |-> IF m = Srv THEN 0 ELSE conn[m].sess])
  /\ UNCHANGED <<server, own, links, cancel, stage, history, faults>>

----------------------------------------------------------------------------
(* FileRouter.                                                             *)

Routing(c) == \E r \in route : r.w.who = c   \* its session's loop is inside route
Registered(c) == conn[c].st # "off"
NotFound == [ok |-> FALSE, data |-> None]

\* What FileOwner::read makes of one read: the chunk, Superseded, NotFound, or Changed when
\* the file on the disk is no longer as announced.
Reads(m, r) ==
  IF own[m] = None \/ own[m].seq # r.seq THEN {NotFound}
  ELSE LET at == Served(own[m].roots, r.at)
       IN  {NotFound} \cup {[ok |-> TRUE, data |-> [ann |-> own[m], at |-> x]] : x \in {at} \ {None}}

\* A pull of the server's own machine hears its answer through a oneshot.
AnswerLocal(p, ans) ==
  pull' = IF pull[p].st = "waiting" THEN [pull EXCEPT ![p].ans = ans] ELSE pull

\* deliver.
Deliver(w, ans) ==
  IF w.who = Srv
  THEN AnswerLocal(w.req, ans) /\ UNCHANGED down
  ELSE /\ down' = IF conn[w.who].st = "on"
                  THEN [down EXCEPT ![w.who] = Append(@, [t |-> "reply", req |-> w.req, ans |-> ans])]
                  ELSE down
       /\ UNCHANGED pull

\* route: who has the files now?  A session's loop does one at a time.
RouteTo(w) ==
  /\ local' = IF cur.who = Srv THEN local \cup {w} ELSE local
  /\ route' = IF cur.who \in Clients THEN route \cup {[w |-> w, to |-> cur.who]} ELSE route

\* A client's read reaches its session's loop.
SrvRead(c) ==
  /\ conn[c].st = "on" /\ ~Routing(c)
  /\ up[c] # <<>> /\ Head(up[c]).t = "read"
  /\ up' = [up EXCEPT ![c] = Tail(@)]
  /\ RouteTo(Head(up[c]).w)
  /\ IF cur.who = None THEN Deliver(Head(up[c]).w, NotFound) ELSE UNCHANGED <<down, pull>>
  /\ UNCHANGED <<cur, pending, nextReq, own, remote, conn, cancel, stage, history, faults>>

\* Mutant of RouteSend: the consumer's own request number is passed on.
RouteSendAsIs(r) ==
  LET w == r.w  to == r.to IN
  /\ route' = route \ {r}
  /\ nextReq' = nextReq + 1
  /\ IF Registered(to)
     THEN /\ pending' = {p \in pending : p.req # w.req} \cup {[req |-> w.req, to |-> to, w |-> w, late |-> FALSE]}
          /\ down' = IF conn[to].st = "on"
                     THEN [down EXCEPT ![to] = Append(@, [t |-> "read", req |-> w.req,
                                                          seq |-> w.seq, at |-> w.at])]
                     ELSE down
          /\ UNCHANGED pull
     ELSE Deliver(w, NotFound) /\ UNCHANGED pending
  /\ UNCHANGED <<cur, local, own, remote, conn, up, cancel, stage, history, faults>>

\* The rest of route: note the request, send it on; the owner may have left meanwhile.  A
\* session that is ending still has an outbox, which nobody empties.
RouteSend(r) ==
  LET w == r.w  to == r.to IN
  /\ route' = route \ {r}
  /\ nextReq' = nextReq + 1
  /\ IF Registered(to)
     THEN /\ pending' = pending \cup {[req |-> nextReq, to |-> to, w |-> w,
                                       late |-> conn[to].st = "noted"]}
          /\ down' = IF conn[to].st = "on"
                     THEN [down EXCEPT ![to] = Append(@, [t |-> "read", req |-> nextReq,
                                                          seq |-> w.seq, at |-> w.at])]
                     ELSE down
          /\ UNCHANGED pull
     ELSE Deliver(w, NotFound) /\ UNCHANGED pending
  /\ UNCHANGED <<cur, local, own, remote, conn, up, cancel, stage, history, faults>>

\* A read of the server's own files comes back from the blocking pool.
LocalRead(w) ==
  /\ local' = local \ {w}
  /\ \E ans \in Reads(Srv, w) : Deliver(w, ans)
  /\ UNCHANGED <<cur, route, pending, nextReq, own, remote, conn, up, cancel, stage, history, faults>>

\* serve_file_read, in the owner's session loop.
ClientServe(c) ==
  /\ conn[c].st = "on" /\ down[c] # <<>> /\ Head(down[c]).t = "read"
  /\ down' = [down EXCEPT ![c] = Tail(@)]
  /\ \E ans \in Reads(c, Head(down[c])) :
       up' = [up EXCEPT ![c] = Append(@, [t |-> "reply", req |-> Head(down[c]).req, ans |-> ans])]
  /\ UNCHANGED <<server, own, remote, conn, pull, cancel, stage, history, faults>>

\* reply_from_client: only the one who was asked may answer.
SrvReply(c) ==
  /\ conn[c].st = "on" /\ ~Routing(c)
  /\ up[c] # <<>> /\ Head(up[c]).t = "reply"
  /\ up' = [up EXCEPT ![c] = Tail(@)]
  /\ LET r == Head(up[c])
         hit == {p \in pending : p.req = r.req}
     IN  /\ pending' = pending \ hit
         /\ IF hit = {} THEN UNCHANGED <<down, pull>>
            ELSE LET p == CHOOSE p \in hit : TRUE IN
                 Deliver(p.w, IF p.to = c THEN r.ans ELSE NotFound)
  /\ UNCHANGED <<cur, route, local, nextReq, own, remote, conn, cancel, stage, history, faults>>

\* FileChannel::reply: whoever of this session waits under that number.
ClientReply(c) ==
  /\ conn[c].st = "on" /\ down[c] # <<>> /\ Head(down[c]).t = "reply"
  /\ down' = [down EXCEPT ![c] = Tail(@)]
  /\ pull' = [p \in DOMAIN pull |->
                IF /\ pull[p].who = c /\ pull[p].sess = conn[c].sess
                   /\ pull[p].st = "waiting" /\ pull[p].req = Head(down[c]).req
                THEN [pull[p] EXCEPT !.ans = Head(down[c]).ans] ELSE pull[p]]
  /\ UNCHANGED <<server, own, remote, conn, up, cancel, stage, history, faults>>

----------------------------------------------------------------------------
(* A pull: pull_with_options.                                              *)

Cancelled(p) == cancel[pull[p].who] # pull[p].gen
Bytes(got) == FoldLeft(LAMBDA n, chunk : n + chunk.at.len, 0, got)
Wanted(p) == Reading[pull[p].ann.roots][Bytes(pull[p].got)]
Complete(p) == Bytes(pull[p].got) \notin DOMAIN Reading[pull[p].ann.roots]

\* What is kept of a pull that has ended.
Ended(p, st) ==
  LET j == pull[p] IN
  pull' = [pull EXCEPT ![p] = [j EXCEPT !.st = st, !.ans = None, !.req = 0, !.gen = 0,
                                        !.got = IF st = "done" THEN j.got ELSE <<>>]]

\* Any error once the folder exists removes the folder.
Fails(p, st) ==
  /\ Ended(p, st)
  /\ disk' = [disk EXCEPT ![pull[p].who][pull[p].ann.seq] = None]
  /\ UNCHANGED <<server, own, remote, links, cancel, clip, history, faults>>

\* The task starts: a manifest too large or with unsafe names, a Cancel pressed already, or
\* a disk error, ends it before anything is written.
Begin(p) ==
  /\ pull[p].st = "new"
  /\ \/ /\ Ended(p, IF Cancelled(p) THEN "cancelled" ELSE "failed")
        /\ UNCHANGED disk
     \/ /\ ~Cancelled(p) /\ Pullable(Entries(pull[p].ann), MaxCopy)
        /\ pull' = [pull EXCEPT ![p].st = "ready"]
        /\ disk' = [disk EXCEPT ![pull[p].who][pull[p].ann.seq] = <<>>]
  /\ UNCHANGED <<server, own, remote, links, cancel, clip, history, faults>>

\* next_req of the session's FileChannel.
Renumbered(c) == [conn EXCEPT ![c].next = @ + 1]

\* FileChannel::read and request_local: asked over the session, or of the router.
Ask(p) ==
  LET j == pull[p]
      w == [who |-> j.who, req |-> IF j.who = Srv THEN p ELSE conn[j.who].next,
            seq |-> j.ann.seq, at |-> Wanted(p)]
  IN
  /\ j.st = "ready" /\ ~Complete(p) /\ ~Cancelled(p)
  /\ IF j.who = Srv
     THEN /\ cur.who # None
          /\ RouteTo(w)
          /\ UNCHANGED <<conn, up>>
     ELSE /\ conn[j.who].st = "on" /\ conn[j.who].sess = j.sess
          /\ conn' = Renumbered(j.who)
          /\ up' = [up EXCEPT ![j.who] = Append(@, [t |-> "read", w |-> w, req |-> 0])]
          /\ UNCHANGED <<route, local>>
  /\ pull' = [pull EXCEPT ![p] = [j EXCEPT !.st = "waiting", !.req = w.req]]
  /\ UNCHANGED <<cur, pending, nextReq, own, remote, down, cancel, stage, history, faults>>

\* Nobody has files any more, or the session the pull began in is over: at once.
AskInVain(p) ==
  LET j == pull[p] IN
  /\ j.st = "ready" /\ ~Complete(p) /\ ~Cancelled(p)
  /\ IF j.who = Srv THEN cur.who = None ELSE conn[j.who].st # "on" \/ conn[j.who].sess # j.sess
  /\ Fails(p, "failed")

\* Mutant of Answered: the select is not biased.
AnsweredFirst(p) == pull[p].st = "waiting" /\ pull[p].ans # None

\* Cancel first when both are ready.
Answered(p) == pull[p].st = "waiting" /\ pull[p].ans # None /\ ~Cancelled(p)

\* An answer: a chunk is written, if the folder is still there; an error, or no bytes, ends
\* the pull.
Take(p) ==
  LET j == pull[p] IN
  /\ Answered(p)
  /\ IF j.ans.ok /\ j.ans.data.at.len > 0
     THEN /\ pull' = [pull EXCEPT ![p] = [j EXCEPT !.st = "ready", !.ans = None,
                                                   !.got = Append(j.got, j.ans.data)]]
          /\ disk' = [disk EXCEPT ![j.who][j.ann.seq] =
                        IF @ = None THEN None ELSE Append(j.got, j.ans.data)]
          /\ UNCHANGED <<server, own, remote, links, cancel, clip, history, faults>>
     ELSE Fails(p, "failed")

\* READ_TIMEOUT.
Timeout(p) ==
  /\ pull[p].st = "waiting" /\ pull[p].ans = None /\ ~Cancelled(p)
  /\ Fails(p, "failed")

\* After the last byte there may still be a folder or an empty file to make.
EmptyAtTheEnd(p) == Last(Entries(pull[p].ann)).size = 0

\* Cancel counts before each entry, and while a chunk is on its way, ready or not.  Making
\* an entry, writing and flushing may fail.
Stops(p) ==
  \/ /\ pull[p].st \in {"ready", "waiting"} /\ (Complete(p) => EmptyAtTheEnd(p))
     /\ Cancelled(p)
     /\ Fails(p, "cancelled")
  \/ pull[p].st = "ready" /\ Fails(p, "failed")

\* The note and apply_files; the clipboard may refuse, and then the folder stays.
Finish(p) ==
  /\ pull[p].st = "ready" /\ Complete(p)
  /\ \/ /\ Ended(p, "done")
        /\ clip' = [clip EXCEPT ![pull[p].who] = p]
     \/ /\ Ended(p, "unplaced")
        /\ UNCHANGED clip
  /\ UNCHANGED <<server, own, remote, links, cancel, disk, history, faults>>

PullStep(p) == Begin(p) \/ Ask(p) \/ AskInVain(p) \/ Take(p) \/ Timeout(p) \/ Stops(p) \/ Finish(p)

----------------------------------------------------------------------------
(* Cancel, and what goes wrong.                                            *)

Cancel(m) ==
  /\ m \in Pullers /\ FoldFunction(+, 0, cancel) < MaxCancels
  /\ cancel' = [cancel EXCEPT ![m] = @ + 1]
  /\ UNCHANGED <<server, own, remote, links, pull, stage, history, faults>>

Fault == faults < MaxFaults /\ faults' = faults + 1

\* The connection is gone; the server's handler has yet to notice.
Lose(c) ==
  /\ Fault /\ conn[c].st = "on"
  /\ conn' = [conn EXCEPT ![c] = [@ EXCEPT !.st = "closing"]]
  /\ up' = [up EXCEPT ![c] = <<>>] /\ down' = [down EXCEPT ![c] = <<>>]
  /\ own' = [own EXCEPT ![c] = None]
  /\ remote' = [remote EXCEPT ![c] = [ann |-> None, last |-> None]]
  /\ owed' = IF \/ Routing(c)
                \/ \E w \in local \cup {p.w : p \in pending} : w.who = c
             THEN owed \cup {c} ELSE owed
  /\ UNCHANGED <<server, pull, cancel, stage, removed>>

\* Mutant of SrvNote: only the ownership is given up.
SrvNoteSilently(c) ==
  /\ conn[c].st = "closing" /\ ~Routing(c)
  /\ conn' = [conn EXCEPT ![c].st = "noted"]
  /\ cur' = IF cur.who = c THEN [cur EXCEPT !.who = None] ELSE cur
  /\ UNCHANGED <<pending, pull, down, route, local, nextReq, own, remote, up, cancel, stage,
                 history, faults>>

\* on_disconnected: what it was asked for is answered, what it owned is nobody's.
SrvNote(c) ==
  LET mine == {p \in pending : p.to = c} IN
  /\ conn[c].st = "closing" /\ ~Routing(c)
  /\ conn' = [conn EXCEPT ![c].st = "noted"]
  /\ cur' = IF cur.who = c THEN [cur EXCEPT !.who = None] ELSE cur
  /\ pending' = pending \ mine
  /\ pull' = [p \in DOMAIN pull |->
                IF \E x \in mine : x.w.who = Srv /\ x.w.req = p /\ pull[p].st = "waiting"
                THEN [pull[p] EXCEPT !.ans = NotFound] ELSE pull[p]]
  /\ down' = [n \in Clients |->
                LET answers == {[t |-> "reply", req |-> x.w.req, ans |-> NotFound] :
                                  x \in {y \in mine : y.w.who = n}}
                IN  IF conn[n].st = "on" THEN down[n] \o SetToSeq(answers) ELSE down[n]]
  /\ UNCHANGED <<route, local, nextReq, own, remote, up, cancel, stage, history, faults>>

\* The Registration is dropped.
Unregister(c) ==
  /\ conn[c].st = "noted"
  /\ conn' = [conn EXCEPT ![c].st = "off"]
  /\ UNCHANGED <<server, own, remote, up, down, pull, cancel, stage, history, faults>>

\* A new session, with a new FileChannel: its requests are numbered from one again.
Reconnect(c) ==
  /\ conn[c].st = "off"
  /\ conn' = [conn EXCEPT ![c] = [st |-> "on", sess |-> @.sess + 1, next |-> 1]]
  /\ UNCHANGED <<server, own, remote, up, down, pull, cancel, stage, history, faults>>

\* The server's program is restarted: its own pulls and its numbers are gone.
Restart ==
  /\ Fault
  /\ cur' = [who |-> None, seq |-> 0, epoch |-> cur.epoch + 1]
  /\ route' = {} /\ local' = {} /\ pending' = {} /\ nextReq' = 1
  /\ own' = [m \in Machines |-> None]
  /\ remote' = [m \in Machines |-> [ann |-> None, last |-> None]]
  /\ conn' = [c \in Clients |-> [conn[c] EXCEPT !.st = "off"]]
  /\ up' = [c \in Clients |-> <<>>] /\ down' = [c \in Clients |-> <<>>]
  /\ pull' = [p \in DOMAIN pull |->
                IF pull[p].who = Srv /\ pull[p].st \in {"new", "ready", "waiting"}
                THEN [pull[p] EXCEPT !.st = "dead", !.ans = None, !.req = 0, !.gen = 0, !.got = <<>>] ELSE pull[p]]
  /\ UNCHANGED <<cancel, stage, history>>

\* received.rs, remove: the user deletes a staged folder.
RemoveReceived(m, s) ==
  /\ Fault /\ disk[m][s] # None
  /\ disk' = [disk EXCEPT ![m][s] = None]
  /\ removed' = removed \cup {<<m, s>>}
  /\ UNCHANGED <<server, own, remote, links, pull, cancel, clip, owed>>

----------------------------------------------------------------------------

RouterStep ==
  \/ \E c \in Clients : SrvRead(c) \/ SrvReply(c) \/ SrvNote(c) \/ Unregister(c)
  \/ \E r \in route : RouteSend(r)
  \/ \E w \in local : LocalRead(w)

Next ==
  \/ \E m \in Machines : Enter(m) \/ Cancel(m)
  \/ \E m \in Owners : \E roots \in Copyable[m] : Announce(m, roots)
  \/ RouterStep
  \/ \E c \in Clients : ClientServe(c) \/ ClientReply(c) \/ Lose(c) \/ Reconnect(c)
  \/ \E p \in DOMAIN pull : PullStep(p)
  \/ \E m \in Machines, s \in 1..MaxSeq : RemoveReceived(m, s)
  \/ Restart

Spec == Init /\ [][Next]_vars

----------------------------------------------------------------------------
(* Properties.                                                             *)

Running == {"new", "ready", "waiting"}

\* Types; requests under way are told apart by their numbers, on both legs.
TypeOK ==
  /\ cur.who \in Machines \cup {None} /\ cur.seq \in 0..MaxSeq
  /\ \A p, q \in pending : p.req = q.req => p = q
  /\ \A p, q \in DOMAIN pull :
       /\ p # q /\ pull[p].who = pull[q].who /\ pull[p].sess = pull[q].sess
       /\ pull[p].st = "waiting" /\ pull[q].st = "waiting" /\ pull[p].who # Srv
       => pull[p].req # pull[q].req

Right(p) ==
  LET j == pull[p] IN
  \A i \in DOMAIN j.got :
    j.got[i] = [ann |-> j.ann,
                at |-> Reading[j.ann.roots][Bytes(SubSeq(j.got, 1, i - 1))]]

\* What a pull has written is what was announced, read by read: two consumers of one owner
\* and answers that come late do not mix (FileRouter::route, FileChannel, FileOwner::read),
\* except for a client that left while an answer was owed to it.  And what the clipboard
\* refers to stays as it was written, whatever pulls fail or are cancelled later, unless a
\* server that was restarted numbers its folders from one again ("leaving the clipboard
\* exactly as it was", spawn_pull).
OwnBytesUnlessOwed ==
  /\ \A p \in DOMAIN pull : Right(p) \/ pull[p].who \in owed
  /\ \A m \in Machines : clip[m] # None =>
       LET j == pull[clip[m]] IN
       disk[m][j.ann.seq] = j.got \/ <<m, j.ann.seq>> \in removed \/ cur.epoch > 0

\* "Whatever this client owned or was owed an answer for is now nobody's" (net.rs): the
\* same, with no exception.
OwnBytes == \A p \in DOMAIN pull : Right(p)

\* Cancel stops every pull that still lacks a chunk: it never reaches the clipboard
\* (CancelSwitch: "Cancels every pull started before", a watch taken in spawn_pull).
CancelCounts ==
  [][\A p \in DOMAIN pull :
       Cancelled(p) /\ pull[p].st \in Running /\ ~Complete(p)
       => Len(pull'[p].got) <= Len(pull[p].got) /\ pull'[p].st # "done"]_vars

\* The request of a pull that waits is always on its way, and so its answer will come, or
\* the pull's own session is over: no hop of the route drops one, and an owner that leaves
\* is answered for ("so a pull in flight fails cleanly rather than hanging",
\* on_disconnected).  A request sent between on_disconnected and the end of the owner's
\* registration is dropped: then only READ_TIMEOUT ends the pull.
NoReadLost ==
  \A p \in DOMAIN pull :
    LET j == pull[p]
        Its(w) == w.who = j.who /\ w.req = j.req
    IN
    /\ j.st = "waiting" /\ j.ans = None
    /\ IF j.who = Srv THEN TRUE ELSE conn[j.who].st = "on" /\ conn[j.who].sess = j.sess
    =>
    \/ \E w \in local \cup {r.w : r \in route} : Its(w)
    \/ \E x \in pending :
         /\ Its(x.w)
         /\ \/ x.late \/ conn[x.to].st = "closing"
            \/ /\ conn[x.to].st = "on"
               /\ \/ \E q \in Range(down[x.to]) : q.t = "read" /\ q.req = x.req
                  \/ \E q \in Range(up[x.to]) : q.t = "reply" /\ q.req = x.req
    \/ j.who # Srv /\ \/ \E q \in Range(up[j.who]) : q.t = "read" /\ Its(q.w)
                      \/ \E q \in Range(down[j.who]) : q.t = "reply" /\ q.req = j.req
=============================================================================
