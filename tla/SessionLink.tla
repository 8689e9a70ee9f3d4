---------------------------- MODULE SessionLink ----------------------------
(***************************************************************************)
(* One client machine keeping its connection to the server: connecting,    *)
(* trusting the server's certificate, the handshake, the two session loops *)
(* with their keep-alive and silence timers, and reconnecting              *)
(* (geserdesk-client net.rs, trust_store.rs; geserdesk-server net.rs).     *)
(*                                                                         *)
(* A TCP connection is a pair of pipes of bounded capacity: what is        *)
(* written waits in the pipe until the other side reads it.  Both loops    *)
(* await their own writes inside select!, so a side whose pipe is full     *)
(* neither reads nor looks at its timers.  A connection can be cut, after  *)
(* which nothing is delivered and nobody is told, until the kernel gives   *)
(* up on what was written.                                                 *)
(*                                                                         *)
(* Time goes in steps of KEEPALIVE_INTERVAL.  Whatever a task can do is    *)
(* done, and what was written on a live connection is read, within the     *)
(* interval it was written in: the network's lag is below one interval.    *)
(*                                                                         *)
(* A connection serves at most one screen and the client asks for one      *)
(* name.  Whether its certificate is approved is in TrustAdmin.            *)
(***************************************************************************)
EXTENDS Integers, Sequences

CONSTANTS
  Links,       \* connection slots
  Certs,       \* server certificates, by fingerprint
  None,
  Cap,         \* messages a pipe holds
  Burst,       \* messages a side writes in one go (clipboard chunks, queued input)
  Misses,      \* KEEPALIVE_MISSES
  Silence,     \* the client's silence_timeout, in intervals
  Patience,    \* the handshakes' timeouts, in intervals
  MaxDelay,    \* the longest wait before reconnecting, in intervals
  MaxFaults,   \* bound: cuts, server restarts and reinstalls
  MaxBulk,     \* bound: bursts
  MaxTroubles  \* bound: faults and bursts together

ASSUME LinkAssumption ==
  /\ {Cap, Burst, Misses, Silence, Patience, MaxDelay} \subseteq Nat \ {0}
  /\ Misses > 1
  /\ {MaxFaults, MaxBulk, MaxTroubles} \subseteq Nat
  /\ None \notin Certs \cup Links

VARIABLES
  link,    \* per slot: the connection and the server task that has its other end
  cl,      \* the client: what connect_with_status and session_loop keep
  known,   \* KnownServers: the certificate pinned for the server
  server,  \* the machine at the server's address
  faults, bulks

vars == <<link, cl, known, server, faults, bulks>>
bounds == <<faults, bulks>>

(* srv: the server task's stage; wr: what it is writing; over: its loop returned, and it  *)
(* ends when that is written; cli: the client has its end open; dead (history): intervals *)
(* since the connection was cut.                                                          *)
Free == [srv |-> "none", cert |-> None, missed |-> 0, due |-> FALSE, wr |-> <<>>,
         over |-> FALSE, up |-> <<>>, down |-> <<>>, cut |-> FALSE, cli |-> FALSE, dead |-> 0]
Doubled(d) == IF 2 * d > MaxDelay THEN MaxDelay ELSE 2 * d
Resting(d) ==
  [at |-> "wait", on |-> None, wr |-> <<>>, quiet |-> 0, wait |-> d, delay |-> Doubled(d),
   lasted |-> 0, just |-> None]

Init ==
  /\ link = [l \in Links |-> Free]
  /\ cl = [Resting(1) EXCEPT !.wait = 0, !.delay = 1]
  /\ known \in Certs \cup {None}
  /\ server \in [cert : Certs, up : {TRUE}, speaks : BOOLEAN]
  /\ faults = 0 /\ bulks = 0

----------------------------------------------------------------------------
(* Connections.                                                            *)

OnLink(l) == cl.on = l /\ link[l].cli
MoreBulk == bulks < MaxBulk /\ faults + bulks < MaxTroubles
Alive(l) == link[l].srv \in {"hello", "serving"}

\* A slot both ends of which are closed is free again.
Tidy(f) == [l \in Links |-> IF ~f[l].cli /\ f[l].srv = "none" THEN Free ELSE f[l]]

\* What each end can do now: read, write into a pipe with room, or find the other end gone.
SrvReads(l) == Alive(l) /\ link[l].wr = <<>> /\ link[l].up # <<>> /\ ~link[l].cut
SrvWrites(l) == Alive(l) /\ link[l].wr # <<>> /\ Len(link[l].down) < Cap
SrvFinds(l) ==
  /\ Alive(l) /\ ~link[l].cli /\ ~link[l].cut
  /\ link[l].wr # <<>> \/ link[l].up = <<>>
CliReads(l) == OnLink(l) /\ cl.wr = <<>> /\ link[l].down # <<>> /\ ~link[l].cut
CliWrites(l) ==
  /\ OnLink(l) /\ cl.wr # <<>> /\ Len(link[l].up) < Cap
  /\ link[l].srv # "none" \/ link[l].cut
CliFinds(l) ==
  /\ OnLink(l) /\ link[l].srv = "none" /\ ~link[l].cut
  /\ cl.wr # <<>> \/ link[l].down = <<>>

----------------------------------------------------------------------------
(* The server's task for one connection.                                   *)

\* Mutant of SrvGone: the name stays taken.
SrvGoneHolding(l) == link' = [link EXCEPT ![l].wr = <<>>]

\* handle_client returns and the Registration is dropped: the name is free.
SrvGone(l) == link' = Tidy([link EXCEPT ![l] = [@ EXCEPT !.srv = "none", !.wr = <<>>]])

\* Mutant of SrvRead: an answer does not count as one.
SrvReadUnheard(l) ==
  /\ SrvReads(l) /\ link[l].srv = "serving"
  /\ link' = [link EXCEPT ![l].up = Tail(@)]
  /\ UNCHANGED <<cl, known, server, bounds>>

\* session_loop reads: whatever it is, the client is alive.
SrvRead(l) ==
  /\ SrvReads(l) /\ link[l].srv = "serving"
  /\ link' = [link EXCEPT ![l] = [link[l] EXCEPT !.up = Tail(@), !.missed = 0]]
  /\ UNCHANGED <<cl, known, server, bounds>>

\* handshake: an old protocol, a name another connection still holds, or Welcome and
\* SetOptions (together) and the name registered; the first probe is due at once.
SrvHello(l) ==
  /\ SrvReads(l) /\ link[l].srv = "hello"
  /\ LET taken == \E k \in Links \ {l} : link[k].srv = "serving"
         reply == IF ~server.speaks THEN "incompatible" ELSE IF taken THEN "rejected" ELSE "welcome"
         c == [link[l] EXCEPT !.up = Tail(@), !.wr = <<reply>>, !.missed = 0]
     IN  link' = [link EXCEPT ![l] = IF reply = "welcome"
                                     THEN [c EXCEPT !.srv = "serving", !.due = TRUE]
                                     ELSE [c EXCEPT !.over = TRUE]]
  /\ UNCHANGED <<cl, known, server, bounds>>

\* One message goes into the pipe; a task whose loop returned ends with the last one.
SrvWrite(l) ==
  /\ SrvWrites(l)
  /\ LET c == [link[l] EXCEPT !.down = Append(@, Head(link[l].wr)), !.wr = Tail(@)]
     IN  link' = Tidy([link EXCEPT ![l] =
                         IF c.over /\ c.wr = <<>> THEN [c EXCEPT !.srv = "none"] ELSE c])
  /\ UNCHANGED <<cl, known, server, bounds>>

\* A read finds the connection closed, or a write fails; the goodbye fails too.
SrvFind(l) == SrvFinds(l) /\ SrvGone(l) /\ UNCHANGED <<cl, known, server, bounds>>

\* Mutant of Probe: one probe more.
ProbeOnce(l) ==
  /\ link[l].srv = "serving" /\ link[l].due /\ link[l].wr = <<>>
  /\ LET c == [link[l] EXCEPT !.due = FALSE, !.missed = @ + 1]
     IN  link' = [link EXCEPT ![l] =
                    IF c.missed >= Misses + 1
                    THEN [c EXCEPT !.wr = <<"ka", "close", "close">>, !.over = TRUE]
                    ELSE [c EXCEPT !.wr = <<"ka">>]]
  /\ UNCHANGED <<cl, known, server, bounds>>

\* The ticker: a keep-alive, and the one that makes it Misses without an answer is
\* followed at once by Close(Timeout); handle_client says Close once more on its way out.
Probe(l) ==
  /\ link[l].srv = "serving" /\ link[l].due /\ link[l].wr = <<>>
  /\ LET c == [link[l] EXCEPT !.due = FALSE, !.missed = @ + 1]
     IN  link' = [link EXCEPT ![l] =
                    IF c.missed >= Misses
                    THEN [c EXCEPT !.wr = <<"ka", "close", "close">>, !.over = TRUE]
                    ELSE [c EXCEPT !.wr = <<"ka">>]]
  /\ UNCHANGED <<cl, known, server, bounds>>

\* The outbox has input, clipboard chunks or file replies for this client.
SrvBulk(l) ==
  /\ link[l].srv = "serving" /\ link[l].wr = <<>> /\ MoreBulk
  /\ link' = [link EXCEPT ![l].wr = [i \in 1..Burst |-> "bulk"]]
  /\ bulks' = bulks + 1
  /\ UNCHANGED <<cl, known, server, faults>>

\* HELLO_TIMEOUT.
HelloTimeout(l) ==
  /\ link[l].srv = "hello" /\ link[l].missed >= Patience
  /\ SrvGone(l)
  /\ UNCHANGED <<cl, known, server, bounds>>

----------------------------------------------------------------------------
(* The client.                                                             *)

\* connect_with_status after connect_observed returned: the sink lets go, and the client
\* waits, twice as long each time (Resting) unless the attempt lasted longer than stable_after.
NextDelay == IF cl.lasted >= MaxDelay THEN 1 ELSE cl.delay

Hangs(l) == link' = Tidy([link EXCEPT ![l].cli = FALSE])
GivesUp(l) == Hangs(l) /\ cl' = Resting(NextDelay)
Fatal(l) == Hangs(l) /\ cl' = [Resting(1) EXCEPT !.at = "fatal", !.wait = 0]

\* The certificate this attempt accepts: what was just confirmed, else what is on file.
Pin == IF cl.just # None THEN cl.just ELSE known

\* TcpStream::connect and the TLS handshake of a machine that answers: PinnedServer lets
\* the pinned certificate through, or any when none is pinned, and then a person is asked.
Connect(l) ==
  /\ cl.at = "wait" /\ cl.wait = 0 /\ server.up
  /\ link[l] = Free
  /\ IF Pin \notin {None, server.cert}
     THEN cl' = [Resting(1) EXCEPT !.at = "fatal", !.wait = 0] /\ UNCHANGED link
     ELSE /\ link' = [link EXCEPT ![l] =
                        [Free EXCEPT !.srv = "hello", !.cert = server.cert, !.cli = TRUE]]
          /\ cl' = IF Pin = None
                   THEN [cl EXCEPT !.at = "ask", !.on = l]
                   ELSE [cl EXCEPT !.at = "hello", !.on = l, !.wr = <<"hello">>, !.quiet = 0]
  /\ UNCHANGED <<known, server, bounds>>

\* Nobody listens at the address.
ConnectFails ==
  /\ cl.at = "wait" /\ cl.wait = 0 /\ ~server.up
  /\ cl' = Resting(NextDelay)
  /\ UNCHANGED <<link, known, server, bounds>>

\* confirm_new returns TRUE: the certificate is remembered, unless the file cannot be
\* written, and a fresh connection is made, pinned to it.
Confirmed(l, saved) ==
  /\ cl.at = "ask" /\ cl.on = l
  /\ Hangs(l)
  /\ known' = IF saved THEN link[l].cert ELSE known
  /\ cl' = [cl EXCEPT !.at = "wait", !.on = None, !.just = link[l].cert]
  /\ UNCHANGED <<server, bounds>>

\* The person says no, or nothing for ANSWER_TIMEOUT.
Declined(l) ==
  /\ cl.at = "ask" /\ cl.on = l
  /\ Fatal(l)
  /\ UNCHANGED <<known, server, bounds>>

CliWrite(l) ==
  /\ CliWrites(l)
  /\ link' = [link EXCEPT ![l].up = Append(@, Head(cl.wr))]
  /\ cl' = [cl EXCEPT !.wr = Tail(@)]
  /\ UNCHANGED <<known, server, bounds>>

\* client_handshake reads the reply.
CliReply(l) ==
  /\ CliReads(l) /\ cl.at = "hello"
  /\ CASE Head(link[l].down) = "welcome" ->
            /\ cl' = [cl EXCEPT !.at = "session", !.quiet = 0]
            /\ link' = [link EXCEPT ![l].down = Tail(@)]
       [] Head(link[l].down) = "incompatible" -> Fatal(l)
       [] OTHER -> GivesUp(l)
  /\ UNCHANGED <<known, server, bounds>>

\* session_loop reads: a keep-alive is answered, Close ends the session.
CliRead(l) ==
  /\ CliReads(l) /\ cl.at = "session"
  /\ LET m == Head(link[l].down) IN
     IF m = "close" THEN GivesUp(l)
     ELSE /\ link' = [link EXCEPT ![l].down = Tail(@)]
          /\ cl' = [cl EXCEPT !.quiet = 0, !.wr = IF m = "ka" THEN <<"ka">> ELSE <<>>]
  /\ UNCHANGED <<known, server, bounds>>

\* Closed, or the connection reset under a write.
CliFind(l) ==
  /\ CliFinds(l) /\ cl.at \in {"hello", "session"}
  /\ GivesUp(l)
  /\ UNCHANGED <<known, server, bounds>>

\* silence_timeout, looked at only when the loop is not writing; handshake_timeout, which
\* covers the writes too.
TimesOut(l) ==
  /\ OnLink(l)
  /\ \/ cl.at = "session" /\ cl.quiet >= Silence /\ cl.wr = <<>> /\ ~CliReads(l)
     \/ cl.at = "hello" /\ cl.quiet >= Patience
  /\ GivesUp(l)
  /\ UNCHANGED <<known, server, bounds>>

\* clip.changed, watch.check and file requests: messages the loop writes one after another
\* without reading in between.
CliBulk(l) ==
  /\ OnLink(l) /\ cl.at = "session" /\ cl.wr = <<>> /\ MoreBulk
  /\ cl' = [cl EXCEPT !.wr = [i \in 1..Burst |-> "bulk"]]
  /\ bulks' = bulks + 1
  /\ UNCHANGED <<link, known, server, faults>>

----------------------------------------------------------------------------
(* The network, the server machine and time.                               *)

Fault == faults < MaxFaults /\ faults + bulks < MaxTroubles /\ faults' = faults + 1 /\ UNCHANGED bulks

\* The path goes away under the connection (sleep, a new address): no end is told.
Cut(l) ==
  /\ Fault
  /\ link[l].cli \/ Alive(l)
  /\ ~link[l].cut
  /\ link' = [link EXCEPT ![l] = [@ EXCEPT !.cut = TRUE]]
  /\ UNCHANGED <<cl, known, server>>

\* The kernel gives up retransmitting: the write that waits, or the read, fails.
KernelGivesUp(l) ==
  /\ link[l].cut
  /\ \/ Alive(l) /\ link[l].down # <<>> /\ SrvGone(l) /\ UNCHANGED cl
     \/ OnLink(l) /\ cl.at = "session" /\ link[l].up # <<>> /\ GivesUp(l)
  /\ UNCHANGED <<known, server, bounds>>

\* The server stops: every task is aborted.  It may come back as another installation.
ServerStops ==
  /\ Fault /\ server.up
  /\ server' = [server EXCEPT !.up = FALSE]
  /\ link' = Tidy([l \in Links |-> [link[l] EXCEPT !.srv = "none", !.wr = <<>>]])
  /\ UNCHANGED <<cl, known>>

ServerStarts(c, v) ==
  /\ ~server.up
  /\ server' = [cert |-> c, up |-> TRUE, speaks |-> v]
  /\ UNCHANGED <<link, cl, known, bounds>>

\* Nothing is left to do in this interval.
Settled ==
  /\ \A l \in Links :
       /\ ~SrvReads(l) /\ ~SrvWrites(l) /\ ~SrvFinds(l)
       /\ ~CliReads(l) /\ ~CliWrites(l) /\ ~CliFinds(l)
       /\ link[l].srv = "serving" /\ link[l].due => link[l].wr # <<>>
       /\ link[l].srv = "hello" => link[l].missed < Patience
  /\ cl.at = "wait" => cl.wait > 0 \/ \A l \in Links : link[l] # Free
  /\ cl.at = "session" => cl.quiet < Silence \/ cl.wr # <<>>
  /\ cl.at = "hello" => cl.quiet < Patience

UpTo(n, max) == IF n < max THEN n + 1 ELSE max

Tick ==
  /\ Settled
  /\ cl' = [cl EXCEPT !.quiet = UpTo(@, Silence + 1),
                      !.lasted = IF cl.at = "wait" THEN @ ELSE UpTo(@, MaxDelay),
                      !.wait = IF @ > 0 THEN @ - 1 ELSE 0]
  /\ link' = [l \in Links |->
                [link[l] EXCEPT !.due = link[l].srv = "serving" /\ ~link[l].over,
                                !.missed = IF link[l].srv = "hello" THEN UpTo(@, Patience) ELSE @,
                                !.dead = IF link[l].cut THEN UpTo(@, Misses + 1) ELSE 0]]
  /\ UNCHANGED <<known, server, bounds>>

----------------------------------------------------------------------------

SrvStep(l) ==
  \/ SrvRead(l) \/ SrvHello(l) \/ SrvWrite(l) \/ SrvFind(l) \/ Probe(l) \/ HelloTimeout(l)
CliStep(l) ==
  \/ Connect(l) \/ CliWrite(l) \/ CliReply(l) \/ CliRead(l) \/ CliFind(l) \/ TimesOut(l)
Start == \E c \in Certs, v \in BOOLEAN : ServerStarts(c, v)

Next ==
  \/ \E l \in Links :
       \/ SrvStep(l) \/ CliStep(l) \/ SrvBulk(l) \/ CliBulk(l) \/ Cut(l) \/ KernelGivesUp(l)
       \/ \E saved \in BOOLEAN : Confirmed(l, saved)
       \/ Declined(l)
  \/ ConnectFails \/ ServerStops \/ Start \/ Tick

Spec == Init /\ [][Next]_vars

\* Tasks run, time passes, kernels give up on what is never acknowledged, and a server
\* that stopped is started again.
FairSpec ==
  /\ Spec
  /\ \A l \in Links : WF_vars(SrvStep(l)) /\ WF_vars(CliStep(l)) /\ WF_vars(KernelGivesUp(l))
  /\ WF_vars(ConnectFails) /\ WF_vars(Start) /\ WF_vars(Tick)

----------------------------------------------------------------------------
(* Properties.                                                             *)

\* Types; a session's count of missed probes stays within the limit (session_loop).
TypeOK ==
  /\ cl.at \in {"wait", "ask", "hello", "session", "fatal"}
  /\ cl.on \in Links \cup {None} /\ cl.wait \in 0..MaxDelay /\ cl.delay \in 1..MaxDelay
  /\ known \in Certs \cup {None} /\ faults \in 0..MaxFaults /\ bulks \in 0..MaxBulk
  /\ \A l \in Links : /\ link[l].srv \in {"none", "hello", "serving"}
                      /\ Len(link[l].up) <= Cap /\ Len(link[l].down) <= Cap
                      /\ link[l].missed \in 0..(IF Misses > Patience THEN Misses ELSE Patience)

\* The server times out only a client that is really lost: while the connection is up and
\* the client has its end open, no run of probes, bursts and other messages in any order
\* makes the server's session give up (session_loop of geserdesk-server).
HealthyIsKept ==
  [][\A l \in Links :
       link[l].srv = "serving" /\ ~link[l].over /\ ~link[l].cut /\ OnLink(l)
       => ~link'[l].over]_vars

\* A connection that was cut is noticed on both sides within their limits, unless that
\* side waits in a write: then its timers are not looked at (both session_loops; the
\* client's deadline is "measured from the last message").
DeadIsNoticed ==
  /\ cl.at = "session" => cl.quiet <= Silence \/ cl.wr # <<>>
  /\ \A l \in Links : link[l].srv = "serving" => link[l].dead <= Misses \/ link[l].wr # <<>>

\* What connect_with_retry promises: whatever was cut, stopped or left half-open, the
\* client gets to a session again, or stops at something a person must look at.
ComesBack == (cl.at = "wait") ~> (cl.at \in {"session", "ask", "fatal"})

\* Both loops wait in a write that only the other's read could end.
Jammed ==
  \E l \in Links : /\ OnLink(l) /\ cl.wr # <<>> /\ Len(link[l].up) = Cap
                   /\ link[l].srv = "serving" /\ link[l].wr # <<>> /\ Len(link[l].down) = Cap

\* A client that waits in a write gets on with it, or finds out that the session is over,
\* unless the server waits in one too: both session_loops await their sends inside select!,
\* where neither reads nor looks at a timer.
WritesEndUnlessJammed ==
  (cl.at = "session" /\ cl.wr # <<>>) ~> (cl.wr = <<>> \/ cl.at # "session" \/ Jammed)
\* The same with no exception.
WritesEnd == (cl.at = "session" /\ cl.wr # <<>>) ~> (cl.wr = <<>> \/ cl.at # "session")

\* The client is not lost in any of its states: out of a session it comes back, in one it
\* gets on (connect_with_retry, session_loop).
NeverStuck == ComesBack /\ WritesEndUnlessJammed

\* Nothing is said to a server whose certificate is not the one a person confirmed or the
\* file holds, though the machine at the address may be another between the question and
\* the connection that follows it (connect_observed).
PinnedOnly ==
  [][\A l \in Links : link[l].up = <<>> /\ link'[l].up # <<>> =>
       link[l].cert \in {cl.just, known}]_vars

=============================================================================
