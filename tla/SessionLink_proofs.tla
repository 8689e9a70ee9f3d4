------------------------- MODULE SessionLink_proofs -------------------------
(***************************************************************************)
(* Theorems about SessionLink, for any number of connections, certificates *)
(* and bounds on what goes wrong; about SwitchGate, the other module whose *)
(* subject is how long something has lasted; and about TrustAdmin, which   *)
(* decides with whom there is a session at all.                            *)
(*                                                                         *)
(* What is said of a connection is an operator on its record, so that a    *)
(* step is reasoned about on the one record it changes.                    *)
(***************************************************************************)
EXTENDS SessionLink, SwitchGate, TrustAdmin, TLAPS

Msgs == {"hello", "welcome", "rejected", "incompatible", "ka", "bulk", "close"}
MaxMissed == IF Misses > Patience THEN Misses ELSE Patience

Conn == [srv : {"none", "hello", "serving"}, cert : Certs \cup {None}, missed : 0..MaxMissed,
         due : BOOLEAN, wr : Seq(Msgs), over : BOOLEAN, up : Seq(Msgs), down : Seq(Msgs),
         cut : BOOLEAN, cli : BOOLEAN, dead : Nat]
Client == [at : {"wait", "ask", "hello", "session", "fatal"}, on : Links \cup {None},
           wr : Seq(Msgs), quiet : Nat, wait : 0..MaxDelay, delay : 1..MaxDelay,
           lasted : Nat, just : Certs \cup {None}]

Types ==
  /\ link \in [Links -> Conn]
  /\ cl \in Client
  /\ known \in Certs \cup {None}
  /\ server \in [cert : Certs, up : BOOLEAN, speaks : BOOLEAN]
  /\ faults \in 0..MaxFaults /\ bulks \in 0..MaxBulk

----------------------------------------------------------------------------
(* What holds of one connection.                                           *)

\* A server task that serves and may go on; one whose write waits for room in the pipe.
Serves(c) == c.srv = "serving" /\ ~ c.over
SrvStuck(c) == c.wr # <<>> /\ Len(c.down) >= Cap

\* The server's task: it stays to write its last messages and probes no more then, keeps
\* its count of probes below the limit, and has sent a probe for every interval since the
\* connection was cut, but for the one that is due, unless it waits in a write.
SrvSide(c) ==
  /\ Len(c.up) <= Cap /\ Len(c.down) <= Cap
  /\ c.srv # "none" /\ c.over => c.wr # <<>>
  /\ c.over \/ c.srv = "hello" => ~ c.due
  /\ Serves(c) => c.missed < Misses
  /\ ~ c.cut => c.dead = 0
  /\ Serves(c) /\ c.cut => c.dead <= c.missed + (IF c.due THEN 1 ELSE 0) \/ SrvStuck(c)

\* A keep-alive is among the messages.
Asks(q) == \E i \in 1..Len(q) : q[i] = "ka"

\* On a connection that is up, with w what the client is writing: at most one probe is
\* unanswered, its question or something for the server to read is on its way, and the next
\* one is not due before that is read, or else both sides wait in a write.
Exchange(c, w) ==
  Serves(c) /\ ~ c.cut =>
    /\ c.missed <= 1
    /\ c.missed = 1 => Asks(c.wr) \/ Asks(c.down) \/ w # <<>> \/ c.up # <<>>
    /\ c.missed = 1 /\ c.due => SrvStuck(c) /\ w # <<>> /\ Len(c.up) >= Cap

\* What the client writes into is full, and nobody reads at its other end.
CliStuck(c) == Len(c.up) >= Cap /\ (c.cut \/ c.srv = "none" \/ SrvStuck(c))

(* What holds of the client and the connection it is on.                   *)

\* Its end is open on the one connection it is on, in the states that have one; it writes
\* in a handshake or a session only.
Attached ==
  /\ \A l \in Links : link[l].cli <=> cl.on = l
  /\ cl.on # None <=> cl.at \in {"ask", "hello", "session"}
  /\ cl.wr # <<>> => cl.at \in {"hello", "session"}

\* The server it talks to has the certificate just confirmed, or the one on file.
Pinned == cl.at \in {"hello", "session"} => link[cl.on].cert \in {cl.just, known}

\* A session silent for longer than the limit is one whose client waits in a write that
\* nothing will take.
Noticed ==
  cl.at = "session" /\ cl.quiet > Silence => cl.wr # <<>> /\ CliStuck(link[cl.on])

Conns == \A l \in Links : SrvSide(link[l]) /\ (link[l].cli => Exchange(link[l], cl.wr))

Inv == Types /\ Attached /\ Conns /\ Pinned /\ Noticed

----------------------------------------------------------------------------
(* Records and pipes.                                                      *)

LEMMA Constants ==
  /\ Cap \in Nat \ {0} /\ Burst \in Nat \ {0} /\ Silence \in Nat \ {0}
  /\ Patience \in Nat \ {0} /\ MaxDelay \in Nat \ {0}
  /\ Misses \in Nat /\ Misses > 1
  /\ MaxMissed \in Nat /\ MaxMissed >= Misses /\ MaxMissed >= Patience
  BY LinkAssumption DEF MaxMissed

\* A slot nobody uses.
LEMMA FreeIsFine ==
  Free \in Conn /\ SrvSide(Free) /\ ~ Free.cli /\ Free.up = <<>> /\ ~ Free.over /\ Free.srv = "none"
<1>1. Free \in Conn
  <2>1. <<>> \in Seq(Msgs) /\ 0 \in 0..MaxMissed
    BY Constants
  <2> QED
    BY <2>1 DEF Free, Conn
<1> QED
  BY <1>1, Constants DEF Free, SrvSide, Serves

\* What is left when the first message is taken.
LEMMA FirstTaken ==
  ASSUME NEW q \in Seq(Msgs), q # <<>>
  PROVE  /\ Tail(q) \in Seq(Msgs) /\ Len(q) \in Nat \ {0} /\ Len(Tail(q)) = Len(q) - 1
         /\ Head(q) \in Msgs
         /\ Asks(q) => Head(q) = "ka" \/ Asks(Tail(q))
<1>1. /\ Tail(q) \in Seq(Msgs) /\ Len(q) \in Nat \ {0} /\ Len(Tail(q)) = Len(q) - 1
      /\ Head(q) \in Msgs /\ Head(q) = q[1]
      /\ \A i \in 1..Len(Tail(q)) : Tail(q)[i] = q[i + 1]
  OBVIOUS
<1>2. ASSUME NEW i \in 1..Len(q), q[i] = "ka", i # 1 PROVE Asks(Tail(q))
  <2>1. i - 1 \in 1..Len(Tail(q)) /\ Tail(q)[i - 1] = "ka"
    BY <1>1, <1>2
  <2> QED
    BY <2>1 DEF Asks
<1>3. Asks(q) => Head(q) = "ka" \/ Asks(Tail(q))
  BY <1>1, <1>2 DEF Asks
<1> QED
  BY <1>1, <1>3

\* And when one more is put in.
LEMMA OneMore ==
  ASSUME NEW q \in Seq(Msgs), NEW m \in Msgs
  PROVE  /\ Append(q, m) \in Seq(Msgs) /\ Len(Append(q, m)) = Len(q) + 1 /\ Append(q, m) # <<>>
         /\ Asks(q) \/ m = "ka" => Asks(Append(q, m))
<1>1. /\ Append(q, m) \in Seq(Msgs) /\ Len(Append(q, m)) = Len(q) + 1 /\ Len(q) \in Nat
      /\ Append(q, m)[Len(q) + 1] = m
      /\ \A i \in 1..Len(q) : Append(q, m)[i] = q[i]
  OBVIOUS
<1>2. Len(q) + 1 \in 1..Len(Append(q, m))
  BY <1>1
<1>3. m = "ka" => Asks(Append(q, m))
  BY <1>1, <1>2 DEF Asks
<1>4. Asks(q) => Asks(Append(q, m))
  BY <1>1 DEF Asks
<1> QED
  BY <1>1, <1>3, <1>4

\* What the two sides write in one go.
LEMMA Writings ==
  /\ <<>> \in Seq(Msgs) /\ Len(<<>>) = 0 /\ ~ Asks(<<>>)
  /\ <<"hello">> \in Seq(Msgs) /\ <<"hello">> # <<>>
  /\ <<"ka">> \in Seq(Msgs) /\ <<"ka">> # <<>> /\ Asks(<<"ka">>)
  /\ <<"ka", "close", "close">> \in Seq(Msgs) /\ <<"ka", "close", "close">> # <<>>
  /\ \A m \in Msgs : <<m>> \in Seq(Msgs) /\ <<m>> # <<>>
  /\ [i \in 1..Burst |-> "bulk"] \in Seq(Msgs) /\ [i \in 1..Burst |-> "bulk"] # <<>>
<1>1. <<>> \in Seq(Msgs) /\ Len(<<>>) = 0 /\ ~ Asks(<<>>)
  BY DEF Asks
<1>2. \A m \in Msgs : <<m>> \in Seq(Msgs) /\ <<m>> # <<>>
  OBVIOUS
<1>3. "ka" \in Msgs /\ "close" \in Msgs /\ "hello" \in Msgs /\ "bulk" \in Msgs
  BY DEF Msgs
<1>4. Asks(<<"ka">>)
  <2>1. Len(<<"ka">>) = 1 /\ <<"ka">>[1] = "ka"
    OBVIOUS
  <2> QED
    BY <2>1 DEF Asks
<1>5. <<"ka", "close", "close">> \in Seq(Msgs) /\ <<"ka", "close", "close">> # <<>>
  BY <1>3
<1>6. [i \in 1..Burst |-> "bulk"] \in Seq(Msgs) /\ [i \in 1..Burst |-> "bulk"] # <<>>
  <2> DEFINE b == [i \in 1..Burst |-> "bulk"]
  <2>1. b \in Seq(Msgs) /\ Len(b) = Burst
    BY <1>3, Constants
  <2>2. b # <<>>
    BY <2>1, Constants
  <2> QED
    BY <2>1, <2>2
<1> QED
  BY <1>1, <1>2, <1>3, <1>4, <1>5, <1>6

\* Tidying frees only slots that both sides have left.
LEMMA TidyFrees ==
  ASSUME NEW f \in [Links -> Conn]
  PROVE  /\ Tidy(f) \in [Links -> Conn]
         /\ \A l \in Links : \/ Tidy(f)[l] = f[l]
                             \/ Tidy(f)[l] = Free /\ ~ f[l].cli /\ f[l].srv = "none"
  BY FreeIsFine DEF Tidy

----------------------------------------------------------------------------
(* The server's task takes a step.                                         *)

\* The server's task turned its connection c into d, with w what the client is writing.
Served(c, d, w) ==
  /\ d \in Conn
  /\ d.cli = c.cli /\ d.cert = c.cert
  /\ SrvSide(d)
  /\ c.cli => Exchange(d, w)
  /\ CliStuck(c) => CliStuck(d)
  /\ c.up = <<>> => d.up = <<>>
  /\ c.cli /\ Serves(c) /\ ~ c.cut => ~ d.over

LEMMA ReadServed ==
  ASSUME NEW c \in Conn, SrvSide(c), NEW w, c.srv = "serving", c.wr = <<>>, c.up # <<>>, ~ c.cut
  PROVE  Served(c, [c EXCEPT !.up = Tail(@), !.missed = 0], w)
<1> DEFINE d == [c EXCEPT !.up = Tail(@), !.missed = 0]
<1> SUFFICES Served(c, d, w)
  OBVIOUS
<1>1. c.up \in Seq(Msgs) /\ Tail(c.up) \in Seq(Msgs) /\ Len(Tail(c.up)) = Len(c.up) - 1
  <2>1. c.up \in Seq(Msgs)
    BY DEF Conn
  <2> QED
    BY <2>1, FirstTaken
<1>2. /\ d.up = Tail(c.up) /\ d.missed = 0 /\ d.due = c.due /\ d.dead = c.dead
      /\ d.srv = c.srv /\ d.wr = c.wr /\ d.over = c.over /\ d.down = c.down /\ d.cut = c.cut
      /\ d.cli = c.cli /\ d.cert = c.cert
  BY DEF Conn
<1>3. d \in Conn
  <2>1. 0 \in 0..MaxMissed
    BY Constants
  <2> QED
    BY <1>1, <2>1, Zenon DEF Conn
<1>4. Len(d.up) <= Cap /\ Len(d.down) <= Cap
  BY <1>1, <1>2, Constants DEF SrvSide
<1>5. SrvSide(d)
  <2> HIDE DEF d
  <2> QED
    BY <1>2, <1>4, Constants DEF SrvSide, Serves
<1>6. Exchange(d, w) /\ ~ CliStuck(c) /\ c.up # <<>>
  <2> HIDE DEF d
  <2> QED
    BY <1>2 DEF Exchange, CliStuck, SrvStuck
<1> HIDE DEF d
<1> QED
  BY <1>2, <1>3, <1>5, <1>6 DEF Served, Serves

\* Welcome: the session begins.
LEMMA WelcomeServed ==
  ASSUME NEW c \in Conn, SrvSide(c), NEW w, c.srv = "hello", c.wr = <<>>, c.up # <<>>, ~ c.cut
  PROVE  Served(c, [c EXCEPT !.up = Tail(@), !.wr = <<"welcome">>, !.missed = 0,
                             !.srv = "serving", !.due = TRUE], w)
<1> DEFINE d == [c EXCEPT !.up = Tail(@), !.wr = <<"welcome">>, !.missed = 0,
                          !.srv = "serving", !.due = TRUE]
<1> SUFFICES Served(c, d, w)
  OBVIOUS
<1>1. c.up \in Seq(Msgs) /\ Tail(c.up) \in Seq(Msgs) /\ Len(Tail(c.up)) = Len(c.up) - 1
  <2>1. c.up \in Seq(Msgs)
    BY DEF Conn
  <2> QED
    BY <2>1, FirstTaken
<1>2. <<"welcome">> \in Seq(Msgs) /\ <<"welcome">> # <<>> /\ 0 \in 0..MaxMissed
  BY Writings, Constants DEF Msgs
<1>3. /\ d.up = Tail(c.up) /\ d.missed = 0 /\ d.due /\ d.dead = c.dead
      /\ d.srv = "serving" /\ d.wr = <<"welcome">> /\ d.over = c.over /\ d.down = c.down
      /\ d.cut = c.cut /\ d.cli = c.cli /\ d.cert = c.cert
  BY DEF Conn
<1>4. d \in Conn
  BY <1>1, <1>2, Zenon DEF Conn
<1>5. ~ c.over
  BY DEF SrvSide
<1>6. Len(d.up) <= Cap /\ Len(d.down) <= Cap
  BY <1>1, <1>3, Constants DEF SrvSide
<1> HIDE DEF d
<1>7. SrvSide(d)
  BY <1>2, <1>3, <1>5, <1>6, Constants DEF SrvSide, Serves
<1>8. Exchange(d, w) /\ ~ CliStuck(c)
  BY <1>3 DEF Exchange, CliStuck, SrvStuck
<1> QED
  BY <1>3, <1>4, <1>5, <1>7, <1>8 DEF Served

\* Another answer to the hello: the task will end when it is written.
LEMMA RefusalServed ==
  ASSUME NEW c \in Conn, SrvSide(c), NEW w, NEW m \in Msgs,
         c.srv = "hello", c.wr = <<>>, c.up # <<>>, ~ c.cut
  PROVE  Served(c, [c EXCEPT !.up = Tail(@), !.wr = <<m>>, !.missed = 0, !.over = TRUE], w)
<1> DEFINE d == [c EXCEPT !.up = Tail(@), !.wr = <<m>>, !.missed = 0, !.over = TRUE]
<1> SUFFICES Served(c, d, w)
  OBVIOUS
<1>1. c.up \in Seq(Msgs) /\ Tail(c.up) \in Seq(Msgs) /\ Len(Tail(c.up)) = Len(c.up) - 1
  <2>1. c.up \in Seq(Msgs)
    BY DEF Conn
  <2> QED
    BY <2>1, FirstTaken
<1>2. <<m>> \in Seq(Msgs) /\ <<m>> # <<>> /\ 0 \in 0..MaxMissed
  BY Writings, Constants
<1>3. /\ d.up = Tail(c.up) /\ d.missed = 0 /\ d.due = c.due /\ d.dead = c.dead
      /\ d.srv = "hello" /\ d.wr = <<m>> /\ d.over /\ d.down = c.down
      /\ d.cut = c.cut /\ d.cli = c.cli /\ d.cert = c.cert
  BY DEF Conn
<1>4. d \in Conn
  BY <1>1, <1>2, Zenon DEF Conn
<1>5. Len(d.up) <= Cap /\ Len(d.down) <= Cap
  BY <1>1, <1>3, Constants DEF SrvSide
<1> HIDE DEF d
<1>6. SrvSide(d)
  BY <1>2, <1>3, <1>5, Constants DEF SrvSide, Serves
<1>7. Exchange(d, w) /\ ~ CliStuck(c) /\ ~ Serves(c)
  BY <1>3 DEF Exchange, CliStuck, SrvStuck, Serves
<1> QED
  BY <1>3, <1>4, <1>6, <1>7 DEF Served

\* One message goes into the pipe: a question stays on its way.
LEMMA WriteServed ==
  ASSUME NEW c \in Conn, SrvSide(c), NEW w, c.cli => Exchange(c, w),
         c.srv \in {"hello", "serving"}, c.wr # <<>>, Len(c.down) < Cap
  PROVE  LET d == [c EXCEPT !.down = Append(@, Head(c.wr)), !.wr = Tail(@)]
         IN  Served(c, IF d.over /\ d.wr = <<>> THEN [d EXCEPT !.srv = "none"] ELSE d, w)
<1> DEFINE d == [c EXCEPT !.down = Append(@, Head(c.wr)), !.wr = Tail(@)]
           e == [d EXCEPT !.srv = "none"]
<1>0. c.wr \in Seq(Msgs) /\ c.down \in Seq(Msgs) /\ c.up \in Seq(Msgs)
  BY DEF Conn
<1>1. /\ Tail(c.wr) \in Seq(Msgs) /\ Head(c.wr) \in Msgs
      /\ Asks(c.wr) => Head(c.wr) = "ka" \/ Asks(Tail(c.wr))
  BY <1>0, FirstTaken
<1>2. /\ Append(c.down, Head(c.wr)) \in Seq(Msgs)
      /\ Len(Append(c.down, Head(c.wr))) = Len(c.down) + 1
      /\ Asks(c.down) \/ Head(c.wr) = "ka" => Asks(Append(c.down, Head(c.wr)))
  BY <1>0, <1>1, OneMore
<1>3. /\ d.down = Append(c.down, Head(c.wr)) /\ d.wr = Tail(c.wr) /\ d.up = c.up
      /\ d.missed = c.missed /\ d.due = c.due /\ d.dead = c.dead /\ d.srv = c.srv
      /\ d.over = c.over /\ d.cut = c.cut /\ d.cli = c.cli /\ d.cert = c.cert
  BY DEF Conn
<1>4. d \in Conn
  BY <1>1, <1>2, Zenon DEF Conn
<1>5. e \in Conn
  <2> HIDE DEF d
  <2> QED
    BY <1>4, Zenon DEF Conn
<1>6. /\ e.down = d.down /\ e.wr = d.wr /\ e.up = c.up
      /\ e.missed = c.missed /\ e.due = c.due /\ e.dead = c.dead /\ e.srv = "none"
      /\ e.over = c.over /\ e.cut = c.cut /\ e.cli = c.cli /\ e.cert = c.cert
  <2> HIDE DEF d
  <2> QED
    BY <1>3, <1>4 DEF Conn
<1>7. Len(c.down) \in Nat /\ Len(d.down) <= Cap /\ Len(d.up) <= Cap /\ ~ SrvStuck(c)
  BY <1>0, <1>2, <1>3, Constants DEF SrvSide, SrvStuck
<1>8. CASE ~ (d.over /\ d.wr = <<>>)
  <2> SUFFICES Served(c, d, w)
    BY <1>8
  <2> HIDE DEF d, e
  <2>1. SrvSide(d)
    BY <1>3, <1>7, <1>8, Constants DEF SrvSide, Serves
  <2>2. c.cli => Exchange(d, w)
    BY <1>1, <1>2, <1>3, <1>7 DEF Exchange, Serves
  <2>3. CliStuck(c) => CliStuck(d)
    BY <1>3, <1>7 DEF CliStuck
  <2> QED
    BY <1>3, <1>4, <2>1, <2>2, <2>3 DEF Served, Serves
<1>9. CASE d.over /\ d.wr = <<>>
  <2> SUFFICES Served(c, e, w)
    BY <1>9
  <2> HIDE DEF d, e
  <2>1. SrvSide(e)
    BY <1>3, <1>6, <1>7, Constants DEF SrvSide, Serves
  <2>2. Exchange(e, w) /\ (CliStuck(c) => CliStuck(e)) /\ ~ Serves(c)
    BY <1>3, <1>6, <1>9 DEF Exchange, Serves, CliStuck
  <2> QED
    BY <1>3, <1>5, <1>6, <2>1, <2>2 DEF Served
<1> QED
  BY <1>8, <1>9

\* The task ends.
LEMMA GoneServed ==
  ASSUME NEW c \in Conn, SrvSide(c), NEW w
  PROVE  Served(c, [c EXCEPT !.srv = "none", !.wr = <<>>], w)
<1> DEFINE d == [c EXCEPT !.srv = "none", !.wr = <<>>]
<1> SUFFICES Served(c, d, w)
  OBVIOUS
<1>1. /\ d.up = c.up /\ d.missed = c.missed /\ d.due = c.due /\ d.dead = c.dead
      /\ d.srv = "none" /\ d.wr = <<>> /\ d.over = c.over /\ d.down = c.down
      /\ d.cut = c.cut /\ d.cli = c.cli /\ d.cert = c.cert
  BY DEF Conn
<1>2. d \in Conn
  BY Writings, Zenon DEF Conn
<1> HIDE DEF d
<1>3. SrvSide(d)
  BY <1>1, Constants DEF SrvSide, Serves
<1>4. Exchange(d, w) /\ (CliStuck(c) => CliStuck(d))
  BY <1>1 DEF Exchange, Serves, CliStuck
<1> QED
  BY <1>1, <1>2, <1>3, <1>4 DEF Served, Serves

\* A probe, which ends the session only if the connection is cut or the client gone.
LEMMA ProbeServed ==
  ASSUME NEW c \in Conn, SrvSide(c), NEW w, c.cli => Exchange(c, w),
         c.srv = "serving", c.due, c.wr = <<>>
  PROVE  LET d == [c EXCEPT !.due = FALSE, !.missed = @ + 1]
         IN  Served(c, IF d.missed >= Misses
                       THEN [d EXCEPT !.wr = <<"ka", "close", "close">>, !.over = TRUE]
                       ELSE [d EXCEPT !.wr = <<"ka">>], w)
<1> DEFINE d == [c EXCEPT !.due = FALSE, !.missed = @ + 1]
           last == [d EXCEPT !.wr = <<"ka", "close", "close">>, !.over = TRUE]
           more == [d EXCEPT !.wr = <<"ka">>]
<1>0. c.missed \in 0..MaxMissed /\ c.missed < Misses /\ ~ c.over /\ c.dead \in Nat
  BY DEF Conn, SrvSide, Serves
<1>1. c.missed + 1 \in 0..MaxMissed /\ c.missed \in Nat
  BY <1>0, Constants
<1>2. /\ d.up = c.up /\ d.missed = c.missed + 1 /\ ~ d.due /\ d.dead = c.dead
      /\ d.srv = "serving" /\ d.wr = <<>> /\ ~ d.over /\ d.down = c.down
      /\ d.cut = c.cut /\ d.cli = c.cli /\ d.cert = c.cert
  BY <1>0 DEF Conn
<1>3. d \in Conn
  BY <1>1, Zenon DEF Conn
<1>4. last \in Conn /\ more \in Conn
  <2> HIDE DEF d
  <2> QED
    BY <1>3, Writings, Zenon DEF Conn
<1>5. /\ last.up = c.up /\ last.missed = c.missed + 1 /\ ~ last.due /\ last.dead = c.dead
      /\ last.srv = "serving" /\ last.wr = <<"ka", "close", "close">> /\ last.over
      /\ last.down = c.down /\ last.cut = c.cut /\ last.cli = c.cli /\ last.cert = c.cert
  <2> HIDE DEF d
  <2> QED
    BY <1>2, <1>3 DEF Conn
<1>6. /\ more.up = c.up /\ more.missed = c.missed + 1 /\ ~ more.due /\ more.dead = c.dead
      /\ more.srv = "serving" /\ more.wr = <<"ka">> /\ ~ more.over
      /\ more.down = c.down /\ more.cut = c.cut /\ more.cli = c.cli /\ more.cert = c.cert
  <2> HIDE DEF d
  <2> QED
    BY <1>2, <1>3 DEF Conn
<1>7. c.cli /\ ~ c.cut => c.missed = 0
  BY <1>0, <1>1 DEF Exchange, Serves, SrvStuck
<1>8. CliStuck(c) => Len(c.up) >= Cap /\ c.cut
  BY DEF CliStuck, SrvStuck
<1>9. c.cut => c.dead <= c.missed + 1
  BY <1>0 DEF SrvSide, Serves, SrvStuck
<1>10. CASE d.missed >= Misses
  <2> SUFFICES Served(c, last, w)
    BY <1>10
  <2> HIDE DEF d, last, more
  <2>1. SrvSide(last)
    BY <1>5, Writings DEF SrvSide, Serves
  <2>2. Exchange(last, w) /\ (CliStuck(c) => CliStuck(last))
    BY <1>5, <1>8 DEF Exchange, Serves, CliStuck
  <2>3. ~ (c.cli /\ ~ c.cut)
    BY <1>2, <1>7, <1>10, Constants
  <2> QED
    BY <1>4, <1>5, <2>1, <2>2, <2>3 DEF Served
<1>11. CASE ~ (d.missed >= Misses)
  <2> SUFFICES Served(c, more, w)
    BY <1>11
  <2> HIDE DEF d, last, more
  <2>1. c.missed + 1 < Misses
    BY <1>1, <1>2, <1>11, Constants
  <2>2. SrvSide(more)
    BY <1>1, <1>6, <1>9, <2>1, Writings DEF SrvSide, Serves
  <2>3. c.cli => Exchange(more, w)
    BY <1>6, <1>7, Writings DEF Exchange, Serves
  <2>4. CliStuck(c) => CliStuck(more)
    BY <1>6, <1>8 DEF CliStuck
  <2> QED
    BY <1>4, <1>6, <2>2, <2>3, <2>4 DEF Served
<1> QED
  BY <1>10, <1>11

\* A burst is taken out of the outbox.
LEMMA BurstServed ==
  ASSUME NEW c \in Conn, SrvSide(c), NEW w, c.cli => Exchange(c, w),
         c.srv = "serving", c.wr = <<>>, NEW b \in Seq(Msgs), b # <<>>
  PROVE  Served(c, [c EXCEPT !.wr = b], w)
<1> DEFINE d == [c EXCEPT !.wr = b]
<1> SUFFICES Served(c, d, w)
  OBVIOUS
<1>1. /\ d.up = c.up /\ d.missed = c.missed /\ d.due = c.due /\ d.dead = c.dead
      /\ d.srv = "serving" /\ d.wr = b /\ d.over = c.over /\ d.down = c.down
      /\ d.cut = c.cut /\ d.cli = c.cli /\ d.cert = c.cert
  BY DEF Conn
<1>2. d \in Conn
  BY Zenon DEF Conn
<1>3. ~ SrvStuck(c) /\ ~ Asks(c.wr)
  BY Writings DEF SrvStuck
<1> HIDE DEF d
<1>4. SrvSide(d)
  BY <1>1, <1>3 DEF SrvSide, Serves
<1>5. c.cli => Exchange(d, w)
  BY <1>1, <1>3 DEF Exchange, Serves
<1>6. CliStuck(c) => CliStuck(d)
  BY <1>1, <1>3 DEF CliStuck
<1> QED
  BY <1>1, <1>2, <1>4, <1>5, <1>6 DEF Served, Serves

\* The connection is cut: nothing has been missed yet.
LEMMA CutServed ==
  ASSUME NEW c \in Conn, SrvSide(c), NEW w, ~ c.cut
  PROVE  Served(c, [c EXCEPT !.cut = TRUE], w)
<1> DEFINE d == [c EXCEPT !.cut = TRUE]
<1> SUFFICES Served(c, d, w)
  OBVIOUS
<1>1. /\ d.up = c.up /\ d.missed = c.missed /\ d.due = c.due /\ d.dead = c.dead
      /\ d.srv = c.srv /\ d.wr = c.wr /\ d.over = c.over /\ d.down = c.down
      /\ d.cut /\ d.cli = c.cli /\ d.cert = c.cert /\ c.missed \in Nat
  BY Constants DEF Conn
<1>2. d \in Conn
  BY Zenon DEF Conn
<1> HIDE DEF d
<1>3. SrvSide(d)
  <2>1. c.dead = 0 /\ 0 <= c.missed + (IF c.due THEN 1 ELSE 0)
    BY <1>1 DEF SrvSide
  <2> QED
    BY <1>1, <2>1 DEF SrvSide, Serves
<1>4. Exchange(d, w) /\ (CliStuck(c) => CliStuck(d))
  BY <1>1 DEF Exchange, CliStuck, SrvStuck
<1> QED
  BY <1>1, <1>2, <1>3, <1>4 DEF Served, Serves

----------------------------------------------------------------------------
(* What a step may not do, besides the invariant.                          *)

\* The server's session goes on while the connection is up and the client is there; what
\* the server gets to read comes from a client that trusts it.
StepFine ==
  \A l \in Links :
    /\ link[l].cli /\ Serves(link[l]) /\ ~ link[l].cut => ~ link'[l].over
    /\ link[l].up = <<>> /\ link'[l].up # <<>> => link[l].cert \in {cl.just, known}

\* Steps of servers' tasks and of what happens to them.
LEMMA ServersStep ==
  ASSUME Inv, UNCHANGED <<cl, known>>, link' \in [Links -> Conn],
         server' \in [cert : Certs, up : BOOLEAN, speaks : BOOLEAN],
         faults' \in 0..MaxFaults, bulks' \in 0..MaxBulk,
         \A k \in Links : \/ link'[k] = link[k]
                          \/ Served(link[k], link'[k], cl.wr)
                          \/ ~ link[k].cli /\ link'[k] = Free
  PROVE  Inv' /\ StepFine
<1>1. Types'
  BY DEF Inv, Types
<1>2. ASSUME NEW k \in Links
      PROVE  /\ link'[k].cli = link[k].cli
             /\ SrvSide(link'[k])
             /\ link'[k].cli => Exchange(link'[k], cl.wr)
             /\ link[k].cli => link'[k].cert = link[k].cert
             /\ link[k].cli /\ CliStuck(link[k]) => CliStuck(link'[k])
             /\ link[k].up = <<>> => link'[k].up = <<>>
             /\ link[k].cli /\ Serves(link[k]) /\ ~ link[k].cut => ~ link'[k].over
  <2>0. link[k].cli \in BOOLEAN
    BY DEF Inv, Types, Conn
  <2>1. CASE link'[k] = link[k]
    BY <2>1 DEF Inv, Conns, Serves
  <2>2. CASE Served(link[k], link'[k], cl.wr)
    BY <2>2 DEF Served
  <2>3. CASE ~ link[k].cli /\ link'[k] = Free
    <3>1. link[k].cli = FALSE /\ Free.cli = FALSE
      BY <2>0, <2>3 DEF Free
    <3>2. SrvSide(link'[k]) /\ link'[k].up = <<>> /\ ~ link'[k].over
      BY <2>3, FreeIsFine
    <3> QED
      BY <2>3, <3>1, <3>2
  <2> QED
    BY <2>1, <2>2, <2>3
<1>3. Attached'
  BY <1>2 DEF Inv, Attached
<1>4. Conns'
  <2>1. \A k \in Links : SrvSide(link'[k]) /\ (link'[k].cli => Exchange(link'[k], cl'.wr))
    BY <1>2
  <2> QED
    BY <2>1 DEF Conns
<1>5. cl.at \in {"hello", "session"} => cl.on \in Links /\ link[cl.on].cli
  BY DEF Inv, Attached, Types, Client
<1>6. Pinned'
  BY <1>2, <1>5 DEF Inv, Pinned
<1>7. Noticed'
  <2>1. cl'.at = "session" /\ cl'.quiet > Silence => cl'.wr # <<>> /\ CliStuck(link'[cl'.on])
    BY <1>2, <1>5 DEF Inv, Noticed
  <2> QED
    BY <2>1 DEF Noticed
<1>8. StepFine
  BY <1>2 DEF StepFine
<1> QED
  BY <1>1, <1>3, <1>4, <1>6, <1>7, <1>8 DEF Inv

\* A server's step on one connection, which may leave a slot free.
LEMMA ServedStep ==
  ASSUME Inv, NEW l \in Links, NEW d, Served(link[l], d, cl.wr), UNCHANGED <<cl, known>>,
         \/ link' = [link EXCEPT ![l] = d]
         \/ link' = Tidy([link EXCEPT ![l] = d]),
         server' = server, faults' \in 0..MaxFaults, bulks' \in 0..MaxBulk
  PROVE  Inv' /\ StepFine
<1> DEFINE f == [link EXCEPT ![l] = d]
<1>1. link \in [Links -> Conn] /\ d \in Conn /\ d.cli = link[l].cli
  BY DEF Inv, Types, Served
<1>2. /\ f \in [Links -> Conn] /\ f[l] = d
      /\ \A k \in Links : k # l => f[k] = link[k]
  BY <1>1
<1>3. server' \in [cert : Certs, up : BOOLEAN, speaks : BOOLEAN]
  BY DEF Inv, Types
<1> HIDE DEF f
<1>4. \A k \in Links : (f[k] = link[k] \/ Served(link[k], f[k], cl.wr)) /\ f[k].cli = link[k].cli
  BY <1>1, <1>2
<1>5. CASE link' = f
  BY <1>2, <1>3, <1>4, <1>5, ServersStep
<1>6. CASE link' = Tidy(f)
  <2>1. link' \in [Links -> Conn]
    BY <1>2, <1>6, TidyFrees
  <2>2. \A k \in Links : link'[k] = f[k] \/ (link'[k] = Free /\ ~ f[k].cli)
    BY <1>2, <1>6, TidyFrees
  <2> QED
    BY <1>3, <1>4, <2>1, <2>2, ServersStep
<1> QED
  BY <1>5, <1>6 DEF f

LEMMA OneConn ==
  ASSUME Inv, NEW l \in Links
  PROVE  /\ link \in [Links -> Conn] /\ link[l] \in Conn /\ SrvSide(link[l])
         /\ link[l].cli => Exchange(link[l], cl.wr)
         /\ faults \in 0..MaxFaults /\ bulks \in 0..MaxBulk
  BY DEF Inv, Types, Conns

LEMMA SrvReadStep == ASSUME Inv, NEW l \in Links, SrvRead(l) PROVE Inv' /\ StepFine
<1> DEFINE d == [link[l] EXCEPT !.up = Tail(@), !.missed = 0]
<1>1. Served(link[l], d, cl.wr)
  BY OneConn, ReadServed DEF SrvRead, SrvReads
<1>2. link' = [link EXCEPT ![l] = d]
  BY DEF SrvRead
<1> HIDE DEF d
<1> QED
  BY <1>1, <1>2, OneConn, ServedStep DEF SrvRead, bounds

LEMMA SrvHelloStep == ASSUME Inv, NEW l \in Links, SrvHello(l) PROVE Inv' /\ StepFine
<1>1. UNCHANGED <<cl, known, server, bounds>> /\ link[l].srv = "hello"
      /\ link[l].wr = <<>> /\ link[l].up # <<>> /\ ~ link[l].cut
  BY DEF SrvHello, SrvReads
<1> DEFINE c == [link[l] EXCEPT !.up = Tail(@), !.wr = <<"welcome">>, !.missed = 0,
                                !.srv = "serving", !.due = TRUE]
           r(m) == [link[l] EXCEPT !.up = Tail(@), !.wr = <<m>>, !.missed = 0, !.over = TRUE]
<1>2. Served(link[l], c, cl.wr) /\ \A m \in Msgs : Served(link[l], r(m), cl.wr)
  BY <1>1, OneConn, WelcomeServed, RefusalServed
<1>3. \/ link' = [link EXCEPT ![l] = c]
      \/ link' = [link EXCEPT ![l] = r("rejected")]
      \/ link' = [link EXCEPT ![l] = r("incompatible")]
  BY OneConn DEF SrvHello, Conn
<1>4. Served(link[l], r("rejected"), cl.wr) /\ Served(link[l], r("incompatible"), cl.wr)
  BY <1>2 DEF Msgs
<1> HIDE DEF c, r
<1> QED
  BY <1>1, <1>2, <1>3, <1>4, OneConn, ServedStep DEF bounds

LEMMA SrvWriteStep == ASSUME Inv, NEW l \in Links, SrvWrite(l) PROVE Inv' /\ StepFine
<1> DEFINE c == [link[l] EXCEPT !.down = Append(@, Head(link[l].wr)), !.wr = Tail(@)]
           d == IF c.over /\ c.wr = <<>> THEN [c EXCEPT !.srv = "none"] ELSE c
<1>1. Served(link[l], d, cl.wr)
  BY OneConn, WriteServed DEF SrvWrite, SrvWrites, Alive
<1>2. link' = Tidy([link EXCEPT ![l] = d])
  BY DEF SrvWrite
<1> HIDE DEF d
<1> QED
  BY <1>1, <1>2, OneConn, ServedStep DEF SrvWrite, bounds

\* The task ends and its Registration is dropped.
LEMMA SrvGoneStep ==
  ASSUME Inv, NEW l \in Links, SrvGone(l), UNCHANGED <<cl, known, server, bounds>>
  PROVE  Inv' /\ StepFine
<1> DEFINE d == [link[l] EXCEPT !.srv = "none", !.wr = <<>>]
<1>1. Served(link[l], d, cl.wr)
  BY OneConn, GoneServed
<1>2. link' = Tidy([link EXCEPT ![l] = d])
  BY DEF SrvGone
<1> HIDE DEF d
<1> QED
  BY <1>1, <1>2, OneConn, ServedStep DEF bounds

LEMMA ProbeStep == ASSUME Inv, NEW l \in Links, Probe(l) PROVE Inv' /\ StepFine
<1> DEFINE c == [link[l] EXCEPT !.due = FALSE, !.missed = @ + 1]
           d == IF c.missed >= Misses
                THEN [c EXCEPT !.wr = <<"ka", "close", "close">>, !.over = TRUE]
                ELSE [c EXCEPT !.wr = <<"ka">>]
<1>1. Served(link[l], d, cl.wr)
  BY OneConn, ProbeServed DEF Probe
<1>2. link' = [link EXCEPT ![l] = d]
  BY DEF Probe
<1> HIDE DEF d
<1> QED
  BY <1>1, <1>2, OneConn, ServedStep DEF Probe, bounds

LEMMA OneBulkMore ==
  ASSUME Inv, MoreBulk, bulks' = bulks + 1 PROVE bulks' \in 0..MaxBulk
  BY LinkAssumption DEF MoreBulk, Inv, Types

LEMMA SrvBulkStep == ASSUME Inv, NEW l \in Links, SrvBulk(l) PROVE Inv' /\ StepFine
<1> DEFINE b == [i \in 1..Burst |-> "bulk"]
           d == [link[l] EXCEPT !.wr = b]
<1>1. b \in Seq(Msgs) /\ b # <<>>
  BY Writings
<1>2. link' = [link EXCEPT ![l] = [link[l] EXCEPT !.wr = b]]
  BY OneConn DEF SrvBulk
<1> HIDE DEF b
<1>3. Served(link[l], d, cl.wr)
  BY <1>1, OneConn, BurstServed DEF SrvBulk
<1> HIDE DEF d
<1>4. link' = [link EXCEPT ![l] = d]
  BY <1>2 DEF d
<1> QED
  BY <1>3, <1>4, OneConn, OneBulkMore, ServedStep DEF SrvBulk

LEMMA OneFaultMore ==
  ASSUME Inv, Fault PROVE faults' \in 0..MaxFaults /\ bulks' = bulks
  BY LinkAssumption DEF Fault, Inv, Types

LEMMA CutStep == ASSUME Inv, NEW l \in Links, Cut(l) PROVE Inv' /\ StepFine
<1> DEFINE d == [link[l] EXCEPT !.cut = TRUE]
<1>1. Served(link[l], d, cl.wr)
  BY OneConn, CutServed DEF Cut
<1>2. link' = [link EXCEPT ![l] = d]
  BY DEF Cut
<1> HIDE DEF d
<1> QED
  BY <1>1, <1>2, OneConn, OneFaultMore, ServedStep DEF Cut

\* Every task is aborted.
LEMMA ServerStopsStep == ASSUME Inv, ServerStops PROVE Inv' /\ StepFine
<1> DEFINE f == [k \in Links |-> [link[k] EXCEPT !.srv = "none", !.wr = <<>>]]
<1>1. \A k \in Links : Served(link[k], f[k], cl.wr)
  BY OneConn, GoneServed
<1>2. link' = Tidy(f) /\ UNCHANGED <<cl, known>>
  BY DEF ServerStops
<1>3. server' \in [cert : Certs, up : BOOLEAN, speaks : BOOLEAN]
  BY DEF Inv, Types, ServerStops
<1>4. faults' \in 0..MaxFaults /\ bulks' \in 0..MaxBulk
  BY OneFaultMore DEF ServerStops, Inv, Types
<1>5. f \in [Links -> Conn] /\ \A k \in Links : f[k].cli = link[k].cli
  <2>1. \A k \in Links : f[k] \in Conn /\ f[k].cli = link[k].cli
    BY <1>1 DEF Served
  <2> QED
    BY <2>1
<1> HIDE DEF f
<1>6. link' \in [Links -> Conn]
  BY <1>2, <1>5, TidyFrees
<1>7. \A k \in Links : link'[k] = f[k] \/ (link'[k] = Free /\ ~ link[k].cli)
  BY <1>2, <1>5, TidyFrees
<1> QED
  BY <1>1, <1>2, <1>3, <1>4, <1>6, <1>7, ServersStep

----------------------------------------------------------------------------
(* The client takes a step.                                                *)

LEMMA OneClient ==
  ASSUME Inv
  PROVE  /\ cl \in Client /\ cl.wr \in Seq(Msgs) /\ known \in Certs \cup {None}
         /\ server \in [cert : Certs, up : BOOLEAN, speaks : BOOLEAN]
         /\ None \notin Links /\ None \notin Certs
  BY LinkAssumption DEF Inv, Types, Client

\* It hangs up, and is on no connection then.
LEMMA HangUpStep ==
  ASSUME Inv, NEW l \in Links, cl.on = l, Hangs(l),
         cl' \in Client, cl'.on = None, cl'.wr = <<>>, cl'.at \in {"wait", "fatal"},
         known' \in Certs \cup {None}, UNCHANGED <<server, bounds>>
  PROVE  Inv' /\ StepFine
<1> DEFINE d == [link[l] EXCEPT !.cli = FALSE]
           f == [link EXCEPT ![l] = d]
<1>1. link \in [Links -> Conn] /\ link[l] \in Conn
  BY OneConn
<1>2. /\ d.up = link[l].up /\ d.missed = link[l].missed /\ d.due = link[l].due
      /\ d.srv = link[l].srv /\ d.wr = link[l].wr /\ d.over = link[l].over
      /\ d.down = link[l].down /\ d.cut = link[l].cut /\ d.cli = FALSE
      /\ d.dead = link[l].dead
  BY <1>1 DEF Conn
<1>3. d \in Conn
  BY <1>1, Zenon DEF Conn
<1>4. link' = Tidy(f)
  BY <1>1 DEF Hangs
<1> HIDE DEF d
<1>5. f \in [Links -> Conn] /\ f[l] = d /\ \A k \in Links : k # l => f[k] = link[k]
  BY <1>1, <1>3
<1> HIDE DEF f
<1>6. link' \in [Links -> Conn] /\ \A k \in Links : link'[k] = f[k] \/ link'[k] = Free
  BY <1>4, <1>5, TidyFrees
<1>7. SrvSide(d)
  BY <1>2, OneConn DEF SrvSide, Serves, SrvStuck
<1>8. ASSUME NEW k \in Links
      PROVE  /\ SrvSide(link'[k]) /\ ~ link'[k].cli
             /\ link[k].up = <<>> => link'[k].up = <<>>
             /\ Serves(link[k]) => ~ link'[k].over
  <2>1. CASE link'[k] = Free
    BY <2>1, FreeIsFine
  <2>2. CASE k = l /\ link'[k] = d
    BY <1>2, <1>7, <2>2 DEF Serves
  <2>3. CASE k # l /\ link'[k] = link[k]
    <3>1. ~ link[k].cli
      BY <2>3 DEF Inv, Attached
    <3> QED
      BY <2>3, <3>1, OneConn DEF Serves
  <2> QED
    BY <1>5, <1>6, <2>1, <2>2, <2>3
<1>9. Types'
  BY <1>6, OneConn, OneClient DEF Types, bounds
<1>10. Attached'
  BY <1>8, OneClient DEF Attached
<1>11. Conns'
  <2>1. \A k \in Links : SrvSide(link'[k]) /\ (link'[k].cli => Exchange(link'[k], cl'.wr))
    BY <1>8
  <2> QED
    BY <2>1 DEF Conns
<1>12. Pinned' /\ Noticed'
  BY DEF Pinned, Noticed
<1>13. StepFine
  BY <1>8 DEF StepFine
<1> QED
  BY <1>9, <1>10, <1>11, <1>12, <1>13 DEF Inv

\* How long it waits after an attempt.
LEMMA NextDelayFits == ASSUME Inv PROVE NextDelay \in 1..MaxDelay
<1>1. cl.delay \in 1..MaxDelay /\ MaxDelay \in Nat \ {0}
  BY OneClient, Constants DEF Client
<1> QED
  BY <1>1 DEF NextDelay

LEMMA RestingClient ==
  ASSUME NEW n \in 1..MaxDelay
  PROVE  /\ Resting(n) \in Client /\ Resting(n).on = None /\ Resting(n).wr = <<>>
         /\ Resting(n).at = "wait"
<1>1. n \in 0..MaxDelay /\ n \in 1..MaxDelay /\ <<>> \in Seq(Msgs)
  BY Constants, Writings
<1>2. Doubled(n) \in 1..MaxDelay
  BY <1>1, Constants DEF Doubled
<1>3. Resting(n) \in Client
  BY <1>1, <1>2 DEF Resting, Client
<1> QED
  BY <1>3 DEF Resting

LEMMA FatalClient ==
  LET c == [Resting(1) EXCEPT !.at = "fatal", !.wait = 0]
  IN  c \in Client /\ c.on = None /\ c.wr = <<>> /\ c.at = "fatal"
<1>1. 1 \in 1..MaxDelay /\ 0 \in 0..MaxDelay
  BY Constants
<1>2. Resting(1) \in Client /\ Resting(1).on = None /\ Resting(1).wr = <<>>
  BY <1>1, RestingClient
<1>3. [Resting(1) EXCEPT !.at = "fatal", !.wait = 0] \in Client
  BY <1>1, <1>2, Zenon DEF Client
<1> QED
  BY <1>2, <1>3 DEF Client

LEMMA GivesUpStep ==
  ASSUME Inv, NEW l \in Links, cl.on = l, GivesUp(l), UNCHANGED <<known, server, bounds>>
  PROVE  Inv' /\ StepFine
  BY NextDelayFits, RestingClient, OneClient, HangUpStep DEF GivesUp

LEMMA FatalStep ==
  ASSUME Inv, NEW l \in Links, cl.on = l, Fatal(l), UNCHANGED <<known, server, bounds>>
  PROVE  Inv' /\ StepFine
  BY FatalClient, OneClient, HangUpStep DEF Fatal

LEMMA ConfirmedStep ==
  ASSUME Inv, NEW l \in Links, NEW saved \in BOOLEAN, Confirmed(l, saved)
  PROVE  Inv' /\ StepFine
<1>1. cl.wr = <<>> /\ cl.on = l
  BY DEF Confirmed, Inv, Attached
<1>2. link[l].cert \in Certs \cup {None}
  BY OneConn DEF Conn
<1>3. cl' \in Client
  BY <1>2, OneClient, Zenon DEF Confirmed, Client
<1>4. cl'.on = None /\ cl'.wr = <<>> /\ cl'.at = "wait"
  BY <1>1, OneClient DEF Confirmed, Client
<1>5. known' \in Certs \cup {None}
  BY <1>2, OneClient DEF Confirmed
<1> QED
  BY <1>1, <1>3, <1>4, <1>5, HangUpStep DEF Confirmed

\* It stays on its connection, and the other connections are as they were.
LEMMA ClientOnStep ==
  ASSUME Inv, NEW l \in Links, OnLink(l), NEW d \in Conn, link' = [link EXCEPT ![l] = d],
         SrvSide(d), d.cli, d.cert = link[l].cert, d.over = link[l].over, Exchange(d, cl'.wr),
         cl' \in Client, cl'.on = l, cl'.just = cl.just, cl'.at \in {"hello", "session"},
         cl.at \in {"hello", "session"}, bulks' \in 0..MaxBulk,
         cl'.at = "session" => cl'.quiet <= Silence \/ (cl'.wr # <<>> /\ CliStuck(d)),
         UNCHANGED <<known, server, faults>>
  PROVE  Inv' /\ StepFine
<1>1. link \in [Links -> Conn] /\ cl.on = l /\ link[l].cli /\ link[l].cli \in BOOLEAN
      /\ d.cli \in BOOLEAN
  BY OneConn DEF OnLink, Conn
<1>2. /\ link' \in [Links -> Conn] /\ link'[l] = d
      /\ \A k \in Links : k # l => link'[k] = link[k]
  BY <1>1
<1>3. \A k \in Links : k # l => ~ link[k].cli
  BY <1>1 DEF Inv, Attached
<1>4. Types'
  BY <1>2, OneConn, OneClient DEF Types
<1>5. Attached'
  <2>1. \A k \in Links : link'[k].cli <=> cl'.on = k
    BY <1>1, <1>2, <1>3
  <2> QED
    BY <2>1, OneClient DEF Attached
<1>6. Conns'
  <2>1. \A k \in Links : SrvSide(link'[k]) /\ (link'[k].cli => Exchange(link'[k], cl'.wr))
    BY <1>2, <1>3, OneConn
  <2> QED
    BY <2>1 DEF Conns
<1>7. link[l].cert \in {cl.just, known}
  BY <1>1 DEF Inv, Pinned
<1>8. Pinned'
  BY <1>2, <1>7 DEF Pinned
<1>9. Noticed'
  <2>1. cl'.quiet \in Nat /\ Silence \in Nat
    BY Constants DEF Client
  <2>2. cl'.at = "session" /\ cl'.quiet > Silence => cl'.wr # <<>> /\ CliStuck(link'[cl'.on])
    BY <1>2, <2>1
  <2> QED
    BY <2>2 DEF Noticed
<1>10. StepFine
  <2>1. \A k \in Links : Serves(link[k]) => ~ link[k].over
    BY DEF Serves
  <2>2. \A k \in Links : link[k].up = <<>> /\ link'[k].up # <<>> => k = l
    BY <1>2
  <2>3. \A k \in Links : link'[k].over = link[k].over
    BY <1>2
  <2> QED
    BY <1>7, <2>1, <2>2, <2>3 DEF StepFine
<1> QED
  BY <1>4, <1>5, <1>6, <1>8, <1>9, <1>10 DEF Inv

\* What is true of a client on a connection.
LEMMA OnIt ==
  ASSUME Inv, NEW l \in Links, OnLink(l)
  PROVE  /\ link[l].cli /\ cl.on = l /\ Exchange(link[l], cl.wr)
         /\ cl.quiet \in Nat /\ Silence \in Nat
         /\ cl.wr # <<>> => cl.at \in {"hello", "session"}
         /\ cl.at = "session" => cl.quiet <= Silence \/ (cl.wr # <<>> /\ CliStuck(link[l]))
<1>1. link[l].cli /\ cl.on = l /\ cl.quiet \in Nat /\ Silence \in Nat
  BY OneClient, Constants DEF OnLink, Client
<1>2. Exchange(link[l], cl.wr) /\ (cl.wr # <<>> => cl.at \in {"hello", "session"})
  BY <1>1, OneConn DEF Inv, Attached
<1>3. cl.at = "session" /\ cl.quiet > Silence => cl.wr # <<>> /\ CliStuck(link[l])
  BY <1>1 DEF Inv, Noticed
<1>4. cl.quiet > Silence \/ cl.quiet <= Silence
  BY <1>1
<1> QED
  BY <1>1, <1>2, <1>3, <1>4, Zenon

LEMMA CliWriteStep == ASSUME Inv, NEW l \in Links, CliWrite(l) PROVE Inv' /\ StepFine
<1> DEFINE c == link[l]
           d == [link[l] EXCEPT !.up = Append(@, Head(cl.wr))]
<1>1. OnLink(l) /\ cl.wr # <<>> /\ Len(c.up) < Cap
  BY DEF CliWrite, CliWrites
<1>2. c \in Conn /\ c.up \in Seq(Msgs) /\ SrvSide(c) /\ Len(c.up) \in Nat
  BY OneConn DEF Conn
<1>3. Tail(cl.wr) \in Seq(Msgs) /\ Head(cl.wr) \in Msgs
  BY <1>1, OneClient, FirstTaken
<1>4. /\ Append(c.up, Head(cl.wr)) \in Seq(Msgs)
      /\ Len(Append(c.up, Head(cl.wr))) = Len(c.up) + 1
      /\ Append(c.up, Head(cl.wr)) # <<>>
  BY <1>2, <1>3, OneMore
<1>5. /\ d.up = Append(c.up, Head(cl.wr)) /\ d.missed = c.missed /\ d.due = c.due
      /\ d.srv = c.srv /\ d.wr = c.wr /\ d.over = c.over /\ d.down = c.down
      /\ d.cut = c.cut /\ d.cli = c.cli /\ d.dead = c.dead /\ d.cert = c.cert
  BY <1>2 DEF Conn
<1>6. d \in Conn
  BY <1>2, <1>4, Zenon DEF Conn
<1>7. link' = [link EXCEPT ![l] = d]
  BY OneConn DEF CliWrite
<1>8. cl' \in Client
  BY <1>3, OneClient, Zenon DEF CliWrite, Client
<1>9. /\ cl'.wr = Tail(cl.wr) /\ cl'.on = cl.on /\ cl'.just = cl.just /\ cl'.at = cl.at
      /\ cl'.quiet = cl.quiet
  BY OneClient DEF CliWrite, Client
<1> HIDE DEF d
<1>10. SrvSide(d)
  BY <1>1, <1>2, <1>4, <1>5, Constants DEF SrvSide, Serves, SrvStuck
<1>11. ~ CliStuck(c)
  BY <1>1, <1>2, Constants DEF CliStuck
<1>12. Exchange(d, cl'.wr)
  <2>1. Exchange(c, cl.wr)
    BY <1>1, OnIt
  <2>2. Serves(c) /\ ~ c.cut => ~ (c.missed = 1 /\ c.due)
    BY <1>1, <1>2, <2>1, Constants DEF Exchange
  <2> QED
    BY <1>4, <1>5, <2>1, <2>2 DEF Exchange, Serves
<1>13. cl.at = "session" => cl.quiet <= Silence
  BY <1>1, <1>11, OnIt
<1>14. d.cli /\ cl.on = l /\ cl.at \in {"hello", "session"}
  BY <1>1, <1>5, OnIt
<1>15. UNCHANGED <<known, server, faults>> /\ bulks' \in 0..MaxBulk
  BY OneConn DEF CliWrite, bounds
<1>16. /\ d.cert = link[l].cert /\ d.over = link[l].over /\ cl'.on = l
       /\ cl'.at \in {"hello", "session"}
       /\ cl'.at = "session" => cl'.quiet <= Silence \/ (cl'.wr # <<>> /\ CliStuck(d))
  BY <1>5, <1>9, <1>13, <1>14
<1> HIDE DEF c
<1> QED
  BY <1>1, <1>6, <1>7, <1>8, <1>9, <1>10, <1>12, <1>14, <1>15, <1>16, ClientOnStep

\* What is left of a connection when the client has read a message and, reading a
\* keep-alive, has an answer to write.
LEMMA ReadLeaves ==
  ASSUME NEW c \in Conn, SrvSide(c), Exchange(c, <<>>), ~ c.cut, c.down # <<>>,
         NEW w, Head(c.down) = "ka" => w # <<>>
  PROVE  LET d == [c EXCEPT !.down = Tail(@)]
         IN  /\ d \in Conn /\ SrvSide(d) /\ Exchange(d, w)
             /\ d.cli = c.cli /\ d.cert = c.cert /\ d.over = c.over
<1> DEFINE d == [c EXCEPT !.down = Tail(@)]
<1>1. c.down \in Seq(Msgs) /\ c.up \in Seq(Msgs)
  BY DEF Conn
<1>2. /\ Tail(c.down) \in Seq(Msgs) /\ Len(c.down) \in Nat \ {0}
      /\ Len(Tail(c.down)) = Len(c.down) - 1
      /\ Asks(c.down) => Head(c.down) = "ka" \/ Asks(Tail(c.down))
  BY <1>1, FirstTaken
<1>3. /\ d.up = c.up /\ d.missed = c.missed /\ d.due = c.due
      /\ d.srv = c.srv /\ d.wr = c.wr /\ d.over = c.over /\ d.down = Tail(c.down)
      /\ d.cut = c.cut /\ d.cli = c.cli /\ d.dead = c.dead /\ d.cert = c.cert
  BY DEF Conn
<1>4. d \in Conn
  BY <1>2, Zenon DEF Conn
<1> HIDE DEF d
<1>5. SrvSide(d)
  BY <1>2, <1>3, Constants DEF SrvSide, Serves
<1>6. Exchange(d, w)
  BY <1>2, <1>3 DEF Exchange, Serves
<1>7. d \in Conn /\ SrvSide(d) /\ Exchange(d, w) /\ d.cli = c.cli /\ d.cert = c.cert /\ d.over = c.over
  BY <1>3, <1>4, <1>5, <1>6
<1> QED
  BY <1>7 DEF d

LEMMA CliReplyStep == ASSUME Inv, NEW l \in Links, CliReply(l) PROVE Inv' /\ StepFine
<1>1. /\ OnLink(l) /\ cl.wr = <<>> /\ link[l].down # <<>> /\ ~ link[l].cut /\ cl.at = "hello"
      /\ UNCHANGED <<known, server, bounds>>
  BY DEF CliReply, CliReads
<1>2. CASE Head(link[l].down) = "welcome"
  <2> DEFINE d == [link[l] EXCEPT !.down = Tail(@)]
  <2>1. cl' = [cl EXCEPT !.at = "session", !.quiet = 0] /\ link' = [link EXCEPT ![l].down = Tail(@)]
    BY <1>2 DEF CliReply
  <2>2. link' = [link EXCEPT ![l] = d]
    BY <2>1, OneConn
  <2>3. Exchange(link[l], <<>>)
    BY <1>1, OnIt
  <2>4. /\ d \in Conn /\ SrvSide(d) /\ Exchange(d, <<>>)
        /\ d.cli = link[l].cli /\ d.cert = link[l].cert /\ d.over = link[l].over
    BY <1>1, <1>2, <2>3, OneConn, ReadLeaves
  <2> HIDE DEF d
  <2>5. cl' \in Client
    BY <2>1, OneClient, Zenon DEF Client
  <2>6. /\ cl'.at = "session" /\ cl'.quiet = 0 /\ cl'.wr = <<>> /\ cl'.on = l /\ cl'.just = cl.just
        /\ cl'.quiet <= Silence
    BY <1>1, <2>1, OneClient, OnIt DEF Client
  <2>7. bulks' \in 0..MaxBulk /\ UNCHANGED <<known, server, faults>> /\ d.cli
    BY <1>1, <2>4, OneConn, OnIt DEF bounds
  <2> QED
    BY <1>1, <2>2, <2>4, <2>5, <2>6, <2>7, ClientOnStep
<1>3. CASE Head(link[l].down) # "welcome"
  <2>1. Fatal(l) \/ GivesUp(l)
    BY <1>3 DEF CliReply
  <2> QED
    BY <1>1, <2>1, OnIt, FatalStep, GivesUpStep
<1> QED
  BY <1>2, <1>3

LEMMA CliReadStep == ASSUME Inv, NEW l \in Links, CliRead(l) PROVE Inv' /\ StepFine
<1>1. /\ OnLink(l) /\ cl.wr = <<>> /\ link[l].down # <<>> /\ ~ link[l].cut /\ cl.at = "session"
      /\ UNCHANGED <<known, server, bounds>>
  BY DEF CliRead, CliReads
<1>2. CASE Head(link[l].down) # "close"
  <2> DEFINE d == [link[l] EXCEPT !.down = Tail(@)]
             w == IF Head(link[l].down) = "ka" THEN <<"ka">> ELSE <<>>
  <2>1. cl' = [cl EXCEPT !.quiet = 0, !.wr = w] /\ link' = [link EXCEPT ![l].down = Tail(@)]
    BY <1>2 DEF CliRead
  <2>2. link' = [link EXCEPT ![l] = d]
    BY <2>1, OneConn
  <2>3. Exchange(link[l], <<>>)
    BY <1>1, OnIt
  <2>4. w \in Seq(Msgs) /\ (Head(link[l].down) = "ka" => w # <<>>)
    BY Writings
  <2> HIDE DEF w
  <2>5. /\ d \in Conn /\ SrvSide(d) /\ Exchange(d, w)
        /\ d.cli = link[l].cli /\ d.cert = link[l].cert /\ d.over = link[l].over
    BY <1>1, <2>3, <2>4, OneConn, ReadLeaves
  <2> HIDE DEF d
  <2>6. cl' \in Client
    BY <2>1, <2>4, OneClient, Zenon DEF Client
  <2>7. /\ cl'.at = "session" /\ cl'.wr = w /\ cl'.on = l /\ cl'.just = cl.just
        /\ cl'.quiet <= Silence
    BY <1>1, <2>1, OneClient, OnIt DEF Client
  <2>8. bulks' \in 0..MaxBulk /\ UNCHANGED <<known, server, faults>> /\ d.cli
    BY <1>1, <2>5, OneConn, OnIt DEF bounds
  <2> QED
    BY <1>1, <2>2, <2>5, <2>6, <2>7, <2>8, ClientOnStep
<1>3. CASE Head(link[l].down) = "close"
  <2>1. GivesUp(l)
    BY <1>3 DEF CliRead
  <2> QED
    BY <1>1, <2>1, OnIt, GivesUpStep
<1> QED
  BY <1>2, <1>3

LEMMA CliBulkStep == ASSUME Inv, NEW l \in Links, CliBulk(l) PROVE Inv' /\ StepFine
<1> DEFINE b == [i \in 1..Burst |-> "bulk"]
           c == link[l]
<1>1. /\ OnLink(l) /\ cl.wr = <<>> /\ cl.at = "session" /\ MoreBulk /\ bulks' = bulks + 1
      /\ cl' = [cl EXCEPT !.wr = b] /\ UNCHANGED <<link, known, server, faults>>
  BY DEF CliBulk
<1>2. b \in Seq(Msgs) /\ b # <<>>
  BY Writings
<1> HIDE DEF b
<1>3. cl' \in Client
  BY <1>1, <1>2, OneClient, Zenon DEF Client
<1>4. /\ cl'.wr = b /\ cl'.at = "session" /\ cl'.on = cl.on /\ cl'.just = cl.just
      /\ cl'.quiet = cl.quiet
  BY <1>1, OneClient DEF Client
<1>5. /\ c \in Conn /\ SrvSide(c) /\ c.cli /\ cl.on = l /\ Exchange(c, <<>>) /\ cl.quiet <= Silence
      /\ link' = [link EXCEPT ![l] = c]
  BY <1>1, OneConn, OnIt
<1>6. Exchange(c, b)
  BY <1>2, <1>5 DEF Exchange
<1>7. bulks' \in 0..MaxBulk
  BY <1>1, OneBulkMore
<1> QED
  BY <1>1, <1>3, <1>4, <1>5, <1>6, <1>7, ClientOnStep

LEMMA CliFindStep == ASSUME Inv, NEW l \in Links, CliFind(l) PROVE Inv' /\ StepFine
  BY OnIt, GivesUpStep DEF CliFind, CliFinds

LEMMA TimesOutStep == ASSUME Inv, NEW l \in Links, TimesOut(l) PROVE Inv' /\ StepFine
  BY OnIt, GivesUpStep DEF TimesOut

LEMMA DeclinedStep == ASSUME Inv, NEW l \in Links, Declined(l) PROVE Inv' /\ StepFine
  BY FatalStep DEF Declined

LEMMA KernelGivesUpStep == ASSUME Inv, NEW l \in Links, KernelGivesUp(l) PROVE Inv' /\ StepFine
<1>1. CASE SrvGone(l) /\ UNCHANGED cl
  BY <1>1, SrvGoneStep DEF KernelGivesUp
<1>2. CASE OnLink(l) /\ GivesUp(l)
  BY <1>2, OnIt, GivesUpStep DEF KernelGivesUp
<1> QED
  BY <1>1, <1>2 DEF KernelGivesUp

\* A client between connections stays on none.
LEMMA OffStep ==
  ASSUME Inv, cl.on = None, UNCHANGED <<link, known, bounds>>,
         server' \in [cert : Certs, up : BOOLEAN, speaks : BOOLEAN],
         cl' \in Client, cl'.on = None, cl'.wr = <<>>, cl'.at \in {"wait", "fatal"}
  PROVE  Inv' /\ StepFine
<1>1. \A k \in Links : ~ link[k].cli
  BY OneClient DEF Inv, Attached
<1>2. Types'
  BY DEF Inv, Types, bounds
<1>3. Attached'
  BY <1>1, OneClient DEF Attached
<1>4. Conns'
  <2>1. \A k \in Links : SrvSide(link'[k]) /\ (link'[k].cli => Exchange(link'[k], cl'.wr))
    BY <1>1, OneConn
  <2> QED
    BY <2>1 DEF Conns
<1>5. Pinned' /\ Noticed'
  BY DEF Pinned, Noticed
<1>6. StepFine
  BY <1>1 DEF StepFine
<1> QED
  BY <1>2, <1>3, <1>4, <1>5, <1>6 DEF Inv

LEMMA ConnectFailsStep == ASSUME Inv, ConnectFails PROVE Inv' /\ StepFine
<1>1. cl.on = None
  BY DEF ConnectFails, Inv, Attached
<1>2. cl' \in Client /\ cl'.on = None /\ cl'.wr = <<>> /\ cl'.at = "wait"
  BY NextDelayFits, RestingClient DEF ConnectFails
<1> QED
  BY <1>1, <1>2, OneClient, OffStep DEF ConnectFails

\* A certificate other than the pinned one ends it; otherwise the connection is made, to a
\* server that has the pinned certificate or is asked about.
LEMMA ConnectStep == ASSUME Inv, NEW l \in Links, Connect(l) PROVE Inv' /\ StepFine
<1>1. /\ cl.at = "wait" /\ link[l] = Free /\ UNCHANGED <<known, server, bounds>>
      /\ cl.on = None /\ cl.wr = <<>>
  BY DEF Connect, Inv, Attached
<1>2. CASE Pin \notin {None, server.cert}
  <2>1. cl' = [Resting(1) EXCEPT !.at = "fatal", !.wait = 0] /\ UNCHANGED link
    BY <1>2 DEF Connect
  <2>2. cl' \in Client /\ cl'.on = None /\ cl'.wr = <<>> /\ cl'.at = "fatal"
    BY <2>1, FatalClient
  <2> QED
    BY <1>1, <2>1, <2>2, OneClient, OffStep
<1>3. CASE Pin \in {None, server.cert}
  <2> DEFINE d == [Free EXCEPT !.srv = "hello", !.cert = server.cert, !.cli = TRUE]
  <2>1. link' = [link EXCEPT ![l] = d]
    BY <1>3 DEF Connect
  <2>2. server.cert \in Certs /\ Free \in Conn
    BY OneClient, FreeIsFine
  <2>3. /\ d.srv = "hello" /\ d.cert = server.cert /\ d.cli = TRUE /\ d.wr = <<>> /\ d.up = <<>>
        /\ d.down = <<>> /\ ~ d.over /\ ~ d.due /\ ~ d.cut /\ d.dead = 0
    BY DEF Free
  <2>4. d \in Conn
    BY <2>2, Zenon DEF Conn
  <2> HIDE DEF d
  <2>5. SrvSide(d) /\ \A w : Exchange(d, w)
    BY <2>3, Constants DEF SrvSide, Exchange, Serves
  <2>6. link \in [Links -> Conn] /\ \A k \in Links : ~ link[k].cli
    BY <1>1, OneConn, OneClient DEF Inv, Attached
  <2>7. /\ link' \in [Links -> Conn] /\ link'[l] = d
        /\ \A k \in Links : k # l => link'[k] = link[k]
    BY <2>1, <2>4, <2>6
  <2>8. \/ cl' = [cl EXCEPT !.at = "ask", !.on = l]
        \/ Pin # None /\ cl' = [cl EXCEPT !.at = "hello", !.on = l, !.wr = <<"hello">>, !.quiet = 0]
    BY <1>3 DEF Connect
  <2>9. cl' \in Client
    <3>1. [cl EXCEPT !.at = "ask", !.on = l] \in Client
      BY OneClient, Zenon DEF Client
    <3>2. [cl EXCEPT !.at = "hello", !.on = l, !.wr = <<"hello">>, !.quiet = 0] \in Client
      <4>1. <<"hello">> \in Seq(Msgs) /\ 0 \in Nat
        BY Writings
      <4> QED
        BY <4>1, OneClient, Zenon DEF Client
    <3> QED
      BY <2>8, <3>1, <3>2
  <2>10. /\ cl'.on = l /\ cl'.just = cl.just
         /\ \/ cl'.at = "ask" /\ cl'.wr = <<>>
            \/ cl'.at = "hello" /\ Pin # None
    BY <1>1, <2>8, OneClient DEF Client
  <2>11. Types'
    BY <1>1, <2>7, <2>9, OneConn, OneClient DEF Types, bounds
  <2>12. Attached'
    <3>1. \A k \in Links : link'[k].cli <=> cl'.on = k
      BY <2>3, <2>6, <2>7, <2>10
    <3> QED
      BY <2>10, <3>1, OneClient DEF Attached
  <2>13. Conns'
    <3>1. \A k \in Links : SrvSide(link'[k]) /\ (link'[k].cli => Exchange(link'[k], cl'.wr))
      BY <2>5, <2>6, <2>7, OneConn
    <3> QED
      BY <3>1 DEF Conns
  <2>14. Pinned'
    <3>1. Pin # None => server.cert \in {cl.just, known}
      BY <1>3 DEF Pin
    <3> QED
      BY <1>1, <2>3, <2>7, <2>10, <3>1 DEF Pinned
  <2>15. Noticed'
    BY <2>10 DEF Noticed
  <2>16. StepFine
    BY <2>3, <2>6, <2>7 DEF StepFine
  <2> QED
    BY <2>11, <2>12, <2>13, <2>14, <2>15, <2>16 DEF Inv
<1> QED
  BY <1>2, <1>3

LEMMA StartStep == ASSUME Inv, Start PROVE Inv' /\ StepFine
<1>1. /\ UNCHANGED <<link, cl, known, bounds>>
      /\ server' \in [cert : Certs, up : BOOLEAN, speaks : BOOLEAN]
  BY DEF Start, ServerStarts
<1>2. link' \in [Links -> Conn] /\ faults' \in 0..MaxFaults /\ bulks' \in 0..MaxBulk
  BY <1>1 DEF Inv, Types, bounds
<1> QED
  BY <1>1, <1>2, ServersStep

----------------------------------------------------------------------------
(* An interval passes.                                                     *)

\* Nothing is left to do: what that says of one connection.
LEMMA Quiet ==
  ASSUME Inv, Settled, NEW l \in Links
  PROVE  LET c == link[l] IN
         /\ Serves(c) /\ c.due => SrvStuck(c)
         /\ c.cli /\ Serves(c) /\ ~ c.cut /\ c.missed = 1 =>
              SrvStuck(c) /\ cl.wr # <<>> /\ Len(c.up) >= Cap
         /\ c.cli /\ cl.at = "session" /\ cl.quiet >= Silence => cl.wr # <<>> /\ CliStuck(c)
<1> DEFINE c == link[l]
<1>1. /\ c \in Conn /\ c.up \in Seq(Msgs) /\ c.down \in Seq(Msgs) /\ SrvSide(c)
      /\ c.srv \in {"none", "hello", "serving"} /\ cl.quiet \in Nat /\ Silence \in Nat
      /\ Len(c.up) \in Nat /\ Len(c.down) \in Nat
  <2>1. c \in Conn /\ SrvSide(c)
    BY OneConn
  <2>2. /\ c.up \in Seq(Msgs) /\ c.down \in Seq(Msgs)
        /\ c.srv \in {"none", "hello", "serving"}
    BY <2>1 DEF Conn
  <2>3. cl.quiet \in Nat /\ Silence \in Nat
    BY OneClient, Constants DEF Client
  <2> QED
    BY <2>1, <2>2, <2>3
<1>2. c.srv # "none" /\ ~ c.cut => c.wr # <<>> \/ c.up = <<>>
  BY <1>1 DEF Settled, SrvReads, Alive
<1>3. c.srv # "none" => c.wr = <<>> \/ Len(c.down) >= Cap
  BY <1>1, Constants DEF Settled, SrvWrites, Alive
<1>4. c.srv = "serving" /\ c.due => c.wr # <<>>
  BY DEF Settled
<1>5. c.cli => OnLink(l)
  BY DEF Inv, Attached, OnLink
<1>6. c.cli /\ ~ c.cut => cl.wr # <<>> \/ c.down = <<>>
  BY <1>5 DEF Settled, CliReads
<1>7. c.cli /\ cl.wr # <<>> => Len(c.up) >= Cap \/ (c.srv = "none" /\ ~ c.cut)
  BY <1>1, <1>5, Constants DEF Settled, CliWrites
<1>8. c.cli /\ c.srv = "none" /\ ~ c.cut => cl.wr = <<>>
  BY <1>5 DEF Settled, CliFinds
<1>9. Exchange(c, cl.wr) \/ ~ c.cli
  BY OneConn
<1>10. cl.at = "session" => cl.quiet < Silence \/ cl.wr # <<>>
  BY DEF Settled
<1>11. (Len(c.down) >= Cap => c.down # <<>>) /\ (Len(c.up) >= Cap => c.up # <<>>)
  BY <1>1, Constants
<1> HIDE DEF c
<1>12. Serves(c) /\ c.due => SrvStuck(c)
  BY <1>3, <1>4 DEF Serves, SrvStuck
<1>13. c.cli /\ Serves(c) /\ ~ c.cut /\ c.missed = 1 =>
         SrvStuck(c) /\ cl.wr # <<>> /\ Len(c.up) >= Cap
  <2> SUFFICES ASSUME c.cli, Serves(c), ~ c.cut, c.missed = 1
               PROVE  SrvStuck(c) /\ cl.wr # <<>> /\ Len(c.up) >= Cap
    OBVIOUS
  <2>1. c.wr # <<>>
    <3>1. SUFFICES ASSUME c.wr = <<>> PROVE FALSE
      OBVIOUS
    <3>2. c.up = <<>> /\ cl.wr = <<>> /\ c.down = <<>>
      BY <1>2, <1>6, <1>7, <1>11, <3>1 DEF Serves
    <3>3. ~ Asks(<<>>)
      BY Writings
    <3> QED
      BY <1>9, <3>1, <3>2, <3>3 DEF Exchange
  <2>2. Len(c.down) >= Cap /\ cl.wr # <<>>
    BY <1>3, <1>6, <1>11, <2>1 DEF Serves
  <2> QED
    BY <1>7, <2>1, <2>2 DEF SrvStuck, Serves
<1>14. c.cli /\ cl.at = "session" /\ cl.quiet >= Silence => cl.wr # <<>> /\ CliStuck(c)
  <2> SUFFICES ASSUME c.cli, cl.at = "session", cl.quiet >= Silence
               PROVE  cl.wr # <<>> /\ CliStuck(c)
    OBVIOUS
  <2>1. cl.wr # <<>>
    BY <1>1, <1>10
  <2>2. Len(c.up) >= Cap
    BY <1>7, <1>8, <2>1
  <2>3. c.srv # "none" /\ ~ c.cut => SrvStuck(c)
    BY <1>2, <1>3, <1>11, <2>2 DEF SrvStuck
  <2> QED
    BY <2>1, <2>2, <2>3 DEF CliStuck
<1> QED
  BY <1>12, <1>13, <1>14 DEF c

\* A connection after the interval: a probe is due, and it was cut for one interval more.
LEMMA ConnTicks ==
  ASSUME Inv, Settled, NEW l \in Links
  PROVE  LET c == link[l]
             d == [link[l] EXCEPT !.due = link[l].srv = "serving" /\ ~link[l].over,
                     !.missed = IF link[l].srv = "hello" THEN UpTo(@, Patience) ELSE @,
                     !.dead = IF link[l].cut THEN UpTo(@, Misses + 1) ELSE 0]
         IN  /\ d \in Conn /\ d.cli = c.cli /\ d.cert = c.cert /\ d.over = c.over /\ d.up = c.up
             /\ SrvSide(d)
             /\ c.cli => Exchange(d, cl.wr)
             /\ CliStuck(c) => CliStuck(d)
<1> DEFINE c == link[l]
           due == c.srv = "serving" /\ ~ c.over
           missed == IF c.srv = "hello" THEN UpTo(c.missed, Patience) ELSE c.missed
           dead == IF c.cut THEN UpTo(c.dead, Misses + 1) ELSE 0
           d == [c EXCEPT !.due = due, !.missed = missed, !.dead = dead]
<1>1. /\ c \in Conn /\ SrvSide(c) /\ (c.cli => Exchange(c, cl.wr))
      /\ c.missed \in 0..MaxMissed /\ c.missed \in Nat /\ c.dead \in Nat
  <2>1. c \in Conn /\ SrvSide(c) /\ (c.cli => Exchange(c, cl.wr))
    BY OneConn
  <2>2. c.missed \in 0..MaxMissed /\ c.dead \in Nat
    BY <2>1 DEF Conn
  <2> QED
    BY <2>1, <2>2, Constants
<1>2. due \in BOOLEAN /\ (due <=> Serves(c))
  BY DEF Serves
<1>3. missed \in 0..MaxMissed /\ (Serves(c) => missed = c.missed)
  BY <1>1, Constants DEF Serves, UpTo
<1>4. dead \in Nat /\ dead <= c.dead + 1 /\ (~ c.cut => dead = 0)
  BY <1>1, Constants DEF UpTo
<1>5. /\ Serves(c) /\ c.due => SrvStuck(c)
      /\ c.cli /\ Serves(c) /\ ~ c.cut /\ c.missed = 1 =>
           SrvStuck(c) /\ cl.wr # <<>> /\ Len(c.up) >= Cap
  BY Quiet
<1> HIDE DEF due, missed, dead
<1>6. /\ d.up = c.up /\ d.down = c.down /\ d.srv = c.srv /\ d.wr = c.wr /\ d.over = c.over
      /\ d.cut = c.cut /\ d.cli = c.cli /\ d.cert = c.cert
      /\ d.due = due /\ d.missed = missed /\ d.dead = dead
  BY <1>1 DEF Conn
<1>7. d \in Conn
  BY <1>1, <1>2, <1>3, <1>4, Zenon DEF Conn
<1> HIDE DEF d, c
<1>8. Serves(d) <=> Serves(c)
  BY <1>6 DEF Serves
<1>9. SrvStuck(d) <=> SrvStuck(c)
  BY <1>6 DEF SrvStuck
<1>10. Serves(c) /\ c.cut => d.dead <= d.missed + (IF d.due THEN 1 ELSE 0) \/ SrvStuck(d)
  <2> SUFFICES ASSUME Serves(c), c.cut, ~ SrvStuck(c)
               PROVE  d.dead <= d.missed + (IF d.due THEN 1 ELSE 0)
    BY <1>9
  <2>1. ~ c.due
    BY <1>5
  <2>2. c.dead <= c.missed
    BY <1>1, <2>1 DEF SrvSide
  <2>3. d.due
    BY <1>2, <1>6
  <2> QED
    BY <1>1, <1>3, <1>4, <1>6, <2>2, <2>3
<1>11. SrvSide(d)
  <2>1. c.over \/ c.srv = "hello" => ~ d.due
    BY <1>2, <1>6 DEF Serves
  <2>2. Serves(c) => d.missed < Misses
    BY <1>1, <1>3, <1>6 DEF SrvSide
  <2>3. ~ c.cut => d.dead = 0
    BY <1>4, <1>6
  <2>4. /\ Len(c.up) <= Cap /\ Len(c.down) <= Cap
        /\ c.srv # "none" /\ c.over => c.wr # <<>>
    BY <1>1 DEF SrvSide
  <2> QED
    BY <1>6, <1>8, <1>10, <2>1, <2>2, <2>3, <2>4 DEF SrvSide
<1>12. c.cli => Exchange(d, cl.wr)
  <2> SUFFICES ASSUME c.cli, Serves(c), ~ c.cut
               PROVE  /\ d.missed <= 1
                      /\ d.missed = 1 => Asks(d.wr) \/ Asks(d.down) \/ cl.wr # <<>> \/ d.up # <<>>
                      /\ d.missed = 1 /\ d.due => SrvStuck(d) /\ cl.wr # <<>> /\ Len(d.up) >= Cap
    BY <1>6, <1>8 DEF Exchange
  <2>1. d.missed = c.missed
    BY <1>3, <1>6
  <2>2. c.missed <= 1 /\ (c.missed = 1 => Asks(c.wr) \/ Asks(c.down) \/ cl.wr # <<>> \/ c.up # <<>>)
    BY <1>1 DEF Exchange
  <2> QED
    BY <1>5, <1>6, <1>9, <2>1, <2>2
<1>13. CliStuck(c) => CliStuck(d)
  BY <1>6, <1>9 DEF CliStuck
<1>14. /\ d \in Conn /\ d.cli = c.cli /\ d.cert = c.cert /\ d.over = c.over /\ d.up = c.up
       /\ SrvSide(d) /\ (c.cli => Exchange(d, cl.wr)) /\ (CliStuck(c) => CliStuck(d))
  BY <1>6, <1>7, <1>11, <1>12, <1>13
<1> QED
  BY <1>14 DEF d, c, due, missed, dead

LEMMA TickStep == ASSUME Inv, Tick PROVE Inv' /\ StepFine
<1> DEFINE e(k) == [link[k] EXCEPT !.due = link[k].srv = "serving" /\ ~link[k].over,
                      !.missed = IF link[k].srv = "hello" THEN UpTo(@, Patience) ELSE @,
                      !.dead = IF link[k].cut THEN UpTo(@, Misses + 1) ELSE 0]
<1>1. \A k \in Links :
        /\ e(k) \in Conn /\ e(k).cli = link[k].cli /\ e(k).cert = link[k].cert
        /\ e(k).over = link[k].over /\ e(k).up = link[k].up /\ SrvSide(e(k))
        /\ link[k].cli => Exchange(e(k), cl.wr)
        /\ CliStuck(link[k]) => CliStuck(e(k))
  BY ConnTicks DEF Tick
<1>2. link' = [k \in Links |-> e(k)]
  BY DEF Tick
<1> HIDE DEF e
<1>3. \A k \in Links :
        /\ link'[k] \in Conn /\ link'[k].cli = link[k].cli /\ link'[k].cert = link[k].cert
        /\ link'[k].over = link[k].over /\ link'[k].up = link[k].up /\ SrvSide(link'[k])
        /\ link[k].cli => Exchange(link'[k], cl.wr)
        /\ CliStuck(link[k]) => CliStuck(link'[k])
  BY <1>1, <1>2
<1>4. /\ cl \in Client /\ cl.quiet \in Nat /\ cl.lasted \in Nat /\ cl.wait \in 0..MaxDelay
      /\ Silence \in Nat /\ MaxDelay \in Nat
  BY OneClient, Constants DEF Client
<1> DEFINE quiet == UpTo(cl.quiet, Silence + 1)
           lasted == IF cl.at = "wait" THEN cl.lasted ELSE UpTo(cl.lasted, MaxDelay)
           wait == IF cl.wait > 0 THEN cl.wait - 1 ELSE 0
<1>5. /\ quiet \in Nat /\ quiet <= cl.quiet + 1 /\ lasted \in Nat /\ wait \in 0..MaxDelay
  BY <1>4, Constants DEF UpTo
<1>6. cl' = [cl EXCEPT !.quiet = quiet, !.lasted = lasted, !.wait = wait]
  BY DEF Tick
<1> HIDE DEF quiet, lasted, wait
<1>7. cl' \in Client
  BY <1>4, <1>5, <1>6, Zenon DEF Client
<1>8. /\ cl'.at = cl.at /\ cl'.on = cl.on /\ cl'.wr = cl.wr /\ cl'.just = cl.just
      /\ cl'.quiet = quiet
  BY <1>4, <1>6 DEF Client
<1>9. UNCHANGED <<known, server, faults, bulks>>
  BY DEF Tick, bounds
<1>10. link' \in [Links -> Conn]
  BY <1>2, <1>3
<1>11. Types'
  BY <1>7, <1>9, <1>10 DEF Inv, Types
<1>12. Attached'
  BY <1>3, <1>8 DEF Inv, Attached
<1>13. Conns'
  <2>1. \A k \in Links : SrvSide(link'[k]) /\ (link'[k].cli => Exchange(link'[k], cl'.wr))
    BY <1>3, <1>8
  <2> QED
    BY <2>1 DEF Conns
<1>14. cl.at \in {"hello", "session"} => cl.on \in Links /\ link[cl.on].cli
  BY OneClient DEF Inv, Attached, Client
<1>15. Pinned'
  BY <1>3, <1>8, <1>9, <1>14 DEF Inv, Pinned
<1>16. Noticed'
  <2>1. SUFFICES ASSUME cl'.at = "session", cl'.quiet > Silence
                 PROVE  cl'.wr # <<>> /\ CliStuck(link'[cl'.on])
    BY DEF Noticed
  <2>2. cl.at = "session" /\ cl.on \in Links /\ link[cl.on].cli
    BY <1>8, <1>14, <2>1
  <2>3. cl.quiet >= Silence
    BY <1>4, <1>5, <1>8, <2>1
  <2>4. cl.wr # <<>> /\ CliStuck(link[cl.on])
    BY <2>2, <2>3, Quiet DEF Tick
  <2> QED
    BY <1>3, <1>8, <2>2, <2>4
<1>17. StepFine
  BY <1>3 DEF StepFine, Serves
<1> QED
  BY <1>11, <1>12, <1>13, <1>15, <1>16, <1>17 DEF Inv

----------------------------------------------------------------------------
(* The theorems.                                                           *)

LEMMA InitInv == Init => Inv
<1> SUFFICES ASSUME Init PROVE Inv
  OBVIOUS
<1>1. link = [l \in Links |-> Free] /\ cl = [Resting(1) EXCEPT !.wait = 0, !.delay = 1]
  BY DEF Init
<1>2. /\ cl \in Client /\ cl.on = None /\ cl.at = "wait" /\ cl.wr = <<>>
  <2>1. 1 \in 1..MaxDelay /\ 0 \in 0..MaxDelay
    BY Constants
  <2>2. Resting(1) \in Client /\ Resting(1).on = None /\ Resting(1).at = "wait" /\ Resting(1).wr = <<>>
    BY <2>1, RestingClient
  <2>3. cl \in Client
    BY <1>1, <2>1, <2>2, Zenon DEF Client
  <2> QED
    BY <1>1, <2>2, <2>3 DEF Client
<1>3. \A l \in Links : link[l] = Free
  BY <1>1
<1>4. Types
  <2>1. link \in [Links -> Conn]
    BY <1>1, FreeIsFine
  <2>2. known \in Certs \cup {None} /\ faults \in 0..MaxFaults /\ bulks \in 0..MaxBulk
    BY LinkAssumption DEF Init
  <2>3. server \in [cert : Certs, up : BOOLEAN, speaks : BOOLEAN]
    <3>1. server \in [cert : Certs, up : {TRUE}, speaks : BOOLEAN]
      BY DEF Init
    <3> QED
      BY <3>1
  <2> QED
    BY <1>2, <2>1, <2>2, <2>3 DEF Types
<1>5. Attached
  BY <1>2, <1>3, FreeIsFine, LinkAssumption DEF Attached
<1>6. Conns
  BY <1>3, FreeIsFine DEF Conns
<1>7. Pinned /\ Noticed
  BY <1>2 DEF Pinned, Noticed
<1> QED
  BY <1>4, <1>5, <1>6, <1>7 DEF Inv

LEMMA StepInv == Inv /\ [Next]_vars => Inv' /\ StepFine
<1> SUFFICES ASSUME Inv, [Next]_vars PROVE Inv' /\ StepFine
  OBVIOUS
<1>1. ASSUME NEW l \in Links, SrvStep(l) PROVE Inv' /\ StepFine
  <2>1. CASE SrvFind(l)
    BY <2>1, SrvGoneStep DEF SrvFind
  <2>2. CASE HelloTimeout(l)
    BY <2>2, SrvGoneStep DEF HelloTimeout
  <2> QED
    BY <1>1, <2>1, <2>2, SrvReadStep, SrvHelloStep, SrvWriteStep, ProbeStep DEF SrvStep
<1>2. ASSUME NEW l \in Links, CliStep(l) PROVE Inv' /\ StepFine
  BY <1>2, ConnectStep, CliWriteStep, CliReplyStep, CliReadStep, CliFindStep, TimesOutStep
  DEF CliStep
<1>3. ASSUME NEW l \in Links, SrvBulk(l) \/ CliBulk(l) \/ Cut(l) \/ KernelGivesUp(l) \/ Declined(l)
      PROVE  Inv' /\ StepFine
  BY <1>3, SrvBulkStep, CliBulkStep, CutStep, KernelGivesUpStep, DeclinedStep
<1>4. ASSUME NEW l \in Links, NEW saved \in BOOLEAN, Confirmed(l, saved) PROVE Inv' /\ StepFine
  BY <1>4, ConfirmedStep
<1>5. CASE ConnectFails \/ ServerStops \/ Start \/ Tick
  BY <1>5, ConnectFailsStep, ServerStopsStep, StartStep, TickStep
<1>6. CASE UNCHANGED vars
  <2>1. /\ UNCHANGED <<cl, known, link, server, faults, bulks>>
    BY <1>6 DEF vars
  <2>2. /\ link' \in [Links -> Conn] /\ faults' \in 0..MaxFaults /\ bulks' \in 0..MaxBulk
        /\ server' \in [cert : Certs, up : BOOLEAN, speaks : BOOLEAN]
    BY <2>1 DEF Inv, Types
  <2> QED
    BY <2>1, <2>2, ServersStep
<1> QED
  BY <1>1, <1>2, <1>3, <1>4, <1>5, <1>6 DEF Next

LEMMA Invariance == Spec => []Inv
<1>1. Init => Inv
  BY InitInv
<1>2. Inv /\ [Next]_vars => Inv'
  BY StepInv
<1> QED
  BY <1>1, <1>2, PTL DEF Spec

\* Every state the model reaches is of the declared types; pipes hold no more than their
\* capacity and the probes missed by a session stay within the limit (session_loop).
THEOREM LinkTypes == Spec => []TypeOK
<1>1. Inv => TypeOK
  <2> SUFFICES ASSUME Inv PROVE TypeOK
    OBVIOUS
  <2>1. /\ cl.at \in {"wait", "ask", "hello", "session", "fatal"}
        /\ cl.on \in Links \cup {None} /\ cl.wait \in 0..MaxDelay /\ cl.delay \in 1..MaxDelay
    BY DEF Inv, Types, Client
  <2>2. ASSUME NEW l \in Links
        PROVE  /\ link[l].srv \in {"none", "hello", "serving"}
               /\ Len(link[l].up) <= Cap /\ Len(link[l].down) <= Cap
               /\ link[l].missed \in 0..(IF Misses > Patience THEN Misses ELSE Patience)
    BY OneConn DEF Conn, SrvSide, MaxMissed
  <2> QED
    BY <2>1, <2>2 DEF Inv, Types, TypeOK
<1> QED
  BY <1>1, Invariance, PTL

\* A cut connection is noticed on both sides within their limits, unless that side waits in
\* a write (both session_loops): the server has sent a probe for every interval since the
\* cut but the last, and a client silent for longer than its limit is in a write that
\* nothing takes.
THEOREM LinkDeadIsNoticed == Spec => []DeadIsNoticed
<1>1. Inv => DeadIsNoticed
  <2> SUFFICES ASSUME Inv PROVE DeadIsNoticed
    OBVIOUS
  <2>1. cl.quiet \in Nat /\ Silence \in Nat
    BY OneClient, Constants DEF Client
  <2>2. cl.at = "session" => cl.quiet <= Silence \/ cl.wr # <<>>
    BY <2>1 DEF Inv, Noticed
  <2>3. ASSUME NEW l \in Links, link[l].srv = "serving", link[l].wr = <<>>
        PROVE  link[l].dead <= Misses
    <3>1. SrvSide(link[l]) /\ ~ SrvStuck(link[l])
      BY <2>3, OneConn DEF SrvStuck
    <3>2. link[l].missed \in Nat /\ link[l].dead \in Nat
      <4>1. link[l].missed \in 0..MaxMissed /\ link[l].dead \in Nat
        BY OneConn DEF Conn
      <4> QED
        BY <4>1, Constants
    <3>3. Serves(link[l])
      BY <2>3, <3>1 DEF SrvSide, Serves
    <3> QED
      BY <3>1, <3>2, <3>3, Constants DEF SrvSide
  <2> QED
    BY <2>2, <2>3 DEF DeadIsNoticed
<1> QED
  BY <1>1, Invariance, PTL

LEMMA EveryStepFine == Spec => [][StepFine]_vars
<1>1. Inv /\ [Next]_vars => [StepFine]_vars
  BY StepInv
<1> QED
  BY <1>1, Invariance, PTL DEF Spec

\* The server times out only a client that is really lost: while the connection is up and
\* the client has its end open, no order of probes, bursts and other messages makes the
\* server's session give up (session_loop of geserdesk-server), whatever the sizes of the
\* bursts and of the pipes.
THEOREM LinkHealthyIsKept == Spec => HealthyIsKept
<1> DEFINE Kept == \A l \in Links :
                     link[l].srv = "serving" /\ ~link[l].over /\ ~link[l].cut /\ OnLink(l)
                     => ~link'[l].over
<1>1. [StepFine]_vars => [Kept]_vars
  BY DEF StepFine, Serves, OnLink
<1>2. [][StepFine]_vars => [][Kept]_vars
  BY <1>1, PTL
<1> QED
  BY <1>2, EveryStepFine DEF HealthyIsKept

\* Nothing is said to a server whose certificate is not the one a person confirmed or the
\* file holds (connect_observed, PinnedServer), whatever other machine takes the address.
THEOREM LinkPinnedOnly == Spec => PinnedOnly
<1> DEFINE Known == \A l \in Links : link[l].up = <<>> /\ link'[l].up # <<>> =>
                       link[l].cert \in {cl.just, known}
<1>1. [StepFine]_vars => [Known]_vars
  BY DEF StepFine
<1>2. [][StepFine]_vars => [][Known]_vars
  BY <1>1, PTL
<1> QED
  BY <1>2, EveryStepFine DEF PinnedOnly

----------------------------------------------------------------------------
(* SwitchGate, for any edges, policies and bounds.                         *)

\* What the gates rest on: a mark without an edge is no mark; a dwell at an edge is no older
\* than the rest there (without the tap: with it, a first touch of another edge leaves the
\* dwell as it was); and both gates are armed by reports read since the input came home.
Armed ==
  /\ dwell.edge = NoEdge => dwell = NoMark
  /\ lastTap.edge = NoEdge => lastTap = NoMark
  /\ rest.edge = NoEdge => rest = NoMark
  /\ policy.tap = 0 /\ dwell # NoMark => rest.edge = dwell.edge /\ rest.age >= dwell.age
  /\ dwell # NoMark => home.age >= dwell.age
  /\ lastTap # NoMark => home.samples >= 1

GateInv == GateTypeOK /\ Armed

\* The marks and ages that the gates are made of.
LEMMA MarkTypes ==
  /\ NoMark \in Mark /\ NoMark.edge = NoEdge
  /\ \A e \in Edges : Now(e) \in Mark /\ Now(e).edge = e /\ Now(e).age = 0 /\ Now(e) # NoMark
  BY GateAssumption DEF Mark, NoMark, Now

LEMMA InitGate == GateInit => GateInv
<1> SUFFICES ASSUME GateInit PROVE GateInv
  OBVIOUS
<1>1. JustHome \in [age : 0..MaxAge, samples : 0..2] /\ At(NoEdge, FALSE) \in Place
  BY GateAssumption DEF JustHome, Place, At
<1>2. moved \in BOOLEAN /\ grabbed \in BOOLEAN
  BY Zenon DEF GateInit
<1>q. samples \in Seq(Place) /\ cmds \in Seq({"grab", "ungrab"})
  BY DEF GateInit
<1>3. /\ policy \in Policies /\ live \in SUBSET Edges /\ remote \in Edges \cup {NoEdge}
      /\ dwell = NoMark /\ lastTap = NoMark /\ rest = NoMark
      /\ pointer \in Place /\ home \in [age : 0..MaxAge, samples : 0..2]
  BY <1>1 DEF GateInit
<1>4. GateTypeOK
  BY <1>2, <1>q, <1>3, MarkTypes, Zenon DEF GateTypeOK
<1>5. Armed
  BY DEF GateInit, Armed, NoMark
<1> QED
  BY <1>4, <1>5 DEF GateInv

LEMMA OlderMark ==
  ASSUME NEW m \in Mark
  PROVE  LET o == [m EXCEPT !.age = Older(@)] IN
         o \in Mark /\ o.edge = m.edge /\ o.age = Older(m.age)
  BY GateAssumption DEF Mark, Older

\* The settings, the queues between router and capture thread, and the pointer.
LEMMA QueueTypes ==
  ASSUME GateTypeOK, [GateNext]_gateVars
  PROVE  /\ policy' = policy /\ live' \in SUBSET Edges
         /\ pointer' \in Place /\ samples' \in Seq(Place) /\ cmds' \in Seq({"grab", "ungrab"})
         /\ moved' \in BOOLEAN /\ grabbed' \in BOOLEAN
<1>0. /\ live \in SUBSET Edges /\ pointer \in Place /\ samples \in Seq(Place)
      /\ cmds \in Seq({"grab", "ungrab"}) /\ moved \in BOOLEAN /\ grabbed \in BOOLEAN
  BY DEF GateTypeOK
<1>1. policy' = policy /\ live' \in SUBSET Edges
  BY <1>0 DEF GateNext, HandlePointer, GoLocal, HotkeyEnters, Arrives, Leaves, Move, Report,
         CaptureObeys, GateTick, gateVars
<1>2. pointer' \in Place /\ samples' \in Seq(Place)
  BY <1>0 DEF GateNext, HandlePointer, GoLocal, HotkeyEnters, Arrives, Leaves, Move, Report,
         CaptureObeys, GateTick, gateVars, captureVars
<1>3. \/ UNCHANGED cmds
      \/ cmds # <<>> /\ cmds' = Tail(cmds)
      \/ \E c \in {"grab", "ungrab"} : cmds' = Append(cmds, c)
  BY DEF GateNext, HandlePointer, Ignore, Elsewhere, AtEdge, GoLocal, HotkeyEnters, ComeHome, Command,
         Arrives, Leaves, Move, Report, CaptureObeys, GateTick, gateVars
<1>4. cmds' \in Seq({"grab", "ungrab"})
  BY <1>0, <1>3
<1>5. \/ UNCHANGED <<moved, grabbed>>
      \/ moved' \in BOOLEAN /\ grabbed' \in BOOLEAN
  BY <1>0, Zenon DEF GateNext, HandlePointer, GoLocal, HotkeyEnters, Arrives, Leaves, Move, Report,
         CaptureObeys, GateTick, gateVars, captureVars
<1>6. moved' \in BOOLEAN /\ grabbed' \in BOOLEAN
  BY <1>0, <1>5, Zenon
<1> QED
  BY <1>1, <1>2, <1>4, <1>6

\* The rest of the state: the gates, who has the input and the history.
Judged == <<remote, gate, historyVars>>

LEMMA NextGate == GateInv /\ [GateNext]_gateVars => GateInv'
<1> SUFFICES ASSUME GateInv, [GateNext]_gateVars PROVE GateInv'
  OBVIOUS
<1> DEFINE RestOK ==
             /\ remote' \in Edges \cup {NoEdge}
             /\ dwell' \in Mark /\ (dwell' # NoMark => policy.delay > 0 /\ Local')
             /\ lastTap' \in Mark /\ (lastTap' # NoMark => policy.tap > 0 /\ Local')
             /\ rest' \in Mark
             /\ home' \in [age : 0..MaxAge, samples : 0..2]
<1>a. ASSUME RestOK, Armed' PROVE GateInv'
  BY <1>a, QueueTypes DEF GateInv, GateTypeOK
<1>b. ASSUME UNCHANGED Judged PROVE GateInv'
  <2>1. RestOK
    BY <1>b DEF Judged, gate, historyVars, GateInv, GateTypeOK, Local
  <2>2. Armed'
    BY <1>b, QueueTypes DEF Judged, gate, historyVars, GateInv, Armed
  <2> QED
    BY <1>a, <2>1, <2>2
<1>c. policy \in Policy /\ policy.delay \in 0..MaxAge /\ policy.tap \in 0..MaxAge
  BY GateAssumption DEF GateInv, GateTypeOK, Policy
<1>d. policy' = policy
  BY QueueTypes DEF GateInv
<1> USE DEF GateInv, GateTypeOK
<1>e. ASSUME Switched, UNCHANGED rest, UNCHANGED home, remote' \in Edges \cup {NoEdge} PROVE GateInv'
  <2>1. RestOK /\ Armed'
    BY <1>e, MarkTypes DEF Switched, Armed
  <2> QED
    BY <1>a, <2>1
<1>f. ASSUME ComeHome PROVE GateInv'
  <2>1. JustHome \in [age : 0..MaxAge, samples : 0..2]
    BY GateAssumption DEF JustHome
  <2>2. RestOK /\ Armed'
    BY <1>f, <2>1, MarkTypes DEF ComeHome, Switched, Armed
  <2> QED
    BY <1>a, <2>2
<1>1. CASE HandlePointer
  <2> DEFINE p == Head(samples)
  <2>0. p \in Place /\ p.edge \in Edges \cup {NoEdge, Off}
    BY <1>1 DEF HandlePointer, Place, At
  <2>1. CASE Ignore(p)
    BY <1>b, <2>1 DEF Ignore, Judged
  <2>2. CASE Elsewhere(p)
    <3>1. RestOK /\ Armed'
      BY <1>d, <2>2, MarkTypes DEF Elsewhere, LeftEdge, Armed, Local
    <3> QED
      BY <1>a, <3>1
  <2>3. CASE AtEdge(p)
    <3> DEFINE e == p.edge
    <3>1. e \in Edges /\ Local
      BY <2>0, <2>3 DEF AtEdge
    <3> HIDE DEF p
    <3>2. /\ home' \in [age : 0..MaxAge, samples : 0..2]
          /\ home'.age = home.age /\ home'.samples >= 1
      BY <2>3 DEF AtEdge, CountSample
    <3>3. rest' = (IF rest.edge = e THEN rest ELSE Now(e)) /\ rest' \in Mark /\ rest'.edge = e
      BY <2>3, <3>1, MarkTypes DEF AtEdge, RestAt
    <3>4. CASE SecondTap(e) /\ Dwelt(e)
      <4>1. remote' = e /\ dwell' = NoMark /\ lastTap' = NoMark
        BY <2>3, <3>4 DEF AtEdge, Switched
      <4>2. RestOK
        BY <3>1, <3>2, <3>3, <4>1, MarkTypes
      <4>3. Armed'
        BY <1>d, <3>1, <3>3, <4>1, GateAssumption, MarkTypes DEF Armed
      <4> QED
        BY <1>a, <4>2, <4>3
    <3>5. CASE ~(SecondTap(e) /\ Dwelt(e))
      <4>1. UNCHANGED remote /\ Wait(e)
        BY <2>3, <3>5 DEF AtEdge
      <4>2. lastTap' \in Mark /\ (lastTap' # NoMark => policy.tap > 0) /\ (lastTap'.edge = NoEdge => lastTap' = NoMark)
        BY <1>c, <3>1, <4>1, GateAssumption, MarkTypes DEF Wait, Armed
      <4>3. dwell' \in Mark /\ (dwell' # NoMark => policy.delay > 0) /\ (dwell'.edge = NoEdge => dwell' = NoMark)
        BY <1>c, <3>1, <3>5, <4>1, GateAssumption, MarkTypes DEF Wait, Dwelt, Armed
      <4>4. RestOK
        BY <3>1, <3>2, <3>3, <4>1, <4>2, <4>3 DEF Local
      <4>5. dwell' # NoMark => home'.age >= dwell'.age
        BY <3>1, <3>2, <4>1, MarkTypes DEF Wait, Armed
      <4>6. policy.tap = 0 /\ dwell' # NoMark => rest'.edge = dwell'.edge /\ rest'.age >= dwell'.age
        <5> SUFFICES ASSUME policy.tap = 0, dwell' # NoMark
                     PROVE  rest'.edge = dwell'.edge /\ rest'.age >= dwell'.age
          OBVIOUS
        <5>1. dwell' = IF dwell.edge # e THEN Now(e) ELSE dwell
          BY <4>1 DEF Wait, SecondTap
        <5>2. CASE dwell.edge # e
          <6>1. rest'.age \in Nat /\ dwell'.edge = e /\ dwell'.age = 0
            BY <3>1, <3>3, <5>1, <5>2, MarkTypes DEF Mark
          <6> QED
            BY <3>3, <6>1
        <5>3. CASE dwell.edge = e
          BY <3>3, <5>1, <5>3 DEF Armed
        <5> QED
          BY <5>2, <5>3
      <4>7. Armed'
        BY <1>d, <3>1, <3>2, <3>3, <4>2, <4>3, <4>5, <4>6, GateAssumption DEF Armed
      <4> QED
        BY <1>a, <4>4, <4>7
    <3> QED
      BY <3>4, <3>5
  <2> QED
    BY <1>1, <2>1, <2>2, <2>3 DEF HandlePointer
<1>2. CASE GoLocal
  BY <1>f, <1>2 DEF GoLocal
<1>3. CASE HotkeyEnters
  BY <1>e, <1>3 DEF HotkeyEnters, historyVars
<1>4. ASSUME NEW e \in Edges, Arrives(e) PROVE GateInv'
  BY <1>b, <1>4 DEF Arrives, Judged
<1>5. ASSUME NEW e \in Edges, Leaves(e) PROVE GateInv'
  BY <1>b, <1>f, <1>5 DEF Leaves, Judged
<1>6. ASSUME NEW p \in Place, Move(p) PROVE GateInv'
  BY <1>b, <1>6 DEF Move, Judged
<1>7. CASE Report \/ CaptureObeys \/ UNCHANGED gateVars
  BY <1>b, <1>7 DEF Report, CaptureObeys, gateVars, Judged
<1>8. CASE GateTick
  <2>1. /\ dwell' = (IF dwell = NoMark THEN dwell ELSE [dwell EXCEPT !.age = Older(@)])
        /\ lastTap' = (IF lastTap = NoMark THEN lastTap ELSE [lastTap EXCEPT !.age = Older(@)])
        /\ rest' = (IF rest = NoMark THEN rest ELSE [rest EXCEPT !.age = Older(@)])
        /\ home' = [home EXCEPT !.age = Older(@)] /\ UNCHANGED remote
    BY <1>8 DEF GateTick
  <2>2. /\ dwell' \in Mark /\ dwell'.edge = dwell.edge
        /\ dwell' = NoMark <=> dwell = NoMark
        /\ dwell # NoMark => dwell'.age = Older(dwell.age)
    BY <2>1, OlderMark, MarkTypes DEF Armed
  <2>3. /\ lastTap' \in Mark /\ lastTap'.edge = lastTap.edge
        /\ lastTap' = NoMark <=> lastTap = NoMark
    BY <2>1, OlderMark, MarkTypes DEF Armed
  <2>4. /\ rest' \in Mark /\ rest'.edge = rest.edge
        /\ rest' = NoMark <=> rest = NoMark
        /\ rest # NoMark => rest'.age = Older(rest.age)
    BY <2>1, OlderMark, MarkTypes DEF Armed
  <2>5. /\ home' \in [age : 0..MaxAge, samples : 0..2]
        /\ home'.age = Older(home.age) /\ home'.samples = home.samples
    BY <2>1, GateAssumption DEF Older
  <2>6. \A m \in 0..MaxAge, n \in 0..MaxAge : m >= n => Older(m) >= Older(n)
    BY GateAssumption DEF Older
  <2>7. RestOK
    BY <2>1, <2>2, <2>3, <2>4, <2>5 DEF Local
  <2>8. dwell.age \in 0..MaxAge /\ rest.age \in 0..MaxAge /\ home.age \in 0..MaxAge
    BY DEF Mark
  <2>9. Armed'
    BY <1>d, <2>2, <2>3, <2>4, <2>5, <2>6, <2>8, MarkTypes DEF Armed
  <2> QED
    BY <1>a, <2>7, <2>9
<1> QED
  BY <1>1, <1>2, <1>3, <1>4, <1>5, <1>6, <1>7, <1>8 DEF GateNext

\* The marks, the queues and the history keep their types, and no gate is armed that the
\* policy does not ask for or while a client has the input (SwitchState::switched).
THEOREM GateTypes == GateSpec => []GateTypeOK
<1>1. GateInv => GateTypeOK
  BY DEF GateInv
<1> QED
  BY <1>1, InitGate, NextGate, PTL DEF GateSpec

\* A switch the gates let through is the router's, for a report at that edge.
LEMMA GateStep ==
  ASSUME GateInv, [GateNext]_gateVars, NEW e \in Edges, GateOpens(e)
  PROVE  SecondTap(e) /\ Dwelt(e) /\ CountSample
<1>1. remote = NoEdge /\ remote' # NoEdge /\ samples' # samples
  BY GateAssumption DEF GateOpens, Local
<1>2. HandlePointer
  BY <1>1 DEF GateNext, GoLocal, HotkeyEnters, Arrives, Leaves, Move, Report, CaptureObeys, GateTick, gateVars,
     captureVars
<1> QED
  BY <1>1, <1>2 DEF HandlePointer, Ignore, Elsewhere, AtEdge, GateOpens

\* With the dwell alone, the cursor that goes over rested at the edge for as long as the
\* policy asks, by every report the router read (SwitchState::evaluate, on_pointer).
THEOREM GateNeedsRest == GateSpec => SwitchNeedsRest
<1> DEFINE A == policy.tap = 0 =>
                  \A e \in Edges : GateOpens(e) /\ policy.delay > 0 =>
                    rest.edge = e /\ rest.age >= policy.delay
<1>1. GateInv /\ [GateNext]_gateVars => A
  <2> SUFFICES ASSUME GateInv, [GateNext]_gateVars, policy.tap = 0, NEW e \in Edges, GateOpens(e),
                      policy.delay > 0
               PROVE  rest.edge = e /\ rest.age >= policy.delay
    OBVIOUS
  <2>1. dwell.edge = e /\ dwell.age >= policy.delay
    BY GateStep DEF Dwelt
  <2>2. rest.edge = e /\ rest.age >= dwell.age
    BY <2>1, GateAssumption, MarkTypes DEF GateInv, Armed
  <2>3. dwell.age \in Nat /\ rest.age \in Nat /\ policy.delay \in Nat
    BY GateAssumption DEF GateInv, GateTypeOK, Mark, Policy
  <2> QED
    BY <2>1, <2>2, <2>3
<1> QED
  BY <1>1, InitGate, NextGate, PTL DEF GateSpec, SwitchNeedsRest

\* The input does not bounce: what opens a gate began after the input came home
\* (SwitchState::switched at every way home, SwitchState::evaluate).
THEOREM GateNoBounce == GateSpec => NoBounce
<1> DEFINE A == \A e \in Edges : GateOpens(e) =>
                  /\ policy.delay > 0 => home.age >= policy.delay
                  /\ policy.tap > 0 => home'.samples = 2
<1>1. GateInv /\ [GateNext]_gateVars => A
  <2> SUFFICES ASSUME GateInv, [GateNext]_gateVars, NEW e \in Edges, GateOpens(e)
               PROVE  /\ policy.delay > 0 => home.age >= policy.delay
                      /\ policy.tap > 0 => home'.samples = 2
    OBVIOUS
  <2>1. policy.delay \in Nat /\ policy.tap \in Nat /\ dwell.age \in Nat
        /\ home \in [age : 0..MaxAge, samples : 0..2]
    BY GateAssumption DEF GateInv, GateTypeOK, Mark, Policy
  <2>2. ASSUME policy.delay > 0 PROVE home.age >= policy.delay
    <3>1. dwell.edge = e /\ dwell.age >= policy.delay
      BY <2>1, <2>2, GateStep DEF Dwelt
    <3>2. home.age >= dwell.age
      BY <3>1, GateAssumption, MarkTypes DEF GateInv, Armed
    <3> QED
      BY <2>1, <3>1, <3>2
  <2>3. ASSUME policy.tap > 0 PROVE home'.samples = 2
    <3>1. lastTap.edge = e /\ CountSample
      BY <2>1, <2>3, GateStep DEF SecondTap
    <3>2. home.samples >= 1
      BY <3>1, GateAssumption, MarkTypes DEF GateInv, Armed
    <3> QED
      BY <2>1, <3>1, <3>2 DEF CountSample
  <2> QED
    BY <2>2, <2>3
<1> QED
  BY <1>1, InitGate, NextGate, PTL DEF GateSpec, NoBounce

-----------------------------------------------------------------------------
(***************************************************************************)
(* TrustAdmin, for any number of screens, connections, certificates and    *)
(* controllers.                                                            *)
(*                                                                         *)
(* What the pending list holds is no part of it: an approval names the     *)
(* certificate itself, and is only refused when the list lacks it.         *)
(***************************************************************************)
USE DEF disk, outboxes

\* A command in progress names a screen, a certificate and a document where its stage and
\* kind use them, and a connection past TLS has its certificate.
CommandShape(o) ==
  /\ o.at = "idle" => o = Idle
  /\ o.at = "approve" => o.cmd = "approve"
  /\ o.cmd = "none" => o = Idle
  /\ o.cmd \in {"approve", "revoke", "switch"} => o.name \in Names
  /\ o.cmd = "approve" => o.cert \in ClientCerts
  /\ o.cmd = "revoke" => o.cert = Absent
  /\ o.at \in {"write", "fill"} => o.doc \in File \cup {Broken}

Shapes ==
  /\ \A c \in Controllers : CommandShape(op[c])
  /\ \A s \in Sessions : conn[s].at # "idle" => conn[s].cert \in ClientCerts

TrustTypeInv == StateOK /\ Shapes

\* The registry and the sessions agree on who serves.
Holds ==
  /\ \A s \in Serving : entry[NameOf[s]] = s
  /\ \A n \in Names : entry[n] # Absent => entry[n] \in Serving /\ NameOf[entry[n]] = n

\* A certificate that was checked is still the trusted one, or has been overtaken.
Vouched ==
  \A s \in Sessions :
    conn[s].at \in Checked => conn[s].late \/ trusted[NameOf[s]] = conn[s].cert

\* The same of a session that serves, but for the time a revocation of its screen takes to
\* come to the Close it sends.
Revoking(n) == \E c \in Controllers : op[c].cmd = "revoke" /\ op[c].name = n
Accounted ==
  \A s \in Serving \ closing :
    conn[s].late \/ trusted[NameOf[s]] = conn[s].cert \/ Revoking(NameOf[s])

SessionsInv == Holds /\ Vouched /\ Accounted

\* Memory is what the file says.
Agreed ==
  /\ trusted = Fingerprints(file)
  /\ screens = Listed(file)
  /\ disabled = TurnedOff(file)

\* Before its rename a command has changed the trust list only, and keeps what an undo
\* needs; the document it writes is the file with its own change.
Before(o) ==
  /\ screens = Listed(file)
  /\ disabled = TurnedOff(file)
  /\ o.cmd \in {"approve", "revoke"} => o.old = Fingerprints(file)[o.name]
  /\ trusted = IF o.at # "approve" /\ o.cmd \in {"approve", "revoke"}
               THEN [Fingerprints(file) EXCEPT ![o.name] = o.cert] ELSE Fingerprints(file)
  /\ o.cmd = "approve" => o.listed = (o.name \in screens)
  /\ o.cmd = "switch" => o.name \in screens
  /\ o.at \in {"write", "fill", "rename"} => o.doc = Edited(file, o)
  /\ o.at = "fill" => tmp = Broken
  /\ o.at = "rename" => tmp = o.doc

\* After it, what is left is the new screen or the switch.
After(o) ==
  /\ trusted = Fingerprints(file)
  /\ Listed(file) = IF o.cmd = "approve" THEN screens \cup {o.name} ELSE screens
  /\ TurnedOff(file) = IF o.cmd # "switch" THEN disabled
                       ELSE IF o.off THEN disabled \cup {o.name} ELSE disabled \ {o.name}

\* As long as commands never overlapped there is at most one, it fills the temporary file it
\* opened, and it is the only thing memory and file differ by.
Alone(c) == \A d \in Controllers \ {c} : op[d] = Idle
SavedInv ==
  ~mixed => /\ file \in File
            /\ NoCommand => Agreed
            /\ \A c \in Controllers :
                 op[c] # Idle => /\ Alone(c)
                                 /\ op[c].at = "fill" => open[c] = "tmp"
                                 /\ IF op[c].at = "saved" THEN After(op[c]) ELSE Before(op[c])

----------------------------------------------------------------------------
(* Types.                                                                  *)

LEMMA FileTypes ==
  ASSUME NEW f \in File
  PROVE  /\ Fingerprints(f) \in [Names -> ClientCerts \cup {Absent}]
         /\ TurnedOff(f) \subseteq Names /\ Listed(f) \subseteq Names
<1>1. \A n \in Names : f[n] # Absent => f[n].fp \in ClientCerts \cup {Absent}
  BY DEF File, Screen
<1> QED
  BY <1>1 DEF Fingerprints, TurnedOff, Listed

\* The file a command writes: another record for its screen, or the same file.
LEMMA EditedCases ==
  ASSUME NEW f \in File, NEW o
  PROVE  /\ o.cmd = "approve" /\ ~o.listed
              => Edited(f, o) = [f EXCEPT ![o.name] = [fp |-> o.cert, off |-> FALSE]]
         /\ o.cmd = "approve" /\ o.listed /\ f[o.name] # Absent
              => Edited(f, o) = [f EXCEPT ![o.name] = [@ EXCEPT !.fp = o.cert]]
         /\ o.cmd = "revoke" /\ f[o.name] # Absent
              => Edited(f, o) = [f EXCEPT ![o.name] = [@ EXCEPT !.fp = Absent]]
         /\ o.cmd = "switch" /\ f[o.name] # Absent
              => Edited(f, o) = [f EXCEPT ![o.name] = [@ EXCEPT !.off = o.off]]
         /\ (o.cmd = "approve" => o.listed) /\ f[o.name] = Absent => Edited(f, o) = f
         /\ o.cmd \notin {"approve", "revoke", "switch"} => Edited(f, o) = f
<1>1. f # Broken
  BY TrustAssumption DEF File
<1> QED
  BY <1>1 DEF Edited

LEMMA EditedType ==
  ASSUME NEW f \in File, NEW o \in Op,
         o.cmd \in {"approve", "revoke", "switch"} => o.name \in Names,
         o.cmd = "approve" => o.cert \in ClientCerts
  PROVE  Edited(f, o) \in File
<1> DEFINE n == o.name
<1>1. ASSUME NEW r \in Screen PROVE [f EXCEPT ![n] = r] \in File
  BY <1>1 DEF File
<1>2. o.off \in BOOLEAN /\ o.cert \in ClientCerts \cup {Absent}
  BY DEF Op
<1>3. CASE o.cmd = "approve" /\ ~o.listed
  <2>1. [fp |-> o.cert, off |-> FALSE] \in Screen
    BY <1>2 DEF Screen
  <2> QED
    BY <1>1, <1>3, <2>1, EditedCases
<1>4. CASE o.cmd \in {"approve", "revoke", "switch"} /\ f[n] # Absent
  <2>1. f[n] \in Screen
    BY <1>4 DEF File
  <2>2. /\ [f[n] EXCEPT !.fp = o.cert] \in Screen
        /\ [f[n] EXCEPT !.fp = Absent] \in Screen
        /\ [f[n] EXCEPT !.off = o.off] \in Screen
    BY <1>2, <2>1 DEF Screen
  <2>3. /\ [f EXCEPT ![n] = [f[n] EXCEPT !.fp = o.cert]] \in File
        /\ [f EXCEPT ![n] = [f[n] EXCEPT !.fp = Absent]] \in File
        /\ [f EXCEPT ![n] = [f[n] EXCEPT !.off = o.off]] \in File
    BY <1>1, <2>2
  <2>4. CASE o.cmd = "approve"
    BY <1>3, <1>4, <2>3, <2>4, EditedCases, Zenon
  <2>5. CASE o.cmd = "revoke"
    BY <1>4, <2>3, <2>5, EditedCases, Zenon
  <2>6. CASE o.cmd = "switch"
    BY <1>4, <2>3, <2>6, EditedCases, Zenon
  <2> QED
    BY <1>4, <2>4, <2>5, <2>6
<1>5. CASE o.cmd \notin {"approve", "revoke", "switch"}
  BY <1>5, EditedCases, Zenon
<1>6. CASE ~(o.cmd = "approve" /\ ~o.listed) /\ f[n] = Absent
  BY <1>6, EditedCases, Zenon
<1> QED
  BY <1>3, <1>4, <1>5, <1>6

LEMMA IdleIsOp == Idle \in Op
  BY DEF Idle, Op, Stages

LEMMA OvertakenType ==
  ASSUME TrustTypeInv, NEW n, NEW f, NEW stages
  PROVE  /\ Overtaken(n, f, stages) \in [Sessions -> Connection]
         /\ \A s \in Sessions : /\ Overtaken(n, f, stages)[s].at = conn[s].at
                                /\ Overtaken(n, f, stages)[s].cert = conn[s].cert
                                /\ Overtaken(n, f, stages)[s].listed = conn[s].listed
  BY DEF TrustTypeInv, StateOK, Overtaken, Connection

LEMMA InitTypes == TrustInit => TrustTypeInv
<1> SUFFICES ASSUME TrustInit PROVE TrustTypeInv
  OBVIOUS
<1>1. StateOK
  BY TrustAssumption, FileTypes, IdleIsOp DEF TrustInit, StateOK, NoConn, Connection
<1>2. Shapes
  BY DEF TrustInit, Shapes, CommandShape, Idle, NoConn
<1> QED
  BY <1>1, <1>2 DEF TrustTypeInv

\* A connection's record changes within its type and keeps its certificate.
LEMMA ConnTypes ==
  ASSUME TrustTypeInv, NEW s \in Sessions, ConnStep(s)
  PROVE  /\ conn' \in [Sessions -> Connection]
         /\ \A t \in Sessions : conn'[t].at # "idle" => conn'[t].cert \in ClientCerts
<1> USE DEF TrustTypeInv, StateOK, Shapes
<1> DEFINE Good(k) == k \in [Sessions -> Connection]
                      /\ \A t \in Sessions : k[t].at # "idle" => k[t].cert \in ClientCerts
<1>1. ASSUME NEW r \in Connection, r.at # "idle" => r.cert \in ClientCerts
      PROVE  Good([conn EXCEPT ![s] = r])
  BY <1>1
<1>2. NoConn \in Connection /\ NoConn.at = "idle"
  BY DEF NoConn, Connection
<1>3. ASSUME conn[s].at # "idle", NEW stage \in {"trusted", "welcomed", "serving"}
      PROVE  LET r == [conn[s] EXCEPT !.at = stage] IN r \in Connection /\ r.cert \in ClientCerts
  BY <1>3 DEF Connection
<1>4. ASSUME NEW c \in ClientCerts, Knock(s, c) PROVE Good(conn')
  <2>1. [at |-> "hello", cert |-> c, listed |-> NameOf[s] \in screens, late |-> FALSE] \in Connection
    BY DEF Connection
  <2> QED
    BY <1>1, <1>4, <2>1 DEF Knock
<1>5. CASE GiveUp(s) \/ EndSession(s)
  BY <1>1, <1>2, <1>5 DEF GiveUp, EndSession
<1>6. CASE Authorize(s)
  BY <1>1, <1>2, <1>3, <1>6 DEF Authorize
<1>7. CASE Welcome(s)
  BY <1>1, <1>2, <1>3, <1>7 DEF Welcome
<1>8. CASE Admit(s)
  <2>1. [conn EXCEPT ![s].at = "serving"]
          = [conn EXCEPT ![s] = [conn[s] EXCEPT !.at = "serving"]]
    OBVIOUS
  <2>2. CASE entry[NameOf[s]] = Absent
    <3> DEFINE r == [conn[s] EXCEPT !.at = "serving"]
    <3>1. r \in Connection /\ r.cert \in ClientCerts
      BY <1>3, <1>8 DEF Admit
    <3>2. conn' = [conn EXCEPT ![s] = r]
      BY <1>8, <2>1, <2>2 DEF Admit
    <3> HIDE DEF r
    <3> QED
      BY <1>1, <3>1, <3>2
  <2>3. CASE entry[NameOf[s]] # Absent
    BY <1>1, <1>2, <1>8, <2>3 DEF Admit
  <2> QED
    BY <2>2, <2>3
<1>9. CASE AwaitSend(s) \/ Sent(s)
  BY <1>9 DEF AwaitSend, Sent
<1> QED
  BY <1>4, <1>5, <1>6, <1>7, <1>8, <1>9 DEF ConnStep

\* A step that changes one controller's command.
LEMMA OwnCommand ==
  ASSUME TrustTypeInv, NEW c \in Controllers, NEW o \in Op, CommandShape(o), op' = [op EXCEPT ![c] = o]
  PROVE  op' \in [Controllers -> Op] /\ \A d \in Controllers : CommandShape(op'[d])
<1>1. op \in [Controllers -> Op] /\ \A d \in Controllers : CommandShape(op[d])
  BY DEF TrustTypeInv, StateOK, Shapes
<1>2. op' \in [Controllers -> Op]
  BY <1>1
<1>3. op'[c] = o /\ \A d \in Controllers \ {c} : op'[d] = op[d]
  BY <1>1
<1> QED
  BY <1>1, <1>2, <1>3

\* The next stage of a command in progress.
LEMMA NextStage ==
  ASSUME TrustTypeInv, NEW c \in Controllers, op[c] # Idle,
         NEW at \in {"save", "fill", "rename", "saved", "undo"}, at = "fill" => op[c].at = "write"
  PROVE  LET o == [op[c] EXCEPT !.at = at] IN
         /\ [op EXCEPT ![c].at = at] = [op EXCEPT ![c] = o]
         /\ o \in Op
         /\ o.at = at /\ o.cmd = op[c].cmd /\ o.name = op[c].name /\ o.cert = op[c].cert
         /\ o.listed = op[c].listed /\ o.old = op[c].old /\ o.off = op[c].off
         /\ o.doc = op[c].doc
         /\ o # Idle
         /\ op[c].at # "approve" \/ op[c].cmd = "approve"
         /\ CommandShape(o)
  BY DEF TrustTypeInv, StateOK, Shapes, CommandShape, Op, Stages, Idle

\* The same of an action whose command comes to its end, or to its next stage.
LEMMA CommandEnds ==
  ASSUME TrustTypeInv, NEW c \in Controllers, op' = [op EXCEPT ![c] = Idle]
  PROVE  op' \in [Controllers -> Op] /\ \A d \in Controllers : CommandShape(op'[d])
<1>1. CommandShape(Idle)
  BY DEF CommandShape, Idle
<1> QED
  BY <1>1, IdleIsOp, OwnCommand

LEMMA CommandStep ==
  ASSUME TrustTypeInv, NEW c \in Controllers, op[c] # Idle,
         NEW at \in {"save", "fill", "rename", "saved", "undo"}, at = "fill" => op[c].at = "write",
         Step(c, at)
  PROVE  op' \in [Controllers -> Op] /\ \A d \in Controllers : CommandShape(op'[d])
<1> DEFINE o == [op[c] EXCEPT !.at = at]
<1>1. op' = [op EXCEPT ![c] = o] /\ o \in Op /\ CommandShape(o)
  BY NextStage DEF Step
<1> HIDE DEF o
<1> QED
  BY <1>1, OwnCommand

LEMMA NextTypes == TrustTypeInv /\ [TrustNext]_trustVars => TrustTypeInv'
<1> SUFFICES ASSUME TrustTypeInv, [TrustNext]_trustVars PROVE TrustTypeInv'
  OBVIOUS
<1> DEFINE CommandsOK == op' \in [Controllers -> Op] /\ \A d \in Controllers : CommandShape(op'[d])
           RestOK == /\ entry' \in [Names -> Sessions \cup {Absent}] /\ disabled' \subseteq Names
                     /\ trusted' \in [Names -> ClientCerts \cup {Absent}]
                     /\ screens' \subseteq Names
                     /\ file' \in File \cup {Broken} /\ tmp' \in File \cup {Absent, Broken}
                     /\ open' \in [Controllers -> {"none", "tmp", "file", "gone"}]
                     /\ conn' \in [Sessions -> Connection]
                     /\ closing' \subseteq Sessions /\ writing' \subseteq Sessions
                     /\ mixed' \in BOOLEAN
                     /\ \A s \in Sessions : conn'[s].at # "idle" => conn'[s].cert \in ClientCerts
<1>a. ASSUME CommandsOK, RestOK PROVE TrustTypeInv'
  BY <1>a DEF TrustTypeInv, StateOK, Shapes
<1>b. ASSUME UNCHANGED op PROVE CommandsOK
  BY <1>b DEF TrustTypeInv, StateOK, Shapes
<1>c. RestOK \/ ~UNCHANGED <<hub, trusted, screens, disk, conn, outboxes, mixed>>
  BY DEF TrustTypeInv, StateOK, Shapes, hub
<1>1. ASSUME NEW s \in Sessions, ConnStep(s) PROVE TrustTypeInv'
  <2>1. UNCHANGED <<disabled, trusted, screens, file, tmp, open, op, mixed>>
    BY <1>1 DEF ConnStep, Knock, GiveUp, Authorize, Welcome, Admit, AwaitSend, Sent, EndSession, hub, commands
  <2>2. entry' \in [Names -> Sessions \cup {Absent}] /\ closing' \subseteq Sessions /\ writing' \subseteq Sessions
    BY <1>1, TrustAssumption DEF TrustTypeInv, StateOK, ConnStep, Knock, GiveUp, Authorize, Welcome,
       Admit, AwaitSend, Sent, EndSession, hub
  <2> QED
    BY <1>1, <1>a, <1>b, <2>1, <2>2, ConnTypes DEF TrustTypeInv, StateOK
<1>2. ASSUME NEW c \in Controllers, NEW o \in Op, CommandShape(o), Takes(c, o) PROVE CommandsOK
  BY <1>2, OwnCommand DEF Takes
<1>3. ASSUME NEW c \in Controllers, NEW o \in Op, CommandShape(o), Begin(c, o) PROVE TrustTypeInv'
  <2>1. mixed' \in BOOLEAN
    BY <1>3 DEF Begin, Takes
  <2>2. RestOK
    BY <1>3, <2>1 DEF TrustTypeInv, StateOK, Shapes, Begin, hub
  <2> QED
    BY <1>2, <1>3, <1>a, <2>2 DEF Begin
<1>4. ASSUME NEW c \in Controllers, NewCommand(c) PROVE TrustTypeInv'
  <2>1. ASSUME NEW n \in Names, NEW f \in ClientCerts, BeginApprove(c, n, f) PROVE TrustTypeInv'
    <3> DEFINE o == [Idle EXCEPT !.at = "approve", !.cmd = "approve", !.name = n, !.cert = f,
                                 !.listed = n \in screens, !.old = trusted[n]]
    <3>1. trusted[n] \in ClientCerts \cup {Absent} /\ (n \in screens) \in BOOLEAN
      BY DEF TrustTypeInv, StateOK
    <3>2. o \in Op
      BY <3>1 DEF Op, Stages, Idle
    <3>3. CommandShape(o)
      BY DEF Idle, CommandShape
    <3> QED
      BY <1>3, <2>1, <3>2, <3>3 DEF BeginApprove
  <2>2. ASSUME NEW n \in Names, BeginRevoke(c, n) PROVE TrustTypeInv'
    <3> DEFINE o == [Idle EXCEPT !.at = "save", !.cmd = "revoke", !.name = n, !.old = trusted[n]]
    <3>1. o \in Op /\ CommandShape(o)
      BY DEF TrustTypeInv, StateOK, Op, Stages, Idle, CommandShape
    <3>2. CommandsOK
      BY <1>2, <2>2, <3>1 DEF BeginRevoke
    <3>3. mixed' \in BOOLEAN /\ trusted' \in [Names -> ClientCerts \cup {Absent}]
      BY <2>2 DEF BeginRevoke, Takes, TrustTypeInv, StateOK
    <3>4. conn' \in [Sessions -> Connection] /\ \A s \in Sessions : conn'[s].at # "idle" => conn'[s].cert \in ClientCerts
      BY <2>2, OvertakenType DEF BeginRevoke, TrustTypeInv, Shapes
    <3> QED
      BY <1>a, <2>2, <3>2, <3>3, <3>4 DEF BeginRevoke, TrustTypeInv, StateOK, hub
  <2>3. ASSUME NEW n \in Names, NEW off \in BOOLEAN, BeginSwitch(c, n, off) PROVE TrustTypeInv'
    <3> DEFINE o == [Idle EXCEPT !.at = "save", !.cmd = "switch", !.name = n, !.off = off]
    <3>1. o \in Op /\ CommandShape(o)
      BY DEF TrustTypeInv, StateOK, Op, Stages, Idle, CommandShape
    <3> QED
      BY <1>3, <2>3, <3>1 DEF BeginSwitch
  <2>4. CASE BeginOther(c)
    <3> DEFINE o == [Idle EXCEPT !.at = "save", !.cmd = "other"]
    <3>1. o \in Op /\ CommandShape(o)
      BY DEF TrustTypeInv, StateOK, Op, Stages, Idle, CommandShape
    <3> QED
      BY <1>3, <2>4, <3>1 DEF BeginOther
  <2> QED
    BY <1>4, <2>1, <2>2, <2>3, <2>4 DEF NewCommand
<1>5. ASSUME NEW c \in Controllers, TrustApprove(c) PROVE TrustTypeInv'
  <2>1. op[c] # Idle /\ op[c].name \in Names /\ op[c].cert \in ClientCerts
    BY <1>5 DEF TrustApprove, TrustTypeInv, Shapes, CommandShape, Idle
  <2>2. CommandsOK
    BY <1>5, <2>1, CommandEnds, CommandStep DEF TrustApprove
  <2>3. trusted' \in [Names -> ClientCerts \cup {Absent}]
    BY <1>5, <2>1 DEF TrustApprove, TrustTypeInv, StateOK
  <2>4. conn' \in [Sessions -> Connection] /\ \A s \in Sessions : conn'[s].at # "idle" => conn'[s].cert \in ClientCerts
    BY <1>5, OvertakenType DEF TrustApprove, TrustTypeInv, StateOK, Shapes
  <2> QED
    BY <1>5, <1>a, <2>2, <2>3, <2>4 DEF TrustApprove, TrustTypeInv, StateOK, hub
<1>6. ASSUME NEW c \in Controllers, ReadConfig(c) PROVE TrustTypeInv'
  <2>1. op[c] # Idle /\ op[c] \in Op
    BY <1>6 DEF ReadConfig, Idle, TrustTypeInv, StateOK
  <2>2. CASE Refused(file, op[c])
    BY <1>6, <1>a, <1>c, <2>1, <2>2, CommandStep DEF ReadConfig
  <2>3. CASE ~Refused(file, op[c])
    <3> DEFINE o == [op[c] EXCEPT !.at = "write", !.doc = Edited(file, op[c])]
    <3>1. Edited(file, op[c]) \in File \cup {Broken}
      <4>1. CASE file = Broken
        BY <4>1 DEF Edited
      <4>2. CASE file \in File
        BY <2>1, <4>2, EditedType DEF TrustTypeInv, StateOK, Shapes, CommandShape
      <4> QED
        BY <4>1, <4>2 DEF TrustTypeInv, StateOK
    <3>2. o \in Op /\ CommandShape(o)
      BY <2>1, <3>1, <1>6 DEF Op, Stages, CommandShape, TrustTypeInv, Shapes, Idle
    <3>3. op' = [op EXCEPT ![c] = o]
      BY <1>6, <2>3 DEF ReadConfig
    <3> HIDE DEF o
    <3> QED
      BY <1>6, <1>a, <1>c, <3>2, <3>3, OwnCommand DEF ReadConfig
  <2> QED
    BY <2>2, <2>3
<1>7. ASSUME NEW c \in Controllers, OpenTmp(c) \/ FillTmp(c) PROVE TrustTypeInv'
  <2>1. op[c] # Idle
    BY <1>7 DEF OpenTmp, FillTmp, Idle
  <2>2. CommandsOK
    BY <1>7, <2>1, CommandStep DEF OpenTmp, FillTmp
  <2>3. open' \in [Controllers -> {"none", "tmp", "file", "gone"}]
    BY <1>7 DEF OpenTmp, FillTmp, TrustTypeInv, StateOK
  <2>4. op[c].at = "fill" => op[c].doc \in File \cup {Broken}
    BY DEF TrustTypeInv, Shapes, CommandShape
  <2>5. file' \in File \cup {Broken} /\ tmp' \in File \cup {Absent, Broken}
    BY <1>7, <2>4 DEF OpenTmp, FillTmp, Written, TrustTypeInv, StateOK
  <2> QED
    BY <1>7, <1>a, <2>2, <2>3, <2>5 DEF OpenTmp, FillTmp, TrustTypeInv, StateOK, Shapes, hub
<1>8. ASSUME NEW c \in Controllers, Rename(c) PROVE TrustTypeInv'
  <2>1. op[c] # Idle
    BY <1>8 DEF Rename, Idle
  <2>2. CommandsOK
    BY <1>8, <2>1, CommandStep DEF Rename
  <2>3. open' \in [Controllers -> {"none", "tmp", "file", "gone"}]
    BY <1>8 DEF Rename, Moved, TrustTypeInv, StateOK
  <2> QED
    BY <1>8, <1>a, <2>2, <2>3 DEF Rename, TrustTypeInv, StateOK, Shapes, hub
<1>9. ASSUME NEW c \in Controllers, Undo(c) PROVE TrustTypeInv'
  <2>1. CommandsOK
    BY <1>9, CommandEnds DEF Undo
  <2>2. op[c] \in Op
    BY DEF TrustTypeInv, StateOK
  <2>3. trusted' \in [Names -> ClientCerts \cup {Absent}]
    BY <1>9, <2>2 DEF Undo, TrustTypeInv, StateOK, Op
  <2>4. conn' \in [Sessions -> Connection] /\ \A s \in Sessions : conn'[s].at # "idle" => conn'[s].cert \in ClientCerts
    BY <1>9, OvertakenType DEF Undo, TrustTypeInv, StateOK, Shapes
  <2> QED
    BY <1>9, <1>a, <2>1, <2>3, <2>4 DEF Undo, TrustTypeInv, StateOK, hub
<1>10. ASSUME NEW c \in Controllers, FinishRevoke(c) \/ FinishOther(c) \/ FinishSwitch(c)
       PROVE  TrustTypeInv'
  <2>1. CommandsOK
    BY <1>10, CommandEnds DEF FinishRevoke, FinishOther, FinishSwitch
  <2>2. op[c].cmd \in {"approve", "revoke", "switch"} => op[c].name \in Names
    BY DEF TrustTypeInv, Shapes, CommandShape
  <2>3. CASE FinishRevoke(c)
    BY <1>a, <2>1, <2>2, <2>3 DEF FinishRevoke, TrustTypeInv, StateOK, Shapes, hub
  <2>4. CASE FinishOther(c)
    BY <1>a, <2>1, <2>2, <2>4 DEF FinishOther, TrustTypeInv, StateOK, Shapes, hub
  <2>5. CASE FinishSwitch(c)
    BY <1>a, <2>1, <2>2, <2>5 DEF FinishSwitch, TrustTypeInv, StateOK, Shapes
  <2> QED
    BY <1>10, <2>3, <2>4, <2>5
<1>11. ASSUME NEW c \in Controllers, SaveFails(c) PROVE TrustTypeInv'
  <2>1. op[c] # Idle
    BY <1>11 DEF SaveFails, Idle
  <2>2. open' \in [Controllers -> {"none", "tmp", "file", "gone"}]
    BY <1>11 DEF SaveFails, TrustTypeInv, StateOK
  <2> QED
    BY <1>11, <1>a, <2>1, <2>2, CommandStep DEF SaveFails, TrustTypeInv, StateOK, Shapes, hub
<1>12. ASSUME NEW r \in Request, Forget(r) PROVE TrustTypeInv'
  BY <1>12, <1>a, <1>b, <1>c DEF Forget, commands
<1>13. CASE Restart
  <2>1. CommandsOK
    BY <1>13, IdleIsOp DEF Restart, CommandShape, Idle
  <2> QED
    BY <1>13, <1>a, <2>1, FileTypes DEF Restart, Load, TrustTypeInv, StateOK, NoConn, Connection
<1>14. CASE UNCHANGED trustVars
  BY <1>14, <1>a, <1>b, <1>c DEF trustVars, commands
<1> QED
  BY <1>1, <1>4, <1>5, <1>6, <1>7, <1>8, <1>9, <1>10, <1>11, <1>12, <1>13, <1>14
     DEF TrustNext, Proceed

\* Everything but the pending list keeps its type, whatever commands, saves, crashes and
\* connections interleave (trust.rs, admin.rs, config.rs and the handshake of net.rs).
THEOREM TrustTypes == TrustSpec => []StateOK
<1>1. TrustTypeInv => StateOK
  BY DEF TrustTypeInv
<1> QED
  BY <1>1, InitTypes, NextTypes, PTL DEF TrustSpec

----------------------------------------------------------------------------
(* Who serves, and with which certificate.                                 *)

LEMMA InitSessions == TrustInit => SessionsInv
  BY DEF TrustInit, SessionsInv, Holds, Vouched, Accounted, Serving, Checked, NoConn

\* A connection's own steps.
LEMMA ConnSessions ==
  ASSUME TrustTypeInv, SessionsInv, NEW s \in Sessions, ConnStep(s)
  PROVE  SessionsInv'
<1> USE TrustAssumption
    DEF TrustTypeInv, StateOK, SessionsInv, Holds, Vouched, Accounted, Serving, Checked
<1>1. UNCHANGED <<trusted, op>> /\ \A t \in Sessions \ {s} : conn'[t] = conn[t]
  BY DEF ConnStep, Knock, GiveUp, Authorize, Welcome, Admit, AwaitSend, Sent, EndSession, commands, hub
<1>2. \A n : Revoking(n)' = Revoking(n)
  BY <1>1 DEF Revoking
<1>3. ASSUME NEW c \in ClientCerts, Knock(s, c) PROVE SessionsInv'
  <2>1. conn'[s].at = "hello" /\ conn[s].at = "idle" /\ UNCHANGED <<entry, closing>>
    BY <1>3 DEF Knock, hub
  <2> QED
    BY <1>1, <1>2, <2>1
<1>4. CASE GiveUp(s)
  <2>1. conn'[s].at = "idle" /\ conn[s].at # "serving" /\ UNCHANGED <<entry, closing>>
    BY <1>4 DEF GiveUp, hub, NoConn
  <2> QED
    BY <1>1, <1>2, <2>1
<1>5. CASE Authorize(s)
  <2>1. /\ conn[s].at = "hello" /\ UNCHANGED <<entry, closing>>
        /\ conn'[s].at \in {"idle", "trusted"}
        /\ conn'[s].at = "trusted" => trusted[NameOf[s]] = conn'[s].cert
    BY <1>5 DEF Authorize, hub, NoConn, Connection
  <2> QED
    BY <1>1, <1>2, <2>1
<1>6. CASE Welcome(s)
  <2>1. /\ conn[s].at = "trusted" /\ UNCHANGED <<entry, closing>>
        /\ \/ conn'[s].at = "idle"
           \/ conn'[s].at = "welcomed" /\ conn'[s].cert = conn[s].cert /\ conn'[s].late = conn[s].late
    <3>1. CASE entry[NameOf[s]] = Absent
      BY <1>6, <3>1 DEF Welcome, hub, Connection
    <3>2. CASE entry[NameOf[s]] # Absent
      BY <1>6, <3>2 DEF Welcome, hub, NoConn
    <3> QED
      BY <3>1, <3>2
  <2> QED
    BY <1>1, <1>2, <2>1
<1>7. CASE Admit(s)
  <2>1. CASE entry[NameOf[s]] = Absent
    <3>1. /\ conn[s].at = "welcomed" /\ UNCHANGED closing
          /\ conn'[s].at = "serving" /\ conn'[s].cert = conn[s].cert /\ conn'[s].late = conn[s].late
          /\ entry' = [entry EXCEPT ![NameOf[s]] = s]
      BY <1>7, <2>1 DEF Admit, Connection
    <3> QED
      BY <1>1, <1>2, <2>1, <3>1
  <2>2. CASE entry[NameOf[s]] # Absent
    <3>1. conn[s].at = "welcomed" /\ conn'[s].at = "idle" /\ UNCHANGED <<entry, closing>>
      BY <1>7, <2>2 DEF Admit, NoConn
    <3> QED
      BY <1>1, <1>2, <3>1
  <2> QED
    BY <2>1, <2>2
<1>8. CASE EndSession(s)
  <2>1. /\ conn[s].at = "serving" /\ conn'[s].at = "idle" /\ closing' = closing \ {s}
        /\ entry' = [entry EXCEPT ![NameOf[s]] = Absent]
    BY <1>8 DEF EndSession, NoConn
  <2> QED
    BY <1>1, <1>2, <2>1
<1>9. CASE AwaitSend(s) \/ Sent(s)
  BY <1>2, <1>9 DEF AwaitSend, Sent, hub
<1> QED
  BY <1>3, <1>4, <1>5, <1>6, <1>7, <1>8, <1>9 DEF ConnStep

\* When the trust list changes for one name, every checked connection of that name learns
\* whether its certificate is still the one; a serving one does, or its Close is coming.
LEMMA TrustChanges ==
  ASSUME TrustTypeInv, SessionsInv, NEW n \in Names, NEW f \in ClientCerts \cup {Absent},
         NEW stages, Checked \subseteq stages,
         trusted' = [trusted EXCEPT ![n] = f], conn' = Overtaken(n, f, stages),
         UNCHANGED <<entry, closing>>, "serving" \in stages \/ Revoking(n)',
         \A k \in Names \ {n} : Revoking(k) => Revoking(k)'
  PROVE  SessionsInv'
<1> USE TrustAssumption
<1>1. \A s \in Sessions : conn'[s].at = conn[s].at /\ conn'[s].cert = conn[s].cert
  BY OvertakenType
<1>2. \A s \in Sessions : NameOf[s] # n => conn'[s] = conn[s] /\ trusted'[NameOf[s]] = trusted[NameOf[s]]
  BY DEF Overtaken, TrustTypeInv, StateOK
<1>3. \A s \in Sessions : NameOf[s] = n /\ conn[s].at \in stages
                          => conn'[s].late = (conn[s].cert # f)
  BY DEF Overtaken, TrustTypeInv, StateOK, Connection
<1>4. trusted'[n] = f
  BY DEF TrustTypeInv, StateOK
<1>5. Holds'
  BY <1>1 DEF SessionsInv, Holds, Serving
<1>6. Vouched'
  BY <1>1, <1>2, <1>3, <1>4 DEF SessionsInv, Vouched
<1>7. Accounted'
  <2> SUFFICES ASSUME NEW s \in Sessions, conn'[s].at = "serving", s \notin closing'
               PROVE  conn'[s].late \/ trusted'[NameOf[s]] = conn'[s].cert \/ Revoking(NameOf[s])'
    BY DEF Accounted, Serving
  <2>1. CASE NameOf[s] = n
    BY <1>1, <1>3, <1>4, <2>1
  <2>2. CASE NameOf[s] # n
    BY <1>1, <1>2, <2>2 DEF SessionsInv, Accounted, Serving
  <2> QED
    BY <2>1, <2>2
<1> QED
  BY <1>5, <1>6, <1>7 DEF SessionsInv

LEMMA NextSessions == TrustTypeInv /\ SessionsInv /\ [TrustNext]_trustVars => SessionsInv'
<1> SUFFICES ASSUME TrustTypeInv, SessionsInv, [TrustNext]_trustVars PROVE SessionsInv'
  OBVIOUS
<1>a. ASSUME UNCHANGED <<entry, trusted, conn, closing>>, \A n : Revoking(n) => Revoking(n)'
      PROVE  SessionsInv'
  BY <1>a DEF SessionsInv, Holds, Vouched, Accounted, Serving
<1>b. ASSUME NEW c \in Controllers, NEW o, op' = [op EXCEPT ![c] = o],
             op[c].cmd = "revoke" => o.cmd = "revoke" /\ o.name = op[c].name
      PROVE  \A n : Revoking(n) => Revoking(n)'
  BY <1>b DEF Revoking, TrustTypeInv, StateOK
<1>c. ASSUME NEW c \in Controllers, NEW at \in Stages, Step(c, at)
      PROVE  \A n : Revoking(n) => Revoking(n)'
  BY <1>c DEF Step, Revoking, TrustTypeInv, StateOK, Op
<1>d. Idle.cmd = "none"
  BY DEF Idle
<1>1. ASSUME NEW s \in Sessions, ConnStep(s) PROVE SessionsInv'
  BY <1>1, ConnSessions
<1>2. ASSUME NEW c \in Controllers, NEW o, Begin(c, o) PROVE SessionsInv'
  <2>1. \A n : Revoking(n) => Revoking(n)'
    BY <1>2, <1>b, <1>d DEF Begin, Takes
  <2> QED
    BY <1>2, <1>a, <2>1 DEF Begin, hub
<1>3. ASSUME NEW c \in Controllers, NEW n \in Names, BeginRevoke(c, n) PROVE SessionsInv'
  <2> DEFINE o == [Idle EXCEPT !.at = "save", !.cmd = "revoke", !.name = n, !.old = trusted[n]]
  <2>1. o.cmd = "revoke" /\ o.name = n
    BY DEF Idle
  <2>2. op[c] = Idle /\ op' = [op EXCEPT ![c] = o]
    BY <1>3 DEF BeginRevoke, Takes
  <2> HIDE DEF o
  <2>3. Revoking(n)' /\ \A k : Revoking(k) => Revoking(k)'
    BY <1>d, <2>1, <2>2 DEF Revoking, TrustTypeInv, StateOK
  <2> QED
    BY <1>3, <2>3, TrustChanges DEF BeginRevoke, hub
<1>4. ASSUME NEW c \in Controllers, NewCommand(c) PROVE SessionsInv'
  BY <1>2, <1>3, <1>4 DEF NewCommand, BeginApprove, BeginSwitch, BeginOther
<1>5. ASSUME NEW c \in Controllers, TrustApprove(c) PROVE SessionsInv'
  <2> DEFINE o == op[c]
  <2>1. o.name \in Names /\ o.cert \in ClientCerts /\ o.cmd = "approve"
    BY <1>5 DEF TrustApprove, TrustTypeInv, Shapes, CommandShape, Idle
  <2>2. CASE [name |-> o.name, cert |-> o.cert] \in Range(pending)
    <3>1. \A n : Revoking(n) => Revoking(n)'
      BY <1>5, <1>c, <2>2 DEF TrustApprove, Stages
    <3> QED
      BY <1>5, <2>1, <2>2, <3>1, TrustChanges DEF TrustApprove, hub
  <2>3. CASE [name |-> o.name, cert |-> o.cert] \notin Range(pending)
    <3>1. \A n : Revoking(n) => Revoking(n)'
      BY <1>5, <1>b, <2>1, <2>3 DEF TrustApprove
    <3> QED
      BY <1>5, <1>a, <2>3, <3>1 DEF TrustApprove, hub
  <2> QED
    BY <2>2, <2>3
<1>6. ASSUME NEW c \in Controllers, ReadConfig(c) PROVE SessionsInv'
  <2>1. CASE Refused(file, op[c])
    <3>1. \A n : Revoking(n) => Revoking(n)'
      BY <1>6, <1>c, <2>1 DEF ReadConfig, Stages
    <3> QED
      BY <1>6, <1>a, <3>1 DEF ReadConfig, hub
  <2>2. CASE ~Refused(file, op[c])
    <3>1. \A n : Revoking(n) => Revoking(n)'
      <4> DEFINE o == [op[c] EXCEPT !.at = "write", !.doc = Edited(file, op[c])]
      <4>1. op' = [op EXCEPT ![c] = o]
        BY <1>6, <2>2 DEF ReadConfig
      <4>2. o.cmd = op[c].cmd /\ o.name = op[c].name
        BY DEF TrustTypeInv, StateOK, Op
      <4> HIDE DEF o
      <4> QED
        BY <1>b, <4>1, <4>2
    <3> QED
      BY <1>6, <1>a, <3>1 DEF ReadConfig, hub
  <2> QED
    BY <2>1, <2>2
<1>7. ASSUME NEW c \in Controllers, OpenTmp(c) \/ FillTmp(c) \/ Rename(c) \/ SaveFails(c)
      PROVE  SessionsInv'
  <2>1. \E at \in Stages : Step(c, at)
    BY <1>7 DEF OpenTmp, FillTmp, Rename, SaveFails, Stages
  <2>2. \A n : Revoking(n) => Revoking(n)'
    BY <1>c, <2>1
  <2> QED
    BY <1>7, <1>a, <2>2 DEF OpenTmp, FillTmp, Rename, SaveFails, hub
<1>8. ASSUME NEW c \in Controllers, Undo(c) PROVE SessionsInv'
  <2> DEFINE o == op[c]
  <2>1. o.cmd \in {"approve", "revoke"} => o.name \in Names
    BY DEF TrustTypeInv, Shapes, CommandShape
  <2>2. o.old \in ClientCerts \cup {Absent}
    BY DEF TrustTypeInv, StateOK, Op
  <2>3. \A k : k # o.name \/ o.cmd # "revoke" => (Revoking(k) => Revoking(k)')
    BY <1>8 DEF Undo, Revoking, TrustTypeInv, StateOK
  <2>4. CASE o.cmd \in {"approve", "revoke"}
    BY <1>8, <2>1, <2>2, <2>3, <2>4, TrustChanges DEF Undo, hub, Checked
  <2>5. CASE o.cmd \notin {"approve", "revoke"}
    BY <1>8, <1>a, <2>3, <2>5 DEF Undo, hub
  <2> QED
    BY <2>4, <2>5
<1>9. ASSUME NEW c \in Controllers, FinishRevoke(c) PROVE SessionsInv'
  <2>1. Holds' /\ Vouched'
    BY <1>9 DEF FinishRevoke, SessionsInv, Holds, Vouched, Serving, hub
  <2>2. Accounted'
    <3> SUFFICES ASSUME NEW s \in Sessions, conn[s].at = "serving", s \notin closing',
                        ~conn[s].late, trusted[NameOf[s]] # conn[s].cert
                 PROVE  Revoking(NameOf[s])'
      BY <1>9 DEF FinishRevoke, Accounted, Serving
    <3>1. entry[NameOf[s]] = s /\ s # Absent
      BY TrustAssumption DEF SessionsInv, Holds, Serving
    <3>2. NameOf[s] # op[c].name /\ s \notin closing
      BY <1>9, <3>1 DEF FinishRevoke
    <3>3. Revoking(NameOf[s])
      BY <3>2 DEF SessionsInv, Accounted, Serving
    <3> QED
      BY <1>9, <3>2, <3>3 DEF FinishRevoke, Revoking, TrustTypeInv, StateOK
  <2> QED
    BY <2>1, <2>2 DEF SessionsInv
<1>10. ASSUME NEW c \in Controllers, FinishOther(c) \/ FinishSwitch(c) PROVE SessionsInv'
  <2>1. \A n : Revoking(n) => Revoking(n)'
    BY <1>10, <1>b DEF FinishOther, FinishSwitch
  <2> QED
    BY <1>10, <1>a, <2>1 DEF FinishOther, FinishSwitch, hub
<1>11. ASSUME NEW r \in Request, Forget(r) PROVE SessionsInv'
  BY <1>11, <1>a DEF Forget, hub, commands, Revoking
<1>12. CASE Restart
  BY <1>12 DEF Restart, SessionsInv, Holds, Vouched, Accounted, Serving, Checked, NoConn
<1>13. CASE UNCHANGED trustVars
  BY <1>13, <1>a DEF trustVars, hub, commands, Revoking
<1> QED
  BY <1>1, <1>4, <1>5, <1>6, <1>7, <1>8, <1>9, <1>10, <1>11, <1>12, <1>13 DEF TrustNext, Proceed

\* With no command in progress a session serves with the certificate trusted for its name,
\* has a Close to read, or had it overtaken after its check: for any number of controllers
\* and however their commands overlap (Trust::check, DeskState::approve, DeskState::revoke,
\* Hub::disconnect).
THEOREM TrustServed == TrustSpec => []ServedIsTrusted
<1>1. SessionsInv => ServedIsTrusted
  BY DEF SessionsInv, Accounted, Revoking, ServedIsTrusted, NoCommand, Idle
<1> QED
  BY <1>1, InitTypes, NextTypes, InitSessions, NextSessions, PTL DEF TrustSpec

----------------------------------------------------------------------------
(* What is trusted and what is saved.                                      *)

\* What a command's edit changes in the file: one fingerprint, a new screen, or one switch.
LEMMA EditedMeans ==
  ASSUME NEW f \in File, NEW o \in Op, CommandShape(o),
         o.cmd = "approve" => o.listed = (o.name \in Listed(f)),
         o.cmd = "switch" => o.name \in Listed(f)
  PROVE  /\ Fingerprints(Edited(f, o)) =
              IF o.cmd \in {"approve", "revoke"}
              THEN [Fingerprints(f) EXCEPT ![o.name] = o.cert] ELSE Fingerprints(f)
         /\ Listed(Edited(f, o)) = IF o.cmd = "approve" THEN Listed(f) \cup {o.name} ELSE Listed(f)
         /\ TurnedOff(Edited(f, o)) =
              IF o.cmd # "switch" THEN TurnedOff(f)
              ELSE IF o.off THEN TurnedOff(f) \cup {o.name} ELSE TurnedOff(f) \ {o.name}
<1> DEFINE n == o.name
           g == Edited(f, o)
<1>1. o.cmd \in {"approve", "revoke", "switch"} => n \in Names
  BY DEF CommandShape
<1>2. ASSUME n \in Names, NEW r \in Screen
      PROVE  LET h == [f EXCEPT ![n] = r] IN
             /\ Fingerprints(h) = [Fingerprints(f) EXCEPT ![n] = r.fp]
             /\ Listed(h) = Listed(f) \cup {n}
             /\ TurnedOff(h) = IF r.off THEN TurnedOff(f) \cup {n} ELSE TurnedOff(f) \ {n}
  <2> DEFINE h == [f EXCEPT ![n] = r]
  <2>1. h[n] = r /\ r # Absent /\ \A k \in Names \ {n} : h[k] = f[k]
    BY <1>2, TrustAssumption DEF File
  <2> HIDE DEF h
  <2>2. Listed(h) = Listed(f) \cup {n}
    BY <1>2, <2>1 DEF Listed
  <2>3. TurnedOff(h) = IF r.off THEN TurnedOff(f) \cup {n} ELSE TurnedOff(f) \ {n}
    BY <1>2, <2>1, <2>2 DEF TurnedOff, Listed
  <2>4. Fingerprints(h) = [Fingerprints(f) EXCEPT ![n] = r.fp]
    BY <1>2, <2>1 DEF Fingerprints
  <2> QED
    BY <2>2, <2>3, <2>4 DEF h
<1>3. CASE o.cmd = "approve" /\ ~o.listed
  <2> DEFINE r == [fp |-> o.cert, off |-> FALSE]
  <2>1. r \in Screen /\ r.fp = o.cert /\ r.off = FALSE
    BY DEF Op, Screen
  <2>2. g = [f EXCEPT ![n] = r]
    BY <1>3, EditedCases, Zenon
  <2>3. n \in Names /\ n \notin TurnedOff(f)
    BY <1>1, <1>3 DEF TurnedOff
  <2> HIDE DEF r
  <2>4. /\ Fingerprints(g) = [Fingerprints(f) EXCEPT ![n] = r.fp]
        /\ Listed(g) = Listed(f) \cup {n}
        /\ TurnedOff(g) = IF r.off THEN TurnedOff(f) \cup {n} ELSE TurnedOff(f) \ {n}
    BY <1>2, <2>1, <2>2, <2>3, Zenon
  <2>5. TurnedOff(f) \ {n} = TurnedOff(f)
    BY <2>3
  <2> QED
    BY <1>3, <2>1, <2>4, <2>5
<1>4. CASE o.cmd \in {"approve", "revoke", "switch"} /\ f[n] # Absent
  <2>1. n \in Names /\ f[n] \in Screen /\ n \in Listed(f)
    BY <1>1, <1>4 DEF File, Listed
  <2>2. CASE o.cmd = "approve"
    <3> DEFINE r == [f[n] EXCEPT !.fp = o.cert]
    <3>1. r \in Screen /\ r.fp = o.cert /\ r.off = f[n].off
      BY <2>1 DEF Op, Screen
    <3>2. g = [f EXCEPT ![n] = r]
      BY <1>4, <2>1, <2>2, EditedCases
    <3>3. n \in TurnedOff(f) <=> f[n].off
      BY <2>1 DEF TurnedOff
    <3> HIDE DEF r
    <3>4. /\ Fingerprints(g) = [Fingerprints(f) EXCEPT ![n] = r.fp]
          /\ Listed(g) = Listed(f) \cup {n}
          /\ TurnedOff(g) = IF r.off THEN TurnedOff(f) \cup {n} ELSE TurnedOff(f) \ {n}
      BY <1>2, <2>1, <3>1, <3>2, Zenon
    <3>5. Listed(f) \cup {n} = Listed(f)
      BY <2>1
    <3> QED
      BY <2>2, <3>1, <3>3, <3>4, <3>5
  <2>3. CASE o.cmd = "revoke"
    <3> DEFINE r == [f[n] EXCEPT !.fp = Absent]
    <3>1. r \in Screen /\ r.fp = o.cert /\ r.off = f[n].off
      BY <2>1, <2>3 DEF Op, Screen, CommandShape
    <3>2. g = [f EXCEPT ![n] = r]
      BY <1>4, <2>1, <2>3, EditedCases
    <3>3. n \in TurnedOff(f) <=> f[n].off
      BY <2>1 DEF TurnedOff
    <3> HIDE DEF r
    <3>4. /\ Fingerprints(g) = [Fingerprints(f) EXCEPT ![n] = r.fp]
          /\ Listed(g) = Listed(f) \cup {n}
          /\ TurnedOff(g) = IF r.off THEN TurnedOff(f) \cup {n} ELSE TurnedOff(f) \ {n}
      BY <1>2, <2>1, <3>1, <3>2, Zenon
    <3>5. Listed(f) \cup {n} = Listed(f)
      BY <2>1
    <3> QED
      BY <2>3, <3>1, <3>3, <3>4, <3>5
  <2>4. CASE o.cmd = "switch"
    <3> DEFINE r == [f[n] EXCEPT !.off = o.off]
    <3>1. r \in Screen /\ r.fp = f[n].fp /\ r.off = o.off
      BY <2>1 DEF Op, Screen
    <3>2. g = [f EXCEPT ![n] = r]
      BY <1>4, <2>1, <2>4, EditedCases
    <3>3. Fingerprints(f) = [Fingerprints(f) EXCEPT ![n] = f[n].fp]
      BY <1>4, <2>1 DEF Fingerprints
    <3> HIDE DEF r
    <3>4. /\ Fingerprints(g) = [Fingerprints(f) EXCEPT ![n] = r.fp]
          /\ Listed(g) = Listed(f) \cup {n}
          /\ TurnedOff(g) = IF r.off THEN TurnedOff(f) \cup {n} ELSE TurnedOff(f) \ {n}
      BY <1>2, <2>1, <3>1, <3>2, Zenon
    <3>5. Listed(f) \cup {n} = Listed(f)
      BY <2>1
    <3> QED
      BY <2>4, <3>1, <3>3, <3>4, <3>5
  <2> QED
    BY <1>4, <2>2, <2>3, <2>4
<1>5. CASE o.cmd \in {"approve", "revoke", "switch"} /\ f[n] = Absent /\ ~(o.cmd = "approve" /\ ~o.listed)
  <2>1. n \notin Listed(f) /\ n \in Names
    BY <1>1, <1>5 DEF Listed
  <2>2. o.cmd = "revoke" /\ o.cert = Absent
    BY <1>5, <2>1 DEF CommandShape
  <2>3. g = f
    BY <1>5, EditedCases, Zenon
  <2>4. Fingerprints(f) = [Fingerprints(f) EXCEPT ![n] = Absent]
    BY <1>5, <2>1 DEF Fingerprints
  <2> QED
    BY <2>2, <2>3, <2>4
<1>6. CASE o.cmd \notin {"approve", "revoke", "switch"}
  <2>1. g = f
    BY <1>6, EditedCases, Zenon
  <2> QED
    BY <1>6, <2>1
<1> QED
  BY <1>3, <1>4, <1>5, <1>6

\* One command goes on, or ends, and no other is in progress.
LEMMA SavedGoesOn ==
  ASSUME TrustTypeInv, NEW c \in Controllers, NEW o, op' = [op EXCEPT ![c] = o], Alone(c), o # Idle,
         file' \in File, o.at = "fill" => open'[c] = "tmp",
         IF o.at = "saved" THEN After(o)' ELSE Before(o)'
  PROVE  SavedInv'
<1>1. op'[c] = o /\ \A d \in Controllers \ {c} : op'[d] = Idle
  BY DEF TrustTypeInv, StateOK, Alone
<1> QED
  BY <1>1 DEF SavedInv, NoCommand, Alone, After, Before

LEMMA SavedEnds ==
  ASSUME TrustTypeInv, NEW c \in Controllers, op' = [op EXCEPT ![c] = Idle], Alone(c),
         file' \in File, Agreed'
  PROVE  SavedInv'
<1>1. \A d \in Controllers : op'[d] = Idle
  BY DEF TrustTypeInv, StateOK, Alone
<1> QED
  BY <1>1 DEF SavedInv

\* A command that begins with no other in progress begins where memory and file agree.
LEMMA SavedBegins ==
  ASSUME TrustTypeInv, SavedInv, NEW c \in Controllers, NEW o, Takes(c, o), o # Idle,
         o.at \notin {"fill", "saved"}, UNCHANGED file,
         Agreed => Before(o)'
  PROVE  SavedInv'
<1>1. CASE mixed'
  BY <1>1 DEF SavedInv
<1>2. CASE ~mixed'
  <2>1. ~mixed /\ Alone(c) /\ op' = [op EXCEPT ![c] = o] /\ op[c] = Idle
    BY <1>2 DEF Takes, Alone
  <2>2. Agreed /\ file \in File
    BY <2>1 DEF SavedInv, NoCommand, Alone
  <2> QED
    BY <2>1, <2>2, SavedGoesOn
<1> QED
  BY <1>1, <1>2

LEMMA CommandSaved ==
  ASSUME TrustTypeInv, SavedInv, NEW c \in Controllers, NewCommand(c)
  PROVE  SavedInv'
<1>1. ASSUME NEW n \in Names, NEW f \in ClientCerts, BeginApprove(c, n, f) PROVE SavedInv'
  <2>1. PICK o : o = [Idle EXCEPT !.at = "approve", !.cmd = "approve", !.name = n, !.cert = f,
                                  !.listed = n \in screens, !.old = trusted[n]]
    OBVIOUS
  <2>2. /\ o.at = "approve" /\ o.cmd = "approve" /\ o.name = n
        /\ o.listed = (n \in screens) /\ o.old = trusted[n] /\ o # Idle
    BY <2>1 DEF Idle
  <2>3. Takes(c, o) /\ UNCHANGED <<hub, trusted, screens, file, tmp>>
    BY <1>1, <2>1 DEF BeginApprove, Begin
  <2>4. Agreed => Before(o)'
    BY <2>2, <2>3 DEF Agreed, Before, hub
  <2> QED
    BY <2>2, <2>3, <2>4, SavedBegins
<1>2. ASSUME NEW n \in Names, BeginRevoke(c, n) PROVE SavedInv'
  <2>1. PICK o : o = [Idle EXCEPT !.at = "save", !.cmd = "revoke", !.name = n, !.old = trusted[n]]
    OBVIOUS
  <2>2. /\ o.at = "save" /\ o.cmd = "revoke" /\ o.name = n /\ o.cert = Absent
        /\ o.old = trusted[n] /\ o # Idle
    BY <2>1 DEF Idle
  <2>3. /\ Takes(c, o) /\ UNCHANGED <<hub, screens, file, tmp>>
        /\ trusted' = [trusted EXCEPT ![n] = Absent]
    BY <1>2, <2>1 DEF BeginRevoke
  <2>4. Agreed => Before(o)'
    BY <2>2, <2>3 DEF Agreed, Before, hub
  <2> QED
    BY <2>2, <2>3, <2>4, SavedBegins
<1>3. ASSUME NEW n \in Names, NEW off \in BOOLEAN, BeginSwitch(c, n, off) PROVE SavedInv'
  <2>1. PICK o : o = [Idle EXCEPT !.at = "save", !.cmd = "switch", !.name = n, !.off = off]
    OBVIOUS
  <2>2. o.at = "save" /\ o.cmd = "switch" /\ o.name = n /\ o # Idle
    BY <2>1 DEF Idle
  <2>3. Takes(c, o) /\ UNCHANGED <<hub, trusted, screens, file, tmp>> /\ n \in screens
    BY <1>3, <2>1 DEF BeginSwitch, Begin
  <2>4. Agreed => Before(o)'
    BY <2>2, <2>3 DEF Agreed, Before, hub
  <2> QED
    BY <2>2, <2>3, <2>4, SavedBegins
<1>4. CASE BeginOther(c)
  <2>1. PICK o : o = [Idle EXCEPT !.at = "save", !.cmd = "other"]
    OBVIOUS
  <2>2. o.at = "save" /\ o.cmd = "other" /\ o # Idle
    BY <2>1 DEF Idle
  <2>3. Takes(c, o) /\ UNCHANGED <<hub, trusted, screens, file, tmp>>
    BY <1>4, <2>1 DEF BeginOther, Begin
  <2>4. Agreed => Before(o)'
    BY <2>2, <2>3 DEF Agreed, Before, hub
  <2> QED
    BY <2>2, <2>3, <2>4, SavedBegins
<1> QED
  BY <1>1, <1>2, <1>3, <1>4 DEF NewCommand

\* A step of the command in progress, from the edit of the file to the end.
LEMMA ProceedSaved ==
  ASSUME TrustTypeInv, SavedInv, NEW c \in Controllers, Proceed(c) \/ SaveFails(c)
  PROVE  SavedInv'
<1>1. op[c] # Idle /\ UNCHANGED mixed
  BY DEF Proceed, TrustApprove, ReadConfig, OpenTmp, FillTmp, Rename, Undo, FinishRevoke, FinishOther,
         FinishSwitch, SaveFails, Idle
<1>2. CASE mixed
  BY <1>1, <1>2 DEF SavedInv
<1> SUFFICES ASSUME ~mixed PROVE SavedInv'
  BY <1>2
<1>3. /\ Alone(c) /\ file \in File
      /\ op[c].at = "fill" => open[c] = "tmp"
      /\ IF op[c].at = "saved" THEN After(op[c]) ELSE Before(op[c])
  BY <1>1 DEF SavedInv
<1>4. PICK was : was = op[c]
  OBVIOUS
<1>5. was \in Op /\ CommandShape(was)
  BY <1>4 DEF TrustTypeInv, StateOK, Shapes
<1>6. was.at # "saved" => Before(was)
  BY <1>3, <1>4
<1>7. was.at = "saved" => After(was)
  BY <1>3, <1>4
<1>s. ASSUME NEW at \in {"save", "fill", "rename", "saved", "undo"}, at = "fill" => was.at = "write",
             Step(c, at), file' \in File, at = "fill" => open'[c] = "tmp",
             LET o == [was EXCEPT !.at = at] IN IF o.at = "saved" THEN After(o)' ELSE Before(o)'
      PROVE  SavedInv'
  <2>1. PICK o : o = [was EXCEPT !.at = at]
    OBVIOUS
  <2>2. op' = [op EXCEPT ![c] = o] /\ o # Idle
    BY <1>1, <1>4, <1>s, <2>1, NextStage DEF Step
  <2>3. o.at = at
    BY <1>5, <2>1 DEF Op
  <2> QED
    BY <1>3, <1>s, <2>1, <2>2, <2>3, SavedGoesOn
<1>8. CASE TrustApprove(c)
  <2>1. was.at = "approve" /\ was.cmd = "approve" /\ Before(was)
    BY <1>4, <1>5, <1>6, <1>8 DEF TrustApprove, CommandShape
  <2>2. CASE [name |-> was.name, cert |-> was.cert] \in Range(pending)
    <3> DEFINE o == [was EXCEPT !.at = "save"]
    <3>1. o.at = "save" /\ o.cmd = was.cmd /\ o.name = was.name /\ o.cert = was.cert
          /\ o.listed = was.listed /\ o.old = was.old
      BY <1>5 DEF Op
    <3>2. /\ trusted' = [trusted EXCEPT ![was.name] = was.cert] /\ Step(c, "save")
          /\ UNCHANGED <<hub, screens, file, tmp>>
      BY <1>4, <1>8, <2>2 DEF TrustApprove
    <3>3. Before(o)'
      BY <2>1, <3>1, <3>2 DEF Before, hub
    <3> QED
      BY <1>3, <1>s, <3>1, <3>2, <3>3
  <2>3. CASE [name |-> was.name, cert |-> was.cert] \notin Range(pending)
    <3>1. op' = [op EXCEPT ![c] = Idle] /\ UNCHANGED <<trusted, hub, screens, file>>
      BY <1>4, <1>8, <2>3 DEF TrustApprove
    <3>2. Agreed'
      BY <2>1, <3>1 DEF Before, Agreed, hub
    <3> QED
      BY <1>3, <3>1, <3>2, SavedEnds
  <2> QED
    BY <2>2, <2>3
<1>9. CASE ReadConfig(c)
  <2>1. was.at = "save" /\ Before(was) /\ UNCHANGED <<hub, trusted, screens, file, tmp>>
    BY <1>4, <1>6, <1>9 DEF ReadConfig
  <2>2. CASE Refused(file, was)
    <3> DEFINE o == [was EXCEPT !.at = "undo"]
    <3>1. o.at = "undo" /\ o.cmd = was.cmd /\ o.name = was.name /\ o.cert = was.cert
          /\ o.listed = was.listed /\ o.old = was.old
      BY <1>5 DEF Op
    <3>2. Step(c, "undo")
      BY <1>4, <1>9, <2>2 DEF ReadConfig
    <3>3. Before(o)'
      BY <2>1, <3>1 DEF Before, hub
    <3> QED
      BY <1>3, <2>1, <1>s, <3>1, <3>2, <3>3
  <2>3. CASE ~Refused(file, was)
    <3>1. PICK o : o = [was EXCEPT !.at = "write", !.doc = Edited(file, was)]
      OBVIOUS
    <3>2. /\ o.at = "write" /\ o.cmd = was.cmd /\ o.name = was.name /\ o.cert = was.cert
          /\ o.listed = was.listed /\ o.old = was.old /\ o.off = was.off
          /\ o.doc = Edited(file, was)
      BY <1>5, <3>1 DEF Op
    <3>3. Edited(file, o) = Edited(file, was)
      BY <3>2 DEF Edited
    <3>4. op' = [op EXCEPT ![c] = o] /\ o # Idle
      BY <1>4, <1>9, <2>3, <3>1, <3>2 DEF ReadConfig, Idle
    <3>5. Before(o)'
      BY <2>1, <3>2, <3>3 DEF Before, hub
    <3> QED
      BY <1>3, <2>1, <3>2, <3>4, <3>5, SavedGoesOn
  <2> QED
    BY <2>2, <2>3
<1>10. CASE OpenTmp(c)
  <2>1. /\ was.at = "write" /\ Before(was) /\ UNCHANGED <<hub, trusted, screens, file>>
        /\ tmp' = Broken /\ Step(c, "fill") /\ open'[c] = "tmp"
    BY <1>4, <1>6, <1>10 DEF OpenTmp, TrustTypeInv, StateOK
  <2> DEFINE o == [was EXCEPT !.at = "fill"]
  <2>2. /\ o.at = "fill" /\ o.cmd = was.cmd /\ o.name = was.name /\ o.cert = was.cert
        /\ o.listed = was.listed /\ o.old = was.old /\ o.off = was.off /\ o.doc = was.doc
    BY <1>5 DEF Op
  <2>3. Edited(file, o) = Edited(file, was)
    BY <2>2 DEF Edited
  <2>4. Before(o)'
    BY <2>1, <2>2, <2>3 DEF Before, hub
  <2> QED
    BY <1>3, <1>s, <2>1, <2>2, <2>4
<1>15. CASE FillTmp(c)
  <2>1. /\ was.at = "fill" /\ Before(was) /\ UNCHANGED <<hub, trusted, screens>>
        /\ Step(c, "rename") /\ open[c] = "tmp"
    BY <1>3, <1>4, <1>6, <1>15 DEF FillTmp
  <2>2. tmp = Broken
    BY <2>1 DEF Before
  <2>3. file' = file /\ tmp' = was.doc
    BY <1>4, <1>15, <2>1, <2>2 DEF FillTmp, Written
  <2> DEFINE o == [was EXCEPT !.at = "rename"]
  <2>4. /\ o.at = "rename" /\ o.cmd = was.cmd /\ o.name = was.name /\ o.cert = was.cert
        /\ o.listed = was.listed /\ o.old = was.old /\ o.off = was.off /\ o.doc = was.doc
    BY <1>5 DEF Op
  <2>5. Edited(file, o) = Edited(file, was)
    BY <2>4 DEF Edited
  <2>6. Before(o)'
    BY <2>1, <2>3, <2>4, <2>5 DEF Before, hub
  <2> QED
    BY <1>3, <1>s, <2>1, <2>3, <2>4, <2>6
<1>11. CASE SaveFails(c) \/ (Rename(c) /\ tmp = Absent)
  <2>1. /\ was.at \in {"save", "write", "fill", "rename"} /\ Before(was)
        /\ UNCHANGED <<hub, trusted, screens, file>> /\ Step(c, "undo")
    BY <1>4, <1>6, <1>11 DEF SaveFails, Rename
  <2> DEFINE o == [was EXCEPT !.at = "undo"]
  <2>2. /\ o.at = "undo" /\ o.cmd = was.cmd /\ o.name = was.name /\ o.cert = was.cert
        /\ o.listed = was.listed /\ o.old = was.old
    BY <1>5 DEF Op
  <2>3. Before(o)'
    BY <2>1, <2>2 DEF Before, hub
  <2> QED
    BY <1>3, <1>s, <2>1, <2>2, <2>3
<1>12. CASE Rename(c) /\ tmp # Absent
  <2>1. /\ was.at = "rename" /\ Before(was) /\ UNCHANGED <<hub, trusted, screens>>
        /\ file' = tmp /\ Step(c, "saved")
    BY <1>4, <1>6, <1>12 DEF Rename
  <2> DEFINE o == [was EXCEPT !.at = "saved"]
  <2>2. o.at = "saved" /\ o.cmd = was.cmd /\ o.name = was.name /\ o.off = was.off
    BY <1>5 DEF Op
  <2>3. file' = Edited(file, was)
    BY <2>1 DEF Before
  <2>4. was.cmd = "approve" => was.listed = (was.name \in Listed(file))
    BY <2>1 DEF Before
  <2>5. was.cmd = "switch" => was.name \in Listed(file)
    BY <2>1 DEF Before
  <2>6. /\ Fingerprints(file') = IF was.cmd \in {"approve", "revoke"}
                                THEN [Fingerprints(file) EXCEPT ![was.name] = was.cert]
                                ELSE Fingerprints(file)
        /\ Listed(file') = IF was.cmd = "approve" THEN Listed(file) \cup {was.name} ELSE Listed(file)
        /\ TurnedOff(file') =
             IF was.cmd # "switch" THEN TurnedOff(file)
             ELSE IF was.off THEN TurnedOff(file) \cup {was.name} ELSE TurnedOff(file) \ {was.name}
    BY <1>3, <1>5, <2>3, <2>4, <2>5, EditedMeans
  <2>8. file' \in File
    BY <1>3, <1>5, <2>3, EditedType DEF CommandShape
  <2>7. After(o)'
    BY <2>1, <2>2, <2>6 DEF Before, After, hub
  <2> QED
    BY <1>3, <1>s, <2>1, <2>2, <2>3, <2>8, <2>7
<1>13. CASE Undo(c)
  <2>1. was.at = "undo" /\ Before(was) /\ UNCHANGED <<hub, screens, file>> /\ op' = [op EXCEPT ![c] = Idle]
    BY <1>4, <1>6, <1>13 DEF Undo
  <2>2. trusted' = Fingerprints(file)
    <3>1. CASE was.cmd \in {"approve", "revoke"}
      <4>1. trusted' = [trusted EXCEPT ![was.name] = was.old]
        BY <1>4, <1>13, <3>1 DEF Undo
      <4>2. /\ trusted = [Fingerprints(file) EXCEPT ![was.name] = was.cert]
            /\ was.old = Fingerprints(file)[was.name]
        BY <2>1, <3>1 DEF Before
      <4>3. Fingerprints(file) \in [Names -> ClientCerts \cup {Absent}]
        BY <1>3, FileTypes
      <4> QED
        BY <4>1, <4>2, <4>3
    <3>2. CASE was.cmd \notin {"approve", "revoke"}
      BY <1>4, <1>13, <2>1, <3>2 DEF Undo, Before
    <3> QED
      BY <3>1, <3>2
  <2>3. Agreed'
    BY <2>1, <2>2 DEF Before, Agreed, hub
  <2> QED
    BY <1>3, <2>1, <2>3, SavedEnds
<1>14. CASE FinishRevoke(c) \/ FinishOther(c) \/ FinishSwitch(c)
  <2>1. was.at = "saved" /\ After(was) /\ UNCHANGED <<trusted, file>> /\ op' = [op EXCEPT ![c] = Idle]
    BY <1>4, <1>7, <1>14 DEF FinishRevoke, FinishOther, FinishSwitch
  <2>2. screens' = (IF was.cmd = "approve" THEN screens \cup {was.name} ELSE screens)
    BY <1>4, <1>14 DEF FinishRevoke, FinishOther, FinishSwitch
  <2>3. disabled' = IF was.cmd # "switch" THEN disabled
                    ELSE IF was.off THEN disabled \cup {was.name} ELSE disabled \ {was.name}
    BY <1>4, <1>14 DEF FinishRevoke, FinishOther, FinishSwitch, hub
  <2>4. Agreed'
    BY <2>1, <2>2, <2>3 DEF After, Agreed
  <2> QED
    BY <1>3, <2>1, <2>4, SavedEnds
<1> QED
  BY <1>8, <1>9, <1>10, <1>11, <1>12, <1>13, <1>14, <1>15 DEF Proceed

LEMMA InitSaved == TrustInit => SavedInv
  BY DEF TrustInit, SavedInv, Agreed, NoCommand

LEMMA NextSaved == TrustTypeInv /\ SavedInv /\ [TrustNext]_trustVars => SavedInv'
<1> SUFFICES ASSUME TrustTypeInv, SavedInv, [TrustNext]_trustVars PROVE SavedInv'
  OBVIOUS
<1>a. ASSUME UNCHANGED <<disabled, trusted, screens, disk, op, mixed>> PROVE SavedInv'
  BY <1>a DEF SavedInv, NoCommand, Agreed, Alone, Before, After
<1>1. ASSUME NEW s \in Sessions, ConnStep(s) PROVE SavedInv'
  BY <1>1, <1>a DEF ConnStep, Knock, GiveUp, Authorize, Welcome, Admit, AwaitSend, Sent, EndSession, hub,
                   commands
<1>2. ASSUME NEW c \in Controllers, NewCommand(c) \/ Proceed(c) \/ SaveFails(c) PROVE SavedInv'
  BY <1>2, CommandSaved, ProceedSaved
<1>3. ASSUME NEW r \in Request, Forget(r) PROVE SavedInv'
  BY <1>3, <1>a DEF Forget, hub, commands
<1>4. CASE Restart
  BY <1>4 DEF Restart, Load, SavedInv, NoCommand, Agreed, TrustTypeInv, StateOK
<1>5. CASE UNCHANGED trustVars
  BY <1>5, <1>a DEF trustVars, hub, commands
<1> QED
  BY <1>1, <1>2, <1>3, <1>4, <1>5 DEF TrustNext

\* With no command in progress, and none that overlapped another, memory is what the file
\* would load, whatever saves failed and wherever the server was stopped (DeskState::approve,
\* DeskState::revoke, DeskState::set_disabled, edit_screens).
THEOREM TrustSaved == TrustSpec => []SavedIsTrusted
<1>1. SavedInv => SavedIsTrusted
  BY DEF SavedInv, Agreed, SavedIsTrusted
<1> QED
  BY <1>1, InitTypes, NextTypes, InitSaved, NextSaved, PTL DEF TrustSpec
=============================================================================
