--------------------------- MODULE FilePull_proofs ---------------------------
(***************************************************************************)
(* Theorems about FilePull, for any number of clients and owners, any      *)
(* trees that can be copied, and any bounds.                               *)
(***************************************************************************)
EXTENDS FilePull, FiniteSetTheorems, TLAPS

\* The types of the requests, messages and pulls.
Requests == [who : Machines, req : Nat \ {0}, seq : 1..MaxSeq, at : Asked]
UpMessages == [t : {"read"}, w : Requests, req : {0}]
              \cup [t : {"reply"}, req : Nat \ {0}, ans : Answers]
DownMessages == [t : {"read"}, req : Nat \ {0}, seq : 1..MaxSeq, at : Asked]
                \cup [t : {"reply"}, req : Nat \ {0}, ans : Answers]
States == {"new", "ready", "waiting", "done", "unplaced", "failed", "cancelled", "dead"}
Pulls == [who : Machines, ann : Announcements, st : States, got : Seq(Chunks), req : Nat,
          ans : Answers \cup {None}, gen : Nat, sess : Nat]

\* Of what each variable is.
RouterTypes ==
  /\ cur \in [who : Machines \cup {None}, seq : 0..MaxSeq, epoch : Nat]
  /\ own \in [Machines -> Announcements \cup {None}]
  /\ remote \in [Machines -> [ann : Announcements \cup {None}, last : Announcements \cup {None}]]
  /\ route \subseteq [w : Requests, to : Clients] /\ local \subseteq Requests
  /\ pending \subseteq [req : Nat \ {0}, to : Clients, w : Requests, late : BOOLEAN]
  /\ IsFiniteSet(pending)
  /\ nextReq \in Nat \ {0}
LinkTypes ==
  /\ conn \in [Clients -> [st : {"on", "closing", "noted", "off"}, sess : Nat, next : Nat \ {0}]]
  /\ up \in [Clients -> Seq(UpMessages)]
  /\ down \in [Clients -> Seq(DownMessages)]
PullTypes ==
  /\ pull \in Seq(Pulls)
  /\ cancel \in [Machines -> Nat]
  /\ disk \in [Machines -> [1..MaxSeq -> Seq(Chunks) \cup {None}]]
  /\ clip \in [Machines -> Nat \cup {None}]
  /\ owed \subseteq Clients
Types == RouterTypes /\ LinkTypes /\ PullTypes

----------------------------------------------------------------------------
(* The numbers.                                                            *)

\* The router's numbers are used once; the numbers of a session are.
RouterNumbers ==
  /\ \A x \in pending : x.req < nextReq
  /\ \A x, y \in pending : x.req = y.req => x = y
SessionNumbers ==
  /\ \A p \in DOMAIN pull : pull[p].who \in Clients =>
       /\ pull[p].sess <= conn[pull[p].who].sess
       /\ pull[p].sess = conn[pull[p].who].sess => pull[p].req < conn[pull[p].who].next
  /\ \A p, q \in DOMAIN pull :
       /\ p # q /\ pull[p].who = pull[q].who /\ pull[p].sess = pull[q].sess
       /\ pull[p].st = "waiting" /\ pull[q].st = "waiting" /\ pull[p].who # Srv
       => pull[p].req # pull[q].req
  /\ \A p \in DOMAIN pull : pull[p].who = Srv /\ pull[p].st = "waiting" => pull[p].req = p

\* A session carries its own client's reads.
OwnReads == \A c \in Clients : \A q \in Range(up[c]) : q.t = "read" => q.w.who = c

\* Every request that was sent on is with its owner, or the owner's end answers for it.
OwnersLeg ==
  \A x \in pending :
    \/ x.late \/ conn[x.to].st = "closing"
    \/ /\ conn[x.to].st = "on"
       /\ \/ \E q \in Range(down[x.to]) : q.t = "read" /\ q.req = x.req
          \/ \E q \in Range(up[x.to]) : q.t = "reply" /\ q.req = x.req

\* The request of pull p is under way: at the router, or on p's own session.
Its(w, j) == w.who = j.who /\ w.req = j.req
UnderWay(j) ==
  \/ \E w \in local : Its(w, j)
  \/ \E r \in route : Its(r.w, j)
  \/ \E x \in pending : Its(x.w, j)
  \/ j.who # Srv /\ \/ \E q \in Range(up[j.who]) : q.t = "read" /\ Its(q.w, j)
                    \/ \E q \in Range(down[j.who]) : q.t = "reply" /\ q.req = j.req
Waits(j) ==
  /\ j.st = "waiting" /\ j.ans = None
  /\ IF j.who = Srv THEN TRUE ELSE conn[j.who].st = "on" /\ conn[j.who].sess = j.sess
PullersLeg == \A p \in DOMAIN pull : Waits(pull[p]) => UnderWay(pull[p])

Accounted == RouterNumbers /\ SessionNumbers /\ OwnReads /\ OwnersLeg /\ PullersLeg

----------------------------------------------------------------------------
(* The bytes.                                                              *)

\* What a pull asks for next, and what answers it.
Asks(j) == Reading[j.ann.roots][Bytes(j.got)]
Lacks(j) == Bytes(j.got) \in DOMAIN Reading[j.ann.roots]
Answers4(ans, j) == ans.ok => ans.data = [ann |-> j.ann, at |-> Asks(j)]

\* An announcement of this run of the server; every one that has its number is it.
Genuine(a) ==
  /\ a.epoch = cur.epoch /\ a.seq <= cur.seq
  /\ \A m \in Machines :
       /\ own[m] # None /\ own[m].seq = a.seq => own[m] = a
       /\ remote[m].ann # None /\ remote[m].ann.seq = a.seq => remote[m].ann = a
  /\ \A p \in DOMAIN pull : pull[p].ann.seq = a.seq /\ pull[p].ann.epoch = a.epoch => pull[p].ann = a
Announced ==
  /\ \A m \in Machines :
       /\ own[m] # None => Genuine(own[m])
       /\ remote[m].ann # None => Genuine(remote[m].ann)
  /\ \A p \in DOMAIN pull :
       /\ pull[p].ann.epoch <= cur.epoch
       /\ pull[p].ann.epoch = cur.epoch => Genuine(pull[p].ann)
       /\ /\ pull[p].st \in Running
          /\ pull[p].who # Srv => conn[pull[p].who].st # "off" /\ conn[pull[p].who].sess = pull[p].sess
          => pull[p].ann.epoch = cur.epoch

\* A read the router has in hand, or will have, is what the pull under that number waits for.
Matches(w) ==
  \A p \in DOMAIN pull :
    /\ Its(w, pull[p]) /\ pull[p].st = "waiting"
    /\ w.who # Srv => pull[p].sess = conn[w.who].sess
    => /\ w.seq = pull[p].ann.seq /\ w.at = Asks(pull[p])
       /\ w.who = Srv => pull[p].ans = None
Held(w) ==
  /\ w.who # Srv /\ w.who \notin owed => conn[w.who].st = "on" /\ w.req < conn[w.who].next
  /\ w.who = Srv => /\ w.req \in DOMAIN pull /\ pull[w.req].who = Srv
                    /\ pull[w.req].st \notin {"new", "ready"}
  /\ w.who \notin owed => Matches(w)
InHand ==
  /\ \A w \in local : Held(w)
  /\ \A r \in route : Held(r.w)
  /\ \A x \in pending : Held(x.w)
  /\ \A c \in Clients : \A q \in Range(up[c]) : q.t = "read" => Held(q.w)

\* The server's own pull has one read out at a time.
OneOut ==
  /\ \A v, w \in local : v.who = Srv /\ Its(v, w) => v = w
  /\ \A v, w \in route : v.w.who = Srv /\ Its(v.w, w.w) => v = w
  /\ \A v, w \in pending : v.w.who = Srv /\ Its(v.w, w.w) => v = w
  /\ \A v \in local : \A r \in route : v.who = Srv => ~Its(v, r.w)
  /\ \A v \in local : \A x \in pending : v.who = Srv => ~Its(v, x.w)
  /\ \A r \in route : \A x \in pending : r.w.who = Srv => ~Its(r.w, x.w)

\* What an owner makes of a read.
Serves(ans, seq, at) ==
  ans.ok => /\ ans.data.ann \in Announcements /\ Genuine(ans.data.ann) /\ ans.data.ann.seq = seq
            /\ ans.data = [ann |-> ans.data.ann, at |-> Served(ans.data.ann.roots, at)]
OwnersBytes ==
  \A c \in Clients :
    /\ \A q \in Range(down[c]) : q.t = "read" =>
         q.req < nextReq /\ \A x \in pending : x.req = q.req => q.seq = x.w.seq /\ q.at = x.w.at
    /\ \A q \in Range(up[c]) : q.t = "reply" =>
         q.req < nextReq /\ \A x \in pending : x.req = q.req => Serves(q.ans, x.w.seq, x.w.at)

\* What comes back to a client is for a pull that asked for it.
Fits(q, c) ==
  /\ conn[c].st = "on" /\ q.req < conn[c].next
  /\ \A p \in DOMAIN pull :
       /\ pull[p].who = c /\ pull[p].sess = conn[c].sess
       /\ pull[p].st = "waiting" /\ pull[p].req = q.req
       => Answers4(q.ans, pull[p])
Replies == \A c \in Clients \ owed : \A q \in Range(down[c]) : q.t = "reply" => Fits(q, c)

\* What a pull has is what it asked for.
Well(p) ==
  /\ pull[p].st # "waiting" => pull[p].ans = None
  /\ pull[p].st = "new" => pull[p].got = <<>>
  /\ pull[p].st = "waiting" => Lacks(pull[p])
  /\ pull[p].who \notin owed =>
       /\ pull[p].st = "waiting" /\ pull[p].ans # None => Answers4(pull[p].ans, pull[p])
       /\ Right(p)
Written == \A p \in DOMAIN pull : Well(p)

ByteInv == Announced /\ InHand /\ OneOut /\ OwnersBytes /\ Replies /\ Written

----------------------------------------------------------------------------
(* The staging folders.                                                    *)

\* An announcement is pulled once by each machine, into a folder of its own.
PulledOnce ==
  /\ \A p, q \in DOMAIN pull :
       pull[p].who = pull[q].who /\ pull[p].ann.epoch = pull[q].ann.epoch
       /\ pull[p].ann.seq = pull[q].ann.seq => p = q
  /\ \A p \in DOMAIN pull : LET m == pull[p].who IN
       remote[m].ann # None /\ pull[p].ann = remote[m].ann => remote[m].last = remote[m].ann
StagedAsGot ==
  \A p \in DOMAIN pull : LET j == pull[p] IN
    cur.epoch = 0 /\ j.st \in {"ready", "waiting", "done"}
    => disk[j.who][j.ann.seq] = j.got \/ <<j.who, j.ann.seq>> \in removed
Placed ==
  \A m \in Machines : clip[m] # None =>
    clip[m] \in DOMAIN pull /\ pull[clip[m]].who = m /\ pull[clip[m]].st = "done"
FolderInv == PulledOnce /\ StagedAsGot /\ Placed

----------------------------------------------------------------------------
(* What the actions' parts do.                                             *)

LEMMA PullIs ==
  ASSUME PullTypes, NEW p \in DOMAIN pull
  PROVE  /\ pull[p] \in Pulls /\ p \in Nat /\ p \in 1..Len(pull) /\ p # None
         /\ DOMAIN pull = 1..Len(pull) /\ Len(pull) \in Nat
BY PullAssumption DEF PullTypes

LEMMA PullsReplaced ==
  ASSUME PullTypes, NEW f, DOMAIN f = DOMAIN pull, \A p \in DOMAIN pull : f[p] \in Pulls,
         f = [p \in DOMAIN pull |-> f[p]]
  PROVE  f \in Seq(Pulls)
<1>1. DOMAIN pull = 1..Len(pull) /\ Len(pull) \in Nat
  BY DEF PullTypes
<1> QED BY <1>1

LEMMA MachineIs == \A m \in Machines : m # None /\ (m # Srv => m \in Clients)
BY PullAssumption DEF Machines

LEMMA ClientIs == \A c \in Clients : c \in Machines /\ c # Srv /\ c # None
BY PullAssumption DEF Machines

\* An answer, and what an owner answers.
LEMMA AnswerIs ==
  /\ NotFound \in Answers /\ ~NotFound.ok
  /\ \A ans \in Answers : ans # None /\ ans.ok \in BOOLEAN /\ (ans.ok => ans.data \in Chunks)
BY PullAssumption DEF Answers, NotFound

LEMMA ChunkIs ==
  \A chunk \in Chunks : chunk.ann \in Announcements /\ chunk = [ann |-> chunk.ann, at |-> chunk.at]
BY DEF Chunks

LEMMA AnnouncementIs ==
  \A a \in Announcements : a # None /\ a.seq \in 1..MaxSeq /\ a.epoch \in Nat /\ a.roots \in DOMAIN Reading
BY PullAssumption DEF Announcements

LEMMA ReadsAnswer ==
  ASSUME RouterTypes, NEW m \in Machines, NEW r, r.at \in Asked, NEW ans \in Reads(m, r)
  PROVE  /\ ans \in Answers
         /\ ans.ok => /\ own[m] # None /\ own[m].seq = r.seq
                      /\ ans.data = [ann |-> own[m], at |-> Served(own[m].roots, r.at)]
<1>1. CASE ans = NotFound
  BY <1>1, AnswerIs
<1>2. CASE ans # NotFound
  <2>1. own[m] # None /\ own[m].seq = r.seq
    BY <1>2 DEF Reads
  <2>2. ans = [ok |-> TRUE, data |-> [ann |-> own[m], at |-> Served(own[m].roots, r.at)]]
    BY <1>2, <2>1 DEF Reads
  <2>3. own[m] \in Announcements
    BY <2>1 DEF RouterTypes
  <2>4. [ann |-> own[m], at |-> Served(own[m].roots, r.at)] \in Chunks
    BY <2>3, AnnouncementIs DEF Chunks
  <2> QED BY <2>1, <2>2, <2>4 DEF Answers
<1> QED BY <1>1, <1>2

\* Every pull but the one changed is as it was.
LEMMA DeliverIs ==
  ASSUME LinkTypes, PullTypes, NEW w \in Requests, NEW ans \in Answers, Deliver(w, ans)
  PROVE  /\ down' = IF w.who # Srv /\ conn[w.who].st = "on"
                    THEN [down EXCEPT ![w.who] = Append(@, [t |-> "reply", req |-> w.req, ans |-> ans])]
                    ELSE down
         /\ pull' = [p \in DOMAIN pull |->
                       IF w.who = Srv /\ w.req = p /\ pull[p].st = "waiting"
                       THEN [pull[p] EXCEPT !.ans = ans] ELSE pull[p]]
         /\ down' \in [Clients -> Seq(DownMessages)]
         /\ pull' \in Seq(Pulls)
<1>1. /\ pull \in Seq(Pulls) /\ pull = [p \in DOMAIN pull |-> pull[p]]
      /\ \A p \in DOMAIN pull : pull[p] \in Pulls
  BY DEF PullTypes
<1>2. w.req \in Nat \ {0} /\ w.who \in Machines
  BY DEF Requests
<1>3. down' = IF w.who # Srv /\ conn[w.who].st = "on"
              THEN [down EXCEPT ![w.who] = Append(@, [t |-> "reply", req |-> w.req, ans |-> ans])]
              ELSE down
  BY DEF Deliver
<1>4. pull' = [p \in DOMAIN pull |->
                 IF w.who = Srv /\ w.req = p /\ pull[p].st = "waiting"
                 THEN [pull[p] EXCEPT !.ans = ans] ELSE pull[p]]
  <2>1. CASE w.who # Srv
    BY <2>1, <1>1 DEF Deliver
  <2>2. CASE w.who = Srv /\ pull[w.req].st = "waiting"
    BY <2>2, <1>1 DEF Deliver, AnswerLocal
  <2>3. CASE w.who = Srv /\ pull[w.req].st # "waiting"
    BY <2>3, <1>1 DEF Deliver, AnswerLocal
  <2> QED BY <2>1, <2>2, <2>3
<1>5. down' \in [Clients -> Seq(DownMessages)]
  <2>1. [t |-> "reply", req |-> w.req, ans |-> ans] \in DownMessages
    BY <1>2 DEF DownMessages
  <2>2. CASE w.who # Srv
    <3>1. w.who \in Clients /\ down[w.who] \in Seq(DownMessages)
      BY <1>2, <2>2, MachineIs DEF LinkTypes
    <3>2. Append(down[w.who], [t |-> "reply", req |-> w.req, ans |-> ans]) \in Seq(DownMessages)
      BY <3>1, <2>1
    <3> QED BY <3>1, <3>2, <1>3 DEF LinkTypes
  <2> QED BY <2>2, <1>3 DEF LinkTypes
<1>6. \A p \in DOMAIN pull : pull'[p] \in Pulls
  BY <1>1, <1>4 DEF Pulls
<1>7. pull' \in Seq(Pulls)
  BY <1>4, <1>6, PullsReplaced
<1> QED BY <1>3, <1>4, <1>5, <1>7

LEMMA EndedIs ==
  ASSUME PullTypes, NEW p \in DOMAIN pull, NEW st \in States, Ended(p, st)
  PROVE  /\ DOMAIN pull' = DOMAIN pull
         /\ \A q \in DOMAIN pull : q # p => pull'[q] = pull[q]
         /\ pull'[p].who = pull[p].who /\ pull'[p].ann = pull[p].ann /\ pull'[p].sess = pull[p].sess
         /\ pull'[p].st = st /\ pull'[p].ans = None
         /\ pull'[p].got = IF st = "done" THEN pull[p].got ELSE <<>>
         /\ pull'[p].req = 0
         /\ pull' \in Seq(Pulls)
<1> DEFINE j == pull[p]
           k == [j EXCEPT !.st = st, !.ans = None, !.req = 0, !.gen = 0,
                          !.got = IF st = "done" THEN j.got ELSE <<>>]
<1>1. /\ pull \in Seq(Pulls) /\ pull = [q \in DOMAIN pull |-> pull[q]]
      /\ \A q \in DOMAIN pull : pull[q] \in Pulls
  BY DEF PullTypes
<1>2. pull' = [pull EXCEPT ![p] = k]
  BY DEF Ended
<1>3. DOMAIN pull' = DOMAIN pull /\ pull' = [q \in DOMAIN pull |-> pull'[q]]
  BY <1>1, <1>2
<1>4. pull'[p] = k /\ \A q \in DOMAIN pull : q # p => pull'[q] = pull[q]
  BY <1>1, <1>2
<1>5. j \in Pulls
  BY <1>1
<1>6. /\ k.who = j.who /\ k.ann = j.ann /\ k.sess = j.sess /\ k.st = st /\ k.ans = None
      /\ k.got = (IF st = "done" THEN j.got ELSE <<>>) /\ k.req = 0
  BY <1>5 DEF Pulls
<1>7. k \in Pulls
  <2>1. \A g \in Seq(Chunks) :
          [j EXCEPT !.st = st, !.ans = None, !.req = 0, !.gen = 0, !.got = g] \in Pulls
    BY <1>5 DEF Pulls
  <2>2. (IF st = "done" THEN j.got ELSE <<>>) \in Seq(Chunks)
    BY <1>5 DEF Pulls
  <2> QED BY <2>1, <2>2
<1> HIDE DEF j, k
<1>8. pull' \in Seq(Pulls)
  BY <1>1, <1>3, <1>4, <1>7, PullsReplaced
<1> QED BY <1>3, <1>4, <1>6, <1>8 DEF j

\* The answers SrvNote sends are a sequence of them all.
LEMMA SetToSeqIs ==
  ASSUME NEW S, IsFiniteSet(S)
  PROVE  SetToSeq(S) \in Seq(S) /\ Range(SetToSeq(S)) = S
<1> DEFINE n == Cardinality(S)
<1>1. n \in Nat /\ ExistsBijection(1..n, S)
  BY FS_CardinalityType
<1>2. PICK g \in Bijection(1..n, S) : TRUE
  BY <1>1 DEF ExistsBijection
<1>3. g \in [1..n -> S] /\ IsInjective(g)
  BY <1>2 DEF Bijection, Injection, IsInjective
<1> DEFINE f == SetToSeq(S)
<1>4. f \in [1..n -> S] /\ IsInjective(f)
  BY <1>3 DEF SetToSeq
<1> HIDE DEF f
<1>5. f \in Injection(1..n, S)
  BY <1>4 DEF IsInjective, Injection
<1>6. IsFiniteSet(1..n) /\ Cardinality(1..n) = n
  BY <1>1, FS_Interval
<1>7. f \in Surjection(1..n, S)
  BY <1>5, <1>6, FS_Injection
<1>8. Range(f) = S
  BY <1>4, <1>7 DEF Surjection, Range
<1>9. f \in Seq(S)
  BY <1>1, <1>4
<1> QED BY <1>8, <1>9 DEF f

LEMMA SetToSeqOfSome ==
  ASSUME NEW S, IsFiniteSet(S), NEW T, NEW f, DOMAIN f = S, T = {f[x] : x \in S}
  PROVE  SetToSeq(T) \in Seq(T) /\ Range(SetToSeq(T)) = T
<1>1. [x \in S |-> f[x]] \in Surjection(S, T)
  BY DEF Surjection
<1>2. IsFiniteSet(T)
  BY <1>1, FS_Surjection
<1> QED BY <1>2, SetToSeqIs

LEMMA RangeOfTail ==
  ASSUME NEW T, NEW s \in Seq(T), s # <<>>
  PROVE  Tail(s) \in Seq(T) /\ Range(s) = {Head(s)} \cup Range(Tail(s)) /\ Head(s) \in T
<1>1. Tail(s) \in Seq(T) /\ Head(s) = s[1] /\ Len(s) \in Nat /\ Len(s) # 0 /\ Head(s) \in T
  OBVIOUS
<1>2. Len(Tail(s)) = Len(s) - 1 /\ \A i \in 1..(Len(s) - 1) : Tail(s)[i] = s[i + 1]
  OBVIOUS
<1>3. ASSUME NEW x \in Range(s) PROVE x = Head(s) \/ x \in Range(Tail(s))
  <2>1. PICK i \in 1..Len(s) : s[i] = x
    BY <1>3 DEF Range
  <2>2. CASE i = 1
    BY <2>1, <2>2, <1>1
  <2>3. CASE i # 1
    <3>1. i - 1 \in 1..(Len(s) - 1)
      BY <2>3, <1>1
    <3>2. Tail(s)[i - 1] = x /\ i - 1 \in DOMAIN Tail(s)
      BY <3>1, <1>1, <1>2, <2>1
    <3> QED BY <3>2 DEF Range
  <2> QED BY <2>2, <2>3
<1>4. ASSUME NEW x \in Range(Tail(s)) PROVE x \in Range(s)
  <2>1. PICK i \in 1..(Len(s) - 1) : Tail(s)[i] = x
    BY <1>4, <1>1, <1>2 DEF Range
  <2>2. i + 1 \in DOMAIN s /\ s[i + 1] = x
    BY <2>1, <1>1, <1>2
  <2> QED BY <2>2 DEF Range
<1>5. Head(s) \in Range(s)
  BY <1>1 DEF Range
<1> QED BY <1>1, <1>3, <1>4, <1>5

LEMMA RangeOfAppend ==
  ASSUME NEW T, NEW s \in Seq(T), NEW x
  PROVE  Range(Append(s, x)) = Range(s) \cup {x}
<1>1. /\ Len(s) \in Nat /\ DOMAIN s = 1..Len(s) /\ DOMAIN Append(s, x) = 1..(Len(s) + 1)
      /\ Append(s, x)[Len(s) + 1] = x /\ \A i \in 1..Len(s) : Append(s, x)[i] = s[i]
  OBVIOUS
<1> QED BY <1>1 DEF Range

LEMMA RangeOfConcat ==
  ASSUME NEW T, NEW s \in Seq(T), NEW u \in Seq(T)
  PROVE  s \o u \in Seq(T) /\ Range(s \o u) = Range(s) \cup Range(u)
<1>1. /\ s \o u \in Seq(T) /\ Len(s) \in Nat /\ Len(u) \in Nat
      /\ DOMAIN s = 1..Len(s) /\ DOMAIN u = 1..Len(u) /\ DOMAIN (s \o u) = 1..(Len(s) + Len(u))
      /\ \A i \in 1..(Len(s) + Len(u)) : (s \o u)[i] = IF i <= Len(s) THEN s[i] ELSE u[i - Len(s)]
  OBVIOUS
<1>2. \A i \in 1..Len(u) : i + Len(s) \in 1..(Len(s) + Len(u)) /\ (s \o u)[i + Len(s)] = u[i]
  BY <1>1
<1>3. \A i \in 1..Len(s) : (s \o u)[i] = s[i] /\ i \in 1..(Len(s) + Len(u))
  BY <1>1
<1>4. Range(s) \cup Range(u) \subseteq Range(s \o u)
  <2>1. ASSUME NEW x \in Range(s) PROVE x \in Range(s \o u)
    <3>1. PICK i \in 1..Len(s) : s[i] = x
      BY <2>1, <1>1 DEF Range
    <3>2. i \in DOMAIN (s \o u) /\ (s \o u)[i] = x
      BY <3>1, <1>1, <1>3
    <3> QED BY <3>2 DEF Range
  <2>2. ASSUME NEW x \in Range(u) PROVE x \in Range(s \o u)
    <3>1. PICK i \in 1..Len(u) : u[i] = x
      BY <2>2, <1>1 DEF Range
    <3>2. i + Len(s) \in DOMAIN (s \o u) /\ (s \o u)[i + Len(s)] = x
      BY <3>1, <1>1, <1>2
    <3> QED BY <3>2 DEF Range
  <2> QED BY <2>1, <2>2
<1>5. Range(s \o u) \subseteq Range(s) \cup Range(u)
  BY <1>1 DEF Range
<1> QED BY <1>1, <1>4, <1>5

\* The request of Ask, and the pull that waits for it.
Wants(p) == [who |-> pull[p].who, req |-> IF pull[p].who = Srv THEN p ELSE conn[pull[p].who].next,
             seq |-> pull[p].ann.seq, at |-> Wanted(p)]

LEMMA WantsIs ==
  ASSUME Types, NEW p \in DOMAIN pull, ~Complete(p)
  PROVE  Wants(p) \in Requests
<1>1. pull[p] \in Pulls /\ p \in 1..Len(pull)
  BY PullIs DEF Types
<1>2. pull[p].ann \in Announcements /\ pull[p].who \in Machines
  BY <1>1 DEF Pulls
<1>3. pull[p].ann.seq \in 1..MaxSeq /\ pull[p].ann.roots \in DOMAIN Reading
  BY <1>2, AnnouncementIs
<1>4. Wanted(p) \in Asked
  BY <1>3 DEF Complete, Wanted, Asked, Range
<1>5. (IF pull[p].who = Srv THEN p ELSE conn[pull[p].who].next) \in Nat \ {0}
  <2>1. p \in Nat \ {0}
    BY <1>1, PullIs DEF Types
  <2>2. CASE pull[p].who # Srv
    <3>1. conn[pull[p].who].next \in Nat \ {0}
      BY <2>2, <1>2, MachineIs DEF Types, LinkTypes
    <3> QED BY <3>1, <2>2
  <2> QED BY <2>1, <2>2
<1> QED BY <1>2, <1>3, <1>4, <1>5 DEF Wants, Requests

LEMMA AskIs ==
  ASSUME Types, NEW p \in DOMAIN pull, Ask(p)
  PROVE  /\ ~Complete(p) /\ pull[p].st = "ready" /\ Wants(p) \in Requests
         /\ IF pull[p].who = Srv
            THEN cur.who # None /\ RouteTo(Wants(p)) /\ UNCHANGED <<conn, up>>
            ELSE /\ conn[pull[p].who].st = "on" /\ conn[pull[p].who].sess = pull[p].sess
                 /\ conn' = Renumbered(pull[p].who)
                 /\ up' = [up EXCEPT ![pull[p].who] = Append(@, [t |-> "read", w |-> Wants(p), req |-> 0])]
                 /\ UNCHANGED <<route, local>>
         /\ DOMAIN pull' = DOMAIN pull /\ \A q \in DOMAIN pull : q # p => pull'[q] = pull[q]
         /\ pull'[p].who = pull[p].who /\ pull'[p].ann = pull[p].ann /\ pull'[p].sess = pull[p].sess
         /\ pull'[p].got = pull[p].got /\ pull'[p].ans = pull[p].ans
         /\ pull'[p].st = "waiting" /\ pull'[p].req = Wants(p).req
         /\ pull' \in Seq(Pulls)
         /\ UNCHANGED <<cur, pending, nextReq, own, remote, down, cancel, stage, history, faults>>
<1> DEFINE j == pull[p]
           k == [j EXCEPT !.st = "waiting", !.req = Wants(p).req]
<1>1. ~Complete(p) /\ pull[p].st = "ready" /\ Wants(p) \in Requests
  BY WantsIs DEF Ask
<1>2. pull' = [pull EXCEPT ![p] = k]
  BY DEF Ask, Wants
<1>3. /\ pull \in Seq(Pulls) /\ \A q \in DOMAIN pull : pull[q] \in Pulls
  BY DEF Types, PullTypes
<1>4. Wants(p).req \in Nat
  BY <1>1 DEF Requests
<1>5. k \in Pulls
  BY <1>3, <1>4 DEF Pulls, States
<1>6. /\ k.who = j.who /\ k.ann = j.ann /\ k.sess = j.sess /\ k.got = j.got /\ k.ans = j.ans
      /\ k.st = "waiting" /\ k.req = Wants(p).req
  BY <1>3 DEF Pulls
<1> HIDE DEF j, k
<1>7. /\ pull' \in Seq(Pulls) /\ DOMAIN pull' = DOMAIN pull /\ pull'[p] = k
      /\ \A q \in DOMAIN pull : q # p => pull'[q] = pull[q]
  BY <1>2, <1>3, <1>5
<1>8. /\ IF pull[p].who = Srv
         THEN cur.who # None /\ RouteTo(Wants(p)) /\ UNCHANGED <<conn, up>>
         ELSE /\ conn[pull[p].who].st = "on" /\ conn[pull[p].who].sess = pull[p].sess
              /\ conn' = Renumbered(pull[p].who)
              /\ up' = [up EXCEPT ![pull[p].who] = Append(@, [t |-> "read", w |-> Wants(p), req |-> 0])]
              /\ UNCHANGED <<route, local>>
      /\ UNCHANGED <<cur, pending, nextReq, own, remote, down, cancel, stage, history, faults>>
  BY DEF Ask, Wants
<1> QED BY <1>1, <1>6, <1>7, <1>8 DEF j

LEMMA TakeIs ==
  ASSUME Types, NEW p \in DOMAIN pull, Take(p)
  PROVE  /\ pull[p].st = "waiting" /\ pull[p].ans # None /\ ~Cancelled(p)
         /\ \/ /\ pull[p].ans.ok /\ pull[p].ans.data \in Chunks
               /\ DOMAIN pull' = DOMAIN pull /\ \A q \in DOMAIN pull : q # p => pull'[q] = pull[q]
               /\ pull'[p].who = pull[p].who /\ pull'[p].ann = pull[p].ann
               /\ pull'[p].sess = pull[p].sess /\ pull'[p].req = pull[p].req
               /\ pull'[p].st = "ready" /\ pull'[p].ans = None
               /\ pull'[p].got = Append(pull[p].got, pull[p].ans.data)
               /\ pull' \in Seq(Pulls)
               /\ disk' = [disk EXCEPT ![pull[p].who][pull[p].ann.seq] =
                             IF @ = None THEN None ELSE Append(pull[p].got, pull[p].ans.data)]
               /\ UNCHANGED <<server, own, remote, links, cancel, clip, history, faults>>
            \/ Fails(p, "failed")
<1> DEFINE j == pull[p]
           k == [j EXCEPT !.st = "ready", !.ans = None, !.got = Append(j.got, j.ans.data)]
<1>1. pull[p].st = "waiting" /\ pull[p].ans # None /\ ~Cancelled(p)
  BY DEF Take, Answered
<1>2. SUFFICES ASSUME ~Fails(p, "failed")
              PROVE  /\ pull[p].ans.ok /\ pull[p].ans.data \in Chunks
                     /\ DOMAIN pull' = DOMAIN pull /\ \A q \in DOMAIN pull : q # p => pull'[q] = pull[q]
                     /\ pull'[p].who = pull[p].who /\ pull'[p].ann = pull[p].ann
                     /\ pull'[p].sess = pull[p].sess /\ pull'[p].req = pull[p].req
                     /\ pull'[p].st = "ready" /\ pull'[p].ans = None
                     /\ pull'[p].got = Append(pull[p].got, pull[p].ans.data)
                     /\ pull' \in Seq(Pulls)
                     /\ disk' = [disk EXCEPT ![pull[p].who][pull[p].ann.seq] =
                                   IF @ = None THEN None ELSE Append(pull[p].got, pull[p].ans.data)]
                     /\ UNCHANGED <<server, own, remote, links, cancel, clip, history, faults>>
  BY <1>1
<1>3. /\ j.ans.ok /\ pull' = [pull EXCEPT ![p] = k]
      /\ disk' = [disk EXCEPT ![pull[p].who][pull[p].ann.seq] =
                    IF @ = None THEN None ELSE Append(pull[p].got, pull[p].ans.data)]
      /\ UNCHANGED <<server, own, remote, links, cancel, clip, history, faults>>
  BY <1>2 DEF Take
<1>4. pull \in Seq(Pulls) /\ j \in Pulls
  BY DEF Types, PullTypes
<1>5. j.ans.data \in Chunks
  <2>1. j.ans \in Answers
    BY <1>1, <1>4 DEF Pulls
  <2> QED BY <2>1, <1>3, AnswerIs
<1>6. Append(j.got, j.ans.data) \in Seq(Chunks)
  BY <1>4, <1>5 DEF Pulls
<1>7. k \in Pulls
  BY <1>4, <1>6 DEF Pulls, States
<1>8. /\ k.who = j.who /\ k.ann = j.ann /\ k.sess = j.sess /\ k.req = j.req
      /\ k.st = "ready" /\ k.ans = None /\ k.got = Append(j.got, j.ans.data)
  BY <1>4 DEF Pulls
<1>9. pull' = [pull EXCEPT ![p] = k]
  BY <1>3
<1> HIDE DEF k
<1>10. /\ pull' \in Seq(Pulls) /\ DOMAIN pull' = DOMAIN pull /\ pull'[p] = k
       /\ \A q \in DOMAIN pull : q # p => pull'[q] = pull[q]
  BY <1>9, <1>4, <1>7
<1> QED BY <1>3, <1>5, <1>8, <1>10

LEMMA FailsIs ==
  ASSUME PullTypes, NEW p \in DOMAIN pull, NEW st \in States, Fails(p, st)
  PROVE  disk' \in [Machines -> [1..MaxSeq -> Seq(Chunks) \cup {None}]]
<1>1. disk' = [disk EXCEPT ![pull[p].who][pull[p].ann.seq] = None]
  BY DEF Fails
<1> QED BY <1>1 DEF PullTypes

\* The answers of SrvNote(c) to client n.
Mine(c) == {x \in pending : x.to = c}
Answering(c, n) == {[t |-> "reply", req |-> x.w.req, ans |-> NotFound] : x \in {y \in Mine(c) : y.w.who = n}}

LEMMA SrvNoteIs ==
  ASSUME Types, NEW c \in Clients, SrvNote(c)
  PROVE  /\ conn[c].st = "closing" /\ ~Routing(c)
         /\ conn' = [conn EXCEPT ![c].st = "noted"]
         /\ cur' = IF cur.who = c THEN [cur EXCEPT !.who = None] ELSE cur
         /\ pending' = pending \ Mine(c)
         /\ down' \in [Clients -> Seq(DownMessages)]
         /\ \A n \in Clients :
              Range(down'[n]) = IF conn[n].st = "on" THEN Range(down[n]) \cup Answering(c, n) ELSE Range(down[n])
         /\ pull' = [p \in DOMAIN pull |->
                       IF (\E x \in Mine(c) : x.w.who = Srv /\ x.w.req = p) /\ pull[p].st = "waiting"
                       THEN [pull[p] EXCEPT !.ans = NotFound] ELSE pull[p]]
         /\ pull' \in Seq(Pulls)
         /\ UNCHANGED <<route, local, nextReq, own, remote, up, cancel, stage, history, faults>>
<1>1. /\ conn[c].st = "closing" /\ ~Routing(c)
      /\ conn' = [conn EXCEPT ![c].st = "noted"]
      /\ cur' = (IF cur.who = c THEN [cur EXCEPT !.who = None] ELSE cur)
      /\ pending' = pending \ Mine(c)
      /\ UNCHANGED <<route, local, nextReq, own, remote, up, cancel, stage, history, faults>>
  BY DEF SrvNote, Mine
<1>2. \A n \in Clients : /\ SetToSeq(Answering(c, n)) \in Seq(DownMessages)
                         /\ Range(SetToSeq(Answering(c, n))) = Answering(c, n)
  <2> SUFFICES ASSUME NEW n \in Clients
               PROVE  /\ SetToSeq(Answering(c, n)) \in Seq(DownMessages)
                      /\ Range(SetToSeq(Answering(c, n))) = Answering(c, n)
    OBVIOUS
  <2> DEFINE S == {y \in Mine(c) : y.w.who = n}
             f == [x \in S |-> [t |-> "reply", req |-> x.w.req, ans |-> NotFound]]
  <2>1. S \in SUBSET pending /\ IsFiniteSet(pending)
    BY DEF Types, RouterTypes, Mine
  <2>2. IsFiniteSet(S)
    BY <2>1, FS_Subset
  <2>3. DOMAIN f = S /\ Answering(c, n) = {f[x] : x \in S}
    BY DEF Answering
  <2> HIDE DEF S, f
  <2>4. SetToSeq(Answering(c, n)) \in Seq(Answering(c, n)) /\ Range(SetToSeq(Answering(c, n))) = Answering(c, n)
    BY <2>2, <2>3, SetToSeqOfSome
  <2>5. ASSUME NEW x \in S
        PROVE  [t |-> "reply", req |-> x.w.req, ans |-> NotFound] \in DownMessages
    <3>1. x.w.req \in Nat \ {0}
      BY <2>1 DEF Types, RouterTypes, Requests
    <3> QED BY <3>1, AnswerIs DEF DownMessages
  <2>6. Answering(c, n) \subseteq DownMessages
    BY <2>5 DEF Answering, S
  <2> QED BY <2>4, <2>6
<1>3. down' = [n \in Clients |->
                 IF conn[n].st = "on" THEN down[n] \o SetToSeq(Answering(c, n)) ELSE down[n]]
  BY DEF SrvNote, Mine, Answering
<1>4. \A n \in Clients :
        /\ down[n] \o SetToSeq(Answering(c, n)) \in Seq(DownMessages)
        /\ Range(down[n] \o SetToSeq(Answering(c, n))) = Range(down[n]) \cup Answering(c, n)
  <2> SUFFICES ASSUME NEW n \in Clients
               PROVE  /\ down[n] \o SetToSeq(Answering(c, n)) \in Seq(DownMessages)
                      /\ Range(down[n] \o SetToSeq(Answering(c, n))) = Range(down[n]) \cup Answering(c, n)
    OBVIOUS
  <2>1. down[n] \in Seq(DownMessages)
    BY DEF Types, LinkTypes
  <2> QED BY <2>1, <1>2, RangeOfConcat
<1>5. down' \in [Clients -> Seq(DownMessages)]
  BY <1>3, <1>4 DEF Types, LinkTypes
<1>6. \A n \in Clients :
        Range(down'[n]) = IF conn[n].st = "on" THEN Range(down[n]) \cup Answering(c, n) ELSE Range(down[n])
  BY <1>3, <1>4
<1>7. pull' = [p \in DOMAIN pull |->
                 IF (\E x \in Mine(c) : x.w.who = Srv /\ x.w.req = p) /\ pull[p].st = "waiting"
                 THEN [pull[p] EXCEPT !.ans = NotFound] ELSE pull[p]]
  <2> DEFINE hit(p) == (\E x \in Mine(c) : x.w.who = Srv /\ x.w.req = p) /\ pull[p].st = "waiting"
  <2>1. \A p : hit(p) <=> \E x \in Mine(c) : x.w.who = Srv /\ x.w.req = p /\ pull[p].st = "waiting"
    OBVIOUS
  <2>2. pull' = [p \in DOMAIN pull |->
                 IF \E x \in Mine(c) : x.w.who = Srv /\ x.w.req = p /\ pull[p].st = "waiting"
                 THEN [pull[p] EXCEPT !.ans = NotFound] ELSE pull[p]]
    BY DEF SrvNote, Mine
  <2> QED BY <2>1, <2>2
<1>8. \A p \in DOMAIN pull : pull'[p] \in Pulls
  <2> SUFFICES ASSUME NEW p \in DOMAIN pull PROVE pull'[p] \in Pulls
    OBVIOUS
  <2>1. pull[p] \in Pulls
    BY PullIs DEF Types
  <2>2. [pull[p] EXCEPT !.ans = NotFound] \in Pulls
    BY <2>1, AnswerIs DEF Pulls
  <2>3. pull'[p] = pull[p] \/ pull'[p] = [pull[p] EXCEPT !.ans = NotFound]
    BY <1>7
  <2> QED BY <2>1, <2>2, <2>3
<1>9. pull' \in Seq(Pulls)
  BY <1>7, <1>8, PullsReplaced DEF Types
<1> QED BY <1>1, <1>5, <1>6, <1>7, <1>9

LEMMA ClientReplyIs ==
  ASSUME Types, NEW c \in Clients, ClientReply(c)
  PROVE  /\ conn[c].st = "on" /\ down[c] # <<>> /\ down[c] \in Seq(DownMessages)
         /\ Head(down[c]) \in DownMessages /\ Head(down[c]).t = "reply"
         /\ Head(down[c]).ans \in Answers
         /\ down' = [down EXCEPT ![c] = Tail(@)]
         /\ pull' = [p \in DOMAIN pull |->
                       IF /\ pull[p].who = c /\ pull[p].sess = conn[c].sess
                          /\ pull[p].st = "waiting" /\ pull[p].req = Head(down[c]).req
                       THEN [pull[p] EXCEPT !.ans = Head(down[c]).ans] ELSE pull[p]]
         /\ pull' \in Seq(Pulls)
         /\ UNCHANGED <<server, own, remote, conn, up, cancel, stage, history, faults>>
<1>1. /\ conn[c].st = "on" /\ down[c] # <<>> /\ Head(down[c]).t = "reply"
      /\ down' = [down EXCEPT ![c] = Tail(@)]
      /\ pull' = [p \in DOMAIN pull |->
                    IF /\ pull[p].who = c /\ pull[p].sess = conn[c].sess
                       /\ pull[p].st = "waiting" /\ pull[p].req = Head(down[c]).req
                    THEN [pull[p] EXCEPT !.ans = Head(down[c]).ans] ELSE pull[p]]
      /\ UNCHANGED <<server, own, remote, conn, up, cancel, stage, history, faults>>
  BY DEF ClientReply
<1>2. down[c] \in Seq(DownMessages)
  BY DEF Types, LinkTypes
<1>3. Head(down[c]) \in DownMessages
  BY <1>1, <1>2, RangeOfTail
<1>4. Head(down[c]).ans \in Answers
  BY <1>1, <1>3 DEF DownMessages
<1>5. \A p \in DOMAIN pull : pull'[p] \in Pulls
  <2> SUFFICES ASSUME NEW p \in DOMAIN pull PROVE pull'[p] \in Pulls
    OBVIOUS
  <2>1. pull[p] \in Pulls
    BY PullIs DEF Types
  <2>2. [pull[p] EXCEPT !.ans = Head(down[c]).ans] \in Pulls
    BY <2>1, <1>4 DEF Pulls
  <2>3. pull'[p] = pull[p] \/ pull'[p] = [pull[p] EXCEPT !.ans = Head(down[c]).ans]
    BY <1>1
  <2> QED BY <2>1, <2>2, <2>3
<1>6. pull' \in Seq(Pulls)
  BY <1>1, <1>5, PullsReplaced DEF Types
<1> QED BY <1>1, <1>2, <1>3, <1>4, <1>6

----------------------------------------------------------------------------
(* Types.                                                                  *)

LEMMA InitTypes == Init => Types
<1> SUFFICES ASSUME Init PROVE Types
  OBVIOUS
<1>1. RouterTypes
  BY PullAssumption, FS_EmptySet DEF Init, RouterTypes
<1>2. LinkTypes
  BY DEF Init, LinkTypes
<1>3. PullTypes
  BY DEF Init, PullTypes
<1> QED BY <1>1, <1>2, <1>3 DEF Types

LEMMA AnnounceTypes ==
  ASSUME Types, NEW m \in Owners, NEW roots \in Copyable[m], Announce(m, roots)
  PROVE  Types'
<1> DEFINE ann == [seq |-> cur.seq + 1, epoch |-> cur.epoch, roots |-> roots]
<1>1. m \in Machines /\ MaxSeq \in Nat
  BY PullAssumption
<1>2. roots \in DOMAIN Reading
  <2>1. Copyable[m] \in Range(Copyable)
    BY PullAssumption DEF Range
  <2>2. roots \in DOMAIN Collected /\ Collected[roots] # None
    BY <2>1 DEF Announce, Collected
  <2> QED BY <2>2 DEF Reading
<1>3. cur.seq + 1 \in 1..MaxSeq /\ cur.epoch \in Nat
  BY <1>1 DEF Types, RouterTypes, Announce
<1>4. ann \in Announcements
  BY <1>2, <1>3 DEF Announcements
<1>5. RouterTypes'
  <2>1. cur' = [cur EXCEPT !.who = m, !.seq = ann.seq]
    BY DEF Announce
  <2>2. cur' \in [who : Machines \cup {None}, seq : 0..MaxSeq, epoch : Nat]
    <3>1. cur \in [who : Machines \cup {None}, seq : 0..MaxSeq, epoch : Nat]
      BY DEF Types, RouterTypes
    <3>2. ann.seq \in 0..MaxSeq /\ m \in Machines \cup {None}
      BY <1>1, <1>3
    <3> HIDE DEF ann
    <3> QED BY <2>1, <3>1, <3>2
  <2>3. own' = [own EXCEPT ![m] = ann] /\ UNCHANGED <<route, local, pending, nextReq>>
    BY DEF Announce
  <2>4. remote' = [n \in Machines |->
                  IF n = m THEN [remote[n] EXCEPT !.ann = None]
                  ELSE IF On(n) THEN [remote[n] EXCEPT !.ann = ann] ELSE remote[n]]
    BY DEF Announce
  <2> HIDE DEF ann
  <2>5. remote' \in [Machines -> [ann : Announcements \cup {None}, last : Announcements \cup {None}]]
    BY <2>4, <1>4 DEF Types, RouterTypes
  <2> QED BY <2>2, <2>3, <2>5, <1>4 DEF Types, RouterTypes
<1>6. LinkTypes' /\ PullTypes'
  BY DEF Types, LinkTypes, PullTypes, Announce, links, stage, history
<1> QED BY <1>5, <1>6 DEF Types

LEMMA EnterIs ==
  ASSUME Types, NEW m \in Machines, Enter(m)
  PROVE  /\ remote[m].ann \in Announcements /\ remote[m].ann # remote[m].last
         /\ m # Srv => conn[m].st = "on"
         /\ remote' = [remote EXCEPT ![m].last = remote[m].ann]
         /\ Len(pull) \in Nat /\ DOMAIN pull = 1..Len(pull) /\ DOMAIN pull' = 1..(Len(pull) + 1)
         /\ \A p \in DOMAIN pull : pull'[p] = pull[p] /\ p # Len(pull) + 1
         /\ pull'[Len(pull) + 1] = [who |-> m, ann |-> remote[m].ann, st |-> "new", got |-> <<>>,
                           req |-> 0, ans |-> None, gen |-> cancel[m],
                           sess |-> IF m = Srv THEN 0 ELSE conn[m].sess]
         /\ pull' \in Seq(Pulls)
         /\ UNCHANGED <<server, own, links, cancel, stage, history, faults>>
<1> DEFINE j == [who |-> m, ann |-> remote[m].ann, st |-> "new", got |-> <<>>,
                 req |-> 0, ans |-> None, gen |-> cancel[m],
                 sess |-> IF m = Srv THEN 0 ELSE conn[m].sess]
<1>1. /\ remote[m].ann \in Announcements /\ remote[m].ann # remote[m].last
      /\ m # Srv => conn[m].st = "on"
      /\ remote' = [remote EXCEPT ![m].last = remote[m].ann]
      /\ pull' = Append(pull, j)
      /\ UNCHANGED <<server, own, links, cancel, stage, history, faults>>
  BY DEF Types, RouterTypes, Enter, On
<1>2. (IF m = Srv THEN 0 ELSE conn[m].sess) \in Nat
  BY MachineIs DEF Types, LinkTypes
<1>3. j \in Pulls
  BY <1>1, <1>2 DEF Types, PullTypes, Pulls, States
<1>4. pull \in Seq(Pulls)
  BY DEF Types, PullTypes
<1> HIDE DEF j
<1>5. /\ Len(pull) \in Nat /\ DOMAIN pull = 1..Len(pull) /\ DOMAIN pull' = 1..(Len(pull) + 1)
      /\ \A p \in DOMAIN pull : pull'[p] = pull[p] /\ p # Len(pull) + 1
      /\ pull'[Len(pull) + 1] = j
      /\ pull' \in Seq(Pulls)
  BY <1>1, <1>3, <1>4
<1> QED BY <1>1, <1>5 DEF j

LEMMA EnterTypes ==
  ASSUME Types, NEW m \in Machines, Enter(m)
  PROVE  Types'
<1>1. /\ remote[m].ann \in Announcements
      /\ remote' = [remote EXCEPT ![m].last = remote[m].ann]
      /\ pull' \in Seq(Pulls)
      /\ UNCHANGED <<server, own, links, cancel, stage, history, faults>>
  BY EnterIs
<1>2. RouterTypes'
  BY <1>1 DEF Types, RouterTypes, server
<1>3. LinkTypes' /\ PullTypes'
  BY <1>1 DEF Types, LinkTypes, PullTypes, links, stage, history
<1> QED BY <1>2, <1>3 DEF Types

LEMMA RouteToTypes ==
  ASSUME RouterTypes, NEW w \in Requests, RouteTo(w)
  PROVE  route' \subseteq [w : Requests, to : Clients] /\ local' \subseteq Requests
BY DEF RouteTo, RouterTypes

LEMMA SrvReadIs ==
  ASSUME Types, NEW c \in Clients, SrvRead(c)
  PROVE  LET w == Head(up[c]).w IN
         /\ up[c] \in Seq(UpMessages) /\ up[c] # <<>> /\ Head(up[c]).t = "read"
         /\ conn[c].st = "on" /\ ~Routing(c)
         /\ w \in Requests
         /\ up' = [up EXCEPT ![c] = Tail(@)]
         /\ RouteTo(w)
         /\ IF cur.who = None THEN Deliver(w, NotFound) ELSE UNCHANGED <<down, pull>>
         /\ UNCHANGED <<cur, pending, nextReq, own, remote, conn, cancel, stage, history, faults>>
<1>1. up[c] \in Seq(UpMessages) /\ up[c] # <<>> /\ Head(up[c]).t = "read"
  BY DEF Types, LinkTypes, SrvRead
<1>2. Head(up[c]) \in UpMessages
  BY <1>1, RangeOfTail
<1>3. Head(up[c]).w \in Requests
  BY <1>1, <1>2 DEF UpMessages
<1> QED BY <1>1, <1>3 DEF SrvRead

LEMMA SrvReadTypes ==
  ASSUME Types, NEW c \in Clients, SrvRead(c)
  PROVE  Types'
<1> DEFINE w == Head(up[c]).w
<1>1. /\ up[c] \in Seq(UpMessages) /\ up[c] # <<>>
      /\ w \in Requests /\ up' = [up EXCEPT ![c] = Tail(@)] /\ RouteTo(w)
      /\ IF cur.who = None THEN Deliver(w, NotFound) ELSE UNCHANGED <<down, pull>>
      /\ UNCHANGED <<cur, pending, nextReq, own, remote, conn, cancel, stage, history, faults>>
  BY SrvReadIs
<1> HIDE DEF w
<1>2. Tail(up[c]) \in Seq(UpMessages)
  BY <1>1, RangeOfTail
<1>3. down' \in [Clients -> Seq(DownMessages)] /\ pull' \in Seq(Pulls)
  <2>1. CASE cur.who = None
    BY <2>1, <1>1, DeliverIs, AnswerIs DEF Types
  <2>2. CASE cur.who # None
    BY <2>2, <1>1 DEF Types, LinkTypes, PullTypes
  <2> QED BY <2>1, <2>2
<1>4. RouterTypes'
  BY <1>1, RouteToTypes DEF Types, RouterTypes
<1>5. LinkTypes' /\ PullTypes'
  BY <1>1, <1>2, <1>3 DEF Types, LinkTypes, PullTypes, stage, history
<1> QED BY <1>4, <1>5 DEF Types

LEMMA RouteSendIs ==
  ASSUME Types, NEW r \in route, RouteSend(r)
  PROVE  /\ r.w \in Requests /\ r.to \in Clients
         /\ route' = route \ {r} /\ nextReq' = nextReq + 1 /\ nextReq \in Nat \ {0}
         /\ IF Registered(r.to)
            THEN /\ pending' = pending \cup {[req |-> nextReq, to |-> r.to, w |-> r.w,
                                             late |-> conn[r.to].st = "noted"]}
                 /\ down' = IF conn[r.to].st = "on"
                     THEN [down EXCEPT ![r.to] = Append(@, [t |-> "read", req |-> nextReq,
                                                          seq |-> r.w.seq, at |-> r.w.at])]
                     ELSE down
                 /\ UNCHANGED pull
            ELSE Deliver(r.w, NotFound) /\ UNCHANGED pending
         /\ UNCHANGED <<cur, local, own, remote, conn, up, cancel, stage, history, faults>>
BY DEF Types, RouterTypes, RouteSend

LEMMA RouteSendTypes ==
  ASSUME Types, NEW r \in route, RouteSend(r)
  PROVE  Types'
<1>1. /\ r.w \in Requests /\ r.to \in Clients
      /\ route' = route \ {r} /\ nextReq' = nextReq + 1 /\ nextReq \in Nat \ {0}
      /\ UNCHANGED <<cur, local, own, remote, conn, up, cancel, stage, history, faults>>
  BY RouteSendIs
<1>2. CASE Registered(r.to)
  <2> DEFINE x == [req |-> nextReq, to |-> r.to, w |-> r.w, late |-> conn[r.to].st = "noted"]
             q == [t |-> "read", req |-> nextReq, seq |-> r.w.seq, at |-> r.w.at]
  <2>1. /\ pending' = pending \cup {x}
        /\ down' = IF conn[r.to].st = "on" THEN [down EXCEPT ![r.to] = Append(@, q)] ELSE down
        /\ UNCHANGED pull
    BY <1>2, RouteSendIs
  <2>2. x \in [req : Nat \ {0}, to : Clients, w : Requests, late : BOOLEAN]
    BY <1>1
  <2>3. q \in DownMessages
    BY <1>1 DEF DownMessages, Requests
  <2>4. down[r.to] \in Seq(DownMessages)
    BY <1>1 DEF Types, LinkTypes
  <2> HIDE DEF x, q
  <2>5. IsFiniteSet(pending \cup {x})
    BY FS_AddElement DEF Types, RouterTypes
  <2>6. RouterTypes'
    BY <1>1, <2>1, <2>2, <2>5 DEF Types, RouterTypes
  <2>7. Append(down[r.to], q) \in Seq(DownMessages)
    BY <2>3, <2>4
  <2>8. LinkTypes' /\ PullTypes'
    BY <1>1, <2>1, <2>7 DEF Types, LinkTypes, PullTypes, stage, history
  <2> QED BY <2>6, <2>8 DEF Types
<1>3. CASE ~Registered(r.to)
  <2>1. Deliver(r.w, NotFound) /\ UNCHANGED pending
    BY <1>3, RouteSendIs
  <2>2. down' \in [Clients -> Seq(DownMessages)] /\ pull' \in Seq(Pulls)
    BY <2>1, <1>1, DeliverIs, AnswerIs DEF Types
  <2>3. RouterTypes'
    BY <1>1, <2>1 DEF Types, RouterTypes
  <2>4. LinkTypes' /\ PullTypes'
    BY <1>1, <2>2 DEF Types, LinkTypes, PullTypes, stage, history
  <2> QED BY <2>3, <2>4 DEF Types
<1> QED BY <1>2, <1>3

LEMMA LocalReadIs ==
  ASSUME Types, NEW w \in local, LocalRead(w)
  PROVE  /\ w \in Requests /\ local' = local \ {w}
         /\ \E ans \in Reads(Srv, w) : ans \in Answers /\ Deliver(w, ans)
         /\ UNCHANGED <<cur, route, pending, nextReq, own, remote, conn, up, cancel, stage, history, faults>>
<1>1. w \in Requests
  BY DEF Types, RouterTypes
<1>2. w.at \in Asked /\ Srv \in Machines
  BY <1>1 DEF Requests, Machines
<1> QED BY <1>1, <1>2, ReadsAnswer DEF LocalRead, Types

LEMMA LocalReadTypes ==
  ASSUME Types, NEW w \in local, LocalRead(w)
  PROVE  Types'
<1>1. /\ w \in Requests /\ local' = local \ {w}
      /\ UNCHANGED <<cur, route, pending, nextReq, own, remote, conn, up, cancel, stage, history, faults>>
  BY LocalReadIs
<1>2. PICK ans \in Answers : Deliver(w, ans)
  BY LocalReadIs
<1>3. down' \in [Clients -> Seq(DownMessages)] /\ pull' \in Seq(Pulls)
  BY <1>1, <1>2, DeliverIs DEF Types
<1>4. RouterTypes'
  BY <1>1 DEF Types, RouterTypes
<1>5. LinkTypes' /\ PullTypes'
  BY <1>1, <1>3 DEF Types, LinkTypes, PullTypes, stage, history
<1> QED BY <1>4, <1>5 DEF Types

LEMMA ClientServeIs ==
  ASSUME Types, NEW c \in Clients, ClientServe(c)
  PROVE  LET q == Head(down[c]) IN
         /\ conn[c].st = "on" /\ down[c] # <<>> /\ down[c] \in Seq(DownMessages) /\ up[c] \in Seq(UpMessages)
         /\ q \in DownMessages /\ q.t = "read" /\ q.at \in Asked /\ q.req \in Nat \ {0}
         /\ down' = [down EXCEPT ![c] = Tail(@)]
         /\ \E ans \in Reads(c, q) : ans \in Answers /\
              up' = [up EXCEPT ![c] = Append(@, [t |-> "reply", req |-> q.req, ans |-> ans])]
         /\ UNCHANGED <<server, own, remote, conn, pull, cancel, stage, history, faults>>
<1>1. down[c] \in Seq(DownMessages) /\ up[c] \in Seq(UpMessages) /\ down[c] # <<>> /\ Head(down[c]).t = "read"
  BY DEF Types, LinkTypes, ClientServe
<1>2. Head(down[c]) \in DownMessages
  BY <1>1, RangeOfTail
<1>3. Head(down[c]).at \in Asked /\ Head(down[c]).req \in Nat \ {0}
  BY <1>1, <1>2 DEF DownMessages
<1>4. c \in Machines
  BY ClientIs
<1> QED BY <1>1, <1>2, <1>3, <1>4, ReadsAnswer DEF ClientServe, Types

LEMMA ClientServeTypes ==
  ASSUME Types, NEW c \in Clients, ClientServe(c)
  PROVE  Types'
<1> DEFINE q == Head(down[c])
<1>1. /\ down[c] # <<>> /\ down[c] \in Seq(DownMessages) /\ up[c] \in Seq(UpMessages)
      /\ q.req \in Nat \ {0} /\ down' = [down EXCEPT ![c] = Tail(@)]
      /\ UNCHANGED <<server, own, remote, conn, pull, cancel, stage, history, faults>>
  BY ClientServeIs
<1>2. PICK ans \in Answers : up' = [up EXCEPT ![c] = Append(@, [t |-> "reply", req |-> q.req, ans |-> ans])]
  BY ClientServeIs
<1> HIDE DEF q
<1>3. [t |-> "reply", req |-> q.req, ans |-> ans] \in UpMessages
  BY <1>1 DEF UpMessages
<1>4. Tail(down[c]) \in Seq(DownMessages)
  BY <1>1, RangeOfTail
<1>5. Append(up[c], [t |-> "reply", req |-> q.req, ans |-> ans]) \in Seq(UpMessages)
  BY <1>1, <1>3
<1>6. RouterTypes'
  BY <1>1 DEF Types, RouterTypes, server
<1>7. LinkTypes' /\ PullTypes'
  BY <1>1, <1>2, <1>4, <1>5 DEF Types, LinkTypes, PullTypes, stage, history
<1> QED BY <1>6, <1>7 DEF Types

\* The one entry a reply finds, if there is one.
LEMMA SrvReplyIs ==
  ASSUME Types, RouterNumbers, NEW c \in Clients, SrvReply(c)
  PROVE  LET r == Head(up[c])
             hit == {x \in pending : x.req = r.req} IN
         /\ conn[c].st = "on" /\ ~Routing(c)
         /\ up[c] # <<>> /\ up[c] \in Seq(UpMessages) /\ r \in UpMessages /\ r.t = "reply" /\ r.ans \in Answers
         /\ up' = [up EXCEPT ![c] = Tail(@)]
         /\ pending' = pending \ hit
         /\ \/ hit = {} /\ UNCHANGED <<down, pull>>
            \/ \E x \in pending : hit = {x} /\ Deliver(x.w, IF x.to = c THEN r.ans ELSE NotFound)
         /\ UNCHANGED <<cur, route, local, nextReq, own, remote, conn, cancel, stage, history, faults>>
<1> DEFINE r == Head(up[c])
           hit == {x \in pending : x.req = r.req}
<1>1. up[c] \in Seq(UpMessages) /\ up[c] # <<>> /\ r.t = "reply"
  BY DEF Types, LinkTypes, SrvReply
<1>2. r \in UpMessages
  BY <1>1, RangeOfTail
<1>3. r.ans \in Answers
  BY <1>1, <1>2 DEF UpMessages
<1>4. hit # {} => \E x \in pending : hit = {x} /\ x = CHOOSE y \in hit : TRUE
  BY DEF RouterNumbers
<1>5. /\ pending' = pending \ hit
      /\ IF hit = {} THEN UNCHANGED <<down, pull>>
         ELSE Deliver((CHOOSE y \in hit : TRUE).w, IF (CHOOSE y \in hit : TRUE).to = c THEN r.ans ELSE NotFound)
  BY DEF SrvReply
<1>6. \/ hit = {} /\ UNCHANGED <<down, pull>>
      \/ \E x \in pending : hit = {x} /\ Deliver(x.w, IF x.to = c THEN r.ans ELSE NotFound)
  BY <1>4, <1>5
<1> HIDE DEF hit, r
<1>7. /\ conn[c].st = "on" /\ ~Routing(c) /\ up' = [up EXCEPT ![c] = Tail(@)]
      /\ UNCHANGED <<cur, route, local, nextReq, own, remote, conn, cancel, stage, history, faults>>
  BY DEF SrvReply
<1> QED BY <1>1, <1>2, <1>3, <1>5, <1>6, <1>7 DEF hit, r

LEMMA SrvReplyTypes ==
  ASSUME Types, RouterNumbers, NEW c \in Clients, SrvReply(c)
  PROVE  Types'
<1> DEFINE r == Head(up[c])
           hit == {x \in pending : x.req = r.req}
<1>1. /\ up[c] # <<>> /\ up[c] \in Seq(UpMessages) /\ r.ans \in Answers
      /\ up' = [up EXCEPT ![c] = Tail(@)]
      /\ pending' = pending \ hit
      /\ \/ hit = {} /\ UNCHANGED <<down, pull>>
         \/ \E x \in pending : hit = {x} /\ Deliver(x.w, IF x.to = c THEN r.ans ELSE NotFound)
      /\ UNCHANGED <<cur, route, local, nextReq, own, remote, conn, cancel, stage, history, faults>>
  BY SrvReplyIs
<1> HIDE DEF hit, r
<1>2. down' \in [Clients -> Seq(DownMessages)] /\ pull' \in Seq(Pulls)
  <2>1. CASE UNCHANGED <<down, pull>>
    BY <2>1 DEF Types, LinkTypes, PullTypes
  <2>2. CASE ~UNCHANGED <<down, pull>>
    <3>1. PICK x \in pending : Deliver(x.w, IF x.to = c THEN r.ans ELSE NotFound)
      BY <2>2, <1>1
    <3>2. x.w \in Requests /\ (IF x.to = c THEN r.ans ELSE NotFound) \in Answers
      BY <1>1, AnswerIs DEF Types, RouterTypes
    <3> QED BY <3>1, <3>2, DeliverIs DEF Types
  <2> QED BY <2>1, <2>2
<1>3. Tail(up[c]) \in Seq(UpMessages)
  BY <1>1, RangeOfTail
<1>4. IsFiniteSet(pending \ hit)
  BY FS_Subset DEF Types, RouterTypes
<1>5. RouterTypes'
  BY <1>1, <1>4 DEF Types, RouterTypes
<1>6. LinkTypes' /\ PullTypes'
  BY <1>1, <1>2, <1>3 DEF Types, LinkTypes, PullTypes, stage, history
<1> QED BY <1>5, <1>6 DEF Types

LEMMA ClientReplyTypes ==
  ASSUME Types, NEW c \in Clients, ClientReply(c)
  PROVE  Types'
<1>1. /\ down[c] # <<>> /\ down[c] \in Seq(DownMessages) /\ down' = [down EXCEPT ![c] = Tail(@)]
      /\ pull' \in Seq(Pulls)
      /\ UNCHANGED <<server, own, remote, conn, up, cancel, stage, history, faults>>
  BY ClientReplyIs
<1>2. Tail(down[c]) \in Seq(DownMessages)
  BY <1>1, RangeOfTail
<1>3. RouterTypes'
  BY <1>1 DEF Types, RouterTypes, server
<1>4. LinkTypes' /\ PullTypes'
  BY <1>1, <1>2 DEF Types, LinkTypes, PullTypes, stage, history
<1> QED BY <1>3, <1>4 DEF Types

\* A step of pull p alone: every one but Ask.
Alone(p) == Begin(p) \/ AskInVain(p) \/ Take(p) \/ Timeout(p) \/ Stops(p) \/ Finish(p)

\* What every such step leaves alone.
Kept(p) ==
  /\ DOMAIN pull' = DOMAIN pull /\ \A q \in DOMAIN pull : q # p => pull'[q] = pull[q]
  /\ pull'[p].who = pull[p].who /\ pull'[p].ann = pull[p].ann /\ pull'[p].sess = pull[p].sess
  /\ pull' \in Seq(Pulls)
  /\ disk' \in [Machines -> [1..MaxSeq -> Seq(Chunks) \cup {None}]]
  /\ \A m \in Machines, s \in 1..MaxSeq :
       <<m, s>> # <<pull[p].who, pull[p].ann.seq>> => disk'[m][s] = disk[m][s]
  /\ UNCHANGED <<server, own, remote, links, cancel, history, faults>>

LEMMA FailsKept ==
  ASSUME Types, NEW p \in DOMAIN pull, NEW st \in States \ {"done"}, Fails(p, st)
  PROVE  /\ Kept(p) /\ UNCHANGED clip
         /\ pull'[p].st = st /\ pull'[p].ans = None /\ pull'[p].got = <<>> /\ pull'[p].req = 0
<1>1. Ended(p, st) /\ UNCHANGED <<server, own, remote, links, cancel, clip, history, faults>>
      /\ disk' = [disk EXCEPT ![pull[p].who][pull[p].ann.seq] = None]
  BY DEF Fails
<1>2. \A m \in Machines, s \in 1..MaxSeq :
       <<m, s>> # <<pull[p].who, pull[p].ann.seq>> => disk'[m][s] = disk[m][s]
  BY <1>1 DEF Types, PullTypes
<1>3. disk' \in [Machines -> [1..MaxSeq -> Seq(Chunks) \cup {None}]]
  BY FailsIs DEF Types
<1> QED BY <1>1, <1>2, <1>3, EndedIs DEF Kept, Types

\* How such a step may go.
Starts(p) ==
  /\ pull[p].st = "new" /\ pull'[p].st = "ready" /\ ~Cancelled(p)
  /\ pull'[p].got = pull[p].got /\ pull'[p].ans = pull[p].ans /\ pull'[p].req = pull[p].req
  /\ disk'[pull[p].who][pull[p].ann.seq] = <<>> /\ UNCHANGED clip
Gets(p) ==
  /\ pull[p].st = "waiting" /\ pull'[p].st = "ready" /\ ~Cancelled(p)
  /\ pull[p].ans # None /\ pull[p].ans.ok /\ pull[p].ans.data \in Chunks
  /\ pull'[p].got = Append(pull[p].got, pull[p].ans.data) /\ pull'[p].ans = None /\ pull'[p].req = pull[p].req
  /\ disk'[pull[p].who][pull[p].ann.seq] =
       IF disk[pull[p].who][pull[p].ann.seq] = None THEN None ELSE Append(pull[p].got, pull[p].ans.data)
  /\ UNCHANGED clip
Quits(p) ==
  /\ pull'[p].st \in {"failed", "cancelled", "unplaced"} /\ UNCHANGED clip
  /\ pull'[p].ans = None /\ pull'[p].got = <<>> /\ pull'[p].req = 0
Places(p) ==
  /\ pull[p].st = "ready" /\ Complete(p) /\ pull'[p].st = "done" /\ pull'[p].got = pull[p].got
  /\ pull'[p].ans = None /\ pull'[p].req = 0
  /\ clip' = [clip EXCEPT ![pull[p].who] = p] /\ UNCHANGED disk

LEMMA AloneIs ==
  ASSUME Types, NEW p \in DOMAIN pull, Alone(p)
  PROVE  /\ Kept(p) /\ pull[p].st \in Running
         /\ Starts(p) \/ Gets(p) \/ Quits(p) \/ Places(p)
<1>0. /\ pull \in Seq(Pulls) /\ \A q \in DOMAIN pull : pull[q] \in Pulls
      /\ pull[p].who \in Machines /\ pull[p].ann \in Announcements /\ pull[p].ann.seq \in 1..MaxSeq
      /\ disk \in [Machines -> [1..MaxSeq -> Seq(Chunks) \cup {None}]]
  <2>1. pull[p] \in Pulls /\ pull \in Seq(Pulls) /\ \A q \in DOMAIN pull : pull[q] \in Pulls
    BY DEF Types, PullTypes
  <2>2. pull[p].who \in Machines /\ pull[p].ann \in Announcements
    BY <2>1 DEF Pulls
  <2> QED BY <2>1, <2>2, AnnouncementIs DEF Types, PullTypes
<1>1. ASSUME NEW st \in {"failed", "cancelled"}, Fails(p, st), pull[p].st \in Running
      PROVE  Kept(p) /\ pull[p].st \in Running /\ Quits(p)
  <2>1. st \in States \ {"done"}
    BY DEF States
  <2> QED BY <1>1, <2>1, FailsKept DEF Quits
<1>2. CASE Begin(p)
  <2>1. pull[p].st = "new" /\ UNCHANGED <<server, own, remote, links, cancel, clip, history, faults>>
    BY <1>2 DEF Begin
  <2>2. CASE Ended(p, IF Cancelled(p) THEN "cancelled" ELSE "failed") /\ UNCHANGED disk
    <3>1. (IF Cancelled(p) THEN "cancelled" ELSE "failed") \in States
      BY DEF States
    <3> QED BY <1>0, <2>1, <2>2, <3>1, EndedIs DEF Kept, Quits, Running, Types
  <2>3. CASE /\ ~Cancelled(p)
             /\ pull' = [pull EXCEPT ![p].st = "ready"]
             /\ disk' = [disk EXCEPT ![pull[p].who][pull[p].ann.seq] = <<>>]
    <3> DEFINE k == [pull[p] EXCEPT !.st = "ready"]
    <3>1. k \in Pulls
      BY <1>0 DEF Pulls, States
    <3>2. /\ k.who = pull[p].who /\ k.ann = pull[p].ann /\ k.sess = pull[p].sess /\ k.got = pull[p].got
          /\ k.ans = pull[p].ans /\ k.req = pull[p].req /\ k.st = "ready"
      BY <1>0 DEF Pulls
    <3>3. pull' = [pull EXCEPT ![p] = k]
      BY <2>3
    <3> HIDE DEF k
    <3>4. /\ DOMAIN pull' = DOMAIN pull /\ pull'[p] = k /\ pull' \in Seq(Pulls)
          /\ \A q \in DOMAIN pull : q # p => pull'[q] = pull[q]
      BY <3>1, <3>3, <1>0
    <3>5. /\ disk' \in [Machines -> [1..MaxSeq -> Seq(Chunks) \cup {None}]]
          /\ disk'[pull[p].who][pull[p].ann.seq] = <<>>
          /\ \A m \in Machines, s \in 1..MaxSeq :
               <<m, s>> # <<pull[p].who, pull[p].ann.seq>> => disk'[m][s] = disk[m][s]
      <4> DEFINE m0 == pull[p].who
                 s0 == pull[p].ann.seq
      <4>1. disk' = [disk EXCEPT ![m0][s0] = <<>>] /\ m0 \in Machines /\ s0 \in 1..MaxSeq
        BY <2>3, <1>0
      <4>2. <<>> \in Seq(Chunks)
        OBVIOUS
      <4> HIDE DEF m0, s0
      <4>3. /\ disk' \in [Machines -> [1..MaxSeq -> Seq(Chunks) \cup {None}]] /\ disk'[m0][s0] = <<>>
            /\ \A m \in Machines, s \in 1..MaxSeq : <<m, s>> # <<m0, s0>> => disk'[m][s] = disk[m][s]
        BY <4>1, <4>2, <1>0
      <4> QED BY <4>3 DEF m0, s0
    <3> QED BY <2>1, <2>3, <3>2, <3>4, <3>5 DEF Kept, Starts, Running
  <2> QED BY <1>2, <2>2, <2>3 DEF Begin
<1>3. CASE AskInVain(p)
  BY <1>1, <1>3 DEF AskInVain, Running
<1>4. CASE Take(p)
  <2>1. CASE Fails(p, "failed")
    BY <1>1, <1>4, <2>1, TakeIs DEF Running
  <2>2. CASE ~Fails(p, "failed")
    <3> DEFINE got == Append(pull[p].got, pull[p].ans.data)
    <3>1. /\ pull[p].st = "waiting" /\ pull[p].ans # None /\ ~Cancelled(p)
          /\ pull[p].ans.ok /\ pull[p].ans.data \in Chunks
          /\ DOMAIN pull' = DOMAIN pull /\ \A q \in DOMAIN pull : q # p => pull'[q] = pull[q]
          /\ pull'[p].who = pull[p].who /\ pull'[p].ann = pull[p].ann
          /\ pull'[p].sess = pull[p].sess /\ pull'[p].req = pull[p].req
          /\ pull'[p].st = "ready" /\ pull'[p].ans = None /\ pull'[p].got = got
          /\ pull' \in Seq(Pulls)
          /\ disk' = [disk EXCEPT ![pull[p].who][pull[p].ann.seq] = IF @ = None THEN None ELSE got]
          /\ UNCHANGED <<server, own, remote, links, cancel, clip, history, faults>>
      BY <1>4, <2>2, TakeIs
    <3>2. pull[p].got \in Seq(Chunks)
      BY <1>0 DEF Pulls
    <3>3. got \in Seq(Chunks)
      BY <3>1, <3>2
    <3> HIDE DEF got
    <3>4. /\ disk' \in [Machines -> [1..MaxSeq -> Seq(Chunks) \cup {None}]]
          /\ disk'[pull[p].who][pull[p].ann.seq] = IF disk[pull[p].who][pull[p].ann.seq] = None THEN None ELSE got
          /\ \A m \in Machines, s \in 1..MaxSeq :
               <<m, s>> # <<pull[p].who, pull[p].ann.seq>> => disk'[m][s] = disk[m][s]
      BY <3>1, <3>3, <1>0
    <3> QED BY <3>1, <3>4 DEF Kept, Gets, Running, got
  <2> QED BY <2>1, <2>2
<1>5. CASE Timeout(p)
  BY <1>1, <1>5 DEF Timeout, Running
<1>6. CASE Stops(p)
  BY <1>1, <1>6 DEF Stops, Running
<1>7. CASE Finish(p)
  <2>1. pull[p].st = "ready" /\ Complete(p) /\ UNCHANGED <<server, own, remote, links, cancel, disk, history, faults>>
    BY <1>7 DEF Finish
  <2>2. CASE Ended(p, "done") /\ clip' = [clip EXCEPT ![pull[p].who] = p]
    <3>1. "done" \in States
      BY DEF States
    <3> QED BY <1>0, <2>1, <2>2, <3>1, EndedIs DEF Kept, Places, Running, Types
  <2>3. CASE Ended(p, "unplaced") /\ UNCHANGED clip
    <3>1. "unplaced" \in States
      BY DEF States
    <3> QED BY <1>0, <2>1, <2>3, <3>1, EndedIs DEF Kept, Quits, Running, Types
  <2> QED BY <1>7, <2>2, <2>3 DEF Finish
<1> QED BY <1>2, <1>3, <1>4, <1>5, <1>6, <1>7 DEF Alone

LEMMA AloneTypes ==
  ASSUME Types, NEW p \in DOMAIN pull, Alone(p)
  PROVE  Types'
<1>1. Kept(p) /\ (Starts(p) \/ Gets(p) \/ Quits(p) \/ Places(p))
  BY AloneIs
<1>2. p \in Nat
  BY PullIs DEF Types
<1>3. clip' \in [Machines -> Nat \cup {None}]
  BY <1>1, <1>2 DEF Types, PullTypes, Starts, Gets, Quits, Places
<1>4. RouterTypes' /\ LinkTypes'
  BY <1>1 DEF Kept, Types, RouterTypes, LinkTypes, server, links
<1>5. PullTypes'
  BY <1>1, <1>3 DEF Kept, Types, PullTypes, history
<1> QED BY <1>4, <1>5 DEF Types

LEMMA AskTypes ==
  ASSUME Types, NEW p \in DOMAIN pull, Ask(p)
  PROVE  Types'
<1>1. /\ Wants(p) \in Requests /\ pull' \in Seq(Pulls)
      /\ UNCHANGED <<cur, pending, nextReq, own, remote, down, cancel, stage, history, faults>>
  BY AskIs
<1>2. CASE pull[p].who = Srv
  <2>1. RouteTo(Wants(p)) /\ UNCHANGED <<conn, up>>
    BY <1>2, AskIs
  <2>2. route' \subseteq [w : Requests, to : Clients] /\ local' \subseteq Requests
    BY <1>1, <2>1, RouteToTypes DEF Types
  <2> QED BY <1>1, <2>1, <2>2 DEF Types, RouterTypes, LinkTypes, PullTypes, stage, history
<1>3. CASE pull[p].who # Srv
  <2> DEFINE c == pull[p].who
             q == [t |-> "read", w |-> Wants(p), req |-> 0]
  <2>1. conn' = [conn EXCEPT ![c].next = @ + 1] /\ up' = [up EXCEPT ![c] = Append(@, q)] /\ UNCHANGED <<route, local>>
    BY <1>3, AskIs DEF Renumbered
  <2>2. c \in Clients
    <3>1. pull[p] \in Pulls
      BY PullIs DEF Types
    <3> QED BY <1>3, <3>1, MachineIs DEF Pulls
  <2>3. q \in UpMessages
    BY <1>1 DEF UpMessages
  <2> HIDE DEF c, q
  <2>4. Append(up[c], q) \in Seq(UpMessages)
    BY <2>2, <2>3 DEF Types, LinkTypes
  <2>5. conn' \in [Clients -> [st : {"on", "closing", "noted", "off"}, sess : Nat, next : Nat \ {0}]]
    <3>1. conn[c] \in [st : {"on", "closing", "noted", "off"}, sess : Nat, next : Nat \ {0}]
      BY <2>2 DEF Types, LinkTypes
    <3>2. [conn[c] EXCEPT !.next = @ + 1] \in [st : {"on", "closing", "noted", "off"}, sess : Nat, next : Nat \ {0}]
      BY <3>1
    <3>3. conn' = [conn EXCEPT ![c] = [conn[c] EXCEPT !.next = @ + 1]]
      BY <2>1
    <3> QED BY <3>2, <3>3, <2>2 DEF Types, LinkTypes
  <2> QED BY <1>1, <2>1, <2>4, <2>5 DEF Types, RouterTypes, LinkTypes, PullTypes, stage, history
<1> QED BY <1>2, <1>3

LEMMA CancelTypes ==
  ASSUME Types, NEW m \in Machines, Cancel(m)
  PROVE  Types'
<1>1. cancel' = [cancel EXCEPT ![m] = cancel[m] + 1]
      /\ UNCHANGED <<server, own, remote, links, pull, stage, history, faults>>
  BY DEF Cancel
<1>2. cancel' \in [Machines -> Nat]
  BY <1>1 DEF Types, PullTypes
<1> QED BY <1>1, <1>2 DEF Types, RouterTypes, LinkTypes, PullTypes, server, links, stage, history

LEMMA ConnTypes ==
  ASSUME LinkTypes, NEW c \in Clients, NEW st \in {"on", "closing", "noted", "off"},
         conn' = [conn EXCEPT ![c].st = st]
  PROVE  conn' \in [Clients -> [st : {"on", "closing", "noted", "off"}, sess : Nat, next : Nat \ {0}]]
<1>1. conn[c] \in [st : {"on", "closing", "noted", "off"}, sess : Nat, next : Nat \ {0}]
  BY DEF LinkTypes
<1>2. [conn[c] EXCEPT !.st = st] \in [st : {"on", "closing", "noted", "off"}, sess : Nat, next : Nat \ {0}]
  BY <1>1
<1>3. conn' = [conn EXCEPT ![c] = [conn[c] EXCEPT !.st = st]]
  OBVIOUS
<1> QED BY <1>2, <1>3 DEF LinkTypes

\* The links of client c emptied, and everybody else's as they were.
LEMMA LoseTypes ==
  ASSUME Types, NEW c \in Clients, Lose(c)
  PROVE  Types'
<1>1. conn' = [conn EXCEPT ![c].st = "closing"]
  BY DEF Lose
<1>2. conn' \in [Clients -> [st : {"on", "closing", "noted", "off"}, sess : Nat, next : Nat \ {0}]]
  BY <1>1, ConnTypes DEF Types
<1>3. /\ up' \in [Clients -> Seq(UpMessages)] /\ down' \in [Clients -> Seq(DownMessages)]
  BY DEF Types, LinkTypes, Lose
<1>4. RouterTypes'
  <2>1. own' = [own EXCEPT ![c] = None] /\ remote' = [remote EXCEPT ![c] = [ann |-> None, last |-> None]]
        /\ UNCHANGED server
    BY DEF Lose
  <2> QED BY <2>1 DEF Types, RouterTypes, server
<1>5. PullTypes'
  <2>1. owed' \subseteq Clients
    BY DEF Types, PullTypes, Lose
  <2>2. UNCHANGED <<pull, cancel, stage>>
    BY DEF Lose
  <2> QED BY <2>1, <2>2 DEF Types, PullTypes, stage
<1> QED BY <1>2, <1>3, <1>4, <1>5 DEF Types, LinkTypes

LEMMA SrvNoteTypes ==
  ASSUME Types, NEW c \in Clients, SrvNote(c)
  PROVE  Types'
<1>1. /\ conn' = [conn EXCEPT ![c].st = "noted"]
      /\ cur' = IF cur.who = c THEN [cur EXCEPT !.who = None] ELSE cur
      /\ pending' = pending \ Mine(c)
      /\ down' \in [Clients -> Seq(DownMessages)] /\ pull' \in Seq(Pulls)
      /\ UNCHANGED <<route, local, nextReq, own, remote, up, cancel, stage, history, faults>>
  BY SrvNoteIs
<1>2. conn' \in [Clients -> [st : {"on", "closing", "noted", "off"}, sess : Nat, next : Nat \ {0}]]
  BY <1>1, ConnTypes DEF Types
<1>3. IsFiniteSet(pending \ Mine(c))
  BY FS_Subset DEF Types, RouterTypes
<1>4. RouterTypes'
  BY <1>1, <1>3 DEF Types, RouterTypes
<1>5. LinkTypes' /\ PullTypes'
  BY <1>1, <1>2 DEF Types, LinkTypes, PullTypes, stage, history
<1> QED BY <1>4, <1>5 DEF Types

LEMMA UnregisterTypes ==
  ASSUME Types, NEW c \in Clients, Unregister(c)
  PROVE  Types'
<1>1. conn' = [conn EXCEPT ![c].st = "off"] /\ UNCHANGED <<server, own, remote, up, down, pull, cancel, stage, history, faults>>
  BY DEF Unregister
<1>2. conn' \in [Clients -> [st : {"on", "closing", "noted", "off"}, sess : Nat, next : Nat \ {0}]]
  BY <1>1, ConnTypes DEF Types
<1> QED BY <1>1, <1>2 DEF Types, RouterTypes, LinkTypes, PullTypes, server, stage, history

LEMMA ReconnectTypes ==
  ASSUME Types, NEW c \in Clients, Reconnect(c)
  PROVE  Types'
<1>1. conn' = [conn EXCEPT ![c] = [st |-> "on", sess |-> conn[c].sess + 1, next |-> 1]]
      /\ UNCHANGED <<server, own, remote, up, down, pull, cancel, stage, history, faults>>
  BY DEF Reconnect
<1>2. conn[c].sess \in Nat
  BY DEF Types, LinkTypes
<1>3. conn' \in [Clients -> [st : {"on", "closing", "noted", "off"}, sess : Nat, next : Nat \ {0}]]
  BY <1>1, <1>2 DEF Types, LinkTypes
<1> QED BY <1>1, <1>3 DEF Types, RouterTypes, LinkTypes, PullTypes, server, stage, history

LEMMA RestartIs ==
  ASSUME Types, Restart
  PROVE  /\ cur' = [who |-> None, seq |-> 0, epoch |-> cur.epoch + 1]
         /\ route' = {} /\ local' = {} /\ pending' = {} /\ nextReq' = 1
         /\ own' = [m \in Machines |-> None]
         /\ remote' = [m \in Machines |-> [ann |-> None, last |-> None]]
         /\ conn' = [c \in Clients |-> [conn[c] EXCEPT !.st = "off"]]
         /\ up' = [c \in Clients |-> <<>>] /\ down' = [c \in Clients |-> <<>>]
         /\ DOMAIN pull' = DOMAIN pull /\ pull' \in Seq(Pulls)
         /\ \A p \in DOMAIN pull :
              IF pull[p].who = Srv /\ pull[p].st \in Running
              THEN /\ pull'[p].who = Srv /\ pull'[p].ann = pull[p].ann /\ pull'[p].sess = pull[p].sess
                   /\ pull'[p].st = "dead" /\ pull'[p].ans = None /\ pull'[p].got = <<>> /\ pull'[p].req = 0
              ELSE pull'[p] = pull[p]
         /\ UNCHANGED <<cancel, stage, history>>
<1> DEFINE k(p) == [pull[p] EXCEPT !.st = "dead", !.ans = None, !.req = 0, !.gen = 0, !.got = <<>>]
<1>1. pull' = [p \in DOMAIN pull |->
                 IF pull[p].who = Srv /\ pull[p].st \in {"new", "ready", "waiting"} THEN k(p) ELSE pull[p]]
  BY DEF Restart
<1>2. ASSUME NEW p \in DOMAIN pull
      PROVE  /\ k(p) \in Pulls /\ pull[p] \in Pulls
             /\ k(p).who = pull[p].who /\ k(p).ann = pull[p].ann /\ k(p).sess = pull[p].sess
             /\ k(p).st = "dead" /\ k(p).ans = None /\ k(p).got = <<>> /\ k(p).req = 0
  <2>1. pull[p] \in Pulls
    BY PullIs DEF Types
  <2>2. <<>> \in Seq(Chunks) /\ "dead" \in States
    BY DEF States
  <2>3. \A g \in Seq(Chunks), st \in States :
          [pull[p] EXCEPT !.st = st, !.ans = None, !.req = 0, !.gen = 0, !.got = g] \in Pulls
    BY <2>1 DEF Pulls
  <2>4. k(p) \in Pulls
    BY <2>2, <2>3
  <2> QED BY <2>1, <2>4 DEF Pulls
<1> HIDE DEF k
<1>3. pull' \in Seq(Pulls)
  <2>1. \A p \in DOMAIN pull : pull'[p] \in Pulls
    BY <1>1, <1>2
  <2> QED BY <1>1, <2>1, PullsReplaced DEF Types
<1>4. /\ DOMAIN pull' = DOMAIN pull
      /\ \A p \in DOMAIN pull :
              IF pull[p].who = Srv /\ pull[p].st \in Running
              THEN /\ pull'[p].who = Srv /\ pull'[p].ann = pull[p].ann /\ pull'[p].sess = pull[p].sess
                   /\ pull'[p].st = "dead" /\ pull'[p].ans = None /\ pull'[p].got = <<>> /\ pull'[p].req = 0
              ELSE pull'[p] = pull[p]
  BY <1>1, <1>2 DEF Running
<1>5. /\ cur' = [who |-> None, seq |-> 0, epoch |-> cur.epoch + 1]
      /\ route' = {} /\ local' = {} /\ pending' = {} /\ nextReq' = 1
      /\ own' = [m \in Machines |-> None]
      /\ remote' = [m \in Machines |-> [ann |-> None, last |-> None]]
      /\ conn' = [c \in Clients |-> [conn[c] EXCEPT !.st = "off"]]
      /\ up' = [c \in Clients |-> <<>>] /\ down' = [c \in Clients |-> <<>>]
      /\ UNCHANGED <<cancel, stage, history>>
  BY DEF Restart
<1> QED BY <1>3, <1>4, <1>5

LEMMA RestartTypes ==
  ASSUME Types, Restart
  PROVE  Types'
<1>1. /\ cur' = [who |-> None, seq |-> 0, epoch |-> cur.epoch + 1]
      /\ route' = {} /\ local' = {} /\ pending' = {} /\ nextReq' = 1
      /\ own' = [m \in Machines |-> None]
      /\ remote' = [m \in Machines |-> [ann |-> None, last |-> None]]
      /\ conn' = [c \in Clients |-> [conn[c] EXCEPT !.st = "off"]]
      /\ up' = [c \in Clients |-> <<>>] /\ down' = [c \in Clients |-> <<>>]
      /\ pull' \in Seq(Pulls)
      /\ UNCHANGED <<cancel, stage, history>>
  BY RestartIs
<1>2. RouterTypes'
  <2>1. cur.epoch + 1 \in Nat /\ 0 \in 0..MaxSeq
    BY PullAssumption DEF Types, RouterTypes
  <2> QED BY <1>1, <2>1, FS_EmptySet DEF RouterTypes
<1>3. LinkTypes'
  <2>1. conn' \in [Clients -> [st : {"on", "closing", "noted", "off"}, sess : Nat, next : Nat \ {0}]]
    <3>1. ASSUME NEW c \in Clients
          PROVE  [conn[c] EXCEPT !.st = "off"] \in [st : {"on", "closing", "noted", "off"}, sess : Nat, next : Nat \ {0}]
      BY DEF Types, LinkTypes
    <3> QED BY <3>1, <1>1
  <2> QED BY <1>1, <2>1 DEF LinkTypes
<1>4. PullTypes'
  BY <1>1 DEF Types, PullTypes, stage, history
<1> QED BY <1>2, <1>3, <1>4 DEF Types

LEMMA RemoveTypes ==
  ASSUME Types, NEW m \in Machines, NEW s \in 1..MaxSeq, RemoveReceived(m, s)
  PROVE  Types'
<1>1. disk' = [disk EXCEPT ![m][s] = None]
      /\ UNCHANGED <<server, own, remote, links, pull, cancel, clip, owed>>
  BY DEF RemoveReceived
<1>2. disk' \in [Machines -> [1..MaxSeq -> Seq(Chunks) \cup {None}]]
  BY <1>1 DEF Types, PullTypes
<1> QED BY <1>1, <1>2 DEF Types, RouterTypes, LinkTypes, PullTypes, server, links

LEMMA NextTypes ==
  ASSUME Types, RouterNumbers, [Next]_vars
  PROVE  Types'
<1>1. CASE UNCHANGED vars
  BY <1>1 DEF Types, RouterTypes, LinkTypes, PullTypes, vars, server, links, stage, history
<1>2. ASSUME NEW m \in Machines, Enter(m) \/ Cancel(m) PROVE Types'
  BY <1>2, EnterTypes, CancelTypes
<1>3. ASSUME NEW m \in Owners, NEW roots \in Copyable[m], Announce(m, roots) PROVE Types'
  BY <1>3, AnnounceTypes
<1>4. ASSUME NEW c \in Clients, SrvRead(c) \/ SrvReply(c) \/ SrvNote(c) \/ Unregister(c) PROVE Types'
  BY <1>4, SrvReadTypes, SrvReplyTypes, SrvNoteTypes, UnregisterTypes
<1>5. ASSUME NEW r \in route, RouteSend(r) PROVE Types'
  BY <1>5, RouteSendTypes
<1>6. ASSUME NEW w \in local, LocalRead(w) PROVE Types'
  BY <1>6, LocalReadTypes
<1>7. ASSUME NEW c \in Clients, ClientServe(c) \/ ClientReply(c) \/ Lose(c) \/ Reconnect(c) PROVE Types'
  BY <1>7, ClientServeTypes, ClientReplyTypes, LoseTypes, ReconnectTypes
<1>8. ASSUME NEW p \in DOMAIN pull, PullStep(p) PROVE Types'
  BY <1>8, AskTypes, AloneTypes DEF PullStep, Alone
<1>9. ASSUME NEW m \in Machines, NEW s \in 1..MaxSeq, RemoveReceived(m, s) PROVE Types'
  BY <1>9, RemoveTypes
<1>10. CASE Restart
  BY <1>10, RestartTypes
<1> QED BY <1>1, <1>2, <1>3, <1>4, <1>5, <1>6, <1>7, <1>8, <1>9, <1>10 DEF Next, RouterStep

----------------------------------------------------------------------------
(* Numbers.                                                                *)

\* A step that leaves the router's table alone, or takes entries from it.
LEMMA FewerPending ==
  ASSUME RouterNumbers, pending' \subseteq pending, nextReq' = nextReq
  PROVE  RouterNumbers'
BY DEF RouterNumbers

LEMMA NextRouterNumbers ==
  ASSUME Types, RouterNumbers, [Next]_vars
  PROVE  RouterNumbers'
<1>1. CASE UNCHANGED <<pending, nextReq>>
  BY <1>1 DEF RouterNumbers
<1>2. ASSUME NEW c \in Clients, SrvReply(c) PROVE RouterNumbers'
  <2>1. pending' \subseteq pending /\ nextReq' = nextReq
    BY <1>2 DEF SrvReply
  <2> QED BY <2>1, FewerPending
<1>3. ASSUME NEW c \in Clients, SrvNote(c) PROVE RouterNumbers'
  <2>1. pending' \subseteq pending /\ nextReq' = nextReq
    BY <1>3 DEF SrvNote
  <2> QED BY <2>1, FewerPending
<1>4. ASSUME NEW r \in route, RouteSend(r) PROVE RouterNumbers'
  <2>1. nextReq' = nextReq + 1 /\ nextReq \in Nat /\ \A x \in pending : x.req \in Nat /\ x.req < nextReq
    BY <1>4, RouteSendIs DEF Types, RouterTypes, RouterNumbers
  <2>2. CASE pending' = pending
    BY <2>1, <2>2 DEF RouterNumbers
  <2>3. CASE pending' # pending
    <3> DEFINE y == [req |-> nextReq, to |-> r.to, w |-> r.w, late |-> conn[r.to].st = "noted"]
    <3>1. pending' = pending \cup {y}
      BY <1>4, <2>3, RouteSendIs
    <3>2. y.req = nextReq
      OBVIOUS
    <3> HIDE DEF y
    <3> QED BY <2>1, <3>1, <3>2 DEF RouterNumbers
  <2> QED BY <2>2, <2>3
<1>5. CASE Restart
  BY <1>5 DEF Restart, RouterNumbers
<1>6. ASSUME NEW p \in DOMAIN pull, PullStep(p) PROVE UNCHANGED <<pending, nextReq>>
  <2>1. CASE Ask(p)
    BY <2>1 DEF Ask
  <2>2. CASE Alone(p)
    BY <2>2, AloneIs DEF Kept, server
  <2> QED BY <1>6, <2>1, <2>2 DEF PullStep, Alone
<1>7. ASSUME NEW c \in Clients, SrvRead(c) \/ Unregister(c) \/ ClientServe(c) \/ ClientReply(c) \/ Lose(c) \/ Reconnect(c)
      PROVE  UNCHANGED <<pending, nextReq>>
  BY <1>7 DEF SrvRead, Unregister, ClientServe, ClientReply, Lose, Reconnect, server
<1>8. ASSUME NEW w \in local, LocalRead(w) PROVE UNCHANGED <<pending, nextReq>>
  BY <1>8 DEF LocalRead
<1>9. ASSUME NEW m \in Machines, Enter(m) \/ Cancel(m) PROVE UNCHANGED <<pending, nextReq>>
  BY <1>9 DEF Enter, Cancel, server
<1>10. ASSUME NEW m, NEW roots, Announce(m, roots) PROVE UNCHANGED <<pending, nextReq>>
  BY <1>10 DEF Announce
<1>11. ASSUME NEW m, NEW s, RemoveReceived(m, s) PROVE UNCHANGED <<pending, nextReq>>
  BY <1>11 DEF RemoveReceived, server
<1>12. CASE UNCHANGED vars
  BY <1>12, <1>1 DEF vars, server
<1> QED BY <1>1, <1>2, <1>3, <1>4, <1>5, <1>6, <1>7, <1>8, <1>9, <1>10, <1>11, <1>12 DEF Next, RouterStep

\* What a step may do to the pulls: number, owner, announcement and session of a pull never
\* change, and only Ask makes one wait.
LEMMA SamePulls ==
  ASSUME SessionNumbers,
         DOMAIN pull' = DOMAIN pull,
         \A p \in DOMAIN pull : /\ pull'[p].who = pull[p].who /\ pull'[p].sess = pull[p].sess
                                /\ pull'[p].st = "waiting" => pull[p].st = "waiting"
                                /\ pull'[p].req = pull[p].req \/ (pull'[p].req = 0 /\ pull'[p].st # "waiting"),
         \A c \in Clients : /\ conn[c].sess \in Nat /\ conn[c].next \in Nat \ {0} /\ conn'[c].sess \in Nat
                            /\ conn'[c].next \in Nat \ {0}
                            /\ (conn'[c].sess = conn[c].sess /\ conn'[c].next >= conn[c].next) \/ conn'[c].sess > conn[c].sess,
         \A p \in DOMAIN pull : pull[p].sess \in Nat /\ pull[p].req \in Nat
  PROVE  SessionNumbers'
<1>1. ASSUME NEW p \in DOMAIN pull, pull[p].who \in Clients
      PROVE  /\ pull'[p].sess <= conn'[pull[p].who].sess
             /\ pull'[p].sess = conn'[pull[p].who].sess => pull'[p].req < conn'[pull[p].who].next
  <2> DEFINE c == pull[p].who
  <2>1. pull[p].sess <= conn[c].sess /\ (pull[p].sess = conn[c].sess => pull[p].req < conn[c].next)
    BY <1>1 DEF SessionNumbers
  <2>2. /\ conn[c].sess \in Nat /\ conn[c].next \in Nat \ {0} /\ conn'[c].sess \in Nat /\ conn'[c].next \in Nat \ {0}
        /\ (conn'[c].sess = conn[c].sess /\ conn'[c].next >= conn[c].next) \/ conn'[c].sess > conn[c].sess
    BY <1>1
  <2>3. pull[p].sess \in Nat /\ pull[p].req \in Nat /\ pull'[p].sess = pull[p].sess
        /\ (pull'[p].req = pull[p].req \/ pull'[p].req = 0)
    OBVIOUS
  <2> HIDE DEF c
  <2>4. /\ pull'[p].sess <= conn'[c].sess
        /\ pull'[p].sess = conn'[c].sess => pull'[p].req < conn'[c].next
    BY <2>1, <2>2, <2>3
  <2> QED BY <2>4 DEF c
<1>2. ASSUME NEW p \in DOMAIN pull, NEW q \in DOMAIN pull, p # q, pull[p].who = pull[q].who,
             pull[p].sess = pull[q].sess, pull'[p].st = "waiting", pull'[q].st = "waiting", pull[p].who # Srv
      PROVE  pull'[p].req # pull'[q].req
  <2>1. pull[p].st = "waiting" /\ pull[q].st = "waiting" /\ pull'[p].req = pull[p].req /\ pull'[q].req = pull[q].req
    BY <1>2
  <2>2. pull[p].req # pull[q].req
    BY <2>1, <1>2 DEF SessionNumbers
  <2> QED BY <2>1, <2>2
<1>3. ASSUME NEW p \in DOMAIN pull, pull[p].who = Srv, pull'[p].st = "waiting"
      PROVE  pull'[p].req = p
  <2>1. pull[p].st = "waiting" /\ pull'[p].req = pull[p].req
    BY <1>3
  <2> QED BY <2>1, <1>3 DEF SessionNumbers
<1> QED BY <1>1, <1>2, <1>3 DEF SessionNumbers

LEMMA PullFields ==
  ASSUME Types
  PROVE  \A p \in DOMAIN pull :
           /\ pull[p] \in Pulls /\ pull[p].who \in Machines /\ pull[p].ann \in Announcements
           /\ pull[p].ann.seq \in 1..MaxSeq /\ pull[p].ann.epoch \in Nat
           /\ pull[p].sess \in Nat /\ pull[p].req \in Nat /\ pull[p].got \in Seq(Chunks)
           /\ pull[p].who # Srv => pull[p].who \in Clients
<1> SUFFICES ASSUME NEW p \in DOMAIN pull
             PROVE  /\ pull[p] \in Pulls /\ pull[p].who \in Machines /\ pull[p].ann \in Announcements
                    /\ pull[p].ann.seq \in 1..MaxSeq /\ pull[p].ann.epoch \in Nat
                    /\ pull[p].sess \in Nat /\ pull[p].req \in Nat /\ pull[p].got \in Seq(Chunks)
                    /\ pull[p].who # Srv => pull[p].who \in Clients
  OBVIOUS
<1>1. pull[p] \in Pulls
  BY DEF Types, PullTypes
<1>2. /\ pull[p].who \in Machines /\ pull[p].ann \in Announcements
      /\ pull[p].sess \in Nat /\ pull[p].req \in Nat /\ pull[p].got \in Seq(Chunks)
  BY <1>1 DEF Pulls
<1> QED BY <1>1, <1>2, AnnouncementIs, MachineIs

\* Most steps do no more to a pull than answer it.
OnlyAnswers ==
  /\ DOMAIN pull' = DOMAIN pull
  /\ \A p \in DOMAIN pull :
       /\ pull'[p].who = pull[p].who /\ pull'[p].ann = pull[p].ann /\ pull'[p].sess = pull[p].sess
       /\ pull'[p].st = pull[p].st /\ pull'[p].got = pull[p].got /\ pull'[p].req = pull[p].req
       /\ pull'[p].ans # pull[p].ans => pull[p].st = "waiting" /\ pull'[p].ans \in Answers

LEMMA SameOnlyAnswers == UNCHANGED pull => OnlyAnswers
BY DEF OnlyAnswers

LEMMA DeliverOnlyAnswers ==
  ASSUME Types, NEW w \in Requests, NEW ans \in Answers, Deliver(w, ans)
  PROVE  OnlyAnswers
<1>1. pull' = [p \in DOMAIN pull |->
                 IF w.who = Srv /\ w.req = p /\ pull[p].st = "waiting"
                 THEN [pull[p] EXCEPT !.ans = ans] ELSE pull[p]]
  BY DeliverIs DEF Types
<1>2. \A p \in DOMAIN pull : pull[p] \in Pulls
  BY DEF Types, PullTypes
<1> QED BY <1>1, <1>2 DEF OnlyAnswers, Pulls

LEMMA RouterOnlyAnswers ==
  ASSUME Types, RouterNumbers,
         \/ \E c \in Clients : SrvRead(c) \/ SrvReply(c) \/ SrvNote(c)
         \/ \E r \in route : RouteSend(r)
         \/ \E w \in local : LocalRead(w)
         \/ \E c \in Clients : ClientReply(c)
  PROVE  OnlyAnswers
<1>0. \A p \in DOMAIN pull : pull[p] \in Pulls
  BY DEF Types, PullTypes
<1>1. ASSUME NEW c \in Clients, SrvRead(c) PROVE OnlyAnswers
  BY <1>1, SrvReadIs, DeliverOnlyAnswers, SameOnlyAnswers, AnswerIs
<1>2. ASSUME NEW c \in Clients, SrvReply(c) PROVE OnlyAnswers
  <2> DEFINE r == Head(up[c])
  <2>1. \/ UNCHANGED pull
        \/ \E x \in pending : Deliver(x.w, IF x.to = c THEN r.ans ELSE NotFound)
    BY <1>2, SrvReplyIs
  <2>2. r.ans \in Answers
    BY <1>2, SrvReplyIs
  <2> HIDE DEF r
  <2>3. ASSUME NEW x \in pending, Deliver(x.w, IF x.to = c THEN r.ans ELSE NotFound) PROVE OnlyAnswers
    <3>1. x.w \in Requests /\ (IF x.to = c THEN r.ans ELSE NotFound) \in Answers
      BY <2>2, AnswerIs DEF Types, RouterTypes
    <3> QED BY <2>3, <3>1, DeliverOnlyAnswers
  <2> QED BY <2>1, <2>3, SameOnlyAnswers
<1>3. ASSUME NEW c \in Clients, SrvNote(c) PROVE OnlyAnswers
  <2>1. pull' = [p \in DOMAIN pull |->
                 IF (\E x \in Mine(c) : x.w.who = Srv /\ x.w.req = p) /\ pull[p].st = "waiting"
                 THEN [pull[p] EXCEPT !.ans = NotFound] ELSE pull[p]]
    BY <1>3, SrvNoteIs
  <2> QED BY <1>0, <2>1, AnswerIs DEF OnlyAnswers, Pulls
<1>4. ASSUME NEW r \in route, RouteSend(r) PROVE OnlyAnswers
  <2>1. r.w \in Requests /\ (UNCHANGED pull \/ Deliver(r.w, NotFound))
    BY <1>4, RouteSendIs
  <2> QED BY <2>1, DeliverOnlyAnswers, SameOnlyAnswers, AnswerIs
<1>5. ASSUME NEW w \in local, LocalRead(w) PROVE OnlyAnswers
  <2>1. w \in Requests /\ \E ans \in Answers : Deliver(w, ans)
    BY <1>5, LocalReadIs
  <2> QED BY <2>1, DeliverOnlyAnswers
<1>6. ASSUME NEW c \in Clients, ClientReply(c) PROVE OnlyAnswers
  <2>1. /\ Head(down[c]).ans \in Answers
        /\ pull' = [p \in DOMAIN pull |->
                       IF /\ pull[p].who = c /\ pull[p].sess = conn[c].sess
                          /\ pull[p].st = "waiting" /\ pull[p].req = Head(down[c]).req
                       THEN [pull[p] EXCEPT !.ans = Head(down[c]).ans] ELSE pull[p]]
    BY <1>6, ClientReplyIs
  <2> QED BY <1>0, <2>1 DEF OnlyAnswers, Pulls
<1> QED BY <1>1, <1>2, <1>3, <1>4, <1>5, <1>6

LEMMA OthersOnlyAnswers ==
  ASSUME \/ \E c \in Clients : ClientServe(c) \/ Lose(c) \/ Unregister(c) \/ Reconnect(c)
         \/ \E m \in Machines : Cancel(m)
         \/ \E m \in Owners : \E roots \in Copyable[m] : Announce(m, roots)
         \/ \E m \in Machines, s \in 1..MaxSeq : RemoveReceived(m, s)
         \/ UNCHANGED vars
  PROVE  OnlyAnswers /\ UNCHANGED pull
<1>1. UNCHANGED pull
  BY DEF ClientServe, Lose, Unregister, Reconnect, Cancel, Announce, RemoveReceived, vars
<1> QED BY <1>1, SameOnlyAnswers

\* Sessions are only opened anew, and their numbers go up.
SessionsGrow ==
  \A c \in Clients :
    /\ conn'[c].sess \in Nat /\ conn'[c].next \in Nat \ {0}
    /\ (conn'[c].sess = conn[c].sess /\ conn'[c].next >= conn[c].next) \/ conn'[c].sess > conn[c].sess

LEMMA NextSessionsGrow ==
  ASSUME Types, [Next]_vars
  PROVE  SessionsGrow
<1>0. /\ conn \in [Clients -> [st : {"on", "closing", "noted", "off"}, sess : Nat, next : Nat \ {0}]]
      /\ \A c \in Clients : conn[c].sess \in Nat /\ conn[c].next \in Nat \ {0}
  BY DEF Types, LinkTypes
<1>1. CASE UNCHANGED conn
  BY <1>0, <1>1 DEF SessionsGrow
<1>2. ASSUME NEW c \in Clients, NEW st, conn' = [conn EXCEPT ![c].st = st] PROVE SessionsGrow
  BY <1>0, <1>2 DEF SessionsGrow
<1>3. ASSUME NEW c \in Clients, Lose(c) \/ SrvNote(c) \/ Unregister(c)
      PROVE  \E st : conn' = [conn EXCEPT ![c].st = st]
  BY <1>3 DEF Lose, SrvNote, Unregister
<1>4. ASSUME NEW c \in Clients, Reconnect(c) PROVE SessionsGrow
  <2>1. conn' = [conn EXCEPT ![c] = [st |-> "on", sess |-> conn[c].sess + 1, next |-> 1]]
    BY <1>4 DEF Reconnect
  <2> QED BY <1>0, <2>1 DEF SessionsGrow
<1>5. CASE Restart
  <2>1. conn' = [c \in Clients |-> [conn[c] EXCEPT !.st = "off"]]
    BY <1>5, RestartIs
  <2> QED BY <1>0, <2>1 DEF SessionsGrow
<1>6. ASSUME NEW p \in DOMAIN pull, Ask(p) PROVE SessionsGrow
  <2>1. UNCHANGED conn \/ conn' = [conn EXCEPT ![pull[p].who].next = @ + 1]
    BY <1>6, AskIs DEF Renumbered
  <2> QED BY <1>0, <1>1, <2>1 DEF SessionsGrow
<1>7. ASSUME NEW p \in DOMAIN pull, Alone(p) PROVE UNCHANGED conn
  BY <1>7, AloneIs DEF Kept, links
<1>8. ASSUME NEW c \in Clients, SrvRead(c) \/ SrvReply(c) \/ ClientServe(c) \/ ClientReply(c) PROVE UNCHANGED conn
  BY <1>8 DEF SrvRead, SrvReply, ClientServe, ClientReply
<1>9. ASSUME NEW r, RouteSend(r) \/ LocalRead(r) PROVE UNCHANGED conn
  BY <1>9 DEF RouteSend, LocalRead
<1>10. ASSUME NEW m, NEW s, Enter(m) \/ Cancel(m) \/ Announce(m, s) \/ RemoveReceived(m, s) PROVE UNCHANGED conn
  BY <1>10 DEF Enter, Cancel, Announce, RemoveReceived, links
<1>11. CASE UNCHANGED vars
  BY <1>11, <1>1 DEF vars, links
<1> QED BY <1>1, <1>2, <1>3, <1>4, <1>5, <1>6, <1>7, <1>8, <1>9, <1>10, <1>11 DEF Next, RouterStep, PullStep, Alone

LEMMA NextSessionNumbers ==
  ASSUME Types, RouterNumbers, SessionNumbers, [Next]_vars
  PROVE  SessionNumbers'
<1>1. SessionsGrow
  BY NextSessionsGrow
<1>2. /\ \A c \in Clients : conn[c].sess \in Nat /\ conn[c].next \in Nat \ {0}
      /\ \A p \in DOMAIN pull : pull[p].sess \in Nat /\ pull[p].req \in Nat
  BY PullFields DEF Types, LinkTypes
<1>3. CASE OnlyAnswers
  BY <1>1, <1>2, <1>3, SamePulls DEF OnlyAnswers, SessionsGrow
<1>4. ASSUME NEW p \in DOMAIN pull, Alone(p) PROVE SessionNumbers'
  <2>1. Kept(p) /\ (Starts(p) \/ Gets(p) \/ Quits(p) \/ Places(p))
    BY <1>4, AloneIs
  <2>2. DOMAIN pull' = DOMAIN pull
    BY <2>1 DEF Kept
  <2>3. \A q \in DOMAIN pull : /\ pull'[q].who = pull[q].who /\ pull'[q].sess = pull[q].sess
                               /\ pull'[q].st = "waiting" => pull[q].st = "waiting"
                               /\ pull'[q].req = pull[q].req \/ (pull'[q].req = 0 /\ pull'[q].st # "waiting")
    BY <2>1 DEF Kept, Starts, Gets, Quits, Places
  <2> QED BY <1>1, <1>2, <2>2, <2>3, SamePulls DEF SessionsGrow
<1>5. CASE Restart
  <2>1. DOMAIN pull' = DOMAIN pull
    BY <1>5, RestartIs
  <2>2. \A q \in DOMAIN pull : /\ pull'[q].who = pull[q].who /\ pull'[q].sess = pull[q].sess
                               /\ pull'[q].st = "waiting" => pull[q].st = "waiting"
                               /\ pull'[q].req = pull[q].req \/ (pull'[q].req = 0 /\ pull'[q].st # "waiting")
    BY <1>5, RestartIs
  <2> QED BY <1>1, <1>2, <2>1, <2>2, SamePulls DEF SessionsGrow
<1>6. ASSUME NEW m \in Machines, Enter(m) PROVE SessionNumbers'
  <2> DEFINE n == Len(pull) + 1
  <2>1. /\ Len(pull) \in Nat /\ DOMAIN pull = 1..Len(pull) /\ DOMAIN pull' = 1..n
        /\ \A p \in DOMAIN pull : pull'[p] = pull[p] /\ p # n
        /\ pull'[n].who = m /\ pull'[n].st = "new" /\ pull'[n].req = 0
        /\ pull'[n].sess = IF m = Srv THEN 0 ELSE conn[m].sess
        /\ UNCHANGED conn
    <3>1. /\ Len(pull) \in Nat /\ DOMAIN pull = 1..Len(pull) /\ DOMAIN pull' = 1..n
          /\ \A p \in DOMAIN pull : pull'[p] = pull[p] /\ p # n
          /\ pull'[n] = [who |-> m, ann |-> remote[m].ann, st |-> "new", got |-> <<>>,
                           req |-> 0, ans |-> None, gen |-> cancel[m],
                           sess |-> IF m = Srv THEN 0 ELSE conn[m].sess]
          /\ UNCHANGED links
      BY <1>6, EnterIs
    <3> QED BY <3>1 DEF links
  <2> HIDE DEF n
  <2>2. \A p \in DOMAIN pull' : p = n \/ p \in DOMAIN pull
    BY <2>1 DEF n
  <2>3. m \in Clients => m # Srv
    BY ClientIs
  <2>4. \A p \in DOMAIN pull' : pull'[p].who \in Clients =>
          /\ pull'[p].sess <= conn[pull'[p].who].sess
          /\ pull'[p].sess = conn[pull'[p].who].sess => pull'[p].req < conn[pull'[p].who].next
    BY <2>1, <2>2, <2>3, <1>2 DEF SessionNumbers
  <2>5. \A p \in DOMAIN pull' : pull'[p].st = "waiting" => p \in DOMAIN pull /\ pull'[p] = pull[p]
    BY <2>1, <2>2
  <2> QED BY <2>1, <2>4, <2>5 DEF SessionNumbers
<1>7. ASSUME NEW p \in DOMAIN pull, Ask(p) PROVE SessionNumbers'
  <2>1. /\ DOMAIN pull' = DOMAIN pull /\ \A q \in DOMAIN pull : q # p => pull'[q] = pull[q]
        /\ pull'[p].who = pull[p].who /\ pull'[p].sess = pull[p].sess
        /\ pull'[p].st = "waiting" /\ pull'[p].req = Wants(p).req
    BY <1>7, AskIs
  <2>2. Wants(p).req = IF pull[p].who = Srv THEN p ELSE conn[pull[p].who].next
    BY DEF Wants
  <2>3. pull[p].who \in Machines
    BY PullFields
  <2>4. CASE pull[p].who = Srv
    <3>1. UNCHANGED conn /\ pull'[p].req = p /\ Srv \notin Clients
      BY <1>7, <2>4, <2>1, <2>2, AskIs, ClientIs
    <3> QED BY <2>1, <2>4, <3>1 DEF SessionNumbers
  <2>5. CASE pull[p].who # Srv
    <3> DEFINE c == pull[p].who
    <3>1. c \in Clients /\ conn[c].sess = pull[p].sess /\ conn' = [conn EXCEPT ![c].next = @ + 1]
      BY <1>7, <2>5, <2>3, AskIs, MachineIs DEF Renumbered
    <3>2. pull'[p].req = conn[c].next
      BY <2>1, <2>2, <2>5
    <3>3. /\ conn'[c].sess = conn[c].sess /\ conn'[c].next = conn[c].next + 1
          /\ \A d \in Clients : conn'[d].sess = conn[d].sess /\ (d # c => conn'[d].next = conn[d].next)
      BY <3>1 DEF Types, LinkTypes
    <3>4. \A q \in DOMAIN pull : pull[q].who = c =>
             pull[q].sess <= conn[c].sess /\ (pull[q].sess = conn[c].sess => pull[q].req < conn[c].next)
      BY <3>1 DEF SessionNumbers
    <3>5. ASSUME NEW q \in DOMAIN pull, pull'[q].who \in Clients
          PROVE  /\ pull'[q].sess <= conn'[pull'[q].who].sess
                 /\ pull'[q].sess = conn'[pull'[q].who].sess => pull'[q].req < conn'[pull'[q].who].next
      <4>1. CASE q = p
        BY <4>1, <2>1, <3>1, <3>2, <3>3, <3>4, <1>2
      <4>2. CASE q # p /\ pull[q].who = c
        BY <4>2, <2>1, <3>1, <3>3, <3>4, <1>2
      <4>3. CASE q # p /\ pull[q].who # c
        BY <4>3, <2>1, <3>1, <3>3, <3>5 DEF SessionNumbers
      <4> QED BY <4>1, <4>2, <4>3
    <3>6. ASSUME NEW q \in DOMAIN pull, q # p, pull[q].who = c, pull[q].sess = pull[p].sess
          PROVE  pull'[q].req # pull'[p].req
      BY <3>6, <2>1, <3>1, <3>2, <3>4, <1>2
    <3>7. ASSUME NEW q \in DOMAIN pull, NEW r \in DOMAIN pull, q # r, pull'[q].who = pull'[r].who,
                 pull'[q].sess = pull'[r].sess, pull'[q].st = "waiting", pull'[r].st = "waiting",
                 pull'[q].who # Srv
          PROVE  pull'[q].req # pull'[r].req
      <4>1. CASE q = p
        BY <4>1, <3>6, <3>7, <2>1
      <4>2. CASE r = p
        BY <4>2, <3>6, <3>7, <2>1
      <4>3. CASE q # p /\ r # p
        BY <4>3, <3>7, <2>1 DEF SessionNumbers
      <4> QED BY <4>1, <4>2, <4>3
    <3>8. \A q \in DOMAIN pull : pull'[q].who = Srv /\ pull'[q].st = "waiting" => pull'[q].req = q
      BY <2>1, <2>5 DEF SessionNumbers
    <3> QED BY <2>1, <3>5, <3>7, <3>8 DEF SessionNumbers
  <2> QED BY <2>4, <2>5
<1>8. CASE UNCHANGED vars
  BY <1>8, <1>3, OthersOnlyAnswers
<1>9. CASE Next
  <2>1. \/ OnlyAnswers \/ Restart
        \/ \E m \in Machines : Enter(m)
        \/ \E p \in DOMAIN pull : Ask(p) \/ Alone(p)
    BY <1>9, RouterOnlyAnswers, OthersOnlyAnswers DEF Next, RouterStep, PullStep, Alone
  <2> QED BY <2>1, <1>3, <1>4, <1>5, <1>6, <1>7
<1> QED BY <1>8, <1>9

----------------------------------------------------------------------------
(* Nothing on the way is lost.                                             *)

LEMMA UpTail ==
  ASSUME Types, NEW c \in Clients, up[c] # <<>>, up' = [up EXCEPT ![c] = Tail(@)]
  PROVE  /\ Range(up[c]) = {Head(up[c])} \cup Range(up'[c])
         /\ \A n \in Clients : n # c => up'[n] = up[n]
<1>1. up[c] \in Seq(UpMessages) /\ up'[c] = Tail(up[c]) /\ \A n \in Clients : n # c => up'[n] = up[n]
  BY DEF Types, LinkTypes
<1> QED BY <1>1, RangeOfTail

LEMMA DownTail ==
  ASSUME Types, NEW c \in Clients, down[c] # <<>>, down' = [down EXCEPT ![c] = Tail(@)]
  PROVE  /\ Range(down[c]) = {Head(down[c])} \cup Range(down'[c])
         /\ \A n \in Clients : n # c => down'[n] = down[n]
<1>1. down[c] \in Seq(DownMessages) /\ down'[c] = Tail(down[c]) /\ \A n \in Clients : n # c => down'[n] = down[n]
  BY DEF Types, LinkTypes
<1> QED BY <1>1, RangeOfTail

LEMMA UpAppend ==
  ASSUME Types, NEW c \in Clients, NEW x, up' = [up EXCEPT ![c] = Append(@, x)]
  PROVE  /\ Range(up'[c]) = Range(up[c]) \cup {x}
         /\ \A n \in Clients : n # c => up'[n] = up[n]
<1>1. up[c] \in Seq(UpMessages) /\ up'[c] = Append(up[c], x) /\ \A n \in Clients : n # c => up'[n] = up[n]
  BY DEF Types, LinkTypes
<1> QED BY <1>1, RangeOfAppend

LEMMA EmptyRange == Range(<<>>) = {}
BY DEF Range

LEMMA DeliverRange ==
  ASSUME Types, NEW w \in Requests, NEW ans \in Answers, Deliver(w, ans)
  PROVE  \A n \in Clients :
           Range(down'[n]) = IF n = w.who /\ conn[n].st = "on"
                             THEN Range(down[n]) \cup {[t |-> "reply", req |-> w.req, ans |-> ans]}
                             ELSE Range(down[n])
<1>1. down' = IF w.who # Srv /\ conn[w.who].st = "on"
              THEN [down EXCEPT ![w.who] = Append(@, [t |-> "reply", req |-> w.req, ans |-> ans])]
              ELSE down
  BY DeliverIs DEF Types
<1>2. w.who # Srv => w.who \in Clients
  BY MachineIs DEF Requests
<1>3. down \in [Clients -> Seq(DownMessages)]
  BY DEF Types, LinkTypes
<1>4. CASE w.who # Srv /\ conn[w.who].st = "on"
  <2> DEFINE a == [t |-> "reply", req |-> w.req, ans |-> ans]
             c == w.who
  <2>1. down' = [down EXCEPT ![c] = Append(@, a)] /\ c \in Clients
    BY <1>1, <1>2, <1>4
  <2> HIDE DEF a, c
  <2>2. Range(down'[c]) = Range(down[c]) \cup {a} /\ \A n \in Clients : n # c => down'[n] = down[n]
    <3>1. down[c] \in Seq(DownMessages) /\ down'[c] = Append(down[c], a) /\ \A n \in Clients : n # c => down'[n] = down[n]
      BY <2>1, <1>3
    <3> QED BY <3>1, RangeOfAppend
  <2> QED BY <1>4, <2>2 DEF a, c
<1>5. CASE ~(w.who # Srv /\ conn[w.who].st = "on")
  <2>1. down' = down /\ \A n \in Clients : n # Srv
    BY <1>1, <1>5, ClientIs
  <2> QED BY <2>1, <1>5
<1> QED BY <1>4, <1>5

\* Where a request that was under way is after a step.
After(w) ==
  \/ w \in local'
  \/ \E r \in route' : r.w = w
  \/ \E x \in pending' : x.w = w
  \/ w.who \in Clients /\ conn'[w.who].st # "on"
  \/ w.who \in Clients /\ \E q \in Range(up'[w.who]) : q.t = "read" /\ q.w = w
  \/ w.who \in Clients /\ \E q \in Range(down'[w.who]) : q.t = "reply" /\ q.req = w.req
  \/ w.who = Srv /\ (w.req \in DOMAIN pull /\ pull[w.req].st = "waiting" => pull'[w.req].ans # None)

LEMMA DeliverAfter ==
  ASSUME Types, NEW w \in Requests, NEW ans \in Answers, Deliver(w, ans), UNCHANGED conn
  PROVE  After(w)
<1>1. CASE w.who = Srv
  <2>1. pull' = [p \in DOMAIN pull |->
                 IF w.who = Srv /\ w.req = p /\ pull[p].st = "waiting"
                 THEN [pull[p] EXCEPT !.ans = ans] ELSE pull[p]]
    BY DeliverIs DEF Types
  <2>2. ASSUME w.req \in DOMAIN pull, pull[w.req].st = "waiting" PROVE pull'[w.req].ans # None
    <3>1. pull[w.req] \in Pulls
      BY <2>2, PullFields
    <3>2. pull'[w.req].ans = ans
      BY <1>1, <2>1, <2>2, <3>1 DEF Pulls
    <3> QED BY <3>2, AnswerIs
  <2> QED BY <1>1, <2>2 DEF After
<1>2. CASE w.who # Srv
  <2>1. w.who \in Clients
    BY <1>2, MachineIs DEF Requests
  <2>2. conn'[w.who].st = "on" => \E q \in Range(down'[w.who]) : q.t = "reply" /\ q.req = w.req
    <3> SUFFICES ASSUME conn[w.who].st = "on" PROVE \E q \in Range(down'[w.who]) : q.t = "reply" /\ q.req = w.req
      OBVIOUS
    <3>1. [t |-> "reply", req |-> w.req, ans |-> ans] \in Range(down'[w.who])
      BY <2>1, DeliverRange
    <3> QED BY <3>1
  <2> QED BY <2>1, <2>2 DEF After
<1> QED BY <1>1, <1>2

\* What a step may do so that nothing is lost on a puller's leg.
AllAfter ==
  /\ \A w \in local : After(w)
  /\ \A r \in route : After(r.w)
  /\ \A x \in pending : After(x.w)
  /\ \A c \in Clients : \A q \in Range(up[c]) : q.t = "read" => After(q.w)
  /\ \A c \in Clients : \A q \in Range(down[c]) : q.t = "reply" =>
       \/ q \in Range(down'[c]) \/ conn'[c].st # "on"
       \/ \A p \in DOMAIN pull : /\ pull[p].who = c /\ pull[p].sess = conn[c].sess
                                 /\ pull[p].st = "waiting" /\ pull[p].req = q.req
                                 => pull'[p].ans # None
WaitsBefore ==
  /\ DOMAIN pull' = DOMAIN pull
  /\ \A p \in DOMAIN pull : pull'[p].st = "waiting" =>
       /\ pull[p].st = "waiting" /\ pull'[p].who = pull[p].who /\ pull'[p].sess = pull[p].sess
       /\ pull'[p].req = pull[p].req /\ (pull'[p].ans = None => pull[p].ans = None)
  /\ \A c \in Clients : conn'[c].st = "on" =>
       (conn[c].st = "on" /\ conn'[c].sess = conn[c].sess) \/ conn'[c].sess > conn[c].sess

LEMMA OnlyAnswersWait ==
  ASSUME OnlyAnswers
  PROVE  /\ DOMAIN pull' = DOMAIN pull
         /\ \A p \in DOMAIN pull : pull'[p].st = "waiting" =>
              /\ pull[p].st = "waiting" /\ pull'[p].who = pull[p].who /\ pull'[p].sess = pull[p].sess
              /\ pull'[p].req = pull[p].req /\ (pull'[p].ans = None => pull[p].ans = None)
BY AnswerIs DEF OnlyAnswers

LEMMA PullersLegKept ==
  ASSUME Types, SessionNumbers, PullersLeg, AllAfter, WaitsBefore
  PROVE  PullersLeg'
<1> SUFFICES ASSUME NEW p \in DOMAIN pull, Waits(pull[p])' PROVE UnderWay(pull[p])'
  BY DEF PullersLeg, WaitsBefore
<1>1. /\ pull'[p].st = "waiting" /\ pull'[p].ans = None
      /\ IF pull'[p].who = Srv THEN TRUE ELSE conn'[pull'[p].who].st = "on" /\ conn'[pull'[p].who].sess = pull'[p].sess
  BY DEF Waits
<1>2. /\ pull[p].st = "waiting" /\ pull'[p].who = pull[p].who /\ pull'[p].sess = pull[p].sess
      /\ pull'[p].req = pull[p].req /\ pull[p].ans = None
  BY <1>1 DEF WaitsBefore
<1>3. pull[p].who # Srv =>
        /\ pull[p].who \in Clients /\ conn'[pull[p].who].st = "on"
        /\ conn[pull[p].who].st = "on" /\ conn[pull[p].who].sess = pull[p].sess
  <2> SUFFICES ASSUME pull[p].who # Srv
               PROVE  /\ pull[p].who \in Clients /\ conn'[pull[p].who].st = "on"
                      /\ conn[pull[p].who].st = "on" /\ conn[pull[p].who].sess = pull[p].sess
    OBVIOUS
  <2> DEFINE c == pull[p].who
  <2>1. c \in Clients /\ pull[p].sess \in Nat
    BY PullFields
  <2>2. conn[c].sess \in Nat /\ pull[p].sess <= conn[c].sess
    BY <2>1 DEF Types, LinkTypes, SessionNumbers
  <2>3. conn'[c].st = "on" /\ conn'[c].sess = pull[p].sess
    BY <1>1, <1>2
  <2>4. conn[c].st = "on" /\ conn'[c].sess = conn[c].sess
    BY <2>1, <2>2, <2>3 DEF WaitsBefore
  <2> QED BY <2>1, <2>3, <2>4
<1>4. Waits(pull[p])
  BY <1>2, <1>3 DEF Waits
<1>5. UnderWay(pull[p])
  BY <1>4 DEF PullersLeg
<1> DEFINE j == pull[p]
           k == pull'[p]
           UnderWayAfter == \/ \E w \in local' : Its(w, k)
                            \/ \E r \in route' : Its(r.w, k)
                            \/ \E x \in pending' : Its(x.w, k)
                            \/ k.who # Srv /\ \/ \E q \in Range(up'[k.who]) : q.t = "read" /\ Its(q.w, k)
                                              \/ \E q \in Range(down'[k.who]) : q.t = "reply" /\ q.req = k.req
<1>6. ASSUME NEW w, Its(w, j), After(w) PROVE UnderWayAfter
  <2>1. w.who = k.who /\ w.req = k.req /\ Its(w, k)
    BY <1>6, <1>2 DEF Its
  <2>2. ~(w.who \in Clients /\ conn'[w.who].st # "on")
    BY <2>1, <1>2, <1>3, ClientIs
  <2>3. ~(w.who = Srv /\ (w.req \in DOMAIN pull /\ pull[w.req].st = "waiting" => pull'[w.req].ans # None))
    <3>1. w.who = Srv => w.req = p
      BY <2>1, <1>2 DEF SessionNumbers
    <3> QED BY <3>1, <1>1, <1>2
  <2>4. w.who \in Clients => w.who # Srv
    BY ClientIs
  <2> QED BY <1>6, <2>1, <2>2, <2>3, <2>4 DEF After
<1>a. ASSUME NEW q \in Range(down'[j.who]), j.who # Srv, q.t = "reply", q.req = j.req PROVE UnderWayAfter
  BY <1>a, <1>2
<1>b. SUFFICES UnderWayAfter
  BY DEF UnderWay, Its
<1> HIDE DEF UnderWayAfter
<1>7. CASE \E w \in local : Its(w, j)
  BY <1>6, <1>7 DEF AllAfter
<1>8. CASE \E r \in route : Its(r.w, j)
  BY <1>6, <1>8 DEF AllAfter
<1>9. CASE \E x \in pending : Its(x.w, j)
  BY <1>6, <1>9 DEF AllAfter
<1>10. CASE j.who # Srv /\ \E q \in Range(up[j.who]) : q.t = "read" /\ Its(q.w, j)
  BY <1>6, <1>10, <1>3 DEF AllAfter
<1>11. CASE j.who # Srv /\ \E q \in Range(down[j.who]) : q.t = "reply" /\ q.req = j.req
  <2>1. PICK q \in Range(down[j.who]) : q.t = "reply" /\ q.req = j.req
    BY <1>11
  <2>2. q \in Range(down'[j.who])
    BY <2>1, <1>1, <1>2, <1>3, <1>11 DEF AllAfter
  <2> QED BY <2>1, <2>2, <1>11, <1>a
<1> QED BY <1>5, <1>7, <1>8, <1>9, <1>10, <1>11 DEF UnderWay

LEMMA OwnersLegKept ==
  ASSUME OwnersLeg, pending' \subseteq pending, pending \subseteq [req : Nat \ {0}, to : Clients, w : Requests, late : BOOLEAN],
         \A x \in pending' : conn'[x.to].st = conn[x.to].st,
         \A n \in Clients : \A q \in Range(down[n]) : q.t = "read" =>
           q \in Range(down'[n]) \/ \E a \in Range(up'[n]) : a.t = "reply" /\ a.req = q.req,
         \A n \in Clients : \A q \in Range(up[n]) : q.t = "reply" =>
           q \in Range(up'[n]) \/ \A x \in pending' : x.req # q.req
  PROVE  OwnersLeg'
<1> SUFFICES ASSUME NEW x \in pending', ~x.late, conn'[x.to].st # "closing"
             PROVE  /\ conn'[x.to].st = "on"
                    /\ \/ \E q \in Range(down'[x.to]) : q.t = "read" /\ q.req = x.req
                       \/ \E q \in Range(up'[x.to]) : q.t = "reply" /\ q.req = x.req
  BY DEF OwnersLeg
<1>1. x \in pending /\ x.to \in Clients
  OBVIOUS
<1>2. /\ conn[x.to].st = "on"
      /\ \/ \E q \in Range(down[x.to]) : q.t = "read" /\ q.req = x.req
         \/ \E q \in Range(up[x.to]) : q.t = "reply" /\ q.req = x.req
  BY <1>1 DEF OwnersLeg
<1> QED BY <1>1, <1>2

\* What is true of requests wherever they are, and of steps that leave the links open.
Legs == OwnReads /\ OwnersLeg /\ PullersLeg

LEMMA SameConnWaits ==
  ASSUME OnlyAnswers, UNCHANGED conn
  PROVE  WaitsBefore
BY OnlyAnswersWait DEF WaitsBefore

LEMMA PendingIs ==
  ASSUME Types
  PROVE  /\ pending \subseteq [req : Nat \ {0}, to : Clients, w : Requests, late : BOOLEAN]
         /\ up \in [Clients -> Seq(UpMessages)] /\ down \in [Clients -> Seq(DownMessages)]
BY DEF Types, RouterTypes, LinkTypes

LEMMA SrvReadLegs ==
  ASSUME Types, RouterNumbers, SessionNumbers, Legs, NEW c \in Clients, SrvRead(c)
  PROVE  Legs'
<1> DEFINE h == Head(up[c])
           w == Head(up[c]).w
<1>1. /\ up[c] # <<>> /\ h.t = "read" /\ w \in Requests
      /\ up' = [up EXCEPT ![c] = Tail(@)] /\ RouteTo(w)
      /\ IF cur.who = None THEN Deliver(w, NotFound) ELSE UNCHANGED <<down, pull>>
      /\ UNCHANGED <<pending, conn>>
  BY SrvReadIs
<1>2. Range(up[c]) = {h} \cup Range(up'[c]) /\ \A n \in Clients : n # c => up'[n] = up[n]
  BY <1>1, UpTail
<1>3. w.who = c
  BY <1>1, <1>2 DEF Legs, OwnReads
<1>4. \A n \in Clients : Range(down[n]) \subseteq Range(down'[n])
  BY <1>1, DeliverRange, AnswerIs
<1>5. OnlyAnswers
  BY RouterOnlyAnswers
<1>6. After(w)
  <2>1. CASE cur.who = None
    BY <1>1, <2>1, DeliverAfter, AnswerIs
  <2>2. CASE cur.who = Srv
    BY <1>1, <2>2 DEF RouteTo, After
  <2>3. CASE cur.who \in Clients
    <3>1. [w |-> w, to |-> cur.who] \in route'
      BY <1>1, <2>3 DEF RouteTo
    <3> QED BY <3>1 DEF After
  <2> QED BY <2>1, <2>2, <2>3 DEF Types, RouterTypes, Machines
<1>7. local \subseteq local' /\ route \subseteq route'
  BY <1>1 DEF RouteTo
<1>8. ASSUME NEW n \in Clients, NEW q \in Range(up[n]), q.t = "read" PROVE After(q.w)
  <2>1. CASE q = h /\ n = c
    BY <2>1, <1>6
  <2>2. CASE q \in Range(up'[n])
    <3>1. q.w.who = n
      BY <1>8 DEF Legs, OwnReads
    <3> QED BY <3>1, <2>2, <1>8 DEF After
  <2> QED BY <2>1, <2>2, <1>2
<1> HIDE DEF w, h
<1>9. AllAfter
  BY <1>1, <1>4, <1>7, <1>8 DEF AllAfter, After
<1>10. WaitsBefore
  BY <1>1, <1>5, SameConnWaits
<1>11. PullersLeg'
  BY <1>9, <1>10, PullersLegKept DEF Legs
<1>12. OwnersLeg'
  <2>1. \A n \in Clients : \A q \in Range(up[n]) : q.t = "reply" => q \in Range(up'[n])
    BY <1>1, <1>2
  <2> QED BY <1>1, <1>4, <2>1, PendingIs, OwnersLegKept DEF Legs
<1>13. OwnReads'
  BY <1>2 DEF Legs, OwnReads
<1> QED BY <1>11, <1>12, <1>13 DEF Legs

LEMMA RouteSendLegs ==
  ASSUME Types, RouterNumbers, SessionNumbers, Legs, NEW r \in route, RouteSend(r)
  PROVE  Legs'
<1> DEFINE w == r.w
           x == [req |-> nextReq, to |-> r.to, w |-> r.w, late |-> conn[r.to].st = "noted"]
           m == [t |-> "read", req |-> nextReq, seq |-> r.w.seq, at |-> r.w.at]
           to == r.to
<1>1. /\ w \in Requests /\ to \in Clients /\ route' = route \ {r} /\ nextReq \in Nat \ {0}
      /\ UNCHANGED <<local, conn, up>>
  BY RouteSendIs
<1>2. OnlyAnswers
  BY RouterOnlyAnswers
<1>3. WaitsBefore
  BY <1>1, <1>2, SameConnWaits
<1>4. CASE Registered(to)
  <2>1. /\ pending' = pending \cup {x} /\ UNCHANGED pull
        /\ down' = IF conn[to].st = "on" THEN [down EXCEPT ![to] = Append(@, m)] ELSE down
    BY <1>4, RouteSendIs
  <2>2. /\ x.w = w /\ x.to = to /\ x.req = nextReq /\ (conn[to].st = "noted" => x.late)
        /\ m.t = "read" /\ m.req = nextReq
    OBVIOUS
  <2> HIDE DEF x, m, to
  <2>3. /\ \A n \in Clients : Range(down[n]) \subseteq Range(down'[n])
        /\ conn[to].st = "on" => m \in Range(down'[to])
    <3>1. CASE conn[to].st = "on"
      <4>1. Range(down'[to]) = Range(down[to]) \cup {m} /\ \A n \in Clients : n # to => down'[n] = down[n]
        <5>1. /\ down[to] \in Seq(DownMessages) /\ down'[to] = Append(down[to], m)
              /\ \A n \in Clients : n # to => down'[n] = down[n]
          BY <2>1, <3>1, <1>1, PendingIs
        <5> QED BY <5>1, RangeOfAppend
      <4> QED BY <4>1
    <3>2. CASE conn[to].st # "on"
      BY <3>2, <2>1
    <3> QED BY <3>1, <3>2
  <2>4. After(w)
    BY <2>1, <2>2 DEF After
  <2>5. \A v \in route : After(v.w)
    BY <2>4, <1>1 DEF After
  <2>6. \A n \in Clients : \A q \in Range(up[n]) : q.t = "read" => After(q.w)
    BY <1>1 DEF After, Legs, OwnReads
  <2>7. \A v \in local : After(v)
    BY <1>1 DEF After
  <2>8. \A v \in pending : After(v.w)
    BY <2>1 DEF After
  <2>9. AllAfter
    BY <2>3, <2>5, <2>6, <2>7, <2>8 DEF AllAfter
  <2>10. PullersLeg'
    BY <2>9, <1>3, PullersLegKept DEF Legs
  <2>11. ASSUME NEW y \in pending'
         PROVE  \/ y.late \/ conn'[y.to].st = "closing"
                \/ /\ conn'[y.to].st = "on"
                   /\ \/ \E q \in Range(down'[y.to]) : q.t = "read" /\ q.req = y.req
                      \/ \E q \in Range(up'[y.to]) : q.t = "reply" /\ q.req = y.req
    <3>1. CASE y \in pending
      <4>1. y.to \in Clients
        BY <3>1, PendingIs
      <4> QED BY <3>1, <4>1, <1>1, <2>3 DEF Legs, OwnersLeg
    <3>2. CASE y = x
      <4>1. conn[to].st \in {"on", "closing", "noted", "off"} /\ conn[to].st # "off"
        BY <1>1, <1>4 DEF Types, LinkTypes, Registered
      <4> QED BY <3>2, <4>1, <1>1, <2>2, <2>3
    <3> QED BY <2>1, <3>1, <3>2
  <2>12. OwnersLeg'
    BY <2>11 DEF OwnersLeg
  <2>13. OwnReads'
    BY <1>1 DEF Legs, OwnReads
  <2> QED BY <2>10, <2>12, <2>13 DEF Legs
<1>5. CASE ~Registered(to)
  <2>1. Deliver(w, NotFound) /\ UNCHANGED pending
    BY <1>5, RouteSendIs
  <2>2. \A n \in Clients : Range(down[n]) \subseteq Range(down'[n])
    BY <1>1, <2>1, DeliverRange, AnswerIs
  <2>3. After(w)
    BY <1>1, <2>1, DeliverAfter, AnswerIs
  <2>4. /\ \A v \in route : After(v.w)
        /\ \A v \in local : After(v)
        /\ \A v \in pending : After(v.w)
        /\ \A n \in Clients : \A q \in Range(up[n]) : q.t = "read" => After(q.w)
    BY <2>1, <2>3, <1>1 DEF After, Legs, OwnReads
  <2>5. AllAfter
    BY <2>2, <2>4 DEF AllAfter
  <2>6. PullersLeg'
    BY <2>5, <1>3, PullersLegKept DEF Legs
  <2>7. OwnersLeg'
    BY <1>1, <2>1, <2>2, PendingIs, OwnersLegKept DEF Legs
  <2>8. OwnReads'
    BY <1>1 DEF Legs, OwnReads
  <2> QED BY <2>6, <2>7, <2>8 DEF Legs
<1> QED BY <1>4, <1>5

LEMMA LocalReadLegs ==
  ASSUME Types, RouterNumbers, SessionNumbers, Legs, NEW w \in local, LocalRead(w)
  PROVE  Legs'
<1>1. /\ w \in Requests /\ local' = local \ {w} /\ UNCHANGED <<route, pending, conn, up>>
      /\ \E ans \in Answers : Deliver(w, ans)
  BY LocalReadIs
<1>2. PICK ans \in Answers : Deliver(w, ans)
  BY <1>1
<1>3. WaitsBefore
  BY <1>1, RouterOnlyAnswers, SameConnWaits
<1>4. \A n \in Clients : Range(down[n]) \subseteq Range(down'[n])
  BY <1>1, <1>2, DeliverRange
<1>5. After(w)
  BY <1>1, <1>2, DeliverAfter
<1>6. /\ \A v \in route : After(v.w)
      /\ \A v \in local : After(v)
      /\ \A v \in pending : After(v.w)
      /\ \A n \in Clients : \A q \in Range(up[n]) : q.t = "read" => After(q.w)
  BY <1>1, <1>5 DEF After, Legs, OwnReads
<1>7. AllAfter
  BY <1>4, <1>6 DEF AllAfter
<1>8. PullersLeg'
  BY <1>7, <1>3, PullersLegKept DEF Legs
<1>9. OwnersLeg'
  BY <1>1, <1>4, PendingIs, OwnersLegKept DEF Legs
<1>10. OwnReads'
  BY <1>1 DEF Legs, OwnReads
<1> QED BY <1>8, <1>9, <1>10 DEF Legs

LEMMA ClientServeLegs ==
  ASSUME Types, RouterNumbers, SessionNumbers, Legs, NEW c \in Clients, ClientServe(c)
  PROVE  Legs'
<1> DEFINE h == Head(down[c])
<1>1. /\ down[c] # <<>> /\ h.t = "read" /\ down' = [down EXCEPT ![c] = Tail(@)]
      /\ \E ans \in Answers : up' = [up EXCEPT ![c] = Append(@, [t |-> "reply", req |-> h.req, ans |-> ans])]
      /\ UNCHANGED <<route, local, pending, conn>>
  BY ClientServeIs DEF server
<1>2. Range(down[c]) = {h} \cup Range(down'[c]) /\ \A n \in Clients : n # c => down'[n] = down[n]
  BY <1>1, DownTail
<1>3. PICK ans \in Answers : up' = [up EXCEPT ![c] = Append(@, [t |-> "reply", req |-> h.req, ans |-> ans])]
  BY <1>1
<1> DEFINE a == [t |-> "reply", req |-> h.req, ans |-> ans]
<1>4. a.t = "reply" /\ a.req = h.req /\ up' = [up EXCEPT ![c] = Append(@, a)]
  BY <1>3
<1> HIDE DEF a, h
<1>5. Range(up'[c]) = Range(up[c]) \cup {a} /\ \A n \in Clients : n # c => up'[n] = up[n]
  BY <1>4, UpAppend
<1>6. OnlyAnswers
  BY OthersOnlyAnswers
<1>7. WaitsBefore
  BY <1>1, <1>6, SameConnWaits
<1>8. \A n \in Clients : Range(up[n]) \subseteq Range(up'[n])
  BY <1>5
<1>9. \A n \in Clients : \A q \in Range(up[n]) : q.t = "read" => After(q.w)
  <2> SUFFICES ASSUME NEW n \in Clients, NEW q \in Range(up[n]), q.t = "read" PROVE After(q.w)
    OBVIOUS
  <2>1. q.w.who = n /\ q \in Range(up'[n])
    BY <1>8 DEF Legs, OwnReads
  <2> QED BY <2>1 DEF After
<1>10. \A n \in Clients : \A q \in Range(down[n]) : q.t = "reply" => q \in Range(down'[n])
  BY <1>1, <1>2
<1>11. AllAfter
  BY <1>1, <1>9, <1>10 DEF AllAfter, After
<1>12. PullersLeg'
  BY <1>7, <1>11, PullersLegKept DEF Legs
<1>13. \A n \in Clients : \A q \in Range(down[n]) : q.t = "read" =>
         q \in Range(down'[n]) \/ \E b \in Range(up'[n]) : b.t = "reply" /\ b.req = q.req
  BY <1>2, <1>4, <1>5
<1>14. OwnersLeg'
  BY <1>1, <1>8, <1>13, PendingIs, OwnersLegKept DEF Legs
<1>15. OwnReads'
  BY <1>4, <1>5 DEF Legs, OwnReads
<1> QED BY <1>12, <1>14, <1>15 DEF Legs

LEMMA SrvReplyLegs ==
  ASSUME Types, RouterNumbers, SessionNumbers, Legs, NEW c \in Clients, SrvReply(c)
  PROVE  Legs'
<1> DEFINE h == Head(up[c])
           hit == {x \in pending : x.req = h.req}
<1>1. /\ up[c] # <<>> /\ h.t = "reply" /\ h.ans \in Answers /\ up' = [up EXCEPT ![c] = Tail(@)]
      /\ pending' = pending \ hit
      /\ \/ hit = {} /\ UNCHANGED <<down, pull>>
         \/ \E x \in pending : hit = {x} /\ Deliver(x.w, IF x.to = c THEN h.ans ELSE NotFound)
      /\ UNCHANGED <<route, local, conn>>
  BY SrvReplyIs
<1>2. Range(up[c]) = {h} \cup Range(up'[c]) /\ \A n \in Clients : n # c => up'[n] = up[n]
  BY <1>1, UpTail
<1>3. WaitsBefore
  BY <1>1, RouterOnlyAnswers, SameConnWaits
<1>4. \A x \in pending' : x.req # h.req
  BY <1>1
<1> HIDE DEF h
<1>5. /\ \A n \in Clients : Range(down[n]) \subseteq Range(down'[n])
      /\ \A x \in hit : After(x.w)
  <2>1. CASE hit = {} /\ UNCHANGED <<down, pull>>
    BY <2>1
  <2>2. CASE \E x \in pending : hit = {x} /\ Deliver(x.w, IF x.to = c THEN h.ans ELSE NotFound)
    <3>1. PICK x \in pending : hit = {x} /\ Deliver(x.w, IF x.to = c THEN h.ans ELSE NotFound)
      BY <2>2
    <3> DEFINE ans == IF x.to = c THEN h.ans ELSE NotFound
    <3>2. x.w \in Requests /\ ans \in Answers /\ Deliver(x.w, ans)
      BY <3>1, <1>1, PendingIs, AnswerIs
    <3> HIDE DEF ans
    <3>3. After(x.w)
      BY <3>2, <1>1, DeliverAfter
    <3>4. \A n \in Clients : Range(down[n]) \subseteq Range(down'[n])
      BY <3>2, DeliverRange
    <3> QED BY <3>1, <3>3, <3>4
  <2> QED BY <1>1, <2>1, <2>2
<1>6. \A x \in pending : After(x.w)
  BY <1>1, <1>5 DEF After
<1>7. \A n \in Clients : \A q \in Range(up[n]) : q.t = "read" => After(q.w)
  <2> SUFFICES ASSUME NEW n \in Clients, NEW q \in Range(up[n]), q.t = "read" PROVE After(q.w)
    OBVIOUS
  <2>1. q.w.who = n /\ q \in Range(up'[n])
    BY <1>1, <1>2 DEF Legs, OwnReads
  <2> QED BY <2>1 DEF After
<1>8. AllAfter
  BY <1>1, <1>5, <1>6, <1>7 DEF AllAfter, After
<1>9. PullersLeg'
  BY <1>3, <1>8, PullersLegKept DEF Legs
<1>10. \A n \in Clients : \A q \in Range(up[n]) : q.t = "reply" =>
         q \in Range(up'[n]) \/ \A x \in pending' : x.req # q.req
  BY <1>2, <1>4
<1>11. OwnersLeg'
  BY <1>1, <1>5, <1>10, PendingIs, OwnersLegKept DEF Legs
<1>12. OwnReads'
  BY <1>2 DEF Legs, OwnReads
<1> QED BY <1>9, <1>11, <1>12 DEF Legs

LEMMA ClientReplyLegs ==
  ASSUME Types, RouterNumbers, SessionNumbers, Legs, NEW c \in Clients, ClientReply(c)
  PROVE  Legs'
<1> DEFINE h == Head(down[c])
<1>1. /\ down[c] # <<>> /\ h.t = "reply" /\ h.ans \in Answers /\ down' = [down EXCEPT ![c] = Tail(@)]
      /\ pull' = [p \in DOMAIN pull |->
                       IF /\ pull[p].who = c /\ pull[p].sess = conn[c].sess
                          /\ pull[p].st = "waiting" /\ pull[p].req = h.req
                       THEN [pull[p] EXCEPT !.ans = h.ans] ELSE pull[p]]
      /\ UNCHANGED <<route, local, pending, conn, up>>
  BY ClientReplyIs DEF server
<1>2. Range(down[c]) = {h} \cup Range(down'[c]) /\ \A n \in Clients : n # c => down'[n] = down[n]
  BY <1>1, DownTail
<1> HIDE DEF h
<1>3. WaitsBefore
  BY <1>1, RouterOnlyAnswers, SameConnWaits
<1>4. ASSUME NEW p \in DOMAIN pull, pull[p].who = c, pull[p].sess = conn[c].sess,
             pull[p].st = "waiting", pull[p].req = h.req
      PROVE  pull'[p].ans # None
  <2>1. pull[p] \in Pulls
    BY PullFields
  <2>2. pull'[p].ans = h.ans
    BY <1>1, <1>4, <2>1 DEF Pulls
  <2> QED BY <1>1, <2>2, AnswerIs
<1>5. \A n \in Clients : \A q \in Range(up[n]) : q.t = "read" => After(q.w)
  BY <1>1 DEF After, Legs, OwnReads
<1>6. \A n \in Clients : \A q \in Range(down[n]) : q \in Range(down'[n]) \/ (n = c /\ q = h)
  BY <1>2
<1>7. AllAfter
  BY <1>1, <1>4, <1>5, <1>6 DEF AllAfter, After
<1>8. PullersLeg'
  BY <1>3, <1>7, PullersLegKept DEF Legs
<1>9. OwnersLeg'
  <2>1. \A n \in Clients : \A q \in Range(down[n]) : q.t = "read" => q \in Range(down'[n])
    BY <1>1, <1>6
  <2> QED BY <1>1, <2>1, PendingIs, OwnersLegKept DEF Legs
<1>10. OwnReads'
  BY <1>1 DEF Legs, OwnReads
<1> QED BY <1>8, <1>9, <1>10 DEF Legs

LEMMA SrvNoteLegs ==
  ASSUME Types, RouterNumbers, SessionNumbers, Legs, NEW c \in Clients, SrvNote(c)
  PROVE  Legs'
<1>1. /\ conn[c].st = "closing" /\ conn' = [conn EXCEPT ![c].st = "noted"]
      /\ pending' = pending \ Mine(c)
      /\ \A n \in Clients :
           Range(down'[n]) = IF conn[n].st = "on" THEN Range(down[n]) \cup Answering(c, n) ELSE Range(down[n])
      /\ pull' = [p \in DOMAIN pull |->
                       IF (\E x \in Mine(c) : x.w.who = Srv /\ x.w.req = p) /\ pull[p].st = "waiting"
                       THEN [pull[p] EXCEPT !.ans = NotFound] ELSE pull[p]]
      /\ UNCHANGED <<route, local, up>>
  BY SrvNoteIs
<1>2. /\ conn'[c].st = "noted" /\ conn'[c].sess = conn[c].sess
      /\ \A n \in Clients : n # c => conn'[n] = conn[n]
  BY <1>1 DEF Types, LinkTypes
<1>3. WaitsBefore
  BY <1>2, RouterOnlyAnswers, OnlyAnswersWait DEF WaitsBefore
<1>4. \A n \in Clients : Range(down[n]) \subseteq Range(down'[n])
  BY <1>1
<1>5. ASSUME NEW x \in Mine(c) PROVE After(x.w)
  <2>1. x.w \in Requests /\ x.w.who \in Machines
    BY PendingIs DEF Mine, Requests
  <2>2. CASE x.w.who = Srv
    <3>1. ASSUME x.w.req \in DOMAIN pull, pull[x.w.req].st = "waiting" PROVE pull'[x.w.req].ans # None
      <4> DEFINE p == x.w.req
      <4>1. pull[p] \in Pulls /\ p \in DOMAIN pull /\ pull[p].st = "waiting"
        BY <3>1, PullFields
      <4>2. pull'[p] = [pull[p] EXCEPT !.ans = NotFound]
        BY <1>1, <2>2, <4>1
      <4> HIDE DEF p
      <4>3. pull'[p].ans = NotFound
        BY <4>1, <4>2 DEF Pulls
      <4> QED BY <4>3, AnswerIs DEF p
    <3> QED BY <2>2, <3>1 DEF After
  <2>3. CASE x.w.who # Srv
    <3>1. x.w.who \in Clients
      BY <2>1, <2>3, MachineIs
    <3>2. CASE conn[x.w.who].st = "on"
      <4>1. [t |-> "reply", req |-> x.w.req, ans |-> NotFound] \in Answering(c, x.w.who)
        BY DEF Answering
      <4>2. [t |-> "reply", req |-> x.w.req, ans |-> NotFound] \in Range(down'[x.w.who])
        BY <1>1, <3>1, <3>2, <4>1
      <4> QED BY <3>1, <4>2 DEF After
    <3>3. CASE conn[x.w.who].st # "on"
      <4>1. conn'[x.w.who].st # "on"
        BY <1>2, <3>1, <3>3
      <4> QED BY <3>1, <4>1 DEF After
    <3> QED BY <3>2, <3>3
  <2> QED BY <2>2, <2>3
<1>6. \A x \in pending : After(x.w)
  BY <1>1, <1>5 DEF After
<1>7. \A n \in Clients : \A q \in Range(up[n]) : q.t = "read" => After(q.w)
  BY <1>1 DEF After, Legs, OwnReads
<1>8. AllAfter
  BY <1>1, <1>4, <1>6, <1>7 DEF AllAfter, After
<1>9. PullersLeg'
  BY <1>3, <1>8, PullersLegKept DEF Legs
<1>10. \A x \in pending' : conn'[x.to].st = conn[x.to].st
  BY <1>1, <1>2, PendingIs DEF Mine
<1>11. OwnersLeg'
  BY <1>1, <1>4, <1>10, PendingIs, OwnersLegKept DEF Legs
<1>12. OwnReads'
  BY <1>1 DEF Legs, OwnReads
<1> QED BY <1>9, <1>11, <1>12 DEF Legs

LEMMA LoseLegs ==
  ASSUME Types, RouterNumbers, SessionNumbers, Legs, NEW c \in Clients, Lose(c)
  PROVE  Legs'
<1>1. /\ conn' = [conn EXCEPT ![c].st = "closing"]
      /\ up' = [up EXCEPT ![c] = <<>>] /\ down' = [down EXCEPT ![c] = <<>>]
      /\ UNCHANGED <<route, local, pending>>
  BY DEF Lose, server
<1>2. /\ conn'[c].st = "closing" /\ conn'[c].sess = conn[c].sess
      /\ \A n \in Clients : n # c => conn'[n] = conn[n]
  BY <1>1 DEF Types, LinkTypes
<1>3. /\ up'[c] = <<>> /\ down'[c] = <<>>
      /\ \A n \in Clients : n # c => up'[n] = up[n] /\ down'[n] = down[n]
  BY <1>1, PendingIs
<1>4. WaitsBefore
  BY <1>2, OthersOnlyAnswers, OnlyAnswersWait DEF WaitsBefore
<1>5. ASSUME NEW n \in Clients, NEW q \in Range(up[n]), q.t = "read" PROVE After(q.w)
  <2>1. q.w.who = n
    BY <1>5 DEF Legs, OwnReads
  <2>2. CASE n = c
    BY <2>1, <2>2, <1>2 DEF After
  <2>3. CASE n # c
    BY <2>1, <2>3, <1>3, <1>5 DEF After
  <2> QED BY <2>2, <2>3
<1>6. AllAfter
  BY <1>1, <1>2, <1>3, <1>5 DEF AllAfter, After
<1>7. PullersLeg'
  BY <1>4, <1>6, PullersLegKept DEF Legs
<1>8. ASSUME NEW x \in pending'
      PROVE  \/ x.late \/ conn'[x.to].st = "closing"
             \/ /\ conn'[x.to].st = "on"
                /\ \/ \E q \in Range(down'[x.to]) : q.t = "read" /\ q.req = x.req
                   \/ \E q \in Range(up'[x.to]) : q.t = "reply" /\ q.req = x.req
  <2>1. x \in pending /\ x.to \in Clients
    BY <1>1, PendingIs
  <2>2. CASE x.to = c
    BY <2>2, <1>2
  <2>3. CASE x.to # c
    BY <2>1, <2>3, <1>2, <1>3 DEF Legs, OwnersLeg
  <2> QED BY <2>2, <2>3
<1>9. OwnersLeg'
  BY <1>8 DEF OwnersLeg
<1>10. OwnReads'
  BY <1>3, EmptyRange DEF Legs, OwnReads
<1> QED BY <1>7, <1>9, <1>10 DEF Legs

\* Steps that touch neither the messages nor the router's table.
LEMMA QuietLegs ==
  ASSUME Types, SessionNumbers, Legs, UNCHANGED <<route, local, pending, up, down>>, WaitsBefore,
         \A x \in pending : conn'[x.to].st = conn[x.to].st \/ x.late
  PROVE  Legs'
<1>1. \A n \in Clients : \A q \in Range(up[n]) : q.t = "read" => After(q.w)
  BY DEF After, Legs, OwnReads
<1>2. AllAfter
  BY <1>1 DEF AllAfter, After
<1>3. PullersLeg'
  BY <1>2, PullersLegKept DEF Legs
<1>4. OwnersLeg'
  BY DEF Legs, OwnersLeg
<1>5. OwnReads'
  BY DEF Legs, OwnReads
<1> QED BY <1>3, <1>4, <1>5 DEF Legs

LEMMA ReopenLegs ==
  ASSUME Types, SessionNumbers, Legs, NEW c \in Clients, Unregister(c) \/ Reconnect(c)
  PROVE  Legs'
<1>1. /\ conn[c].st \in {"noted", "off"}
      /\ UNCHANGED <<route, local, pending, up, down, pull>>
      /\ \/ conn' = [conn EXCEPT ![c].st = "off"]
         \/ conn' = [conn EXCEPT ![c] = [st |-> "on", sess |-> conn[c].sess + 1, next |-> 1]]
  BY DEF Unregister, Reconnect, server
<1>2. /\ conn'[c].st = "on" => conn'[c].sess > conn[c].sess
      /\ \A n \in Clients : n # c => conn'[n] = conn[n]
  BY <1>1 DEF Types, LinkTypes
<1>3. WaitsBefore
  BY <1>2, OthersOnlyAnswers, OnlyAnswersWait DEF WaitsBefore
<1>4. \A x \in pending : conn'[x.to].st = conn[x.to].st \/ x.late
  BY <1>1, <1>2, PendingIs DEF Legs, OwnersLeg
<1> QED BY <1>1, <1>3, <1>4, QuietLegs

LEMMA StillLegs ==
  ASSUME Types, SessionNumbers, Legs, UNCHANGED <<route, local, pending, up, down, conn>>,
         \/ OnlyAnswers
         \/ \E p \in DOMAIN pull : Alone(p)
  PROVE  Legs'
<1>1. WaitsBefore
  <2>1. CASE OnlyAnswers
    BY <2>1, SameConnWaits
  <2>2. ASSUME NEW p \in DOMAIN pull, Alone(p) PROVE WaitsBefore
    <3>1. Kept(p) /\ pull'[p].st # "waiting"
      BY <2>2, AloneIs DEF Starts, Gets, Quits, Places
    <3> QED BY <3>1 DEF Kept, WaitsBefore
  <2> QED BY <2>1, <2>2
<1> QED BY <1>1, QuietLegs

LEMMA EnterLegs ==
  ASSUME Types, SessionNumbers, Legs, NEW m \in Machines, Enter(m)
  PROVE  Legs'
<1> DEFINE n == Len(pull) + 1
           j == [who |-> m, ann |-> remote[m].ann, st |-> "new", got |-> <<>>,
                 req |-> 0, ans |-> None, gen |-> cancel[m],
                 sess |-> IF m = Srv THEN 0 ELSE conn[m].sess]
<1>1. /\ Len(pull) \in Nat /\ DOMAIN pull = 1..Len(pull) /\ DOMAIN pull' = 1..n
      /\ \A p \in DOMAIN pull : pull'[p] = pull[p]
      /\ pull'[n] = j /\ j.st = "new"
      /\ UNCHANGED <<route, local, pending, up, down, conn>>
  BY EnterIs DEF server, links
<1> HIDE DEF j
<1>2. ASSUME NEW p \in DOMAIN pull', Waits(pull[p])' PROVE UnderWay(pull[p])'
  <2>1. p \in DOMAIN pull /\ pull'[p] = pull[p]
    BY <1>1, <1>2 DEF Waits
  <2>2. Waits(pull[p])
    BY <1>1, <1>2, <2>1 DEF Waits
  <2>3. UnderWay(pull[p])
    BY <2>1, <2>2 DEF Legs, PullersLeg
  <2> QED BY <1>1, <2>1, <2>3 DEF UnderWay
<1>3. PullersLeg'
  BY <1>2 DEF PullersLeg
<1>4. OwnersLeg' /\ OwnReads'
  BY <1>1 DEF Legs, OwnersLeg, OwnReads
<1> QED BY <1>3, <1>4 DEF Legs

LEMMA RestartLegs ==
  ASSUME Types, SessionNumbers, Legs, Restart
  PROVE  Legs'
<1>1. /\ pending' = {} /\ conn' = [c \in Clients |-> [conn[c] EXCEPT !.st = "off"]]
      /\ up' = [c \in Clients |-> <<>>]
      /\ DOMAIN pull' = DOMAIN pull
      /\ \A p \in DOMAIN pull : pull'[p].who = pull[p].who
      /\ \A p \in DOMAIN pull : pull[p].who = Srv => pull'[p].st # "waiting"
  BY RestartIs DEF Running
<1>2. \A c \in Clients : conn'[c].st = "off" /\ up'[c] = <<>>
  BY <1>1 DEF Types, LinkTypes
<1>3. \A p \in DOMAIN pull' : ~Waits(pull[p])'
  <2> SUFFICES ASSUME NEW p \in DOMAIN pull', Waits(pull[p])' PROVE FALSE
    OBVIOUS
  <2>1. pull'[p].who = pull[p].who /\ (pull[p].who # Srv => pull[p].who \in Clients)
    BY <1>1, PullFields
  <2> QED BY <1>1, <1>2, <2>1 DEF Waits
<1>4. PullersLeg'
  BY <1>3 DEF PullersLeg
<1>5. OwnersLeg' /\ OwnReads'
  BY <1>1, <1>2, EmptyRange DEF OwnersLeg, OwnReads
<1> QED BY <1>4, <1>5 DEF Legs

LEMMA AskLegs ==
  ASSUME Types, RouterNumbers, SessionNumbers, Legs, NEW p \in DOMAIN pull, Ask(p)
  PROVE  Legs'
<1> DEFINE w == Wants(p)
           q0 == [t |-> "read", w |-> w, req |-> 0]
           c == pull[p].who
<1>1. /\ DOMAIN pull' = DOMAIN pull /\ \A q \in DOMAIN pull : q # p => pull'[q] = pull[q]
      /\ pull'[p].who = c /\ pull'[p].req = w.req /\ pull'[p].st = "waiting"
      /\ UNCHANGED <<pending, down>>
  BY AskIs
<1>2. w.who = c /\ q0.t = "read" /\ q0.w = w /\ c \in Machines
  BY PullFields DEF Wants
<1>3. IF c = Srv THEN cur.who # None /\ RouteTo(w) /\ UNCHANGED <<conn, up>>
      ELSE /\ c \in Clients /\ conn' = [conn EXCEPT ![c].next = @ + 1] /\ up' = [up EXCEPT ![c] = Append(@, q0)]
           /\ UNCHANGED <<route, local>>
  BY AskIs, PullFields DEF Renumbered
<1> HIDE DEF w, q0, c
<1>4. local \subseteq local' /\ route \subseteq route'
  BY <1>3 DEF RouteTo
<1>5. \A n \in Clients : conn'[n].st = conn[n].st /\ conn'[n].sess = conn[n].sess
  <2>1. CASE c = Srv
    BY <1>3, <2>1
  <2>2. CASE c # Srv
    <3>1. conn' = [conn EXCEPT ![c].next = @ + 1]
      BY <1>3, <2>2
    <3>2. conn = [n \in Clients |-> conn[n]]
          /\ \A n \in Clients : DOMAIN conn[n] = {"st", "sess", "next"}
      BY DEF Types, LinkTypes
    <3> QED BY <3>1, <3>2
  <2> QED BY <2>1, <2>2
<1>6. \A n \in Clients : /\ Range(up[n]) \subseteq Range(up'[n])
                         /\ \A q \in Range(up'[n]) : q \in Range(up[n]) \/ (q = q0 /\ n = c)
                         /\ n = c /\ c # Srv => q0 \in Range(up'[n])
  <2>1. CASE c = Srv
    BY <1>3, <2>1
  <2>2. CASE c # Srv
    <3>1. Range(up'[c]) = Range(up[c]) \cup {q0} /\ \A n \in Clients : n # c => up'[n] = up[n]
      BY <1>3, <2>2, UpAppend
    <3> QED BY <3>1, <2>2
  <2> QED BY <2>1, <2>2
<1>7. UnderWay(pull[p])'
  <2>1. CASE c = Srv
    <3>1. w \in local' \/ \E r \in route' : r.w = w
      <4>1. cur.who = Srv \/ cur.who \in Clients
        BY <1>3, <2>1 DEF Types, RouterTypes, Machines
      <4>2. CASE cur.who = Srv
        BY <1>3, <2>1, <4>2 DEF RouteTo
      <4>3. CASE cur.who \in Clients
        <5>1. [w |-> w, to |-> cur.who] \in route'
          BY <1>3, <2>1, <4>3 DEF RouteTo
        <5> QED BY <5>1
      <4> QED BY <4>1, <4>2, <4>3
    <3> QED BY <1>1, <1>2, <3>1 DEF UnderWay, Its
  <2>2. CASE c # Srv
    <3>1. q0 \in Range(up'[c])
      BY <1>3, <1>6, <2>2
    <3> QED BY <1>1, <1>2, <2>2, <3>1 DEF UnderWay, Its
  <2> QED BY <2>1, <2>2
<1>8. ASSUME NEW q \in DOMAIN pull, q # p, Waits(pull[q])' PROVE UnderWay(pull[q])'
  <2>1. pull'[q] = pull[q] /\ (pull[q].who # Srv => pull[q].who \in Clients)
    BY <1>1, <1>8, PullFields
  <2>2. Waits(pull[q])
    BY <1>8, <1>5, <2>1 DEF Waits
  <2>3. UnderWay(pull[q])
    BY <2>2 DEF Legs, PullersLeg
  <2> QED BY <1>1, <1>4, <1>6, <2>1, <2>3 DEF UnderWay
<1>9. PullersLeg'
  BY <1>1, <1>7, <1>8 DEF PullersLeg
<1>10. OwnersLeg'
  BY <1>1, <1>5, <1>6, PendingIs, OwnersLegKept DEF Legs
<1>11. OwnReads'
  BY <1>2, <1>6 DEF Legs, OwnReads
<1> QED BY <1>9, <1>10, <1>11 DEF Legs

----------------------------------------------------------------------------

\* Accounted is inductive with the types.
LEMMA NextAccounted ==
  ASSUME Types, Accounted, [Next]_vars
  PROVE  Accounted'
<1>0. RouterNumbers /\ SessionNumbers /\ Legs
  BY DEF Accounted, Legs
<1>1. RouterNumbers' /\ SessionNumbers'
  BY <1>0, NextRouterNumbers, NextSessionNumbers
<1>2. SUFFICES Legs'
  BY <1>1 DEF Accounted, Legs
<1>3. ASSUME NEW m \in Machines, Enter(m) PROVE Legs'
  BY <1>0, <1>3, EnterLegs
<1>4. CASE \/ \E m \in Machines : Cancel(m)
           \/ \E m \in Owners : \E roots \in Copyable[m] : Announce(m, roots)
           \/ \E m \in Machines, s \in 1..MaxSeq : RemoveReceived(m, s)
           \/ UNCHANGED vars
  <2>1. OnlyAnswers
    BY <1>4, OthersOnlyAnswers
  <2>2. UNCHANGED <<route, local, pending, up, down, conn>>
    BY <1>4 DEF Cancel, Announce, RemoveReceived, vars, server, links
  <2> QED BY <1>0, <2>1, <2>2, StillLegs
<1>5. ASSUME NEW c \in Clients, SrvRead(c) \/ SrvReply(c) \/ SrvNote(c) PROVE Legs'
  BY <1>0, <1>5, SrvReadLegs, SrvReplyLegs, SrvNoteLegs
<1>6. ASSUME NEW c \in Clients, Unregister(c) \/ Reconnect(c) PROVE Legs'
  BY <1>0, <1>6, ReopenLegs
<1>7. ASSUME NEW r \in route, RouteSend(r) PROVE Legs'
  BY <1>0, <1>7, RouteSendLegs
<1>8. ASSUME NEW w \in local, LocalRead(w) PROVE Legs'
  BY <1>0, <1>8, LocalReadLegs
<1>9. ASSUME NEW c \in Clients, ClientServe(c) \/ ClientReply(c) \/ Lose(c) PROVE Legs'
  BY <1>0, <1>9, ClientServeLegs, ClientReplyLegs, LoseLegs
<1>10. ASSUME NEW p \in DOMAIN pull, Ask(p) PROVE Legs'
  BY <1>0, <1>10, AskLegs
<1>11. ASSUME NEW p \in DOMAIN pull, Alone(p) PROVE Legs'
  <2>1. UNCHANGED <<route, local, pending, up, down, conn>>
    BY <1>11, AloneIs DEF Kept, server, links
  <2> QED BY <1>0, <1>11, <2>1, StillLegs
<1>12. CASE Restart
  BY <1>0, <1>12, RestartLegs
<1> QED BY <1>3, <1>4, <1>5, <1>6, <1>7, <1>8, <1>9, <1>10, <1>11, <1>12
        DEF Next, RouterStep, PullStep, Alone

LEMMA InitAccounted == Init => Accounted
BY EmptyRange DEF Init, Accounted, RouterNumbers, SessionNumbers, OwnReads, OwnersLeg, PullersLeg

\* Every pull, message and table entry is of its type, and requests are told apart by their
\* numbers: FileRouter's on the owner's side, FileChannel's on the puller's.
THEOREM PullTypeOK == Spec => [](Types /\ TypeOK)
<1>1. Init => Types /\ Accounted
  BY InitTypes, InitAccounted
<1>2. Types /\ Accounted /\ [Next]_vars => Types' /\ Accounted'
  BY NextTypes, NextAccounted DEF Accounted
<1>3. Types /\ Accounted => TypeOK
  <2> SUFFICES ASSUME Types, Accounted PROVE TypeOK
    OBVIOUS
  <2>1. cur.who \in Machines \cup {None} /\ cur.seq \in 0..MaxSeq
    BY DEF Types, RouterTypes
  <2> QED BY <2>1 DEF TypeOK, Accounted, RouterNumbers, SessionNumbers
<1> QED BY <1>1, <1>2, <1>3, PTL DEF Spec

\* No hop of the route drops a request, and an owner that leaves is answered for
\* (request_for_client, route, reply_from_client, on_disconnected, FileChannel::reply).
THEOREM PullNoReadLost == Spec => []NoReadLost
<1>1. Init => Types /\ Accounted
  BY InitTypes, InitAccounted
<1>2. Types /\ Accounted /\ [Next]_vars => Types' /\ Accounted'
  BY NextTypes, NextAccounted DEF Accounted
<1>3. Types /\ Accounted => NoReadLost
  <2> SUFFICES ASSUME Types, Accounted, NEW p \in DOMAIN pull, Waits(pull[p])
               PROVE  LET j == pull[p] IN
                      \/ \E w \in local \cup {r.w : r \in route} : w.who = j.who /\ w.req = j.req
                      \/ \E x \in pending :
                           /\ x.w.who = j.who /\ x.w.req = j.req
                           /\ \/ x.late \/ conn[x.to].st = "closing"
                              \/ /\ conn[x.to].st = "on"
                                 /\ \/ \E q \in Range(down[x.to]) : q.t = "read" /\ q.req = x.req
                                    \/ \E q \in Range(up[x.to]) : q.t = "reply" /\ q.req = x.req
                      \/ j.who # Srv /\
                           \/ \E q \in Range(up[j.who]) : q.t = "read" /\ q.w.who = j.who /\ q.w.req = j.req
                           \/ \E q \in Range(down[j.who]) : q.t = "reply" /\ q.req = j.req
    BY DEF NoReadLost, Waits
  <2>1. UnderWay(pull[p])
    BY DEF Accounted, PullersLeg
  <2>2. OwnersLeg
    BY DEF Accounted
  <2> QED BY <2>1, <2>2 DEF UnderWay, Its, OwnersLeg
<1> QED BY <1>1, <1>2, <1>3, PTL DEF Spec

\* Cancel ends every pull that still lacks a chunk (CancelSwitch, pull_into's biased select).
THEOREM PullCancelCounts == Spec => CancelCounts
<1>1. Types /\ Accounted /\ [Next]_vars =>
        [\A p \in DOMAIN pull :
           Cancelled(p) /\ pull[p].st \in Running /\ ~Complete(p)
           => Len(pull'[p].got) <= Len(pull[p].got) /\ pull'[p].st # "done"]_vars
  <2> SUFFICES ASSUME Types, Accounted, Next, NEW p \in DOMAIN pull,
                      Cancelled(p), pull[p].st \in Running, ~Complete(p)
               PROVE  Len(pull'[p].got) <= Len(pull[p].got) /\ pull'[p].st # "done"
    BY DEF vars
  <2>0. pull[p].got \in Seq(Chunks) /\ Len(pull[p].got) \in Nat /\ Len(<<>>) = 0 /\ pull[p].st # "done"
    BY PullFields DEF Running
  <2>1. CASE OnlyAnswers
    BY <2>0, <2>1 DEF OnlyAnswers
  <2>2. ASSUME NEW m \in Machines, Enter(m) PROVE pull'[p] = pull[p]
    BY <2>2, EnterIs
  <2>3. ASSUME NEW q \in DOMAIN pull, Ask(q) PROVE pull'[p].got = pull[p].got /\ pull'[p].st # "done"
    BY <2>0, <2>3, AskIs
  <2>4. ASSUME NEW q \in DOMAIN pull, Alone(q)
        PROVE  (pull'[p].got = pull[p].got \/ pull'[p].got = <<>>) /\ pull'[p].st # "done"
    <3>1. Kept(q) /\ (Starts(q) \/ Gets(q) \/ Quits(q) \/ Places(q))
      BY <2>4, AloneIs
    <3>2. CASE q # p
      BY <2>0, <3>1, <3>2 DEF Kept
    <3>3. CASE q = p
      BY <3>1, <3>3 DEF Starts, Gets, Quits, Places
    <3> QED BY <3>2, <3>3
  <2>5. CASE Restart
    BY <2>0, <2>5, RestartIs
  <2>6. \/ OnlyAnswers \/ Restart
        \/ \E m \in Machines : Enter(m)
        \/ \E q \in DOMAIN pull : Ask(q) \/ Alone(q)
    BY RouterOnlyAnswers, OthersOnlyAnswers DEF Next, RouterStep, PullStep, Alone, Accounted
  <2> QED BY <2>0, <2>1, <2>2, <2>3, <2>4, <2>5, <2>6
<1>2. Init => Types /\ Accounted
  BY InitTypes, InitAccounted
<1>3. Types /\ Accounted /\ [Next]_vars => Types' /\ Accounted'
  BY NextTypes, NextAccounted DEF Accounted
<1> QED BY <1>1, <1>2, <1>3, PTL DEF Spec, CancelCounts

----------------------------------------------------------------------------
(* The announcements.                                                      *)

\* Pulls go on as they began.
SamePulled ==
  /\ DOMAIN pull' = DOMAIN pull
  /\ \A p \in DOMAIN pull :
       /\ pull'[p].who = pull[p].who /\ pull'[p].ann = pull[p].ann /\ pull'[p].sess = pull[p].sess
       /\ pull'[p].st \in Running => pull[p].st \in Running

\* Sessions end, and new ones have new numbers.
LEMMA NextConn ==
  ASSUME Types, [Next]_vars
  PROVE  \A c \in Clients :
           \/ /\ conn'[c].sess = conn[c].sess
              /\ conn'[c].st # "off" => conn[c].st # "off"
           \/ conn'[c].sess > conn[c].sess
<1> SUFFICES ASSUME NEW c \in Clients
             PROVE  \/ /\ conn'[c].sess = conn[c].sess
                       /\ conn'[c].st # "off" => conn[c].st # "off"
                    \/ conn'[c].sess > conn[c].sess
  OBVIOUS
<1>0. /\ conn \in [Clients -> [st : {"on", "closing", "noted", "off"}, sess : Nat, next : Nat \ {0}]]
      /\ conn[c].sess \in Nat
  BY DEF Types, LinkTypes
<1>1. CASE UNCHANGED conn
  BY <1>1
<1>2. ASSUME NEW p \in DOMAIN pull, Ask(p)
      PROVE  conn'[c].sess = conn[c].sess /\ conn'[c].st = conn[c].st
  <2>1. UNCHANGED conn \/ (pull[p].who \in Clients /\ conn' = Renumbered(pull[p].who))
    BY <1>2, AskIs, PullFields
  <2> QED BY <2>1, <1>0 DEF Renumbered
<1>3. ASSUME NEW n \in Clients, Lose(n) \/ SrvNote(n) \/ Unregister(n) \/ Reconnect(n)
      PROVE  \/ /\ conn'[c].sess = conn[c].sess
                /\ conn'[c].st # "off" => conn[c].st # "off"
             \/ conn'[c].sess > conn[c].sess
  <2>1. CASE Lose(n)
    BY <2>1, <1>0 DEF Lose
  <2>2. CASE SrvNote(n)
    BY <2>2, <1>0 DEF SrvNote
  <2>3. CASE Unregister(n)
    BY <2>3, <1>0 DEF Unregister
  <2>4. CASE Reconnect(n)
    BY <2>4, <1>0 DEF Reconnect
  <2> QED BY <1>3, <2>1, <2>2, <2>3, <2>4
<1>4. CASE Restart
  <2>1. conn'[c] = [conn[c] EXCEPT !.st = "off"]
    BY <1>4 DEF Restart
  <2> QED BY <2>1, <1>0
<1>5. ASSUME NEW p \in DOMAIN pull, PullStep(p), ~Ask(p)
      PROVE  UNCHANGED conn
  BY <1>5, AloneIs DEF PullStep, Alone, Kept, links
<1>6. CASE UNCHANGED vars
  BY <1>6, <1>1 DEF vars, links
<1> QED
  BY <1>1, <1>2, <1>3, <1>4, <1>5, <1>6
     DEF Next, RouterStep, Enter, Cancel, Announce, SrvRead, SrvReply, RouteSend, LocalRead,
         ClientServe, ClientReply, RemoveReceived, links

\* While nothing new is announced and no pull begins, announcements stay what they were.
LEMMA AnnouncedKept ==
  ASSUME Types, SessionNumbers, Announced, SamePulled,
         cur'.epoch = cur.epoch, cur'.seq = cur.seq,
         \A m \in Machines : /\ own'[m] = own[m] \/ own'[m] = None
                             /\ remote'[m].ann = remote[m].ann \/ remote'[m].ann = None,
         \A c \in Clients : \/ /\ conn'[c].sess = conn[c].sess
                               /\ conn'[c].st # "off" => conn[c].st # "off"
                            \/ conn'[c].sess > conn[c].sess
  PROVE  /\ Announced'
         /\ \A a \in Announcements : Genuine(a) => Genuine(a)'
<1>1. ASSUME NEW a \in Announcements, Genuine(a) PROVE Genuine(a)'
  <2>1. \A p \in DOMAIN pull' : pull'[p].ann.seq = a.seq /\ pull'[p].ann.epoch = a.epoch => pull'[p].ann = a
    BY <1>1 DEF Genuine, SamePulled
  <2>2. \A m \in Machines :
       /\ own'[m] # None /\ own'[m].seq = a.seq => own'[m] = a
       /\ remote'[m].ann # None /\ remote'[m].ann.seq = a.seq => remote'[m].ann = a
    BY <1>1 DEF Genuine
  <2>3. a.epoch = cur'.epoch /\ a.seq <= cur'.seq
    BY <1>1 DEF Genuine
  <2> QED BY <2>1, <2>2, <2>3 DEF Genuine
<1>2. ASSUME NEW m \in Machines
      PROVE  /\ own'[m] # None => Genuine(own[m])'
             /\ remote'[m].ann # None => Genuine(remote[m].ann)'
  <2>1. own[m] \in Announcements \cup {None} /\ remote[m].ann \in Announcements \cup {None}
    BY DEF Types, RouterTypes
  <2>2. ASSUME NEW a \in Announcements, Genuine(a), own'[m] = a PROVE Genuine(own[m])'
    BY <2>2, <1>1 DEF Genuine
  <2>3. ASSUME NEW a \in Announcements, Genuine(a), remote'[m].ann = a PROVE Genuine(remote[m].ann)'
    BY <2>3, <1>1 DEF Genuine
  <2>4. own'[m] # None => own'[m] = own[m] /\ own[m] \in Announcements /\ Genuine(own[m])
    BY <2>1 DEF Announced
  <2>5. remote'[m].ann # None =>
          remote'[m].ann = remote[m].ann /\ remote[m].ann \in Announcements /\ Genuine(remote[m].ann)
    BY <2>1 DEF Announced
  <2> QED BY <2>2, <2>3, <2>4, <2>5
<1>3. ASSUME NEW p \in DOMAIN pull
      PROVE  /\ pull'[p].ann.epoch <= cur'.epoch
             /\ pull'[p].ann.epoch = cur'.epoch => Genuine(pull[p].ann)'
             /\ /\ pull'[p].st \in Running
                /\ pull'[p].who # Srv => conn'[pull'[p].who].st # "off" /\ conn'[pull'[p].who].sess = pull'[p].sess
                => pull'[p].ann.epoch = cur'.epoch
  <2>1. /\ pull'[p].who = pull[p].who /\ pull'[p].ann = pull[p].ann /\ pull'[p].sess = pull[p].sess
        /\ pull'[p].st \in Running => pull[p].st \in Running
    BY DEF SamePulled
  <2>2. pull[p].ann \in Announcements /\ (pull[p].who # Srv => pull[p].who \in Clients) /\ pull[p].sess \in Nat
    BY PullFields
  <2>3. ASSUME NEW a \in Announcements, Genuine(a), pull'[p].ann = a PROVE Genuine(pull[p].ann)'
    BY <2>3, <1>1 DEF Genuine
  <2>4. /\ pull[p].ann.epoch <= cur.epoch
        /\ pull[p].ann.epoch = cur.epoch => Genuine(pull[p].ann)
        /\ /\ pull[p].st \in Running
           /\ pull[p].who # Srv => conn[pull[p].who].st # "off" /\ conn[pull[p].who].sess = pull[p].sess
           => pull[p].ann.epoch = cur.epoch
    BY DEF Announced
  <2>5. ASSUME pull'[p].st \in Running,
               pull[p].who # Srv => conn'[pull[p].who].st # "off" /\ conn'[pull[p].who].sess = pull[p].sess
        PROVE  pull[p].ann.epoch = cur.epoch
    <3>1. ASSUME pull[p].who # Srv
          PROVE  conn[pull[p].who].st # "off" /\ conn[pull[p].who].sess = pull[p].sess
      <4>1. pull[p].who \in Clients /\ pull[p].sess <= conn[pull[p].who].sess /\ conn[pull[p].who].sess \in Nat
        BY <2>2, <3>1 DEF SessionNumbers, Types, LinkTypes
      <4>2. conn'[pull[p].who].st # "off" /\ conn'[pull[p].who].sess = pull[p].sess
        BY <2>5, <3>1
      <4> QED BY <4>1, <4>2, <2>2
    <3> QED BY <3>1, <2>1, <2>4, <2>5
  <2>6. pull'[p].ann.epoch = cur'.epoch => Genuine(pull[p].ann)'
    BY <2>1, <2>2, <2>3, <2>4
  <2>7. pull'[p].ann.epoch <= cur'.epoch
    BY <2>1, <2>4
  <2>8. ASSUME pull'[p].st \in Running,
               pull'[p].who # Srv => conn'[pull'[p].who].st # "off" /\ conn'[pull'[p].who].sess = pull'[p].sess
        PROVE  pull'[p].ann.epoch = cur'.epoch
    BY <2>1, <2>5, <2>8
  <2> QED BY <2>6, <2>7, <2>8
<1>4. \A p \in DOMAIN pull' : p \in DOMAIN pull
  BY DEF SamePulled
<1> QED BY <1>1, <1>2, <1>3, <1>4 DEF Announced

LEMMA AnnounceAnnounced ==
  ASSUME Types, Announced, NEW m \in Owners, NEW roots \in Copyable[m], Announce(m, roots)
  PROVE  Announced' /\ \A a \in Announcements : Genuine(a) => Genuine(a)'
<1> DEFINE ann == [seq |-> cur.seq + 1, epoch |-> cur.epoch, roots |-> roots]
<1>1. /\ cur' = [cur EXCEPT !.who = m, !.seq = ann.seq]
      /\ own' = [own EXCEPT ![m] = ann]
      /\ remote' = [n \in Machines |->
                  IF n = m THEN [remote[n] EXCEPT !.ann = None]
                  ELSE IF On(n) THEN [remote[n] EXCEPT !.ann = ann] ELSE remote[n]]
      /\ UNCHANGED <<pull, conn>>
  BY DEF Announce, links
<1>2. /\ cur.seq \in Nat /\ cur.epoch \in Nat /\ cur'.seq = cur.seq + 1 /\ cur'.epoch = cur.epoch
      /\ m \in Machines
  BY <1>1, PullAssumption DEF Types, RouterTypes
<1>3. /\ \A n \in Machines : own'[n] = own[n] \/ own'[n] = ann
      /\ \A n \in Machines : remote'[n].ann \in {None, ann, remote[n].ann}
  BY <1>1 DEF Types, RouterTypes
<1>4. ann.seq = cur.seq + 1 /\ ann.epoch = cur.epoch
  OBVIOUS
<1> HIDE DEF ann
<1>5. ASSUME NEW a \in Announcements, Genuine(a) PROVE Genuine(a)'
  <2>1. a.epoch = cur.epoch /\ a.seq <= cur.seq /\ a.seq \in Nat
    BY <1>5, AnnouncementIs DEF Genuine
  <2>2. \A n \in Machines :
       /\ own'[n] # None /\ own'[n].seq = a.seq => own'[n] = a
       /\ remote'[n].ann # None /\ remote'[n].ann.seq = a.seq => remote'[n].ann = a
    BY <2>1, <1>2, <1>3, <1>4, <1>5 DEF Genuine
  <2> QED BY <2>1, <2>2, <1>1, <1>2, <1>5 DEF Genuine
<1>6. \A p \in DOMAIN pull : /\ pull[p].ann.epoch <= cur.epoch /\ pull[p].ann.epoch \in Nat
                             /\ pull[p].ann.seq \in Nat /\ pull[p].ann \in Announcements
                             /\ pull[p].ann.epoch = cur.epoch => pull[p].ann.seq <= cur.seq
  BY PullFields DEF Announced, Genuine
<1>7. /\ ann.epoch = cur'.epoch /\ ann.seq <= cur'.seq
      /\ \A n \in Machines :
           /\ own'[n] # None /\ own'[n].seq = ann.seq => own'[n] = ann
           /\ remote'[n].ann # None /\ remote'[n].ann.seq = ann.seq => remote'[n].ann = ann
      /\ \A p \in DOMAIN pull' :
           pull'[p].ann.seq = ann.seq /\ pull'[p].ann.epoch = ann.epoch => pull'[p].ann = ann
  <2>1. \A n \in Machines : /\ own[n] # None => own[n].seq <= cur.seq /\ own[n].seq \in Nat
                            /\ remote[n].ann # None => remote[n].ann.seq <= cur.seq /\ remote[n].ann.seq \in Nat
    BY AnnouncementIs DEF Announced, Genuine, Types, RouterTypes
  <2> QED BY <2>1, <1>1, <1>2, <1>3, <1>4, <1>6
<1>8. ASSUME NEW n \in Machines
      PROVE  /\ own'[n] # None => Genuine(own[n])'
             /\ remote'[n].ann # None => Genuine(remote[n].ann)'
  <2>1. ASSUME own'[n] = ann PROVE Genuine(own[n])'
    BY <2>1, <1>7 DEF Genuine
  <2>2. ASSUME remote'[n].ann = ann PROVE Genuine(remote[n].ann)'
    BY <2>2, <1>7 DEF Genuine
  <2>3. ASSUME NEW a \in Announcements, Genuine(a), own'[n] = a PROVE Genuine(own[n])'
    BY <2>3, <1>5 DEF Genuine
  <2>4. ASSUME NEW a \in Announcements, Genuine(a), remote'[n].ann = a PROVE Genuine(remote[n].ann)'
    BY <2>4, <1>5 DEF Genuine
  <2>5. /\ own[n] # None => own[n] \in Announcements /\ Genuine(own[n])
        /\ remote[n].ann # None => remote[n].ann \in Announcements /\ Genuine(remote[n].ann)
    BY DEF Announced, Types, RouterTypes
  <2> QED BY <2>1, <2>2, <2>3, <2>4, <2>5, <1>3
<1>9. ASSUME NEW p \in DOMAIN pull
      PROVE  pull'[p].ann.epoch = cur'.epoch => Genuine(pull[p].ann)'
  <2>1. ASSUME NEW a \in Announcements, Genuine(a), pull[p].ann = a PROVE Genuine(pull[p].ann)'
    BY <2>1, <1>1, <1>5 DEF Genuine
  <2>2. pull[p].ann.epoch = cur.epoch => pull[p].ann \in Announcements /\ Genuine(pull[p].ann)
    BY <1>6 DEF Announced
  <2> QED BY <2>1, <2>2, <1>1, <1>2
<1>10. \A p \in DOMAIN pull' :
         /\ pull'[p].ann.epoch <= cur'.epoch
         /\ /\ pull'[p].st \in Running
            /\ pull'[p].who # Srv => conn'[pull'[p].who].st # "off" /\ conn'[pull'[p].who].sess = pull'[p].sess
            => pull'[p].ann.epoch = cur'.epoch
  BY <1>1, <1>2 DEF Announced
<1>11. \A p \in DOMAIN pull' : p \in DOMAIN pull
  BY <1>1
<1> QED BY <1>5, <1>8, <1>9, <1>10, <1>11 DEF Announced

LEMMA EnterAnnounced ==
  ASSUME Types, Announced, NEW m \in Machines, Enter(m)
  PROVE  Announced' /\ \A a \in Announcements : Genuine(a) => Genuine(a)'
<1> DEFINE new == Len(pull) + 1
           ann == remote[m].ann
<1>1. /\ ann \in Announcements /\ ann # None
      /\ DOMAIN pull = 1..Len(pull) /\ Len(pull) \in Nat /\ DOMAIN pull' = 1..new
      /\ \A p \in DOMAIN pull : pull'[p] = pull[p]
      /\ UNCHANGED <<cur, own, conn>>
  BY EnterIs, AnnouncementIs DEF server, links
<1>8. pull'[new].ann = ann /\ pull'[new].who = m
  <2>1. pull'[Len(pull) + 1] = [who |-> m, ann |-> remote[m].ann, st |-> "new", got |-> <<>>,
                           req |-> 0, ans |-> None, gen |-> cancel[m],
                           sess |-> IF m = Srv THEN 0 ELSE conn[m].sess]
    BY EnterIs
  <2> QED BY <2>1
<1>2. \A n \in Machines : remote'[n].ann = remote[n].ann
  <2>1. remote' = [remote EXCEPT ![m].last = remote[m].ann]
    BY EnterIs
  <2>2. remote \in [Machines -> [ann : Announcements \cup {None}, last : Announcements \cup {None}]]
    BY DEF Types, RouterTypes
  <2> QED BY <2>1, <2>2
<1>3. Genuine(ann)
  BY <1>1 DEF Announced
<1> HIDE DEF ann
<1>4. DOMAIN pull' = DOMAIN pull \cup {new}
  BY <1>1
<1> HIDE DEF new
<1>5. ASSUME NEW a \in Announcements, Genuine(a) PROVE Genuine(a)'
  <2>1. ann.seq = a.seq => ann = a
    BY <1>1, <1>5 DEF Genuine, ann
  <2>2. \A p \in DOMAIN pull' : pull'[p].ann.seq = a.seq /\ pull'[p].ann.epoch = a.epoch => pull'[p].ann = a
    BY <2>1, <1>1, <1>8, <1>4, <1>5 DEF Genuine
  <2> QED BY <2>2, <1>1, <1>2, <1>5 DEF Genuine
<1>6. ASSUME NEW n \in Machines
      PROVE  /\ own'[n] # None => Genuine(own[n])'
             /\ remote'[n].ann # None => Genuine(remote[n].ann)'
  <2>1. ASSUME NEW a \in Announcements, Genuine(a), own'[n] = a PROVE Genuine(own[n])'
    BY <2>1, <1>5 DEF Genuine
  <2>2. ASSUME NEW a \in Announcements, Genuine(a), remote'[n].ann = a PROVE Genuine(remote[n].ann)'
    BY <2>2, <1>5 DEF Genuine
  <2>3. /\ own[n] # None => own[n] \in Announcements /\ Genuine(own[n])
        /\ remote[n].ann # None => remote[n].ann \in Announcements /\ Genuine(remote[n].ann)
    BY DEF Announced, Types, RouterTypes
  <2> QED BY <2>1, <2>2, <2>3, <1>1, <1>2
<1>7. ASSUME NEW p \in DOMAIN pull'
      PROVE  /\ pull'[p].ann.epoch <= cur'.epoch
             /\ pull'[p].ann.epoch = cur'.epoch => Genuine(pull[p].ann)'
             /\ /\ pull'[p].st \in Running
                /\ pull'[p].who # Srv => conn'[pull'[p].who].st # "off" /\ conn'[pull'[p].who].sess = pull'[p].sess
                => pull'[p].ann.epoch = cur'.epoch
  <2>1. ASSUME NEW a \in Announcements, Genuine(a), pull'[p].ann = a PROVE Genuine(pull[p].ann)'
    BY <2>1, <1>5 DEF Genuine
  <2>2. CASE p = new
    <3>1. ann.epoch = cur'.epoch /\ cur.epoch \in Nat
      BY <1>1, <1>3 DEF Genuine, Types, RouterTypes
    <3> QED BY <2>1, <2>2, <3>1, <1>1, <1>8, <1>3
  <2>3. CASE p \in DOMAIN pull
    <3>1. pull'[p] = pull[p] /\ pull[p].ann \in Announcements
      BY <2>3, <1>1, PullFields
    <3>2. pull'[p].ann.epoch = cur'.epoch => Genuine(pull[p].ann)'
      BY <3>1, <2>1, <2>3, <1>1 DEF Announced
    <3>3. /\ pull[p].ann.epoch <= cur.epoch
          /\ /\ pull[p].st \in Running
             /\ pull[p].who # Srv => conn[pull[p].who].st # "off" /\ conn[pull[p].who].sess = pull[p].sess
             => pull[p].ann.epoch = cur.epoch
      BY <2>3 DEF Announced
    <3> QED BY <3>1, <3>2, <3>3, <1>1
  <2> QED BY <2>2, <2>3, <1>4
<1> QED BY <1>5, <1>6, <1>7 DEF Announced

LEMMA RestartAnnounced ==
  ASSUME Types, Announced, Restart
  PROVE  Announced' /\ cur'.epoch # cur.epoch
<1>1. /\ cur.epoch \in Nat /\ cur'.epoch = cur.epoch + 1
      /\ \A m \in Machines : own'[m] = None /\ remote'[m].ann = None
      /\ \A c \in Clients : conn'[c].st = "off"
      /\ DOMAIN pull' = DOMAIN pull
  <2>1. /\ cur' = [who |-> None, seq |-> 0, epoch |-> cur.epoch + 1]
        /\ own' = [m \in Machines |-> None]
        /\ remote' = [m \in Machines |-> [ann |-> None, last |-> None]]
        /\ conn' = [c \in Clients |-> [conn[c] EXCEPT !.st = "off"]]
        /\ DOMAIN pull' = DOMAIN pull
    BY RestartIs
  <2>2. cur.epoch \in Nat
    BY DEF Types, RouterTypes
  <2>3. \A c \in Clients : DOMAIN conn[c] = {"st", "sess", "next"}
    BY DEF Types, LinkTypes
  <2> QED BY <2>1, <2>2, <2>3
<1>2. ASSUME NEW p \in DOMAIN pull
      PROVE  /\ pull'[p].ann = pull[p].ann /\ pull'[p].who = pull[p].who
             /\ pull[p].who = Srv => pull'[p].st \notin Running
  BY RestartIs DEF Running
<1>3. ASSUME NEW p \in DOMAIN pull
      PROVE  /\ pull'[p].ann.epoch <= cur'.epoch /\ pull'[p].ann.epoch # cur'.epoch
             /\ ~ /\ pull'[p].st \in Running
                  /\ pull'[p].who # Srv => conn'[pull'[p].who].st # "off"
  <2>1. pull[p].ann.epoch <= cur.epoch /\ pull[p].ann.epoch \in Nat
        /\ (pull[p].who # Srv => pull[p].who \in Clients)
    BY PullFields DEF Announced
  <2> QED BY <2>1, <1>1, <1>2
<1> QED BY <1>1, <1>3 DEF Announced

LEMMA OnlyAnswersSame == OnlyAnswers => SamePulled
BY DEF OnlyAnswers, SamePulled

LEMMA AloneSame ==
  ASSUME Types, NEW p \in DOMAIN pull, Alone(p)
  PROVE  SamePulled /\ UNCHANGED <<server, own, remote, links, cancel, history, faults>>
BY AloneIs DEF Kept, SamePulled

LEMMA AskSame ==
  ASSUME Types, NEW p \in DOMAIN pull, Ask(p)
  PROVE  SamePulled /\ UNCHANGED <<cur, pending, nextReq, own, remote, down, cancel, stage, history, faults>>
BY AskIs DEF SamePulled, Running

\* Announced is kept, and within a run of the server so is each announcement.
LEMMA NextAnnounced ==
  ASSUME Types, RouterNumbers, SessionNumbers, Announced, [Next]_vars
  PROVE  /\ Announced'
         /\ cur'.epoch = cur.epoch => \A a \in Announcements : Genuine(a) => Genuine(a)'
<1>1. ASSUME SamePulled,
             cur'.epoch = cur.epoch, cur'.seq = cur.seq,
             \A m \in Machines : /\ own'[m] = own[m] \/ own'[m] = None
                                 /\ remote'[m].ann = remote[m].ann \/ remote'[m].ann = None
      PROVE  Announced' /\ \A a \in Announcements : Genuine(a) => Genuine(a)'
  BY <1>1, NextConn, AnnouncedKept
<1>2. ASSUME SamePulled, UNCHANGED <<cur, own, remote>>
      PROVE  Announced' /\ \A a \in Announcements : Genuine(a) => Genuine(a)'
  BY <1>1, <1>2
<1>3. CASE \E m \in Owners : \E roots \in Copyable[m] : Announce(m, roots)
  BY <1>3, AnnounceAnnounced
<1>4. CASE \E m \in Machines : Enter(m)
  BY <1>4, EnterAnnounced
<1>5. CASE Restart
  BY <1>5, RestartAnnounced
<1>6. ASSUME NEW c \in Clients, Lose(c)
      PROVE  Announced' /\ \A a \in Announcements : Genuine(a) => Genuine(a)'
  <2>1. /\ own' = [own EXCEPT ![c] = None]
        /\ remote' = [remote EXCEPT ![c] = [ann |-> None, last |-> None]]
        /\ UNCHANGED cur
    BY <1>6 DEF Lose, server
  <2>2. \A m \in Machines : /\ own'[m] = own[m] \/ own'[m] = None
                            /\ remote'[m].ann = remote[m].ann \/ remote'[m].ann = None
    BY <2>1 DEF Types, RouterTypes
  <2>3. SamePulled
    BY <1>6, OthersOnlyAnswers, OnlyAnswersSame
  <2> QED BY <2>1, <2>2, <2>3, <1>1
<1>7. ASSUME NEW c \in Clients, SrvNote(c)
      PROVE  Announced' /\ \A a \in Announcements : Genuine(a) => Genuine(a)'
  <2>1. UNCHANGED <<own, remote>> /\ cur' = IF cur.who = c THEN [cur EXCEPT !.who = None] ELSE cur
    BY <1>7 DEF SrvNote
  <2>2. cur'.epoch = cur.epoch /\ cur'.seq = cur.seq
    BY <2>1 DEF Types, RouterTypes
  <2>3. SamePulled
    BY <1>7, RouterOnlyAnswers, OnlyAnswersSame
  <2> QED BY <2>1, <2>2, <2>3, <1>1
<1>8. CASE \/ \E c \in Clients : SrvRead(c) \/ SrvReply(c) \/ ClientReply(c)
           \/ \E r \in route : RouteSend(r)
           \/ \E w \in local : LocalRead(w)
  <2>1. SamePulled
    BY <1>8, RouterOnlyAnswers, OnlyAnswersSame
  <2>2. UNCHANGED <<cur, own, remote>>
    BY <1>8 DEF SrvRead, SrvReply, ClientReply, RouteSend, LocalRead, server
  <2> QED BY <2>1, <2>2, <1>2
<1>9. CASE \/ \E c \in Clients : ClientServe(c) \/ Unregister(c) \/ Reconnect(c)
           \/ \E m \in Machines : Cancel(m)
           \/ \E m \in Machines, s \in 1..MaxSeq : RemoveReceived(m, s)
           \/ UNCHANGED vars
  <2>1. SamePulled
    BY <1>9, OthersOnlyAnswers, OnlyAnswersSame
  <2>2. UNCHANGED <<cur, own, remote>>
    BY <1>9 DEF ClientServe, Unregister, Reconnect, Cancel, RemoveReceived, server, vars
  <2> QED BY <2>1, <2>2, <1>2
<1>10. ASSUME NEW p \in DOMAIN pull, PullStep(p)
       PROVE  Announced' /\ \A a \in Announcements : Genuine(a) => Genuine(a)'
  <2>1. SamePulled /\ UNCHANGED <<cur, own, remote>>
    BY <1>10, AloneSame, AskSame DEF PullStep, Alone, server
  <2> QED BY <2>1, <1>2
<1> QED
  BY <1>3, <1>4, <1>5, <1>6, <1>7, <1>8, <1>9, <1>10 DEF Next, RouterStep

----------------------------------------------------------------------------
(* The reads the router has in hand.                                       *)

\* Read w is with the router, or on its way to it.
Carried(w) ==
  \/ w \in local
  \/ \E r \in route : r.w = w
  \/ \E x \in pending : x.w = w
  \/ \E c \in Clients : \E q \in Range(up[c]) : q.t = "read" /\ q.w = w

LEMMA TokenIs ==
  ASSUME Types
  PROVE  /\ local \subseteq Requests /\ \A r \in route : r.w \in Requests
         /\ \A x \in pending : x.w \in Requests
         /\ \A c \in Clients : \A q \in Range(up[c]) : q.t = "read" => q.w \in Requests
<1>1. local \subseteq Requests /\ \A r \in route : r.w \in Requests
  BY DEF Types, RouterTypes
<1>2. \A x \in pending : x.w \in Requests
  BY DEF Types, RouterTypes
<1>3. ASSUME NEW c \in Clients, NEW q \in Range(up[c]), q.t = "read" PROVE q.w \in Requests
  <2>1. up[c] \in Seq(UpMessages)
    BY DEF Types, LinkTypes
  <2>2. q \in UpMessages
    BY <2>1 DEF Range
  <2> QED BY <2>2, <1>3 DEF UpMessages
<1> QED BY <1>1, <1>2, <1>3

LEMMA InHandIs ==
  ASSUME InHand, NEW w, Carried(w)
  PROVE  Held(w)
BY DEF InHand, Carried

LEMMA InHandFrom ==
  ASSUME Types', \A w \in Requests : Carried(w)' => Held(w)'
  PROVE  InHand'
<1>1. /\ local' \subseteq Requests /\ \A r \in route' : r.w \in Requests
      /\ \A x \in pending' : x.w \in Requests
      /\ \A c \in Clients : \A q \in Range(up'[c]) : q.t = "read" => q.w \in Requests
  <2>1. local' \subseteq Requests /\ \A r \in route' : r.w \in Requests
    BY DEF Types, RouterTypes
  <2>2. \A x \in pending' : x.w \in Requests
    BY DEF Types, RouterTypes
  <2>3. ASSUME NEW c \in Clients, NEW q \in Range(up'[c]), q.t = "read" PROVE q.w \in Requests
    <3>1. up'[c] \in Seq(UpMessages)
      BY DEF Types, LinkTypes
    <3>2. q \in UpMessages
      BY <3>1 DEF Range
    <3> QED BY <3>2, <2>3 DEF UpMessages
  <2> QED BY <2>1, <2>2, <2>3
<1> QED BY <1>1 DEF InHand, Carried

\* A pull that waits has been waiting for the same.
SameAsked ==
  /\ DOMAIN pull' = DOMAIN pull
  /\ \A p \in DOMAIN pull :
       /\ pull'[p].who = pull[p].who /\ pull'[p].ann = pull[p].ann /\ pull'[p].sess = pull[p].sess
       /\ pull'[p].st = "waiting" =>
            pull[p].st = "waiting" /\ pull'[p].req = pull[p].req /\ pull'[p].got = pull[p].got

LEMMA OnlyAnswersAsked == OnlyAnswers => SameAsked
BY DEF OnlyAnswers, SameAsked

LEMMA AloneAsked ==
  ASSUME Types, NEW p \in DOMAIN pull, Alone(p)
  PROVE  SameAsked
<1>1. Kept(p) /\ (Starts(p) \/ Gets(p) \/ Quits(p) \/ Places(p))
  BY AloneIs
<1>2. pull'[p].st # "waiting"
  BY <1>1 DEF Starts, Gets, Quits, Places
<1> QED BY <1>1, <1>2 DEF Kept, SameAsked

LEMMA HeldKept ==
  ASSUME Types, SessionNumbers, SameAsked, NEW w \in Requests, Held(w), owed \subseteq owed',
         w.who # Srv /\ w.who \notin owed' =>
           /\ conn'[w.who].st = conn[w.who].st /\ conn'[w.who].sess = conn[w.who].sess
           /\ conn'[w.who].next = conn[w.who].next,
         w.who = Srv => /\ pull'[w.req].st \notin {"new", "ready"}
                        /\ pull'[w.req].st = "waiting" => pull'[w.req].ans = pull[w.req].ans
  PROVE  Held(w)'
<1>1. w.who # Srv /\ w.who \notin owed' => conn'[w.who].st = "on" /\ w.req < conn'[w.who].next
  BY DEF Held
<1>2. w.who = Srv => /\ w.req \in DOMAIN pull' /\ pull'[w.req].who = Srv
                     /\ pull'[w.req].st \notin {"new", "ready"}
  BY DEF Held, SameAsked
<1>3. ASSUME w.who \notin owed', NEW p \in DOMAIN pull',
             Its(w, pull'[p]), pull'[p].st = "waiting",
             w.who # Srv => pull'[p].sess = conn'[w.who].sess
      PROVE  /\ w.seq = pull'[p].ann.seq /\ w.at = Asks(pull'[p])
             /\ w.who = Srv => pull'[p].ans = None
  <2>1. /\ p \in DOMAIN pull /\ pull[p].st = "waiting"
        /\ pull'[p].who = pull[p].who /\ pull'[p].ann = pull[p].ann /\ pull'[p].sess = pull[p].sess
        /\ pull'[p].req = pull[p].req /\ pull'[p].got = pull[p].got
    BY <1>3 DEF SameAsked
  <2>2. Its(w, pull[p]) /\ (w.who # Srv => pull[p].sess = conn[w.who].sess)
    BY <1>3, <2>1 DEF Its
  <2>3. w.seq = pull[p].ann.seq /\ w.at = Asks(pull[p]) /\ (w.who = Srv => pull[p].ans = None)
    BY <1>3, <2>1, <2>2 DEF Held, Matches
  <2>4. w.who = Srv => p = w.req
    BY <2>1, <2>2 DEF SessionNumbers, Its
  <2>5. Asks(pull'[p]) = Asks(pull[p])
    BY <2>1 DEF Asks
  <2> QED BY <1>3, <2>1, <2>3, <2>4, <2>5
<1>4. w.who \notin owed' => Matches(w)'
  BY <1>3 DEF Matches, Its, Asks
<1> QED BY <1>1, <1>2, <1>4 DEF Held

\* Answers come, and the reads in hand that remain are of pulls that got none.
LEMMA InHandKept ==
  ASSUME Types, Types', SessionNumbers, InHand, OnlyAnswers, UNCHANGED <<conn, owed>>,
         \A w \in Requests : Carried(w)' =>
           Carried(w) /\ (w.who = Srv => pull'[w.req].ans = pull[w.req].ans)
  PROVE  InHand'
<1> SUFFICES ASSUME NEW w \in Requests, Carried(w)' PROVE Held(w)'
  BY InHandFrom
<1>1. Held(w)
  BY InHandIs
<1>2. w.who = Srv => pull'[w.req].st \notin {"new", "ready"}
  BY <1>1 DEF Held, OnlyAnswers
<1> QED BY <1>1, <1>2, OnlyAnswersAsked, HeldKept

LEMMA DeliverInHand ==
  ASSUME Types, Types', SessionNumbers, InHand, UNCHANGED <<conn, owed>>,
         NEW w \in Requests, NEW ans \in Answers, Deliver(w, ans),
         \A u \in Requests : Carried(u)' => Carried(u) /\ (w.who = Srv => ~Its(u, w))
  PROVE  InHand'
<1>1. pull' = [p \in DOMAIN pull |->
                 IF w.who = Srv /\ w.req = p /\ pull[p].st = "waiting"
                 THEN [pull[p] EXCEPT !.ans = ans] ELSE pull[p]]
  BY DeliverIs DEF Types
<1>2. ASSUME NEW u \in Requests, Carried(u)', u.who = Srv PROVE pull'[u.req].ans = pull[u.req].ans
  <2>1. Held(u) /\ (w.who = Srv => ~Its(u, w))
    BY <1>2, InHandIs
  <2>2. u.req \in DOMAIN pull
    BY <1>2, <2>1 DEF Held
  <2>3. ~(w.who = Srv /\ w.req = u.req)
    BY <1>2, <2>1 DEF Its
  <2> QED BY <1>1, <2>2, <2>3
<1> QED BY <1>2, DeliverOnlyAnswers, InHandKept

LEMMA OneOutFewer ==
  ASSUME OneOut, local' \subseteq local, route' \subseteq route, pending' \subseteq pending
  PROVE  OneOut'
BY DEF OneOut, Its

\* Of the server's own pull, nothing is left in hand of a read that was taken out.
LEMMA TakenOut ==
  ASSUME OneOut, OwnReads', NEW w, w.who = Srv, NEW u, Carried(u)',
         \/ /\ w \in local /\ local' = local \ {w} /\ UNCHANGED <<route, pending>>
         \/ /\ \E r \in route : r.w = w /\ route' = route \ {r}
            /\ UNCHANGED <<local, pending>>
         \/ /\ \E x \in pending : x.w = w /\ x \notin pending' /\ pending' \subseteq pending
            /\ UNCHANGED <<local, route>>
  PROVE  ~Its(u, w)
<1> SUFFICES ASSUME Its(u, w) PROVE FALSE
  OBVIOUS
<1>1. u.who = Srv /\ Its(w, u)
  BY DEF Its
<1>2. u \in local' \/ (\E r \in route' : r.w = u) \/ (\E x \in pending' : x.w = u)
  BY <1>1, ClientIs DEF Carried, OwnReads
<1>3. CASE w \in local /\ local' = local \ {w} /\ UNCHANGED <<route, pending>>
  BY <1>1, <1>2, <1>3 DEF OneOut
<1>4. ASSUME NEW r \in route, r.w = w, route' = route \ {r}, UNCHANGED <<local, pending>> PROVE FALSE
  BY <1>1, <1>2, <1>4 DEF OneOut
<1>5. ASSUME NEW x \in pending, x.w = w, x \notin pending', pending' \subseteq pending, UNCHANGED <<local, route>>
      PROVE FALSE
  BY <1>1, <1>2, <1>5 DEF OneOut
<1> QED BY <1>3, <1>4, <1>5

LEMMA SrvReadInHand ==
  ASSUME Types, Types', SessionNumbers, OwnReads, InHand, OneOut, NEW c \in Clients, SrvRead(c)
  PROVE  InHand' /\ OneOut'
<1> DEFINE w == Head(up[c]).w
<1>1. /\ up[c] # <<>> /\ Head(up[c]).t = "read" /\ w \in Requests
      /\ up' = [up EXCEPT ![c] = Tail(@)]
      /\ local' = IF cur.who = Srv THEN local \cup {w} ELSE local
      /\ route' = IF cur.who \in Clients THEN route \cup {[w |-> w, to |-> cur.who]} ELSE route
      /\ IF cur.who = None THEN Deliver(w, NotFound) ELSE UNCHANGED <<down, pull>>
      /\ UNCHANGED <<pending, conn, owed>>
  BY SrvReadIs DEF RouteTo, history
<1>2. /\ Range(up[c]) = {Head(up[c])} \cup Range(up'[c])
      /\ \A n \in Clients : n # c => up'[n] = up[n]
  BY <1>1, UpTail
<1>3. Head(up[c]) \in Range(up[c]) /\ w.who = c /\ w.who # Srv
  BY <1>1, <1>2, ClientIs DEF OwnReads
<1>4. Carried(w)
  BY <1>1, <1>3 DEF Carried
<1> HIDE DEF w
<1>5. ASSUME NEW u \in Requests, Carried(u)' PROVE Carried(u)
  <2>1. CASE \E n \in Clients : \E q \in Range(up'[n]) : q.t = "read" /\ q.w = u
    BY <2>1, <1>2 DEF Carried
  <2>2. CASE u \in local'
    BY <2>2, <1>1, <1>4 DEF Carried
  <2>3. CASE \E r \in route' : r.w = u
    <3>1. PICK r \in route' : r.w = u
      BY <2>3
    <3>2. r \in route \/ r.w = w
      BY <1>1
    <3> QED BY <3>1, <3>2, <1>4 DEF Carried
  <2>4. CASE \E x \in pending' : x.w = u
    BY <2>4, <1>1 DEF Carried
  <2> QED BY <1>5, <2>1, <2>2, <2>3, <2>4 DEF Carried
<1>6. InHand'
  <2>1. CASE cur.who = None
    BY <2>1, <1>1, <1>3, <1>5, AnswerIs, DeliverInHand
  <2>2. CASE cur.who # None
    BY <2>2, <1>1, <1>5, SameOnlyAnswers, InHandKept
  <2> QED BY <2>1, <2>2
<1>7. /\ \A v \in local' : v.who = Srv => v \in local
      /\ \A r \in route' : r.w.who = Srv => r \in route
  BY <1>1, <1>3
<1>8. OneOut'
  BY <1>1, <1>7 DEF OneOut, Its
<1> QED BY <1>6, <1>8

LEMMA RouteSendInHand ==
  ASSUME Types, Types', SessionNumbers, OwnReads', InHand, OneOut, NEW r \in route, RouteSend(r)
  PROVE  InHand' /\ OneOut'
<1> DEFINE w == r.w
           x0 == [req |-> nextReq, to |-> r.to, w |-> r.w, late |-> conn[r.to].st = "noted"]
<1>1. /\ w \in Requests /\ route' = route \ {r}
      /\ \/ pending' = pending \cup {x0} /\ UNCHANGED pull
         \/ pending' = pending /\ Deliver(w, NotFound)
      /\ UNCHANGED <<local, up, conn, owed>>
  BY RouteSendIs DEF history
<1>2. x0.w = w
  OBVIOUS
<1> HIDE DEF x0, w
<1>3. Carried(w)
  BY DEF Carried, w
<1>4. ASSUME NEW u \in Requests, Carried(u)' PROVE Carried(u)
  BY <1>4, <1>1, <1>2, <1>3 DEF Carried
<1>5. CASE pending' = pending \cup {x0} /\ UNCHANGED pull
  <2>1. InHand'
    BY <1>1, <1>4, <1>5, SameOnlyAnswers, InHandKept
  <2>2. \A v \in route' : v \in route /\ (v.w.who = Srv => ~Its(v.w, w))
    BY <1>1 DEF OneOut, w
  <2>3. \A v \in local' : v \in local /\ (v.who = Srv => ~Its(v, w))
    BY <1>1 DEF OneOut, w
  <2>4. \A x \in pending : w.who = Srv => ~Its(w, x.w) /\ ~Its(x.w, w)
    BY DEF OneOut, w, Its
  <2>5. \A x \in pending : x.w.who = Srv => ~Its(w, x.w) /\ ~Its(x.w, w)
    BY <2>4 DEF Its
  <2>6. OneOut'
    BY <1>1, <1>2, <1>5, <2>2, <2>3, <2>4, <2>5 DEF OneOut, Its
  <2> QED BY <2>1, <2>6
<1>6. CASE pending' = pending /\ Deliver(w, NotFound)
  <2>1. \A u \in Requests : Carried(u)' => Carried(u) /\ (w.who = Srv => ~Its(u, w))
    BY <1>1, <1>4, <1>6, TakenOut DEF w
  <2>2. InHand'
    BY <1>1, <1>6, <2>1, AnswerIs, DeliverInHand
  <2> QED BY <1>1, <1>6, <2>2, OneOutFewer
<1> QED BY <1>1, <1>5, <1>6

LEMMA LocalReadInHand ==
  ASSUME Types, Types', SessionNumbers, OwnReads', InHand, OneOut, NEW w \in local, LocalRead(w)
  PROVE  InHand' /\ OneOut'
<1>1. /\ w \in Requests /\ local' = local \ {w}
      /\ UNCHANGED <<route, pending, up, conn, owed>>
  BY LocalReadIs DEF history
<1>2. PICK ans \in Answers : Deliver(w, ans)
  BY LocalReadIs
<1>3. \A u \in Requests : Carried(u)' => Carried(u)
  BY <1>1 DEF Carried
<1>4. \A u \in Requests : Carried(u)' /\ w.who = Srv => ~Its(u, w)
  BY <1>1, TakenOut
<1>5. InHand'
  BY <1>1, <1>2, <1>3, <1>4, DeliverInHand
<1> QED BY <1>1, <1>5, OneOutFewer

LEMMA SrvReplyInHand ==
  ASSUME Types, Types', RouterNumbers, SessionNumbers, OwnReads', InHand, OneOut, NEW c \in Clients, SrvReply(c)
  PROVE  InHand' /\ OneOut'
<1> DEFINE r == Head(up[c])
           hit == {x \in pending : x.req = r.req}
<1>1. /\ up[c] # <<>> /\ r.ans \in Answers
      /\ up' = [up EXCEPT ![c] = Tail(@)] /\ pending' = pending \ hit
      /\ \/ UNCHANGED pull
         \/ \E x \in pending : hit = {x} /\ Deliver(x.w, IF x.to = c THEN r.ans ELSE NotFound)
      /\ UNCHANGED <<local, route, conn, owed>>
  BY SrvReplyIs DEF history
<1>2. Range(up[c]) = {Head(up[c])} \cup Range(up'[c]) /\ \A n \in Clients : n # c => up'[n] = up[n]
  BY <1>1, UpTail
<1> HIDE DEF hit, r
<1>3. \A u \in Requests : Carried(u)' => Carried(u)
  BY <1>1, <1>2 DEF Carried
<1>4. ASSUME UNCHANGED pull PROVE InHand'
  <2>1. \A u \in Requests : Carried(u)' =>
          Carried(u) /\ (u.who = Srv => pull'[u.req].ans = pull[u.req].ans)
    BY <1>3, <1>4
  <2>2. OnlyAnswers /\ UNCHANGED <<conn, owed>>
    BY <1>1, <1>4, SameOnlyAnswers
  <2> QED BY <2>1, <2>2, InHandKept
<1>5. ASSUME NEW x \in pending, hit = {x}, Deliver(x.w, IF x.to = c THEN r.ans ELSE NotFound)
      PROVE  InHand'
  <2>1. x.w \in Requests /\ (IF x.to = c THEN r.ans ELSE NotFound) \in Answers
    BY <1>1, TokenIs, AnswerIs
  <2>2. x \notin pending' /\ pending' \subseteq pending
    BY <1>1, <1>5
  <2>3. \A u \in Requests : Carried(u)' /\ x.w.who = Srv => ~Its(u, x.w)
    BY <1>1, <2>2, TakenOut
  <2> QED BY <1>1, <1>3, <1>5, <2>1, <2>3, DeliverInHand
<1> QED BY <1>1, <1>4, <1>5, OneOutFewer

LEMMA SrvNoteInHand ==
  ASSUME Types, Types', SessionNumbers, RouterNumbers, OwnReads', InHand, OneOut, NEW c \in Clients, SrvNote(c)
  PROVE  InHand' /\ OneOut'
<1>1. /\ conn[c].st = "closing" /\ ~Routing(c) /\ conn' = [conn EXCEPT ![c].st = "noted"]
      /\ pending' = pending \ Mine(c)
      /\ pull' = [p \in DOMAIN pull |->
                       IF (\E x \in Mine(c) : x.w.who = Srv /\ x.w.req = p) /\ pull[p].st = "waiting"
                       THEN [pull[p] EXCEPT !.ans = NotFound] ELSE pull[p]]
      /\ UNCHANGED <<route, local, up, owed>>
  BY SrvNoteIs DEF history
<1>2. OnlyAnswers
  BY RouterOnlyAnswers
<1>3. \A n \in Clients : n # c => conn'[n] = conn[n]
  BY <1>1 DEF Types, LinkTypes
<1>4. ASSUME NEW u \in Requests, Carried(u)' PROVE Held(u)'
  <2>1. Carried(u)
    BY <1>1, <1>4 DEF Carried
  <2>2. Held(u)
    BY <2>1, InHandIs
  <2>3. u.who # Srv /\ u.who \notin owed' => u.who # c /\ u.who \in Clients
    BY <1>1, <2>2, MachineIs DEF Held, Requests
  <2>4. ASSUME u.who = Srv, NEW x \in Mine(c), x.w.who = Srv, x.w.req = u.req PROVE FALSE
    <3>1. x \in pending /\ x \notin pending' /\ pending' \subseteq pending
      BY <1>1, <2>4 DEF Mine
    <3>2. ~Its(u, x.w)
      BY <1>1, <1>4, <2>4, <3>1, TakenOut
    <3> QED BY <2>4, <3>2 DEF Its
  <2>5. u.who = Srv => pull'[u.req].ans = pull[u.req].ans
    <3> SUFFICES ASSUME u.who = Srv PROVE pull'[u.req].ans = pull[u.req].ans
      OBVIOUS
    <3>1. u.req \in DOMAIN pull
      BY <2>2 DEF Held
    <3>2. ~\E x \in Mine(c) : x.w.who = Srv /\ x.w.req = u.req
      BY <2>4
    <3> QED BY <1>1, <3>1, <3>2
  <2>6. u.who = Srv => pull'[u.req].st \notin {"new", "ready"}
    BY <1>2, <2>2 DEF Held, OnlyAnswers
  <2> QED BY <1>1, <1>2, <1>3, <2>2, <2>3, <2>5, <2>6, OnlyAnswersAsked, HeldKept
<1> QED BY <1>1, <1>4, InHandFrom, OneOutFewer

LEMMA ClientReplyInHand ==
  ASSUME Types, Types', SessionNumbers, RouterNumbers, InHand, OneOut, NEW c \in Clients, ClientReply(c)
  PROVE  InHand' /\ OneOut'
<1>1. /\ pull' = [p \in DOMAIN pull |->
                       IF /\ pull[p].who = c /\ pull[p].sess = conn[c].sess
                          /\ pull[p].st = "waiting" /\ pull[p].req = Head(down[c]).req
                       THEN [pull[p] EXCEPT !.ans = Head(down[c]).ans] ELSE pull[p]]
      /\ UNCHANGED <<local, route, pending, conn, up, owed>>
  BY ClientReplyIs DEF history, server
<1>2. \A u \in Requests : Carried(u)' => Carried(u)
  BY <1>1 DEF Carried
<1>3. ASSUME NEW u \in Requests, Carried(u)', u.who = Srv PROVE pull'[u.req].ans = pull[u.req].ans
  <2>1. u.req \in DOMAIN pull /\ pull[u.req].who = Srv
    BY <1>2, <1>3, InHandIs DEF Held
  <2> QED BY <1>1, <2>1, ClientIs
<1>4. InHand'
  BY <1>1, <1>2, <1>3, RouterOnlyAnswers, InHandKept
<1> QED BY <1>1, <1>4, OneOutFewer

\* A pull that goes on by itself has nothing in hand, or stops waiting.
LEMMA AloneInHand ==
  ASSUME Types, Types', SessionNumbers, InHand, OneOut, NEW p \in DOMAIN pull, Alone(p)
  PROVE  InHand' /\ OneOut'
<1>1. /\ Kept(p) /\ (Starts(p) \/ Gets(p) \/ Quits(p) \/ Places(p))
      /\ UNCHANGED <<local, route, pending, conn, up, owed>>
  BY AloneIs DEF Kept, server, links, history
<1>2. ASSUME NEW u \in Requests, Carried(u)' PROVE Held(u)'
  <2>1. Carried(u)
    BY <1>1, <1>2 DEF Carried
  <2>2. Held(u)
    BY <2>1, InHandIs
  <2>3. ASSUME u.who = Srv PROVE /\ pull'[u.req].st \notin {"new", "ready"}
                                 /\ pull'[u.req].st = "waiting" => pull'[u.req].ans = pull[u.req].ans
    <3>1. u.req \in DOMAIN pull /\ pull[u.req].who = Srv /\ pull[u.req].st \notin {"new", "ready"}
      BY <2>2, <2>3 DEF Held
    <3>2. CASE u.req # p
      BY <1>1, <3>1, <3>2 DEF Kept
    <3>3. CASE u.req = p
      <4>1. ~Starts(p) /\ ~Places(p)
        BY <3>1, <3>3 DEF Starts, Places
      <4>2. ~Gets(p)
        <5> SUFFICES ASSUME Gets(p) PROVE FALSE
          OBVIOUS
        <5>1. pull[p].st = "waiting" /\ pull[p].ans # None /\ pull[p].req = p
          BY <3>1, <3>3 DEF Gets, SessionNumbers
        <5>2. Matches(u) /\ Its(u, pull[p])
          BY <2>2, <2>3, <3>1, <3>3, <5>1, ClientIs DEF Held, Its, Types, PullTypes
        <5> QED BY <2>3, <5>1, <5>2 DEF Matches
      <4> QED BY <1>1, <3>3, <4>1, <4>2 DEF Quits
    <3> QED BY <3>2, <3>3
  <2> QED BY <1>1, <2>2, <2>3, AloneAsked, HeldKept
<1> QED BY <1>1, <1>2, InHandFrom, OneOutFewer

LEMMA QuietInHand ==
  ASSUME Types, Types', SessionNumbers, InHand, OneOut, UNCHANGED <<local, route, pending, pull, conn, owed>>,
         \A n \in Clients : \A q \in Range(up'[n]) : q.t = "read" => q \in Range(up[n])
  PROVE  InHand' /\ OneOut'
<1>1. \A w \in Requests : Carried(w)' => Carried(w) /\ (w.who = Srv => pull'[w.req].ans = pull[w.req].ans)
  BY DEF Carried
<1>2. InHand'
  BY <1>1, SameOnlyAnswers, InHandKept
<1> QED BY <1>2, OneOutFewer

LEMMA ClientServeInHand ==
  ASSUME Types, Types', SessionNumbers, InHand, OneOut, NEW c \in Clients, ClientServe(c)
  PROVE  InHand' /\ OneOut'
<1>1. UNCHANGED <<local, route, pending, pull, conn, owed>>
  BY ClientServeIs DEF server, history
<1>2. PICK ans \in Answers : up' = [up EXCEPT ![c] = Append(@, [t |-> "reply", req |-> Head(down[c]).req, ans |-> ans])]
  BY ClientServeIs
<1>3. /\ Range(up'[c]) = Range(up[c]) \cup {[t |-> "reply", req |-> Head(down[c]).req, ans |-> ans]}
      /\ \A n \in Clients : n # c => up'[n] = up[n]
  BY <1>2, UpAppend
<1>4. \A n \in Clients : \A q \in Range(up'[n]) : q.t = "read" => q \in Range(up[n])
  BY <1>3
<1> QED BY <1>1, <1>4, QuietInHand

LEMMA LoseInHand ==
  ASSUME Types, Types', SessionNumbers, OwnReads, InHand, OneOut, NEW c \in Clients, Lose(c)
  PROVE  InHand' /\ OneOut'
<1>1. /\ conn' = [conn EXCEPT ![c] = [@ EXCEPT !.st = "closing"]]
      /\ up' = [up EXCEPT ![c] = <<>>]
      /\ owed' = IF \/ Routing(c)
                    \/ \E w \in local \cup {p.w : p \in pending} : w.who = c
                 THEN owed \cup {c} ELSE owed
      /\ UNCHANGED <<local, route, pending, pull>>
  BY DEF Lose, server
<1>2. /\ \A n \in Clients : n # c => conn'[n] = conn[n] /\ up'[n] = up[n]
      /\ Range(up'[c]) = {} /\ owed \subseteq owed'
  BY <1>1, EmptyRange DEF Types, LinkTypes
<1>3. ASSUME NEW u \in Requests, Carried(u)' PROVE Held(u)'
  <2>1. Carried(u)
    BY <1>1, <1>2, <1>3 DEF Carried
  <2>2. Held(u)
    BY <2>1, InHandIs
  <2>3. ASSUME u.who = c, c \notin owed' PROVE FALSE
    <3>1. u \notin local /\ ~(\E x \in pending : x.w = u) /\ ~(\E r \in route : r.w = u)
      BY <1>1, <2>3 DEF Routing
    <3>2. PICK n \in Clients : \E q \in Range(up'[n]) : q.t = "read" /\ q.w = u
      BY <1>1, <1>3, <3>1 DEF Carried
    <3>3. n # c
      BY <1>2, <3>2
    <3>4. \E q \in Range(up[n]) : q.t = "read" /\ q.w = u
      BY <1>2, <3>2, <3>3
    <3> QED BY <3>3, <3>4, <2>3 DEF OwnReads
  <2>4. u.who # Srv /\ u.who \notin owed' => u.who # c /\ u.who \in Clients
    BY <2>3, MachineIs DEF Requests
  <2>5. u.who = Srv => pull'[u.req].st \notin {"new", "ready"}
    BY <1>1, <2>2 DEF Held
  <2> QED BY <1>1, <1>2, <2>2, <2>4, <2>5, SameOnlyAnswers, OnlyAnswersAsked, HeldKept
<1> QED BY <1>1, <1>3, InHandFrom, OneOutFewer

LEMMA ReopenInHand ==
  ASSUME Types, Types', SessionNumbers, InHand, OneOut, NEW c \in Clients, Unregister(c) \/ Reconnect(c)
  PROVE  InHand' /\ OneOut'
<1>1. /\ conn[c].st # "on" /\ \A n \in Clients : n # c => conn'[n] = conn[n]
      /\ UNCHANGED <<local, route, pending, pull, up, owed>>
  BY DEF Unregister, Reconnect, server, history, Types, LinkTypes
<1>2. ASSUME NEW u \in Requests, Carried(u)' PROVE Held(u)'
  <2>1. Carried(u)
    BY <1>1, <1>2 DEF Carried
  <2>2. Held(u)
    BY <2>1, InHandIs
  <2>3. u.who # Srv /\ u.who \notin owed' => u.who # c /\ u.who \in Clients
    BY <1>1, <2>2, MachineIs DEF Held, Requests
  <2>4. u.who = Srv => pull'[u.req].st \notin {"new", "ready"}
    BY <1>1, <2>2 DEF Held
  <2> QED BY <1>1, <2>2, <2>3, <2>4, SameOnlyAnswers, OnlyAnswersAsked, HeldKept
<1> QED BY <1>1, <1>2, InHandFrom, OneOutFewer

LEMMA RestartInHand ==
  ASSUME Types, Types', Restart
  PROVE  InHand' /\ OneOut'
<1>1. /\ route' = {} /\ local' = {} /\ pending' = {}
      /\ \A n \in Clients : Range(up'[n]) = {}
  BY RestartIs, EmptyRange
<1>2. InHand'
  BY <1>1 DEF InHand
<1> QED BY <1>1, <1>2 DEF OneOut

LEMMA EnterInHand ==
  ASSUME Types, Types', InHand, OneOut, NEW m \in Machines, Enter(m)
  PROVE  InHand' /\ OneOut'
<1> DEFINE new == Len(pull) + 1
<1>1. /\ DOMAIN pull = 1..Len(pull) /\ Len(pull) \in Nat /\ DOMAIN pull' = 1..new
      /\ \A p \in DOMAIN pull : pull'[p] = pull[p]
      /\ UNCHANGED <<local, route, pending, up, conn, owed>>
  BY EnterIs DEF server, links, history
<1>2. pull'[new].st = "new"
  <2>1. pull'[Len(pull) + 1] = [who |-> m, ann |-> remote[m].ann, st |-> "new", got |-> <<>>,
                           req |-> 0, ans |-> None, gen |-> cancel[m],
                           sess |-> IF m = Srv THEN 0 ELSE conn[m].sess]
    BY EnterIs
  <2> QED BY <2>1
<1>3. DOMAIN pull' = DOMAIN pull \cup {new}
  BY <1>1
<1> HIDE DEF new
<1>4. ASSUME NEW u \in Requests, Carried(u)' PROVE Held(u)'
  <2>1. Carried(u)
    BY <1>1, <1>4 DEF Carried
  <2>2. Held(u)
    BY <2>1, InHandIs
  <2>3. u.who \notin owed' => Matches(u)'
    <3>1. u.who \notin owed => Matches(u)
      BY <2>2 DEF Held
    <3>2. \A p \in DOMAIN pull' : p \in DOMAIN pull \/ pull'[p].st # "waiting"
      BY <1>2, <1>3
    <3>3. Matches(u) => Matches(u)'
      BY <3>2, <1>1 DEF Matches, Its, Asks
    <3> QED BY <3>1, <3>3, <1>1
  <2>4. u.who = Srv => /\ u.req \in DOMAIN pull' /\ pull'[u.req].who = Srv
                       /\ pull'[u.req].st \notin {"new", "ready"}
    BY <2>2, <1>1, <1>3 DEF Held
  <2> QED BY <1>1, <2>2, <2>3, <2>4 DEF Held
<1> QED BY <1>1, <1>4, InHandFrom, OneOutFewer

\* A new read has a number no read in hand has.
LEMMA AskInHand ==
  ASSUME Types, Types', SessionNumbers, SessionNumbers', InHand, OneOut, Written, NEW p \in DOMAIN pull, Ask(p)
  PROVE  InHand' /\ OneOut'
<1>0. PICK w \in Requests : w = Wants(p)
  BY AskIs
<1> DEFINE c == pull[p].who
           q0 == [t |-> "read", w |-> w, req |-> 0]
<1>1. /\ pull[p].st = "ready" /\ w \in Requests
      /\ DOMAIN pull' = DOMAIN pull /\ \A q \in DOMAIN pull : q # p => pull'[q] = pull[q]
      /\ pull'[p].who = c /\ pull'[p].ann = pull[p].ann /\ pull'[p].sess = pull[p].sess
      /\ pull'[p].got = pull[p].got /\ pull'[p].ans = pull[p].ans
      /\ pull'[p].st = "waiting" /\ pull'[p].req = w.req
      /\ UNCHANGED <<pending, owed>>
  BY AskIs, <1>0 DEF history
<1>2. /\ w.who = c /\ w.req = (IF c = Srv THEN p ELSE conn[c].next)
      /\ w.seq = pull[p].ann.seq /\ w.at = Asks(pull[p])
      /\ c \in Machines /\ pull[p].sess \in Nat /\ c # None
  BY <1>0, PullFields, MachineIs DEF Wants, Wanted, Asks
<1>3. IF c = Srv THEN RouteTo(w) /\ UNCHANGED <<conn, up>>
      ELSE /\ c \in Clients /\ conn[c].st = "on" /\ conn[c].sess = pull[p].sess
           /\ conn' = [conn EXCEPT ![c].next = @ + 1] /\ up' = [up EXCEPT ![c] = Append(@, q0)]
           /\ UNCHANGED <<route, local>>
  BY AskIs, <1>0, PullFields DEF Renumbered
<1>4. q0.w = w
  OBVIOUS
<1> HIDE DEF q0, c
<1>5. \A n \in Clients : /\ conn'[n].st = conn[n].st /\ conn'[n].sess = conn[n].sess
                         /\ conn[n].next \in Nat /\ conn'[n].next \in Nat /\ conn'[n].next >= conn[n].next
                         /\ n = c => conn'[n].next = conn[n].next + 1
  <2>1. /\ conn = [n \in Clients |-> conn[n]]
        /\ \A n \in Clients : DOMAIN conn[n] = {"st", "sess", "next"} /\ conn[n].next \in Nat
    BY DEF Types, LinkTypes
  <2>2. CASE c = Srv
    BY <1>3, <2>1, <2>2, ClientIs
  <2>3. CASE c # Srv
    <3>1. conn' = [conn EXCEPT ![c].next = @ + 1]
      BY <1>3, <2>3
    <3> QED BY <2>1, <3>1
  <2> QED BY <2>2, <2>3
<1>6. ASSUME NEW u \in Requests, Carried(u)' PROVE Carried(u) \/ u = w
  <2>1. CASE c = Srv
    BY <1>1, <1>3, <1>6, <2>1 DEF Carried, RouteTo
  <2>2. CASE c # Srv
    <3>1. Range(up'[c]) = Range(up[c]) \cup {q0} /\ \A n \in Clients : n # c => up'[n] = up[n]
      BY <1>3, <2>2, UpAppend
    <3> QED BY <1>1, <1>3, <1>4, <1>6, <2>2, <3>1 DEF Carried
  <2> QED BY <2>1, <2>2
<1>7. ASSUME NEW u \in Requests, Carried(u)
      PROVE  /\ Held(u) /\ (u.who = Srv => u.req # p)
             /\ u.who \notin owed => ~Its(u, w)
  <2>1. Held(u)
    BY <1>7, InHandIs
  <2>2. u.who = Srv => u.req # p
    BY <2>1, <1>1 DEF Held
  <2>3. ASSUME u.who \notin owed, Its(u, w) PROVE FALSE
    <3>1. CASE u.who = Srv
      BY <2>2, <2>3, <3>1, <1>2 DEF Its
    <3>2. CASE u.who # Srv
      BY <2>1, <2>3, <3>2, <1>2, <1>3, <1>5 DEF Its, Held, Requests
    <3> QED BY <3>1, <3>2
  <2> QED BY <2>1, <2>2, <2>3
<1>8. ASSUME NEW u \in Requests, Carried(u) PROVE Held(u)'
  <2>1. u.who # Srv => u.who \in Clients
    BY MachineIs DEF Requests
  <2>2. u.who # Srv /\ u.who \notin owed' => conn'[u.who].st = "on" /\ u.req < conn'[u.who].next
    BY <1>1, <1>5, <1>7, <1>8, <2>1 DEF Held, Requests
  <2>3. u.who = Srv => /\ u.req \in DOMAIN pull' /\ pull'[u.req].who = Srv
                       /\ pull'[u.req].st \notin {"new", "ready"}
    BY <1>1, <1>7, <1>8 DEF Held
  <2>4. ASSUME u.who \notin owed', NEW q \in DOMAIN pull',
               Its(u, pull'[q]), pull'[q].st = "waiting",
               u.who # Srv => pull'[q].sess = conn'[u.who].sess
        PROVE  /\ u.seq = pull'[q].ann.seq /\ u.at = Asks(pull'[q])
               /\ u.who = Srv => pull'[q].ans = None
    <3>1. q # p
      BY <1>1, <1>2, <1>7, <1>8, <2>4 DEF Its
    <3>2. pull'[q] = pull[q] /\ q \in DOMAIN pull
      BY <1>1, <3>1, <2>4
    <3>3. Matches(u)
      BY <1>1, <1>7, <1>8, <2>4 DEF Held
    <3>4. u.who # Srv => pull[q].sess = conn[u.who].sess
      BY <2>1, <2>4, <3>2, <1>5
    <3> QED BY <2>4, <3>2, <3>3, <3>4 DEF Matches
  <2>5. u.who \notin owed' => Matches(u)'
    BY <2>4 DEF Matches, Its, Asks
  <2> QED BY <2>2, <2>3, <2>5 DEF Held
<1>9. Held(w)'
  <2>1. w.who # Srv => conn'[w.who].st = "on" /\ w.req < conn'[w.who].next
    BY <1>2, <1>3, <1>5
  <2>2. w.who = Srv => /\ w.req \in DOMAIN pull' /\ pull'[w.req].who = Srv
                       /\ pull'[w.req].st \notin {"new", "ready"}
    BY <1>1, <1>2
  <2>3. ASSUME NEW q \in DOMAIN pull',
               Its(w, pull'[q]), pull'[q].st = "waiting",
               w.who # Srv => pull'[q].sess = conn'[w.who].sess
        PROVE  /\ w.seq = pull'[q].ann.seq /\ w.at = Asks(pull'[q])
               /\ w.who = Srv => pull'[q].ans = None
    <3>1. q = p
      <4>1. CASE c = Srv
        BY <4>1, <1>2, <2>3 DEF Its, SessionNumbers
      <4>2. CASE c # Srv
        <5>1. pull'[q].who = pull'[p].who /\ pull'[q].sess = pull'[p].sess /\ pull'[q].req = pull'[p].req
          BY <4>2, <1>1, <1>2, <1>3, <1>5, <2>3 DEF Its
        <5>2. pull'[q].st = "waiting" /\ pull'[p].st = "waiting" /\ pull'[p].who # Srv
          BY <4>2, <1>1, <2>3
        <5> QED BY <5>1, <5>2, <1>1, <2>3 DEF SessionNumbers
      <4> QED BY <4>1, <4>2
    <3>2. Asks(pull'[p]) = Asks(pull[p])
      BY <1>1 DEF Asks
    <3>3. pull[p].ans = None
      BY <1>1 DEF Written, Well
    <3> QED BY <3>1, <3>2, <3>3, <1>1, <1>2
  <2>4. Matches(w)'
    BY <2>3 DEF Matches, Its, Asks
  <2> QED BY <2>1, <2>2, <2>4 DEF Held
<1>10. InHand'
  BY <1>6, <1>8, <1>9, InHandFrom
<1>11. OneOut'
  <2>1. CASE c # Srv
    BY <2>1, <1>1, <1>3, OneOutFewer
  <2>2. CASE c = Srv
    <3>1. \A u \in Requests : Carried(u) => ~Its(u, w) /\ ~Its(w, u)
      BY <1>2, <1>7, <2>2 DEF Its
    <3>2. /\ \A u \in local : ~Its(u, w) /\ ~Its(w, u)
          /\ \A r \in route : ~Its(r.w, w) /\ ~Its(w, r.w)
          /\ \A x \in pending : ~Its(x.w, w) /\ ~Its(w, x.w)
      BY <3>1, TokenIs DEF Carried
    <3>3. /\ local' = IF cur.who = Srv THEN local \cup {w} ELSE local
          /\ route' = IF cur.who \in Clients THEN route \cup {[w |-> w, to |-> cur.who]} ELSE route
      BY <1>3, <2>2 DEF RouteTo
    <3>4. CASE cur.who = Srv
      <4>1. local' = local \cup {w} /\ route' = route
        BY <3>3, <3>4, ClientIs
      <4> QED BY <4>1, <3>2, <1>1 DEF OneOut, Its
    <3>5. CASE cur.who # Srv
      <4> DEFINE r0 == [w |-> w, to |-> cur.who]
      <4>1. local' = local /\ route' \subseteq route \cup {r0} /\ r0.w = w
        BY <3>3, <3>5
      <4> HIDE DEF r0
      <4>2. \A v, r \in route' : v.w.who = Srv /\ Its(v.w, r.w) => v = r
        BY <4>1, <3>2 DEF OneOut, Its
      <4>3. /\ \A v \in local' : \A r \in route' : v.who = Srv => ~Its(v, r.w)
            /\ \A r \in route' : \A x \in pending' : r.w.who = Srv => ~Its(r.w, x.w)
        BY <4>1, <3>2, <1>1 DEF OneOut, Its
      <4> QED BY <4>1, <4>2, <4>3, <1>1 DEF OneOut
    <3> QED BY <3>4, <3>5
  <2> QED BY <2>1, <2>2
<1> QED BY <1>10, <1>11

LEMMA NextInHand ==
  ASSUME Types, Types', Accounted, Accounted', InHand, OneOut, Written, [Next]_vars
  PROVE  InHand' /\ OneOut'
<1>1. /\ RouterNumbers /\ SessionNumbers /\ SessionNumbers' /\ OwnReads /\ OwnReads'
  BY DEF Accounted
<1>2. ASSUME NEW c \in Clients,
             \/ SrvRead(c) \/ SrvReply(c) \/ SrvNote(c) \/ ClientServe(c) \/ ClientReply(c)
             \/ Lose(c) \/ Unregister(c) \/ Reconnect(c)
      PROVE  InHand' /\ OneOut'
  BY <1>1, <1>2, SrvReadInHand, SrvReplyInHand, SrvNoteInHand, ClientServeInHand, ClientReplyInHand,
     LoseInHand, ReopenInHand
<1>3. ASSUME NEW r \in route, RouteSend(r) PROVE InHand' /\ OneOut'
  BY <1>1, <1>3, RouteSendInHand
<1>4. ASSUME NEW w \in local, LocalRead(w) PROVE InHand' /\ OneOut'
  BY <1>1, <1>4, LocalReadInHand
<1>5. ASSUME NEW p \in DOMAIN pull, PullStep(p) PROVE InHand' /\ OneOut'
  BY <1>1, <1>5, AloneInHand, AskInHand DEF PullStep, Alone
<1>6. ASSUME NEW m \in Machines, Enter(m) PROVE InHand' /\ OneOut'
  BY <1>1, <1>6, EnterInHand
<1>7. CASE Restart
  BY <1>7, RestartInHand
<1>8. CASE \/ \E m \in Machines : Cancel(m)
           \/ \E m \in Owners : \E roots \in Copyable[m] : Announce(m, roots)
           \/ \E m \in Machines, s \in 1..MaxSeq : RemoveReceived(m, s)
           \/ UNCHANGED vars
  <2>1. UNCHANGED <<local, route, pending, pull, conn, owed, up>>
    BY <1>8 DEF Cancel, Announce, RemoveReceived, vars, server, links, history
  <2> QED BY <1>1, <2>1, QuietInHand
<1> QED BY <1>2, <1>3, <1>4, <1>5, <1>6, <1>7, <1>8 DEF Next, RouterStep

----------------------------------------------------------------------------
(* What owners are asked, and what they answer.                            *)

LEMMA ServesKept ==
  ASSUME \A a \in Announcements : Genuine(a) => Genuine(a)', NEW ans, NEW seq, NEW at, Serves(ans, seq, at)
  PROVE  Serves(ans, seq, at)'
BY DEF Serves

LEMMA OwnersBytesKept ==
  ASSUME OwnersBytes, \A a \in Announcements : Genuine(a) => Genuine(a)',
         pending' \subseteq pending, nextReq' = nextReq,
         \A n \in Clients : \A q \in Range(down'[n]) : q.t = "read" => q \in Range(down[n]),
         \A n \in Clients : \A q \in Range(up'[n]) : q.t = "reply" => q \in Range(up[n])
  PROVE  OwnersBytes'
<1>1. ASSUME NEW c \in Clients, NEW q \in Range(down'[c]), q.t = "read"
      PROVE  q.req < nextReq' /\ \A x \in pending' : x.req = q.req => q.seq = x.w.seq /\ q.at = x.w.at
  BY <1>1 DEF OwnersBytes
<1>2. ASSUME NEW c \in Clients, NEW q \in Range(up'[c]), q.t = "reply"
      PROVE  q.req < nextReq' /\ \A x \in pending' : x.req = q.req => Serves(q.ans, x.w.seq, x.w.at)'
  <2>1. q.req < nextReq /\ \A x \in pending : x.req = q.req => Serves(q.ans, x.w.seq, x.w.at)
    BY <1>2 DEF OwnersBytes
  <2> QED BY <2>1, ServesKept
<1> QED BY <1>1, <1>2 DEF OwnersBytes

\* Delivering sends no reads.
LEMMA DeliverReads ==
  ASSUME Types, NEW w \in Requests, NEW ans \in Answers, Deliver(w, ans)
  PROVE  \A n \in Clients : \A q \in Range(down'[n]) : q.t = "read" => q \in Range(down[n])
<1> DEFINE a0 == [t |-> "reply", req |-> w.req, ans |-> ans]
<1>1. a0.t = "reply"
  OBVIOUS
<1>2. \A n \in Clients :
        Range(down'[n]) = IF n = w.who /\ conn[n].st = "on" THEN Range(down[n]) \cup {a0} ELSE Range(down[n])
  BY DeliverRange
<1> HIDE DEF a0
<1> QED BY <1>1, <1>2

LEMMA RouteSendOwners ==
  ASSUME Types, RouterNumbers, OwnersBytes, \A a \in Announcements : Genuine(a) => Genuine(a)',
         NEW r \in route, RouteSend(r)
  PROVE  OwnersBytes'
<1> DEFINE x0 == [req |-> nextReq, to |-> r.to, w |-> r.w, late |-> conn[r.to].st = "noted"]
           q0 == [t |-> "read", req |-> nextReq, seq |-> r.w.seq, at |-> r.w.at]
<1>1. /\ r.w \in Requests /\ r.to \in Clients /\ nextReq' = nextReq + 1 /\ nextReq \in Nat
      /\ IF Registered(r.to)
         THEN /\ pending' = pending \cup {x0}
              /\ down' = IF conn[r.to].st = "on" THEN [down EXCEPT ![r.to] = Append(@, q0)] ELSE down
         ELSE Deliver(r.w, NotFound) /\ UNCHANGED pending
      /\ UNCHANGED up
  BY RouteSendIs
<1>2. x0.req = nextReq /\ x0.w = r.w /\ q0.t = "read" /\ q0.req = nextReq /\ q0.seq = r.w.seq /\ q0.at = r.w.at
  OBVIOUS
<1> HIDE DEF x0, q0
<1>3. \A n \in Clients : \A q \in Range(down'[n]) : q.t = "read" => q \in Range(down[n]) \/ q = q0
  <2>1. CASE Registered(r.to) /\ conn[r.to].st = "on"
    <3>1. down' = [down EXCEPT ![r.to] = Append(@, q0)] /\ down[r.to] \in Seq(DownMessages)
      BY <1>1, <2>1 DEF Types, LinkTypes
    <3>2. Range(down'[r.to]) = Range(down[r.to]) \cup {q0}
      BY <3>1, <1>1, RangeOfAppend DEF Types, LinkTypes
    <3>3. \A n \in Clients : n # r.to => down'[n] = down[n]
      BY <3>1 DEF Types, LinkTypes
    <3> QED BY <3>2, <3>3
  <2>2. CASE Registered(r.to) /\ conn[r.to].st # "on"
    BY <1>1, <2>2
  <2>3. CASE ~Registered(r.to)
    <3>1. Deliver(r.w, NotFound) /\ NotFound \in Answers
      BY <1>1, <2>3, AnswerIs
    <3> QED BY <1>1, <3>1, DeliverReads
  <2> QED BY <2>1, <2>2, <2>3
<1>4. \A x \in pending' : x \in pending \/ x = x0
  BY <1>1
<1>5. \A x \in pending : x.req < nextReq /\ x.req \in Nat
  BY DEF RouterNumbers, Types, RouterTypes
<1>6. \A q \in DownMessages : q.req \in Nat
  BY DEF DownMessages
<1>7. ASSUME NEW c \in Clients, NEW q \in Range(down'[c]), q.t = "read"
      PROVE  q.req < nextReq' /\ \A x \in pending' : x.req = q.req => q.seq = x.w.seq /\ q.at = x.w.at
  <2>1. CASE q \in Range(down[c])
    <3>1. q \in DownMessages
      BY <2>1 DEF Types, LinkTypes, Range
    <3>2. q.req < nextReq /\ \A x \in pending : x.req = q.req => q.seq = x.w.seq /\ q.at = x.w.at
      BY <2>1, <1>7 DEF OwnersBytes
    <3> QED BY <3>1, <3>2, <1>1, <1>2, <1>4, <1>6
  <2>2. CASE q = q0
    BY <2>2, <1>1, <1>2, <1>4, <1>5
  <2> QED BY <2>1, <2>2, <1>3, <1>7
<1>8. ASSUME NEW c \in Clients, NEW q \in Range(up'[c]), q.t = "reply"
      PROVE  q.req < nextReq' /\ \A x \in pending' : x.req = q.req => Serves(q.ans, x.w.seq, x.w.at)'
  <2>1. q \in Range(up[c]) /\ up[c] \in Seq(UpMessages)
    BY <1>1, <1>8 DEF Types, LinkTypes
  <2>2. q.req \in Nat
    BY <2>1 DEF Range, UpMessages
  <2>3. q.req < nextReq /\ \A x \in pending : x.req = q.req => Serves(q.ans, x.w.seq, x.w.at)
    BY <2>1, <1>8 DEF OwnersBytes
  <2>4. \A x \in pending' : x.req = q.req => x \in pending
    BY <2>2, <2>3, <1>1, <1>2, <1>4
  <2> QED BY <2>2, <2>3, <2>4, <1>1, ServesKept
<1> QED BY <1>7, <1>8 DEF OwnersBytes

LEMMA ClientServeOwners ==
  ASSUME Types, Announced, OwnersBytes, \A a \in Announcements : Genuine(a) => Genuine(a)',
         NEW c \in Clients, ClientServe(c)
  PROVE  OwnersBytes'
<1> DEFINE q0 == Head(down[c])
<1>1. /\ down[c] # <<>> /\ q0.t = "read" /\ q0.at \in Asked
      /\ down' = [down EXCEPT ![c] = Tail(@)]
      /\ UNCHANGED <<pending, nextReq>>
  BY ClientServeIs DEF server
<1>2. PICK ans \in Reads(c, q0) : up' = [up EXCEPT ![c] = Append(@, [t |-> "reply", req |-> q0.req, ans |-> ans])]
  BY ClientServeIs
<1>3. Range(down[c]) = {q0} \cup Range(down'[c]) /\ \A n \in Clients : n # c => down'[n] = down[n]
  BY <1>1, DownTail
<1> DEFINE a0 == [t |-> "reply", req |-> q0.req, ans |-> ans]
<1>4. Range(up'[c]) = Range(up[c]) \cup {a0} /\ \A n \in Clients : n # c => up'[n] = up[n]
  BY <1>2, UpAppend
<1>5. a0.req = q0.req /\ a0.ans = ans
  OBVIOUS
<1> HIDE DEF a0, q0
<1>6. q0.req < nextReq /\ \A x \in pending : x.req = q0.req => q0.seq = x.w.seq /\ q0.at = x.w.at
  BY <1>1, <1>3 DEF OwnersBytes
<1>7. Serves(ans, q0.seq, q0.at)
  <2>1. c \in Machines
    BY ClientIs
  <2>2. ans.ok => /\ own[c] # None /\ own[c].seq = q0.seq
                  /\ ans.data = [ann |-> own[c], at |-> Served(own[c].roots, q0.at)]
    BY <1>1, <1>2, <2>1, ReadsAnswer DEF Types
  <2>3. own[c] # None => own[c] \in Announcements /\ Genuine(own[c])
    BY <2>1 DEF Announced, Types, RouterTypes
  <2> QED BY <2>2, <2>3 DEF Serves
<1>8. ASSUME NEW n \in Clients, NEW q \in Range(up'[n]), q.t = "reply"
      PROVE  q.req < nextReq' /\ \A x \in pending' : x.req = q.req => Serves(q.ans, x.w.seq, x.w.at)'
  <2>1. q.req < nextReq /\ \A x \in pending : x.req = q.req => Serves(q.ans, x.w.seq, x.w.at)
    <3>1. CASE q \in Range(up[n])
      BY <3>1, <1>8 DEF OwnersBytes
    <3>2. CASE q = a0
      BY <3>2, <1>5, <1>6, <1>7
    <3> QED BY <3>1, <3>2, <1>4, <1>8
  <2> QED BY <2>1, <1>1, ServesKept
<1>9. ASSUME NEW n \in Clients, NEW q \in Range(down'[n]), q.t = "read"
      PROVE  q.req < nextReq' /\ \A x \in pending' : x.req = q.req => q.seq = x.w.seq /\ q.at = x.w.at
  BY <1>1, <1>3, <1>9 DEF OwnersBytes
<1> QED BY <1>8, <1>9 DEF OwnersBytes

\* Only a restart begins a new run of the server.
LEMMA SameRun ==
  ASSUME Types, [Next]_vars, ~Restart
  PROVE  cur'.epoch = cur.epoch
<1>0. cur \in [who : Machines \cup {None}, seq : 0..MaxSeq, epoch : Nat]
  BY DEF Types, RouterTypes
<1>1. ASSUME NEW m \in Owners, NEW roots \in Copyable[m], Announce(m, roots) PROVE cur'.epoch = cur.epoch
  <2>1. cur' = [cur EXCEPT !.who = m, !.seq = cur.seq + 1]
    BY <1>1 DEF Announce
  <2> QED BY <2>1, <1>0
<1>2. ASSUME NEW c \in Clients, SrvNote(c) PROVE cur'.epoch = cur.epoch
  BY <1>0, <1>2 DEF SrvNote
<1>3. ASSUME NEW p \in DOMAIN pull, PullStep(p) PROVE cur'.epoch = cur.epoch
  BY <1>3, AloneSame, AskSame DEF PullStep, Alone, server
<1>4. CASE \/ \E m \in Machines : Enter(m) \/ Cancel(m)
           \/ \E c \in Clients : SrvRead(c) \/ SrvReply(c) \/ Unregister(c)
           \/ \E r \in route : RouteSend(r)
           \/ \E w \in local : LocalRead(w)
           \/ \E c \in Clients : ClientServe(c) \/ ClientReply(c) \/ Lose(c) \/ Reconnect(c)
           \/ \E m \in Machines, s \in 1..MaxSeq : RemoveReceived(m, s)
           \/ UNCHANGED vars
  <2>1. UNCHANGED cur
    BY <1>4 DEF Enter, Cancel, SrvRead, SrvReply, Unregister, RouteSend, LocalRead, ClientServe, ClientReply,
                Lose, Reconnect, RemoveReceived, vars, server
  <2> QED BY <2>1
<1> QED BY <1>1, <1>2, <1>3, <1>4 DEF Next, RouterStep

LEMMA NextOwners ==
  ASSUME Types, RouterNumbers, SessionNumbers, Announced, OwnersBytes, [Next]_vars
  PROVE  OwnersBytes'
<1>1. CASE Restart
  <2>1. \A n \in Clients : Range(up'[n]) = {} /\ Range(down'[n]) = {}
    BY <1>1, RestartIs, EmptyRange
  <2> QED BY <2>1 DEF OwnersBytes
<1>2. SUFFICES ASSUME ~Restart PROVE OwnersBytes'
  BY <1>1
<1>3. \A a \in Announcements : Genuine(a) => Genuine(a)'
  BY <1>2, SameRun, NextAnnounced
<1>4. ASSUME pending' \subseteq pending, nextReq' = nextReq,
             \A n \in Clients : \A q \in Range(down'[n]) : q.t = "read" => q \in Range(down[n]),
             \A n \in Clients : \A q \in Range(up'[n]) : q.t = "reply" => q \in Range(up[n])
      PROVE  OwnersBytes'
  BY <1>3, <1>4, OwnersBytesKept
<1>5. ASSUME NEW r \in route, RouteSend(r) PROVE OwnersBytes'
  BY <1>3, <1>5, RouteSendOwners
<1>6. ASSUME NEW c \in Clients, ClientServe(c) PROVE OwnersBytes'
  BY <1>3, <1>6, ClientServeOwners
<1>7. ASSUME NEW c \in Clients, SrvRead(c) PROVE OwnersBytes'
  <2>1. /\ up[c] # <<>> /\ up' = [up EXCEPT ![c] = Tail(@)] /\ Head(up[c]).w \in Requests
        /\ UNCHANGED down \/ Deliver(Head(up[c]).w, NotFound)
        /\ UNCHANGED <<pending, nextReq>>
    BY <1>7, SrvReadIs
  <2>2. \A n \in Clients : \A q \in Range(down'[n]) : q.t = "read" => q \in Range(down[n])
    BY <2>1, AnswerIs, DeliverReads
  <2>3. \A n \in Clients : \A q \in Range(up'[n]) : q \in Range(up[n])
    BY <2>1, UpTail
  <2> QED BY <2>1, <2>2, <2>3, <1>4
<1>8. ASSUME NEW c \in Clients, SrvReply(c) PROVE OwnersBytes'
  <2> DEFINE r == Head(up[c])
  <2>1. /\ up[c] # <<>> /\ up' = [up EXCEPT ![c] = Tail(@)] /\ r.ans \in Answers
        /\ \/ UNCHANGED down
           \/ \E x \in pending : Deliver(x.w, IF x.to = c THEN r.ans ELSE NotFound)
        /\ pending' \subseteq pending /\ UNCHANGED nextReq
    BY <1>8, SrvReplyIs
  <2> HIDE DEF r
  <2>2. ASSUME NEW x \in pending, Deliver(x.w, IF x.to = c THEN r.ans ELSE NotFound)
        PROVE  \A n \in Clients : \A q \in Range(down'[n]) : q.t = "read" => q \in Range(down[n])
    <3>1. x.w \in Requests /\ (IF x.to = c THEN r.ans ELSE NotFound) \in Answers
      BY <2>1, TokenIs, AnswerIs
    <3> QED BY <2>2, <3>1, DeliverReads
  <2>3. \A n \in Clients : \A q \in Range(down'[n]) : q.t = "read" => q \in Range(down[n])
    BY <2>1, <2>2
  <2>4. \A n \in Clients : \A q \in Range(up'[n]) : q \in Range(up[n])
    BY <2>1, UpTail
  <2> QED BY <2>1, <2>3, <2>4, <1>4
<1>9. ASSUME NEW c \in Clients, SrvNote(c) PROVE OwnersBytes'
  <2>1. /\ pending' = pending \ Mine(c) /\ UNCHANGED <<up, nextReq>>
        /\ \A n \in Clients :
             Range(down'[n]) = IF conn[n].st = "on" THEN Range(down[n]) \cup Answering(c, n) ELSE Range(down[n])
    BY <1>9, SrvNoteIs
  <2>2. \A n \in Clients : \A q \in Answering(c, n) : q.t = "reply"
    BY DEF Answering
  <2>3. \A n \in Clients : \A q \in Range(down'[n]) : q.t = "read" => q \in Range(down[n])
    BY <2>1, <2>2
  <2> QED BY <2>1, <2>3, <1>4
<1>10. ASSUME NEW w \in local, LocalRead(w) PROVE OwnersBytes'
  <2>1. w \in Requests /\ UNCHANGED <<pending, nextReq, up>>
    BY <1>10, LocalReadIs
  <2>2. \A n \in Clients : \A q \in Range(down'[n]) : q.t = "read" => q \in Range(down[n])
    BY <1>10, LocalReadIs, DeliverReads
  <2> QED BY <2>1, <2>2, <1>4
<1>11. ASSUME NEW c \in Clients, ClientReply(c) PROVE OwnersBytes'
  <2>1. /\ down[c] # <<>> /\ down' = [down EXCEPT ![c] = Tail(@)]
        /\ UNCHANGED <<pending, nextReq, up>>
    BY <1>11, ClientReplyIs DEF server
  <2>2. \A n \in Clients : \A q \in Range(down'[n]) : q \in Range(down[n])
    BY <2>1, DownTail
  <2> QED BY <2>1, <2>2, <1>4
<1>12. ASSUME NEW c \in Clients, Lose(c) PROVE OwnersBytes'
  <2>1. /\ up' = [up EXCEPT ![c] = <<>>] /\ down' = [down EXCEPT ![c] = <<>>]
        /\ UNCHANGED <<pending, nextReq>>
    BY <1>12 DEF Lose, server
  <2>2. \A n \in Clients : \A q \in Range(down'[n]) : q \in Range(down[n])
    BY <2>1, EmptyRange DEF Types, LinkTypes
  <2>3. \A n \in Clients : \A q \in Range(up'[n]) : q \in Range(up[n])
    BY <2>1, EmptyRange DEF Types, LinkTypes
  <2> QED BY <2>1, <2>2, <2>3, <1>4
<1>13. ASSUME NEW p \in DOMAIN pull, PullStep(p) PROVE OwnersBytes'
  <2>1. CASE Alone(p)
    <3>1. UNCHANGED <<pending, nextReq, up, down>>
      BY <2>1, AloneSame DEF server, links
    <3> QED BY <3>1, <1>4
  <2>2. CASE Ask(p)
    <3> DEFINE q0 == [t |-> "read", w |-> Wants(p), req |-> 0]
    <3>1. /\ UNCHANGED <<pending, nextReq, down>> /\ q0.t = "read"
          /\ \/ UNCHANGED up
             \/ pull[p].who \in Clients /\ up' = [up EXCEPT ![pull[p].who] = Append(@, q0)]
      BY <2>2, AskIs, PullFields
    <3> HIDE DEF q0
    <3>2. \A n \in Clients : \A q \in Range(up'[n]) : q.t = "reply" => q \in Range(up[n])
      <4>1. CASE UNCHANGED up
        BY <4>1
      <4>2. ASSUME NEW c \in Clients, up' = [up EXCEPT ![c] = Append(@, q0)]
            PROVE  \A n \in Clients : \A q \in Range(up'[n]) : q.t = "reply" => q \in Range(up[n])
        <5>1. Range(up'[c]) = Range(up[c]) \cup {q0} /\ \A n \in Clients : n # c => up'[n] = up[n]
          BY <4>2, UpAppend
        <5> QED BY <5>1, <3>1
      <4> QED BY <3>1, <4>1, <4>2
    <3> QED BY <3>1, <3>2, <1>4
  <2> QED BY <1>13, <2>1, <2>2 DEF PullStep, Alone
<1>14. CASE \/ \E m \in Machines : Enter(m) \/ Cancel(m)
            \/ \E m \in Owners : \E roots \in Copyable[m] : Announce(m, roots)
            \/ \E c \in Clients : Unregister(c) \/ Reconnect(c)
            \/ \E m \in Machines, s \in 1..MaxSeq : RemoveReceived(m, s)
            \/ UNCHANGED vars
  <2>1. UNCHANGED <<pending, nextReq, up, down>>
    BY <1>14 DEF Enter, Cancel, Announce, Unregister, Reconnect, RemoveReceived, vars, server, links
  <2> QED BY <2>1, <1>4
<1> QED BY <1>2, <1>5, <1>6, <1>7, <1>8, <1>9, <1>10, <1>11, <1>12, <1>13, <1>14 DEF Next, RouterStep

----------------------------------------------------------------------------
(* What pulls get.                                                         *)

LEMMA RepliesKept ==
  ASSUME SameAsked, Replies, owed \subseteq owed',
         \A c \in Clients \ owed' : \A q \in Range(down'[c]) : q.t = "reply" =>
           /\ q \in Range(down[c])
           /\ conn'[c].st = conn[c].st /\ conn'[c].sess = conn[c].sess /\ conn'[c].next = conn[c].next
  PROVE  Replies'
<1> SUFFICES ASSUME NEW c \in Clients \ owed', NEW q \in Range(down'[c]), q.t = "reply"
             PROVE  Fits(q, c)'
  BY DEF Replies
<1>1. /\ q \in Range(down[c]) /\ c \notin owed
      /\ conn'[c].st = conn[c].st /\ conn'[c].sess = conn[c].sess /\ conn'[c].next = conn[c].next
  OBVIOUS
<1>2. Fits(q, c)
  BY <1>1 DEF Replies
<1>3. ASSUME NEW p \in DOMAIN pull', pull'[p].who = c, pull'[p].sess = conn'[c].sess,
             pull'[p].st = "waiting", pull'[p].req = q.req
      PROVE  Answers4(q.ans, pull'[p])
  <2>1. /\ p \in DOMAIN pull /\ pull[p].who = c /\ pull[p].sess = conn[c].sess
        /\ pull[p].st = "waiting" /\ pull[p].req = q.req
        /\ pull'[p].ann = pull[p].ann /\ pull'[p].got = pull[p].got
    BY <1>1, <1>3 DEF SameAsked
  <2>2. Answers4(q.ans, pull[p])
    BY <1>2, <2>1 DEF Fits
  <2> QED BY <2>1, <2>2 DEF Answers4, Asks
<1> QED BY <1>1, <1>2, <1>3 DEF Fits, Answers4, Asks

LEMMA WellKept ==
  ASSUME NEW p \in DOMAIN pull, Well(p), owed \subseteq owed',
         pull'[p].who = pull[p].who, pull'[p].ann = pull[p].ann, pull'[p].st = pull[p].st,
         pull'[p].got = pull[p].got,
         \/ pull'[p].ans = pull[p].ans
         \/ /\ pull[p].st = "waiting"
            /\ pull[p].who \notin owed => Answers4(pull'[p].ans, pull[p])
  PROVE  Well(p)'
<1>1. /\ pull'[p].st # "waiting" => pull'[p].ans = None
      /\ pull'[p].st = "new" => pull'[p].got = <<>>
      /\ pull'[p].st = "waiting" => Lacks(pull'[p])
  BY DEF Well, Lacks
<1>2. ASSUME pull'[p].who \notin owed'
      PROVE  /\ pull'[p].st = "waiting" /\ pull'[p].ans # None => Answers4(pull'[p].ans, pull'[p])
             /\ Right(p)'
  <2>1. Right(p) /\ (pull[p].st = "waiting" /\ pull[p].ans # None => Answers4(pull[p].ans, pull[p]))
    BY <1>2 DEF Well
  <2>2. Right(p)'
    BY <2>1 DEF Right
  <2>3. Asks(pull'[p]) = Asks(pull[p])
    BY DEF Asks
  <2> QED BY <1>2, <2>1, <2>2, <2>3 DEF Answers4
<1> QED BY <1>1, <1>2 DEF Well, Lacks, Answers4, Asks

\* Nothing but answers comes, and none of them to a pull.
LEMMA QuietWell ==
  ASSUME Written, UNCHANGED pull, owed \subseteq owed'
  PROVE  Written'
<1> SUFFICES ASSUME NEW p \in DOMAIN pull' PROVE Well(p)'
  BY DEF Written
<1> QED BY WellKept DEF Written

\* Answer ans is for whoever waits under the number of read w.
RightFor(ans, w) ==
  \A p \in DOMAIN pull :
    /\ Its(w, pull[p]) /\ pull[p].st = "waiting"
    /\ w.who # Srv => pull[p].sess = conn[w.who].sess
    => Answers4(ans, pull[p])

LEMMA NotFoundRight == \A w : RightFor(NotFound, w)
BY AnswerIs DEF RightFor, Answers4

LEMMA ServedRight ==
  ASSUME Types, Announced, Written, NEW w \in Requests, Held(w), w.who \notin owed,
         NEW ans, Serves(ans, w.seq, w.at)
  PROVE  RightFor(ans, w)
<1> SUFFICES ASSUME NEW p \in DOMAIN pull, Its(w, pull[p]), pull[p].st = "waiting",
                    w.who # Srv => pull[p].sess = conn[w.who].sess, ans.ok
             PROVE  ans.data = [ann |-> pull[p].ann, at |-> Asks(pull[p])]
  BY DEF RightFor, Answers4
<1> DEFINE a == ans.data.ann
<1>1. /\ a \in Announcements /\ Genuine(a) /\ a.seq = w.seq
      /\ ans.data = [ann |-> a, at |-> Served(a.roots, w.at)]
  BY DEF Serves
<1>2. w.seq = pull[p].ann.seq /\ w.at = Asks(pull[p])
  BY DEF Held, Matches
<1>3. pull[p].ann.epoch = cur.epoch
  BY DEF Held, Announced, Running, Its
<1>4. pull[p].ann = a
  BY <1>1, <1>2, <1>3 DEF Genuine
<1>5. Served(a.roots, w.at) = w.at
  <2>1. a.roots \in DOMAIN Reading
    BY <1>1, AnnouncementIs
  <2>2. Lacks(pull[p])
    BY DEF Written, Well
  <2>3. w.at \in Range(Reading[a.roots])
    BY <1>2, <1>4, <2>2 DEF Lacks, Asks, Range
  <2> QED BY <2>1, <2>3, ReadsAreServed
<1> QED BY <1>1, <1>2, <1>4, <1>5

LEMMA DeliverBytes ==
  ASSUME Types, SessionNumbers, Replies, Written, UNCHANGED <<conn, owed>>,
         NEW w \in Requests, NEW ans \in Answers, Deliver(w, ans),
         Held(w), w.who \notin owed => RightFor(ans, w)
  PROVE  Replies' /\ Written'
<1> DEFINE a0 == [t |-> "reply", req |-> w.req, ans |-> ans]
<1>1. OnlyAnswers
  BY DeliverOnlyAnswers
<1>2. \A n \in Clients :
        Range(down'[n]) = IF n = w.who /\ conn[n].st = "on" THEN Range(down[n]) \cup {a0} ELSE Range(down[n])
  BY DeliverRange
<1>3. a0.req = w.req /\ a0.ans = ans
  OBVIOUS
<1> HIDE DEF a0
<1>4. ASSUME NEW c \in Clients \ owed, NEW q \in Range(down'[c]), q.t = "reply"
      PROVE  Fits(q, c)'
  <2>1. Fits(q, c)
    <3>1. CASE q \in Range(down[c])
      BY <1>4, <3>1 DEF Replies
    <3>2. CASE q \notin Range(down[c])
      <4>1. q = a0 /\ c = w.who /\ conn[c].st = "on" /\ c # Srv
        BY <1>2, <1>4, <3>2, ClientIs
      <4>2. q.req < conn[c].next
        BY <4>1, <1>3, <1>4 DEF Held
      <4>3. RightFor(ans, w)
        BY <4>1, <1>4
      <4> QED BY <4>1, <4>2, <4>3, <1>3 DEF Fits, RightFor, Its
    <3> QED BY <3>1, <3>2
  <2> QED BY <1>1, <2>1 DEF Fits, OnlyAnswers, Answers4, Asks
<1>5. ASSUME NEW p \in DOMAIN pull PROVE Well(p)'
  <2>1. pull' = [q \in DOMAIN pull |->
                 IF w.who = Srv /\ w.req = q /\ pull[q].st = "waiting"
                 THEN [pull[q] EXCEPT !.ans = ans] ELSE pull[q]]
    BY DeliverIs DEF Types
  <2>2. pull[p] \in Pulls
    BY PullFields
  <2>3. Well(p)
    BY DEF Written
  <2>4. CASE w.who = Srv /\ w.req = p /\ pull[p].st = "waiting"
    <3>1. pull'[p].ans = ans
      BY <2>1, <2>2, <2>4 DEF Pulls
    <3>2. Its(w, pull[p]) /\ w.who \notin owed
      BY <2>4, ClientIs DEF Held, SessionNumbers, Its, Types, PullTypes
    <3>3. Answers4(ans, pull[p])
      BY <2>4, <3>2 DEF RightFor
    <3> QED BY <1>1, <2>3, <2>4, <3>1, <3>3, WellKept DEF OnlyAnswers
  <2>5. CASE ~(w.who = Srv /\ w.req = p /\ pull[p].st = "waiting")
    <3>1. pull'[p].ans = pull[p].ans
      BY <2>1, <2>5
    <3> QED BY <1>1, <2>3, <3>1, WellKept DEF OnlyAnswers
  <2> QED BY <2>4, <2>5
<1> QED BY <1>1, <1>4, <1>5 DEF Replies, Written, OnlyAnswers

LEMMA SrvReadBytes ==
  ASSUME Types, SessionNumbers, OwnReads, InHand, Replies, Written, NEW c \in Clients, SrvRead(c)
  PROVE  Replies' /\ Written'
<1> DEFINE w == Head(up[c]).w
<1>1. /\ up[c] # <<>> /\ Head(up[c]).t = "read" /\ w \in Requests
      /\ up' = [up EXCEPT ![c] = Tail(@)]
      /\ IF cur.who = None THEN Deliver(w, NotFound) ELSE UNCHANGED <<down, pull>>
      /\ UNCHANGED <<conn, owed>>
  BY SrvReadIs DEF history
<1>2. Held(w)
  BY <1>1, UpTail DEF InHand
<1> HIDE DEF w
<1>3. CASE cur.who = None
  BY <1>1, <1>2, <1>3, AnswerIs, NotFoundRight, DeliverBytes
<1>4. CASE cur.who # None
  BY <1>1, <1>4, SameOnlyAnswers, OnlyAnswersAsked, RepliesKept, QuietWell
<1> QED BY <1>3, <1>4

LEMMA RouteSendBytes ==
  ASSUME Types, SessionNumbers, InHand, Replies, Written, NEW r \in route, RouteSend(r)
  PROVE  Replies' /\ Written'
<1> DEFINE q0 == [t |-> "read", req |-> nextReq, seq |-> r.w.seq, at |-> r.w.at]
<1>1. /\ r.w \in Requests /\ r.to \in Clients
      /\ IF Registered(r.to)
         THEN /\ down' = IF conn[r.to].st = "on" THEN [down EXCEPT ![r.to] = Append(@, q0)] ELSE down
              /\ UNCHANGED pull
         ELSE Deliver(r.w, NotFound)
      /\ UNCHANGED <<conn, owed>>
  BY RouteSendIs DEF history
<1>2. q0.t = "read"
  OBVIOUS
<1> HIDE DEF q0
<1>3. Held(r.w)
  BY DEF InHand
<1>4. CASE Registered(r.to)
  <2>1. \A n \in Clients : \A q \in Range(down'[n]) : q.t = "reply" => q \in Range(down[n])
    <3>1. CASE conn[r.to].st = "on"
      <4>1. down' = [down EXCEPT ![r.to] = Append(@, q0)] /\ down[r.to] \in Seq(DownMessages)
        BY <1>1, <1>4, <3>1 DEF Types, LinkTypes
      <4>2. Range(down'[r.to]) = Range(down[r.to]) \cup {q0}
        BY <4>1, <1>1, RangeOfAppend DEF Types, LinkTypes
      <4>3. \A n \in Clients : n # r.to => down'[n] = down[n]
        BY <4>1 DEF Types, LinkTypes
      <4> QED BY <4>2, <4>3, <1>2
    <3>2. CASE conn[r.to].st # "on"
      BY <1>1, <1>4, <3>2
    <3> QED BY <3>1, <3>2
  <2> QED BY <1>1, <1>4, <2>1, SameOnlyAnswers, OnlyAnswersAsked, RepliesKept, QuietWell
<1>5. CASE ~Registered(r.to)
  BY <1>1, <1>3, <1>5, AnswerIs, NotFoundRight, DeliverBytes
<1> QED BY <1>4, <1>5

LEMMA LocalReadBytes ==
  ASSUME Types, SessionNumbers, Announced, InHand, Replies, Written, NEW w \in local, LocalRead(w)
  PROVE  Replies' /\ Written'
<1>1. w \in Requests /\ UNCHANGED <<conn, owed>>
  BY LocalReadIs DEF history
<1>2. PICK ans \in Reads(Srv, w) : ans \in Answers /\ Deliver(w, ans)
  BY LocalReadIs
<1>3. Held(w)
  BY DEF InHand
<1>4. Serves(ans, w.seq, w.at)
  <2>1. Srv \in Machines /\ w.at \in Asked
    BY <1>1 DEF Machines, Requests
  <2>2. ans.ok => /\ own[Srv] # None /\ own[Srv].seq = w.seq
                  /\ ans.data = [ann |-> own[Srv], at |-> Served(own[Srv].roots, w.at)]
    BY <1>2, <2>1, ReadsAnswer DEF Types
  <2>3. own[Srv] # None => own[Srv] \in Announcements /\ Genuine(own[Srv])
    BY <2>1 DEF Announced, Types, RouterTypes
  <2> QED BY <2>2, <2>3 DEF Serves
<1>5. w.who \notin owed => RightFor(ans, w)
  BY <1>1, <1>3, <1>4, ServedRight
<1> QED BY <1>1, <1>2, <1>3, <1>5, DeliverBytes

LEMMA SrvReplyBytes ==
  ASSUME Types, RouterNumbers, SessionNumbers, Announced, InHand, OwnersBytes, Replies, Written,
         NEW c \in Clients, SrvReply(c)
  PROVE  Replies' /\ Written'
<1> DEFINE r == Head(up[c])
           hit == {x \in pending : x.req = r.req}
<1>1. /\ up[c] # <<>> /\ r.t = "reply" /\ r.ans \in Answers
      /\ up' = [up EXCEPT ![c] = Tail(@)]
      /\ \/ hit = {} /\ UNCHANGED <<down, pull>>
         \/ \E x \in pending : hit = {x} /\ Deliver(x.w, IF x.to = c THEN r.ans ELSE NotFound)
      /\ UNCHANGED <<conn, owed>>
  BY SrvReplyIs DEF history
<1>2. r \in Range(up[c])
  BY <1>1, UpTail
<1>3. CASE UNCHANGED <<down, pull>>
  BY <1>1, <1>3, SameOnlyAnswers, OnlyAnswersAsked, RepliesKept, QuietWell
<1>4. ASSUME NEW x \in pending, hit = {x}, Deliver(x.w, IF x.to = c THEN r.ans ELSE NotFound)
      PROVE  Replies' /\ Written'
  <2> DEFINE ans == IF x.to = c THEN r.ans ELSE NotFound
  <2>1. x.req = r.req
    <3>1. x \in hit
      BY <1>4
    <3> QED BY <3>1
  <2>2. x.w \in Requests /\ ans \in Answers /\ Held(x.w)
    BY <1>1, TokenIs, AnswerIs DEF InHand
  <2>3. Serves(r.ans, x.w.seq, x.w.at)
    BY <1>1, <1>2, <2>1 DEF OwnersBytes
  <2>4. x.w.who \notin owed => RightFor(ans, x.w)
    BY <2>2, <2>3, ServedRight, NotFoundRight
  <2>5. Deliver(x.w, ans)
    BY <1>4
  <2> HIDE DEF ans
  <2> QED BY <1>1, <2>2, <2>4, <2>5, DeliverBytes
<1> QED BY <1>1, <1>3, <1>4

LEMMA SrvNoteBytes ==
  ASSUME Types, RouterNumbers, SessionNumbers, InHand, Replies, Written, NEW c \in Clients, SrvNote(c)
  PROVE  Replies' /\ Written'
<1>1. /\ conn[c].st = "closing" /\ conn' = [conn EXCEPT ![c].st = "noted"]
      /\ \A n \in Clients :
           Range(down'[n]) = IF conn[n].st = "on" THEN Range(down[n]) \cup Answering(c, n) ELSE Range(down[n])
      /\ pull' = [p \in DOMAIN pull |->
                       IF (\E x \in Mine(c) : x.w.who = Srv /\ x.w.req = p) /\ pull[p].st = "waiting"
                       THEN [pull[p] EXCEPT !.ans = NotFound] ELSE pull[p]]
      /\ UNCHANGED owed
  BY SrvNoteIs DEF history
<1>2. OnlyAnswers
  BY RouterOnlyAnswers
<1>3. \A n \in Clients : n # c => conn'[n] = conn[n]
  BY <1>1 DEF Types, LinkTypes
<1>4. ASSUME NEW n \in Clients \ owed, NEW q \in Range(down'[n]), q.t = "reply"
      PROVE  Fits(q, n)'
  <2>1. Fits(q, n)
    <3>1. CASE q \in Range(down[n])
      BY <1>4, <3>1 DEF Replies
    <3>2. CASE q \notin Range(down[n])
      <4>1. conn[n].st = "on" /\ q \in Answering(c, n)
        BY <1>1, <1>4, <3>2
      <4>2. PICK x \in pending : x.w.who = n /\ q = [t |-> "reply", req |-> x.w.req, ans |-> NotFound]
        BY <4>1 DEF Answering, Mine
      <4>3. q.req = x.w.req /\ q.ans = NotFound
        BY <4>2
      <4>4. q.req < conn[n].next
        BY <1>4, <4>2, <4>3, ClientIs DEF InHand, Held
      <4> QED BY <4>1, <4>3, <4>4, AnswerIs DEF Fits, Answers4
    <3> QED BY <3>1, <3>2
  <2>2. n # c
    BY <1>1, <2>1 DEF Fits
  <2> QED BY <1>2, <1>3, <2>1, <2>2 DEF Fits, OnlyAnswers, Answers4, Asks
<1>5. ASSUME NEW p \in DOMAIN pull PROVE Well(p)'
  <2>1. Well(p) /\ pull[p] \in Pulls
    BY PullFields DEF Written
  <2>2. pull'[p].ans = pull[p].ans \/ (pull[p].st = "waiting" /\ pull'[p].ans = NotFound)
    BY <1>1, <2>1 DEF Pulls
  <2>3. \/ pull'[p].ans = pull[p].ans
        \/ pull[p].st = "waiting" /\ Answers4(pull'[p].ans, pull[p])
    BY <2>2, AnswerIs DEF Answers4
  <2> QED BY <1>1, <1>2, <2>1, <2>3, WellKept DEF OnlyAnswers
<1> QED BY <1>1, <1>2, <1>4, <1>5 DEF Replies, Written, OnlyAnswers

LEMMA ClientReplyBytes ==
  ASSUME Types, RouterNumbers, Replies, Written, NEW c \in Clients, ClientReply(c)
  PROVE  Replies' /\ Written'
<1> DEFINE q == Head(down[c])
<1>1. /\ down[c] # <<>> /\ q.t = "reply"
      /\ down' = [down EXCEPT ![c] = Tail(@)]
      /\ pull' = [p \in DOMAIN pull |->
                       IF /\ pull[p].who = c /\ pull[p].sess = conn[c].sess
                          /\ pull[p].st = "waiting" /\ pull[p].req = q.req
                       THEN [pull[p] EXCEPT !.ans = q.ans] ELSE pull[p]]
      /\ UNCHANGED <<conn, owed>>
  BY ClientReplyIs DEF history
<1>2. Range(down[c]) = {q} \cup Range(down'[c]) /\ \A n \in Clients : n # c => down'[n] = down[n]
  BY <1>1, DownTail
<1> HIDE DEF q
<1>3. OnlyAnswers
  BY RouterOnlyAnswers
<1>4. c \notin owed => Fits(q, c)
  BY <1>1, <1>2 DEF Replies
<1>5. ASSUME NEW p \in DOMAIN pull PROVE Well(p)'
  <2>1. Well(p) /\ pull[p] \in Pulls
    BY PullFields DEF Written
  <2>2. CASE /\ pull[p].who = c /\ pull[p].sess = conn[c].sess
             /\ pull[p].st = "waiting" /\ pull[p].req = q.req
    <3>1. pull'[p].ans = q.ans
      BY <1>1, <2>1, <2>2 DEF Pulls
    <3>2. pull[p].who \notin owed => Answers4(pull'[p].ans, pull[p])
      BY <1>4, <2>2, <3>1 DEF Fits
    <3> QED BY <1>1, <1>3, <2>1, <2>2, <3>2, WellKept DEF OnlyAnswers
  <2>3. CASE ~ /\ pull[p].who = c /\ pull[p].sess = conn[c].sess
               /\ pull[p].st = "waiting" /\ pull[p].req = q.req
    <3>1. pull'[p].ans = pull[p].ans
      BY <1>1, <2>3
    <3> QED BY <1>1, <1>3, <2>1, <3>1, WellKept DEF OnlyAnswers
  <2> QED BY <2>2, <2>3
<1>6. Replies'
  BY <1>1, <1>2, <1>3, OnlyAnswersAsked, RepliesKept
<1> QED BY <1>3, <1>5, <1>6 DEF Written, OnlyAnswers

LEMMA PrefixOfAppend ==
  ASSUME NEW T, NEW s \in Seq(T), NEW x \in T
  PROVE  /\ SubSeq(Append(s, x), 1, Len(s)) = s
         /\ \A i \in 1..Len(s) : SubSeq(Append(s, x), 1, i - 1) = SubSeq(s, 1, i - 1)
<1>1. Append(s, x) \in Seq(T) /\ Len(Append(s, x)) = Len(s) + 1 /\ Len(s) \in Nat
  OBVIOUS
<1>2. SubSeq(Append(s, x), 1, Len(s)) = s
  OBVIOUS
<1>3. ASSUME NEW i \in 1..Len(s) PROVE SubSeq(Append(s, x), 1, i - 1) = SubSeq(s, 1, i - 1)
  OBVIOUS
<1> QED BY <1>2, <1>3

\* The chunk that was asked for next is right.
LEMMA RightAppended ==
  ASSUME NEW p \in DOMAIN pull, Right(p), pull[p].got \in Seq(Chunks), NEW chunk \in Chunks,
         chunk = [ann |-> pull[p].ann, at |-> Asks(pull[p])],
         pull'[p].ann = pull[p].ann, pull'[p].got = Append(pull[p].got, chunk)
  PROVE  Right(p)'
<1> DEFINE g == pull[p].got
           h == Append(g, chunk)
           roots == pull[p].ann.roots
<1>1. \A i \in DOMAIN g : g[i] = [ann |-> pull[p].ann, at |-> Reading[roots][Bytes(SubSeq(g, 1, i - 1))]]
  BY DEF Right
<1>2. chunk = [ann |-> pull[p].ann, at |-> Reading[roots][Bytes(g)]]
  BY DEF Asks
<1>3. /\ DOMAIN g = 1..Len(g) /\ Len(g) \in Nat /\ DOMAIN h = 1..(Len(g) + 1)
      /\ h[Len(g) + 1] = chunk /\ \A i \in 1..Len(g) : h[i] = g[i]
  OBVIOUS
<1>4. /\ SubSeq(h, 1, Len(g)) = g
      /\ \A i \in 1..Len(g) : SubSeq(h, 1, i - 1) = SubSeq(g, 1, i - 1)
  BY PrefixOfAppend
<1>5. pull'[p].got = h /\ pull'[p].ann = pull[p].ann
  OBVIOUS
<1> HIDE DEF g, h
<1>6. ASSUME NEW i \in DOMAIN h
      PROVE  h[i] = [ann |-> pull[p].ann, at |-> Reading[roots][Bytes(SubSeq(h, 1, i - 1))]]
  <2>1. CASE i \in 1..Len(g)
    <3>1. h[i] = g[i] /\ SubSeq(h, 1, i - 1) = SubSeq(g, 1, i - 1) /\ i \in DOMAIN g
      BY <2>1, <1>3, <1>4
    <3> HIDE DEF roots
    <3> QED BY <3>1, <1>1
  <2>2. CASE i = Len(g) + 1
    <3>1. i - 1 = Len(g) /\ h[i] = chunk
      BY <2>2, <1>3
    <3>2. SubSeq(h, 1, i - 1) = g
      BY <3>1, <1>4
    <3> HIDE DEF roots
    <3> QED BY <3>1, <3>2, <1>2
  <2> QED BY <1>3, <1>6, <2>1, <2>2
<1> QED BY <1>5, <1>6 DEF Right

LEMMA AloneBytes ==
  ASSUME Types, Replies, Written, NEW p \in DOMAIN pull, Alone(p)
  PROVE  Replies' /\ Written'
<1>1. /\ Kept(p) /\ (Starts(p) \/ Gets(p) \/ Quits(p) \/ Places(p))
      /\ UNCHANGED <<conn, down, owed>>
  BY AloneIs DEF Kept, links, history
<1>2. Replies'
  BY <1>1, AloneAsked, RepliesKept
<1>3. ASSUME NEW q \in DOMAIN pull, q # p PROVE Well(q)'
  BY <1>1, <1>3, WellKept DEF Written, Kept
<1>4. Well(p) /\ pull'[p].who = pull[p].who /\ pull'[p].ann = pull[p].ann /\ UNCHANGED owed
      /\ pull[p].got \in Seq(Chunks)
  BY <1>1, PullFields DEF Written, Kept
<1>5. Well(p)'
  <2>1. CASE Starts(p)
    <3>1. pull'[p].st = "ready" /\ pull'[p].ans = None /\ pull'[p].got = pull[p].got
      BY <1>4, <2>1 DEF Starts, Well
    <3>2. Right(p) => Right(p)'
      BY <1>4, <3>1 DEF Right
    <3> QED BY <1>4, <3>1, <3>2 DEF Well
  <2>2. CASE Gets(p)
    <3>1. pull'[p].st = "ready" /\ pull'[p].ans = None
      BY <2>2 DEF Gets
    <3>2. pull[p].who \notin owed => Right(p)'
      <4> SUFFICES ASSUME pull[p].who \notin owed PROVE Right(p)'
        OBVIOUS
      <4>1. /\ pull[p].st = "waiting" /\ pull[p].ans # None /\ pull[p].ans.ok /\ pull[p].ans.data \in Chunks
            /\ pull'[p].got = Append(pull[p].got, pull[p].ans.data)
        BY <2>2 DEF Gets
      <4>2. Right(p) /\ pull[p].ans.data = [ann |-> pull[p].ann, at |-> Asks(pull[p])]
        BY <1>4, <4>1 DEF Well, Answers4
      <4> QED BY <1>4, <4>1, <4>2, RightAppended
    <3> QED BY <1>4, <3>1, <3>2 DEF Well
  <2>3. CASE Quits(p)
    <3>1. pull'[p].st \notin {"waiting", "new"} /\ pull'[p].ans = None /\ pull'[p].got = <<>>
      BY <2>3 DEF Quits
    <3>2. Right(p)'
      BY <3>1 DEF Right
    <3> QED BY <3>1, <3>2 DEF Well
  <2>4. CASE Places(p)
    <3>1. pull'[p].st = "done" /\ pull'[p].ans = None /\ pull'[p].got = pull[p].got
      BY <2>4 DEF Places
    <3>2. Right(p) => Right(p)'
      BY <1>4, <3>1 DEF Right
    <3> QED BY <1>4, <3>1, <3>2 DEF Well
  <2> QED BY <1>1, <2>1, <2>2, <2>3, <2>4
<1>6. Written'
  BY <1>1, <1>3, <1>5 DEF Written, Kept
<1> QED BY <1>2, <1>6

LEMMA AskBytes ==
  ASSUME Types, Replies, Written, NEW p \in DOMAIN pull, Ask(p)
  PROVE  Replies' /\ Written'
<1> DEFINE c == pull[p].who
<1>1. /\ pull[p].st = "ready" /\ ~Complete(p)
      /\ DOMAIN pull' = DOMAIN pull /\ \A q \in DOMAIN pull : q # p => pull'[q] = pull[q]
      /\ pull'[p].who = c /\ pull'[p].ann = pull[p].ann
      /\ pull'[p].got = pull[p].got /\ pull'[p].ans = pull[p].ans
      /\ pull'[p].st = "waiting"
      /\ pull'[p].req = (IF c = Srv THEN p ELSE conn[c].next)
      /\ UNCHANGED <<down, owed>>
  BY AskIs DEF history, Wants
<1>2. UNCHANGED conn \/ (c \in Clients /\ conn' = [conn EXCEPT ![c].next = @ + 1])
  BY AskIs, PullFields DEF Renumbered
<1> HIDE DEF c
<1>3. \A n \in Clients : /\ conn'[n].st = conn[n].st /\ conn'[n].sess = conn[n].sess
                         /\ conn[n].next \in Nat /\ conn'[n].next \in Nat /\ conn'[n].next >= conn[n].next
  <2>1. /\ conn = [n \in Clients |-> conn[n]]
        /\ \A n \in Clients : DOMAIN conn[n] = {"st", "sess", "next"} /\ conn[n].next \in Nat
    BY DEF Types, LinkTypes
  <2>2. CASE UNCHANGED conn
    BY <2>1, <2>2
  <2>3. CASE c \in Clients /\ conn' = [conn EXCEPT ![c].next = @ + 1]
    BY <2>1, <2>3
  <2> QED BY <1>2, <2>2, <2>3
<1>4. ASSUME NEW n \in Clients \ owed, NEW q \in Range(down'[n]), q.t = "reply"
      PROVE  Fits(q, n)'
  <2>1. Fits(q, n) /\ q.req \in Nat
    <3>1. q \in Range(down[n]) /\ down[n] \in Seq(DownMessages)
      BY <1>1, <1>4 DEF Types, LinkTypes
    <3>2. q.req \in Nat
      BY <3>1 DEF Range, DownMessages
    <3> QED BY <1>4, <3>1, <3>2 DEF Replies
  <2>2. n # Srv
    BY ClientIs
  <2>3. ASSUME NEW i \in DOMAIN pull', pull'[i].who = n, pull'[i].sess = conn'[n].sess,
               pull'[i].st = "waiting", pull'[i].req = q.req
        PROVE  i # p
    BY <1>1, <2>1, <2>2, <2>3, <1>3 DEF Fits
  <2>4. ASSUME NEW i \in DOMAIN pull', pull'[i].who = n, pull'[i].sess = conn'[n].sess,
               pull'[i].st = "waiting", pull'[i].req = q.req
        PROVE  Answers4(q.ans, pull'[i])
    <3>1. pull'[i] = pull[i] /\ i \in DOMAIN pull
      BY <1>1, <2>3, <2>4
    <3> QED BY <1>3, <2>1, <2>4, <3>1 DEF Fits
  <2>5. conn'[n].st = "on" /\ q.req < conn'[n].next
    BY <1>3, <2>1 DEF Fits
  <2> QED BY <2>4, <2>5 DEF Fits, Answers4, Asks
<1>5. ASSUME NEW q \in DOMAIN pull, q # p PROVE Well(q)'
  BY <1>1, <1>5, WellKept DEF Written
<1>6. Well(p)'
  <2>1. Well(p)
    BY DEF Written
  <2>2. pull'[p].ans = None
    BY <1>1, <2>1 DEF Well
  <2>3. Lacks(pull'[p])
    BY <1>1 DEF Complete, Lacks
  <2>4. Right(p) => Right(p)'
    BY <1>1 DEF Right
  <2> QED BY <1>1, <2>1, <2>2, <2>3, <2>4 DEF Well, Lacks, c
<1> QED BY <1>1, <1>4, <1>5, <1>6 DEF Replies, Written

LEMMA EnterBytes ==
  ASSUME Types, Replies, Written, NEW m \in Machines, Enter(m)
  PROVE  Replies' /\ Written'
<1>0. PICK new \in Nat : new = Len(pull) + 1
  BY EnterIs
<1>1. /\ DOMAIN pull = 1..Len(pull) /\ Len(pull) \in Nat /\ DOMAIN pull' = 1..new
      /\ \A p \in DOMAIN pull : pull'[p] = pull[p]
      /\ UNCHANGED <<conn, down, owed>>
  BY <1>0, EnterIs DEF links, history
<1>2. pull'[new].st = "new" /\ pull'[new].ans = None /\ pull'[new].got = <<>>
  <2>1. pull'[Len(pull) + 1] = [who |-> m, ann |-> remote[m].ann, st |-> "new", got |-> <<>>,
                           req |-> 0, ans |-> None, gen |-> cancel[m],
                           sess |-> IF m = Srv THEN 0 ELSE conn[m].sess]
    BY EnterIs
  <2> QED BY <1>0, <2>1
<1>3. DOMAIN pull' = DOMAIN pull \cup {new}
  BY <1>0, <1>1
<1>4. ASSUME NEW n \in Clients \ owed, NEW q \in Range(down'[n]), q.t = "reply"
      PROVE  Fits(q, n)'
  <2>1. Fits(q, n)
    BY <1>1, <1>4 DEF Replies
  <2>2. ASSUME NEW i \in DOMAIN pull', pull'[i].st = "waiting"
        PROVE  i \in DOMAIN pull /\ pull'[i] = pull[i]
    BY <1>1, <1>2, <1>3, <2>2
  <2> QED BY <1>1, <2>1, <2>2 DEF Fits, Answers4, Asks
<1>5. ASSUME NEW q \in DOMAIN pull PROVE Well(q)'
  BY <1>1, <1>5, WellKept DEF Written
<1>6. Right(new)'
  <2>1. DOMAIN pull'[new].got = {}
    BY <1>2
  <2> QED BY <2>1, <1>1 DEF Right
<1>7. Well(new)'
  BY <1>1, <1>2, <1>6 DEF Well
<1>8. \A i \in DOMAIN pull' : Well(i)'
  BY <1>1, <1>3, <1>5, <1>7
<1> QED BY <1>1, <1>4, <1>8 DEF Replies, Written

LEMMA LoseBytes ==
  ASSUME Types, Replies, Written, NEW c \in Clients, Lose(c)
  PROVE  Replies' /\ Written'
<1>1. /\ conn' = [conn EXCEPT ![c] = [@ EXCEPT !.st = "closing"]] /\ down' = [down EXCEPT ![c] = <<>>]
      /\ owed \subseteq owed' /\ UNCHANGED pull
  BY DEF Lose
<1>2. /\ \A n \in Clients : n # c => conn'[n] = conn[n] /\ down'[n] = down[n]
      /\ Range(down'[c]) = {}
  BY <1>1, EmptyRange DEF Types, LinkTypes
<1> QED BY <1>1, <1>2, SameOnlyAnswers, OnlyAnswersAsked, RepliesKept, QuietWell

LEMMA ReopenBytes ==
  ASSUME Types, Replies, Written, NEW c \in Clients, Unregister(c) \/ Reconnect(c)
  PROVE  Replies' /\ Written'
<1>1. /\ conn[c].st # "on" /\ \A n \in Clients : n # c => conn'[n] = conn[n]
      /\ UNCHANGED <<pull, down, owed>>
  BY DEF Unregister, Reconnect, history, Types, LinkTypes
<1>2. c \notin owed => \A q \in Range(down[c]) : q.t # "reply"
  BY <1>1 DEF Replies, Fits
<1>3. \A n \in Clients \ owed' : \A q \in Range(down'[n]) : q.t = "reply" =>
        /\ q \in Range(down[n])
        /\ conn'[n].st = conn[n].st /\ conn'[n].sess = conn[n].sess /\ conn'[n].next = conn[n].next
  BY <1>1, <1>2
<1> QED BY <1>1, <1>3, SameOnlyAnswers, OnlyAnswersAsked, RepliesKept, QuietWell

LEMMA RestartBytes ==
  ASSUME Types, Written, Restart
  PROVE  Replies' /\ Written'
<1>1. /\ \A n \in Clients : Range(down'[n]) = {}
      /\ DOMAIN pull' = DOMAIN pull /\ UNCHANGED owed
  BY RestartIs, EmptyRange DEF history
<1>2. ASSUME NEW p \in DOMAIN pull PROVE Well(p)'
  <2>1. CASE pull'[p] = pull[p]
    BY <1>1, <2>1, WellKept DEF Written
  <2>2. CASE pull'[p] # pull[p]
    <3>1. pull'[p].st = "dead" /\ pull'[p].ans = None /\ pull'[p].got = <<>>
      BY <2>2, RestartIs
    <3>2. DOMAIN pull'[p].got = {}
      BY <3>1
    <3>3. Right(p)'
      BY <3>2 DEF Right
    <3> QED BY <3>1, <3>3 DEF Well
  <2> QED BY <2>1, <2>2
<1> QED BY <1>1, <1>2 DEF Replies, Written

LEMMA NextBytes ==
  ASSUME Types, Accounted, ByteInv, [Next]_vars
  PROVE  Replies' /\ Written'
<1>1. /\ RouterNumbers /\ SessionNumbers /\ OwnReads
      /\ Announced /\ InHand /\ OwnersBytes /\ Replies /\ Written
  BY DEF Accounted, ByteInv
<1>2. ASSUME NEW c \in Clients,
             \/ SrvRead(c) \/ SrvReply(c) \/ SrvNote(c) \/ ClientReply(c)
             \/ Lose(c) \/ Unregister(c) \/ Reconnect(c)
      PROVE  Replies' /\ Written'
  BY <1>1, <1>2, SrvReadBytes, SrvReplyBytes, SrvNoteBytes, ClientReplyBytes, LoseBytes, ReopenBytes
<1>3. ASSUME NEW r \in route, RouteSend(r) PROVE Replies' /\ Written'
  BY <1>1, <1>3, RouteSendBytes
<1>4. ASSUME NEW w \in local, LocalRead(w) PROVE Replies' /\ Written'
  BY <1>1, <1>4, LocalReadBytes
<1>5. ASSUME NEW p \in DOMAIN pull, PullStep(p) PROVE Replies' /\ Written'
  BY <1>1, <1>5, AloneBytes, AskBytes DEF PullStep, Alone
<1>6. ASSUME NEW m \in Machines, Enter(m) PROVE Replies' /\ Written'
  BY <1>1, <1>6, EnterBytes
<1>7. CASE Restart
  BY <1>1, <1>7, RestartBytes
<1>8. CASE \/ \E m \in Machines : Cancel(m)
           \/ \E m \in Owners : \E roots \in Copyable[m] : Announce(m, roots)
           \/ \E c \in Clients : ClientServe(c)
           \/ \E m \in Machines, s \in 1..MaxSeq : RemoveReceived(m, s)
           \/ UNCHANGED vars
  <2>1. UNCHANGED <<pull, conn, owed>>
    BY <1>8 DEF Cancel, Announce, ClientServe, RemoveReceived, vars, links, history
  <2>2. ASSUME NEW c \in Clients, ClientServe(c)
        PROVE  \A n \in Clients : \A q \in Range(down'[n]) : q \in Range(down[n])
    <3>1. down[c] # <<>> /\ down' = [down EXCEPT ![c] = Tail(@)]
      BY <2>2, ClientServeIs
    <3> QED BY <3>1, DownTail
  <2>3. (\E c \in Clients : ClientServe(c)) \/ UNCHANGED down
    BY <1>8 DEF Cancel, Announce, RemoveReceived, vars, links
  <2>4. \A n \in Clients : \A q \in Range(down'[n]) : q \in Range(down[n])
    BY <2>2, <2>3
  <2> QED BY <1>1, <2>1, <2>4, SameOnlyAnswers, OnlyAnswersAsked, RepliesKept, QuietWell
<1> QED BY <1>2, <1>3, <1>4, <1>5, <1>6, <1>7, <1>8 DEF Next, RouterStep

\* ByteInv is inductive with the types and Accounted.
LEMMA NextByteInv ==
  ASSUME Types, Accounted, ByteInv, [Next]_vars
  PROVE  ByteInv'
<1>1. Types' /\ Accounted'
  BY NextTypes, NextAccounted DEF Accounted
<1>2. /\ RouterNumbers /\ SessionNumbers /\ Announced /\ InHand /\ OneOut /\ OwnersBytes /\ Written
  BY DEF Accounted, ByteInv
<1> QED BY <1>1, <1>2, NextAnnounced, NextInHand, NextOwners, NextBytes DEF ByteInv

LEMMA InitByteInv == Init => ByteInv
<1> SUFFICES ASSUME Init PROVE ByteInv
  OBVIOUS
<1>1. /\ \A m \in Machines : own[m] = None /\ remote[m].ann = None
      /\ \A c \in Clients : Range(up[c]) = {} /\ Range(down[c]) = {}
      /\ DOMAIN pull = {} /\ local = {} /\ route = {} /\ pending = {}
  BY EmptyRange DEF Init
<1>2. Announced
  BY <1>1 DEF Announced
<1>3. InHand /\ OneOut
  BY <1>1 DEF InHand, OneOut
<1>4. OwnersBytes
  BY <1>1 DEF OwnersBytes
<1>5. Replies /\ Written
  BY <1>1 DEF Replies, Written
<1> QED BY <1>2, <1>3, <1>4, <1>5 DEF ByteInv

----------------------------------------------------------------------------
(* The staging folders.                                                    *)

LEMMA PulledOnceKept ==
  ASSUME Types, PulledOnce, SamePulled,
         \A m \in Machines : \/ remote'[m].ann = None
                             \/ remote'[m] = remote[m]
                             \/ \A p \in DOMAIN pull : pull[p].ann # remote'[m].ann
  PROVE  PulledOnce'
<1>1. ASSUME NEW p \in DOMAIN pull', NEW q \in DOMAIN pull',
             pull'[p].who = pull'[q].who, pull'[p].ann.epoch = pull'[q].ann.epoch,
             pull'[p].ann.seq = pull'[q].ann.seq
      PROVE  p = q
  BY <1>1 DEF PulledOnce, SamePulled
<1>2. ASSUME NEW p \in DOMAIN pull',
             remote'[pull'[p].who].ann # None, pull'[p].ann = remote'[pull'[p].who].ann
      PROVE  remote'[pull'[p].who].last = remote'[pull'[p].who].ann
  <2>1. p \in DOMAIN pull /\ pull'[p].who = pull[p].who /\ pull'[p].ann = pull[p].ann
        /\ pull[p].who \in Machines
    BY <1>2, PullFields DEF SamePulled
  <2>2. remote'[pull[p].who] = remote[pull[p].who]
    BY <1>2, <2>1
  <2> QED BY <1>2, <2>1, <2>2 DEF PulledOnce
<1> QED BY <1>1, <1>2 DEF PulledOnce

LEMMA EnterPulledOnce ==
  ASSUME Types, Announced, PulledOnce, NEW m \in Machines, Enter(m)
  PROVE  PulledOnce'
<1> DEFINE ann == remote[m].ann
<1>0. PICK new \in Nat : new = Len(pull) + 1
  BY EnterIs
<1>1. /\ ann \in Announcements /\ ann # None /\ ann # remote[m].last
      /\ DOMAIN pull = 1..Len(pull) /\ Len(pull) \in Nat /\ DOMAIN pull' = 1..new
      /\ \A p \in DOMAIN pull : pull'[p] = pull[p]
  BY <1>0, EnterIs, AnnouncementIs
<1>2. pull'[new].ann = ann /\ pull'[new].who = m
  <2>1. pull'[Len(pull) + 1] = [who |-> m, ann |-> remote[m].ann, st |-> "new", got |-> <<>>,
                           req |-> 0, ans |-> None, gen |-> cancel[m],
                           sess |-> IF m = Srv THEN 0 ELSE conn[m].sess]
    BY EnterIs
  <2> QED BY <1>0, <2>1
<1>3. /\ remote'[m].ann = ann /\ remote'[m].last = ann
      /\ \A n \in Machines : n # m => remote'[n] = remote[n]
  <2>1. remote' = [remote EXCEPT ![m].last = remote[m].ann]
    BY EnterIs
  <2>2. remote \in [Machines -> [ann : Announcements \cup {None}, last : Announcements \cup {None}]]
    BY DEF Types, RouterTypes
  <2> QED BY <2>1, <2>2
<1>4. DOMAIN pull' = DOMAIN pull \cup {new}
  BY <1>0, <1>1
<1>5. Genuine(ann)
  BY <1>1 DEF Announced
<1>6. ASSUME NEW p \in DOMAIN pull, pull[p].who = m PROVE pull[p].ann # ann
  BY <1>1, <1>6 DEF PulledOnce
<1> HIDE DEF ann
<1>7. ASSUME NEW p \in DOMAIN pull, pull[p].who = m, pull[p].ann.epoch = ann.epoch, pull[p].ann.seq = ann.seq
      PROVE  FALSE
  BY <1>5, <1>6, <1>7 DEF Genuine
<1>8. ASSUME NEW p \in DOMAIN pull', NEW q \in DOMAIN pull',
             pull'[p].who = pull'[q].who, pull'[p].ann.epoch = pull'[q].ann.epoch,
             pull'[p].ann.seq = pull'[q].ann.seq
      PROVE  p = q
  <2>1. CASE p \in DOMAIN pull /\ q \in DOMAIN pull
    BY <1>1, <1>8, <2>1 DEF PulledOnce
  <2>2. CASE p = new /\ q \in DOMAIN pull
    BY <1>1, <1>2, <1>7, <1>8, <2>2
  <2>3. CASE q = new /\ p \in DOMAIN pull
    BY <1>1, <1>2, <1>7, <1>8, <2>3
  <2> QED BY <1>4, <2>1, <2>2, <2>3
<1>9. ASSUME NEW p \in DOMAIN pull',
             remote'[pull'[p].who].ann # None, pull'[p].ann = remote'[pull'[p].who].ann
      PROVE  remote'[pull'[p].who].last = remote'[pull'[p].who].ann
  <2>1. CASE pull'[p].who = m
    BY <1>3, <2>1
  <2>2. CASE pull'[p].who # m
    <3>1. p \in DOMAIN pull /\ pull'[p] = pull[p] /\ pull[p].who \in Machines
      BY <1>1, <1>2, <1>4, <2>2, PullFields
    <3>2. remote'[pull[p].who] = remote[pull[p].who]
      BY <1>3, <2>2, <3>1
    <3> QED BY <1>9, <3>1, <3>2 DEF PulledOnce
  <2> QED BY <2>1, <2>2
<1> QED BY <1>8, <1>9 DEF PulledOnce

LEMMA NextPulledOnce ==
  ASSUME Types, RouterNumbers, Announced, PulledOnce, [Next]_vars
  PROVE  PulledOnce'
<1>1. ASSUME SamePulled, UNCHANGED remote PROVE PulledOnce'
  BY <1>1, PulledOnceKept
<1>2. ASSUME NEW m \in Machines, Enter(m) PROVE PulledOnce'
  BY <1>2, EnterPulledOnce
<1>3. ASSUME NEW m \in Owners, NEW roots \in Copyable[m], Announce(m, roots) PROVE PulledOnce'
  <2> DEFINE ann == [seq |-> cur.seq + 1, epoch |-> cur.epoch, roots |-> roots]
  <2>1. remote' = [n \in Machines |->
                  IF n = m THEN [remote[n] EXCEPT !.ann = None]
                  ELSE IF On(n) THEN [remote[n] EXCEPT !.ann = ann] ELSE remote[n]]
    BY <1>3 DEF Announce
  <2>2. ann.seq = cur.seq + 1 /\ ann.epoch = cur.epoch
    OBVIOUS
  <2> HIDE DEF ann
  <2>3. \A n \in Machines : remote'[n].ann = None \/ remote'[n] = remote[n] \/ remote'[n].ann = ann
    BY <2>1 DEF Types, RouterTypes
  <2>4. \A p \in DOMAIN pull : pull[p].ann # ann
    BY <2>2, PullFields DEF Announced, Genuine, Types, RouterTypes
  <2>5. SamePulled
    BY <1>3, OthersOnlyAnswers, OnlyAnswersSame
  <2> QED BY <2>3, <2>4, <2>5, PulledOnceKept
<1>4. ASSUME NEW c \in Clients, Lose(c) PROVE PulledOnce'
  <2>1. remote' = [remote EXCEPT ![c] = [ann |-> None, last |-> None]]
    BY <1>4 DEF Lose
  <2>2. \A n \in Machines : remote'[n].ann = None \/ remote'[n] = remote[n]
    BY <2>1 DEF Types, RouterTypes
  <2>3. SamePulled
    BY <1>4, OthersOnlyAnswers, OnlyAnswersSame
  <2> QED BY <2>2, <2>3, PulledOnceKept
<1>5. CASE Restart
  <2>1. \A n \in Machines : remote'[n].ann = None
    BY <1>5, RestartIs
  <2>2. SamePulled
    BY <1>5, RestartIs DEF SamePulled, Running
  <2> QED BY <2>1, <2>2, PulledOnceKept
<1>6. CASE \/ \E c \in Clients : SrvRead(c) \/ SrvReply(c) \/ SrvNote(c) \/ ClientReply(c)
           \/ \E r \in route : RouteSend(r)
           \/ \E w \in local : LocalRead(w)
  <2>1. SamePulled
    BY <1>6, RouterOnlyAnswers, OnlyAnswersSame
  <2>2. UNCHANGED remote
    BY <1>6 DEF SrvRead, SrvReply, SrvNote, ClientReply, RouteSend, LocalRead
  <2> QED BY <2>1, <2>2, <1>1
<1>7. CASE \/ \E c \in Clients : ClientServe(c) \/ Unregister(c) \/ Reconnect(c)
           \/ \E m \in Machines : Cancel(m)
           \/ \E m \in Machines, s \in 1..MaxSeq : RemoveReceived(m, s)
           \/ UNCHANGED vars
  <2>1. SamePulled
    BY <1>7, OthersOnlyAnswers, OnlyAnswersSame
  <2>2. UNCHANGED remote
    BY <1>7 DEF ClientServe, Unregister, Reconnect, Cancel, RemoveReceived, vars
  <2> QED BY <2>1, <2>2, <1>1
<1>8. ASSUME NEW p \in DOMAIN pull, PullStep(p) PROVE PulledOnce'
  <2>1. SamePulled /\ UNCHANGED remote
    BY <1>8, AloneSame, AskSame DEF PullStep, Alone
  <2> QED BY <2>1, <1>1
<1> QED BY <1>2, <1>3, <1>4, <1>5, <1>6, <1>7, <1>8 DEF Next, RouterStep

\* Pulls that have a folder of which something is expected.
Filled == {"ready", "waiting", "done"}

LEMMA FoldersKept ==
  ASSUME Types, StagedAsGot, Placed, UNCHANGED clip, DOMAIN pull' = DOMAIN pull,
         removed \subseteq removed', cur'.epoch = cur.epoch,
         \A p \in DOMAIN pull :
           /\ pull'[p].who = pull[p].who /\ pull'[p].ann = pull[p].ann
           /\ pull'[p].st \in Filled => pull[p].st \in Filled /\ pull'[p].got = pull[p].got
           /\ pull[p].st = "done" => pull'[p].st = "done",
         \A m \in Machines, s \in 1..MaxSeq : disk'[m][s] = disk[m][s] \/ <<m, s>> \in removed'
  PROVE  StagedAsGot' /\ Placed'
<1>1. ASSUME NEW p \in DOMAIN pull', cur'.epoch = 0, pull'[p].st \in Filled
      PROVE  \/ disk'[pull'[p].who][pull'[p].ann.seq] = pull'[p].got
             \/ <<pull'[p].who, pull'[p].ann.seq>> \in removed'
  <2>1. /\ pull'[p].who = pull[p].who /\ pull'[p].ann = pull[p].ann /\ pull'[p].got = pull[p].got
        /\ pull[p].who \in Machines /\ pull[p].ann.seq \in 1..MaxSeq
        /\ pull[p].st \in Filled /\ p \in DOMAIN pull /\ cur.epoch = 0
    BY <1>1, PullFields
  <2>2. \/ disk[pull[p].who][pull[p].ann.seq] = pull[p].got
        \/ <<pull[p].who, pull[p].ann.seq>> \in removed
    BY <2>1 DEF StagedAsGot, Filled
  <2>3. \/ disk'[pull[p].who][pull[p].ann.seq] = disk[pull[p].who][pull[p].ann.seq]
        \/ <<pull[p].who, pull[p].ann.seq>> \in removed'
    BY <2>1
  <2> QED BY <2>1, <2>2, <2>3
<1>2. Placed'
  BY DEF Placed
<1> QED BY <1>1, <1>2 DEF StagedAsGot, Filled

\* A step of one pull touches no folder but that pull's own.
LEMMA AloneFolders ==
  ASSUME Types, PulledOnce, Announced, Written, StagedAsGot, Placed, NEW p \in DOMAIN pull, Alone(p)
  PROVE  StagedAsGot' /\ Placed'
<1>1. /\ Kept(p) /\ pull[p].st \in Running
      /\ Starts(p) \/ Gets(p) \/ Quits(p) \/ Places(p)
      /\ DOMAIN pull' = DOMAIN pull /\ UNCHANGED <<cur, removed>>
  BY AloneIs DEF Kept, server, history
<1>2. /\ pull'[p].who = pull[p].who /\ pull'[p].ann = pull[p].ann
      /\ \A q \in DOMAIN pull : q # p => pull'[q] = pull[q]
      /\ \A m \in Machines, s \in 1..MaxSeq :
           <<m, s>> # <<pull[p].who, pull[p].ann.seq>> => disk'[m][s] = disk[m][s]
  BY <1>1 DEF Kept
<1>3. ASSUME NEW q \in DOMAIN pull, q # p, cur.epoch = 0, pull[q].st \in Filled
      PROVE  \/ disk'[pull[q].who][pull[q].ann.seq] = pull[q].got
             \/ <<pull[q].who, pull[q].ann.seq>> \in removed
  <2>1. /\ pull[q].who \in Machines /\ pull[q].ann.seq \in 1..MaxSeq
        /\ pull[q].ann.epoch \in Nat /\ pull[p].ann.epoch \in Nat
    BY PullFields
  <2>2. pull[q].ann.epoch = 0 /\ pull[p].ann.epoch = 0
    BY <2>1, <1>3 DEF Announced
  <2>3. <<pull[q].who, pull[q].ann.seq>> # <<pull[p].who, pull[p].ann.seq>>
    BY <2>2, <1>3 DEF PulledOnce
  <2>4. disk'[pull[q].who][pull[q].ann.seq] = disk[pull[q].who][pull[q].ann.seq]
    BY <2>1, <2>3, <1>2
  <2> QED BY <2>4, <1>3 DEF StagedAsGot, Filled
<1>4. ASSUME cur.epoch = 0, pull'[p].st \in Filled
      PROVE  \/ disk'[pull[p].who][pull[p].ann.seq] = pull'[p].got
             \/ <<pull[p].who, pull[p].ann.seq>> \in removed
  <2> DEFINE folder == disk[pull[p].who][pull[p].ann.seq]
  <2>1. CASE Starts(p)
    BY <2>1 DEF Starts, Written, Well
  <2>2. CASE Gets(p)
    <3>1. /\ pull[p].st \in Filled
          /\ disk'[pull[p].who][pull[p].ann.seq] = IF folder = None THEN None ELSE pull'[p].got
      BY <2>2 DEF Gets, Filled
    <3>2. pull[p].got # None
      BY PullFields, PullAssumption
    <3>3. folder = pull[p].got \/ <<pull[p].who, pull[p].ann.seq>> \in removed
      BY <3>1, <1>4 DEF StagedAsGot, Filled
    <3> HIDE DEF folder
    <3> QED BY <3>1, <3>2, <3>3
  <2>3. CASE Quits(p)
    BY <2>3, <1>4 DEF Quits, Filled
  <2>4. CASE Places(p)
    <3>1. pull[p].st \in Filled /\ pull'[p].got = pull[p].got /\ UNCHANGED disk
      BY <2>4 DEF Places, Filled
    <3>2. folder = pull[p].got \/ <<pull[p].who, pull[p].ann.seq>> \in removed
      BY <3>1, <1>4 DEF StagedAsGot, Filled
    <3> QED BY <3>1, <3>2
  <2> QED BY <1>1, <2>1, <2>2, <2>3, <2>4
<1>5. StagedAsGot'
  <2> SUFFICES ASSUME NEW q \in DOMAIN pull', cur'.epoch = 0, pull'[q].st \in Filled
               PROVE  \/ disk'[pull'[q].who][pull'[q].ann.seq] = pull'[q].got
                      \/ <<pull'[q].who, pull'[q].ann.seq>> \in removed'
    BY DEF StagedAsGot, Filled
  <2>1. CASE q = p
    BY <1>1, <1>2, <1>4, <2>1
  <2>2. CASE q # p
    <3>1. q \in DOMAIN pull /\ pull'[q] = pull[q]
      BY <1>1, <1>2, <2>2
    <3> QED BY <1>1, <1>3, <2>2, <3>1
  <2> QED BY <2>1, <2>2
<1>6. Placed'
  <2> SUFFICES ASSUME NEW m \in Machines, clip'[m] # None
               PROVE  clip'[m] \in DOMAIN pull /\ pull'[clip'[m]].who = m /\ pull'[clip'[m]].st = "done"
    BY <1>1 DEF Placed
  <2>1. CASE clip'[m] = clip[m]
    <3>1. clip[m] \in DOMAIN pull /\ pull[clip[m]].who = m /\ pull[clip[m]].st = "done"
      BY <2>1 DEF Placed
    <3>2. clip[m] # p
      BY <3>1, <1>1 DEF Running
    <3> QED BY <2>1, <3>1, <3>2, <1>2
  <2>2. CASE clip'[m] # clip[m]
    <3>1. Places(p)
      BY <1>1, <2>2 DEF Starts, Gets, Quits
    <3>2. /\ clip' = [clip EXCEPT ![pull[p].who] = p] /\ pull'[p].st = "done"
          /\ clip \in [Machines -> Nat \cup {None}]
      BY <3>1 DEF Places, Types, PullTypes
    <3>3. m = pull[p].who /\ clip'[m] = p
      BY <2>2, <3>2
    <3> QED BY <3>2, <3>3, <1>2
  <2> QED BY <2>1, <2>2
<1> QED BY <1>5, <1>6

LEMMA EnterFolders ==
  ASSUME Types, StagedAsGot, Placed, NEW m \in Machines, Enter(m)
  PROVE  StagedAsGot' /\ Placed'
<1>1. PICK new \in Nat : new = Len(pull) + 1
  BY EnterIs
<1>2. /\ DOMAIN pull' = DOMAIN pull \cup {new} /\ UNCHANGED <<cur, disk, clip, removed>>
      /\ \A p \in DOMAIN pull : pull'[p] = pull[p]
      /\ pull'[new].st = "new"
  <2>1. /\ Len(pull) \in Nat /\ DOMAIN pull = 1..Len(pull) /\ DOMAIN pull' = 1..new
        /\ \A p \in DOMAIN pull : pull'[p] = pull[p]
        /\ UNCHANGED <<server, stage, history>>
    BY <1>1, EnterIs
  <2>2. DOMAIN pull' = DOMAIN pull \cup {new}
    BY <1>1, <2>1
  <2>3. pull'[new].st = "new"
    <3>1. pull'[Len(pull) + 1] = [who |-> m, ann |-> remote[m].ann, st |-> "new", got |-> <<>>,
                           req |-> 0, ans |-> None, gen |-> cancel[m],
                           sess |-> IF m = Srv THEN 0 ELSE conn[m].sess]
      BY EnterIs
    <3> QED BY <1>1, <3>1
  <2> QED BY <2>1, <2>2, <2>3 DEF server, stage, history
<1>3. StagedAsGot'
  BY <1>2 DEF StagedAsGot
<1>4. Placed'
  BY <1>2 DEF Placed
<1> QED BY <1>3, <1>4

LEMMA RestartFolders ==
  ASSUME Types, Placed, Restart
  PROVE  StagedAsGot' /\ Placed'
<1>1. /\ DOMAIN pull' = DOMAIN pull /\ UNCHANGED clip
      /\ \A p \in DOMAIN pull : pull[p].st = "done" => pull'[p] = pull[p]
  BY RestartIs DEF Running, Restart, stage
<1>2. Placed'
  BY <1>1 DEF Placed
<1>3. cur'.epoch = cur.epoch + 1 /\ cur.epoch \in Nat
  BY RestartIs DEF Types, RouterTypes
<1>4. StagedAsGot'
  BY <1>3 DEF StagedAsGot
<1> QED BY <1>2, <1>4

LEMMA NextFolders ==
  ASSUME Types, RouterNumbers, Announced, Written, FolderInv, [Next]_vars
  PROVE  FolderInv'
<1>0. PulledOnce /\ StagedAsGot /\ Placed
  BY DEF FolderInv
<1>1. PulledOnce'
  BY <1>0, NextPulledOnce
<1> SUFFICES StagedAsGot' /\ Placed'
  BY <1>1 DEF FolderInv
<1>2. ASSUME OnlyAnswers, UNCHANGED clip, UNCHANGED disk, UNCHANGED removed,
             cur'.epoch = cur.epoch
      PROVE  StagedAsGot' /\ Placed'
  <2>1. \A p \in DOMAIN pull :
           /\ pull'[p].who = pull[p].who /\ pull'[p].ann = pull[p].ann
           /\ pull'[p].st \in Filled => pull[p].st \in Filled /\ pull'[p].got = pull[p].got
           /\ pull[p].st = "done" => pull'[p].st = "done"
    BY <1>2 DEF OnlyAnswers
  <2>2. DOMAIN pull' = DOMAIN pull
    BY <1>2 DEF OnlyAnswers
  <2> QED BY <1>0, <1>2, <2>1, <2>2, FoldersKept
<1>3. ASSUME NEW m \in Machines, Enter(m) PROVE StagedAsGot' /\ Placed'
  BY <1>0, <1>3, EnterFolders
<1>4. CASE Restart
  BY <1>0, <1>4, RestartFolders
<1>5. ASSUME NEW p \in DOMAIN pull, Alone(p) PROVE StagedAsGot' /\ Placed'
  BY <1>0, <1>5, AloneFolders
<1>6. ASSUME NEW p \in DOMAIN pull, Ask(p) PROVE StagedAsGot' /\ Placed'
  <2>1. /\ pull[p].st = "ready" /\ pull'[p].st = "waiting" /\ pull'[p].got = pull[p].got
        /\ pull'[p].who = pull[p].who /\ pull'[p].ann = pull[p].ann
        /\ DOMAIN pull' = DOMAIN pull /\ \A q \in DOMAIN pull : q # p => pull'[q] = pull[q]
        /\ UNCHANGED <<cur, clip, disk, removed>>
    BY <1>6, AskIs DEF stage, history
  <2>2. \A q \in DOMAIN pull :
           /\ pull'[q].who = pull[q].who /\ pull'[q].ann = pull[q].ann
           /\ pull'[q].st \in Filled => pull[q].st \in Filled /\ pull'[q].got = pull[q].got
           /\ pull[q].st = "done" => pull'[q].st = "done"
    BY <2>1 DEF Filled
  <2> QED BY <1>0, <2>1, <2>2, FoldersKept
<1>7. ASSUME NEW m \in Machines, NEW s \in 1..MaxSeq, RemoveReceived(m, s)
      PROVE  StagedAsGot' /\ Placed'
  <2>1. /\ disk' = [disk EXCEPT ![m][s] = None] /\ removed' = removed \cup {<<m, s>>}
        /\ UNCHANGED <<cur, clip, pull>>
    BY <1>7 DEF RemoveReceived, server
  <2>2. \A n \in Machines, t \in 1..MaxSeq : disk'[n][t] = disk[n][t] \/ <<n, t>> \in removed'
    BY <2>1 DEF Types, PullTypes
  <2> QED BY <1>0, <2>1, <2>2, FoldersKept
<1>8. CASE \/ \E c \in Clients : SrvRead(c) \/ SrvReply(c) \/ SrvNote(c) \/ ClientReply(c)
           \/ \E r \in route : RouteSend(r)
           \/ \E w \in local : LocalRead(w)
  <2>1. OnlyAnswers
    BY <1>8, RouterOnlyAnswers
  <2>2. UNCHANGED clip /\ UNCHANGED disk /\ UNCHANGED removed /\ cur'.epoch = cur.epoch
    <3>1. UNCHANGED <<stage, history>>
      BY <1>8 DEF SrvRead, SrvReply, SrvNote, ClientReply, RouteSend, LocalRead
    <3>2. cur' = cur \/ cur' = [cur EXCEPT !.who = None]
      BY <1>8 DEF SrvRead, SrvReply, SrvNote, ClientReply, RouteSend, LocalRead, server
    <3> QED BY <3>1, <3>2 DEF stage, history, Types, RouterTypes
  <2> QED BY <2>1, <2>2, <1>2
<1>9. CASE \/ \E c \in Clients : ClientServe(c) \/ Lose(c) \/ Unregister(c) \/ Reconnect(c)
           \/ \E m \in Machines : Cancel(m)
           \/ \E m \in Owners : \E roots \in Copyable[m] : Announce(m, roots)
           \/ UNCHANGED vars
  <2>1. OnlyAnswers
    BY <1>9, OthersOnlyAnswers
  <2>2. UNCHANGED clip /\ UNCHANGED disk /\ UNCHANGED removed
    BY <1>9 DEF ClientServe, Lose, Unregister, Reconnect, Cancel, Announce, stage, history, vars
  <2>3. cur'.epoch = cur.epoch
    <3>1. ASSUME NEW m \in Owners, NEW roots \in Copyable[m], Announce(m, roots)
          PROVE  cur'.epoch = cur.epoch
      <4>1. cur' = [cur EXCEPT !.who = m, !.seq = cur.seq + 1]
        BY <3>1 DEF Announce
      <4> QED BY <4>1 DEF Types, RouterTypes
    <3>2. CASE \/ \E c \in Clients : ClientServe(c) \/ Lose(c) \/ Unregister(c) \/ Reconnect(c)
               \/ \E m \in Machines : Cancel(m)
               \/ UNCHANGED vars
      BY <3>2 DEF ClientServe, Lose, Unregister, Reconnect, Cancel, server, vars
    <3> QED BY <1>9, <3>1, <3>2
  <2> QED BY <2>1, <2>2, <2>3, <1>2
<1> QED BY <1>3, <1>4, <1>5, <1>6, <1>7, <1>8, <1>9 DEF Next, RouterStep, PullStep, Alone

LEMMA InitFolders == Init => FolderInv
<1> SUFFICES ASSUME Init PROVE FolderInv
  OBVIOUS
<1>1. DOMAIN pull = {} /\ \A m \in Machines : clip[m] = None
  BY DEF Init
<1> QED BY <1>1 DEF FolderInv, PulledOnce, StagedAsGot, Placed

\* What a pull writes is what was announced, read by read, but for a client that left while
\* an answer was owed to it; and what the clipboard refers to stays as it was written, but
\* for folders removed by hand or numbered again by a restarted server (FileRouter::route,
\* FileChannel, FileOwner::read, pull_into, spawn_pull).
THEOREM PullOwnBytes == Spec => []OwnBytesUnlessOwed
<1>1. Init => Types /\ Accounted /\ ByteInv /\ FolderInv
  BY InitTypes, InitAccounted, InitByteInv, InitFolders
<1>2. Types /\ Accounted /\ ByteInv /\ FolderInv /\ [Next]_vars
      => Types' /\ Accounted' /\ ByteInv' /\ FolderInv'
  BY NextTypes, NextAccounted, NextByteInv, NextFolders DEF Accounted, ByteInv
<1>3. Types /\ ByteInv /\ FolderInv => OwnBytesUnlessOwed
  <2> SUFFICES ASSUME Types, ByteInv, FolderInv PROVE OwnBytesUnlessOwed
    OBVIOUS
  <2>1. \A p \in DOMAIN pull : Right(p) \/ pull[p].who \in owed
    BY DEF ByteInv, Written, Well
  <2>2. ASSUME NEW m \in Machines, clip[m] # None
        PROVE  \/ disk[m][pull[clip[m]].ann.seq] = pull[clip[m]].got
               \/ <<m, pull[clip[m]].ann.seq>> \in removed \/ cur.epoch > 0
    <3>1. clip[m] \in DOMAIN pull /\ pull[clip[m]].who = m /\ pull[clip[m]].st = "done"
      BY <2>2 DEF FolderInv, Placed
    <3>2. cur.epoch \in Nat
      BY DEF Types, RouterTypes
    <3> QED BY <3>1, <3>2 DEF FolderInv, StagedAsGot
  <2> QED BY <2>1, <2>2 DEF OwnBytesUnlessOwed
<1> QED BY <1>1, <1>2, <1>3, PTL DEF Spec
=============================================================================
