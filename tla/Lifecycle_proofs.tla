-------------------------- MODULE Lifecycle_proofs --------------------------
(***************************************************************************)
(* Theorems about Lifecycle, for any number of daemons, controllers and    *)
(* sessions: daemons are found, sessions are accounted for and what the    *)
(* app shows follows its daemon.                                           *)
(***************************************************************************)
EXTENDS Lifecycle, FiniteSetTheorems, TLAPS

Tasks == [at : {"free", "starting", "live", "aborting", "stopping", "done"},
          of : Daemons \cup {None}, kind : Kinds, desk : {"none", "sent", "set"}]
Commands == [at : {"away", "out", "waits", "in", "start", "spare", "stop"},
             on : Daemons \cup {None}, kind : Kinds \cup {"none"},
             took : Sessions \cup {None}, made : BOOLEAN]
Fields == [running : Sessions \cup {None}, desk : Sessions \cup {None},
           status : {"stopped", "up", "failed"}]
Views == [shows : {"stopped", "up", "failed"}, sub : {"no", "asking", "yes"},
          news : {"none", "waiting", "lost"}]

----------------------------------------------------------------------------
(* The endpoint.                                                           *)

\* Unless two daemons bound over one another, the one that listens has the socket, and the
\* token once it is up.
Endpoint ==
  /\ \A d \in Daemons : listener[d] \in {"open", "dropping"} => proc[d] \in {"bound", "up"}
  /\ \A d \in Daemons : proc[d] = "bound" => listener[d] = "open"
  /\ ~ raced => \A d \in Daemons : listener[d] \in {"open", "dropping"} => sock = d
  /\ ~ raced => \A d \in Daemons : proc[d] = "up" /\ listener[d] = "open" => token = d

----------------------------------------------------------------------------
(* Who owns what.                                                          *)

\* A command is attached to a daemon, and a main loop to none but its own.
Attached(o) == o.at \in {"in", "start", "spare", "stop"}

Alive(t) == t.at \in {"starting", "live", "stopping"}
Stops(x, d) == op[x].on = d /\ op[x].at = "stop"

\* Sessions, commands and closings are those of daemons that are up.
OfUp ==
  /\ \A s \in Sessions : task[s].of # None => proc[task[s].of] = "up" /\ task[s].at # "free"
  /\ \A s \in Sessions : task[s].of = None => task[s].at \in {"free", "done"} /\ task[s].desk = "none"
  /\ \A x \in Actors : op[x].on # None => proc[op[x].on] = "up"
  /\ \A x \in Actors : op[x].on # None <=> Attached(op[x])
  /\ \A d \in Daemons : op[d].on \in {None, d}
  /\ \A d \in Daemons : proc[d] # "up" => sess[d] = NoSession /\ ~ closing[d]

\* What a daemon runs is a task of its own, and so is what a stop took out; a client that
\* was taken out is on its way to its end.  Only a server has a desk.
Own ==
  /\ \A d \in Daemons : sess[d].running # None => task[sess[d].running].of = d
  /\ \A x \in Actors : op[x].at = "stop" /\ op[x].took # None =>
       /\ task[op[x].took].of = op[x].on
       /\ task[op[x].took].kind = "client" => task[op[x].took].at \in {"aborting", "done"}
  /\ \A s \in Sessions : task[s].kind = "client" => task[s].desk = "none"
  /\ \A s \in Sessions : task[s].at = "aborting" => task[s].kind = "client"

\* Every command that will start a session has a slot left.
Room == FreeSlots >= 0

\* Whose session lives: SessionAccounted, of one daemon.
Accounted(d) ==
  \A s \in Sessions : task[s].of = d /\ Alive(task[s]) =>
    \/ overlap[d]
    \/ sess[d].running = s /\ ~ closing[d]
    \/ \E x \in Actors : Stops(x, d) /\ op[x].took = s

\* Nothing runs while a stop is under way, and a desk that is yet to be set is that of a
\* server that lives, unless the daemon is closing.
Alone(d) ==
  \/ overlap[d]
  \/ sess[d].running = None
  \/ \A x \in Actors : ~ Stops(x, d)

Desks(d) ==
  \/ overlap[d] \/ closing[d]
  \/ /\ \A s \in Sessions : task[s].of = d /\ task[s].desk = "sent" => Alive(task[s])
     /\ \/ sess[d].desk \in {None, sess[d].running}
        \/ \E x \in Actors : Stops(x, d)

Orderly == \A d \in Daemons : Accounted(d) /\ Alone(d) /\ Desks(d)

----------------------------------------------------------------------------
(* What the apps show.                                                     *)

Following ==
  \A c \in Controllers : view[c].sub # "no" =>
    /\ Attached(op[c])
    /\ view[c].sub = "yes" => view[c].news # "none" \/ view[c].shows = sess[op[c].on].status

LInv == TypeOK /\ Endpoint /\ OfUp /\ Own /\ Room /\ Orderly /\ Following

----------------------------------------------------------------------------
(* Types, and slots.                                                       *)

Types ==
  /\ proc \in [Daemons -> {"none", "launched", "looked", "bound", "up", "gone"}]
  /\ sock \in Daemons \cup {None} /\ token \in Daemons \cup {None}
  /\ listener \in [Daemons -> {"none", "open", "dropping", "closed"}]
  /\ closing \in [Daemons -> BOOLEAN]
  /\ sess \in [Daemons -> Fields] /\ task \in [Sessions -> Tasks]
  /\ op \in [Actors -> Commands] /\ view \in [Controllers -> Views]
  /\ crashes \in 0..MaxCrashes /\ overlap \in [Daemons -> BOOLEAN] /\ raced \in BOOLEAN

LEMMA TypesAre == TypeOK <=> Types
  BY DEF TypeOK, Types, Fields, Tasks, Commands, Views

LEMMA Constants ==
  /\ IsFiniteSet(Sessions) /\ IsFiniteSet(Actors)
  /\ Controllers \cap Daemons = {} /\ Spare \subseteq Daemons
  /\ None \notin Daemons /\ None \notin Sessions
  /\ Controllers \subseteq Actors /\ Daemons \subseteq Actors /\ Actors = Controllers \cup Daemons
  /\ MaxCrashes \in Nat
  BY LifecycleAssumption, FS_Union DEF Actors

LEMMA Records ==
  /\ Unused \in Tasks /\ Spent \in Tasks /\ NoSession \in Fields /\ Out \in Commands /\ NoView \in Views
  /\ Unused.at = "free" /\ Unused.of = None /\ Unused.desk = "none"
  /\ Spent.at = "done" /\ Spent.of = None /\ Spent.desk = "none" /\ Spent.kind = "client"
  /\ NoSession.running = None /\ NoSession.desk = None /\ NoSession.status = "stopped"
  /\ Out.at = "out" /\ Out.on = None /\ Out.took = None
  /\ NoView.sub = "no"
  BY DEF Unused, Spent, NoSession, Out, NoView, Tasks, Fields, Commands, Views, Kinds

FreeOnes == {s \in Sessions : task[s].at = "free"}
Starters == {x \in Actors : op[x].at = "start"}

LEMMA Slots ==
  /\ IsFiniteSet(FreeOnes) /\ IsFiniteSet(Starters)
  /\ Cardinality(FreeOnes) \in Nat /\ Cardinality(Starters) \in Nat
  /\ FreeSlots = Cardinality(FreeOnes) - Cardinality(Starters)
<1>1. IsFiniteSet(FreeOnes) /\ IsFiniteSet(Starters)
  <2>1. FreeOnes \subseteq Sessions /\ Starters \subseteq Actors
    BY DEF FreeOnes, Starters
  <2> QED
    BY <2>1, Constants, FS_Subset
<1>2. Cardinality(FreeOnes) \in Nat /\ Cardinality(Starters) \in Nat
  BY <1>1, FS_CardinalityType
<1> QED
  BY <1>1, <1>2 DEF FreeSlots, FreeOnes, Starters

LEMMA SlotsNext ==
  /\ IsFiniteSet(FreeOnes') /\ IsFiniteSet(Starters')
  /\ Cardinality(FreeOnes') \in Nat /\ Cardinality(Starters') \in Nat
  /\ FreeSlots' = Cardinality(FreeOnes') - Cardinality(Starters')
<1>1. IsFiniteSet(FreeOnes') /\ IsFiniteSet(Starters')
  <2>1. FreeOnes' \subseteq Sessions /\ Starters' \subseteq Actors
    BY DEF FreeOnes, Starters
  <2> QED
    BY <2>1, Constants, FS_Subset
<1>2. Cardinality(FreeOnes') \in Nat /\ Cardinality(Starters') \in Nat
  BY <1>1, FS_CardinalityType
<1> QED
  BY <1>1, <1>2 DEF FreeSlots, FreeOnes, Starters

\* A command that starts a session finds a slot.
LEMMA SlotFound ==
  ASSUME FreeSlots > 0 \/ (Room /\ Starters # {})
  PROVE  FreeSlot \in Sessions /\ task[FreeSlot].at = "free"
<1>1. Starters # {} => Cardinality(Starters) > 0
  BY Slots, FS_EmptySet
<1>2. Cardinality(FreeOnes) > 0
  BY <1>1, Slots DEF Room
<1>3. FreeOnes # {}
  BY <1>2, FS_EmptySet
<1>4. \E s \in Sessions : task[s].at = "free"
  BY <1>3 DEF FreeOnes
<1> QED
  BY <1>4 DEF FreeSlot

\* No slot is taken and no command more is about to start one.
LEMMA RoomStays ==
  ASSUME Room, FreeOnes \subseteq FreeOnes', Starters' \subseteq Starters
  PROVE  Room'
<1>1. /\ IsFiniteSet(FreeOnes') /\ IsFiniteSet(Starters')
      /\ Cardinality(FreeOnes') \in Nat /\ Cardinality(Starters') \in Nat
      /\ FreeSlots' = Cardinality(FreeOnes') - Cardinality(Starters')
  BY SlotsNext
<1>2. Cardinality(FreeOnes) <= Cardinality(FreeOnes') /\ Cardinality(Starters') <= Cardinality(Starters)
  BY <1>1, Slots, FS_Subset
<1> QED
  BY <1>1, <1>2, Slots DEF Room

\* One command more will start a session, for which there is a slot.
LEMMA RoomForOne ==
  ASSUME FreeSlots > 0, FreeOnes' = FreeOnes, NEW c, Starters' \subseteq Starters \cup {c}
  PROVE  Room'
<1>1. /\ IsFiniteSet(Starters') /\ Cardinality(Starters') \in Nat
      /\ FreeSlots' = Cardinality(FreeOnes') - Cardinality(Starters')
  BY SlotsNext
<1>2. Cardinality(Starters') <= Cardinality(Starters) + 1
  <2>1. /\ IsFiniteSet(Starters \cup {c})
        /\ Cardinality(Starters \cup {c}) <= Cardinality(Starters) + 1
    BY Slots, FS_AddElement
  <2>2. Cardinality(Starters') <= Cardinality(Starters \cup {c})
    BY <2>1, FS_Subset
  <2>3. Cardinality(Starters \cup {c}) \in Nat
    BY <2>1, FS_CardinalityType
  <2> QED
    BY <1>1, <2>1, <2>2, <2>3, Slots
<1> QED
  BY <1>1, <1>2, Slots DEF Room

\* A slot is taken, by a command that kept it or by one that found it.
LEMMA RoomTaken ==
  ASSUME Room, NEW s, NEW c, FreeOnes' = FreeOnes \ {s},
         \/ c \in Starters /\ Starters' = Starters \ {c}
         \/ FreeSlots > 0 /\ Starters' = Starters
  PROVE  Room'
<1>1. /\ Cardinality(FreeOnes') \in Nat /\ Cardinality(Starters') \in Nat
      /\ FreeSlots' = Cardinality(FreeOnes') - Cardinality(Starters')
  BY SlotsNext
<1>2. Cardinality(FreeOnes') >= Cardinality(FreeOnes) - 1
  <2>1. Cardinality(FreeOnes \ {s}) = IF s \in FreeOnes THEN Cardinality(FreeOnes) - 1
                                      ELSE Cardinality(FreeOnes)
    BY Slots, FS_RemoveElement
  <2> QED
    BY <2>1, Slots
<1>3. CASE c \in Starters /\ Starters' = Starters \ {c}
  <2>1. Cardinality(Starters') = Cardinality(Starters) - 1
    BY <1>3, Slots, FS_RemoveElement
  <2> QED
    BY <1>1, <1>2, <2>1, Slots DEF Room
<1>4. CASE FreeSlots > 0 /\ Starters' = Starters
  BY <1>1, <1>2, <1>4, Slots DEF Room
<1> QED
  BY <1>3, <1>4

----------------------------------------------------------------------------
(* Who owns what, as things move.                                          *)

\* Commands come and go, but for stops; a session that ended may be forgotten; a daemon may
\* begin to close that runs none.
LEMMA CommandsMove ==
  ASSUME Types, OfUp, Own, Orderly, UNCHANGED <<task, overlap>>,
         \A d \in Daemons : proc[d] = "up" => proc'[d] = "up",
         \A x \in Actors :
           \/ op'[x] = op[x]
           \/ /\ op[x].at # "stop" /\ op'[x].at # "stop"
              /\ op'[x].on # None <=> Attached(op'[x])
              /\ op'[x].on # None => proc'[op'[x].on] = "up" /\ op'[x].on \in Daemons
              /\ x \in Daemons => op'[x].on \in {None, x},
         \A d \in Daemons :
           \/ sess'[d] = sess[d]
           \/ /\ sess[d].running # None /\ task[sess[d].running].at = "done"
              /\ sess'[d].running = None /\ sess'[d].desk = None,
         \A d \in Daemons :
           closing'[d] = closing[d] \/ (closing'[d] /\ proc'[d] = "up" /\ sess'[d].running = None)
  PROVE  OfUp' /\ Own' /\ Orderly'
<1>1. \A s \in Sessions : task[s].of \in Daemons \cup {None}
  BY DEF Types, Tasks
<1>2. \A d \in Daemons : sess[d].running # None => proc[d] = "up" /\ sess[d].running \in Sessions
  <2>1. \A d \in Daemons : sess[d].running \in Sessions \cup {None}
    BY DEF Types, Fields
  <2>2. \A d \in Daemons : proc[d] # "up" => sess[d].running = None
    BY Records DEF OfUp
  <2> QED
    BY <2>1, <2>2
<1>3. \A x \in Actors : op[x].on \in Daemons \cup {None}
  BY DEF Types, Commands
<1>4. \A x \in Actors, d \in Daemons : /\ Stops(x, d)' <=> Stops(x, d)
                                       /\ Stops(x, d) => op'[x] = op[x]
  BY DEF Stops
<1>5. OfUp'
  <2>1. \A s \in Sessions : task'[s].of # None => proc'[task'[s].of] = "up" /\ task'[s].at # "free"
    BY <1>1 DEF OfUp
  <2>2. \A s \in Sessions : task'[s].of = None => task'[s].at \in {"free", "done"} /\ task'[s].desk = "none"
    BY DEF OfUp
  <2>3. \A x \in Actors : op'[x].on # None => proc'[op'[x].on] = "up"
    BY <1>3 DEF OfUp
  <2>4. \A x \in Actors : op'[x].on # None <=> Attached(op'[x])
    BY DEF OfUp
  <2>5. \A d \in Daemons : op'[d].on \in {None, d}
    BY Constants DEF OfUp
  <2>6. \A d \in Daemons : proc'[d] # "up" => sess'[d] = NoSession /\ ~ closing'[d]
    BY <1>2 DEF OfUp
  <2> QED
    BY <2>1, <2>2, <2>3, <2>4, <2>5, <2>6 DEF OfUp, Attached
<1>6. Own'
  <2>1. \A d \in Daemons : sess'[d].running # None => task'[sess'[d].running].of = d
    BY DEF Own
  <2>2. \A x \in Actors : op'[x].at = "stop" /\ op'[x].took # None =>
          /\ task'[op'[x].took].of = op'[x].on
          /\ task'[op'[x].took].kind = "client" => task'[op'[x].took].at \in {"aborting", "done"}
    BY DEF Own
  <2> QED
    BY <2>1, <2>2 DEF Own
<1>7. ASSUME NEW d \in Daemons PROVE Accounted(d)' /\ Alone(d)' /\ Desks(d)'
  <2>0. Accounted(d) /\ Alone(d) /\ Desks(d)
    BY DEF Orderly
  <2>1. Accounted(d)'
    <3>1. SUFFICES ASSUME NEW s \in Sessions, task[s].of = d, Alive(task[s]), ~ overlap[d]
                   PROVE  \/ sess'[d].running = s /\ ~ closing'[d]
                          \/ \E x \in Actors : Stops(x, d)' /\ op'[x].took = s
      BY DEF Accounted, Alive
    <3>2. CASE \E x \in Actors : Stops(x, d) /\ op[x].took = s
      BY <1>4, <3>2
    <3>3. CASE sess[d].running = s /\ ~ closing[d]
      <4>1. task[s].at # "done" /\ s # None
        BY <3>1, Constants DEF Alive
      <4>2. sess'[d] = sess[d]
        BY <3>3, <4>1
      <4> QED
        BY <3>3, <4>1, <4>2
    <3> QED
      BY <2>0, <3>1, <3>2, <3>3 DEF Accounted
  <2>2. Alone(d)'
    <3>1. sess'[d].running = sess[d].running \/ sess'[d].running = None
      OBVIOUS
    <3> QED
      BY <1>4, <2>0, <3>1 DEF Alone
  <2>3. Desks(d)'
    <3>1. SUFFICES ASSUME ~ overlap[d], ~ closing'[d]
                   PROVE  /\ \A s \in Sessions : task[s].of = d /\ task[s].desk = "sent" => Alive(task[s])
                          /\ \/ sess'[d].desk \in {None, sess'[d].running}
                             \/ \E x \in Actors : Stops(x, d)'
      BY DEF Desks, Alive
    <3>2. CASE closing[d]
      BY <3>1, <3>2
    <3>3. CASE ~ closing[d]
      <4>1. /\ \A s \in Sessions : task[s].of = d /\ task[s].desk = "sent" => Alive(task[s])
            /\ \/ sess[d].desk \in {None, sess[d].running}
               \/ \E x \in Actors : Stops(x, d)
        BY <2>0, <3>1, <3>3 DEF Desks
      <4> QED
        BY <1>4, <4>1
    <3> QED
      BY <3>2, <3>3
  <2> QED
    BY <2>1, <2>2, <2>3
<1> QED
  BY <1>5, <1>6, <1>7 DEF Orderly

\* A session's task goes on, or ends; its desk may be handed to the daemon it belongs to.
LEMMA TaskMoves ==
  ASSUME Types, OfUp, Own, Orderly, UNCHANGED <<proc, op, closing, overlap>>,
         NEW s \in Sessions, NEW t \in Tasks, task' = [task EXCEPT ![s] = t],
         task[s].of # None, t.of = task[s].of, t.kind = task[s].kind, t.at # "free",
         Alive(t) => Alive(task[s]),
         t.kind = "client" => t.desk = "none" /\ (task[s].at \in {"aborting", "done"} => t.at \in {"aborting", "done"}),
         t.at = "aborting" => t.kind = "client",
         t.desk = "sent" => Alive(t) \/ closing[t.of] \/ overlap[t.of],
         \A d \in Daemons : sess'[d].running = sess[d].running,
         \A d \in Daemons : d # t.of => sess'[d] = sess[d],
         \A d \in Daemons : \/ sess'[d].desk = sess[d].desk
                            \/ d = t.of /\ sess'[d].desk = s /\ task[s].desk = "sent"
  PROVE  OfUp' /\ Own' /\ Orderly'
<1>1. task'[s] = t /\ \A k \in Sessions : k # s => task'[k] = task[k]
  BY DEF Types
<1>2. \A d \in Daemons : sess[d].running \in Sessions \cup {None}
  BY DEF Types, Fields
<1>3. \A x \in Actors : op[x].took \in Sessions \cup {None}
  BY DEF Types, Commands
<1>4. \A x \in Actors, d \in Daemons : Stops(x, d)' <=> Stops(x, d)
  BY DEF Stops
<1>5. OfUp'
  <2>1. \A k \in Sessions : task'[k].of # None => proc'[task'[k].of] = "up" /\ task'[k].at # "free"
    BY <1>1 DEF OfUp
  <2>2. \A k \in Sessions : task'[k].of = None => task'[k].at \in {"free", "done"} /\ task'[k].desk = "none"
    BY <1>1 DEF OfUp
  <2>3. \A d \in Daemons : proc'[d] # "up" => sess'[d] = NoSession /\ ~ closing'[d]
    BY DEF OfUp
  <2> QED
    BY <2>1, <2>2, <2>3 DEF OfUp, Attached
<1>6. Own'
  <2>1. \A d \in Daemons : sess'[d].running # None => task'[sess'[d].running].of = d
    BY <1>1, <1>2 DEF Own
  <2>2. ASSUME NEW x \in Actors, op'[x].at = "stop", op'[x].took # None
        PROVE  /\ task'[op'[x].took].of = op'[x].on
               /\ task'[op'[x].took].kind = "client" => task'[op'[x].took].at \in {"aborting", "done"}
    BY <1>1, <1>3, <2>2 DEF Own
  <2>3. \A k \in Sessions : task'[k].kind = "client" => task'[k].desk = "none"
    BY <1>1 DEF Own
  <2>4. \A k \in Sessions : task'[k].at = "aborting" => task'[k].kind = "client"
    BY <1>1 DEF Own
  <2> QED
    BY <2>1, <2>2, <2>3, <2>4 DEF Own
<1>7. \A k \in Sessions : Alive(task'[k]) => Alive(task[k])
  BY <1>1
<1>8. \A k \in Sessions : task'[k].of = task[k].of
  BY <1>1
<1>9. ASSUME NEW d \in Daemons PROVE Accounted(d)' /\ Alone(d)' /\ Desks(d)'
  <2>0. Accounted(d) /\ Alone(d) /\ Desks(d)
    BY DEF Orderly
  <2>1. Accounted(d)'
    <3>1. SUFFICES ASSUME NEW k \in Sessions, task'[k].of = d, Alive(task'[k])
                   PROVE  \/ overlap[d] \/ (sess'[d].running = k /\ ~ closing[d])
                          \/ \E x \in Actors : Stops(x, d)' /\ op'[x].took = k
      BY DEF Accounted, Alive
    <3> QED
      BY <1>4, <1>7, <1>8, <2>0, <3>1 DEF Accounted
  <2>2. Alone(d)'
    BY <1>4, <2>0 DEF Alone
  <2>3. Desks(d)'
    <3>1. SUFFICES ASSUME ~ overlap[d], ~ closing[d]
                   PROVE  /\ \A k \in Sessions : task'[k].of = d /\ task'[k].desk = "sent" => Alive(task'[k])
                          /\ \/ sess'[d].desk \in {None, sess'[d].running}
                             \/ \E x \in Actors : Stops(x, d)'
      BY DEF Desks, Alive
    <3>2. /\ \A k \in Sessions : task[k].of = d /\ task[k].desk = "sent" => Alive(task[k])
          /\ \/ sess[d].desk \in {None, sess[d].running}
             \/ \E x \in Actors : Stops(x, d)
      BY <2>0, <3>1 DEF Desks
    <3>3. \A k \in Sessions : task'[k].of = d /\ task'[k].desk = "sent" => Alive(task'[k])
      BY <1>1, <3>1, <3>2
    <3>4. CASE sess'[d].desk = sess[d].desk
      BY <1>4, <3>2, <3>3, <3>4
    <3>5. CASE d = t.of /\ sess'[d].desk = s /\ task[s].desk = "sent"
      <4>1. task[s].of = d /\ Alive(task[s])
        BY <3>2, <3>5
      <4>2. sess[d].running = s \/ \E x \in Actors : Stops(x, d)
        BY <2>0, <3>1, <4>1 DEF Accounted
      <4> QED
        BY <1>4, <3>3, <3>5, <4>2
    <3> QED
      BY <3>4, <3>5
  <2> QED
    BY <2>1, <2>2, <2>3
<1> QED
  BY <1>5, <1>6, <1>9 DEF Orderly

\* A session is launched by x, a main loop that begins or a command that ends.
LEMMA LaunchMoves ==
  ASSUME Types, OfUp, Own, Orderly, UNCHANGED closing,
         NEW d \in Daemons, NEW s \in Sessions, NEW kind \in Kinds, NEW x \in Actors,
         task[s].at = "free", Launched(s, d, kind),
         \A k \in Daemons : proc'[k] = "up" <=> proc[k] = "up" \/ k = d,
         \A y \in Actors : y # x => op'[y] = op[y],
         op[x].at # "stop", op'[x].at = "in", op'[x].on = d, x \in Daemons => x = d,
         \A k \in Daemons : overlap'[k] = overlap[k] \/ k = d,
         overlap'[d] \/
           (sess[d].running = None /\ ~ closing[d] /\ ~ overlap[d] /\ \A y \in Actors : ~ Stops(y, d))
  PROVE  OfUp' /\ Own' /\ Orderly'
<1> DEFINE t == IF kind = "server" THEN ServerTask(d) ELSE ClientTask(d)
<1>1. /\ t.of = d /\ t.kind = kind /\ t.at # "free" /\ t.desk = "none" /\ t.at # "aborting" /\ t.at # "done"
      /\ kind = "client" \/ kind = "server"
  BY DEF ServerTask, ClientTask, Unused, Kinds
<1>2. task' = [task EXCEPT ![s] = t]
  BY DEF Launched
<1> HIDE DEF t
<1>3. task'[s] = t /\ \A k \in Sessions : k # s => task'[k] = task[k]
  BY <1>2 DEF Types
<1>4. /\ sess'[d].running = s /\ sess'[d].desk = sess[d].desk
      /\ \A k \in Daemons : k # d => sess'[k] = sess[k]
  BY DEF Launched, Types, Fields
<1>5. task[s].of = None /\ s # None
  BY Constants DEF OfUp
<1>6. \A k \in Daemons : sess[k].running \in Sessions \cup {None}
  BY DEF Types, Fields
<1>7. \A y \in Actors : op[y].took \in Sessions \cup {None} /\ op[y].on \in Daemons \cup {None}
  BY DEF Types, Commands
<1>8. \A y \in Actors, k \in Daemons : Stops(y, k)' <=> Stops(y, k)
  BY DEF Stops
<1>9. OfUp'
  <2>1. \A k \in Sessions : task'[k].of # None => proc'[task'[k].of] = "up" /\ task'[k].at # "free"
    <3>1. \A k \in Sessions : task[k].of \in Daemons \cup {None}
      BY DEF Types, Tasks
    <3> QED
      BY <1>1, <1>3, <3>1 DEF OfUp
  <2>2. \A k \in Sessions : task'[k].of = None => task'[k].at \in {"free", "done"} /\ task'[k].desk = "none"
    BY <1>1, <1>3, Constants DEF OfUp
  <2>3. \A y \in Actors : op'[y].on # None => proc'[op'[y].on] = "up"
    BY <1>7 DEF OfUp
  <2>4. \A y \in Actors : op'[y].on # None <=> Attached(op'[y])
    BY Constants DEF OfUp, Attached
  <2>5. \A k \in Daemons : op'[k].on \in {None, k}
    BY Constants DEF OfUp
  <2>6. \A k \in Daemons : proc'[k] # "up" => sess'[k] = NoSession /\ ~ closing'[k]
    BY <1>4 DEF OfUp
  <2> QED
    BY <2>1, <2>2, <2>3, <2>4, <2>5, <2>6 DEF OfUp, Attached
<1>10. Own'
  <2>1. \A k \in Daemons : sess'[k].running # None => task'[sess'[k].running].of = k
    BY <1>1, <1>3, <1>4, <1>5, <1>6, Constants DEF Own
  <2>2. ASSUME NEW y \in Actors, op'[y].at = "stop", op'[y].took # None
        PROVE  /\ task'[op'[y].took].of = op'[y].on
               /\ task'[op'[y].took].kind = "client" => task'[op'[y].took].at \in {"aborting", "done"}
    <3>1. op'[y] = op[y] /\ op[y].on # None
      BY <2>2 DEF OfUp, Attached
    <3>2. op[y].took \in Sessions /\ op[y].took # s
      BY <1>5, <1>7, <2>2, <3>1 DEF Own
    <3> QED
      BY <1>3, <2>2, <3>1, <3>2 DEF Own
  <2>3. \A k \in Sessions : task'[k].kind = "client" => task'[k].desk = "none"
    BY <1>1, <1>3 DEF Own
  <2>4. \A k \in Sessions : task'[k].at = "aborting" => task'[k].kind = "client"
    BY <1>1, <1>3 DEF Own
  <2> QED
    BY <2>1, <2>2, <2>3, <2>4 DEF Own
<1>11. ASSUME NEW k \in Daemons, k # d PROVE Accounted(k)' /\ Alone(k)' /\ Desks(k)'
  <2>0. Accounted(k) /\ Alone(k) /\ Desks(k)
    BY DEF Orderly
  <2>1. /\ sess'[k] = sess[k] /\ overlap'[k] = overlap[k] /\ closing'[k] = closing[k]
        /\ \A r \in Sessions : task'[r].of = k => task'[r] = task[r]
        /\ \A y \in Actors : Stops(y, k) => op'[y] = op[y]
    BY <1>1, <1>3, <1>4, <1>11 DEF Stops
  <2>2. Accounted(k)'
    <3>1. SUFFICES ASSUME NEW r \in Sessions, task'[r].of = k, Alive(task'[r])
                   PROVE  \/ overlap'[k] \/ (sess'[k].running = r /\ ~ closing'[k])
                          \/ \E y \in Actors : Stops(y, k)' /\ op'[y].took = r
      BY DEF Accounted, Alive
    <3> QED
      BY <1>8, <2>0, <2>1, <3>1 DEF Accounted
  <2>3. Alone(k)'
    BY <1>8, <2>0, <2>1 DEF Alone
  <2>4. Desks(k)'
    <3>1. \/ overlap'[k] \/ closing'[k]
          \/ /\ \A r \in Sessions : task'[r].of = k /\ task'[r].desk = "sent" => Alive(task'[r])
             /\ \/ sess'[k].desk \in {None, sess'[k].running}
                \/ \E y \in Actors : Stops(y, k)'
      BY <1>8, <2>0, <2>1 DEF Desks
    <3> QED
      BY <3>1 DEF Desks, Alive
  <2> QED
    BY <2>2, <2>3, <2>4
<1>12. Accounted(d)' /\ Alone(d)' /\ Desks(d)'
  <2>1. CASE overlap'[d]
    BY <2>1 DEF Accounted, Alone, Desks
  <2>2. CASE ~ overlap'[d]
    <3>0. Accounted(d) /\ Alone(d) /\ Desks(d)
      BY DEF Orderly
    <3>1. /\ sess[d].running = None /\ ~ closing[d] /\ ~ overlap[d]
          /\ \A y \in Actors : ~ Stops(y, d)
      BY <2>2
    <3>2. \A r \in Sessions : task[r].of = d => ~ Alive(task[r]) /\ task[r].desk # "sent"
      BY <3>0, <3>1, Constants DEF Accounted, Desks
    <3>3. Accounted(d)'
      <4>1. SUFFICES ASSUME NEW r \in Sessions, task'[r].of = d, Alive(task'[r])
                     PROVE  sess'[d].running = r /\ ~ closing'[d]
        BY DEF Accounted, Alive
      <4> QED
        BY <1>3, <1>4, <3>1, <3>2, <4>1
    <3>4. Alone(d)'
      BY <1>8, <3>1 DEF Alone
    <3>5. Desks(d)'
      <4>1. sess[d].desk = None
        BY <3>0, <3>1 DEF Desks
      <4>2. \A r \in Sessions : task'[r].of = d /\ task'[r].desk = "sent" => Alive(task'[r])
        BY <1>1, <1>3, <3>2
      <4>3. sess'[d].desk \in {None, sess'[d].running}
        BY <1>4, <4>1
      <4> QED
        BY <4>2, <4>3 DEF Desks, Alive
    <3> QED
      BY <3>3, <3>4, <3>5
  <2> QED
    BY <2>1, <2>2
<1> QED
  BY <1>9, <1>10, <1>11, <1>12 DEF Orderly

\* A stop takes out what runs.
LEMMA StopTakeMoves ==
  ASSUME Types, OfUp, Own, Orderly, NEW x \in Actors, StopTake(x)
  PROVE  OfUp' /\ Own' /\ Orderly'
<1> DEFINE d == op[x].on
           s == sess[d].running
           o == [op[x] EXCEPT !.at = "stop", !.took = s]
<1>1. /\ op[x].at \in {"in", "spare"} /\ d \in Daemons /\ d # None /\ proc[d] = "up"
      /\ op[x] \in Commands /\ op \in [Actors -> Commands] /\ sess[d] \in Fields
      /\ UNCHANGED <<proc, closing, overlap>>
  <2>1. op[x].at \in {"in", "spare"} /\ UNCHANGED <<proc, closing, overlap>>
    BY DEF StopTake, hist
  <2>2. op[x] \in Commands /\ op \in [Actors -> Commands]
    BY DEF Types
  <2>3. d # None
    BY <2>1 DEF OfUp, Attached
  <2>4. d \in Daemons
    BY <2>2, <2>3 DEF Commands
  <2>5. sess[d] \in Fields /\ proc[d] = "up"
    BY <2>3, <2>4 DEF Types, OfUp
  <2> QED
    BY <2>1, <2>2, <2>3, <2>4, <2>5
<1>2. s \in Sessions \cup {None} /\ (s # None => s \in Sessions /\ task[s].of = d)
  BY <1>1 DEF Fields, Own
<1>3. /\ op'[x].at = "stop" /\ op'[x].took = s /\ op'[x].on = d
      /\ \A y \in Actors : y # x => op'[y] = op[y]
  BY <1>1 DEF StopTake, Commands
<1>4. /\ sess'[d].running = None /\ sess'[d].desk = None
      /\ \A k \in Daemons : k # d => sess'[k] = sess[k]
  BY <1>1 DEF StopTake, Types, Fields
<1>5. /\ \A k \in Sessions : k # s => task'[k] = task[k]
      /\ s # None => /\ task'[s].of = d /\ task'[s].kind = task[s].kind /\ task'[s].desk = task[s].desk
                     /\ task'[s].at = IF task[s].at = "done" THEN "done"
                                      ELSE IF task[s].kind = "client" THEN "aborting" ELSE "stopping"
                     /\ task[s].kind # "client" => task[s].kind = "server"
  <2>1. CASE s # None /\ task[s].at # "done"
    <3>1. task' = [task EXCEPT ![s].at = IF task[s].kind = "client" THEN "aborting" ELSE "stopping"]
      BY <2>1 DEF StopTake
    <3>2. s \in Sessions /\ task \in [Sessions -> Tasks] /\ task[s] \in Tasks /\ task[s].of = d
      BY <1>2, <2>1 DEF Types
    <3>3. /\ \A k \in Sessions : k # s => task'[k] = task[k]
          /\ task'[s] = [task[s] EXCEPT !.at = IF task[s].kind = "client" THEN "aborting" ELSE "stopping"]
      BY <3>1, <3>2
    <3> QED
      BY <2>1, <3>2, <3>3 DEF Tasks, Kinds
  <2>2. CASE ~ (s # None /\ task[s].at # "done")
    <3>1. task' = task
      BY <2>2 DEF StopTake
    <3>2. s # None => task[s].kind \in Kinds
      BY <1>2 DEF Types, Tasks
    <3> QED
      BY <1>2, <2>2, <3>1, <3>2 DEF Kinds
  <2> QED
    BY <2>1, <2>2
<1> HIDE DEF d, s, o
<1>6. \A k \in Daemons : sess[k].running \in Sessions \cup {None}
  BY DEF Types, Fields
<1>7. \A y \in Actors : op[y].took \in Sessions \cup {None} /\ op[y].on \in Daemons \cup {None}
  BY DEF Types, Commands
<1>8. \A k \in Sessions : task'[k].of = task[k].of /\ task'[k].desk = task[k].desk /\ task'[k].kind = task[k].kind
  BY <1>2, <1>5, Constants
<1>9. OfUp'
  <2>1. ASSUME NEW k \in Sessions, task'[k].of # None
        PROVE  proc'[task'[k].of] = "up" /\ task'[k].at # "free"
    BY <1>1, <1>5, <1>8, <2>1, Constants DEF OfUp
  <2>2. \A k \in Sessions : task'[k].of = None => task'[k].at \in {"free", "done"} /\ task'[k].desk = "none"
    BY <1>1, <1>2, <1>5, <1>8, Constants DEF OfUp
  <2>3. \A y \in Actors : op'[y].on # None => proc'[op'[y].on] = "up"
    BY <1>1, <1>3 DEF OfUp
  <2>4. \A y \in Actors : op'[y].on # None <=> Attached(op'[y])
    BY <1>1, <1>3 DEF OfUp, Attached
  <2>5. \A k \in Daemons : op'[k].on \in {None, k}
    <3>1. op[x].on = op'[x].on
      BY <1>3 DEF d
    <3> QED
      BY <1>3, <3>1, Constants DEF OfUp
  <2>6. \A k \in Daemons : proc'[k] # "up" => sess'[k] = NoSession /\ ~ closing'[k]
    BY <1>1, <1>4 DEF OfUp
  <2> QED
    BY <2>1, <2>2, <2>3, <2>4, <2>5, <2>6 DEF OfUp, Attached
<1>10. \A k \in Sessions : task[k].kind = "client" /\ task[k].at \in {"aborting", "done"}
                             => task'[k].at \in {"aborting", "done"}
  BY <1>2, <1>5, Constants
<1>11. Own'
  <2>1. \A k \in Daemons : sess'[k].running # None => task'[sess'[k].running].of = k
    BY <1>4, <1>6, <1>8 DEF Own
  <2>2. ASSUME NEW y \in Actors, op'[y].at = "stop", op'[y].took # None
        PROVE  /\ task'[op'[y].took].of = op'[y].on
               /\ task'[op'[y].took].kind = "client" => task'[op'[y].took].at \in {"aborting", "done"}
    <3>1. CASE y = x
      BY <1>3, <1>5, <2>2, <3>1
    <3>2. CASE y # x
      BY <1>3, <1>7, <1>8, <1>10, <2>2, <3>2 DEF Own
    <3> QED
      BY <3>1, <3>2
  <2>3. \A k \in Sessions : task'[k].kind = "client" => task'[k].desk = "none"
    BY <1>8 DEF Own
  <2>4. \A k \in Sessions : task'[k].at = "aborting" => task'[k].kind = "client"
    BY <1>2, <1>5, Constants DEF Own
  <2> QED
    BY <2>1, <2>2, <2>3, <2>4 DEF Own
<1>12. \A y \in Actors, k \in Daemons : Stops(y, k) => Stops(y, k)' /\ op'[y] = op[y]
  BY <1>1, <1>3 DEF Stops
<1>13. \A k \in Daemons : k = d => Stops(x, k)'
  BY <1>3 DEF Stops
<1>14. ASSUME NEW k \in Daemons PROVE Accounted(k)' /\ Alone(k)' /\ Desks(k)'
  <2>0. Accounted(k) /\ Alone(k) /\ Desks(k)
    BY DEF Orderly
  <2>1. ASSUME NEW y \in Actors, k # d, Stops(y, k)' PROVE Stops(y, k)
    <3>1. op'[y].on = k /\ op'[y].at = "stop"
      BY <2>1 DEF Stops
    <3> QED
      BY <1>3, <2>1, <3>1 DEF Stops
  <2>2. \A r \in Sessions : task'[r].of = k /\ Alive(task'[r]) => task[r].of = k /\ Alive(task[r])
    <3>1. ASSUME NEW r \in Sessions, task'[r].of = k, Alive(task'[r]) PROVE Alive(task[r])
      <4>1. CASE r # s
        BY <1>5, <3>1, <4>1
      <4>2. CASE r = s
        <5>1. task[s].at # "done" /\ task[s].kind = "server"
          BY <1>2, <1>5, <3>1, <4>2, Constants DEF Alive
        <5>2. task[s].at \in {"free", "starting", "live", "aborting", "stopping", "done"}
          BY <4>2 DEF Types, Tasks
        <5>3. task[s].at # "free" /\ task[s].at # "aborting"
          <6>1. s # None /\ s \in Sessions
            BY <4>2, Constants
          <6>2. task[s].of # None
            BY <1>1, <1>2, <6>1
          <6> QED
            BY <5>1, <6>1, <6>2 DEF OfUp, Own
        <5> QED
          BY <4>2, <5>1, <5>2, <5>3 DEF Alive
      <4> QED
        BY <4>1, <4>2
    <3> QED
      BY <1>8, <3>1
  <2>3. Accounted(k)'
    <3>1. SUFFICES ASSUME NEW r \in Sessions, task'[r].of = k, Alive(task'[r])
                   PROVE  \/ overlap[k] \/ (sess'[k].running = r /\ ~ closing[k])
                          \/ \E y \in Actors : Stops(y, k)' /\ op'[y].took = r
      BY <1>1 DEF Accounted, Alive
    <3>2. \/ overlap[k] \/ (sess[k].running = r /\ ~ closing[k])
          \/ \E y \in Actors : Stops(y, k) /\ op[y].took = r
      BY <2>0, <2>2, <3>1 DEF Accounted
    <3>3. CASE sess[k].running = r /\ ~ closing[k]
      <4>1. k = d => op'[x].took = r
        BY <1>3, <3>3 DEF s
      <4> QED
        BY <1>4, <1>13, <3>3, <4>1, Constants
    <3> QED
      BY <1>12, <3>2, <3>3
  <2>4. Alone(k)'
    BY <1>1, <1>4, <2>0, <2>1 DEF Alone
  <2>5. Desks(k)'
    <3>1. SUFFICES ASSUME ~ overlap[k], ~ closing[k]
                   PROVE  /\ \A r \in Sessions : task'[r].of = k /\ task'[r].desk = "sent" => Alive(task'[r])
                          /\ \/ sess'[k].desk \in {None, sess'[k].running}
                             \/ \E y \in Actors : Stops(y, k)'
      BY <1>1 DEF Desks, Alive
    <3>2. /\ \A r \in Sessions : task[r].of = k /\ task[r].desk = "sent" => Alive(task[r])
          /\ \/ sess[k].desk \in {None, sess[k].running}
             \/ \E y \in Actors : Stops(y, k)
      BY <2>0, <3>1 DEF Desks
    <3>3. ASSUME NEW r \in Sessions, task'[r].of = k, task'[r].desk = "sent" PROVE Alive(task'[r])
      <4>1. Alive(task[r]) /\ task[r].kind # "client"
        BY <1>8, <3>2, <3>3 DEF Own
      <4>2. CASE r = s
        <5>1. task[s].at # "done" /\ s # None
          BY <4>1, <4>2, Constants DEF Alive
        <5> QED
          BY <1>5, <4>1, <4>2, <5>1 DEF Alive
      <4>3. CASE r # s
        BY <1>5, <4>1, <4>3
      <4> QED
        BY <4>2, <4>3
    <3> QED
      BY <1>4, <1>12, <3>2, <3>3
  <2> QED
    BY <2>3, <2>4, <2>5
<1> QED
  BY <1>9, <1>11, <1>14 DEF Orderly

\* A stop is over: what was taken out has ended, or ends at once, and the daemon closes.
LEMMA StopDoneMoves ==
  ASSUME Types, OfUp, Own, Orderly, NEW x \in Actors, StopDone(x)
  PROVE  OfUp' /\ Own' /\ Orderly'
<1> DEFINE d == op[x].on
           s == op[x].took
<1>1. /\ op[x].at = "stop" /\ d \in Daemons /\ d # None /\ proc[d] = "up"
      /\ op[x] \in Commands /\ op \in [Actors -> Commands]
      /\ UNCHANGED <<proc, overlap>> /\ s \in Sessions \cup {None}
  <2>1. op[x].at = "stop" /\ UNCHANGED <<proc, overlap>>
    BY DEF StopDone, hist
  <2>2. op[x] \in Commands /\ op \in [Actors -> Commands]
    BY DEF Types
  <2>3. d # None
    BY <2>1 DEF OfUp, Attached
  <2>4. d \in Daemons /\ s \in Sessions \cup {None}
    BY <2>2, <2>3 DEF Commands
  <2>5. proc[d] = "up"
    BY <2>3, <2>4 DEF OfUp
  <2> QED
    BY <2>1, <2>2, <2>3, <2>4, <2>5
<1>2. s # None => /\ s \in Sessions /\ task[s].of = d
                  /\ task[s].kind = "client" => task[s].at \in {"aborting", "done"}
  BY <1>1 DEF Own
<1>3. /\ op'[x].at # "stop" /\ op'[x].on \in {None, d} /\ (op'[x].on # None <=> Attached(op'[x]))
      /\ \A y \in Actors : y # x => op'[y] = op[y]
  <2>1. op' = [op EXCEPT ![x] = IF x = d THEN Out ELSE [@ EXCEPT !.at = "in", !.took = None, !.made = FALSE]]
    BY DEF StopDone
  <2>2. \A y \in Actors : y # x => op'[y] = op[y]
    BY <1>1, <2>1
  <2>3. CASE x = d
    <3>1. op'[x] = Out
      BY <1>1, <2>1, <2>3
    <3> QED
      BY <2>2, <3>1, Records DEF Attached
  <2>4. CASE x # d
    <3>1. op'[x] = [op[x] EXCEPT !.at = "in", !.took = None, !.made = FALSE]
      BY <1>1, <2>1, <2>4
    <3>2. op'[x].at = "in" /\ op'[x].on = d
      BY <1>1, <3>1 DEF Commands
    <3> QED
      BY <1>1, <2>2, <3>2 DEF Attached
  <2> QED
    BY <2>3, <2>4
<1>4. \A k \in Daemons : sess'[k].running = sess[k].running /\ sess'[k].desk = sess[k].desk
                         /\ (k # d => sess'[k] = sess[k])
  BY <1>1 DEF StopDone, Types, Fields
<1>5. closing' = [closing EXCEPT ![d] = TRUE]
  BY DEF StopDone
<1>6. /\ \A k \in Sessions : k # s => task'[k] = task[k]
      /\ s # None => /\ task'[s].of = d /\ task'[s].kind = task[s].kind
                     /\ task'[s].at \in {"aborting", "done"}
                     /\ task'[s].at = "aborting" => task[s].kind = "client"
                     /\ task[s].kind = "client" => task'[s].desk = "none"
  <2>1. CASE s # None /\ task[s].kind = "server"
    <3>1. task' = [task EXCEPT ![s] = Ended(@)]
      BY <2>1 DEF StopDone
    <3>2. s \in Sessions /\ task \in [Sessions -> Tasks] /\ task[s] \in Tasks /\ task[s].of = d
      BY <1>2, <2>1 DEF Types
    <3>3. /\ \A k \in Sessions : k # s => task'[k] = task[k]
          /\ task'[s] = Ended(task[s])
      BY <3>1, <3>2
    <3>4. task'[s].of = d /\ task'[s].kind = task[s].kind /\ task'[s].at = "done"
      BY <3>2, <3>3 DEF Tasks, Ended
    <3> QED
      BY <2>1, <3>3, <3>4
  <2>2. CASE ~ (s # None /\ task[s].kind = "server")
    <3>1. task' = task
      BY <2>2 DEF StopDone
    <3>2. s # None => task[s].kind = "client"
      <4>1. s # None => task[s].kind \in Kinds
        BY <1>2 DEF Types, Tasks
      <4> QED
        BY <2>2, <4>1 DEF Kinds
    <3> QED
      BY <1>2, <3>1, <3>2 DEF Own
  <2> QED
    BY <2>1, <2>2
<1>7. \A k \in Daemons : closing'[k] = (closing[k] \/ k = d)
  BY <1>1, <1>5 DEF Types
<1>8. Stops(x, d)
  BY <1>1 DEF Stops
<1> HIDE DEF d, s
<1>9. \A k \in Daemons : sess[k].running \in Sessions \cup {None}
  BY DEF Types, Fields
<1>10. \A y \in Actors : op[y].took \in Sessions \cup {None} /\ op[y].on \in Daemons \cup {None}
  BY DEF Types, Commands
<1>11. \A k \in Sessions : task'[k].of = task[k].of /\ task'[k].kind = task[k].kind
  BY <1>2, <1>6, Constants
<1>12. OfUp'
  <2>1. ASSUME NEW k \in Sessions, task'[k].of # None
        PROVE  proc'[task'[k].of] = "up" /\ task'[k].at # "free"
    BY <1>1, <1>6, <1>11, <2>1, Constants DEF OfUp
  <2>2. \A k \in Sessions : task'[k].of = None => task'[k].at \in {"free", "done"} /\ task'[k].desk = "none"
    BY <1>1, <1>2, <1>6, <1>11, Constants DEF OfUp
  <2>3. \A y \in Actors : op'[y].on # None => proc'[op'[y].on] = "up"
    BY <1>1, <1>3 DEF OfUp
  <2>4. \A y \in Actors : op'[y].on # None <=> Attached(op'[y])
    BY <1>3 DEF OfUp
  <2>5. \A k \in Daemons : op'[k].on \in {None, k}
    BY <1>3, Constants DEF OfUp, d
  <2>6. \A k \in Daemons : proc'[k] # "up" => sess'[k] = NoSession /\ ~ closing'[k]
    BY <1>1, <1>4, <1>7 DEF OfUp
  <2> QED
    BY <2>1, <2>2, <2>3, <2>4, <2>5, <2>6 DEF OfUp, Attached
<1>13. Own'
  <2>1. \A k \in Daemons : sess'[k].running # None => task'[sess'[k].running].of = k
    BY <1>4, <1>9, <1>11 DEF Own
  <2>2. ASSUME NEW y \in Actors, op'[y].at = "stop", op'[y].took # None
        PROVE  /\ task'[op'[y].took].of = op'[y].on
               /\ task'[op'[y].took].kind = "client" => task'[op'[y].took].at \in {"aborting", "done"}
    <3>1. y # x /\ op'[y] = op[y]
      BY <1>3, <2>2
    <3>2. op[y].took \in Sessions
      BY <1>10, <2>2, <3>1
    <3> QED
      BY <1>6, <1>11, <2>2, <3>1, <3>2, Constants DEF Own
  <2>3. \A k \in Sessions : task'[k].kind = "client" => task'[k].desk = "none"
    BY <1>6, <1>11, Constants DEF Own
  <2>4. \A k \in Sessions : task'[k].at = "aborting" => task'[k].kind = "client"
    BY <1>6, <1>11, Constants DEF Own
  <2> QED
    BY <2>1, <2>2, <2>3, <2>4 DEF Own
<1>14. ASSUME NEW y \in Actors, NEW k \in Daemons
       PROVE  /\ Stops(y, k)' => Stops(y, k)
              /\ Stops(y, k) /\ y # x => Stops(y, k)' /\ op'[y].took = op[y].took
  BY <1>3 DEF Stops
<1>15. \A k \in Sessions : Alive(task'[k]) => k # s /\ task'[k] = task[k]
  BY <1>6, Constants DEF Alive
<1>16. ASSUME NEW k \in Daemons PROVE Accounted(k)' /\ Alone(k)' /\ Desks(k)'
  <2>0. Accounted(k) /\ Alone(k) /\ Desks(k)
    BY DEF Orderly
  <2>1. k # d => \A y \in Actors : Stops(y, k) => y # x
    BY DEF Stops, d
  <2>2. Accounted(k)'
    <3>1. SUFFICES ASSUME NEW r \in Sessions, task'[r].of = k, Alive(task'[r]), ~ overlap[k]
                   PROVE  \/ sess'[k].running = r /\ ~ closing'[k]
                          \/ \E y \in Actors : Stops(y, k)' /\ op'[y].took = r
      BY <1>1 DEF Accounted, Alive
    <3>2. r # s /\ task[r].of = k /\ Alive(task[r]) /\ r # None
      BY <1>15, <3>1, Constants
    <3>3. CASE sess[k].running = r /\ ~ closing[k]
      <4>1. k # d
        BY <1>8, <2>0, <3>1, <3>2, <3>3 DEF Alone
      <4> QED
        BY <1>4, <1>7, <3>3, <4>1
    <3>4. CASE \E y \in Actors : Stops(y, k) /\ op[y].took = r
      <4>1. PICK y \in Actors : Stops(y, k) /\ op[y].took = r
        BY <3>4
      <4>2. y # x
        BY <3>2, <4>1 DEF s
      <4> QED
        BY <1>14, <4>1, <4>2
    <3> QED
      BY <2>0, <3>1, <3>2, <3>3, <3>4 DEF Accounted
  <2>3. Alone(k)'
    BY <1>1, <1>4, <1>14, <2>0 DEF Alone
  <2>4. Desks(k)'
    <3>1. SUFFICES ASSUME ~ overlap[k], ~ closing[k], k # d
                   PROVE  /\ \A r \in Sessions : task'[r].of = k /\ task'[r].desk = "sent" => Alive(task'[r])
                          /\ \/ sess'[k].desk \in {None, sess'[k].running}
                             \/ \E y \in Actors : Stops(y, k)'
      BY <1>1, <1>7 DEF Desks, Alive
    <3>2. /\ \A r \in Sessions : task[r].of = k /\ task[r].desk = "sent" => Alive(task[r])
          /\ \/ sess[k].desk \in {None, sess[k].running}
             \/ \E y \in Actors : Stops(y, k)
      BY <2>0, <3>1 DEF Desks
    <3>3. \A r \in Sessions : task'[r].of = k => task'[r] = task[r]
      BY <1>6, <3>1, Constants
    <3>4. \A r \in Sessions : task'[r].of = k /\ task'[r].desk = "sent" => Alive(task'[r])
      BY <3>2, <3>3
    <3>5. (\E y \in Actors : Stops(y, k)) => \E y \in Actors : Stops(y, k)'
      BY <1>14, <2>1, <3>1
    <3> QED
      BY <1>4, <3>2, <3>4, <3>5
  <2> QED
    BY <2>2, <2>3, <2>4
<1> QED
  BY <1>12, <1>13, <1>16 DEF Orderly

\* A process dies, and all that was its own is gone.
LEMMA GoneMoves ==
  ASSUME Types, OfUp, Own, Orderly, NEW d \in Daemons, Gone(d)
  PROVE  OfUp' /\ Own' /\ Orderly'
<1>1. /\ proc' = [proc EXCEPT ![d] = "gone"]
      /\ task' = [s \in Sessions |-> IF task[s].of = d THEN Spent ELSE task[s]]
      /\ op' = [x \in Actors |-> IF op[x].on = d THEN Out ELSE op[x]]
      /\ sess' = [sess EXCEPT ![d] = NoSession]
      /\ closing' = [closing EXCEPT ![d] = FALSE]
      /\ overlap' = [overlap EXCEPT ![d] = FALSE]
  BY DEF Gone
<1>2. /\ \A k \in Daemons : k # d => /\ proc'[k] = proc[k] /\ sess'[k] = sess[k]
                                     /\ closing'[k] = closing[k] /\ overlap'[k] = overlap[k]
      /\ proc'[d] = "gone" /\ sess'[d] = NoSession /\ ~ closing'[d] /\ ~ overlap'[d]
  BY <1>1 DEF Types
<1>3. \A s \in Sessions : /\ task[s].of = d => task'[s] = Spent
                          /\ task[s].of # d => task'[s] = task[s]
  BY <1>1
<1>4. \A x \in Actors : /\ op[x].on = d => op'[x] = Out
                        /\ op[x].on # d => op'[x] = op[x]
  BY <1>1
<1>5. \A k \in Daemons : sess[k].running \in Sessions \cup {None}
  BY DEF Types, Fields
<1>6. \A y \in Actors : op[y].took \in Sessions \cup {None} /\ op[y].on \in Daemons \cup {None}
  BY DEF Types, Commands
<1>7. \A s \in Sessions : task[s].of \in Daemons \cup {None}
  BY DEF Types, Tasks
<1>8. OfUp'
  <2>1. ASSUME NEW s \in Sessions, task'[s].of # None
        PROVE  proc'[task'[s].of] = "up" /\ task'[s].at # "free"
    BY <1>2, <1>3, <1>7, <2>1, Records DEF OfUp
  <2>2. \A s \in Sessions : task'[s].of = None => task'[s].at \in {"free", "done"} /\ task'[s].desk = "none"
    BY <1>3, Records DEF OfUp
  <2>3. ASSUME NEW x \in Actors, op'[x].on # None PROVE proc'[op'[x].on] = "up"
    BY <1>2, <1>4, <1>6, <2>3, Records DEF OfUp
  <2>4. \A x \in Actors : op'[x].on # None <=> Attached(op'[x])
    <3>1. ~ Attached(Out)
      BY Records DEF Attached
    <3> QED
      BY <1>4, <3>1, Records DEF OfUp
  <2>5. \A k \in Daemons : op'[k].on \in {None, k}
    BY <1>4, Constants, Records DEF OfUp
  <2>6. \A k \in Daemons : proc'[k] # "up" => sess'[k] = NoSession /\ ~ closing'[k]
    BY <1>2 DEF OfUp
  <2> QED
    BY <2>1, <2>2, <2>3, <2>4, <2>5, <2>6 DEF OfUp, Attached
<1>9. Own'
  <2>1. ASSUME NEW k \in Daemons, sess'[k].running # None PROVE task'[sess'[k].running].of = k
    BY <1>2, <1>3, <1>5, <2>1, Records DEF Own
  <2>2. ASSUME NEW x \in Actors, op'[x].at = "stop", op'[x].took # None
        PROVE  /\ task'[op'[x].took].of = op'[x].on
               /\ task'[op'[x].took].kind = "client" => task'[op'[x].took].at \in {"aborting", "done"}
    <3>1. op[x].on # d /\ op'[x] = op[x] /\ op[x].took \in Sessions
      BY <1>4, <1>6, <2>2, Records
    <3> QED
      BY <1>3, <2>2, <3>1 DEF Own
  <2>3. \A s \in Sessions : task'[s].kind = "client" => task'[s].desk = "none"
    BY <1>3, Records DEF Own
  <2>4. \A s \in Sessions : task'[s].at = "aborting" => task'[s].kind = "client"
    BY <1>3, Records DEF Own
  <2> QED
    BY <2>1, <2>2, <2>3, <2>4 DEF Own
<1>10. ASSUME NEW k \in Daemons PROVE Accounted(k)' /\ Alone(k)' /\ Desks(k)'
  <2>0. Accounted(k) /\ Alone(k) /\ Desks(k)
    BY DEF Orderly
  <2>1. CASE k = d
    <3>1. \A s \in Sessions : task'[s].of # d
      BY <1>3, Constants, Records
    <3>2. sess'[d].running = None /\ sess'[d].desk = None
      BY <1>2, Records
    <3> QED
      BY <2>1, <3>1, <3>2 DEF Accounted, Alone, Desks
  <2>2. CASE k # d
    <3>1. /\ sess'[k] = sess[k] /\ overlap'[k] = overlap[k] /\ closing'[k] = closing[k]
          /\ \A s \in Sessions : task'[s].of = k => task'[s] = task[s]
          /\ \A x \in Actors : op[x].on = k => op'[x] = op[x]
          /\ \A x \in Actors : op'[x].on = k => op'[x] = op[x]
      BY <1>2, <1>3, <1>4, <2>2, Constants, Records
    <3>2. \A x \in Actors : Stops(x, k)' <=> Stops(x, k)
      BY <3>1 DEF Stops
    <3>3. Accounted(k)'
      <4>1. SUFFICES ASSUME NEW s \in Sessions, task'[s].of = k, Alive(task'[s])
                     PROVE  \/ overlap'[k] \/ (sess'[k].running = s /\ ~ closing'[k])
                            \/ \E x \in Actors : Stops(x, k)' /\ op'[x].took = s
        BY DEF Accounted, Alive
      <4>2. \A x \in Actors : Stops(x, k) => op'[x] = op[x]
        BY <3>1 DEF Stops
      <4> QED
        BY <2>0, <3>1, <3>2, <4>1, <4>2 DEF Accounted
    <3>4. Alone(k)'
      BY <2>0, <3>1, <3>2 DEF Alone
    <3>5. Desks(k)'
      <4>1. \/ overlap'[k] \/ closing'[k]
            \/ /\ \A s \in Sessions : task'[s].of = k /\ task'[s].desk = "sent" => Alive(task'[s])
               /\ \/ sess'[k].desk \in {None, sess'[k].running}
                  \/ \E x \in Actors : Stops(x, k)'
        BY <2>0, <3>1, <3>2 DEF Desks
      <4> QED
        BY <4>1 DEF Desks, Alive
    <3> QED
      BY <3>3, <3>4, <3>5
  <2> QED
    BY <2>1, <2>2
<1> QED
  BY <1>8, <1>9, <1>10 DEF Orderly

----------------------------------------------------------------------------
(* What the apps show, as things move.                                     *)

\* The commands of those who follow a daemon stay with it.
Steady ==
  \A c \in Controllers : view[c].sub # "no" => Attached(op'[c]) /\ op'[c].on = op[c].on

LEMMA FollowingStays ==
  ASSUME Following, Steady, UNCHANGED view,
         \A c \in Controllers : view[c].sub # "no" => sess'[op[c].on].status = sess[op[c].on].status
  PROVE  Following'
<1>1. ASSUME NEW c \in Controllers, view'[c].sub # "no"
      PROVE  /\ Attached(op'[c])
             /\ view'[c].sub = "yes" => view'[c].news # "none" \/ view'[c].shows = sess'[op'[c].on].status
  BY <1>1 DEF Following, Steady
<1> QED
  BY <1>1 DEF Following, Attached

LEMMA FollowingNotified ==
  ASSUME Types, Following, Steady, NEW d \in Daemons, view' = Notified(d),
         \A k \in Daemons : k # d => sess'[k].status = sess[k].status,
         \A c \in Controllers : op[c].on \in Daemons \cup {None}, OfUp
  PROVE  Following' /\ view' \in [Controllers -> Views]
<1>1. ASSUME NEW c \in Controllers
      PROVE  /\ op[c].on = d /\ view[c].sub # "no" => view'[c] = [view[c] EXCEPT !.news = "waiting"]
             /\ ~ (op[c].on = d /\ view[c].sub # "no") => view'[c] = view[c]
             /\ view[c] \in Views
  BY DEF Notified, Types
<1>2. ASSUME NEW c \in Controllers
      PROVE  /\ view'[c].sub = view[c].sub /\ view'[c].shows = view[c].shows
             /\ op[c].on = d /\ view[c].sub # "no" => view'[c].news = "waiting"
             /\ view'[c] \in Views
  <2>1. CASE op[c].on = d /\ view[c].sub # "no"
    <3>1. view'[c] = [view[c] EXCEPT !.news = "waiting"] /\ view[c] \in Views
      BY <1>1, <2>1
    <3> QED
      BY <3>1 DEF Views
  <2>2. CASE ~ (op[c].on = d /\ view[c].sub # "no")
    BY <1>1, <2>2
  <2> QED
    BY <2>1, <2>2
<1>3. ASSUME NEW c \in Controllers, view'[c].sub # "no"
      PROVE  /\ Attached(op'[c])
             /\ view'[c].sub = "yes" => view'[c].news # "none" \/ view'[c].shows = sess'[op'[c].on].status
  <2>1. view[c].sub # "no" /\ Attached(op'[c]) /\ op'[c].on = op[c].on
    BY <1>2, <1>3 DEF Steady
  <2>2. op[c].on \in Daemons
    <3>1. Attached(op[c]) /\ c \in Actors
      BY <2>1, Constants DEF Following
    <3> QED
      BY <3>1 DEF OfUp
  <2>3. CASE op[c].on = d
    BY <1>2, <2>1, <2>3
  <2>4. CASE op[c].on # d
    <3>1. view'[c] = view[c] /\ sess'[op[c].on].status = sess[op[c].on].status
      BY <1>1, <2>2, <2>4
    <3> QED
      BY <2>1, <3>1 DEF Following
  <2> QED
    BY <2>3, <2>4
<1>4. view' \in [Controllers -> Views]
  <2>1. view' = [c \in Controllers |-> view'[c]]
    BY DEF Notified
  <2> QED
    BY <1>2, <2>1
<1> QED
  BY <1>3, <1>4 DEF Following, Attached

\* A view alone changes.
LEMMA FollowingOne ==
  ASSUME Types, Following, NEW c \in Controllers, UNCHANGED <<op, sess>>, NEW v \in Views,
         view' = [view EXCEPT ![c] = v],
         v.sub # "no" => Attached(op[c]),
         v.sub = "yes" => v.news # "none" \/ v.shows = sess[op[c].on].status
  PROVE  Following' /\ view' \in [Controllers -> Views]
<1>1. view' \in [Controllers -> Views] /\ view'[c] = v
      /\ \A k \in Controllers : k # c => view'[k] = view[k]
  BY DEF Types
<1>2. ASSUME NEW k \in Controllers, view'[k].sub # "no"
      PROVE  /\ Attached(op'[k])
             /\ view'[k].sub = "yes" => view'[k].news # "none" \/ view'[k].shows = sess'[op'[k].on].status
  BY <1>1, <1>2 DEF Following
<1> QED
  BY <1>1, <1>2 DEF Following, Attached

\* The endpoint is as it was.
LEMMA EndpointStays ==
  ASSUME Endpoint, UNCHANGED <<proc, ctl, raced>> PROVE Endpoint'
  BY DEF Endpoint, ctl

LEMMA EndpointSpawned ==
  ASSUME Endpoint, Types, NEW d \in Daemons, NEW p,
         proc[d] \notin {"bound", "up"}, p \in {"launched", "looked", "gone"},
         proc' = [proc EXCEPT ![d] = p], UNCHANGED <<ctl, raced>>
  PROVE  Endpoint'
<1>1. proc'[d] = p /\ \A k \in Daemons : k # d => proc'[k] = proc[k]
  BY DEF Types
<1>2. UNCHANGED <<sock, token, listener, raced>>
  BY DEF ctl
<1>3. \A k \in Daemons : listener'[k] \in {"open", "dropping"} => proc'[k] \in {"bound", "up"}
  BY <1>1, <1>2 DEF Endpoint
<1>4. \A k \in Daemons : proc'[k] = "bound" => listener'[k] = "open"
  BY <1>1, <1>2 DEF Endpoint
<1>5. \A k \in Daemons : proc'[k] = "up" => proc[k] = "up"
  BY <1>1
<1> QED
  BY <1>2, <1>3, <1>4, <1>5 DEF Endpoint

----------------------------------------------------------------------------
(* The actions.                                                            *)

LEMMA Parts ==
  ASSUME LInv
  PROVE  /\ Types /\ Endpoint /\ OfUp /\ Own /\ Room /\ Orderly /\ Following
         /\ \A c \in Controllers : op[c].on \in Daemons \cup {None} /\ c \in Actors
         /\ \A c \in Controllers : view[c].sub # "no" => Attached(op[c]) /\ op[c].on \in Daemons
<1>1. Types /\ Endpoint /\ OfUp /\ Own /\ Room /\ Orderly /\ Following
  BY TypesAre DEF LInv
<1>2. \A c \in Controllers : op[c].on \in Daemons \cup {None} /\ c \in Actors
  BY <1>1, Constants DEF Types, Commands
<1>3. \A c \in Controllers : view[c].sub # "no" => Attached(op[c]) /\ op[c].on \in Daemons
  BY <1>1, <1>2 DEF Following, OfUp
<1> QED
  BY <1>1, <1>2, <1>3

LEMMA Whole ==
  ASSUME Types', Endpoint', OfUp', Own', Room', Orderly', Following' PROVE LInv'
<1>1. TypeOK'
  BY DEF TypeOK, Types, Fields, Tasks, Commands, Views
<1> QED
  BY <1>1 DEF LInv

\* What the sessions and commands are is as it was.
LEMMA NothingMoves ==
  ASSUME LInv, UNCHANGED <<closing, sess, task, op, overlap>>,
         \A d \in Daemons : proc[d] = "up" => proc'[d] = "up"
  PROVE  OfUp' /\ Own' /\ Orderly' /\ Room' /\ Steady
<1>1. OfUp' /\ Own' /\ Orderly'
  BY Parts, CommandsMove
<1>2. Room'
  <2>1. FreeOnes \subseteq FreeOnes' /\ Starters' \subseteq Starters
    BY DEF FreeOnes, Starters
  <2> QED
    BY <2>1, Parts, RoomStays
<1>3. Steady
  BY Parts DEF Steady
<1> QED
  BY <1>1, <1>2, <1>3

LEMMA BindLookStep == ASSUME LInv, NEW d \in Daemons, BindLook(d) PROVE LInv'
<1>1. /\ UNCHANGED <<ctl, closing, sess, task, op, view, crashes, overlap, raced>>
      /\ proc[d] \in {"launched", "none"}
  BY DEF BindLook, hist
<1>2. PICK next \in {"looked", "gone"} : proc' = [proc EXCEPT ![d] = next]
  BY DEF BindLook
<1>3. Types'
  BY <1>1, <1>2, Parts DEF Types, ctl
<1>4. Endpoint'
  BY <1>1, <1>2, Parts, EndpointSpawned
<1>5. \A k \in Daemons : proc[k] = "up" => proc'[k] = "up"
  BY <1>1, <1>2, Parts DEF Types
<1>6. OfUp' /\ Own' /\ Orderly' /\ Room' /\ Steady
  BY <1>1, <1>5, NothingMoves
<1>7. Following'
  BY <1>1, <1>6, Parts, FollowingStays
<1> QED
  BY <1>3, <1>4, <1>6, <1>7, Whole

\* A daemon takes the socket: another that listened would have it, or one bound over another.
LEMMA BindTakeStep == ASSUME LInv, NEW d \in Daemons, BindTake(d) PROVE LInv'
<1>1. /\ UNCHANGED <<token, closing, sess, task, op, view, crashes, overlap>>
      /\ proc[d] = "looked" /\ proc' = [proc EXCEPT ![d] = "bound"]
      /\ raced' = (raced \/ Listens(sock)) /\ sock' = d
      /\ listener' = [listener EXCEPT ![d] = "open"]
  BY DEF BindTake
<1>2. /\ proc'[d] = "bound" /\ listener'[d] = "open"
      /\ \A k \in Daemons : k # d => proc'[k] = proc[k] /\ listener'[k] = listener[k]
  BY <1>1, Parts DEF Types
<1>3. Types'
  <2>1. raced' \in BOOLEAN
    BY <1>1, Parts DEF Types, Listens
  <2> QED
    BY <1>1, <2>1, Parts DEF Types
<1>4. Endpoint'
  <2>1. \A k \in Daemons : listener'[k] \in {"open", "dropping"} => proc'[k] \in {"bound", "up"}
    BY <1>2, Parts DEF Endpoint
  <2>2. \A k \in Daemons : proc'[k] = "bound" => listener'[k] = "open"
    BY <1>2, Parts DEF Endpoint
  <2>3. ASSUME ~ raced', NEW k \in Daemons, listener'[k] \in {"open", "dropping"}
        PROVE  sock' = k /\ k = d
    <3>1. ~ raced /\ ~ Listens(sock)
      BY <1>1, <2>3
    <3>2. k # d => sock = k /\ listener[k] \in {"open", "dropping"}
      BY <1>2, <2>3, <3>1, Parts DEF Endpoint
    <3> QED
      BY <1>1, <3>1, <3>2, Constants DEF Listens
  <2>4. \A k \in Daemons : proc'[k] = "up" /\ listener'[k] = "open" => k # d
    BY <1>2
  <2> QED
    BY <2>1, <2>2, <2>3, <2>4 DEF Endpoint
<1>5. \A k \in Daemons : proc[k] = "up" => proc'[k] = "up"
  BY <1>1, <1>2
<1>6. OfUp' /\ Own' /\ Orderly' /\ Room' /\ Steady
  BY <1>1, <1>5, NothingMoves
<1>7. Following'
  BY <1>1, <1>6, Parts, FollowingStays
<1> QED
  BY <1>3, <1>4, <1>6, <1>7, Whole

\* Bound is dropped: the one that drops it has the socket, and no other listens.
LEMMA DropTokenStep == ASSUME LInv, NEW d \in Daemons, DropToken(d) PROVE LInv'
<1>1. /\ UNCHANGED <<proc, sock, closing, sess, task, op, view, crashes, overlap, raced>>
      /\ listener[d] = "open" /\ listener' = [listener EXCEPT ![d] = "dropping"] /\ token' = None
      /\ closing[d]
  BY DEF DropToken, hist
<1>2. /\ listener'[d] = "dropping"
      /\ \A k \in Daemons : k # d => listener'[k] = listener[k]
  BY <1>1, Parts DEF Types
<1>3. Types'
  BY <1>1, Parts DEF Types
<1>4. Endpoint'
  <2>1. \A k \in Daemons : listener'[k] \in {"open", "dropping"} => proc'[k] \in {"bound", "up"}
    BY <1>1, <1>2, Parts DEF Endpoint
  <2>2. \A k \in Daemons : proc'[k] = "bound" => listener'[k] = "open"
    <3>1. proc[d] = "up"
      BY <1>1, Parts DEF OfUp
    <3> QED
      BY <1>1, <1>2, <3>1, Parts DEF Endpoint
  <2>3. ~ raced' => \A k \in Daemons : listener'[k] \in {"open", "dropping"} => sock' = k
    BY <1>1, <1>2, Parts DEF Endpoint
  <2>4. ~ raced' => \A k \in Daemons : ~ (proc'[k] = "up" /\ listener'[k] = "open")
    BY <1>1, <1>2, Parts DEF Endpoint
  <2> QED
    BY <2>1, <2>2, <2>3, <2>4 DEF Endpoint
<1>5. OfUp' /\ Own' /\ Orderly' /\ Room' /\ Steady
  BY <1>1, NothingMoves
<1>6. Following'
  BY <1>1, <1>5, Parts, FollowingStays
<1> QED
  BY <1>3, <1>4, <1>5, <1>6, Whole

LEMMA DropListenerStep == ASSUME LInv, NEW d \in Daemons, DropListener(d) PROVE LInv'
<1>1. /\ UNCHANGED <<proc, token, closing, sess, task, op, view, crashes, overlap, raced>>
      /\ listener[d] = "dropping" /\ listener' = [listener EXCEPT ![d] = "closed"] /\ sock' = None
  BY DEF DropListener, hist
<1>2. listener'[d] = "closed" /\ \A k \in Daemons : k # d => listener'[k] = listener[k]
  BY <1>1, Parts DEF Types
<1>3. Types'
  BY <1>1, Parts DEF Types
<1>4. Endpoint'
  <2>1. \A k \in Daemons : listener'[k] \in {"open", "dropping"} => proc'[k] \in {"bound", "up"}
    BY <1>1, <1>2, Parts DEF Endpoint
  <2>2. \A k \in Daemons : proc'[k] = "bound" => listener'[k] = "open"
    BY <1>1, <1>2, Parts DEF Endpoint
  <2>3. ~ raced' => \A k \in Daemons : listener'[k] \in {"open", "dropping"} => sock' = k
    <3> SUFFICES ASSUME ~ raced, NEW k \in Daemons, listener'[k] \in {"open", "dropping"}
                 PROVE  FALSE
      BY <1>1
    <3>1. sock = d
      BY <1>1, Parts DEF Endpoint
    <3>2. k # d /\ sock = k
      BY <1>2, Parts DEF Endpoint
    <3> QED
      BY <3>1, <3>2
  <2>4. ~ raced' => \A k \in Daemons : proc'[k] = "up" /\ listener'[k] = "open" => token' = k
    BY <1>1, <1>2, Parts DEF Endpoint
  <2> QED
    BY <2>1, <2>2, <2>3, <2>4 DEF Endpoint
<1>5. OfUp' /\ Own' /\ Orderly' /\ Room' /\ Steady
  BY <1>1, NothingMoves
<1>6. Following'
  BY <1>1, <1>5, Parts, FollowingStays
<1> QED
  BY <1>3, <1>4, <1>5, <1>6, Whole

\* One command moves on, and a session that ended may be forgotten.
LEMMA CommandStep ==
  ASSUME LInv, NEW x \in Actors, NEW o \in Commands, op' = [op EXCEPT ![x] = o],
         UNCHANGED <<task, overlap>>, op[x].at # "stop", o.at # "stop",
         o.at = "start" => FreeSlots > 0,
         o.on # None <=> Attached(o),
         o.on # None => proc'[o.on] = "up",
         x \in Daemons => o.on \in {None, x},
         \A d \in Daemons : proc[d] = "up" => proc'[d] = "up",
         NEW d \in Daemons,
         \A k \in Daemons : k # d => sess'[k] = sess[k] /\ closing'[k] = closing[k],
         sess'[d] \in {sess[d], Looked(d)},
         closing'[d] = closing[d] \/ (closing'[d] /\ proc'[d] = "up" /\ sess'[d].running = None)
  PROVE  /\ OfUp' /\ Own' /\ Orderly' /\ Room'
         /\ op'[x] = o /\ \A y \in Actors : y # x => op'[y] = op[y]
         /\ op' \in [Actors -> Commands]
         /\ sess'[d] \in Fields /\ sess'[d].status = sess[d].status
<1>1. /\ op'[x] = o /\ op' \in [Actors -> Commands]
      /\ \A y \in Actors : y # x => op'[y] = op[y]
  BY Parts DEF Types
<1>2. o.on \in Daemons \cup {None}
  BY DEF Commands
<1>3. /\ sess'[d] \in Fields /\ sess'[d].status = sess[d].status
      /\ \/ sess'[d] = sess[d]
         \/ /\ sess[d].running # None /\ task[sess[d].running].at = "done"
            /\ sess'[d].running = None /\ sess'[d].desk = None
  <2>1. sess[d] \in Fields
    BY Parts DEF Types
  <2>2. CASE sess'[d] = sess[d]
    BY <2>1, <2>2
  <2>3. CASE sess'[d] # sess[d]
    <3>1. sess'[d] = [sess[d] EXCEPT !.running = None, !.desk = None] /\ Finished(d)
      BY <2>3 DEF Looked
    <3> QED
      BY <2>1, <3>1 DEF Finished, Fields
  <2> QED
    BY <2>2, <2>3
<1>4. OfUp' /\ Own' /\ Orderly'
  <2>1. \A y \in Actors :
           \/ op'[y] = op[y]
           \/ /\ op[y].at # "stop" /\ op'[y].at # "stop"
              /\ op'[y].on # None <=> Attached(op'[y])
              /\ op'[y].on # None => proc'[op'[y].on] = "up" /\ op'[y].on \in Daemons
              /\ y \in Daemons => op'[y].on \in {None, y}
    BY <1>1, <1>2
  <2>2. \A k \in Daemons :
           \/ sess'[k] = sess[k]
           \/ /\ sess[k].running # None /\ task[sess[k].running].at = "done"
              /\ sess'[k].running = None /\ sess'[k].desk = None
    BY <1>3
  <2>3. \A k \in Daemons :
           closing'[k] = closing[k] \/ (closing'[k] /\ proc'[k] = "up" /\ sess'[k].running = None)
    OBVIOUS
  <2> QED
    BY <2>1, <2>2, <2>3, Parts, CommandsMove
<1>5. Room'
  <2>1. FreeOnes' = FreeOnes
    BY DEF FreeOnes
  <2>2. CASE o.at = "start"
    <3>1. Starters' \subseteq Starters \cup {x}
      BY <1>1 DEF Starters
    <3> QED
      BY <2>1, <2>2, <3>1, RoomForOne
  <2>3. CASE o.at # "start"
    <3>1. Starters' \subseteq Starters
      BY <1>1, <2>3 DEF Starters
    <3> QED
      BY <2>1, <3>1, Parts, RoomStays
  <2> QED
    BY <2>2, <2>3
<1> QED
  BY <1>1, <1>3, <1>4, <1>5

\* Nobody follows through a command that is attached to no daemon.
LEMMA Unattached ==
  ASSUME LInv, NEW c \in Controllers, ~ Attached(op[c]) PROVE view[c].sub = "no"
  BY Parts

LEMMA SpawnStep == ASSUME LInv, NEW c \in Controllers, Spawn(c) PROVE LInv'
<1> DEFINE n == NextOf(Spare)
           o == [Out EXCEPT !.at = "waits", !.made = TRUE]
<1>1. /\ UNCHANGED <<ctl, closing, sess, task, view, crashes, overlap, raced>>
      /\ op[c].at = "out" /\ proc' = [proc EXCEPT ![n] = "launched"] /\ op' = [op EXCEPT ![c] = o]
  BY DEF Spawn, hist
<1>2. n \in Spare /\ proc[n] = "none" /\ n \in Daemons
  <2>1. \E k \in Spare : proc[k] = "none"
    BY Constants DEF Spawn, Answers
  <2> QED
    BY <2>1, Constants DEF NextOf
<1>3. o \in Commands /\ o.at = "waits" /\ o.on = None
  BY Records DEF Commands, Out
<1> HIDE DEF n, o
<1>4. \A k \in Daemons : proc[k] = "up" => proc'[k] = "up"
  BY <1>1, <1>2, Parts DEF Types
<1>5. /\ OfUp' /\ Own' /\ Orderly' /\ Room' /\ op' \in [Actors -> Commands]
      /\ \A y \in Actors : y # c => op'[y] = op[y]
  BY <1>1, <1>2, <1>3, <1>4, Constants, CommandStep DEF Attached
<1>6. Endpoint'
  BY <1>1, <1>2, Parts, EndpointSpawned
<1>7. Types'
  BY <1>1, <1>2, <1>5, Parts DEF Types, ctl
<1>8. Following'
  <2>1. view[c].sub = "no"
    BY <1>1, Unattached DEF Attached
  <2>2. Steady
    BY <1>5, <2>1, Parts DEF Steady
  <2> QED
    BY <1>1, <2>2, Parts, FollowingStays
<1> QED
  BY <1>5, <1>6, <1>7, <1>8, Whole

LEMMA ConnectStep ==
  ASSUME LInv, NEW c \in Controllers, NEW d \in Daemons, Connect(c, d) PROVE LInv'
<1> DEFINE o == [op[c] EXCEPT !.at = "in", !.on = d]
<1>0. op[c] \in Commands /\ c \in Actors /\ op \in [Actors -> Commands]
  BY Parts DEF Types
<1>1. /\ UNCHANGED <<proc, ctl, closing, sess, task, view, crashes, overlap, raced>>
      /\ op[c].at \in {"out", "waits"} /\ proc[d] = "up"
  BY DEF Connect, Answers, hist
<1>2. op' = [op EXCEPT ![c] = o]
  BY <1>0 DEF Connect
<1>3. o.at = "in" /\ o.on = d
  BY <1>0 DEF Commands
<1>4. o \in Commands
  BY <1>0, Zenon DEF Commands
<1> HIDE DEF o
<1>5. c \notin Daemons /\ d # None
  BY Constants
<1>6. /\ OfUp' /\ Own' /\ Orderly' /\ Room' /\ op' \in [Actors -> Commands]
      /\ \A y \in Actors : y # c => op'[y] = op[y]
  BY <1>0, <1>1, <1>2, <1>3, <1>4, <1>5, CommandStep DEF Attached
<1>7. Endpoint'
  BY <1>1, Parts, EndpointStays
<1>8. Types'
  BY <1>1, <1>6, Parts DEF Types, ctl
<1>9. Following'
  <2>1. view[c].sub = "no"
    BY <1>1, Unattached DEF Attached
  <2>2. Steady
    BY <1>6, <2>1, Parts DEF Steady
  <2> QED
    BY <1>1, <2>2, Parts, FollowingStays
<1> QED
  BY <1>6, <1>7, <1>8, <1>9, Whole

LEMMA DetachStep == ASSUME LInv, NEW c \in Controllers, Detach(c) PROVE LInv'
<1>1. /\ UNCHANGED <<proc, ctl, closing, sess, task, crashes, overlap, raced>>
      /\ op[c].at \in {"in", "waits", "spare"} /\ op' = [op EXCEPT ![c] = Out]
      /\ view' = [view EXCEPT ![c] = NoView]
  BY DEF Detach, hist
<1>2. OfUp' /\ Own' /\ Orderly' /\ Room' /\ op' \in [Actors -> Commands]
      /\ \A y \in Actors : y # c => op'[y] = op[y]
  <2>1. CASE Daemons # {}
    <3>1. PICK d \in Daemons : TRUE
      BY <2>1
    <3> QED
      BY <1>1, <3>1, Records, Parts, CommandStep DEF Attached
  <2>2. CASE Daemons = {}
    <3>1. op[c].on = None
      BY <2>2, Parts
    <3>2. ~ Attached(op[c])
      BY <3>1, Parts DEF OfUp
    <3>3. op' \in [Actors -> Commands] /\ op'[c] = Out /\ \A y \in Actors : y # c => op'[y] = op[y]
      BY <1>1, Records, Parts DEF Types
    <3>4. OfUp' /\ Own' /\ Orderly'
      BY <1>1, <2>2, <3>3, Records, Parts, CommandsMove DEF Attached
    <3>5. Room'
      <4>1. FreeOnes \subseteq FreeOnes' /\ Starters' \subseteq Starters
        BY <1>1, <3>3, Records DEF FreeOnes, Starters
      <4> QED
        BY <4>1, Parts, RoomStays
    <3> QED
      BY <3>3, <3>4, <3>5
  <2> QED
    BY <2>1, <2>2
<1>3. Endpoint'
  BY <1>1, Parts, EndpointStays
<1>4. view' \in [Controllers -> Views] /\ view'[c] = NoView
      /\ \A k \in Controllers : k # c => view'[k] = view[k]
  BY <1>1, Records, Parts DEF Types
<1>5. Types'
  BY <1>1, <1>2, <1>4, Parts DEF Types, ctl
<1>6. Following'
  <2>1. ASSUME NEW k \in Controllers, view'[k].sub # "no"
        PROVE  /\ Attached(op'[k])
               /\ view'[k].sub = "yes" => view'[k].news # "none" \/ view'[k].shows = sess'[op'[k].on].status
    <3>1. k # c /\ view'[k] = view[k] /\ op'[k] = op[k]
      BY <1>2, <1>4, <2>1, Records, Parts
    <3> QED
      BY <1>1, <2>1, <3>1, Parts DEF Following
  <2> QED
    BY <2>1 DEF Following, Attached
<1> QED
  BY <1>2, <1>3, <1>5, <1>6, Whole

LEMMA SeeClosingStep == ASSUME LInv, NEW d \in Daemons, SeeClosing(d) PROVE LInv'
<1>1. /\ UNCHANGED <<proc, ctl, closing, sess, task, view, crashes, overlap, raced>>
      /\ op[d].at = "in" /\ op' = [op EXCEPT ![d] = Out]
  BY DEF SeeClosing, hist
<1>2. OfUp' /\ Own' /\ Orderly' /\ Room' /\ op' \in [Actors -> Commands]
      /\ \A y \in Actors : y # d => op'[y] = op[y]
  BY <1>1, Records, Constants, CommandStep DEF Attached
<1>3. Endpoint'
  BY <1>1, Parts, EndpointStays
<1>4. Types'
  BY <1>1, <1>2, Parts DEF Types, ctl
<1>5. Following'
  <2>1. Steady
    BY <1>2, Parts, Constants DEF Steady
  <2> QED
    BY <1>1, <2>1, Parts, FollowingStays
<1> QED
  BY <1>2, <1>3, <1>4, <1>5, Whole

\* A command that stays with its daemon: the one refused, or the one that will start a
\* session; what ended may be forgotten.
LEMMA AskedStep ==
  ASSUME LInv, NEW c \in Controllers, op[c].at = "in", NEW d \in Daemons, op[c].on = d,
         NEW o \in Commands, op' = [op EXCEPT ![c] = o], o.on = d, o.at \in {"in", "spare", "start"},
         o.at = "start" => FreeSlots > 0,
         \/ sess' = [sess EXCEPT ![d] = Looked(d)]
         \/ sess' = sess,
         UNCHANGED <<proc, ctl, closing, task, view, hist>>
  PROVE  LInv'
<1>1. /\ \A k \in Daemons : k # d => sess'[k] = sess[k]
      /\ sess'[d] \in {sess[d], Looked(d)}
  BY Parts DEF Types
<1>2. c \in Actors /\ c \notin Daemons /\ d # None /\ proc[d] = "up"
  BY Constants, Parts DEF OfUp
<1>3. UNCHANGED <<task, overlap, proc, closing, crashes, raced>>
  BY DEF hist
<1>4. /\ OfUp' /\ Own' /\ Orderly' /\ Room' /\ op' \in [Actors -> Commands]
      /\ op'[c] = o /\ \A y \in Actors : y # c => op'[y] = op[y]
      /\ sess'[d] \in Fields /\ sess'[d].status = sess[d].status
  BY <1>1, <1>2, <1>3, CommandStep DEF Attached
<1>5. Endpoint'
  BY <1>3, Parts, EndpointStays
<1>6. Types'
  <2>1. sess' \in [Daemons -> Fields]
    BY <1>1, <1>4, Parts DEF Types
  <2> QED
    BY <1>3, <1>4, <2>1, Parts DEF Types, ctl
<1>7. Following'
  <2>1. Attached(op'[c]) /\ op'[c].on = op[c].on
    BY <1>4 DEF Attached
  <2>2. Steady
    BY <1>4, <2>1, Parts DEF Steady
  <2>3. \A k \in Daemons : sess'[k].status = sess[k].status
    BY <1>1, <1>4
  <2> QED
    BY <2>2, <2>3, Parts, FollowingStays
<1> QED
  BY <1>4, <1>5, <1>6, <1>7, Whole

LEMMA MayAskHas ==
  ASSUME LInv, NEW c \in Controllers, MayAsk(c)
  PROVE  /\ op[c].at = "in" /\ op[c].on \in Daemons /\ op[c] \in Commands /\ FreeSlots > 0
         /\ op \in [Actors -> Commands] /\ c \in Actors
<1>1. op[c].at = "in" /\ FreeSlots > 0 /\ c \in Actors /\ op \in [Actors -> Commands]
  BY Parts DEF MayAsk, Types
<1>2. op[c].on # None
  BY <1>1, Parts DEF OfUp, Attached
<1> QED
  BY <1>1, <1>2, Parts

\* A start that is refused leaves the command as it was, or with a daemon to end.
LEMMA RefusedIs ==
  ASSUME LInv, NEW c \in Controllers, MayAsk(c)
  PROVE  \E o \in Commands : /\ Refused(c) = [op EXCEPT ![c] = o]
                             /\ o.on = op[c].on /\ o.at \in {"in", "spare"}
<1>1. op[c].at = "in" /\ op[c] \in Commands /\ op \in [Actors -> Commands] /\ c \in Actors
  BY MayAskHas
<1>2. CASE op[c].made
  <2> DEFINE o == [op[c] EXCEPT !.at = "spare"]
  <2>1. o \in Commands
    BY <1>1, Zenon DEF Commands
  <2>2. o.on = op[c].on /\ o.at = "spare"
    BY <1>1 DEF Commands
  <2>3. Refused(c) = [op EXCEPT ![c] = o]
    BY <1>1, <1>2 DEF Refused
  <2> HIDE DEF o
  <2> QED
    BY <2>1, <2>2, <2>3
<1>3. CASE ~ op[c].made
  <2>1. Refused(c) = [op EXCEPT ![c] = op[c]]
    BY <1>1, <1>3 DEF Refused
  <2> QED
    BY <1>1, <2>1
<1> QED
  BY <1>2, <1>3

LEMMA StartCheckStep ==
  ASSUME LInv, NEW c \in Controllers, NEW kind \in Kinds, StartCheck(c, kind) PROVE LInv'
<1> DEFINE d == op[c].on
<1>1. /\ MayAsk(c) /\ sess' = [sess EXCEPT ![d] = Looked(d)]
      /\ UNCHANGED <<proc, ctl, closing, task, view, hist>>
  BY DEF StartCheck
<1>2. /\ op[c].at = "in" /\ d \in Daemons /\ op[c] \in Commands /\ FreeSlots > 0
      /\ op \in [Actors -> Commands] /\ c \in Actors
  BY <1>1, MayAskHas
<1>3. CASE IsRunning(d)
  <2>1. op' = Refused(c)
    BY <1>3 DEF StartCheck
  <2> QED
    BY <1>1, <1>2, <2>1, RefusedIs, AskedStep
<1>4. CASE ~ IsRunning(d)
  <2> DEFINE o == [op[c] EXCEPT !.at = "start", !.kind = kind]
  <2>1. op' = [op EXCEPT ![c] = o]
    BY <1>2, <1>4 DEF StartCheck
  <2>2. o \in Commands
    BY <1>2, Zenon DEF Commands
  <2>3. o.at = "start" /\ o.on = d
    BY <1>2 DEF Commands
  <2> HIDE DEF o
  <2> QED
    BY <1>1, <1>2, <2>1, <2>2, <2>3, AskedStep
<1> QED
  BY <1>3, <1>4

LEMMA UnconfiguredStep ==
  ASSUME LInv, NEW c \in Controllers, ClientUnconfigured(c) \/ ServerUnconfigured(c) PROVE LInv'
<1> DEFINE d == op[c].on
<1>1. /\ MayAsk(c) /\ op' = Refused(c) /\ (sess' = [sess EXCEPT ![d] = Looked(d)] \/ sess' = sess)
      /\ UNCHANGED <<proc, ctl, closing, task, view, hist>>
  BY DEF ClientUnconfigured, ServerUnconfigured
<1>2. op[c].at = "in" /\ d \in Daemons
  BY <1>1, MayAskHas
<1> QED
  BY <1>1, <1>2, RefusedIs, AskedStep

LEMMA TickStep == ASSUME LInv, NEW d \in Daemons, Tick(d) PROVE LInv'
<1>1. /\ UNCHANGED <<proc, ctl, task, view, crashes, overlap, raced>>
      /\ proc[d] = "up" /\ op[d].at = "in" /\ op' = [op EXCEPT ![d] = Out]
      /\ sess' = [sess EXCEPT ![d] = Looked(d)] /\ ~ IsRunning(d)
      /\ closing' = [closing EXCEPT ![d] = TRUE]
  BY DEF Tick, hist
<1>2. /\ sess'[d] = Looked(d) /\ sess'[d].running = None /\ closing'[d]
      /\ \A k \in Daemons : k # d => sess'[k] = sess[k] /\ closing'[k] = closing[k]
      /\ closing' \in [Daemons -> BOOLEAN]
  BY <1>1, Parts DEF Types, IsRunning
<1>3. /\ OfUp' /\ Own' /\ Orderly' /\ Room' /\ op' \in [Actors -> Commands]
      /\ \A y \in Actors : y # d => op'[y] = op[y]
      /\ sess'[d] \in Fields /\ sess'[d].status = sess[d].status
  <2>1. /\ d \in Actors /\ op[d].at # "stop" /\ Out.at # "stop" /\ Out.at # "start"
        /\ Out.on = None /\ ~ Attached(Out) /\ Out \in Commands
    BY <1>1, Records, Constants DEF Attached
  <2>2. /\ \A k \in Daemons : k # d => sess'[k] = sess[k] /\ closing'[k] = closing[k]
        /\ sess'[d] \in {sess[d], Looked(d)}
        /\ closing'[d] /\ proc'[d] = "up" /\ sess'[d].running = None
        /\ \A k \in Daemons : proc[k] = "up" => proc'[k] = "up"
    BY <1>1, <1>2
  <2>3. UNCHANGED <<task, overlap>> /\ op' = [op EXCEPT ![d] = Out]
    BY <1>1
  <2>4. /\ Out.on # None <=> Attached(Out)
        /\ Out.at = "start" => FreeSlots > 0
        /\ Out.on # None => proc'[Out.on] = "up"
        /\ d \in Daemons => Out.on \in {None, d}
    BY <2>1
  <2>5. closing'[d] = closing[d] \/ (closing'[d] /\ proc'[d] = "up" /\ sess'[d].running = None)
    BY <2>2
  <2> QED
    BY <2>1, <2>2, <2>3, <2>4, <2>5, CommandStep, ZenonT(60)
<1>4. Endpoint'
  BY <1>1, Parts, EndpointStays
<1>5. Types'
  <2>1. sess' \in [Daemons -> Fields]
    BY <1>1, <1>2, <1>3, Parts DEF Types
  <2> QED
    BY <1>1, <1>2, <1>3, <2>1, Parts DEF Types, ctl
<1>6. Following'
  <2>1. Steady
    BY <1>3, Parts, Constants DEF Steady
  <2>2. \A k \in Daemons : sess'[k].status = sess[k].status
    BY <1>2, <1>3
  <2> QED
    BY <1>1, <2>1, <2>2, Parts, FollowingStays
<1> QED
  BY <1>3, <1>4, <1>5, <1>6, Whole

\* The four ways in which what an app shows moves on.
LEMMA ViewStep ==
  ASSUME LInv, NEW c \in Controllers, Subscribe(c) \/ ShowNow(c) \/ Mirror(c) \/ Lag(c) PROVE LInv'
<1>1. UNCHANGED <<proc, ctl, closing, sess, task, op, crashes, overlap, raced>>
  BY DEF Subscribe, ShowNow, Mirror, Lag, hist
<1>2. view[c] \in Views /\ view \in [Controllers -> Views]
  BY Parts DEF Types
<1>3. op[c].on \in Daemons => sess[op[c].on].status \in {"stopped", "up", "failed"}
  BY Parts DEF Types, Fields
<1>4. Following' /\ view' \in [Controllers -> Views]
  <2>1. CASE Subscribe(c)
    <3> DEFINE v == [view[c] EXCEPT !.sub = "asking"]
    <3>1. v \in Views /\ v.sub = "asking" /\ Attached(op[c])
      BY <1>2, <2>1 DEF Views, Subscribe, Attached
    <3>2. view' = [view EXCEPT ![c] = v]
      BY <1>2, <2>1 DEF Subscribe
    <3> HIDE DEF v
    <3> QED
      BY <1>1, <3>1, <3>2, Parts, FollowingOne
  <2>2. CASE ShowNow(c)
    <3> DEFINE v == [view[c] EXCEPT !.sub = "yes", !.shows = sess[op[c].on].status]
    <3>1. Attached(op[c]) /\ op[c].on \in Daemons
      BY <2>2, Parts DEF ShowNow
    <3>2. v \in Views /\ v.shows = sess[op[c].on].status
      BY <1>2, <1>3, <3>1 DEF Views
    <3>3. view' = [view EXCEPT ![c] = v]
      BY <1>2, <2>2 DEF ShowNow
    <3> HIDE DEF v
    <3> QED
      BY <1>1, <3>1, <3>2, <3>3, Parts, FollowingOne
  <2>3. CASE Mirror(c)
    <3> DEFINE v == [view[c] EXCEPT !.news = "none", !.shows = sess[op[c].on].status]
    <3>1. Attached(op[c]) /\ op[c].on \in Daemons
      BY <2>3, Parts DEF Mirror
    <3>2. v \in Views /\ v.shows = sess[op[c].on].status
      BY <1>2, <1>3, <3>1 DEF Views
    <3>3. view' = [view EXCEPT ![c] = v]
      BY <1>2, <2>3 DEF Mirror
    <3> HIDE DEF v
    <3> QED
      BY <1>1, <3>1, <3>2, <3>3, Parts, FollowingOne
  <2>4. CASE Lag(c)
    <3> DEFINE v == [view[c] EXCEPT !.news = "lost"]
    <3>1. Attached(op[c])
      BY <2>4, Parts DEF Lag
    <3>2. v \in Views /\ v.news = "lost"
      BY <1>2 DEF Views
    <3>3. view' = [view EXCEPT ![c] = v]
      BY <1>2, <2>4 DEF Lag
    <3> HIDE DEF v
    <3> QED
      BY <1>1, <3>1, <3>2, <3>3, Parts, FollowingOne
  <2> QED
    BY <2>1, <2>2, <2>3, <2>4
<1>5. OfUp' /\ Own' /\ Orderly' /\ Room'
  BY <1>1, NothingMoves
<1>6. Endpoint'
  BY <1>1, Parts, EndpointStays
<1>7. Types'
  BY <1>1, <1>4, Parts DEF Types, ctl
<1> QED
  BY <1>4, <1>5, <1>6, <1>7, Whole

\* A daemon that is not up has nothing, and nobody is attached to it.
LEMMA NotUpHas ==
  ASSUME LInv, NEW d \in Daemons, proc[d] # "up"
  PROVE  /\ sess[d] = NoSession /\ ~ closing[d] /\ sess[d].running = None
         /\ \A s \in Sessions : task[s].of # d
         /\ \A x \in Actors : op[x].on # d /\ ~ Stops(x, d)
         /\ ~ Attached(op[d]) /\ op[d].on = None /\ op[d].at # "stop" /\ op[d].at # "start"
<1>1. sess[d] = NoSession /\ ~ closing[d] /\ sess[d].running = None
  BY Parts, Records DEF OfUp
<1>2. \A s \in Sessions : task[s].of # d
  BY Parts, Constants DEF OfUp
<1>3. \A x \in Actors : op[x].on # d /\ ~ Stops(x, d)
  BY Parts, Constants DEF OfUp, Stops
<1>4. op[d].on = None /\ d \in Actors
  BY <1>3, Parts, Constants DEF OfUp
<1>5. ~ Attached(op[d])
  BY <1>4, Parts DEF OfUp
<1> QED
  BY <1>1, <1>2, <1>3, <1>4, <1>5 DEF Attached

\* What is launched into a slot: types, slots and who follows.
LEMMA LaunchedHas ==
  ASSUME LInv, NEW d \in Daemons, NEW s \in Sessions, NEW kind \in Kinds, task[s].at = "free",
         Launched(s, d, kind)
  PROVE  /\ task' \in [Sessions -> Tasks] /\ sess' \in [Daemons -> Fields]
         /\ FreeOnes' = FreeOnes \ {s}
         /\ \A k \in Daemons : k # d => sess'[k] = sess[k]
<1> DEFINE t == IF kind = "server" THEN ServerTask(d) ELSE ClientTask(d)
<1>1. t \in Tasks /\ t.at # "free"
  BY DEF ServerTask, ClientTask, Unused, Tasks, Kinds
<1>2. task' = [task EXCEPT ![s] = t]
  BY DEF Launched
<1> HIDE DEF t
<1>3. task' \in [Sessions -> Tasks] /\ task'[s] = t /\ \A k \in Sessions : k # s => task'[k] = task[k]
  BY <1>1, <1>2, Parts DEF Types
<1>4. FreeOnes' = FreeOnes \ {s}
  BY <1>1, <1>3 DEF FreeOnes
<1>5. sess' = [sess EXCEPT ![d] = [sess[d] EXCEPT !.running = s, !.status = "up"]]
  BY Parts DEF Launched, Types
<1>6. [sess[d] EXCEPT !.running = s, !.status = "up"] \in Fields
  <2>1. sess[d] \in Fields
    BY Parts DEF Types
  <2> QED
    BY <2>1 DEF Fields
<1>7. sess' \in [Daemons -> Fields] /\ \A k \in Daemons : k # d => sess'[k] = sess[k]
  BY <1>5, <1>6, Parts DEF Types
<1> QED
  BY <1>3, <1>4, <1>7

LEMMA BindTokenStep == ASSUME LInv, NEW d \in Daemons, BindToken(d) PROVE LInv'
<1> DEFINE o == [Out EXCEPT !.at = "in", !.on = d]
<1>1. /\ UNCHANGED <<sock, listener, closing, view, crashes, overlap, raced>>
      /\ proc[d] = "bound" /\ proc' = [proc EXCEPT ![d] = "up"] /\ token' = d
      /\ op' = [op EXCEPT ![d] = o]
  BY DEF BindToken, hist
<1>2. o \in Commands /\ o.at = "in" /\ o.on = d /\ Attached(o)
  BY DEF Commands, Out, Attached
<1> HIDE DEF o
<1>3. /\ sess[d] = NoSession /\ ~ closing[d] /\ sess[d].running = None
      /\ \A x \in Actors : op[x].on # d /\ ~ Stops(x, d)
      /\ op[d].at # "stop" /\ op[d].at # "start"
  BY <1>1, NotUpHas
<1>4. /\ op' \in [Actors -> Commands] /\ op'[d] = o /\ d \in Actors
      /\ \A y \in Actors : y # d => op'[y] = op[y]
  BY <1>1, <1>2, Parts, Constants DEF Types
<1>5. /\ proc'[d] = "up" /\ \A k \in Daemons : k # d => proc'[k] = proc[k]
      /\ proc' \in [Daemons -> {"none", "launched", "looked", "bound", "up", "gone"}]
  BY <1>1, Parts DEF Types
<1>6. Starters' = Starters
  BY <1>2, <1>3, <1>4 DEF Starters
<1>7. Endpoint'
  <2>1. listener[d] = "open"
    BY <1>1, Parts DEF Endpoint
  <2>2. \A k \in Daemons : listener'[k] \in {"open", "dropping"} => proc'[k] \in {"bound", "up"}
    BY <1>1, <1>5, Parts DEF Endpoint
  <2>3. \A k \in Daemons : proc'[k] = "bound" => listener'[k] = "open"
    BY <1>1, <1>5, Parts DEF Endpoint
  <2>4. ~ raced' => \A k \in Daemons : listener'[k] \in {"open", "dropping"} => sock' = k
    BY <1>1, Parts DEF Endpoint
  <2>5. ~ raced' => \A k \in Daemons : proc'[k] = "up" /\ listener'[k] = "open" => token' = k
    BY <1>1, <2>1, <2>4
  <2> QED
    BY <2>2, <2>3, <2>4, <2>5 DEF Endpoint
<1>8. /\ OfUp' /\ Own' /\ Orderly' /\ Room'
      /\ task' \in [Sessions -> Tasks] /\ sess' \in [Daemons -> Fields]
      /\ \A k \in Daemons : k # d => sess'[k] = sess[k]
  <2>1. CASE UNCHANGED <<sess, task>>
    <3>1. OfUp' /\ Own' /\ Orderly'
      <4>1. \A x \in Actors :
              \/ op'[x] = op[x]
              \/ /\ op[x].at # "stop" /\ op'[x].at # "stop"
                 /\ op'[x].on # None <=> Attached(op'[x])
                 /\ op'[x].on # None => proc'[op'[x].on] = "up" /\ op'[x].on \in Daemons
                 /\ x \in Daemons => op'[x].on \in {None, x}
        BY <1>2, <1>3, <1>4, <1>5, Constants DEF Attached
      <4>2. \A k \in Daemons : proc[k] = "up" => proc'[k] = "up"
        BY <1>5
      <4> QED
        BY <1>1, <2>1, <4>1, <4>2, Parts, CommandsMove
    <3>2. FreeOnes' = FreeOnes
      BY <2>1 DEF FreeOnes
    <3>3. Room'
      BY <1>6, <3>2, Parts, RoomStays
    <3> QED
      BY <2>1, <3>1, <3>3, Parts DEF Types
  <2>2. CASE FreeSlots > 0 /\ \E kind \in Kinds : Launched(FreeSlot, d, kind)
    <3>1. PICK kind \in Kinds : Launched(FreeSlot, d, kind)
      BY <2>2
    <3>2. PICK s \in Sessions : s = FreeSlot /\ task[s].at = "free"
      BY <2>2, SlotFound
    <3>3. Launched(s, d, kind)
      BY <3>1, <3>2
    <3>4. /\ task' \in [Sessions -> Tasks] /\ sess' \in [Daemons -> Fields]
          /\ FreeOnes' = FreeOnes \ {s}
          /\ \A k \in Daemons : k # d => sess'[k] = sess[k]
      BY <3>2, <3>3, LaunchedHas
    <3>5. Room'
      BY <1>6, <2>2, <3>4, Parts, RoomTaken
    <3>6. OfUp' /\ Own' /\ Orderly'
      <4>1. \A k \in Daemons : proc'[k] = "up" <=> proc[k] = "up" \/ k = d
        BY <1>1, <1>5
      <4>2. UNCHANGED closing /\ \A k \in Daemons : overlap'[k] = overlap[k] \/ k = d
        BY <1>1
      <4>3. overlap'[d] \/ (sess[d].running = None /\ ~ closing[d] /\ ~ overlap[d]
                             /\ \A y \in Actors : ~ Stops(y, d))
        BY <1>1, <1>3, Parts DEF Types
      <4> QED
        BY <1>2, <1>3, <1>4, <3>2, <3>3, <4>1, <4>2, <4>3, Parts, LaunchMoves, ZenonT(60)
    <3> QED
      BY <3>4, <3>5, <3>6
  <2> QED
    BY <2>1, <2>2 DEF BindToken
<1>9. Types'
  BY <1>1, <1>4, <1>5, <1>8, Parts DEF Types
<1>10. Following'
  <2>1. Steady
    BY <1>4, Parts, Constants DEF Steady
  <2>2. \A c \in Controllers : view[c].sub # "no" => sess'[op[c].on].status = sess[op[c].on].status
    BY <1>3, <1>8, Parts
  <2> QED
    BY <1>1, <2>1, <2>2, Parts, FollowingStays
<1> QED
  BY <1>7, <1>8, <1>9, <1>10, Whole

\* Bound is dropped as soon as it is made: the daemon is up for as long as that takes.
LEMMA BindFailsStep == ASSUME LInv, NEW d \in Daemons, BindFails(d) PROVE LInv'
<1>1. /\ UNCHANGED <<sock, sess, task, op, view, crashes, overlap, raced>>
      /\ proc[d] = "bound" /\ proc' = [proc EXCEPT ![d] = "up"] /\ token' = None
      /\ listener' = [listener EXCEPT ![d] = "dropping"] /\ closing' = [closing EXCEPT ![d] = TRUE]
  BY DEF BindFails, hist
<1>2. sess[d].running = None
  BY <1>1, NotUpHas
<1>3. /\ proc'[d] = "up" /\ listener'[d] = "dropping" /\ closing'[d]
      /\ \A k \in Daemons : k # d => /\ proc'[k] = proc[k] /\ listener'[k] = listener[k]
                                     /\ closing'[k] = closing[k]
  BY <1>1, Parts DEF Types
<1>4. Types'
  BY <1>1, Parts DEF Types
<1>5. Endpoint'
  <2>1. listener[d] = "open"
    BY <1>1, Parts DEF Endpoint
  <2>2. \A k \in Daemons : listener'[k] \in {"open", "dropping"} => proc'[k] \in {"bound", "up"}
    BY <1>3, Parts DEF Endpoint
  <2>3. \A k \in Daemons : proc'[k] = "bound" => listener'[k] = "open"
    BY <1>3, Parts DEF Endpoint
  <2>4. ~ raced' => \A k \in Daemons : listener'[k] \in {"open", "dropping"} => sock' = k
    BY <1>1, <1>3, <2>1, Parts DEF Endpoint
  <2>5. ~ raced' => \A k \in Daemons : ~ (proc'[k] = "up" /\ listener'[k] = "open")
    BY <1>1, <1>3, <2>1, Parts DEF Endpoint
  <2> QED
    BY <2>2, <2>3, <2>4, <2>5 DEF Endpoint
<1>6. OfUp' /\ Own' /\ Orderly'
  <2>1. \A k \in Daemons : proc[k] = "up" => proc'[k] = "up"
    BY <1>3
  <2>2. \A k \in Daemons : closing'[k] = closing[k] \/ (closing'[k] /\ proc'[k] = "up" /\ sess'[k].running = None)
    BY <1>1, <1>2, <1>3
  <2> QED
    BY <1>1, <2>1, <2>2, Parts, CommandsMove
<1>7. Room'
  <2>1. FreeOnes' = FreeOnes /\ Starters' = Starters
    BY <1>1 DEF FreeOnes, Starters
  <2> QED
    BY <2>1, Parts, RoomStays
<1>8. Following'
  <2>1. Steady
    BY <1>1, Parts DEF Steady
  <2> QED
    BY <1>1, <2>1, Parts, FollowingStays
<1> QED
  BY <1>4, <1>5, <1>6, <1>7, <1>8, Whole

LEMMA StartCommitStep == ASSUME LInv, NEW c \in Controllers, StartCommit(c) PROVE LInv'
<1>1. PICK d \in Daemons : op[c].on = d
  <2>1. op[c].at = "start" /\ c \in Actors
    BY Parts DEF StartCommit
  <2> QED
    BY <2>1, Parts DEF OfUp, Attached
<1>2. /\ UNCHANGED <<proc, ctl, closing, crashes, raced>>
      /\ op[c].at = "start" /\ view' = Notified(d)
      /\ overlap' = [overlap EXCEPT ![d] =
           @ \/ closing[d] \/ sess[d].running # None
             \/ \E x \in Actors \ {c} : op[x].on = d /\ op[x].at \in {"start", "stop"}]
  BY <1>1 DEF StartCommit
<1>3. /\ c \in Actors /\ c \notin Daemons /\ op[c] \in Commands /\ op \in [Actors -> Commands]
      /\ proc[d] = "up"
  BY <1>1, Parts, Constants DEF Types, OfUp
<1>4. PICK s \in Sessions : s = FreeSlot /\ task[s].at = "free"
  <2>1. Starters # {}
    BY <1>2, <1>3 DEF Starters
  <2> QED
    BY <2>1, Parts, SlotFound
<1>5. PICK kind \in Kinds : Launched(s, d, kind)
  <2>1. Launched(s, d, op[c].kind)
    BY <1>1, <1>4 DEF StartCommit
  <2>2. CASE op[c].kind \in Kinds
    BY <2>1, <2>2
  <2>3. CASE op[c].kind \notin Kinds
    <3>1. Launched(s, d, "client") /\ "client" \in Kinds
      BY <2>1, <2>3 DEF Launched, Kinds
    <3> QED
      BY <3>1
  <2> QED
    BY <2>2, <2>3
<1> DEFINE o == [op[c] EXCEPT !.at = "in", !.kind = "none", !.made = FALSE]
<1>6. op' = [op EXCEPT ![c] = o]
  BY <1>3 DEF StartCommit
<1>7. o \in Commands
  BY <1>3, Zenon DEF Commands
<1>8. o.at = "in" /\ o.on = d
  BY <1>1, <1>3 DEF Commands
<1> HIDE DEF o
<1>9. /\ op' \in [Actors -> Commands] /\ op'[c] = o
      /\ \A y \in Actors : y # c => op'[y] = op[y]
  BY <1>3, <1>6, <1>7
<1>10. /\ task' \in [Sessions -> Tasks] /\ sess' \in [Daemons -> Fields]
       /\ FreeOnes' = FreeOnes \ {s}
       /\ \A k \in Daemons : k # d => sess'[k] = sess[k]
  BY <1>4, <1>5, LaunchedHas
<1>11. Room'
  <2>1. c \in Starters
    BY <1>2, <1>3 DEF Starters
  <2>2. Starters' = Starters \ {c}
    BY <1>8, <1>9 DEF Starters
  <2> QED
    BY <1>10, <2>1, <2>2, Parts, RoomTaken
<1>12. /\ overlap' \in [Daemons -> BOOLEAN]
       /\ \A k \in Daemons : k # d => overlap'[k] = overlap[k]
       /\ overlap'[d] \/ (sess[d].running = None /\ ~ closing[d] /\ ~ overlap[d]
                           /\ \A y \in Actors : ~ Stops(y, d))
  <2> DEFINE b == overlap[d] \/ closing[d] \/ sess[d].running # None
                    \/ \E x \in Actors \ {c} : op[x].on = d /\ op[x].at \in {"start", "stop"}
  <2>1. overlap' = [overlap EXCEPT ![d] = b] /\ b \in BOOLEAN
    BY <1>2, Parts DEF Types
  <2>2. ~ b => /\ sess[d].running = None /\ ~ closing[d] /\ ~ overlap[d]
               /\ \A y \in Actors : ~ Stops(y, d)
    BY <1>2 DEF Stops
  <2> HIDE DEF b
  <2>3. /\ overlap' \in [Daemons -> BOOLEAN] /\ overlap'[d] = b
        /\ \A k \in Daemons : k # d => overlap'[k] = overlap[k]
    BY <2>1, Parts DEF Types
  <2> QED
    BY <2>2, <2>3
<1>13. OfUp' /\ Own' /\ Orderly'
  <2>1. \A k \in Daemons : proc'[k] = "up" <=> proc[k] = "up" \/ k = d
    BY <1>2, <1>3
  <2>2. UNCHANGED closing /\ \A k \in Daemons : overlap'[k] = overlap[k] \/ k = d
    BY <1>2, <1>12
  <2>3. op[c].at # "stop" /\ op'[c].at = "in" /\ op'[c].on = d /\ (c \in Daemons => c = d)
    BY <1>2, <1>3, <1>8, <1>9
  <2> QED
    BY <1>3, <1>4, <1>5, <1>9, <1>12, <2>1, <2>2, <2>3, Parts, LaunchMoves, ZenonT(60)
<1>14. Following' /\ view' \in [Controllers -> Views]
  <2>1. Steady
    BY <1>1, <1>8, <1>9, Parts DEF Steady, Attached
  <2>2. \A k \in Daemons : k # d => sess'[k].status = sess[k].status
    BY <1>10
  <2> QED
    BY <1>2, <2>1, <2>2, Parts, FollowingNotified
<1>15. Endpoint'
  BY <1>2, Parts, EndpointStays
<1>16. Types'
  BY <1>2, <1>9, <1>10, <1>12, <1>14, Parts DEF Types, ctl
<1> QED
  BY <1>11, <1>13, <1>14, <1>15, <1>16, Whole

\* A stop begins, as a controller's, a controller's of another version, or a signal's.
LEMMA StopTakeStep == ASSUME LInv, NEW x \in Actors, StopTake(x) PROVE LInv'
<1>1. PICK d \in Daemons : op[x].on = d
  <2>1. op[x].at \in {"in", "spare"}
    BY DEF StopTake
  <2>2. op[x].on # None
    BY <2>1, Parts DEF OfUp, Attached
  <2> QED
    BY <2>2, Parts DEF Types, Commands
<1>2. PICK s \in Sessions \cup {None} : s = sess[d].running
  BY Parts DEF Types, Fields
<1>3. /\ UNCHANGED <<proc, ctl, closing, crashes, overlap, raced>>
      /\ op[x].at \in {"in", "spare"}
      /\ op' = [op EXCEPT ![x].at = "stop", ![x].took = s]
      /\ IF s # None /\ task[s].at # "done"
           THEN task' = [task EXCEPT ![s].at = IF task[s].kind = "client" THEN "aborting" ELSE "stopping"]
           ELSE task' = task
      /\ IF s # None /\ task[s].kind = "client"
           THEN /\ sess' = [sess EXCEPT ![d].running = None, ![d].desk = None, ![d].status = "stopped"]
                /\ view' = Notified(d)
           ELSE /\ sess' = [sess EXCEPT ![d].running = None, ![d].desk = None]
                /\ view' = view
  BY <1>1, <1>2 DEF StopTake, hist
<1>4. /\ op[x] \in Commands /\ op \in [Actors -> Commands] /\ task \in [Sessions -> Tasks]
      /\ sess \in [Daemons -> Fields] /\ sess[d] \in Fields
  BY Parts DEF Types
<1> DEFINE o == [op[x] EXCEPT !.at = "stop", !.took = s]
<1>5. op' = [op EXCEPT ![x] = o]
  BY <1>3, <1>4
<1>6. o \in Commands
  BY <1>4, Zenon DEF Commands
<1>7. o.at = "stop" /\ o.on = d
  BY <1>1, <1>4 DEF Commands
<1> HIDE DEF o
<1>8. /\ op' \in [Actors -> Commands] /\ op'[x] = o
      /\ \A y \in Actors : y # x => op'[y] = op[y]
  BY <1>4, <1>5, <1>6
<1>9. s # None => s \in Sessions /\ task[s].of = d /\ task[s].at # "free" /\ task[s] \in Tasks
  BY <1>2, <1>4, Parts, Constants DEF Own, OfUp
<1>10. task' \in [Sessions -> Tasks] /\ FreeOnes' = FreeOnes
  <2>1. CASE task' = task
    BY <1>4, <2>1 DEF FreeOnes
  <2>2. CASE task' # task
    <3> DEFINE a == IF task[s].kind = "client" THEN "aborting" ELSE "stopping"
               t == [task[s] EXCEPT !.at = a]
    <3>1. s \in Sessions /\ task[s] \in Tasks /\ task[s].at # "free"
      BY <1>3, <1>9, <2>2
    <3>2. task' = [task EXCEPT ![s] = t]
      BY <1>3, <1>4, <2>2, <3>1
    <3>3. a \in {"aborting", "stopping"}
      OBVIOUS
    <3> HIDE DEF a
    <3>4. t \in Tasks /\ t.at # "free"
      BY <3>1, <3>3 DEF Tasks
    <3> HIDE DEF t
    <3> QED
      BY <1>4, <3>1, <3>2, <3>4 DEF FreeOnes
  <2> QED
    BY <2>1, <2>2
<1>11. /\ sess' \in [Daemons -> Fields]
       /\ \A k \in Daemons : k # d => sess'[k] = sess[k]
       /\ view' = Notified(d) \/ (view' = view /\ sess'[d].status = sess[d].status)
  <2>1. CASE s # None /\ task[s].kind = "client"
    <3> DEFINE f == [sess[d] EXCEPT !.running = None, !.desk = None, !.status = "stopped"]
    <3>1. sess' = [sess EXCEPT ![d] = f] /\ view' = Notified(d)
      BY <1>3, <1>4, <2>1
    <3>2. f \in Fields
      BY <1>4 DEF Fields
    <3> HIDE DEF f
    <3> QED
      BY <1>4, <3>1, <3>2
  <2>2. CASE ~ (s # None /\ task[s].kind = "client")
    <3> DEFINE f == [sess[d] EXCEPT !.running = None, !.desk = None]
    <3>1. sess' = [sess EXCEPT ![d] = f] /\ view' = view
      BY <1>3, <1>4, <2>2
    <3>2. f \in Fields /\ f.status = sess[d].status
      BY <1>4 DEF Fields
    <3> HIDE DEF f
    <3> QED
      BY <1>4, <3>1, <3>2
  <2> QED
    BY <2>1, <2>2
<1>12. OfUp' /\ Own' /\ Orderly'
  BY Parts, StopTakeMoves
<1>13. Room'
  <2>1. Starters' \subseteq Starters
    BY <1>7, <1>8 DEF Starters
  <2> QED
    BY <1>10, <2>1, Parts, RoomStays
<1>14. Following' /\ view' \in [Controllers -> Views]
  <2>1. Steady
    BY <1>1, <1>7, <1>8, Parts DEF Steady, Attached
  <2>2. CASE view' = Notified(d)
    <3>1. \A k \in Daemons : k # d => sess'[k].status = sess[k].status
      BY <1>11
    <3> QED
      BY <2>1, <2>2, <3>1, Parts, FollowingNotified
  <2>3. CASE view' = view /\ sess'[d].status = sess[d].status
    <3>1. \A k \in Daemons : sess'[k].status = sess[k].status
      BY <1>11, <2>3
    <3>2. view' \in [Controllers -> Views]
      BY <2>3, Parts DEF Types
    <3> QED
      BY <2>1, <2>3, <3>1, <3>2, Parts, FollowingStays
  <2> QED
    BY <1>11, <2>2, <2>3
<1>15. Endpoint'
  BY <1>3, Parts, EndpointStays
<1>16. Types'
  BY <1>3, <1>8, <1>10, <1>11, <1>14, Parts DEF Types, ctl
<1> QED
  BY <1>12, <1>13, <1>14, <1>15, <1>16, Whole

LEMMA EndedIs ==
  ASSUME NEW t \in Tasks
  PROVE  /\ Ended(t) \in Tasks /\ Ended(t).at = "done" /\ Ended(t).of = t.of /\ Ended(t).kind = t.kind
         /\ Ended(t).desk = IF t.desk = "sent" THEN "sent" ELSE "none"
  BY DEF Ended, Tasks

LEMMA StopDoneStep == ASSUME LInv, NEW x \in Actors, StopDone(x) PROVE LInv'
<1>1. PICK d \in Daemons : op[x].on = d
  <2>1. op[x].at = "stop"
    BY DEF StopDone
  <2>2. op[x].on # None
    BY <2>1, Parts DEF OfUp, Attached
  <2> QED
    BY <2>2, Parts DEF Types, Commands
<1>2. /\ op[x] \in Commands /\ op \in [Actors -> Commands] /\ task \in [Sessions -> Tasks]
      /\ sess \in [Daemons -> Fields] /\ sess[d] \in Fields
  BY Parts DEF Types
<1>3. PICK s \in Sessions \cup {None} : s = op[x].took
  BY <1>2 DEF Commands
<1>4. /\ UNCHANGED <<proc, ctl, crashes, overlap, raced>>
      /\ op[x].at = "stop"
      /\ task' = IF s # None /\ task[s].kind = "server" THEN [task EXCEPT ![s] = Ended(@)] ELSE task
      /\ \/ sess' = [sess EXCEPT ![d].status = "stopped"] /\ view' = Notified(d)
         \/ sess' = sess /\ view' = view
      /\ closing' = [closing EXCEPT ![d] = TRUE]
      /\ op' = [op EXCEPT ![x] = IF x = d THEN Out
                                 ELSE [@ EXCEPT !.at = "in", !.took = None, !.made = FALSE]]
  BY <1>1, <1>3 DEF StopDone, hist
<1>5. /\ op' \in [Actors -> Commands] /\ op'[x].at # "start"
      /\ \A y \in Actors : y # x => op'[y] = op[y]
      /\ x # d => Attached(op'[x]) /\ op'[x].on = d
  <2>1. CASE x = d
    <3>1. op' = [op EXCEPT ![x] = Out]
      BY <1>2, <1>4, <2>1
    <3> QED
      BY <1>2, <2>1, <3>1, Records
  <2>2. CASE x # d
    <3> DEFINE o == [op[x] EXCEPT !.at = "in", !.took = None, !.made = FALSE]
    <3>1. op' = [op EXCEPT ![x] = o]
      BY <1>2, <1>4, <2>2
    <3>2. o \in Commands
      BY <1>2, Zenon DEF Commands
    <3>3. o.at = "in" /\ o.on = d
      BY <1>1, <1>2 DEF Commands
    <3> HIDE DEF o
    <3> QED
      BY <1>2, <3>1, <3>2, <3>3 DEF Attached
  <2> QED
    BY <2>1, <2>2
<1>6. task' \in [Sessions -> Tasks] /\ FreeOnes' = FreeOnes
  <2>1. CASE task' = task
    BY <1>2, <2>1 DEF FreeOnes
  <2>2. CASE task' # task
    <3>1. s \in Sessions /\ task[s] \in Tasks
      BY <1>2, <1>4, <2>2
    <3>2. task' = [task EXCEPT ![s] = Ended(task[s])]
      BY <1>2, <1>4, <2>2, <3>1
    <3>3. Ended(task[s]) \in Tasks /\ Ended(task[s]).at # "free"
      BY <3>1, EndedIs
    <3>4. task[s].at # "free"
      <4>1. task[s].of # None
        BY <1>1, <1>3, <1>4, <3>1, Parts, Constants DEF Own
      <4> QED
        BY <3>1, <4>1, Parts DEF OfUp
    <3> QED
      BY <1>2, <3>1, <3>2, <3>3, <3>4 DEF FreeOnes
  <2> QED
    BY <2>1, <2>2
<1>7. /\ sess' \in [Daemons -> Fields]
      /\ \A k \in Daemons : k # d => sess'[k] = sess[k]
  <2>1. CASE sess' = [sess EXCEPT ![d].status = "stopped"]
    <3> DEFINE f == [sess[d] EXCEPT !.status = "stopped"]
    <3>1. sess' = [sess EXCEPT ![d] = f]
      BY <1>2, <2>1
    <3>2. f \in Fields
      BY <1>2 DEF Fields
    <3> HIDE DEF f
    <3> QED
      BY <1>2, <3>1, <3>2
  <2> QED
    BY <1>2, <1>4, <2>1
<1>8. closing' \in [Daemons -> BOOLEAN]
  BY <1>4, Parts DEF Types
<1>9. OfUp' /\ Own' /\ Orderly'
  BY Parts, StopDoneMoves
<1>10. Room'
  <2>1. Starters' \subseteq Starters
    BY <1>5 DEF Starters
  <2> QED
    BY <1>6, <2>1, Parts, RoomStays
<1>11. Following' /\ view' \in [Controllers -> Views]
  <2>1. Steady
    <3>1. ASSUME NEW c \in Controllers, view[c].sub # "no" PROVE Attached(op'[c]) /\ op'[c].on = op[c].on
      <4>1. c \in Actors /\ c # d
        BY Constants
      <4> QED
        BY <1>1, <1>5, <3>1, <4>1, Parts DEF Attached
    <3> QED
      BY <3>1 DEF Steady
  <2>2. CASE view' = Notified(d)
    <3>1. \A k \in Daemons : k # d => sess'[k].status = sess[k].status
      BY <1>7
    <3> QED
      BY <2>1, <2>2, <3>1, Parts, FollowingNotified
  <2>3. CASE sess' = sess /\ view' = view
    <3>1. view' \in [Controllers -> Views]
      BY <2>3, Parts DEF Types
    <3> QED
      BY <2>1, <2>3, <3>1, Parts, FollowingStays
  <2> QED
    BY <1>4, <2>2, <2>3
<1>12. Endpoint'
  BY <1>4, Parts, EndpointStays
<1>13. Types'
  BY <1>4, <1>5, <1>6, <1>7, <1>8, <1>11, Parts DEF Types, ctl
<1> QED
  BY <1>9, <1>10, <1>11, <1>12, <1>13, Whole

\* A session's task moves on, reports a status, or hands its desk over.
LEMMA OneTaskStep ==
  ASSUME LInv, NEW s \in Sessions, NEW d \in Daemons, task[s].of = d,
         NEW t \in Tasks, task' = [task EXCEPT ![s] = t],
         t.of = d, t.kind = task[s].kind, t.at # "free", Alive(t) => Alive(task[s]),
         t.kind = "client" => t.desk = "none" /\ (task[s].at \in {"aborting", "done"} => t.at \in {"aborting", "done"}),
         t.at = "aborting" => t.kind = "client",
         t.desk = "sent" => Alive(t),
         NEW f \in Fields, sess' = [sess EXCEPT ![d] = f], f.running = sess[d].running,
         f.desk = sess[d].desk \/ (f.desk = s /\ task[s].desk = "sent"),
         view' = Notified(d) \/ (view' = view /\ f.status = sess[d].status),
         UNCHANGED <<proc, ctl, closing, op, hist>>
  PROVE  LInv'
<1>1. UNCHANGED <<overlap, crashes, raced>> /\ task[s].of # None
  BY Constants DEF hist
<1>2. sess'[d] = f /\ sess' \in [Daemons -> Fields] /\ \A k \in Daemons : k # d => sess'[k] = sess[k]
  BY Parts DEF Types
<1>3. task' \in [Sessions -> Tasks] /\ FreeOnes' = FreeOnes
  <2>1. task[s].at # "free"
    BY <1>1, Parts DEF OfUp
  <2> QED
    BY <2>1, Parts DEF Types, FreeOnes
<1>4. OfUp' /\ Own' /\ Orderly'
  <2>1. \A k \in Daemons : sess'[k].running = sess[k].running
    BY <1>2
  <2>2. \A k \in Daemons : k # t.of => sess'[k] = sess[k]
    BY <1>2
  <2>3. \A k \in Daemons : \/ sess'[k].desk = sess[k].desk
                           \/ k = t.of /\ sess'[k].desk = s /\ task[s].desk = "sent"
    BY <1>2
  <2>4. UNCHANGED <<proc, op, closing, overlap>> /\ t.of = task[s].of
    BY <1>1
  <2>5. t.desk = "sent" => Alive(t) \/ closing[t.of] \/ overlap[t.of]
    OBVIOUS
  <2> QED
    BY <1>1, <2>1, <2>2, <2>3, <2>4, <2>5, Parts, TaskMoves, ZenonT(60)
<1>5. Room'
  <2>1. Starters' = Starters
    BY DEF Starters
  <2> QED
    BY <1>3, <2>1, Parts, RoomStays
<1>6. Following' /\ view' \in [Controllers -> Views]
  <2>1. Steady
    BY Parts DEF Steady
  <2>2. CASE view' = Notified(d)
    <3>1. \A k \in Daemons : k # d => sess'[k].status = sess[k].status
      BY <1>2
    <3> QED
      BY <2>1, <2>2, <3>1, Parts, FollowingNotified
  <2>3. CASE view' = view /\ f.status = sess[d].status
    <3>1. \A k \in Daemons : sess'[k].status = sess[k].status
      BY <1>2, <2>3
    <3>2. view' \in [Controllers -> Views]
      BY <2>3, Parts DEF Types
    <3> QED
      BY <2>1, <2>3, <3>1, <3>2, Parts, FollowingStays
  <2> QED
    BY <2>2, <2>3
<1>7. Endpoint'
  BY <1>1, Parts, EndpointStays
<1>8. Types'
  BY <1>1, <1>2, <1>3, <1>6, Parts DEF Types, ctl
<1> QED
  BY <1>4, <1>5, <1>6, <1>7, <1>8, Whole

\* The daemon of a session that is not over, and the session's fields with another status.
LEMMA TaskHas ==
  ASSUME LInv, NEW s \in Sessions, task[s].at \notin {"free", "done"} \/ task[s].desk # "none"
  PROVE  /\ task[s].of \in Daemons /\ task[s] \in Tasks /\ task \in [Sessions -> Tasks]
         /\ sess[task[s].of] \in Fields /\ sess \in [Daemons -> Fields]
         /\ task[s].kind = "client" => task[s].desk = "none"
         /\ task[s].at = "aborting" => task[s].kind = "client"
         /\ task[s].at # "free"
<1>1. task[s].of # None
  BY Parts DEF OfUp
<1>2. task[s] \in Tasks /\ task \in [Sessions -> Tasks] /\ sess \in [Daemons -> Fields]
  BY Parts DEF Types
<1>3. task[s].of \in Daemons
  BY <1>1, <1>2 DEF Tasks
<1> QED
  BY <1>1, <1>2, <1>3, Parts DEF Own, OfUp

LEMMA StatusIs ==
  ASSUME NEW d \in Daemons, sess \in [Daemons -> Fields], NEW st \in {"stopped", "up", "failed"},
         sess' = [sess EXCEPT ![d].status = st]
  PROVE  \E f \in Fields : /\ sess' = [sess EXCEPT ![d] = f]
                           /\ f.running = sess[d].running /\ f.desk = sess[d].desk
<1> DEFINE f == [sess[d] EXCEPT !.status = st]
<1>1. f \in Fields /\ f.running = sess[d].running /\ f.desk = sess[d].desk
  BY DEF Fields
<1>2. sess' = [sess EXCEPT ![d] = f]
  OBVIOUS
<1> HIDE DEF f
<1> QED
  BY <1>1, <1>2

\* A task ends, and may report a status.
LEMMA EndStep ==
  ASSUME LInv, NEW s \in Sessions, task[s].at \notin {"free", "done"}, task[s].desk # "sent",
         task' = [task EXCEPT ![s] = Ended(@)],
         \/ /\ \E st \in {"stopped", "up", "failed"} : sess' = [sess EXCEPT ![task[s].of].status = st]
            /\ view' = Notified(task[s].of)
         \/ sess' = sess /\ view' = view,
         UNCHANGED <<proc, ctl, closing, op, hist>>
  PROVE  LInv'
<1>1. PICK d \in Daemons : d = task[s].of
  BY TaskHas
<1>2. /\ task[s] \in Tasks /\ task \in [Sessions -> Tasks] /\ sess[d] \in Fields
      /\ sess \in [Daemons -> Fields]
  BY <1>1, TaskHas
<1>3. PICK t \in Tasks : t = Ended(task[s])
  BY <1>2, EndedIs
<1>4. /\ task' = [task EXCEPT ![s] = t] /\ t.of = d /\ t.kind = task[s].kind /\ t.at = "done"
      /\ t.desk = "none"
  BY <1>1, <1>2, <1>3, EndedIs
<1>5. PICK f \in Fields : /\ sess' = [sess EXCEPT ![d] = f]
                          /\ f.running = sess[d].running /\ f.desk = sess[d].desk
                          /\ view' = Notified(d) \/ (view' = view /\ f.status = sess[d].status)
  <2>1. CASE sess' = sess /\ view' = view
    BY <1>2, <2>1
  <2>2. CASE /\ \E st \in {"stopped", "up", "failed"} : sess' = [sess EXCEPT ![d].status = st]
             /\ view' = Notified(d)
    BY <1>2, <2>2, StatusIs
  <2> QED
    BY <1>1, <2>1, <2>2
<1>6. ~ Alive(t)
  BY <1>4 DEF Alive
<1> QED
  BY <1>1, <1>4, <1>5, <1>6, OneTaskStep, ZenonT(60)

LEMMA ServerReadyStep == ASSUME LInv, NEW s \in Sessions, ServerReady(s) PROVE LInv'
<1>1. /\ task[s].kind = "server" /\ task[s].desk = "none" /\ task[s].at \in {"starting", "stopping"}
      /\ UNCHANGED <<proc, ctl, closing, op, hist>>
  BY DEF ServerReady
<1>2. PICK d \in Daemons : d = task[s].of
  BY <1>1, TaskHas
<1>3. task[s] \in Tasks /\ task \in [Sessions -> Tasks] /\ sess[d] \in Fields /\ sess \in [Daemons -> Fields]
  BY <1>1, <1>2, TaskHas
<1>4. CASE /\ task' = [task EXCEPT ![s] = Ended(@)] /\ sess' = [sess EXCEPT ![task[s].of].status = "failed"]
           /\ view' = Notified(task[s].of)
  BY <1>1, <1>4, EndStep
<1>5. CASE /\ task' = [task EXCEPT ![s].at = IF @ = "starting" THEN "live" ELSE @, ![s].desk = "sent"]
           /\ UNCHANGED <<sess, view>>
  <2> DEFINE a == IF task[s].at = "starting" THEN "live" ELSE task[s].at
             t == [task[s] EXCEPT !.at = a, !.desk = "sent"]
  <2>1. task' = [task EXCEPT ![s] = t]
    BY <1>3, <1>5
  <2>2. a \in {"live", "stopping"}
    BY <1>1
  <2> HIDE DEF a
  <2>3. t \in Tasks /\ t.at = a /\ t.desk = "sent" /\ t.of = d /\ t.kind = "server"
    BY <1>1, <1>2, <1>3, <2>2 DEF Tasks
  <2> HIDE DEF t
  <2>4. Alive(t) /\ Alive(task[s]) /\ t.at # "free" /\ t.at # "aborting" /\ t.kind # "client"
        /\ t.kind = task[s].kind /\ task[s].of = d
    BY <1>1, <1>2, <2>2, <2>3 DEF Alive
  <2>5. sess' = [sess EXCEPT ![d] = sess[d]] /\ view' = view
    BY <1>3, <1>5
  <2> QED
    BY <1>1, <1>3, <2>1, <2>3, <2>4, <2>5, OneTaskStep, ZenonT(60)
<1> QED
  BY <1>4, <1>5 DEF ServerReady

LEMMA DeskSetStep == ASSUME LInv, NEW s \in Sessions, DeskSet(s) PROVE LInv'
<1>1. /\ task[s].desk = "sent" /\ UNCHANGED <<proc, ctl, closing, op, view, hist>>
      /\ task' = [task EXCEPT ![s].desk = IF task[s].at = "done" THEN "none" ELSE "set"]
      /\ sess' = [sess EXCEPT ![task[s].of].desk = s]
  BY DEF DeskSet
<1>2. PICK d \in Daemons : d = task[s].of
  BY <1>1, TaskHas
<1>3. /\ task[s] \in Tasks /\ task \in [Sessions -> Tasks] /\ sess[d] \in Fields
      /\ sess \in [Daemons -> Fields] /\ task[s].kind # "client" /\ task[s].at # "free"
      /\ task[s].at # "aborting"
  BY <1>1, <1>2, TaskHas
<1> DEFINE k == IF task[s].at = "done" THEN "none" ELSE "set"
           t == [task[s] EXCEPT !.desk = k]
           f == [sess[d] EXCEPT !.desk = s]
<1>4. task' = [task EXCEPT ![s] = t] /\ sess' = [sess EXCEPT ![d] = f]
  BY <1>1, <1>2, <1>3
<1>5. k \in {"none", "set"}
  OBVIOUS
<1> HIDE DEF k
<1>6. t \in Tasks /\ t.desk = k /\ t.of = d /\ t.kind = task[s].kind /\ t.at = task[s].at
  BY <1>2, <1>3, <1>5 DEF Tasks
<1>7. f \in Fields /\ f.desk = s /\ f.running = sess[d].running /\ f.status = sess[d].status
  BY <1>3 DEF Fields
<1> HIDE DEF t, f
<1>8. /\ Alive(t) => Alive(task[s])
      /\ t.desk # "sent" /\ t.kind # "client" /\ t.at # "free" /\ t.at # "aborting" /\ task[s].of = d
  BY <1>1, <1>2, <1>3, <1>5, <1>6 DEF Alive
<1>9. /\ f.desk = sess[d].desk \/ (f.desk = s /\ task[s].desk = "sent")
      /\ view' = Notified(d) \/ (view' = view /\ f.status = sess[d].status)
      /\ UNCHANGED <<proc, ctl, closing, op, hist>>
  BY <1>1, <1>7
<1> QED
  BY <1>4, <1>6, <1>7, <1>8, <1>9, OneTaskStep, ZenonT(60)

LEMMA TaskEndsStep ==
  ASSUME LInv, NEW s \in Sessions, NEW clean \in BOOLEAN, TaskEnds(s, clean) PROVE LInv'
<1>1. /\ task[s].at = "live" /\ UNCHANGED <<proc, ctl, closing, op, hist>>
      /\ task[s].kind = "server" => task[s].desk = "set"
      /\ task' = [task EXCEPT ![s] = Ended(@)] /\ view' = Notified(task[s].of)
      /\ sess' = [sess EXCEPT ![task[s].of].status = IF clean THEN "stopped" ELSE "failed"]
  BY DEF TaskEnds
<1>2. task[s].desk # "sent"
  <2>1. task[s].kind \in Kinds
    BY Parts DEF Types, Tasks
  <2> QED
    BY <1>1, <2>1, TaskHas DEF Kinds
<1>3. \E st \in {"stopped", "up", "failed"} : sess' = [sess EXCEPT ![task[s].of].status = st]
  BY <1>1
<1> QED
  BY <1>1, <1>2, <1>3, EndStep

LEMMA AbortedStep ==
  ASSUME LInv, NEW s \in Sessions, NEW late \in BOOLEAN, Aborted(s, late) PROVE LInv'
<1>1. /\ task[s].at = "aborting" /\ UNCHANGED <<proc, ctl, closing, op, hist>>
      /\ task' = [task EXCEPT ![s] = Ended(@)]
      /\ \/ sess' = [sess EXCEPT ![task[s].of].status = "up"] /\ view' = Notified(task[s].of)
         \/ sess' = sess /\ view' = view
  BY DEF Aborted
<1>2. task[s].desk # "sent"
  BY <1>1, TaskHas
<1> QED
  BY <1>1, <1>2, EndStep

\* A daemon is gone: it leaves its endpoint, and nobody is attached to it.
LEMMA GoneStep == ASSUME LInv, NEW d \in Daemons, Exit(d) \/ Crash(d) PROVE LInv'
<1>1. /\ Gone(d) /\ UNCHANGED <<sock, token, raced>> /\ proc[d] = "up"
      /\ \/ listener' = listener /\ listener[d] = "closed"
         \/ listener' = [listener EXCEPT ![d] = "closed"]
      /\ crashes' = crashes \/ (crashes' = crashes + 1 /\ crashes < MaxCrashes)
  BY DEF Exit, Crash, ctl
<1>2. /\ proc' = [proc EXCEPT ![d] = "gone"]
      /\ task' = [s \in Sessions |-> IF task[s].of = d THEN Spent ELSE task[s]]
      /\ op' = [x \in Actors |-> IF op[x].on = d THEN Out ELSE op[x]]
      /\ view' = [c \in Controllers |-> IF op[c].on = d THEN NoView ELSE view[c]]
      /\ sess' = [sess EXCEPT ![d] = NoSession]
      /\ closing' = [closing EXCEPT ![d] = FALSE]
      /\ overlap' = [overlap EXCEPT ![d] = FALSE]
  BY <1>1 DEF Gone
<1>3. listener'[d] = "closed" /\ \A k \in Daemons : k # d => listener'[k] = listener[k]
  BY <1>1, Parts DEF Types
<1>4. proc'[d] = "gone" /\ \A k \in Daemons : k # d => proc'[k] = proc[k]
  BY <1>2, Parts DEF Types
<1>5. Types'
  <2>1. task' \in [Sessions -> Tasks]
    BY <1>2, Records, Parts DEF Types
  <2>2. op' \in [Actors -> Commands]
    BY <1>2, Records, Parts DEF Types
  <2>3. view' \in [Controllers -> Views]
    BY <1>2, Records, Parts DEF Types
  <2>4. sess' \in [Daemons -> Fields]
    BY <1>2, Records, Parts DEF Types
  <2>5. listener' \in [Daemons -> {"none", "open", "dropping", "closed"}]
    BY <1>1, Parts DEF Types
  <2>6. crashes' \in 0..MaxCrashes
    BY <1>1, Parts, Constants DEF Types
  <2>7. closing' \in [Daemons -> BOOLEAN] /\ overlap' \in [Daemons -> BOOLEAN]
    BY <1>2, Parts DEF Types
  <2> QED
    BY <1>1, <1>2, <2>1, <2>2, <2>3, <2>4, <2>5, <2>6, <2>7, Parts DEF Types
<1>6. Endpoint'
  <2>1. \A k \in Daemons : listener'[k] \in {"open", "dropping"} => proc'[k] \in {"bound", "up"}
    BY <1>3, <1>4, Parts DEF Endpoint
  <2>2. \A k \in Daemons : proc'[k] = "bound" => listener'[k] = "open"
    BY <1>3, <1>4, Parts DEF Endpoint
  <2>3. ~ raced' => \A k \in Daemons : listener'[k] \in {"open", "dropping"} => sock' = k
    BY <1>1, <1>3, Parts DEF Endpoint
  <2>4. ~ raced' => \A k \in Daemons : proc'[k] = "up" /\ listener'[k] = "open" => token' = k
    BY <1>1, <1>3, <1>4, Parts DEF Endpoint
  <2> QED
    BY <2>1, <2>2, <2>3, <2>4 DEF Endpoint
<1>7. OfUp' /\ Own' /\ Orderly'
  BY <1>1, Parts, GoneMoves
<1>8. Room'
  <2>1. FreeOnes \subseteq FreeOnes'
    <3>1. \A s \in Sessions : task[s].at = "free" => task[s].of # d
      BY Parts, Constants DEF OfUp
    <3> QED
      BY <1>2, <3>1 DEF FreeOnes
  <2>2. Starters' \subseteq Starters
    BY <1>2, Records DEF Starters
  <2> QED
    BY <2>1, <2>2, Parts, RoomStays
<1>9. Following'
  <2>1. ASSUME NEW c \in Controllers, view'[c].sub # "no"
        PROVE  /\ Attached(op'[c])
               /\ view'[c].sub = "yes" => view'[c].news # "none" \/ view'[c].shows = sess'[op'[c].on].status
    <3>1. op[c].on # d /\ view'[c] = view[c] /\ op'[c] = op[c]
      BY <1>2, <2>1, Records, Parts
    <3>2. op[c].on \in Daemons
      BY <2>1, <3>1, Parts
    <3>3. sess'[op[c].on] = sess[op[c].on]
      BY <1>2, <3>1, <3>2, Parts DEF Types
    <3> QED
      BY <2>1, <3>1, <3>3, Parts DEF Following
  <2> QED
    BY <2>1 DEF Following, Attached
<1> QED
  BY <1>5, <1>6, <1>7, <1>8, <1>9, Whole

----------------------------------------------------------------------------
(* The inductive invariant.                                                *)

LEMMA InitLInv == Init => LInv
<1> SUFFICES ASSUME Init PROVE LInv
  OBVIOUS
<1>1. PICK cast \in Casts :
        /\ proc = [d \in Daemons |-> IF d \in cast.daemons THEN "none" ELSE "gone"]
        /\ task = [s \in Sessions |-> IF s \in cast.sessions THEN Unused ELSE Spent]
        /\ op = [x \in Actors |-> [Out EXCEPT !.at =
                   IF x \in Controllers \ cast.controllers THEN "away" ELSE "out"]]
  BY DEF Init
<1>2. /\ sock = None /\ token = None
      /\ listener = [d \in Daemons |-> "none"] /\ closing = [d \in Daemons |-> FALSE]
      /\ sess = [d \in Daemons |-> NoSession] /\ view = [c \in Controllers |-> NoView]
      /\ crashes = 0 /\ overlap = [d \in Daemons |-> FALSE] /\ raced = FALSE
  BY DEF Init
<1>3. ASSUME NEW x \in Actors
      PROVE  op[x] \in Commands /\ op[x].at \in {"away", "out"} /\ op[x].on = None
  <2> DEFINE a == IF x \in Controllers \ cast.controllers THEN "away" ELSE "out"
  <2>1. op[x] = [Out EXCEPT !.at = a]
    BY <1>1
  <2>2. a \in {"away", "out"}
    OBVIOUS
  <2> HIDE DEF a
  <2>3. [Out EXCEPT !.at = a] \in Commands
    BY <2>2 DEF Out, Commands
  <2>4. [Out EXCEPT !.at = a].at = a /\ [Out EXCEPT !.at = a].on = None
    BY DEF Out
  <2> QED
    BY <2>1, <2>2, <2>3, <2>4
<1>4. ASSUME NEW s \in Sessions
      PROVE  task[s] \in Tasks /\ task[s].at \in {"free", "done"} /\ task[s].of = None /\ task[s].desk = "none"
  BY <1>1, Records
<1>5. Types
  <2>1. op \in [Actors -> Commands]
    BY <1>1, <1>3
  <2>2. task \in [Sessions -> Tasks]
    BY <1>1, <1>4
  <2>3. crashes \in 0..MaxCrashes
    BY <1>2, Constants
  <2>4. view \in [Controllers -> Views] /\ sess \in [Daemons -> Fields]
    BY <1>2, Records
  <2>5. proc \in [Daemons -> {"none", "launched", "looked", "bound", "up", "gone"}]
    BY <1>1
  <2> QED
    BY <1>2, <2>1, <2>2, <2>3, <2>4, <2>5 DEF Types
<1>6. TypeOK
  BY <1>5, TypesAre
<1>7. Endpoint
  BY <1>1, <1>2 DEF Endpoint
<1>8. OfUp
  <2>1. \A s \in Sessions : task[s].of = None /\ task[s].at \in {"free", "done"} /\ task[s].desk = "none"
    BY <1>4
  <2>2. \A x \in Actors : op[x].on = None /\ ~ Attached(op[x])
    BY <1>3 DEF Attached
  <2>3. \A d \in Daemons : sess[d] = NoSession /\ ~ closing[d] /\ d \in Actors
    BY <1>2, Constants
  <2> QED
    BY <2>1, <2>2, <2>3 DEF OfUp
<1>9. Own
  <2>1. \A d \in Daemons : sess[d].running = None
    BY <1>2, Records
  <2> QED
    BY <1>3, <1>4, <2>1 DEF Own
<1>10. Room
  <2>1. Starters = {}
    BY <1>3 DEF Starters
  <2> QED
    BY <2>1, Slots, FS_EmptySet DEF Room
<1>11. Orderly
  <2>1. ASSUME NEW d \in Daemons PROVE Accounted(d) /\ Alone(d) /\ Desks(d)
    <3>1. \A s \in Sessions : task[s].of # d
      BY <1>4, Constants
    <3>2. sess[d].running = None /\ sess[d].desk = None
      BY <1>2, Records
    <3> QED
      BY <3>1, <3>2 DEF Accounted, Alone, Desks
  <2> QED
    BY <2>1 DEF Orderly
<1>12. Following
  BY <1>2, Records DEF Following
<1> QED
  BY <1>6, <1>7, <1>8, <1>9, <1>10, <1>11, <1>12 DEF LInv

LEMMA StutterLInv == ASSUME LInv, UNCHANGED vars PROVE LInv'
<1>1. UNCHANGED <<proc, sock, token, listener, closing, sess, task, op, view, crashes, overlap, raced>>
  BY DEF vars, ctl, hist
<1>2. Types'
  BY <1>1, Parts DEF Types
<1>3. OfUp' /\ Own' /\ Orderly' /\ Room' /\ Steady
  BY <1>1, NothingMoves
<1>4. Endpoint'
  BY <1>1, Parts DEF Endpoint
<1>5. Following'
  BY <1>1, <1>3, Parts, FollowingStays
<1> QED
  BY <1>2, <1>3, <1>4, <1>5, Whole

LEMMA StepLInv == LInv /\ [Next]_vars => LInv'
<1> SUFFICES ASSUME LInv, [Next]_vars PROVE LInv'
  OBVIOUS
<1>1. ASSUME NEW d \in Daemons, DaemonStep(d) \/ BindLook(d) \/ Terminate(d) \/ Crash(d) PROVE LInv'
  <2>1. d \in Actors
    BY Constants
  <2>2. CASE BindTake(d) \/ BindToken(d) \/ BindFails(d) \/ BindLook(d)
    BY <2>2, BindTakeStep, BindTokenStep, BindFailsStep, BindLookStep
  <2>3. CASE Tick(d) \/ SeeClosing(d) \/ StopDone(d)
    BY <2>1, <2>3, TickStep, SeeClosingStep, StopDoneStep
  <2>4. CASE DropToken(d) \/ DropListener(d)
    BY <2>4, DropTokenStep, DropListenerStep
  <2>5. CASE Exit(d) \/ Crash(d)
    BY <2>5, GoneStep
  <2>6. CASE Terminate(d)
    BY <2>1, <2>6, StopTakeStep DEF Terminate
  <2> QED
    BY <1>1, <2>2, <2>3, <2>4, <2>5, <2>6 DEF DaemonStep
<1>2. ASSUME NEW s \in Sessions, TaskStep(s) \/ Aborted(s, TRUE) PROVE LInv'
  BY <1>2, ServerReadyStep, DeskSetStep, AbortedStep DEF TaskStep
<1>3. ASSUME NEW s \in Sessions, NEW clean \in BOOLEAN, TaskEnds(s, clean) PROVE LInv'
  BY <1>3, TaskEndsStep
<1>4. ASSUME NEW c \in Controllers, HandlerStep(c) PROVE LInv'
  <2>1. c \in Actors
    BY Constants
  <2>2. CASE StartCommit(c) \/ StopDone(c)
    BY <2>1, <2>2, StartCommitStep, StopDoneStep
  <2>3. CASE Subscribe(c) \/ ShowNow(c) \/ Mirror(c)
    BY <2>3, ViewStep
  <2> QED
    BY <1>4, <2>2, <2>3 DEF HandlerStep
<1>5. ASSUME NEW c \in Controllers, Stop(c) \/ Shutdown(c) \/ Detach(c) \/ Lag(c) PROVE LInv'
  <2>1. c \in Actors
    BY Constants
  <2>2. CASE Stop(c) \/ Shutdown(c)
    BY <2>1, <2>2, StopTakeStep DEF Stop, Shutdown
  <2>3. CASE Detach(c)
    BY <2>3, DetachStep
  <2>4. CASE Lag(c)
    BY <2>4, ViewStep
  <2> QED
    BY <1>5, <2>2, <2>3, <2>4
<1>6. ASSUME NEW c \in Controllers, Spawn(c) \/ ClientUnconfigured(c) \/ ServerUnconfigured(c) PROVE LInv'
  BY <1>6, SpawnStep, UnconfiguredStep
<1>7. ASSUME NEW c \in Controllers, NEW d \in Daemons, Connect(c, d) PROVE LInv'
  BY <1>7, ConnectStep
<1>8. ASSUME NEW c \in Controllers, NEW kind \in Kinds, StartCheck(c, kind) PROVE LInv'
  BY <1>8, StartCheckStep
<1>9. CASE UNCHANGED vars
  BY <1>9, StutterLInv
<1> QED
  BY <1>1, <1>2, <1>3, <1>4, <1>5, <1>6, <1>7, <1>8, <1>9 DEF Next

LEMMA Invariance == Spec => []LInv
<1>1. Init => LInv
  BY InitLInv
<1>2. LInv /\ [Next]_vars => LInv'
  BY StepLInv
<1> QED
  BY <1>1, <1>2, PTL DEF Spec

----------------------------------------------------------------------------
(* What holds of every behaviour.                                          *)

\* Whatever is launched, started, stopped or killed, and in which order, no field of Session,
\* Service, Bound or the app's state takes a value the code has no name for.
THEOREM LifecycleTypes == Spec => []TypeOK
<1>1. LInv => TypeOK
  BY DEF LInv
<1> QED
  BY <1>1, Invariance, PTL

\* A daemon that listens and is up has the socket and its token in the token file, however many
\* daemons come and go: dropping Bound takes neither away from a successor.  Endpoint::bind
\* looks before it takes, so two that looked before either listened are the exception.
THEOREM LifecycleReachable == Spec => []Reachable
<1>1. LInv => Reachable
  BY DEF LInv, Endpoint, Reachable
<1> QED
  BY <1>1, Invariance, PTL

\* Every session that lives is the one its daemon runs, or is waited for by the stop that took it
\* out, however many controllers start and stop: Session::start and Session::stop lose none,
\* unless a start is committed during another command.
THEOREM LifecycleAccounted == Spec => []SessionAccounted
<1>1. ASSUME LInv PROVE SessionAccounted
  <2>1. ASSUME NEW d \in Daemons, NEW s \in Live(d)
        PROVE  \/ overlap[d]
               \/ sess[d].running = s /\ ~ closing[d]
               \/ \E x \in Actors : op[x].on = d /\ op[x].at = "stop" /\ op[x].took = s
    <3>1. s \in Sessions /\ task[s].of = d /\ Alive(task[s])
      BY <2>1 DEF Live, Of, Alive
    <3> QED
      BY <1>1, <3>1 DEF LInv, Orderly, Accounted, Stops
  <2> QED
    BY <2>1 DEF SessionAccounted
<1> QED
  BY <1>1, Invariance, PTL

\* The desk that approvals and layouts go to is that of the server that runs, or a stop is under
\* way, or the daemon closes (Session::desk, and the task that waits for the server's desk).
THEOREM LifecycleDesk == Spec => []DeskOfRunning
<1>1. LInv => DeskOfRunning
  BY DEF LInv, Orderly, Desks, Stops, DeskOfRunning
<1> QED
  BY <1>1, Invariance, PTL

\* An app that has its answer and no event on the way shows the status its daemon is in: link.rs
\* subscribes before it asks, so no change falls between the two, for any number of apps.
THEOREM LifecycleViews == Spec => []ViewCatchesUp
<1>1. ASSUME LInv PROVE ViewCatchesUp
  <2>1. ASSUME NEW c \in Apps, view[c].sub = "yes"
        PROVE  view[c].news # "none" \/ view[c].shows = sess[op[c].on].status
    <3>1. c \in Controllers
      BY <2>1, LifecycleAssumption
    <3> QED
      BY <1>1, <2>1, <3>1 DEF LInv, Following
  <2> QED
    BY <2>1 DEF ViewCatchesUp
<1> QED
  BY <1>1, Invariance, PTL
=============================================================================
