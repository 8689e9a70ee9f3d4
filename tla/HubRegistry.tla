---------------------------- MODULE HubRegistry ----------------------------
(***************************************************************************)
(* The registry of connected clients (geserdesk-server, hub.rs) and the    *)
(* router's copy of it.                                                    *)
(*                                                                         *)
(* A client session registers its name under the lock of `clients`, and    *)
(* only after releasing it asks whether the screen is turned off and tells *)
(* the router.  Dropping the registration removes the name under the lock  *)
(* and tells the router afterwards.  Turning a screen off or on changes    *)
(* the set `disabled` under one lock and reads `clients` under another.    *)
(* Each of these is a step of its own here, so steps of several tasks      *)
(* interleave as they do on the runtime's worker threads.                  *)
(*                                                                         *)
(* A session is a connection slot: NameOf says which screen connects       *)
(* through it, and two slots of one name are a connection and the one that *)
(* follows it.  The router hears the hub's events in order.                *)
(***************************************************************************)
EXTENDS Naturals, Sequences

CONSTANTS
  Names,         \* screens a client may connect as
  Sessions,      \* connection slots
  NameOf,        \* the screen of each slot
  Arrangements,  \* monitor arrangements a client may report
  None,          \* no entry, no arrangement
  Switchable,    \* bound: screens that are turned off and on
  MaxHubEvents   \* bound: events waiting for the router

Entry == [session : Sessions, monitors : Arrangements]

ASSUME HubAssumption ==
  /\ NameOf \in [Sessions -> Names]
  /\ None \notin Arrangements \cup Entry
  /\ Switchable \subseteq Names
  /\ MaxHubEvents \in Nat \ {0}

VARIABLES
  entry,      \* Hub::clients: per name, the session that owns it and its monitors
  disabled,   \* Hub::disabled
  hubEvents,  \* Hub::events, unread by the router
  task,       \* per session: where its registering or unregistering stands
  telling,    \* set_disabled calls between changing the set and telling the router
  connected   \* Core::connected: what the router knows of each name

hubVars == <<entry, disabled, hubEvents, task, telling, connected>>

HubEvent == [ev : {"connected"}, name : Names, monitors : Arrangements]
              \cup [ev : {"disconnected"}, name : Names]
TaskState == {"idle", "checking", "announcing", "serving", "leaving"}

Connected(n, m) == [ev |-> "connected", name |-> n, monitors |-> m]
Disconnected(n) == [ev |-> "disconnected", name |-> n]

\* The slots that hold their name in the registry.
Registered == {s \in Sessions : task[s] \in {"checking", "announcing", "serving"}}

HubInit ==
  /\ entry = [n \in Names |-> None]
  /\ disabled \in SUBSET Switchable
  /\ hubEvents = <<>>
  /\ task = [s \in Sessions |-> "idle"]
  /\ telling = {}
  /\ connected = [n \in Names |-> None]

\* The channel to the router has no bound in the code.
CanSend == Len(hubEvents) < MaxHubEvents

----------------------------------------------------------------------------
(* The session task.                                                       *)

\* Hub::register, under the lock: refused when the name is taken.
Register(s, m) ==
  /\ task[s] = "idle"
  /\ entry[NameOf[s]] = None
  /\ entry' = [entry EXCEPT ![NameOf[s]] = [session |-> s, monitors |-> m]]
  /\ task' = [task EXCEPT ![s] = "checking"]
  /\ UNCHANGED <<disabled, hubEvents, telling, connected>>

\* Mutant of ChangeMonitors: the router is not told.
ChangeMonitorsQuietly(s, m) ==
  /\ task[s] = "serving"
  /\ entry[NameOf[s]].monitors # m
  /\ entry' = [entry EXCEPT ![NameOf[s]].monitors = m]
  /\ UNCHANGED <<disabled, hubEvents, task, telling, connected>>

\* Hub::set_monitors, under the lock: an arrangement that did not change says nothing.
ChangeMonitors(s, m) ==
  /\ task[s] = "serving"
  /\ entry[NameOf[s]].monitors # m
  /\ entry' = [entry EXCEPT ![NameOf[s]].monitors = m]
  /\ task' = [task EXCEPT ![s] = "checking"]
  /\ UNCHANGED <<disabled, hubEvents, telling, connected>>

\* The `if !self.is_disabled(name)` that follows either of them.
CheckDisabled(s) ==
  /\ task[s] = "checking"
  /\ task' = [task EXCEPT ![s] = IF NameOf[s] \in disabled THEN "serving" ELSE "announcing"]
  /\ UNCHANGED <<entry, disabled, hubEvents, telling, connected>>

\* ... and the HubEvent::Connected it guards.
Announce(s) ==
  /\ task[s] = "announcing"
  /\ CanSend
  /\ hubEvents' = Append(hubEvents, Connected(NameOf[s], entry[NameOf[s]].monitors))
  /\ task' = [task EXCEPT ![s] = "serving"]
  /\ UNCHANGED <<entry, disabled, telling, connected>>

\* The session ends and its Registration is dropped: Hub::unregister, under the lock.
Unregister(s) ==
  /\ task[s] = "serving"
  /\ entry' = [entry EXCEPT ![NameOf[s]] = None]
  /\ task' = [task EXCEPT ![s] = "leaving"]
  /\ UNCHANGED <<disabled, hubEvents, telling, connected>>

\* Mutant of SayGone: a screen that is off goes without a word.
SayGoneIfOn(s) ==
  /\ task[s] = "leaving"
  /\ CanSend
  /\ hubEvents' = IF NameOf[s] \in disabled THEN hubEvents
                  ELSE Append(hubEvents, Disconnected(NameOf[s]))
  /\ task' = [task EXCEPT ![s] = "idle"]
  /\ UNCHANGED <<entry, disabled, telling, connected>>

\* Mutant of SayGone: nobody is told.
SayNothing(s) ==
  /\ task[s] = "leaving"
  /\ task' = [task EXCEPT ![s] = "idle"]
  /\ UNCHANGED <<entry, disabled, hubEvents, telling, connected>>

\* The rest of Hub::unregister: the router is told.
SayGone(s) ==
  /\ task[s] = "leaving"
  /\ CanSend
  /\ hubEvents' = Append(hubEvents, Disconnected(NameOf[s]))
  /\ task' = [task EXCEPT ![s] = "idle"]
  /\ UNCHANGED <<entry, disabled, telling, connected>>

----------------------------------------------------------------------------
(* Turning a screen off and on.                                            *)

\* Hub::set_disabled, under the lock of `disabled`: nothing more when nothing changed.
SetDisabled(n, off) ==
  /\ n \in Switchable
  /\ (n \in disabled) # off
  /\ <<n, off>> \notin telling
  /\ disabled' = IF off THEN disabled \cup {n} ELSE disabled \ {n}
  /\ telling' = telling \cup {<<n, off>>}
  /\ UNCHANGED <<entry, hubEvents, task, connected>>

\* The rest of Hub::set_disabled, under the lock of `clients`.
TellToggle(n, off) ==
  /\ <<n, off>> \in telling
  /\ telling' = telling \ {<<n, off>>}
  /\ IF entry[n] = None
     THEN UNCHANGED hubEvents
     ELSE /\ CanSend
          /\ hubEvents' = Append(hubEvents,
               IF off THEN Disconnected(n) ELSE Connected(n, entry[n].monitors))
  /\ UNCHANGED <<entry, disabled, task, connected>>

----------------------------------------------------------------------------
(* The router's side.                                                      *)

\* Core::client_connected and the removal in Core::client_disconnected.
Hear(ev) ==
  connected' = [connected EXCEPT ![ev.name] =
                  IF ev.ev = "connected" THEN ev.monitors ELSE None]

RouterHears ==
  /\ hubEvents # <<>>
  /\ hubEvents' = Tail(hubEvents)
  /\ Hear(Head(hubEvents))
  /\ UNCHANGED <<entry, disabled, task, telling>>

\* Hub::send found nobody under the name: the router drops the screen at once.
RouterMisses(n) ==
  /\ entry[n] = None
  /\ connected' = [connected EXCEPT ![n] = None]
  /\ UNCHANGED <<entry, disabled, hubEvents, task, telling>>

----------------------------------------------------------------------------

SessionStep(s) ==
  \/ \E m \in Arrangements : Register(s, m) \/ ChangeMonitors(s, m)
  \/ CheckDisabled(s)
  \/ Announce(s)
  \/ Unregister(s)
  \/ SayGone(s)

ToggleStep(n) == \E off \in BOOLEAN : SetDisabled(n, off) \/ TellToggle(n, off)

HubNext ==
  \/ \E s \in Sessions : SessionStep(s)
  \/ \E n \in Names : ToggleStep(n) \/ RouterMisses(n)
  \/ RouterHears

HubSpec == HubInit /\ [][HubNext]_hubVars

----------------------------------------------------------------------------
(* Properties.                                                             *)

\* Every variable keeps its type; events name known screens and arrangements.
HubTypeOK ==
  /\ entry \in [Names -> Entry \cup {None}]
  /\ disabled \in SUBSET Names
  /\ hubEvents \in Seq(HubEvent)
  /\ task \in [Sessions -> TaskState]
  /\ telling \in SUBSET (Names \X BOOLEAN)
  /\ connected \in [Names -> Arrangements \cup {None}]

\* A session that is registered owns its name's entry, and an entry belongs to a
\* registered session of that name: two live connections never share a name, and an
\* ending session never removes another's entry (Hub::register, Hub::unregister).
OneOwner ==
  /\ \A s \in Registered :
       entry[NameOf[s]] # None /\ entry[NameOf[s]].session = s
  /\ \A n \in Names : entry[n] # None =>
       entry[n].session \in Registered /\ NameOf[entry[n].session] = n

\* No event about n waits for the router.
Silent(n) == \A i \in 1..Len(hubEvents) : hubEvents[i].name # n

\* Event i is the last one about n.
LastAbout(n, i) ==
  /\ hubEvents[i].name = n
  /\ \A j \in 1..Len(hubEvents) : j > i => hubEvents[j].name # n

\* The router will know n once it has read every event that waits.
WillKnow(n) ==
  \/ Silent(n) /\ connected[n] # None
  \/ \E i \in 1..Len(hubEvents) : LastAbout(n, i) /\ hubEvents[i].ev = "connected"

\* The router never keeps a screen that is gone: one that left the registry is still
\* known only while the session that left has its goodbye to send (Hub::unregister),
\* whatever other sessions of that name and the on/off switch did meanwhile.
NoGhost ==
  \A n \in Names : entry[n] = None /\ WillKnow(n) =>
    \E s \in Sessions : NameOf[s] = n /\ task[s] = "leaving"

\* Nothing about n is in flight.
SettledFor(n) ==
  /\ Silent(n)
  /\ \A s \in Sessions : NameOf[s] = n => task[s] \in {"idle", "serving"}
  /\ \A off \in BOOLEAN : <<n, off>> \notin telling

\* When nothing is in flight, the monitors the router has for a screen that is on are the
\* ones it last reported (Hub::set_monitors, Hub::set_disabled turning it back on).
FreshMonitors ==
  \A n \in Names : SettledFor(n) /\ n \notin disabled /\ connected[n] # None =>
    entry[n] # None /\ entry[n].monitors = connected[n]

\* hub.rs says of the screens that are turned off that "the router does not know them":
\* true when nothing about the screen is in flight?
DisabledUnknown ==
  \A n \in Names : SettledFor(n) /\ n \in disabled => connected[n] = None
=============================================================================
