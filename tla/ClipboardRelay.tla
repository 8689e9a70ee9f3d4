-------------------------- MODULE ClipboardRelay --------------------------
(***************************************************************************)
(* One clipboard for the whole desk (geserdesk-clipboard sync.rs,          *)
(* inbound.rs; geserdesk-server clipboard.rs, hub.rs, files.rs;            *)
(* geserdesk-client net.rs, ClientClipboard).                              *)
(*                                                                         *)
(* Every machine polls its own clipboard.  A client pushes what a local    *)
(* application copied; one task of the server puts it on the server's own  *)
(* clipboard, numbers it and sends it to the other clients.  A copy of     *)
(* files only announces a manifest, which goes to everyone, its pusher     *)
(* too; the bytes are pulled when the cursor arrives (FilePull).           *)
(*                                                                         *)
(* A transfer is one message here: its grab and chunks are queued together *)
(* and read in order, so Inbound never sees two of them mixed; what comes  *)
(* out at the other end is ClipboardContent's Received.  The platform may  *)
(* hand back a content slightly changed after it was set: `back` marks it  *)
(* as read back.                                                           *)
(***************************************************************************)
EXTENDS ClipboardContent

CONSTANTS
  Clients,
  Srv,        \* the server's own machine
  Texts,      \* what can be copied as text, HTML or a picture: contents
  Manifests,  \* what can be copied as files
  Large,      \* the manifests whose files are over the size limit for files
  MaxBytes,   \* clipboard_max_bytes, as configured
  HardMax,    \* HARD_MAX_BYTES
  MaxCopies,  \* bound: copies made by local applications
  MaxFaults   \* bound: disconnections and switches

Machines == Clients \cup {Srv}

\* A content is a piece of data for each of its formats.
Pieces == UNION {{t[m] : m \in DOMAIN t} : t \in Texts} \cup Manifests
TextContents == UNION {[formats -> Pieces] : formats \in SUBSET {"text", "html", "image"}}
TextItem == [kind : {"text"}, v : TextContents, back : BOOLEAN]
FilesItem == [kind : {"files"}, v : {WithFiles(f) : f \in Manifests}, back : BOOLEAN]
Item == TextItem \cup FilesItem

ASSUME RelayAssumption ==
  /\ Srv \notin Clients
  /\ None \notin Machines \cup Item
  /\ Texts \subseteq TextContents /\ \A p \in Pieces : p.bytes \in Nat
  /\ {MaxBytes, MaxCopies, MaxFaults} \subseteq Nat /\ HardMax \in Nat \ {0}

VARIABLES
  sync,    \* per machine: its clipboard, and what ClipboardSync keeps of it
  mine,    \* (history) machines whose clipboard a local application filled last
  up,      \* per client: pushes not yet taken by the relay
  down,    \* per client: transfers sent to it
  seq,     \* the relay's transfer number
  owner,   \* FileRouter::current
  own,     \* per machine: FileOwner, the announcement it serves
  cc,      \* per client: whether it is connected, and its ClientClipboard
  off,     \* Hub::disabled
  job,     \* per machine: the pull that runs
  last,    \* the router's last_pulled_seq
  crossed, \* (history) clients to which a text and a text they pushed crossed
  awaited, \* (history) the relay took the announcement in `owner` from a client that waited for
           \* its echo and had no other announcement on its way
  dropped, \* (history) machines something was withheld from, or that kept a copy
  copies, faults

clip == <<sync, mine>>
files == <<owner, own, job, last>>
history == <<crossed, awaited, dropped>>
bounds == <<copies, faults>>
vars == <<clip, up, down, seq, files, cc, off, history, bounds>>

Text(c) == [kind |-> "text", v |-> c, back |-> FALSE]
Files(f) == [kind |-> "files", v |-> WithFiles(f), back |-> FALSE]
Pulled(item) == [item EXCEPT !.back = TRUE]   \* other paths: those of the staging folder

Limit == EffectiveMax(MaxBytes, HardMax)

\* What a poll shares of what the clipboard holds, and what is set of what arrives.
Shared(item) == IF item.kind = "text" THEN Text(Fit(item.v, Limit)) ELSE [item EXCEPT !.back = FALSE]
ReadBack(item) == [item EXCEPT !.v = Placed(@), !.back = TRUE]

\* A manifest is limited in its own size, too, where it arrives.
Arrives(item) == Received(item.v, Limit) = item.v
Nothing == [kind |-> "none", v |-> None, back |-> FALSE]

Fresh == [on |-> TRUE, pend |-> None, remote |-> None, pulled |-> 0]

Init ==
  /\ sync = [m \in Machines |-> [clip |-> Nothing, seen |-> Nothing, fseen |-> Nothing,
                                 news |-> FALSE, fnews |-> FALSE]]
  /\ mine = {}
  /\ up = [c \in Clients |-> <<>>] /\ down = [c \in Clients |-> <<>>]
  /\ seq = 0 /\ owner = None /\ last = 0
  /\ own = [m \in Machines |-> None] /\ job = [m \in Machines |-> None]
  /\ cc = [c \in Clients |-> Fresh]
  /\ off = {} /\ crossed = {} /\ awaited = FALSE /\ dropped = {}
  /\ copies = 0 /\ faults = 0

----------------------------------------------------------------------------
(* One machine's clipboard: ClipboardSync.                                 *)

\* An application copies: the change count moves, for both readers of it.
Copy(m, item) ==
  /\ copies < MaxCopies
  /\ copies' = copies + 1
  /\ sync' = [sync EXCEPT ![m] = [@ EXCEPT !.clip = item, !.news = TRUE, !.fnews = TRUE]]
  /\ mine' = mine \cup {m}
  /\ UNCHANGED <<up, down, seq, files, cc, off, history, faults>>

\* poll_files and poll: what there is to share; a clipboard that holds files has no text.
NewFiles(m) ==
  sync[m].fnews /\ sync[m].clip.kind = "files" /\ sync[m].clip # sync[m].fseen
NewText(m) ==
  sync[m].news /\ sync[m].clip.kind = "text" /\ sync[m].clip # sync[m].seen

\* fit, collect.
TooLarge(m) ==
  LET item == sync[m].clip IN
  IF item.kind = "text" THEN Fit(item.v, Limit) = None ELSE item.v["files"] \in Large

TookFiles(s) == [s EXCEPT !.fnews = FALSE, !.fseen = IF s.clip.kind = "files" THEN s.clip ELSE @]
TookText(s) == [s EXCEPT !.news = FALSE, !.seen = IF s.clip.kind = "text" THEN s.clip ELSE @]

\* Mutant of Applied: what was written is remembered, not what the clipboard reports.
AppliedAsSent(s, item, how) ==
  [s EXCEPT !.clip = ReadBack(item), !.seen = item, !.news = (how = "late"), !.fnews = TRUE]

\* apply: set, and remember what the clipboard now reports.  The platform may count the
\* write late; the reader of files is not told it was ours.
Applied(s, item, how) ==
  [s EXCEPT !.clip = ReadBack(item), !.seen = ReadBack(item), !.news = (how = "late"),
            !.fnews = TRUE]

\* apply_files.
AppliedFiles(s, item, how) ==
  [s EXCEPT !.clip = Pulled(item), !.fseen = Pulled(item), !.fnews = (how = "late"), !.news = TRUE]

\* A text put on the clipboard, or not: the platform may refuse.
Set(m, item, how) ==
  IF how = "failed"
  THEN /\ faults < MaxFaults /\ faults' = faults + 1
       /\ UNCHANGED clip
  ELSE /\ sync' = [sync EXCEPT ![m] = Applied(@, item, how)]
       /\ mine' = mine \ {m}
       /\ UNCHANGED faults

----------------------------------------------------------------------------
(* The server's relay.                                                     *)

\* Mutant of Listens: a transfer is dropped where one is still queued.
ListensWhenIdle(c) == cc[c].on /\ c \notin off /\ down[c] = <<>>

Listens(c) == cc[c].on /\ c \notin off

\* What is on its way from, and to, a client.
Pushes(c, kind) == \E i \in DOMAIN up[c] : up[c][i].kind = kind
Expects(c, kind) == \E i \in DOMAIN down[c] : down[c][i].item.kind = kind

\* broadcast_except: everyone connected and turned on, but one.
Broadcast(except, t, lost) ==
  LET to == {c \in Clients \ {except} : Listens(c)} IN
  /\ down' = [c \in Clients |-> IF c \in to THEN Append(down[c], t) ELSE down[c]]
  /\ crossed' = IF t.item.kind = "text" THEN (crossed \ to) \cup {c \in to : Pushes(c, "text")'}
                ELSE crossed
  /\ dropped' = dropped \cup lost \cup {c \in Clients \ {except} : cc[c].on /\ c \in off}

\* Under the next number, unless it is too large: then it stays on the server.
ShareOwn ==
  IF TooLarge(Srv)
  THEN dropped' = dropped \cup {Srv} /\ UNCHANGED <<seq, down, crossed>>
  ELSE seq' = seq + 1 /\ Broadcast(None, [seq |-> seq + 1, item |-> Shared(sync[Srv].clip)], {})

\* The relay's tick: files first, and then the text waits for the next one.
ServerPoll ==
  /\ sync[Srv].news \/ sync[Srv].fnews
  /\ UNCHANGED <<up, awaited>>
  /\ \/ /\ NewFiles(Srv)
        /\ ShareOwn
        /\ LET ann == [seq |-> seq', item |-> Shared(sync[Srv].clip)] IN
           IF TooLarge(Srv) THEN UNCHANGED <<own, owner>>
           ELSE own' = [own EXCEPT ![Srv] = ann] /\ owner' = [who |-> Srv, ann |-> ann]
        /\ sync' = [sync EXCEPT ![Srv] = TookFiles(@)]
     \/ /\ ~NewFiles(Srv)
        /\ IF NewText(Srv) THEN ShareOwn ELSE UNCHANGED <<seq, down, crossed, dropped>>
        /\ sync' = [sync EXCEPT ![Srv] = TookText(TookFiles(@))]
        /\ UNCHANGED <<own, owner>>
  /\ UNCHANGED <<mine, job, last, cc, off, bounds>>

\* Whom the broadcast of a push leaves out: the pusher, but it learns the number of its
\* files from the echo.
LeftOut(c, item) == IF item.kind = "files" THEN None ELSE c

\* Inbound lets no manifest over the limit through, clipboard_in nothing from a screen
\* turned off.  The relay takes a push: a manifest is announced to all, a text goes on the
\* server's clipboard and to the others, to them also when the server's cannot be set.
Relay(c, how) ==
  LET item == Head(up[c])
      ann == [seq |-> seq + 1, item |-> item]
      isText == item.kind = "text"
  IN
  /\ up[c] # <<>> /\ c \notin off /\ Arrives(item)
  /\ up' = [up EXCEPT ![c] = Tail(@)]
  /\ seq' = seq + 1
  /\ Broadcast(LeftOut(c, item), ann, IF isText /\ how = "failed" THEN {Srv} ELSE {})
  /\ IF isText THEN Set(Srv, item, how) /\ UNCHANGED <<owner, awaited>>
     ELSE /\ owner' = [who |-> c, ann |-> ann]
          /\ awaited' = (cc[c].on /\ cc[c].pend = item /\ ~Expects(c, "files"))
          /\ UNCHANGED <<clip, faults>>
  /\ UNCHANGED <<own, job, last, cc, off, copies>>

Refuse(c) ==
  /\ up[c] # <<>> /\ (c \in off \/ ~Arrives(Head(up[c])))
  /\ up' = [up EXCEPT ![c] = Tail(@)]
  /\ dropped' = dropped \cup {c}
  /\ UNCHANGED <<clip, down, seq, files, cc, off, crossed, awaited, bounds>>

----------------------------------------------------------------------------
(* A client.                                                               *)

\* changed: files, unless an earlier announcement waits for its echo; else text.  Files
\* that cannot be collected leave the text to be looked at; what is too large stays here.
ClientPoll(c) ==
  LET looksAtFiles == cc[c].pend = None
      announces == looksAtFiles /\ NewFiles(c) /\ ~TooLarge(c)
      pushes == announces \/ (NewText(c) /\ ~TooLarge(c))
      looked == IF looksAtFiles THEN TookFiles(sync[c]) ELSE sync[c]
      keeps == TooLarge(c) /\ (NewText(c) \/ (looksAtFiles /\ NewFiles(c)))
  IN
  /\ cc[c].on
  /\ sync[c].news \/ (sync[c].fnews /\ looksAtFiles)
  /\ IF announces
     THEN /\ sync' = [sync EXCEPT ![c] = looked]
          /\ cc' = [cc EXCEPT ![c].pend = Shared(sync[c].clip)]
     ELSE /\ sync' = [sync EXCEPT ![c] = TookText(looked)]
          /\ UNCHANGED cc
  /\ up' = IF pushes THEN [up EXCEPT ![c] = Append(@, Shared(sync[c].clip))] ELSE up
  /\ crossed' = IF announces \/ ~pushes THEN crossed
                ELSE IF Expects(c, "text") THEN crossed \cup {c} ELSE crossed \ {c}
  /\ dropped' = IF keeps THEN dropped \cup {c} ELSE dropped
  /\ UNCHANGED <<mine, down, seq, files, off, awaited, bounds>>

\* Mutant of Announced: the echo does not make the files servable.
AnnouncedUnserved(c, a) ==
  /\ cc' = [cc EXCEPT ![c] = [@ EXCEPT !.pend = None,
                                       !.remote = IF cc[c].pend = None THEN a ELSE None]]
  /\ UNCHANGED own

\* on_files_announced: the first announcement after a push is taken for its echo.
Announced(c, a) ==
  LET s == cc[c] IN
  IF s.pend # None
  THEN /\ own' = IF s.pend = a.item THEN [own EXCEPT ![c] = a] ELSE own
       /\ cc' = [cc EXCEPT ![c] = [s EXCEPT !.pend = None, !.remote = None]]
  ELSE /\ cc' = [cc EXCEPT ![c].remote = a]
       /\ UNCHANGED own

\* data: a transfer arrived.
ClientTake(c, how) ==
  /\ cc[c].on /\ down[c] # <<>>
  /\ down' = [down EXCEPT ![c] = Tail(@)]
  /\ LET ann == Head(down[c]) IN
     IF ~Arrives(ann.item)
     THEN dropped' = dropped \cup {c} /\ UNCHANGED <<clip, faults, cc, own>>
     ELSE IF ann.item.kind = "files"
     THEN Announced(c, ann) /\ UNCHANGED <<clip, faults, dropped>>
     ELSE /\ Set(c, ann.item, how)
          /\ dropped' = IF how = "failed" THEN dropped \cup {c} ELSE dropped
          /\ UNCHANGED <<cc, own>>
  /\ UNCHANGED <<up, seq, owner, job, last, off, crossed, awaited, copies>>

----------------------------------------------------------------------------
(* Pulling files when the cursor arrives.                                  *)

\* pull_on_enter.
Enter(c) ==
  /\ cc[c].on /\ cc[c].remote # None /\ cc[c].remote.seq # cc[c].pulled
  /\ job[c] = None
  /\ cc' = [cc EXCEPT ![c].pulled = cc[c].remote.seq]
  /\ job' = [job EXCEPT ![c] = cc[c].remote]
  /\ UNCHANGED <<clip, up, down, seq, owner, own, last, off, history, bounds>>

\* run_shared, when the cursor has come home and a client owns files.
ComeHome ==
  /\ owner # None /\ owner.who # Srv /\ owner.ann.seq # last
  /\ job[Srv] = None
  /\ last' = owner.ann.seq
  /\ job' = [job EXCEPT ![Srv] = owner.ann]
  /\ UNCHANGED <<clip, up, down, seq, owner, own, cc, off, history, bounds>>

\* What FileRouter::route and FileOwner::read make of a read of this announcement.
Served(a) ==
  /\ owner # None
  /\ own[owner.who] # None /\ own[owner.who].seq = a.seq
  /\ owner.who \in Clients => cc[owner.who].on

PullDone(m, how) ==
  /\ job[m] # None /\ Served(job[m])
  /\ sync' = [sync EXCEPT ![m] = AppliedFiles(@, job[m].item, how)]
  /\ mine' = mine \ {m}
  /\ job' = [job EXCEPT ![m] = None]
  /\ UNCHANGED <<up, down, seq, owner, own, last, cc, off, history, bounds>>

\* Refused, cancelled, timed out, or the disk is full: the clipboard stays as it was.
PullFails(m) ==
  /\ job[m] # None
  /\ job' = [job EXCEPT ![m] = None]
  /\ UNCHANGED <<clip, up, down, seq, owner, own, last, cc, off, history, bounds>>

----------------------------------------------------------------------------
(* Connections and switches.                                               *)

\* The session ends; pushes already handed to the relay are still taken.  on_disconnected.
Disconnect(c, kept) ==
  /\ faults < MaxFaults /\ faults' = faults + 1
  /\ cc[c].on
  /\ cc' = [cc EXCEPT ![c] = [Fresh EXCEPT !.on = FALSE]]
  /\ up' = [up EXCEPT ![c] = IF kept THEN @ ELSE <<>>]
  /\ down' = [down EXCEPT ![c] = <<>>]
  /\ own' = [own EXCEPT ![c] = None]
  /\ owner' = IF owner # None /\ owner.who = c THEN None ELSE owner
  /\ crossed' = crossed \ {c} /\ dropped' = dropped \ {c}
  /\ UNCHANGED <<clip, seq, job, last, off, awaited, copies>>

\* A new session starts with prime: what is on the clipboard is not news, and what was
\* copied elsewhere meanwhile is not sent.
Reconnect(c) ==
  /\ ~cc[c].on
  /\ cc' = [cc EXCEPT ![c] = Fresh]
  /\ sync' = [sync EXCEPT ![c] = TookText(TookFiles(@))]
  /\ dropped' = dropped \cup {c}
  /\ UNCHANGED <<mine, up, down, seq, files, off, crossed, awaited, bounds>>

Switch(c) ==
  /\ faults < MaxFaults /\ faults' = faults + 1
  /\ off' = IF c \in off THEN off \ {c} ELSE off \cup {c}
  /\ UNCHANGED <<clip, up, down, seq, files, cc, history, copies>>

----------------------------------------------------------------------------

User(m) ==
  \/ \E t \in Texts : Copy(m, Text(Reported(t)))
  \/ \E f \in Manifests : Copy(m, Files(f))

ClientStep(c) ==
  \/ ClientPoll(c) \/ Refuse(c)
  \/ \E how \in {"now", "late", "failed"} : Relay(c, how) \/ ClientTake(c, how)

Next ==
  \/ \E m \in Machines :
       User(m) \/ PullFails(m) \/ \E how \in {"now", "late"} : PullDone(m, how)
  \/ \E c \in Clients :
       \/ ClientStep(c) \/ Enter(c) \/ Reconnect(c) \/ Switch(c)
       \/ \E kept \in BOOLEAN : Disconnect(c, kept)
  \/ ServerPoll \/ ComeHome

Spec == Init /\ [][Next]_vars

----------------------------------------------------------------------------
(* Properties.                                                             *)

Quiet ==
  /\ \A c \in Clients : up[c] = <<>> /\ down[c] = <<>>
  /\ \A m \in Machines : ~sync[m].news /\ ~sync[m].fnews /\ job[m] = None

Sync == [clip : Item \cup {Nothing}, seen : Item \cup {Nothing}, fseen : Item \cup {Nothing},
         news : BOOLEAN, fnews : BOOLEAN]
Transfer == [seq : Nat, item : Item]
Announcement == [seq : Nat, item : FilesItem]
ClientState == [on : BOOLEAN, pend : FilesItem \cup {None}, remote : Announcement \cup {None},
                pulled : Nat]

\* Types: texts and announcements each where they belong.
TypeOK ==
  /\ sync \in [Machines -> Sync] /\ mine \subseteq Machines
  /\ up \in [Clients -> Seq(Item)] /\ down \in [Clients -> Seq(Transfer)]
  /\ seq \in Nat /\ last \in Nat
  /\ owner \in [who : Machines, ann : Announcement] \cup {None}
  /\ own \in [Machines -> Announcement \cup {None}]
  /\ job \in [Machines -> Announcement \cup {None}]
  /\ cc \in [Clients -> ClientState]
  /\ off \subseteq Clients /\ crossed \subseteq Clients /\ dropped \subseteq Machines
  /\ awaited \in BOOLEAN
  /\ copies \in Nat /\ faults \in Nat

\* What arrives is never offered back, even where the platform changes it and counts the
\* write late: a machine pushes or announces only what an application copied there
\* (ClipboardSync::apply, apply_files, poll, poll_files).
NoEcho ==
  [][/\ \A c \in Clients : Len(up'[c]) > Len(up[c]) => c \in mine
     /\ seq' # seq /\ up' = up => Srv \in mine]_vars

\* What two machines hold is the same as far as it can be shared and set.
Same(v, w) == Placed(Fit(v, Limit)) = Placed(Fit(w, Limit))

\* "The server's own clipboard and every client's are kept equal: whoever copies last
\* wins" (clipboard.rs): when all is quiet every client that is connected and turned on
\* holds the text the server holds, unless a text it pushed crossed with one sent to it,
\* or something was withheld from it.
KeptEqualUnlessCrossed ==
  Quiet /\ sync[Srv].clip.kind = "text" /\ Srv \notin dropped =>
    \A c \in Clients : cc[c].on /\ sync[c].clip.kind = "text" /\ c \notin crossed \cup dropped =>
      Same(sync[c].clip.v, sync[Srv].clip.v)

\* The same with no exception: what the comment says.
KeptEqual ==
  Quiet /\ sync[Srv].clip.kind = "text" /\ Srv \notin dropped =>
    \A c \in Clients : cc[c].on /\ sync[c].clip.kind = "text" /\ c \notin dropped =>
      Same(sync[c].clip.v, sync[Srv].clip.v)

\* Whoever the server asks for the announced files serves them under the number they were
\* announced with, once the echo is in, unless its client was not waiting for just this
\* announcement when the relay took it: then the echo is taken for another one's, or another's
\* for the echo (FileRouter::announce, on_files_announced).
OwnerServes ==
  Quiet /\ owner # None /\ (owner.who \in Clients => awaited) => own[owner.who] = owner.ann
=============================================================================
