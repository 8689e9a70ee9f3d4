----------------------- MODULE ClipboardRelay_proofs -----------------------
(***************************************************************************)
(* Theorems about ClipboardRelay, for any number of clients, contents,     *)
(* copies and faults.                                                      *)
(***************************************************************************)
EXTENDS ClipboardRelay, TLAPS

----------------------------------------------------------------------------
(* Contents.                                                               *)

LEMMA Formats ==
  ASSUME NEW c
  PROVE  c \in TextContents
           <=> \E formats \in SUBSET {"text", "html", "image"} : c \in [formats -> Pieces]
  BY DEF TextContents

\* A content restricted to some of its formats is a content.
LEMMA RestrictedContent ==
  ASSUME NEW c \in TextContents, NEW formats
  PROVE  [m \in DOMAIN c \cap formats |-> c[m]] \in TextContents
<1>1. PICK D \in SUBSET {"text", "html", "image"} : c \in [D -> Pieces]
  BY Formats
<1>2. [m \in DOMAIN c \cap formats |-> c[m]] \in [D \cap formats -> Pieces]
  BY <1>1
<1> QED
  BY <1>1, <1>2, Formats

LEMMA ContentOps ==
  ASSUME NEW c \in TextContents
  PROVE  /\ \A formats : Keep(c, formats) \in TextContents
         /\ WithoutHtml(c) \in TextContents /\ TextOnly(c) \in TextContents
         /\ Reported(c) \in TextContents /\ Placed(c) \in TextContents
<1>1. \A formats : Keep(c, formats) \in TextContents
  BY RestrictedContent DEF Keep
<1>2. WithoutHtml(c) = [m \in DOMAIN c \cap {"text", "image"} |-> c[m]]
  <2>1. DOMAIN c \ {"html"} = DOMAIN c \cap {"text", "image"}
    BY Formats
  <2> QED
    BY <2>1 DEF WithoutHtml
<1>3. WithoutHtml(c) \in TextContents
  BY <1>2, RestrictedContent
<1> QED
  BY <1>1, <1>3 DEF TextOnly, Reported, Placed

\* Of the tries the first that fits is what is kept.
Tried(c, max) == ~IsEmpty(c) /\ DataLen(c) <= max

LEMMA FitCases ==
  ASSUME NEW c, NEW max
  PROVE  Fit(c, max) = IF Tried(c, max) THEN c
                       ELSE IF Tried(WithoutHtml(c), max) THEN WithoutHtml(c)
                       ELSE IF Tried(TextOnly(c), max) THEN TextOnly(c) ELSE None
<1> DEFINE tries == <<c, WithoutHtml(c), TextOnly(c)>>
           Fits(i) == ~IsEmpty(tries[i]) /\ DataLen(tries[i]) <= max
           fitting == {i \in 1..3 : Fits(i)}
           first == CHOOSE i \in fitting : \A j \in fitting : i <= j
<1>1. Fit(c, max) = IF fitting = {} THEN None ELSE tries[first]
  BY DEF Fit
<1>2. /\ Fits(1) <=> Tried(c, max)
      /\ Fits(2) <=> Tried(WithoutHtml(c), max)
      /\ Fits(3) <=> Tried(TextOnly(c), max)
  BY DEF Tried
<1> HIDE DEF Fits
<1>3. 1..3 = {1, 2, 3}
  OBVIOUS
<1>4. CASE Fits(1)
  <2>1. 1 \in fitting /\ \A j \in fitting : 1 <= j
    BY <1>3, <1>4
  <2>2. first = 1
    BY <2>1
  <2> QED
    BY <1>1, <1>2, <1>4, <2>1, <2>2
<1>5. CASE ~Fits(1) /\ Fits(2)
  <2>1. 2 \in fitting /\ \A j \in fitting : 2 <= j
    BY <1>3, <1>5
  <2>2. first = 2
    BY <2>1
  <2> QED
    BY <1>1, <1>2, <1>5, <2>1, <2>2
<1>6. CASE ~Fits(1) /\ ~Fits(2) /\ Fits(3)
  <2>1. fitting = {3}
    BY <1>3, <1>6
  <2>2. first = 3
    BY <2>1
  <2> QED
    BY <1>1, <1>2, <1>6, <2>1, <2>2
<1>7. CASE ~Fits(1) /\ ~Fits(2) /\ ~Fits(3)
  <2>1. fitting = {}
    BY <1>3, <1>7
  <2> QED
    BY <1>1, <1>2, <1>7, <2>1
<1> QED
  BY <1>4, <1>5, <1>6, <1>7

LEMMA FitType ==
  ASSUME NEW c \in TextContents, NEW max
  PROVE  Fit(c, max) \in TextContents \cup {None}
  BY FitCases, ContentOps

----------------------------------------------------------------------------
(* Types.                                                                  *)

LEMMA Kinds ==
  ASSUME NEW item \in Item \cup {Nothing}
  PROVE  /\ (item.kind = "text") <=> (item \in TextItem)
         /\ (item.kind = "files") <=> (item \in FilesItem)
  BY DEF Nothing, Item, TextItem, FilesItem

LEMMA ItemOps ==
  /\ \A item \in TextItem : Fit(item.v, Limit) # None => Shared(item) \in TextItem
  /\ \A item \in FilesItem : Shared(item) \in FilesItem
  /\ \A item \in TextItem : ReadBack(item) \in TextItem
  /\ \A item \in FilesItem : Pulled(item) \in FilesItem
<1>1. ASSUME NEW item \in TextItem PROVE item.v \in TextContents /\ item.kind = "text"
  BY DEF TextItem
<1>2. ASSUME NEW item \in TextItem, Fit(item.v, Limit) # None PROVE Shared(item) \in TextItem
  <2>1. Fit(item.v, Limit) \in TextContents
    BY <1>1, <1>2, FitType
  <2> QED
    BY <1>1, <2>1 DEF Shared, Text, TextItem
<1>3. ASSUME NEW item \in TextItem PROVE ReadBack(item) \in TextItem
  BY <1>1, ContentOps DEF ReadBack, TextItem
<1>4. ASSUME NEW item \in FilesItem PROVE Shared(item) \in FilesItem /\ Pulled(item) \in FilesItem
  BY DEF FilesItem, Shared, Pulled
<1> QED
  BY <1>2, <1>3, <1>4

LEMMA SyncOps ==
  ASSUME NEW s \in Sync
  PROVE  /\ TookFiles(s) \in Sync /\ TookText(s) \in Sync
         /\ \A item \in TextItem : \A how : Applied(s, item, how) \in Sync
         /\ \A item \in FilesItem : \A how : AppliedFiles(s, item, how) \in Sync
<1>1. TookFiles(s) \in Sync /\ TookText(s) \in Sync
  BY DEF Sync, TookFiles, TookText
<1>2. ASSUME NEW item \in TextItem, NEW how PROVE Applied(s, item, how) \in Sync
  <2>1. ReadBack(item) \in Item /\ (how = "late") \in BOOLEAN
    BY ItemOps DEF Item
  <2> QED
    BY <2>1 DEF Sync, Applied
<1>3. ASSUME NEW item \in FilesItem, NEW how PROVE AppliedFiles(s, item, how) \in Sync
  <2>1. Pulled(item) \in Item /\ (how = "late") \in BOOLEAN
    BY ItemOps DEF Item
  <2> QED
    BY <2>1 DEF Sync, AppliedFiles
<1> QED
  BY <1>1, <1>2, <1>3

\* What a machine shares is of the kind that is new, and fits.
LEMMA News ==
  ASSUME TypeOK, NEW m \in Machines
  PROVE  LET s == sync[m] IN
         /\ s \in Sync
         /\ NewFiles(m) => s.clip \in FilesItem /\ Shared(s.clip) \in FilesItem
         /\ NewText(m) => s.clip \in TextItem
         /\ NewText(m) /\ ~TooLarge(m) => Shared(s.clip) \in TextItem
         /\ ~(NewFiles(m) /\ NewText(m))
<1>1. sync[m] \in Sync /\ sync[m].clip \in Item \cup {Nothing}
  BY DEF TypeOK, Sync
<1>2. NewFiles(m) => sync[m].clip \in FilesItem
  <2>1. sync[m].clip.kind = "files" => sync[m].clip \in FilesItem
    BY <1>1, Kinds
  <2> QED
    BY <2>1, Zenon DEF NewFiles
<1>3. NewText(m) => sync[m].clip \in TextItem
  <2>1. sync[m].clip.kind = "text" => sync[m].clip \in TextItem
    BY <1>1, Kinds
  <2> QED
    BY <2>1, Zenon DEF NewText
<1>4. NewText(m) /\ ~TooLarge(m) => Fit(sync[m].clip.v, Limit) # None
  BY DEF NewText, TooLarge
<1>5. ~(NewFiles(m) /\ NewText(m))
  BY DEF NewFiles, NewText
<1> QED
  BY <1>1, <1>2, <1>3, <1>4, <1>5, ItemOps

LEMMA InitTypes == Init => TypeOK
<1> SUFFICES ASSUME Init PROVE TypeOK
  OBVIOUS
<1>1. [clip |-> Nothing, seen |-> Nothing, fseen |-> Nothing, news |-> FALSE, fnews |-> FALSE] \in Sync
  BY DEF Sync
<1>2. Fresh \in ClientState
  BY DEF Fresh, ClientState
<1>3. awaited \in BOOLEAN
  BY Zenon DEF Init
<1>4. sync \in [Machines -> Sync] /\ cc \in [Clients -> ClientState]
  BY <1>1, <1>2 DEF Init
<1>5. /\ mine \subseteq Machines /\ off \subseteq Clients /\ crossed \subseteq Clients
      /\ dropped \subseteq Machines
  BY Zenon DEF Init
<1>6. /\ up \in [Clients -> Seq(Item)] /\ down \in [Clients -> Seq(Transfer)]
      /\ own \in [Machines -> Announcement \cup {None}]
      /\ job \in [Machines -> Announcement \cup {None}]
  BY DEF Init
<1>7. seq \in Nat /\ last \in Nat /\ copies \in Nat /\ faults \in Nat /\ owner = None
  BY DEF Init
<1> QED
  BY <1>3, <1>4, <1>5, <1>6, <1>7, Zenon DEF TypeOK

\* A transfer sent to some clients.
LEMMA BroadcastTypes ==
  ASSUME TypeOK, NEW except, NEW t \in Transfer, NEW lost \in SUBSET Machines,
         Broadcast(except, t, lost)
  PROVE  /\ down' \in [Clients -> Seq(Transfer)]
         /\ crossed' \subseteq Clients /\ dropped' \subseteq Machines
<1>1. \A c \in Clients : Append(down[c], t) \in Seq(Transfer)
  BY DEF TypeOK
<1>2. down' \in [Clients -> Seq(Transfer)]
  BY <1>1 DEF Broadcast, TypeOK
<1>3. crossed' \subseteq Clients /\ dropped' \subseteq Machines
  BY DEF Broadcast, TypeOK, Machines
<1> QED
  BY <1>2, <1>3

LEMMA SetTypes ==
  ASSUME TypeOK, NEW m \in Machines, NEW item \in TextItem, NEW how, Set(m, item, how)
  PROVE  sync' \in [Machines -> Sync] /\ mine' \subseteq Machines /\ faults' \in Nat
<1>1. sync[m] \in Sync
  BY DEF TypeOK
<1>2. Applied(sync[m], item, how) \in Sync
  BY <1>1, SyncOps
<1>3. CASE how = "failed"
  BY <1>3 DEF Set, TypeOK, clip
<1>4. CASE how # "failed"
  BY <1>2, <1>4 DEF Set, TypeOK
<1> QED
  BY <1>3, <1>4

LEMMA CopyTypes ==
  ASSUME TypeOK, NEW m \in Machines, User(m)
  PROVE  TypeOK'
<1>1. PICK item \in Item : Copy(m, item)
  <2>1. CASE \E t \in Texts : Copy(m, Text(Reported(t)))
    <3>1. PICK t \in Texts : Copy(m, Text(Reported(t)))
      BY <2>1
    <3>2. Reported(t) \in TextContents
      BY RelayAssumption, ContentOps
    <3> QED
      BY <3>1, <3>2 DEF Text, Item, TextItem
  <2>2. CASE \E f \in Manifests : Copy(m, Files(f))
    BY <2>2 DEF Files, Item, FilesItem
  <2> QED
    BY <2>1, <2>2 DEF User
<1>2. [sync[m] EXCEPT !.clip = item, !.news = TRUE, !.fnews = TRUE] \in Sync
  BY DEF TypeOK, Sync
<1>3. sync' \in [Machines -> Sync] /\ mine' \subseteq Machines /\ copies' \in Nat
  BY <1>1, <1>2 DEF Copy, TypeOK
<1>4. UNCHANGED <<up, down, seq, owner, own, cc, off, job, last, crossed, awaited, dropped, faults>>
  BY <1>1 DEF Copy, files, history
<1> QED
  BY <1>3, <1>4 DEF TypeOK, Machines

LEMMA PullTypes ==
  ASSUME TypeOK, NEW m \in Machines,
         PullFails(m) \/ \E how \in {"now", "late"} : PullDone(m, how)
  PROVE  TypeOK'
<1>1. CASE PullFails(m)
  BY <1>1 DEF PullFails, TypeOK, clip, history, bounds, Machines
<1>2. ASSUME NEW how, PullDone(m, how) PROVE TypeOK'
  <2>1. job[m] \in Announcement
    BY <1>2 DEF PullDone, TypeOK
  <2>2. job[m].item \in FilesItem
    BY <2>1 DEF Announcement
  <2>3. sync[m] \in Sync
    BY DEF TypeOK
  <2>4. AppliedFiles(sync[m], job[m].item, how) \in Sync
    BY <2>2, <2>3, SyncOps
  <2>5. /\ sync' \in [Machines -> Sync] /\ mine' \subseteq Machines
        /\ job' \in [Machines -> Announcement \cup {None}]
    BY <1>2, <2>4 DEF PullDone, TypeOK
  <2>6. UNCHANGED <<up, down, seq, owner, own, cc, off, last, crossed, awaited, dropped,
                    copies, faults>>
    BY <1>2 DEF PullDone, history, bounds
  <2> QED
    BY <2>5, <2>6 DEF TypeOK, Machines
<1> QED
  BY <1>1, <1>2

LEMMA EnterTypes ==
  ASSUME TypeOK, (\E c \in Clients : Enter(c)) \/ ComeHome
  PROVE  TypeOK'
<1>1. ASSUME NEW c \in Clients, Enter(c) PROVE TypeOK'
  <2>1. cc[c] \in ClientState /\ cc[c].remote \in Announcement
    BY <1>1 DEF Enter, TypeOK, ClientState
  <2>2. [cc[c] EXCEPT !.pulled = cc[c].remote.seq] \in ClientState
    BY <2>1 DEF ClientState, Announcement
  <2>3. cc' = [cc EXCEPT ![c] = [cc[c] EXCEPT !.pulled = cc[c].remote.seq]]
    BY <1>1 DEF Enter
  <2>4. /\ cc' \in [Clients -> ClientState]
        /\ job' \in [Machines -> Announcement \cup {None}]
    BY <1>1, <2>1, <2>2, <2>3 DEF Enter, TypeOK
  <2>5. UNCHANGED <<sync, mine, up, down, seq, owner, own, off, last, crossed, awaited, dropped,
                    copies, faults>>
    BY <1>1 DEF Enter, clip, history, bounds
  <2> QED
    BY <2>4, <2>5 DEF TypeOK, Machines
<1>2. CASE ComeHome
  <2>1. owner.ann \in Announcement
    BY <1>2 DEF ComeHome, TypeOK
  <2>2. last' \in Nat /\ job' \in [Machines -> Announcement \cup {None}]
    BY <1>2, <2>1 DEF ComeHome, TypeOK, Announcement, Machines
  <2>3. UNCHANGED <<sync, mine, up, down, seq, owner, own, off, cc, crossed, awaited, dropped,
                    copies, faults>>
    BY <1>2 DEF ComeHome, clip, history, bounds
  <2> QED
    BY <2>2, <2>3 DEF TypeOK, Machines
<1> QED
  BY <1>1, <1>2

LEMMA LinkTypes ==
  ASSUME TypeOK, NEW c \in Clients,
         Reconnect(c) \/ Switch(c) \/ \E kept \in BOOLEAN : Disconnect(c, kept)
  PROVE  TypeOK'
<1>1. Fresh \in ClientState /\ [Fresh EXCEPT !.on = FALSE] \in ClientState /\ c \in Machines
  BY DEF Fresh, ClientState, Machines
<1>2. CASE Reconnect(c)
  <2>1. TookText(TookFiles(sync[c])) \in Sync
    BY <1>1, SyncOps DEF TypeOK
  <2>2. /\ sync' \in [Machines -> Sync] /\ cc' \in [Clients -> ClientState]
        /\ dropped' \subseteq Machines
    BY <1>1, <1>2, <2>1 DEF Reconnect, TypeOK
  <2>3. UNCHANGED <<mine, up, down, seq, owner, own, off, job, last, crossed, awaited,
                    copies, faults>>
    BY <1>2 DEF Reconnect, files, bounds
  <2> QED
    BY <2>2, <2>3 DEF TypeOK, Machines
<1>3. CASE Switch(c)
  <2>1. off' \subseteq Clients /\ faults' \in Nat
    BY <1>3 DEF Switch, TypeOK
  <2>2. UNCHANGED <<sync, mine, up, down, seq, owner, own, cc, job, last, crossed, awaited,
                    dropped, copies>>
    BY <1>3 DEF Switch, files, history, clip
  <2> QED
    BY <2>1, <2>2 DEF TypeOK, Machines
<1>4. ASSUME NEW kept, Disconnect(c, kept) PROVE TypeOK'
  <2>1. /\ cc' \in [Clients -> ClientState] /\ faults' \in Nat
        /\ up' \in [Clients -> Seq(Item)] /\ down' \in [Clients -> Seq(Transfer)]
        /\ own' \in [Machines -> Announcement \cup {None}]
        /\ owner' \in [who : Machines, ann : Announcement] \cup {None}
        /\ crossed' \subseteq Clients /\ dropped' \subseteq Machines
    BY <1>1, <1>4 DEF Disconnect, TypeOK
  <2>2. UNCHANGED <<sync, mine, seq, off, job, last, awaited, copies>>
    BY <1>4 DEF Disconnect, clip
  <2> QED
    BY <2>1, <2>2 DEF TypeOK, Machines
<1> QED
  BY <1>2, <1>3, <1>4

LEMMA ShareTypes ==
  ASSUME TypeOK, NewFiles(Srv) \/ NewText(Srv), ShareOwn
  PROVE  /\ seq' \in Nat /\ down' \in [Clients -> Seq(Transfer)]
         /\ crossed' \subseteq Clients /\ dropped' \subseteq Machines
<1>1. Srv \in Machines
  BY DEF Machines
<1>2. CASE TooLarge(Srv)
  BY <1>1, <1>2 DEF ShareOwn, TypeOK
<1>3. CASE ~TooLarge(Srv)
  <2> DEFINE t == [seq |-> seq + 1, item |-> Shared(sync[Srv].clip)]
  <2>1. Shared(sync[Srv].clip) \in Item
    BY <1>1, <1>3, News DEF Item
  <2>2. t \in Transfer
    BY <2>1 DEF TypeOK, Transfer
  <2>3. Broadcast(None, t, {}) /\ seq' = seq + 1
    BY <1>3 DEF ShareOwn
  <2> HIDE DEF t
  <2>4. {} \in SUBSET Machines
    OBVIOUS
  <2>5. /\ down' \in [Clients -> Seq(Transfer)]
        /\ crossed' \subseteq Clients /\ dropped' \subseteq Machines
    BY <2>2, <2>3, <2>4, BroadcastTypes
  <2> QED
    BY <2>3, <2>5 DEF TypeOK
<1> QED
  BY <1>2, <1>3

LEMMA ServerPollTypes ==
  ASSUME TypeOK, ServerPoll
  PROVE  TypeOK'
<1>1. Srv \in Machines /\ sync[Srv] \in Sync
  BY DEF Machines, TypeOK
<1>2. UNCHANGED <<mine, up, job, last, cc, off, awaited, copies, faults>>
  BY DEF ServerPoll, bounds
<1>3. TookFiles(sync[Srv]) \in Sync /\ TookText(TookFiles(sync[Srv])) \in Sync
  BY <1>1, SyncOps
<1>4. sync' \in [Machines -> Sync]
  BY <1>1, <1>3 DEF ServerPoll, TypeOK
<1>5. CASE NewFiles(Srv)
  <2>1. ShareOwn
    BY <1>5 DEF ServerPoll
  <2>2. /\ seq' \in Nat /\ down' \in [Clients -> Seq(Transfer)]
        /\ crossed' \subseteq Clients /\ dropped' \subseteq Machines
    BY <1>5, <2>1, ShareTypes
  <2>3. [seq |-> seq', item |-> Shared(sync[Srv].clip)] \in Announcement
    BY <1>1, <1>5, <2>2, News DEF Announcement
  <2>4. /\ own' \in [Machines -> Announcement \cup {None}]
        /\ owner' \in [who : Machines, ann : Announcement] \cup {None}
    <3> DEFINE ann == [seq |-> seq', item |-> Shared(sync[Srv].clip)]
    <3>1. CASE TooLarge(Srv)
      BY <1>5, <3>1 DEF ServerPoll, TypeOK
    <3>2. CASE ~TooLarge(Srv)
      <4>1. own' = [own EXCEPT ![Srv] = ann] /\ owner' = [who |-> Srv, ann |-> ann]
        BY <1>5, <3>2 DEF ServerPoll
      <4>2. ann \in Announcement
        BY <2>3
      <4> HIDE DEF ann
      <4> QED
        BY <1>1, <4>1, <4>2 DEF TypeOK
    <3> QED
      BY <3>1, <3>2
  <2> QED
    BY <1>2, <1>4, <2>2, <2>4 DEF TypeOK, Machines
<1>6. CASE ~NewFiles(Srv)
  <2>1. UNCHANGED <<own, owner>>
    BY <1>6 DEF ServerPoll
  <2>2. /\ seq' \in Nat /\ down' \in [Clients -> Seq(Transfer)]
        /\ crossed' \subseteq Clients /\ dropped' \subseteq Machines
    <3>1. CASE NewText(Srv)
      BY <1>6, <3>1, ShareTypes DEF ServerPoll
    <3>2. CASE ~NewText(Srv)
      BY <1>6, <3>2 DEF ServerPoll, TypeOK
    <3> QED
      BY <3>1, <3>2
  <2> QED
    BY <1>2, <1>4, <2>1, <2>2 DEF TypeOK, Machines
<1> QED
  BY <1>5, <1>6

LEMMA RelayTypes ==
  ASSUME TypeOK, NEW c \in Clients, NEW how, Relay(c, how)
  PROVE  TypeOK'
<1> DEFINE item == Head(up[c])
           ann == [seq |-> seq + 1, item |-> item]
           lost == IF item.kind = "text" /\ how = "failed" THEN {Srv} ELSE {}
<1>1. c \in Machines /\ Srv \in Machines
  BY DEF Machines
<1>2. up[c] \in Seq(Item) /\ up[c] # <<>>
  BY DEF Relay, TypeOK
<1>3. item \in Item /\ up' \in [Clients -> Seq(Item)]
  BY <1>2 DEF Relay, TypeOK
<1>4. seq' \in Nat /\ ann \in Transfer
  BY <1>3 DEF Relay, TypeOK, Transfer
<1>5. Broadcast(LeftOut(c, item), ann, lost) /\ lost \in SUBSET Machines
  BY <1>1 DEF Relay
<1>6. UNCHANGED <<own, job, last, cc, off, copies>>
  BY DEF Relay
<1> HIDE DEF lost
<1>7. /\ down' \in [Clients -> Seq(Transfer)]
      /\ crossed' \subseteq Clients /\ dropped' \subseteq Machines
  BY <1>4, <1>5, BroadcastTypes
<1>8. CASE item.kind = "text"
  <2>1. item \in TextItem
    BY <1>3, <1>8, Kinds
  <2>2. Set(Srv, item, how) /\ UNCHANGED <<owner, awaited>>
    BY <1>8 DEF Relay
  <2>3. sync' \in [Machines -> Sync] /\ mine' \subseteq Machines /\ faults' \in Nat
    BY <1>1, <2>1, <2>2, SetTypes
  <2> QED
    BY <1>3, <1>4, <1>6, <1>7, <2>2, <2>3 DEF TypeOK, Machines
<1>9. CASE item.kind # "text"
  <2>1. item \in FilesItem
    BY <1>3, <1>9 DEF Item, TextItem
  <2>2. owner' \in [who : Machines, ann : Announcement] \cup {None}
    BY <1>1, <1>9, <2>1 DEF Relay, TypeOK, Announcement
  <2>3. awaited' = (cc[c].on /\ cc[c].pend = item /\ ~Expects(c, "files"))
    BY <1>9 DEF Relay
  <2>4. awaited' \in BOOLEAN
    BY <2>3, Zenon
  <2>5. UNCHANGED <<sync, mine, faults>>
    BY <1>9 DEF Relay, clip
  <2> QED
    BY <1>3, <1>4, <1>6, <1>7, <2>2, <2>4, <2>5 DEF TypeOK, Machines
<1> QED
  BY <1>8, <1>9

LEMMA RefuseTypes ==
  ASSUME TypeOK, NEW c \in Clients, Refuse(c)
  PROVE  TypeOK'
<1>1. up' \in [Clients -> Seq(Item)] /\ dropped' \subseteq Machines
  BY DEF Refuse, TypeOK, Machines
<1>2. UNCHANGED <<sync, mine, down, seq, owner, own, job, last, cc, off, crossed, awaited,
                  copies, faults>>
  BY DEF Refuse, clip, files, bounds
<1> QED
  BY <1>1, <1>2 DEF TypeOK, Machines

LEMMA ClientPollTypes ==
  ASSUME TypeOK, NEW c \in Clients, ClientPoll(c)
  PROVE  TypeOK'
<1> DEFINE announces == cc[c].pend = None /\ NewFiles(c) /\ ~TooLarge(c)
           pushes == announces \/ (NewText(c) /\ ~TooLarge(c))
           looked == IF cc[c].pend = None THEN TookFiles(sync[c]) ELSE sync[c]
<1>1. c \in Machines /\ sync[c] \in Sync /\ cc[c] \in ClientState
  BY DEF Machines, TypeOK
<1>2. looked \in Sync /\ TookText(looked) \in Sync
  BY <1>1, SyncOps
<1>3. sync' \in [Machines -> Sync]
  BY <1>1, <1>2 DEF ClientPoll, TypeOK
<1>4. cc' \in [Clients -> ClientState]
  <2>1. CASE announces
    <3>1. [cc[c] EXCEPT !.pend = Shared(sync[c].clip)] \in ClientState
      BY <1>1, <2>1, News DEF ClientState
    <3>2. cc' = [cc EXCEPT ![c] = [cc[c] EXCEPT !.pend = Shared(sync[c].clip)]]
      BY <2>1 DEF ClientPoll
    <3> QED
      BY <3>1, <3>2 DEF TypeOK
  <2>2. CASE ~announces
    BY <2>2 DEF ClientPoll, TypeOK
  <2> QED
    BY <2>1, <2>2
<1>5. up' \in [Clients -> Seq(Item)]
  <2>1. CASE pushes
    <3>1. Shared(sync[c].clip) \in Item
      BY <1>1, <2>1, News DEF Item
    <3>2. up' = [up EXCEPT ![c] = Append(up[c], Shared(sync[c].clip))]
      BY <2>1 DEF ClientPoll
    <3> QED
      BY <3>1, <3>2 DEF TypeOK
  <2>2. CASE ~pushes
    BY <2>2 DEF ClientPoll, TypeOK
  <2> QED
    BY <2>1, <2>2
<1>6. crossed' \subseteq Clients /\ dropped' \subseteq Machines
  <2>1. crossed' \in {crossed, crossed \cup {c}, crossed \ {c}}
    BY Zenon DEF ClientPoll
  <2>2. dropped' \in {dropped, dropped \cup {c}}
    BY Zenon DEF ClientPoll
  <2> QED
    BY <1>1, <2>1, <2>2 DEF TypeOK
<1>7. UNCHANGED <<mine, down, seq, owner, own, job, last, off, awaited, copies, faults>>
  BY DEF ClientPoll, files, bounds
<1> QED
  BY <1>3, <1>4, <1>5, <1>6, <1>7 DEF TypeOK, Machines

LEMMA ClientTakeTypes ==
  ASSUME TypeOK, NEW c \in Clients, NEW how, ClientTake(c, how)
  PROVE  TypeOK'
<1> DEFINE ann == Head(down[c])
<1>1. c \in Machines /\ cc[c] \in ClientState
  BY DEF Machines, TypeOK
<1>2. down[c] \in Seq(Transfer) /\ down[c] # <<>>
  BY DEF ClientTake, TypeOK
<1>3. ann \in Transfer /\ ann.item \in Item /\ down' \in [Clients -> Seq(Transfer)]
  <2>1. ann \in Transfer /\ Tail(down[c]) \in Seq(Transfer)
    BY <1>2
  <2>2. down' = [down EXCEPT ![c] = Tail(down[c])]
    BY DEF ClientTake
  <2> QED
    BY <2>1, <2>2 DEF TypeOK, Transfer
<1>4. UNCHANGED <<up, seq, owner, job, last, off, crossed, awaited, copies>>
  BY DEF ClientTake
<1>5. CASE ~Arrives(ann.item)
  <2>1. UNCHANGED <<sync, mine, faults, cc, own>> /\ dropped' = dropped \cup {c}
    BY <1>5 DEF ClientTake, clip
  <2> QED
    BY <1>1, <1>3, <1>4, <2>1 DEF TypeOK, Machines
<1>6. CASE Arrives(ann.item) /\ ann.item.kind = "files"
  <2>1. UNCHANGED <<sync, mine, faults, dropped>> /\ Announced(c, ann)
    BY <1>6 DEF ClientTake, clip
  <2>2. ann \in Announcement
    BY <1>3, <1>6, Kinds DEF Announcement, Transfer
  <2> HIDE DEF ann
  <2>3. [cc[c] EXCEPT !.pend = None, !.remote = None] \in ClientState
    BY <1>1 DEF ClientState
  <2>4. [cc[c] EXCEPT !.remote = ann] \in ClientState
    BY <1>1, <2>2 DEF ClientState
  <2>5. \/ cc' = [cc EXCEPT ![c] = [cc[c] EXCEPT !.pend = None, !.remote = None]]
        \/ cc' = [cc EXCEPT ![c] = [cc[c] EXCEPT !.remote = ann]]
    BY <2>1 DEF Announced
  <2>6. cc' \in [Clients -> ClientState]
    BY <2>3, <2>4, <2>5 DEF TypeOK
  <2>7. own' \in [Machines -> Announcement \cup {None}]
    BY <1>1, <2>1, <2>2 DEF Announced, TypeOK
  <2> QED
    BY <1>3, <1>4, <2>1, <2>6, <2>7 DEF TypeOK, Machines
<1>7. CASE Arrives(ann.item) /\ ann.item.kind # "files"
  <2>1. /\ Set(c, ann.item, how) /\ UNCHANGED <<cc, own>>
        /\ dropped' \in {dropped, dropped \cup {c}}
    BY <1>7 DEF ClientTake
  <2>2. ann.item \in TextItem
    BY <1>3, <1>7 DEF Item, FilesItem
  <2>3. sync' \in [Machines -> Sync] /\ mine' \subseteq Machines /\ faults' \in Nat
    BY <1>1, <2>1, <2>2, SetTypes
  <2> QED
    BY <1>1, <1>3, <1>4, <2>1, <2>3 DEF TypeOK, Machines
<1> QED
  BY <1>5, <1>6, <1>7

LEMMA NextTypes == TypeOK /\ [Next]_vars => TypeOK'
<1> SUFFICES ASSUME TypeOK, [Next]_vars PROVE TypeOK'
  OBVIOUS
<1>1. CASE \E m \in Machines :
             User(m) \/ PullFails(m) \/ \E how \in {"now", "late"} : PullDone(m, how)
  BY <1>1, CopyTypes, PullTypes
<1>2. CASE \E c \in Clients : ClientStep(c)
  BY <1>2, ClientPollTypes, RefuseTypes, RelayTypes, ClientTakeTypes DEF ClientStep
<1>3. CASE \E c \in Clients : Reconnect(c) \/ Switch(c) \/ \E kept \in BOOLEAN : Disconnect(c, kept)
  BY <1>3, LinkTypes
<1>4. CASE ServerPoll
  BY <1>4, ServerPollTypes
<1>5. CASE (\E c \in Clients : Enter(c)) \/ ComeHome
  BY <1>5, EnterTypes
<1>6. CASE UNCHANGED vars
  BY <1>6 DEF vars, clip, files, history, bounds, TypeOK, Machines
<1> QED
  BY <1>1, <1>2, <1>3, <1>4, <1>5, <1>6, Zenon DEF Next

\* The types: texts and announcements each where they belong, whatever is copied and lost.
THEOREM RelayTypesHold == Spec => []TypeOK
  BY InitTypes, NextTypes, PTL DEF Spec

----------------------------------------------------------------------------
(* NoEcho.                                                                 *)

\* What is on a clipboard that no application filled last is what its ClipboardSync has seen.
Known(s) == (s.clip.kind = "text" => s.clip = s.seen) /\ (s.clip.kind = "files" => s.clip = s.fseen)
NotOurs == \A m \in Machines \ mine : Known(sync[m])

LEMMA KnownOps ==
  ASSUME NEW s \in Sync
  PROVE  /\ Known(s) => Known(TookFiles(s)) /\ Known(TookText(s))
         /\ \A item \in TextItem : \A how : Known(Applied(s, item, how))
         /\ \A item \in FilesItem : \A how : Known(AppliedFiles(s, item, how))
<1>1. Known(s) => Known(TookFiles(s)) /\ Known(TookText(s))
  BY DEF Known, TookFiles, TookText, Sync
<1>2. ASSUME NEW item \in TextItem, NEW how PROVE Known(Applied(s, item, how))
  BY DEF Known, Applied, ReadBack, TextItem, Sync
<1>3. ASSUME NEW item \in FilesItem, NEW how PROVE Known(AppliedFiles(s, item, how))
  BY DEF Known, AppliedFiles, Pulled, FilesItem, Sync
<1> QED
  BY <1>1, <1>2, <1>3

LEMMA SetNotOurs ==
  ASSUME TypeOK, NotOurs, NEW m \in Machines, NEW item \in TextItem, NEW how, Set(m, item, how)
  PROVE  NotOurs'
<1>1. sync[m] \in Sync
  BY DEF TypeOK
<1>2. Known(Applied(sync[m], item, how))
  BY <1>1, KnownOps
<1>3. CASE how = "failed"
  BY <1>3 DEF Set, NotOurs, clip, Known
<1>4. CASE how # "failed"
  <2>1. sync' = [sync EXCEPT ![m] = Applied(sync[m], item, how)] /\ mine' = mine \ {m}
    BY <1>4 DEF Set
  <2> SUFFICES ASSUME NEW n \in Machines \ mine' PROVE Known(sync'[n])
    BY DEF NotOurs, Known
  <2>2. CASE n = m
    BY <1>2, <2>1, <2>2 DEF TypeOK
  <2>3. CASE n # m
    BY <2>1, <2>3 DEF TypeOK, NotOurs
  <2> QED
    BY <2>2, <2>3
<1> QED
  BY <1>3, <1>4

LEMMA NextNotOurs == TypeOK /\ NotOurs /\ [Next]_vars => NotOurs'
<1> SUFFICES ASSUME TypeOK, NotOurs, [Next]_vars PROVE NotOurs'
  OBVIOUS
<1>1. Clients \subseteq Machines /\ Srv \in Machines
  BY DEF Machines
<1> DEFINE Looked(m) == {TookFiles(sync[m]), TookText(sync[m]), TookText(TookFiles(sync[m]))}
<1>2. ASSUME NEW m \in Machines, NEW s \in Looked(m), sync' = [sync EXCEPT ![m] = s], mine' = mine
      PROVE  NotOurs'
  <2>1. sync[m] \in Sync /\ TookFiles(sync[m]) \in Sync
    BY SyncOps DEF TypeOK
  <2>2. Known(sync[m]) => Known(s)
    BY <2>1, KnownOps
  <2> HIDE DEF Looked
  <2> SUFFICES ASSUME NEW n \in Machines \ mine PROVE Known(sync'[n])
    BY <1>2 DEF NotOurs, Known
  <2>3. sync'[n] = IF n = m THEN s ELSE sync[n]
    BY <1>2 DEF TypeOK
  <2>4. CASE n = m
    BY <2>2, <2>3, <2>4 DEF NotOurs
  <2>5. CASE n # m
    BY <2>3, <2>5 DEF NotOurs
  <2> QED
    BY <2>4, <2>5
<1>3. ASSUME NEW m \in Machines, User(m) PROVE NotOurs'
  <2>1. PICK item : Copy(m, item)
    BY <1>3 DEF User
  <2> SUFFICES ASSUME NEW n \in Machines \ mine' PROVE Known(sync'[n])
    BY DEF NotOurs, Known
  <2> QED
    BY <2>1 DEF Copy, TypeOK, NotOurs
<1>4. ASSUME NEW m \in Machines, NEW how, PullDone(m, how) PROVE NotOurs'
  <2>1. job[m] \in Announcement
    BY <1>4 DEF PullDone, TypeOK
  <2>2. job[m].item \in FilesItem
    BY <2>1 DEF Announcement
  <2>3. sync[m] \in Sync
    BY DEF TypeOK
  <2>4. Known(AppliedFiles(sync[m], job[m].item, how))
    BY <2>2, <2>3, KnownOps
  <2>5. sync' = [sync EXCEPT ![m] = AppliedFiles(sync[m], job[m].item, how)] /\ mine' = mine \ {m}
    BY <1>4 DEF PullDone
  <2> SUFFICES ASSUME NEW n \in Machines \ mine' PROVE Known(sync'[n])
    BY DEF NotOurs, Known
  <2>6. CASE n = m
    BY <2>4, <2>5, <2>6 DEF TypeOK
  <2>7. CASE n # m
    BY <2>5, <2>7 DEF TypeOK, NotOurs
  <2> QED
    BY <2>6, <2>7
<1>5. CASE ServerPoll
  <2>1. mine' = mine /\ \E s \in Looked(Srv) : sync' = [sync EXCEPT ![Srv] = s]
    BY <1>5 DEF ServerPoll
  <2> QED
    BY <1>1, <1>2, <2>1
<1>6. ASSUME NEW c \in Clients, ClientPoll(c) PROVE NotOurs'
  <2>1. mine' = mine /\ \E s \in Looked(c) : sync' = [sync EXCEPT ![c] = s]
    BY <1>6 DEF ClientPoll
  <2> QED
    BY <1>1, <1>2, <2>1
<1>7. ASSUME NEW c \in Clients, Reconnect(c) PROVE NotOurs'
  BY <1>1, <1>2, <1>7 DEF Reconnect
<1>8. ASSUME NEW c \in Clients, NEW how, Relay(c, how) PROVE NotOurs'
  <2>1. Head(up[c]) \in Item
    BY <1>8 DEF Relay, TypeOK
  <2>2. CASE Head(up[c]).kind = "text"
    BY <1>1, <1>8, <2>1, <2>2, Kinds, SetNotOurs DEF Relay
  <2>3. CASE Head(up[c]).kind # "text"
    BY <1>8, <2>3 DEF Relay, clip, NotOurs, Known
  <2> QED
    BY <2>2, <2>3
<1>9. ASSUME NEW c \in Clients, NEW how, ClientTake(c, how) PROVE NotOurs'
  <2>1. Head(down[c]) \in Transfer
    BY <1>9 DEF ClientTake, TypeOK
  <2>2. Head(down[c]).item \in Item
    BY <2>1 DEF Transfer
  <2>3. CASE Arrives(Head(down[c]).item) /\ Head(down[c]).item.kind # "files"
    <3>1. Head(down[c]).item \in TextItem
      BY <2>2, <2>3 DEF Item, FilesItem
    <3> QED
      BY <1>1, <1>9, <2>3, <3>1, SetNotOurs DEF ClientTake
  <2>4. CASE ~(Arrives(Head(down[c]).item) /\ Head(down[c]).item.kind # "files")
    BY <1>9, <2>4 DEF ClientTake, clip, NotOurs, Known
  <2> QED
    BY <2>3, <2>4
<1>10. CASE UNCHANGED clip
  BY <1>10 DEF clip, NotOurs, Known
<1>11. ASSUME NEW c \in Clients,
              Enter(c) \/ Switch(c) \/ Refuse(c) \/ \E kept \in BOOLEAN : Disconnect(c, kept)
       PROVE  UNCHANGED clip
  BY <1>11 DEF Enter, Switch, Refuse, Disconnect
<1>12. ASSUME NEW m \in Machines, PullFails(m) PROVE UNCHANGED clip
  BY <1>12 DEF PullFails
<1>13. ComeHome \/ UNCHANGED vars => UNCHANGED clip
  BY DEF ComeHome, vars
<1> QED
  BY <1>3, <1>4, <1>5, <1>6, <1>7, <1>8, <1>9, <1>10, <1>11, <1>12, <1>13 DEF Next, ClientStep

LEMMA InitNotOurs == Init => NotOurs
  BY DEF Init, NotOurs, Known, Nothing

\* Only what is new to ClipboardSync is pushed or announced.
LEMMA NewsIsOurs ==
  ASSUME NotOurs, NEW m \in Machines, NewFiles(m) \/ NewText(m)
  PROVE  m \in mine
  BY DEF NotOurs, Known, NewFiles, NewText

\* Only its own poll adds to what a client pushes.
LEMMA PushesArePolled ==
  ASSUME TypeOK, [Next]_vars, NEW c \in Clients, Len(up'[c]) > Len(up[c])
  PROVE  NewFiles(c) \/ NewText(c)
<1>1. up[c] \in Seq(Item)
  BY DEF TypeOK
<1>2. ASSUME NEW d \in Clients, ClientPoll(d) PROVE NewFiles(c) \/ NewText(c)
  <2>1. CASE d = c
    BY <1>1, <1>2, <2>1 DEF ClientPoll, TypeOK
  <2>2. CASE d # c
    BY <1>1, <1>2, <2>2 DEF ClientPoll, TypeOK
  <2> QED
    BY <2>1, <2>2
<1>3. ASSUME NEW d \in Clients,
             Refuse(d) \/ \E how \in {"now", "late", "failed"} : Relay(d, how)
      PROVE  FALSE
  <2>1. up[d] # <<>> /\ up' = [up EXCEPT ![d] = Tail(up[d])] /\ up[d] \in Seq(Item)
    BY <1>3 DEF Refuse, Relay, TypeOK
  <2>2. CASE d = c
    BY <1>1, <2>1, <2>2 DEF TypeOK
  <2>3. CASE d # c
    BY <1>1, <2>1, <2>3 DEF TypeOK
  <2> QED
    BY <2>2, <2>3
<1>4. ASSUME NEW d \in Clients, NEW kept, Disconnect(d, kept) PROVE FALSE
  <2>1. up'[c] \in {up[c], <<>>}
    BY <1>4 DEF Disconnect, TypeOK
  <2> QED
    BY <1>1, <2>1
<1>5. up' # up
  BY <1>1
<1>6. \A d \in Clients : Enter(d) \/ Switch(d) \/ Reconnect(d) => up' = up
  BY DEF Enter, Switch, Reconnect
<1>7. \A d \in Clients : \A how : ClientTake(d, how) => up' = up
  BY DEF ClientTake
<1>8. \A m \in Machines : User(m) \/ PullFails(m) \/ (\E how \in {"now", "late"} : PullDone(m, how)) => up' = up
  BY DEF User, Copy, PullFails, PullDone
<1>9. ServerPoll \/ ComeHome \/ UNCHANGED vars => up' = up
  BY DEF ServerPoll, ComeHome, vars
<1> QED
  BY <1>2, <1>3, <1>4, <1>5, <1>6, <1>7, <1>8, <1>9 DEF Next, ClientStep

\* The relay numbers what a client pushed, which it takes, or what the server's poll found.
LEMMA NumbersAreSpent ==
  ASSUME TypeOK, [Next]_vars, seq' # seq, up' = up
  PROVE  NewFiles(Srv) \/ NewText(Srv)
<1>1. CASE ServerPoll
  BY <1>1 DEF ServerPoll
<1>2. ASSUME NEW d \in Clients, NEW how, Relay(d, how) PROVE FALSE
  <2>1. up[d] # <<>> /\ up' = [up EXCEPT ![d] = Tail(up[d])] /\ up[d] \in Seq(Item)
    BY <1>2 DEF Relay, TypeOK
  <2>2. up'[d] = Tail(up[d])
    BY <2>1 DEF TypeOK
  <2>3. Len(Tail(up[d])) # Len(up[d])
    BY <2>1
  <2> QED
    BY <2>2, <2>3
<1>3. \A d \in Clients : ClientPoll(d) \/ Refuse(d) \/ Enter(d) \/ Switch(d) \/ Reconnect(d) => seq' = seq
  BY DEF Enter, Switch, Reconnect, ClientPoll, Refuse
<1>4. \A d \in Clients : \A x : ClientTake(d, x) \/ Disconnect(d, x) => seq' = seq
  BY DEF ClientTake, Disconnect
<1>5. \A m \in Machines : User(m) \/ PullFails(m) \/ (\E how \in {"now", "late"} : PullDone(m, how)) => seq' = seq
  BY DEF User, Copy, PullFails, PullDone
<1>6. ComeHome \/ UNCHANGED vars => seq' = seq
  BY DEF ComeHome, vars
<1> QED
  BY <1>1, <1>2, <1>3, <1>4, <1>5, <1>6 DEF Next, ClientStep

\* What arrives is never offered back: a machine pushes or announces only what an application
\* copied there, whatever the platform makes of what it is given and whenever it counts it.
THEOREM RelayNoEcho == Spec => NoEcho
<1>1. TypeOK /\ NotOurs /\ [Next]_vars
        => [/\ \A c \in Clients : Len(up'[c]) > Len(up[c]) => c \in mine
            /\ seq' # seq /\ up' = up => Srv \in mine]_vars
  BY PushesArePolled, NumbersAreSpent, NewsIsOurs DEF Machines
<1> QED
  BY <1>1, InitTypes, InitNotOurs, NextTypes, NextNotOurs, PTL DEF Spec, NoEcho

----------------------------------------------------------------------------
(* OwnerServes.                                                            *)

\* No announcement is in a queue, or only this one.
NoneIn(q) == \A i \in 1..Len(q) : q[i].item.kind # "files"
OnlyIn(q, a) == \E k \in 1..Len(q) :
  q[k] = a /\ \A i \in 1..Len(q) : q[i].item.kind = "files" => i = k

\* A client the relay took an awaited announcement from serves it, or its echo is the next
\* announcement it gets.
Awaits(c) ==
  /\ cc[c].on
  /\ \/ own[c] = owner.ann /\ NoneIn(down[c])
     \/ cc[c].pend = owner.ann.item /\ Arrives(owner.ann.item) /\ OnlyIn(down[c], owner.ann)

OwnerInv ==
  owner # None =>
    /\ owner.who = Srv => own[Srv] = owner.ann
    /\ owner.who \in Clients /\ awaited => Awaits(owner.who)

LEMMA QueueAppend ==
  ASSUME NEW q \in Seq(Transfer), NEW t \in Transfer, NEW a
  PROVE  /\ t.item.kind # "files" /\ NoneIn(q) => NoneIn(Append(q, t))
         /\ t.item.kind # "files" /\ OnlyIn(q, a) => OnlyIn(Append(q, t), a)
         /\ NoneIn(q) => OnlyIn(Append(q, t), t)
<1>1. /\ Len(Append(q, t)) = Len(q) + 1 /\ Append(q, t)[Len(q) + 1] = t /\ Len(q) \in Nat
      /\ \A i \in 1..Len(q) : Append(q, t)[i] = q[i]
  OBVIOUS
<1>2. \A i \in 1..(Len(q) + 1) : i \in 1..Len(q) \/ i = Len(q) + 1
  BY <1>1
<1>3. t.item.kind # "files" /\ NoneIn(q) => NoneIn(Append(q, t))
  BY <1>1, <1>2 DEF NoneIn
<1>4. ASSUME t.item.kind # "files", OnlyIn(q, a) PROVE OnlyIn(Append(q, t), a)
  <2>1. PICK k \in 1..Len(q) :
          q[k] = a /\ \A i \in 1..Len(q) : q[i].item.kind = "files" => i = k
    BY <1>4 DEF OnlyIn
  <2>2. k \in 1..Len(Append(q, t)) /\ Append(q, t)[k] = a
    BY <1>1, <2>1
  <2>3. \A i \in 1..Len(Append(q, t)) : Append(q, t)[i].item.kind = "files" => i = k
    BY <1>1, <1>2, <1>4, <2>1
  <2> QED
    BY <2>2, <2>3 DEF OnlyIn
<1>5. ASSUME NoneIn(q) PROVE OnlyIn(Append(q, t), t)
  <2>1. Len(q) + 1 \in 1..Len(Append(q, t)) /\ Append(q, t)[Len(q) + 1] = t
    BY <1>1
  <2>2. \A i \in 1..Len(Append(q, t)) :
          Append(q, t)[i].item.kind = "files" => i = Len(q) + 1
    BY <1>1, <1>2, <1>5 DEF NoneIn
  <2> QED
    BY <2>1, <2>2 DEF OnlyIn
<1> QED
  BY <1>3, <1>4, <1>5

LEMMA QueueTail ==
  ASSUME NEW q \in Seq(Transfer), q # <<>>, NEW a, a.item.kind = "files"
  PROVE  /\ NoneIn(q) => Head(q).item.kind # "files" /\ NoneIn(Tail(q))
         /\ OnlyIn(q, a) /\ Head(q).item.kind = "files" => Head(q) = a /\ NoneIn(Tail(q))
         /\ OnlyIn(q, a) /\ Head(q).item.kind # "files" => OnlyIn(Tail(q), a)
<1>1. /\ Len(Tail(q)) = Len(q) - 1 /\ Len(q) \in Nat /\ Len(q) > 0 /\ Head(q) = q[1]
      /\ \A i \in 1..Len(Tail(q)) : Tail(q)[i] = q[i + 1]
  OBVIOUS
<1>2. \A i \in 1..Len(Tail(q)) : i + 1 \in 1..Len(q) /\ i + 1 # 1
  BY <1>1
<1>3. NoneIn(q) => Head(q).item.kind # "files" /\ NoneIn(Tail(q))
  BY <1>1, <1>2 DEF NoneIn
<1>4. ASSUME OnlyIn(q, a), Head(q).item.kind = "files"
      PROVE  Head(q) = a /\ NoneIn(Tail(q))
  <2>1. PICK k \in 1..Len(q) :
          q[k] = a /\ \A i \in 1..Len(q) : q[i].item.kind = "files" => i = k
    BY <1>4 DEF OnlyIn
  <2>2. 1 \in 1..Len(q) /\ k = 1
    BY <1>1, <1>4, <2>1
  <2> QED
    BY <1>1, <1>2, <2>1, <2>2 DEF NoneIn
<1>5. ASSUME OnlyIn(q, a), Head(q).item.kind # "files" PROVE OnlyIn(Tail(q), a)
  <2>1. PICK k \in 1..Len(q) :
          q[k] = a /\ \A i \in 1..Len(q) : q[i].item.kind = "files" => i = k
    BY <1>5 DEF OnlyIn
  <2>2. k # 1
    BY <1>1, <1>5, <2>1
  <2>3. k - 1 \in 1..Len(Tail(q)) /\ Tail(q)[k - 1] = a
    BY <1>1, <2>1, <2>2
  <2>4. \A i \in 1..Len(Tail(q)) : Tail(q)[i].item.kind = "files" => i = k - 1
    BY <1>1, <1>2, <2>1
  <2> QED
    BY <2>3, <2>4 DEF OnlyIn
<1> QED
  BY <1>3, <1>4, <1>5

\* A step that touches neither the owner nor what its client waits for.
LEMMA OwnerFrame ==
  ASSUME TypeOK, OwnerInv, UNCHANGED <<owner, awaited>>,
         owner # None => /\ own'[owner.who] = own[owner.who]
                         /\ owner.who \in Clients =>
                              /\ cc'[owner.who].on = cc[owner.who].on
                              /\ cc'[owner.who].pend = cc[owner.who].pend
                              /\ down'[owner.who] = down[owner.who]
  PROVE  OwnerInv'
  BY DEF OwnerInv, Awaits

\* A text that is sent: it is queued behind what the owner waits for.
LEMMA OwnerText ==
  ASSUME TypeOK, OwnerInv, UNCHANGED <<owner, awaited, own, cc>>, NEW except, NEW lost,
         NEW t \in Transfer, t.item.kind # "files", Broadcast(except, t, lost)
  PROVE  OwnerInv'
<1>1. CASE owner = None \/ owner.who \notin Clients
  BY <1>1 DEF OwnerInv
<1>2. CASE owner # None /\ owner.who \in Clients /\ ~awaited
  BY <1>2, RelayAssumption DEF OwnerInv
<1>3. CASE owner # None /\ owner.who \in Clients /\ awaited
  <2>1. PICK c \in Clients : c = owner.who
    BY <1>3
  <2>2. down[c] \in Seq(Transfer) /\ Awaits(c)
    BY <1>3, <2>1 DEF OwnerInv, TypeOK
  <2>3. down'[c] \in {down[c], Append(down[c], t)}
    BY DEF Broadcast
  <2>4. /\ NoneIn(down[c]) => NoneIn(down'[c])
        /\ OnlyIn(down[c], owner.ann) => OnlyIn(down'[c], owner.ann)
    BY <2>2, <2>3, QueueAppend
  <2>5. Awaits(c)'
    BY <2>2, <2>4 DEF Awaits
  <2> QED
    BY <1>3, <2>1, <2>5, RelayAssumption DEF OwnerInv
<1> QED
  BY <1>1, <1>2, <1>3

LEMMA OwnerPoll ==
  ASSUME TypeOK, OwnerInv, ServerPoll
  PROVE  OwnerInv'
<1>1. UNCHANGED <<awaited, cc>> /\ Srv \in Machines
  BY DEF ServerPoll, Machines
<1>2. CASE NewFiles(Srv) /\ ~TooLarge(Srv)
  <2>1. owner' = [who |-> Srv, ann |-> [seq |-> seq', item |-> Shared(sync[Srv].clip)]]
    BY <1>2 DEF ServerPoll
  <2>2. own' = [own EXCEPT ![Srv] = [seq |-> seq', item |-> Shared(sync[Srv].clip)]]
    BY <1>2 DEF ServerPoll
  <2>3. own'[Srv] = [seq |-> seq', item |-> Shared(sync[Srv].clip)]
    BY <1>1, <2>2 DEF TypeOK
  <2> QED
    BY <2>1, <2>3, RelayAssumption DEF OwnerInv
<1>3. CASE ~NewFiles(Srv) /\ NewText(Srv) /\ ~TooLarge(Srv)
  <2> DEFINE t == [seq |-> seq + 1, item |-> Shared(sync[Srv].clip)]
  <2>1. Shared(sync[Srv].clip) \in TextItem
    BY <1>1, <1>3, News
  <2>2. t \in Transfer /\ t.item.kind # "files"
    BY <2>1 DEF Transfer, Item, TextItem, TypeOK
  <2>3. Broadcast(None, t, {}) /\ UNCHANGED <<owner, own>>
    BY <1>3 DEF ServerPoll, ShareOwn
  <2> HIDE DEF t
  <2> QED
    BY <1>1, <2>2, <2>3, OwnerText
<1>4. CASE TooLarge(Srv) \/ (~NewFiles(Srv) /\ ~NewText(Srv))
  <2>1. UNCHANGED <<owner, own, down>>
    BY <1>4 DEF ServerPoll, ShareOwn
  <2> QED
    BY <1>1, <2>1, OwnerFrame
<1> QED
  BY <1>2, <1>3, <1>4

LEMMA OwnerRelay ==
  ASSUME TypeOK, OwnerInv, NEW c \in Clients, NEW how, Relay(c, how)
  PROVE  OwnerInv'
<1> DEFINE item == Head(up[c])
           ann == [seq |-> seq + 1, item |-> item]
           lost == IF item.kind = "text" /\ how = "failed" THEN {Srv} ELSE {}
<1>1. item \in Item /\ ann \in Transfer /\ Arrives(item)
  BY DEF Relay, TypeOK, Transfer
<1>2. Broadcast(LeftOut(c, item), ann, lost) /\ UNCHANGED <<own, cc>>
  BY DEF Relay
<1> HIDE DEF lost
<1>3. CASE item.kind = "text"
  <2>1. UNCHANGED <<owner, awaited>>
    BY <1>3 DEF Relay
  <2>2. ann.item.kind # "files"
    BY <1>3
  <2> QED
    BY <1>1, <1>2, <2>1, <2>2, OwnerText
<1>4. CASE item.kind # "text"
  <2>1. /\ owner' = [who |-> c, ann |-> ann]
        /\ awaited' <=> (cc[c].on /\ cc[c].pend = item /\ ~Expects(c, "files"))
    BY <1>4, Zenon DEF Relay
  <2>2. item.kind = "files"
    BY <1>1, <1>4 DEF Item, TextItem, FilesItem
  <2>3. owner'.who = c /\ owner'.who # Srv /\ owner'.ann = ann
    BY <2>1, RelayAssumption
  <2>4. ASSUME awaited' PROVE Awaits(c)'
    <3>1. cc[c].on /\ cc[c].pend = item /\ NoneIn(down[c])
      BY <2>1, <2>4 DEF Expects, NoneIn, TypeOK
    <3>2. Listens(c) /\ LeftOut(c, item) = None
      BY <2>2, <3>1 DEF Relay, Listens, LeftOut
    <3>3. c # None
      BY RelayAssumption DEF Machines
    <3>4. down'[c] = Append(down[c], ann)
      BY <1>2, <3>2, <3>3 DEF Broadcast
    <3>5. down[c] \in Seq(Transfer)
      BY DEF TypeOK
    <3>6. OnlyIn(down'[c], ann)
      BY <1>1, <3>1, <3>4, <3>5, QueueAppend
    <3>7. cc'[c].on /\ cc'[c].pend = owner'.ann.item /\ Arrives(owner'.ann.item)
      BY <1>1, <1>2, <2>3, <3>1
    <3> QED
      BY <2>3, <3>6, <3>7 DEF Awaits, Arrives
  <2> QED
    BY <2>3, <2>4 DEF OwnerInv
<1> QED
  BY <1>3, <1>4

LEMMA OwnerTake ==
  ASSUME TypeOK, OwnerInv, NEW c \in Clients, NEW how, ClientTake(c, how)
  PROVE  OwnerInv'
<1> DEFINE ann == Head(down[c])
<1>1. UNCHANGED <<owner, awaited>> /\ down' = [down EXCEPT ![c] = Tail(down[c])]
  BY DEF ClientTake
<1>2. down[c] \in Seq(Transfer) /\ down[c] # <<>> /\ c # Srv /\ c \in Machines
  BY RelayAssumption DEF ClientTake, TypeOK, Machines
<1>3. ann \in Transfer /\ down'[c] = Tail(down[c])
  BY <1>1, <1>2 DEF TypeOK
<1>4. /\ own' = own \/ \E a : own' = [own EXCEPT ![c] = a]
      /\ cc' = cc \/ \E s : cc' = [cc EXCEPT ![c] = s] /\ s.on = cc[c].on
  BY DEF ClientTake, Announced, TypeOK, ClientState
<1>5. CASE owner = None \/ owner.who # c
  <2>1. owner # None => own'[owner.who] = own[owner.who]
    BY <1>4, <1>5 DEF TypeOK
  <2>2. owner # None /\ owner.who \in Clients =>
          cc'[owner.who] = cc[owner.who] /\ down'[owner.who] = down[owner.who]
    BY <1>1, <1>4, <1>5 DEF TypeOK
  <2> QED
    BY <1>1, <2>1, <2>2, OwnerFrame
<1>6. CASE owner # None /\ owner.who = c /\ awaited
  <2>1. Awaits(c) /\ owner.ann.item.kind = "files"
    BY <1>6 DEF OwnerInv, TypeOK, Announcement, FilesItem
  <2>2. CASE ann.item.kind # "files"
    <3>1. UNCHANGED <<cc, own>>
      BY <2>2 DEF ClientTake
    <3>2. /\ NoneIn(down[c]) => NoneIn(down'[c])
          /\ OnlyIn(down[c], owner.ann) => OnlyIn(down'[c], owner.ann)
      BY <1>2, <1>3, <2>1, <2>2, QueueTail
    <3>3. Awaits(c)'
      BY <1>1, <2>1, <3>1, <3>2 DEF Awaits
    <3> QED
      BY <1>1, <1>2, <1>6, <3>3 DEF OwnerInv
  <2>3. CASE ann.item.kind = "files"
    <3>1. /\ cc[c].pend = owner.ann.item /\ Arrives(owner.ann.item) /\ OnlyIn(down[c], owner.ann)
          /\ cc[c].on
      BY <1>2, <2>1, <2>3, QueueTail DEF Awaits
    <3>2. ann = owner.ann /\ NoneIn(down'[c])
      BY <1>2, <1>3, <2>1, <2>3, <3>1, QueueTail
    <3>3. Announced(c, ann)
      BY <2>3, <3>1, <3>2 DEF ClientTake
    <3>4. cc[c].pend # None
      <4>1. owner.ann.item \in FilesItem
        BY <1>6 DEF TypeOK, Announcement
      <4> QED
        BY <3>1, <4>1, RelayAssumption DEF Item
    <3>5. own' = [own EXCEPT ![c] = ann] /\ cc'[c].on = cc[c].on
      BY <3>1, <3>2, <3>3, <3>4 DEF Announced, TypeOK, ClientState
    <3>6. own'[c] = owner'.ann /\ cc'[c].on
      BY <1>1, <1>2, <3>1, <3>2, <3>5 DEF TypeOK
    <3>7. Awaits(c)'
      BY <3>2, <3>6 DEF Awaits
    <3> QED
      BY <1>1, <1>2, <1>6, <3>7 DEF OwnerInv
  <2> QED
    BY <2>2, <2>3
<1>7. CASE owner # None /\ owner.who = c /\ ~awaited
  BY <1>1, <1>2, <1>7 DEF OwnerInv
<1> QED
  BY <1>5, <1>6, <1>7

LEMMA NextOwner == TypeOK /\ OwnerInv /\ [Next]_vars => OwnerInv'
<1> SUFFICES ASSUME TypeOK, OwnerInv, [Next]_vars PROVE OwnerInv'
  OBVIOUS
<1>1. CASE ServerPoll
  BY <1>1, OwnerPoll
<1>2. ASSUME NEW c \in Clients, NEW how, Relay(c, how) \/ ClientTake(c, how) PROVE OwnerInv'
  BY <1>2, OwnerRelay, OwnerTake
<1>3. ASSUME NEW c \in Clients, ClientPoll(c) PROVE OwnerInv'
  <2>1. UNCHANGED <<owner, awaited, own, down>>
    BY <1>3 DEF ClientPoll, files
  <2>2. /\ cc'[c].on = cc[c].on
        /\ cc[c].pend # None => cc'[c].pend = cc[c].pend
        /\ \A d \in Clients \ {c} : cc'[d] = cc[d]
    BY <1>3 DEF ClientPoll, TypeOK, ClientState
  <2>3. CASE owner # None /\ owner.who = c /\ awaited
    <3>1. owner.ann.item \in FilesItem
      BY <2>3 DEF TypeOK, Announcement
    <3>2. owner.ann.item # None
      BY <3>1, RelayAssumption DEF Item
    <3>3. Awaits(c)
      BY <1>3, <2>3 DEF OwnerInv
    <3>4. Awaits(c)'
      BY <2>1, <2>2, <3>2, <3>3 DEF Awaits, Arrives
    <3> QED
      BY <2>1, <2>3, <3>4, RelayAssumption DEF OwnerInv
  <2>4. CASE owner # None /\ owner.who = c /\ ~awaited
    BY <1>3, <2>1, <2>4, RelayAssumption DEF OwnerInv
  <2>5. CASE owner = None \/ owner.who # c
    BY <2>1, <2>2, <2>5, OwnerFrame
  <2> QED
    BY <2>3, <2>4, <2>5
<1>4. ASSUME NEW c \in Clients, Enter(c) PROVE OwnerInv'
  <2>1. cc' = [cc EXCEPT ![c] = [cc[c] EXCEPT !.pulled = cc[c].remote.seq]]
    BY <1>4 DEF Enter
  <2>2. \A d \in Clients : cc'[d].on = cc[d].on /\ cc'[d].pend = cc[d].pend
    BY <2>1 DEF TypeOK, ClientState
  <2> QED
    BY <1>4, <2>2, OwnerFrame DEF Enter, history
<1>5. ASSUME NEW c \in Clients, Reconnect(c) PROVE OwnerInv'
  <2>1. /\ UNCHANGED <<owner, awaited, own, down>> /\ ~cc[c].on
        /\ \A d \in Clients \ {c} : cc'[d] = cc[d]
    BY <1>5 DEF Reconnect, files, TypeOK
  <2>2. CASE owner # None /\ owner.who = c
    BY <1>5, <2>1, <2>2, RelayAssumption DEF OwnerInv, Awaits
  <2>3. CASE owner = None \/ owner.who # c
    BY <2>1, <2>3, OwnerFrame
  <2> QED
    BY <2>2, <2>3
<1>6. ASSUME NEW c \in Clients, NEW kept, Disconnect(c, kept) PROVE OwnerInv'
  <2>1. CASE owner = None \/ owner.who = c
    BY <1>6, <2>1 DEF Disconnect, OwnerInv
  <2>2. CASE owner # None /\ owner.who # c
    <3>1. UNCHANGED <<owner, awaited>>
      BY <1>6, <2>2 DEF Disconnect
    <3>2. own'[owner.who] = own[owner.who]
      BY <1>6, <2>2 DEF Disconnect, TypeOK
    <3>3. owner.who \in Clients => cc'[owner.who] = cc[owner.who] /\ down'[owner.who] = down[owner.who]
      BY <1>6, <2>2 DEF Disconnect, TypeOK
    <3> QED
      BY <3>1, <3>2, <3>3, OwnerFrame
  <2> QED
    BY <2>1, <2>2
<1>7. ASSUME UNCHANGED <<owner, awaited, own, cc, down>> PROVE OwnerInv'
  BY <1>7, OwnerFrame
<1>8. \A c \in Clients : Switch(c) \/ Refuse(c) => UNCHANGED <<owner, awaited, own, cc, down>>
  BY DEF Switch, Refuse, files, history
<1>9. \A m \in Machines : User(m) \/ PullFails(m) \/ (\E how \in {"now", "late"} : PullDone(m, how))
        => UNCHANGED <<owner, awaited, own, cc, down>>
  BY DEF User, Copy, PullFails, PullDone, files, history
<1>10. ComeHome \/ UNCHANGED vars => UNCHANGED <<owner, awaited, own, cc, down>>
  BY DEF ComeHome, vars, files, history
<1> QED
  BY <1>1, <1>2, <1>3, <1>4, <1>5, <1>6, <1>7, <1>8, <1>9, <1>10 DEF Next, ClientStep

LEMMA InitOwner == Init => OwnerInv
  BY DEF Init, OwnerInv

\* Whoever is asked for the announced files serves them under their number once all is quiet,
\* if its client was waiting for this announcement when the relay took it.
THEOREM RelayOwnerServes == Spec => []OwnerServes
<1>1. TypeOK /\ OwnerInv => OwnerServes
  <2> SUFFICES ASSUME TypeOK, OwnerInv, Quiet, owner # None, owner.who \in Clients => awaited
               PROVE  own[owner.who] = owner.ann
    BY DEF OwnerServes
  <2>1. CASE owner.who = Srv
    BY <2>1 DEF OwnerInv
  <2>2. CASE owner.who \in Clients
    <3>1. Awaits(owner.who) /\ down[owner.who] = <<>>
      BY <2>2 DEF OwnerInv, Quiet
    <3>2. ~OnlyIn(down[owner.who], owner.ann)
      BY <3>1 DEF OnlyIn
    <3> QED
      BY <3>1, <3>2 DEF Awaits
  <2> QED
    BY <2>1, <2>2 DEF TypeOK, Machines
<1> QED
  BY <1>1, InitTypes, InitOwner, NextTypes, NextOwner, PTL DEF Spec

----------------------------------------------------------------------------
(* KeptEqualUnlessCrossed.                                                 *)

LEMMA FitIsStable ==
  ASSUME NEW c, NEW max, Fit(c, max) # None
  PROVE  Tried(Fit(c, max), max) /\ Fit(Fit(c, max), max) = Fit(c, max)
<1>1. Tried(Fit(c, max), max)
  BY FitCases
<1> QED
  BY <1>1, FitCases

\* What is set of a content that fits is what would be set of it when it is read back.
LEMMA PlacedIsStable ==
  ASSUME NEW c \in TextContents, Tried(c, Limit)
  PROVE  Same(Placed(c), c)
<1> DEFINE kept == IF "text" \in DOMAIN c THEN {"text", "html"}
                   ELSE IF "image" \in DOMAIN c THEN {"image"} ELSE {"html"}
           p == Placed(c)
<1>1. PICK formats \in SUBSET {"text", "html", "image"} : c \in [formats -> Pieces]
  BY Formats
<1>2. p = [m \in DOMAIN c \cap kept |-> c[m]]
  BY DEF Placed, Keep
<1>3. DOMAIN p = DOMAIN c \cap kept /\ \A m \in DOMAIN p : p[m] = c[m]
  BY <1>2
<1> HIDE DEF p
<1>4. DOMAIN c = formats /\ formats # {}
  BY <1>1 DEF Tried, IsEmpty
<1>5. ~IsEmpty(p)
  BY <1>3, <1>4 DEF IsEmpty
<1>6. DataLen(p) <= DataLen(c)
  <2>1. \A m : Size(c, m) \in Nat
    BY <1>1, RelayAssumption DEF Size
  <2>2. \A m : Size(p, m) \in Nat /\ Size(p, m) <= Size(c, m)
    BY <1>3, <2>1 DEF Size
  <2> QED
    BY <2>1, <2>2 DEF DataLen
<1>7. DataLen(p) <= Limit
  <2>1. \A m : Size(c, m) \in Nat
    BY <1>1, RelayAssumption DEF Size
  <2>2. \A m : Size(p, m) \in Nat
    BY <1>3, <2>1 DEF Size
  <2>3. DataLen(p) \in Nat /\ DataLen(c) \in Nat /\ Limit \in Nat /\ DataLen(c) <= Limit
    BY <2>1, <2>2, RelayAssumption DEF DataLen, Tried, Limit, EffectiveMax
  <2> HIDE DEF Limit, DataLen
  <2> QED
    BY <1>6, <2>3
<1>8. Fit(p, Limit) = p /\ Fit(c, Limit) = c
  BY <1>5, <1>7, FitCases DEF Tried
<1>9. Placed(p) = p
  <2>1. Placed(p) = [m \in DOMAIN p \cap kept |-> p[m]]
    BY <1>3, <1>4 DEF Placed, Keep
  <2> QED
    BY <1>2, <1>3, <2>1 DEF p
<1> QED
  BY <1>8, <1>9 DEF Same, p

\* The texts in a queue: whether there is one, and that the last is what x holds.
HasText(q) == \E k \in 1..Len(q) : q[k].kind = "text"
LastIs(q, x) == \A k \in 1..Len(q) :
  /\ q[k].kind = "text" /\ x.kind = "text"
  /\ \A j \in 1..Len(q) : j > k => q[j].kind # "text"
  => Same(q[k].v, x.v)

Sent(c) == [i \in 1..Len(down[c]) |-> down[c][i].item]

\* What was not yet polled aside, the clipboard holds the text ClipboardSync saw last.
Seen ==
  \A m \in Machines : ~sync[m].news /\ sync[m].clip.kind = "text" => sync[m].clip = sync[m].seen

\* Only what fits is pushed or sent.
AllFit(q) == \A i \in 1..Len(q) : q[i].kind = "text" => Tried(q[i].v, Limit)
QueuedFits == \A c \in Clients : AllFit(up[c]) /\ AllFit(Sent(c))

\* A client and the server saw the same text last, or the one that did not is about to: the
\* last of what is on its way to it is what the other one saw.
Agrees(c) ==
  /\ ~(HasText(up[c]) /\ HasText(Sent(c)))
  /\ LastIs(up[c], sync[c].seen)
  /\ LastIs(Sent(c), sync[Srv].seen)
  /\ \/ HasText(up[c]) \/ HasText(Sent(c))
     \/ sync[c].seen.kind # "text" \/ sync[Srv].seen.kind # "text"
     \/ Same(sync[c].seen.v, sync[Srv].seen.v)

Undisturbed(c) == cc[c].on /\ c \notin crossed \cup dropped /\ Srv \notin dropped
Agreement == \A c \in Clients : Undisturbed(c) => Agrees(c)

LEMMA TextAppend ==
  ASSUME NEW q \in Seq(Item), NEW t \in Item
  PROVE  /\ t.kind = "text" => HasText(Append(q, t))
         /\ \A x : (t.kind = "text" /\ (x.kind = "text" => Same(t.v, x.v))) => LastIs(Append(q, t), x)
         /\ t.kind # "text" => (HasText(Append(q, t)) <=> HasText(q))
         /\ \A x : (t.kind # "text" /\ LastIs(q, x)) => LastIs(Append(q, t), x)
         /\ (AllFit(q) /\ (t.kind = "text" => Tried(t.v, Limit))) => AllFit(Append(q, t))
<1>1. /\ Len(Append(q, t)) = Len(q) + 1 /\ Append(q, t)[Len(q) + 1] = t /\ Len(q) \in Nat
      /\ \A i \in 1..Len(q) : Append(q, t)[i] = q[i]
  OBVIOUS
<1>2. /\ \A i \in 1..(Len(q) + 1) : i \in 1..Len(q) \/ i = Len(q) + 1
      /\ \A i \in 1..Len(q) : i \in 1..(Len(q) + 1) /\ Len(q) + 1 > i
      /\ Len(q) + 1 \in 1..(Len(q) + 1)
  BY <1>1
<1>3. t.kind = "text" => HasText(Append(q, t))
  BY <1>1, <1>2 DEF HasText
<1>4. ASSUME NEW x, t.kind = "text", x.kind = "text" => Same(t.v, x.v)
      PROVE  LastIs(Append(q, t), x)
  BY <1>1, <1>2, <1>4 DEF LastIs
<1>5. t.kind # "text" => (HasText(Append(q, t)) <=> HasText(q))
  BY <1>1, <1>2 DEF HasText
<1>6. ASSUME NEW x, t.kind # "text", LastIs(q, x) PROVE LastIs(Append(q, t), x)
  <2> SUFFICES ASSUME NEW k \in 1..(Len(q) + 1), Append(q, t)[k].kind = "text", x.kind = "text",
                      \A j \in 1..(Len(q) + 1) : j > k => Append(q, t)[j].kind # "text"
               PROVE  Same(Append(q, t)[k].v, x.v)
    BY <1>1 DEF LastIs
  <2>1. k \in 1..Len(q) /\ Append(q, t)[k] = q[k]
    BY <1>1, <1>2, <1>6
  <2>2. \A j \in 1..Len(q) : j > k => q[j].kind # "text"
    BY <1>1, <1>2
  <2> QED
    BY <1>6, <2>1, <2>2 DEF LastIs
<1>7. AllFit(q) /\ (t.kind = "text" => Tried(t.v, Limit)) => AllFit(Append(q, t))
  BY <1>1, <1>2 DEF AllFit
<1> QED
  BY <1>3, <1>4, <1>5, <1>6, <1>7

LEMMA TextTail ==
  ASSUME NEW q \in Seq(Item), q # <<>>
  PROVE  /\ HasText(Tail(q)) => HasText(q)
         /\ Head(q).kind = "text" => HasText(q)
         /\ Head(q).kind # "text" => (HasText(Tail(q)) <=> HasText(q))
         /\ \A x : LastIs(q, x) => LastIs(Tail(q), x)
         /\ \A x : (/\ LastIs(q, x) /\ ~HasText(Tail(q))
                   /\ Head(q).kind = "text" /\ x.kind = "text") => Same(Head(q).v, x.v)
         /\ AllFit(q) => AllFit(Tail(q)) /\ (Head(q).kind = "text" => Tried(Head(q).v, Limit))
<1>1. /\ Len(Tail(q)) = Len(q) - 1 /\ Len(q) \in Nat /\ Len(q) > 0 /\ Head(q) = q[1]
      /\ \A i \in 1..Len(Tail(q)) : Tail(q)[i] = q[i + 1]
  OBVIOUS
<1>2. /\ \A i \in 1..Len(Tail(q)) : i + 1 \in 1..Len(q) /\ i + 1 # 1
      /\ \A i \in 1..Len(q) : i = 1 \/ (i - 1 \in 1..Len(Tail(q)) /\ Tail(q)[i - 1] = q[i])
      /\ 1 \in 1..Len(q)
  BY <1>1
<1>3. HasText(Tail(q)) => HasText(q)
  BY <1>1, <1>2 DEF HasText
<1>4. Head(q).kind = "text" => HasText(q)
  BY <1>1, <1>2 DEF HasText
<1>5. Head(q).kind # "text" => (HasText(Tail(q)) <=> HasText(q))
  BY <1>1, <1>2, <1>3 DEF HasText
<1>6. ASSUME NEW x, LastIs(q, x) PROVE LastIs(Tail(q), x)
  <2> SUFFICES ASSUME NEW k \in 1..Len(Tail(q)), Tail(q)[k].kind = "text", x.kind = "text",
                      \A j \in 1..Len(Tail(q)) : j > k => Tail(q)[j].kind # "text"
               PROVE  Same(Tail(q)[k].v, x.v)
    BY DEF LastIs
  <2>1. k + 1 \in 1..Len(q) /\ Tail(q)[k] = q[k + 1]
    BY <1>1
  <2>2. \A j \in 1..Len(q) : j > k + 1 => q[j].kind # "text"
    <3> SUFFICES ASSUME NEW j \in 1..Len(q), j > k + 1 PROVE q[j].kind # "text"
      OBVIOUS
    <3>1. j - 1 \in 1..Len(Tail(q)) /\ j - 1 > k /\ Tail(q)[j - 1] = q[j]
      BY <1>1, <1>2
    <3> QED
      BY <3>1
  <2> QED
    BY <1>6, <2>1, <2>2 DEF LastIs
<1>7. ASSUME NEW x, LastIs(q, x), ~HasText(Tail(q)), Head(q).kind = "text", x.kind = "text"
      PROVE  Same(Head(q).v, x.v)
  <2>1. \A j \in 1..Len(q) : j > 1 => q[j].kind # "text"
    <3> SUFFICES ASSUME NEW j \in 1..Len(q), j > 1 PROVE q[j].kind # "text"
      OBVIOUS
    <3>1. j - 1 \in 1..Len(Tail(q)) /\ Tail(q)[j - 1] = q[j]
      BY <1>1, <1>2
    <3> QED
      BY <1>7, <3>1 DEF HasText
  <2> QED
    BY <1>1, <1>2, <1>7, <2>1 DEF LastIs
<1>8. AllFit(q) => AllFit(Tail(q)) /\ (Head(q).kind = "text" => Tried(Head(q).v, Limit))
  BY <1>1, <1>2 DEF AllFit
<1> QED
  BY <1>3, <1>4, <1>5, <1>6, <1>7, <1>8

LEMMA SentType ==
  ASSUME TypeOK, NEW c \in Clients
  PROVE  /\ Sent(c) \in Seq(Item) /\ up[c] \in Seq(Item) /\ Len(Sent(c)) = Len(down[c])
         /\ Pushes(c, "text") <=> HasText(up[c])
         /\ Expects(c, "text") <=> HasText(Sent(c))
<1>1. down[c] \in Seq(Transfer) /\ up[c] \in Seq(Item)
  BY DEF TypeOK
<1>2. Len(down[c]) \in Nat /\ \A i \in 1..Len(down[c]) : down[c][i].item \in Item
  <2>1. Len(down[c]) \in Nat /\ \A i \in 1..Len(down[c]) : down[c][i] \in Transfer
    BY <1>1
  <2> QED
    BY <2>1 DEF Transfer
<1>3. Sent(c) \in Seq(Item) /\ Len(Sent(c)) = Len(down[c])
  BY <1>2 DEF Sent
<1>4. DOMAIN up[c] = 1..Len(up[c]) /\ DOMAIN down[c] = 1..Len(down[c])
  BY <1>1
<1>5. Pushes(c, "text") <=> HasText(up[c])
  BY <1>4 DEF Pushes, HasText
<1>6. \A i \in 1..Len(down[c]) : Sent(c)[i] = down[c][i].item
  BY DEF Sent
<1>7. Expects(c, "text") <=> HasText(Sent(c))
  BY <1>3, <1>4, <1>6 DEF Expects, HasText
<1> QED
  BY <1>1, <1>3, <1>5, <1>7

LEMMA SentAppend ==
  ASSUME TypeOK, NEW c \in Clients, NEW t \in Transfer, down'[c] = Append(down[c], t)
  PROVE  Sent(c)' = Append(Sent(c), t.item)
<1>1. down[c] \in Seq(Transfer)
  BY DEF TypeOK
<1>2. Sent(c) \in Seq(Item) /\ Len(Sent(c)) = Len(down[c]) /\ Len(down[c]) \in Nat
  BY <1>1, SentType
<1>3. /\ Len(Append(down[c], t)) = Len(down[c]) + 1
      /\ Sent(c)' = [i \in 1..(Len(down[c]) + 1) |-> Append(down[c], t)[i].item]
  BY <1>1 DEF Sent
<1>4. \A i \in 1..(Len(down[c]) + 1) : Append(down[c], t)[i].item = Append(Sent(c), t.item)[i]
  BY <1>1, <1>2 DEF Sent
<1>5. Append(Sent(c), t.item) = [i \in 1..(Len(down[c]) + 1) |-> Append(Sent(c), t.item)[i]]
  BY <1>2
<1> QED
  BY <1>3, <1>4, <1>5

LEMMA SentTail ==
  ASSUME TypeOK, NEW c \in Clients, down[c] # <<>>, down'[c] = Tail(down[c])
  PROVE  Sent(c) # <<>> /\ Head(Sent(c)) = Head(down[c]).item /\ Sent(c)' = Tail(Sent(c))
<1>1. down[c] \in Seq(Transfer)
  BY DEF TypeOK
<1>2. /\ Sent(c) \in Seq(Item) /\ Len(Sent(c)) = Len(down[c]) /\ Len(down[c]) \in Nat
      /\ Len(down[c]) > 0
  BY <1>1, SentType
<1>3. /\ Len(Tail(down[c])) = Len(down[c]) - 1
      /\ Sent(c)' = [i \in 1..(Len(down[c]) - 1) |-> Tail(down[c])[i].item]
  BY <1>1, <1>2 DEF Sent
<1>4. \A i \in 1..(Len(down[c]) - 1) : Tail(down[c])[i].item = Tail(Sent(c))[i]
  BY <1>1, <1>2 DEF Sent
<1>5. Tail(Sent(c)) = [i \in 1..(Len(down[c]) - 1) |-> Tail(Sent(c))[i]]
  <2>1. Sent(c) # <<>>
    BY <1>2
  <2>2. Tail(Sent(c)) \in Seq(Item) /\ Len(Tail(Sent(c))) = Len(down[c]) - 1
    BY <1>2, <2>1
  <2>3. \A r \in Seq(Item) : r = [i \in 1..Len(r) |-> r[i]]
    OBVIOUS
  <2> QED
    BY <2>2, <2>3
<1>6. Head(Sent(c)) = Head(down[c]).item
  BY <1>1, <1>2 DEF Sent
<1> QED
  BY <1>2, <1>3, <1>4, <1>5, <1>6

SeenBy(s) == ~s.news /\ s.clip.kind = "text" => s.clip = s.seen

\* What a step does to one machine's ClipboardSync.
LEMMA SyncStep ==
  ASSUME TypeOK, [Next]_vars
  PROVE  \/ sync' = sync
         \/ \E m \in Machines : \E s :
              /\ sync' = [sync EXCEPT ![m] = s]
              /\ \/ s \in {TookFiles(sync[m]), TookText(sync[m]), TookText(TookFiles(sync[m]))}
                 \/ \E item : s = [sync[m] EXCEPT !.clip = item, !.news = TRUE, !.fnews = TRUE]
                 \/ \E item, how : s \in {Applied(sync[m], item, how), AppliedFiles(sync[m], item, how)}
<1>1. Clients \subseteq Machines /\ Srv \in Machines
  BY DEF Machines
<1>2. CASE ServerPoll
  BY <1>1, <1>2 DEF ServerPoll
<1>3. ASSUME NEW c \in Clients, ClientPoll(c)
      PROVE  \E s \in {TookFiles(sync[c]), TookText(sync[c]), TookText(TookFiles(sync[c]))} :
               sync' = [sync EXCEPT ![c] = s]
  BY <1>3 DEF ClientPoll
<1>4. ASSUME NEW c \in Clients, NEW how, Relay(c, how)
      PROVE  sync' = sync \/ \E item : sync' = [sync EXCEPT ![Srv] = Applied(sync[Srv], item, how)]
  BY <1>4 DEF Relay, Set, clip
<1>5. ASSUME NEW c \in Clients, NEW how, ClientTake(c, how)
      PROVE  sync' = sync \/ \E item : sync' = [sync EXCEPT ![c] = Applied(sync[c], item, how)]
  BY <1>5 DEF ClientTake, Set, clip
<1>6. ASSUME NEW c \in Clients, Reconnect(c)
      PROVE  sync' = [sync EXCEPT ![c] = TookText(TookFiles(sync[c]))]
  BY <1>6 DEF Reconnect
<1>7. ASSUME NEW m \in Machines, User(m)
      PROVE  \E item :
               sync' = [sync EXCEPT ![m] = [sync[m] EXCEPT !.clip = item, !.news = TRUE, !.fnews = TRUE]]
  BY <1>7 DEF User, Copy
<1>8. ASSUME NEW m \in Machines, NEW how, PullDone(m, how)
      PROVE  sync' = [sync EXCEPT ![m] = AppliedFiles(sync[m], job[m].item, how)]
  BY <1>8 DEF PullDone
<1>9. \A c \in Clients :
        Enter(c) \/ Switch(c) \/ Refuse(c) \/ (\E kept \in BOOLEAN : Disconnect(c, kept)) => sync' = sync
  BY DEF Enter, Switch, Refuse, Disconnect, clip
<1>10. \A m \in Machines : PullFails(m) => sync' = sync
  BY DEF PullFails, clip
<1>11. ComeHome \/ UNCHANGED vars => sync' = sync
  BY DEF ComeHome, vars, clip
<1>12. CASE \E m \in Machines :
              User(m) \/ PullFails(m) \/ \E how \in {"now", "late"} : PullDone(m, how)
  <2>1. PICK m \in Machines :
          User(m) \/ PullFails(m) \/ \E how \in {"now", "late"} : PullDone(m, how)
    BY <1>12
  <2>2. CASE User(m)
    <3>1. PICK item :
            sync' = [sync EXCEPT ![m] = [sync[m] EXCEPT !.clip = item, !.news = TRUE, !.fnews = TRUE]]
      BY <1>7, <2>2
    <3> DEFINE s == [sync[m] EXCEPT !.clip = item, !.news = TRUE, !.fnews = TRUE]
    <3>2. /\ sync' = [sync EXCEPT ![m] = s]
          /\ \E i : s = [sync[m] EXCEPT !.clip = i, !.news = TRUE, !.fnews = TRUE]
      BY <3>1
    <3> HIDE DEF s
    <3> QED
      BY <3>2
  <2>3. CASE \E how \in {"now", "late"} : PullDone(m, how)
    <3>1. PICK how : PullDone(m, how)
      BY <2>3
    <3>2. AppliedFiles(sync[m], job[m].item, how)
            \in {Applied(sync[m], job[m].item, how), AppliedFiles(sync[m], job[m].item, how)}
      OBVIOUS
    <3> QED
      BY <1>8, <3>1, <3>2, Zenon
  <2> QED
    BY <1>10, <2>1, <2>2, <2>3
<1>13. CASE \E c \in Clients : ClientStep(c)
  <2>1. PICK c \in Clients : ClientStep(c)
    BY <1>13
  <2>2. CASE ClientPoll(c)
    BY <1>1, <1>3, <2>2, Zenon
  <2>3. CASE \E how \in {"now", "late", "failed"} : Relay(c, how)
    <3>1. PICK how : Relay(c, how)
      BY <2>3
    <3>2. \A item : Applied(sync[Srv], item, how)
                      \in {Applied(sync[Srv], item, how), AppliedFiles(sync[Srv], item, how)}
      OBVIOUS
    <3> QED
      BY <1>1, <1>4, <3>1, <3>2, Zenon
  <2>4. CASE \E how \in {"now", "late", "failed"} : ClientTake(c, how)
    <3>1. PICK how : ClientTake(c, how)
      BY <2>4
    <3>2. \A item : Applied(sync[c], item, how)
                      \in {Applied(sync[c], item, how), AppliedFiles(sync[c], item, how)}
      OBVIOUS
    <3> QED
      BY <1>1, <1>5, <3>1, <3>2, Zenon
  <2> QED
    BY <1>9, <2>1, <2>2, <2>3, <2>4 DEF ClientStep
<1>14. CASE \E c \in Clients :
              \/ Enter(c) \/ Reconnect(c) \/ Switch(c) \/ \E kept \in BOOLEAN : Disconnect(c, kept)
  BY <1>1, <1>6, <1>9, <1>14
<1> QED
  BY <1>2, <1>11, <1>12, <1>13, <1>14 DEF Next

LEMMA NextSeen == TypeOK /\ Seen /\ [Next]_vars => Seen'
<1> SUFFICES ASSUME TypeOK, Seen, [Next]_vars, NEW n \in Machines PROVE SeenBy(sync'[n])
  BY DEF Seen, SeenBy
<1>1. SeenBy(sync[n])
  BY DEF Seen, SeenBy
<1>2. CASE sync' = sync
  BY <1>1, <1>2
<1>3. CASE sync' # sync
  <2> DEFINE Step(m, s) ==
          /\ sync' = [sync EXCEPT ![m] = s]
          /\ \/ s \in {TookFiles(sync[m]), TookText(sync[m]), TookText(TookFiles(sync[m]))}
             \/ \E item : s = [sync[m] EXCEPT !.clip = item, !.news = TRUE, !.fnews = TRUE]
             \/ \E item, how : s \in {Applied(sync[m], item, how), AppliedFiles(sync[m], item, how)}
  <2>0. PICK m \in Machines : \E s : Step(m, s)
    BY <1>3, SyncStep
  <2>1. PICK s : Step(m, s)
    BY <2>0
  <2>2. sync[m] \in Sync /\ SeenBy(sync[m])
    BY DEF TypeOK, Seen, SeenBy
  <2>3. SeenBy(s)
    BY <2>1, <2>2 DEF SeenBy, Sync, TookFiles, TookText, Applied, AppliedFiles
  <2> QED
    BY <1>1, <2>1, <2>3 DEF TypeOK
<1> QED
  BY <1>2, <1>3

\* What a poll shares fits, and is the same as what the clipboard holds.
LEMMA SharedFits ==
  ASSUME TypeOK, NEW m \in Machines, NewText(m), ~TooLarge(m)
  PROVE  LET t == Shared(sync[m].clip) IN
         t \in TextItem /\ Tried(t.v, Limit) /\ Same(t.v, sync[m].clip.v)
<1>1. /\ sync[m].clip.kind = "text" /\ Fit(sync[m].clip.v, Limit) # None
      /\ Shared(sync[m].clip) \in TextItem
  BY News DEF NewText, TooLarge
<1>2. Shared(sync[m].clip).v = Fit(sync[m].clip.v, Limit)
  BY <1>1 DEF Shared, Text
<1> QED
  BY <1>1, <1>2, FitIsStable DEF Same

\* A broadcast reaches a queue or does not.
LEMMA BroadcastSent ==
  ASSUME TypeOK, NEW c \in Clients, NEW except, NEW lost, NEW t \in Transfer,
         Broadcast(except, t, lost)
  PROVE  Sent(c)' = Sent(c) \/ Sent(c)' = Append(Sent(c), t.item)
<1>1. down'[c] = down[c] \/ down'[c] = Append(down[c], t)
  BY DEF Broadcast
<1> QED
  BY <1>1, SentAppend DEF Sent

LEMMA NextQueuedFits == TypeOK /\ QueuedFits /\ [Next]_vars => QueuedFits'
<1> SUFFICES ASSUME TypeOK, QueuedFits, [Next]_vars, NEW c \in Clients
             PROVE  AllFit(up'[c]) /\ AllFit(Sent(c)')
  BY DEF QueuedFits, AllFit, Sent
<1>1. /\ up[c] \in Seq(Item) /\ Sent(c) \in Seq(Item)
      /\ AllFit(up[c]) /\ AllFit(Sent(c)) /\ AllFit(<<>>)
  BY SentType DEF QueuedFits, AllFit
<1>2. ASSUME UNCHANGED <<up, down>> PROVE AllFit(up'[c]) /\ AllFit(Sent(c)')
  BY <1>1, <1>2 DEF Sent
<1>3. ASSUME NEW except, NEW lost, NEW t \in Transfer, t.item.kind = "text" => Tried(t.item.v, Limit),
             Broadcast(except, t, lost)
      PROVE  AllFit(Sent(c)')
  <2>1. t.item \in Item
    BY DEF Transfer
  <2>2. AllFit(Append(Sent(c), t.item))
    BY <1>1, <1>3, <2>1, TextAppend
  <2>3. Sent(c)' = Sent(c) \/ Sent(c)' = Append(Sent(c), t.item)
    BY <1>3, BroadcastSent
  <2> QED
    BY <1>1, <2>2, <2>3
<1>4. CASE ServerPoll
  <2>1. up' = up
    BY <1>4 DEF ServerPoll
  <2>2. CASE (NewFiles(Srv) \/ NewText(Srv)) /\ ~TooLarge(Srv)
    <3> DEFINE t == [seq |-> seq + 1, item |-> Shared(sync[Srv].clip)]
    <3>1. Srv \in Machines
      BY DEF Machines
    <3>2. t.item \in Item /\ (t.item.kind = "text" => Tried(t.item.v, Limit))
      BY <2>2, <3>1, News, SharedFits DEF Item, FilesItem
    <3>3. t \in Transfer
      BY <3>2 DEF Transfer, TypeOK
    <3>4. Broadcast(None, t, {})
      BY <1>4, <2>2 DEF ServerPoll, ShareOwn
    <3> HIDE DEF t
    <3> QED
      BY <1>1, <1>3, <2>1, <3>2, <3>3, <3>4
  <2>3. CASE ~((NewFiles(Srv) \/ NewText(Srv)) /\ ~TooLarge(Srv))
    BY <1>2, <1>4, <2>1, <2>3 DEF ServerPoll, ShareOwn
  <2> QED
    BY <2>2, <2>3
<1>5. ASSUME NEW d \in Clients, NEW how, Relay(d, how) PROVE AllFit(up'[c]) /\ AllFit(Sent(c)')
  <2> DEFINE t == [seq |-> seq + 1, item |-> Head(up[d])]
             lost == IF Head(up[d]).kind = "text" /\ how = "failed" THEN {Srv} ELSE {}
  <2>1. up[d] \in Seq(Item) /\ up[d] # <<>> /\ AllFit(up[d])
    BY <1>5 DEF Relay, TypeOK, QueuedFits
  <2>2. t.item \in Item /\ (t.item.kind = "text" => Tried(t.item.v, Limit)) /\ AllFit(Tail(up[d]))
    BY <2>1, TextTail
  <2>3. t \in Transfer
    BY <2>2 DEF Transfer, TypeOK
  <2>4. Broadcast(LeftOut(d, Head(up[d])), t, lost) /\ up' = [up EXCEPT ![d] = Tail(up[d])]
    BY <1>5 DEF Relay
  <2> HIDE DEF t, lost
  <2>5. AllFit(Sent(c)')
    BY <1>3, <2>2, <2>3, <2>4
  <2>6. AllFit(up'[c])
    BY <1>1, <2>2, <2>4 DEF TypeOK
  <2> QED
    BY <2>5, <2>6
<1>6. ASSUME NEW d \in Clients, Refuse(d) PROVE AllFit(up'[c]) /\ AllFit(Sent(c)')
  <2>1. up[d] \in Seq(Item) /\ up[d] # <<>> /\ AllFit(up[d])
    BY <1>6 DEF Refuse, TypeOK, QueuedFits
  <2>2. AllFit(Tail(up[d]))
    BY <2>1, TextTail
  <2>3. down' = down /\ up' = [up EXCEPT ![d] = Tail(up[d])]
    BY <1>6 DEF Refuse
  <2> QED
    BY <1>1, <2>2, <2>3 DEF TypeOK, Sent
<1>7. ASSUME NEW d \in Clients, ClientPoll(d) PROVE AllFit(up'[c]) /\ AllFit(Sent(c)')
  <2> DEFINE announces == cc[d].pend = None /\ NewFiles(d) /\ ~TooLarge(d)
             pushes == announces \/ (NewText(d) /\ ~TooLarge(d))
  <2>1. down' = down /\ d \in Machines /\ up[d] \in Seq(Item) /\ AllFit(up[d])
    BY <1>7 DEF ClientPoll, Machines, TypeOK, QueuedFits
  <2>2. CASE pushes
    <3>1. /\ Shared(sync[d].clip) \in Item
          /\ Shared(sync[d].clip).kind = "text" => Tried(Shared(sync[d].clip).v, Limit)
      BY <2>1, <2>2, News, SharedFits DEF Item, FilesItem
    <3>2. up' = [up EXCEPT ![d] = Append(up[d], Shared(sync[d].clip))]
      BY <1>7, <2>2 DEF ClientPoll
    <3>3. AllFit(Append(up[d], Shared(sync[d].clip)))
      BY <2>1, <3>1, TextAppend
    <3> QED
      BY <1>1, <2>1, <3>2, <3>3 DEF TypeOK, Sent
  <2>3. CASE ~pushes
    <3>1. up' = up
      BY <1>7, <2>3 DEF ClientPoll
    <3> QED
      BY <1>2, <2>1, <3>1
  <2> QED
    BY <2>2, <2>3
<1>8. ASSUME NEW d \in Clients, NEW how, ClientTake(d, how) PROVE AllFit(up'[c]) /\ AllFit(Sent(c)')
  <2>1. up' = up /\ down' = [down EXCEPT ![d] = Tail(down[d])] /\ down[d] # <<>>
    BY <1>8 DEF ClientTake
  <2>2. CASE c = d
    <3>1. down'[c] = Tail(down[c])
      BY <2>1, <2>2 DEF TypeOK
    <3> QED
      BY <1>1, <2>1, <2>2, <3>1, SentTail, TextTail
  <2>3. CASE c # d
    BY <1>1, <2>1, <2>3 DEF TypeOK, Sent
  <2> QED
    BY <2>2, <2>3
<1>9. ASSUME NEW d \in Clients, NEW kept, Disconnect(d, kept) PROVE AllFit(up'[c]) /\ AllFit(Sent(c)')
  <2>1. up'[c] \in {up[c], <<>>} /\ down'[c] \in {down[c], <<>>}
    BY <1>9 DEF Disconnect, TypeOK
  <2>2. AllFit(Sent(c)')
    <3>1. CASE down'[c] = down[c]
      BY <1>1, <3>1 DEF Sent
    <3>2. CASE down'[c] = <<>>
      <4>1. Sent(c)' = <<>>
        BY <3>2 DEF Sent
      <4> QED
        BY <1>1, <4>1
    <3> QED
      BY <2>1, <3>1, <3>2
  <2> QED
    BY <1>1, <2>1, <2>2
<1>10. \A d \in Clients : Enter(d) \/ Switch(d) \/ Reconnect(d) => UNCHANGED <<up, down>>
  BY DEF Enter, Switch, Reconnect
<1>11. \A m \in Machines :
         User(m) \/ PullFails(m) \/ (\E how \in {"now", "late"} : PullDone(m, how)) => UNCHANGED <<up, down>>
  BY DEF User, Copy, PullFails, PullDone
<1>12. ComeHome \/ UNCHANGED vars => UNCHANGED <<up, down>>
  BY DEF ComeHome, vars
<1> QED
  BY <1>2, <1>4, <1>5, <1>6, <1>7, <1>8, <1>9, <1>10, <1>11, <1>12 DEF Next, ClientStep

\* A step that changes nothing for this client.
LEMMA AgreeFrame ==
  ASSUME Agreement, NEW c \in Clients, up'[c] = up[c], down'[c] = down[c],
         sync'[c].seen = sync[c].seen, sync'[Srv].seen = sync[Srv].seen,
         Undisturbed(c)' => Undisturbed(c)
  PROVE  Undisturbed(c)' => Agrees(c)'
<1> SUFFICES ASSUME Undisturbed(c)' PROVE Agrees(c)'
  OBVIOUS
<1>1. Agrees(c)
  BY DEF Agreement
<1>2. Sent(c)' = Sent(c)
  BY DEF Sent
<1> QED
  BY <1>1, <1>2 DEF Agrees

\* A text the server saw last is sent: to a client from which none is on its way it is the
\* last; with the others it crosses.
LEMMA AgreeText ==
  ASSUME TypeOK, TypeOK', NEW c \in Clients, NEW except, c # except, NEW lost, NEW t \in Transfer,
         t.item.kind = "text", Broadcast(except, t, lost), UNCHANGED <<cc, off>>,
         sync'[Srv].seen.kind = "text" => Same(t.item.v, sync'[Srv].seen.v)
  PROVE  Undisturbed(c)' => Agrees(c)'
<1> SUFFICES ASSUME Undisturbed(c)' PROVE Agrees(c)'
  OBVIOUS
<1>1. cc[c].on /\ c \notin crossed' /\ c \notin dropped'
  BY DEF Undisturbed
<1>2. Listens(c)
  BY <1>1 DEF Broadcast, Listens
<1>3. down'[c] = Append(down[c], t) /\ ~Pushes(c, "text")'
  BY <1>1, <1>2 DEF Broadcast
<1>4. Sent(c)' = Append(Sent(c), t.item) /\ Sent(c) \in Seq(Item) /\ t.item \in Item
  BY <1>3, SentAppend, SentType DEF Transfer
<1>5. HasText(Sent(c)') /\ LastIs(Sent(c)', sync'[Srv].seen)
  BY <1>4, TextAppend
<1>6. ~HasText(up'[c])
  BY <1>3, SentType DEF Pushes, HasText, TypeOK
<1>7. LastIs(up'[c], sync'[c].seen)
  BY <1>6 DEF LastIs, HasText
<1> QED
  BY <1>5, <1>6, <1>7 DEF Agrees

\* An announcement that is sent changes nothing for the texts.
LEMMA AgreeFiles ==
  ASSUME TypeOK, Agreement, NEW c \in Clients, NEW except, NEW lost, NEW t \in Transfer,
         t.item.kind # "text", Broadcast(except, t, lost), UNCHANGED cc,
         up'[c] = up[c] \/ (up[c] # <<>> /\ Head(up[c]).kind # "text" /\ up'[c] = Tail(up[c])),
         sync'[c].seen = sync[c].seen, sync'[Srv].seen = sync[Srv].seen
  PROVE  Undisturbed(c)' => Agrees(c)'
<1> SUFFICES ASSUME Undisturbed(c)' PROVE Agrees(c)'
  OBVIOUS
<1>1. Undisturbed(c)
  BY DEF Undisturbed, Broadcast
<1>2. Agrees(c)
  BY <1>1 DEF Agreement
<1>3. Sent(c) \in Seq(Item) /\ up[c] \in Seq(Item) /\ t.item \in Item
  BY SentType DEF Transfer
<1>4. /\ HasText(Sent(c)') <=> HasText(Sent(c))
      /\ LastIs(Sent(c), sync[Srv].seen) => LastIs(Sent(c)', sync[Srv].seen)
  <2>1. Sent(c)' = Sent(c) \/ Sent(c)' = Append(Sent(c), t.item)
    BY BroadcastSent
  <2> QED
    BY <1>3, <2>1, TextAppend
<1>5. /\ HasText(up'[c]) <=> HasText(up[c])
      /\ LastIs(up[c], sync[c].seen) => LastIs(up'[c], sync[c].seen)
  BY <1>3, TextTail
<1> QED
  BY <1>2, <1>4, <1>5 DEF Agrees

\* Looking at a clipboard that holds no new text does not change which text was seen last.
LEMMA LookedSeen ==
  ASSUME TypeOK, Seen, NEW m \in Machines, ~NewText(m)
  PROVE  /\ TookText(sync[m]).seen = sync[m].seen /\ TookFiles(sync[m]).seen = sync[m].seen
         /\ TookText(TookFiles(sync[m])).seen = sync[m].seen
<1>1. sync[m] \in Sync
  BY DEF TypeOK
<1>2. sync[m].clip.kind = "text" => sync[m].clip = sync[m].seen
  BY DEF NewText, Seen
<1> QED
  BY <1>1, <1>2 DEF Sync, TookText, TookFiles

LEMMA AgreeServerPoll ==
  ASSUME TypeOK, TypeOK', Seen, Agreement, ServerPoll, NEW c \in Clients
  PROVE  Undisturbed(c)' => Agrees(c)'
<1> SUFFICES ASSUME Undisturbed(c)' PROVE Agrees(c)'
  OBVIOUS
<1> DEFINE t == [seq |-> seq + 1, item |-> Shared(sync[Srv].clip)]
<1>1. /\ Srv \in Machines /\ c \in Machines /\ c # Srv /\ sync[Srv] \in Sync
      /\ c # None
  BY RelayAssumption DEF Machines, TypeOK
<1>2. UNCHANGED <<up, cc, off>> /\ sync'[c] = sync[c]
  BY <1>1 DEF ServerPoll, TypeOK
<1>3. CASE NewFiles(Srv) /\ ~TooLarge(Srv)
  <2>1. t.item \in FilesItem
    BY <1>1, <1>3, News
  <2>2. t \in Transfer /\ t.item.kind # "text"
    BY <2>1 DEF Transfer, TypeOK, Item, FilesItem
  <2>3. Broadcast(None, t, {}) /\ sync' = [sync EXCEPT ![Srv] = TookFiles(sync[Srv])]
    BY <1>3 DEF ServerPoll, ShareOwn
  <2>4. sync'[Srv].seen = sync[Srv].seen
    BY <1>1, <2>3 DEF TypeOK, TookFiles, Sync
  <2> HIDE DEF t
  <2> QED
    BY <1>2, <2>2, <2>3, <2>4, AgreeFiles
<1>4. CASE ~NewFiles(Srv) /\ NewText(Srv) /\ ~TooLarge(Srv)
  <2>1. t.item \in TextItem /\ Same(t.item.v, sync[Srv].clip.v) /\ sync[Srv].clip.kind = "text"
    BY <1>1, <1>4, SharedFits DEF NewText
  <2>2. t \in Transfer /\ t.item.kind = "text"
    BY <2>1 DEF Transfer, TypeOK, Item, TextItem
  <2>3. Broadcast(None, t, {}) /\ sync' = [sync EXCEPT ![Srv] = TookText(TookFiles(sync[Srv]))]
    BY <1>4 DEF ServerPoll, ShareOwn
  <2>4. sync'[Srv].seen = sync[Srv].clip
    BY <1>1, <2>1, <2>3 DEF TypeOK, TookFiles, TookText, Sync
  <2>5. Same(t.item.v, sync'[Srv].seen.v)
    BY <2>1, <2>4
  <2> HIDE DEF t
  <2> QED
    BY <1>1, <1>2, <2>2, <2>3, <2>5, AgreeText
<1>5. CASE (NewFiles(Srv) \/ NewText(Srv)) /\ TooLarge(Srv)
  <2>1. Srv \in dropped'
    BY <1>5 DEF ServerPoll, ShareOwn
  <2> QED
    BY <2>1 DEF Undisturbed
<1>6. CASE ~NewFiles(Srv) /\ ~NewText(Srv)
  <2>1. UNCHANGED <<down, crossed, dropped>> /\ sync' = [sync EXCEPT ![Srv] = TookText(TookFiles(sync[Srv]))]
    BY <1>6 DEF ServerPoll
  <2>2. sync'[Srv].seen = sync[Srv].seen
    BY <1>1, <1>6, <2>1, LookedSeen DEF TypeOK
  <2>3. Undisturbed(c)
    BY <1>2, <2>1 DEF Undisturbed
  <2> QED
    BY <1>2, <2>1, <2>2, <2>3, AgreeFrame
<1> QED
  BY <1>3, <1>4, <1>5, <1>6

LEMMA AgreeRelay ==
  ASSUME TypeOK, TypeOK', QueuedFits, Agreement, NEW d \in Clients, NEW how, Relay(d, how),
         NEW c \in Clients
  PROVE  Undisturbed(c)' => Agrees(c)'
<1> SUFFICES ASSUME Undisturbed(c)' PROVE Agrees(c)'
  OBVIOUS
<1> DEFINE item == Head(up[d])
           t == [seq |-> seq + 1, item |-> item]
           lost == IF item.kind = "text" /\ how = "failed" THEN {Srv} ELSE {}
<1>1. /\ Srv \in Machines /\ c \in Machines /\ c # Srv
      /\ sync[Srv] \in Sync /\ up[d] \in Seq(Item) /\ up[d] # <<>> /\ c # None
  BY RelayAssumption DEF Machines, TypeOK, Relay
<1>2. item \in Item /\ t \in Transfer /\ t.item = item
  BY <1>1 DEF Transfer, TypeOK
<1>3. Broadcast(LeftOut(d, item), t, lost) /\ up' = [up EXCEPT ![d] = Tail(up[d])] /\ UNCHANGED <<cc, off>>
  BY DEF Relay
<1>4. lost \subseteq dropped'
  BY <1>3 DEF Broadcast
<1> HIDE DEF lost
<1>5. CASE item.kind # "text"
  <2>1. sync' = sync
    BY <1>5 DEF Relay, clip
  <2>2. up'[c] = up[c] \/ (up[c] # <<>> /\ Head(up[c]).kind # "text" /\ up'[c] = Tail(up[c]))
    BY <1>1, <1>3, <1>5 DEF TypeOK
  <2> QED
    BY <1>2, <1>3, <1>5, <2>1, <2>2, AgreeFiles
<1>6. CASE item.kind = "text" /\ how = "failed"
  <2>1. Srv \in dropped'
    BY <1>4, <1>6 DEF lost
  <2> QED
    BY <2>1 DEF Undisturbed
<1>7. CASE item.kind = "text" /\ how # "failed"
  <2>1. sync' = [sync EXCEPT ![Srv] = Applied(sync[Srv], item, how)]
    BY <1>7 DEF Relay, Set
  <2>2. sync'[Srv].seen = ReadBack(item) /\ sync'[c] = sync[c]
    BY <1>1, <2>1 DEF TypeOK, Applied, Sync
  <2>3. item \in TextItem /\ Tried(item.v, Limit)
    BY <1>1, <1>2, <1>7, TextTail, Kinds DEF QueuedFits
  <2>4. Same(item.v, ReadBack(item).v) /\ ReadBack(item).kind = "text"
    <3>1. item.v \in TextContents
      BY <2>3 DEF TextItem
    <3>2. Same(Placed(item.v), item.v)
      BY <2>3, <3>1, PlacedIsStable
    <3> QED
      BY <2>3, <3>2 DEF Same, ReadBack, TextItem
  <2>5. LeftOut(d, item) = d
    BY <1>7 DEF LeftOut
  <2>6. CASE c # d
    <3>1. Same(t.item.v, sync'[Srv].seen.v)
      BY <1>2, <2>2, <2>4
    <3> HIDE DEF t, item
    <3> QED
      BY <1>2, <1>3, <1>7, <2>5, <2>6, <3>1, AgreeText
  <2>7. CASE c = d
    <3>1. down'[c] = down[c] /\ Undisturbed(c)
      BY <1>3, <2>5, <2>7 DEF Broadcast, Undisturbed
    <3>2. Agrees(c) /\ Sent(c)' = Sent(c)
      BY <3>1 DEF Agreement, Sent
    <3>3. HasText(up[c]) /\ ~HasText(Sent(c)')
      BY <1>1, <1>7, <2>7, <3>2, TextTail DEF Agrees
    <3>4. up'[c] = Tail(up[c])
      BY <1>3, <2>7 DEF TypeOK
    <3>5. LastIs(up'[c], sync'[c].seen)
      BY <1>1, <2>2, <2>7, <3>2, <3>4, TextTail DEF Agrees
    <3>6. LastIs(Sent(c)', sync'[Srv].seen)
      BY <3>3 DEF LastIs, HasText
    <3>7. HasText(up'[c]) \/ sync'[c].seen.kind # "text" \/ Same(sync'[c].seen.v, sync'[Srv].seen.v)
      <4>1. ~HasText(up'[c]) /\ sync[c].seen.kind = "text" => Same(item.v, sync[c].seen.v)
        BY <1>1, <1>7, <2>7, <3>2, <3>4, TextTail DEF Agrees
      <4> QED
        BY <2>2, <2>4, <4>1 DEF Same
    <3> QED
      BY <3>3, <3>5, <3>6, <3>7 DEF Agrees
  <2> QED
    BY <2>6, <2>7
<1> QED
  BY <1>5, <1>6, <1>7

LEMMA AgreeClientPoll ==
  ASSUME TypeOK, Seen, Agreement, NEW d \in Clients, ClientPoll(d), NEW c \in Clients
  PROVE  Undisturbed(c)' => Agrees(c)'
<1> SUFFICES ASSUME Undisturbed(c)' PROVE Agrees(c)'
  OBVIOUS
<1> DEFINE announces == cc[d].pend = None /\ NewFiles(d) /\ ~TooLarge(d)
           pushes == announces \/ (NewText(d) /\ ~TooLarge(d))
           looked == IF cc[d].pend = None THEN TookFiles(sync[d]) ELSE sync[d]
           keeps == TooLarge(d) /\ (NewText(d) \/ (cc[d].pend = None /\ NewFiles(d)))
           item == Shared(sync[d].clip)
<1>1. /\ Srv \in Machines /\ d \in Machines /\ c \in Machines /\ c # Srv /\ d # Srv
      /\ sync[d] \in Sync /\ up[d] \in Seq(Item)
  BY RelayAssumption DEF Machines, TypeOK
<1>2. down' = down /\ cc[d].on /\ dropped' = (IF keeps THEN dropped \cup {d} ELSE dropped)
  BY DEF ClientPoll
<1>3. /\ crossed' = IF announces \/ ~pushes THEN crossed
                    ELSE IF Expects(d, "text") THEN crossed \cup {d} ELSE crossed \ {d}
      /\ up' = IF pushes THEN [up EXCEPT ![d] = Append(up[d], item)] ELSE up
      /\ sync' = [sync EXCEPT ![d] = IF announces THEN looked ELSE TookText(looked)]
  BY DEF ClientPoll
<1>4. \A e \in Clients : cc'[e].on = cc[e].on
  BY DEF ClientPoll, TypeOK, ClientState
<1>5. sync'[Srv] = sync[Srv]
  BY <1>1, <1>3 DEF TypeOK
<1>6. c # d => up'[c] = up[c] /\ sync'[c] = sync[c] /\ (c \in crossed' <=> c \in crossed)
  BY <1>1, <1>3 DEF TypeOK
<1>7. dropped \subseteq dropped'
  BY <1>2
<1>8. sync'[d] = (IF announces THEN looked ELSE TookText(looked))
  BY <1>1, <1>3 DEF TypeOK
<1>9. looked.clip = sync[d].clip
  BY <1>1 DEF TookFiles, Sync
<1>10. ~NewText(d) => sync'[d].seen = sync[d].seen
  BY <1>1, <1>8, LookedSeen
<1>11. Sent(c)' = Sent(c)
  BY <1>2 DEF Sent
<1> HIDE DEF looked
<1>12. CASE c # d
  <2>1. Undisturbed(c)
    BY <1>4, <1>6, <1>7, <1>12 DEF Undisturbed
  <2> QED
    BY <1>2, <1>5, <1>6, <1>12, <2>1, AgreeFrame
<1>13. CASE c = d /\ announces
  <2>1. item \in FilesItem /\ ~NewText(d)
    BY <1>1, <1>13, News
  <2>2. item \in Item /\ item.kind # "text"
    BY <2>1 DEF Item, FilesItem
  <2>3. up'[c] = Append(up[c], item) /\ crossed' = crossed
    BY <1>3, <1>13 DEF TypeOK
  <2>4. Undisturbed(c)
    BY <1>4, <1>7, <2>3 DEF Undisturbed
  <2>5. Agrees(c)
    BY <2>4 DEF Agreement
  <2> HIDE DEF item
  <2>6. /\ HasText(up'[c]) <=> HasText(up[c])
        /\ LastIs(up'[c], sync[c].seen)
    BY <1>1, <1>13, <2>2, <2>3, <2>5, TextAppend DEF Agrees
  <2> QED
    BY <1>5, <1>10, <1>11, <1>13, <2>1, <2>5, <2>6 DEF Agrees
<1>14. CASE c = d /\ ~announces /\ pushes
  <2>1. NewText(d) /\ ~TooLarge(d)
    BY <1>14
  <2>2. item \in TextItem /\ Same(item.v, sync[d].clip.v) /\ sync[d].clip.kind = "text"
    BY <1>1, <2>1, SharedFits DEF NewText
  <2>3. item \in Item /\ item.kind = "text"
    BY <2>2 DEF Item, TextItem
  <2>4. up'[c] = Append(up[c], item)
    BY <1>3, <1>14 DEF TypeOK
  <2>5. sync'[c].seen = sync[d].clip
    <3>1. looked \in Sync
      BY <1>1, SyncOps DEF looked
    <3> QED
      BY <1>8, <1>9, <1>14, <2>2, <3>1 DEF TookText, Sync
  <2>6. ~HasText(Sent(c)')
    <3>1. c \notin crossed'
      BY DEF Undisturbed
    <3>2. ~Expects(d, "text")
      BY <1>3, <1>14, <3>1
    <3> QED
      BY <1>11, <1>14, <3>2, SentType
  <2> HIDE DEF item
  <2>7. HasText(up'[c]) /\ LastIs(up'[c], sync'[c].seen)
    BY <1>1, <1>14, <2>2, <2>3, <2>4, <2>5, TextAppend
  <2>8. LastIs(Sent(c)', sync'[Srv].seen)
    BY <2>6 DEF LastIs, HasText
  <2> QED
    BY <2>6, <2>7, <2>8 DEF Agrees
<1>15. CASE c = d /\ ~pushes
  <2>1. ~NewText(d)
    <3>1. ~keeps
      BY <1>2, <1>15 DEF Undisturbed
    <3> QED
      BY <1>15, <3>1
  <2>2. Undisturbed(c)
    BY <1>3, <1>4, <1>7, <1>15 DEF Undisturbed
  <2> QED
    BY <1>2, <1>3, <1>5, <1>10, <1>15, <2>1, <2>2, AgreeFrame
<1> QED
  BY <1>12, <1>13, <1>14, <1>15

LEMMA AgreeClientTake ==
  ASSUME TypeOK, QueuedFits, Agreement, NEW d \in Clients, NEW how, ClientTake(d, how),
         NEW c \in Clients
  PROVE  Undisturbed(c)' => Agrees(c)'
<1> SUFFICES ASSUME Undisturbed(c)' PROVE Agrees(c)'
  OBVIOUS
<1> DEFINE item == Head(down[d]).item
<1>1. /\ Srv \in Machines /\ d \in Machines /\ c \in Machines /\ c # Srv /\ d # Srv
      /\ sync[d] \in Sync
  BY RelayAssumption DEF Machines, TypeOK
<1>2. /\ down' = [down EXCEPT ![d] = Tail(down[d])] /\ down[d] # <<>>
      /\ UNCHANGED <<up, crossed>> /\ dropped \subseteq dropped'
  BY DEF ClientTake
<1>3. \A e \in Clients : cc'[e].on = cc[e].on
  BY DEF ClientTake, Announced, TypeOK, ClientState
<1>4. sync' = sync \/ \E s : sync' = [sync EXCEPT ![d] = s]
  BY DEF ClientTake, Set, clip
<1>5. sync'[Srv] = sync[Srv] /\ (c # d => sync'[c] = sync[c] /\ down'[c] = down[c])
  BY <1>1, <1>2, <1>4 DEF TypeOK
<1>6. Undisturbed(c) /\ Agrees(c)
  BY <1>2, <1>3 DEF Undisturbed, Agreement
<1>7. CASE c # d
  BY <1>2, <1>5, <1>6, <1>7, AgreeFrame
<1>8. CASE c = d
  <2>1. down'[c] = Tail(down[c])
    BY <1>2, <1>8 DEF TypeOK
  <2>2. Sent(c) # <<>> /\ Head(Sent(c)) = item /\ Sent(c)' = Tail(Sent(c)) /\ Sent(c) \in Seq(Item)
    BY <1>2, <1>8, <2>1, SentTail, SentType
  <2>3. LastIs(Sent(c)', sync'[Srv].seen)
    BY <1>5, <1>6, <2>2, TextTail DEF Agrees
  <2>4. c \notin dropped'
    BY DEF Undisturbed
  <2>5. CASE item.kind # "text"
    <3>1. sync' = sync
      <4>1. item \in Item
        BY <1>2, <2>2
      <4>2. item.kind = "files"
        BY <2>5, <4>1 DEF Item, TextItem, FilesItem
      <4> QED
        BY <4>2 DEF ClientTake, clip
    <3>2. HasText(Sent(c)') <=> HasText(Sent(c))
      BY <2>2, <2>5, TextTail
    <3> QED
      BY <1>2, <1>6, <2>3, <3>1, <3>2 DEF Agrees
  <2>6. CASE item.kind = "text"
    <3>1. HasText(Sent(c)) /\ ~HasText(up[c])
      BY <1>6, <2>2, <2>6, TextTail DEF Agrees
    <3>2. Arrives(item) /\ how # "failed"
      BY <1>8, <2>4, <2>6 DEF ClientTake
    <3>3. sync' = [sync EXCEPT ![d] = Applied(sync[d], item, how)]
      BY <2>6, <3>2 DEF ClientTake, Set
    <3>4. sync'[c].seen = ReadBack(item)
      BY <1>1, <1>8, <3>3 DEF TypeOK, Applied, Sync
    <3>5. item \in TextItem /\ Tried(item.v, Limit)
      <4>1. item \in Item
        BY <1>2, <2>2
      <4> QED
        BY <2>2, <2>6, <4>1, TextTail, Kinds DEF QueuedFits
    <3>6. Same(item.v, ReadBack(item).v)
      <4>1. item.v \in TextContents
        BY <3>5 DEF TextItem
      <4>2. Same(Placed(item.v), item.v)
        BY <3>5, <4>1, PlacedIsStable
      <4> QED
        BY <3>5, <4>2 DEF Same, ReadBack, TextItem
    <3>7. ~HasText(Sent(c)') /\ sync[Srv].seen.kind = "text" => Same(item.v, sync[Srv].seen.v)
      BY <1>6, <2>2, <2>6, TextTail DEF Agrees
    <3>8. LastIs(up'[c], sync'[c].seen)
      BY <1>2, <3>1 DEF LastIs, HasText
    <3>9. HasText(Sent(c)') \/ sync'[Srv].seen.kind # "text" \/ Same(sync'[c].seen.v, sync'[Srv].seen.v)
      BY <1>5, <3>4, <3>6, <3>7 DEF Same
    <3> QED
      BY <1>2, <2>3, <3>1, <3>8, <3>9 DEF Agrees
  <2> QED
    BY <2>5, <2>6
<1> QED
  BY <1>7, <1>8

LEMMA NextAgreement ==
  TypeOK /\ TypeOK' /\ Seen /\ QueuedFits /\ Agreement /\ [Next]_vars => Agreement'
<1> SUFFICES ASSUME TypeOK, TypeOK', Seen, QueuedFits, Agreement, [Next]_vars, NEW c \in Clients
             PROVE  Undisturbed(c)' => Agrees(c)'
  BY DEF Agreement, Undisturbed, Agrees, Sent
<1>1. c \in Machines /\ Srv \in Machines
  BY DEF Machines
<1>2. CASE ServerPoll
  BY <1>2, AgreeServerPoll
<1>3. ASSUME NEW d \in Clients, NEW how, Relay(d, how) \/ ClientTake(d, how) \/ ClientPoll(d)
      PROVE  Undisturbed(c)' => Agrees(c)'
  BY <1>3, AgreeRelay, AgreeClientTake, AgreeClientPoll
<1>4. ASSUME UNCHANGED <<up, down>>, sync'[c].seen = sync[c].seen, sync'[Srv].seen = sync[Srv].seen,
             Undisturbed(c)' => Undisturbed(c)
      PROVE  Undisturbed(c)' => Agrees(c)'
  BY <1>4, AgreeFrame
<1>5. ASSUME NEW m \in Machines, User(m) PROVE Undisturbed(c)' => Agrees(c)'
  <2>1. PICK item : Copy(m, item)
    BY <1>5 DEF User
  <2>2. \A n \in Machines : sync'[n].seen = sync[n].seen
    BY <2>1 DEF Copy, TypeOK, Sync
  <2>3. UNCHANGED <<up, down, cc, crossed, dropped>>
    BY <2>1 DEF Copy, history
  <2> QED
    BY <1>1, <1>4, <2>2, <2>3 DEF Undisturbed
<1>6. ASSUME NEW m \in Machines, NEW how, PullDone(m, how) PROVE Undisturbed(c)' => Agrees(c)'
  <2>1. \A n \in Machines : sync'[n].seen = sync[n].seen
    BY <1>6 DEF PullDone, AppliedFiles, TypeOK, Sync
  <2>2. UNCHANGED <<up, down, cc, crossed, dropped>>
    BY <1>6 DEF PullDone, history
  <2> QED
    BY <1>1, <1>4, <2>1, <2>2 DEF Undisturbed
<1>7. ASSUME NEW d \in Clients, Enter(d) PROVE Undisturbed(c)' => Agrees(c)'
  <2>1. cc'[c].on = cc[c].on
    BY <1>7 DEF Enter, TypeOK, ClientState
  <2> QED
    BY <1>4, <1>7, <2>1 DEF Enter, Undisturbed, clip, history
<1>8. ASSUME NEW d \in Clients, Refuse(d) PROVE Undisturbed(c)' => Agrees(c)'
  <2>1. CASE c = d
    BY <1>8, <2>1 DEF Refuse, Undisturbed
  <2>2. CASE c # d
    <3>1. up'[c] = up[c] /\ UNCHANGED <<down, sync, cc, crossed>> /\ dropped \subseteq dropped'
      BY <1>8, <2>2 DEF Refuse, clip, TypeOK
    <3> QED
      BY <3>1, AgreeFrame DEF Undisturbed
  <2> QED
    BY <2>1, <2>2
<1>9. ASSUME NEW d \in Clients, Reconnect(d) PROVE Undisturbed(c)' => Agrees(c)'
  <2>1. CASE c = d
    BY <1>9, <2>1 DEF Reconnect, Undisturbed
  <2>2. CASE c # d
    <3>1. /\ UNCHANGED <<up, down, crossed>> /\ dropped \subseteq dropped'
          /\ sync'[c] = sync[c] /\ sync'[Srv] = sync[Srv] /\ cc'[c] = cc[c]
      BY <1>1, <1>9, <2>2, RelayAssumption DEF Reconnect, TypeOK
    <3> QED
      BY <1>4, <3>1 DEF Undisturbed
  <2> QED
    BY <2>1, <2>2
<1>10. ASSUME NEW d \in Clients, NEW kept, Disconnect(d, kept) PROVE Undisturbed(c)' => Agrees(c)'
  <2>1. CASE c = d
    BY <1>10, <2>1 DEF Disconnect, Undisturbed, TypeOK, Fresh
  <2>2. CASE c # d
    <3>1. /\ up'[c] = up[c] /\ down'[c] = down[c] /\ UNCHANGED sync /\ cc'[c] = cc[c]
          /\ crossed' = crossed \ {d} /\ dropped' = dropped \ {d} /\ d # Srv
      BY <1>10, <2>2, RelayAssumption DEF Disconnect, TypeOK, clip
    <3>2. Undisturbed(c)' => Undisturbed(c)
      BY <2>2, <3>1 DEF Undisturbed
    <3> QED
      BY <3>1, <3>2, AgreeFrame
  <2> QED
    BY <2>1, <2>2
<1>11. \A d \in Clients : Switch(d) => UNCHANGED <<up, down, sync, cc, crossed, dropped>>
  BY DEF Switch, clip, history
<1>12. \A m \in Machines : PullFails(m) => UNCHANGED <<up, down, sync, cc, crossed, dropped>>
  BY DEF PullFails, clip, history
<1>13. ComeHome \/ UNCHANGED vars => UNCHANGED <<up, down, sync, cc, crossed, dropped>>
  BY DEF ComeHome, vars, clip, history
<1>14. UNCHANGED <<up, down, sync, cc, crossed, dropped>> => (Undisturbed(c)' => Agrees(c)')
  BY <1>4 DEF Undisturbed
<1> QED
  BY <1>2, <1>3, <1>5, <1>6, <1>7, <1>8, <1>9, <1>10, <1>11, <1>12, <1>13, <1>14
     DEF Next, ClientStep

LEMMA InitAgreement == Init => Seen /\ QueuedFits /\ Agreement
<1> SUFFICES ASSUME Init PROVE Seen /\ QueuedFits /\ Agreement
  OBVIOUS
<1>1. Seen
  BY DEF Init, Seen, Nothing
<1>2. \A c \in Clients : up[c] = <<>> /\ Sent(c) = <<>>
  BY DEF Init, Sent
<1>3. AllFit(<<>>) /\ ~HasText(<<>>) /\ \A x : LastIs(<<>>, x)
  BY DEF AllFit, HasText, LastIs
<1>4. \A c \in Clients : sync[c].seen.kind # "text"
  BY DEF Init, Nothing, Machines
<1> QED
  BY <1>1, <1>2, <1>3, <1>4 DEF QueuedFits, Agreement, Agrees

\* When all is quiet a client and the server hold the same text, unless a text the client
\* pushed crossed with one sent to it, or something was withheld from one of them.
THEOREM RelayKeepsEqual == Spec => []KeptEqualUnlessCrossed
<1>1. TypeOK /\ Seen /\ Agreement => KeptEqualUnlessCrossed
  <2> SUFFICES ASSUME TypeOK, Seen, Agreement, Quiet, sync[Srv].clip.kind = "text",
                      Srv \notin dropped, NEW c \in Clients, cc[c].on,
                      sync[c].clip.kind = "text", c \notin crossed \cup dropped
               PROVE  Same(sync[c].clip.v, sync[Srv].clip.v)
    BY DEF KeptEqualUnlessCrossed
  <2>1. c \in Machines /\ Srv \in Machines
    BY DEF Machines
  <2>2. sync[c].seen = sync[c].clip /\ sync[Srv].seen = sync[Srv].clip
    BY <2>1 DEF Quiet, Seen
  <2>3. Agrees(c)
    BY DEF Agreement, Undisturbed
  <2>4. ~HasText(up[c]) /\ ~HasText(Sent(c))
    <3>1. up[c] = <<>> /\ Sent(c) = <<>>
      BY DEF Quiet, Sent
    <3>2. ~HasText(<<>>)
      BY DEF HasText
    <3> QED
      BY <3>1, <3>2
  <2> QED
    BY <2>2, <2>3, <2>4 DEF Agrees
<1> QED
  BY <1>1, InitTypes, InitAgreement, NextTypes, NextSeen, NextQueuedFits, NextAgreement, PTL DEF Spec
=============================================================================
