---------------------------- MODULE TrustAdmin ----------------------------
(***************************************************************************)
(* Who may connect as which screen (geserdesk-server: trust.rs, admin.rs,  *)
(* config.rs and the handshake of net.rs).                                 *)
(*                                                                         *)
(* A connection that finished TLS has a certificate.  Its Hello names a    *)
(* screen; the handshake asks the trust list, then the registry, welcomes  *)
(* the client and registers it, each under a lock of its own.  Meanwhile   *)
(* controllers approve, dismiss, revoke and turn off screens.  Each of     *)
(* these changes memory and saves the config file: read it, create or      *)
(* empty a temporary file, fill it, rename it over the config; a save that *)
(* fails is undone in memory.  A server that stops or crashes starts again *)
(* from the file.  All saves share the temporary file's name, and a save   *)
(* goes on writing the file it opened wherever a rename has put it.        *)
(*                                                                         *)
(* Certificates are model values: TLS proves possession of the key and is  *)
(* external.  Positions and settings are not told apart in the file: a     *)
(* save of either reads and rewrites it as the others do.  What the router *)
(* hears of registrations and of the on/off switch is in HubRegistry; here *)
(* the registry is who holds a name, and the switch a set.                 *)
(***************************************************************************)
EXTENDS Naturals, Sequences, SequencesExt

CONSTANTS
  Names,        \* screens a client may connect as
  Sessions,     \* connection slots
  NameOf,       \* the screen of each slot
  Absent,       \* no certificate, no entry, no file
  Broken,       \* what a file is that was emptied and not filled, or filled by two saves at once
  ClientCerts,  \* client certificates, by fingerprint
  Controllers,  \* tasks that serve one controller's commands each
  MaxPending,   \* MAX_PENDING
  DiskFails     \* TRUE: a save may fail

Screen == [fp : ClientCerts \cup {Absent}, off : BOOLEAN]

ASSUME TrustAssumption ==
  /\ NameOf \in [Sessions -> Names]
  /\ Absent \notin ClientCerts \cup Sessions \cup Screen
  /\ Broken \notin [Names -> Screen \cup {Absent}] \cup {Absent}
  /\ MaxPending \in Nat \ {0}
  /\ DiskFails \in BOOLEAN

VARIABLES
  entry,    \* Hub::clients: the session that holds each name
  disabled, \* Hub::disabled
  trusted,  \* Trust::trusted
  pending,  \* Trust::pending, oldest first
  screens,  \* the layout's screens and Hub::added
  file,     \* the config file: per screen it lists, its certificate and switch
  tmp,      \* the temporary file next to it
  open,     \* per controller: where the file is that its save has open
  conn,     \* per session: how far its handshake is, its certificate, and (history) whether
            \* another certificate came to be trusted after its own was checked
  closing,  \* sessions with a Close in their outbox
  writing,  \* sessions whose loop waits for a write to its client
  op,       \* per controller: the command it carries out
  mixed     \* (history) a command began while another was under way, in this run of the server

hub == <<entry, disabled>>
disk == <<file, tmp, open>>
outboxes == <<closing, writing>>
commands == <<op, mixed>>
trustVars == <<hub, trusted, pending, screens, disk, conn, outboxes, commands>>

File == [Names -> Screen \cup {Absent}]
Request == [name : Names, cert : ClientCerts]
Stages == {"idle", "approve", "save", "write", "fill", "rename", "saved", "undo"}
Op == [at : Stages, cmd : {"none", "approve", "revoke", "switch", "other"},
       name : Names \cup {Absent}, cert : ClientCerts \cup {Absent}, listed : BOOLEAN,
       old : ClientCerts \cup {Absent}, off : BOOLEAN, doc : File \cup {Absent, Broken}]
Idle == [at |-> "idle", cmd |-> "none", name |-> Absent, cert |-> Absent, listed |-> TRUE,
         old |-> Absent, off |-> FALSE, doc |-> Absent]
Connection == [at : {"idle", "hello", "trusted", "welcomed", "serving"}, cert : ClientCerts \cup {Absent},
               listed : BOOLEAN, late : BOOLEAN]
NoConn == [at |-> "idle", cert |-> Absent, listed |-> FALSE, late |-> FALSE]

\* Config::parse: what the file says when a server starts from it.
Listed(f) == {n \in Names : f[n] # Absent}
Fingerprints(f) == [n \in Names |-> IF f[n] = Absent THEN Absent ELSE f[n].fp]
TurnedOff(f) == {n \in Listed(f) : f[n].off}

Load(f) ==
  /\ trusted' = Fingerprints(f)
  /\ disabled' = TurnedOff(f)
  /\ screens' = Listed(f)

TrustInit ==
  /\ entry = [n \in Names |-> Absent]
  /\ file \in File
  /\ disabled = TurnedOff(file)
  /\ trusted = Fingerprints(file)
  /\ screens = Listed(file)
  /\ pending = <<>>
  /\ tmp = Absent /\ open = [c \in Controllers |-> "none"]
  /\ conn = [s \in Sessions |-> NoConn]
  /\ closing = {} /\ writing = {}
  /\ op = [c \in Controllers |-> Idle]
  /\ mixed = FALSE

----------------------------------------------------------------------------
(* The handshake of one connection.                                        *)

\* accept_loop_tls and the start of handle_client: the connection has a certificate, and
\* the list of screens is copied before the Hello is read.
Knock(s, c) ==
  /\ conn[s].at = "idle"
  /\ conn' = [conn EXCEPT ![s] =
                [at |-> "hello", cert |-> c, listed |-> NameOf[s] \in screens, late |-> FALSE]]
  /\ UNCHANGED <<hub, trusted, pending, screens, disk, outboxes, commands>>

\* The client goes away, or HELLO_TIMEOUT passes.
GiveUp(s) ==
  /\ conn[s].at \in {"hello", "trusted", "welcomed"}
  /\ conn' = [conn EXCEPT ![s] = NoConn]
  /\ UNCHANGED <<hub, trusted, pending, screens, disk, outboxes, commands>>

\* Trust::note_pending: a request is kept once, the oldest makes room.
NotePending(r) ==
  IF r \in Range(pending) THEN pending
  ELSE Append(IF Len(pending) >= MaxPending THEN Tail(pending) ELSE pending, r)

\* handshake up to `authorize`, with a certificate to approve a new screen by: a
\* certificate that is not the one trusted for the name asks to be, and is refused; a
\* trusted one whose screen was not listed when it connected is refused.
Authorize(s) ==
  /\ conn[s].at = "hello"
  /\ LET c == conn[s].cert
         known == trusted[NameOf[s]] = c
     IN  /\ conn' = [conn EXCEPT ![s] =
                       IF known /\ conn[s].listed THEN [@ EXCEPT !.at = "trusted"] ELSE NoConn]
         /\ pending' = IF known THEN pending
                       ELSE NotePending([name |-> NameOf[s], cert |-> c])
  /\ UNCHANGED <<hub, trusted, screens, disk, outboxes, commands>>

\* The rest of handshake: refused when the name is connected, else Welcome and SetOptions.
Welcome(s) ==
  /\ conn[s].at = "trusted"
  /\ conn' = [conn EXCEPT ![s] =
                IF entry[NameOf[s]] = Absent THEN [@ EXCEPT !.at = "welcomed"] ELSE NoConn]
  /\ UNCHANGED <<hub, trusted, pending, screens, disk, outboxes, commands>>

\* handle_client claims the name, or ends when another connection has it by now.
Admit(s) ==
  /\ conn[s].at = "welcomed"
  /\ IF entry[NameOf[s]] = Absent
     THEN /\ entry' = [entry EXCEPT ![NameOf[s]] = s]
          /\ conn' = [conn EXCEPT ![s].at = "serving"]
     ELSE /\ conn' = [conn EXCEPT ![s] = NoConn]
          /\ UNCHANGED entry
  /\ UNCHANGED <<disabled, trusted, pending, screens, disk, outboxes, commands>>

\* Mutant of EndSession: the session goes on after a Close was sent.
EndSessionItself(s) ==
  /\ conn[s].at = "serving" /\ s \notin closing
  /\ entry' = [entry EXCEPT ![NameOf[s]] = Absent]
  /\ conn' = [conn EXCEPT ![s] = NoConn]
  /\ UNCHANGED <<disabled, trusted, pending, screens, disk, outboxes, commands>>

\* session_loop comes to write: a message of the router, a probe, a Close.  Until the write
\* is done it reads nothing and takes nothing from its outbox, and no timeout ends it.
AwaitSend(s) ==
  /\ conn[s].at = "serving" /\ s \notin writing
  /\ writing' = writing \cup {s}
  /\ UNCHANGED <<hub, trusted, pending, screens, disk, conn, closing, commands>>

\* The client, or the network's buffers, took what was written.
Sent(s) ==
  /\ s \in writing
  /\ writing' = writing \ {s}
  /\ UNCHANGED <<hub, trusted, pending, screens, disk, conn, closing, commands>>

\* session_loop returns (the peer went, a send failed, a Close was sent) and the
\* Registration is dropped.
EndSession(s) ==
  /\ conn[s].at = "serving"
  /\ entry' = [entry EXCEPT ![NameOf[s]] = Absent]
  /\ conn' = [conn EXCEPT ![s] = NoConn]
  /\ closing' = closing \ {s} /\ writing' = writing \ {s}
  /\ UNCHANGED <<disabled, trusted, pending, screens, disk, commands>>

----------------------------------------------------------------------------
(* Saving the config file.                                                 *)

\* What the command makes of the file it read: write_fingerprint, write_disabled,
\* add_screen_to_config; write_layout and write_tuning change what is not modelled.
Edited(f, o) ==
  IF f = Broken THEN f
  ELSE
  CASE o.cmd = "approve" /\ ~o.listed -> [f EXCEPT ![o.name] = [fp |-> o.cert, off |-> FALSE]]
    [] o.cmd = "approve" /\ o.listed /\ f[o.name] # Absent -> [f EXCEPT ![o.name].fp = o.cert]
    [] o.cmd = "revoke" /\ f[o.name] # Absent -> [f EXCEPT ![o.name].fp = Absent]
    [] o.cmd = "switch" /\ f[o.name] # Absent -> [f EXCEPT ![o.name].off = o.off]
    [] OTHER -> f

\* add_screen_to_config refuses a name the file has by now, but begins a list of screens in an
\* empty file (which is no config of this desk all the same); the others need the list.
Refused(f, o) ==
  IF o.cmd = "approve" /\ ~o.listed THEN f # Broken /\ f[o.name] # Absent ELSE f = Broken

Step(c, at) == op' = [op EXCEPT ![c].at = at]

\* edit_screens reads the file and edits what it read.
ReadConfig(c) ==
  /\ op[c].at = "save"
  /\ IF Refused(file, op[c])
     THEN Step(c, "undo")
     ELSE op' = [op EXCEPT ![c] = [@ EXCEPT !.at = "write", !.doc = Edited(file, op[c])]]
  /\ UNCHANGED <<hub, trusted, pending, screens, disk, conn, outboxes, mixed>>

\* fs::write creates the temporary file, or empties the one another save has open.
OpenTmp(c) ==
  /\ op[c].at = "write"
  /\ tmp' = Broken
  /\ open' = [open EXCEPT ![c] = "tmp"]
  /\ Step(c, "fill")
  /\ UNCHANGED <<hub, trusted, pending, screens, file, conn, outboxes, mixed>>

\* Writing d from the start of a file: over what another save wrote its end may remain.
Written(f, d) == IF f = Broken THEN {d} ELSE {d, Broken}

\* ... and writes, wherever the file it opened is by now: another save may have renamed it to
\* the config, and a later one replaced that.
FillTmp(c) ==
  /\ op[c].at = "fill"
  /\ tmp' \in IF open[c] = "tmp" THEN Written(tmp, op[c].doc) ELSE {tmp}
  /\ file' \in IF open[c] = "file" THEN Written(file, op[c].doc) ELSE {file}
  /\ open' = [open EXCEPT ![c] = "none"]
  /\ Step(c, "rename")
  /\ UNCHANGED <<hub, trusted, pending, screens, conn, outboxes, mixed>>

\* Where a rename leaves the files that other saves have open.
Moved(where) == IF where = "tmp" THEN "file" ELSE IF where = "file" THEN "gone" ELSE where

\* The rename fails when the temporary file, whose name all saves share, is not there.
Rename(c) ==
  /\ op[c].at = "rename"
  /\ IF tmp = Absent
     THEN Step(c, "undo") /\ UNCHANGED disk
     ELSE /\ Step(c, "saved") /\ file' = tmp /\ tmp' = Absent
          /\ open' = [d \in Controllers |-> Moved(open[d])]
  /\ UNCHANGED <<hub, trusted, pending, screens, conn, outboxes, mixed>>

\* Any of the four fails: no permission, no space, the file is gone or damaged.
SaveFails(c) ==
  /\ DiskFails
  /\ op[c].at \in {"save", "write", "fill", "rename"}
  /\ open' = [open EXCEPT ![c] = "none"]
  /\ Step(c, "undo")
  /\ UNCHANGED <<hub, trusted, pending, screens, file, tmp, conn, outboxes, mixed>>

----------------------------------------------------------------------------
(* The commands.                                                           *)

\* The connections of n that the trust list, now holding f for it, no longer vouches for.
Overtaken(n, f, stages) ==
  [s \in Sessions |->
     IF NameOf[s] = n /\ conn[s].at \in stages
     THEN [conn[s] EXCEPT !.late = conn[s].cert # f] ELSE conn[s]]

Checked == {"trusted", "welcomed"}

\* A command begins; no lock keeps two of them apart.
Takes(c, o) ==
  /\ op[c] = Idle
  /\ op' = [op EXCEPT ![c] = o]
  /\ mixed' = (mixed \/ \E d \in Controllers \ {c} : op[d] # Idle)

Begin(c, o) ==
  /\ Takes(c, o)
  /\ UNCHANGED <<hub, trusted, pending, screens, disk, conn, outboxes>>

\* DeskState::approve up to the trust list: what was trusted before is kept for the undo.
BeginApprove(c, n, f) ==
  Begin(c, [Idle EXCEPT !.at = "approve", !.cmd = "approve", !.name = n, !.cert = f,
                        !.listed = n \in screens, !.old = trusted[n]])

\* Trust::approve: only what is pending; the name's other requests go with it.
TrustApprove(c) ==
  LET o == op[c] IN
  /\ o.at = "approve"
  /\ IF [name |-> o.name, cert |-> o.cert] \in Range(pending)
     THEN /\ pending' = SelectSeq(pending, LAMBDA r : r.name # o.name)
          /\ trusted' = [trusted EXCEPT ![o.name] = o.cert]
          /\ conn' = Overtaken(o.name, o.cert, Checked \cup {"serving"})
          /\ Step(c, "save")
     ELSE op' = [op EXCEPT ![c] = Idle] /\ UNCHANGED <<pending, trusted, conn>>
  /\ UNCHANGED <<hub, screens, disk, outboxes, mixed>>

\* DeskState::revoke up to the save; a screen that is not trusted is an error.
BeginRevoke(c, n) ==
  /\ trusted[n] # Absent
  /\ Takes(c, [Idle EXCEPT !.at = "save", !.cmd = "revoke", !.name = n, !.old = trusted[n]])
  /\ trusted' = [trusted EXCEPT ![n] = Absent]
  /\ conn' = Overtaken(n, Absent, Checked)
  /\ UNCHANGED <<hub, pending, screens, disk, outboxes>>

\* DeskState::set_disabled up to the save: only a screen of the layout.
BeginSwitch(c, n, off) ==
  /\ n \in screens
  /\ Begin(c, [Idle EXCEPT !.at = "save", !.cmd = "switch", !.name = n, !.off = off])

\* DeskState::apply_layout, and the settings window's write_tuning: a save of the rest.
BeginOther(c) == Begin(c, [Idle EXCEPT !.at = "save", !.cmd = "other"])

\* Trust::dismiss, and a request older than PENDING_TTL.
Forget(r) ==
  /\ r \in Range(pending)
  /\ pending' = SelectSeq(pending, LAMBDA p : p # r)
  /\ UNCHANGED <<hub, trusted, screens, disk, conn, outboxes, commands>>

\* Mutant of Undo: what a failed approval trusted stays trusted.
UndoNothing(c) ==
  /\ op[c].at = "undo"
  /\ op' = [op EXCEPT ![c] = Idle]
  /\ UNCHANGED <<hub, pending, screens, disk, conn, outboxes, trusted, mixed>>

\* Trust::restore after a failed save; the other commands changed nothing yet.
Undo(c) ==
  LET o == op[c] IN
  /\ o.at = "undo"
  /\ IF o.cmd \in {"approve", "revoke"}
     THEN /\ trusted' = [trusted EXCEPT ![o.name] = o.old]
          /\ conn' = Overtaken(o.name, o.old, Checked \cup {"serving"})
     ELSE UNCHANGED <<trusted, conn>>
  /\ op' = [op EXCEPT ![c] = Idle]
  /\ UNCHANGED <<hub, pending, screens, disk, outboxes, mixed>>

\* Mutant of FinishRevoke: the session of the screen is not told.
FinishRevokeQuietly(c) ==
  /\ op[c].at = "saved" /\ op[c].cmd = "revoke"
  /\ op' = [op EXCEPT ![c] = Idle]
  /\ UNCHANGED <<hub, trusted, pending, screens, disk, conn, outboxes, mixed>>

\* Hub::disconnect: whoever holds the name is told to go.
FinishRevoke(c) ==
  /\ op[c].at = "saved" /\ op[c].cmd = "revoke"
  /\ closing' = closing \cup ({entry[op[c].name]} \ {Absent})
  /\ op' = [op EXCEPT ![c] = Idle]
  /\ UNCHANGED <<hub, trusted, pending, screens, disk, conn, writing, mixed>>

\* A new screen joins the layout and Hub::added; otherwise nothing is left to do.
FinishOther(c) ==
  /\ op[c].at = "saved" /\ op[c].cmd \in {"approve", "other"}
  /\ screens' = IF op[c].cmd = "approve" THEN screens \cup {op[c].name} ELSE screens
  /\ op' = [op EXCEPT ![c] = Idle]
  /\ UNCHANGED <<hub, trusted, pending, disk, conn, outboxes, mixed>>

\* Hub::set_disabled, which says nothing when the switch is there already.
FinishSwitch(c) ==
  /\ op[c].at = "saved" /\ op[c].cmd = "switch"
  /\ disabled' = IF op[c].off THEN disabled \cup {op[c].name} ELSE disabled \ {op[c].name}
  /\ op' = [op EXCEPT ![c] = Idle]
  /\ UNCHANGED <<entry, trusted, pending, screens, disk, conn, outboxes, mixed>>

\* The server is stopped, or dies, wherever it is, and starts from the file, which must be a
\* config (Config::parse): with a broken one no server runs until somebody repairs it.
Restart ==
  /\ file # Broken
  /\ Load(file)
  /\ entry' = [n \in Names |-> Absent]
  /\ conn' = [s \in Sessions |-> NoConn]
  /\ pending' = <<>> /\ closing' = {} /\ writing' = {}
  /\ op' = [c \in Controllers |-> Idle] /\ open' = [c \in Controllers |-> "none"]
  /\ mixed' = FALSE
  /\ UNCHANGED <<file, tmp>>

----------------------------------------------------------------------------

ConnStep(s) ==
  \/ \E c \in ClientCerts : Knock(s, c)
  \/ GiveUp(s) \/ Authorize(s) \/ Welcome(s) \/ Admit(s)
  \/ AwaitSend(s) \/ Sent(s) \/ EndSession(s)

NewCommand(c) ==
  \/ \E n \in Names : \/ \E f \in ClientCerts : BeginApprove(c, n, f)
                      \/ BeginRevoke(c, n)
                      \/ \E off \in BOOLEAN : BeginSwitch(c, n, off)
  \/ BeginOther(c)

Proceed(c) ==
  \/ TrustApprove(c) \/ ReadConfig(c) \/ OpenTmp(c) \/ FillTmp(c) \/ Rename(c) \/ Undo(c)
  \/ FinishRevoke(c) \/ FinishOther(c) \/ FinishSwitch(c)

TrustNext ==
  \/ \E s \in Sessions : ConnStep(s)
  \/ \E c \in Controllers : NewCommand(c) \/ Proceed(c) \/ SaveFails(c)
  \/ \E r \in Request : Forget(r)
  \/ Restart

TrustSpec == TrustInit /\ [][TrustNext]_trustVars

\* Commands are carried out.  A session's loop takes from its outbox between two writes,
\* again and again if the writes end (select! picks among ready branches at random), so a
\* Close is read in the end; that a write ends depends on the client and is not assumed.
TrustFairSpec ==
  /\ TrustSpec
  /\ \A c \in Controllers : WF_trustVars(Proceed(c))
  /\ \A s \in Sessions : SF_trustVars(s \in closing /\ s \notin writing /\ EndSession(s))

----------------------------------------------------------------------------
(* Properties.                                                             *)

\* Types; with the limit of the pending list (Trust::note_pending).
StateOK ==
  /\ entry \in [Names -> Sessions \cup {Absent}] /\ disabled \subseteq Names
  /\ trusted \in [Names -> ClientCerts \cup {Absent}]
  /\ screens \subseteq Names /\ file \in File \cup {Broken} /\ tmp \in File \cup {Absent, Broken}
  /\ open \in [Controllers -> {"none", "tmp", "file", "gone"}]
  /\ conn \in [Sessions -> Connection] /\ closing \subseteq Sessions /\ writing \subseteq Sessions
  /\ op \in [Controllers -> Op] /\ mixed \in BOOLEAN

TrustTypeOK == StateOK /\ pending \in Seq(Request) /\ Len(pending) <= MaxPending

Serving == {s \in Sessions : conn[s].at = "serving"}
NoCommand == \A c \in Controllers : op[c] = Idle

\* admin.rs undoes an approval "so what is trusted in memory matches what is on disk": with
\* no command in progress a restart would trust, list and turn off exactly what this server
\* does, whatever saves failed and wherever it was stopped before (DeskState::approve,
\* DeskState::revoke, DeskState::set_disabled).  The exception: two controllers' commands
\* overlapped, when each may save what it read before the other did, and undo over it.
SavedIsTrusted ==
  NoCommand /\ ~mixed => /\ trusted = Fingerprints(file)
                     /\ screens = Listed(file)
                     /\ disabled = TurnedOff(file)

\* "Replace atomically so a crash never leaves a half-written config" (edit_screens): the
\* config is always a whole one, and the server can start from it.
WholeConfig == file # Broken

\* With no command in progress a session serves with the certificate trusted for its name,
\* or has a Close to read, or belongs to one of the cases the code lets through: it was past
\* the check (not yet in the registry) when the certificate was revoked, or an approval of
\* another certificate, or the undo of one, came after the check; nobody ends those sessions
\* (Trust::check, DeskState::approve, DeskState::revoke, Hub::disconnect).
ServedIsTrusted ==
  NoCommand => \A s \in Serving \ closing : conn[s].late \/ trusted[NameOf[s]] = conn[s].cert

\* A session that serves a screen when its certificate has been revoked and the file saved
\* ends, unless its loop comes to wait for ever in a write: the Close waits behind it in the
\* outbox, and no timeout ends the write (DeskState::revoke, Hub::disconnect, session_loop).
RevokedGoes ==
  \A s \in Sessions :
    []<>(s \notin writing) =>
      ((conn[s].at = "serving" /\ \E c \in Controllers :
          op[c].at = "saved" /\ op[c].cmd = "revoke" /\ op[c].name = NameOf[s])
        ~> (conn[s].at # "serving"))
=============================================================================
