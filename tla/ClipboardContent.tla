-------------------------- MODULE ClipboardContent --------------------------
(***************************************************************************)
(* What a clipboard transfer carries: the formats of a copy and what a     *)
(* size limit lets through of them, the chunks they travel in, and the     *)
(* receiver that puts the chunks together (geserdesk-proto clipboard.rs;   *)
(* geserdesk-clipboard lib.rs, inbound.rs, system.rs).                     *)
(*                                                                         *)
(* A content maps each of its formats to the data in it: which data, and   *)
(* how many bytes.  An encoded byte is identified by the content it is of  *)
(* and its position; empty formats are left out of every content.          *)
(***************************************************************************)
EXTENDS Naturals, Sequences, SequencesExt

CONSTANTS
  None,
  ChunkSize,  \* CHUNK_SIZE
  Slack       \* ENCODING_SLACK

\* The slack covers what encoding adds: here a byte for the list and one for each format.
ASSUME ContentAssumption == ChunkSize \in Nat \ {0} /\ Slack \in Nat /\ Slack > 4

-----------------------------------------------------------------------------
(* Formats. *)

Keep(c, mimes) == [m \in DOMAIN c \cap mimes |-> c[m]]
WithoutHtml(c) == [m \in DOMAIN c \ {"html"} |-> c[m]]
TextOnly(c) == Keep(c, {"text"})
WithFiles(manifest) == [m \in {"files"} |-> manifest]
IsEmpty(c) == DOMAIN c \cap {"text", "html", "image", "files"} = {}
Size(c, m) == IF m \in DOMAIN c THEN c[m].bytes ELSE 0
DataLen(c) == Size(c, "text") + Size(c, "html") + Size(c, "image") + Size(c, "files")

\* The style goes first, then the picture; nothing fits when even the text does not.
Fit(c, max) ==
  LET tries == <<c, WithoutHtml(c), TextOnly(c)>>
      Fits(i) == ~IsEmpty(tries[i]) /\ DataLen(tries[i]) <= max
      fitting == {i \in 1..3 : Fits(i)}
  IN IF fitting = {} THEN None ELSE tries[CHOOSE i \in fitting : \A j \in fitting : i <= j]

EffectiveMax(configured, hard) ==
  IF configured = 0 \/ configured > hard THEN hard ELSE configured

\* SystemClipboard::get: a picture counts only where there is no text.
Reported(c) == IF "text" \in DOMAIN c THEN Keep(c, {"text", "html"}) ELSE c

\* SystemClipboard::set puts one kind of thing: text with its style, or a picture, or style.
Placed(c) ==
  IF "text" \in DOMAIN c THEN Keep(c, {"text", "html"})
  ELSE IF "image" \in DOMAIN c THEN Keep(c, {"image"}) ELSE Keep(c, {"html"})

Encode(c) ==
  [i \in 1..(1 + DataLen(c) + FoldFunction(LAMBDA d, n : n + 1, 0, c)) |-> [of |-> c, at |-> i]]

\* Malformed unless it is the whole encoding of one content.
Decode(bytes) ==
  IF bytes # <<>> /\ bytes = Encode(bytes[1].of) THEN bytes[1].of ELSE None

-----------------------------------------------------------------------------
(* Chunks. *)

Start(total) == [t |-> "start", total |-> total]
Data(bytes) == [t |-> "data", bytes |-> bytes]
End == [t |-> "end"]

Stream(bytes) ==
  LET n == (Len(bytes) + ChunkSize - 1) \div ChunkSize
      Upto(i) == IF i * ChunkSize < Len(bytes) THEN i * ChunkSize ELSE Len(bytes)
  IN  <<Start(Len(bytes))>>
      \o [i \in 1..n |-> Data(SubSeq(bytes, (i - 1) * ChunkSize + 1, Upto(i)))]
      \o <<End>>

Assembler(limit) ==
  [started |-> FALSE, finished |-> FALSE, expected |-> 0, limit |-> limit, buf |-> <<>>]

\* A limit of 0 is none.
Over(asm, n) == asm.limit > 0 /\ n > asm.limit

\* The chunks push refuses: out of order, over the limit, or not of the length declared (a
\* declared 0 is not known).
Refused(asm, chunk) ==
  \/ asm.finished
  \/ chunk.t = "start" /\ (asm.started \/ Over(asm, chunk.total))
  \/ chunk.t # "start" /\ ~asm.started
  \/ chunk.t = "data" /\ Over(asm, Len(asm.buf) + Len(chunk.bytes))
  \/ chunk.t = "end" /\ asm.expected # 0 /\ asm.expected # Len(asm.buf)

\* What push makes of a chunk it does not refuse.
Pushed(asm, chunk) ==
  CASE chunk.t = "start" -> [asm EXCEPT !.started = TRUE, !.expected = chunk.total]
    [] chunk.t = "data" -> [asm EXCEPT !.buf = @ \o chunk.bytes]
    [] chunk.t = "end" -> [asm EXCEPT !.finished = TRUE]

-----------------------------------------------------------------------------
(* Inbound: one transfer at a time. *)

NoTransfer == [cur |-> None, got |-> None]

\* A grab drops a transfer in progress; one of the primary selection is not taken.
Grab(inb, primary, seq, max) ==
  [cur |-> IF primary THEN None
           ELSE [seq |-> seq, max |-> max, asm |-> Assembler(max + Slack)],
   got |-> None]

\* One chunk: chunks of another transfer are ignored, a refused one ends the transfer, the
\* last one gives the content, if it is one and its data is within the limit.
Feed(inb, seq, chunk) ==
  LET cur == inb.cur IN
  IF cur = None \/ cur.seq # seq THEN [inb EXCEPT !.got = None]
  ELSE IF Refused(cur.asm, chunk) THEN NoTransfer
  ELSE IF chunk.t # "end"
  THEN [inb EXCEPT !.cur.asm = Pushed(@, chunk), !.got = None]
  ELSE LET c == Decode(cur.asm.buf)
       IN  [cur |-> None, got |-> IF c # None /\ DataLen(c) <= cur.max THEN c ELSE None]

\* What a receiver with this limit gets of a content pushed as one stream.
Received(c, max) ==
  FoldLeft(LAMBDA inb, chunk : Feed(inb, 1, chunk),
           Grab(NoTransfer, FALSE, 1, max), Stream(Encode(c))).got

-----------------------------------------------------------------------------
(* A reference for the assembler: what its doc calls a well-formed stream, Start, then any *)
(* number of Data, then End, with the length declared and within the limit.                *)

Body(chunks) == FlattenSeq([i \in 1..(Len(chunks) - 2) |-> chunks[i + 1].bytes])

WellFormed(chunks, limit) ==
  LET n == Len(chunks) IN
  /\ n >= 2 /\ chunks[1].t = "start" /\ chunks[n].t = "end"
  /\ \A i \in 2..(n - 1) : chunks[i].t = "data"
  /\ chunks[1].total \in {0, Len(Body(chunks))}
  /\ limit > 0 => chunks[1].total <= limit /\ Len(Body(chunks)) <= limit

\* What an assembler has put together after these chunks; it takes none after one it
\* refused (Inbound drops it).
Assembled(chunks, limit) ==
  LET Step(asm, chunk) ==
        IF asm = None \/ Refused(asm, chunk) THEN None ELSE Pushed(asm, chunk)
  IN FoldLeft(Step, Assembler(limit), chunks)

\* The assembler completes exactly the well-formed streams, with their bytes.
AssemblesTheGrammar(streams, limits) ==
  \A chunks \in streams, limit \in limits :
    LET asm == Assembled(chunks, limit) IN
    /\ (asm # None /\ asm.finished) <=> WellFormed(chunks, limit)
    /\ WellFormed(chunks, limit) => asm.buf = Body(chunks)
=============================================================================
