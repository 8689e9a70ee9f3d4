------------------------- MODULE MCClipboardRelay -------------------------
(***************************************************************************)
(* Small instances of ClipboardRelay: the server and two clients, copies   *)
(* of which some fit only without their style, or not at all, and a check  *)
(* of the assembler against its grammar over every short run of chunks.    *)
(***************************************************************************)
EXTENDS ClipboardRelay

CONSTANTS a, b, t1, t2, t3, f1, f2, f3

Bytes(v, n) == [v |-> v, bytes |-> n]

Styled == [text |-> Bytes(t1, 1), html |-> Bytes(t1, 2)]
Picture == [image |-> Bytes(t2, 1), html |-> Bytes(t2, 1)]
Long == [text |-> Bytes(t3, 3)]
CopiedTexts == {Styled, Picture, Long}

Folder == Bytes(f1, 1)
ManyNames == Bytes(f2, 9)
Huge == Bytes(f3, 1)
CopiedFiles == {Folder, ManyNames, Huge}
TooCostly == {Huge}

ShortStreams ==
  SeqOf({Start(0), Start(2), Start(4), Data(<<1>>), Data(<<2, 3>>), End}, 5)

ASSUME AssemblerIsItsGrammar == AssemblesTheGrammar(ShortStreams, {0, 2, 3})

(* A stream gives back what was sent, in whatever sizes of chunk, if it is within the limit. *)
ASSUME StreamsComeBack ==
  \A c \in CopiedTexts \cup {WithFiles(f) : f \in CopiedFiles}, max \in 0..9 :
    Received(c, max) = IF DataLen(c) <= max THEN c ELSE None

(* What fits, fits again, and keeps the text if anything of a copy with text is kept. *)
ASSUME FittingIsStable ==
  \A c \in CopiedTexts, max \in 0..9 :
    LET kept == Fit(c, max) IN
    kept # None => /\ Fit(kept, max) = kept
                   /\ "text" \in DOMAIN c => "text" \in DOMAIN kept
=============================================================================
