------------------------------ MODULE FileTree ------------------------------
(***************************************************************************)
(* A copy of files and folders: the tree walked into a manifest, the       *)
(* manifest checked where it arrives, the reads that pull its bytes, and   *)
(* what they leave in the staging folder (geserdesk-clipboard files.rs,    *)
(* stage.rs, pull.rs; geserdesk-proto clipboard.rs).                       *)
(*                                                                         *)
(* A name is a number, in the order of the names' bytes; AsText is the     *)
(* text that is announced for it and Folded that text in lower case.       *)
(***************************************************************************)
EXTENDS Integers, Sequences, SequencesExt, FiniteSets

CONSTANTS
  Fs,          \* the owner's files: per absolute path what is there, and its size
  AsText, Folded,
  UnsafeTexts, \* the names no path may have: .. or CON or a:b and the like
  MaxDepth, MaxEntries, MaxReadLen,
  MaxCopy,     \* clipboard_files_max_bytes, 0 for no limit
  None

ASSUME TreeAssumption ==
  /\ \A p \in DOMAIN Fs : Fs[p].size \in Nat
  /\ {MaxDepth, MaxEntries, MaxCopy} \subseteq Nat /\ MaxReadLen \in Nat \ {0}

-----------------------------------------------------------------------------
(* collect: depth first, a folder before what is in it, in the order of names.  Symbolic *)
(* links and devices are left out, and so is what is below them.                         *)

Before(p, q) ==
  \/ IsStrictPrefix(p, q)
  \/ \E k \in DOMAIN p \cap DOMAIN q :
       p[k] < q[k] /\ \A j \in 1..(k - 1) : p[j] = q[j]

Visited(root) ==
  {p \in DOMAIN Fs : /\ IsPrefix(root, p)
                     /\ \A k \in Len(root)..(Len(p) - 1) : Fs[SubSeq(p, 1, k)].kind = "dir"}
Walk(root) == SetToSortSeq({p \in Visited(root) : Fs[p].kind \in {"dir", "file"}}, Before)

\* The path announced: from the copied item's own name on.
Rel(root, p) ==
  [k \in 1..(Len(p) - Len(root) + 1) |-> AsText[p[Len(root) + k - 1]]]

FileEntry(root, p) ==
  [path |-> Rel(root, p), dir |-> Fs[p].kind = "dir",
   size |-> IF Fs[p].kind = "dir" THEN 0 ELSE Fs[p].size]

TotalBytes(entries) == FoldLeft(LAMBDA n, e : IF e.dir THEN n ELSE n + e.size, 0, entries)

\* The manifest and where its entries are, or nothing at all.
Collect(roots) ==
  LET abs == FlattenSeq([i \in DOMAIN roots |-> Walk(roots[i])])
      entries == FlattenSeq([i \in DOMAIN roots |->
                   [k \in DOMAIN Walk(roots[i]) |-> FileEntry(roots[i], Walk(roots[i])[k])]])
      tooDeep == \E i \in DOMAIN roots : \E p \in Visited(roots[i]) :
                   Len(p) - Len(roots[i]) > MaxDepth
  IN  IF tooDeep \/ Len(entries) > MaxEntries \/ (MaxCopy > 0 /\ TotalBytes(entries) > MaxCopy)
      THEN None ELSE [entries |-> entries, abs |-> abs]

-----------------------------------------------------------------------------
(* FileOwner::read and read_at. *)

\* One read of the files collected, of what is on the disk as it was announced.
ReadAt(files, index, offset, len) ==
  IF index \notin DOMAIN files.entries THEN None
  ELSE LET e == files.entries[index]
           most == {len, MaxReadLen, e.size - offset}
       IN  IF e.dir \/ offset > e.size THEN None
           ELSE [index |-> index, offset |-> offset,
                 len |-> CHOOSE n \in most : \A x \in most : n <= x]

-----------------------------------------------------------------------------
(* sanitize_manifest: every path safe, and no two the same once case is ignored. *)

SafePath(path) ==
  path # <<>> /\ \A k \in DOMAIN path : path[k] \notin UnsafeTexts

Lower(path) == [k \in DOMAIN path |-> Folded[path[k]]]

Sanitized(entries) ==
  /\ \A i \in DOMAIN entries : SafePath(entries[i].path)
  /\ \A i, j \in DOMAIN entries : Lower(entries[i].path) = Lower(entries[j].path) => i = j

\* What pull_with_options checks before it writes anything.
Pullable(entries, max) ==
  (max > 0 => TotalBytes(entries) <= max) /\ Sanitized(entries)

-----------------------------------------------------------------------------
(* pull_into: entry by entry, each file by reads of at most MAX_READ_LEN. *)

\* How many bytes come before an entry's.
Base(entries, i) == TotalBytes(SubSeq(entries, 1, i - 1))

\* The next read once that many bytes have come: of the first file that is not complete.
NextRead(entries, done) ==
  LET i == CHOOSE i \in DOMAIN entries :
             Base(entries, i) <= done /\ done < Base(entries, i + 1)
      left == Base(entries, i + 1) - done
  IN  [index |-> i, offset |-> done - Base(entries, i),
       len |-> IF left < MaxReadLen THEN left ELSE MaxReadLen]

\* What is in the staging folder then: a folder or file is there once its turn has come.
Staged(entries, done) ==
  {[path |-> entries[i].path, dir |-> entries[i].dir,
    size |-> IF done >= Base(entries, i + 1) THEN entries[i].size
             ELSE done - Base(entries, i)] :
   i \in {i \in DOMAIN entries : Base(entries, i) <= done}}

\* top_level: what a paste pastes.
TopLevel(entries) == SelectSeq(entries, LAMBDA e : Len(e.path) = 1)

-----------------------------------------------------------------------------
(* What a copy promises, whatever is copied. *)

\* The reads of a pull ask for every byte of every file once, in order, inside its file.
AllReads(entries) ==
  LET From[done \in 0..TotalBytes(entries)] ==
        IF done = TotalBytes(entries) THEN <<>>
        ELSE LET r == NextRead(entries, done) IN <<r>> \o From[done + r.len]
  IN  From[0]

ReadsCover(files) ==
  LET reads == AllReads(files.entries)
      At(i) == {r \in ToSet(reads) : r.index = i}
  IN  \A i \in DOMAIN files.entries :
        LET size == files.entries[i].size IN
        /\ \A b \in 0..(size - 1) :
             Cardinality({r \in At(i) : r.offset <= b /\ b < r.offset + r.len}) = 1
        /\ \A r \in At(i) : /\ r.offset + r.len <= size /\ ~files.entries[i].dir
                            /\ ReadAt(files, r.index, r.offset, r.len) = r

\* A folder is there before anything is put in it.
FoldersFirst(entries) ==
  \A j \in DOMAIN entries : Len(entries[j].path) > 1 =>
    \E i \in 1..(j - 1) : entries[i].dir /\ entries[i].path = Front(entries[j].path)

\* A pull that ends well leaves the tree that was copied, and a paste pastes what was picked.
CopyIsFaithful(roots) ==
  LET files == Collect(roots) IN
  files # None /\ Sanitized(files.entries) =>
    /\ ReadsCover(files) /\ FoldersFirst(files.entries)
    /\ Staged(files.entries, TotalBytes(files.entries)) =
         UNION {{FileEntry(roots[i], p) : p \in ToSet(Walk(roots[i]))} : i \in DOMAIN roots}
    /\ Len(TopLevel(files.entries)) =
         Cardinality({i \in DOMAIN roots : Walk(roots[i]) # <<>>})
=============================================================================
