---------------------------- MODULE MCFilePull ----------------------------
(***************************************************************************)
(* Small instances of FilePull: the server and two clients, and a small    *)
(* tree of files: a folder with a file of two reads' size, an empty file   *)
(* and a link; a file with a name that is not safe; two files of one name. *)
(***************************************************************************)
EXTENDS FilePull, TLC

CONSTANTS a, b

Root == 1
Docs == 2
Big == 3
Nil == 4
Ln == 5
Odd == 6
Upper == 7
Deep == 8

Dir == [kind |-> "dir", size |-> 0]
File(n) == [kind |-> "file", size |-> n]
Link == [kind |-> "link", size |-> 0]

Disk ==
  (<<Root>> :> Dir) @@ (<<Root, Docs>> :> Dir)
  @@ (<<Root, Docs, Big>> :> File(3)) @@ (<<Root, Docs, Nil>> :> File(0))
  @@ (<<Root, Docs, Ln>> :> Link) @@ (<<Root, Docs, Ln, Big>> :> File(1))
  @@ (<<Root, Odd>> :> File(1)) @@ (<<Root, Big>> :> File(1)) @@ (<<Root, Upper>> :> File(2))
  @@ (<<Root, Deep>> :> Dir) @@ (<<Root, Deep, Docs>> :> Dir) @@ (<<Root, Deep, Docs, Nil>> :> Dir)
  @@ (<<Root, Deep, Docs, Nil, Big>> :> File(1))

Text == [n \in Root..Deep |-> n]
Lowered == [n \in Root..Deep |-> IF n = Upper THEN Big ELSE n]
Unsafe == {Odd}

Tree == <<<<Root, Docs>>>>
Single == <<<<Root, Docs, Big>>>>
CopiesOf == [m \in Owners |-> IF m = Srv THEN {Tree} ELSE {Single}]

(* Every pick of up to two items of this disk: what can be staged is staged as it was. *)
ASSUME CopiesAreFaithful == \A roots \in SeqOf(DOMAIN Disk, 2) : CopyIsFaithful(roots)

(* What is refused: by depth, by number, by size, and names that would collide. *)
ASSUME CopiesAreRefused ==
  /\ Collect(<<<<Root, Deep>>>>) = None /\ Collect(<<<<Root, Docs>>, <<Root, Upper>>>>) = None
  /\ ~Sanitized(Collect(<<<<Root, Docs, Big>>, <<Root, Big>>>>).entries)
  /\ ~Sanitized(Collect(<<<<Root, Odd>>>>).entries)
=============================================================================
