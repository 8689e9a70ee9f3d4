---------------------------- MODULE MCPointerPath ----------------------------
(***************************************************************************)
(* A small desk: a server of one monitor that may get a second, a client   *)
(* of one monitor and a client of two, staggered ones.                     *)
(***************************************************************************)
EXTENDS PointerPath, TLC

CONSTANTS here, a, b

One == <<Rect(0, 0, 8, 6)>>
Two == <<Rect(0, 0, 8, 6), Rect(8, 0, 8, 6)>>
Shown == <<One, Two>>
Empty == Rect(0, 0, 0, 0)
Told == (a :> {<<Rect(0, 0, 6, 4)>>, <<Empty, Rect(0, 0, 6, 2)>>})
     @@ (b :> {<<Rect(-4, 0, 4, 4), Rect(0, 1, 4, 4)>>})
Size(w, h) == [w |-> w, h |-> h]
Natural == [n \in Machines |-> NoSize]
Both == (here :> Pt(0, 0)) @@ (a :> Pt(8, 1)) @@ (b :> Pt(-4, 0))
Nowhere == [n \in {} |-> Pt(0, 0)]
RightThenDown == (here :> ("right" :> a)) @@ (a :> ("bottom" :> b))
RightOnly == here :> ("right" :> a)
Config(listed, positions, entries) ==
  [listed |-> listed, positions |-> positions, sizes |-> Natural, links |-> entries]
Start == {Config(<<here, a, b>>, Both, RightThenDown), Config(<<here, b, a>>, Nowhere, RightThenDown),
          Config(<<here, a>>, Nowhere, RightOnly)}
Wishes == {[at |-> (a :> Pt(8, 0)) @@ (b :> Pt(18, 0)), size |-> (a :> Size(9, 4))],
           [at |-> (a :> Pt(-9, 1)) @@ (b :> Pt(12, 0)), size |-> (a :> Size(9, 4))],
           [at |-> (a :> Pt(-10, 6)) @@ (b :> Pt(-4, 0)), size |-> (b :> Size(8, 8))],
           [at |-> (a :> Pt(0, -3)), size |-> (a :> Size(8, 3))]}
Big == Rect(0, 0, 8, 6)
Assumed == Size(8, 6)
NamesInOrder == <<a, b, here>>
Hand == {Pt(1, 0), Pt(-3, 0), Pt(4, -1), Pt(-1, 4)}
Bound(m, h, c) == [moves |-> m, hotkeys |-> h, changes |-> c]
Sittings == {Bound(4, 0, 0), Bound(2, 1, 0), Bound(1, 2, 0), Bound(1, 1, 1), Bound(0, 0, 2)}
=============================================================================
