------------------------ MODULE PointerPath_proofs ------------------------
(***************************************************************************)
(* Theorems about PointerPath, for any machines, monitors, positions,      *)
(* links, hands and editors, and any bounds.                               *)
(*                                                                         *)
(* The first part is about DeskGeometry: what its minimum, its filter and  *)
(* its two placements give, of which it needs that a definition by the     *)
(* value before is a function.  The second is about the hand and the       *)
(* cursor, the third about the queue between the editor and the router.    *)
(***************************************************************************)
EXTENDS PointerPath, WellFoundedInduction, TLAPS

-----------------------------------------------------------------------------
(* Points, rectangles and places. *)

(* A set of numbers has a least element; so has one that is listed, for its Min and Max. *)
LEMMA LeastOf == ASSUME NEW T \in SUBSET Nat, T # {} PROVE \E m \in T : \A k \in T : m <= k
<1>1. PICK m \in T : \A k \in T : ~ (<<k, m>> \in OpToRel(<, Nat))
  BY NatLessThanWellFounded, WFMin
<1>2. \A k \in T : ~ (k < m)
  BY <1>1 DEF OpToRel
<1> HIDE <1>1
<1>3. m \in Nat /\ \A k \in T : k \in Nat
  OBVIOUS
<1> QED
  BY <1>2, <1>3

LEMMA LeastListed ==
  ASSUME NEW n \in Nat, NEW f, NEW S \in SUBSET Int, S # {}, \A e \in S : \E i \in 1..n : e = f[i]
  PROVE  \E m \in S : \A k \in S : m <= k
<1> DEFINE Bad == {k \in Nat : \E Q \in SUBSET Int : /\ Q # {} /\ \A e \in Q : \E i \in 1..k : e = f[i]
                                                    /\ ~ \E m \in Q : \A e \in Q : m <= e}
<1>1. ASSUME Bad # {} PROVE FALSE
  <2>1. PICK k \in Bad : \A j \in Bad : k <= j
    <3>1. Bad \in SUBSET Nat
      OBVIOUS
    <3> HIDE DEF Bad
    <3> QED
      BY <1>1, <3>1, LeastOf
  <2>2. PICK Q \in SUBSET Int : /\ Q # {} /\ \A e \in Q : \E i \in 1..k : e = f[i]
                                /\ ~ \E m \in Q : \A e \in Q : m <= e
    BY <2>1
  <2>3. k \in Nat /\ k # 0
    <3>1. k \in Nat
      BY <2>1
    <3>2. ASSUME k = 0 PROVE FALSE
      <4>1. PICK e \in Q : TRUE
        BY <2>2
      <4>2. PICK i \in 1..k : e = f[i]
        BY <2>2
      <4> QED
        BY <3>2, <4>2
    <3> QED
      BY <3>1, <3>2
  <2>4. k - 1 \in Nat /\ k - 1 \notin Bad
    <3>1. k - 1 \in Nat
      BY <2>3
    <3> HIDE DEF Bad
    <3> QED
      BY <2>1, <2>3, <3>1
  <2> DEFINE R == Q \ {f[k]}
  <2>5. \A e \in R : \E i \in 1..(k - 1) : e = f[i]
    <3> TAKE e \in R
    <3>1. PICK i \in 1..k : e = f[i]
      BY <2>2
    <3>2. i # k
      BY <3>1
    <3> QED
      BY <3>1, <3>2, <2>3
  <2>6. CASE R = {}
    <3>1. Q = {f[k]}
      BY <2>6, <2>2
    <3> QED
      BY <3>1, <2>2
  <2>7. CASE R # {}
    <3>1. R \in SUBSET Int
      OBVIOUS
    <3>2. PICK m \in R : \A e \in R : m <= e
      BY <2>7, <2>4, <2>5, <3>1
    <3>3. CASE f[k] \notin Q
      BY <3>2, <3>3, <2>2
    <3>4. CASE f[k] \in Q
      <4>1. f[k] \in Int /\ m \in Int /\ m \in Q
        BY <3>2, <3>4
      <4>2. CASE m <= f[k]
        BY <3>2, <4>1, <4>2, <2>2
      <4>3. CASE ~ (m <= f[k])
        <5>1. \A e \in Q : e \in Int
          OBVIOUS
        <5>2. \A e \in Q : f[k] <= e
          BY <3>2, <4>1, <4>3, <5>1
        <5> QED
          BY <5>2, <3>4, <2>2
      <4> QED
        BY <4>2, <4>3
    <3> QED
      BY <3>3, <3>4
  <2> QED
    BY <2>6, <2>7
<1> QED
  BY <1>1

LEMMA MinOf ==
  ASSUME NEW n \in Nat, NEW f, NEW S \in SUBSET Int, S # {}, \A e \in S : \E i \in 1..n : e = f[i]
  PROVE  Min(S) \in S /\ \A k \in S : Min(S) <= k
<1>1. \E m \in S : \A k \in S : m <= k
  BY LeastListed
<1> QED
  BY <1>1 DEF Min

LEMMA MaxOf ==
  ASSUME NEW n \in Nat, NEW f, NEW S \in SUBSET Int, S # {}, \A e \in S : \E i \in 1..n : e = f[i]
  PROVE  Max(S) \in S /\ \A k \in S : Max(S) >= k
<1> DEFINE T == {-k : k \in S}
           g == [i \in 1..n |-> -f[i]]
<1>1. T \in SUBSET Int /\ T # {}
  OBVIOUS
<1>2. \A e \in T : \E i \in 1..n : e = g[i]
  OBVIOUS
<1> HIDE DEF g
<1>3. PICK m \in T : \A k \in T : m <= k
  <2> HIDE DEF T
  <2> QED
    BY <1>1, <1>2, LeastListed
<1>4. PICK x \in S : m = -x
  BY <1>3
<1>5. \A k \in S : x >= k
  <2> TAKE k \in S
  <2>1. -k \in T
    OBVIOUS
  <2>2. m <= -k
    BY <1>3, <2>1
  <2> QED
    BY <2>2, <1>4
<1>6. \E y \in S : \A k \in S : y >= k
  BY <1>5
<1> QED
  BY <1>6 DEF Max

(* min_by_key finds a place, and nothing is smaller than what is there. *)
LEMMA FirstLeastOf ==
  ASSUME NEW n \in Nat \ {0}, NEW d \in [1..n -> Nat]
  PROVE  /\ FirstLeast(d) \in 1..n
         /\ \A j \in 1..n : d[FirstLeast(d)] <= d[j]
<1> DEFINE V == {d[i] : i \in 1..n}
<1>1. PICK v \in V : \A k \in V : v <= k
  <2>1. V \in SUBSET Nat /\ V # {}
    <3>1. 1 \in 1..n
      OBVIOUS
    <3> QED
      BY <3>1
  <2> HIDE DEF V
  <2> QED
    BY <2>1, LeastOf
<1> DEFINE T == {i \in 1..n : d[i] = v}
<1>2. PICK i \in T : \A k \in T : i <= k
  <2>1. T \in SUBSET Nat /\ T # {}
    BY <1>1
  <2> HIDE DEF T
  <2> QED
    BY <2>1, LeastOf
<1>3. \A j \in 1..n : v <= d[j] /\ d[j] \in Nat
  BY <1>1
<1>4. i \in 1..n /\ d[i] = v
  OBVIOUS
<1>5. \A j \in 1..n : d[i] < d[j] \/ (d[i] = d[j] /\ i <= j)
  <2> TAKE j \in 1..n
  <2>1. CASE d[j] = v
    BY <2>1, <1>2, <1>4
  <2>2. CASE d[j] # v
    BY <2>2, <1>3, <1>4
  <2> QED
    BY <2>1, <2>2
<1>6. DOMAIN d = 1..n
  OBVIOUS
<1> DEFINE P(x) == \A j \in 1..n : d[x] < d[j] \/ (d[x] = d[j] /\ x <= j)
<1>7. FirstLeast(d) \in 1..n /\ P(FirstLeast(d))
  BY <1>4, <1>5, <1>6 DEF FirstLeast
<1>8. \A j \in 1..n : d[FirstLeast(d)] <= d[j]
  BY <1>7
<1> QED
  BY <1>7, <1>8

(* From 0 to n, one at a time. *)
LEMMA Climb ==
  ASSUME NEW n \in Nat, NEW G, 0 \in G, \A i \in 1..n : i - 1 \in G => i \in G
  PROVE  0..n \subseteq G
<1> DEFINE Bad == (0..n) \ G
<1>1. ASSUME Bad # {} PROVE FALSE
  <2>1. PICK k \in Bad : \A j \in Bad : k <= j
    <3>1. Bad \in SUBSET Nat
      OBVIOUS
    <3> HIDE DEF Bad
    <3> QED
      BY <1>1, <3>1, LeastOf
  <2>2. k \in 1..n /\ k - 1 \in 0..n /\ ~ (k <= k - 1)
    <3>1. k # 0
      OBVIOUS
    <3> QED
      BY <3>1
  <2>3. k - 1 \in G
    BY <2>1, <2>2
  <2> QED
    BY <2>2, <2>3
<1> QED
  BY <1>1

StepsOf(n, V) == [1..n -> [V -> V]]
Unrolled(f, n, V, a, step) == f \in [0..n -> V] /\ f[0] = a /\ \A i \in 1..n : f[i] = step[i][f[i - 1]]

(* A function that is defined by its own value at i - 1 exists: what a fold of n steps computes, for any type the steps keep. *)
LEMMA Recursion ==
  ASSUME NEW n \in Nat, NEW V, NEW a \in V, NEW step \in StepsOf(n, V)
  PROVE  \E f : Unrolled(f, n, V, a, step)
<1> DEFINE Ends(f, k) == f[0] = a /\ \A i \in 1..k : f[i] = step[i][f[i - 1]]
           G == {k \in 0..n : \E f \in [0..k -> V] : Ends(f, k)}
<1> USE DEF StepsOf
<1>1. 0 \in G
  <2> DEFINE f == [i \in 0..0 |-> a]
  <2>1. f \in [0..0 -> V] /\ Ends(f, 0)
    OBVIOUS
  <2> HIDE DEF f
  <2>2. \E e \in [0..0 -> V] : Ends(e, 0)
    BY <2>1
  <2> QED
    BY <2>2
<1>2. ASSUME NEW k \in 1..n, k - 1 \in G PROVE k \in G
  <2>1. PICK g \in [0..(k - 1) -> V] : Ends(g, k - 1)
    BY <1>2
  <2>2. k - 1 \in 0..(k - 1)
    OBVIOUS
  <2>3. g[k - 1] \in V
    BY <2>1, <2>2
  <2> DEFINE new == step[k][g[k - 1]]
             f == [i \in 0..k |-> IF i = k THEN new ELSE g[i]]
  <2>4. new \in V
    BY <2>3
  <2> HIDE DEF new
  <2>5. f \in [0..k -> V]
    BY <2>4
  <2>6. ASSUME NEW i \in 0..(k - 1) PROVE f[i] = g[i]
    OBVIOUS
  <2>7. f[k] = new
    OBVIOUS
  <2> HIDE DEF f
  <2>8. f[0] = a
    <3>1. 0 \in 0..(k - 1)
      OBVIOUS
    <3> QED
      BY <2>1, <2>6, <3>1
  <2>9. ASSUME NEW i \in 1..k PROVE f[i] = step[i][f[i - 1]]
    <3>1. CASE i = k
      <4>1. f[i - 1] = g[k - 1]
        BY <3>1, <2>6, <2>2
      <4> QED
        BY <4>1, <3>1, <2>7 DEF new
    <3>2. CASE i # k
      <4>1. i \in 1..(k - 1) /\ i \in 0..(k - 1) /\ i - 1 \in 0..(k - 1)
        BY <3>2
      <4>2. f[i] = g[i] /\ f[i - 1] = g[i - 1]
        BY <2>6, <4>1
      <4> QED
        BY <2>1, <4>1, <4>2
    <3> QED
      BY <3>1, <3>2
  <2>10. \E e \in [0..k -> V] : Ends(e, k)
    BY <2>5, <2>8, <2>9
  <2>11. k \in 0..n
    OBVIOUS
  <2> QED
    BY <2>10, <2>11
<1>3. n \in G
  <2> HIDE DEF G
  <2>1. 0..n \subseteq G
    BY <1>1, <1>2, Climb
  <2> QED
    BY <2>1
<1> QED
  BY <1>3 DEF Unrolled

(* Filtering a list keeps nothing but what it is to keep. *)
LEMMA AmongOf ==
  ASSUME NEW U, NEW s \in Seq(U), NEW S
  PROVE  Among(s, S) \in Seq(ToSet(s) \cap S)
<1> DEFINE n == Len(s)
           W == ToSet(s) \cap S
           V == Seq(W)
           StepTaken(i, v) == IF s[i] \in S THEN Append(v, s[i]) ELSE v
           Ends(f) == f = [i \in 0..n |-> IF i = 0 THEN <<>> ELSE StepTaken(i, f[i - 1])]
           step == [i \in 1..n |-> [v \in V |-> StepTaken(i, v)]]
           h == CHOOSE f : Ends(f)
<1>1. n \in Nat /\ <<>> \in V
  OBVIOUS
<1>2. ASSUME NEW i \in 1..n, NEW v \in V PROVE StepTaken(i, v) \in V
  <2>1. s[i] \in ToSet(s)
    BY DEF ToSet
  <2> QED
    BY <2>1
<1>3. Among(s, S) = h[n]
  BY DEF Among
<1> HIDE DEF StepTaken, V, n
<1>4. step \in StepsOf(n, V)
  BY <1>2 DEF StepsOf
<1>5. \E f : Ends(f)
  <2> HIDE DEF step
  <2>0. PICK f : Unrolled(f, n, V, <<>>, step)
    BY <1>1, <1>4, Recursion
  <2>1. f \in [0..n -> V] /\ f[0] = <<>> /\ \A i \in 1..n : f[i] = step[i][f[i - 1]]
    BY <2>0 DEF Unrolled
  <2>2. ASSUME NEW i \in 0..n PROVE f[i] = IF i = 0 THEN <<>> ELSE StepTaken(i, f[i - 1])
    <3>1. CASE i = 0
      BY <2>1, <3>1
    <3>2. CASE i # 0
      <4>1. i \in 1..n /\ i - 1 \in 0..n
        BY <3>2, <1>1
      <4>2. f[i - 1] \in V /\ f[i] = step[i][f[i - 1]]
        BY <2>1, <4>1
      <4> QED
        BY <4>1, <4>2, <3>2 DEF step
    <3> QED
      BY <3>1, <3>2
  <2>3. f = [i \in 0..n |-> f[i]]
    BY <2>1
  <2>4. Ends(f)
    BY <2>2, <2>3
  <2> QED
    BY <2>4
<1>6. Ends(h)
  BY <1>5
<1> HIDE DEF h
<1> DEFINE G == {i \in 0..n : h[i] \in V}
<1>7. 0 \in G
  BY <1>1, <1>6
<1>8. ASSUME NEW i \in 1..n, i - 1 \in G PROVE i \in G
  <2>1. i \in 0..n /\ i # 0 /\ h[i - 1] \in V
    BY <1>8, <1>1
  <2>2. h[i] = StepTaken(i, h[i - 1])
    BY <1>6, <2>1
  <2>3. h[i] \in V
    BY <2>1, <2>2, <1>2
  <2> QED
    BY <2>1, <2>3
<1>9. n \in G
  <2> HIDE DEF G
  <2>1. 0..n \subseteq G
    BY <1>1, <1>7, <1>8, Climb
  <2> QED
    BY <2>1, <1>1
<1> QED
  BY <1>3, <1>9 DEF V

(* Rect::clamp gives a point of the rectangle, the point itself if it is one. *)
LEMMA ClampOf ==
  ASSUME NEW r \in Monitors, NEW p \in Points
  PROVE  /\ ClampTo(r, p) \in Points
         /\ Holds(r, ClampTo(r, p))
         /\ Holds(r, p) => ClampTo(r, p) = p
BY DEF Monitors, Rects, Points, ClampTo, Within, Holds, RightOf, BottomOf, Pt

(* Rect::union_all encloses every monitor. *)
LEMMA UnionOf ==
  ASSUME NEW mons \in MonitorLists
  PROVE  /\ UnionAll(mons) \in Monitors
         /\ \A i \in 1..Len(mons) : /\ UnionAll(mons).x <= mons[i].x
                                     /\ UnionAll(mons).y <= mons[i].y
                                     /\ RightOf(mons[i]) <= RightOf(UnionAll(mons))
                                     /\ BottomOf(mons[i]) <= BottomOf(UnionAll(mons))
<1> DEFINE n == Len(mons)
           R == ToSet(mons)
           X == {r.x : r \in R}
           Y == {r.y : r \in R}
           H == {RightOf(r) : r \in R}
           B == {BottomOf(r) : r \in R}
<1>1. n \in Nat /\ 1 \in 1..n /\ \A i \in 1..n : mons[i] \in Monitors
  BY DEF MonitorLists
<1>2. \A r \in R : r \in Monitors /\ \E i \in 1..n : r = mons[i]
  BY <1>1 DEF ToSet
<1>3. \A i \in 1..n : mons[i] \in R
  BY DEF ToSet
<1> HIDE DEF R, n
<1>4. Min(X) \in X /\ \A k \in X : Min(X) <= k
  <2> DEFINE f == [i \in 1..n |-> mons[i].x]
  <2>1. X \in SUBSET Int /\ X # {}
    BY <1>1, <1>2, <1>3 DEF Monitors, Rects
  <2>2. \A e \in X : \E i \in 1..n : e = f[i]
    BY <1>2
  <2> HIDE DEF X, f
  <2> QED
    BY <1>1, <2>1, <2>2, MinOf
<1>5. Min(Y) \in Y /\ \A k \in Y : Min(Y) <= k
  <2> DEFINE f == [i \in 1..n |-> mons[i].y]
  <2>1. Y \in SUBSET Int /\ Y # {}
    BY <1>1, <1>2, <1>3 DEF Monitors, Rects
  <2>2. \A e \in Y : \E i \in 1..n : e = f[i]
    BY <1>2
  <2> HIDE DEF Y, f
  <2> QED
    BY <1>1, <2>1, <2>2, MinOf
<1>6. Max(H) \in H /\ \A k \in H : Max(H) >= k
  <2> DEFINE f == [i \in 1..n |-> RightOf(mons[i])]
  <2>1. H \in SUBSET Int /\ H # {}
    BY <1>1, <1>2, <1>3 DEF Monitors, Rects, RightOf
  <2>2. \A e \in H : \E i \in 1..n : e = f[i]
    BY <1>2
  <2> HIDE DEF H, f
  <2> QED
    BY <1>1, <2>1, <2>2, MaxOf
<1>7. Max(B) \in B /\ \A k \in B : Max(B) >= k
  <2> DEFINE f == [i \in 1..n |-> BottomOf(mons[i])]
  <2>1. B \in SUBSET Int /\ B # {}
    BY <1>1, <1>2, <1>3 DEF Monitors, Rects, BottomOf
  <2>2. \A e \in B : \E i \in 1..n : e = f[i]
    BY <1>2
  <2> HIDE DEF B, f
  <2> QED
    BY <1>1, <2>1, <2>2, MaxOf
<1>8. UnionAll(mons) = Rect(Min(X), Min(Y), Max(H) - Min(X), Max(B) - Min(Y))
  BY DEF UnionAll, R
<1>9. ASSUME NEW i \in 1..n
      PROVE  /\ Min(X) <= mons[i].x /\ Min(Y) <= mons[i].y
             /\ RightOf(mons[i]) <= Max(H) /\ BottomOf(mons[i]) <= Max(B)
  <2>1. mons[i].x \in X /\ mons[i].y \in Y /\ RightOf(mons[i]) \in H /\ BottomOf(mons[i]) \in B
    BY <1>3
  <2>2. RightOf(mons[i]) \in Int /\ BottomOf(mons[i]) \in Int
    BY <1>1 DEF Monitors, Rects, RightOf, BottomOf
  <2>3. Max(H) \in Int /\ Max(B) \in Int
    BY <1>6, <1>7, <1>2 DEF Monitors, Rects, RightOf, BottomOf
  <2> HIDE DEF X, Y, H, B
  <2>4. Max(H) >= RightOf(mons[i]) /\ Max(B) >= BottomOf(mons[i])
    BY <2>1, <1>6, <1>7
  <2> QED
    BY <2>1, <2>2, <2>3, <2>4, <1>4, <1>5
<1>10. Min(X) \in Int /\ Min(Y) \in Int /\ Max(H) \in Int /\ Max(B) \in Int
  BY <1>2, <1>4, <1>5, <1>6, <1>7 DEF Monitors, Rects, RightOf, BottomOf
<1> HIDE DEF X, Y, H, B
<1>11. UnionAll(mons) \in Rects
  BY <1>8, <1>10 DEF Rect, Rects
<1>12. UnionAll(mons).x = Min(X) /\ UnionAll(mons).y = Min(Y)
       /\ RightOf(UnionAll(mons)) = Max(H) /\ BottomOf(UnionAll(mons)) = Max(B)
  BY <1>8, <1>10 DEF Rect, RightOf, BottomOf
<1>13. UnionAll(mons).w > 0 /\ UnionAll(mons).h > 0
  <2>1. mons[1] \in Monitors /\ Min(X) <= mons[1].x /\ Min(Y) <= mons[1].y
        /\ RightOf(mons[1]) <= Max(H) /\ BottomOf(mons[1]) <= Max(B)
    BY <1>1, <1>9
  <2> QED
    BY <2>1, <1>8, <1>10 DEF Rect, Monitors, Rects, RightOf, BottomOf
<1> QED
  BY <1>9, <1>11, <1>12, <1>13 DEF Monitors, n

LEMMA Square == ASSUME NEW a \in Int PROVE a * a \in Nat /\ (a # 0 => a * a > 0)
<1>1. CASE a >= 0
  BY <1>1
<1>2. CASE a < 0
  BY <1>2
<1> QED
  BY <1>1, <1>2

LEMMA DistOf ==
  ASSUME NEW p \in Points, NEW q \in Points
  PROVE  Dist2(p, q) \in Nat /\ (Dist2(p, q) <= 0 <=> p = q)
<1> DEFINE a == p.x - q.x
           b == p.y - q.y
<1>1. a \in Int /\ b \in Int
  BY DEF Points
<1>2. Dist2(p, q) = a * a + b * b
  BY DEF Dist2
<1>3. p = q <=> a = 0 /\ b = 0
  BY DEF Points
<1> HIDE DEF a, b
<1>4. a * a \in Nat /\ b * b \in Nat /\ (a # 0 => a * a > 0) /\ (b # 0 => b * b > 0)
  BY <1>1, Square
<1> DEFINE aa == a * a
           bb == b * b
<1>5. (a = 0 => aa = 0) /\ (b = 0 => bb = 0)
  BY <1>1
<1>6. aa \in Nat /\ bb \in Nat /\ (a # 0 => aa > 0) /\ (b # 0 => bb > 0) /\ Dist2(p, q) = aa + bb
  BY <1>4, <1>2
<1> HIDE DEF aa, bb
<1> QED
  BY <1>3, <1>5, <1>6

(* nearest_point gives a point on a monitor, the point itself if it is on one. *)
LEMMA NearestOf ==
  ASSUME NEW mons \in MonitorLists, NEW p \in Points
  PROVE  /\ NearestPoint(p, mons) \in Points
         /\ OnAny(NearestPoint(p, mons), mons)
         /\ OnAny(p, mons) => NearestPoint(p, mons) = p
<1> DEFINE n == Len(mons)
           d == [i \in 1..n |-> Dist2(ClampTo(mons[i], p), p)]
           k == FirstLeast(d)
<1>1. n \in Nat \ {0} /\ \A i \in 1..n : mons[i] \in Monitors
  BY DEF MonitorLists
<1>2. \A i \in 1..n : ClampTo(mons[i], p) \in Points /\ Holds(mons[i], ClampTo(mons[i], p))
                     /\ (Holds(mons[i], p) => ClampTo(mons[i], p) = p)
  BY <1>1, ClampOf
<1>3. \A i \in 1..n : d[i] \in Nat /\ (d[i] <= 0 <=> ClampTo(mons[i], p) = p)
  BY <1>2, DistOf
<1>4. NearestPoint(p, mons) = ClampTo(mons[k], p)
  BY DEF NearestPoint
<1>5. d \in [1..n -> Nat]
  BY <1>3
<1> HIDE DEF d, n
<1>6. k \in 1..n /\ \A j \in 1..n : d[k] <= d[j]
  BY <1>1, <1>5, FirstLeastOf
<1> HIDE DEF k
<1>7. ASSUME OnAny(p, mons) PROVE NearestPoint(p, mons) = p
  <2>1. PICK j \in 1..n : Holds(mons[j], p)
    BY <1>7 DEF OnAny, n
  <2>2. d[j] <= 0 /\ d[k] <= d[j] /\ d[k] \in Nat /\ d[j] \in Nat
    BY <2>1, <1>2, <1>3, <1>6
  <2>3. d[k] <= 0
    BY <2>2
  <2> QED
    BY <2>3, <1>3, <1>4, <1>6
<1>8. OnAny(NearestPoint(p, mons), mons)
  BY <1>2, <1>4, <1>6 DEF OnAny, n
<1> QED
  BY <1>2, <1>4, <1>6, <1>7, <1>8

LEMMA DivOf == ASSUME NEW a \in Int, NEW b \in Int, b > 0 PROVE a \div b \in Int
OBVIOUS

LEMMA CenterOfMonitor ==
  ASSUME NEW r \in Monitors
  PROVE  CenterOf(r) \in Points /\ Holds(r, CenterOf(r))
BY DEF Monitors, Rects, CenterOf, Points, Pt, Holds, RightOf, BottomOf

Frames == [origin : Points, base : Points, have : Sizes, want : Sizes]

LEMMA BoundsOf ==
  ASSUME NEW mons \in Seq(Monitors)
  PROVE  Bounds(mons) \in Monitors
<1>1. CASE mons = <<>>
  BY <1>1, GeometryAssumption DEF Bounds, Sizes, Monitors, Rects, Rect
<1>2. CASE mons # <<>>
  BY <1>2, UnionOf DEF Bounds, MonitorLists
<1> QED
  BY <1>1, <1>2

LEMMA SizeOf ==
  ASSUME NEW mons \in Seq(Monitors), NEW size \in Sizes \cup {NoSize}
  PROVE  DeskSize(mons, size) \in Sizes
BY BoundsOf DEF DeskSize, Sizes, Monitors, Rects

LEMMA FrameIs ==
  ASSUME NEW o \in Points, NEW mons \in Seq(Monitors), NEW size \in Sizes \cup {NoSize}
  PROVE  FrameOf(o, mons, size) \in Frames
<1>1. Bounds(mons) \in Monitors
  BY BoundsOf
<1>2. [w |-> Bounds(mons).w, h |-> Bounds(mons).h] \in Sizes /\ Pt(Bounds(mons).x, Bounds(mons).y) \in Points
  BY <1>1 DEF Monitors, Rects, Sizes, Points, Pt
<1> QED
  BY <1>2 DEF FrameOf, Frames

LEMMA RoundedOf == ASSUME NEW a \in Int, NEW b \in Nat \ {0} PROVE Rounded(a, b) \in Int
BY DEF Rounded

(* To the desk and back, points are points. *)
LEMMA DeskOf ==
  ASSUME NEW f \in Frames, NEW p \in Points
  PROVE  ToDesk(f, p) \in Points /\ ToLocal(f, p) \in Points
<1>1. /\ f.origin \in Points /\ f.base \in Points
      /\ f.have.w \in Nat \ {0} /\ f.have.h \in Nat \ {0} /\ f.want.w \in Nat \ {0} /\ f.want.h \in Nat \ {0}
  BY DEF Frames, Sizes
<1>2. /\ p.x \in Int /\ p.y \in Int /\ f.base.x \in Int /\ f.base.y \in Int
      /\ f.origin.x \in Int /\ f.origin.y \in Int
  BY <1>1 DEF Points
<1> DEFINE a == (p.x - f.base.x) * f.want.w
           b == (p.y - f.base.y) * f.want.h
           c == (p.x - f.origin.x - f.base.x) * f.have.w
           d == (p.y - f.origin.y - f.base.y) * f.have.h
<1>3. a \in Int /\ b \in Int /\ c \in Int /\ d \in Int
  BY <1>1, <1>2
<1>4. /\ ToDesk(f, p) = Pt(f.origin.x + f.base.x + Rounded(a, f.have.w), f.origin.y + f.base.y + Rounded(b, f.have.h))
      /\ ToLocal(f, p) = Pt(f.base.x + c \div f.want.w, f.base.y + d \div f.want.h)
  BY DEF ToDesk, ToLocal
<1> HIDE DEF a, b, c, d
<1>5. Rounded(a, f.have.w) \in Int /\ Rounded(b, f.have.h) \in Int
  BY <1>1, <1>3, RoundedOf
<1>6. c \div f.want.w \in Int /\ d \div f.want.h \in Int
  BY <1>1, <1>3
<1> QED
  BY <1>2, <1>4, <1>5, <1>6 DEF Points, Pt

Places(S, start) ==
  {f \in UNION {[T -> Points] : T \in SUBSET S} :
     DOMAIN start \subseteq DOMAIN f /\ \A n \in DOMAIN start : f[n] = start[n]}

(* A machine that had no place gets one, and the others keep theirs. *)
LEMMA PlaceOne ==
  ASSUME NEW S, NEW start, NEW f \in Places(S, start), NEW n \in S, n \notin DOMAIN start, NEW o \in Points
  PROVE  /\ Over(Only(n, o), f) \in Places(S, start)
         /\ DOMAIN Over(Only(n, o), f) = DOMAIN f \cup {n}
<1> DEFINE g == Over(Only(n, o), f)
<1>1. PICK T \in SUBSET S : f \in [T -> Points]
  BY DEF Places
<1>2. DOMAIN start \subseteq DOMAIN f /\ \A m \in DOMAIN start : f[m] = start[m]
  BY DEF Places
<1>3. DOMAIN f = T
  BY <1>1
<1>4. g = [x \in T \cup {n} |-> IF x = n THEN o ELSE f[x]]
  BY <1>3 DEF Over, Only
<1>5. g \in [T \cup {n} -> Points] /\ DOMAIN g = T \cup {n}
  BY <1>1, <1>4
<1>6. \A m \in DOMAIN start : g[m] = start[m]
  BY <1>2, <1>3, <1>4
<1> HIDE DEF g
<1>7. T \cup {n} \in SUBSET S
  OBVIOUS
<1>8. g \in Places(S, start)
  BY <1>2, <1>3, <1>5, <1>6, <1>7 DEF Places
<1> QED
  BY <1>3, <1>5, <1>8 DEF g

LEMMA PlaceIs ==
  ASSUME NEW S, NEW start, NEW f \in Places(S, start), NEW n \in DOMAIN f
  PROVE  f[n] \in Points /\ n \in S
<1>1. PICK T \in SUBSET S : f \in [T -> Points]
  BY DEF Places
<1> QED
  BY <1>1

LEMMA BesideOf ==
  ASSUME NEW o \in Points, NEW k \in Nat \ {0}, NEW mine \in Sizes, NEW its \in Sizes
  PROVE  Beside(o, Edges[1 + ((k - 1) % 4)], mine, its) \in Points
<1>1. (k - 1) % 4 \in 0..3
  OBVIOUS
<1> DEFINE e == Edges[1 + ((k - 1) % 4)]
<1>2. e \in {"left", "right", "top", "bottom"}
  BY <1>1 DEF Edges
<1> HIDE DEF e
<1>3. Beside(o, e, mine, its) \in Points
  BY <1>2 DEF Beside, Points, Sizes, Pt
<1> QED
  BY <1>3 DEF e

Reached(S, start) == {v \in [placed : Places(S, start), queue : Seq(S)] : ToSet(v.queue) \subseteq DOMAIN v.placed}

(* One turn of Linked. *)
TurnOf(order, lks, size, k, at) ==
  LET mine == at.queue[(k + 3) \div 4]
      edge == Edges[1 + ((k - 1) % 4)]
      beside == lks[mine][edge]
  IN IF \/ (k + 3) \div 4 > Len(at.queue)
        \/ mine \notin DOMAIN lks \/ edge \notin DOMAIN lks[mine]
        \/ beside \in DOMAIN at.placed \/ beside \notin ToSet(order)
       THEN at
       ELSE [placed |-> Over(Only(beside, Beside(at.placed[mine], edge, size[mine], size[beside])), at.placed),
             queue |-> Append(at.queue, beside)]

LEMMA ReachOne ==
  ASSUME NEW S, NEW start, NEW f \in Places(S, start), NEW q \in Seq(S), ToSet(q) \subseteq DOMAIN f,
         NEW n \in S, n \notin DOMAIN f, NEW o \in Points
  PROVE  [placed |-> Over(Only(n, o), f), queue |-> Append(q, n)] \in Reached(S, start)
<1>0. Over(Only(n, o), f) \in Places(S, start)
  <2>1. n \notin DOMAIN start
    BY DEF Places
  <2> QED
    BY <2>1, PlaceOne
<1>1. DOMAIN Over(Only(n, o), f) = DOMAIN f \cup {n}
  BY DEF Over, Only
<1> DEFINE g == Over(Only(n, o), f)
<1> HIDE DEF g
<1>2. g \in Places(S, start) /\ DOMAIN g = DOMAIN f \cup {n}
  BY <1>0, <1>1 DEF g
<1>3. Append(q, n) \in Seq(S) /\ ToSet(Append(q, n)) \subseteq DOMAIN f \cup {n}
  BY DEF ToSet
<1> QED
  BY <1>2, <1>3 DEF Reached, g

LEMMA TurnReaches ==
  ASSUME NEW M, NEW order, NEW lks, NEW size \in [M -> Sizes], ToSet(order) \subseteq M, NEW start,
         NEW k \in Nat \ {0}, NEW v \in Reached(ToSet(order), start)
  PROVE  TurnOf(order, lks, size, k, v) \in Reached(ToSet(order), start)
<1> DEFINE S == ToSet(order)
           f == v.placed
           q == v.queue
           at == (k + 3) \div 4
           mine == q[at]
           edge == Edges[1 + ((k - 1) % 4)]
           beside == lks[mine][edge]
           o == Beside(f[mine], edge, size[mine], size[beside])
           new == [placed |-> Over(Only(beside, o), f), queue |-> Append(q, beside)]
<1>1. f \in Places(S, start) /\ q \in Seq(S) /\ ToSet(q) \subseteq DOMAIN f
  BY DEF Reached
<1>2. at \in Nat /\ at >= 1
  OBVIOUS
<1>3. \/ TurnOf(order, lks, size, k, v) = v
      \/ /\ ~ (at > Len(q)) /\ beside \notin DOMAIN f /\ beside \in S
         /\ TurnOf(order, lks, size, k, v) = new
  BY DEF TurnOf
<1> HIDE DEF S, f, q, at
<1>4. ASSUME ~ (at > Len(q)), beside \notin DOMAIN f, beside \in S PROVE new \in Reached(S, start)
  <2>1. at \in 1..Len(q)
    BY <1>1, <1>2, <1>4
  <2>2. mine \in ToSet(q)
    BY <2>1 DEF ToSet
  <2>3. mine \in DOMAIN f
    BY <2>2, <1>1
  <2> HIDE DEF mine
  <2>4. f[mine] \in Points /\ mine \in S
    BY <2>3, <1>1, PlaceIs
  <2> HIDE DEF beside
  <2>5. size[mine] \in Sizes /\ size[beside] \in Sizes
    BY <1>4, <2>4 DEF S
  <2>6. o \in Points
    BY <2>4, <2>5, BesideOf
  <2> HIDE DEF o
  <2> QED
    BY <1>1, <1>4, <2>6, ReachOne
<1> HIDE DEF new, beside
<1> QED
  BY <1>3, <1>4 DEF S

(* The links place machines of the list only. *)
LEMMA LinkedOf ==
  ASSUME NEW M, NEW order \in Seq(M), NEW lks, NEW size \in [M -> Sizes],
         NEW start, start \in Places(ToSet(order), start)
  PROVE  Linked(order, lks, start, size) \in Places(ToSet(order), start)
<1> DEFINE S == ToSet(order)
           V == Reached(S, start)
           n == 4 * Len(order)
           first == [placed |-> start, queue |-> Among(order, DOMAIN start)]
           Turn(k, at) == TurnOf(order, lks, size, k, at)
           Ends(f) == f = [k \in 0..n |-> IF k = 0 THEN first ELSE Turn(k, f[k - 1])]
           step == [i \in 1..n |-> [v \in V |-> Turn(i, v)]]
           h == CHOOSE f : Ends(f)
<1>1. n \in Nat /\ S \subseteq M
  BY DEF ToSet
<1>2. first \in V
  <2>1. Among(order, DOMAIN start) \in Seq(S \cap DOMAIN start)
    BY AmongOf
  <2> DEFINE q == Among(order, DOMAIN start)
  <2>2. q \in Seq(S) /\ ToSet(q) \subseteq DOMAIN start
    BY <2>1 DEF ToSet
  <2> QED
    BY <2>2 DEF Reached
<1>3. ASSUME NEW k \in 1..n, NEW v \in V PROVE Turn(k, v) \in V
  <2>1. k \in Nat \ {0}
    BY <1>1
  <2> QED
    BY <1>1, <2>1, TurnReaches
<1>4. Linked(order, lks, start, size) = h[n].placed
  BY DEF Linked, TurnOf
<1> HIDE DEF Turn, V, n, first
<1>5. step \in StepsOf(n, V)
  BY <1>3 DEF StepsOf
<1>6. \E f : Ends(f)
  <2> HIDE DEF step
  <2>0. PICK f : Unrolled(f, n, V, first, step)
    BY <1>1, <1>2, <1>5, Recursion
  <2>1. f \in [0..n -> V] /\ f[0] = first /\ \A i \in 1..n : f[i] = step[i][f[i - 1]]
    BY <2>0 DEF Unrolled
  <2>2. ASSUME NEW i \in 0..n PROVE f[i] = IF i = 0 THEN first ELSE Turn(i, f[i - 1])
    <3>1. CASE i = 0
      BY <2>1, <3>1
    <3>2. CASE i # 0
      <4>1. i \in 1..n /\ i - 1 \in 0..n
        BY <3>2, <1>1
      <4>2. f[i - 1] \in V /\ f[i] = step[i][f[i - 1]]
        BY <2>1, <4>1
      <4> QED
        BY <4>1, <4>2, <3>2 DEF step
    <3> QED
      BY <3>1, <3>2
  <2>3. f = [i \in 0..n |-> f[i]]
    BY <2>1
  <2>4. Ends(f)
    BY <2>2, <2>3
  <2> QED
    BY <2>4
<1>7. Ends(h)
  BY <1>6
<1> HIDE DEF h
<1> DEFINE G == {i \in 0..n : h[i] \in V}
<1>8. 0 \in G
  BY <1>1, <1>2, <1>7
<1>9. ASSUME NEW i \in 1..n, i - 1 \in G PROVE i \in G
  <2>1. i \in 0..n /\ i # 0 /\ h[i - 1] \in V
    BY <1>9, <1>1
  <2>2. h[i] = Turn(i, h[i - 1])
    BY <1>7, <2>1
  <2>3. h[i] \in V
    BY <2>1, <2>2, <1>3
  <2> QED
    BY <2>1, <2>3
<1>10. n \in G
  <2> HIDE DEF G
  <2>1. 0..n \subseteq G
    BY <1>1, <1>8, <1>9, Climb
  <2> QED
    BY <2>1, <1>1
<1> QED
  BY <1>4, <1>10 DEF V, Reached

(* One machine of InARow. *)
PutOne(order, placed, size, i, at) ==
  IF order[i] \in DOMAIN placed THEN at
  ELSE [placed |-> Over(Only(order[i], Pt(at.right, 0)), at.placed),
        right |-> at.right + size[order[i]].w]

(* The row places every machine that is left. *)
LEMMA InARowOf ==
  ASSUME NEW M, NEW order \in Seq(M), NEW size \in [M -> Sizes], NEW start,
         NEW placed \in Places(ToSet(order), start)
  PROVE  /\ InARow(order, placed, size) \in Places(ToSet(order), start)
         /\ DOMAIN InARow(order, placed, size) = ToSet(order)
<1> DEFINE S == ToSet(order)
           P == Places(S, start)
           V == [placed : P, right : Int]
           n == Len(order)
           here == S \cap DOMAIN placed
           right == IF here = {} THEN 0 ELSE Max({placed[m].x + size[m].w : m \in here})
           first == [placed |-> placed, right |-> right]
           Turn(i, at) == PutOne(order, placed, size, i, at)
           Ends(f) == f = [i \in 0..n |-> IF i = 0 THEN first ELSE Turn(i, f[i - 1])]
           W == {v \in V : DOMAIN placed \subseteq DOMAIN v.placed}
           Good(i, v) == \A j \in 1..i : order[j] \in DOMAIN v.placed
           h == CHOOSE f : Ends(f)
<1>1. n \in Nat /\ S \subseteq M /\ \A i \in 1..n : order[i] \in S
  BY DEF ToSet
<1>2. right \in Int
  <2>1. CASE here = {}
    BY <2>1
  <2>2. CASE here # {}
    <3> DEFINE T == {placed[m].x + size[m].w : m \in here}
               f == [i \in 1..n |-> placed[order[i]].x + size[order[i]].w]
    <3>1. \A m \in here : \E i \in 1..n : m = order[i]
      BY DEF ToSet
    <3>2. ASSUME NEW m \in here PROVE placed[m].x + size[m].w \in Int
      <4>1. placed[m] \in Points /\ size[m] \in Sizes
        BY <1>1, PlaceIs
      <4> QED
        BY <4>1 DEF Points, Sizes
    <3>3. right = Max(T)
      BY <2>2
    <3> HIDE DEF here, right, n
    <3>4. T \in SUBSET Int /\ T # {}
      BY <2>2, <3>2
    <3>5. \A e \in T : \E i \in 1..n : e = f[i]
      BY <3>1
    <3> HIDE DEF T, f
    <3>6. Max(T) \in T
      BY <1>1, <3>4, <3>5, MaxOf
    <3> QED
      BY <3>3, <3>4, <3>6
  <2> QED
    BY <2>1, <2>2
<1>3. first \in W
  BY <1>2
<1>4. ASSUME NEW i \in 1..n, NEW v \in W
      PROVE  Turn(i, v) \in W /\ (Good(i - 1, v) => Good(i, Turn(i, v)))
  <2> DEFINE f == v.placed
             r == v.right
             new == Over(Only(order[i], Pt(r, 0)), f)
  <2>1. f \in P /\ r \in Int /\ DOMAIN placed \subseteq DOMAIN f
    OBVIOUS
  <2>2. order[i] \in S /\ size[order[i]] \in Sizes
    BY <1>1
  <2>3. CASE order[i] \in DOMAIN placed
    <3>1. Turn(i, v) = v
      BY <2>3 DEF PutOne
    <3>2. Good(i - 1, v) => Good(i, v)
      BY <2>1, <2>3
    <3> QED
      BY <3>1, <3>2
  <2>4. CASE order[i] \notin DOMAIN placed
    <3>1. Turn(i, v) = [placed |-> new, right |-> r + size[order[i]].w]
      BY <2>4 DEF PutOne
    <3> HIDE DEF f, Turn, S, n
    <3>2. new \in P /\ DOMAIN new = DOMAIN f \cup {order[i]}
      <4>1. Pt(r, 0) \in Points
        BY <2>1 DEF Pt, Points
      <4>2. DOMAIN new = DOMAIN f \cup {order[i]}
        BY DEF Over, Only
      <4>3. order[i] \notin DOMAIN start
        BY <2>4 DEF Places
      <4>4. new \in P
        BY <2>1, <2>2, <4>1, <4>3, PlaceOne
      <4> QED
        BY <4>2, <4>4
    <3>3. r + size[order[i]].w \in Int
      BY <2>1, <2>2 DEF Sizes
    <3> HIDE DEF new
    <3>4. Turn(i, v) \in W
      BY <2>1, <3>1, <3>2, <3>3
    <3>5. Good(i - 1, v) => Good(i, Turn(i, v))
      BY <1>1, <3>1, <3>2 DEF f
    <3> QED
      BY <3>4, <3>5
  <2> QED
    BY <2>3, <2>4
<1>5. InARow(order, placed, size) = h[n].placed
  BY DEF InARow, PutOne
<1> HIDE DEF Turn, n, first, S, here, right
<1> DEFINE step == [i \in 1..n |-> [v \in W |-> Turn(i, v)]]
<1>6. step \in StepsOf(n, W)
  BY <1>4 DEF StepsOf
<1> HIDE DEF W
<1>7. \E f : Ends(f)
  <2> HIDE DEF step
  <2>0. PICK f : Unrolled(f, n, W, first, step)
    BY <1>1, <1>3, <1>6, Recursion
  <2>1. f \in [0..n -> W] /\ f[0] = first /\ \A i \in 1..n : f[i] = step[i][f[i - 1]]
    BY <2>0 DEF Unrolled
  <2>2. ASSUME NEW i \in 0..n PROVE f[i] = IF i = 0 THEN first ELSE Turn(i, f[i - 1])
    <3>1. CASE i = 0
      BY <2>1, <3>1
    <3>2. CASE i # 0
      <4>1. i \in 1..n /\ i - 1 \in 0..n
        BY <3>2, <1>1
      <4>2. f[i - 1] \in W /\ f[i] = step[i][f[i - 1]]
        BY <2>1, <4>1
      <4> QED
        BY <4>1, <4>2, <3>2 DEF step
    <3> QED
      BY <3>1, <3>2
  <2>3. f = [i \in 0..n |-> f[i]]
    BY <2>1
  <2>4. Ends(f)
    BY <2>2, <2>3
  <2> QED
    BY <2>4
<1>8. Ends(h)
  BY <1>7
<1> HIDE DEF h, Good
<1> DEFINE G == {i \in 0..n : h[i] \in W /\ Good(i, h[i])}
<1>9. 0 \in G
  <2>1. Good(0, h[0])
    BY DEF Good
  <2> QED
    BY <2>1, <1>1, <1>3, <1>8
<1>10. ASSUME NEW i \in 1..n, i - 1 \in G PROVE i \in G
  <2>1. i \in 0..n /\ i # 0 /\ h[i - 1] \in W /\ Good(i - 1, h[i - 1])
    BY <1>10, <1>1
  <2>2. h[i] = Turn(i, h[i - 1])
    BY <1>8, <2>1
  <2>3. h[i] \in W /\ Good(i, h[i])
    BY <2>1, <2>2, <1>4
  <2> QED
    BY <2>1, <2>3
<1>11. h[n] \in W /\ Good(n, h[n])
  <2> HIDE DEF G
  <2>1. 0..n \subseteq G
    BY <1>1, <1>9, <1>10, Climb
  <2>2. n \in G
    BY <2>1, <1>1
  <2> QED
    BY <2>2 DEF G
<1> DEFINE f == h[n].placed
<1>12. f \in P
  BY <1>11 DEF W
<1>13. \A j \in 1..n : order[j] \in DOMAIN f
  BY <1>11 DEF Good
<1> HIDE DEF f
<1>14. DOMAIN f \subseteq S
  BY <1>12 DEF Places
<1>15. S \subseteq DOMAIN f
  BY <1>13 DEF S, ToSet, n
<1> QED
  BY <1>5, <1>12, <1>14, <1>15 DEF S, f

(* effective_origins gives every listed machine a place, and a configured one the place it is configured. *)
LEMMA OriginsOf ==
  ASSUME NEW M, NEW order \in Seq(M), NEW local \in ToSet(order), NEW lks, NEW size \in [M -> Sizes],
         NEW configured, \A m \in DOMAIN configured : configured[m] \in Points
  PROVE  LET o == EffectiveOrigins(order, local, lks, configured, size)
         IN /\ o \in [ToSet(order) -> Points]
            /\ \A m \in DOMAIN configured \cap ToSet(order) : o[m] = configured[m]
<1> DEFINE S == ToSet(order)
           kept == [m \in DOMAIN configured \cap S |-> configured[m]]
           start == Over(kept, Only(local, Pt(0, 0)))
           placed == Linked(order, lks, start, size)
           o == InARow(order, placed, size)
<1>1. EffectiveOrigins(order, local, lks, configured, size) = o
  BY DEF EffectiveOrigins
<1>2. start \in Places(S, start)
  <2> DEFINE T == (DOMAIN configured \cap S) \cup {local}
  <2>1. start = [m \in T |-> IF m \in DOMAIN configured \cap S THEN configured[m] ELSE Pt(0, 0)]
    BY DEF Over, Only
  <2>2. Pt(0, 0) \in Points
    BY DEF Pt, Points
  <2>3. start \in [T -> Points] /\ T \in SUBSET S
    BY <2>1, <2>2
  <2> HIDE DEF start, T
  <2> QED
    BY <2>3 DEF Places
<1>3. \A m \in DOMAIN configured \cap S : m \in DOMAIN start /\ start[m] = configured[m]
  BY DEF Over, Only
<1> HIDE DEF start, S
<1>4. placed \in Places(S, start)
  BY <1>2, LinkedOf DEF S
<1> HIDE DEF placed
<1>5. o \in Places(S, start) /\ DOMAIN o = S
  BY <1>4, InARowOf DEF S
<1> HIDE DEF o
<1>6. o \in [S -> Points]
  BY <1>5 DEF Places
<1>7. \A m \in DOMAIN start : o[m] = start[m]
  BY <1>5 DEF Places
<1> QED
  BY <1>1, <1>3, <1>6, <1>7 DEF S

-----------------------------------------------------------------------------
(* What each variable holds. *)

Positions == UNION {[T -> Points] : T \in SUBSET Machines}
SizeTables == [Machines -> Sizes \cup {NoSize}]
MonitorTables == [Clients -> Seq(Monitors)]

(* Further from the edges of one of the monitors than the jump zone. *)
Inset(p, mons) ==
  \E i \in 1..Len(mons) :
    /\ mons[i].x + Jump + 1 <= p.x /\ p.x <= RightOf(mons[i]) - Jump - 2
    /\ mons[i].y + Jump + 1 <= p.y /\ p.y <= BottomOf(mons[i]) - Jump - 2

Landings == {l \in [p : Points, on : ToSet(Screens)] : Inset(l.p, l.on)}
XEvents == [ev : {"at"}, p : Points] \cup {Hot}
Commands == {Grab} \cup {c \in [cmd : {"ungrab"}, warp : Points, on : ToSet(Screens)] : Inset(c.warp, c.on)}
CaptureEvents ==
  {Hot, Failed} \cup [ev : {"motion"}, d : Points]
                \cup [ev : {"pointer"}, p : Points, from : {None} \cup Landings]
HubEvents ==
  [ev : {"connected"}, name : Clients, mons : MonitorLists] \cup [ev : {"gone"}, name : Clients]
  \cup [ev : {"local"}, mons : ToSet(Screens)] \cup [ev : {"added"}, name : Clients]
  \cup [ev : {"sizes"}, sizes : SizeTables] \cup [ev : {"positions"}, at : Positions]

XTyped == screen \in ToSet(Screens) /\ ptr \in Points /\ OnAny(ptr, screen) /\ xq \in Seq(XEvents)
CaptureTyped ==
  /\ grab \in {"no", "half", "yes"} /\ bounds \in Monitors /\ last \in Points /\ expecting \in BOOLEAN
  /\ lastLocal \in {None} \cup Points /\ cmds \in Seq(Commands)
EventsTyped == events \in Seq(CaptureEvents) /\ Len(events) <= MaxEvents
HubTyped == real \in MonitorTables /\ watched \in ToSet(Screens) /\ hubq \in Seq(HubEvents)
EditorTyped ==
  /\ eScreens \in Seq(Machines) /\ Local \in ToSet(eScreens)
  /\ ePositions \in Positions /\ eSizes \in SizeTables /\ known \in MonitorTables
DeskTyped ==
  /\ rScreens \in Seq(Machines) /\ Local \in ToSet(rScreens)
  /\ rMons \in MonitorTables /\ rLocal \in ToSet(Screens)
  /\ rPositions \in Positions /\ rSizes \in SizeTables
  /\ origins \in [ToSet(rScreens) -> Points]
RouterTyped ==
  active \in Machines /\ pos \in Points /\ lastMonitor \in {None} \cup Monitors /\ cursor \in [Clients -> Points]
HistoryTyped == owed \in Points /\ slipped \in BOOLEAN /\ landed \in {None} \cup Landings /\ valid \in BOOLEAN

TypeInv ==
  XTyped /\ CaptureTyped /\ EventsTyped /\ HubTyped /\ EditorTyped /\ DeskTyped /\ RouterTyped /\ HistoryTyped

LEMMA ScreensOf ==
  ASSUME NEW s \in ToSet(Screens)
  PROVE  s \in MonitorLists /\ s \in Seq(Monitors) /\ s # <<>>
         /\ \A i \in 1..Len(s) : s[i].w > 2 * Jump + 2 /\ s[i].h > 2 * Jump + 2
BY PointerAssumption DEF ToSet, MonitorLists

LEMMA FirstScreen == Screens[1] \in ToSet(Screens)
BY PointerAssumption DEF ToSet

LEMMA PlacedOf ==
  ASSUME NEW screens \in Seq(Machines), Local \in ToSet(screens), NEW local \in Seq(Monitors),
         NEW mons \in MonitorTables, NEW positions \in Positions, NEW sizes \in SizeTables
  PROVE  /\ Placed(screens, MonsOf(local, mons), positions, sizes) \in [ToSet(screens) -> Points]
         /\ \A n \in DOMAIN positions \cap ToSet(screens) :
              Placed(screens, MonsOf(local, mons), positions, sizes)[n] = positions[n]
<1> DEFINE size == [n \in Machines |-> DeskSize(MonsOf(local, mons)[n], sizes[n])]
<1>1. size \in [Machines -> Sizes]
  <2> SUFFICES ASSUME NEW n \in Machines PROVE DeskSize(MonsOf(local, mons)[n], sizes[n]) \in Sizes
    OBVIOUS
  <2>1. MonsOf(local, mons)[n] \in Seq(Monitors) /\ sizes[n] \in Sizes \cup {NoSize}
    BY DEF MonsOf, Machines, MonitorTables, SizeTables
  <2> QED
    BY <2>1, SizeOf
<1>2. \A n \in DOMAIN positions : positions[n] \in Points
  BY DEF Positions
<1> HIDE DEF size
<1>3. LET o == EffectiveOrigins(screens, Local, links, positions, size)
      IN /\ o \in [ToSet(screens) -> Points]
         /\ \A m \in DOMAIN positions \cap ToSet(screens) : o[m] = positions[m]
  BY <1>1, <1>2, OriginsOf
<1> QED
  BY <1>3 DEF Placed, size

LEMMA FrameTyped ==
  ASSUME DeskTyped, NEW n \in Machines
  PROVE  Frame(n) \in Frames /\ Mons(n) \in Seq(Monitors) /\ OriginOf(n) \in Points
<1>1. Mons(n) \in Seq(Monitors)
  BY ScreensOf DEF DeskTyped, Mons, MonitorTables, Machines
<1>2. OriginOf(n) \in Points
  BY DEF DeskTyped, OriginOf, Origin, Pt, Points
<1>3. rSizes[n] \in Sizes \cup {NoSize}
  BY DEF DeskTyped, SizeTables
<1> QED
  BY <1>1, <1>2, <1>3, FrameIs DEF Frame

(* The monitor of a point that is on one holds it. *)
LEMMA OnWhichOf ==
  ASSUME NEW mons \in Seq(Monitors), NEW p, OnAny(p, mons)
  PROVE  \E i \in 1..Len(mons) : OnWhich(p, mons) = mons[i] /\ Holds(mons[i], p)
<1> DEFINE T == {i \in 1..Len(mons) : Holds(mons[i], p)}
<1>1. T \in SUBSET Nat /\ T # {}
  BY DEF OnAny
<1>2. PICK k \in T : \A j \in T : k <= j
  <2> HIDE DEF T
  <2> QED
    BY <1>1, LeastOf
<1>3. \A j \in 1..(k - 1) : ~ Holds(mons[j], p)
  <2> SUFFICES ASSUME NEW j \in 1..(k - 1), Holds(mons[j], p) PROVE FALSE
    OBVIOUS
  <2>1. j \in T /\ ~ (k <= j)
    BY <1>1
  <2> QED
    BY <1>2, <2>1
<1>4. \E i \in 1..Len(mons) : Holds(mons[i], p) /\ \A j \in 1..(i - 1) : ~ Holds(mons[j], p)
  BY <1>3
<1> DEFINE c == CHOOSE i \in 1..Len(mons) : Holds(mons[i], p) /\ \A j \in 1..(i - 1) : ~ Holds(mons[j], p)
<1>5. c \in 1..Len(mons) /\ Holds(mons[c], p)
  BY <1>4
<1>6. OnWhich(p, mons) = mons[c]
  BY DEF OnWhich
<1> QED
  BY <1>5, <1>6

LEMMA JumpIs == Jump \in Nat
BY PointerAssumption

LEMMA WideOf ==
  ASSUME NEW s \in ToSet(Screens), NEW i \in 1..Len(s)
  PROVE  /\ s[i].x \in Int /\ s[i].y \in Int /\ s[i].w \in Int /\ s[i].h \in Int
         /\ s[i].w > 2 * Jump + 2 /\ s[i].h > 2 * Jump + 2
<1>1. s[i] \in Monitors
  <2>1. s \in Seq(Monitors)
    BY ScreensOf
  <2> QED
    BY <2>1
<1>2. s[i].w > 2 * Jump + 2 /\ s[i].h > 2 * Jump + 2
  BY ScreensOf
<1> QED
  BY <1>1, <1>2 DEF Monitors, Rects

LEMMA AxisOf ==
  ASSUME NEW lo \in Int, NEW len \in Int, NEW v \in Int, NEW j \in Nat, len > 2 * j + 2, NEW k,
         k = IF len > 2 * (j + 1) + 1 THEN Within(v, lo + (j + 1), lo + len - 1 - (j + 1)) ELSE lo + len \div 2
  PROVE  k \in Int /\ lo + j + 1 <= k /\ k <= lo + len - j - 2
<1>1. CASE len > 2 * (j + 1) + 1
  <2>1. k = Within(v, lo + (j + 1), lo + len - 1 - (j + 1))
    BY <1>1
  <2> QED
    BY <1>1, <2>1 DEF Within
<1>2. CASE ~ (len > 2 * (j + 1) + 1)
  <2>1. len = 2 * j + 3
    BY <1>2
  <2>2. len \div 2 = j + 1
    BY <2>1
  <2> QED
    BY <1>2, <2>1, <2>2
<1> QED
  BY <1>1, <1>2

(* inset_clamp, by one more than the jump zone: further from every edge than the zone. *)
LEMMA InsetClampOf ==
  ASSUME NEW s \in ToSet(Screens), NEW i \in 1..Len(s), NEW q \in Points
  PROVE  InsetClamp(q, s[i], Jump + 1) \in Points /\ Inset(InsetClamp(q, s[i], Jump + 1), s)
<1> DEFINE r == s[i]
           c == InsetClamp(q, r, Jump + 1)
<1>1. /\ r.x \in Int /\ r.y \in Int /\ r.w \in Int /\ r.h \in Int
      /\ r.w > 2 * Jump + 2 /\ r.h > 2 * Jump + 2 /\ q.x \in Int /\ q.y \in Int /\ Jump \in Nat
  BY WideOf, JumpIs DEF Points
<1> HIDE DEF r
<1>2. /\ c.x = IF r.w > 2 * (Jump + 1) + 1 THEN Within(q.x, r.x + (Jump + 1), r.x + r.w - 1 - (Jump + 1))
               ELSE r.x + r.w \div 2
      /\ c.y = IF r.h > 2 * (Jump + 1) + 1 THEN Within(q.y, r.y + (Jump + 1), r.y + r.h - 1 - (Jump + 1))
               ELSE r.y + r.h \div 2
      /\ c = Pt(c.x, c.y)
  BY DEF InsetClamp, CenterOf, Pt
<1> HIDE DEF c
<1>3. c.x \in Int /\ r.x + Jump + 1 <= c.x /\ c.x <= RightOf(r) - Jump - 2
  <2>1. c.x \in Int /\ r.x + Jump + 1 <= c.x /\ c.x <= r.x + r.w - Jump - 2
    BY <1>1, <1>2, AxisOf
  <2> QED
    BY <1>1, <2>1 DEF RightOf
<1>4. c.y \in Int /\ r.y + Jump + 1 <= c.y /\ c.y <= BottomOf(r) - Jump - 2
  <2>1. c.y \in Int /\ r.y + Jump + 1 <= c.y /\ c.y <= r.y + r.h - Jump - 2
    BY <1>1, <1>2, AxisOf
  <2> QED
    BY <1>1, <2>1 DEF BottomOf
<1>5. c \in Points
  BY <1>2, <1>3, <1>4 DEF Pt, Points
<1> QED
  BY <1>3, <1>4, <1>5 DEF Inset, r, c

LEMMA CenterInset ==
  ASSUME NEW s \in ToSet(Screens), NEW i \in 1..Len(s)
  PROVE  Inset(CenterOf(s[i]), s)
<1> DEFINE r == s[i]
           c == CenterOf(r)
<1>1. /\ r.x \in Int /\ r.y \in Int /\ r.w \in Int /\ r.h \in Int
      /\ r.w > 2 * Jump + 2 /\ r.h > 2 * Jump + 2 /\ Jump \in Nat
  BY WideOf, JumpIs
<1> HIDE DEF r
<1>2. r.x + Jump + 1 <= c.x /\ c.x <= RightOf(r) - Jump - 2
  BY <1>1 DEF CenterOf, RightOf, Pt
<1>3. r.y + Jump + 1 <= c.y /\ c.y <= BottomOf(r) - Jump - 2
  BY <1>1 DEF CenterOf, BottomOf, Pt
<1> QED
  BY <1>2, <1>3 DEF Inset, r

LEMMA KeepX == ASSUME XTyped, UNCHANGED xserver PROVE XTyped'
BY DEF XTyped, xserver
LEMMA KeepCapture == ASSUME CaptureTyped, UNCHANGED capture PROVE CaptureTyped'
BY DEF CaptureTyped, capture
LEMMA KeepEvents == ASSUME EventsTyped, UNCHANGED events PROVE EventsTyped'
BY DEF EventsTyped
LEMMA KeepHub == ASSUME HubTyped, UNCHANGED hub PROVE HubTyped'
BY DEF HubTyped, hub
LEMMA KeepEditor == ASSUME EditorTyped, UNCHANGED editor PROVE EditorTyped'
BY DEF EditorTyped, editor
LEMMA KeepDesk == ASSUME DeskTyped, UNCHANGED desk PROVE DeskTyped'
BY DEF DeskTyped, desk
LEMMA KeepRouter == ASSUME RouterTyped, UNCHANGED router PROVE RouterTyped'
BY DEF RouterTyped, router
LEMMA KeepHistory == ASSUME HistoryTyped, UNCHANGED history PROVE HistoryTyped'
BY DEF HistoryTyped, history

LEMMA VectorOf ==
  ASSUME NEW p \in Points, NEW q \in Points
  PROVE  Plus(p, q) \in Points /\ Minus(p, q) \in Points
BY DEF Plus, Minus, Pt, Points

LEMMA OriginIs == Origin \in Points
BY DEF Origin, Pt, Points

LEMMA OnScreenOf ==
  ASSUME XTyped, NEW p \in Points
  PROVE  OnScreen(p) \in Points /\ OnAny(OnScreen(p), screen) /\ (OnAny(p, screen) => OnScreen(p) = p)
BY ScreensOf, NearestOf DEF XTyped, OnScreen

LEMMA WarpOf ==
  ASSUME XTyped, CaptureTyped, NEW p \in Points, WarpTo(p), UNCHANGED screen
  PROVE  ptr' \in Points /\ OnAny(ptr', screen)
<1>1. ClampTo(bounds, p) \in Points
  BY ClampOf DEF CaptureTyped
<1> QED
  BY <1>1, OnScreenOf DEF WarpTo

LEMMA CenterIs == ASSUME CaptureTyped PROVE Center \in Points
BY CenterOfMonitor DEF CaptureTyped, Center

LEMMA AtIs == ASSUME NEW p \in Points PROVE At(p) \in XEvents
BY DEF At, XEvents

LEMMA EmitTyped ==
  ASSUME EventsTyped, NEW e \in CaptureEvents, Emit(e)
  PROVE  EventsTyped'
<1>1. Len(events) < MaxEvents /\ events' = Append(events, e) /\ MaxEvents \in Nat
  BY PointerAssumption DEF Emit
<1>2. events' \in Seq(CaptureEvents) /\ Len(events') = Len(events) + 1
  BY <1>1 DEF EventsTyped
<1> QED
  BY <1>1, <1>2 DEF EventsTyped

LEMMA HandMovesTyped ==
  ASSUME TypeInv, NEW d \in Vectors, HandMoves(d)
  PROVE  TypeInv'
<1>1. d \in Points
  BY PointerAssumption
<1>2. Plus(ptr, d) \in Points
  BY <1>1, VectorOf DEF TypeInv, XTyped
<1>3. ptr' \in Points /\ OnAny(ptr', screen)
  BY <1>2, OnScreenOf DEF TypeInv, HandMoves
<1>4. XTyped'
  <2>1. xq' \in Seq(XEvents)
    BY <1>3, AtIs DEF TypeInv, XTyped, HandMoves
  <2> QED
    BY <1>3, <2>1 DEF TypeInv, XTyped, HandMoves
<1>5. HistoryTyped'
  <2>1. Minus(ptr', ptr) \in Points
    BY <1>3, VectorOf DEF TypeInv, XTyped
  <2>2. owed' \in Points
    BY <2>1, VectorOf DEF TypeInv, HistoryTyped, HandMoves
  <2> QED
    BY <2>2 DEF TypeInv, HistoryTyped, HandMoves
<1> QED
  BY <1>4, <1>5, KeepCapture, KeepEvents, KeepHub, KeepEditor, KeepDesk, KeepRouter DEF TypeInv, HandMoves

LEMMA HotkeyTyped ==
  ASSUME TypeInv, HandPressesHotkey
  PROVE  TypeInv'
<1>1. XTyped'
  BY DEF TypeInv, XTyped, HandPressesHotkey, XEvents
<1> QED
  BY <1>1, KeepCapture, KeepEvents, KeepHub, KeepEditor, KeepDesk, KeepRouter, KeepHistory
     DEF TypeInv, HandPressesHotkey

LEMMA GrabPointerTyped ==
  ASSUME TypeInv, GrabPointer
  PROVE  TypeInv'
<1>1. CaptureTyped'
  BY DEF TypeInv, CaptureTyped, GrabPointer
<1>2. EventsTyped'
  <2>1. Failed \in CaptureEvents
    BY DEF CaptureEvents
  <2> QED
    BY <2>1, KeepEvents, EmitTyped DEF TypeInv, GrabPointer
<1>3. HistoryTyped'
  BY DEF TypeInv, HistoryTyped, GrabPointer
<1> QED
  BY <1>1, <1>2, <1>3, KeepX, KeepHub, KeepEditor, KeepDesk, KeepRouter DEF TypeInv, GrabPointer

LEMMA GrabRestTyped ==
  ASSUME TypeInv, GrabRest
  PROVE  TypeInv'
<1>0. Center \in Points
  BY CenterIs DEF TypeInv
<1>1. CASE grab' = "yes"
  <2>1. /\ last' = ptr /\ expecting' = TRUE /\ WarpTo(Center) /\ xq' = Append(xq, At(ptr'))
        /\ owed' = Origin /\ UNCHANGED events /\ UNCHANGED <<screen, bounds, lastLocal, cmds, slipped, landed, valid>>
    BY <1>1 DEF GrabRest
  <2>2. ptr' \in Points /\ OnAny(ptr', screen)
    BY <1>0, <2>1, WarpOf DEF TypeInv
  <2>3. XTyped'
    BY <2>1, <2>2, AtIs DEF TypeInv, XTyped
  <2>4. CaptureTyped'
    BY <1>1, <2>1 DEF TypeInv, XTyped, CaptureTyped
  <2>5. HistoryTyped'
    BY <2>1, OriginIs DEF TypeInv, HistoryTyped
  <2> QED
    BY <2>1, <2>3, <2>4, <2>5, KeepEvents, KeepHub, KeepEditor, KeepDesk, KeepRouter DEF TypeInv, GrabRest
<1>2. CASE grab' # "yes"
  <2>1. grab' = "no" /\ Emit(Failed) /\ UNCHANGED <<last, expecting, ptr, xq, owed>>
    BY <1>2 DEF GrabRest
  <2>2. UNCHANGED <<screen, bounds, lastLocal, cmds, slipped, landed, valid>>
    BY DEF GrabRest
  <2>3. XTyped' /\ HistoryTyped'
    BY <2>1, <2>2, KeepX, KeepHistory DEF TypeInv, xserver, history
  <2>4. CaptureTyped'
    BY <2>1, <2>2 DEF TypeInv, CaptureTyped
  <2>5. EventsTyped'
    <3>1. Failed \in CaptureEvents
      BY DEF CaptureEvents
    <3> QED
      BY <2>1, <3>1, EmitTyped DEF TypeInv
  <2> QED
    BY <2>3, <2>4, <2>5, KeepHub, KeepEditor, KeepDesk, KeepRouter DEF TypeInv, GrabRest
<1> QED
  BY <1>1, <1>2

LEMMA UngrabTyped ==
  ASSUME TypeInv, Ungrab
  PROVE  TypeInv'
<1> DEFINE c == Head(cmds)
<1>1. cmds \in Seq(Commands) /\ cmds # <<>>
  BY DEF TypeInv, CaptureTyped, Ungrab
<1>2. c \in Commands /\ c.cmd = "ungrab" /\ Tail(cmds) \in Seq(Commands)
  BY <1>1 DEF Ungrab
<1>3. c.warp \in Points /\ c.on \in ToSet(Screens) /\ Inset(c.warp, c.on)
  BY <1>2 DEF Commands, Grab
<1>4. /\ cmds' = Tail(cmds) /\ grab' = "no" /\ WarpTo(c.warp) /\ lastLocal' = c.warp
      /\ landed' = IF ptr' = c.warp THEN [p |-> ptr', on |-> c.on] ELSE None
      /\ UNCHANGED <<screen, xq, bounds, last, expecting, owed, slipped, valid>>
  BY DEF Ungrab
<1> HIDE DEF c
<1>5. ptr' \in Points /\ OnAny(ptr', screen)
  BY <1>3, <1>4, WarpOf DEF TypeInv
<1>6. XTyped'
  BY <1>4, <1>5 DEF TypeInv, XTyped
<1>7. CaptureTyped'
  BY <1>2, <1>3, <1>4 DEF TypeInv, CaptureTyped
<1>8. HistoryTyped'
  BY <1>3, <1>4, <1>5 DEF TypeInv, HistoryTyped, Landings
<1> QED
  BY <1>6, <1>7, <1>8, KeepEvents, KeepHub, KeepEditor, KeepDesk, KeepRouter DEF TypeInv, Ungrab

LEMMA ReportTyped ==
  ASSUME TypeInv, NEW d \in Points, Report(d)
  PROVE  EventsTyped' /\ owed' \in Points
<1>1. EventsTyped'
  <2>1. Motion(d) \in CaptureEvents
    BY DEF Motion, CaptureEvents
  <2> QED
    BY <2>1, EmitTyped, KeepEvents DEF TypeInv, Report
<1>2. owed' \in Points
  BY VectorOf DEF TypeInv, HistoryTyped, Report
<1> QED
  BY <1>1, <1>2

LEMMA OnMotionTyped ==
  ASSUME TypeInv, NEW p \in Points, xq # <<>>, OnMotion(p), UNCHANGED <<screen, grab, bounds, lastLocal, cmds>>
  PROVE  XTyped' /\ last' \in Points /\ expecting' \in BOOLEAN /\ EventsTyped' /\ owed' \in Points
<1>1. Center \in Points /\ last \in Points
  BY CenterIs DEF TypeInv, CaptureTyped
<1>2. Measured(p) \in Points
  BY <1>1, VectorOf DEF Measured
<1>3. last' \in Points /\ expecting' \in BOOLEAN
  BY <1>1 DEF TypeInv, CaptureTyped, OnMotion
<1>4. EventsTyped' /\ owed' \in Points
  <2>1. CASE expecting /\ p = Center
    BY <2>1, KeepEvents DEF TypeInv, HistoryTyped, OnMotion
  <2>2. CASE ~ (expecting /\ p = Center)
    <3>1. Report(Measured(p))
      BY <2>2 DEF OnMotion
    <3> QED
      BY <1>2, <3>1, ReportTyped
  <2> QED
    BY <2>1, <2>2
<1>5. XTyped'
  <2>0. Tail(xq) \in Seq(XEvents)
    BY DEF TypeInv, XTyped
  <2>1. CASE UNCHANGED ptr /\ xq' = Tail(xq)
    BY <2>0, <2>1 DEF TypeInv, XTyped
  <2>2. CASE WarpTo(Center) /\ xq' = Append(Tail(xq), At(ptr'))
    <3>1. ptr' \in Points /\ OnAny(ptr', screen)
      BY <1>1, <2>2, WarpOf DEF TypeInv
    <3>2. xq' \in Seq(XEvents)
      BY <2>0, <2>2, <3>1, AtIs
    <3> QED
      BY <3>1, <3>2 DEF TypeInv, XTyped
  <2> QED
    BY <2>1, <2>2 DEF OnMotion
<1> QED
  BY <1>3, <1>4, <1>5

LEMMA XEventTyped ==
  ASSUME TypeInv, XEvent
  PROVE  TypeInv'
<1> DEFINE e == Head(xq)
<1>1. xq \in Seq(XEvents) /\ xq # <<>>
  BY DEF TypeInv, XTyped, XEvent
<1>2. e \in XEvents /\ Tail(xq) \in Seq(XEvents)
  BY <1>1
<1>3. UNCHANGED <<budget, screen, grab, bounds, lastLocal, cmds, hub, editor, desk, router, slipped, landed, valid>>
  BY DEF XEvent
<1>4. CASE e.ev = "at" /\ grab = "yes" /\ OnMotion(e.p)
  <2>1. e.p \in Points
    BY <1>2, <1>4 DEF XEvents, Hot
  <2>2. XTyped' /\ last' \in Points /\ expecting' \in BOOLEAN /\ EventsTyped' /\ owed' \in Points
    BY <1>1, <1>3, <1>4, <2>1, OnMotionTyped
  <2>3. CaptureTyped' /\ HistoryTyped'
    BY <1>3, <2>2 DEF TypeInv, CaptureTyped, HistoryTyped
  <2> QED
    BY <1>3, <2>2, <2>3, KeepHub, KeepEditor, KeepDesk, KeepRouter DEF TypeInv
<1>5. CASE xq' = Tail(xq) /\ UNCHANGED <<ptr, last, expecting, owed>> /\ (UNCHANGED events \/ Emit(Hot))
  <2>1. XTyped'
    BY <1>2, <1>3, <1>5 DEF TypeInv, XTyped
  <2>2. CaptureTyped' /\ HistoryTyped'
    BY <1>3, <1>5 DEF TypeInv, CaptureTyped, HistoryTyped
  <2>3. EventsTyped'
    <3>1. Hot \in CaptureEvents
      BY DEF CaptureEvents
    <3> QED
      BY <1>5, <3>1, EmitTyped, KeepEvents DEF TypeInv
  <2> QED
    BY <1>3, <2>1, <2>2, <2>3, KeepHub, KeepEditor, KeepDesk, KeepRouter DEF TypeInv
<1> QED
  BY <1>4, <1>5 DEF XEvent

LEMMA SampleTyped ==
  ASSUME TypeInv, Sample
  PROVE  TypeInv'
<1>1. Pointer(ptr, landed) \in CaptureEvents
  BY DEF TypeInv, XTyped, HistoryTyped, Pointer, CaptureEvents
<1>2. EventsTyped'
  BY <1>1, EmitTyped DEF TypeInv, Sample
<1>3. CaptureTyped'
  BY DEF TypeInv, XTyped, CaptureTyped, Sample
<1> QED
  BY <1>2, <1>3, KeepX, KeepHub, KeepEditor, KeepDesk, KeepRouter, KeepHistory DEF TypeInv, Sample

LEMMA SaneOf ==
  ASSUME NEW list \in Seq(Rects)
  PROVE  Sanitize(list) \in MonitorLists
<1> DEFINE S == {r \in ToSet(list) : r.w > 0 /\ r.h > 0}
           sane == Among(list, S)
<1>1. sane \in Seq(ToSet(list) \cap S)
  BY AmongOf
<1>2. ToSet(list) \cap S \subseteq Monitors
  BY DEF ToSet, Monitors
<1> HIDE DEF S
<1>3. sane \in Seq(Monitors)
  BY <1>1, <1>2
<1>4. <<Fallback>> \in MonitorLists
  BY PointerAssumption DEF MonitorLists
<1>5. Sanitize(list) = IF sane = <<>> THEN <<Fallback>> ELSE sane
  BY DEF Sanitize, S
<1> HIDE DEF sane
<1> QED
  BY <1>3, <1>4, <1>5 DEF MonitorLists

LEMMA TellTyped ==
  ASSUME HubTyped, NEW e \in HubEvents, Tell(e)
  PROVE  hubq' \in Seq(HubEvents)
BY DEF HubTyped, Tell

LEMMA ReportedTyped ==
  ASSUME TypeInv, NEW c \in Clients, Reported(c)
  PROVE  TypeInv'
<1>1. PICK list \in Reports[c] :
        /\ real' = [real EXCEPT ![c] = Sanitize(list)]
        /\ cursor' = [cursor EXCEPT ![c] = NearestPoint(@, Sanitize(list))]
        /\ Tell([ev |-> "connected", name |-> c, mons |-> Sanitize(list)])
  BY DEF Reported
<1>2. Sanitize(list) \in MonitorLists /\ Sanitize(list) \in Seq(Monitors)
  BY PointerAssumption, SaneOf DEF MonitorLists
<1>3. HubTyped'
  <2>1. [ev |-> "connected", name |-> c, mons |-> Sanitize(list)] \in HubEvents
    BY <1>2 DEF HubEvents
  <2>2. hubq' \in Seq(HubEvents)
    BY <1>1, <2>1, TellTyped DEF TypeInv
  <2> QED
    BY <1>1, <1>2, <2>2 DEF TypeInv, HubTyped, MonitorTables, Reported
<1>4. RouterTyped'
  <2>1. cursor[c] \in Points
    BY DEF TypeInv, RouterTyped
  <2>2. NearestPoint(cursor[c], Sanitize(list)) \in Points
    BY <1>2, <2>1, NearestOf
  <2> QED
    BY <1>1, <2>2 DEF TypeInv, RouterTyped, Reported
<1>5. HistoryTyped'
  BY DEF TypeInv, HistoryTyped, Reported
<1> QED
  BY <1>3, <1>4, <1>5, KeepX, KeepCapture, KeepEvents, KeepEditor, KeepDesk DEF TypeInv, Reported

LEMMA UnregisterTyped ==
  ASSUME TypeInv, NEW c \in Clients, Unregister(c)
  PROVE  TypeInv'
<1>1. HubTyped'
  <2>1. [ev |-> "gone", name |-> c] \in HubEvents
    BY DEF HubEvents
  <2>2. hubq' \in Seq(HubEvents)
    BY <2>1, TellTyped DEF TypeInv, Unregister
  <2> QED
    BY <2>2 DEF TypeInv, HubTyped, MonitorTables, Unregister
<1> QED
  BY <1>1, KeepX, KeepCapture, KeepEvents, KeepEditor, KeepDesk, KeepRouter, KeepHistory DEF TypeInv, Unregister

LEMMA ScreenChangesTyped ==
  ASSUME TypeInv, ScreenChanges
  PROVE  TypeInv'
<1>1. PICK i \in 1..Len(Screens) : screen' = Screens[i] /\ ptr' = NearestPoint(ptr, Screens[i])
  BY DEF ScreenChanges
<1>2. Screens[i] \in ToSet(Screens)
  BY DEF ToSet
<1>3. ptr' \in Points /\ OnAny(ptr', screen')
  BY <1>1, <1>2, ScreensOf, NearestOf DEF TypeInv, XTyped
<1>4. XTyped'
  BY <1>1, <1>2, <1>3 DEF TypeInv, XTyped, ScreenChanges
<1>5. HistoryTyped'
  BY DEF TypeInv, HistoryTyped, ScreenChanges
<1> QED
  BY <1>4, <1>5, KeepCapture, KeepEvents, KeepHub, KeepEditor, KeepDesk, KeepRouter DEF TypeInv, ScreenChanges

LEMMA WatchLocalTyped ==
  ASSUME TypeInv, WatchLocal
  PROVE  TypeInv'
<1>1. HubTyped'
  <2>1. [ev |-> "local", mons |-> screen] \in HubEvents
    BY DEF TypeInv, XTyped, HubEvents
  <2>2. hubq' \in Seq(HubEvents)
    BY <2>1, TellTyped DEF TypeInv, WatchLocal
  <2> QED
    BY <2>2 DEF TypeInv, HubTyped, XTyped, WatchLocal
<1> QED
  BY <1>1, KeepX, KeepCapture, KeepEvents, KeepEditor, KeepDesk, KeepRouter, KeepHistory DEF TypeInv, WatchLocal

LEMMA AddScreenTyped ==
  ASSUME TypeInv, NEW c \in Clients, AddScreen(c)
  PROVE  TypeInv'
<1>1. HubTyped'
  <2>1. [ev |-> "added", name |-> c] \in HubEvents
    BY DEF HubEvents
  <2>2. hubq' \in Seq(HubEvents)
    BY <2>1, TellTyped DEF TypeInv, AddScreen
  <2> QED
    BY <2>2 DEF TypeInv, HubTyped, AddScreen
<1>2. EditorTyped'
  <2>1. eScreens' = Append(eScreens, c) /\ c \in Machines /\ eScreens \in Seq(Machines)
    BY DEF TypeInv, EditorTyped, AddScreen, Machines
  <2>2. eScreens' \in Seq(Machines) /\ ToSet(eScreens) \subseteq ToSet(eScreens')
    BY <2>1 DEF ToSet
  <2> QED
    BY <2>2 DEF TypeInv, EditorTyped, AddScreen
<1> QED
  BY <1>1, <1>2, KeepX, KeepCapture, KeepEvents, KeepDesk, KeepRouter, KeepHistory DEF TypeInv, AddScreen

LEMMA SeenOf == ASSUME HubTyped, EditorTyped PROVE Seen \in MonitorTables
BY DEF HubTyped, EditorTyped, Seen, MonitorTables

LEMMA LookTyped ==
  ASSUME TypeInv, Look
  PROVE  TypeInv'
<1>1. EditorTyped'
  BY SeenOf DEF TypeInv, EditorTyped, Look
<1> QED
  BY <1>1, KeepX, KeepCapture, KeepEvents, KeepHub, KeepDesk, KeepRouter, KeepHistory DEF TypeInv, Look

LEMMA ViewMonsOf ==
  ASSUME HubTyped, EditorTyped, NEW n \in Machines
  PROVE  ViewMons(n) \in Seq(Monitors)
<1>1. DefaultSize \in Sizes
  BY GeometryAssumption
<1>2. Rect(0, 0, DefaultSize.w, DefaultSize.h) \in Monitors
  BY <1>1 DEF Rect, Sizes, Monitors, Rects
<1>3. watched \in Seq(Monitors)
  BY ScreensOf DEF HubTyped
<1>4. n # Local => real[n] \in Seq(Monitors) /\ known[n] \in Seq(Monitors)
  BY DEF HubTyped, EditorTyped, MonitorTables, Machines
<1> QED
  BY <1>2, <1>3, <1>4 DEF ViewMons

LEMMA ViewOriginsOf ==
  ASSUME HubTyped, EditorTyped
  PROVE  /\ ViewOrigins \in [ToSet(eScreens) -> Points]
         /\ \A n \in DOMAIN ePositions \cap ToSet(eScreens) : ViewOrigins[n] = ePositions[n]
<1> DEFINE others == [c \in Clients |-> ViewMons(c)]
<1>1. others \in MonitorTables /\ ViewMons(Local) \in Seq(Monitors)
  BY ViewMonsOf DEF Machines, MonitorTables
<1>2. [n \in Machines |-> ViewMons(n)] = MonsOf(ViewMons(Local), others)
  BY DEF MonsOf, Machines
<1>3. ViewOrigins = Placed(eScreens, MonsOf(ViewMons(Local), others), ePositions, eSizes)
  BY <1>2 DEF ViewOrigins
<1> HIDE DEF others
<1>4. eScreens \in Seq(Machines) /\ Local \in ToSet(eScreens) /\ ePositions \in Positions /\ eSizes \in SizeTables
  BY DEF EditorTyped
<1> QED
  BY <1>1, <1>3, <1>4, PlacedOf

LEMMA ApplyLayoutTyped ==
  ASSUME TypeInv, NEW edit \in Edits, ApplyLayout(edit)
  PROVE  TypeInv'
<1>1. ePositions' = NextPositions(edit) /\ eSizes' = NextSizes(edit) /\ known' = Seen
  BY DEF ApplyLayout
<1>2. ePositions' \in Positions
  <2>1. /\ \A n \in DOMAIN edit.at : edit.at[n] \in Points
        /\ DOMAIN edit.at \subseteq ToSet(eScreens)
    BY PointerAssumption DEF ApplyLayout
  <2>2. ToSet(eScreens) \subseteq Machines
    BY DEF TypeInv, EditorTyped, ToSet
  <2>3. ViewOrigins \in [ToSet(eScreens) -> Points]
    BY ViewOriginsOf DEF TypeInv
  <2>4. NextPositions(edit) = [n \in ToSet(eScreens) |-> IF n \in DOMAIN edit.at THEN edit.at[n] ELSE ViewOrigins[n]]
    BY <2>1, <2>3 DEF NextPositions, Over
  <2>5. NextPositions(edit) \in [ToSet(eScreens) -> Points]
    BY <2>1, <2>3, <2>4
  <2> QED
    BY <1>1, <2>2, <2>5 DEF Positions
<1>3. eSizes' \in SizeTables
  <2>1. \A n \in DOMAIN edit.size : edit.size[n] \in Sizes
    BY PointerAssumption
  <2> QED
    BY <1>1, <2>1 DEF TypeInv, EditorTyped, NextSizes, SizeTables
<1>4. EditorTyped'
  BY <1>1, <1>2, <1>3, SeenOf DEF TypeInv, EditorTyped, ApplyLayout
<1>5. HubTyped'
  <2>1. [ev |-> "sizes", sizes |-> eSizes'] \in HubEvents /\ [ev |-> "positions", at |-> ePositions'] \in HubEvents
    BY <1>2, <1>3 DEF HubEvents
  <2>2. <<[ev |-> "sizes", sizes |-> eSizes'], [ev |-> "positions", at |-> ePositions']>> \in Seq(HubEvents)
    BY <2>1
  <2>3. hubq' \in Seq(HubEvents)
    BY <2>2 DEF TypeInv, HubTyped, ApplyLayout
  <2> QED
    BY <2>3 DEF TypeInv, HubTyped, ApplyLayout
<1>6. HistoryTyped'
  BY DEF TypeInv, HistoryTyped, ApplyLayout
<1> QED
  BY <1>4, <1>5, <1>6, KeepX, KeepCapture, KeepEvents, KeepDesk, KeepRouter DEF TypeInv, ApplyLayout

LEMMA RefreshedTyped ==
  ASSUME NEW screens \in Seq(Machines), Local \in ToSet(screens), NEW mons \in MonitorTables,
         NEW local \in ToSet(Screens), NEW positions \in Positions, NEW sizes \in SizeTables,
         Refreshed(screens, mons, local, positions, sizes)
  PROVE  DeskTyped'
<1>1. Placed(screens, MonsOf(local, mons), positions, sizes) \in [ToSet(screens) -> Points]
  BY PlacedOf, ScreensOf
<1> QED
  BY <1>1 DEF Refreshed, DeskTyped

LEMMA LocalCenterOf ==
  ASSUME DeskTyped
  PROVE  LocalCenter \in Points /\ Inset(LocalCenter, rLocal)
<1> DEFINE S == {m \in ToSet(rLocal) : Holds(m, Origin)}
           hasOrigin == Among(rLocal, S)
           home == IF lastMonitor # None /\ lastMonitor \in ToSet(rLocal) THEN lastMonitor
                   ELSE IF hasOrigin # <<>> THEN hasOrigin[1] ELSE rLocal[1]
<1>1. rLocal \in ToSet(Screens) /\ rLocal \in MonitorLists /\ rLocal \in Seq(Monitors) /\ rLocal # <<>>
  BY ScreensOf DEF DeskTyped
<1>2. home \in ToSet(rLocal)
  <2>1. hasOrigin \in Seq(ToSet(rLocal) \cap S)
    BY <1>1, AmongOf
  <2>2. rLocal[1] \in ToSet(rLocal)
    BY <1>1 DEF ToSet
  <2>3. hasOrigin # <<>> => hasOrigin[1] \in ToSet(rLocal)
    BY <2>1
  <2> QED
    BY <2>2, <2>3
<1>3. LocalCenter = SnapInto(Local, CenterOf(home))
  BY DEF LocalCenter
<1> HIDE DEF home
<1>4. PICK i \in 1..Len(rLocal) : home = rLocal[i]
  BY <1>2 DEF ToSet
<1>5. rLocal[i] \in Monitors
  BY <1>1
<1>6. CenterOf(home) \in Points /\ Holds(rLocal[i], CenterOf(home))
  BY <1>4, <1>5, CenterOfMonitor
<1>7. OnAny(CenterOf(home), rLocal)
  BY <1>6 DEF OnAny
<1>8. LocalCenter = CenterOf(home)
  BY <1>1, <1>3, <1>6, <1>7, NearestOf DEF SnapInto, Mons
<1>9. Inset(CenterOf(home), rLocal)
  BY <1>1, <1>4, CenterInset
<1> QED
  BY <1>6, <1>8, <1>9

LEMMA GoHomeTyped ==
  ASSUME CaptureTyped, DeskTyped, NEW at \in Points, Inset(at, rLocal), Command(Home(at, rLocal))
  PROVE  cmds' \in Seq(Commands)
<1>1. Home(at, rLocal) \in Commands
  BY DEF DeskTyped, Home, Commands
<1> QED
  BY <1>1 DEF CaptureTyped, Command

LEMMA HubEventTyped ==
  ASSUME TypeInv, HubEvent
  PROVE  TypeInv'
<1> DEFINE e == Head(hubq)
<1>1. hubq \in Seq(HubEvents) /\ hubq # <<>>
  BY DEF TypeInv, HubTyped, HubEvent
<1>2. e \in HubEvents /\ Tail(hubq) \in Seq(HubEvents)
  BY <1>1
<1>3. /\ hubq' = Tail(hubq) /\ Applied(e)
      /\ UNCHANGED <<budget, xserver, grab, bounds, last, expecting, lastLocal, events, real, watched, editor, history>>
  BY DEF HubEvent
<1> HIDE DEF e
<1>4. HubTyped'
  BY <1>2, <1>3 DEF TypeInv, HubTyped
<1>0. /\ rScreens \in Seq(Machines) /\ Local \in ToSet(rScreens) /\ rMons \in MonitorTables /\ rLocal \in ToSet(Screens)
      /\ rPositions \in Positions /\ rSizes \in SizeTables
  BY DEF TypeInv, DeskTyped
<1>5. DeskTyped'
  <2>1. CASE e.ev = "connected" /\ Refreshed(rScreens, [rMons EXCEPT ![e.name] = e.mons], rLocal, rPositions, rSizes)
    <3>1. e.mons \in Seq(Monitors)
      BY <1>2, <2>1 DEF HubEvents, MonitorLists
    <3>2. [rMons EXCEPT ![e.name] = e.mons] \in MonitorTables
      BY <1>0, <3>1 DEF MonitorTables
    <3> QED
      BY <1>0, <2>1, <3>2, RefreshedTyped
  <2>2. CASE e.ev = "gone" /\ ClientGone(e.name)
    <3>0. <<>> \in Seq(Monitors)
      OBVIOUS
    <3>1. [rMons EXCEPT ![e.name] = <<>>] \in MonitorTables
      BY <1>0, <3>0 DEF MonitorTables
    <3> QED
      BY <1>0, <2>2, <3>1, RefreshedTyped DEF ClientGone
  <2>3. CASE e.ev = "positions" /\ Refreshed(rScreens, rMons, rLocal, e.at, rSizes)
    <3>1. e.at \in Positions
      BY <1>2, <2>3 DEF HubEvents
    <3> QED
      BY <1>0, <2>3, <3>1, RefreshedTyped
  <2>4. CASE e.ev = "sizes" /\ Refreshed(rScreens, rMons, rLocal, rPositions, e.sizes)
    <3>1. e.sizes \in SizeTables
      BY <1>2, <2>4 DEF HubEvents
    <3> QED
      BY <1>0, <2>4, <3>1, RefreshedTyped
  <2>5. CASE e.ev = "added" /\ Refreshed(Append(rScreens, e.name), rMons, rLocal, rPositions, rSizes)
    <3>1. e.name \in Machines
      BY <1>2, <2>5 DEF HubEvents, Machines
    <3> DEFINE s == Append(rScreens, e.name)
    <3>2. s \in Seq(Machines) /\ Local \in ToSet(s)
      BY <1>0, <3>1 DEF ToSet
    <3> QED
      BY <1>0, <2>5, <3>2, RefreshedTyped
  <2>6. CASE e.ev = "local" /\ LocalMonitors(e.mons)
    <3>1. e.mons \in ToSet(Screens)
      BY <1>2, <2>6 DEF HubEvents
    <3>2. CASE UNCHANGED desk
      BY <3>2, KeepDesk DEF TypeInv
    <3>3. CASE Refreshed(rScreens, rMons, e.mons, rPositions, rSizes)
      BY <1>0, <3>1, <3>3, RefreshedTyped
    <3> QED
      BY <2>6, <3>2, <3>3 DEF LocalMonitors
  <2> QED
    BY <1>3, <2>1, <2>2, <2>3, <2>4, <2>5, <2>6 DEF Applied
<1>6. RouterTyped' /\ cmds' \in Seq(Commands)
  <2>1. CASE StayPut
    BY <2>1 DEF TypeInv, RouterTyped, CaptureTyped, StayPut
  <2>2. CASE ClientGone(e.name) /\ ~ StayPut
    <3>1. active' = Local /\ Command(Home(LocalCenter, rLocal)) /\ UNCHANGED <<pos, lastMonitor, cursor>>
      BY <2>2 DEF ClientGone
    <3>2. cmds' \in Seq(Commands)
      BY <3>1, LocalCenterOf, GoHomeTyped DEF TypeInv
    <3> QED
      BY <3>1, <3>2 DEF TypeInv, RouterTyped, Machines
  <2>3. CASE LocalMonitors(e.mons) /\ ~ StayPut
    <3>1. lastMonitor' \in {lastMonitor, None} /\ UNCHANGED <<active, pos, cmds, cursor>>
      BY <2>3 DEF LocalMonitors
    <3> QED
      BY <3>1 DEF TypeInv, RouterTyped, CaptureTyped
  <2> QED
    BY <1>3, <2>1, <2>2, <2>3 DEF Applied
<1>7. CaptureTyped'
  BY <1>3, <1>6 DEF TypeInv, CaptureTyped
<1> QED
  BY <1>3, <1>4, <1>5, <1>6, <1>7, KeepX, KeepEvents, KeepEditor, KeepHistory DEF TypeInv

LEMMA StepOf ==
  ASSUME NEW p \in Points, NEW i \in 1..4, NEW n \in Nat
  PROVE  StepTo(p, Edges[i], n) \in Points
<1>1. Edges[i] \in {"left", "right", "top", "bottom"}
  BY DEF Edges
<1>2. p.x \in Int /\ p.y \in Int
  BY DEF Points
<1> QED
  BY <1>1, <1>2 DEF StepTo, Pt, Points

LEMMA BeneathOf ==
  ASSUME NEW v, NEW exclude
  PROVE  /\ Beneath(v, exclude) \in Seq(Machines \ {exclude})
         /\ Beneath(v, exclude) # <<>> =>
              /\ Beneath(v, exclude)[1] \in Machines \ {exclude}
              /\ OnAny(ToLocal(Frame(Beneath(v, exclude)[1]), v), Mons(Beneath(v, exclude)[1]))
<1> DEFINE S == {n \in Machines \ {exclude} : OnAny(ToLocal(Frame(n), v), Mons(n))}
           b == Among(Names, S)
<1>1. Names \in Seq(Machines)
  BY PointerAssumption
<1>2. b \in Seq(ToSet(Names) \cap S)
  BY <1>1, AmongOf
<1>3. Beneath(v, exclude) = b
  BY DEF Beneath
<1> HIDE DEF b
<1>4. b \in Seq(S)
  BY <1>2
<1>5. b # <<>> => b[1] \in S
  BY <1>4
<1> QED
  BY <1>3, <1>4, <1>5

LEMMA MovedTyped ==
  ASSUME HubTyped, cursor \in [Clients -> Points], NEW to, \A c \in Clients \cap DOMAIN to : to[c] \in Points, Moved(to)
  PROVE  cursor' \in [Clients -> Points]
<1> DEFINE at(c) == IF c \in DOMAIN to /\ real[c] # <<>> THEN NearestPoint(to[c], real[c]) ELSE cursor[c]
<1>1. ASSUME NEW c \in Clients
      PROVE  at(c) \in Points
  <2>1. CASE c \in DOMAIN to /\ real[c] # <<>>
    <3>1. to[c] \in Points
      BY <2>1
    <3>2. real[c] \in MonitorLists
      BY <2>1 DEF HubTyped, MonitorTables, MonitorLists
    <3> QED
      BY <2>1, <3>1, <3>2, NearestOf
  <2> QED
    BY <2>1
<1>2. cursor' = [c \in Clients |-> at(c)]
  BY DEF Moved
<1> HIDE DEF at
<1> QED
  BY <1>1, <1>2

LEMMA EnterTyped ==
  ASSUME TypeInv, NEW c \in Clients, NEW at \in Points, Enter(c, at), UNCHANGED real,
         lastMonitor' \in {None} \cup Monitors
  PROVE  RouterTyped' /\ cmds' \in Seq(Commands)
<1>1. cursor' \in [Clients -> Points]
  <2>1. \A x \in Clients \cap DOMAIN Only(c, at) : Only(c, at)[x] \in Points
    BY DEF Only
  <2> HIDE DEF Only
  <2> QED
    BY <2>1, MovedTyped DEF TypeInv, RouterTyped, Enter
<1>2. cmds' \in Seq(Commands)
  BY DEF TypeInv, CaptureTyped, Enter, Command, Commands
<1> QED
  BY <1>1, <1>2 DEF RouterTyped, Enter, Machines

LEMMA BeyondOf ==
  ASSUME DeskTyped, NEW m, NEW p \in Points, Beyond(m, p) # <<>>
  PROVE  Beyond(m, p)[1].to \in Clients /\ Beyond(m, p)[1].at \in Points
<1> DEFINE probe(edge) == StepTo(p, edge, Jump)
           there(edge) == Beneath(ToDesk(Frame(Local), probe(edge)), Local)
           E == {edge \in ToSet(Edges) : AtEdge(m, p, edge, Jump) /\ ~ OnAny(probe(edge), rLocal) /\ there(edge) # <<>>}
           open == Among(Edges, E)
           n == there(open[1])[1]
<1>1. open \in Seq(ToSet(Edges) \cap E)
  <2>1. Edges \in Seq({"left", "right", "top", "bottom"})
    BY DEF Edges
  <2> HIDE DEF E
  <2> QED
    BY <2>1, AmongOf
<1>2. open # <<>> /\ Beyond(m, p) = <<[edge |-> open[1], to |-> n, at |-> ToLocal(Frame(n), ToDesk(Frame(Local), probe(open[1])))]>>
  BY DEF Beyond
<1>3. open[1] \in ToSet(Edges) /\ there(open[1]) # <<>>
  <2>1. open[1] \in E
    <3> HIDE DEF open, E
    <3> QED
      BY <1>1, <1>2
  <2> QED
    BY <2>1
<1>4. probe(open[1]) \in Points
  <2>1. PICK i \in 1..4 : open[1] = Edges[i]
    <3> HIDE DEF open
    <3> QED
      BY <1>3 DEF ToSet, Edges
  <2> HIDE DEF open
  <2> QED
    BY <2>1, JumpIs, StepOf
<1>5. n \in Machines \ {Local}
  <2> HIDE DEF open
  <2> QED
    BY <1>3, BeneathOf
<1> HIDE DEF n, open
<1>6. ToLocal(Frame(n), ToDesk(Frame(Local), probe(open[1]))) \in Points
  <2>1. Frame(n) \in Frames /\ Frame(Local) \in Frames
    BY <1>5, FrameTyped DEF Machines
  <2> HIDE DEF probe
  <2>2. ToDesk(Frame(Local), probe(open[1])) \in Points
    BY <1>4, <2>1, DeskOf
  <2> QED
    BY <2>1, <2>2, DeskOf
<1> HIDE DEF probe
<1> QED
  BY <1>2, <1>5, <1>6 DEF Machines

LEMMA OnPointerTyped ==
  ASSUME TypeInv, NEW p \in Points, OnPointer(p), UNCHANGED real
  PROVE  RouterTyped' /\ cmds' \in Seq(Commands)
<1>1. CASE StayPut
  BY <1>1 DEF TypeInv, RouterTyped, CaptureTyped, StayPut
<1>2. CASE ~ StayPut
  <2> DEFINE m == OnWhich(p, rLocal)
             hit == Beyond(m, p)
  <2>1. /\ OnAny(p, rLocal) /\ lastMonitor' = m
        /\ (hit # <<>> /\ Enter(hit[1].to, hit[1].at)) \/ UNCHANGED <<active, pos, cmds, cursor>>
    BY <1>2 DEF OnPointer
  <2>2. m \in Monitors
    <3>1. rLocal \in Seq(Monitors)
      BY ScreensOf DEF TypeInv, DeskTyped
    <3>2. PICK i \in 1..Len(rLocal) : OnWhich(p, rLocal) = rLocal[i]
      BY <2>1, <3>1, OnWhichOf
    <3> QED
      BY <3>1, <3>2
  <2> HIDE DEF m
  <2>3. CASE UNCHANGED <<active, pos, cmds, cursor>>
    BY <2>1, <2>2, <2>3 DEF TypeInv, RouterTyped, CaptureTyped
  <2>4. CASE hit # <<>> /\ Enter(hit[1].to, hit[1].at)
    <3>1. hit[1].to \in Clients /\ hit[1].at \in Points
      BY <2>4, BeyondOf DEF TypeInv
    <3> HIDE DEF hit
    <3> QED
      BY <2>1, <2>2, <2>4, <3>1, EnterTyped
  <2> QED
    BY <2>1, <2>3, <2>4
<1> QED
  BY <1>1, <1>2

LEMMA OnHotkeyTyped ==
  ASSUME TypeInv, OnHotkey, UNCHANGED real
  PROVE  RouterTyped' /\ cmds' \in Seq(Commands)
<1>1. CASE active # Local
  <2>1. GoLocal(LocalCenter) /\ UNCHANGED <<lastMonitor, cursor>>
    BY <1>1 DEF OnHotkey
  <2>2. cmds' \in Seq(Commands)
    BY <2>1, LocalCenterOf, GoHomeTyped DEF TypeInv, GoLocal
  <2> QED
    BY <2>1, <2>2 DEF TypeInv, RouterTyped, GoLocal, Machines
<1>2. CASE active = Local
  <2> DEFINE T == {n \in Clients : Mons(n) # <<>>}
             there == Among(Names, T)
             far == [i \in 1..Len(there) |-> Dist2(CenterOnDesk(there[i]), CenterOnDesk(Local))]
             near == there[FirstLeast(far)]
             to == SnapInto(near, CenterOf(UnionAll(Mons(near))))
  <2>1. there \in Seq(T)
    <3>1. Names \in Seq(Machines)
      BY PointerAssumption
    <3>2. there \in Seq(ToSet(Names) \cap T)
      BY <3>1, AmongOf
    <3> HIDE DEF there, T
    <3> QED
      BY <3>2
  <2>2. IF there = <<>> THEN StayPut ELSE Enter(near, to) /\ UNCHANGED lastMonitor
    BY <1>2 DEF OnHotkey
  <2>3. CASE there = <<>>
    BY <2>2, <2>3 DEF TypeInv, RouterTyped, CaptureTyped, StayPut
  <2>4. CASE there # <<>>
    <3>1. ASSUME NEW n \in Machines, Mons(n) # <<>>
          PROVE  Mons(n) \in MonitorLists /\ CenterOf(UnionAll(Mons(n))) \in Points /\ CenterOnDesk(n) \in Points
      <4>1. Mons(n) \in MonitorLists /\ Frame(n) \in Frames
        BY <3>1, FrameTyped DEF TypeInv, MonitorLists
      <4>2. CenterOf(UnionAll(Mons(n))) \in Points
        BY <4>1, UnionOf, CenterOfMonitor
      <4> QED
        BY <4>1, <4>2, DeskOf DEF CenterOnDesk
    <3>2. Local \in Machines /\ Mons(Local) # <<>>
      BY ScreensOf DEF TypeInv, DeskTyped, Mons, Machines
    <3>3. CenterOnDesk(Local) \in Points
      BY <3>1, <3>2
    <3>4. T \subseteq Machines
      BY DEF Machines
    <3>5. Len(there) \in Nat \ {0}
      BY <2>1, <2>4
    <3>6. far \in [1..Len(there) -> Nat]
      <4> SUFFICES ASSUME NEW i \in 1..Len(there)
                   PROVE  Dist2(CenterOnDesk(there[i]), CenterOnDesk(Local)) \in Nat
        OBVIOUS
      <4>1. there[i] \in T
        <5> HIDE DEF there, T
        <5> QED
          BY <2>1
      <4> HIDE DEF there
      <4>2. CenterOnDesk(there[i]) \in Points
        BY <3>1, <3>4, <4>1
      <4> QED
        BY <3>3, <4>2, DistOf
    <3>7. FirstLeast(far) \in 1..Len(there)
      <4> HIDE DEF far, there
      <4> QED
        BY <3>5, <3>6, FirstLeastOf
    <3>8. near \in T
      <4> HIDE DEF far, there, T
      <4> QED
        BY <2>1, <3>7
    <3> HIDE DEF near, there, far
    <3>9. to \in Points
      BY <3>1, <3>4, <3>8, NearestOf DEF SnapInto
    <3> HIDE DEF to
    <3> QED
      BY <2>2, <2>4, <3>8, <3>9, EnterTyped DEF TypeInv, RouterTyped
  <2> HIDE DEF there
  <2> QED
    BY <2>3, <2>4
<1> QED
  BY <1>1, <1>2

LEMMA CrossTyped ==
  ASSUME TypeInv, active # Local, Mons(active) # <<>>, NEW moved \in Points, NEW next \in Machines, NEW q \in Points,
         next = Local => OnAny(q, rLocal), Cross(moved, next, q), UNCHANGED <<real, lastMonitor>>
  PROVE  RouterTyped' /\ cmds' \in Seq(Commands)
<1> DEFINE edge == NearestPoint(moved, Mons(active))
<1>1. edge \in Points
  <2>1. Mons(active) \in MonitorLists
    BY FrameTyped DEF TypeInv, RouterTyped, MonitorLists
  <2> QED
    BY <2>1, NearestOf
<1>2. /\ next = Local => /\ GoLocal(ReturnAt(q, OnWhich(q, rLocal)))
                         /\ Moved(Only(active, edge))
      /\ next # Local => /\ active' = next /\ pos' = q /\ UNCHANGED cmds
                         /\ Moved(Over(Only(active, edge), Only(next, q)))
  BY DEF Cross
<1> HIDE DEF edge
<1>3. CASE next = Local
  <2>1. PICK i \in 1..Len(rLocal) : OnWhich(q, rLocal) = rLocal[i]
    BY <1>3, OnWhichOf, ScreensOf DEF TypeInv, DeskTyped
  <2>2. ReturnAt(q, OnWhich(q, rLocal)) \in Points /\ Inset(ReturnAt(q, OnWhich(q, rLocal)), rLocal)
    BY <2>1, InsetClampOf DEF TypeInv, DeskTyped, ReturnAt
  <2>3. cmds' \in Seq(Commands)
    BY <1>2, <1>3, <2>2, GoHomeTyped DEF TypeInv, GoLocal
  <2>4. cursor' \in [Clients -> Points]
    <3>1. \A x \in Clients \cap DOMAIN Only(active, edge) : Only(active, edge)[x] \in Points
      BY <1>1 DEF Only
    <3> HIDE DEF Only
    <3> QED
      BY <1>2, <1>3, <3>1, MovedTyped DEF TypeInv, RouterTyped
  <2> QED
    BY <1>2, <1>3, <2>3, <2>4 DEF TypeInv, RouterTyped, GoLocal, Machines
<1>4. CASE next # Local
  <2> DEFINE to == Over(Only(active, edge), Only(next, q))
  <2>1. \A x \in Clients \cap DOMAIN to : to[x] \in Points
    BY <1>1 DEF Over, Only
  <2> HIDE DEF to
  <2>2. cursor' \in [Clients -> Points]
    BY <1>2, <1>4, <2>1, MovedTyped DEF TypeInv, RouterTyped, to
  <2> QED
    BY <1>2, <1>4, <2>2 DEF TypeInv, RouterTyped, CaptureTyped
<1> QED
  BY <1>3, <1>4

LEMMA OnRemoteMotionTyped ==
  ASSUME TypeInv, NEW d \in Points, OnRemoteMotion(d), UNCHANGED real
  PROVE  RouterTyped' /\ cmds' \in Seq(Commands)
<1> DEFINE moved == Carried(d)
           v == ToDesk(Frame(active), moved)
           beneath == Beneath(v, active)
<1>1. CASE StayPut
  BY <1>1 DEF TypeInv, RouterTyped, CaptureTyped, StayPut
<1>2. CASE ~ StayPut
  <2>0. active # Local /\ Mons(active) # <<>> /\ UNCHANGED lastMonitor
    BY <1>2 DEF OnRemoteMotion
  <2>1. active \in Machines /\ Mons(active) \in MonitorLists /\ Frame(active) \in Frames
    BY <2>0, FrameTyped DEF TypeInv, RouterTyped, MonitorLists
  <2>2. moved \in Points
    BY <2>1, NearestOf, VectorOf DEF TypeInv, RouterTyped, Carried
  <2>3. v \in Points
    <3> HIDE DEF moved
    <3> QED
      BY <2>1, <2>2, DeskOf
  <2>4. IF ~ OnAny(moved, Mons(active)) /\ beneath # <<>>
          THEN Cross(moved, beneath[1], ToLocal(Frame(beneath[1]), v))
          ELSE /\ pos' = IF OnAny(moved, Mons(active)) THEN moved ELSE NearestPoint(moved, Mons(active))
               /\ Moved(Only(active, pos')) /\ UNCHANGED <<active, cmds>>
    BY <2>0 DEF OnRemoteMotion
  <2> HIDE DEF moved, v
  <2>5. CASE ~ OnAny(moved, Mons(active)) /\ beneath # <<>>
    <3> DEFINE next == beneath[1]
               q == ToLocal(Frame(next), v)
    <3>1. next \in Machines /\ OnAny(q, Mons(next))
      BY <2>5, BeneathOf
    <3> HIDE DEF next, beneath
    <3>2. q \in Points
      BY <2>3, <3>1, FrameTyped, DeskOf DEF TypeInv
    <3>3. next = Local => OnAny(q, rLocal)
      BY <3>1 DEF Mons
    <3>4. Cross(moved, next, q)
      BY <2>4, <2>5 DEF next
    <3> HIDE DEF q
    <3> QED
      BY <2>0, <2>2, <3>1, <3>2, <3>3, <3>4, CrossTyped
  <2>6. CASE ~ (~ OnAny(moved, Mons(active)) /\ beneath # <<>>)
    <3>1. pos' \in Points
      BY <2>1, <2>2, <2>4, <2>6, NearestOf
    <3>2. \A x \in Clients \cap DOMAIN Only(active, pos') : Only(active, pos')[x] \in Points
      BY <3>1 DEF Only
    <3> HIDE DEF Only
    <3>3. cursor' \in [Clients -> Points]
      BY <2>4, <2>6, <3>2, MovedTyped DEF TypeInv, RouterTyped
    <3> QED
      BY <2>0, <2>4, <2>6, <3>1, <3>3 DEF TypeInv, RouterTyped, CaptureTyped
  <2> QED
    BY <2>5, <2>6
<1> QED
  BY <1>1, <1>2

LEMMA CaptureEventTyped ==
  ASSUME TypeInv, CaptureEvent
  PROVE  TypeInv'
<1> DEFINE e == Head(events)
<1>1. events \in Seq(CaptureEvents) /\ events # <<>> /\ Len(events) <= MaxEvents
  BY DEF TypeInv, EventsTyped, CaptureEvent
<1>2. e \in CaptureEvents /\ events' = Tail(events)
  BY <1>1 DEF CaptureEvent
<1>3. EventsTyped'
  <2>1. events' \in Seq(CaptureEvents) /\ Len(events') = Len(events) - 1
    BY <1>1, <1>2
  <2>2. Len(events') <= MaxEvents
    BY <1>1, <2>1, PointerAssumption
  <2> QED
    BY <2>1, <2>2 DEF EventsTyped
<1>4. /\ \/ e.ev = "pointer" /\ OnPointer(e.p)
         \/ e.ev = "hotkey" /\ OnHotkey
         \/ e.ev = "motion" /\ OnRemoteMotion(e.d)
         \/ e.ev = "failed" /\ OnGrabFailed
         \/ e.ev = "failed" /\ StayPut
      /\ UNCHANGED <<budget, xserver, grab, bounds, last, expecting, lastLocal, hub, editor, desk, history>>
  BY DEF CaptureEvent
<1> HIDE DEF e
<1>5. UNCHANGED real
  BY <1>4 DEF hub
<1>6. RouterTyped' /\ cmds' \in Seq(Commands)
  <2>1. CASE e.ev = "pointer" /\ OnPointer(e.p)
    <3>1. e.p \in Points
      BY <1>2, <2>1 DEF CaptureEvents, Hot, Failed
    <3> QED
      BY <1>5, <2>1, <3>1, OnPointerTyped
  <2>2. CASE e.ev = "hotkey" /\ OnHotkey
    BY <1>5, <2>2, OnHotkeyTyped
  <2>3. CASE e.ev = "motion" /\ OnRemoteMotion(e.d)
    <3>1. e.d \in Points
      BY <1>2, <2>3 DEF CaptureEvents, Hot, Failed
    <3> QED
      BY <1>5, <2>3, <3>1, OnRemoteMotionTyped
  <2>4. CASE OnGrabFailed
    BY <2>4 DEF TypeInv, RouterTyped, CaptureTyped, OnGrabFailed, Machines
  <2>5. CASE StayPut
    BY <2>5 DEF TypeInv, RouterTyped, CaptureTyped, StayPut
  <2> QED
    BY <1>4, <2>1, <2>2, <2>3, <2>4, <2>5
<1>7. CaptureTyped'
  BY <1>4, <1>6 DEF TypeInv, CaptureTyped
<1> QED
  BY <1>3, <1>4, <1>6, <1>7, KeepX, KeepHub, KeepEditor, KeepDesk, KeepHistory DEF TypeInv

LEMMA InitTyped == Init => TypeInv
<1> SUFFICES ASSUME Init PROVE TypeInv
  OBVIOUS
<1>1. Screens[1] \in ToSet(Screens) /\ Screens[1] \in MonitorLists /\ Screens[1] \in Seq(Monitors)
  BY FirstScreen, ScreensOf
<1>2. UnionAll(Screens[1]) \in Monitors /\ CenterOf(UnionAll(Screens[1])) \in Points
  BY <1>1, UnionOf, CenterOfMonitor
<1>3. PICK cfg \in Configs : eScreens = cfg.listed /\ ePositions = cfg.positions /\ eSizes = cfg.sizes
  BY DEF Init
<1>4. /\ cfg.listed \in Seq(Machines) /\ Local \in ToSet(cfg.listed)
      /\ DOMAIN cfg.positions \subseteq ToSet(cfg.listed)
      /\ cfg.positions \in [DOMAIN cfg.positions -> Points]
      /\ cfg.sizes \in [Machines -> Sizes \cup {NoSize}]
  BY PointerAssumption
<1>5. HubTyped
  <2>1. ASSUME NEW c \in Clients PROVE real[c] \in Seq(Monitors)
    <3>1. real[c] \in {<<>>} \cup {Sanitize(r) : r \in Reports[c]}
      BY DEF Init
    <3>2. \A r \in Reports[c] : Sanitize(r) \in Seq(Monitors)
      <4> SUFFICES ASSUME NEW r \in Reports[c] PROVE Sanitize(r) \in Seq(Monitors)
        OBVIOUS
      <4>1. r \in Seq(Rects)
        BY PointerAssumption
      <4> QED
        BY <4>1, SaneOf DEF MonitorLists
    <3>3. <<>> \in Seq(Monitors)
      OBVIOUS
    <3> QED
      BY <3>1, <3>2, <3>3
  <2>2. real \in [Clients -> Seq(Monitors)]
    <3>1. real = [c \in Clients |-> real[c]]
      BY DEF Init
    <3> QED
      BY <2>1, <3>1
  <2> QED
    BY <1>1, <2>2 DEF Init, HubTyped, MonitorTables
<1>6. EditorTyped
  <2>1. ePositions \in Positions
    <3>1. DOMAIN ePositions \in SUBSET Machines
      BY <1>3, <1>4 DEF ToSet
    <3> QED
      BY <1>3, <1>4, <3>1 DEF Positions
  <2>2. known \in MonitorTables
    BY DEF Init, MonitorTables
  <2> QED
    BY <1>3, <1>4, <2>1, <2>2 DEF EditorTyped, SizeTables
<1>7. DeskTyped
  <2>1. rScreens = eScreens /\ rMons = real /\ rLocal = Screens[1] /\ rPositions = ePositions /\ rSizes = eSizes
        /\ origins = Placed(eScreens, MonsOf(Screens[1], real), ePositions, eSizes)
    BY DEF Init
  <2>2. origins \in [ToSet(eScreens) -> Points]
    BY <1>1, <1>5, <1>6, <2>1, PlacedOf DEF HubTyped, EditorTyped
  <2> QED
    BY <1>1, <1>5, <1>6, <2>1, <2>2 DEF DeskTyped, HubTyped, EditorTyped
<1>8. XTyped
  <2>1. ptr = NearestPoint(CenterOf(UnionAll(Screens[1])), Screens[1]) /\ screen = Screens[1] /\ xq = <<>>
    BY DEF Init
  <2>2. ptr \in Points /\ OnAny(ptr, Screens[1])
    BY <1>1, <1>2, <2>1, NearestOf
  <2> QED
    BY <1>1, <2>1, <2>2 DEF XTyped
<1>9. CaptureTyped
  <2>1. /\ grab = "no" /\ bounds = UnionAll(Screens[1]) /\ last = CenterOf(bounds) /\ expecting = FALSE
        /\ lastLocal = None /\ cmds = <<>>
    BY DEF Init
  <2>2. <<>> \in Seq(Commands)
    OBVIOUS
  <2> QED
    BY <1>2, <2>1, <2>2 DEF CaptureTyped
<1>10. EventsTyped /\ RouterTyped /\ HistoryTyped
  <2>1. events = <<>> /\ active = Local /\ pos = Origin /\ lastMonitor = None /\ cursor = [c \in Clients |-> Origin]
    BY DEF Init
  <2>2. owed = Origin /\ slipped = FALSE /\ landed = None /\ valid = FALSE
    BY DEF Init
  <2>3. EventsTyped
    <3>1. <<>> \in Seq(CaptureEvents) /\ Len(<<>>) = 0 /\ MaxEvents \in Nat
      BY PointerAssumption
    <3> QED
      BY <2>1, <3>1 DEF EventsTyped
  <2> QED
    BY <2>1, <2>2, <2>3, OriginIs DEF RouterTyped, HistoryTyped, Machines
<1> QED
  BY <1>5, <1>6, <1>7, <1>8, <1>9, <1>10 DEF TypeInv

LEMMA StutterTyped == ASSUME TypeInv, UNCHANGED vars PROVE TypeInv'
BY KeepX, KeepCapture, KeepEvents, KeepHub, KeepEditor, KeepDesk, KeepRouter, KeepHistory DEF TypeInv, vars

LEMMA NextTyped == TypeInv /\ [Next]_vars => TypeInv'
<1> SUFFICES ASSUME TypeInv, [Next]_vars PROVE TypeInv'
  OBVIOUS
<1>1. CASE \E d \in Vectors : HandMoves(d)
  BY <1>1, HandMovesTyped
<1>2. CASE HandPressesHotkey \/ GrabPointer \/ GrabRest \/ Ungrab \/ XEvent \/ Sample
  BY <1>2, HotkeyTyped, GrabPointerTyped, GrabRestTyped, UngrabTyped, XEventTyped, SampleTyped
<1>3. CASE \E c \in Clients : Reported(c) \/ Unregister(c) \/ AddScreen(c)
  BY <1>3, ReportedTyped, UnregisterTyped, AddScreenTyped
<1>4. CASE ScreenChanges \/ WatchLocal \/ Look
  BY <1>4, ScreenChangesTyped, WatchLocalTyped, LookTyped
<1>5. CASE \E edit \in Edits : ApplyLayout(edit)
  BY <1>5, ApplyLayoutTyped
<1>6. CASE HubEvent \/ CaptureEvent
  BY <1>6, HubEventTyped, CaptureEventTyped
<1>7. CASE UNCHANGED vars
  BY <1>7, StutterTyped
<1> QED
  BY <1>1, <1>2, <1>3, <1>4, <1>5, <1>6, <1>7 DEF Next

LEMMA AlwaysTyped == Spec => []TypeInv
BY InitTyped, NextTyped, PTL DEF Spec

(* Every position stays a point, the pointer is on one of this machine's screens whatever the *)
(* screens become (x11.rs), the origins are those of the listed machines (refresh_origins),  *)
(* and the commands that end a grab put the pointer well inside a monitor (TypeInv). *)
THEOREM PointerTypes == Spec => []TypeOK
<1>1. TypeInv => TypeOK
  <2> SUFFICES ASSUME TypeInv PROVE TypeOK
    OBVIOUS
  <2>1. lastMonitor = None \/ OnAny(CenterOf(lastMonitor), <<lastMonitor>>)
    <3>1. CASE lastMonitor \in Monitors
      BY <3>1, CenterOfMonitor DEF OnAny
    <3> QED
      BY <3>1 DEF TypeInv, RouterTyped
  <2>2. {ptr, last, pos, owed} \subseteq Points /\ OnAny(ptr, screen) /\ active \in Machines
    BY DEF TypeInv, XTyped, CaptureTyped, RouterTyped, HistoryTyped
  <2>3. grab \in {"no", "half", "yes"} /\ {expecting, slipped, valid} \subseteq BOOLEAN
    BY DEF TypeInv, CaptureTyped, HistoryTyped
  <2>4. DOMAIN origins = ToSet(rScreens) /\ (lastLocal = None \/ lastLocal \in Points) /\ Len(events) <= MaxEvents
    BY DEF TypeInv, CaptureTyped, DeskTyped, EventsTyped
  <2> QED
    BY <2>1, <2>2, <2>3, <2>4 DEF TypeOK
<1> QED
  BY <1>1, AlwaysTyped, PTL

-----------------------------------------------------------------------------
(* The action properties. *)

LEMMA EmitGrows ==
  ASSUME EventsTyped, NEW e \in CaptureEvents, UNCHANGED events \/ Emit(e)
  PROVE  Len(events') >= Len(events)
BY DEF EventsTyped, Emit

LEMMA ReportGrows ==
  ASSUME EventsTyped, NEW d \in Points, Report(d)
  PROVE  Len(events') >= Len(events)
<1>1. Motion(d) \in CaptureEvents
  BY DEF Motion, CaptureEvents
<1> QED
  BY <1>1, EmitGrows DEF Report

(* Only the router takes what the capture thread told it. *)
LEMMA OnlyRouterTakes ==
  ASSUME TypeInv, Next, events # <<>>, events' = Tail(events)
  PROVE  CaptureEvent
<1>1. events \in Seq(CaptureEvents) /\ Len(events') < Len(events)
  BY DEF TypeInv, EventsTyped
<1>2. UNCHANGED events => CaptureEvent
  BY <1>1
<1>3. Failed \in CaptureEvents /\ Hot \in CaptureEvents
  BY DEF CaptureEvents
<1>4. CASE \E d \in Vectors : HandMoves(d)
  BY <1>2, <1>4 DEF HandMoves
<1>5. CASE HandPressesHotkey
  BY <1>2, <1>5 DEF HandPressesHotkey
<1>6. CASE GrabPointer
  BY <1>1, <1>3, <1>6, EmitGrows DEF TypeInv, GrabPointer
<1>7. CASE GrabRest
  BY <1>1, <1>3, <1>7, EmitGrows DEF TypeInv, GrabRest
<1>8. CASE Ungrab
  BY <1>2, <1>8 DEF Ungrab
<1>9. CASE XEvent
  <2>1. CASE \E p \in Points : OnMotion(p)
    <3>1. PICK p \in Points : OnMotion(p)
      BY <2>1
    <3>2. Measured(p) \in Points
      BY CenterIs, VectorOf DEF TypeInv, CaptureTyped, Measured
    <3>3. Report(Measured(p)) \/ UNCHANGED events
      BY <3>1 DEF OnMotion
    <3> QED
      BY <1>1, <1>2, <3>2, <3>3, ReportGrows DEF TypeInv
  <2>2. CASE UNCHANGED events \/ Emit(Hot)
    BY <1>1, <1>3, <2>2, EmitGrows DEF TypeInv
  <2>3. Head(xq) \in XEvents
    BY <1>9 DEF TypeInv, XTyped, XEvent
  <2>4. Head(xq).ev = "at" => Head(xq).p \in Points
    BY <2>3 DEF XEvents, Hot
  <2> QED
    BY <1>9, <2>1, <2>2, <2>4 DEF XEvent
<1>10. CASE Sample
  <2>1. Pointer(ptr, landed) \in CaptureEvents
    BY DEF TypeInv, XTyped, HistoryTyped, Pointer, CaptureEvents
  <2> QED
    BY <1>1, <1>10, <2>1, EmitGrows DEF TypeInv, Sample
<1>11. CASE \E c \in Clients : Reported(c) \/ Unregister(c) \/ AddScreen(c)
  BY <1>2, <1>11 DEF Reported, Unregister, AddScreen
<1>12. CASE ScreenChanges \/ WatchLocal \/ Look \/ \E edit \in Edits : ApplyLayout(edit)
  BY <1>2, <1>12 DEF ScreenChanges, WatchLocal, Look, ApplyLayout
<1>13. CASE HubEvent
  BY <1>2, <1>13 DEF HubEvent
<1> QED
  BY <1>4, <1>5, <1>6, <1>7, <1>8, <1>9, <1>10, <1>11, <1>12, <1>13 DEF Next

LEMMA MovedTo ==
  ASSUME NEW c \in Clients, real[c] # <<>>, NEW to, c \in DOMAIN to, Moved(to)
  PROVE  cursor'[c] = NearestPoint(to[c], real[c])
BY DEF Moved

CarriedStep ==
  LET c == active IN
    (/\ events # <<>> /\ Head(events).ev = "motion" /\ events' = Tail(events)
     /\ c # Local /\ active' = c /\ real[c] # <<>> /\ rMons[c] = real[c]
     /\ cursor[c] = NearestPoint(pos, real[c]))
      => cursor'[c] = NearestPoint(Plus(cursor[c], Head(events).d), real[c])

LEMMA HandCarriesStep == TypeInv /\ [Next]_vars => CarriedStep
<1> SUFFICES ASSUME TypeInv, [Next]_vars,
                    events # <<>>, Head(events).ev = "motion", events' = Tail(events),
                    active # Local, active' = active, real[active] # <<>>, rMons[active] = real[active],
                    cursor[active] = NearestPoint(pos, real[active])
             PROVE  cursor'[active] = NearestPoint(Plus(cursor[active], Head(events).d), real[active])
  BY DEF CarriedStep
<1> DEFINE d == Head(events).d
           moved == Carried(d)
           v == ToDesk(Frame(active), moved)
           beneath == Beneath(v, active)
<1>1. events \in Seq(CaptureEvents) /\ Len(events') < Len(events)
  BY DEF TypeInv, EventsTyped
<1>2. Next
  BY <1>1 DEF vars
<1>3. CaptureEvent
  BY <1>2, OnlyRouterTakes
<1>4. OnRemoteMotion(d)
  BY <1>3 DEF CaptureEvent
<1>5. Head(events) \in CaptureEvents
  BY <1>1
<1>6. d \in Points
  BY <1>5 DEF CaptureEvents, Hot, Failed
<1>7. active \in Clients /\ Mons(active) = real[active] /\ real[active] \in MonitorLists
  BY FrameTyped DEF TypeInv, RouterTyped, Machines, Mons, MonitorLists
<1>8. moved = Plus(cursor[active], d) /\ moved \in Points
  BY <1>6, <1>7, NearestOf, VectorOf DEF TypeInv, RouterTyped, Carried
<1>9. IF ~ OnAny(moved, Mons(active)) /\ beneath # <<>>
        THEN Cross(moved, beneath[1], ToLocal(Frame(beneath[1]), v))
        ELSE /\ pos' = IF OnAny(moved, Mons(active)) THEN moved ELSE NearestPoint(moved, Mons(active))
             /\ Moved(Only(active, pos'))
  BY <1>4, <1>7 DEF OnRemoteMotion
<1> HIDE DEF d, moved, v
<1>10. ~ (~ OnAny(moved, Mons(active)) /\ beneath # <<>>)
  <2> SUFFICES ASSUME beneath # <<>>, Cross(moved, beneath[1], ToLocal(Frame(beneath[1]), v)) PROVE FALSE
    BY <1>9
  <2>1. beneath[1] # active
    BY BeneathOf
  <2>2. active' = Local \/ active' = beneath[1]
    BY DEF Cross, GoLocal
  <2> QED
    BY <2>1, <2>2
<1>11. pos' = NearestPoint(moved, real[active]) \/ pos' = moved
  BY <1>7, <1>9, <1>10
<1>12. NearestPoint(pos', real[active]) = NearestPoint(moved, real[active])
  BY <1>7, <1>8, <1>11, NearestOf
<1>13. cursor'[active] = NearestPoint(Only(active, pos')[active], real[active])
  <2>1. active \in DOMAIN Only(active, pos') /\ Moved(Only(active, pos'))
    BY <1>9, <1>10 DEF Only
  <2> HIDE DEF Only
  <2> QED
    BY <1>7, <2>1, MovedTo
<1>14. Only(active, pos')[active] = pos'
  BY DEF Only
<1> QED
  BY <1>8, <1>12, <1>13, <1>14 DEF d

(* HandCarries: a delta moves a client's cursor by itself, from where the router left it or   *)
(* its new monitors put it, as far as its monitors go (Core::on_motion). *)
THEOREM HandCarriesAlways == Spec => HandCarries
<1>1. TypeInv /\ [Next]_vars => [CarriedStep]_vars
  BY HandCarriesStep
<1>2. HandCarries <=> [][CarriedStep]_vars
  BY DEF HandCarries, CarriedStep
<1> QED
  BY <1>1, <1>2, AlwaysTyped, PTL DEF Spec

LEMMA NearBy ==
  ASSUME NEW p \in Points, NEW q \in Points, ~ Apart(p, q)
  PROVE  p.x - q.x \in -1..1 /\ p.y - q.y \in -1..1
<1> DEFINE a == p.x - q.x
           b == p.y - q.y
<1>1. a \in Int /\ b \in Int
  BY DEF Points
<1>2. a * a + b * b < 4
  <2>1. Dist2(p, q) < 4
    BY DistOf DEF Apart
  <2> QED
    BY <2>1 DEF Dist2
<1> HIDE DEF a, b
<1>3. a * a >= 0 /\ b * b >= 0 /\ a * a \in Int /\ b * b \in Int
  BY <1>1, Square
<1>4. a * a < 4 /\ b * b < 4
  BY <1>2, <1>3
<1>5. ASSUME NEW k \in Int, k >= 2 PROVE k * k >= 4
  BY <1>5
<1>6. ASSUME NEW k \in Int, k <= -2 PROVE k * k >= 4
  BY <1>6
<1>7. a \in -1..1 /\ b \in -1..1
  BY <1>1, <1>3, <1>4, <1>5, <1>6
<1> QED
  BY <1>7 DEF a, b

LEMMA BetweenOf ==
  ASSUME NEW lo \in Int, NEW hi \in Int, NEW j \in Int, NEW q \in Int, NEW p \in Int, NEW t \in Int,
         lo + j + 1 <= q, q <= hi - j - 2, p - q \in -1..1, t >= p - j, t <= p + j
  PROVE  t >= lo /\ t <= hi - 1
OBVIOUS

LEMMA CornersOf ==
  ASSUME NEW r \in Monitors
  PROVE  r.x \in Int /\ r.y \in Int /\ RightOf(r) \in Int /\ BottomOf(r) \in Int
BY DEF Monitors, Rects, RightOf, BottomOf

LEMMA StepNear ==
  ASSUME NEW p \in Points, NEW i \in 1..4, NEW n \in Nat
  PROVE  LET t == StepTo(p, Edges[i], n)
         IN /\ t.x \in Int /\ t.x >= p.x - n /\ t.x <= p.x + n
            /\ t.y \in Int /\ t.y >= p.y - n /\ t.y <= p.y + n
<1>1. Edges[i] \in {"left", "right", "top", "bottom"}
  BY DEF Edges
<1>2. p.x \in Int /\ p.y \in Int
  BY DEF Points
<1> QED
  BY <1>1, <1>2 DEF StepTo, Pt

LEMMA HoldsStep ==
  ASSUME NEW r \in Monitors, NEW q \in Points, NEW p \in Points, ~ Apart(p, q), NEW i \in 1..4,
         r.x + Jump + 1 <= q.x, q.x <= RightOf(r) - Jump - 2,
         r.y + Jump + 1 <= q.y, q.y <= BottomOf(r) - Jump - 2
  PROVE  Holds(r, StepTo(p, Edges[i], Jump))
<1> DEFINE t == StepTo(p, Edges[i], Jump)
<1>1. r.x \in Int /\ r.y \in Int /\ RightOf(r) \in Int /\ BottomOf(r) \in Int
  BY CornersOf
<1>2. p.x \in Int /\ p.y \in Int /\ q.x \in Int /\ q.y \in Int /\ Jump \in Int
  BY JumpIs DEF Points
<1>3. p.x - q.x \in -1..1 /\ p.y - q.y \in -1..1
  BY NearBy
<1>4. /\ t.x \in Int /\ t.x >= p.x - Jump /\ t.x <= p.x + Jump
      /\ t.y \in Int /\ t.y >= p.y - Jump /\ t.y <= p.y + Jump
  BY JumpIs, StepNear
<1> HIDE DEF t
<1>5. t.x >= r.x /\ t.x <= RightOf(r) - 1
  BY <1>1, <1>2, <1>3, <1>4, BetweenOf
<1>6. t.y >= r.y /\ t.y <= BottomOf(r) - 1
  BY <1>1, <1>2, <1>3, <1>4, BetweenOf
<1> QED
  BY <1>1, <1>4, <1>5, <1>6 DEF Holds, t

(* From well inside a monitor, one pixel and a jump zone do not lead off it. *)
LEMMA StaysOn ==
  ASSUME NEW mons \in Seq(Monitors), NEW q \in Points, Inset(q, mons), NEW p \in Points, ~ Apart(p, q),
         NEW edge \in ToSet(Edges)
  PROVE  OnAny(StepTo(p, edge, Jump), mons)
<1>1. PICK i \in 1..Len(mons) :
        /\ mons[i].x + Jump + 1 <= q.x /\ q.x <= RightOf(mons[i]) - Jump - 2
        /\ mons[i].y + Jump + 1 <= q.y /\ q.y <= BottomOf(mons[i]) - Jump - 2
  BY DEF Inset
<1>2. PICK k \in 1..4 : edge = Edges[k]
  BY DEF ToSet, Edges
<1>3. mons[i] \in Monitors
  OBVIOUS
<1>4. Holds(mons[i], StepTo(p, Edges[k], Jump))
  BY <1>1, <1>3, HoldsStep
<1> QED
  BY <1>2, <1>4 DEF OnAny

HomeStep ==
  active = Local /\ active' # Local /\ events # <<>> /\ Head(events).ev = "pointer"
  /\ Head(events).from # None /\ Head(events).from.on = rLocal
    => Apart(Head(events).p, Head(events).from.p)

(* The input leaves this machine only over an edge or by the hotkey. *)
LEMMA OnlyRouterLeaves ==
  ASSUME Next, active = Local, active' # Local
  PROVE  CaptureEvent
<1>1. UNCHANGED active => CaptureEvent
  OBVIOUS
<1>2. CASE \E d \in Vectors : HandMoves(d)
  BY <1>1, <1>2 DEF HandMoves, router
<1>3. CASE HandPressesHotkey \/ GrabPointer \/ GrabRest \/ Ungrab
  BY <1>1, <1>3 DEF HandPressesHotkey, GrabPointer, GrabRest, Ungrab, router
<1>4. CASE XEvent \/ Sample \/ WatchLocal \/ Look \/ ScreenChanges
  BY <1>1, <1>4 DEF XEvent, Sample, WatchLocal, Look, ScreenChanges, router
<1>5. CASE \E c \in Clients : Reported(c) \/ Unregister(c) \/ AddScreen(c)
  BY <1>1, <1>5 DEF Reported, Unregister, AddScreen, router
<1>6. CASE \E edit \in Edits : ApplyLayout(edit)
  BY <1>1, <1>6 DEF ApplyLayout, router
<1>7. CASE HubEvent
  <2>1. active' = active \/ active' = Local
    BY <1>7 DEF HubEvent, Applied, ClientGone, LocalMonitors, StayPut
  <2> QED
    BY <1>1, <2>1
<1> QED
  BY <1>2, <1>3, <1>4, <1>5, <1>6, <1>7 DEF Next

LEMMA BeyondLeaves ==
  ASSUME NEW m, NEW p, Beyond(m, p) # <<>>
  PROVE  \E edge \in ToSet(Edges) : ~ OnAny(StepTo(p, edge, Jump), rLocal)
<1> DEFINE probe(edge) == StepTo(p, edge, Jump)
           there(edge) == Beneath(ToDesk(Frame(Local), probe(edge)), Local)
           E == {edge \in ToSet(Edges) : AtEdge(m, p, edge, Jump) /\ ~ OnAny(probe(edge), rLocal) /\ there(edge) # <<>>}
           open == Among(Edges, E)
<1>1. open \in Seq(ToSet(Edges) \cap E)
  <2>1. Edges \in Seq({"left", "right", "top", "bottom"})
    BY DEF Edges
  <2> HIDE DEF E
  <2> QED
    BY <2>1, AmongOf
<1>2. open # <<>>
  BY DEF Beyond
<1>3. open[1] \in E
  <2> HIDE DEF open, E
  <2> QED
    BY <1>1, <1>2
<1> QED
  BY <1>3

LEMMA StaysHomeStep == TypeInv /\ [Next]_vars => HomeStep
<1> SUFFICES ASSUME TypeInv, [Next]_vars, active = Local, active' # Local, events # <<>>,
                    Head(events).ev = "pointer", Head(events).from # None, Head(events).from.on = rLocal,
                    ~ Apart(Head(events).p, Head(events).from.p)
             PROVE  FALSE
  BY DEF HomeStep
<1> DEFINE e == Head(events)
<1>1. CaptureEvent
  BY OnlyRouterLeaves DEF vars, router
<1>2. e \in CaptureEvents
  BY DEF TypeInv, EventsTyped
<1>3. e.p \in Points /\ e.from \in Landings
  BY <1>2 DEF CaptureEvents, Hot, Failed
<1>4. OnPointer(e.p)
  BY <1>1 DEF CaptureEvent
<1>5. Beyond(OnWhich(e.p, rLocal), e.p) # <<>>
  BY <1>4 DEF OnPointer, StayPut
<1>6. e.from.p \in Points /\ Inset(e.from.p, rLocal)
  BY <1>3 DEF Landings
<1>7. ~ Apart(e.p, e.from.p)
  OBVIOUS
<1> HIDE DEF e
<1>8. rLocal \in Seq(Monitors)
  BY ScreensOf DEF TypeInv, DeskTyped
<1>9. PICK edge \in ToSet(Edges) : ~ OnAny(StepTo(e.p, edge, Jump), rLocal)
  BY <1>5, BeyondLeaves
<1> QED
  BY <1>3, <1>6, <1>7, <1>8, <1>9, StaysOn

(* StaysHome: after a return over an edge the cursor is inset by more than the jump zone, so  *)
(* that a pixel of trembling does not cross again (Core::on_motion, inset_clamp). *)
THEOREM StaysHomeAlways == Spec => StaysHome
<1>1. TypeInv /\ [Next]_vars => [HomeStep]_vars
  BY StaysHomeStep
<1>2. StaysHome <=> [][HomeStep]_vars
  BY DEF StaysHome, HomeStep
<1> QED
  BY <1>1, <1>2, AlwaysTyped, PTL DEF Spec

-----------------------------------------------------------------------------
(* The motion that is queued. *)

(* The newest position queued, base if none is. *)
Newest(s, base) ==
  IF \E i \in 1..Len(s) : s[i].ev = "at"
    THEN s[CHOOSE i \in 1..Len(s) : s[i].ev = "at" /\ \A j \in (i + 1)..Len(s) : s[j].ev # "at"].p
    ELSE base

Away(s, c) == \A i \in 1..Len(s) : s[i] # At(c)

(* Of the movement under the grab, what is queued was not reported yet.  While the warp's own event  *)
(* is expected, what is queued before it (old) counts from the last position, what is queued after   *)
(* it (new) from the centre. *)
Awaited(x, l, at, o, c, old, new) ==
  /\ x = old \o <<At(c)>> \o new
  /\ Away(old, c) /\ Away(new, c) /\ Newest(new, c) = at
  /\ o = Plus(Minus(Newest(old, l), l), Minus(at, c))
Counted ==
  /\ grab = "half" => Away(xq, Center) /\ Newest(xq, ptr) = ptr
  /\ grab = "yes" /\ ~ expecting =>
       Away(xq, Center) /\ Newest(xq, Center) = ptr /\ owed = Minus(ptr, Center)
  /\ grab = "yes" /\ expecting => \E old, new \in Seq(XEvents) : Awaited(xq, last, ptr, owed, Center, old, new)
MoveInv == KnowsScreen /\ ~ slipped => Counted

LEMMA AtEvent == ASSUME NEW p PROVE At(p).ev = "at" /\ At(p).p = p
BY DEF At

LEMMA EventIs ==
  ASSUME NEW e \in XEvents
  PROVE  (e.ev = "at" /\ e.p \in Points /\ e = At(e.p)) \/ (e = Hot /\ e.ev = "hotkey")
BY DEF XEvents, At, Hot

LEMMA NewestIs ==
  ASSUME NEW s, NEW base, Len(s) \in Nat, NEW i \in 1..Len(s), s[i].ev = "at",
         \A j \in (i + 1)..Len(s) : s[j].ev # "at"
  PROVE  Newest(s, base) = s[i].p
<1> DEFINE IsIt(k) == s[k].ev = "at" /\ \A j \in (k + 1)..Len(s) : s[j].ev # "at"
           c == CHOOSE k \in 1..Len(s) : IsIt(k)
<1>1. c \in 1..Len(s) /\ IsIt(c)
  BY DEF IsIt
<1>2. c = i
  BY <1>1
<1>3. Newest(s, base) = s[c].p
  BY DEF Newest
<1> QED
  BY <1>2, <1>3

LEMMA NewestNone ==
  ASSUME NEW s, NEW base, \A i \in 1..Len(s) : s[i].ev # "at"
  PROVE  Newest(s, base) = base
BY DEF Newest

LEMMA NewestOf ==
  ASSUME NEW s \in Seq(XEvents), NEW i \in 1..Len(s), s[i].ev = "at"
  PROVE  \E k \in i..Len(s) : s[k].ev = "at" /\ \A j \in (k + 1)..Len(s) : s[j].ev # "at"
<1> DEFINE n == Len(s)
           T == {m \in 0..(n - i) : s[n - m].ev = "at"}
<1>1. n \in Nat /\ i \in 1..n
  OBVIOUS
<1>2. T \in SUBSET Nat /\ n - i \in T
  BY <1>1
<1>3. PICK m \in T : \A k \in T : m <= k
  <2> HIDE DEF T
  <2> QED
    BY <1>2, LeastOf
<1>4. m \in Nat /\ m <= n - i /\ s[n - m].ev = "at"
  BY <1>1, <1>3
<1>5. \A j \in (n - m + 1)..n : s[j].ev # "at"
  <2> SUFFICES ASSUME NEW j \in (n - m + 1)..n, s[j].ev = "at" PROVE FALSE
    OBVIOUS
  <2>1. n - j \in Nat /\ n - j < m /\ n - (n - j) = j /\ n - j <= n - i
    BY <1>1, <1>4
  <2>2. n - j \in T
    BY <2>1
  <2> HIDE DEF T
  <2> QED
    BY <1>3, <1>4, <2>1, <2>2
<1> QED
  BY <1>1, <1>4, <1>5

LEMMA NewestPoint ==
  ASSUME NEW s \in Seq(XEvents), NEW base \in Points
  PROVE  Newest(s, base) \in Points
<1>1. CASE \E i \in 1..Len(s) : s[i].ev = "at"
  <2>1. PICK i \in 1..Len(s) : s[i].ev = "at"
    BY <1>1
  <2>2. PICK k \in i..Len(s) : s[k].ev = "at" /\ \A j \in (k + 1)..Len(s) : s[j].ev # "at"
    BY <2>1, NewestOf
  <2>3. k \in 1..Len(s) /\ s[k] \in XEvents
    OBVIOUS
  <2>4. Newest(s, base) = s[k].p
    BY <2>2, <2>3, NewestIs
  <2> QED
    BY <2>2, <2>3, <2>4, EventIs DEF Hot
<1>2. CASE ~ \E i \in 1..Len(s) : s[i].ev = "at"
  BY <1>2, NewestNone
<1> QED
  BY <1>1, <1>2

LEMMA NewestEmpty == ASSUME NEW base PROVE Newest(<<>>, base) = base
BY NewestNone

LEMMA NewestAt ==
  ASSUME NEW s \in Seq(XEvents), NEW p \in Points, NEW base
  PROVE  Newest(Append(s, At(p)), base) = p
<1> DEFINE t == Append(s, At(p))
<1>1. Len(t) \in Nat /\ Len(t) \in 1..Len(t) /\ t[Len(t)] = At(p)
  BY AtIs
<1> HIDE DEF t
<1>2. t[Len(t)].ev = "at" /\ t[Len(t)].p = p
  BY <1>1, AtEvent
<1>3. \A j \in (Len(t) + 1)..Len(t) : t[j].ev # "at"
  BY <1>1
<1>4. Newest(t, base) = t[Len(t)].p
  BY <1>1, <1>2, <1>3, NewestIs
<1> QED
  BY <1>2, <1>4 DEF t

LEMMA NewestHot ==
  ASSUME NEW s \in Seq(XEvents), NEW base
  PROVE  Newest(Append(s, Hot), base) = Newest(s, base)
<1> DEFINE t == Append(s, Hot)
<1>1. /\ Len(t) = Len(s) + 1 /\ Len(s) \in Nat
      /\ \A i \in 1..Len(s) : t[i] = s[i]
      /\ t[Len(s) + 1].ev = "hotkey"
  BY DEF Hot
<1> HIDE DEF t
<1>2. CASE \E i \in 1..Len(s) : s[i].ev = "at"
  <2>1. PICK i \in 1..Len(s) : s[i].ev = "at"
    BY <1>2
  <2>2. PICK k \in i..Len(s) : s[k].ev = "at" /\ \A j \in (k + 1)..Len(s) : s[j].ev # "at"
    BY <2>1, NewestOf
  <2>3. k \in 1..Len(s) /\ k \in 1..Len(t)
    BY <1>1
  <2>4. t[k] = s[k] /\ \A j \in (k + 1)..Len(t) : t[j].ev # "at"
    BY <1>1, <2>2, <2>3
  <2>5. Newest(s, base) = s[k].p
    BY <1>1, <2>2, <2>3, NewestIs
  <2>6. Newest(t, base) = t[k].p
    BY <1>1, <2>2, <2>3, <2>4, NewestIs
  <2> QED
    BY <2>4, <2>5, <2>6 DEF t
<1>3. CASE ~ \E i \in 1..Len(s) : s[i].ev = "at"
  <2>1. \A j \in 1..Len(t) : t[j].ev # "at"
    BY <1>1, <1>3
  <2>2. Newest(s, base) = base /\ Newest(t, base) = base
    BY <1>3, <2>1, NewestNone
  <2> QED
    BY <2>2 DEF t
<1> QED
  BY <1>2, <1>3

LEMMA NewestTail ==
  ASSUME NEW s \in Seq(XEvents), s # <<>>, NEW base, NEW first,
         Head(s).ev = "at" => first = Head(s).p, Head(s).ev # "at" => first = base
  PROVE  Newest(Tail(s), first) = Newest(s, base)
<1> DEFINE t == Tail(s)
<1>1. /\ Len(t) = Len(s) - 1 /\ Len(t) \in Nat /\ Len(s) \in Nat /\ Head(s) = s[1] /\ t \in Seq(XEvents)
      /\ \A i \in 1..Len(t) : t[i] = s[i + 1]
  OBVIOUS
<1> HIDE DEF t
<1>2. CASE \E i \in 1..Len(t) : t[i].ev = "at"
  <2>1. PICK i \in 1..Len(t) : t[i].ev = "at"
    BY <1>2
  <2>2. PICK k \in i..Len(t) : t[k].ev = "at" /\ \A j \in (k + 1)..Len(t) : t[j].ev # "at"
    BY <1>1, <2>1, NewestOf
  <2>3. k \in 1..Len(t) /\ k + 1 \in 1..Len(s)
    BY <1>1
  <2>4. t[k] = s[k + 1]
    BY <1>1, <2>3
  <2>5. \A j \in (k + 1 + 1)..Len(s) : s[j].ev # "at"
    <3> SUFFICES ASSUME NEW j \in (k + 1 + 1)..Len(s) PROVE s[j].ev # "at"
      OBVIOUS
    <3>1. j - 1 \in (k + 1)..Len(t) /\ j - 1 \in 1..Len(t) /\ (j - 1) + 1 = j
      BY <1>1, <2>3
    <3> QED
      BY <1>1, <2>2, <3>1
  <2>6. Newest(t, first) = t[k].p
    BY <1>1, <2>2, <2>3, NewestIs
  <2>7. Newest(s, base) = s[k + 1].p
    BY <1>1, <2>2, <2>3, <2>4, <2>5, NewestIs
  <2> QED
    BY <2>4, <2>6, <2>7 DEF t
<1>3. CASE ~ \E i \in 1..Len(t) : t[i].ev = "at"
  <2>1. Newest(t, first) = first
    BY <1>3, NewestNone
  <2>2. \A j \in 2..Len(s) : s[j].ev # "at"
    <3> SUFFICES ASSUME NEW j \in 2..Len(s) PROVE s[j].ev # "at"
      OBVIOUS
    <3>1. j - 1 \in 1..Len(t) /\ (j - 1) + 1 = j
      BY <1>1
    <3> QED
      BY <1>1, <1>3, <3>1
  <2>3. 1 \in 1..Len(s)
    BY <1>1
  <2>4. CASE s[1].ev = "at"
    <3>1. Newest(s, base) = s[1].p
      BY <1>1, <2>2, <2>3, <2>4, NewestIs
    <3> QED
      BY <1>1, <2>1, <2>4, <3>1 DEF t
  <2>5. CASE s[1].ev # "at"
    <3>1. \A j \in 1..Len(s) : s[j].ev # "at"
      BY <1>1, <2>2, <2>5
    <3> QED
      BY <1>1, <2>1, <2>5, <3>1, NewestNone DEF t
  <2> QED
    BY <2>4, <2>5
<1> QED
  BY <1>2, <1>3

LEMMA AwayEnds ==
  ASSUME NEW s \in Seq(XEvents), NEW c, Away(s, c)
  PROVE  /\ \A e \in XEvents : e # At(c) => Away(Append(s, e), c)
         /\ s # <<>> => Away(Tail(s), c) /\ Head(s) # At(c)
<1>1. ASSUME NEW e \in XEvents, e # At(c)
      PROVE  Away(Append(s, e), c)
  BY <1>1 DEF Away
<1>2. ASSUME s # <<>>
      PROVE  Away(Tail(s), c) /\ Head(s) # At(c)
  <2> DEFINE t == Tail(s)
  <2>1. /\ Len(t) = Len(s) - 1 /\ Len(s) \in Nat \ {0} /\ Head(s) = s[1]
        /\ \A i \in 1..Len(t) : t[i] = s[i + 1]
    BY <1>2
  <2> HIDE DEF t
  <2>2. \A i \in 1..Len(t) : t[i] # At(c)
    BY <2>1 DEF Away
  <2>3. s[1] # At(c)
    BY <2>1 DEF Away
  <2> QED
    BY <2>1, <2>2, <2>3 DEF Away, t
<1> QED
  BY <1>1, <1>2

LEMMA AtDiffers == ASSUME NEW p, NEW c, p # c PROVE At(p) # At(c)
BY DEF At

LEMMA HotDiffers == ASSUME NEW c PROVE Hot # At(c)
BY DEF At, Hot

LEMMA JoinedAppend ==
  ASSUME NEW s \in Seq(XEvents), NEW t \in Seq(XEvents), NEW c \in XEvents, NEW e \in XEvents
  PROVE  Append(s \o <<c>> \o t, e) = s \o <<c>> \o Append(t, e)
<1> DEFINE u == s \o <<c>>
<1>1. u \in Seq(XEvents)
  OBVIOUS
<1> HIDE DEF u
<1> DEFINE l == Append(u \o t, e)
           r == u \o Append(t, e)
<1>2. l \in Seq(XEvents) /\ r \in Seq(XEvents) /\ Len(l) = Len(u) + Len(t) + 1 /\ Len(r) = Len(u) + Len(t) + 1
  BY <1>1
<1>3. ASSUME NEW i \in 1..Len(l)
      PROVE  l[i] = r[i]
  BY <1>1, <1>2
<1>4. l = r
  <2> HIDE DEF l, r
  <2> QED
    BY <1>2, <1>3
<1> QED
  BY <1>4 DEF u

LEMMA JoinedTail ==
  ASSUME NEW s \in Seq(XEvents), NEW t \in Seq(XEvents), NEW c \in XEvents
  PROVE  /\ s \o <<c>> \o t # <<>>
         /\ s = <<>> => Head(s \o <<c>> \o t) = c /\ Tail(s \o <<c>> \o t) = t
         /\ s # <<>> => Head(s \o <<c>> \o t) = Head(s) /\ Tail(s \o <<c>> \o t) = Tail(s) \o <<c>> \o t
OBVIOUS

LEMMA JoinedRest ==
  ASSUME NEW s \in Seq(XEvents), NEW t \in Seq(XEvents), NEW c \in XEvents, s # <<>>
  PROVE  Head(s \o <<c>> \o t) = Head(s) /\ Tail(s \o <<c>> \o t) = Tail(s) \o <<c>> \o t
OBVIOUS

LEMMA JoinedEmpty ==
  ASSUME NEW s \in Seq(XEvents), NEW c \in XEvents
  PROVE  Append(s, c) = s \o <<c>> \o <<>>
OBVIOUS

LEMMA WarpHits ==
  ASSUME TypeInv, KnowsScreen, UNCHANGED screen, WarpTo(Center)
  PROVE  ptr' = Center
<1>1. Center \in Points /\ Holds(bounds, Center) /\ bounds \in Monitors
  BY CenterOfMonitor DEF TypeInv, CaptureTyped, Center
<1>2. ClampTo(bounds, Center) = Center
  BY <1>1, ClampOf
<1>3. OnAny(Center, screen)
  BY DEF KnowsScreen
<1>4. OnScreen(Center) = Center
  BY <1>1, <1>3, OnScreenOf DEF TypeInv
<1> QED
  BY <1>2, <1>4 DEF WarpTo

(* What the history of owed adds up to. *)
LEMMA Sums ==
  ASSUME NEW p \in Points, NEW q \in Points, NEW r \in Points, NEW c \in Points
  PROVE  /\ Plus(Minus(p, c), Minus(q, p)) = Minus(q, c)
         /\ Plus(Minus(p, p), Minus(c, c)) = Origin
         /\ Plus(Minus(p, p), Minus(q, c)) = Minus(q, c)
         /\ Minus(Minus(q, c), Minus(p, c)) = Plus(Minus(q, p), Minus(c, c))
BY DEF Points, Plus, Minus, Origin, Pt

LEMMA SumsAwaited ==
  ASSUME NEW p \in Points, NEW q \in Points, NEW r \in Points, NEW c \in Points, NEW l \in Points
  PROVE  /\ Plus(Plus(Minus(q, l), Minus(p, c)), Minus(r, p)) = Plus(Minus(q, l), Minus(r, c))
         /\ Minus(Plus(Minus(q, l), Minus(r, c)), Minus(p, l)) = Plus(Minus(q, p), Minus(r, c))
BY DEF Points, Plus, Minus, Pt

LEMMA MoveHand ==
  ASSUME TypeInv, TypeInv', MoveInv, NEW d \in Vectors, HandMoves(d)
  PROVE  MoveInv'
<1> SUFFICES ASSUME KnowsScreen', ~ slipped', grab # "no"
             PROVE  Counted'
  BY DEF MoveInv, Counted, HandMoves, capture
<1>1. /\ UNCHANGED <<screen, grab, bounds, last, expecting>> /\ xq' = Append(xq, At(ptr'))
      /\ owed' = IF grab = "yes" THEN Plus(owed, Minus(ptr', ptr)) ELSE owed
      /\ ~ slipped /\ ptr' # Center /\ Center' = Center
  BY DEF HandMoves, capture, Center
<1>2. Counted
  BY <1>1 DEF MoveInv, KnowsScreen, Center
<1>3. xq \in Seq(XEvents) /\ ptr \in Points /\ ptr' \in Points /\ Center \in Points /\ last \in Points
  BY CenterIs DEF TypeInv, XTyped, CaptureTyped
<1>4. At(ptr') \in XEvents /\ At(ptr') # At(Center)
  BY <1>1, <1>3, AtIs, AtDiffers
<1>5. CASE grab = "half"
  <2>1. Away(xq', Center') /\ Newest(xq', ptr') = ptr'
    BY <1>1, <1>2, <1>3, <1>4, <1>5, AwayEnds, NewestAt DEF Counted
  <2> QED
    BY <1>1, <1>5, <2>1 DEF Counted
<1>6. CASE grab = "yes" /\ ~ expecting
  <2>1. Away(xq', Center') /\ Newest(xq', Center') = ptr'
    BY <1>1, <1>2, <1>3, <1>4, <1>6, AwayEnds, NewestAt DEF Counted
  <2>2. owed' = Minus(ptr', Center')
    BY <1>1, <1>2, <1>3, <1>6, Sums DEF Counted
  <2> QED
    BY <1>1, <1>6, <2>1, <2>2 DEF Counted
<1>7. CASE grab = "yes" /\ expecting
  <2>1. PICK old, new \in Seq(XEvents) : Awaited(xq, last, ptr, owed, Center, old, new)
    BY <1>2, <1>7 DEF Counted
  <2>2. Newest(old, last) \in Points
    BY <1>3, NewestPoint
  <2> DEFINE more == Append(new, At(ptr'))
  <2>3. more \in Seq(XEvents) /\ Away(more, Center) /\ Newest(more, Center) = ptr'
    BY <1>3, <1>4, <2>1, AwayEnds, NewestAt DEF Awaited
  <2>4. xq' = old \o <<At(Center)>> \o more
    <3>1. At(Center) \in XEvents
      BY <1>3, AtIs
    <3>2. Append(old \o <<At(Center)>> \o new, At(ptr')) = old \o <<At(Center)>> \o Append(new, At(ptr'))
      BY <1>3, <1>4, <3>1, JoinedAppend
    <3>3. xq = old \o <<At(Center)>> \o new
      BY <2>1 DEF Awaited
    <3> QED
      BY <1>1, <3>2, <3>3
  <2>5. owed' = Plus(Minus(Newest(old, last), last), Minus(ptr', Center))
    BY <1>1, <1>3, <1>7, <2>1, <2>2, SumsAwaited DEF Awaited
  <2> HIDE DEF more
  <2>6. Awaited(xq', last', ptr', owed', Center', old, more)
    BY <1>1, <2>1, <2>3, <2>4, <2>5 DEF Awaited
  <2> QED
    BY <1>1, <1>7, <2>3, <2>6 DEF Counted
<1> QED
  BY <1>1, <1>5, <1>6, <1>7 DEF TypeInv, CaptureTyped

LEMMA MoveHotkey ==
  ASSUME TypeInv, TypeInv', MoveInv, HandPressesHotkey
  PROVE  MoveInv'
<1> SUFFICES ASSUME KnowsScreen', ~ slipped'
             PROVE  Counted'
  BY DEF MoveInv
<1>1. UNCHANGED <<screen, ptr, grab, bounds, last, expecting, owed, slipped>> /\ xq' = Append(xq, Hot) /\ Center' = Center
  BY DEF HandPressesHotkey, capture, history, Center
<1>2. Counted
  BY <1>1 DEF MoveInv, KnowsScreen, Center
<1>3. xq \in Seq(XEvents) /\ Hot \in XEvents /\ Center \in Points
  BY CenterIs DEF TypeInv, XTyped, XEvents
<1>4. Hot # At(Center)
  BY HotDiffers
<1>5. CASE grab # "yes" \/ ~ expecting
  <2>1. Newest(xq', ptr) = Newest(xq, ptr) /\ Newest(xq', Center) = Newest(xq, Center)
    BY <1>1, <1>3, NewestHot
  <2>2. Away(xq, Center) => Away(xq', Center)
    BY <1>1, <1>3, <1>4, AwayEnds
  <2> QED
    BY <1>1, <1>2, <1>5, <2>1, <2>2 DEF Counted
<1>6. CASE grab = "yes" /\ expecting
  <2>1. PICK old, new \in Seq(XEvents) : Awaited(xq, last, ptr, owed, Center, old, new)
    BY <1>2, <1>6 DEF Counted
  <2> DEFINE more == Append(new, Hot)
  <2>2. more \in Seq(XEvents) /\ Away(more, Center) /\ Newest(more, Center) = ptr
    BY <1>3, <1>4, <2>1, AwayEnds, NewestHot DEF Awaited
  <2>3. xq' = old \o <<At(Center)>> \o more
    <3>1. At(Center) \in XEvents
      BY <1>3, AtIs
    <3>2. Append(old \o <<At(Center)>> \o new, Hot) = old \o <<At(Center)>> \o Append(new, Hot)
      BY <1>3, <3>1, JoinedAppend
    <3>3. xq = old \o <<At(Center)>> \o new
      BY <2>1 DEF Awaited
    <3> QED
      BY <1>1, <3>2, <3>3
  <2> HIDE DEF more
  <2>4. Awaited(xq', last', ptr', owed', Center', old, more)
    BY <1>1, <2>1, <2>2, <2>3 DEF Awaited
  <2> QED
    BY <1>1, <1>6, <2>2, <2>4 DEF Counted
<1> QED
  BY <1>5, <1>6

LEMMA MoveGrabPointer ==
  ASSUME TypeInv, TypeInv', MoveInv, GrabPointer
  PROVE  MoveInv'
<1> SUFFICES ASSUME KnowsScreen', ~ slipped'
             PROVE  Counted'
  BY DEF MoveInv
<1>1. UNCHANGED <<screen, ptr, xq, bounds, last, expecting, owed>> /\ Center' = Center
  BY DEF GrabPointer, xserver, Center
<1>2. CASE grab = "yes" /\ UNCHANGED <<grab, slipped>>
  <2>1. Counted
    BY <1>1, <1>2 DEF MoveInv, KnowsScreen, Center
  <2> QED
    BY <1>1, <1>2, <2>1 DEF Counted
<1>3. CASE grab' = "no"
  BY <1>3 DEF Counted
<1>4. CASE grab = "no" /\ grab' = "half"
  <2>1. \A i \in 1..Len(xq) : xq[i].ev # "at"
    BY <1>4 DEF GrabPointer
  <2>2. Newest(xq, ptr) = ptr
    BY <2>1, NewestNone
  <2>3. Away(xq, Center)
    BY <2>1, AtEvent DEF Away
  <2> QED
    BY <1>1, <1>4, <2>2, <2>3 DEF Counted
<1> QED
  BY <1>2, <1>3, <1>4 DEF GrabPointer

LEMMA MoveGrabRest ==
  ASSUME TypeInv, TypeInv', MoveInv, GrabRest
  PROVE  MoveInv'
<1> SUFFICES ASSUME KnowsScreen', ~ slipped', grab' = "yes"
             PROVE  Counted'
  BY DEF MoveInv, Counted, GrabRest
<1>1. /\ grab = "half" /\ UNCHANGED <<screen, bounds>> /\ ~ slipped
      /\ last' = ptr /\ expecting' = TRUE /\ WarpTo(Center) /\ xq' = Append(xq, At(ptr')) /\ owed' = Origin
  BY DEF GrabRest
<1>2. Center' = Center /\ KnowsScreen
  BY <1>1 DEF Center, KnowsScreen
<1>3. Away(xq, Center) /\ Newest(xq, ptr) = ptr
  BY <1>1, <1>2 DEF MoveInv, Counted
<1>4. ptr' = Center
  BY <1>1, <1>2, WarpHits
<1>5. xq \in Seq(XEvents) /\ ptr \in Points /\ Center \in Points /\ At(Center) \in XEvents
  BY CenterIs, AtIs DEF TypeInv, XTyped
<1>6. xq' = xq \o <<At(Center)>> \o <<>> /\ <<>> \in Seq(XEvents)
  BY <1>1, <1>4, <1>5, JoinedEmpty
<1>7. Away(<<>>, Center) /\ Newest(<<>>, Center) = Center
  BY NewestEmpty DEF Away
<1>8. owed' = Plus(Minus(ptr, ptr), Minus(Center, Center))
  BY <1>1, <1>5, Sums
<1>9. Awaited(xq', last', ptr', owed', Center', xq, <<>>)
  BY <1>1, <1>2, <1>3, <1>4, <1>6, <1>7, <1>8 DEF Awaited
<1>10. \E old, new \in Seq(XEvents) : Awaited(xq', last', ptr', owed', Center', old, new)
  BY <1>5, <1>6, <1>9
<1> QED
  BY <1>1, <1>10 DEF Counted

(* The warp's own event is still to come: what is reported is measured from the last position. *)
LEMMA MoveExpecting ==
  ASSUME TypeInv, MoveInv, KnowsScreen', ~ slipped', grab = "yes", expecting, XEvent
  PROVE  Counted'
<1>0. /\ UNCHANGED <<screen, grab, bounds, slipped>> /\ xq # <<>> /\ Center' = Center
  BY DEF XEvent, Center
<1>1. Counted
  BY <1>0 DEF MoveInv, KnowsScreen, Center
<1>2. PICK old, new \in Seq(XEvents) : Awaited(xq, last, ptr, owed, Center, old, new)
  BY <1>1 DEF Counted
<1>3. Center \in Points /\ At(Center) \in XEvents /\ last \in Points /\ ptr \in Points /\ xq \in Seq(XEvents)
  BY CenterIs, AtIs DEF TypeInv, XTyped, CaptureTyped
<1>4. xq = old \o <<At(Center)>> \o new
  BY <1>2 DEF Awaited
<1>5. CASE old = <<>>
  <2>1. Head(xq) = At(Center) /\ Tail(xq) = new
    BY <1>3, <1>4, <1>5, JoinedTail
  <2>2. OnMotion(Center)
    BY <1>0, <2>1, AtEvent DEF XEvent, Hot
  <2>3. last' = Center /\ expecting' = FALSE /\ UNCHANGED <<ptr, owed>> /\ xq' = new
    BY <2>1, <2>2 DEF OnMotion
  <2>4. Newest(old, last) = last
    BY <1>5, NewestEmpty
  <2>5. owed = Minus(ptr, Center)
    BY <1>2, <1>3, <2>4, Sums DEF Awaited
  <2> QED
    BY <1>0, <1>2, <2>3, <2>5 DEF Counted, Awaited
<1>6. CASE old # <<>>
  <2>1. Head(xq) = Head(old) /\ Tail(xq) = Tail(old) \o <<At(Center)>> \o new
    <3>1. /\ Head(old \o <<At(Center)>> \o new) = Head(old)
          /\ Tail(old \o <<At(Center)>> \o new) = Tail(old) \o <<At(Center)>> \o new
      BY <1>3, <1>6, JoinedRest
    <3> QED
      BY <1>4, <3>1
  <2>2. Tail(old) \in Seq(XEvents) /\ Head(old) \in XEvents
    BY <1>6
  <2>3. Away(Tail(old), Center) /\ Head(old) # At(Center)
    BY <1>2, <1>6, AwayEnds DEF Awaited
  <2>4. CASE Head(old).ev = "at"
    <3> DEFINE p == Head(old).p
    <3>1. p \in Points /\ Head(old) = At(p)
      BY <2>2, <2>4, EventIs DEF Hot
    <3> HIDE DEF p
    <3>2. p # Center
      BY <2>3, <3>1
    <3>3. Head(xq).ev = "at" /\ Head(xq).p = p /\ Head(xq) # Hot
      BY <2>1, <3>1, AtEvent DEF Hot
    <3>4. OnMotion(p)
      BY <1>0, <3>3 DEF XEvent
    <3>5. last' = p /\ expecting' = TRUE /\ UNCHANGED ptr /\ xq' = Tail(xq) /\ owed' = Minus(owed, Minus(p, last))
      BY <3>2, <3>4 DEF OnMotion, Report, Measured
    <3>6. Newest(Tail(old), p) = Newest(old, last)
      BY <1>6, <2>4, NewestTail DEF p
    <3>7. Newest(old, last) \in Points
      BY <1>3, NewestPoint
    <3>8. owed' = Plus(Minus(Newest(Tail(old), p), p), Minus(ptr, Center))
      BY <1>2, <1>3, <3>1, <3>5, <3>6, <3>7, SumsAwaited DEF Awaited
    <3>9. Awaited(xq', last', ptr', owed', Center', Tail(old), new)
      BY <1>0, <1>2, <2>1, <2>3, <3>5, <3>8 DEF Awaited
    <3> QED
      BY <1>0, <2>2, <3>5, <3>9 DEF Counted
  <2>5. CASE Head(old).ev # "at"
    <3>1. Head(xq).ev # "at"
      BY <2>1, <2>5
    <3>2. xq' = Tail(xq) /\ UNCHANGED <<ptr, last, expecting, owed>>
      BY <3>1 DEF XEvent
    <3>3. Newest(Tail(old), last) = Newest(old, last)
      BY <1>6, <2>5, NewestTail
    <3>4. Awaited(xq', last', ptr', owed', Center', Tail(old), new)
      BY <1>0, <1>2, <2>1, <2>3, <3>2, <3>3 DEF Awaited
    <3> QED
      BY <1>0, <2>2, <3>2, <3>4 DEF Counted
  <2> QED
    BY <2>4, <2>5
<1> QED
  BY <1>5, <1>6

(* ... and once it came, from the centre. *)
LEMMA MoveCentred ==
  ASSUME TypeInv, MoveInv, KnowsScreen', ~ slipped', grab = "yes", ~ expecting, XEvent
  PROVE  Counted'
<1>0. /\ UNCHANGED <<screen, grab, bounds, slipped>> /\ xq # <<>> /\ Center' = Center
  BY DEF XEvent, Center
<1>1. Counted /\ KnowsScreen
  BY <1>0 DEF MoveInv, KnowsScreen, Center
<1>2. Away(xq, Center) /\ Newest(xq, Center) = ptr /\ owed = Minus(ptr, Center)
  BY <1>1 DEF Counted
<1>3. Center \in Points /\ At(Center) \in XEvents /\ ptr \in Points /\ xq \in Seq(XEvents)
  BY CenterIs, AtIs DEF TypeInv, XTyped
<1>4. Tail(xq) \in Seq(XEvents) /\ Head(xq) \in XEvents
  BY <1>0, <1>3
<1>5. Away(Tail(xq), Center) /\ Head(xq) # At(Center)
  BY <1>0, <1>2, <1>3, AwayEnds
<1>6. CASE Head(xq).ev = "at"
  <2> DEFINE p == Head(xq).p
  <2>1. p \in Points /\ Head(xq) = At(p) /\ Head(xq) # Hot
    BY <1>4, <1>6, EventIs DEF Hot
  <2>2. p # Center
    BY <1>5, <2>1
  <2>3. OnMotion(p)
    BY <1>0, <1>6 DEF XEvent
  <2> HIDE DEF p
  <2>4. last' = p /\ expecting' = TRUE /\ WarpTo(Center) /\ xq' = Append(Tail(xq), At(ptr'))
        /\ owed' = Minus(owed, Minus(p, Center))
    BY <2>2, <2>3 DEF OnMotion, Report, Measured
  <2>5. ptr' = Center
    BY <1>0, <1>1, <2>4, WarpHits
  <2>6. xq' = Tail(xq) \o <<At(Center)>> \o <<>> /\ <<>> \in Seq(XEvents)
    BY <1>3, <1>4, <2>4, <2>5, JoinedEmpty
  <2>7. Away(<<>>, Center) /\ Newest(<<>>, Center) = Center
    BY NewestEmpty DEF Away
  <2>8. Newest(Tail(xq), p) = ptr
    BY <1>0, <1>2, <1>3, <1>6, NewestTail DEF p
  <2>9. owed' = Plus(Minus(ptr, p), Minus(Center, Center))
    BY <1>2, <1>3, <2>1, <2>4, Sums
  <2>10. Awaited(xq', last', ptr', owed', Center', Tail(xq), <<>>)
    BY <1>0, <1>5, <2>4, <2>5, <2>6, <2>7, <2>8, <2>9 DEF Awaited
  <2>11. \E old, new \in Seq(XEvents) : Awaited(xq', last', ptr', owed', Center', old, new)
    BY <1>4, <2>6, <2>10
  <2> QED
    BY <1>0, <2>4, <2>11 DEF Counted
<1>7. CASE Head(xq).ev # "at"
  <2>1. xq' = Tail(xq) /\ UNCHANGED <<ptr, last, expecting, owed>>
    BY <1>7 DEF XEvent
  <2>2. Newest(Tail(xq), Center) = Newest(xq, Center)
    BY <1>0, <1>3, <1>7, NewestTail
  <2> QED
    BY <1>0, <1>2, <1>5, <2>1, <2>2 DEF Counted
<1> QED
  BY <1>6, <1>7

LEMMA MoveKept ==
  ASSUME MoveInv, UNCHANGED <<screen, ptr, xq, grab, bounds, last, expecting, owed, slipped>>
  PROVE  MoveInv'
<1>1. Center' = Center
  BY DEF Center
<1>2. KnowsScreen' = KnowsScreen
  BY <1>1 DEF KnowsScreen
<1> QED
  BY <1>1, <1>2 DEF MoveInv, Counted

LEMMA MoveNext == TypeInv /\ TypeInv' /\ MoveInv /\ [Next]_vars => MoveInv'
<1> SUFFICES ASSUME TypeInv, TypeInv', MoveInv, [Next]_vars PROVE MoveInv'
  OBVIOUS
<1>1. CASE \E d \in Vectors : HandMoves(d)
  BY <1>1, MoveHand
<1>2. CASE HandPressesHotkey \/ GrabPointer \/ GrabRest
  BY <1>2, MoveHotkey, MoveGrabPointer, MoveGrabRest
<1>3. CASE Ungrab
  BY <1>3 DEF Ungrab, MoveInv, Counted
<1>4. CASE XEvent
  <2>1. UNCHANGED grab /\ grab # "half"
    BY <1>4 DEF XEvent
  <2>2. CASE grab = "yes"
    BY <1>4, <2>2, MoveExpecting, MoveCentred DEF MoveInv
  <2> QED
    BY <2>1, <2>2 DEF MoveInv, Counted
<1>5. CASE ScreenChanges
  BY <1>5 DEF ScreenChanges, capture, MoveInv, Counted
<1>6. CASE Sample \/ WatchLocal \/ Look
  BY <1>6, MoveKept DEF Sample, WatchLocal, Look, xserver, capture, history
<1>7. CASE \E c \in Clients : Reported(c) \/ Unregister(c) \/ AddScreen(c)
  BY <1>7, MoveKept DEF Reported, Unregister, AddScreen, xserver, capture, history
<1>8. CASE \E edit \in Edits : ApplyLayout(edit)
  BY <1>8, MoveKept DEF ApplyLayout, xserver, capture, history
<1>9. CASE HubEvent \/ CaptureEvent
  BY <1>9, MoveKept DEF HubEvent, CaptureEvent, xserver, capture, history
<1>10. CASE UNCHANGED vars
  BY <1>10, MoveKept DEF vars, xserver, capture, history
<1> QED
  BY <1>1, <1>2, <1>3, <1>4, <1>5, <1>6, <1>7, <1>8, <1>9, <1>10 DEF Next

(* EveryMoveCounts: with nothing queued, what was reported under a grab is what the hand did  *)
(* (Capture::on_motion, which measures from the last position until the warp's own event came). *)
THEOREM EveryMoveCountsAlways == Spec => []EveryMoveCounts
<1>1. Init => MoveInv
  BY DEF Init, MoveInv, Counted
<1>2. TypeInv /\ MoveInv => EveryMoveCounts
  <2> SUFFICES ASSUME TypeInv, MoveInv, grab = "yes", xq = <<>>, KnowsScreen, ~ slipped PROVE owed = Origin
    BY DEF EveryMoveCounts
  <2>1. Counted
    BY DEF MoveInv
  <2>2. ~ expecting
    <3> SUFFICES ASSUME expecting PROVE FALSE
      OBVIOUS
    <3>1. PICK old, new \in Seq(XEvents) : Awaited(xq, last, ptr, owed, Center, old, new)
      BY <2>1 DEF Counted
    <3>2. At(Center) \in XEvents
      BY CenterIs, AtIs DEF TypeInv
    <3> QED
      BY <3>1, <3>2, JoinedTail DEF Awaited
  <2>3. owed = Minus(ptr, Center) /\ Newest(<<>>, Center) = ptr
    BY <2>1, <2>2 DEF Counted
  <2>4. ptr = Center /\ Center \in Points
    BY <2>3, NewestEmpty, CenterIs DEF TypeInv
  <2> QED
    BY <2>3, <2>4 DEF Minus, Origin, Points, Pt
<1> QED
  BY <1>1, <1>2, AlwaysTyped, MoveNext, PTL DEF Spec

-----------------------------------------------------------------------------
(* The router's desk, once its queue is read. *)

(* What an event brings, and the events about one thing. *)
Brings(e) ==
  CASE e.ev = "sizes" -> e.sizes
    [] e.ev = "positions" -> e.at
    [] e.ev \in {"local", "connected"} -> e.mons
    [] OTHER -> <<>>
News(kind) == {e \in HubEvents : e.ev = kind}
NewsOf(c) == {e \in HubEvents : e.ev \in {"connected", "gone"} /\ e.name = c}

(* The last of the events about a thing tells what it is now; without any it is what is held. *)
UpToDate(q, about, held, now) ==
  \/ (\A i \in 1..Len(q) : q[i] \notin about) /\ held = now
  \/ \E i \in 1..Len(q) : /\ q[i] \in about /\ Brings(q[i]) = now
                          /\ \A j \in 1..Len(q) : j > i => q[j] \notin about

(* What the router lacks of the editor's screens is announced, in their order, at the places at. *)
AnnouncedAt(q, have, all, at) ==
  /\ \A k \in 1..Len(have) : all[k] = have[k]
  /\ \A k \in (Len(have) + 1)..Len(all) : q[at[k]].ev = "added" /\ q[at[k]].name = all[k]
  /\ \A k, l \in (Len(have) + 1)..Len(all) : k < l => at[k] < at[l]
  /\ \A i \in 1..Len(q) : q[i].ev = "added" => \E k \in (Len(have) + 1)..Len(all) : at[k] = i
Announced(q, have, all) ==
  /\ Len(have) <= Len(all)
  /\ \E at \in [(Len(have) + 1)..Len(all) -> 1..Len(q)] : AnnouncedAt(q, have, all, at)

Desks == [screens : Seq(Machines), mons : MonitorTables, local : ToSet(Screens), positions : Positions, sizes : SizeTables]

(* The desk d after event e. *)
After(d, e) ==
  [screens |-> IF e.ev = "added" THEN Append(d.screens, e.name) ELSE d.screens,
   mons |-> [c \in Clients |-> IF e \in NewsOf(c) THEN Brings(e) ELSE d.mons[c]],
   local |-> IF e \in News("local") THEN Brings(e) ELSE d.local,
   positions |-> IF e \in News("positions") THEN Brings(e) ELSE d.positions,
   sizes |-> IF e \in News("sizes") THEN Brings(e) ELSE d.sizes]

(* Who knows of d and reads q will know of n. *)
Knowing(q, d, n) ==
  /\ UpToDate(q, News("sizes"), d.sizes, n.sizes)
  /\ UpToDate(q, News("positions"), d.positions, n.positions)
  /\ UpToDate(q, News("local"), d.local, n.local)
  /\ \A c \in Clients : UpToDate(q, NewsOf(c), d.mons[c], n.mons[c])
  /\ Announced(q, d.screens, n.screens)

(* The desk as the hub and the editor have it, and as the router does. *)
HubDesk == [screens |-> eScreens, mons |-> real, local |-> watched, positions |-> ePositions, sizes |-> eSizes]
RouterDesk == [screens |-> rScreens, mons |-> rMons, local |-> rLocal, positions |-> rPositions, sizes |-> rSizes]

WillKnow == Knowing(hubq, RouterDesk, HubDesk)
LaidOut == origins = Placed(rScreens, MonsOf(rLocal, rMons), rPositions, rSizes)
ListedOnly == \A c \in Clients : c \notin ToSet(eScreens) => real[c] = <<>>

(* What validate accepted is how it is, as long as valid. *)
Here == {n \in ToSet(eScreens) : Live(n)}
Accepted == valid => screen = watched /\ Here \subseteq DOMAIN ePositions /\ Fits(ePositions, eSizes)

DeskInv == WillKnow /\ LaidOut /\ ListedOnly /\ Accepted

LEMMA AppendedIs ==
  ASSUME NEW E, NEW q \in Seq(E), NEW e \in E
  PROVE  /\ Len(q) \in Nat /\ Len(Append(q, e)) = Len(q) + 1 /\ Append(q, e)[Len(q) + 1] = e
         /\ \A i \in 1..Len(q) : Append(q, e)[i] = q[i]
OBVIOUS

LEMMA TailIs ==
  ASSUME NEW E, NEW q \in Seq(E), q # <<>>
  PROVE  /\ Len(q) \in Nat /\ Len(q) > 0 /\ Len(Tail(q)) = Len(q) - 1 /\ Head(q) = q[1]
         /\ \A i \in 1..(Len(q) - 1) : Tail(q)[i] = q[i + 1]
OBVIOUS

LEMMA ToldNow ==
  ASSUME NEW E, NEW q \in Seq(E), NEW e \in E, NEW about, NEW held, NEW now, e \in about, Brings(e) = now
  PROVE  UpToDate(Append(q, e), about, held, now)
<1> DEFINE s == Append(q, e)
<1>1. Len(s) \in Nat /\ Len(s) \in 1..Len(s) /\ s[Len(s)] = e
  BY AppendedIs
<1>2. s[Len(s)] \in about /\ Brings(s[Len(s)]) = now
  BY <1>1
<1> HIDE DEF s
<1>3. UpToDate(s, about, held, now)
  BY <1>1, <1>2 DEF UpToDate
<1> QED
  BY <1>3 DEF s

LEMMA ToldElse ==
  ASSUME NEW E, NEW q \in Seq(E), NEW e \in E, NEW about, NEW held, NEW now,
         e \notin about, UpToDate(q, about, held, now)
  PROVE  UpToDate(Append(q, e), about, held, now)
<1> DEFINE s == Append(q, e)
<1>1. Len(q) \in Nat /\ Len(s) = Len(q) + 1 /\ s[Len(q) + 1] = e /\ \A i \in 1..Len(q) : s[i] = q[i]
  BY AppendedIs
<1> HIDE DEF s
<1>2. CASE (\A i \in 1..Len(q) : q[i] \notin about) /\ held = now
  <2>1. ASSUME NEW i \in 1..Len(s) PROVE s[i] \notin about
    <3>1. i \in 1..Len(q) \/ i = Len(q) + 1
      BY <1>1
    <3> QED
      BY <1>1, <1>2, <3>1
  <2> QED
    BY <1>2, <2>1 DEF UpToDate, s
<1>3. ASSUME NEW i \in 1..Len(q), q[i] \in about, Brings(q[i]) = now, \A j \in 1..Len(q) : j > i => q[j] \notin about
      PROVE  UpToDate(s, about, held, now)
  <2>1. i \in 1..Len(s) /\ s[i] = q[i]
    BY <1>1
  <2>2. ASSUME NEW j \in 1..Len(s), j > i PROVE s[j] \notin about
    <3>1. j \in 1..Len(q) \/ j = Len(q) + 1
      BY <1>1
    <3> QED
      BY <1>1, <1>3, <2>2, <3>1
  <2> QED
    BY <1>3, <2>1, <2>2 DEF UpToDate
<1> QED
  BY <1>2, <1>3 DEF UpToDate, s

LEMMA HeardNews ==
  ASSUME NEW E, NEW q \in Seq(E), NEW about, NEW held, NEW now,
         q # <<>>, Head(q) \in about, UpToDate(q, about, held, now)
  PROVE  UpToDate(Tail(q), about, Brings(Head(q)), now)
<1> DEFINE t == Tail(q)
<1>1. /\ Len(q) \in Nat /\ Len(q) > 0 /\ Len(t) = Len(q) - 1 /\ Head(q) = q[1]
      /\ \A i \in 1..(Len(q) - 1) : t[i] = q[i + 1]
  BY TailIs
<1> HIDE DEF t
<1>2. PICK i \in 1..Len(q) : q[i] \in about /\ Brings(q[i]) = now /\ \A j \in 1..Len(q) : j > i => q[j] \notin about
  BY <1>1 DEF UpToDate
<1>3. ASSUME NEW j \in 1..Len(t) PROVE j + 1 \in 1..Len(q) /\ t[j] = q[j + 1]
  BY <1>1
<1>4. CASE i = 1
  <2>1. \A j \in 1..Len(t) : t[j] \notin about
    BY <1>2, <1>3, <1>4
  <2> QED
    BY <1>1, <1>2, <1>4, <2>1 DEF UpToDate, t
<1>5. CASE i # 1
  <2>1. i - 1 \in 1..Len(t) /\ (i - 1) + 1 = i
    BY <1>1, <1>5
  <2>2. t[i - 1] = q[i]
    BY <1>3, <2>1
  <2>3. ASSUME NEW j \in 1..Len(t), j > i - 1 PROVE t[j] \notin about
    <3>1. j + 1 > i
      BY <2>3
    <3> QED
      BY <1>2, <1>3, <3>1
  <2>4. UpToDate(t, about, Brings(Head(q)), now)
    BY <1>2, <2>1, <2>2, <2>3 DEF UpToDate
  <2> QED
    BY <2>4 DEF t
<1> QED
  BY <1>4, <1>5

LEMMA HeardElse ==
  ASSUME NEW E, NEW q \in Seq(E), NEW about, NEW held, NEW now,
         q # <<>>, Head(q) \notin about, UpToDate(q, about, held, now)
  PROVE  UpToDate(Tail(q), about, held, now)
<1> DEFINE t == Tail(q)
<1>1. /\ Len(q) \in Nat /\ Len(q) > 0 /\ Len(t) = Len(q) - 1 /\ Head(q) = q[1]
      /\ \A i \in 1..(Len(q) - 1) : t[i] = q[i + 1]
  BY TailIs
<1> HIDE DEF t
<1>3. ASSUME NEW j \in 1..Len(t) PROVE j + 1 \in 1..Len(q) /\ t[j] = q[j + 1]
  BY <1>1
<1>4. CASE (\A i \in 1..Len(q) : q[i] \notin about) /\ held = now
  BY <1>3, <1>4 DEF UpToDate, t
<1>5. ASSUME NEW i \in 1..Len(q), q[i] \in about, Brings(q[i]) = now, \A j \in 1..Len(q) : j > i => q[j] \notin about
      PROVE  UpToDate(t, about, held, now)
  <2>0. i # 1
    BY <1>1, <1>5
  <2>1. i - 1 \in 1..Len(t) /\ (i - 1) + 1 = i
    BY <1>1, <2>0
  <2>2. t[i - 1] = q[i]
    BY <1>3, <2>1
  <2>3. ASSUME NEW j \in 1..Len(t), j > i - 1 PROVE t[j] \notin about
    <3>1. j + 1 > i
      BY <2>3
    <3> QED
      BY <1>3, <1>5, <3>1
  <2> QED
    BY <1>5, <2>1, <2>2, <2>3 DEF UpToDate
<1> QED
  BY <1>4, <1>5 DEF UpToDate, t

LEMMA HeardAll == ASSUME NEW about, NEW held, NEW now, UpToDate(<<>>, about, held, now) PROVE held = now
<1>1. 1..Len(<<>>) = {}
  OBVIOUS
<1> QED
  BY <1>1 DEF UpToDate

(* An added screen is the last to be announced. *)
LEMMA AnnouncedMore ==
  ASSUME NEW E, NEW q \in Seq(E), NEW e \in E, NEW M, NEW have \in Seq(M), NEW all \in Seq(M), NEW m \in M,
         e.ev = "added", e.name = m, Announced(q, have, all)
  PROVE  Announced(Append(q, e), have, Append(all, m))
<1> DEFINE s == Append(q, e)
           a == Append(all, m)
           K == (Len(have) + 1)..Len(all)
           L == (Len(have) + 1)..Len(a)
<1>1. Len(q) \in Nat /\ Len(s) = Len(q) + 1 /\ s[Len(q) + 1] = e /\ \A i \in 1..Len(q) : s[i] = q[i]
  BY AppendedIs
<1>2. Len(all) \in Nat /\ Len(a) = Len(all) + 1 /\ a[Len(all) + 1] = m /\ \A i \in 1..Len(all) : a[i] = all[i]
  BY AppendedIs
<1> HIDE DEF s, a
<1>3. Len(have) \in Nat /\ Len(have) <= Len(all)
  BY DEF Announced
<1>4. PICK at \in [K -> 1..Len(q)] : AnnouncedAt(q, have, all, at)
  BY DEF Announced
<1> DEFINE next == [k \in L |-> IF k = Len(all) + 1 THEN Len(q) + 1 ELSE at[k]]
<1>5. \A k \in L : k \in K \/ k = Len(all) + 1
  BY <1>2, <1>3
<1>6. /\ \A k \in K : k \in L /\ k \in 1..Len(all) /\ at[k] \in 1..Len(q) /\ next[k] = at[k]
      /\ Len(all) + 1 \in L /\ next[Len(all) + 1] = Len(q) + 1
  <2>1. \A k \in K : k \in L /\ k \in 1..Len(all) /\ k # Len(all) + 1 /\ at[k] \in 1..Len(q)
    BY <1>2, <1>3, <1>4
  <2>2. Len(all) + 1 \in L
    BY <1>2, <1>3
  <2> QED
    BY <2>1, <2>2
<1>7. next \in [L -> 1..Len(s)]
  BY <1>1, <1>5, <1>6
<1> HIDE DEF next
<1>8. \A k \in 1..Len(have) : a[k] = have[k]
  BY <1>2, <1>3, <1>4 DEF AnnouncedAt
<1>9. \A k \in L : s[next[k]].ev = "added" /\ s[next[k]].name = a[k]
  <2> SUFFICES ASSUME NEW k \in L PROVE s[next[k]].ev = "added" /\ s[next[k]].name = a[k]
    OBVIOUS
  <2>1. CASE k \in K
    BY <1>1, <1>2, <1>4, <1>6, <2>1 DEF AnnouncedAt
  <2>2. CASE k = Len(all) + 1
    BY <1>1, <1>2, <1>6, <2>2
  <2> QED
    BY <1>5, <2>1, <2>2
<1>10. \A k, l \in L : k < l => next[k] < next[l]
  <2> SUFFICES ASSUME NEW k \in L, NEW l \in L, k < l PROVE next[k] < next[l]
    OBVIOUS
  <2>1. k \in K
    BY <1>2, <1>3
  <2>2. CASE l \in K
    BY <1>4, <1>6, <2>1, <2>2 DEF AnnouncedAt
  <2>3. CASE l = Len(all) + 1
    BY <1>1, <1>6, <2>1, <2>3
  <2> QED
    BY <1>5, <2>2, <2>3
<1>11. \A i \in 1..Len(s) : s[i].ev = "added" => \E k \in L : next[k] = i
  <2> SUFFICES ASSUME NEW i \in 1..Len(s), s[i].ev = "added" PROVE \E k \in L : next[k] = i
    OBVIOUS
  <2>1. CASE i \in 1..Len(q)
    <3>1. \E k \in K : at[k] = i
      BY <1>1, <1>4, <2>1 DEF AnnouncedAt
    <3> QED
      BY <1>6, <3>1
  <2>2. CASE i = Len(q) + 1
    BY <1>6, <2>2
  <2> QED
    BY <1>1, <2>1, <2>2
<1>12. Len(have) <= Len(a)
  BY <1>2, <1>3
<1> QED
  BY <1>7, <1>8, <1>9, <1>10, <1>11, <1>12 DEF Announced, AnnouncedAt, s, a

LEMMA AnnouncedElse ==
  ASSUME NEW E, NEW q \in Seq(E), NEW e \in E, NEW M, NEW have \in Seq(M), NEW all \in Seq(M),
         e.ev # "added", Announced(q, have, all)
  PROVE  Announced(Append(q, e), have, all)
<1> DEFINE s == Append(q, e)
           K == (Len(have) + 1)..Len(all)
<1>1. Len(q) \in Nat /\ Len(s) = Len(q) + 1 /\ s[Len(q) + 1] = e /\ \A i \in 1..Len(q) : s[i] = q[i]
  BY AppendedIs
<1> HIDE DEF s
<1>2. Len(have) \in Nat /\ Len(all) \in Nat /\ Len(have) <= Len(all)
  BY DEF Announced
<1>3. PICK at \in [K -> 1..Len(q)] : AnnouncedAt(q, have, all, at)
  BY DEF Announced
<1>4. at \in [K -> 1..Len(s)] /\ \A k \in K : at[k] \in 1..Len(q)
  BY <1>1
<1>5. \A k \in K : s[at[k]].ev = "added" /\ s[at[k]].name = all[k]
  BY <1>1, <1>3, <1>4 DEF AnnouncedAt
<1>6. \A i \in 1..Len(s) : s[i].ev = "added" => \E k \in K : at[k] = i
  <2> SUFFICES ASSUME NEW i \in 1..Len(s), s[i].ev = "added" PROVE \E k \in K : at[k] = i
    OBVIOUS
  <2>1. i # Len(q) + 1
    BY <1>1
  <2>2. i \in 1..Len(q) /\ q[i].ev = "added"
    BY <1>1, <2>1
  <2> QED
    BY <1>3, <2>2 DEF AnnouncedAt
<1>7. AnnouncedAt(s, have, all, at)
  BY <1>3, <1>5, <1>6 DEF AnnouncedAt
<1> QED
  BY <1>2, <1>4, <1>7 DEF Announced, s

(* The first that is announced is the next the router lists. *)
LEMMA AnnouncedHeard ==
  ASSUME NEW E, NEW q \in Seq(E), NEW M, NEW have \in Seq(M), NEW all \in Seq(M), NEW m \in M,
         q # <<>>, Head(q).ev = "added", Head(q).name = m, Announced(q, have, all)
  PROVE  Announced(Tail(q), Append(have, m), all)
<1> DEFINE t == Tail(q)
           h == Append(have, m)
           K == (Len(have) + 1)..Len(all)
           L == (Len(h) + 1)..Len(all)
           first == Len(have) + 1
<1>1. /\ Len(q) \in Nat /\ Len(q) > 0 /\ Len(t) = Len(q) - 1 /\ Head(q) = q[1]
      /\ \A i \in 1..(Len(q) - 1) : t[i] = q[i + 1]
  BY TailIs
<1>2. Len(have) \in Nat /\ Len(h) = Len(have) + 1 /\ h[Len(have) + 1] = m /\ \A i \in 1..Len(have) : h[i] = have[i]
  BY AppendedIs
<1> HIDE DEF t, h
<1>3. Len(all) \in Nat /\ Len(have) <= Len(all)
  BY DEF Announced
<1>4. PICK at \in [K -> 1..Len(q)] : AnnouncedAt(q, have, all, at)
  BY DEF Announced
<1>5. \A k \in K : at[k] \in 1..Len(q)
  BY <1>4
<1>6. first \in K /\ at[first] = 1
  <2>1. PICK k \in K : at[k] = 1
    BY <1>1, <1>4 DEF AnnouncedAt
  <2>2. first \in K /\ (first < k \/ first = k)
    BY <1>2, <1>3
  <2>3. ~ (first < k)
    <3> SUFFICES ASSUME first < k PROVE FALSE
      OBVIOUS
    <3>1. at[first] < at[k] /\ at[first] \in 1..Len(q)
      BY <1>4, <1>5, <2>2 DEF AnnouncedAt
    <3> QED
      BY <1>1, <2>1, <3>1
  <2> QED
    BY <2>1, <2>2, <2>3
<1> DEFINE next == [k \in L |-> at[k] - 1]
<1>7. \A k \in L : k \in K /\ first < k
  BY <1>2, <1>3
<1>8. ASSUME NEW k \in L PROVE at[k] - 1 \in 1..Len(t) /\ (at[k] - 1) + 1 = at[k] /\ at[k] \in 1..Len(q)
  <2>1. at[first] < at[k] /\ at[k] \in 1..Len(q)
    BY <1>4, <1>5, <1>6, <1>7 DEF AnnouncedAt
  <2> QED
    BY <1>1, <1>6, <2>1
<1>9. next \in [L -> 1..Len(t)] /\ \A k \in L : next[k] = at[k] - 1
  BY <1>8
<1> HIDE DEF next
<1>10. \A k \in 1..Len(h) : all[k] = h[k]
  <2> SUFFICES ASSUME NEW k \in 1..Len(h) PROVE all[k] = h[k]
    OBVIOUS
  <2>1. CASE k \in 1..Len(have)
    BY <1>2, <1>4, <2>1 DEF AnnouncedAt
  <2>2. CASE k = first
    <3>1. q[at[first]].name = all[first]
      BY <1>4, <1>6 DEF AnnouncedAt
    <3> QED
      BY <1>1, <1>2, <1>6, <2>2, <3>1
  <2> QED
    BY <1>2, <2>1, <2>2
<1>11. \A k \in L : t[next[k]].ev = "added" /\ t[next[k]].name = all[k]
  <2> SUFFICES ASSUME NEW k \in L PROVE t[next[k]].ev = "added" /\ t[next[k]].name = all[k]
    OBVIOUS
  <2>1. t[next[k]] = q[at[k]]
    BY <1>1, <1>8, <1>9
  <2> QED
    BY <1>4, <1>7, <2>1 DEF AnnouncedAt
<1>12. \A k, l \in L : k < l => next[k] < next[l]
  <2> SUFFICES ASSUME NEW k \in L, NEW l \in L, k < l PROVE next[k] < next[l]
    OBVIOUS
  <2>1. at[k] < at[l]
    BY <1>4, <1>7 DEF AnnouncedAt
  <2> QED
    BY <1>8, <1>9, <2>1
<1>13. \A i \in 1..Len(t) : t[i].ev = "added" => \E k \in L : next[k] = i
  <2> SUFFICES ASSUME NEW i \in 1..Len(t), t[i].ev = "added" PROVE \E k \in L : next[k] = i
    OBVIOUS
  <2>1. i + 1 \in 1..Len(q) /\ i + 1 # 1 /\ t[i] = q[i + 1]
    BY <1>1
  <2>2. PICK k \in K : at[k] = i + 1
    BY <1>4, <2>1 DEF AnnouncedAt
  <2>3. k # first
    BY <1>6, <2>1, <2>2
  <2>4. k \in L
    BY <1>2, <1>3, <2>3
  <2>5. next[k] = i
    BY <1>9, <2>2, <2>4
  <2> QED
    BY <2>4, <2>5
<1>14. Len(h) <= Len(all)
  BY <1>2, <1>3, <1>6
<1> QED
  BY <1>9, <1>10, <1>11, <1>12, <1>13, <1>14 DEF Announced, AnnouncedAt, t, h

LEMMA HeardOther ==
  ASSUME NEW E, NEW q \in Seq(E), NEW M, NEW have \in Seq(M), NEW all \in Seq(M),
         q # <<>>, Head(q).ev # "added", Announced(q, have, all)
  PROVE  Announced(Tail(q), have, all)
<1> DEFINE t == Tail(q)
           K == (Len(have) + 1)..Len(all)
<1>1. /\ Len(q) \in Nat /\ Len(q) > 0 /\ Len(t) = Len(q) - 1 /\ Head(q) = q[1]
      /\ \A i \in 1..(Len(q) - 1) : t[i] = q[i + 1]
  BY TailIs
<1> HIDE DEF t
<1>2. Len(have) \in Nat /\ Len(all) \in Nat /\ Len(have) <= Len(all)
  BY DEF Announced
<1>3. PICK at \in [K -> 1..Len(q)] : AnnouncedAt(q, have, all, at)
  BY DEF Announced
<1> DEFINE next == [k \in K |-> at[k] - 1]
<1>4. ASSUME NEW k \in K PROVE at[k] - 1 \in 1..Len(t) /\ (at[k] - 1) + 1 = at[k] /\ at[k] \in 1..Len(q)
  <2>1. at[k] \in 1..Len(q) /\ q[at[k]].ev = "added"
    BY <1>3 DEF AnnouncedAt
  <2>2. at[k] # 1
    BY <1>1, <2>1
  <2> QED
    BY <1>1, <2>1, <2>2
<1>5. next \in [K -> 1..Len(t)] /\ \A k \in K : next[k] = at[k] - 1
  BY <1>4
<1> HIDE DEF next
<1>6. \A k \in K : t[next[k]].ev = "added" /\ t[next[k]].name = all[k]
  <2> SUFFICES ASSUME NEW k \in K PROVE t[next[k]].ev = "added" /\ t[next[k]].name = all[k]
    OBVIOUS
  <2>1. t[next[k]] = q[at[k]]
    BY <1>1, <1>4, <1>5
  <2> QED
    BY <1>3, <2>1 DEF AnnouncedAt
<1>7. \A k, l \in K : k < l => next[k] < next[l]
  <2> SUFFICES ASSUME NEW k \in K, NEW l \in K, k < l PROVE next[k] < next[l]
    OBVIOUS
  <2>1. at[k] < at[l]
    BY <1>3 DEF AnnouncedAt
  <2> QED
    BY <1>4, <1>5, <2>1
<1>8. \A i \in 1..Len(t) : t[i].ev = "added" => \E k \in K : next[k] = i
  <2> SUFFICES ASSUME NEW i \in 1..Len(t), t[i].ev = "added" PROVE \E k \in K : next[k] = i
    OBVIOUS
  <2>1. i + 1 \in 1..Len(q) /\ t[i] = q[i + 1]
    BY <1>1
  <2>2. PICK k \in K : at[k] = i + 1
    BY <1>3, <2>1 DEF AnnouncedAt
  <2> QED
    BY <1>5, <2>2
<1>9. AnnouncedAt(t, have, all, next)
  BY <1>3, <1>6, <1>7, <1>8 DEF AnnouncedAt
<1> QED
  BY <1>2, <1>5, <1>9 DEF Announced, t

LEMMA HeardOfAll ==
  ASSUME NEW M, NEW have \in Seq(M), NEW all \in Seq(M), Announced(<<>>, have, all)
  PROVE  have = all
<1>1. Len(have) \in Nat /\ Len(all) \in Nat /\ Len(have) <= Len(all)
  BY DEF Announced
<1>2. PICK at \in [(Len(have) + 1)..Len(all) -> 1..Len(<<>>)] : AnnouncedAt(<<>>, have, all, at)
  BY DEF Announced
<1>3. Len(have) = Len(all)
  <2> SUFFICES ASSUME Len(have) # Len(all) PROVE FALSE
    OBVIOUS
  <2>1. Len(all) \in (Len(have) + 1)..Len(all)
    BY <1>1
  <2>2. at[Len(all)] \in 1..0
    BY <1>2, <2>1
  <2> QED
    BY <2>2
<1>4. \A k \in 1..Len(have) : all[k] = have[k]
  BY <1>2 DEF AnnouncedAt
<1> QED
  BY <1>3, <1>4

LEMMA NewsIs ==
  ASSUME NEW e \in HubEvents
  PROVE  /\ \A kind : e \in News(kind) <=> e.ev = kind
         /\ \A c : e \in NewsOf(c) <=> e.ev \in {"connected", "gone"} /\ e.name = c
         /\ e.ev = "added" => e.name \in Machines
BY DEF News, NewsOf, HubEvents, Machines

(* One thing, when it is told of and when that is heard. *)
LEMMA TellingOne ==
  ASSUME NEW q \in Seq(HubEvents), NEW e \in HubEvents, NEW about, NEW held, NEW now, UpToDate(q, about, held, now)
  PROVE  UpToDate(Append(q, e), about, held, IF e \in about THEN Brings(e) ELSE now)
<1>1. CASE e \in about
  BY <1>1, ToldNow
<1>2. CASE e \notin about
  BY <1>2, ToldElse
<1> QED
  BY <1>1, <1>2

LEMMA HearingOne ==
  ASSUME NEW q \in Seq(HubEvents), q # <<>>, NEW about, NEW held, NEW now, UpToDate(q, about, held, now)
  PROVE  UpToDate(Tail(q), about, IF Head(q) \in about THEN Brings(Head(q)) ELSE held, now)
<1>1. CASE Head(q) \in about
  BY <1>1, HeardNews
<1>2. CASE Head(q) \notin about
  BY <1>2, HeardElse
<1> QED
  BY <1>1, <1>2

(* Telling of a change, and hearing of it, keep who reads the queue right in the end. *)
LEMMA Telling ==
  ASSUME NEW q \in Seq(HubEvents), NEW e \in HubEvents, NEW d \in Desks, NEW n \in Desks, Knowing(q, d, n)
  PROVE  Knowing(Append(q, e), d, After(n, e))
<1> DEFINE s == Append(q, e)
           a == After(n, e)
<1>1. UpToDate(s, News("sizes"), d.sizes, a.sizes)
  <2>1. a.sizes = IF e \in News("sizes") THEN Brings(e) ELSE n.sizes
    BY DEF After
  <2> QED
    BY <2>1, TellingOne DEF Knowing
<1>2. UpToDate(s, News("positions"), d.positions, a.positions)
  <2>1. a.positions = IF e \in News("positions") THEN Brings(e) ELSE n.positions
    BY DEF After
  <2> QED
    BY <2>1, TellingOne DEF Knowing
<1>3. UpToDate(s, News("local"), d.local, a.local)
  <2>1. a.local = IF e \in News("local") THEN Brings(e) ELSE n.local
    BY DEF After
  <2> QED
    BY <2>1, TellingOne DEF Knowing
<1>4. ASSUME NEW c \in Clients PROVE UpToDate(s, NewsOf(c), d.mons[c], a.mons[c])
  <2>1. a.mons[c] = IF e \in NewsOf(c) THEN Brings(e) ELSE n.mons[c]
    BY DEF After
  <2> QED
    BY <2>1, TellingOne DEF Knowing
<1>5. Announced(s, d.screens, a.screens)
  <2>1. a.screens = IF e.ev = "added" THEN Append(n.screens, e.name) ELSE n.screens
    BY DEF After
  <2>2. d.screens \in Seq(Machines) /\ n.screens \in Seq(Machines) /\ Announced(q, d.screens, n.screens)
    BY DEF Desks, Knowing
  <2>3. CASE e.ev = "added"
    <3>1. e.name \in Machines
      BY <2>3, NewsIs
    <3> QED
      BY <2>1, <2>2, <2>3, <3>1, AnnouncedMore
  <2>4. CASE e.ev # "added"
    BY <2>1, <2>2, <2>4, AnnouncedElse
  <2> QED
    BY <2>3, <2>4
<1> HIDE DEF s, a
<1>6. Knowing(s, d, a)
  BY <1>1, <1>2, <1>3, <1>4, <1>5 DEF Knowing
<1> QED
  BY <1>6 DEF s, a

LEMMA Hearing ==
  ASSUME NEW q \in Seq(HubEvents), q # <<>>, NEW d \in Desks, NEW n \in Desks, Knowing(q, d, n)
  PROVE  Knowing(Tail(q), After(d, Head(q)), n)
<1> DEFINE s == Tail(q)
           e == Head(q)
           a == After(d, e)
<1>0. e \in HubEvents
  OBVIOUS
<1>1. UpToDate(s, News("sizes"), a.sizes, n.sizes)
  <2>1. a.sizes = IF e \in News("sizes") THEN Brings(e) ELSE d.sizes
    BY DEF After
  <2> QED
    BY <2>1, HearingOne DEF Knowing
<1>2. UpToDate(s, News("positions"), a.positions, n.positions)
  <2>1. a.positions = IF e \in News("positions") THEN Brings(e) ELSE d.positions
    BY DEF After
  <2> QED
    BY <2>1, HearingOne DEF Knowing
<1>3. UpToDate(s, News("local"), a.local, n.local)
  <2>1. a.local = IF e \in News("local") THEN Brings(e) ELSE d.local
    BY DEF After
  <2> QED
    BY <2>1, HearingOne DEF Knowing
<1>4. ASSUME NEW c \in Clients PROVE UpToDate(s, NewsOf(c), a.mons[c], n.mons[c])
  <2>1. a.mons[c] = IF e \in NewsOf(c) THEN Brings(e) ELSE d.mons[c]
    BY DEF After
  <2> QED
    BY <2>1, HearingOne DEF Knowing
<1>5. Announced(s, a.screens, n.screens)
  <2>1. a.screens = IF e.ev = "added" THEN Append(d.screens, e.name) ELSE d.screens
    BY DEF After
  <2>2. d.screens \in Seq(Machines) /\ n.screens \in Seq(Machines) /\ Announced(q, d.screens, n.screens)
    BY DEF Desks, Knowing
  <2>3. CASE e.ev = "added"
    <3>1. e.name \in Machines
      BY <1>0, <2>3, NewsIs
    <3> QED
      BY <2>1, <2>2, <2>3, <3>1, AnnouncedHeard
  <2>4. CASE e.ev # "added"
    BY <2>1, <2>2, <2>4, HeardOther
  <2> QED
    BY <2>3, <2>4
<1> HIDE DEF s, a
<1>6. Knowing(s, a, n)
  BY <1>1, <1>2, <1>3, <1>4, <1>5 DEF Knowing
<1> QED
  BY <1>6 DEF s, a

(* Who has read everything knows. *)
LEMMA HeardOfEverything ==
  ASSUME NEW d \in Desks, NEW n \in Desks, Knowing(<<>>, d, n)
  PROVE  d = n
<1>1. d.sizes = n.sizes /\ d.positions = n.positions /\ d.local = n.local
  BY HeardAll DEF Knowing
<1>2. \A c \in Clients : d.mons[c] = n.mons[c]
  BY HeardAll DEF Knowing
<1>3. d.screens = n.screens
  BY HeardOfAll DEF Knowing, Desks
<1>4. d.mons = n.mons
  BY <1>2 DEF Desks, MonitorTables
<1> QED
  BY <1>1, <1>3, <1>4 DEF Desks

LEMMA DesksTyped == ASSUME HubTyped, EditorTyped, DeskTyped PROVE HubDesk \in Desks /\ RouterDesk \in Desks
BY DEF HubTyped, EditorTyped, DeskTyped, HubDesk, RouterDesk, Desks

LEMMA AfterConnected ==
  ASSUME NEW d \in Desks, NEW c \in Clients, NEW m \in MonitorLists
  PROVE  LET e == [ev |-> "connected", name |-> c, mons |-> m]
         IN e \in HubEvents /\ After(d, e) = [d EXCEPT !.mons = [@ EXCEPT ![c] = m]]
<1> DEFINE e == [ev |-> "connected", name |-> c, mons |-> m]
<1>1. e \in HubEvents
  BY DEF HubEvents
<1>2. /\ \A kind \in {"sizes", "positions", "local"} : e \notin News(kind)
      /\ \A b \in Clients : e \in NewsOf(b) <=> b = c
      /\ e.ev # "added" /\ Brings(e) = m
  <2>1. e.ev = "connected" /\ e.name = c /\ e.mons = m
    OBVIOUS
  <2>2. \A kind : e \in News(kind) <=> e.ev = kind
    BY <1>1, NewsIs
  <2>3. \A b : e \in NewsOf(b) <=> e.ev \in {"connected", "gone"} /\ e.name = b
    BY <1>1, NewsIs
  <2> HIDE DEF e
  <2> QED
    BY <2>1, <2>2, <2>3 DEF Brings
<1> HIDE DEF e
<1>3. [b \in Clients |-> IF e \in NewsOf(b) THEN Brings(e) ELSE d.mons[b]] = [d.mons EXCEPT ![c] = m]
  BY <1>2 DEF Desks, MonitorTables
<1>4. After(d, e) = [d EXCEPT !.mons = [@ EXCEPT ![c] = m]]
  BY <1>2, <1>3 DEF After, Desks
<1> QED
  BY <1>1, <1>4 DEF e

LEMMA AfterGone ==
  ASSUME NEW d \in Desks, NEW c \in Clients
  PROVE  LET e == [ev |-> "gone", name |-> c]
         IN e \in HubEvents /\ After(d, e) = [d EXCEPT !.mons = [@ EXCEPT ![c] = <<>>]]
<1> DEFINE e == [ev |-> "gone", name |-> c]
<1>1. e \in HubEvents
  BY DEF HubEvents
<1>2. /\ \A kind \in {"sizes", "positions", "local"} : e \notin News(kind)
      /\ \A b \in Clients : e \in NewsOf(b) <=> b = c
      /\ e.ev # "added" /\ Brings(e) = <<>>
  <2>1. e.ev = "gone" /\ e.name = c
    OBVIOUS
  <2>2. \A kind : e \in News(kind) <=> e.ev = kind
    BY <1>1, NewsIs
  <2>3. \A b : e \in NewsOf(b) <=> e.ev \in {"connected", "gone"} /\ e.name = b
    BY <1>1, NewsIs
  <2> HIDE DEF e
  <2> QED
    BY <2>1, <2>2, <2>3 DEF Brings
<1> HIDE DEF e
<1>3. [b \in Clients |-> IF e \in NewsOf(b) THEN Brings(e) ELSE d.mons[b]] = [d.mons EXCEPT ![c] = <<>>]
  BY <1>2 DEF Desks, MonitorTables
<1>4. After(d, e) = [d EXCEPT !.mons = [@ EXCEPT ![c] = <<>>]]
  BY <1>2, <1>3 DEF After, Desks
<1> QED
  BY <1>1, <1>4 DEF e

LEMMA AfterOther ==
  ASSUME NEW d \in Desks, NEW e \in HubEvents
  PROVE  /\ e.ev = "local" => After(d, e) = [d EXCEPT !.local = e.mons]
         /\ e.ev = "positions" => After(d, e) = [d EXCEPT !.positions = e.at]
         /\ e.ev = "sizes" => After(d, e) = [d EXCEPT !.sizes = e.sizes]
         /\ e.ev = "added" => After(d, e) = [d EXCEPT !.screens = Append(@, e.name)]
<1>1. \A kind : e \in News(kind) <=> e.ev = kind
  BY NewsIs
<1>2. SUFFICES ASSUME e.ev \in {"local", "positions", "sizes", "added"}
      PROVE  /\ e.ev = "local" => After(d, e) = [d EXCEPT !.local = e.mons]
             /\ e.ev = "positions" => After(d, e) = [d EXCEPT !.positions = e.at]
             /\ e.ev = "sizes" => After(d, e) = [d EXCEPT !.sizes = e.sizes]
             /\ e.ev = "added" => After(d, e) = [d EXCEPT !.screens = Append(@, e.name)]
  OBVIOUS
<1>3. \A b : e \notin NewsOf(b)
  BY <1>2, NewsIs
<1>4. [b \in Clients |-> IF e \in NewsOf(b) THEN Brings(e) ELSE d.mons[b]] = d.mons
  BY <1>3 DEF Desks, MonitorTables
<1>5. /\ e.ev \in {"local"} => Brings(e) = e.mons
      /\ e.ev = "positions" => Brings(e) = e.at
      /\ e.ev = "sizes" => Brings(e) = e.sizes
  BY DEF Brings
<1>6. CASE e.ev = "local"
  BY <1>1, <1>4, <1>5, <1>6 DEF After, Desks
<1>7. CASE e.ev = "positions"
  BY <1>1, <1>4, <1>5, <1>7 DEF After, Desks
<1>8. CASE e.ev = "sizes"
  BY <1>1, <1>4, <1>5, <1>8 DEF After, Desks
<1>9. CASE e.ev = "added"
  BY <1>1, <1>4, <1>9 DEF After, Desks
<1> QED
  BY <1>2, <1>6, <1>7, <1>8, <1>9

-----------------------------------------------------------------------------
(* What covers a pixel of the desk. *)

LEMMA MulGrows == ASSUME NEW x \in Int, NEW y \in Int, x <= y, NEW b \in Nat PROVE b * x <= b * y
<1>1. b * (y - x) >= 0
  <2> DEFINE n == y - x
  <2>1. n \in Nat
    OBVIOUS
  <2> HIDE DEF n
  <2>2. b * n \in Nat
    BY <2>1
  <2> QED
    BY <2>2 DEF n
<1>2. b * (y - x) = b * y - b * x
  OBVIOUS
<1>3. b * y \in Int /\ b * x \in Int
  OBVIOUS
<1> QED
  BY <1>1, <1>2, <1>3

LEMMA DivIs ==
  ASSUME NEW a \in Int, NEW b \in Nat \ {0}
  PROVE  a \div b \in Int /\ b * (a \div b) <= a /\ a < b * (a \div b) + b
OBVIOUS

(* A quotient is the number it is between. *)
LEMMA DivUnique ==
  ASSUME NEW a \in Int, NEW b \in Nat \ {0}, NEW q \in Int, b * q <= a, a < b * q + b
  PROVE  a \div b = q
<1> DEFINE p == a \div b
<1>1. p \in Int /\ b * p <= a /\ a < b * p + b
  BY DivIs
<1> HIDE DEF p
<1>2. b * (p + 1) = b * p + b /\ b * (q + 1) = b * q + b /\ b * p \in Int /\ b * q \in Int
  BY <1>1
<1>3. ~ (p + 1 <= q)
  <2> SUFFICES ASSUME p + 1 <= q PROVE FALSE
    OBVIOUS
  <2>1. b * (p + 1) <= b * q
    BY <1>1, MulGrows
  <2> QED
    BY <1>1, <1>2, <2>1
<1>4. ~ (q + 1 <= p)
  <2> SUFFICES ASSUME q + 1 <= p PROVE FALSE
    OBVIOUS
  <2>1. b * (q + 1) <= b * p
    BY <1>1, MulGrows
  <2> QED
    BY <1>1, <1>2, <2>1
<1>5. p = q
  BY <1>1, <1>3, <1>4
<1> QED
  BY <1>5 DEF p

(* A whole number of pixels is not rounded. *)
LEMMA RoundedWhole ==
  ASSUME NEW d \in Nat, NEW b \in Nat \ {0}
  PROVE  Rounded(d * b, b) = d
<1>1. d * b \in Nat
  OBVIOUS
<1>2. (2 * b) * d = 2 * (d * b)
  OBVIOUS
<1>3. 2 * b \in Nat \ {0} /\ 2 * (d * b) + b \in Int
  BY <1>1
<1>4. (2 * b) * d <= 2 * (d * b) + b /\ 2 * (d * b) + b < (2 * b) * d + 2 * b
  BY <1>1, <1>2
<1>5. (2 * (d * b) + b) \div (2 * b) = d
  BY <1>3, <1>4, DivUnique
<1> QED
  BY <1>1, <1>5 DEF Rounded

LEMMA UnscaledBack ==
  ASSUME NEW t \in Int, NEW b \in Nat \ {0}
  PROVE  (t * b) \div b = t
<1>1. b * t <= t * b /\ t * b < b * t + b /\ t * b \in Int
  OBVIOUS
<1> QED
  BY <1>1, DivUnique

LEMMA ScaledBack ==
  ASSUME NEW t \in Int, NEW w \in Nat \ {0}, NEW l \in Nat \ {0},
         0 <= (t * w) \div l, (t * w) \div l < w
  PROVE  0 <= t /\ t < l
<1> DEFINE q == (t * w) \div l
<1>1. q \in Int /\ l * q <= t * w /\ t * w < l * q + l
  BY DivIs
<1>2. 0 <= q /\ q + 1 <= w
  BY <1>1
<1> HIDE DEF q
<1>3. l * 0 <= l * q /\ l * (q + 1) <= l * w
  BY <1>1, <1>2, MulGrows
<1>4. l * (q + 1) = l * q + l /\ w * t = t * w /\ l * 0 = 0 /\ w * l = l * w
      /\ l * q \in Int /\ t * w \in Int /\ l * w \in Int
  BY <1>1
<1>5. 0 <= t * w /\ t * w < l * w
  BY <1>1, <1>3, <1>4
<1>6. ~ (t <= -1)
  <2> SUFFICES ASSUME t <= -1 PROVE FALSE
    OBVIOUS
  <2>1. w * t <= w * (-1)
    BY MulGrows
  <2>2. w * (-1) = - w
    OBVIOUS
  <2> QED
    BY <1>4, <1>5, <2>1, <2>2
<1>7. ~ (l <= t)
  <2> SUFFICES ASSUME l <= t PROVE FALSE
    OBVIOUS
  <2>1. w * l <= w * t
    BY MulGrows
  <2> QED
    BY <1>4, <1>5, <2>1
<1> QED
  BY <1>6, <1>7

(* One axis of a frame: the stretch from have to want, a monitor from m on, w wide. *)
LEMMA AxisCovers ==
  ASSUME NEW base \in Int, NEW have \in Nat \ {0}, NEW want \in Nat \ {0}, NEW o \in Int, NEW v \in Int,
         NEW m \in Int, NEW w \in Nat \ {0}, NEW end \in Int, end = m + w, base <= m,
         want = have \/ (base = m /\ have = w),
         m <= base + ((v - o - base) * have) \div want, base + ((v - o - base) * have) \div want <= m + w - 1
  PROVE  /\ o + base + Rounded((m - base) * want, have) <= v
         /\ v < o + base + Rounded((end - base) * want, have)
<1> DEFINE t == v - o - base
<1>1. t \in Int
  OBVIOUS
<1>2. CASE want = have
  <2>1. (t * have) \div want = t
    BY <1>1, <1>2, UnscaledBack
  <2>2. m - base \in Nat /\ end - base \in Nat
    OBVIOUS
  <2>3. Rounded((m - base) * want, have) = m - base /\ Rounded((end - base) * want, have) = end - base
    BY <1>2, <2>2, RoundedWhole
  <2>4. m <= base + t /\ base + t <= m + w - 1
    BY <2>1
  <2> QED
    BY <2>3, <2>4
<1>3. CASE base = m /\ have = w
  <2>1. (t * w) \div want \in Int
    BY <1>1, DivIs
  <2>2. 0 <= (t * w) \div want /\ (t * w) \div want < w
    BY <1>3, <2>1
  <2>3. 0 <= t /\ t < want
    BY <1>1, <2>2, ScaledBack
  <2>4. Rounded((m - base) * want, have) = 0
    <3>1. (m - base) * want = 0 * have
      BY <1>3
    <3> QED
      BY <3>1, RoundedWhole
  <2>5. Rounded((end - base) * want, have) = want
    <3>1. end - base = have
      BY <1>3
    <3>2. (end - base) * want = want * have
      BY <3>1
    <3> QED
      BY <3>2, RoundedWhole
  <2> QED
    BY <2>3, <2>4, <2>5
<1> QED
  BY <1>2, <1>3

LEMMA RectCovers ==
  ASSUME NEW f \in Frames, NEW m \in Monitors, NEW v \in Points,
         f.base.x <= m.x, f.base.y <= m.y,
         f.want = f.have \/ (f.base.x = m.x /\ f.base.y = m.y /\ f.have.w = m.w /\ f.have.h = m.h),
         Holds(m, ToLocal(f, v))
  PROVE  Holds(DeskRect(f, m), v)
<1> DEFINE q == ToLocal(f, v)
           lo == ToDesk(f, Pt(m.x, m.y))
           hi == ToDesk(f, Pt(RightOf(m), BottomOf(m)))
<1>1. /\ f.base.x \in Int /\ f.base.y \in Int /\ f.origin.x \in Int /\ f.origin.y \in Int
      /\ f.have.w \in Nat \ {0} /\ f.have.h \in Nat \ {0} /\ f.want.w \in Nat \ {0} /\ f.want.h \in Nat \ {0}
      /\ m.x \in Int /\ m.y \in Int /\ m.w \in Nat \ {0} /\ m.h \in Nat \ {0} /\ v.x \in Int /\ v.y \in Int
  BY DEF Frames, Points, Sizes, Monitors, Rects
<1>2. /\ q.x = f.base.x + ((v.x - f.origin.x - f.base.x) * f.have.w) \div f.want.w
      /\ q.y = f.base.y + ((v.y - f.origin.y - f.base.y) * f.have.h) \div f.want.h
  BY DEF ToLocal, Pt
<1>0. ASSUME NEW p \in Points
      PROVE  /\ ToDesk(f, p).x = f.origin.x + f.base.x + Rounded((p.x - f.base.x) * f.want.w, f.have.w)
             /\ ToDesk(f, p).y = f.origin.y + f.base.y + Rounded((p.y - f.base.y) * f.want.h, f.have.h)
  BY DEF ToDesk, Pt
<1>4. Pt(m.x, m.y) \in Points /\ Pt(RightOf(m), BottomOf(m)) \in Points
  BY <1>1 DEF Pt, Points, RightOf, BottomOf
<1> DEFINE p == Pt(m.x, m.y)
           r == Pt(RightOf(m), BottomOf(m))
<1>3. p.x = m.x /\ p.y = m.y /\ r.x = m.x + m.w /\ r.y = m.y + m.h
  BY DEF RightOf, BottomOf, Pt
<1>5. q \in Points /\ p \in Points /\ r \in Points /\ lo = ToDesk(f, p) /\ hi = ToDesk(f, r) /\ lo \in Points /\ hi \in Points
  BY <1>4, DeskOf
<1> HIDE DEF q, p, r, lo, hi
<1>6. m.x <= q.x /\ q.x <= m.x + m.w - 1 /\ m.y <= q.y /\ q.y <= m.y + m.h - 1
  <2>1. Holds(m, q)
    BY DEF q
  <2> QED
    BY <1>1, <1>5, <2>1 DEF Holds, RightOf, BottomOf, Points
<1>7. lo.x <= v.x /\ v.x < hi.x
  <2>1. f.want.w = f.have.w \/ (f.base.x = p.x /\ f.have.w = m.w)
    BY <1>3
  <2>2. /\ p.x <= f.base.x + ((v.x - f.origin.x - f.base.x) * f.have.w) \div f.want.w
        /\ f.base.x + ((v.x - f.origin.x - f.base.x) * f.have.w) \div f.want.w <= p.x + m.w - 1
    BY <1>2, <1>3, <1>6
  <2>3. p.x \in Int /\ r.x \in Int /\ r.x = p.x + m.w /\ f.base.x <= p.x
    BY <1>3, <1>5 DEF Points
  <2>4. /\ f.origin.x + f.base.x + Rounded((p.x - f.base.x) * f.want.w, f.have.w) <= v.x
        /\ v.x < f.origin.x + f.base.x + Rounded((r.x - f.base.x) * f.want.w, f.have.w)
    BY <1>1, <2>1, <2>2, <2>3, AxisCovers
  <2>5. /\ lo.x = f.origin.x + f.base.x + Rounded((p.x - f.base.x) * f.want.w, f.have.w)
        /\ hi.x = f.origin.x + f.base.x + Rounded((r.x - f.base.x) * f.want.w, f.have.w)
    BY <1>0, <1>5
  <2> QED
    BY <2>4, <2>5
<1>8. lo.y <= v.y /\ v.y < hi.y
  <2>1. f.want.h = f.have.h \/ (f.base.y = p.y /\ f.have.h = m.h)
    BY <1>3
  <2>2. /\ p.y <= f.base.y + ((v.y - f.origin.y - f.base.y) * f.have.h) \div f.want.h
        /\ f.base.y + ((v.y - f.origin.y - f.base.y) * f.have.h) \div f.want.h <= p.y + m.h - 1
    BY <1>2, <1>3, <1>6
  <2>3. p.y \in Int /\ r.y \in Int /\ r.y = p.y + m.h /\ f.base.y <= p.y
    BY <1>3, <1>5 DEF Points
  <2>4. /\ f.origin.y + f.base.y + Rounded((p.y - f.base.y) * f.want.h, f.have.h) <= v.y
        /\ v.y < f.origin.y + f.base.y + Rounded((r.y - f.base.y) * f.want.h, f.have.h)
    BY <1>1, <2>1, <2>2, <2>3, AxisCovers
  <2>5. /\ lo.y = f.origin.y + f.base.y + Rounded((p.y - f.base.y) * f.want.h, f.have.h)
        /\ hi.y = f.origin.y + f.base.y + Rounded((r.y - f.base.y) * f.want.h, f.have.h)
    BY <1>0, <1>5
  <2> QED
    BY <2>4, <2>5
<1>9. DeskRect(f, m) = Rect(lo.x, lo.y, hi.x - lo.x, hi.y - lo.y)
  BY DEF DeskRect, lo, hi
<1>10. lo.x \in Int /\ lo.y \in Int /\ hi.x \in Int /\ hi.y \in Int
  BY <1>5 DEF Points
<1>11. Holds(Rect(lo.x, lo.y, hi.x - lo.x, hi.y - lo.y), v)
  BY <1>1, <1>7, <1>8, <1>10 DEF Holds, RightOf, BottomOf, Rect
<1> QED
  BY <1>9, <1>11

LEMMA MinOne == ASSUME NEW x \in Int, NEW S, S = {x} PROVE Min(S) = x /\ Max(S) = x
<1>1. \A y \in S : (\A z \in S : y <= z) <=> y = x
  OBVIOUS
<1>2. \A y \in S : (\A z \in S : y >= z) <=> y = x
  OBVIOUS
<1> QED
  BY <1>1, <1>2 DEF Min, Max

LEMMA OnlyMonitor ==
  ASSUME NEW mons \in MonitorLists, Len(mons) = 1
  PROVE  Bounds(mons) = mons[1]
<1> DEFINE m == mons[1]
           X == {r.x : r \in ToSet(mons)}
           Y == {r.y : r \in ToSet(mons)}
           H == {RightOf(r) : r \in ToSet(mons)}
           B == {BottomOf(r) : r \in ToSet(mons)}
<1>1. m \in Monitors /\ ToSet(mons) = {m} /\ mons # <<>>
  BY DEF MonitorLists, ToSet
<1>2. UnionAll(mons) = Rect(Min(X), Min(Y), Max(H) - Min(X), Max(B) - Min(Y))
  BY DEF UnionAll
<1> HIDE DEF m
<1>3. /\ m.x \in Int /\ m.y \in Int /\ m.w \in Int /\ m.h \in Int
      /\ m = [x |-> m.x, y |-> m.y, w |-> m.w, h |-> m.h]
  BY <1>1 DEF Monitors, Rects
<1>4. X = {m.x} /\ Y = {m.y} /\ H = {m.x + m.w} /\ B = {m.y + m.h}
  BY <1>1 DEF RightOf, BottomOf
<1> HIDE DEF X, Y, H, B
<1>5. Min(X) = m.x /\ Min(Y) = m.y
  BY <1>3, <1>4, MinOne
<1>6. Max(H) = m.x + m.w
  <2>1. m.x + m.w \in Int
    BY <1>3
  <2> QED
    BY <1>4, <2>1, MinOne
<1>7. Max(B) = m.y + m.h
  <2>1. m.y + m.h \in Int
    BY <1>3
  <2> QED
    BY <1>4, <2>1, MinOne
<1>8. Max(H) - Min(X) = m.w /\ Max(B) - Min(Y) = m.h
  BY <1>3, <1>5, <1>6, <1>7
<1>9. UnionAll(mons) = Rect(m.x, m.y, m.w, m.h)
  BY <1>2, <1>5, <1>8
<1>10. UnionAll(mons) = m
  BY <1>3, <1>9 DEF Rect
<1> QED
  BY <1>1, <1>10 DEF Bounds, m

(* A pixel that maps into a monitor is in that monitor's rectangle on the desk, where nothing is rounded. *)
LEMMA ExactCovers ==
  ASSUME NEW mons \in MonitorLists, NEW o \in Points, NEW size \in Sizes \cup {NoSize},
         size = NoSize \/ Len(mons) = 1, NEW v \in Points, OnAny(ToLocal(FrameOf(o, mons, size), v), mons)
  PROVE  \E i \in 1..Len(mons) : Holds(DeskRect(FrameOf(o, mons, size), mons[i]), v)
<1> DEFINE f == FrameOf(o, mons, size)
           span == Bounds(mons)
<1>1. PICK i \in 1..Len(mons) : Holds(mons[i], ToLocal(f, v))
  BY DEF OnAny
<1>2. mons \in Seq(Monitors) /\ mons[i] \in Monitors /\ f \in Frames
  BY FrameIs DEF MonitorLists
<1>3. span = UnionAll(mons)
  BY DEF Bounds, MonitorLists
<1>4. f.base.x = span.x /\ f.base.y = span.y /\ f.have = [w |-> span.w, h |-> span.h]
      /\ f.want = IF size = NoSize THEN [w |-> span.w, h |-> span.h] ELSE size
  BY DEF FrameOf, Pt
<1>5. f.base.x <= mons[i].x /\ f.base.y <= mons[i].y
  BY <1>3, <1>4, UnionOf
<1>6. CASE size = NoSize
  <2>1. f.want = f.have
    BY <1>4, <1>6
  <2> HIDE DEF f, span
  <2>2. Holds(DeskRect(f, mons[i]), v)
    BY <1>1, <1>2, <1>5, <2>1, RectCovers
  <2> QED
    BY <2>2 DEF f
<1>7. CASE size # NoSize
  <2>1. span = mons[i]
    BY <1>7, OnlyMonitor
  <2>2. f.base.x = mons[i].x /\ f.base.y = mons[i].y /\ f.have.w = mons[i].w /\ f.have.h = mons[i].h
    BY <1>4, <2>1
  <2> HIDE DEF f, span
  <2>3. Holds(DeskRect(f, mons[i]), v)
    BY <1>1, <1>2, <1>5, <2>2, RectCovers
  <2> QED
    BY <2>3 DEF f
<1> QED
  BY <1>6, <1>7

LEMMA DeskRectOf ==
  ASSUME NEW f \in Frames, NEW m \in Monitors
  PROVE  DeskRect(f, m) \in Rects
<1>1. Pt(m.x, m.y) \in Points /\ Pt(RightOf(m), BottomOf(m)) \in Points
  BY DEF Monitors, Rects, Pt, Points, RightOf, BottomOf
<1>2. ToDesk(f, Pt(m.x, m.y)) \in Points /\ ToDesk(f, Pt(RightOf(m), BottomOf(m))) \in Points
  BY <1>1, DeskOf
<1> QED
  BY <1>2 DEF DeskRect, Rect, Rects, Points

LEMMA BothHold ==
  ASSUME NEW r \in Rects, NEW s \in Rects, NEW v \in Points, Holds(r, v), Holds(s, v)
  PROVE  Intersects(r, s)
BY DEF Rects, Points, Holds, Intersects, RightOf, BottomOf

-----------------------------------------------------------------------------
(* The desks under each step. *)

LEMMA KnowKept ==
  ASSUME WillKnow, LaidOut, UNCHANGED <<real, watched, hubq, eScreens, ePositions, eSizes>>, UNCHANGED desk
  PROVE  WillKnow' /\ LaidOut'
<1>1. HubDesk' = HubDesk /\ RouterDesk' = RouterDesk /\ hubq' = hubq
  BY DEF HubDesk, RouterDesk, desk
<1>2. WillKnow'
  BY <1>1 DEF WillKnow
<1>3. LaidOut'
  BY DEF LaidOut, Placed, desk
<1> QED
  BY <1>2, <1>3

LEMMA LaidOutKept == ASSUME LaidOut, UNCHANGED desk PROVE LaidOut' /\ RouterDesk' = RouterDesk
BY DEF LaidOut, Placed, desk, RouterDesk

LEMMA KnowTold ==
  ASSUME TypeInv, WillKnow, NEW e \in HubEvents,
         hubq' = Append(hubq, e), HubDesk' = After(HubDesk, e), RouterDesk' = RouterDesk
  PROVE  WillKnow'
<1>1. hubq \in Seq(HubEvents) /\ HubDesk \in Desks /\ RouterDesk \in Desks
  BY DesksTyped DEF TypeInv, HubTyped
<1>2. Knowing(Append(hubq, e), RouterDesk, After(HubDesk, e))
  BY <1>1, Telling DEF WillKnow
<1> QED
  BY <1>2 DEF WillKnow

LEMMA KnowHeard ==
  ASSUME TypeInv, WillKnow, hubq # <<>>,
         hubq' = Tail(hubq), HubDesk' = HubDesk, RouterDesk' = After(RouterDesk, Head(hubq))
  PROVE  WillKnow'
<1>1. hubq \in Seq(HubEvents) /\ HubDesk \in Desks /\ RouterDesk \in Desks
  BY DesksTyped DEF TypeInv, HubTyped
<1>2. Knowing(Tail(hubq), After(RouterDesk, Head(hubq)), HubDesk)
  BY <1>1, Hearing DEF WillKnow
<1> QED
  BY <1>2 DEF WillKnow

LEMMA ReportedKnow ==
  ASSUME TypeInv, WillKnow, LaidOut, NEW c \in Clients, Reported(c)
  PROVE  WillKnow' /\ LaidOut'
<1>1. PICK list \in Reports[c] :
        /\ real' = [real EXCEPT ![c] = Sanitize(list)]
        /\ Tell([ev |-> "connected", name |-> c, mons |-> Sanitize(list)])
  BY DEF Reported
<1> DEFINE m == Sanitize(list)
           e == [ev |-> "connected", name |-> c, mons |-> m]
<1>2. m \in MonitorLists
  BY PointerAssumption, SaneOf
<1>3. HubDesk \in Desks
  BY DesksTyped DEF TypeInv
<1> HIDE DEF m
<1>4. e \in HubEvents /\ After(HubDesk, e) = [HubDesk EXCEPT !.mons = [@ EXCEPT ![c] = m]]
  BY <1>2, <1>3, AfterConnected
<1>5. real' = [real EXCEPT ![c] = m] /\ hubq' = Append(hubq, e)
  BY <1>1 DEF Tell, m
<1>6. HubDesk' = [HubDesk EXCEPT !.mons = [@ EXCEPT ![c] = m]]
  BY <1>5 DEF HubDesk, Reported, editor
<1>7. UNCHANGED desk
  BY DEF Reported
<1> HIDE DEF e
<1> QED
  BY <1>4, <1>5, <1>6, <1>7, KnowTold, LaidOutKept

LEMMA UnregisterKnow ==
  ASSUME TypeInv, WillKnow, LaidOut, NEW c \in Clients, Unregister(c)
  PROVE  WillKnow' /\ LaidOut'
<1> DEFINE e == [ev |-> "gone", name |-> c]
<1>3. HubDesk \in Desks
  BY DesksTyped DEF TypeInv
<1>4. e \in HubEvents /\ After(HubDesk, e) = [HubDesk EXCEPT !.mons = [@ EXCEPT ![c] = <<>>]]
  BY <1>3, AfterGone
<1>5. real' = [real EXCEPT ![c] = <<>>] /\ hubq' = Append(hubq, e)
  BY DEF Unregister, Tell
<1>6. HubDesk' = [HubDesk EXCEPT !.mons = [@ EXCEPT ![c] = <<>>]]
  BY <1>5 DEF HubDesk, Unregister, editor
<1>7. UNCHANGED desk
  BY DEF Unregister
<1> HIDE DEF e
<1> QED
  BY <1>4, <1>5, <1>6, <1>7, KnowTold, LaidOutKept

LEMMA WatchLocalKnow ==
  ASSUME TypeInv, WillKnow, LaidOut, WatchLocal
  PROVE  WillKnow' /\ LaidOut'
<1> DEFINE e == [ev |-> "local", mons |-> screen]
<1>2. e \in HubEvents /\ e.ev = "local" /\ e.mons = screen
  BY DEF HubEvents, TypeInv, XTyped
<1>3. HubDesk \in Desks
  BY DesksTyped DEF TypeInv
<1>5. watched' = screen /\ hubq' = Append(hubq, e)
  BY DEF WatchLocal, Tell
<1> HIDE DEF e
<1>4. After(HubDesk, e) = [HubDesk EXCEPT !.local = e.mons]
  BY <1>2, <1>3, AfterOther
<1>6. HubDesk' = [HubDesk EXCEPT !.local = e.mons]
  BY <1>2, <1>5 DEF HubDesk, WatchLocal, editor
<1>7. UNCHANGED desk
  BY DEF WatchLocal
<1> QED
  BY <1>2, <1>4, <1>5, <1>6, <1>7, KnowTold, LaidOutKept

LEMMA AddScreenKnow ==
  ASSUME TypeInv, WillKnow, LaidOut, NEW c \in Clients, AddScreen(c)
  PROVE  WillKnow' /\ LaidOut'
<1> DEFINE e == [ev |-> "added", name |-> c]
<1>2. e \in HubEvents /\ e.ev = "added" /\ e.name = c
  BY DEF HubEvents
<1>3. HubDesk \in Desks
  BY DesksTyped DEF TypeInv
<1>5. eScreens' = Append(eScreens, c) /\ hubq' = Append(hubq, e)
  BY DEF AddScreen, Tell
<1> HIDE DEF e
<1>4. After(HubDesk, e) = [HubDesk EXCEPT !.screens = Append(@, e.name)]
  BY <1>2, <1>3, AfterOther
<1>6. HubDesk' = [HubDesk EXCEPT !.screens = Append(@, e.name)]
  <2>1. eScreens' = Append(eScreens, e.name) /\ UNCHANGED <<real, watched, ePositions, eSizes>>
    BY <1>2, <1>5 DEF AddScreen
  <2>2. HubDesk' = [screens |-> eScreens', mons |-> real', local |-> watched', positions |-> ePositions', sizes |-> eSizes']
    BY DEF HubDesk
  <2> DEFINE all == Append(eScreens, e.name)
  <2>3. Append(HubDesk.screens, e.name) = all
    BY DEF HubDesk
  <2>4. eScreens' = all
    BY <2>1
  <2> HIDE DEF all
  <2>5. [HubDesk EXCEPT !.screens = all]
          = [screens |-> all, mons |-> real, local |-> watched, positions |-> ePositions, sizes |-> eSizes]
    BY DEF HubDesk
  <2>6. HubDesk' = [HubDesk EXCEPT !.screens = all]
    BY <2>1, <2>2, <2>4, <2>5
  <2> QED
    BY <2>3, <2>6
<1>7. UNCHANGED desk
  BY DEF AddScreen
<1> QED
  BY <1>2, <1>4, <1>5, <1>6, <1>7, KnowTold, LaidOutKept

(* apply_layout tells of the sizes and of the positions. *)
LEMMA ApplyLayoutKnow ==
  ASSUME TypeInv, TypeInv', WillKnow, LaidOut, NEW edit \in Edits, ApplyLayout(edit)
  PROVE  WillKnow' /\ LaidOut'
<1> DEFINE e == [ev |-> "sizes", sizes |-> eSizes']
           f == [ev |-> "positions", at |-> ePositions']
           half == [HubDesk EXCEPT !.sizes = e.sizes]
<1>1. eSizes' \in SizeTables /\ ePositions' \in Positions
  BY DEF TypeInv, EditorTyped
<1>2. e \in HubEvents /\ e.ev = "sizes" /\ e.sizes = eSizes' /\ f \in HubEvents /\ f.ev = "positions" /\ f.at = ePositions'
  BY <1>1 DEF HubEvents
<1>3. HubDesk \in Desks /\ RouterDesk \in Desks /\ hubq \in Seq(HubEvents)
  BY DesksTyped DEF TypeInv, HubTyped
<1>4. hubq' = Append(Append(hubq, e), f)
  <2>1. hubq' = hubq \o <<e, f>>
    BY DEF ApplyLayout
  <2> HIDE DEF e, f
  <2>2. hubq \o <<e, f>> = Append(Append(hubq, e), f)
    BY <1>2, <1>3
  <2> QED
    BY <2>1, <2>2
<1> HIDE DEF e, f
<1>5. half \in Desks
  BY <1>1, <1>2, <1>3 DEF Desks
<1>6. HubDesk' = [half EXCEPT !.positions = f.at]
  <2>1. eScreens' = eScreens /\ real' = real /\ watched' = watched
    BY DEF ApplyLayout
  <2>2. half = [screens |-> eScreens, mons |-> real, local |-> watched, positions |-> ePositions, sizes |-> e.sizes]
    BY DEF HubDesk
  <2> HIDE DEF half
  <2>3. [half EXCEPT !.positions = f.at]
          = [screens |-> eScreens, mons |-> real, local |-> watched, positions |-> f.at, sizes |-> e.sizes]
    BY <2>2
  <2>4. HubDesk' = [screens |-> eScreens', mons |-> real', local |-> watched', positions |-> ePositions', sizes |-> eSizes']
    BY DEF HubDesk
  <2> QED
    BY <1>2, <2>1, <2>3, <2>4
<1>7. After(HubDesk, e) = half
  BY <1>2, <1>3, AfterOther
<1> HIDE DEF half
<1>8. After(half, f) = [half EXCEPT !.positions = f.at]
  BY <1>2, <1>5, AfterOther
<1>9. Knowing(Append(hubq, e), RouterDesk, half)
  BY <1>2, <1>3, <1>7, Telling DEF WillKnow
<1>10. Append(hubq, e) \in Seq(HubEvents)
  BY <1>2, <1>3
<1>11. Knowing(Append(Append(hubq, e), f), RouterDesk, After(half, f))
  BY <1>2, <1>3, <1>5, <1>9, <1>10, Telling
<1>12. UNCHANGED desk
  BY DEF ApplyLayout
<1>13. LaidOut' /\ RouterDesk' = RouterDesk
  BY <1>12, LaidOutKept
<1> QED
  BY <1>4, <1>6, <1>8, <1>11, <1>13 DEF WillKnow

LEMMA RefreshedIs ==
  ASSUME NEW screens, NEW mons, NEW local, NEW positions, NEW sizes,
         Refreshed(screens, mons, local, positions, sizes)
  PROVE  /\ LaidOut' /\ links' = links
         /\ RouterDesk' = [screens |-> screens, mons |-> mons, local |-> local, positions |-> positions, sizes |-> sizes]
BY DEF Refreshed, LaidOut, RouterDesk, Placed

LEMMA HubEventKnow ==
  ASSUME TypeInv, WillKnow, LaidOut, HubEvent
  PROVE  WillKnow' /\ LaidOut' /\ links' = links
<1> DEFINE e == Head(hubq)
<1>1. hubq \in Seq(HubEvents) /\ hubq # <<>> /\ hubq' = Tail(hubq) /\ e \in HubEvents /\ Applied(e)
  BY DEF TypeInv, HubTyped, HubEvent
<1>2. HubDesk' = HubDesk
  BY DEF HubDesk, HubEvent, editor
<1>3. RouterDesk \in Desks
  BY DesksTyped DEF TypeInv
<1> HIDE DEF e
<1>4. RouterDesk' = After(RouterDesk, e) /\ LaidOut' /\ links' = links
  <2>1. CASE e.ev = "connected" /\ Refreshed(rScreens, [rMons EXCEPT ![e.name] = e.mons], rLocal, rPositions, rSizes)
    <3>1. PICK c \in Clients, m \in MonitorLists : e = [ev |-> "connected", name |-> c, mons |-> m]
      BY <1>1, <2>1 DEF HubEvents
    <3>4. After(RouterDesk, [ev |-> "connected", name |-> c, mons |-> m]) = [RouterDesk EXCEPT !.mons = [@ EXCEPT ![c] = m]]
      BY <1>3, AfterConnected
    <3>5. e.name = c /\ e.mons = m
      BY <3>1
    <3>2. After(RouterDesk, e) = [RouterDesk EXCEPT !.mons = [@ EXCEPT ![e.name] = e.mons]]
      BY <3>1, <3>4, <3>5
    <3>3. /\ LaidOut' /\ links' = links
          /\ RouterDesk' = [screens |-> rScreens, mons |-> [rMons EXCEPT ![e.name] = e.mons], local |-> rLocal,
                            positions |-> rPositions, sizes |-> rSizes]
      BY <2>1, RefreshedIs
    <3> QED
      BY <3>2, <3>3 DEF RouterDesk
  <2>2. CASE e.ev = "gone" /\ ClientGone(e.name)
    <3>1. e.name \in Clients /\ e = [ev |-> "gone", name |-> e.name]
      BY <1>1, <2>2 DEF HubEvents
    <3>2. After(RouterDesk, e) = [RouterDesk EXCEPT !.mons = [@ EXCEPT ![e.name] = <<>>]]
      BY <1>3, <3>1, AfterGone
    <3>3. Refreshed(rScreens, [rMons EXCEPT ![e.name] = <<>>], rLocal, rPositions, rSizes)
      BY <2>2 DEF ClientGone
    <3>4. /\ LaidOut' /\ links' = links
          /\ RouterDesk' = [screens |-> rScreens, mons |-> [rMons EXCEPT ![e.name] = <<>>], local |-> rLocal,
                            positions |-> rPositions, sizes |-> rSizes]
      BY <3>3, RefreshedIs
    <3> QED
      BY <3>2, <3>4 DEF RouterDesk
  <2>3. CASE e.ev = "positions" /\ Refreshed(rScreens, rMons, rLocal, e.at, rSizes)
    <3>1. After(RouterDesk, e) = [RouterDesk EXCEPT !.positions = e.at]
      BY <1>1, <1>3, <2>3, AfterOther
    <3>2. /\ LaidOut' /\ links' = links
          /\ RouterDesk' = [screens |-> rScreens, mons |-> rMons, local |-> rLocal, positions |-> e.at, sizes |-> rSizes]
      BY <2>3, RefreshedIs
    <3> QED
      BY <3>1, <3>2 DEF RouterDesk
  <2>4. CASE e.ev = "sizes" /\ Refreshed(rScreens, rMons, rLocal, rPositions, e.sizes)
    <3>1. After(RouterDesk, e) = [RouterDesk EXCEPT !.sizes = e.sizes]
      BY <1>1, <1>3, <2>4, AfterOther
    <3>2. /\ LaidOut' /\ links' = links
          /\ RouterDesk' = [screens |-> rScreens, mons |-> rMons, local |-> rLocal, positions |-> rPositions, sizes |-> e.sizes]
      BY <2>4, RefreshedIs
    <3> QED
      BY <3>1, <3>2 DEF RouterDesk
  <2>5. CASE e.ev = "added" /\ Refreshed(Append(rScreens, e.name), rMons, rLocal, rPositions, rSizes)
    <3>1. After(RouterDesk, e) = [RouterDesk EXCEPT !.screens = Append(@, e.name)]
      BY <1>1, <1>3, <2>5, AfterOther
    <3>2. /\ LaidOut' /\ links' = links
          /\ RouterDesk' = [screens |-> Append(rScreens, e.name), mons |-> rMons, local |-> rLocal,
                            positions |-> rPositions, sizes |-> rSizes]
      BY <2>5, RefreshedIs
    <3> QED
      BY <3>1, <3>2 DEF RouterDesk
  <2>6. CASE e.ev = "local" /\ LocalMonitors(e.mons)
    <3>1. After(RouterDesk, e) = [RouterDesk EXCEPT !.local = e.mons]
      BY <1>1, <1>3, <2>6, AfterOther
    <3>2. CASE e.mons = rLocal
      <4>1. UNCHANGED desk
        BY <2>6, <3>2 DEF LocalMonitors
      <4>2. LaidOut' /\ RouterDesk' = RouterDesk /\ links' = links
        BY <4>1, LaidOutKept DEF desk
      <4> QED
        BY <3>1, <3>2, <4>2 DEF RouterDesk
    <3>3. CASE e.mons # rLocal
      <4>1. Refreshed(rScreens, rMons, e.mons, rPositions, rSizes)
        BY <2>6, <3>3 DEF LocalMonitors
      <4>2. /\ LaidOut' /\ links' = links
            /\ RouterDesk' = [screens |-> rScreens, mons |-> rMons, local |-> e.mons, positions |-> rPositions, sizes |-> rSizes]
        BY <4>1, RefreshedIs
      <4> QED
        BY <3>1, <4>2 DEF RouterDesk
    <3> QED
      BY <3>2, <3>3
  <2> QED
    BY <1>1, <2>1, <2>2, <2>3, <2>4, <2>5, <2>6 DEF Applied
<1>5. WillKnow'
  BY <1>1, <1>2, <1>4, KnowHeard DEF e
<1> QED
  BY <1>4, <1>5

(* Whatever the step, the router will know, and its origins are those of what it holds. *)
LEMMA KnowNext == ASSUME TypeInv, TypeInv', WillKnow, LaidOut, [Next]_vars PROVE WillKnow' /\ LaidOut'
<1>1. CASE \E d \in Vectors : HandMoves(d)
  BY <1>1, KnowKept DEF HandMoves, hub, editor
<1>2. CASE HandPressesHotkey
  BY <1>2, KnowKept DEF HandPressesHotkey, hub, editor
<1>3. CASE GrabPointer \/ GrabRest \/ Ungrab
  BY <1>3, KnowKept DEF GrabPointer, GrabRest, Ungrab, hub, editor
<1>4. CASE XEvent \/ Sample
  BY <1>4, KnowKept DEF XEvent, Sample, hub, editor
<1>5. CASE ScreenChanges \/ Look
  BY <1>5, KnowKept DEF ScreenChanges, Look, hub, editor
<1>6. CASE WatchLocal
  BY <1>6, WatchLocalKnow
<1>7. CASE \E c \in Clients : Reported(c) \/ Unregister(c) \/ AddScreen(c)
  BY <1>7, ReportedKnow, UnregisterKnow, AddScreenKnow
<1>8. CASE \E edit \in Edits : ApplyLayout(edit)
  BY <1>8, ApplyLayoutKnow
<1>9. CASE HubEvent
  BY <1>9, HubEventKnow
<1>10. CASE CaptureEvent
  BY <1>10, KnowKept DEF CaptureEvent, hub, editor
<1>11. CASE UNCHANGED vars
  BY <1>11, KnowKept DEF vars, hub, editor
<1> QED
  BY <1>1, <1>2, <1>3, <1>4, <1>5, <1>6, <1>7, <1>8, <1>9, <1>10, <1>11 DEF Next

-----------------------------------------------------------------------------
(* Who is here is listed, and what was accepted stays so. *)

LEMMA ListedNext == ASSUME TypeInv, ListedOnly, [Next]_vars PROVE ListedOnly'
<1>1. CASE UNCHANGED <<real, eScreens>>
  BY <1>1 DEF ListedOnly
<1>2. CASE \E c \in Clients : Reported(c)
  <2>1. PICK c \in Clients : Reported(c)
    BY <1>2
  <2>2. c \in ToSet(eScreens) /\ eScreens' = eScreens /\ \A d \in Clients \ {c} : real'[d] = real[d]
    BY <2>1 DEF Reported, editor, TypeInv, HubTyped, MonitorTables
  <2> QED
    BY <2>2 DEF ListedOnly
<1>3. CASE \E c \in Clients : Unregister(c)
  <2>1. PICK c \in Clients : Unregister(c)
    BY <1>3
  <2>2. eScreens' = eScreens /\ \A d \in Clients : real'[d] \in {real[d], <<>>}
    BY <2>1 DEF Unregister, editor, TypeInv, HubTyped, MonitorTables
  <2> QED
    BY <2>2 DEF ListedOnly
<1>4. CASE \E c \in Clients : AddScreen(c)
  <2>1. PICK c \in Clients : AddScreen(c)
    BY <1>4
  <2>2. real' = real /\ eScreens' = Append(eScreens, c) /\ eScreens \in Seq(Machines) /\ c \in Machines
    BY <2>1 DEF AddScreen, TypeInv, EditorTyped, Machines
  <2>3. ToSet(eScreens) \subseteq ToSet(eScreens')
    BY <2>2 DEF ToSet
  <2> QED
    BY <2>2, <2>3 DEF ListedOnly
<1>5. [Next]_vars /\ ~ (\E c \in Clients : Reported(c) \/ Unregister(c) \/ AddScreen(c)) => UNCHANGED <<real, eScreens>>
  BY DEF Next, vars, HandMoves, HandPressesHotkey, GrabPointer, GrabRest, Ungrab, XEvent, Sample, ScreenChanges,
         WatchLocal, Look, ApplyLayout, HubEvent, CaptureEvent, hub, editor
<1> QED
  BY <1>1, <1>2, <1>3, <1>4, <1>5

LEMMA SeesHere ==
  ASSUME NEW n, Live(n)
  PROVE  ViewMons(n) = IF n = Local THEN watched ELSE real[n]
BY DEF Live, ViewMons

(* What fits goes on fitting while nobody who is here changes. *)
LEMMA FitsKept ==
  ASSUME NEW at, NEW sizes, Fits(at, sizes), ePositions' = at, eSizes' = sizes, Here' \subseteq Here,
         watched' = watched, \A n \in Here' : n # Local => real'[n] = real[n]
  PROVE  Fits(ePositions, eSizes)'
<1>1. \A n \in Here' : ViewMons(n)' = ViewMons(n)
  BY DEF Here, Live, ViewMons
<1>2. \A a, b \in Here : a # b =>
        \A x \in ToSet(ViewMons(a)), y \in ToSet(ViewMons(b)) :
          ~ Intersects(DeskRect(FrameOf(at[a], ViewMons(a), sizes[a]), x),
                       DeskRect(FrameOf(at[b], ViewMons(b), sizes[b]), y))
  BY DEF Fits, Here
<1>3. \A a, b \in Here' : a # b =>
        \A x \in ToSet(ViewMons(a)'), y \in ToSet(ViewMons(b)') :
          ~ Intersects(DeskRect(FrameOf(ePositions'[a], ViewMons(a)', eSizes'[a]), x),
                       DeskRect(FrameOf(ePositions'[b], ViewMons(b)', eSizes'[b]), y))
  BY <1>1, <1>2
<1> QED
  BY <1>3 DEF Fits, Here

LEMMA AcceptedKept ==
  ASSUME Accepted, UNCHANGED <<screen, watched, valid, ePositions, eSizes>>,
         Here' \subseteq Here, \A n \in Here' : n # Local => real'[n] = real[n]
  PROVE  Accepted'
<1> SUFFICES ASSUME valid' PROVE screen' = watched' /\ Here' \subseteq DOMAIN ePositions' /\ Fits(ePositions, eSizes)'
  BY DEF Accepted
<1>1. screen = watched /\ Here \subseteq DOMAIN ePositions /\ Fits(ePositions, eSizes)
  BY DEF Accepted
<1>2. Fits(ePositions, eSizes)'
  BY <1>1, FitsKept
<1> QED
  BY <1>1, <1>2

LEMMA AcceptedSame ==
  ASSUME Accepted, UNCHANGED <<screen, watched, valid, ePositions, eSizes, real, eScreens>>
  PROVE  Accepted'
<1>1. Here' = Here
  BY DEF Here, Live
<1> QED
  BY <1>1, AcceptedKept

(* What validate lets through fits: every position is given, and no two rectangles meet. *)
LEMMA AcceptedApply ==
  ASSUME TypeInv, NEW edit \in Edits, ApplyLayout(edit)
  PROVE  Accepted'
<1>1. /\ Fits(NextPositions(edit), NextSizes(edit))
      /\ ePositions' = NextPositions(edit) /\ eSizes' = NextSizes(edit)
      /\ valid' = (screen = watched) /\ UNCHANGED <<screen, watched, real, eScreens>>
  BY DEF ApplyLayout, xserver
<1>2. Here' = Here
  BY <1>1 DEF Here, Live
<1>3. Fits(ePositions, eSizes)'
  BY <1>1, <1>2, FitsKept
<1>4. ToSet(eScreens) \subseteq DOMAIN ePositions'
  <2>1. ViewOrigins \in [ToSet(eScreens) -> Points]
    BY ViewOriginsOf DEF TypeInv
  <2> QED
    BY <1>1, <2>1 DEF NextPositions, Over
<1>5. Here \subseteq ToSet(eScreens)
  BY DEF Here
<1> QED
  BY <1>1, <1>2, <1>3, <1>4, <1>5 DEF Accepted

(* It goes on fitting, or the hub says that somebody changed. *)
LEMMA AcceptedNext == ASSUME TypeInv, Accepted, ListedOnly, [Next]_vars PROVE Accepted'
<1>1. CASE UNCHANGED <<screen, watched, valid, ePositions, eSizes, real, eScreens>>
  BY <1>1, AcceptedSame
<1>2. CASE valid' = FALSE
  BY <1>2 DEF Accepted
<1>3. CASE \E c \in Clients : Unregister(c)
  <2>1. PICK c \in Clients : Unregister(c)
    BY <1>3
  <2>2. /\ UNCHANGED <<screen, watched, valid, ePositions, eSizes, eScreens>>
        /\ real' = [real EXCEPT ![c] = <<>>]
    BY <2>1 DEF Unregister, xserver, editor, history
  <2>3. eScreens \in Seq(Machines) /\ real \in [Clients -> Seq(Monitors)]
    BY DEF TypeInv, EditorTyped, HubTyped, MonitorTables
  <2>4. ASSUME NEW n \in Here' PROVE n \in Here /\ (n # Local => real'[n] = real[n])
    <3>1. n \in ToSet(eScreens) /\ (n = Local \/ real'[n] # <<>>) /\ n \in Machines
      BY <2>2, <2>3 DEF Here, Live, ToSet
    <3>2. n # Local => n \in Clients /\ n # c /\ real'[n] = real[n]
      BY <2>2, <2>3, <3>1 DEF Machines
    <3> QED
      BY <3>1, <3>2 DEF Here, Live
  <2> QED
    BY <2>2, <2>4, AcceptedKept
<1>4. CASE \E c \in Clients : AddScreen(c)
  <2>1. PICK c \in Clients : AddScreen(c)
    BY <1>4
  <2>2. /\ UNCHANGED <<screen, watched, valid, ePositions, eSizes, real>>
        /\ eScreens' = Append(eScreens, c) /\ c \notin ToSet(eScreens)
    BY <2>1 DEF AddScreen, xserver, history
  <2>3. real[c] = <<>> /\ c # Local
    BY <2>2, PointerAssumption DEF ListedOnly
  <2>4. ToSet(eScreens') = ToSet(eScreens) \cup {c}
    <3>1. eScreens \in Seq(Machines) /\ c \in Machines
      BY DEF TypeInv, EditorTyped, Machines
    <3> QED
      BY <2>2, <3>1 DEF ToSet
  <2>5. Here' \subseteq Here
    BY <2>2, <2>3, <2>4 DEF Here, Live
  <2> QED
    BY <2>2, <2>5, AcceptedKept
<1>5. CASE WatchLocal
  <2>1. screen # watched /\ valid' = valid
    BY <1>5 DEF WatchLocal, history
  <2> QED
    BY <2>1 DEF Accepted
<1>6. CASE \E edit \in Edits : ApplyLayout(edit)
  BY <1>6, AcceptedApply
<1>7. CASE ScreenChanges \/ \E c \in Clients : Reported(c)
  BY <1>2, <1>7 DEF ScreenChanges, Reported
<1>8. CASE (\E d \in Vectors : HandMoves(d)) \/ HandPressesHotkey \/ GrabPointer \/ GrabRest \/ Ungrab
  <2>1. UNCHANGED <<screen, watched, valid, ePositions, eSizes, real, eScreens>>
    BY <1>8 DEF HandMoves, HandPressesHotkey, GrabPointer, GrabRest, Ungrab, xserver, hub, editor, history
  <2> QED
    BY <1>1, <2>1
<1>9. CASE XEvent \/ Sample \/ Look \/ HubEvent \/ CaptureEvent \/ UNCHANGED vars
  <2>1. UNCHANGED <<screen, watched, valid, ePositions, eSizes, real, eScreens>>
    BY <1>9 DEF XEvent, Sample, Look, HubEvent, CaptureEvent, vars, xserver, hub, editor, history
  <2> QED
    BY <1>1, <2>1
<1> QED
  BY <1>3, <1>4, <1>5, <1>6, <1>7, <1>8, <1>9 DEF Next

LEMMA DeskInit == Init => DeskInv
<1> SUFFICES ASSUME Init PROVE DeskInv
  OBVIOUS
<1>1. /\ hubq = <<>> /\ rScreens = eScreens /\ rMons = real /\ rLocal = watched /\ rPositions = ePositions /\ rSizes = eSizes
      /\ origins = Placed(eScreens, MonsOf(watched, real), ePositions, eSizes)
      /\ valid = FALSE /\ \A c \in Clients : c \notin ToSet(eScreens) => real[c] = <<>>
  BY DEF Init
<1>2. TypeInv
  BY InitTyped
<1>3. \A about, held : UpToDate(<<>>, about, held, held)
  BY DEF UpToDate
<1>4. Announced(<<>>, eScreens, eScreens)
  <2>1. Len(eScreens) \in Nat
    BY <1>2 DEF TypeInv, EditorTyped
  <2>2. (Len(eScreens) + 1)..Len(eScreens) = {} /\ 1..Len(<<>>) = {}
    BY <2>1
  <2> DEFINE none == <<>>
  <2>3. none \in [(Len(eScreens) + 1)..Len(eScreens) -> 1..Len(<<>>)]
    BY <2>2
  <2>4. AnnouncedAt(<<>>, eScreens, eScreens, none)
    BY <2>2 DEF AnnouncedAt
  <2> HIDE DEF none
  <2> QED
    BY <2>1, <2>3, <2>4 DEF Announced
<1>5. WillKnow
  BY <1>1, <1>3, <1>4 DEF WillKnow, Knowing, HubDesk, RouterDesk
<1> QED
  BY <1>1, <1>5 DEF DeskInv, LaidOut, ListedOnly, Accepted

LEMMA DeskNext == TypeInv /\ TypeInv' /\ DeskInv /\ [Next]_vars => DeskInv'
BY KnowNext, ListedNext, AcceptedNext DEF DeskInv

LEMMA AlwaysDesk == Spec => []DeskInv
BY DeskInit, AlwaysTyped, DeskNext, PTL DEF Spec

-----------------------------------------------------------------------------
(* The router's desk is the editor's. *)

(* The queue becomes empty only when the router reads from it. *)
LEMMA OnlyHubEventEmpties ==
  ASSUME TypeInv, TypeInv', [Next]_vars, hubq # <<>>, hubq' = <<>>
  PROVE  HubEvent
<1>1. \A e \in HubEvents : Append(hubq, e) # <<>>
  BY DEF TypeInv, HubTyped
<1>2. hubq \in Seq(HubEvents)
  BY DEF TypeInv, HubTyped
<1>3. ~ (\E e : hubq' = Append(hubq, e))
  <2> SUFFICES ASSUME NEW e, hubq' = Append(hubq, e) PROVE FALSE
    OBVIOUS
  <2>1. Len(Append(hubq, e)) = Len(hubq) + 1
    BY <1>2
  <2> QED
    BY <1>2, <2>1
<1>4. ~ (\E e, f : hubq' = hubq \o <<e, f>>)
  <2> SUFFICES ASSUME NEW e, NEW f, hubq' = hubq \o <<e, f>> PROVE FALSE
    OBVIOUS
  <2>1. Len(hubq \o <<e, f>>) = Len(hubq) + 2
    BY <1>2
  <2>2. Len(hubq') = Len(hubq) + 2
    BY <2>1
  <2>3. Len(hubq') = 0 /\ Len(hubq) \in Nat
    BY <1>2
  <2> QED
    BY <2>2, <2>3
<1>5. ~ ((\E d \in Vectors : HandMoves(d)) \/ HandPressesHotkey \/ GrabPointer \/ GrabRest \/ Ungrab \/ XEvent)
  BY DEF HandMoves, HandPressesHotkey, GrabPointer, GrabRest, Ungrab, XEvent, hub
<1>6. ~ (Sample \/ ScreenChanges \/ Look \/ CaptureEvent \/ UNCHANGED vars)
  BY DEF Sample, ScreenChanges, Look, CaptureEvent, vars, hub
<1>7. ~ (WatchLocal \/ \E c \in Clients : Reported(c) \/ Unregister(c) \/ AddScreen(c))
  BY <1>3 DEF WatchLocal, Reported, Unregister, AddScreen, Tell
<1>8. ~ (\E edit \in Edits : ApplyLayout(edit))
  BY <1>4 DEF ApplyLayout
<1> QED
  BY <1>5, <1>6, <1>7, <1>8 DEF Next

(* What SameDesk says of a step. *)
SameStep ==
  hubq # <<>> /\ hubq' = <<>> /\ (SizesAgree \/ AllPlaced) =>
    (\A n \in ToSet(eScreens) : Live(n) => ViewOrigins[n] = origins'[n] /\ ViewMons(n) = Mons(n)')

LEMMA SameDeskStep == ASSUME TypeInv, TypeInv', DeskInv, DeskInv', [Next]_vars PROVE SameStep
<1> SUFFICES ASSUME hubq # <<>>, hubq' = <<>>, SizesAgree \/ AllPlaced, NEW n \in ToSet(eScreens), Live(n)
             PROVE  ViewOrigins[n] = origins'[n] /\ ViewMons(n) = Mons(n)'
  BY DEF SameStep
<1>1. HubEvent
  BY OnlyHubEventEmpties
<1>2. links' = links /\ UNCHANGED <<real, watched, eScreens, ePositions, eSizes>>
  BY <1>1, HubEventKnow DEF DeskInv, HubEvent, editor
<1>3. HubDesk' \in Desks /\ RouterDesk' \in Desks
  <2>1. HubDesk \in Desks
    BY DesksTyped DEF TypeInv
  <2>2. HubDesk' = HubDesk
    BY <1>2 DEF HubDesk
  <2>3. DeskTyped'
    BY DEF TypeInv
  <2>4. RouterDesk' \in Desks
    BY <2>3 DEF DeskTyped, RouterDesk, Desks
  <2> QED
    BY <2>1, <2>2, <2>4
<1>4. RouterDesk' = HubDesk'
  <2>1. Knowing(<<>>, RouterDesk', HubDesk')
    BY DEF DeskInv, WillKnow
  <2> QED
    BY <1>3, <2>1, HeardOfEverything
<1>5. rScreens' = eScreens /\ rMons' = real /\ rLocal' = watched /\ rPositions' = ePositions /\ rSizes' = eSizes
  <2>1. /\ RouterDesk'.screens = rScreens' /\ RouterDesk'.mons = rMons' /\ RouterDesk'.local = rLocal'
        /\ RouterDesk'.positions = rPositions' /\ RouterDesk'.sizes = rSizes'
    BY DEF RouterDesk
  <2>2. /\ HubDesk'.screens = eScreens' /\ HubDesk'.mons = real' /\ HubDesk'.local = watched'
        /\ HubDesk'.positions = ePositions' /\ HubDesk'.sizes = eSizes'
    BY DEF HubDesk
  <2> QED
    BY <1>2, <1>4, <2>1, <2>2
<1>6. origins' = Placed(eScreens, MonsOf(watched, real), ePositions, eSizes)
  BY <1>2, <1>5 DEF DeskInv, LaidOut, Placed
<1>7. n \in Machines /\ eScreens \in Seq(Machines)
  BY DEF TypeInv, EditorTyped, ToSet
<1>8. ViewMons(n) = Mons(n)'
  BY <1>5, SeesHere DEF Mons
<1>9. CASE SizesAgree
  <2>1. ASSUME NEW m \in Machines PROVE DeskSize(ViewMons(m), eSizes[m]) = DeskSize(MonsOf(watched, real)[m], eSizes[m])
    <3>1. CASE Live(m)
      <4>1. ViewMons(m) = MonsOf(watched, real)[m]
        BY <3>1, SeesHere DEF MonsOf
      <4> QED
        BY <4>1
    <3>2. CASE ~ Live(m)
      <4>1. MonsOf(watched, real)[m] = <<>>
        BY <3>2 DEF MonsOf, Live
      <4> QED
        BY <1>9, <3>2, <4>1 DEF SizesAgree
    <3> QED
      BY <3>1, <3>2
  <2>2. [m \in Machines |-> DeskSize([k \in Machines |-> ViewMons(k)][m], eSizes[m])]
          = [m \in Machines |-> DeskSize(MonsOf(watched, real)[m], eSizes[m])]
    BY <2>1
  <2>3. ViewOrigins = Placed(eScreens, MonsOf(watched, real), ePositions, eSizes)
    BY <2>2 DEF ViewOrigins, Placed
  <2> QED
    BY <1>6, <1>8, <2>3
<1>10. CASE AllPlaced
  <2>1. n \in DOMAIN ePositions \cap ToSet(eScreens)
    BY <1>10 DEF AllPlaced
  <2>2. ViewOrigins[n] = ePositions[n]
    BY <2>1, ViewOriginsOf DEF TypeInv
  <2>3. /\ Local \in ToSet(eScreens) /\ watched \in Seq(Monitors) /\ real \in MonitorTables
        /\ ePositions \in Positions /\ eSizes \in SizeTables
    BY ScreensOf DEF TypeInv, EditorTyped, HubTyped
  <2>4. origins'[n] = ePositions[n]
    BY <1>6, <1>7, <2>1, <2>3, PlacedOf
  <2> QED
    BY <1>8, <2>2, <2>4
<1> QED
  BY <1>9, <1>10

(* SameDesk: a step that empties the queue leaves the router with the desk the editor shows: *)
(* apply_layout and the hub tell of what changed, in order (admin.rs), and the router works   *)
(* its origins out again at each event (Core::refresh_origins).                               *)
THEOREM SameDeskAlways == Spec => SameDesk
<1>1. TypeInv /\ TypeInv' /\ DeskInv /\ DeskInv' /\ [Next]_vars => [SameStep]_vars
  BY SameDeskStep
<1>2. Spec => [][SameStep]_vars
  BY <1>1, AlwaysTyped, AlwaysDesk, PTL DEF Spec
<1> QED
  BY <1>2 DEF SameDesk, SameStep

-----------------------------------------------------------------------------
(* And no place of it belongs to two. *)

(* A machine that covers a pixel is here, and takes it with one of the rectangles the editor compared. *)
LEMMA CoveredBy ==
  ASSUME TypeInv, DeskInv, Settled, NEW n \in Machines, Exact(n), NEW v \in Covered(n)
  PROVE  /\ n \in Here /\ v \in Points
         /\ \E x \in ToSet(ViewMons(n)) :
              Holds(DeskRect(FrameOf(ePositions[n], ViewMons(n), eSizes[n]), x), v)
              /\ DeskRect(FrameOf(ePositions[n], ViewMons(n), eSizes[n]), x) \in Rects
<1>1. RouterDesk = HubDesk
  BY DesksTyped, HeardOfEverything DEF TypeInv, DeskInv, WillKnow, Settled
<1>2. rScreens = eScreens /\ rMons = real /\ rLocal = watched /\ rPositions = ePositions /\ rSizes = eSizes
  BY <1>1 DEF RouterDesk, HubDesk
<1>3. OnAny(ToLocal(Frame(n), v), Mons(n)) /\ v \in Points
  BY DEF Covered, Points
<1>4. Mons(n) # <<>> /\ Mons(n) \in Seq(Monitors)
  <2>1. Mons(n) \in Seq(Monitors)
    BY FrameTyped DEF TypeInv
  <2>2. ~ OnAny(ToLocal(Frame(n), v), <<>>)
    BY DEF OnAny
  <2> QED
    BY <1>3, <2>1, <2>2
<1>5. Live(n) /\ n \in ToSet(eScreens)
  <2>1. CASE n = Local
    BY <2>1 DEF Live, TypeInv, EditorTyped
  <2>2. CASE n # Local
    <3>1. real[n] # <<>> /\ n \in Clients
      BY <1>2, <1>4, <2>2 DEF Mons, Machines
    <3> QED
      BY <3>1 DEF Live, DeskInv, ListedOnly
  <2> QED
    BY <2>1, <2>2
<1>6. ViewMons(n) = Mons(n)
  BY <1>2, <1>5, SeesHere DEF Mons
<1>7. n \in Here /\ n \in DOMAIN ePositions
  BY <1>5 DEF Here, DeskInv, Accepted, Settled
<1>8. origins[n] = ePositions[n] /\ n \in DOMAIN origins
  <2>1. origins = Placed(eScreens, MonsOf(watched, real), ePositions, eSizes)
    BY <1>2 DEF DeskInv, LaidOut
  <2>2. /\ eScreens \in Seq(Machines) /\ Local \in ToSet(eScreens) /\ watched \in Seq(Monitors) /\ real \in MonitorTables
        /\ ePositions \in Positions /\ eSizes \in SizeTables
    BY ScreensOf DEF TypeInv, EditorTyped, HubTyped
  <2>3. origins \in [ToSet(eScreens) -> Points]
    BY <2>1, <2>2, PlacedOf
  <2> QED
    BY <1>5, <1>7, <2>1, <2>2, <2>3, PlacedOf
<1>9. Frame(n) = FrameOf(ePositions[n], ViewMons(n), eSizes[n])
  BY <1>2, <1>6, <1>8 DEF Frame, OriginOf
<1> DEFINE mons == ViewMons(n)
           o == ePositions[n]
           size == eSizes[n]
<1>10. o \in Points /\ size \in Sizes \cup {NoSize} /\ mons \in MonitorLists /\ (size = NoSize \/ Len(mons) = 1)
  <2>1. o \in Points
    BY <1>7 DEF TypeInv, EditorTyped, Positions
  <2>2. size \in Sizes \cup {NoSize}
    BY DEF TypeInv, EditorTyped, SizeTables
  <2>3. size = NoSize \/ Len(mons) = 1
    BY <1>2, <1>6 DEF Exact
  <2> QED
    BY <1>4, <1>6, <2>1, <2>2, <2>3 DEF MonitorLists
<1>11. OnAny(ToLocal(FrameOf(o, mons, size), v), mons)
  BY <1>3, <1>6, <1>9
<1> HIDE DEF mons, o, size
<1>12. PICK i \in 1..Len(mons) : Holds(DeskRect(FrameOf(o, mons, size), mons[i]), v)
  BY <1>3, <1>10, <1>11, ExactCovers
<1>13. mons[i] \in ToSet(mons) /\ mons[i] \in Monitors
  BY <1>10 DEF ToSet, MonitorLists
<1>14. DeskRect(FrameOf(o, mons, size), mons[i]) \in Rects
  <2>1. FrameOf(o, mons, size) \in Frames
    BY <1>10, FrameIs DEF MonitorLists
  <2> QED
    BY <1>13, <2>1, DeskRectOf
<1> QED
  BY <1>3, <1>7, <1>12, <1>13, <1>14 DEF mons, o, size

(* OnePlaceUnlessRounded: what validate accepted (admin.rs) gives no desk pixel to two         *)
(* machines once the router has read of it, as long as nobody who is here changes.            *)
THEOREM OnePlaceAlways == Spec => []OnePlaceUnlessRounded
<1>1. TypeInv /\ DeskInv => OnePlaceUnlessRounded
  <2> SUFFICES ASSUME TypeInv, DeskInv, Settled, NEW a \in Machines, NEW b \in Machines, a # b, Exact(a), Exact(b), Shared(a, b)
               PROVE  FALSE
    BY DEF OnePlaceUnlessRounded
  <2>1. PICK v \in Covered(a) : v \in Covered(b)
    BY DEF Shared
  <2>2. PICK x \in ToSet(ViewMons(a)) :
          /\ Holds(DeskRect(FrameOf(ePositions[a], ViewMons(a), eSizes[a]), x), v)
          /\ DeskRect(FrameOf(ePositions[a], ViewMons(a), eSizes[a]), x) \in Rects
    BY CoveredBy
  <2>3. PICK y \in ToSet(ViewMons(b)) :
          /\ Holds(DeskRect(FrameOf(ePositions[b], ViewMons(b), eSizes[b]), y), v)
          /\ DeskRect(FrameOf(ePositions[b], ViewMons(b), eSizes[b]), y) \in Rects
    BY <2>1, CoveredBy
  <2>4. a \in Here /\ b \in Here /\ v \in Points
    BY <2>1, CoveredBy
  <2>5. Intersects(DeskRect(FrameOf(ePositions[a], ViewMons(a), eSizes[a]), x),
                   DeskRect(FrameOf(ePositions[b], ViewMons(b), eSizes[b]), y))
    BY <2>2, <2>3, <2>4, BothHold
  <2>6. Fits(ePositions, eSizes)
    BY DEF DeskInv, Accepted, Settled
  <2> QED
    BY <2>2, <2>3, <2>4, <2>5, <2>6 DEF Fits, Here
<1> QED
  BY <1>1, AlwaysTyped, AlwaysDesk, PTL
=============================================================================
