---------------------------- MODULE DeskGeometry ----------------------------
(***************************************************************************)
(* Points, rectangles, and the desk the machines share                     *)
(* (geserdesk-proto geometry.rs, geserdesk-server desk.rs, and the link    *)
(* table of layout.rs).  A machine's monitors are a sequence of rectangles *)
(* in its own coordinates; an origin, and a stretch, put them on the desk. *)
(*                                                                         *)
(* The code stretches in f64; here the stretch is the exact ratio of two   *)
(* integers.                                                               *)
(***************************************************************************)
EXTENDS Integers, Sequences, FiniteSets, FiniteSetsExt

CONSTANT DefaultSize,   \* of a machine whose monitors are not known
         NoSize         \* no desk size of its own

Points == [x : Int, y : Int]
Rects == [x : Int, y : Int, w : Int, h : Int]
Sizes == [w : Nat \ {0}, h : Nat \ {0}]
Monitors == {r \in Rects : r.w > 0 /\ r.h > 0}
MonitorLists == Seq(Monitors) \ {<<>>}

ASSUME GeometryAssumption == DefaultSize \in Sizes

Edges == <<"left", "right", "top", "bottom">>
ToSet(s) == {s[i] : i \in 1..Len(s)}
(* The elements of s that are in S, in their order. *)
Among(s, S) ==
  LET kept[i \in 0..Len(s)] ==
        IF i = 0 THEN <<>> ELSE IF s[i] \in S THEN Append(kept[i - 1], s[i]) ELSE kept[i - 1]
  IN kept[Len(s)]
Only(k, v) == [x \in {k} |-> v]
Over(f, g) == [x \in DOMAIN f \cup DOMAIN g |-> IF x \in DOMAIN f THEN f[x] ELSE g[x]]
(* min_by_key: the first place of the smallest of d. *)
FirstLeast(d) == CHOOSE i \in DOMAIN d : \A j \in DOMAIN d : d[i] < d[j] \/ (d[i] = d[j] /\ i <= j)

Pt(x, y) == [x |-> x, y |-> y]
Rect(x, y, w, h) == [x |-> x, y |-> y, w |-> w, h |-> h]
RightOf(r) == r.x + r.w
BottomOf(r) == r.y + r.h

Holds(r, p) == p.x \in r.x..(RightOf(r) - 1) /\ p.y \in r.y..(BottomOf(r) - 1)
OnWhich(p, mons) == mons[CHOOSE i \in 1..Len(mons) : Holds(mons[i], p)
                                        /\ \A j \in 1..(i - 1) : ~ Holds(mons[j], p)]
OnAny(p, mons) == \E i \in 1..Len(mons) : Holds(mons[i], p)
Within(v, lo, hi) == IF v < lo THEN lo ELSE IF v > hi THEN hi ELSE v
ClampTo(r, p) == Pt(Within(p.x, r.x, RightOf(r) - 1), Within(p.y, r.y, BottomOf(r) - 1))
CenterOf(r) == Pt(r.x + r.w \div 2, r.y + r.h \div 2)

UnionAll(mons) ==
  LET R == ToSet(mons)
      l == Min({r.x : r \in R})
      t == Min({r.y : r \in R})
  IN Rect(l, t, Max({RightOf(r) : r \in R}) - l, Max({BottomOf(r) : r \in R}) - t)

Dist2(p, q) == (p.x - q.x) * (p.x - q.x) + (p.y - q.y) * (p.y - q.y)

(* nearest_point: on the first of the closest monitors. *)
NearestPoint(p, mons) ==
  ClampTo(mons[FirstLeast([i \in 1..Len(mons) |-> Dist2(ClampTo(mons[i], p), p)])], p)

InsetClamp(p, r, inset) ==
  LET axis(v, lo, len, c) == IF len > 2 * inset + 1 THEN Within(v, lo + inset, lo + len - 1 - inset) ELSE c
  IN Pt(axis(p.x, r.x, r.w, CenterOf(r).x), axis(p.y, r.y, r.h, CenterOf(r).y))

-----------------------------------------------------------------------------
(* Frame: round is half away from zero; the way back takes the floor. *)

Bounds(mons) == IF mons = <<>> THEN Rect(0, 0, DefaultSize.w, DefaultSize.h) ELSE UnionAll(mons)
FrameOf(origin, mons, size) ==
  LET span == Bounds(mons)
  IN [origin |-> origin, base |-> Pt(span.x, span.y), have |-> [w |-> span.w, h |-> span.h],
      want |-> IF size = NoSize THEN [w |-> span.w, h |-> span.h] ELSE size]

Rounded(a, b) == IF a >= 0 THEN (2 * a + b) \div (2 * b) ELSE - ((b - 2 * a) \div (2 * b))

ToDesk(f, p) ==
  Pt(f.origin.x + f.base.x + Rounded((p.x - f.base.x) * f.want.w, f.have.w),
     f.origin.y + f.base.y + Rounded((p.y - f.base.y) * f.want.h, f.have.h))

ToLocal(f, v) ==
  Pt(f.base.x + ((v.x - f.origin.x - f.base.x) * f.have.w) \div f.want.w,
     f.base.y + ((v.y - f.origin.y - f.base.y) * f.have.h) \div f.want.h)

DeskRect(f, m) ==
  LET lo == ToDesk(f, Pt(m.x, m.y))
      hi == ToDesk(f, Pt(RightOf(m), BottomOf(m)))
  IN Rect(lo.x, lo.y, hi.x - lo.x, hi.y - lo.y)

Intersects(a, b) == a.x < RightOf(b) /\ b.x < RightOf(a) /\ a.y < BottomOf(b) /\ b.y < BottomOf(a)

DeskSize(mons, size) ==
  IF size # NoSize THEN size ELSE [w |-> Bounds(mons).w, h |-> Bounds(mons).h]

-----------------------------------------------------------------------------
(* The links of a config: per screen, the screen beyond each edge.  Every screen they name *)
(* must be listed, or the config is refused; one that joins later has none.               *)

LinksAreListed(listed, entries) ==
  \A a \in DOMAIN entries : DOMAIN entries[a] # {} => {a} \cup {entries[a][e] : e \in DOMAIN entries[a]} \subseteq listed
LinksOf(entries) == [a \in {n \in DOMAIN entries : DOMAIN entries[n] # {}} |-> entries[a]]

(* effective_origins: configured, else beside a neighbour by the links, else in a row. *)

Beside(o, edge, mine, its) ==
  CASE edge = "right"  -> Pt(o.x + mine.w, o.y)
    [] edge = "left"   -> Pt(o.x - its.w, o.y)
    [] edge = "bottom" -> Pt(o.x, o.y + mine.h)
    [] edge = "top"    -> Pt(o.x, o.y - its.h)

(* The screens in the order they are reached: each places its unplaced neighbours, edge by *)
(* edge (four turns a screen).                                                             *)
Linked(order, links, start, size) ==
  LET turn[k \in 0..(4 * Len(order))] ==
        IF k = 0 THEN [placed |-> start, queue |-> Among(order, DOMAIN start)]
        ELSE LET at == turn[k - 1]
                 mine == at.queue[(k + 3) \div 4]
                 edge == Edges[1 + ((k - 1) % 4)]
                 beside == links[mine][edge]
             IN IF \/ (k + 3) \div 4 > Len(at.queue)
                   \/ mine \notin DOMAIN links \/ edge \notin DOMAIN links[mine]
                   \/ beside \in DOMAIN at.placed \/ beside \notin ToSet(order)
                  THEN at
                  ELSE [placed |-> Over(Only(beside, Beside(at.placed[mine], edge, size[mine], size[beside])), at.placed),
                        queue |-> Append(at.queue, beside)]
  IN turn[4 * Len(order)].placed

InARow(order, placed, size) ==
  LET placedHere == ToSet(order) \cap DOMAIN placed
      right == IF placedHere = {} THEN 0 ELSE Max({placed[n].x + size[n].w : n \in placedHere})
      put[i \in 0..Len(order)] ==
        IF i = 0 THEN [placed |-> placed, right |-> right]
        ELSE IF order[i] \in DOMAIN placed THEN put[i - 1]
        ELSE [placed |-> Over(Only(order[i], Pt(put[i - 1].right, 0)), put[i - 1].placed),
              right |-> put[i - 1].right + size[order[i]].w]
  IN put[Len(order)].placed

EffectiveOrigins(order, local, links, configured, size) ==
  LET kept == [n \in DOMAIN configured \cap ToSet(order) |-> configured[n]]
      start == Over(kept, Only(local, Pt(0, 0)))
  IN InARow(order, Linked(order, links, start, size), size)

-----------------------------------------------------------------------------
(* Where the pointer is on a monitor (router.rs). *)

AtEdge(r, p, edge, jump) ==
  CASE edge = "left"   -> p.x < r.x + jump
    [] edge = "right"  -> p.x >= RightOf(r) - jump
    [] edge = "top"    -> p.y < r.y + jump
    [] edge = "bottom" -> p.y >= BottomOf(r) - jump

StepTo(p, edge, n) ==
  CASE edge = "left"   -> Pt(p.x - n, p.y)
    [] edge = "right"  -> Pt(p.x + n, p.y)
    [] edge = "top"    -> Pt(p.x, p.y - n)
    [] edge = "bottom" -> Pt(p.x, p.y + n)

NearCorner(r, p, edge, corner) ==
  \/ corner <= 0
  \/ LET along == IF edge \in {"left", "right"} THEN <<p.y, r.y, BottomOf(r)>> ELSE <<p.x, r.x, RightOf(r)>>
     IN along[1] - along[2] < corner \/ along[3] - 1 - along[1] < corner
=============================================================================
