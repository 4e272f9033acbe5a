------------------------------- MODULE Delatin -------------------------------
(***************************************************************************)
(* RasterReprojector: the refinement of the mesh that warps a tile         *)
(* (packages/raster-reproject/src/delatin.ts).                             *)
(*                                                                         *)
(* The texture is Side lattice units wide and high; points are exact where *)
(* the code has doubles.  The reprojection functions are external: the     *)
(* error they give at a sample point is an arbitrary function of the place *)
(* of the point, in sixths of a unit, of which Warps holds some.           *)
(* Vertices, triangles and half-edges count from 0 as in the code, places  *)
(* in the queue from 1 with 0 for a triangle that is not in it.            *)
(***************************************************************************)
EXTENDS Integers, Sequences, FiniteSets, SequencesExt

CONSTANTS
  Side,
  Warps,         \* [a, b, c, m]: the error at <<u, v>> is (au + bv + cuv) mod m
  MaxError,      \* the maxError argument of run
  MaxIterations  \* its maxIterations option

VARIABLES
  warp,
  mesh,       \* the fields of the object
  iterations  \* refinements so far

meshVars == <<warp, mesh, iterations>>

\* The vertices of triangle t and the half-edges after and before a.
Corners(m, t) == <<m.triangles[3 * t], m.triangles[3 * t + 1], m.triangles[3 * t + 2]>>
After(a) == a - (a % 3) + ((a + 1) % 3)
Before(a) == a - (a % 3) + ((a + 2) % 3)
Triangles(m) == 0..(Cardinality(DOMAIN m.triangles) \div 3 - 1)

orient(a, b, c) == (b[1] - c[1]) * (a[2] - c[2]) - (b[2] - c[2]) * (a[1] - c[1])

inCircle(a, b, c, p) ==
  LET dx == a[1] - p[1]  dy == a[2] - p[2]
      ex == b[1] - p[1]  ey == b[2] - p[2]
      fx == c[1] - p[1]  fy == c[2] - p[2]
      ap == dx * dx + dy * dy
      bp == ex * ex + ey * ey
      cp == fx * fx + fy * fy
  IN dx * (ey * cp - bp * fy) - dy * (ex * cp - bp * fx) + ap * (ex * fy - ey * fx) < 0

-----------------------------------------------------------------------------
(* The priority queue: triangles, their errors, and the place of each.     *)

queueLess(q, i, j) == q.errors[i] > q.errors[j]

queueSwap(q, i, j) ==
  [queue |-> [q.queue EXCEPT ![i] = q.queue[j], ![j] = q.queue[i]],
   errors |-> [q.errors EXCEPT ![i] = q.errors[j], ![j] = q.errors[i]],
   place |-> [q.place EXCEPT ![q.queue[i]] = j, ![q.queue[j]] = i]]

RECURSIVE queueUp(_, _)
queueUp(q, j) ==
  IF j > 1 /\ queueLess(q, j, j \div 2) THEN queueUp(queueSwap(q, j \div 2, j), j \div 2) ELSE q

\* Down among the first n.
RECURSIVE queueDown(_, _, _)
queueDown(q, i, n) ==
  LET left == 2 * i
      j == IF left + 1 <= n /\ queueLess(q, left + 1, left) THEN left + 1 ELSE left
  IN IF left <= n /\ queueLess(q, j, i) THEN queueDown(queueSwap(q, i, j), j, n) ELSE q

queuePopBack(q) ==
  [queue |-> Front(q.queue), errors |-> Front(q.errors), place |-> [q.place EXCEPT ![Last(q.queue)] = 0]]

queuePush(q, t, error) ==
  queueUp([queue |-> Append(q.queue, t), errors |-> Append(q.errors, error),
           place |-> [q.place EXCEPT ![t] = Len(q.queue) + 1]], Len(q.queue) + 1)

queuePop(q) == queuePopBack(queueDown(queueSwap(q, 1, Len(q.queue)), 1, Len(q.queue) - 1))

\* Mutant of queueTake: what takes the place of the removed one only sinks.
queueTake_Sinks(q, i) ==
  LET n == Len(q.queue) IN queuePopBack(queueDown(queueSwap(q, i, n), i, n - 1))

\* The last one takes the place of the removed one and goes down, or else up.
queueTake(q, i) ==
  LET n == Len(q.queue)
      swapped == queueSwap(q, i, n)
      down == queueDown(swapped, i, n - 1)
  IN queuePopBack(IF i = n THEN q ELSE IF down # swapped THEN down ELSE queueUp(swapped, i))

\* _queueRemove: a triangle that is not queued is pending, and the last of
\* those takes its place.
queueRemove(m, t) ==
  IF m.q.place[t] > 0 THEN [m EXCEPT !.q = queueTake(@, m.q.place[t])]
  ELSE LET at == CHOOSE k \in DOMAIN m.pending : m.pending[k] = t
       IN [m EXCEPT !.pending = Front([@ EXCEPT ![at] = Last(m.pending)])]

-----------------------------------------------------------------------------
(* The half-edges                                                          *)

addTriangle(m, a, b, c, ab, bc, ca, e) ==
  LET new == (e :> ab) @@ ((e + 1) :> bc) @@ ((e + 2) :> ca)
      linked == {k \in {e, e + 1, e + 2} : new[k] >= 0}
      links == [h \in {new[k] : k \in linked} |-> CHOOSE k \in linked : new[k] = h]
  IN [m EXCEPT !.triangles = (e :> a) @@ ((e + 1) :> b) @@ ((e + 2) :> c) @@ @,
               !.halfedges = links @@ new @@ @,
               !.candidatesUV = ((e \div 3) :> <<0, 0>>) @@ @,
               !.q.place = ((e \div 3) :> 0) @@ @,
               !.pending = Append(@, e \div 3)]

\* The first half-edge of the next new triangle.
NewEdge(m) == Cardinality(DOMAIN m.triangles)

\* Flip the edge a where the point across lies in the circumcircle, and go on
\* with the edges beyond.
RECURSIVE legalize(_, _)
legalize(m, a) ==
  LET b == m.halfedges[a]
      a0 == a - (a % 3)           b0 == b - (b % 3)
      p0 == m.triangles[Before(a)] pr == m.triangles[a]
      pl == m.triangles[After(a)]  p1 == m.triangles[Before(b)]
      hal == m.halfedges[After(a)] har == m.halfedges[Before(a)]
      hbl == m.halfedges[Before(b)] hbr == m.halfedges[After(b)]
      taken == queueRemove(queueRemove(m, a0 \div 3), b0 \div 3)
      first == addTriangle(taken, p0, p1, pl, -1, hbl, hal, a0)
      flipped == addTriangle(first, p1, p0, pr, a0, har, hbr, b0)
  IN IF b < 0 THEN m
     ELSE IF ~inCircle(m.uvs[p0 + 1], m.uvs[pr + 1], m.uvs[pl + 1], m.uvs[p1 + 1]) THEN m
     ELSE legalize(legalize(flipped, a0 + 1), b0 + 2)

\* The new vertex pn lies on the edge a, at the border or between two triangles.
handleCollinear(m, pn, a) ==
  LET b == m.halfedges[a]
      a0 == a - (a % 3)            b0 == b - (b % 3)
      p0 == m.triangles[Before(a)]  pr == m.triangles[a]
      pl == m.triangles[After(a)]   p1 == m.triangles[Before(b)]
      hal == m.halfedges[After(a)]  har == m.halfedges[Before(a)]
      hbl == m.halfedges[Before(b)] hbr == m.halfedges[After(b)]
      t2 == NewEdge(m)
      t3 == t2 + 3
      border == addTriangle(addTriangle(m, pn, p0, pr, -1, har, -1, a0), p0, pn, pl, a0, -1, hal, t2)
      m0 == addTriangle(queueRemove(m, b0 \div 3), p0, pr, pn, har, -1, -1, a0)
      m1 == addTriangle(m0, pr, p1, pn, hbr, -1, a0 + 1, b0)
      m2 == addTriangle(m1, p1, pl, pn, hbl, -1, b0 + 1, t2)
      m3 == addTriangle(m2, pl, p0, pn, hal, a0 + 2, t2 + 1, t3)
  IN IF b < 0 THEN legalize(legalize(border, a0 + 1), t2 + 2)
     ELSE FoldLeft(legalize, m3, <<a0, b0, t2, t3>>)

\* The new vertex pn lies inside the triangle of the half-edge e.
SplitInside(m, pn, e) ==
  LET p == Corners(m, e \div 3)
      h == <<m.halfedges[e], m.halfedges[e + 1], m.halfedges[e + 2]>>
      t1 == NewEdge(m)
      t2 == t1 + 3
      m0 == addTriangle(m, p[1], p[2], pn, h[1], -1, -1, e)
      m1 == addTriangle(m0, p[2], p[3], pn, h[2], -1, e + 1, t1)
      m2 == addTriangle(m1, p[3], p[1], pn, h[3], e + 2, t1 + 1, t2)
  IN FoldLeft(legalize, m2, <<e, t1, t2>>)

-----------------------------------------------------------------------------
(* Errors and refinement                                                   *)

\* SAMPLE_POINTS in sixths: the centroid and the middles of the edges.
SAMPLE_POINTS == <<<<2, 2, 2>>, <<3, 3, 0>>, <<3, 0, 3>>, <<0, 3, 3>>>>

\* The sample points of a triangle in sixths of a unit.
Sample(m, t, weights) ==
  LET p == Corners(m, t)
      mix(axis) == weights[1] * m.uvs[p[1] + 1][axis] + weights[2] * m.uvs[p[2] + 1][axis]
                     + weights[3] * m.uvs[p[3] + 1][axis]
  IN <<mix(1), mix(2)>>

ErrorAt(w, s) == (w.a * s[1] + w.b * s[2] + w.c * s[1] * s[2]) % w.m

\* The worst sample point, the first of equals; <<0, 0>> when there is no error
\* at any, and no error when that is a vertex.
Worst(m, w, t) ==
  LET best == FoldLeft(LAMBDA acc, weights :
                         LET s == Sample(m, t, weights)
                         IN IF ErrorAt(w, s) > acc.error
                            THEN [error |-> ErrorAt(w, s), uv |-> s] ELSE acc,
                       [error |-> 0, uv |-> <<0, 0>>], SAMPLE_POINTS)
      vertex == \E k \in 1..3 : \A axis \in 1..2 :
                  best.uv[axis] = 6 * m.uvs[Corners(m, t)[k] + 1][axis]
  IN IF vertex THEN [best EXCEPT !.error = 0] ELSE best

findReprojectionCandidate(m, w, t) ==
  LET worst == Worst(m, w, t)
  IN [m EXCEPT !.candidatesUV[t] = worst.uv, !.q = queuePush(@, t, worst.error)]

flush(m, w) ==
  FoldLeft(LAMBDA n, t : findReprojectionCandidate(n, w, t), [m EXCEPT !.pending = <<>>], m.pending)

\* _step: the worst triangle gives up its place to those around its candidate.
step(m) ==
  LET t == m.q.queue[1]
      p == Corners(m, t)
      at(k) == m.uvs[p[k] + 1]
      new == <<m.candidatesUV[t][1] \div 6, m.candidatesUV[t][2] \div 6>>
      popped == [m EXCEPT !.q = queuePop(@), !.uvs = Append(@, new)]
      pn == Len(m.uvs)
  IN IF orient(at(1), at(2), new) = 0 THEN handleCollinear(popped, pn, 3 * t)
     ELSE IF orient(at(2), at(3), new) = 0 THEN handleCollinear(popped, pn, 3 * t + 1)
     ELSE IF orient(at(3), at(1), new) = 0 THEN handleCollinear(popped, pn, 3 * t + 2)
     ELSE SplitInside(popped, pn, 3 * t)

-----------------------------------------------------------------------------
Empty == [uvs |-> <<>>, triangles |-> <<>>, halfedges |-> <<>>, candidatesUV |-> <<>>,
          q |-> [queue |-> <<>>, errors |-> <<>>, place |-> <<>>], pending |-> <<>>]

\* The constructor: two triangles over the whole texture.
TwoTriangles(w) ==
  LET points == [Empty EXCEPT !.uvs = <<<<0, 0>>, <<Side, 0>>, <<0, Side>>, <<Side, Side>>>>]
      first == addTriangle(points, 3, 0, 2, -1, -1, -1, 0)
  IN flush(addTriangle(first, 0, 3, 1, 0, -1, -1, 3), w)

MeshInit ==
  /\ warp \in Warps
  /\ mesh = TwoTriangles(warp)
  /\ iterations = 0

\* The lattice has the point: a bound, doubles go on.
OnLattice(uv) == uv[1] % 6 = 0 /\ uv[2] % 6 = 0

\* One turn of run.  The turn that exceeds maxIterations is the last.
refine ==
  /\ mesh.q.errors[1] > MaxError
  /\ iterations <= MaxIterations
  /\ OnLattice(mesh.candidatesUV[mesh.q.queue[1]])
  /\ mesh' = flush(step(mesh), warp)
  /\ iterations' = iterations + 1
  /\ UNCHANGED warp

-----------------------------------------------------------------------------
At(v) == mesh.uvs[v + 1]
Edges == DOMAIN mesh.triangles
OnBorder(p, q) == \E axis \in 1..2 : p[axis] = q[axis] /\ p[axis] \in {0, Side}

\* delatin.ts:134 ("cover the entire input texture"): the triangles cover the
\* texture once: each is turned the same way, none is flat, their areas add up,
\* and every half-edge has its twin in the neighbour or lies on the border.
CoversOnce ==
  /\ \A e \in Edges :
       LET h == mesh.halfedges[e]
           from == mesh.triangles[e]
           to == mesh.triangles[After(e)]
       IN IF h < 0 THEN OnBorder(At(from), At(to))
          ELSE /\ mesh.halfedges[h] = e
               /\ mesh.triangles[h] = to /\ mesh.triangles[After(h)] = from
  /\ \A t \in Triangles(mesh) :
       LET p == Corners(mesh, t) IN orient(At(p[1]), At(p[2]), At(p[3])) > 0
  /\ FoldLeft(LAMBDA sum, t : sum + (LET p == Corners(mesh, t - 1) IN orient(At(p[1]), At(p[2]), At(p[3]))),
              0, [t \in 1..Cardinality(Triangles(mesh)) |-> t]) = 2 * Side * Side
  /\ \A i, k \in DOMAIN mesh.uvs : i # k => mesh.uvs[i] # mesh.uvs[k]

\* delatin.ts:59 ("Delaunay triangulation-based"): no vertex lies inside the
\* circumcircle of a triangle across one of its edges.
IsDelaunay ==
  \A e \in Edges :
    mesh.halfedges[e] >= 0 =>
      ~inCircle(At(mesh.triangles[Before(e)]), At(mesh.triangles[e]), At(mesh.triangles[After(e)]),
                At(mesh.triangles[Before(mesh.halfedges[e])]))

\* delatin.ts:150 ("until its maximum error gets below the given one"): between
\* refinements every triangle is queued once, with the error and the candidate
\* of the vertices it has now, and none is worse than the one above it in the
\* heap, so that the first is the worst.
QueueIsCurrent ==
  /\ mesh.pending = <<>>
  /\ Len(mesh.q.queue) = Cardinality(Triangles(mesh))
  /\ \A t \in Triangles(mesh) :
       LET place == mesh.q.place[t]
           worst == Worst(mesh, warp, t)
       IN /\ place \in DOMAIN mesh.q.queue
          /\ mesh.q.queue[place] = t
          /\ mesh.q.errors[place] = worst.error
          /\ mesh.candidatesUV[t] = worst.uv
          /\ place > 1 => mesh.q.errors[place] <= mesh.q.errors[place \div 2]
=============================================================================
