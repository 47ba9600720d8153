------------------------------- MODULE KdTree -------------------------------
(* The kd-tree of the ray tracer: the scene's extends as objects are added   *)
(* (scene.cpp), KdTree::build and subdivide (kdtree.cpp), and intersect of   *)
(* the OpenCL kernel (raytraceGPU.cl), which walks the tree along a ray.     *)
(* Objects are axis-aligned cubes.  All arithmetic is exact: coordinates are *)
(* integers that the directions divide, and the two sides of a comparison of *)
(* costs are multiplied by the surface area, so that what is checked is the  *)
(* algorithm without its rounding (EPSILON, which makes up for rounding, is  *)
(* nothing here).                                                            *)
EXTENDS Integers, Sequences, FiniteSets, FiniteSetsExt, SequencesExt

CONSTANTS Scenes,          \* sequences of the bounding boxes of the objects
          Eyes, Directions, \* of rays
          MAX_TREE_DEPTH,
          POS_INF          \* larger than every coordinate

Axes == 1 .. 3
Vectors == [Axes -> Int]

ASSUME KdAssumption ==
  /\ MAX_TREE_DEPTH \in Nat /\ POS_INF \in Nat
  /\ Eyes \subseteq Vectors /\ Directions \subseteq Vectors
  /\ \A s \in Scenes : s \in Seq([pos : Vectors, size : Vectors])

VARIABLES scene,     \* what is being loaded
          objects,   \* m_objects: the bounding boxes
          extends,   \* m_extends
          kd,        \* m_kdMem: the nodes made so far, the root first
          splits,    \* m_splitList: the positions, in order
          pool,      \* length of m_splitPool
          calls,     \* calls of subdivide to be made, the next one last
          ray        \* the call of intersect

vars == <<scene, objects, extends, kd, splits, pool, calls, ray>>

NoRay == [pc |-> "none", eye |-> <<0, 0, 0>>, d |-> <<0, 0, 0>>, cur |-> 0,
          stack |-> <<>>, t |-> -1, obj |-> 0]

-----------------------------------------------------------------------------
(* Boxes *)

End(b, a) == b.pos[a] + b.size[a]

intersectAABB(b, c) ==
  \A a \in Axes : End(b, a) >= c.pos[a] /\ b.pos[a] <= End(c, a)

boxContain(b, p) == \A a \in Axes : b.pos[a] <= p[a] /\ p[a] <= End(b, a)

\* Half of calculateSA.
SA(b) == b.size[1] * b.size[3] + b.size[1] * b.size[2] + b.size[3] * b.size[2]

\* The two parts of b at position s of axis a.
LeftOf(b, a, s) == [b EXCEPT !.size[a] = s - b.pos[a]]
RightOf(b, a, s) == [pos |-> [b.pos EXCEPT ![a] = s],
                     size |-> [b.size EXCEPT ![a] = End(b, a) - s]]

\* Mutant: the far corner is taken from the moved position.
MutantExtended(e, b) ==
  LET pos == [a \in Axes |-> Min({e.pos[a], b.pos[a]})]
      far == [a \in Axes |-> Max({pos[a] + e.size[a], End(b, a)})]
  IN  [pos |-> pos, size |-> [a \in Axes |-> far[a] - pos[a]]]

\* addPrimitive: m_extends grows by the box of the object.  bakPos is the corner
\* before, unless this is the first object.
Extended(e, b) ==
  LET pos == [a \in Axes |-> Min({e.pos[a], b.pos[a]})]
      bak == IF \A a \in Axes : e.pos[a] = POS_INF THEN pos ELSE e.pos
      far == [a \in Axes |-> Max({bak[a] + e.size[a], End(b, a)})]
  IN  [pos |-> pos, size |-> [a \in Axes |-> far[a] - pos[a]]]

-----------------------------------------------------------------------------
(* Building *)

\* KdTreeNode(), with its box and its objects.
Leaf(box, objs) ==
  [box |-> box, leaf |-> TRUE, axis |-> 1, split |-> 0, left |-> 0, right |-> 0,
   objs |-> objs]

Init ==
  /\ scene \in Scenes
  /\ objects = <<>>
  /\ extends = [pos |-> [a \in Axes |-> POS_INF], size |-> [a \in Axes |-> 0]]
  /\ kd = <<>> /\ splits = <<>> /\ pool = 0 /\ calls = <<>>
  /\ ray = NoRay

addPrimitive ==
  /\ kd = <<>>
  /\ Len(objects) < Len(scene)
  /\ LET b == scene[Len(objects) + 1]
     IN  objects' = Append(objects, b) /\ extends' = Extended(extends, b)
  /\ UNCHANGED <<scene, kd, splits, pool, calls, ray>>

\* KdTree::init and build.  add pushes to the front of a list.
build ==
  LET n == Len(objects) IN
  /\ kd = <<>> /\ n = Len(scene)
  /\ kd' = <<[Leaf(extends, Reverse([k \in 1 .. n |-> k])) EXCEPT !.leaf = n <= 2]>>
  /\ pool' = 2 * n + 1
  /\ splits' = <<>>
  /\ calls' = IF n > 2 THEN <<[node |-> 1, depth |-> 0, count |-> n]>> ELSE <<>>
  /\ UNCHANGED <<scene, objects, extends, ray>>

\* The axis of the largest size, the first one of several.
SplitAxis(b) ==
  CHOOSE a \in Axes : \A c \in Axes :
    b.size[a] > b.size[c] \/ (b.size[a] = b.size[c] /\ a <= c)

\* insertSplitPos of all candidates: positions are kept once and in order.
insertSplitPos(set) == SetToSortSeq(set, <)

\* The edges of the objects that are in the box.
Candidates(b, a, objs) ==
  {s \in UNION {{objects[o].pos[a], End(objects[o], a)} : o \in Range(objs)} :
     b.pos[a] <= s /\ s <= End(b, a)}

\* The objects of a list that meet a box, in the order of a new list.
Meeting(objs, b) == Reverse(SelectSeq(objs, LAMBDA o : intersectAABB(objects[o], b)))

\* Ten times SA times the cost of a split, 0.3 and the parts' shares of their
\* objects (eleft and eright repeat the test of intersectAABB on one axis).
SplitCost(b, a, objs, s) ==
  LET l == LeftOf(b, a, s)
      r == RightOf(b, a, s)
  IN  3 * SA(b) + 10 * (SA(l) * Len(Meeting(objs, l)) + SA(r) * Len(Meeting(objs, r)))

\* The first position of least cost, if a split pays (a box without surface
\* has infinite costs).
Best(b, a, objs, list) ==
  {s \in Range(list) :
     /\ SA(b) > 0
     /\ SplitCost(b, a, objs, s) <= 10 * Len(objs) * SA(b)
     /\ \A q \in Range(list) :
          LET cs == SplitCost(b, a, objs, s)
              cq == SplitCost(b, a, objs, q)
          IN  cs < cq \/ (cs = cq /\ s <= q)}

\* The calls that follow a split, right after left.
FurtherCalls(depth, l, r) ==
  IF depth < MAX_TREE_DEPTH
  THEN SelectSeq(<<[node |-> Len(kd) + 2, depth |-> depth + 1, count |-> Len(r)],
                   [node |-> Len(kd) + 1, depth |-> depth + 1, count |-> Len(l)]>>,
                 LAMBDA c : c.count > 2)
  ELSE <<>>

\* One call of subdivide up to its own two calls.
subdivide ==
  LET c == Last(calls)
      b == kd[c.node].box
      objs == kd[c.node].objs
      a == SplitAxis(b)
      list == insertSplitPos(Candidates(b, a, objs))
      best == Best(b, a, objs, list)
  IN
  /\ calls # <<>>
  /\ splits' = list
  /\ pool' = pool + Len(splits) - Len(list)
  /\ IF best = {}
     THEN /\ kd' = [kd EXCEPT ![c.node].axis = a, ![c.node].leaf = TRUE]
          /\ calls' = Front(calls)
     ELSE LET s == CHOOSE p \in best : TRUE
              lb == LeftOf(b, a, s)
              rb == RightOf(b, a, s)
              l == Meeting(objs, lb)
              r == Meeting(objs, rb)
          IN  /\ kd' = [kd EXCEPT ![c.node].axis = a, ![c.node].split = s,
                                  ![c.node].left = Len(kd) + 1,
                                  ![c.node].right = Len(kd) + 2,
                                  ![c.node].leaf = FALSE]
                       \o <<Leaf(lb, l), Leaf(rb, r)>>
              /\ calls' = Front(calls) \o FurtherCalls(c.depth, l, r)
  /\ UNCHANGED <<scene, objects, extends, ray>>

-----------------------------------------------------------------------------
(* Rays *)

At(eye, d, t) == [a \in Axes |-> eye[a] + t * d[a]]

Sign(n) == IF n < 0 THEN -1 ELSE 1

doIntersectPlane(eye, d, a, p) ==
  IF d[a] = 0 THEN -1 ELSE (Sign(d[a]) * (p - eye[a])) \div (Sign(d[a]) * d[a])

\* Where the ray meets the six sides of a box (checkRange).
Sides(eye, d, b) ==
  LET meets(a, t) == t > 0 /\ \A c \in Axes \ {a} :
                       LET p == At(eye, d, t)[c] IN b.pos[c] <= p /\ p <= End(b, c)
  IN  UNION {{t \in {doIntersectPlane(eye, d, a, b.pos[a]),
                     doIntersectPlane(eye, d, a, End(b, a))} : meets(a, t)} : a \in Axes}

doIntersectRayKdBox(eye, d, b) ==
  LET s == Sides(eye, d, b)
  IN  [near |-> IF s = {} THEN -1 ELSE Min(s), far |-> IF s = {} THEN -1 ELSE Max(s)]

doIntersectUnitCube(eye, d, b) ==
  LET s == Sides(eye, d, b) IN IF s = {} THEN -1 ELSE Min(s)

\* The loop over a list of objects: the first one that is nearest.
Nearest(eye, d, objs) ==
  LET t(k) == doIntersectUnitCube(eye, d, objects[objs[k]])
      hits == {k \in DOMAIN objs : t(k) > 0}
  IN  IF hits = {} THEN [t |-> POS_INF, obj |-> 0]
      ELSE LET k == CHOOSE k \in hits :
                      \A j \in hits : t(k) < t(j) \/ (t(k) = t(j) /\ k <= j)
           IN  [t |-> t(k), obj |-> objs[k]]

\* intersect without the tree.
WithoutTree(eye, d) ==
  LET n == Nearest(eye, d, [k \in 1 .. Len(objects) |-> k])
  IN  IF n.t = POS_INF THEN -1 ELSE n.t

\* intersect is called: the ray may miss the root's box.
intersect(eye, d) ==
  LET b == doIntersectRayKdBox(eye, d, kd[1].box) IN
  /\ kd # <<>> /\ calls = <<>> /\ ray.pc \in {"none", "done"}
  /\ ray' = IF b.near <= 0 /\ b.far <= 0
            THEN [NoRay EXCEPT !.pc = "done", !.eye = eye, !.d = d]
            ELSE [NoRay EXCEPT !.pc = "walk", !.eye = eye, !.d = d, !.cur = 1]
  /\ UNCHANGED <<scene, objects, extends, kd, splits, pool, calls>>

\* A node that is not a leaf: the child where the ray enters the box is next,
\* the other one is pushed if the ray leaves the box there.
Descend ==
  LET n == kd[ray.cur]
      b == doIntersectRayKdBox(ray.eye, ray.d, n.box)
      near == IF b.near = b.far THEN 0 ELSE b.near
      isLeft(t) == At(ray.eye, ray.d, t)[n.axis] <= n.split
  IN
  /\ ray.pc = "walk" /\ ~n.leaf
  /\ ray' = [ray EXCEPT
       !.cur = IF isLeft(near) THEN n.left ELSE n.right,
       !.stack = IF isLeft(near) = isLeft(b.far) THEN @
                 ELSE Append(@, IF isLeft(near) THEN n.right ELSE n.left)]
  /\ UNCHANGED <<scene, objects, extends, kd, splits, pool, calls>>

\* Mutant: the nearest hit of the leaf's objects may be outside of the leaf.
MutantAccepted(b, eye, d, t) == t # POS_INF

\* A hit counts in the leaf that contains it.
Accepted(b, eye, d, t) == t # POS_INF /\ boxContain(b, At(eye, d, t))

\* A leaf: the hit ends the walk, otherwise the stack says where to go on.
VisitLeaf ==
  LET n == kd[ray.cur]
      hit == Nearest(ray.eye, ray.d, n.objs)
      obj == IF hit.obj = 0 THEN ray.obj ELSE hit.obj
  IN
  /\ ray.pc = "walk" /\ n.leaf
  /\ ray' = IF Accepted(n.box, ray.eye, ray.d, hit.t)
            THEN [ray EXCEPT !.pc = "done", !.t = hit.t, !.obj = obj]
            ELSE IF ray.stack = <<>> THEN [ray EXCEPT !.pc = "done", !.obj = obj]
            ELSE [ray EXCEPT !.cur = Last(ray.stack), !.stack = Front(ray.stack),
                             !.obj = obj]
  /\ UNCHANGED <<scene, objects, extends, kd, splits, pool, calls>>

Next ==
  \/ addPrimitive \/ build \/ subdivide \/ Descend \/ VisitLeaf
  \/ \E eye \in Eyes, d \in Directions : intersect(eye, d)

Spec == Init /\ [][Next]_vars

-----------------------------------------------------------------------------
(* Properties *)

TypeOK ==
  /\ pool \in Nat /\ splits \in Seq(Int)
  /\ \A n \in DOMAIN kd : /\ kd[n].left \in 0 .. Len(kd) /\ kd[n].right \in 0 .. Len(kd)
                          /\ kd[n].objs \in Seq(DOMAIN objects)
  /\ \A k \in DOMAIN calls : calls[k].node \in DOMAIN kd
  /\ ray.pc \in {"none", "walk", "done"} /\ ray.cur \in 0 .. Len(kd)
  /\ \A k \in DOMAIN ray.stack : ray.stack[k] \in DOMAIN kd

\* Every node has exactly the objects that touch its box, whatever splits led
\* to it; the root's box holds all objects; the children of a node divide its
\* box at a position strictly inside; and the nodes for split positions, of
\* which build makes two for each object and one more, are neither lost nor
\* used up in the middle of a call.
TreeExact ==
  /\ TypeOK
  /\ kd # <<>> =>
       /\ \A o \in DOMAIN objects : /\ boxContain(extends, objects[o].pos)
                                    /\ boxContain(extends, At(objects[o].pos, objects[o].size, 1))
       /\ pool + Len(splits) = 2 * Len(objects) + 1 /\ pool > 0
       /\ \A n \in DOMAIN kd :
            /\ Range(kd[n].objs) =
                 {o \in DOMAIN objects : intersectAABB(objects[o], kd[n].box)}
            /\ IsInjective(kd[n].objs)
            /\ kd[n].left # 0 =>
                 /\ kd[n].box.pos[kd[n].axis] < kd[n].split
                 /\ kd[n].split < End(kd[n].box, kd[n].axis)
  /\ \A k \in DOMAIN calls : calls[k].count = Len(kd[calls[k].node].objs)

\* intersect with the tree finds what intersect without the tree finds: no
\* nearer hit is missed in a subtree that was not entered or not yet popped,
\* from eyes inside and outside of the boxes and along their sides; and the
\* object reported is one that is hit there.
TreeAgrees ==
  ray.pc = "done" =>
    /\ ray.t = WithoutTree(ray.eye, ray.d)
    /\ ray.t > 0 => doIntersectUnitCube(ray.eye, ray.d, objects[ray.obj]) = ray.t
=============================================================================
