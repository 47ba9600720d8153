------------------------------ MODULE MCKdTree ------------------------------
(* Small scenes for KdTree.  Coordinates are multiples of 4 and directions   *)
(* have components up to 2, so that every t is an integer.                   *)
EXTENDS KdTree

Box(x, y, z, w, h, l) == [pos |-> <<4 * x, 4 * y, 4 * z>>, size |-> <<4 * w, 4 * h, 4 * l>>]

\* Apart, touching, overlapping and nested boxes.
Pool == <<Box(0, 0, 0, 1, 1, 1), Box(1, 0, 0, 1, 1, 1), Box(3, 0, 0, 1, 2, 1),
          Box(0, 2, 0, 1, 1, 2), Box(2, 1, 1, 2, 1, 1), Box(0, 0, 0, 3, 3, 2),
          Box(4, 3, 0, 1, 1, 1), Box(2, 0, 3, 3, 1, 1)>>

\* Every choice of up to six of them, in a fixed order.
MCScenes ==
  {[k \in 1 .. Cardinality(S) |-> Pool[SetToSortSeq(S, >)[k]]] :
     S \in {T \in SUBSET DOMAIN Pool : Cardinality(T) <= 6}}

MCEyes == {<<-4, 2, 2>>, <<2, 2, -4>>, <<8, 4, 4>>, <<22, 14, 2>>, <<4, -4, 4>>, <<12, 8, 20>>,
           <<10, 2, 2>>}
MCDirections == {<<1, 0, 0>>, <<-2, -1, 0>>, <<0, 1, 0>>, <<1, 1, 1>>, <<-1, 0, 1>>,
                 <<2, 1, 1>>, <<0, 0, 1>>, <<-2, 1, -1>>, <<0, -2, -1>>, <<-1, -1, 0>>}
=============================================================================
