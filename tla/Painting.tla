------------------------------ MODULE Painting ------------------------------
(***************************************************************************)
(* What a frame is, with no registers, loops or coordinates in sight: the  *)
(* shapes are painted one after the other, the last one on top; each point *)
(* of a shape is painted once, in any order, nothing outside it is         *)
(* touched, and the next shape is begun when all of it is painted.         *)
(* Module Kernel implements this specification.                            *)
(***************************************************************************)
EXTENDS Naturals

CONSTANTS
  Points,      \* where there can be paint
  Count,       \* how many shapes there are, at least one
  Areas,       \* the points of each
  Colors       \* and its colour

VARIABLES
  canvas,      \* the colour of each point
  shape,       \* the shape in hand
  painted      \* its points that have been painted

pvars == <<canvas, shape, painted>>

\* The canvas need not be clean.
Init ==
  /\ DOMAIN canvas = Points
  /\ shape = 1
  /\ painted = {}

Paint(p) ==
  /\ p \in Areas[shape] \ painted
  /\ canvas' = [canvas EXCEPT ![p] = Colors[shape]]
  /\ painted' = painted \union {p}
  /\ UNCHANGED shape

NextShape ==
  /\ painted = Areas[shape]
  /\ shape' = IF shape < Count THEN shape + 1 ELSE 1
  /\ painted' = {}
  /\ UNCHANGED canvas

Next == (\E p \in Points : Paint(p)) \/ NextShape

Spec == Init /\ [][Next]_pvars
=============================================================================
