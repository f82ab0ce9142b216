--------------------------- MODULE MCVmallocFault ---------------------------
(* Instances of VmallocFault for TLC. *)
EXTENDS VmallocFault

CONSTANTS m1, m2, c1, c2, none

(* A vmalloc page and the text, under top level entries of their own. *)
TwoTops == [a \in 0 .. 1 |-> a]
=============================================================================
