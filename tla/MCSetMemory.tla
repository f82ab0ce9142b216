----------------------------- MODULE MCSetMemory -----------------------------
(* Ranges and arrays that overlap, in different orders. *)
EXTENDS SetMemory

CONSTANTS t1, t2

Ranges2 == {<<1, 2>>, <<3>>}
Arrays2 == {<<3, 1>>, <<2, 3>>}

Ranges1 == {<<1>>, <<3>>}
=============================================================================
