------------------------------ MODULE MCBypass ------------------------------
(* Instances of Bypass for TLC. *)
EXTENDS Bypass, FiniteSets

CONSTANTS p1, p2, r1, r2, a1, f1

MCRip  == {r1, r2}
MCAddr == {r1, r2, a1, f1}

(* One call and one indirect jump, both to a1. *)
MCExit == {[kind |-> call_miss, from |-> Null, tgt |-> a1],
           [kind |-> ij_miss, from |-> f1, tgt |-> a1]}

(* p1 and p2 have slots of their own for r1; everything else collides with
   the entry of p2. *)
MCSlotOf == [k \in Pid \X Addr |-> IF k = <<p1, r1>> THEN 0 ELSE 1]

(* An image grows with the exits it follows: one packet, a packet that is
   exactly full, two packets. *)
MCJitLen == [img \in Image |-> IF Cardinality(img.known) < 2
                               THEN 1 + Cardinality(img.known) ELSE 3]

=============================================================================
