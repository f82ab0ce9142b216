---------------------------- MODULE MCTranslator ----------------------------
(* The translator for TLC: the registers of the blocks it emits (RegAlloc), and the
   tables it makes before it emits them (JumpTable). *)
EXTENDS RegAlloc

Table == INSTANCE JumpTable WITH Block <- {1, 2, 3}, Elsewhere <- 9

(* Nothing, a target that no call gives, or two that calls may give again. *)
Histories == {{}, {<<1, 4>>}, {<<1, 2>>, <<1, 3>>}}

(* When find ends, the targets of a RET are what was seen before and the addresses
   after exactly the calls whose callee can come to it, each call noted once
   (a target that was also seen before is there twice), however the callees
   share code or call themselves; an indirect jump has the targets seen
   before; and every callee that is not there is known.  All
   programs of three blocks are gone through, and so all orders of the blocks;
   they are no part of the state, and looked at before the first instruction. *)
TargetsRight ==
    Init =>
        \A P \in [{1, 2, 3} -> Table!Ends] : \A h \in Histories :
            (\A p \in h : P[p[1]].kind \in {"RET", "indirect"}) => Table!Right(P, h)
=============================================================================
