----------------------------- MODULE JumpTable -----------------------------
(***************************************************************************)
(* The table of the targets of returns (zz_disassem/indirect_jump.py).     *)
(* find goes over the blocks of a program; for a direct call to one of     *)
(* them dfs notes the address after the call at every RET of the callee,   *)
(* so that translated code follows the return without leaving the kernel.  *)
(* A block is known by its number.  The address after its last instruction *)
(* has the same number, as a key of the table and as a return address.     *)
(*                                                                         *)
(* A program P maps blocks to how they end: [kind, callee, bto].           *)
(***************************************************************************)
EXTENDS Naturals, Sequences, FiniteSets, SequencesExt

CONSTANTS
    Block,      \* the blocks that were disassembled
    Elsewhere   \* a callee that was not

(* A block returns, jumps or calls where a register says, calls another, or goes
   on to one or two others; a call goes on in at most one block. *)
Ends ==
    LET one == {<<>>} \cup {<<b>> : b \in Block}
    IN  [kind : {"RET"}, callee : {0}, bto : {<<>>}]
        \cup [kind : {"indirect"}, callee : {0}, bto : one]
        \cup [kind : {"CALL"}, callee : Block \cup {Elsewhere}, bto : one]
        \cup [kind : {"other"}, callee : {0},
              bto : {<<a>> : a \in Block} \cup {s \in Block \X Block : s[1] # s[2]}]

(* The list of a key; an entry is made if there is none. *)
At(t, k) == IF k \in DOMAIN t THEN t[k] ELSE <<>>
Put(t, k, l) == [x \in DOMAIN t \cup {k} |-> IF x = k THEN l ELSE t[x]]

(* memread.read has put the history, pairs of a key and a target, into the table,
   each pair once. *)
read(h) ==
    [k \in {p[1] : p \in h} |-> SetToSeq({p[2] : p \in {q \in h : q[1] = k}})]

(* s: the jump_table, the missing_callees and the set visited. *)
Noted(P, s, b, ret) ==
    IF P[b].kind # "RET" THEN s
    ELSE [s EXCEPT !.jump_table = Put(@, b, Append(At(@, b), ret))]

RECURSIVE dfs(_, _, _, _)
dfs(P, entry, ret, s) ==
    LET Follow(x, tgt) ==
            IF tgt \in x.visited THEN x
            ELSE dfs(P, tgt, ret, [x EXCEPT !.visited = @ \cup {tgt}])
    IN  FoldLeft(Follow, Noted(P, s, entry, ret), P[entry].bto)

(* A slip: visited is kept from one call to the next. *)
find_call_keep(P, s, b) == dfs(P, P[b].callee, b, s)

(* A direct call to a block that is there. *)
find_call(P, s, b) == dfs(P, P[b].callee, b, [s EXCEPT !.visited = {}])

(* The last line of block b.  A return, an indirect jump or an indirect call needs
   an entry, if empty. *)
find_line(P, s, b) ==
    CASE P[b].kind = "CALL" /\ P[b].callee \in Block -> find_call(P, s, b)
      [] P[b].kind = "CALL" /\ P[b].callee \notin Block ->
             [s EXCEPT !.missing_callees = @ \cup {P[b].callee}]
      [] P[b].kind \in {"RET", "indirect"} ->
             [s EXCEPT !.jump_table = Put(@, b, At(@, b))]
      [] OTHER -> s

find(P, h) ==
    FoldLeft(LAMBDA s, b : find_line(P, s, b),
             [jump_table |-> read(h), missing_callees |-> {}, visited |-> {}],
             SetToSeq(Block))

-----------------------------------------------------------------------------
(* The reference: r belongs to the callee c if it is in every set of blocks with
   c that control does not leave. *)

Closed(P, s) == \A b \in s : ToSet(P[b].bto) \subseteq s
Reaches(P, c, r) == \A s \in SUBSET Block : c \in s /\ Closed(P, s) => r \in s

Callers(P, r) ==
    {b \in Block : P[b].kind = "CALL" /\ P[b].callee \in Block /\ Reaches(P, P[b].callee, r)}

Past(h, r) == {p[2] : p \in {q \in h : q[1] = r}}

Right(P, h) ==
    LET s == find(P, h)
        t == s.jump_table
    IN  /\ \A r \in Block :
             /\ r \in DOMAIN t <=> P[r].kind \in {"RET", "indirect"}
             /\ P[r].kind = "RET" =>
                  /\ ToSet(t[r]) = Past(h, r) \cup Callers(P, r)
                  /\ Len(t[r]) = Cardinality(Past(h, r)) + Cardinality(Callers(P, r))
             /\ P[r].kind = "indirect" => ToSet(t[r]) = Past(h, r)
        /\ s.missing_callees = {P[b].callee : b \in {x \in Block : P[x].kind = "CALL"}} \ Block
=============================================================================
