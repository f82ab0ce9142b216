------------------------------ MODULE PageProt ------------------------------
(***************************************************************************)
(* What change_page_attr_set_clr promises, without large pages, locks and  *)
(* TLBs: every page has attributes and a frame; a call changes the         *)
(* attributes of its pages, and of the other mappings of their frames, to  *)
(* what was asked for less the bits that static_protections withholds, in  *)
(* any order and any portions; pages may lose withheld bits while a call   *)
(* is made, and nothing else changes.  A call that succeeds has changed    *)
(* all its pages; of the other mappings of their frames it is not said.    *)
(***************************************************************************)
EXTENDS Integers, Sequences

CONSTANTS
    Cpu, Page, Request,
    Frame,      \* page -> frame
    Withheld,   \* page -> bits a request need not get
    Hole        \* what a page without a mapping holds

VARIABLES
    map,        \* page -> [pfn, prot]
    req,        \* CPU -> its request, or {} between calls
    applied,    \* CPU -> pages its request has been applied to
    ret         \* CPU -> result of its last call

vars == <<map, req, applied, ret>>

Idle(c)  == req[c] = {}
The(c)   == CHOOSE r \in req[c] : TRUE
Asked(r) == {r.pages[i] : i \in DOMAIN r.pages}

(* The pages of the call and their aliases. *)
Reach(r) == {p \in Page : \E q \in Asked(r) : p = q \/ Frame[p] = Frame[q]}

Norm(prot) == IF "P" \in prot THEN prot ELSE prot \ {"G"}

Granted(p, old, new, r) ==
    LET want == Norm((old.prot \ r.clr) \cup r.set)
    IN  IF old = Hole THEN new = Hole
        ELSE /\ new.pfn = old.pfn /\ new.prot \subseteq want
             /\ want \ new.prot \subseteq Withheld[p]

Begin(c) ==
    /\ Idle(c) /\ \E r \in Request[c] : req' = [req EXCEPT ![c] = {r}]
    /\ applied' = [applied EXCEPT ![c] = {}] /\ ret' = [ret EXCEPT ![c] = 0]
    /\ UNCHANGED map

(* The request is applied to some of its pages. *)
Apply(c) ==
    /\ ~Idle(c) /\ UNCHANGED <<req, ret>>
    /\ \E S \in SUBSET Reach(The(c)) :
          /\ \A p \in Page : IF p \in S THEN Granted(p, map[p], map'[p], The(c))
                             ELSE map'[p] = map[p]
          /\ applied' \in {applied, [applied EXCEPT ![c] = @ \cup (S \cap Asked(The(c)))]}

(* A call that finds protections missing in a large page restores them when it
   splits the page, also on pages it was not asked to change: they lose bits that
   are withheld (and G where there is no P) and nothing else. *)
Enforce(c) ==
    /\ ~Idle(c) /\ UNCHANGED <<req, applied, ret>>
    /\ \A p \in Page : /\ map'[p].pfn = map[p].pfn
                       /\ map'[p].prot \subseteq map[p].prot
                       /\ Norm(map[p].prot) \ map'[p].prot \subseteq Withheld[p]

(* What a failed call has been applied to is not said. *)
Fail(c) ==
    /\ ~Idle(c) /\ \E e \in {-12, -14} : ret' = [ret EXCEPT ![c] = e]
    /\ \E S \in SUBSET applied[c] : applied' = [applied EXCEPT ![c] = S]
    /\ UNCHANGED <<map, req>>

End(c) ==
    /\ ~Idle(c) /\ (ret[c] = 0 => applied[c] = Asked(The(c)))
    /\ req' = [req EXCEPT ![c] = {}] /\ applied' = [applied EXCEPT ![c] = {}]
    /\ UNCHANGED <<map, ret>>

Next == \E c \in Cpu : Begin(c) \/ Apply(c) \/ Enforce(c) \/ Fail(c) \/ End(c)

Init ==
    /\ req = [c \in Cpu |-> {}] /\ applied = [c \in Cpu |-> {}]
    /\ ret = [c \in Cpu |-> 0]

Spec == Init /\ [][Next]_vars
=============================================================================
