------------------------- MODULE VmallocFaultProofs -------------------------
(***************************************************************************)
(* What module VmallocFault promises, for any number of CPUs, of address   *)
(* spaces and of pages, however the pages share top level entries.         *)
(*                                                                         *)
(* The argument: an entry of the reference is never removed, so the copies *)
(* agree with it; memory that is mapped is always under an entry of the    *)
(* reference, and memory outside vmalloc under one of every address space; *)
(* an access stays within what the mapping permits (Going); so the walk    *)
(* fails only for want of a copy, and a translation only because it is     *)
(* older than the permission (and then it at least lets one read).         *)
(***************************************************************************)
EXTENDS VmallocFault, TLAPS

(* The page tables. *)
Tables ==
    /\ \A i \in Index : pgd_k[i] \in {None, i}
    /\ \A m \in Mm : \A i \in Index : pgd[m][i] \in {None, pgd_k[i]}
    /\ \A a \in Addr : map[a] # None => "R" \in map[a] /\ pgd_k[Top[a]] # None
    /\ \A a \in Addr \ Vmalloc : \A m \in Mm : pgd[m][Top[a]] # None
    /\ ~bug

(* A translation that is there lets one read. *)
Readable == \A c \in Cpu : \A a \in Addr : tlb[c][a] # None => "R" \in tlb[c][a]

(* An access that goes on is one the mapping permits, and its fault one of the
   two kinds that are mended. *)
Going(c) ==
    pc[c] # "run" =>
        /\ map[acc[c].a] # None /\ acc[c].k \in map[acc[c].a]
        /\ pc[c] = "fault" /\ ~prot[c] => acc[c].a \in Vmalloc
        /\ pc[c] \in {"fault", "check"} /\ prot[c] => acc[c].k \in {"W", "X"}
        /\ pc[c] = "check" => prot[c]
        /\ pc[c] # "bad"

Inv == TypeOK /\ Tables /\ Readable /\ \A c \in Cpu : Going(c)

LEMMA TopIndex == ASSUME NEW a \in Addr PROVE Top[a] \in Index /\ Top[a] # None
  BY NoneAssumption, Zenon DEF Index

LEMMA AccOf ==
  ASSUME NEW c \in Cpu, TypeOK, pc[c] # "run"
  PROVE  acc[c] \in Acc /\ acc[c].a \in Addr /\ acc[c].k \in Kind /\ acc[c] # None
  BY NoneAssumption, Zenon DEF TypeOK, Acc

LEMMA MapOf ==
  ASSUME NEW a \in Addr, TypeOK PROVE map[a] # None => map[a] \in SUBSET Kind
  BY Zenon DEF TypeOK

(* Nothing but the top level entries outside vmalloc is there at boot. *)
LEMMA InitInv == Init => Inv
<1> SUFFICES ASSUME Init PROVE Inv
  BY Zenon
<1>1. TypeOK
  BY Zenon DEF Init, TypeOK, Kind
<1>2. Tables
  <2>1. \A i \in Index : pgd_k[i] \in {None, i}
    BY Zenon DEF Init
  <2>2. \A m \in Mm : \A i \in Index : pgd[m][i] = pgd_k[i]
    BY Zenon DEF Init
  <2>3. ASSUME NEW a \in Addr \ Vmalloc PROVE pgd_k[Top[a]] = Top[a]
    BY TopIndex, Zenon DEF Init
  <2>4. \A a \in Addr : map[a] # None => a \notin Vmalloc /\ map[a] = {"R"}
    BY Zenon DEF Init
  <2>5. \A a \in Addr : map[a] # None => "R" \in map[a] /\ pgd_k[Top[a]] # None
    BY <2>3, <2>4, TopIndex, Zenon
  <2>6. \A a \in Addr \ Vmalloc : \A m \in Mm : pgd[m][Top[a]] # None
    BY <2>2, <2>3, TopIndex
  <2>7. ~bug
    BY Zenon DEF Init
  <2> QED
    BY <2>1, <2>2, <2>5, <2>6, <2>7, Zenon DEF Tables
<1>3. Readable
  BY Zenon DEF Init, Readable
<1>4. \A c \in Cpu : Going(c)
  BY Zenon DEF Init, Going
<1> QED
  BY <1>1, <1>2, <1>3, <1>4, Zenon DEF Inv

(* Memory is allocated: an entry of the reference is filled. *)
LEMMA VmallocInv == ASSUME NEW a \in Addr, Inv, vmalloc(a) PROVE Inv'
<1> USE DEF Inv
<1>1. /\ map' = [map EXCEPT ![a] = {"R", "W"}] /\ map[a] = None
      /\ pgd_k' = [pgd_k EXCEPT ![Top[a]] = Top[a]]
      /\ UNCHANGED <<pgd, tlb, mm, pc, acc, prot, bug>>
  BY Zenon DEF vmalloc
<1>2. TypeOK'
  BY <1>1, TopIndex, Zenon DEF TypeOK, Kind
<1>3. /\ \A i \in Index : pgd_k'[i] = IF i = Top[a] THEN i ELSE pgd_k[i]
      /\ \A b \in Addr : map'[b] = IF b = a THEN {"R", "W"} ELSE map[b]
  BY <1>1, TopIndex, Zenon DEF TypeOK
<1>4. Tables'
  <2>1. \A i \in Index : pgd_k'[i] \in {None, i}
    BY <1>3, Zenon DEF Tables
  <2>2. \A m \in Mm : \A i \in Index : pgd'[m][i] \in {None, pgd_k'[i]}
    BY <1>1, <1>3 DEF Tables
  <2>3. \A b \in Addr : map'[b] # None => "R" \in map'[b] /\ pgd_k'[Top[b]] # None
    BY <1>3, TopIndex DEF Tables
  <2>4. \A b \in Addr \ Vmalloc : \A m \in Mm : pgd'[m][Top[b]] # None
    BY <1>1, Zenon DEF Tables
  <2>5. ~bug'
    BY <1>1, Zenon DEF Tables
  <2> QED
    BY <2>1, <2>2, <2>3, <2>4, <2>5, Zenon DEF Tables
<1>5. Readable'
  BY <1>1, Zenon DEF Readable
<1>6. ASSUME NEW c \in Cpu PROVE Going(c)'
  <2>1. pc[c] # "run" => acc[c].a # a /\ map'[acc[c].a] = map[acc[c].a]
    BY <1>1, <1>3, AccOf, Zenon DEF Going
  <2> QED
    BY <1>1, <2>1, Zenon DEF Going
<1> QED
  BY <1>2, <1>4, <1>5, <1>6, Zenon

(* Memory that nobody uses is freed. *)
LEMMA VfreeInv == ASSUME NEW a \in Addr, Inv, vfree(a) PROVE Inv'
<1> USE DEF Inv
<1>1. /\ map' = [map EXCEPT ![a] = None] /\ ~\E c \in Cpu : acc[c] # None /\ acc[c].a = a
      /\ tlb' = [c \in Cpu |-> [tlb[c] EXCEPT ![a] = None]]
      /\ UNCHANGED <<pgd_k, pgd, mm, pc, acc, prot, bug>>
  BY Zenon DEF vfree
<1>2. TypeOK'
  BY <1>1, Zenon DEF TypeOK
<1>3. /\ \A b \in Addr : map'[b] = IF b = a THEN None ELSE map[b]
      /\ \A c \in Cpu : \A b \in Addr : tlb'[c][b] = IF b = a THEN None ELSE tlb[c][b]
  BY <1>1, Zenon DEF TypeOK
<1>4. Tables'
  BY <1>1, <1>3, Zenon DEF Tables
<1>5. Readable'
  BY <1>3, Zenon DEF Readable
<1>6. ASSUME NEW c \in Cpu PROVE Going(c)'
  <2>1. pc[c] # "run" => acc[c].a # a /\ map'[acc[c].a] = map[acc[c].a]
    BY <1>1, <1>3, AccOf, Zenon
  <2> QED
    BY <1>1, <2>1, Zenon DEF Going
<1> QED
  BY <1>2, <1>4, <1>5, <1>6, Zenon

(* Permissions are only added. *)
LEMMA RaiseInv == ASSUME NEW a \in Addr, Inv, Raise(a) PROVE Inv'
<1> USE DEF Inv
<1>1. PICK k \in Kind : map' = [map EXCEPT ![a] = @ \cup {k}]
  BY Zenon DEF Raise
<1>2. map[a] # None /\ UNCHANGED <<pgd_k, pgd, tlb, mm, pc, acc, prot, bug>>
  BY Zenon DEF Raise
<1>3. map[a] \cup {k} \in SUBSET Kind /\ map[a] \cup {k} # None
  BY <1>2, MapOf, NoneAssumption, Zenon
<1>4. TypeOK'
  BY <1>1, <1>2, <1>3, Zenon DEF TypeOK
<1>5. \A b \in Addr : map'[b] = IF b = a THEN map[a] \cup {k} ELSE map[b]
  BY <1>1, Zenon DEF TypeOK
<1>6. Tables'
  BY <1>2, <1>5, Zenon DEF Tables
<1>7. Readable'
  BY <1>2, Zenon DEF Readable
<1>8. ASSUME NEW c \in Cpu PROVE Going(c)'
  <2>1. pc[c] # "run" /\ map[acc[c].a] # None =>
            map'[acc[c].a] # None /\ \A j \in map[acc[c].a] : j \in map'[acc[c].a]
    BY <1>3, <1>5, AccOf, Zenon
  <2> QED
    BY <1>2, <2>1, Zenon DEF Going
<1> QED
  BY <1>4, <1>6, <1>7, <1>8, Zenon

(* The tables as they are: one CPU moves. *)
LEMMA OneMoves ==
  ASSUME NEW c \in Cpu, Inv, TypeOK', Tables', Readable', Going(c)', UNCHANGED map,
         \A d \in Cpu : d # c => pc'[d] = pc[d] /\ acc'[d] = acc[d] /\ prot'[d] = prot[d]
  PROVE  Inv'
  BY DEF Inv, Going

LEMMA SwitchInv == ASSUME NEW c \in Cpu, Inv, Switch(c) PROVE Inv'
<1>1. TypeOK'
  BY Zenon DEF Inv, TypeOK, Switch
<1>2. Tables'
  BY Zenon DEF Inv, Tables, Switch
<1>3. Readable' /\ \A d \in Cpu : Going(d)'
  BY Zenon DEF Inv, Readable, Going, Switch
<1> QED
  BY <1>1, <1>2, <1>3, Zenon DEF Inv

(* An access starts within what the mapping permits. *)
LEMMA AccessInv == ASSUME NEW c \in Cpu, Inv, Access(c) PROVE Inv'
<1> USE DEF Inv
<1>1. PICK a \in Addr : map[a] # None /\ \E k \in map[a] : acc' = [acc EXCEPT ![c] = [a |-> a, k |-> k]]
  BY Zenon DEF Access
<1>2. PICK k \in map[a] : acc' = [acc EXCEPT ![c] = [a |-> a, k |-> k]]
  BY <1>1, Zenon
<1>3. pc[c] = "run" /\ pc' = [pc EXCEPT ![c] = "access"] /\ UNCHANGED <<pgd_k, pgd, map, bug, tlb, mm, prot>>
  BY Zenon DEF Access, tables
<1>4. [a |-> a, k |-> k] \in Acc /\ [a |-> a, k |-> k] # None
  BY <1>1, MapOf, NoneAssumption DEF Acc
<1>5. pc'[c] = "access" /\ acc'[c] = [a |-> a, k |-> k]
  BY <1>2, <1>3, Zenon DEF TypeOK
<1>6. \A d \in Cpu : d # c => pc'[d] = pc[d] /\ acc'[d] = acc[d] /\ prot'[d] = prot[d]
  BY <1>2, <1>3, Zenon DEF TypeOK
<1>7. TypeOK'
  <2>1. pc' \in [Cpu -> {"run", "access", "fault", "check", "bad"}] /\ acc' \in [Cpu -> Acc \cup {None}]
    BY <1>2, <1>3, <1>4, Zenon DEF TypeOK
  <2>2. \A d \in Cpu : pc'[d] = "run" <=> acc'[d] = None
    BY <1>4, <1>5, <1>6, Zenon DEF TypeOK
  <2> QED
    BY <1>3, <2>1, <2>2, Zenon DEF TypeOK
<1>8. Tables' /\ Readable'
  BY <1>3, Zenon DEF Tables, Readable
<1>9. Going(c)'
  BY <1>1, <1>3, <1>5 DEF Going
<1> QED
  BY <1>3, <1>6, <1>7, <1>8, <1>9, OneMoves, Zenon

(* The tables stay; the CPU has what Going asks for. *)
LEMMA MmuInv == ASSUME NEW c \in Cpu, Inv, Mmu(c) PROVE Inv'
<1> DEFINE a == acc[c].a
<1> DEFINE perm == IF tlb[c][a] # None THEN tlb[c][a] ELSE map[a]
<1> USE DEF Inv
<1>1. pc[c] = "access" /\ UNCHANGED <<pgd_k, pgd, map, bug, mm>>
  BY Zenon DEF Mmu, tables
<1>2. a \in Addr /\ acc[c].k \in Kind /\ acc[c] # None
  BY <1>1, AccOf, Zenon
<1>3. map[a] # None /\ acc[c].k \in map[a] /\ "R" \in map[a]
  BY <1>1, <1>2, Zenon DEF Going, Tables
<1>4. Tables'
  BY <1>1, Zenon DEF Tables
<1>5. \/ /\ pc' = [pc EXCEPT ![c] = "run"] /\ acc' = [acc EXCEPT ![c] = None]
         /\ tlb' = [tlb EXCEPT ![c][a] = perm] /\ prot' = prot
      \/ /\ pc' = [pc EXCEPT ![c] = "fault"] /\ acc' = acc
         /\ tlb' = [tlb EXCEPT ![c][a] = None]
         /\ \/ prot' = [prot EXCEPT ![c] = TRUE] /\ acc[c].k \notin perm
            \/ prot' = [prot EXCEPT ![c] = FALSE] /\ ~Walks(c, a)
  BY <1>1, Zenon DEF Mmu
<1>6. perm \in SUBSET Kind /\ perm # None /\ "R" \in perm
  BY <1>2, <1>3, NoneAssumption DEF TypeOK, Readable
<1>7. ASSUME NEW q \in (SUBSET Kind) \cup {None}, q # None => "R" \in q, tlb' = [tlb EXCEPT ![c][a] = q]
      PROVE  Readable' /\ tlb' \in [Cpu -> [Addr -> (SUBSET Kind) \cup {None}]]
  <2>1. tlb' \in [Cpu -> [Addr -> (SUBSET Kind) \cup {None}]]
    BY <1>2, <1>7, Zenon DEF TypeOK
  <2>2. \A d \in Cpu : \A b \in Addr : tlb'[d][b] = IF d = c /\ b = a THEN q ELSE tlb[d][b]
    BY <1>2, <1>7, Zenon DEF TypeOK
  <2> QED
    BY <1>7, <2>1, <2>2, Zenon DEF Readable
<1>8. CASE /\ pc' = [pc EXCEPT ![c] = "run"] /\ acc' = [acc EXCEPT ![c] = None]
           /\ tlb' = [tlb EXCEPT ![c][a] = perm] /\ prot' = prot
  <2>1. Readable' /\ tlb' \in [Cpu -> [Addr -> (SUBSET Kind) \cup {None}]]
    BY <1>6, <1>7, <1>8, Zenon
  <2>2. TypeOK'
    BY <1>1, <1>8, <2>1, Zenon DEF TypeOK
  <2>3. Going(c)'
    BY <1>8, Zenon DEF TypeOK, Going
  <2>4. \A d \in Cpu : d # c => pc'[d] = pc[d] /\ acc'[d] = acc[d] /\ prot'[d] = prot[d]
    BY <1>8, Zenon DEF TypeOK
  <2> QED
    BY <1>1, <1>4, <2>1, <2>2, <2>3, <2>4, OneMoves, Zenon
<1>9. ASSUME NEW p \in BOOLEAN, pc' = [pc EXCEPT ![c] = "fault"], acc' = acc,
             tlb' = [tlb EXCEPT ![c][a] = None], prot' = [prot EXCEPT ![c] = p],
             p => acc[c].k \in {"W", "X"}, ~p => a \in Vmalloc
      PROVE  Inv'
  <2>1. Readable' /\ tlb' \in [Cpu -> [Addr -> (SUBSET Kind) \cup {None}]]
    BY <1>7, <1>9, Zenon
  <2>2. \A d \in Cpu : pc'[d] = "run" <=> acc'[d] = None
    BY <1>1, <1>2, <1>9, Zenon DEF TypeOK
  <2>3. TypeOK'
    BY <1>1, <1>9, <2>1, <2>2, Zenon DEF TypeOK
  <2>4. pc'[c] = "fault" /\ prot'[c] = p
    BY <1>9, Zenon DEF TypeOK
  <2>5. Going(c)'
    BY <1>1, <1>3, <1>9, <2>4, Zenon DEF Going
  <2>6. \A d \in Cpu : d # c => pc'[d] = pc[d] /\ acc'[d] = acc[d] /\ prot'[d] = prot[d]
    BY <1>9, Zenon DEF TypeOK
  <2> QED
    BY <1>1, <1>4, <2>1, <2>3, <2>5, <2>6, OneMoves, Zenon
<1>10. acc[c].k \notin perm => acc[c].k \in {"W", "X"}
  BY <1>2, <1>6, Zenon DEF Kind
<1>11. ~Walks(c, a) => a \in Vmalloc
  BY <1>2, <1>3, Zenon DEF Walks, Tables, TypeOK
<1> QED
  BY <1>5, <1>8, <1>9, <1>10, <1>11, Zenon

(* The entry of the reference is copied; the access is repeated, or the fault is
   one of protection. *)
LEMMA VmallocFaultInv == ASSUME NEW c \in Cpu, Inv, vmalloc_fault(c) PROVE Inv'
<1> DEFINE a == acc[c].a
<1> DEFINE t == Top[a]
<1> USE DEF Inv
<1>1. pc[c] = "fault" /\ UNCHANGED <<pgd_k, map, tlb, mm, acc, prot>>
  BY Zenon DEF vmalloc_fault, tables
<1>2. a \in Addr /\ acc[c] # None /\ t \in Index /\ mm[c] \in Mm
  BY <1>1, AccOf, TopIndex, Zenon DEF TypeOK
<1>3. map[a] # None /\ pgd_k[t] # None
  BY <1>1, <1>2, Zenon DEF Going, Tables
<1>4. Readable'
  BY <1>1, Zenon DEF Readable
<1>5. ASSUME NEW at \in {"access", "check"}, pc' = [pc EXCEPT ![c] = at], at = "check" => prot[c],
             pgd' \in [Mm -> [Index -> Index \cup {None}]], Tables'
      PROVE  Inv'
  <2>1. pc'[c] = at /\ \A d \in Cpu : d # c => pc'[d] = pc[d]
    BY <1>5, Zenon DEF TypeOK
  <2>2. TypeOK'
    BY <1>1, <1>2, <1>5, <2>1, Zenon DEF TypeOK
  <2>3. Going(c)'
    BY <1>1, <1>5, <2>1, Zenon DEF Going
  <2> QED
    BY <1>1, <1>4, <1>5, <2>1, <2>2, <2>3, OneMoves, Zenon
<1>6. CASE prot[c] \/ a \notin Vmalloc \/ pgd_k[t] = None
  <2>1. prot[c]
    BY <1>1, <1>3, <1>6, Zenon DEF Going
  <2>2. pc' = [pc EXCEPT ![c] = "check"] /\ UNCHANGED <<pgd, bug>>
    BY <1>6, Zenon DEF vmalloc_fault, tables
  <2>3. Tables' /\ pgd' \in [Mm -> [Index -> Index \cup {None}]]
    BY <1>1, <2>2, Zenon DEF Tables, TypeOK
  <2> QED
    BY <1>5, <2>1, <2>2, <2>3, Zenon
<1>7. CASE ~(prot[c] \/ a \notin Vmalloc \/ pgd_k[t] = None)
  <2>1. /\ pgd' = [pgd EXCEPT ![mm[c]][t] = IF @ = None THEN pgd_k[t] ELSE @]
        /\ bug' = (bug \/ pgd[mm[c]][t] \notin {None, pgd_k[t]})
        /\ pc' = [pc EXCEPT ![c] = "access"]
    BY <1>3, <1>7, Zenon DEF vmalloc_fault
  <2>2. pgd_k[t] \in Index \cup {None} /\ pgd[mm[c]][t] \in {None, pgd_k[t]}
    BY <1>2, Zenon DEF TypeOK, Tables
  <2>3. pgd' \in [Mm -> [Index -> Index \cup {None}]]
    BY <1>2, <2>1, <2>2, Zenon DEF TypeOK
  <2>4. \A m \in Mm : \A i \in Index :
            pgd'[m][i] = IF m = mm[c] /\ i = t THEN pgd_k[t] ELSE pgd[m][i]
    BY <1>2, <2>1, <2>2, Zenon DEF TypeOK
  <2>5. ~bug'
    BY <2>1, <2>2, Zenon DEF Tables
  <2>6. \A m \in Mm : \A i \in Index : pgd'[m][i] \in {None, pgd_k'[i]}
    BY <1>1, <2>4 DEF Tables
  <2>7. \A b \in Addr \ Vmalloc : \A m \in Mm : pgd'[m][Top[b]] # None
    BY <1>3, <2>4, TopIndex DEF Tables
  <2>8. Tables'
    BY <1>1, <2>5, <2>6, <2>7, Zenon DEF Tables
  <2> QED
    BY <1>5, <2>1, <2>3, <2>8, Zenon
<1> QED
  BY <1>6, <1>7, Zenon

(* A fault of protection is found spurious. *)
LEMMA SpuriousInv == ASSUME NEW c \in Cpu, Inv, spurious_kernel_fault(c) PROVE Inv'
<1> USE DEF Inv
<1>1. pc[c] = "check" /\ prot' = [prot EXCEPT ![c] = FALSE] /\ UNCHANGED <<pgd_k, pgd, map, bug, tlb, mm, acc>>
  BY Zenon DEF spurious_kernel_fault, tables
<1>2. acc[c].a \in Addr /\ acc[c] # None
  BY <1>1, AccOf, Zenon
<1>3. /\ prot[c] /\ acc[c].k \in {"W", "X"} /\ acc[c].k \in map[acc[c].a]
      /\ map[acc[c].a] # None /\ pgd_k[Top[acc[c].a]] # None
  BY <1>1, <1>2, Zenon DEF Going, Tables
<1>4. pc' = [pc EXCEPT ![c] = "access"]
  BY <1>3, Zenon DEF spurious_kernel_fault, spurious_kernel_fault_check
<1>5. pc'[c] = "access" /\ \A d \in Cpu : d # c => pc'[d] = pc[d] /\ prot'[d] = prot[d]
  BY <1>1, <1>4, Zenon DEF TypeOK
<1>6. TypeOK'
  BY <1>1, <1>2, <1>4, <1>5, Zenon DEF TypeOK
<1>7. Tables' /\ Readable'
  BY <1>1, Zenon DEF Tables, Readable
<1>8. Going(c)'
  BY <1>1, <1>3, <1>5, Zenon DEF Going
<1> QED
  BY <1>1, <1>5, <1>6, <1>7, <1>8, OneMoves, Zenon

LEMMA StutterInv == Inv /\ UNCHANGED vars => Inv'
<1> SUFFICES ASSUME Inv, UNCHANGED vars PROVE Inv'
  BY Zenon
<1>1. TypeOK'
  BY Zenon DEF Inv, TypeOK, vars
<1>2. Tables' /\ Readable'
  BY Zenon DEF Inv, Tables, Readable, vars
<1>3. ASSUME NEW c \in Cpu PROVE Going(c)'
  BY Zenon DEF Inv, Going, vars
<1> QED
  BY <1>1, <1>2, <1>3, Zenon DEF Inv

(* The invariant the theorems rest on. *)
THEOREM Invariant == Spec => []Inv
<1>1. Inv /\ [Next]_vars => Inv'
  <2> SUFFICES ASSUME Inv, [Next]_vars PROVE Inv'
    BY Zenon
  <2>1. ASSUME NEW a \in Addr, vmalloc(a) \/ vfree(a) \/ Raise(a) PROVE Inv'
    BY <2>1, VmallocInv, VfreeInv, RaiseInv, Zenon
  <2>2. ASSUME NEW c \in Cpu, Access(c) \/ Switch(c) PROVE Inv'
    BY <2>2, AccessInv, SwitchInv, Zenon
  <2>3. ASSUME NEW c \in Cpu, Run(c) PROVE Inv'
    BY <2>3, MmuInv, VmallocFaultInv, SpuriousInv, Zenon DEF Run
  <2>4. CASE UNCHANGED vars
    BY <2>4, StutterInv, Zenon
  <2> QED
    BY <2>1, <2>2, <2>3, <2>4, Zenon DEF Next
<1> QED
  BY InitInv, <1>1, PTL DEF Spec

(* An access of the kernel that the page tables allow never ends as a bad area. *)
THEOREM NeverBadArea == Spec => []NoBadArea
<1>1. Inv => NoBadArea
  BY Zenon DEF Inv, Going, NoBadArea
<1> QED
  BY Invariant, <1>1, PTL

(* The BUG_ONs of vmalloc_fault never fire: an address space has the entry of the
   reference or none. *)
THEOREM CopiesAlwaysAgree == Spec => []CopiesAgree
<1>1. Inv => CopiesAgree
  BY Zenon DEF Inv, Tables, CopiesAgree
<1> QED
  BY Invariant, <1>1, PTL
=============================================================================
