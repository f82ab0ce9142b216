---------------------------- MODULE VmallocFault ----------------------------
(***************************************************************************)
(* Faults on kernel addresses that are nobody's error (kernel_modify/      *)
(* fault.c): vmalloc memory, such as the code blocks of exe_add, is        *)
(* entered into the reference page table (init_mm) only, and every other   *)
(* address space copies the top level entry when it first touches the      *)
(* memory; and a page that was made writable or executable is first used   *)
(* through a translation from before.  The tables below the top level are  *)
(* shared by all address spaces; that a page may be mapped by a PUD, a PMD *)
(* or a PTE only decides where the two walks stop.                         *)
(*                                                                         *)
(* vmalloc, vfree, the change of permissions and the MMU are not in this   *)
(* file and are modelled by what the two functions rely on.                *)
(***************************************************************************)
EXTENDS Naturals

CONSTANTS
    Cpu, Mm,
    Addr,           \* kernel pages
    Vmalloc,        \* those of the vmalloc area
    Top,            \* Addr -> index of the top level entry
    None

Kind == {"R", "W", "X"}     \* a read, a write, an instruction fetch
Acc  == [a : Addr, k : Kind]

Index == {Top[a] : a \in Addr}

ASSUME AddrAssumption == Vmalloc \subseteq Addr /\ DOMAIN Top = Addr
ASSUME NoneAssumption ==
    /\ None \notin Index /\ None \notin Acc
    /\ \A P \in SUBSET Kind : P # None

VARIABLES
    pgd_k,      \* index -> a table, or None: the reference
    pgd,        \* mm -> index -> the same
    map,        \* Addr -> what its mapping permits, or None
    tlb,        \* CPU -> Addr -> permissions of a translation, or None
    mm,         \* CPU -> the address space it runs in (CR3)
    pc,         \* CPU -> "run", "access", "fault", "check" or "bad"
    acc,        \* CPU -> [a, k]: the access going on
    prot,       \* CPU -> X86_PF_PROT of the error code
    bug         \* a BUG_ON has fired

vars == <<pgd_k, pgd, map, tlb, mm, pc, acc, prot, bug>>
tables == <<pgd_k, pgd, map, bug>>

(* At boot every address space has the entries of everything but vmalloc. *)
Init ==
    /\ pgd_k = [i \in Index |-> IF \E a \in Addr \ Vmalloc : Top[a] = i THEN i ELSE None]
    /\ pgd = [m \in Mm |-> pgd_k]
    /\ map = [a \in Addr |-> IF a \in Vmalloc THEN None ELSE {"R"}]
    /\ tlb = [c \in Cpu |-> [a \in Addr |-> None]]
    /\ mm \in [Cpu -> Mm] /\ pc = [c \in Cpu |-> "run"] /\ bug = FALSE
    /\ acc = [c \in Cpu |-> None] /\ prot = [c \in Cpu |-> FALSE]

(***************************************************************************)
(* What is external.                                                       *)
(***************************************************************************)

vmalloc(a) ==
    /\ a \in Vmalloc /\ map[a] = None
    /\ map' = [map EXCEPT ![a] = {"R", "W"}]
    /\ pgd_k' = [pgd_k EXCEPT ![Top[a]] = Top[a]]
    /\ UNCHANGED <<pgd, tlb, mm, pc, acc, prot, bug>>

(* Nobody uses the memory any more; its translations are flushed. *)
vfree(a) ==
    /\ a \in Vmalloc /\ map[a] # None /\ ~\E c \in Cpu : acc[c] # None /\ acc[c].a = a
    /\ map' = [map EXCEPT ![a] = None]
    /\ tlb' = [c \in Cpu |-> [tlb[c] EXCEPT ![a] = None]]
    /\ UNCHANGED <<pgd_k, pgd, mm, pc, acc, prot, bug>>

(* More permissions, without a flush. *)
Raise(a) ==
    /\ map[a] # None /\ map[a] # Kind
    /\ \E k \in Kind : map' = [map EXCEPT ![a] = @ \cup {k}]
    /\ UNCHANGED <<pgd_k, pgd, tlb, mm, pc, acc, prot, bug>>

Walks(c, a) == pgd[mm[c]][Top[a]] # None /\ map[a] # None

Switch(c) ==
    /\ pc[c] = "run" /\ \E m \in Mm : mm' = [mm EXCEPT ![c] = m]
    /\ UNCHANGED <<pgd_k, pgd, map, tlb, pc, acc, prot, bug>>

(* The kernel accesses memory as it is allowed to. *)
Access(c) ==
    /\ pc[c] = "run"
    /\ \E a \in Addr : /\ map[a] # None
                       /\ \E k \in map[a] : acc' = [acc EXCEPT ![c] = [a |-> a, k |-> k]]
    /\ pc' = [pc EXCEPT ![c] = "access"] /\ UNCHANGED <<tables, tlb, mm, prot>>

(* The instruction: a translation that forbids it is dropped with the fault. *)
Mmu(c) ==
    LET a == acc[c].a
        Fault(p) == /\ pc' = [pc EXCEPT ![c] = "fault"] /\ prot' = [prot EXCEPT ![c] = p]
                    /\ tlb' = [tlb EXCEPT ![c][a] = None] /\ UNCHANGED acc
        Found(perm) ==
            IF acc[c].k \in perm
            THEN /\ pc' = [pc EXCEPT ![c] = "run"] /\ acc' = [acc EXCEPT ![c] = None]
                 /\ tlb' = [tlb EXCEPT ![c][a] = perm] /\ UNCHANGED prot
            ELSE Fault(TRUE)
    IN  /\ pc[c] = "access" /\ UNCHANGED <<tables, mm>>
        /\ IF tlb[c][a] # None THEN Found(tlb[c][a])
           ELSE IF Walks(c, a) THEN Found(map[a]) ELSE Fault(FALSE)

(***************************************************************************)
(* fault.c: the first two things do_kern_addr_fault tries.                 *)
(***************************************************************************)

(* Mutant of vmalloc_fault: the copy goes to the entry after. *)
vmalloc_fault_next(c) ==
    LET t == Top[acc[c].a] IN
    /\ pc[c] = "fault" /\ t + 1 \in Index
    /\ pgd' = [pgd EXCEPT ![mm[c]][t + 1] = pgd_k[t]]
    /\ pc' = [pc EXCEPT ![c] = "access"]
    /\ UNCHANGED <<pgd_k, map, bug, tlb, mm, acc, prot>>

(* Mutant of vmalloc_fault: nothing is copied. *)
vmalloc_fault_not(c) ==
    /\ pc[c] = "fault"
    /\ pc' = [pc EXCEPT ![c] = IF ~prot[c] /\ map[acc[c].a] # None THEN "access" ELSE "check"]
    /\ UNCHANGED <<tables, tlb, mm, acc, prot>>

(* Only for a page that was not present: the top level entry is copied, or is
   the same already; then the shared tables must map the address, at whatever
   level. *)
vmalloc_fault(c) ==
    LET a == acc[c].a
        t == Top[a]
    IN  /\ pc[c] = "fault"
        /\ IF prot[c] \/ a \notin Vmalloc \/ pgd_k[t] = None
           THEN pc' = [pc EXCEPT ![c] = "check"] /\ UNCHANGED tables
           ELSE /\ pgd' = [pgd EXCEPT ![mm[c]][t] = IF @ = None THEN pgd_k[t] ELSE @]
                /\ bug' = (bug \/ pgd[mm[c]][t] \notin {None, pgd_k[t]})
                /\ pc' = [pc EXCEPT ![c] = IF map[a] # None THEN "access" ELSE "check"]
                /\ UNCHANGED <<pgd_k, map>>
        /\ UNCHANGED <<tlb, mm, acc, prot>>

(* Mutant of spurious_kernel_fault_check: fetches are never spurious. *)
spurious_check_write(k, perm) == k = "W" /\ k \in perm

spurious_kernel_fault_check(k, perm) == k \in perm

(* Only protection faults of writes and fetches; the reference table decides.
   What is not spurious is a bad area. *)
spurious_kernel_fault(c) ==
    LET a == acc[c].a
        k == acc[c].k
    IN  /\ pc[c] = "check"
        /\ pc' = [pc EXCEPT ![c] =
               IF /\ prot[c] /\ k \in {"W", "X"} /\ pgd_k[Top[a]] # None /\ map[a] # None
                  /\ spurious_kernel_fault_check(k, map[a])
               THEN "access" ELSE "bad"]
        /\ prot' = [prot EXCEPT ![c] = FALSE] /\ UNCHANGED <<tables, tlb, mm, acc>>

Run(c) == Mmu(c) \/ vmalloc_fault(c) \/ spurious_kernel_fault(c)

Next ==
    \/ \E a \in Addr : vmalloc(a) \/ vfree(a) \/ Raise(a)
    \/ \E c \in Cpu : Access(c) \/ Run(c) \/ Switch(c)

Spec == Init /\ [][Next]_vars

(* A CPU in an access or in its fault goes on. *)
FairSpec == Spec /\ \A c \in Cpu : WF_vars(Run(c))

(***************************************************************************)
(* Properties.                                                             *)
(***************************************************************************)

TypeOK ==
    /\ pgd_k \in [Index -> Index \cup {None}] /\ pgd \in [Mm -> [Index -> Index \cup {None}]]
    /\ map \in [Addr -> (SUBSET Kind) \cup {None}] /\ mm \in [Cpu -> Mm]
    /\ tlb \in [Cpu -> [Addr -> (SUBSET Kind) \cup {None}]] /\ prot \in [Cpu -> BOOLEAN]
    /\ pc \in [Cpu -> {"run", "access", "fault", "check", "bad"}]
    /\ acc \in [Cpu -> Acc \cup {None}] /\ \A c \in Cpu : pc[c] = "run" <=> acc[c] = None

(* An access that the page tables allow never ends as a bad area: whichever
   address space the CPU is in, whether the memory was allocated or its
   permissions raised before, during or after the fault. *)
NoBadArea == \A c \in Cpu : pc[c] # "bad"

(* The copies of the top level entries never disagree with the reference, which
   the BUG_ONs of vmalloc_fault assert, and no memory is reached through an
   address space that the reference does not know. *)
CopiesAgree ==
    /\ ~bug
    /\ \A m \in Mm : \A i \in Index : pgd[m][i] \in {None, pgd_k[i]}

(* The instruction is repeated until it succeeds, and it does: the entry that
   was copied, or the translation that was dropped, is what it failed on. *)
AccessEnds == \A c \in Cpu : pc[c] # "run" ~> pc[c] = "run"
=============================================================================
