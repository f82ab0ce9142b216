---------------------------- MODULE PageAttrMap ----------------------------
(***************************************************************************)
(* What the calls of pageattr.c (module PageAttr) look like to their       *)
(* callers: the refinement mapping to PageProt.  A page maps as the walk   *)
(* finds it, whatever the sizes of the pages; a call asks for its request  *)
(* while it runs and has been applied to the pages it has gone over.       *)
(***************************************************************************)
EXTENDS PageAttr

Abstract == INSTANCE PageProt WITH
    Withheld <- [p \in Page |-> protect_kernel_text({p}) \cup protect_pci_bios({Frame[p]})
                                \cup protect_rodata({Frame[p]})
                                \cup (IF p \in TextRo THEN {"RW"} ELSE {})],
    map      <- [p \in Page |-> Entry(p)],
    req      <- [c \in Cpu |-> IF pc[c] = "idle" THEN {} ELSE {Bottom(c).req}],
    applied  <- [c \in Cpu |-> Applied(c)]

(* The functions of pageattr.c, with their large pages, splits, aliases, errors
   and interleavings, change pages only as PageProt allows: what no call asked
   for keeps its attributes, every page keeps its frame, and a call that
   returns 0 has been applied to all its pages. *)
Refines == Abstract!Spec
=============================================================================
