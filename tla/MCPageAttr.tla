----------------------------- MODULE MCPageAttr -----------------------------
(* Instances of PageAttr for TLC. *)
EXTENDS PageAttrMap

CONSTANTS c1, c2

Kernel == {"P", "RW", "NX"}

(* The direct mapping (pages 0 to 5: two large pages, a small one and a hole),
   vmalloc space (page 6 is another mapping of frame 1, page 7 a hole) and the high
   mapping (8 and 9, again frames 2 and 3, a large page with the text in page 8).
   It is early: the text and .rodata (frame 3) are still writable.  The large page
   of 0 and 1 has nothing to protect. *)
Mapped     == [p \in 0 .. 9 |-> IF p < 5 THEN p ELSE IF p = 6 THEN 1 ELSE IF p > 7 THEN p - 6 ELSE -1]
MappedProt == [p \in 0 .. 9 |-> IF p < 8 THEN Kernel ELSE {"P", "RW", "G"}]

(* Each CPU makes some of the calls: everything meets something on the same
   pages. *)
Calls ==
    [c \in {c1, c2} |->
        IF c = c1 THEN {set_memory_ro(6, 2), set_memory_x(0, 2), set_memory_x(1, 1),
                        set_memory_x(6, 2), set_memory_np_noalias(8, 2), set_memory_global(1, 1),
                        cpa_set_pages_array(<<1, 0>>, {"CACHE"})}
        ELSE {set_memory_rw(2, 2), set_memory_ro(4, 2), set_memory_nx(8, 2), set_memory_np(0, 1),
              set_memory_4k(1, 1), set_memory_rw(6, 1), set_memory_nonglobal(8, 2),
              cpa_clear_pages_array(<<2, 1>>, {"CACHE"})}]

(* The TLB of one CPU: it is flushed by its own calls and by the other's. *)
OneTlb == [c \in {c1, c2} |-> IF c = c1 THEN {} ELSE {1, 6}]

(* Two PUD entries of two PMD entries of two pages: every range of eight pages,
   in an empty table and after every other call, every allocation failing. *)
Pgd == INSTANCE PgdMap WITH L <- 2, K <- 2, NPud <- 2

(* A call of kernel_map_pages_in_pgd that returns 0 maps every page of its range
   to the frame it was given, through pages of whatever sizes and over whatever
   tables earlier calls left; provided that without
   Gb pages it needs no second PUD entry past the first boundary, and that
   populate_pud has not dropped a failure of its last part (it returns the pages
   before that part, and the part may succeed when it is tried again).  No call
   touches pages outside its range, nor does the clean-up after a failure, which
   frees the tables it finds empty, until it comes to the entry whose table could
   not be allocated and stores through it; what that store does is not said.  It
   is called at boot: the tables are no part of the state, and are looked at
   before the CPUs make calls. *)
MapsRange == Init => Pgd!Maps /\ Pgd!Keeps
=============================================================================
