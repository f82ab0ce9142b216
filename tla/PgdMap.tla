------------------------------- MODULE PgdMap -------------------------------
(***************************************************************************)
(* Mapping ranges into a page table other than the kernel's (kernel_modify/ *)
(* pageattr.c: kernel_map_pages_in_pgd, which maps the EFI regions at       *)
(* boot): populate_pgd and the functions below it choose page sizes,        *)
(* allocate tables as they go, and take back what they did when an          *)
(* allocation fails.  Everything is sequential, before the other CPUs are   *)
(* started: the functions are operators on the tables.                      *)
(*                                                                          *)
(* The pages of a table are functions of the page number; an entry is None, *)
(* Table, or the frame it maps.                                             *)
(***************************************************************************)
EXTENDS Integers, Sequences, SequencesExt

CONSTANTS
    L,              \* pages of a PMD entry
    K,              \* PMD entries of a PUD entry
    NPud            \* PUD entries

G      == L * K                      \* pages of a PUD entry
PageNr == 0 .. NPud * G - 1
None   == -1
Table  == -2

(* As if every address has been aligned for the largest page: the callers see
   to that. *)
FrameOf(p) == p + NPud * G

(* No table at all.  gb: X86_FEATURE_GBPAGES; pfn: of cpa_data; left: allocations
   until one fails; once: those after it succeed again; short: populate_pud
   has dropped a failure; wild: a store is to go through an entry without a
   table, which ends what is said of the tables. *)
Empty == [gb |-> FALSE, top |-> FALSE, pud |-> [g \in 0 .. NPud - 1 |-> None],
          pmd |-> [m \in 0 .. NPud * K - 1 |-> None], pte |-> [p \in PageNr |-> None],
          pfn |-> 0, left |-> 0, once |-> FALSE, short |-> FALSE, wild |-> FALSE]

(* What the hardware finds for a page. *)
Walk(s, p) ==
    LET g == p \div G
        m == p \div L
    IN  IF ~s.top \/ s.pud[g] = None THEN None
        ELSE IF s.pud[g] # Table THEN s.pud[g] + (p % G)
        ELSE IF s.pmd[m] = None THEN None
        ELSE IF s.pmd[m] # Table THEN s.pmd[m] + (p % L) ELSE s.pte[p]

Lesser(a, b) == IF a < b THEN a ELSE b

(***************************************************************************)
(* Unmapping.                                                              *)
(***************************************************************************)

PtesOf(m) == m * L .. m * L + L - 1
PmdsOf(g) == g * K .. g * K + K - 1

(* Mutant of try_to_free_pmd_page: the entries are not looked at. *)
free_pmd_page(s, g) == [s EXCEPT !.pud[g] = None]

(* A table whose entries are all none is freed, and its entry cleared. *)
try_to_free_pmd_page(s, g) ==
    IF \A m \in PmdsOf(g) : s.pmd[m] = None THEN [s EXCEPT !.pud[g] = None] ELSE s

(* Clears entries of the table that entry m is taken to point to.  Without a
   table the code stores at the start of memory, and frees that page if it
   finds it empty: the tables are left as they are before that store. *)
unmap_pte_range(s, m, a, b) ==
    IF s.pmd[m] # Table THEN [s EXCEPT !.wild = TRUE]
    ELSE LET t == [s EXCEPT !.pte = [p \in PageNr |-> IF p \in a .. b - 1 THEN None ELSE @[p]]]
         IN  IF \A p \in PtesOf(m) : t.pte[p] = None
             THEN [t EXCEPT !.pmd[m] = None] ELSE t

__unmap_pmd_range(s, g, m, a, b) ==
    LET t == unmap_pte_range(s, m, a, b)
    IN  IF t.pmd[m] = None /\ ~t.wild THEN try_to_free_pmd_page(t, g) ELSE t

(* The head up to a 2M boundary, whole PMD entries, the rest.  A missing table is
   again taken to be at the start of memory. *)
unmap_pmd_range(s, g, start, end) ==
    LET head  == IF start % L = 0 THEN start
                 ELSE Lesser(end, (start \div L + 1) * L)
        s1    == IF head = start THEN s ELSE __unmap_pmd_range(s, g, start \div L, start, head)
        whole == [i \in 1 .. (end - head) \div L |-> head \div L + i - 1]
        tail  == head + Len(whole) * L
        One(t, m) == IF t.wild THEN t
                     ELSE IF t.pmd[m] \notin {None, Table} THEN [t EXCEPT !.pmd[m] = None]
                     ELSE __unmap_pmd_range(t, g, m, m * L, m * L + L)
        Rest(t)   == IF t.wild THEN t
                     ELSE IF tail < end THEN __unmap_pmd_range(t, g, tail \div L, tail, end)
                     ELSE IF t.pud[g] = Table THEN try_to_free_pmd_page(t, g) ELSE t
    IN  IF s.pud[g] # Table THEN [s EXCEPT !.wild = TRUE] ELSE Rest(FoldLeft(One, s1, whole))

(* The same one level up; the PUD page stays. *)
unmap_pud_range(s, start, end) ==
    LET head  == IF start % G = 0 THEN start
                 ELSE Lesser(end, (start \div G + 1) * G)
        s1    == IF head = start THEN s ELSE unmap_pmd_range(s, start \div G, start, head)
        whole == [i \in 1 .. (end - head) \div G |-> head \div G + i - 1]
        tail  == head + Len(whole) * G
        One(t, g) == IF t.wild THEN t
                     ELSE IF t.pud[g] \notin {None, Table} THEN [t EXCEPT !.pud[g] = None]
                     ELSE unmap_pmd_range(t, g, g * G, g * G + G)
        Rest(t)   == IF tail < end /\ ~t.wild THEN unmap_pmd_range(t, tail \div G, tail, end)
                     ELSE t
    IN  Rest(FoldLeft(One, s1, whole))

(***************************************************************************)
(* Populating: every operator returns the tables and a number, -1 for a    *)
(* failure.                                                                *)
(***************************************************************************)

Failed(s) == [s |-> s, n |-> -1]

(* No memory: for this allocation only, or for all that follow. *)
NoPage(s) == Failed(IF s.once THEN [s EXCEPT !.left = -1] ELSE s)

(* A table for an entry that is none. *)
Taken(s) == [s EXCEPT !.left = @ - 1]

(* n pages from entry i of the PTEs on. *)
populate_pte(s, i, n) ==
    LET t == [s EXCEPT !.pfn = @ + n,
                       !.pte = [p \in PageNr |-> IF p \in i .. i + n - 1
                                               THEN s.pfn + (p - i) ELSE @[p]]]
    IN  IF s.pmd[i \div L] = Table THEN t ELSE [t EXCEPT !.wild = TRUE]

(* pmd_offset: the entry for page p in the table of PUD entry g. *)
pmd_offset(g, p) == g * K + ((p \div L) % K)

(* n pages from start on, none beyond their PMD entry, which may need a table. *)
PtesAt(s, g, start, n) ==
    LET m == pmd_offset(g, start)
        t == IF s.pmd[m] = None
             THEN [Taken(s) EXCEPT !.pmd[m] = Table,
                       !.pte = [p \in PageNr |-> IF p \in PtesOf(m) THEN None ELSE @[p]]]
             ELSE s
    IN  IF s.pmd[m] = None /\ s.left = 0 THEN NoPage(s)
        ELSE [s |-> populate_pte(t, m * L + (start % L), n), n |-> n]

(* 2M entries for `many' times L pages from start on. *)
LargeAt(s, g, start, many) ==
    LET Of(m) == {i \in 0 .. many - 1 : pmd_offset(g, start + i * L) = m}
    IN  [s EXCEPT !.pfn = @ + many * L,
             !.pmd = [m \in DOMAIN @ |-> IF Of(m) = {} THEN @[m] ELSE s.pfn + Max(Of(m)) * L]]

(* The head up to a 2M boundary, large pages, the rest. *)
populate_pmd(s, g, start, end, n) ==
    LET head == IF start % L = 0 THEN start
                ELSE Lesser(start + n, (start \div L + 1) * L)
        many == (end - head) \div L
        tail == head + many * L
        Ended(r) == IF r.n = -1 THEN r ELSE [r EXCEPT !.n = n]
        Rest(t)  == IF tail = end THEN [s |-> t, n |-> n]
                    ELSE Ended(PtesAt(t, g, tail, end - tail))
        Begun(r) == IF r.n \in {-1, n} THEN r ELSE Rest(LargeAt(r.s, g, head, many))
    IN  Begun(IF head = start THEN [s |-> s, n |-> 0] ELSE PtesAt(s, g, start, head - start))

(* Through the table of one PUD entry, which may have to be allocated. *)
PmdsAt(s, start, end, n) ==
    LET g == start \div G
        t == IF s.pud[g] = None
             THEN [Taken(s) EXCEPT !.pud[g] = Table,
                       !.pmd = [m \in DOMAIN @ |-> IF m \in PmdsOf(g) THEN None ELSE @[m]]]
             ELSE s
    IN  IF s.pud[g] = None /\ s.left = 0 THEN NoPage(s)
        ELSE populate_pmd(t, g, start, end, n)

(* 1G entries for `many' times G pages from start on. *)
HugeAt(s, start, many) ==
    [s EXCEPT !.pfn = @ + many * G,
         !.pud = [g \in DOMAIN @ |-> IF g \in start \div G .. start \div G + many - 1
                                     THEN s.pfn + (g * G - start) ELSE @[g]]]

(* The same one level up.  A failure of the last part is reported only if there
   was no page for its table. *)
populate_pud(s, start, n) ==
    LET end  == start + n
        head == IF start % G = 0 THEN start
                ELSE Lesser(end, (start \div G + 1) * G)
        many == IF s.gb THEN (end - head) \div G ELSE 0
        tail == head + many * G
        cur  == tail - start
        Ended(t, r) == IF r.n # -1 THEN [r EXCEPT !.n = cur + @]
                      ELSE IF t.pud[tail \div G] = None /\ t.left = 0 THEN r
                      ELSE [r EXCEPT !.n = cur, !.s.short = TRUE]
        Rest(t)    == IF tail = end THEN [s |-> t, n |-> cur]
                      ELSE Ended(t, PmdsAt(t, tail, end, n - cur))
        Begun(r)   == IF r.n \in {-1, n} THEN r ELSE Rest(HugeAt(r.s, head, many))
    IN  Begun(IF head = start THEN [s |-> s, n |-> 0] ELSE PmdsAt(s, start, head, head - start))

(* On failure the range is unmapped again. *)
populate_pgd(s, start, n) ==
    LET t       == IF s.top THEN s ELSE [Taken(s) EXCEPT !.top = TRUE]
        Undo(r) == IF r.n >= 0 THEN r ELSE Failed(unmap_pud_range(r.s, start, start + n))
    IN  IF ~s.top /\ s.left = 0 THEN NoPage(s) ELSE Undo(populate_pud(t, start, n))

(***************************************************************************)
(* The calls.                                                              *)
(***************************************************************************)

(* A page found mapped keeps its translation and, mapped with the same attributes
   by this call, its size; cpa->pfn becomes its frame. *)
Found(s, a, n) ==
    LET end == IF s.pud[a \div G] # Table THEN (a \div G + 1) * G
               ELSE IF s.pmd[a \div L] # Table THEN (a \div L + 1) * L ELSE a + 1
    IN  [s |-> [s EXCEPT !.pfn = Walk(s, a)], n |-> Lesser(n, end - a)]

__change_page_attr(s, a, n) ==
    IF Walk(s, a) = None THEN populate_pgd(s, a, n) ELSE Found(s, a, n)

(* The loop over the n pages from a on: the tables and the result: 0, -ENOMEM,
   its BUG_ON, or "wild" with the tables as they were before the store through
   a missing table. *)
RECURSIVE __change_page_attr_set_clr(_, _, _)
__change_page_attr_set_clr(s, a, n) ==
    LET After(r) ==
            IF r.s.wild THEN [s |-> r.s, ret |-> "wild"]
            ELSE IF r.n = -1 THEN [s |-> r.s, ret |-> "nomem"]
            ELSE IF r.n \notin 1 .. n THEN [s |-> r.s, ret |-> "bug"]
            ELSE __change_page_attr_set_clr(r.s, a + r.n, n - r.n)
    IN  IF n = 0 THEN [s |-> s, ret |-> "ok"] ELSE After(__change_page_attr(s, a, n))

kernel_map_pages_in_pgd(s, c) ==
    __change_page_attr_set_clr(
        [s EXCEPT !.pfn = FrameOf(c.start), !.left = c.left, !.once = c.once], c.start, c.n)

(***************************************************************************)
(* Properties.                                                             *)
(***************************************************************************)

(* The calls: allocation number left + 1 fails. *)
Calls == {c \in [start : PageNr, n : 1 .. NPud * G, left : 0 .. 3 * NPud + 1, once : BOOLEAN] :
              c.start + c.n - 1 \in PageNr}

In(c)      == c.start .. c.start + c.n - 1
Fits(s, c) == \A p \in In(c) : Walk(s, p) = None       \* not mapped yet

(* The tables that up to `calls' calls leave. *)
RECURSIVE Tables(_)
Tables(calls) ==
    IF calls = 0 THEN {[Empty EXCEPT !.gb = g] : g \in BOOLEAN}
    ELSE LET T == Tables(calls - 1)
             R == {kernel_map_pages_in_pgd(x[1], x[2]) :
                       x \in {y \in T \X Calls : Fits(y[1], y[2])}}
         IN  T \cup {[r.s EXCEPT !.pfn = 0, !.left = 0, !.once = FALSE, !.short = FALSE] :
                        r \in {q \in R : q.ret \in {"ok", "nomem"}}}

(* Beyond the first Gb boundary the range stays within one PUD entry. *)
Narrow(c) == LET head == ((c.start + G - 1) \div G) * G IN c.start + c.n <= head + G

(* A call that returns 0 maps its range and nothing else, unless populate_pud has
   dropped a failure on the way. *)
Maps ==
    \A s \in Tables(1) : \A c \in {d \in Calls : Fits(s, d)} :
        s.gb \/ Narrow(c) =>
            LET r == kernel_map_pages_in_pgd(s, c)
            IN  r.ret = "ok" /\ ~r.s.short =>
                    \A p \in PageNr : Walk(r.s, p) = IF p \in In(c) THEN FrameOf(p) ELSE Walk(s, p)

(* A call changes no page outside its range, up to the store through a missing
   table if its clean-up comes to one. *)
Keeps ==
    \A s \in Tables(1) : \A c \in {d \in Calls : Fits(s, d)} :
        \A p \in PageNr \ In(c) : Walk(kernel_map_pages_in_pgd(s, c).s, p) = Walk(s, p)
=============================================================================
