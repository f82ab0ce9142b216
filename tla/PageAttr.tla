------------------------------- MODULE PageAttr -------------------------------
(***************************************************************************)
(* Changing the attributes of kernel pages (kernel_modify/pageattr.c):     *)
(* change_page_attr_set_clr and everything below it, which set_memory_x    *)
(* (added for exe_add's code blocks) and the other set_memory functions    *)
(* end in.  CPUs change ranges of pages at the same time, split large      *)
(* pages on the way, follow the aliases of a page and flush the TLBs, while *)
(* every CPU loads translations into its TLB at any time.                  *)
(*                                                                         *)
(* Pages are of two sizes, 4K and 2M (L small pages).  1G pages are left    *)
(* out; split_set_pte does not restore protections when it splits one.     *)
(* A step is one store into a page table, the flush of one CPU, or what    *)
(* lies between taking and releasing cpa_lock.                             *)
(***************************************************************************)
EXTENDS Integers, Sequences

CONSTANTS
    Cpu,
    Page,           \* virtual pages 0 .. n-1; L of them make a large page
    L,
    Large,          \* the large pages mapped as such at boot
    Frame,          \* the frame a virtual page is mapped to; -1 for a hole
    BootProt,       \* virtual page -> its attributes at boot
    Direct, High,   \* pages of the direct and of the high kernel mapping
    Text, TextRo,   \* virtual pages of _text.._etext, of _text..rodata
    Bios, Rodata,   \* frames of the BIOS and of .rodata
    Request,        \* CPU -> the calls it makes: [pages, array, set, clr, split, chk]
    Loads,          \* bound: CPU -> the pages whose translations it loads
    Ceiling,        \* tlb_single_page_flush_ceiling
    MaxCall         \* bound: calls per CPU

Bits  == {"P", "RW", "NX", "G", "CACHE"}
Group == {p \div L : p \in Page}
Of(g) == {p \in Page : p \div L = g}

(* An entry of a page table that is not present. *)
Hole == [pfn |-> -1, prot |-> {}]

ASSUME SizeAssumption ==
    /\ L \in Nat \ {0} /\ Page \subseteq Nat /\ Ceiling \in Nat /\ MaxCall \in Nat
    /\ Large \subseteq Group /\ Direct \subseteq Page /\ High \subseteq Page
    /\ Frame \in [Page -> Nat \cup {-1}] /\ BootProt \in [Page -> SUBSET Bits]
    /\ "free" \notin Cpu /\ \A c \in Cpu : Loads[c] \subseteq Page

(* The mappings the kernel boots with.  A large page maps frames that follow each
   other; the direct mapping has a frame at its own number; both it and the
   high mapping have whole large pages, and what the high mapping maps is
   memory, mapped directly too. *)
ASSUME BootAssumption ==
    /\ \A g \in Large : \A k \in 0 .. L - 1 :
           g * L + k \in Page /\ Frame[g * L + k] = Frame[g * L] + k /\ Frame[g * L] # -1
    /\ \A p \in Direct : Frame[p] \in {p, -1}
    /\ \A g \in Large : \A p, q \in Of(g) : Frame[p] \in Direct => Frame[q] \in Direct
    /\ \A g \in Large : \A p, q \in Of(g) : \A h \in High :
           p <= q /\ Frame[h] = Frame[p] =>
               h + (q - p) \in High /\ Frame[h + (q - p)] = Frame[q]
    /\ \A h \in High : Frame[h] \in Direct => Frame[Frame[h]] = Frame[h]

(* A call of change_page_attr_set_clr, and the functions that are such a call.  The
   processor supports NX. *)
Ask(pages, set, clr) ==
    [pages |-> pages, array |-> FALSE, set |-> set, clr |-> clr, split |-> FALSE,
     chk |-> TRUE]

change_page_attr_set(a, n, mask)   == Ask([i \in 1 .. n |-> a + i - 1], mask, {})
change_page_attr_clear(a, n, mask) == Ask([i \in 1 .. n |-> a + i - 1], {}, mask)
cpa_set_pages_array(pages, mask)   == [Ask(pages, mask, {}) EXCEPT !.array = TRUE]
cpa_clear_pages_array(pages, mask) == [Ask(pages, {}, mask) EXCEPT !.array = TRUE]

set_memory_x(a, n)          == change_page_attr_clear(a, n, {"NX"})
set_memory_nx(a, n)         == change_page_attr_set(a, n, {"NX"})
set_memory_ro(a, n)         == change_page_attr_clear(a, n, {"RW"})
set_memory_rw(a, n)         == change_page_attr_set(a, n, {"RW"})
set_memory_np(a, n)         == change_page_attr_clear(a, n, {"P"})
set_memory_np_noalias(a, n) == [set_memory_np(a, n) EXCEPT !.chk = FALSE]
set_memory_4k(a, n)         == [change_page_attr_set(a, n, {}) EXCEPT !.split = TRUE]
set_memory_nonglobal(a, n)  == change_page_attr_clear(a, n, {"G"})
set_memory_global(a, n)     == change_page_attr_set(a, n, {"G"})

ASSUME RequestAssumption ==
    \A c \in Cpu : \A r \in Request[c] :
        /\ r \in [pages : Seq(Page), array : BOOLEAN, set : SUBSET Bits,
                  clr : SUBSET Bits, split : BOOLEAN, chk : BOOLEAN]
        /\ r.pages # <<>>
        /\ ~r.array => \A i \in DOMAIN r.pages : r.pages[i] = r.pages[1] + i - 1

VARIABLES
    pmd,        \* group -> [large, e]: a large page, or a table of PTEs
    pte,        \* virtual page -> entry, used when its group is not large
    tlb,        \* CPU -> the translations it holds
    cpa_lock,   \* the CPU that holds it, or "free"
    pc,         \* position of each CPU
    cpa,        \* CPU -> stack of struct cpa_data: the call, a call for an alias
    pend,       \* CPUs still to be flushed by this one
    ret,        \* the local ret of the call
    calls,
    lost        \* history: pages that changed as aliases with no flush noted

vars == <<pmd, pte, tlb, cpa_lock, pc, cpa, pend, ret, calls, lost>>

(* A translation in a TLB: the page or the large page it is for. *)
Covers(e) == IF e.large THEN Of(e.at) ELSE {e.at}

Entry(p) == IF pmd[p \div L].large
            THEN [pmd[p \div L].e EXCEPT !.pfn = @ + (p % L)] ELSE pte[p]

Init ==
    /\ pmd = [g \in Group |-> [large |-> g \in Large,
                               e |-> IF g \in Large
                                     THEN [pfn |-> Frame[g * L], prot |-> BootProt[g * L]]
                                     ELSE Hole]]
    /\ pte = [p \in Page |-> IF p \div L \in Large \/ Frame[p] = -1 THEN Hole
                             ELSE [pfn |-> Frame[p], prot |-> BootProt[p]]]
    /\ tlb = [c \in Cpu |-> {}] /\ cpa_lock = "free"
    /\ pc = [c \in Cpu |-> "idle"] /\ cpa = [c \in Cpu |-> <<>>]
    /\ pend = [c \in Cpu |-> {}] /\ ret = [c \in Cpu |-> 0]
    /\ calls = [c \in Cpu |-> 0] /\ lost = {}

Goto(c, at)  == pc' = [pc EXCEPT ![c] = at]
Top(c)       == cpa[c][1]
Bottom(c)    == cpa[c][Len(cpa[c])]      \* the call itself
SetTop(c, r) == cpa' = [cpa EXCEPT ![c][1] = r]

__cpa_addr(r, i) == IF r.array THEN r.pages[i + 1] ELSE r.pages[1] + i

(***************************************************************************)
(* The protections that some pages must have.                              *)
(***************************************************************************)

protect_kernel_text(S) == IF S \cap Text # {} THEN {"NX"} ELSE {}
protect_pci_bios(F)    == IF F \cap Bios # {} THEN {"NX"} ELSE {}
protect_rodata(F)      == IF F \cap Rodata # {} THEN {"RW"} ELSE {}

(* Only as long as the text is still mapped by large pages. *)
protect_kernel_text_ro(p, S) ==
    IF S \cap TextRo # {} /\ pmd[p \div L].large THEN {"RW"} ELSE {}

(* Mutant of static_protections: single pages are not protected. *)
static_protections_large(prot, p, pfn, npg, whole) ==
    IF whole THEN prot \ protect_kernel_text(p .. p + npg - 1) ELSE prot

(* prot for npg pages from p, frames from pfn on; whole: all of a large page. *)
static_protections(prot, p, pfn, npg, whole) ==
    LET S == p .. p + npg - 1
        F == pfn .. pfn + npg - 1
    IN  IF "P" \notin prot THEN prot
        ELSE prot \ (protect_kernel_text(S) \cup protect_pci_bios(F)
                     \cup protect_rodata(F)
                     \cup (IF whole THEN {} ELSE protect_kernel_text_ro(p, S)))

pgprot_clear_protnone_bits(prot) == IF "P" \in prot THEN prot ELSE prot \ {"G"}

Requested(r, prot) == (prot \ r.clr) \cup r.set

(***************************************************************************)
(* change_page_attr_set_clr: one call.                                     *)
(***************************************************************************)

(* No alias checking for changes of NX alone. *)
cpa_data(r) ==
    [req |-> r, pages |-> r.pages, array |-> r.array, set |-> r.set, clr |-> r.clr,
     split |-> r.split, chk |-> r.chk /\ r.set \cup r.clr # {"NX"},
     total |-> Len(r.pages), rem |-> Len(r.pages), numpages |-> 0, curpage |-> 0,
     pfn |-> -1, static |-> FALSE, flushtlb |-> FALSE, flush_all |-> FALSE, back |-> "done"]

Call(c) ==
    /\ pc[c] = "idle" /\ calls[c] < MaxCall
    /\ \E r \in Request[c] : cpa' = [cpa EXCEPT ![c] = <<cpa_data(r)>>]
    /\ calls' = [calls EXCEPT ![c] = @ + 1] /\ ret' = [ret EXCEPT ![c] = 0]
    /\ Goto(c, "loop") /\ UNCHANGED <<pmd, pte, tlb, cpa_lock, pend, lost>>

(* The head of the loop of __change_page_attr_set_clr. *)
Loop(c) ==
    LET r == Top(c) IN
    /\ pc[c] = "loop"
    /\ IF r.rem > 0
       THEN /\ cpa_lock = "free" /\ cpa_lock' = c
            /\ SetTop(c, [r EXCEPT !.numpages = IF r.array THEN 1 ELSE r.rem])
            /\ Goto(c, "attr")
       ELSE /\ UNCHANGED cpa_lock
            /\ cpa' = IF Len(cpa[c]) = 1 THEN cpa ELSE [cpa EXCEPT ![c] = Tail(@)]
            /\ Goto(c, r.back)
    /\ UNCHANGED <<pmd, pte, tlb, pend, ret, calls, lost>>

(* A failed call for the high mapping is ignored; any other ends the call. *)
Fail(c, code) ==
    IF Top(c).back = "adjust"
    THEN /\ cpa' = [cpa EXCEPT ![c] = Tail(@)] /\ Goto(c, "adjust") /\ UNCHANGED ret
    ELSE /\ cpa' = [cpa EXCEPT ![c] = <<@[Len(@)]>>]
         /\ ret' = [ret EXCEPT ![c] = code] /\ Goto(c, "done")

(* No entry for the address. *)
__cpa_process_fault(c, p) ==
    LET r == Top(c) IN
    /\ IF ~r.chk THEN SetTop(c, [r EXCEPT !.numpages = 1]) /\ Goto(c, "alias")
                      /\ UNCHANGED ret
       ELSE IF p \in Direct
       THEN SetTop(c, [r EXCEPT !.numpages = 1, !.pfn = p]) /\ Goto(c, "alias")
            /\ UNCHANGED ret
       ELSE Fail(c, -14)
    /\ cpa_lock' = "free" /\ UNCHANGED <<pmd, pte>>

(* A 4K page: the last case of the loop, one store. *)
Change4K(c, p) ==
    LET r    == Top(c)
        old  == pte[p]
        want == static_protections(Requested(r, old.prot), p, old.pfn, 1, FALSE)
        new  == [old EXCEPT !.prot = pgprot_clear_protnone_bits(want)]
    IN  /\ pte' = [pte EXCEPT ![p] = new]
        /\ SetTop(c, [r EXCEPT !.pfn = old.pfn, !.numpages = 1,
                               !.flushtlb = @ \/ new # old])
        /\ cpa_lock' = "free" /\ Goto(c, "alias") /\ UNCHANGED <<pmd, ret>>

(* Mutant of PagesHere: up to the last page of the large page, without it. *)
PagesHereBut(r, p) == IF L - 1 - (p % L) < r.numpages THEN L - 1 - (p % L) ELSE r.numpages

(* The pages of the call in the large page of p, from p on. *)
PagesHere(r, p) == IF L - (p % L) < r.numpages THEN L - (p % L) ELSE r.numpages

(* A large page: __should_split_large_page, under pgd_lock.  It stays whole if
   nothing changes, or if all of it changes and no part is protected. *)
ChangeLarge(c, p) ==
    LET r    == Top(c)
        g    == p \div L
        old  == pmd[g].e
        n    == PagesHere(r, p)
        req  == pgprot_clear_protnone_bits(Requested(r, old.prot))
        at   == [r EXCEPT !.numpages = n, !.pfn = old.pfn + (p % L)]
        chk  == static_protections(old.prot, g * L, old.pfn, L, TRUE)
        new  == static_protections(req, g * L, old.pfn, L, TRUE)
        Split(s) == SetTop(c, s) /\ Goto(c, "alloc") /\ UNCHANGED pmd
    IN  /\ IF r.split THEN Split(r)
           ELSE IF chk # old.prot THEN Split([at EXCEPT !.static = TRUE])
           ELSE IF req = old.prot
           THEN SetTop(c, at) /\ Goto(c, "alias") /\ UNCHANGED pmd
           ELSE IF p # g * L \/ n # L \/ new # req THEN Split(at)
           ELSE /\ pmd' = [pmd EXCEPT ![g].e.prot = new]
                /\ SetTop(c, [at EXCEPT !.flushtlb = TRUE]) /\ Goto(c, "alias")
        /\ cpa_lock' = "free" /\ UNCHANGED <<pte, ret>>

(* One round under cpa_lock; split_large_page drops it to allocate.  For an alias
   CPA_FLUSHTLB is set in alias_cpa, a copy that is thrown away. *)
__change_page_attr(c) ==
    LET p == __cpa_addr(Top(c), Top(c).curpage) IN
    /\ pc[c] = "attr"
    /\ IF Entry(p) = Hole THEN __cpa_process_fault(c, p)
       ELSE IF pmd[p \div L].large THEN ChangeLarge(c, p) ELSE Change4K(c, p)
    /\ lost' = lost \cup
           IF Len(cpa[c]) = 2 /\ ~Bottom(c).flushtlb THEN {q \in Page : Entry(q)' # Entry(q)} ELSE {}
    /\ UNCHANGED <<tlb, pend, calls>>

(* alloc_pages in split_large_page. *)
Alloc(c) ==
    /\ pc[c] = "alloc" /\ UNCHANGED <<pmd, pte, tlb, cpa_lock, pend, calls, lost>>
    /\ \/ Goto(c, "split") /\ UNCHANGED <<cpa, ret>>
       \/ Fail(c, -12)

(* Mutant of split_set_pte: all entries map the first frame. *)
split_set_pte_first(r, p, e) == e

(* The entries of the new table. *)
split_set_pte(r, p, e) ==
    [pfn |-> e.pfn + (p % L),
     prot |-> IF r.static
              THEN static_protections(e.prot, p, e.pfn + (p % L), 1, FALSE)
              ELSE e.prot]

(* Mutant of __split_large_page: it takes the page to be split already. *)
__split_large_page_not(c) ==
    /\ pc[c] = "split" /\ cpa_lock = "free" /\ cpa_lock' = c /\ Goto(c, "attr")
    /\ UNCHANGED <<pmd, pte, tlb, cpa, pend, ret, calls, lost>>

(* __split_large_page: fill the table, then install it.  Another CPU may have
   split the page before. *)
__split_large_page(c) ==
    LET r == Top(c)
        g == __cpa_addr(r, r.curpage) \div L
        e == [pmd[g].e EXCEPT !.prot = pgprot_clear_protnone_bits(@)]
    IN  /\ pc[c] = "split" /\ cpa_lock = "free" /\ cpa_lock' = c
        /\ IF ~pmd[g].large
           THEN Goto(c, "attr") /\ UNCHANGED <<pmd, pte, pend>>
           ELSE /\ pte' = [p \in Page |-> IF p \in Of(g) THEN split_set_pte(r, p, e)
                                          ELSE pte[p]]
                /\ pmd' = [pmd EXCEPT ![g] = [large |-> FALSE, e |-> Hole]]
                /\ pend' = [pend EXCEPT ![c] = Cpu] /\ Goto(c, "split_flush")
        /\ UNCHANGED <<tlb, cpa, ret, calls, lost>>

(* Mutant of SplitFlush: only the CPU that splits the page is flushed. *)
SplitFlushSelf(c) ==
    /\ pc[c] = "split_flush" /\ Goto(c, "attr")
    /\ tlb' = [tlb EXCEPT ![c] = {}] /\ pend' = [pend EXCEPT ![c] = {}]
    /\ UNCHANGED <<pmd, pte, cpa_lock, cpa, ret, calls, lost>>

(* flush_tlb_all inside cpa_lock and pgd_lock. *)
SplitFlush(c) ==
    /\ pc[c] = "split_flush"
    /\ IF pend[c] = {} THEN Goto(c, "attr") /\ UNCHANGED <<tlb, pend>>
       ELSE \E d \in pend[c] : /\ tlb' = [tlb EXCEPT ![d] = {}]
                               /\ pend' = [pend EXCEPT ![c] = @ \ {d}]
                               /\ UNCHANGED pc
    /\ UNCHANGED <<pmd, pte, cpa_lock, cpa, ret, calls, lost>>

(***************************************************************************)
(* Aliases.                                                                *)
(***************************************************************************)

(* The call for the n pages from p on, a copy of r; it goes on at `back'. *)
AliasOf(r, p, back) ==
    [req |-> r.req, pages |-> <<p>>, array |-> FALSE, set |-> r.set, clr |-> r.clr,
     split |-> r.split, chk |-> FALSE, total |-> r.numpages, rem |-> r.numpages,
     numpages |-> r.numpages, curpage |-> 0, pfn |-> r.pfn, static |-> r.static,
     flushtlb |-> r.flushtlb, flush_all |-> r.flush_all, back |-> back]

HighOf(pfn) == {p \in High : Frame[p] = pfn}

Push(c, r, alias) ==
    cpa' = [cpa EXCEPT ![c] = <<alias, [r EXCEPT !.flush_all = TRUE]>>]

(* cpa_process_alias: the direct mapping, then the high mapping. *)
cpa_process_alias(c) ==
    LET r == Top(c)
        p == __cpa_addr(r, r.curpage)
    IN  /\ \/ /\ pc[c] = "alias"
              /\ IF ~r.chk \/ r.pfn \notin Direct THEN Goto(c, "adjust") /\ UNCHANGED cpa
                 ELSE IF p \in Direct THEN Goto(c, "alias_high") /\ UNCHANGED cpa
                 ELSE Push(c, r, AliasOf(r, r.pfn, "alias_high")) /\ Goto(c, "loop")
           \/ /\ pc[c] = "alias_high"
              /\ IF p \in High \/ HighOf(r.pfn) = {}
                 THEN Goto(c, "adjust") /\ UNCHANGED cpa
                 ELSE /\ Push(c, r, AliasOf(r, CHOOSE q \in HighOf(r.pfn) : TRUE, "adjust"))
                      /\ Goto(c, "loop")
        /\ UNCHANGED <<pmd, pte, tlb, cpa_lock, pend, ret, calls, lost>>

(* The end of the loop: on by the pages that were done. *)
Adjust(c) ==
    LET r == Top(c) IN
    /\ pc[c] = "adjust"
    /\ SetTop(c, [r EXCEPT !.rem = @ - r.numpages, !.curpage = @ + r.numpages])
    /\ Goto(c, "loop") /\ UNCHANGED <<pmd, pte, tlb, cpa_lock, pend, ret, calls, lost>>

(***************************************************************************)
(* Flushing, at the end of change_page_attr_set_clr.                       *)
(***************************************************************************)

Range(r) == {__cpa_addr(r, i) : i \in 0 .. r.total - 1}

(* cpa_flush_all after an error; flush_tlb_all for aliases and for many pages. *)
FlushesAll(c) == ret[c] # 0 \/ Top(c).flush_all \/ Top(c).total > Ceiling

__cpa_flush_all(T) == {}

(* Mutant of __cpa_flush_tlb: the address is the one after the range. *)
__cpa_flush_tlb_after(T, r) == {e \in T : __cpa_addr(r, r.curpage) \notin Covers(e)}

(* __cpa_flush_tlb on one CPU: INVLPG also removes the large translation. *)
__cpa_flush_tlb(T, r) == {e \in T : Covers(e) \cap Range(r) = {}}

Done(c) ==
    /\ pc[c] = "done"
    /\ IF Top(c).flushtlb THEN pend' = [pend EXCEPT ![c] = Cpu] /\ Goto(c, "flush")
            /\ UNCHANGED cpa
       ELSE Goto(c, "idle") /\ cpa' = [cpa EXCEPT ![c] = <<>>] /\ UNCHANGED pend
    /\ UNCHANGED <<pmd, pte, tlb, cpa_lock, ret, calls, lost>>

cpa_flush(c) ==
    /\ pc[c] = "flush"
    /\ IF pend[c] = {}
       THEN Goto(c, "idle") /\ cpa' = [cpa EXCEPT ![c] = <<>>] /\ UNCHANGED <<tlb, pend>>
       ELSE \E d \in pend[c] :
                /\ tlb' = [tlb EXCEPT ![d] = IF FlushesAll(c) THEN __cpa_flush_all(@)
                                             ELSE __cpa_flush_tlb(@, Top(c))]
                /\ pend' = [pend EXCEPT ![c] = @ \ {d}] /\ UNCHANGED <<pc, cpa>>
    /\ UNCHANGED <<pmd, pte, cpa_lock, ret, calls, lost>>

(* The hardware loads a translation. *)
TlbLoad(c) ==
    /\ \E p \in Loads[c] :
          LET g == p \div L
              e == IF pmd[g].large
                   THEN [large |-> TRUE, at |-> g, pfn |-> pmd[g].e.pfn, prot |-> pmd[g].e.prot]
                   ELSE [large |-> FALSE, at |-> p, pfn |-> pte[p].pfn, prot |-> pte[p].prot]
          IN  /\ "P" \in e.prot /\ ~\E x \in tlb[c] : x.large = e.large /\ x.at = e.at
              /\ tlb' = [tlb EXCEPT ![c] = @ \cup {e}]
    /\ UNCHANGED <<pmd, pte, cpa_lock, pc, cpa, pend, ret, calls, lost>>

Step(c) ==
    \/ Loop(c) \/ __change_page_attr(c) \/ Alloc(c) \/ __split_large_page(c)
    \/ SplitFlush(c) \/ cpa_process_alias(c) \/ Adjust(c) \/ Done(c) \/ cpa_flush(c)

Next == \E c \in Cpu : Call(c) \/ Step(c) \/ TlbLoad(c)

Spec == Init /\ [][Next]_vars

(* A CPU that runs the function goes on; cpa_lock is a queued spinlock. *)
FairSpec == Spec /\ \A c \in Cpu : SF_vars(Step(c))

(***************************************************************************)
(* Properties.                                                             *)
(***************************************************************************)

(* Once a large page has been split and the flush in __split_large_page has
   reached a CPU, that CPU holds no large translation of it any more; so none
   is left when an entry of the new table changes, which is what the comment
   above the flush asks for. *)
NoLargeLeft ==
    \A c \in Cpu : \A e \in tlb[c] :
        e.large /\ ~pmd[e.at].large =>
            \E d \in Cpu : pc[d] = "split_flush" /\ c \in pend[d]

Differs(e) ==
    \E p \in Covers(e) \ lost : Entry(p).prot # e.prot
        \/ Entry(p).pfn # IF e.large THEN e.pfn + (p % L) ELSE e.pfn

(* CPU d has still to flush translation e on CPU c. *)
WillFlush(d, c, e) ==
    \/ pc[d] = "split_flush" /\ c \in pend[d]
    \/ /\ pc[d] # "idle" /\ (pc[d] = "flush" => c \in pend[d])
       /\ LET r == Bottom(d)
          IN  /\ r.flushtlb
              /\ \/ ret[d] # 0 \/ r.flush_all \/ r.total > Ceiling
                 \/ Covers(e) \cap Range(r) # {}

(* A translation that differs from the page tables is flushed before the call
   that changed them returns: no CPU goes on using attributes a finished call
   has taken away, whichever calls and splits were going on at the same time.
   The exception is a page that changes as an alias while the page of the call
   is already as asked: that the TLB must be flushed is noted in the copy of
   cpa_data only, and lost with it. *)
NoStaleTlb ==
    \A c \in Cpu : \A e \in tlb[c] : Differs(e) => \E d \in Cpu : WillFlush(d, c, e)

(* The BUG_ON of __change_page_attr_set_clr: every round does at least one page
   and no more than are left, a large page that another CPU splits, a hole
   and an alias included. *)
NumpagesOK ==
    \A c \in Cpu : pc[c] = "adjust" => Top(c).numpages \in 1 .. Top(c).rem

Protected(p) ==
    "P" \in Entry(p).prot =>
        Entry(p).prot \cap (protect_kernel_text({p}) \cup protect_rodata({Frame[p]})) = {}

(* Every call ends, also when others split the page it was about to split. *)
CallEnds == \A c \in Cpu : pc[c] # "idle" ~> pc[c] = "idle"

(* The pages the call has been applied to. *)
Applied(c) ==
    IF pc[c] = "idle" THEN {}
    ELSE LET r == Bottom(c)
             n == IF Len(cpa[c]) = 2 \/ pc[c] \in {"alias", "alias_high", "adjust"}
                  THEN r.numpages ELSE 0
         IN  {__cpa_addr(r, i) : i \in 0 .. r.curpage + n - 1}

(* A page that a call has gone over has the protections it must have, even if
   it was mapped without them before, as part of a large page, and whatever
   other calls do to it meanwhile. *)
ProtectedOnce == \A c \in Cpu : \A p \in Applied(c) : Protected(p)

=============================================================================
