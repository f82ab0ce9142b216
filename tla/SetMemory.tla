------------------------------ MODULE SetMemory ------------------------------
(***************************************************************************)
(* The cache mode of memory (kernel_modify/pageattr.c: set_memory_uc, _wc, *)
(* _wb, set_pages_array_uc, _wc, _wt, _wb).  A caller first reserves the   *)
(* mode of the pages, which fails if another caller has reserved one, then *)
(* changes their attributes, and gives the reservation back if that fails. *)
(* Threads call these functions at the same time.                          *)
(*                                                                         *)
(* reserve_memtype and free_memtype are outside the sources; for RAM they  *)
(* keep a mode per page.  change_page_attr_set_clr is module PageAttr:     *)
(* here it is one step, and after a failure the first pages are changed.   *)
(***************************************************************************)
EXTENDS Integers, Sequences

CONSTANTS
    Thread, Page,
    Ranges,         \* the ranges of set_memory calls, as sequences of pages
    Arrays,         \* the arrays of set_pages_array calls
    MaxFail         \* bound: failures of change_page_attr_set_clr

ASSUME SeqAssumption ==
    /\ Ranges \cup Arrays \subseteq Seq(Page) /\ MaxFail \in Nat
    /\ \A s \in Ranges \cup Arrays : \A i, j \in DOMAIN s : s[i] = s[j] => i = j

Mode == {"WB", "WC", "UC_MINUS", "WT"}

(* The bits of a mode with the PAT the kernel sets up, and _PAGE_CACHE_MASK. *)
Mask == {"PWT", "PCD", "PAT"}
cachemode2pgprot ==
    [m \in Mode |-> CASE m = "WB" -> {} [] m = "WC" -> {"PWT"}
                      [] m = "UC_MINUS" -> {"PCD"} [] m = "WT" -> Mask]

VARIABLES
    memtype,    \* page -> the mode reserved, "WB" if none is
    attr,       \* page -> the cache bits of its mappings
    held,       \* thread -> the pages whose mode it has set and not reset
    call,       \* thread -> [pages, mode, i, free]: i pages reserved, free given back
    torn,       \* history: pages of a change that failed, until all their bits are set anew
    pc, fails

vars == <<memtype, attr, held, call, torn, pc, fails>>

NoCall == [pages |-> <<>>, mode |-> "WB", i |-> 0, free |-> 0]

Init ==
    /\ memtype = [p \in Page |-> "WB"] /\ attr = [p \in Page |-> {}]
    /\ held = [t \in Thread |-> {}] /\ call = [t \in Thread |-> NoCall]
    /\ torn = {} /\ pc = [t \in Thread |-> "idle"] /\ fails = 0

Goto(t, at)     == pc' = [pc EXCEPT ![t] = at]
Pages(s, n)     == {s[k] : k \in 1 .. n}
PageAt(t, k)    == call[t].pages[k]
Finish(t)       == call' = [call EXCEPT ![t] = NoCall] /\ Goto(t, "idle")

(* reserve_memtype for all pages of a set; free_memtype. *)
reserve_memtype(P, m) == memtype' = [p \in Page |-> IF p \in P THEN m ELSE memtype[p]]
free_memtype(p)       == memtype' = [memtype EXCEPT ![p] = "WB"]

(* change_page_attr_set_clr for the pages of t: all, or some and then an error. *)
Changed(t, k, set, clr) ==
    attr' = [p \in Page |-> IF p \in Pages(call[t].pages, k)
                            THEN (attr[p] \ clr) \cup set ELSE attr[p]]

ChangeAttr(t, set, clr, done, failed) ==
    LET n == Len(call[t].pages)
    IN  \/ /\ Changed(t, n, set, clr) /\ done /\ UNCHANGED fails
           /\ torn' = IF clr = Mask THEN torn \ Pages(call[t].pages, n) ELSE torn
        \/ /\ fails < MaxFail /\ fails' = fails + 1
           /\ \E k \in 0 .. n - 1 : Changed(t, k, set, clr)
           /\ torn' = torn \cup Pages(call[t].pages, n) /\ failed

(* set_memory_uc and set_memory_wc: the range is reserved at once, or the call
   fails without a trace. *)
set_memory(t) ==
    /\ pc[t] = "idle"
    /\ \E s \in Ranges, m \in {"UC_MINUS", "WC"} :
          /\ \A k \in DOMAIN s : memtype[s[k]] = "WB"
          /\ reserve_memtype(Pages(s, Len(s)), m)
          /\ call' = [call EXCEPT ![t] = [pages |-> s, mode |-> m, i |-> Len(s), free |-> 0]]
    /\ Goto(t, "set") /\ UNCHANGED <<attr, held, torn, fails>>

(* _set_pages_array: page by page. *)
_set_pages_array(t) ==
    /\ pc[t] = "idle"
    /\ \E s \in Arrays, m \in Mode \ {"WB"} :
          call' = [call EXCEPT ![t] = [pages |-> s, mode |-> m, i |-> 0, free |-> 0]]
    /\ Goto(t, "reserve") /\ UNCHANGED <<memtype, attr, held, torn, fails>>

(* Mutant of ReservePage: the page that could not be reserved is given back too. *)
ReservePageOne(t) ==
    LET c == call[t] IN
    /\ pc[t] = "reserve" /\ call' = [call EXCEPT ![t].i = @ + 1]
    /\ c.i < Len(c.pages) /\ memtype[PageAt(t, c.i + 1)] # "WB" /\ Goto(t, "free")
    /\ UNCHANGED <<memtype, attr, held, torn, fails>>

(* One turn of its first loop; an error gives back the pages before. *)
ReservePage(t) ==
    LET c == call[t] IN
    /\ pc[t] = "reserve"
    /\ IF c.i = Len(c.pages) THEN Goto(t, "set") /\ UNCHANGED <<memtype, call>>
       ELSE IF memtype[PageAt(t, c.i + 1)] # "WB"
       THEN Goto(t, "free") /\ UNCHANGED <<memtype, call>>
       ELSE /\ reserve_memtype({PageAt(t, c.i + 1)}, c.mode)
            /\ call' = [call EXCEPT ![t].i = @ + 1] /\ UNCHANGED pc
    /\ UNCHANGED <<attr, held, torn, fails>>

(* The call succeeds: the caller holds the pages. *)
Succeed(t) ==
    /\ held' = [held EXCEPT ![t] = @ \cup Pages(call[t].pages, Len(call[t].pages))]
    /\ Finish(t)

(* The bits are set on top of those there are; WC is set to UC- first. *)
SetMode(t) ==
    LET m == IF call[t].mode = "WC" THEN "UC_MINUS" ELSE call[t].mode IN
    /\ pc[t] = "set"
    /\ ChangeAttr(t, cachemode2pgprot[m], {},
           IF call[t].mode = "WC" THEN Goto(t, "set_wc") /\ UNCHANGED <<held, call>>
           ELSE Succeed(t),
           Goto(t, "free") /\ UNCHANGED <<held, call>>)
    /\ UNCHANGED memtype

SetWc(t) ==
    /\ pc[t] = "set_wc"
    /\ ChangeAttr(t, cachemode2pgprot["WC"], Mask, Succeed(t),
                  Goto(t, "free") /\ UNCHANGED <<held, call>>)
    /\ UNCHANGED memtype

(* set_memory_wb and set_pages_array_wb, by a caller that holds the pages. *)
set_memory_wb(t) ==
    /\ pc[t] = "idle"
    /\ \E s \in Ranges \cup Arrays :
          /\ Pages(s, Len(s)) \subseteq held[t]
          /\ call' = [call EXCEPT ![t] = [pages |-> s, mode |-> "WB", i |-> Len(s), free |-> 0]]
    /\ Goto(t, "clear") /\ UNCHANGED <<memtype, attr, held, torn, fails>>

(* Mutant of ClearMode: a failure is not noticed. *)
ClearModeFree(t) ==
    /\ pc[t] = "clear" /\ Goto(t, "free")
    /\ held' = [held EXCEPT ![t] = @ \ Pages(call[t].pages, Len(call[t].pages))]
    /\ UNCHANGED <<memtype, attr, call, torn, fails>>

(* First the attributes; if that fails, the pages stay reserved. *)
ClearMode(t) ==
    LET P == Pages(call[t].pages, Len(call[t].pages)) IN
    /\ pc[t] = "clear"
    /\ ChangeAttr(t, {}, Mask,
           held' = [held EXCEPT ![t] = @ \ P] /\ Goto(t, "free") /\ UNCHANGED call,
           Finish(t) /\ UNCHANGED held)
    /\ UNCHANGED memtype

(* free_memtype, one page at a time: after set_memory_wb, and on the error paths. *)
FreePage(t) ==
    LET c == call[t] IN
    /\ pc[t] = "free"
    /\ IF c.free = c.i THEN Finish(t) /\ UNCHANGED memtype
       ELSE /\ free_memtype(PageAt(t, c.free + 1))
            /\ call' = [call EXCEPT ![t].free = @ + 1] /\ UNCHANGED pc
    /\ UNCHANGED <<attr, held, torn, fails>>

Next == \E t \in Thread :
            \/ set_memory(t) \/ _set_pages_array(t) \/ ReservePage(t) \/ SetMode(t)
            \/ SetWc(t) \/ set_memory_wb(t) \/ ClearMode(t) \/ FreePage(t)

Spec == Init /\ [][Next]_vars

(***************************************************************************)
(* Properties.                                                             *)
(***************************************************************************)

(* The pages a thread has reserved: those it holds and those of its call. *)
Mine(t)     == {PageAt(t, k) : k \in call[t].free + 1 .. call[t].i}
Reserved(t) == held[t] \cup (IF pc[t] = "clear" THEN {} ELSE Mine(t))

(* A page is reserved exactly when one thread accounts for it: the error paths
   leave no page reserved and give back no page of another caller, wherever
   they stopped and whatever other threads reserved meanwhile. *)
Accounted ==
    \A p \in Page :
        /\ memtype[p] # "WB" <=> \E t \in Thread : p \in Reserved(t)
        /\ \A t, u \in Thread : p \in Reserved(t) \cap Reserved(u) => t = u

(* The bits of a page are those of its memory type.  Memory that is not reserved is
   cached normally: the order of set_memory_wb, attributes first, lets no thread
   that reserves the page right after it find the bits of the mode before.  A
   caller of set_memory_uc and the others that got 0 has memory of the mode it asked
   for, though the bits were only added to those the pages had.  The exception
   are the pages of a change that failed halfway: the error path frees them
   and leaves the bits, and set_memory_uc adds to those; a failure disturbs no
   other page, and the next set_memory_wb or set_memory_wc of its pages mends them. *)
ModeRight ==
    /\ \A p \in Page \ torn : memtype[p] = "WB" => attr[p] = {}
    /\ \A t \in Thread : \A p \in held[t] \ torn : attr[p] = cachemode2pgprot[memtype[p]]
=============================================================================
