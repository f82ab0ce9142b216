---------------------------- MODULE PageAttrProofs ----------------------------
(***************************************************************************)
(* The changes of page attributes (module PageAttr) for any number of CPUs *)
(* and pages, any size of large pages, any mappings at boot and any calls. *)
(*                                                                         *)
(* The argument: the stack of cpa_data of a call always describes a round  *)
(* of pages that exist, are left, and have the frames the alias was made   *)
(* for (Shape); every entry keeps its frame (Framed); one CPU at a time is *)
(* in a split (LockInv).                                                   *)
(***************************************************************************)
EXTENDS PageAttr, TLAPS

Code == {"idle", "loop", "attr", "alloc", "split", "split_flush", "alias", "alias_high",
         "adjust", "done", "flush"}

Req == [pages : Seq(Page), array : BOOLEAN, set : SUBSET Bits, clr : SUBSET Bits,
        split : BOOLEAN, chk : BOOLEAN]

(* struct cpa_data. *)
Rec == [req : Req, pages : Seq(Page), array : BOOLEAN, set : SUBSET Bits,
        clr : SUBSET Bits, split : BOOLEAN, chk : BOOLEAN, total : Nat, rem : Nat,
        numpages : Nat, curpage : Nat, pfn : Int, static : BOOLEAN,
        flushtlb : BOOLEAN, flush_all : BOOLEAN, back : {"done", "alias_high", "adjust"}]

EntryType == [pfn : Int, prot : SUBSET Bits]

TlbType == {e \in [large : BOOLEAN, at : Nat, pfn : Int, prot : SUBSET Bits] :
               e.at \in IF e.large THEN Group ELSE Page}

Types ==
    /\ pmd \in [Group -> [large : BOOLEAN, e : EntryType]] /\ pte \in [Page -> EntryType]
    /\ tlb \in [Cpu -> SUBSET TlbType] /\ pc \in [Cpu -> Code] /\ cpa \in [Cpu -> Seq(Rec)]
    /\ pend \in [Cpu -> SUBSET Cpu] /\ ret \in [Cpu -> Int]

(* cpa_lock is held from "attr" to the end of the round, and during a split. *)
LockInv == \A c \in Cpu : pc[c] \in {"attr", "split_flush"} => cpa_lock = c

(* A call or a call for an alias: curpage pages are done, rem are left. *)
RecOK(r) ==
    /\ r.curpage + r.rem = r.total /\ Range(r) \subseteq Page /\ r.pages # <<>>
    /\ r.set = r.req.set /\ r.clr = r.req.clr

(* The first page of the round. *)
At(r) == __cpa_addr(r, r.curpage)

(* The round is about pages that are left. *)
RoundOK(r) == r.numpages \in 1 .. r.rem /\ (r.array => r.numpages = 1)

(* pfn is the frame of the round: its pages lie in one large page at boot, or it is
   one page, or a hole of the direct mapping. *)
RunOK(r) ==
    r.chk =>
        \/ /\ r.pfn # -1 /\ \A i \in 0 .. r.numpages - 1 : Frame[At(r) + i] = r.pfn + i
           /\ \/ r.numpages = 1
              \/ \E g \in Large : \A i \in 0 .. r.numpages - 1 : At(r) + i \in Of(g)
        \/ r.numpages = 1 /\ Frame[At(r)] = -1 /\ r.pfn = At(r) /\ r.pfn \in Direct

(* The call itself. *)
BaseOK(r) ==
    /\ RecOK(r) /\ r.pages = r.req.pages /\ r.array = r.req.array /\ r.back = "done"
    /\ r.total = Len(r.pages)
    /\ ~r.array => \A i \in DOMAIN r.pages : r.pages[i] = r.pages[1] + i - 1

(* The call a for the aliases of the round of r. *)
AliasOK(a, r) ==
    /\ RecOK(a) /\ a.req = r.req /\ a.total = r.numpages /\ ~a.array /\ ~a.chk
    /\ a.back \in {"alias_high", "adjust"} /\ r.flush_all /\ r.chk
    /\ \A i \in 0 .. a.total - 1 : Frame[a.pages[1] + i] \in {-1, Frame[At(r) + i]}

(* The stack s of a CPU at p whose call is to return v. *)
Shape(s, p, v) ==
    IF p = "idle" THEN s = <<>>
    ELSE /\ Len(s) \in {1, 2}
         /\ p \in {"attr", "alloc", "split", "split_flush", "alias", "alias_high", "adjust"} =>
                RoundOK(s[1])
         /\ p \in {"alias", "alias_high"} => RunOK(s[1])
         /\ p \in {"alias_high", "done", "flush"} => Len(s) = 1
         /\ p = "alias_high" => s[1].chk
         /\ p \in {"done", "flush"} => v # 0 \/ s[1].rem = 0
         /\ p \notin {"done", "flush"} => v = 0
         /\ BaseOK(s[Len(s)])
         /\ Len(s) = 2 => RoundOK(s[2]) /\ RunOK(s[2]) /\ AliasOK(s[1], s[2])

(* Every page is mapped to its frame, and only large pages of boot are large. *)
Framed ==
    /\ \A g \in Group : pmd[g].large => g \in Large /\ pmd[g].e.pfn = Frame[g * L]
    /\ \A p \in Page : /\ ~pmd[p \div L].large => pte[p].pfn = Frame[p]
                       /\ Frame[p] = -1 => pte[p] = Hole

Inv == Types /\ LockInv /\ Framed /\ \A c \in Cpu : Shape(cpa[c], pc[c], ret[c])

(***************************************************************************)
(* Pages and large pages.                                                  *)
(***************************************************************************)

LEMMA Div ==
  ASSUME NEW p \in Nat
  PROVE  /\ p % L \in 0 .. L - 1 /\ p \div L \in Nat
         /\ p = (p \div L) * L + (p % L)
  BY SizeAssumption

LEMMA DivOf ==
  ASSUME NEW g \in Nat, NEW k \in 0 .. L - 1
  PROVE  (g * L + k) \div L = g /\ (g * L + k) % L = k
  BY SizeAssumption

LEMMA DivOn ==
  ASSUME NEW p \in Nat, NEW i \in Nat, (p % L) + i < L
  PROVE  (p + i) \div L = p \div L /\ (p + i) % L = (p % L) + i
  BY SizeAssumption

LEMMA PageIs ==
  ASSUME NEW p \in Page
  PROVE  /\ p \in Nat /\ p \div L \in Group /\ p \div L \in Nat /\ p % L \in 0 .. L - 1
         /\ p = (p \div L) * L + (p % L)
         /\ p \in Of(p \div L) /\ Frame[p] \in Nat \cup {-1}
<1>1. p \in Nat /\ Frame[p] \in Nat \cup {-1}
  BY SizeAssumption, Zenon
<1> QED
  BY <1>1, Div, Zenon DEF Group, Of

LEMMA GroupIs == ASSUME NEW g \in Group PROVE g \in Nat
  BY PageIs, Zenon DEF Group

(* A large page at boot. *)
LEMMA LargeIs ==
  ASSUME NEW g \in Large
  PROVE  /\ g \in Group /\ g \in Nat /\ Frame[g * L] \in Nat /\ g * L \in Page
         /\ \A p \in Of(g) : p \in Page /\ Frame[p] = Frame[g * L] + (p % L) /\ Frame[p] \in Nat
         /\ \A k \in 0 .. L - 1 : g * L + k \in Of(g)
<1>1. g \in Group /\ g \in Nat
  BY GroupIs, SizeAssumption, Zenon
<1>2. ASSUME NEW k \in 0 .. L - 1
      PROVE  /\ g * L + k \in Page /\ Frame[g * L + k] = Frame[g * L] + k
             /\ g * L + k \in Of(g) /\ Frame[g * L] # -1
  BY <1>1, DivOf, BootAssumption, Zenon DEF Of
<1>3. 0 \in 0 .. L - 1 /\ g * L + 0 = g * L
  BY <1>1, SizeAssumption
<1>4. g * L \in Page /\ Frame[g * L] \in Nat
  BY <1>2, <1>3, PageIs, Zenon
<1>5. ASSUME NEW p \in Of(g) PROVE p \in Page /\ Frame[p] = Frame[g * L] + (p % L) /\ Frame[p] \in Nat
  <2>1. p \in Page /\ p \div L = g
    BY Zenon DEF Of
  <2>2. p = g * L + (p % L) /\ p % L \in 0 .. L - 1
    BY <2>1, PageIs, Zenon
  <2> QED
    BY <1>2, <1>4, <2>1, <2>2
<1> QED
  BY <1>1, <1>2, <1>4, <1>5, Zenon

(***************************************************************************)
(* The records of a call.                                                  *)
(***************************************************************************)

(* What does not change during a call, and what it only notes. *)
Same(r, s) ==
    /\ s.req = r.req /\ s.pages = r.pages /\ s.array = r.array /\ s.set = r.set
    /\ s.clr = r.clr /\ s.split = r.split /\ s.chk = r.chk /\ s.total = r.total
    /\ s.back = r.back /\ (r.flushtlb => s.flushtlb) /\ (r.flush_all => s.flush_all)

LEMMA RecIs ==
  ASSUME NEW r \in Rec
  PROVE  /\ r.req \in Req /\ r.pages \in Seq(Page) /\ r.array \in BOOLEAN
         /\ r.set \in SUBSET Bits /\ r.clr \in SUBSET Bits /\ r.split \in BOOLEAN
         /\ r.chk \in BOOLEAN /\ r.total \in Nat /\ r.rem \in Nat /\ r.numpages \in Nat
         /\ r.curpage \in Nat /\ r.pfn \in Int /\ r.static \in BOOLEAN
         /\ r.flushtlb \in BOOLEAN /\ r.flush_all \in BOOLEAN
         /\ r.back \in {"done", "alias_high", "adjust"}
  BY Zenon DEF Rec

(* The changes of a record, as operators: the provers take them as a whole. *)
WithPages(r, n)     == [r EXCEPT !.numpages = n]
WithFrame(r, n, f)  == [r EXCEPT !.numpages = n, !.pfn = f]
WithFlag(r)         == [r EXCEPT !.flushtlb = TRUE]
WithStatic(r)       == [r EXCEPT !.static = TRUE]
WithAll(r)          == [r EXCEPT !.flush_all = TRUE]
WithStore(r, f, b)  == [r EXCEPT !.pfn = f, !.numpages = 1, !.flushtlb = b]
WithRest(r, m, k)   == [r EXCEPT !.rem = m, !.curpage = k]

(* The record s of the same round. *)
SameRound(r, s) == s \in Rec /\ Same(r, s) /\ s.rem = r.rem /\ s.curpage = r.curpage

(* A round has a page. *)
LEMMA OnePage ==
  ASSUME NEW r, r \in Rec, RoundOK(r)
  PROVE  /\ 1 \in 1 .. r.rem /\ r.rem \in Nat /\ r.numpages \in Nat /\ 0 \in 0 .. r.numpages - 1
         /\ r.numpages >= 1 /\ r.numpages <= r.rem
<1>1. r.rem \in Nat /\ r.numpages \in Nat
  BY RecIs, Zenon
<1> QED
  BY <1>1 DEF RoundOK

(* The round may be made shorter. *)
LEMMA RoundPages ==
  ASSUME NEW r, NEW t, SameRound(r, t), t.numpages \in 1 .. r.rem, r.array => t.numpages = 1
  PROVE  RoundOK(t)
  BY Zenon DEF RoundOK, SameRound, Same

LEMMA PagesRec ==
  ASSUME NEW r, NEW n, r \in Rec, n \in Nat
  PROVE  SameRound(r, WithPages(r, n)) /\ WithPages(r, n).numpages = n
  BY Zenon DEF Rec, Same, WithPages, SameRound

LEMMA FrameRec ==
  ASSUME NEW r, NEW n, NEW f, r \in Rec, n \in Nat, f \in Int
  PROVE  /\ SameRound(r, WithFrame(r, n, f)) /\ WithFrame(r, n, f).numpages = n
         /\ WithFrame(r, n, f).pfn = f
  BY Zenon DEF Rec, Same, WithFrame, SameRound

LEMMA FlagRec ==
  ASSUME NEW r \in Rec
  PROVE  /\ SameRound(r, WithFlag(r)) /\ WithFlag(r).numpages = r.numpages
         /\ WithFlag(r).pfn = r.pfn /\ WithFlag(r).flushtlb
  BY Zenon DEF Rec, Same, WithFlag, SameRound

LEMMA StaticRec ==
  ASSUME NEW r \in Rec
  PROVE  /\ SameRound(r, WithStatic(r)) /\ WithStatic(r).numpages = r.numpages
         /\ WithStatic(r).pfn = r.pfn
  BY Zenon DEF Rec, Same, WithStatic, SameRound

LEMMA AllRec ==
  ASSUME NEW r \in Rec
  PROVE  /\ SameRound(r, WithAll(r)) /\ WithAll(r).numpages = r.numpages
         /\ WithAll(r).pfn = r.pfn /\ WithAll(r).flush_all
  BY Zenon DEF Rec, Same, WithAll, SameRound

LEMMA StoreRec ==
  ASSUME NEW r, NEW f, NEW b, r \in Rec, f \in Int, b \in BOOLEAN, r.flushtlb => b
  PROVE  /\ SameRound(r, WithStore(r, f, b)) /\ WithStore(r, f, b).numpages = 1
         /\ WithStore(r, f, b).pfn = f /\ WithStore(r, f, b).flushtlb = b
  BY Zenon DEF Rec, Same, WithStore, SameRound

LEMMA RestRec ==
  ASSUME NEW r, NEW m, NEW k, r \in Rec, m \in Nat, k \in Nat
  PROVE  /\ WithRest(r, m, k) \in Rec /\ Same(r, WithRest(r, m, k))
         /\ WithRest(r, m, k).rem = m /\ WithRest(r, m, k).curpage = k
  BY Zenon DEF Rec, Same, WithRest

(* The pages of a call. *)
LEMMA AddrIn ==
  ASSUME NEW r \in Rec, RecOK(r), NEW i \in 0 .. r.total - 1
  PROVE  __cpa_addr(r, i) \in Page /\ __cpa_addr(r, i) \in Range(r)
  BY Zenon DEF RecOK, Range

(* The pages of a round. *)
LEMMA RoundIn ==
  ASSUME NEW r \in Rec, RecOK(r), RoundOK(r), NEW i \in 0 .. r.numpages - 1
  PROVE  /\ __cpa_addr(r, r.curpage + i) = At(r) + i
         /\ At(r) + i \in Page /\ At(r) + i \in Range(r) /\ At(r) \in Page /\ At(r) \in Range(r)
<1>1. r.curpage \in Nat /\ r.numpages \in Nat /\ r.rem \in Nat /\ r.total \in Nat
  BY RecIs, Zenon
<1>2. r.curpage + i \in 0 .. r.total - 1 /\ r.curpage \in 0 .. r.total - 1
  BY <1>1 DEF RecOK, RoundOK
<1>3. /\ __cpa_addr(r, r.curpage) \in Page /\ __cpa_addr(r, r.curpage + i) \in Page
      /\ __cpa_addr(r, r.curpage) \in Range(r) /\ __cpa_addr(r, r.curpage + i) \in Range(r)
  BY <1>2, AddrIn, Zenon
<1>4. __cpa_addr(r, r.curpage) \in Nat /\ __cpa_addr(r, r.curpage + i) \in Nat
  BY <1>3, PageIs, Zenon
<1>5. CASE r.array
  <2>1. i = 0
    BY <1>5 DEF RoundOK
  <2> QED
    BY <1>1, <1>3, <1>4, <2>1 DEF At
<1>6. CASE ~r.array
  <2>1. r.pages[1] \in Page
    BY RecIs DEF RecOK
  <2>2. r.pages[1] \in Nat
    BY <2>1, PageIs, Zenon
  <2>3. /\ __cpa_addr(r, r.curpage) = r.pages[1] + r.curpage
        /\ __cpa_addr(r, r.curpage + i) = r.pages[1] + (r.curpage + i)
    BY <1>6, Zenon DEF __cpa_addr
  <2> QED
    BY <1>1, <1>3, <1>4, <2>2, <2>3 DEF At
<1> QED
  BY <1>5, <1>6, Zenon

(* What depends only on the call. *)
LEMMA SameRec ==
  ASSUME NEW r, NEW s, Same(r, s)
  PROVE  /\ Range(s) = Range(r) /\ \A i : __cpa_addr(s, i) = __cpa_addr(r, i)
         /\ s.curpage = r.curpage => At(s) = At(r)
         /\ RecOK(r) /\ s.curpage + s.rem = s.total => RecOK(s)
  BY DEF Same, Range, __cpa_addr, At, RecOK

(***************************************************************************)
(* The stack of a call.                                                    *)
(***************************************************************************)

Busy == {"attr", "alloc", "split", "split_flush", "alias", "alias_high", "adjust"}

LEMMA StackIs ==
  ASSUME NEW s \in Seq(Rec), NEW p, NEW v, p # "idle", Shape(s, p, v)
  PROVE  /\ s[1] \in Rec /\ s[Len(s)] \in Rec /\ Len(s) \in {1, 2} /\ RecOK(s[1])
         /\ Len(s) = 2 => /\ s[2] \in Rec /\ Tail(s) \in Seq(Rec)
                          /\ Len(Tail(s)) = 1 /\ Tail(s)[1] = s[2]
<1>1. Len(s) \in {1, 2}
  BY Zenon DEF Shape
<1>2. s[1] \in Rec /\ s[Len(s)] \in Rec
  BY <1>1
<1>3. RecOK(s[1])
  BY <1>1, Zenon DEF Shape, AliasOK, BaseOK
<1>4. ASSUME Len(s) = 2 PROVE Tail(s) \in Seq(Rec) /\ Len(Tail(s)) = 1 /\ Tail(s)[1] = s[2]
  BY <1>4
<1> QED
  BY <1>1, <1>2, <1>3, <1>4, Zenon

LEMMA NewTop ==
  ASSUME NEW s \in Seq(Rec), NEW t \in Rec, Len(s) \in {1, 2}
  PROVE  LET u == [s EXCEPT ![1] = t]
         IN  u \in Seq(Rec) /\ Len(u) = Len(s) /\ u[1] = t /\ (Len(s) = 2 => u[2] = s[2])
  OBVIOUS

(* The round goes on with another top. *)
LEMMA TopShape ==
  ASSUME NEW s \in Seq(Rec), NEW p \in Code \ {"idle", "done", "flush"}, Shape(s, p, 0),
         NEW t, SameRound(s[1], t), RoundOK(t), NEW q \in Busy, q \in {"alias", "alias_high"} => RunOK(t),
         q = "alias_high" => Len(s) = 1 /\ s[1].chk
  PROVE  [s EXCEPT ![1] = t] \in Seq(Rec) /\ Shape([s EXCEPT ![1] = t], q, 0)
<1> DEFINE u == [s EXCEPT ![1] = t]
<1>0. t \in Rec /\ Same(s[1], t) /\ t.rem = s[1].rem /\ t.curpage = s[1].curpage
  BY Zenon DEF SameRound
<1>1. s[1] \in Rec /\ Len(s) \in {1, 2} /\ RecOK(s[1])
  BY StackIs, Zenon DEF Code
<1>2. u \in Seq(Rec) /\ Len(u) = Len(s) /\ u[1] = t /\ (Len(s) = 2 => u[2] = s[2])
  BY <1>0, <1>1, NewTop, Zenon
<1>3. RecOK(t)
  BY <1>0, <1>1, SameRec, Zenon DEF RecOK, Same
<1>4. CASE Len(s) = 1
  <2>1. BaseOK(t)
    BY <1>0, <1>3, <1>4 DEF Shape, BaseOK, Same, Code
  <2> HIDE DEF u
  <2> QED
    BY <1>0, <1>2, <1>4, <2>1 DEF Shape, Busy, Same, u
<1>5. CASE Len(s) = 2
  <2>1. BaseOK(s[2]) /\ RoundOK(s[2]) /\ RunOK(s[2]) /\ AliasOK(s[1], s[2])
    BY <1>5, Zenon DEF Shape, Code
  <2>2. AliasOK(t, s[2])
    BY <1>0, <1>3, <2>1, Zenon DEF AliasOK, Same
  <2> HIDE DEF u
  <2> QED
    BY <1>0, <1>2, <1>5, <2>1, <2>2, Zenon DEF Shape, Busy, u
<1> QED
  BY <1>1, <1>4, <1>5, Zenon

(* The same top, elsewhere in the round. *)
LEMMA MoveShape ==
  ASSUME NEW s \in Seq(Rec), NEW p \in Busy, Shape(s, p, 0),
         NEW q \in Busy, q \in {"alias", "alias_high"} => RunOK(s[1]),
         q = "alias_high" => Len(s) = 1 /\ s[1].chk
  PROVE  Shape(s, q, 0)
  BY Zenon DEF Shape, Busy

(* The end of a round. *)
LEMMA AdjustShape ==
  ASSUME NEW s \in Seq(Rec), Shape(s, "adjust", 0)
  PROVE  LET t == WithRest(s[1], s[1].rem - s[1].numpages, s[1].curpage + s[1].numpages)
         IN  [s EXCEPT ![1] = t] \in Seq(Rec) /\ Shape([s EXCEPT ![1] = t], "loop", 0)
<1> DEFINE r == s[1]
<1> DEFINE t == WithRest(r, r.rem - r.numpages, r.curpage + r.numpages)
<1> DEFINE u == [s EXCEPT ![1] = t]
<1>1. r \in Rec /\ Len(s) \in {1, 2} /\ RecOK(r) /\ RoundOK(r)
  BY StackIs, Zenon DEF Shape
<1>2. /\ r.rem \in Nat /\ r.numpages \in Nat /\ r.curpage \in Nat /\ r.total \in Nat
      /\ r.rem - r.numpages \in Nat /\ r.curpage + r.numpages \in Nat
  BY <1>1, RecIs DEF RoundOK
<1>3. /\ t \in Rec /\ Same(r, t) /\ t.rem = r.rem - r.numpages
      /\ t.curpage = r.curpage + r.numpages
  BY <1>1, <1>2, RestRec
<1>4. t.curpage + t.rem = t.total
  <2>1. r.curpage + r.rem = r.total /\ t.total = r.total
    BY <1>1, <1>3, Zenon DEF RecOK, Same
  <2> HIDE DEF t, r
  <2> QED
    BY <1>2, <1>3, <2>1
<1>5. RecOK(t)
  BY <1>1, <1>3, <1>4, SameRec, Zenon
<1>6. u \in Seq(Rec) /\ Len(u) = Len(s) /\ u[1] = t /\ (Len(s) = 2 => u[2] = s[2])
  <2> HIDE DEF t
  <2> QED
    BY <1>1, <1>3, NewTop
<1> HIDE DEF t
<1>7. CASE Len(s) = 1
  <2>1. BaseOK(t)
    BY <1>3, <1>5, <1>7 DEF Shape, BaseOK, Same
  <2> HIDE DEF u
  <2> QED
    BY <1>6, <1>7, <2>1, Zenon DEF Shape, u, t
<1>8. CASE Len(s) = 2
  <2>1. BaseOK(s[2]) /\ RoundOK(s[2]) /\ RunOK(s[2]) /\ AliasOK(r, s[2])
    BY <1>8, Zenon DEF Shape
  <2>2. AliasOK(t, s[2])
    BY <1>3, <1>5, <2>1, Zenon DEF AliasOK, Same
  <2> HIDE DEF u
  <2> QED
    BY <1>6, <1>8, <2>1, <2>2, Zenon DEF Shape, u, t
<1> QED
  BY <1>1, <1>7, <1>8, Zenon

(* The alias is done, or failed. *)
LEMMA PopShape ==
  ASSUME NEW s \in Seq(Rec), NEW p \in Code \ {"idle"}, NEW v, Shape(s, p, v), Len(s) = 2
  PROVE  /\ Tail(s) \in Seq(Rec) /\ Len(Tail(s)) = 1 /\ Tail(s)[1] = s[2]
         /\ s[1].back \in {"alias_high", "adjust"}
         /\ \A q \in {"alias_high", "adjust"} : Shape(Tail(s), q, 0)
<1>1. Tail(s) \in Seq(Rec) /\ Len(Tail(s)) = 1 /\ Tail(s)[1] = s[2]
  BY StackIs, Zenon
<1>2. BaseOK(s[2]) /\ RoundOK(s[2]) /\ RunOK(s[2]) /\ AliasOK(s[1], s[2])
  BY Zenon DEF Shape
<1> QED
  BY <1>1, <1>2, Zenon DEF Shape, AliasOK

(* The call is over. *)
LEMMA EndShape ==
  ASSUME NEW s \in Seq(Rec), NEW p \in Code \ {"idle"}, NEW w, Shape(s, p, w), NEW v,
         v # 0 \/ (Len(s) = 1 /\ s[1].rem = 0)
  PROVE  <<s[Len(s)]>> \in Seq(Rec) /\ \A q \in {"done", "flush"} : Shape(<<s[Len(s)]>>, q, v)
<1>1. s[Len(s)] \in Rec /\ BaseOK(s[Len(s)])
  BY StackIs, Zenon DEF Shape
<1> QED
  BY <1>1 DEF Shape

LEMMA SameRoundOK ==
  ASSUME NEW r, NEW s, SameRound(r, s), s.numpages = r.numpages, s.pfn = r.pfn
  PROVE  RoundOK(r) => RoundOK(s) /\ (RunOK(r) => RunOK(s)) /\ At(s) = At(r)
<1>1. At(s) = At(r)
  BY SameRec, Zenon DEF SameRound
<1> QED
  BY <1>1 DEF RoundOK, RunOK, SameRound, Same

(***************************************************************************)
(* Aliases.                                                                *)
(***************************************************************************)

LEMMA AliasRec ==
  ASSUME NEW r, NEW p, NEW b, r \in Rec, p \in Page, b \in {"alias_high", "adjust"}
  PROVE  LET a == AliasOf(r, p, b)
         IN  /\ a \in Rec /\ a.req = r.req /\ a.pages = <<p>> /\ ~a.array
             /\ a.set = r.set /\ a.clr = r.clr /\ ~a.chk /\ a.total = r.numpages
             /\ a.rem = r.numpages /\ a.curpage = 0 /\ a.back = b
<1>1. <<p>> \in Seq(Page)
  OBVIOUS
<1> QED
  BY <1>1, RecIs DEF Rec, AliasOf

(* The call for the aliases of a round is pushed. *)
LEMMA PushShape ==
  ASSUME NEW s \in Seq(Rec), NEW p \in {"alias", "alias_high"}, Shape(s, p, 0), Len(s) = 1,
         s[1].chk, NEW q \in Page, NEW b \in {"alias_high", "adjust"},
         \A i \in 0 .. s[1].numpages - 1 :
             q + i \in Page /\ Frame[q + i] \in {-1, Frame[At(s[1]) + i]}
  PROVE  /\ <<AliasOf(s[1], q, b), WithAll(s[1])>> \in Seq(Rec)
         /\ Shape(<<AliasOf(s[1], q, b), WithAll(s[1])>>, "loop", 0)
<1> DEFINE r == s[1]
<1> DEFINE a == AliasOf(r, q, b)
<1> DEFINE w == WithAll(r)
<1>1. r \in Rec /\ BaseOK(r) /\ RecOK(r) /\ RoundOK(r) /\ RunOK(r)
  BY StackIs, Zenon DEF Shape
<1>2. /\ a \in Rec /\ a.req = r.req /\ a.pages = <<q>> /\ ~a.array
      /\ a.set = r.set /\ a.clr = r.clr /\ ~a.chk /\ a.total = r.numpages
      /\ a.rem = r.numpages /\ a.curpage = 0 /\ a.back = b
  <2> HIDE DEF r
  <2> QED
    BY <1>1, AliasRec
<1>3. SameRound(r, w) /\ w.numpages = r.numpages /\ w.pfn = r.pfn /\ w.flush_all
  BY <1>1, AllRec, Zenon
<1>4. RoundOK(w) /\ RunOK(w) /\ At(w) = At(r)
  BY <1>1, <1>3, SameRoundOK, Zenon
<1>5. BaseOK(w) /\ w \in Rec /\ w.req = r.req /\ w.chk
  <2>1. w.curpage + w.rem = w.total
    BY <1>1, <1>3, Zenon DEF SameRound, Same, RecOK
  <2>2. RecOK(w)
    BY <1>1, <1>3, <2>1, SameRec, Zenon DEF SameRound
  <2> QED
    BY <1>1, <1>3, <2>2 DEF BaseOK, SameRound, Same
<1> HIDE DEF a, w, r
<1>6. a.pages[1] = q /\ a.pages # <<>>
  BY <1>2
<1>7. Range(a) \subseteq Page
  BY <1>2, <1>6 DEF Range, __cpa_addr, r
<1>8. RecOK(a)
  <2>1. r.numpages \in Nat
    BY <1>1, RecIs, Zenon
  <2>2. a.curpage + a.rem = a.total
    BY <1>2, <2>1
  <2> QED
    BY <1>1, <1>2, <1>6, <1>7, <2>2, Zenon DEF RecOK
<1>9. AliasOK(a, w)
  BY <1>2, <1>3, <1>4, <1>5, <1>6, <1>8 DEF AliasOK, r
<1>10. /\ <<a, w>> \in Seq(Rec) /\ Len(<<a, w>>) = 2 /\ <<a, w>>[1] = a /\ <<a, w>>[2] = w
  BY <1>2, <1>5
<1> QED
  BY <1>4, <1>5, <1>9, <1>10, Zenon DEF Shape, a, w, r

(* The aliases in the direct mapping of the pages of a round. *)
LEMMA DirectRun ==
  ASSUME NEW r \in Rec, RecOK(r), RoundOK(r), RunOK(r), r.chk, r.pfn \in Direct,
         At(r) \notin Direct
  PROVE  \A i \in 0 .. r.numpages - 1 :
             r.pfn + i \in Page /\ Frame[r.pfn + i] \in {-1, Frame[At(r) + i]}
<1>1. /\ \A i \in 0 .. r.numpages - 1 : Frame[At(r) + i] = r.pfn + i
      /\ \/ r.numpages = 1
         \/ \E g \in Large : \A i \in 0 .. r.numpages - 1 : At(r) + i \in Of(g)
  BY Zenon DEF RunOK
<1>2. r.numpages \in Nat /\ r.numpages >= 1 /\ At(r) \in Nat /\ r.pfn \in Nat
  <2>1. 0 \in 0 .. r.numpages - 1 /\ r.numpages \in Nat
    BY RecIs DEF RoundOK
  <2>2. At(r) \in Page
    BY <2>1, RoundIn, Zenon
  <2>3. r.pfn \in Nat
    BY SizeAssumption, Zenon
  <2> QED
    BY <2>1, <2>2, <2>3, PageIs
<1>3. ASSUME NEW i \in 0 .. r.numpages - 1 PROVE r.pfn + i \in Direct
  <2>1. CASE r.numpages = 1
    BY <1>2, <2>1
  <2>2. CASE r.numpages # 1
    <3>1. PICK g \in Large : \A k \in 0 .. r.numpages - 1 : At(r) + k \in Of(g)
      BY <1>1, <2>2, Zenon
    <3>2. At(r) \in Of(g) /\ At(r) + i \in Of(g) /\ Frame[At(r)] = r.pfn
      BY <1>1, <1>2, <3>1
    <3> QED
      BY <1>1, <3>2, BootAssumption
  <2> QED
    BY <2>1, <2>2, Zenon
<1> QED
  BY <1>1, <1>3, BootAssumption, SizeAssumption, Zenon

(* Those in the high mapping. *)
LEMMA HighRun ==
  ASSUME NEW r \in Rec, RecOK(r), RoundOK(r), RunOK(r), r.chk, NEW q \in HighOf(r.pfn)
  PROVE  /\ q \in Page
         /\ \A i \in 0 .. r.numpages - 1 :
                q + i \in Page /\ Frame[q + i] \in {-1, Frame[At(r) + i]}
<1>1. q \in High /\ Frame[q] = r.pfn /\ q \in Page /\ q \in Nat
  BY SizeAssumption, Zenon DEF HighOf
<1>2. r.numpages \in Nat /\ r.numpages >= 1 /\ At(r) \in Nat /\ At(r) \in Page
  <2>1. 0 \in 0 .. r.numpages - 1 /\ r.numpages \in Nat
    BY RecIs DEF RoundOK
  <2>2. At(r) \in Page
    BY <2>1, RoundIn, Zenon
  <2> QED
    BY <2>1, <2>2, PageIs
<1>3. /\ \A i \in 0 .. r.numpages - 1 : Frame[At(r) + i] = r.pfn + i
      /\ \/ r.numpages = 1
         \/ \E g \in Large : \A i \in 0 .. r.numpages - 1 : At(r) + i \in Of(g)
  <2>1. ~(Frame[At(r)] = -1 /\ r.pfn = At(r) /\ r.pfn \in Direct)
    <3>1. r.pfn \in Direct => Frame[r.pfn] = r.pfn
      BY <1>1, BootAssumption
    <3> QED
      BY <1>2, <3>1
  <2> QED
    BY <2>1, Zenon DEF RunOK
<1>4. ASSUME NEW i \in 0 .. r.numpages - 1
      PROVE  q + i \in High /\ Frame[q + i] = Frame[At(r) + i]
  <2>1. CASE r.numpages = 1
    <3>1. i = 0 /\ q + i = q /\ At(r) + i = At(r) + 0
      BY <1>1, <1>2, <2>1
    <3>2. Frame[At(r) + 0] = r.pfn + 0 /\ r.pfn \in Int
      BY <1>2, <1>3, RecIs
    <3> QED
      BY <1>1, <3>1, <3>2
  <2>2. CASE r.numpages # 1
    <3>1. PICK g \in Large : \A k \in 0 .. r.numpages - 1 : At(r) + k \in Of(g)
      BY <1>3, <2>2, Zenon
    <3>2. At(r) \in Of(g) /\ At(r) + i \in Of(g) /\ Frame[At(r)] = r.pfn
      <4>1. At(r) + 0 = At(r) /\ 0 \in 0 .. r.numpages - 1 /\ r.pfn + 0 = r.pfn
        BY <1>2, RecIs
      <4> QED
        BY <1>3, <3>1, <4>1, Zenon
    <3>3. At(r) <= At(r) + i /\ (At(r) + i) - At(r) = i
      BY <1>2
    <3> QED
      BY <1>1, <3>2, <3>3, BootAssumption
  <2> QED
    BY <2>1, <2>2, Zenon
<1> QED
  BY <1>1, <1>4, SizeAssumption, Zenon

(***************************************************************************)
(* The page tables.                                                        *)
(***************************************************************************)

LEMMA EntryIs ==
  ASSUME Types, Framed, NEW p \in Page
  PROVE  /\ Entry(p) \in EntryType /\ Entry(p).pfn = Frame[p]
         /\ Entry(p) = Hole <=> Frame[p] = -1
         /\ pmd[p \div L].large =>
                /\ p \div L \in Large /\ pmd[p \div L].e \in EntryType
                /\ Entry(p).prot = pmd[p \div L].e.prot
                /\ pmd[p \div L].e.pfn = Frame[(p \div L) * L]
         /\ ~pmd[p \div L].large => Entry(p) = pte[p] /\ pte[p] \in EntryType
<1> DEFINE g == p \div L
<1>1. g \in Group /\ p \in Of(g) /\ p % L \in Nat
  BY PageIs
<1>2. pmd[g].large \in BOOLEAN /\ pmd[g].e \in EntryType /\ pte[p] \in EntryType
  BY <1>1, Zenon DEF Types
<1>3. CASE pmd[g].large
  <2>1. g \in Large /\ pmd[g].e.pfn = Frame[g * L]
    BY <1>1, <1>3, Zenon DEF Framed
  <2>2. Frame[p] = Frame[g * L] + (p % L) /\ Frame[p] \in Nat /\ Frame[g * L] \in Nat
    BY <1>1, <2>1, LargeIs, Zenon
  <2>3. Entry(p) = [pmd[g].e EXCEPT !.pfn = pmd[g].e.pfn + (p % L)]
    BY <1>3, Zenon DEF Entry
  <2>4. Entry(p) \in EntryType /\ Entry(p).pfn = Frame[p] /\ Entry(p).prot = pmd[g].e.prot
    BY <1>1, <1>2, <2>1, <2>2, <2>3 DEF EntryType
  <2> QED
    BY <1>2, <1>3, <2>1, <2>2, <2>4 DEF Hole
<1>4. CASE ~pmd[g].large
  <2>1. Entry(p) = pte[p] /\ pte[p].pfn = Frame[p] /\ (Frame[p] = -1 => pte[p] = Hole)
    BY <1>4, Zenon DEF Entry, Framed
  <2> QED
    BY <1>2, <1>4, <2>1 DEF Hole
<1> QED
  BY <1>2, <1>3, <1>4, Zenon

LEMMA ProtIs ==
  ASSUME NEW prot \in SUBSET Bits, NEW p, NEW f, NEW n, NEW w
  PROVE  /\ static_protections(prot, p, f, n, w) \in SUBSET Bits
         /\ static_protections(prot, p, f, n, w) \subseteq prot
         /\ pgprot_clear_protnone_bits(prot) \in SUBSET Bits
         /\ pgprot_clear_protnone_bits(prot) \subseteq prot
         /\ \A r \in Rec : Requested(r, prot) \in SUBSET Bits
<1>1. \A r \in Rec : Requested(r, prot) \in SUBSET Bits
  BY RecIs, Zenon DEF Requested
<1> QED
  BY <1>1, Zenon DEF static_protections, pgprot_clear_protnone_bits

(***************************************************************************)
(* The invariant of the stacks, the lock and the tables.                   *)
(***************************************************************************)

Held == {"attr", "split_flush"}

(* A step of c: to stack s, position q and result v. *)
Moves(c, s, q, v) ==
    /\ cpa' = [cpa EXCEPT ![c] = s] /\ pc' = [pc EXCEPT ![c] = q]
    /\ ret' = [ret EXCEPT ![c] = v]

(* What it may do to the lock. *)
LockStep(c, q) ==
    \/ UNCHANGED cpa_lock /\ (q \in Held => pc[c] \in Held)
    \/ cpa_lock = "free" /\ cpa_lock' = c
    \/ pc[c] = "attr" /\ cpa_lock' = "free" /\ q \notin Held

LEMMA LockMoves ==
  ASSUME Inv, NEW c \in Cpu, NEW s, NEW q, NEW v, Moves(c, s, q, v), LockStep(c, q)
  PROVE  LockInv'
<1>1. pc'[c] = q /\ \A d \in Cpu : d # c => pc'[d] = pc[d]
  BY Zenon DEF Moves, Inv, Types
<1>2. c # "free" /\ \A d \in Cpu : d # "free"
  BY SizeAssumption, Zenon
<1>3. ASSUME NEW d \in Cpu, pc'[d] \in Held PROVE cpa_lock' = d
  BY <1>1, <1>2, <1>3, Zenon DEF LockStep, Inv, LockInv, Held
<1> QED
  BY <1>3, Zenon DEF LockInv, Held

(* A step of c that leaves the page tables alone. *)
LEMMA MovesInv ==
  ASSUME Inv, NEW c, NEW s, NEW q, NEW v, c \in Cpu, s \in Seq(Rec), q \in Code, v \in Int,
         Moves(c, s, q, v), Shape(s, q, v), LockStep(c, q),
         tlb' \in [Cpu -> SUBSET TlbType], pend' \in [Cpu -> SUBSET Cpu],
         pmd' \in [Group -> [large : BOOLEAN, e : EntryType]], pte' \in [Page -> EntryType],
         Framed'
  PROVE  Inv'
<1>1. LockInv'
  BY LockMoves, Zenon
<1>2. /\ pc' \in [Cpu -> Code] /\ cpa' \in [Cpu -> Seq(Rec)] /\ ret' \in [Cpu -> Int]
      /\ cpa'[c] = s /\ pc'[c] = q /\ ret'[c] = v
      /\ \A d \in Cpu : d # c => cpa'[d] = cpa[d] /\ pc'[d] = pc[d] /\ ret'[d] = ret[d]
  BY Zenon DEF Moves, Inv, Types
<1>3. Types'
  BY <1>2, Zenon DEF Types
<1>4. \A d \in Cpu : Shape(cpa'[d], pc'[d], ret'[d])
  BY <1>2, Zenon DEF Inv
<1> QED
  BY <1>1, <1>3, <1>4, Zenon DEF Inv

LEMMA QuietInv ==
  ASSUME Inv, NEW c, NEW s, NEW q, NEW v, c \in Cpu, s \in Seq(Rec), q \in Code, v \in Int,
         Moves(c, s, q, v), Shape(s, q, v), LockStep(c, q), UNCHANGED <<pmd, pte>>,
         tlb' \in [Cpu -> SUBSET TlbType], pend' \in [Cpu -> SUBSET Cpu]
  PROVE  Inv'
<1>1. Framed' /\ pmd' \in [Group -> [large : BOOLEAN, e : EntryType]] /\ pte' \in [Page -> EntryType]
  BY Zenon DEF Inv, Types, Framed
<1> QED
  BY <1>1, MovesInv, Zenon

(* The stack of a CPU in a call. *)
LEMMA TopIs ==
  ASSUME Inv, NEW c \in Cpu, pc[c] # "idle"
  PROVE  /\ cpa[c] \in Seq(Rec) /\ Shape(cpa[c], pc[c], ret[c]) /\ Len(cpa[c]) \in {1, 2}
         /\ Top(c) = cpa[c][1] /\ Top(c) \in Rec /\ RecOK(Top(c)) /\ pc[c] \in Code
         /\ Bottom(c) = cpa[c][Len(cpa[c])] /\ Bottom(c) \in Rec /\ BaseOK(Bottom(c))
         /\ pc[c] \notin {"done", "flush"} => ret[c] = 0
         /\ pc[c] \in Busy => RoundOK(Top(c)) /\ At(Top(c)) \in Page
<1>1. /\ cpa[c] \in Seq(Rec) /\ Shape(cpa[c], pc[c], ret[c]) /\ pc[c] \in Code
      /\ Top(c) = cpa[c][1] /\ Bottom(c) = cpa[c][Len(cpa[c])]
  BY Zenon DEF Inv, Types, Top, Bottom
<1>2. Top(c) \in Rec /\ RecOK(Top(c)) /\ Bottom(c) \in Rec /\ Len(cpa[c]) \in {1, 2}
  BY <1>1, StackIs, Zenon
<1>3. /\ BaseOK(Bottom(c)) /\ (pc[c] \notin {"done", "flush"} => ret[c] = 0)
      /\ pc[c] \in Busy => RoundOK(Top(c))
  BY <1>1, Zenon DEF Shape, Busy
<1>4. RoundOK(Top(c)) => At(Top(c)) \in Page
  <2>1. RoundOK(Top(c)) => 0 \in 0 .. Top(c).numpages - 1
    BY <1>2, OnePage, Zenon
  <2> QED
    BY <1>2, <2>1, RoundIn, Zenon
<1> QED
  BY <1>1, <1>2, <1>3, <1>4, Zenon

LEMMA InitInv == Init => Inv
<1> SUFFICES ASSUME Init PROVE Inv
  BY Zenon
<1>1. \A g \in Large : g * L \in Page /\ Frame[g * L] \in Int /\ BootProt[g * L] \in SUBSET Bits
  BY LargeIs, PageIs, SizeAssumption
<1>2. \A p \in Page : Frame[p] \in Int /\ BootProt[p] \in SUBSET Bits /\ p \div L \in Group
  BY PageIs, SizeAssumption
<1>3. Hole \in EntryType
  BY DEF Hole, EntryType
<1>4. /\ pmd \in [Group -> [large : BOOLEAN, e : EntryType]] /\ pte \in [Page -> EntryType]
  BY <1>1, <1>2, <1>3 DEF Init, EntryType
<1>5. Types
  BY <1>4 DEF Init, Types, Code
<1>6. LockInv
  BY Zenon DEF Init, LockInv
<1>7. ASSUME NEW g \in Group, pmd[g].large PROVE g \in Large /\ pmd[g].e.pfn = Frame[g * L]
  BY <1>7, Zenon DEF Init
<1>8. ASSUME NEW p \in Page
      PROVE  /\ ~pmd[p \div L].large => pte[p].pfn = Frame[p]
             /\ Frame[p] = -1 => pte[p] = Hole
  BY <1>2, <1>8, Zenon DEF Init, Hole
<1>9. \A c \in Cpu : Shape(cpa[c], pc[c], ret[c])
  BY Zenon DEF Init, Shape
<1> QED
  BY <1>5, <1>6, <1>7, <1>8, <1>9, Zenon DEF Inv, Framed

(* The record of a new call. *)
LEMMA CallRec ==
  ASSUME NEW c \in Cpu, NEW r \in Request[c]
  PROVE  /\ <<cpa_data(r)>> \in Seq(Rec) /\ Shape(<<cpa_data(r)>>, "loop", 0)
         /\ cpa_data(r).req = r /\ cpa_data(r).curpage = 0 /\ r \in Req
<1> DEFINE a == cpa_data(r)
<1>1. /\ r \in Req /\ r.pages # <<>>
      /\ ~r.array => \A i \in DOMAIN r.pages : r.pages[i] = r.pages[1] + i - 1
  BY RequestAssumption, Zenon DEF Req
<1>2. /\ r.pages \in Seq(Page) /\ r.array \in BOOLEAN /\ r.set \in SUBSET Bits
      /\ r.clr \in SUBSET Bits /\ r.split \in BOOLEAN /\ r.chk \in BOOLEAN
      /\ Len(r.pages) \in Nat /\ DOMAIN r.pages = 1 .. Len(r.pages)
  BY <1>1 DEF Req
<1>3. a \in Rec
  BY <1>1, <1>2 DEF Rec, cpa_data
<1>4. /\ a.req = r /\ a.pages = r.pages /\ a.array = r.array /\ a.set = r.set
      /\ a.clr = r.clr /\ a.total = Len(r.pages) /\ a.rem = Len(r.pages)
      /\ a.curpage = 0 /\ a.back = "done"
  BY Zenon DEF cpa_data
<1> HIDE DEF a
<1>5. ASSUME NEW i \in 0 .. Len(r.pages) - 1 PROVE __cpa_addr(a, i) \in Page
  <2>1. i + 1 \in DOMAIN r.pages /\ r.pages[i + 1] \in Page /\ r.pages[1] \in Page
    BY <1>2
  <2>2. ~r.array => r.pages[i + 1] = r.pages[1] + (i + 1) - 1
    BY <1>1, <2>1, Zenon
  <2>3. ~r.array => r.pages[i + 1] = r.pages[1] + i
    BY <2>1, <2>2, PageIs
  <2> QED
    BY <1>2, <1>4, <2>1, <2>3, Zenon DEF __cpa_addr
<1>6. RecOK(a)
  BY <1>1, <1>2, <1>4, <1>5 DEF RecOK, Range
<1>7. BaseOK(a)
  BY <1>1, <1>4, <1>6 DEF BaseOK
<1>8. <<a>> \in Seq(Rec) /\ Len(<<a>>) = 1 /\ <<a>>[1] = a
  BY <1>3
<1> QED
  BY <1>1, <1>4, <1>7, <1>8 DEF Shape, a

LEMMA CallInv == ASSUME Inv, NEW c \in Cpu, Call(c) PROVE Inv'
<1>1. PICK r \in Request[c] : cpa' = [cpa EXCEPT ![c] = <<cpa_data(r)>>]
  BY Zenon DEF Call
<1>2. Moves(c, <<cpa_data(r)>>, "loop", 0)
  BY <1>1, Zenon DEF Call, Moves, Goto
<1>3. /\ LockStep(c, "loop") /\ UNCHANGED <<pmd, pte>> /\ "loop" \in Code
      /\ tlb' \in [Cpu -> SUBSET TlbType] /\ pend' \in [Cpu -> SUBSET Cpu]
  BY Zenon DEF Call, LockStep, Held, Code, Inv, Types
<1> DEFINE s == <<cpa_data(r)>>
<1>4. s \in Seq(Rec) /\ Shape(s, "loop", 0) /\ Moves(c, s, "loop", 0)
  BY <1>2, CallRec, Zenon
<1> HIDE DEF s
<1> QED
  BY <1>3, <1>4, QuietInv

LEMMA LoopInv == ASSUME Inv, NEW c \in Cpu, Loop(c) PROVE Inv'
<1> DEFINE r == Top(c)
<1>1. pc[c] = "loop" /\ UNCHANGED <<pmd, pte, tlb, pend, ret>>
  BY Zenon DEF Loop
<1>2. /\ cpa[c] \in Seq(Rec) /\ Shape(cpa[c], "loop", 0) /\ Len(cpa[c]) \in {1, 2}
      /\ r = cpa[c][1] /\ r \in Rec /\ RecOK(r) /\ ret[c] = 0
  BY <1>1, TopIs, Zenon
<1>3. /\ tlb' \in [Cpu -> SUBSET TlbType] /\ pend' \in [Cpu -> SUBSET Cpu]
      /\ ret' = [ret EXCEPT ![c] = 0]
  BY <1>1, <1>2, Zenon DEF Inv, Types
<1>4. CASE r.rem > 0
  <2> DEFINE n == IF r.array THEN 1 ELSE r.rem
  <2> DEFINE t == WithPages(r, n)
  <2>1. n \in Nat /\ r.rem \in Nat
    BY <1>2, RecIs, Zenon
  <2>2. SameRound(r, t) /\ t.numpages = n
    BY <1>2, <2>1, PagesRec
  <2>3. RoundOK(t)
    <3>1. n \in 1 .. r.rem /\ (r.array => n = 1)
      BY <1>4, <2>1
    <3> HIDE DEF n, t
    <3> QED
      BY <2>2, <3>1, RoundPages, Zenon
  <2>4. SetTop(c, t) /\ Goto(c, "attr") /\ cpa_lock = "free" /\ cpa_lock' = c
    BY <1>4, Zenon DEF Loop, WithPages
  <2> HIDE DEF t
  <2>5. Moves(c, [cpa[c] EXCEPT ![1] = t], "attr", 0)
    BY <1>3, <2>4, Zenon DEF Moves, SetTop, Goto
  <2>6. [cpa[c] EXCEPT ![1] = t] \in Seq(Rec) /\ Shape([cpa[c] EXCEPT ![1] = t], "attr", 0)
    BY <1>2, <2>2, <2>3, TopShape, Zenon DEF Busy, Code
  <2>7. LockStep(c, "attr") /\ "attr" \in Code
    BY <2>4, Zenon DEF LockStep, Code
  <2> QED
    BY <1>1, <1>3, <2>5, <2>6, <2>7, QuietInv
<1>5. CASE ~(r.rem > 0)
  <2>1. /\ UNCHANGED cpa_lock /\ Goto(c, r.back)
        /\ cpa' = IF Len(cpa[c]) = 1 THEN cpa ELSE [cpa EXCEPT ![c] = Tail(@)]
    BY <1>5, Zenon DEF Loop
  <2>2. CASE Len(cpa[c]) = 1
    <3>1. r.back = "done" /\ r.rem = 0
      BY <1>2, <1>5, <2>2, RecIs DEF Shape, BaseOK
    <3>2. Shape(cpa[c], "done", 0)
      BY <1>2, <2>2, <3>1, Zenon DEF Shape
    <3>3. Moves(c, cpa[c], "done", 0)
      BY <1>2, <1>3, <2>1, <2>2, <3>1, Zenon DEF Moves, Goto, Inv, Types
    <3>4. LockStep(c, "done") /\ "done" \in Code
      BY <2>1, Zenon DEF LockStep, Held, Code
    <3> QED
      BY <1>1, <1>2, <1>3, <3>2, <3>3, <3>4, QuietInv
  <2>3. CASE Len(cpa[c]) = 2
    <3>1. /\ Tail(cpa[c]) \in Seq(Rec) /\ r.back \in {"alias_high", "adjust"}
          /\ Shape(Tail(cpa[c]), r.back, 0)
      BY <1>2, <2>3, PopShape, Zenon DEF Code
    <3>2. Moves(c, Tail(cpa[c]), r.back, 0)
      BY <1>3, <2>1, <2>3 DEF Moves, Goto
    <3>3. LockStep(c, r.back) /\ r.back \in Code
      BY <2>1, <3>1, Zenon DEF LockStep, Held, Code
    <3> DEFINE s == Tail(cpa[c])
    <3> DEFINE q == r.back
    <3>4. s \in Seq(Rec) /\ Shape(s, q, 0) /\ Moves(c, s, q, 0) /\ LockStep(c, q) /\ q \in Code
      BY <3>1, <3>2, <3>3, Zenon
    <3> HIDE DEF s, q
    <3> QED
      BY <1>1, <1>3, <3>4, QuietInv
  <2> QED
    BY <1>2, <2>2, <2>3, Zenon
<1> QED
  BY <1>4, <1>5, Zenon

(* An error, for the call or for an alias. *)
LEMMA FailInv ==
  ASSUME Inv, NEW c \in Cpu, pc[c] \in {"attr", "alloc"}, NEW v \in {-12, -14}, Fail(c, v),
         \/ pc[c] = "attr" /\ cpa_lock' = "free"
         \/ UNCHANGED cpa_lock,
         UNCHANGED <<pmd, pte, tlb, pend>>
  PROVE  Inv'
<1>1. /\ cpa[c] \in Seq(Rec) /\ Shape(cpa[c], pc[c], 0) /\ Len(cpa[c]) \in {1, 2}
      /\ Top(c) = cpa[c][1] /\ ret[c] = 0 /\ pc[c] \in Code \ {"idle"}
  BY TopIs, Zenon DEF Code
<1>2. tlb' \in [Cpu -> SUBSET TlbType] /\ pend' \in [Cpu -> SUBSET Cpu]
  BY Zenon DEF Inv, Types
<1>3. CASE Top(c).back = "adjust"
  <2>1. Len(cpa[c]) = 2
    BY <1>1, <1>3 DEF Shape, BaseOK
  <2>2. Tail(cpa[c]) \in Seq(Rec) /\ Shape(Tail(cpa[c]), "adjust", 0)
    BY <1>1, <2>1, PopShape, Zenon
  <2>3. Moves(c, Tail(cpa[c]), "adjust", 0)
    BY <1>1, <1>3, Zenon DEF Moves, Fail, Goto, Inv, Types
  <2>4. LockStep(c, "adjust") /\ "adjust" \in Code
    BY Zenon DEF LockStep, Held, Code
  <2> DEFINE s == Tail(cpa[c])
  <2>5. s \in Seq(Rec) /\ Shape(s, "adjust", 0) /\ Moves(c, s, "adjust", 0)
    BY <2>2, <2>3, Zenon
  <2> HIDE DEF s
  <2> QED
    BY <1>2, <2>4, <2>5, QuietInv
<1>4. CASE Top(c).back # "adjust"
  <2> DEFINE s == <<cpa[c][Len(cpa[c])]>>
  <2>1. s \in Seq(Rec) /\ Shape(s, "done", v)
    BY <1>1, EndShape
  <2>2. Moves(c, s, "done", v)
    BY <1>4, Zenon DEF Moves, Fail, Goto
  <2>3. LockStep(c, "done") /\ "done" \in Code /\ v \in Int
    BY DEF LockStep, Held, Code
  <2> HIDE DEF s
  <2> QED
    BY <1>2, <2>1, <2>2, <2>3, QuietInv, Zenon
<1> QED
  BY <1>3, <1>4, Zenon

(***************************************************************************)
(* __change_page_attr.                                                     *)
(***************************************************************************)

(* What the round of a CPU that holds cpa_lock is about. *)
LEMMA AttrIs ==
  ASSUME Inv, NEW c \in Cpu, pc[c] = "attr"
  PROVE  /\ cpa[c] \in Seq(Rec) /\ Shape(cpa[c], "attr", 0) /\ Top(c) = cpa[c][1]
         /\ Top(c) \in Rec /\ RecOK(Top(c)) /\ RoundOK(Top(c)) /\ At(Top(c)) \in Page
         /\ Len(cpa[c]) \in {1, 2} /\ ret[c] = 0 /\ ret = [ret EXCEPT ![c] = 0]
         /\ __cpa_addr(Top(c), Top(c).curpage) = At(Top(c))
<1>1. pc[c] \in Busy
  BY Zenon DEF Busy
<1>2. ret[c] = 0 /\ ret = [ret EXCEPT ![c] = 0]
  BY TopIs, Zenon DEF Inv, Types
<1> QED
  BY <1>1, <1>2, TopIs DEF At

(* A step of c at "attr" to the record t of the round. *)
LEMMA AttrMoves ==
  ASSUME Inv, NEW c \in Cpu, pc[c] = "attr", NEW t, SetTop(c, t), SameRound(Top(c), t),
         RoundOK(t), NEW q \in {"alias", "alloc"}, q = "alias" => RunOK(t), Goto(c, q),
         cpa_lock' = "free", UNCHANGED <<ret, tlb, pend>>
  PROVE  /\ Framed' /\ pmd' \in [Group -> [large : BOOLEAN, e : EntryType]]
            /\ pte' \in [Page -> EntryType] => Inv'
<1> DEFINE s == [cpa[c] EXCEPT ![1] = t]
<1>1. /\ cpa[c] \in Seq(Rec) /\ Shape(cpa[c], "attr", 0) /\ Top(c) = cpa[c][1]
      /\ ret = [ret EXCEPT ![c] = 0]
  BY AttrIs, Zenon
<1>2. s \in Seq(Rec) /\ Shape(s, q, 0)
  BY <1>1, TopShape DEF Busy, Code
<1>3. Moves(c, s, q, 0)
  BY <1>1, Zenon DEF Moves, SetTop, Goto
<1>4. /\ LockStep(c, q) /\ q \in Code /\ tlb' \in [Cpu -> SUBSET TlbType]
      /\ pend' \in [Cpu -> SUBSET Cpu]
  BY Zenon DEF LockStep, Held, Code, Inv, Types
<1> HIDE DEF s
<1> QED
  BY <1>2, <1>3, <1>4, MovesInv

LEMMA FaultInv ==
  ASSUME Inv, NEW c \in Cpu, pc[c] = "attr", NEW p, p = At(Top(c)), Entry(p) = Hole,
         __cpa_process_fault(c, p), UNCHANGED <<tlb, pend>>
  PROVE  Inv'
<1> DEFINE r == Top(c)
<1>1. r \in Rec /\ RecOK(r) /\ RoundOK(r) /\ p \in Page
  BY AttrIs, Zenon
<1>2. Frame[p] = -1
  BY <1>1, EntryIs, Zenon DEF Inv
<1>3. /\ cpa_lock' = "free" /\ UNCHANGED <<pmd, pte>>
      /\ Framed' /\ pmd' \in [Group -> [large : BOOLEAN, e : EntryType]]
      /\ pte' \in [Page -> EntryType]
  BY Zenon DEF __cpa_process_fault, Inv, Types, Framed
<1>4. 1 \in 1 .. r.rem /\ r.numpages \in Nat /\ p \in Int
  <2>1. 1 \in 1 .. r.rem /\ r.numpages \in Nat /\ p \in Nat
    BY <1>1, OnePage, PageIs, Zenon
  <2> QED
    BY <2>1
<1>5. CASE ~r.chk
  <2> DEFINE t == WithPages(r, 1)
  <2>1. SameRound(r, t) /\ t.numpages = 1
    BY <1>1, PagesRec, Zenon
  <2>2. SetTop(c, t) /\ Goto(c, "alias") /\ UNCHANGED ret
    BY <1>5, Zenon DEF __cpa_process_fault, WithPages
  <2> HIDE DEF t
  <2>3. RoundOK(t) /\ RunOK(t)
    BY <1>4, <1>5, <2>1, Zenon DEF RoundOK, RunOK, SameRound, Same
  <2> QED
    BY <1>3, <2>1, <2>2, <2>3, AttrMoves, Zenon
<1>6. CASE r.chk /\ p \in Direct
  <2> DEFINE t == WithFrame(r, 1, p)
  <2>1. SameRound(r, t) /\ t.numpages = 1 /\ t.pfn = p
    BY <1>1, <1>4, FrameRec
  <2>2. SetTop(c, t) /\ Goto(c, "alias") /\ UNCHANGED ret
    BY <1>6, Zenon DEF __cpa_process_fault, WithFrame
  <2> HIDE DEF t
  <2>3. At(t) = p
    BY <2>1, SameRec, Zenon DEF SameRound
  <2>4. RoundOK(t) /\ RunOK(t)
    BY <1>2, <1>4, <1>6, <2>1, <2>3, Zenon DEF RoundOK, RunOK, SameRound, Same
  <2> QED
    BY <1>3, <2>1, <2>2, <2>4, AttrMoves, Zenon
<1>7. CASE r.chk /\ p \notin Direct
  BY <1>3, <1>7, FailInv, Zenon DEF __cpa_process_fault
<1> QED
  BY <1>5, <1>6, <1>7, Zenon

(* The store of Change4K. *)
LEMMA Store4K ==
  ASSUME Inv, NEW c \in Cpu, pc[c] = "attr", NEW p, p = At(Top(c)), Entry(p) # Hole,
         ~pmd[p \div L].large, Change4K(c, p)
  PROVE  LET want == static_protections(Requested(Top(c), pte[p].prot), p, pte[p].pfn, 1, FALSE)
             new  == pgprot_clear_protnone_bits(want)
         IN  /\ Entry(p)' = [pfn |-> Frame[p], prot |-> new] /\ new \in SUBSET Bits
             /\ \A q \in Page : q # p => Entry(q)' = Entry(q)
             /\ SetTop(c, WithStore(Top(c), Frame[p], Top(c).flushtlb \/ Entry(p)' # Entry(p)))
             /\ Framed' /\ pmd' = pmd /\ pte' \in [Page -> EntryType]
             /\ Entry(p) = pte[p] /\ pte[p].pfn = Frame[p]
<1> DEFINE want == static_protections(Requested(Top(c), pte[p].prot), p, pte[p].pfn, 1, FALSE)
<1> DEFINE new == pgprot_clear_protnone_bits(want)
<1>1. p \in Page /\ Top(c) \in Rec
  BY AttrIs, Zenon
<1>2. pte[p] \in EntryType /\ Entry(p) = pte[p] /\ pte[p].pfn = Frame[p] /\ Frame[p] # -1
  BY <1>1, EntryIs, Zenon DEF Inv
<1>3. pte[p].prot \in SUBSET Bits /\ pte[p].pfn \in Int
  BY <1>2, Zenon DEF EntryType
<1>4. Requested(Top(c), pte[p].prot) \in SUBSET Bits
  BY <1>1, <1>3, ProtIs, Zenon
<1>5. want \in SUBSET Bits
  BY <1>4, ProtIs, Zenon
<1>6. new \in SUBSET Bits
  BY <1>5, ProtIs, Zenon
<1> HIDE DEF want
<1>7. pte' = [pte EXCEPT ![p] = [pte[p] EXCEPT !.prot = new]] /\ pmd' = pmd
  BY Zenon DEF Change4K, want
<1> HIDE DEF new
<1>8. [pte[p] EXCEPT !.prot = new] = [pfn |-> Frame[p], prot |-> new]
  BY <1>2 DEF EntryType
<1>9. pte'[p] = [pfn |-> Frame[p], prot |-> new] /\ pte \in [Page -> EntryType]
  BY <1>1, <1>7, <1>8, Zenon DEF Inv, Types
<1>10. pte' \in [Page -> EntryType] /\ \A q \in Page : q # p => pte'[q] = pte[q]
  BY <1>2, <1>3, <1>6, <1>7, <1>8, <1>9, Zenon DEF EntryType
<1>11. Entry(p)' = [pfn |-> Frame[p], prot |-> new] /\ \A q \in Page : q # p => Entry(q)' = Entry(q)
  BY <1>7, <1>9, <1>10, Zenon DEF Entry
<1>12. Framed'
  BY <1>2, <1>7, <1>9, <1>10 DEF Inv, Framed
<1>13. SetTop(c, WithStore(Top(c), Frame[p], Top(c).flushtlb \/ Entry(p)' # Entry(p)))
  <2> DEFINE e == [pte[p] EXCEPT !.prot = new]
  <2>1. SetTop(c, [Top(c) EXCEPT !.pfn = pte[p].pfn, !.numpages = 1,
                                 !.flushtlb = @ \/ e # pte[p]])
    BY Zenon DEF Change4K, want, new
  <2>2. e = Entry(p)'
    BY <1>8, <1>11, Zenon
  <2> HIDE DEF e
  <2> QED
    BY <1>1, <1>2, <2>1, <2>2 DEF WithStore, Rec
<1> QED
  BY <1>2, <1>6, <1>7, <1>10, <1>11, <1>12, <1>13, Zenon DEF new, want

LEMMA Change4KInv ==
  ASSUME Inv, NEW c \in Cpu, pc[c] = "attr", NEW p, p = At(Top(c)), Entry(p) # Hole,
         ~pmd[p \div L].large, Change4K(c, p), UNCHANGED <<tlb, pend>>
  PROVE  Inv'
<1> DEFINE r == Top(c)
<1> DEFINE b == r.flushtlb \/ Entry(p)' # Entry(p)
<1> DEFINE t == WithStore(r, Frame[p], b)
<1>1. r \in Rec /\ RoundOK(r) /\ p \in Page
  BY AttrIs, Zenon
<1>2. /\ Frame[p] \in Int /\ Frame[p] # -1 /\ 1 \in 1 .. r.rem
  <2>1. Frame[p] \in Nat \cup {-1} /\ 1 \in 1 .. r.rem
    BY <1>1, OnePage, PageIs, Zenon
  <2>2. Frame[p] # -1
    BY <1>1, EntryIs, Zenon DEF Inv
  <2> QED
    BY <2>1, <2>2
<1>3. /\ SetTop(c, t) /\ Framed' /\ pmd' = pmd /\ pte' \in [Page -> EntryType]
  BY Store4K, Zenon
<1>4. SameRound(r, t) /\ t.numpages = 1 /\ t.pfn = Frame[p]
  <2>1. b \in BOOLEAN /\ (r.flushtlb => b)
    BY Zenon
  <2> HIDE DEF b
  <2> QED
    BY <1>1, <1>2, <2>1, StoreRec
<1> HIDE DEF t
<1>5. At(t) = p
  BY <1>4, SameRec, Zenon DEF SameRound
<1>6. Frame[p + 0] = Frame[p] + 0
  BY <1>1, <1>2, PageIs
<1>7. RoundOK(t) /\ RunOK(t)
  <2>1. \A i \in 0 .. t.numpages - 1 : i = 0
    BY <1>4
  <2>2. RoundOK(t)
    BY <1>2, <1>4, Zenon DEF RoundOK, SameRound
  <2> QED
    BY <1>2, <1>4, <1>5, <1>6, <2>1, <2>2, Zenon DEF RunOK
<1>8. Goto(c, "alias") /\ UNCHANGED ret /\ cpa_lock' = "free"
  BY Zenon DEF Change4K
<1>9. pmd' \in [Group -> [large : BOOLEAN, e : EntryType]]
  BY <1>3, Zenon DEF Inv, Types
<1> QED
  BY <1>3, <1>4, <1>7, <1>8, <1>9, AttrMoves, Zenon

(* The pages of a large page from p on. *)
LEMMA LargeRun ==
  ASSUME NEW p, NEW i, p \in Page, p \div L \in Large, i \in Nat, i < L - (p % L)
  PROVE  /\ p + i \in Of(p \div L) /\ p + i \in Page /\ (p + i) \div L = p \div L
         /\ (p + i) % L = (p % L) + i /\ Frame[p + i] = Frame[p] + i /\ Frame[p] \in Nat
         /\ Frame[p] = Frame[(p \div L) * L] + (p % L) /\ Frame[(p \div L) * L] \in Nat
<1> DEFINE g == p \div L
<1>1. p \in Nat /\ p % L \in 0 .. L - 1 /\ p = g * L + (p % L) /\ p \in Of(g) /\ L \in Nat
  BY PageIs, SizeAssumption, Zenon
<1>2. (p % L) + i < L
  BY <1>1
<1>3. (p + i) \div L = g /\ (p + i) % L = (p % L) + i
  BY <1>1, <1>2, DivOn, Zenon
<1>4. g \in Nat /\ g * L \in Nat
  BY <1>1, LargeIs, PageIs, Zenon
<1>5. p + i = g * L + ((p % L) + i) /\ (p % L) + i \in 0 .. L - 1
  BY <1>1, <1>2, <1>4
<1>6. p + i \in Of(g)
  BY <1>5, LargeIs, Zenon
<1>7. /\ p + i \in Page /\ Frame[p + i] = Frame[g * L] + ((p + i) % L)
      /\ Frame[p] = Frame[g * L] + (p % L) /\ Frame[p] \in Nat /\ Frame[g * L] \in Nat
  BY <1>1, <1>6, LargeIs, Zenon
<1> QED
  BY <1>1, <1>3, <1>6, <1>7

LEMMA PagesHereIs ==
  ASSUME NEW r \in Rec, RoundOK(r), NEW p \in Page
  PROVE  /\ PagesHere(r, p) \in 1 .. r.numpages /\ PagesHere(r, p) \in Nat
         /\ PagesHere(r, p) <= L - (p % L)
<1>1. p % L \in 0 .. L - 1 /\ L \in Nat
  BY PageIs, SizeAssumption, Zenon
<1>2. r.numpages \in Nat /\ r.numpages >= 1
  BY RecIs DEF RoundOK
<1> QED
  BY <1>1, <1>2 DEF PagesHere

(* The bits a large page is to have, and what no page of it may have. *)
Wanted(c, g)    == pgprot_clear_protnone_bits(Requested(Top(c), pmd[g].e.prot))
Limited(g, pr) == static_protections(pr, g * L, pmd[g].e.pfn, L, TRUE)

(* The record t of a round in a large page. *)
LargeTop(c, p, t) ==
    /\ SetTop(c, t) /\ SameRound(Top(c), t) /\ RoundOK(t)
    /\ t.numpages = PagesHere(Top(c), p) /\ t.pfn = Frame[p]

(* The outcomes of ChangeLarge: the page is to be split, is right as it is, or
   changes as a whole. *)
ToSplit(c, t) ==
    /\ SetTop(c, t) /\ SameRound(Top(c), t) /\ RoundOK(t) /\ Goto(c, "alloc") /\ pmd' = pmd
StaysAs(c, p, t) ==
    /\ LargeTop(c, p, t) /\ Goto(c, "alias") /\ pmd' = pmd
    /\ Wanted(c, p \div L) = pmd[p \div L].e.prot
    /\ Limited(p \div L, pmd[p \div L].e.prot) = pmd[p \div L].e.prot
AsWhole(c, p, t) ==
    /\ LargeTop(c, p, t) /\ Goto(c, "alias") /\ t.flushtlb /\ p = (p \div L) * L
    /\ t.numpages = L /\ Limited(p \div L, Wanted(c, p \div L)) = Wanted(c, p \div L)
    /\ pmd' = [pmd EXCEPT ![p \div L].e.prot = Wanted(c, p \div L)]

LEMMA LargeCases ==
  ASSUME Inv, NEW c \in Cpu, pc[c] = "attr", NEW p, p = At(Top(c)), Entry(p) # Hole,
         pmd[p \div L].large, ChangeLarge(c, p)
  PROVE  /\ \E t : ToSplit(c, t) \/ StaysAs(c, p, t) \/ AsWhole(c, p, t)
         /\ cpa_lock' = "free" /\ pte' = pte /\ ret' = ret
<1> DEFINE r == Top(c)
<1> DEFINE g == p \div L
<1> DEFINE n == PagesHere(r, p)
<1> DEFINE f == pmd[g].e.pfn + (p % L)
<1> DEFINE at == WithFrame(r, n, f)
<1>1. r \in Rec /\ RecOK(r) /\ RoundOK(r) /\ p \in Page
  BY AttrIs, Zenon
<1>2. g \in Large /\ pmd[g].e.pfn = Frame[g * L]
  BY <1>1, EntryIs, Zenon DEF Inv
<1>3. f = Frame[p] /\ Frame[p] \in Int
  BY <1>1, <1>2, PageIs, LargeIs
<1>4. n \in 1 .. r.numpages /\ n \in Nat /\ r.numpages \in 1 .. r.rem /\ r.rem \in Nat
  BY <1>1, PagesHereIs, RecIs, Zenon DEF RoundOK
<1> HIDE DEF n, f
<1>5. SameRound(r, at) /\ at.numpages = n /\ at.pfn = Frame[p] /\ at \in Rec
  BY <1>1, <1>3, <1>4, FrameRec DEF SameRound
<1>6. RoundOK(at)
  <2>1. n \in 1 .. r.rem /\ (r.array => n = 1)
    BY <1>1, <1>4 DEF RoundOK
  <2> QED
    BY <1>5, <2>1, RoundPages, Zenon
<1>7. SameRound(r, r)
  BY <1>1, Zenon DEF SameRound, Same
<1> HIDE DEF at
<1>8. /\ SameRound(at, WithStatic(at)) /\ WithStatic(at).numpages = n
      /\ WithStatic(at).pfn = Frame[p]
      /\ SameRound(at, WithFlag(at)) /\ WithFlag(at).numpages = n
      /\ WithFlag(at).pfn = Frame[p] /\ WithFlag(at).flushtlb
  BY <1>5, StaticRec, FlagRec, Zenon
<1>9. /\ RoundOK(WithStatic(at)) /\ RoundOK(WithFlag(at))
      /\ SameRound(r, WithStatic(at)) /\ SameRound(r, WithFlag(at))
  BY <1>5, <1>6, <1>8, Zenon DEF RoundOK, SameRound, Same
<1>10. /\ IF r.split THEN SetTop(c, r) /\ Goto(c, "alloc") /\ UNCHANGED pmd
          ELSE IF Limited(g, pmd[g].e.prot) # pmd[g].e.prot
          THEN SetTop(c, WithStatic(at)) /\ Goto(c, "alloc") /\ UNCHANGED pmd
          ELSE IF Wanted(c, g) = pmd[g].e.prot
          THEN SetTop(c, at) /\ Goto(c, "alias") /\ UNCHANGED pmd
          ELSE IF p # g * L \/ n # L \/ Limited(g, Wanted(c, g)) # Wanted(c, g)
          THEN SetTop(c, at) /\ Goto(c, "alloc") /\ UNCHANGED pmd
          ELSE /\ pmd' = [pmd EXCEPT ![g].e.prot = Limited(g, Wanted(c, g))]
               /\ SetTop(c, WithFlag(at)) /\ Goto(c, "alias")
       /\ cpa_lock' = "free" /\ UNCHANGED <<pte, ret>>
  BY Zenon DEF ChangeLarge, Limited, Wanted, WithStatic, WithFlag, WithFrame, at, n, f
<1>11. ASSUME NEW t, SetTop(c, t), Goto(c, "alloc"), UNCHANGED pmd, SameRound(r, t), RoundOK(t)
       PROVE  ToSplit(c, t)
  BY <1>11, Zenon DEF ToSplit
<1>12. ASSUME Goto(c, "alias"), UNCHANGED pmd, SetTop(c, at),
              Wanted(c, g) = pmd[g].e.prot, Limited(g, pmd[g].e.prot) = pmd[g].e.prot
       PROVE  StaysAs(c, p, at)
  BY <1>5, <1>6, <1>12, Zenon DEF StaysAs, LargeTop, n
<1>13. ASSUME Goto(c, "alias"), SetTop(c, WithFlag(at)), p = g * L, n = L,
              Limited(g, Wanted(c, g)) = Wanted(c, g),
              pmd' = [pmd EXCEPT ![g].e.prot = Limited(g, Wanted(c, g))]
       PROVE  AsWhole(c, p, WithFlag(at))
  BY <1>8, <1>9, <1>13, Zenon DEF AsWhole, LargeTop, n
<1>14. \/ \E t : SetTop(c, t) /\ Goto(c, "alloc") /\ UNCHANGED pmd /\ SameRound(r, t) /\ RoundOK(t)
       \/ Goto(c, "alias") /\ UNCHANGED pmd /\ SetTop(c, at)
          /\ Wanted(c, g) = pmd[g].e.prot /\ Limited(g, pmd[g].e.prot) = pmd[g].e.prot
       \/ /\ Goto(c, "alias") /\ SetTop(c, WithFlag(at)) /\ p = g * L /\ n = L
          /\ Limited(g, Wanted(c, g)) = Wanted(c, g)
          /\ pmd' = [pmd EXCEPT ![g].e.prot = Limited(g, Wanted(c, g))]
  BY <1>1, <1>5, <1>6, <1>7, <1>9, <1>10, Zenon
<1> QED
  BY <1>10, <1>11, <1>12, <1>13, <1>14, Zenon

(* The round of LargeTop lies in the large page. *)
LEMMA LargeTopRun ==
  ASSUME Inv, NEW c \in Cpu, pc[c] = "attr", NEW p, p = At(Top(c)), p \div L \in Large,
         NEW t, LargeTop(c, p, t)
  PROVE  RunOK(t) /\ At(t) = p
<1>1. Top(c) \in Rec /\ RoundOK(Top(c)) /\ p \in Page
  BY AttrIs, Zenon
<1>2. t.numpages \in Nat /\ t.numpages <= L - (p % L)
  BY <1>1, PagesHereIs, Zenon DEF LargeTop
<1>3. At(t) = p /\ t.pfn = Frame[p]
  BY SameRec, Zenon DEF LargeTop, SameRound
<1>4. ASSUME NEW i \in 0 .. t.numpages - 1
      PROVE  p + i \in Of(p \div L) /\ Frame[p + i] = Frame[p] + i /\ Frame[p] # -1
  <2>1. L \in Nat /\ p % L \in Nat
    BY <1>1, PageIs, SizeAssumption
  <2>2. i \in Nat /\ i < L - (p % L)
    BY <1>2, <2>1
  <2> QED
    BY <1>1, <2>2, LargeRun
<1>5. Frame[p] # -1
  BY <1>1, PageIs, LargeIs
<1> QED
  BY <1>3, <1>4, <1>5, Zenon DEF RunOK

(* The store of ChangeLarge. *)
LEMMA StoreLarge ==
  ASSUME Inv, NEW c \in Cpu, NEW p \in Page, pmd[p \div L].large, pte' = pte,
         NEW w \in SUBSET Bits, pmd' = [pmd EXCEPT ![p \div L].e.prot = w]
  PROVE  /\ Framed' /\ pmd' \in [Group -> [large : BOOLEAN, e : EntryType]]
         /\ \A q \in Of(p \div L) : Entry(q)' = [pfn |-> Frame[q], prot |-> w]
         /\ \A q \in Page \ Of(p \div L) : Entry(q)' = Entry(q)
         /\ \A g \in Group : pmd'[g].large = pmd[g].large
<1> DEFINE g == p \div L
<1>1. g \in Group /\ pmd \in [Group -> [large : BOOLEAN, e : EntryType]]
  BY PageIs, Zenon DEF Inv, Types
<1>2. pmd'[g] = [large |-> pmd[g].large, e |-> [pfn |-> pmd[g].e.pfn, prot |-> w]]
  BY <1>1, Zenon DEF EntryType
<1>3. \A k \in Group : k # g => pmd'[k] = pmd[k]
  BY <1>1, Zenon
<1>4. pmd' \in [Group -> [large : BOOLEAN, e : EntryType]]
  BY <1>1 DEF EntryType
<1>5. \A k \in Group : pmd'[k].large = pmd[k].large /\ pmd'[k].e.pfn = pmd[k].e.pfn
  BY <1>2, <1>3
<1>6. Framed'
  BY <1>5, PageIs DEF Inv, Framed
<1>7. ASSUME NEW q \in Of(g) PROVE Entry(q)' = [pfn |-> Frame[q], prot |-> w]
  <2>1. q \in Page /\ q \div L = g
    BY Zenon DEF Of
  <2>2. Frame[q] = pmd[g].e.pfn + (q % L)
    BY <1>1, <2>1, LargeIs DEF Inv, Framed
  <2> QED
    BY <1>2, <2>1, <2>2 DEF Entry
<1>8. ASSUME NEW q \in Page \ Of(g) PROVE Entry(q)' = Entry(q)
  <2>1. q \div L # g /\ q \div L \in Group
    BY PageIs, Zenon DEF Of
  <2> QED
    BY <1>3, <2>1 DEF Entry
<1> QED
  BY <1>4, <1>5, <1>6, <1>7, <1>8, Zenon

LEMMA WantedIs ==
  ASSUME Inv, NEW c \in Cpu, pc[c] = "attr", NEW g \in Group
  PROVE  Wanted(c, g) \in SUBSET Bits /\ Requested(Top(c), pmd[g].e.prot) \in SUBSET Bits
<1>1. Top(c) \in Rec /\ pmd[g].e.prot \in SUBSET Bits
  BY AttrIs, Zenon DEF Inv, Types, EntryType
<1>2. Requested(Top(c), pmd[g].e.prot) \in SUBSET Bits
  BY <1>1, ProtIs, Zenon
<1> QED
  BY <1>2, ProtIs, Zenon DEF Wanted

LEMMA ChangeLargeInv ==
  ASSUME Inv, NEW c \in Cpu, pc[c] = "attr", NEW p, p = At(Top(c)), Entry(p) # Hole,
         pmd[p \div L].large, ChangeLarge(c, p), UNCHANGED <<tlb, pend>>
  PROVE  Inv'
<1>1. p \in Page /\ p \div L \in Group /\ p \div L \in Large
  BY AttrIs, PageIs, EntryIs, Zenon DEF Inv
<1>2. PICK t : ToSplit(c, t) \/ StaysAs(c, p, t) \/ AsWhole(c, p, t)
  BY LargeCases, Zenon
<1>3. cpa_lock' = "free" /\ pte' = pte /\ ret' = ret
  BY LargeCases, Zenon
<1>4. pte' \in [Page -> EntryType]
  BY <1>3, Zenon DEF Inv, Types
<1>5. CASE pmd' = pmd
  <2>1. Framed' /\ pmd' \in [Group -> [large : BOOLEAN, e : EntryType]]
    BY <1>3, <1>5, Zenon DEF Inv, Types, Framed
  <2>2. CASE ToSplit(c, t)
    BY <1>3, <1>4, <2>1, <2>2, AttrMoves, Zenon DEF ToSplit
  <2>3. CASE LargeTop(c, p, t) /\ Goto(c, "alias")
    <3>1. RunOK(t)
      BY <1>1, <2>3, LargeTopRun, Zenon
    <3> QED
      BY <1>3, <1>4, <2>1, <2>3, <3>1, AttrMoves, Zenon DEF LargeTop
  <2> QED
    BY <1>2, <2>2, <2>3, Zenon DEF StaysAs, AsWhole
<1>6. CASE AsWhole(c, p, t)
  <2>1. Framed' /\ pmd' \in [Group -> [large : BOOLEAN, e : EntryType]]
    BY <1>1, <1>3, <1>6, WantedIs, StoreLarge, Zenon DEF AsWhole
  <2>2. LargeTop(c, p, t) /\ Goto(c, "alias")
    BY <1>6, Zenon DEF AsWhole
  <2>3. RunOK(t)
    BY <1>1, <2>2, LargeTopRun, Zenon
  <2> QED
    BY <1>3, <1>4, <2>1, <2>2, <2>3, AttrMoves, Zenon DEF LargeTop
<1> QED
  BY <1>2, <1>5, <1>6, Zenon DEF ToSplit, StaysAs

LEMMA AttrInv == ASSUME Inv, NEW c \in Cpu, __change_page_attr(c) PROVE Inv'
<1> DEFINE p == At(Top(c))
<1>1. /\ pc[c] = "attr" /\ UNCHANGED <<tlb, pend>>
      /\ IF Entry(p) = Hole THEN __cpa_process_fault(c, p)
         ELSE IF pmd[p \div L].large THEN ChangeLarge(c, p) ELSE Change4K(c, p)
  BY Zenon DEF __change_page_attr, At
<1> HIDE DEF p
<1> QED
  BY <1>1, FaultInv, ChangeLargeInv, Change4KInv, Zenon DEF p

LEMMA AllocInv == ASSUME Inv, NEW c \in Cpu, Alloc(c) PROVE Inv'
<1>1. pc[c] = "alloc" /\ UNCHANGED <<pmd, pte, tlb, cpa_lock, pend>>
  BY Zenon DEF Alloc
<1>2. CASE Fail(c, -12)
  BY <1>1, <1>2, FailInv, Zenon
<1>3. CASE Goto(c, "split") /\ UNCHANGED <<cpa, ret>>
  <2> DEFINE s == cpa[c]
  <2>1. s \in Seq(Rec) /\ Shape(s, "alloc", 0) /\ ret[c] = 0
    BY <1>1, TopIs, Zenon
  <2>2. Shape(s, "split", 0)
    BY <2>1, MoveShape, Zenon DEF Busy
  <2>3. Moves(c, s, "split", 0)
    BY <1>3, <2>1, Zenon DEF Moves, Goto, Inv, Types
  <2>4. /\ LockStep(c, "split") /\ "split" \in Code /\ tlb' \in [Cpu -> SUBSET TlbType]
        /\ pend' \in [Cpu -> SUBSET Cpu]
    BY <1>1, Zenon DEF LockStep, Held, Code, Inv, Types
  <2> HIDE DEF s
  <2> QED
    BY <1>1, <2>1, <2>2, <2>3, <2>4, QuietInv
<1> QED
  BY <1>2, <1>3, Zenon DEF Alloc

(***************************************************************************)
(* __split_large_page, and the other steps.                                *)
(***************************************************************************)

(* The bits of page q once its large page g is split for the record r. *)
SplitProt(r, q, g) ==
    LET w == pgprot_clear_protnone_bits(pmd[g].e.prot)
    IN  IF r.static THEN static_protections(w, q, Frame[q], 1, FALSE) ELSE w

(* The group of the round is split. *)
Splits(c, g) ==
    LET e == [pmd[g].e EXCEPT !.prot = pgprot_clear_protnone_bits(@)]
    IN  /\ pte' = [p \in Page |-> IF p \in Of(g) THEN split_set_pte(Top(c), p, e) ELSE pte[p]]
        /\ pmd' = [pmd EXCEPT ![g] = [large |-> FALSE, e |-> Hole]]

LEMMA StoreSplit ==
  ASSUME Inv, NEW c \in Cpu, NEW g \in Group, pmd[g].large, Splits(c, g)
  PROVE  /\ Framed' /\ pmd' \in [Group -> [large : BOOLEAN, e : EntryType]]
         /\ pte' \in [Page -> EntryType]
         /\ \A q \in Of(g) : /\ q \in Page /\ SplitProt(Top(c), q, g) \in SUBSET Bits
                             /\ Entry(q)' = [pfn |-> Frame[q], prot |-> SplitProt(Top(c), q, g)]
         /\ \A q \in Page \ Of(g) : Entry(q)' = Entry(q)
         /\ \A k \in Group : pmd'[k].large <=> pmd[k].large /\ k # g
<1> DEFINE r == Top(c)
<1> DEFINE w == pgprot_clear_protnone_bits(pmd[g].e.prot)
<1> DEFINE e == [pmd[g].e EXCEPT !.prot = w]
<1>1. /\ pmd \in [Group -> [large : BOOLEAN, e : EntryType]] /\ pmd[g].e \in EntryType
      /\ g \in Large /\ pmd[g].e.pfn = Frame[g * L] /\ Hole \in EntryType
  <2>1. pmd \in [Group -> [large : BOOLEAN, e : EntryType]]
    BY Zenon DEF Inv, Types
  <2>2. g \in Large /\ pmd[g].e.pfn = Frame[g * L]
    BY Zenon DEF Inv, Framed
  <2>3. Hole \in EntryType
    BY DEF EntryType, Hole
  <2> QED
    BY <2>1, <2>2, <2>3, Zenon
<1>2. w \in SUBSET Bits
  <2>1. pmd[g].e.prot \in SUBSET Bits
    BY <1>1, Zenon DEF EntryType
  <2> QED
    BY <2>1, ProtIs, Zenon
<1>3. /\ pte' = [p \in Page |-> IF p \in Of(g) THEN split_set_pte(r, p, e) ELSE pte[p]]
      /\ pmd' = [pmd EXCEPT ![g] = [large |-> FALSE, e |-> Hole]]
  BY Zenon DEF Splits
<1> HIDE DEF w
<1>4. e.pfn = Frame[g * L] /\ e.prot = w
  BY <1>1, Zenon DEF EntryType
<1> HIDE DEF e
<1>5. /\ pmd' \in [Group -> [large : BOOLEAN, e : EntryType]] /\ ~pmd'[g].large
      /\ \A k \in Group : k # g => pmd'[k] = pmd[k]
  BY <1>1, <1>3, Zenon
<1>6. ASSUME NEW q \in Of(g)
      PROVE  /\ q \in Page /\ q \div L = g /\ SplitProt(r, q, g) \in SUBSET Bits
             /\ pte'[q] = [pfn |-> Frame[q], prot |-> SplitProt(r, q, g)]
             /\ Frame[q] \in Nat
  <2>1. q \in Page /\ q \div L = g
    BY Zenon DEF Of
  <2>2. e.pfn + (q % L) = Frame[q] /\ Frame[q] \in Nat
    BY <1>1, <1>4, LargeIs, Zenon
  <2>3. pte'[q] = split_set_pte(r, q, e)
    BY <1>3, <2>1, Zenon
  <2>4. split_set_pte(r, q, e) = [pfn |-> Frame[q], prot |-> SplitProt(r, q, g)]
    BY <1>4, <2>2, Zenon DEF split_set_pte, SplitProt, w
  <2>5. SplitProt(r, q, g) \in SUBSET Bits
    BY <1>2, ProtIs, Zenon DEF SplitProt, w
  <2> QED
    BY <2>1, <2>2, <2>3, <2>4, <2>5, Zenon
<1>7. ASSUME NEW q \in Page \ Of(g) PROVE pte'[q] = pte[q] /\ q \div L # g /\ q \div L \in Group
  BY <1>3, PageIs, Zenon DEF Of
<1>8. ASSUME NEW q \in Page PROVE pte'[q] \in EntryType
  <2>1. CASE q \in Of(g)
    <3>1. /\ pte'[q] = [pfn |-> Frame[q], prot |-> SplitProt(r, q, g)]
          /\ SplitProt(r, q, g) \in SUBSET Bits /\ Frame[q] \in Int
      BY <1>6, <2>1
    <3> QED
      BY <3>1 DEF EntryType
  <2>2. CASE q \notin Of(g)
    BY <1>7, <2>2, Zenon DEF Inv, Types
  <2> QED
    BY <2>1, <2>2, Zenon
<1>9. pte' \in [Page -> EntryType]
  BY <1>3, <1>8, Zenon
<1>10. ASSUME NEW q \in Of(g) PROVE Entry(q)' = [pfn |-> Frame[q], prot |-> SplitProt(r, q, g)]
  BY <1>5, <1>6, Zenon DEF Entry
<1>11. ASSUME NEW q \in Page \ Of(g) PROVE Entry(q)' = Entry(q)
  BY <1>5, <1>7, Zenon DEF Entry
<1>12. Framed'
  <2>1. ASSUME NEW k \in Group, pmd'[k].large PROVE k \in Large /\ pmd'[k].e.pfn = Frame[k * L]
    BY <1>5, <2>1, Zenon DEF Inv, Framed
  <2>2. ASSUME NEW q \in Of(g)
        PROVE  pte'[q].pfn = Frame[q] /\ (Frame[q] = -1 => pte'[q] = Hole)
    <3>1. pte'[q] = [pfn |-> Frame[q], prot |-> SplitProt(r, q, g)] /\ Frame[q] \in Nat
      BY <1>6, Zenon
    <3> QED
      BY <3>1
  <2>3. ASSUME NEW q \in Page \ Of(g)
        PROVE  /\ ~pmd'[q \div L].large => pte'[q].pfn = Frame[q]
               /\ Frame[q] = -1 => pte'[q] = Hole
    BY <1>5, <1>7 DEF Inv, Framed
  <2> QED
    BY <2>1, <2>2, <2>3, Zenon DEF Framed
<1> QED
  BY <1>1, <1>5, <1>6, <1>9, <1>10, <1>11, <1>12, Zenon

(* The two cases of __split_large_page. *)
LEMMA SplitCases ==
  ASSUME Inv, NEW c \in Cpu, __split_large_page(c)
  PROVE  LET g == At(Top(c)) \div L
         IN  /\ pc[c] = "split" /\ cpa_lock = "free" /\ cpa_lock' = c /\ g \in Group
             /\ UNCHANGED <<tlb, cpa, ret, calls, lost>>
             /\ \/ ~pmd[g].large /\ Goto(c, "attr") /\ UNCHANGED <<pmd, pte, pend>>
                \/ /\ pmd[g].large /\ Splits(c, g) /\ pend' = [pend EXCEPT ![c] = Cpu]
                   /\ Goto(c, "split_flush")
<1> DEFINE g == At(Top(c)) \div L
<1>1. pc[c] = "split"
  BY Zenon DEF __split_large_page
<1>2. At(Top(c)) \in Page
  BY <1>1, TopIs, Zenon DEF Busy
<1>3. g \in Group
  BY <1>2, PageIs, Zenon
<1> QED
  BY <1>1, <1>3, Zenon DEF __split_large_page, Splits, At

LEMMA SplitInv == ASSUME Inv, NEW c \in Cpu, __split_large_page(c) PROVE Inv'
<1> DEFINE g == At(Top(c)) \div L
<1> DEFINE s == cpa[c]
<1>1. /\ pc[c] = "split" /\ cpa_lock = "free" /\ cpa_lock' = c /\ g \in Group
      /\ UNCHANGED <<tlb, cpa, ret>>
      /\ \/ ~pmd[g].large /\ Goto(c, "attr") /\ UNCHANGED <<pmd, pte, pend>>
         \/ /\ pmd[g].large /\ Splits(c, g) /\ pend' = [pend EXCEPT ![c] = Cpu]
            /\ Goto(c, "split_flush")
  BY SplitCases, Zenon
<1>2. s \in Seq(Rec) /\ Shape(s, "split", 0) /\ ret[c] = 0
  BY <1>1, TopIs, Zenon
<1>3. Shape(s, "attr", 0) /\ Shape(s, "split_flush", 0)
  BY <1>2, MoveShape, Zenon DEF Busy
<1>4. tlb' \in [Cpu -> SUBSET TlbType] /\ pend' \in [Cpu -> SUBSET Cpu]
  <2>1. pend \in [Cpu -> SUBSET Cpu] /\ tlb \in [Cpu -> SUBSET TlbType]
    BY Zenon DEF Inv, Types
  <2>2. pend' = pend \/ pend' = [pend EXCEPT ![c] = Cpu]
    BY <1>1, Zenon
  <2> QED
    BY <1>1, <2>1, <2>2
<1>5. cpa' = [cpa EXCEPT ![c] = s] /\ ret' = [ret EXCEPT ![c] = 0]
  BY <1>1, <1>2, Zenon DEF Inv, Types
<1> HIDE DEF s, g
<1>6. \A q : LockStep(c, q)
  BY <1>1, Zenon DEF LockStep
<1>7. CASE Goto(c, "attr") /\ UNCHANGED <<pmd, pte, pend>>
  <2>1. Moves(c, s, "attr", 0) /\ "attr" \in Code
    BY <1>5, <1>7, Zenon DEF Moves, Goto, Code
  <2> QED
    BY <1>2, <1>3, <1>4, <1>6, <1>7, <2>1, QuietInv
<1>8. CASE pmd[g].large /\ Splits(c, g) /\ Goto(c, "split_flush")
  <2>1. Moves(c, s, "split_flush", 0) /\ "split_flush" \in Code
    BY <1>5, <1>8, Zenon DEF Moves, Goto, Code
  <2>2. /\ Framed' /\ pmd' \in [Group -> [large : BOOLEAN, e : EntryType]]
        /\ pte' \in [Page -> EntryType]
    BY <1>1, <1>8, StoreSplit, Zenon
  <2> QED
    BY <1>2, <1>3, <1>4, <1>6, <2>1, <2>2, MovesInv
<1> QED
  BY <1>1, <1>7, <1>8, Zenon

(* A step that changes neither the stacks nor the tables. *)
LEMMA TlbInv ==
  ASSUME Inv, UNCHANGED <<pmd, pte, cpa_lock, cpa, ret, pc>>,
         tlb' \in [Cpu -> SUBSET TlbType], pend' \in [Cpu -> SUBSET Cpu]
  PROVE  Inv'
<1>1. Types' /\ LockInv' /\ Framed'
  BY Zenon DEF Inv, Types, LockInv, Framed
<1> QED
  BY <1>1, Zenon DEF Inv

(* A step of c within its stack. *)
LEMMA StayInv ==
  ASSUME Inv, NEW c, NEW q, c \in Cpu, pc[c] # "idle", q \in Code, Goto(c, q), UNCHANGED <<pmd, pte, cpa, ret>>,
         Shape(cpa[c], q, ret[c]), LockStep(c, q),
         tlb' \in [Cpu -> SUBSET TlbType], pend' \in [Cpu -> SUBSET Cpu]
  PROVE  Inv'
<1> DEFINE s == cpa[c]
<1> DEFINE v == ret[c]
<1>1. s \in Seq(Rec) /\ v \in Int /\ Shape(s, q, v) /\ Moves(c, s, q, v)
  BY Zenon DEF Moves, Goto, Inv, Types
<1> HIDE DEF s, v
<1> QED
  BY <1>1, QuietInv, Zenon

LEMMA SplitFlushInv == ASSUME Inv, NEW c \in Cpu, SplitFlush(c) PROVE Inv'
<1>1. /\ pc[c] = "split_flush" /\ UNCHANGED <<pmd, pte, cpa_lock, cpa, ret>>
      /\ tlb \in [Cpu -> SUBSET TlbType] /\ pend \in [Cpu -> SUBSET Cpu]
  BY Zenon DEF SplitFlush, Inv, Types
<1>2. CASE Goto(c, "attr") /\ UNCHANGED <<tlb, pend>>
  <2>1. Shape(cpa[c], "attr", ret[c]) /\ LockStep(c, "attr") /\ "attr" \in Code
    BY <1>1, TopIs, MoveShape, Zenon DEF Busy, LockStep, Held, Code
  <2> QED
    BY <1>1, <1>2, <2>1, StayInv, Zenon
<1>3. ASSUME NEW d \in pend[c], tlb' = [tlb EXCEPT ![d] = {}],
             pend' = [pend EXCEPT ![c] = @ \ {d}], UNCHANGED pc
      PROVE  Inv'
  <2>1. tlb' \in [Cpu -> SUBSET TlbType] /\ pend' \in [Cpu -> SUBSET Cpu]
    BY <1>1, <1>3, Zenon
  <2> QED
    BY <1>1, <1>3, <2>1, TlbInv, Zenon
<1> QED
  BY <1>2, <1>3, Zenon DEF SplitFlush

LEMMA AdjustInv == ASSUME Inv, NEW c \in Cpu, Adjust(c) PROVE Inv'
<1> DEFINE r == Top(c)
<1> DEFINE t == WithRest(r, r.rem - r.numpages, r.curpage + r.numpages)
<1> DEFINE s == [cpa[c] EXCEPT ![1] = t]
<1>1. /\ pc[c] = "adjust" /\ Goto(c, "loop") /\ UNCHANGED <<pmd, pte, tlb, cpa_lock, pend, ret>>
      /\ SetTop(c, [r EXCEPT !.rem = @ - r.numpages, !.curpage = @ + r.numpages])
  BY Zenon DEF Adjust
<1>2. /\ cpa[c] \in Seq(Rec) /\ Shape(cpa[c], "adjust", 0) /\ r = cpa[c][1] /\ r \in Rec
      /\ ret[c] = 0
  BY <1>1, TopIs, Zenon
<1>3. s \in Seq(Rec) /\ Shape(s, "loop", 0)
  BY <1>2, AdjustShape, Zenon
<1>4. SetTop(c, t)
  BY <1>1, <1>2, Zenon DEF WithRest, Rec
<1> HIDE DEF t
<1>5. Moves(c, s, "loop", 0)
  BY <1>1, <1>2, <1>4, Zenon DEF Moves, SetTop, Goto, Inv, Types
<1>6. /\ LockStep(c, "loop") /\ "loop" \in Code
      /\ tlb' \in [Cpu -> SUBSET TlbType] /\ pend' \in [Cpu -> SUBSET Cpu]
  BY <1>1, Zenon DEF LockStep, Held, Code, Inv, Types
<1> HIDE DEF s
<1> QED
  BY <1>1, <1>3, <1>5, <1>6, QuietInv

(* The call for the aliases is pushed by the step. *)
LEMMA PushInv ==
  ASSUME Inv, NEW c \in Cpu, pc[c] \in {"alias", "alias_high"}, Len(cpa[c]) = 1,
         Top(c).chk, NEW q \in Page, NEW b \in {"alias_high", "adjust"},
         \A i \in 0 .. Top(c).numpages - 1 :
             q + i \in Page /\ Frame[q + i] \in {-1, Frame[At(Top(c)) + i]},
         Push(c, Top(c), AliasOf(Top(c), q, b)), Goto(c, "loop"),
         UNCHANGED <<pmd, pte, tlb, cpa_lock, pend, ret>>
  PROVE  Inv'
<1> DEFINE s == <<AliasOf(Top(c), q, b), WithAll(Top(c))>>
<1>1. /\ cpa[c] \in Seq(Rec) /\ Shape(cpa[c], pc[c], 0) /\ Top(c) = cpa[c][1] /\ ret[c] = 0
  BY TopIs, Zenon
<1>2. s \in Seq(Rec) /\ Shape(s, "loop", 0)
  BY <1>1, PushShape, Zenon
<1>3. Moves(c, s, "loop", 0)
  BY <1>1, Zenon DEF Moves, Push, WithAll, Goto, Inv, Types
<1>4. /\ LockStep(c, "loop") /\ "loop" \in Code
      /\ tlb' \in [Cpu -> SUBSET TlbType] /\ pend' \in [Cpu -> SUBSET Cpu]
  BY Zenon DEF LockStep, Held, Code, Inv, Types
<1> HIDE DEF s
<1> QED
  BY <1>2, <1>3, <1>4, QuietInv

(* The outcomes of cpa_process_alias. *)
LEMMA AliasCases ==
  ASSUME Inv, NEW c \in Cpu, cpa_process_alias(c)
  PROVE  /\ pc[c] \in {"alias", "alias_high"} /\ UNCHANGED <<pmd, pte, tlb, cpa_lock, pend, ret, calls, lost>>
         /\ \/ Goto(c, "adjust") /\ UNCHANGED cpa
            \/ pc[c] = "alias" /\ Len(cpa[c]) = 1 /\ Top(c).chk /\ Goto(c, "alias_high") /\ UNCHANGED cpa
            \/ /\ Len(cpa[c]) = 1 /\ Top(c).chk /\ Goto(c, "loop")
               /\ \E q \in Page, b \in {"alias_high", "adjust"} :
                      /\ Push(c, Top(c), AliasOf(Top(c), q, b))
                      /\ \A i \in 0 .. Top(c).numpages - 1 :
                             q + i \in Page /\ Frame[q + i] \in {-1, Frame[At(Top(c)) + i]}
<1> DEFINE r == Top(c)
<1>1. pc[c] \in {"alias", "alias_high"} /\ UNCHANGED <<pmd, pte, tlb, cpa_lock, pend, ret, calls, lost>>
  BY Zenon DEF cpa_process_alias
<1>2. /\ r \in Rec /\ RecOK(r) /\ RoundOK(r) /\ Shape(cpa[c], pc[c], 0) /\ r = cpa[c][1]
      /\ Len(cpa[c]) \in {1, 2}
  BY <1>1, TopIs, Zenon DEF Busy
<1>3. RunOK(r)
  BY <1>1, <1>2, Zenon DEF Shape
<1>4. r.chk => Len(cpa[c]) = 1
  BY <1>1, <1>2, Zenon DEF Shape, AliasOK
<1>5. CASE pc[c] = "alias" /\ ~(~r.chk \/ r.pfn \notin Direct) /\ At(r) \notin Direct
  <2>1. Push(c, r, AliasOf(r, r.pfn, "alias_high")) /\ Goto(c, "loop")
    BY <1>5, Zenon DEF cpa_process_alias, At
  <2>2. r.pfn \in Page
    BY <1>5, SizeAssumption, Zenon
  <2>3. \A i \in 0 .. r.numpages - 1 : r.pfn + i \in Page /\ Frame[r.pfn + i] \in {-1, Frame[At(r) + i]}
    BY <1>2, <1>3, <1>5, DirectRun, Zenon
  <2> QED
    BY <1>1, <1>4, <1>5, <2>1, <2>2, <2>3, Zenon
<1>6. CASE pc[c] = "alias" /\ ~(~r.chk \/ r.pfn \notin Direct) /\ At(r) \in Direct
  BY <1>1, <1>4, <1>6, Zenon DEF cpa_process_alias, At
<1>7. CASE pc[c] = "alias" /\ (~r.chk \/ r.pfn \notin Direct)
  BY <1>1, <1>7, Zenon DEF cpa_process_alias, At
<1>8. CASE pc[c] = "alias_high" /\ (At(r) \in High \/ HighOf(r.pfn) = {})
  BY <1>1, <1>8, Zenon DEF cpa_process_alias, At
<1>9. CASE pc[c] = "alias_high" /\ ~(At(r) \in High \/ HighOf(r.pfn) = {})
  <2> DEFINE q == CHOOSE x \in HighOf(r.pfn) : TRUE
  <2>1. Push(c, r, AliasOf(r, q, "adjust")) /\ Goto(c, "loop")
    BY <1>9, Zenon DEF cpa_process_alias, At
  <2>2. q \in HighOf(r.pfn)
    BY <1>9, Zenon
  <2> HIDE DEF q
  <2>3. r.chk
    BY <1>2, <1>9, Zenon DEF Shape
  <2>4. /\ q \in Page
        /\ \A i \in 0 .. r.numpages - 1 : q + i \in Page /\ Frame[q + i] \in {-1, Frame[At(r) + i]}
    BY <1>2, <1>3, <2>2, <2>3, HighRun, Zenon
  <2> QED
    BY <1>1, <1>4, <2>1, <2>3, <2>4, Zenon
<1> QED
  BY <1>1, <1>5, <1>6, <1>7, <1>8, <1>9, Zenon

LEMMA AliasInv == ASSUME Inv, NEW c \in Cpu, cpa_process_alias(c) PROVE Inv'
<1>1. pc[c] \in {"alias", "alias_high"} /\ UNCHANGED <<pmd, pte, tlb, cpa_lock, pend, ret>>
  BY AliasCases, Zenon
<1>2. /\ cpa[c] \in Seq(Rec) /\ Shape(cpa[c], pc[c], 0) /\ Top(c) = cpa[c][1] /\ ret[c] = 0
  BY <1>1, TopIs, Zenon
<1>3. tlb' \in [Cpu -> SUBSET TlbType] /\ pend' \in [Cpu -> SUBSET Cpu]
  BY <1>1, Zenon DEF Inv, Types
<1>4. CASE Goto(c, "adjust") /\ UNCHANGED cpa
  <2>1. Shape(cpa[c], "adjust", ret[c]) /\ LockStep(c, "adjust") /\ "adjust" \in Code
    BY <1>1, <1>2, MoveShape, Zenon DEF Busy, LockStep, Held, Code
  <2> QED
    BY <1>1, <1>3, <1>4, <2>1, StayInv, Zenon
<1>5. CASE pc[c] = "alias" /\ Len(cpa[c]) = 1 /\ Top(c).chk /\ Goto(c, "alias_high") /\ UNCHANGED cpa
  <2>1. RunOK(cpa[c][1])
    BY <1>2, <1>5, Zenon DEF Shape
  <2>2. Shape(cpa[c], "alias_high", ret[c]) /\ LockStep(c, "alias_high") /\ "alias_high" \in Code
    BY <1>1, <1>2, <1>5, <2>1, MoveShape, Zenon DEF Busy, LockStep, Held, Code
  <2> QED
    BY <1>1, <1>3, <1>5, <2>2, StayInv, Zenon
<1> QED
  BY <1>1, <1>4, <1>5, AliasCases, PushInv, Zenon

(* The call returns. *)
LEMMA IdleInv ==
  ASSUME Inv, NEW c \in Cpu, Goto(c, "idle"), cpa' = [cpa EXCEPT ![c] = <<>>],
         UNCHANGED <<pmd, pte, tlb, cpa_lock, pend, ret>>
  PROVE  Inv'
<1> DEFINE s == <<>>
<1> DEFINE v == ret[c]
<1>1. s \in Seq(Rec) /\ Shape(s, "idle", v)
  BY DEF Shape
<1>2. v \in Int /\ Moves(c, s, "idle", v)
  BY Zenon DEF Moves, Goto, Inv, Types
<1>3. /\ LockStep(c, "idle") /\ "idle" \in Code
      /\ tlb' \in [Cpu -> SUBSET TlbType] /\ pend' \in [Cpu -> SUBSET Cpu]
  BY Zenon DEF LockStep, Held, Code, Inv, Types
<1> HIDE DEF s, v
<1> QED
  BY <1>1, <1>2, <1>3, QuietInv, Zenon

LEMMA DoneInv == ASSUME Inv, NEW c \in Cpu, Done(c) PROVE Inv'
<1>1. pc[c] = "done" /\ UNCHANGED <<pmd, pte, tlb, cpa_lock, ret>>
  BY Zenon DEF Done
<1>2. CASE Top(c).flushtlb
  <2>1. pend' = [pend EXCEPT ![c] = Cpu] /\ Goto(c, "flush") /\ UNCHANGED cpa
    BY <1>2, Zenon DEF Done
  <2>2. /\ LockStep(c, "flush") /\ "flush" \in Code
        /\ tlb' \in [Cpu -> SUBSET TlbType] /\ pend' \in [Cpu -> SUBSET Cpu]
    BY <1>1, <2>1, Zenon DEF LockStep, Held, Code, Inv, Types
  <2>3. Shape(cpa[c], "flush", ret[c])
    BY <1>1, TopIs, Zenon DEF Shape
  <2> QED
    BY <1>1, <2>1, <2>2, <2>3, StayInv, Zenon
<1>3. CASE ~Top(c).flushtlb
  BY <1>1, <1>3, IdleInv, Zenon DEF Done
<1> QED
  BY <1>2, <1>3, Zenon

LEMMA FlushInv == ASSUME Inv, NEW c \in Cpu, cpa_flush(c) PROVE Inv'
<1>1. /\ pc[c] = "flush" /\ UNCHANGED <<pmd, pte, cpa_lock, ret>>
      /\ tlb \in [Cpu -> SUBSET TlbType] /\ pend \in [Cpu -> SUBSET Cpu]
  BY Zenon DEF cpa_flush, Inv, Types
<1>2. CASE pend[c] = {}
  BY <1>1, <1>2, IdleInv, Zenon DEF cpa_flush
<1>3. CASE pend[c] # {}
  <2>1. PICK d \in pend[c] :
            /\ tlb' = [tlb EXCEPT ![d] = IF FlushesAll(c) THEN __cpa_flush_all(@)
                                         ELSE __cpa_flush_tlb(@, Top(c))]
            /\ pend' = [pend EXCEPT ![c] = @ \ {d}] /\ UNCHANGED <<pc, cpa>>
    BY <1>3, Zenon DEF cpa_flush
  <2>2. d \in Cpu /\ tlb[d] \in SUBSET TlbType
    BY <1>1, Zenon
  <2>3. (IF FlushesAll(c) THEN __cpa_flush_all(tlb[d]) ELSE __cpa_flush_tlb(tlb[d], Top(c)))
            \in SUBSET TlbType
    BY <2>2, Zenon DEF __cpa_flush_all, __cpa_flush_tlb
  <2>4. tlb' \in [Cpu -> SUBSET TlbType] /\ pend' \in [Cpu -> SUBSET Cpu]
    BY <1>1, <2>1, <2>2, <2>3, Zenon
  <2> QED
    BY <1>1, <2>1, <2>4, TlbInv, Zenon
<1> QED
  BY <1>2, <1>3, Zenon

(* The translation a CPU loads for page p. *)
Loaded(p) ==
    LET g == p \div L
    IN  IF pmd[g].large
        THEN [large |-> TRUE, at |-> g, pfn |-> pmd[g].e.pfn, prot |-> pmd[g].e.prot]
        ELSE [large |-> FALSE, at |-> p, pfn |-> pte[p].pfn, prot |-> pte[p].prot]

LEMMA LoadIs ==
  ASSUME Inv, NEW c \in Cpu, TlbLoad(c)
  PROVE  /\ UNCHANGED <<pmd, pte, cpa_lock, pc, cpa, pend, ret, calls, lost>>
         /\ \E p \in Page : tlb' = [tlb EXCEPT ![c] = @ \cup {Loaded(p)}] /\ Loaded(p) \in TlbType
<1>1. PICK p \in Loads[c] : tlb' = [tlb EXCEPT ![c] = @ \cup {Loaded(p)}]
  BY Zenon DEF TlbLoad, Loaded
<1>2. p \in Page
  BY SizeAssumption, Zenon
<1>3. /\ p \in Nat /\ p \div L \in Nat /\ p \div L \in Group /\ pmd[p \div L].e \in EntryType /\ pte[p] \in EntryType
  BY <1>2, PageIs, Zenon DEF Inv, Types
<1>4. Loaded(p) \in TlbType
  BY <1>2, <1>3, Zenon DEF Loaded, TlbType, EntryType
<1> QED
  BY <1>1, <1>2, <1>4, Zenon DEF TlbLoad

LEMMA LoadInv == ASSUME Inv, NEW c \in Cpu, TlbLoad(c) PROVE Inv'
<1>1. PICK p \in Page : tlb' = [tlb EXCEPT ![c] = @ \cup {Loaded(p)}] /\ Loaded(p) \in TlbType
  BY LoadIs, Zenon
<1>2. UNCHANGED <<pmd, pte, cpa_lock, pc, cpa, pend, ret>>
  BY LoadIs, Zenon
<1>3. tlb' \in [Cpu -> SUBSET TlbType] /\ pend' \in [Cpu -> SUBSET Cpu]
  BY <1>1, <1>2, Zenon DEF Inv, Types
<1> QED
  BY <1>2, <1>3, TlbInv, Zenon

LEMMA NextInv == Inv /\ [Next]_vars => Inv'
<1> SUFFICES ASSUME Inv, [Next]_vars PROVE Inv'
  BY Zenon
<1>1. CASE UNCHANGED vars
  BY <1>1, TlbInv, Zenon DEF vars, Inv, Types
<1>2. ASSUME NEW c \in Cpu, Call(c) \/ Step(c) \/ TlbLoad(c) PROVE Inv'
  BY <1>2, CallInv, LoopInv, AttrInv, AllocInv, SplitInv, SplitFlushInv, AliasInv,
     AdjustInv, DoneInv, FlushInv, LoadInv, Zenon DEF Step
<1> QED
  BY <1>1, <1>2, Zenon DEF Next

(* The stack of struct cpa_data of every call stays a call, or a call with the
   call for the aliases of its round: the round lies within the pages that are
   left, every page keeps its frame whatever is stored or split, and one CPU
   at a time is between taking and releasing cpa_lock. *)
THEOREM Invariant == Spec => []Inv
<1> QED
  BY InitInv, NextInv, PTL DEF Spec

(* The BUG_ON of __change_page_attr_set_clr never fires: also when another CPU
   splits the large page under the round, for holes and for aliases. *)
THEOREM AlwaysNumpagesOK == Spec => []NumpagesOK
<1>1. ASSUME Inv PROVE NumpagesOK
  <2>1. ASSUME NEW c \in Cpu, pc[c] = "adjust" PROVE Top(c).numpages \in 1 .. Top(c).rem
    BY <1>1, <2>1, TopIs, Zenon DEF Busy, RoundOK
  <2> QED
    BY <2>1, Zenon DEF NumpagesOK
<1> QED
  BY <1>1, Invariant, PTL

(***************************************************************************)
(* The steps of a CPU seen by the others.                                  *)
(***************************************************************************)

(* What another CPU has of its own. *)
Apart(c) ==
    \A d \in Cpu : d # c =>
        pc'[d] = pc[d] /\ cpa'[d] = cpa[d] /\ ret'[d] = ret[d] /\ pend'[d] = pend[d]

LEMMA MovesApart ==
  ASSUME Inv, NEW c \in Cpu,
         pc' = pc \/ \E q : Goto(c, q), cpa' = cpa \/ \E s : cpa' = [cpa EXCEPT ![c] = s],
         ret' = ret \/ \E v : ret' = [ret EXCEPT ![c] = v],
         pend' = pend \/ \E k : pend' = [pend EXCEPT ![c] = k]
  PROVE  Apart(c)
<1>1. \A d \in Cpu : d # c => pc'[d] = pc[d]
  BY Zenon DEF Goto, Inv, Types
<1>2. \A d \in Cpu : d # c => cpa'[d] = cpa[d]
  BY Zenon DEF Inv, Types
<1>3. \A d \in Cpu : d # c => ret'[d] = ret[d]
  BY Zenon DEF Inv, Types
<1>4. \A d \in Cpu : d # c => pend'[d] = pend[d]
  BY Zenon DEF Inv, Types
<1> QED
  BY <1>1, <1>2, <1>3, <1>4, Zenon DEF Apart

LEMMA TopSet ==
  ASSUME NEW c \in Cpu, NEW r, SetTop(c, r)
  PROVE  \E s : cpa' = [cpa EXCEPT ![c] = s]
  BY Zenon DEF SetTop

LEMMA FailSet ==
  ASSUME NEW c \in Cpu, NEW v, Fail(c, v)
  PROVE  /\ \E q : Goto(c, q) /\ \E s : cpa' = [cpa EXCEPT ![c] = s]
         /\ ret' = ret \/ \E w : ret' = [ret EXCEPT ![c] = w]
  BY Zenon DEF Fail

LEMMA AttrApart ==
  ASSUME Inv, NEW c \in Cpu, __change_page_attr(c)
  PROVE  Apart(c) /\ UNCHANGED <<tlb, pend, calls>>
<1> DEFINE p == At(Top(c))
<1>1. /\ pc[c] = "attr" /\ UNCHANGED <<tlb, pend, calls>>
      /\ IF Entry(p) = Hole THEN __cpa_process_fault(c, p)
         ELSE IF pmd[p \div L].large THEN ChangeLarge(c, p) ELSE Change4K(c, p)
  BY Zenon DEF __change_page_attr, At
<1> HIDE DEF p
<1>2. CASE __cpa_process_fault(c, p)
  <2>1. CASE Fail(c, -14)
    BY <1>1, <2>1, FailSet, MovesApart, Zenon
  <2>2. CASE \E r : SetTop(c, r) /\ Goto(c, "alias") /\ UNCHANGED ret
    BY <1>1, <2>2, TopSet, MovesApart, Zenon
  <2> QED
    BY <1>2, <2>1, <2>2, <1>1, Zenon DEF __cpa_process_fault
<1>3. CASE Entry(p) # Hole /\ pmd[p \div L].large /\ ChangeLarge(c, p)
  <2>1. PICK t : ToSplit(c, t) \/ StaysAs(c, p, t) \/ AsWhole(c, p, t)
    BY <1>1, <1>3, LargeCases, Zenon DEF p
  <2>2. ret' = ret
    BY <1>1, <1>3, LargeCases, Zenon DEF p
  <2>3. SetTop(c, t) /\ \E q : Goto(c, q)
    BY <2>1, Zenon DEF ToSplit, StaysAs, AsWhole, LargeTop
  <2> QED
    BY <1>1, <2>2, <2>3, TopSet, MovesApart, Zenon
<1>4. CASE Change4K(c, p)
  <2>1. (\E r : SetTop(c, r)) /\ Goto(c, "alias") /\ UNCHANGED ret
    BY <1>4, Zenon DEF Change4K
  <2> QED
    BY <1>1, <2>1, TopSet, MovesApart, Zenon
<1> QED
  BY <1>1, <1>2, <1>3, <1>4, Zenon

LEMMA StepApart == ASSUME Inv, NEW c \in Cpu, Call(c) \/ Step(c) PROVE Apart(c)
<1>1. CASE Call(c)
  BY <1>1, MovesApart, Zenon DEF Call
<1>2. CASE Loop(c)
  BY <1>2, TopSet, MovesApart, Zenon DEF Loop
<1>3. CASE __change_page_attr(c)
  BY <1>3, AttrApart, Zenon
<1>4. CASE Alloc(c)
  BY <1>4, FailSet, MovesApart, Zenon DEF Alloc
<1>5. CASE __split_large_page(c)
  BY <1>5, MovesApart, Zenon DEF __split_large_page
<1>6. CASE SplitFlush(c)
  BY <1>6, MovesApart, Zenon DEF SplitFlush
<1>7. CASE cpa_process_alias(c)
  BY <1>7, MovesApart, Zenon DEF cpa_process_alias, Push
<1>8. CASE Adjust(c)
  BY <1>8, TopSet, MovesApart, Zenon DEF Adjust
<1>9. CASE Done(c)
  BY <1>9, MovesApart, Zenon DEF Done
<1>10. CASE cpa_flush(c)
  BY <1>10, MovesApart, Zenon DEF cpa_flush
<1> QED
  BY <1>1, <1>2, <1>3, <1>4, <1>5, <1>6, <1>7, <1>8, <1>9, <1>10, Zenon DEF Step

(***************************************************************************)
(* No large translation is left once a split has been flushed.             *)
(***************************************************************************)

LEMMA AttrLarge ==
  ASSUME Inv, NEW c \in Cpu, __change_page_attr(c), NEW g \in Group
  PROVE  pmd'[g].large = pmd[g].large
<1> DEFINE p == At(Top(c))
<1>1. /\ pc[c] = "attr"
      /\ IF Entry(p) = Hole THEN __cpa_process_fault(c, p)
         ELSE IF pmd[p \div L].large THEN ChangeLarge(c, p) ELSE Change4K(c, p)
  BY Zenon DEF __change_page_attr, At
<1>2. p \in Page /\ p \div L \in Group
  BY <1>1, AttrIs, PageIs, Zenon
<1> HIDE DEF p
<1>3. CASE Entry(p) # Hole /\ pmd[p \div L].large /\ ChangeLarge(c, p)
  <2>1. PICK t : ToSplit(c, t) \/ StaysAs(c, p, t) \/ AsWhole(c, p, t)
    BY <1>1, <1>3, LargeCases, Zenon DEF p
  <2>2. pte' = pte
    BY <1>1, <1>3, LargeCases, Zenon DEF p
  <2>3. CASE AsWhole(c, p, t)
    BY <1>1, <1>2, <1>3, <2>2, <2>3, WantedIs, StoreLarge, Zenon DEF AsWhole
  <2> QED
    BY <2>1, <2>3, Zenon DEF ToSplit, StaysAs
<1>4. CASE UNCHANGED pmd
  BY <1>4, Zenon
<1> QED
  BY <1>1, <1>3, <1>4, Zenon DEF __cpa_process_fault, Change4K

(* What else keeps NoLargeLeft: c is not flushing after a split. *)
LEMMA KeepsNoLarge ==
  ASSUME Inv, NoLargeLeft, NEW c \in Cpu, pc[c] # "split_flush", Apart(c),
         \A g \in Group : pmd'[g].large = pmd[g].large,
         \A d \in Cpu : tlb'[d] \subseteq tlb[d]
  PROVE  NoLargeLeft'
<1> SUFFICES ASSUME NEW d \in Cpu, NEW e \in tlb'[d], e.large, ~pmd'[e.at].large
             PROVE  \E k \in Cpu : pc'[k] = "split_flush" /\ d \in pend'[k]
  BY Zenon DEF NoLargeLeft
<1>1. e \in tlb[d] /\ e \in TlbType
  BY Zenon DEF Inv, Types
<1>2. e.at \in Group
  BY <1>1, Zenon DEF TlbType
<1>3. PICK k \in Cpu : pc[k] = "split_flush" /\ d \in pend[k]
  BY <1>1, <1>2, Zenon DEF NoLargeLeft
<1>4. pc'[k] = "split_flush" /\ d \in pend'[k]
  BY <1>3, Zenon DEF Apart
<1> QED
  BY <1>4, Zenon

LEMMA NoLargeStep ==
  ASSUME Inv, NoLargeLeft, NEW c \in Cpu, Call(c) \/ Step(c) \/ TlbLoad(c)
  PROVE  NoLargeLeft'
<1>1. ASSUME __split_large_page(c) PROVE NoLargeLeft'
  <2> DEFINE g == At(Top(c)) \div L
  <2>1. /\ pc[c] = "split" /\ cpa_lock = "free" /\ g \in Group /\ UNCHANGED <<tlb, cpa, ret>>
        /\ \/ ~pmd[g].large /\ Goto(c, "attr") /\ UNCHANGED <<pmd, pte, pend>>
           \/ /\ pmd[g].large /\ Splits(c, g) /\ pend' = [pend EXCEPT ![c] = Cpu]
              /\ Goto(c, "split_flush")
    BY <1>1, SplitCases, Zenon
  <2>2. Apart(c)
    BY <1>1, StepApart, Zenon DEF Step
  <2> HIDE DEF g
  <2>3. CASE UNCHANGED pmd
    BY <2>1, <2>2, <2>3, KeepsNoLarge, Zenon
  <2>4. CASE pend' = [pend EXCEPT ![c] = Cpu] /\ Goto(c, "split_flush")
    <3>1. pc'[c] = "split_flush" /\ pend'[c] = Cpu
      BY <2>4, Zenon DEF Goto, Inv, Types
    <3> QED
      BY <3>1, Zenon DEF NoLargeLeft
  <2> QED
    BY <2>1, <2>3, <2>4, Zenon
<1>2. ASSUME SplitFlush(c) PROVE NoLargeLeft'
  <2>1. pc[c] = "split_flush" /\ UNCHANGED <<pmd, pte, cpa_lock, cpa, ret>> /\ Apart(c)
    BY <1>2, StepApart, Zenon DEF SplitFlush, Step
  <2> SUFFICES ASSUME NEW d \in Cpu, NEW e \in tlb'[d], e.large, ~pmd'[e.at].large
               PROVE  \E k \in Cpu : pc'[k] = "split_flush" /\ d \in pend'[k]
    BY Zenon DEF NoLargeLeft
  <2>2. CASE pend[c] = {} /\ Goto(c, "attr") /\ UNCHANGED <<tlb, pend>>
    <3>1. PICK k \in Cpu : pc[k] = "split_flush" /\ d \in pend[k]
      BY <2>1, <2>2, Zenon DEF NoLargeLeft
    <3> QED
      BY <2>1, <2>2, <3>1, Zenon DEF Apart
  <2>3. ASSUME NEW x \in pend[c], tlb' = [tlb EXCEPT ![x] = {}],
               pend' = [pend EXCEPT ![c] = @ \ {x}], UNCHANGED pc
        PROVE  \E k \in Cpu : pc'[k] = "split_flush" /\ d \in pend'[k]
    <3>1. d # x /\ e \in tlb[d]
      BY <2>3, Zenon DEF Inv, Types
    <3>2. PICK k \in Cpu : pc[k] = "split_flush" /\ d \in pend[k]
      BY <2>1, <3>1, Zenon DEF NoLargeLeft
    <3>3. d \in pend'[k]
      BY <2>3, <3>1, <3>2, Zenon DEF Inv, Types
    <3> QED
      BY <2>3, <3>2, <3>3, Zenon
  <2> QED
    BY <1>2, <2>2, <2>3, Zenon DEF SplitFlush
<1>3. ASSUME TlbLoad(c) PROVE NoLargeLeft'
  <2>1. PICK p \in Page : tlb' = [tlb EXCEPT ![c] = @ \cup {Loaded(p)}]
    BY <1>3, LoadIs, Zenon
  <2>2. UNCHANGED <<pmd, pte, pc, pend>>
    BY <1>3, LoadIs, Zenon
  <2> SUFFICES ASSUME NEW d \in Cpu, NEW e \in tlb'[d], e.large, ~pmd[e.at].large
               PROVE  \E k \in Cpu : pc[k] = "split_flush" /\ d \in pend[k]
    BY <2>2, Zenon DEF NoLargeLeft
  <2>3. Loaded(p).large => pmd[Loaded(p).at].large
    BY Zenon DEF Loaded
  <2>4. e \in tlb[d]
    BY <2>1, <2>3, Zenon DEF Inv, Types
  <2> QED
    BY <2>4, Zenon DEF NoLargeLeft
<1>4. ASSUME __change_page_attr(c) PROVE NoLargeLeft'
  <2>1. pc[c] # "split_flush"
    BY <1>4, Zenon DEF __change_page_attr
  <2> QED
    BY <1>4, <2>1, AttrApart, AttrLarge, KeepsNoLarge, Zenon
<1>5. ASSUME cpa_flush(c) PROVE NoLargeLeft'
  <2>1. pc[c] # "split_flush" /\ UNCHANGED pmd /\ Apart(c)
    BY <1>5, StepApart, Zenon DEF cpa_flush, Step
  <2>2. \A d \in Cpu : tlb'[d] \subseteq tlb[d]
    BY <1>5, Zenon DEF cpa_flush, __cpa_flush_all, __cpa_flush_tlb, Inv, Types
  <2> QED
    BY <2>1, <2>2, KeepsNoLarge, Zenon
<1>6. ASSUME Call(c) \/ Loop(c) \/ Alloc(c) \/ cpa_process_alias(c) \/ Adjust(c) \/ Done(c)
      PROVE  NoLargeLeft'
  <2>1. pc[c] # "split_flush" /\ UNCHANGED <<pmd, tlb>>
    BY <1>6, Zenon DEF Call, Loop, Alloc, cpa_process_alias, Adjust, Done
  <2>2. Apart(c)
    BY <1>6, StepApart, Zenon DEF Step
  <2> QED
    BY <2>1, <2>2, KeepsNoLarge, Zenon
<1> QED
  BY <1>1, <1>2, <1>3, <1>4, <1>5, <1>6, Zenon DEF Step

(* However many CPUs split, change and load at the same time: a large translation
   is left on a CPU only while the CPU that split the page, still inside
   cpa_lock, has to flush it. *)
THEOREM AlwaysNoLargeLeft == Spec => []NoLargeLeft
<1>1. Init => NoLargeLeft
  BY Zenon DEF Init, NoLargeLeft
<1>2. ASSUME Inv, NoLargeLeft, [Next]_vars PROVE NoLargeLeft'
  <2>1. CASE UNCHANGED vars
    BY <1>2, <2>1, Zenon DEF vars, NoLargeLeft
  <2> QED
    BY <1>2, <2>1, NoLargeStep, Zenon DEF Next
<1> QED
  BY <1>1, <1>2, Invariant, PTL DEF Spec

(***************************************************************************)
(* The record of the call itself.                                          *)
(***************************************************************************)

LEMMA TopBottom ==
  ASSUME Inv, NEW c \in Cpu, pc[c] # "idle", NEW t, t \in Rec, SetTop(c, t)
  PROVE  /\ Len(cpa'[c]) = Len(cpa[c]) /\ Top(c)' = t
         /\ Len(cpa[c]) = 1 => Bottom(c)' = t /\ Bottom(c) = Top(c)
         /\ Len(cpa[c]) = 2 => Bottom(c)' = Bottom(c) /\ Bottom(c) = cpa[c][2]
<1>1. cpa[c] \in Seq(Rec) /\ Len(cpa[c]) \in {1, 2}
  BY TopIs, Zenon
<1>2. cpa'[c] = [cpa[c] EXCEPT ![1] = t]
  BY Zenon DEF SetTop, Inv, Types
<1> DEFINE u == [cpa[c] EXCEPT ![1] = t]
<1>3. Len(u) = Len(cpa[c]) /\ u[1] = t /\ (Len(cpa[c]) = 2 => u[2] = cpa[c][2])
  BY <1>1, NewTop, Zenon
<1> HIDE DEF u
<1> QED
  BY <1>1, <1>2, <1>3, Zenon DEF Bottom, Top, u

LEMMA FailBottom ==
  ASSUME Inv, NEW c \in Cpu, pc[c] \in {"attr", "alloc"}, NEW v, Fail(c, v)
  PROVE  /\ Len(cpa'[c]) = 1 /\ Bottom(c)' = Bottom(c)
         /\ \/ pc'[c] = "adjust" /\ ret' = ret /\ Len(cpa[c]) = 2
            \/ pc'[c] = "done" /\ ret' = [ret EXCEPT ![c] = v]
<1>1. cpa[c] \in Seq(Rec) /\ Len(cpa[c]) \in {1, 2} /\ Shape(cpa[c], pc[c], 0) /\ Top(c) = cpa[c][1]
  BY TopIs, Zenon
<1>2. cpa \in [Cpu -> Seq(Rec)] /\ pc \in [Cpu -> Code]
  BY Zenon DEF Inv, Types
<1>3. CASE Top(c).back = "adjust"
  <2>1. Len(cpa[c]) = 2
    BY <1>1, <1>3, Zenon DEF Shape, BaseOK
  <2>2. Len(Tail(cpa[c])) = 1 /\ Tail(cpa[c])[1] = cpa[c][2]
    BY <1>1, <2>1
  <2>3. cpa'[c] = Tail(cpa[c]) /\ pc'[c] = "adjust" /\ ret' = ret
    BY <1>2, <1>3, Zenon DEF Fail, Goto
  <2> QED
    BY <2>1, <2>2, <2>3, Zenon DEF Bottom
<1>4. CASE Top(c).back # "adjust"
  <2>1. cpa'[c] = <<cpa[c][Len(cpa[c])]>> /\ pc'[c] = "done" /\ ret' = [ret EXCEPT ![c] = v]
    BY <1>2, <1>4, Zenon DEF Fail, Goto
  <2> QED
    BY <2>1 DEF Bottom
<1> QED
  BY <1>3, <1>4, Zenon

(* Loop, with the call left as it is. *)
LEMMA LoopBottom ==
  ASSUME Inv, NEW c \in Cpu, Loop(c)
  PROVE  /\ pc[c] = "loop" /\ UNCHANGED <<pmd, pte, tlb, pend, ret, calls, lost>>
         /\ Same(Bottom(c), Bottom(c)') /\ Bottom(c)'.curpage = Bottom(c).curpage
         /\ \/ Len(cpa'[c]) = Len(cpa[c]) /\ pc'[c] = "attr"
               /\ (Len(cpa[c]) = 2 => Bottom(c)' = Bottom(c))
            \/ Len(cpa[c]) = 1 /\ cpa' = cpa /\ pc'[c] = "done"
            \/ /\ Len(cpa[c]) = 2 /\ Len(cpa'[c]) = 1 /\ Bottom(c)' = Bottom(c)
               /\ pc'[c] \in {"alias_high", "adjust"}
<1> DEFINE r == Top(c)
<1>1. pc[c] = "loop" /\ UNCHANGED <<pmd, pte, tlb, pend, ret, calls, lost>>
  BY Zenon DEF Loop
<1>2. /\ cpa[c] \in Seq(Rec) /\ Shape(cpa[c], "loop", 0) /\ Len(cpa[c]) \in {1, 2}
      /\ r = cpa[c][1] /\ r \in Rec /\ Bottom(c) \in Rec
  BY <1>1, TopIs, Zenon
<1>3. pc \in [Cpu -> Code] /\ cpa \in [Cpu -> Seq(Rec)] /\ Same(Bottom(c), Bottom(c))
  BY Zenon DEF Inv, Types, Same
<1>4. CASE r.rem > 0
  <2> DEFINE n == IF r.array THEN 1 ELSE r.rem
  <2> DEFINE t == WithPages(r, n)
  <2>1. n \in Nat
    BY <1>2, RecIs, Zenon
  <2>2. SameRound(r, t)
    BY <1>2, <2>1, PagesRec, Zenon
  <2>3. SetTop(c, t) /\ pc'[c] = "attr"
    BY <1>3, <1>4, Zenon DEF Loop, WithPages, Goto
  <2> HIDE DEF t
  <2> QED
    BY <1>1, <1>2, <1>3, <2>2, <2>3, TopBottom, Zenon DEF SameRound
<1>5. CASE ~(r.rem > 0)
  <2>1. /\ pc'[c] = r.back
        /\ cpa' = IF Len(cpa[c]) = 1 THEN cpa ELSE [cpa EXCEPT ![c] = Tail(@)]
    BY <1>3, <1>5, Zenon DEF Loop, Goto
  <2>2. CASE Len(cpa[c]) = 1
    <3>1. r.back = "done"
      BY <1>2, <2>2, Zenon DEF Shape, BaseOK
    <3> QED
      BY <1>1, <1>3, <2>1, <2>2, <3>1, Zenon DEF Bottom
  <2>3. CASE Len(cpa[c]) = 2
    <3>1. Len(Tail(cpa[c])) = 1 /\ Tail(cpa[c])[1] = cpa[c][2] /\ r.back \in {"alias_high", "adjust"}
      BY <1>2, <2>3, PopShape, Zenon DEF Code
    <3>2. cpa'[c] = Tail(cpa[c])
      BY <1>3, <2>1, <2>3
    <3> QED
      BY <1>1, <1>3, <2>1, <2>3, <3>1, <3>2, Zenon DEF Bottom
  <2> QED
    BY <1>2, <2>2, <2>3, Zenon
<1> QED
  BY <1>4, <1>5, Zenon

LEMMA AliasBottom ==
  ASSUME Inv, NEW c \in Cpu, cpa_process_alias(c)
  PROVE  /\ Same(Bottom(c), Bottom(c)') /\ Bottom(c)'.curpage = Bottom(c).curpage
         /\ Bottom(c)'.numpages = Bottom(c).numpages
         /\ \/ pc'[c] \in {"adjust", "alias_high"} /\ cpa' = cpa
            \/ pc'[c] = "loop" /\ Len(cpa[c]) = 1 /\ Len(cpa'[c]) = 2
<1>1. pc[c] \in {"alias", "alias_high"}
  BY AliasCases, Zenon
<1>2. Top(c) \in Rec /\ Bottom(c) = cpa[c][Len(cpa[c])] /\ Top(c) = cpa[c][1]
  BY <1>1, TopIs, Zenon
<1>3. pc \in [Cpu -> Code] /\ cpa \in [Cpu -> Seq(Rec)] /\ Same(Bottom(c), Bottom(c))
  BY Zenon DEF Inv, Types, Same
<1>4. CASE cpa' = cpa /\ (Goto(c, "adjust") \/ Goto(c, "alias_high"))
  BY <1>3, <1>4, Zenon DEF Bottom, Goto
<1>5. ASSUME NEW a, Len(cpa[c]) = 1, Goto(c, "loop"), Push(c, Top(c), a)
      PROVE  /\ Same(Bottom(c), Bottom(c)') /\ Bottom(c)'.curpage = Bottom(c).curpage
             /\ Bottom(c)'.numpages = Bottom(c).numpages
             /\ pc'[c] = "loop" /\ Len(cpa[c]) = 1 /\ Len(cpa'[c]) = 2
  <2>1. cpa'[c] = <<a, WithAll(Top(c))>> /\ pc'[c] = "loop"
    BY <1>3, <1>5, Zenon DEF Push, WithAll, Goto
  <2>2. Len(cpa'[c]) = 2 /\ Bottom(c)' = WithAll(Top(c))
    <3> DEFINE w == WithAll(Top(c))
    <3>1. cpa'[c] = <<a, w>>
      BY <2>1, Zenon
    <3> HIDE DEF w
    <3>2. Len(cpa'[c]) = 2 /\ cpa'[c][2] = w
      BY <3>1
    <3> QED
      BY <3>2, Zenon DEF Bottom, w
  <2>3. SameRound(Top(c), WithAll(Top(c))) /\ WithAll(Top(c)).numpages = Top(c).numpages
    BY <1>2, AllRec, Zenon
  <2>4. Bottom(c) = Top(c)
    BY <1>2, <1>5, Zenon
  <2> QED
    BY <1>5, <2>1, <2>2, <2>3, <2>4, Zenon DEF SameRound
<1> QED
  BY <1>4, <1>5, AliasCases, Zenon

LEMMA AdjustBottom ==
  ASSUME Inv, NEW c \in Cpu, Adjust(c)
  PROVE  /\ Same(Bottom(c), Bottom(c)') /\ Len(cpa'[c]) = Len(cpa[c]) /\ pc'[c] = "loop"
         /\ Len(cpa[c]) = 1 => Bottom(c)'.curpage = Bottom(c).curpage + Bottom(c).numpages
         /\ Len(cpa[c]) = 2 => Bottom(c)' = Bottom(c)
<1> DEFINE r == Top(c)
<1> DEFINE m == r.rem - r.numpages
<1> DEFINE k == r.curpage + r.numpages
<1> DEFINE t == WithRest(r, m, k)
<1>1. pc[c] = "adjust" /\ Goto(c, "loop")
  BY Zenon DEF Adjust
<1>2. r \in Rec /\ RoundOK(r) /\ Len(cpa[c]) \in {1, 2}
  BY <1>1, TopIs, Zenon DEF Busy
<1>3. m \in Nat /\ k \in Nat
  <2>1. /\ r.rem \in Nat /\ r.numpages \in Nat /\ r.numpages <= r.rem /\ r.curpage \in Nat
    BY <1>2, OnePage, RecIs, Zenon
  <2> QED
    BY <2>1
<1>4. SetTop(c, t)
  BY <1>2, Zenon DEF Adjust, WithRest, Rec
<1>5. t \in Rec /\ Same(r, t) /\ t.curpage = r.curpage + r.numpages
  <2> HIDE DEF m
  <2>1. t \in Rec /\ Same(r, t) /\ t.curpage = k
    <3> HIDE DEF k
    <3> QED
      BY <1>2, <1>3, RestRec
  <2> QED
    BY <2>1, Zenon
<1> HIDE DEF t
<1>6. pc'[c] = "loop" /\ Same(Bottom(c), Bottom(c))
  BY <1>1, Zenon DEF Goto, Inv, Types, Same
<1> QED
  BY <1>1, <1>2, <1>4, <1>5, <1>6, TopBottom, Zenon

(***************************************************************************)
(* What the stores make of the bits.                                       *)
(***************************************************************************)

(* The bits page q need not get, as in the refinement. *)
Kept(q) ==
    protect_kernel_text({q}) \cup protect_pci_bios({Frame[q]}) \cup protect_rodata({Frame[q]})
        \cup (IF q \in TextRo THEN {"RW"} ELSE {})

(* Page q with bits prot has the protections it must have. *)
Safe(q, prot) ==
    "P" \in prot => prot \cap (protect_kernel_text({q}) \cup protect_rodata({Frame[q]})) = {}

LEMMA ProtectIs ==
  ASSUME NEW S, NEW F
  PROVE  /\ protect_kernel_text(S) \subseteq {"NX"} /\ protect_pci_bios(F) \subseteq {"NX"}
         /\ protect_rodata(F) \subseteq {"RW"}
         /\ \A p : protect_kernel_text_ro(p, S) \subseteq {"RW"}
  BY Zenon DEF protect_kernel_text, protect_pci_bios, protect_rodata, protect_kernel_text_ro

(* static_protections for one page. *)
LEMMA StaticOne ==
  ASSUME NEW prot \in SUBSET Bits, NEW q \in Page
  PROVE  LET n == static_protections(prot, q, Frame[q], 1, FALSE)
         IN  /\ n \subseteq prot /\ prot \ n \subseteq Kept(q) /\ ("P" \in n <=> "P" \in prot)
             /\ Safe(q, n)
<1> DEFINE n == static_protections(prot, q, Frame[q], 1, FALSE)
<1>1. q .. q + 1 - 1 = {q} /\ Frame[q] .. Frame[q] + 1 - 1 = {Frame[q]}
  BY PageIs
<1> DEFINE ro == protect_kernel_text_ro(q, {q})
<1>2. n = IF "P" \notin prot THEN prot
          ELSE prot \ (protect_kernel_text({q}) \cup protect_pci_bios({Frame[q]})
                       \cup protect_rodata({Frame[q]}) \cup ro)
  BY <1>1, Zenon DEF static_protections
<1>3. ro \subseteq IF q \in TextRo THEN {"RW"} ELSE {}
  BY Zenon DEF protect_kernel_text_ro
<1> HIDE DEF n, ro
<1>4. "P" \in n <=> "P" \in prot
  BY <1>2, <1>3, ProtectIs, Zenon
<1>5. n \subseteq prot /\ prot \ n \subseteq Kept(q)
  BY <1>2, <1>3, Zenon DEF Kept
<1>6. Safe(q, n)
  BY <1>2, <1>4, Zenon DEF Safe
<1> QED
  BY <1>4, <1>5, <1>6, Zenon DEF n

LEMMA ClearIs ==
  ASSUME NEW prot
  PROVE  LET n == pgprot_clear_protnone_bits(prot)
         IN  /\ n \subseteq prot /\ prot \ n \subseteq {"G"} /\ ("P" \in n <=> "P" \in prot)
             /\ \A q : Safe(q, prot) => Safe(q, n)
             /\ \A m : m \subseteq prot /\ ("P" \in m <=> "P" \in prot) =>
                    /\ pgprot_clear_protnone_bits(m) \subseteq n
                    /\ n \ pgprot_clear_protnone_bits(m) \subseteq prot \ m
  BY Zenon DEF pgprot_clear_protnone_bits, Safe

(* It keeps what is within, and what is safe. *)
LEMMA ClearWithin ==
  ASSUME NEW prot, NEW m, m \subseteq prot, "P" \in m <=> "P" \in prot
  PROVE  /\ pgprot_clear_protnone_bits(m) \subseteq pgprot_clear_protnone_bits(prot)
         /\ pgprot_clear_protnone_bits(prot) \ pgprot_clear_protnone_bits(m) \subseteq prot \ m
  BY Zenon DEF pgprot_clear_protnone_bits

LEMMA ClearSafe ==
  ASSUME NEW q, NEW prot, Safe(q, prot)
  PROVE  Safe(q, pgprot_clear_protnone_bits(prot))
  BY Zenon DEF pgprot_clear_protnone_bits, Safe

LEMMA InRun == ASSUME NEW a, NEW n, NEW k, a \in Nat, n \in Nat, k \in 0 .. n - 1
               PROVE  a + k \in a .. a + n - 1
  OBVIOUS

(* What holds for a whole large page holds for each of its pages. *)
LEMMA LimitedSafe ==
  ASSUME Inv, NEW g \in Group, pmd[g].large, NEW prot, Limited(g, prot) = prot, NEW q \in Of(g)
  PROVE  Safe(q, prot)
<1> DEFINE S == g * L .. g * L + L - 1
<1> DEFINE F == pmd[g].e.pfn .. pmd[g].e.pfn + L - 1
<1>1. g \in Large /\ pmd[g].e.pfn = Frame[g * L]
  BY Zenon DEF Inv, Framed
<1>2. q \in S
  <2>1. q \in Page /\ q \div L = g
    BY Zenon DEF Of
  <2>2. q = g * L + (q % L) /\ q % L \in 0 .. L - 1 /\ g * L \in Nat /\ L \in Nat
    BY <1>1, <2>1, PageIs, LargeIs, SizeAssumption, Zenon
  <2> QED
    BY <2>2, InRun, Zenon
<1>3. Frame[q] \in F
  <2>1. q \in Page /\ Frame[q] = Frame[g * L] + (q % L) /\ Frame[g * L] \in Nat
    BY <1>1, LargeIs, Zenon
  <2>2. q % L \in 0 .. L - 1 /\ L \in Nat
    BY <2>1, PageIs, SizeAssumption, Zenon
  <2> QED
    BY <1>1, <2>1, <2>2, InRun, Zenon
<1>4. Limited(g, prot) = IF "P" \notin prot THEN prot
                         ELSE prot \ (protect_kernel_text(S) \cup protect_pci_bios(F)
                                      \cup protect_rodata(F) \cup {})
  BY Zenon DEF Limited, static_protections
<1> HIDE DEF S, F
<1>5. protect_kernel_text({q}) \subseteq protect_kernel_text(S)
  BY <1>2, Zenon DEF protect_kernel_text
<1>6. protect_rodata({Frame[q]}) \subseteq protect_rodata(F)
  BY <1>3, Zenon DEF protect_rodata
<1> QED
  BY <1>4, <1>5, <1>6, Zenon DEF Safe

(* Page q has what the record r asks for, less what it need not get. *)
Settled(r, q) ==
    LET want == pgprot_clear_protnone_bits(Requested(r, Entry(q).prot))
    IN  IF Entry(q) = Hole THEN Entry(q)' = Hole
        ELSE /\ Entry(q)'.pfn = Entry(q).pfn /\ Entry(q)'.prot \subseteq want
             /\ want \ Entry(q)'.prot \subseteq Kept(q) /\ Safe(q, Entry(q)'.prot)

(* The round is done, with the record t; p is its first page. *)
RoundDone(c, p, t) ==
    /\ SetTop(c, t) /\ SameRound(Top(c), t) /\ RoundOK(t) /\ Goto(c, "alias") /\ ret' = ret
    /\ \A i \in 0 .. t.numpages - 1 : Settled(Top(c), p + i)
    /\ \A q \in Page : Entry(q)' # Entry(q) =>
           t.flushtlb /\ \E i \in 0 .. t.numpages - 1 : q = p + i

LEMMA Done4K ==
  ASSUME Inv, NEW c \in Cpu, pc[c] = "attr", NEW p, p = At(Top(c)), Entry(p) # Hole,
         ~pmd[p \div L].large, Change4K(c, p)
  PROVE  \E t : RoundDone(c, p, t)
<1> DEFINE r == Top(c)
<1> DEFINE b == r.flushtlb \/ Entry(p)' # Entry(p)
<1> DEFINE t == WithStore(r, Frame[p], b)
<1> DEFINE ask == Requested(r, pte[p].prot)
<1> DEFINE want == static_protections(ask, p, Frame[p], 1, FALSE)
<1> DEFINE new == pgprot_clear_protnone_bits(want)
<1>1. r \in Rec /\ RoundOK(r) /\ p \in Page /\ p \in Nat
  BY AttrIs, PageIs, Zenon
<1>2. Frame[p] \in Int /\ 1 \in 1 .. r.rem
  <2>1. Frame[p] \in Nat \cup {-1} /\ 1 \in 1 .. r.rem
    BY <1>1, OnePage, PageIs, Zenon
  <2> QED
    BY <2>1
<1>3. /\ SetTop(c, t) /\ Entry(p) = pte[p] /\ pte[p].pfn = Frame[p]
      /\ Entry(p)' = [pfn |-> Frame[p], prot |-> new]
      /\ \A q \in Page : q # p => Entry(q)' = Entry(q)
  <2>1. pte[p].pfn = Frame[p]
    BY Store4K, Zenon
  <2> QED
    BY <2>1, Store4K, Zenon
<1>4. SameRound(r, t) /\ t.numpages = 1 /\ (b => t.flushtlb)
  <2>1. b \in BOOLEAN /\ (r.flushtlb => b)
    BY Zenon
  <2> HIDE DEF b
  <2> QED
    BY <1>1, <1>2, <2>1, StoreRec
<1> HIDE DEF t
<1>5. RoundOK(t) /\ Goto(c, "alias") /\ ret' = ret
  BY <1>2, <1>4, Zenon DEF RoundOK, SameRound, Change4K
<1>6. ask \in SUBSET Bits
  <2>1. pte[p].prot \in SUBSET Bits
    BY <1>1, Zenon DEF Inv, Types, EntryType
  <2> QED
    BY <1>1, <2>1, ProtIs, Zenon
<1> HIDE DEF ask
<1>7. want \subseteq ask /\ ask \ want \subseteq Kept(p) /\ ("P" \in want <=> "P" \in ask) /\ Safe(p, want)
  BY <1>1, <1>6, StaticOne, Zenon
<1> HIDE DEF want
<1>8. /\ new \subseteq pgprot_clear_protnone_bits(ask)
      /\ pgprot_clear_protnone_bits(ask) \ new \subseteq Kept(p) /\ Safe(p, new)
  <2>1. new \subseteq pgprot_clear_protnone_bits(ask) /\ Safe(p, new)
    BY <1>7, ClearWithin, ClearSafe, Zenon
  <2>2. pgprot_clear_protnone_bits(ask) \ new \subseteq ask \ want
    BY <1>7, ClearWithin, Zenon
  <2> QED
    BY <1>7, <2>1, <2>2, Zenon
<1> HIDE DEF new
<1>9. Settled(r, p)
  <2>1. Entry(p)'.pfn = Entry(p).pfn /\ Entry(p)'.prot = new
    BY <1>3
  <2>2. pgprot_clear_protnone_bits(Requested(r, Entry(p).prot)) = pgprot_clear_protnone_bits(ask)
    BY <1>3, Zenon DEF ask
  <2> QED
    BY <1>8, <2>1, <2>2, Zenon DEF Settled
<1>10. \A i \in 0 .. t.numpages - 1 : p + i = p
  BY <1>1, <1>4
<1>11. \A q \in Page : Entry(q)' # Entry(q) =>
           t.flushtlb /\ \E i \in 0 .. t.numpages - 1 : q = p + i
  <2>1. 0 \in 0 .. t.numpages - 1
    BY <1>4
  <2> QED
    BY <1>3, <1>4, <1>10, <2>1, Zenon
<1> QED
  BY <1>3, <1>4, <1>5, <1>9, <1>10, <1>11, Zenon DEF RoundDone

LEMMA DoneFault ==
  ASSUME Inv, NEW c \in Cpu, pc[c] = "attr", NEW p, p = At(Top(c)), Entry(p) = Hole,
         __cpa_process_fault(c, p)
  PROVE  \/ \E t : RoundDone(c, p, t)
         \/ Fail(c, -14) /\ UNCHANGED <<pmd, pte>>
<1> DEFINE r == Top(c)
<1>1. r \in Rec /\ RoundOK(r) /\ p \in Page /\ p \in Nat
  BY AttrIs, PageIs, Zenon
<1>2. 1 \in 1 .. r.rem
  BY <1>1, OnePage, Zenon
<1>3. \A q \in Page : Entry(q)' = Entry(q)
  BY Zenon DEF __cpa_process_fault, Entry
<1>4. Settled(r, p)
  BY <1>1, <1>3, Zenon DEF Settled
<1>5. ASSUME NEW t, SetTop(c, t), SameRound(r, t), t.numpages = 1, Goto(c, "alias"), ret' = ret
      PROVE  RoundDone(c, p, t)
  <2>1. RoundOK(t)
    BY <1>2, <1>5, Zenon DEF RoundOK, SameRound
  <2>2. \A i \in 0 .. t.numpages - 1 : p + i = p
    BY <1>1, <1>5
  <2> QED
    BY <1>3, <1>4, <1>5, <2>1, <2>2, Zenon DEF RoundDone
<1>6. CASE ~r.chk
  <2>1. SetTop(c, WithPages(r, 1)) /\ Goto(c, "alias") /\ ret' = ret
    BY <1>6, Zenon DEF __cpa_process_fault, WithPages
  <2> QED
    BY <1>1, <1>5, <2>1, PagesRec, Zenon
<1>7. CASE r.chk /\ p \in Direct
  <2>1. SetTop(c, WithFrame(r, 1, p)) /\ Goto(c, "alias") /\ ret' = ret
    BY <1>7, Zenon DEF __cpa_process_fault, WithFrame
  <2>2. SameRound(r, WithFrame(r, 1, p)) /\ WithFrame(r, 1, p).numpages = 1
    BY <1>1, FrameRec
  <2> QED
    BY <1>5, <2>1, <2>2, Zenon
<1> QED
  BY <1>6, <1>7, Zenon DEF __cpa_process_fault

LEMMA DoneLarge ==
  ASSUME Inv, NEW c \in Cpu, pc[c] = "attr", NEW p, p = At(Top(c)), Entry(p) # Hole,
         pmd[p \div L].large, ChangeLarge(c, p)
  PROVE  /\ pte' = pte /\ ret' = ret
         /\ \/ \E t : ToSplit(c, t)
            \/ \E t : RoundDone(c, p, t)
<1> DEFINE r == Top(c)
<1> DEFINE g == p \div L
<1> DEFINE old == pmd[g].e.prot
<1> DEFINE w == Wanted(c, g)
<1>1. r \in Rec /\ RoundOK(r) /\ p \in Page /\ p \in Nat /\ g \in Group /\ L \in Nat /\ p % L \in Nat
  <2>1. r \in Rec /\ RoundOK(r) /\ p \in Page
    BY AttrIs, Zenon
  <2>2. p \in Nat /\ g \in Group /\ p % L \in 0 .. L - 1 /\ L \in Nat
    BY <2>1, PageIs, SizeAssumption, Zenon
  <2> QED
    BY <2>1, <2>2
<1>2. g \in Large
  BY <1>1, Zenon DEF Inv, Framed
<1>3. PICK t : ToSplit(c, t) \/ StaysAs(c, p, t) \/ AsWhole(c, p, t)
  BY LargeCases, Zenon
<1>4. pte' = pte /\ ret' = ret
  BY LargeCases, Zenon
<1>5. ASSUME LargeTop(c, p, t), NEW i \in 0 .. t.numpages - 1
      PROVE  p + i \in Of(g) /\ p + i \in Page
  <2>1. t.numpages \in Nat /\ t.numpages <= L - (p % L)
    BY <1>1, <1>5, PagesHereIs, Zenon DEF LargeTop
  <2>2. i \in Nat /\ i < L - (p % L)
    BY <1>1, <2>1
  <2> QED
    BY <1>1, <1>2, <2>2, LargeRun, Zenon
<1>6. ASSUME NEW q \in Of(g)
      PROVE  /\ Entry(q).prot = old /\ Entry(q).pfn = Frame[q] /\ Entry(q) # Hole
             /\ pgprot_clear_protnone_bits(Requested(r, Entry(q).prot)) = w
  <2>1. q \in Page /\ q \div L = g
    BY Zenon DEF Of
  <2>2. Frame[q] # -1
    BY <1>2, LargeIs
  <2>3. Entry(q).prot = old /\ Entry(q).pfn = Frame[q] /\ Entry(q) # Hole
    BY <2>1, <2>2, EntryIs, Zenon DEF Inv
  <2> QED
    BY <2>3, Zenon DEF Wanted
<1> HIDE DEF old, w
<1>7. ASSUME NEW q \in Of(g), Entry(q)'.pfn = Frame[q], Entry(q)'.prot = w, Safe(q, w)
      PROVE  Settled(r, q)
  BY <1>6, <1>7, Zenon DEF Settled
<1>8. CASE StaysAs(c, p, t)
  <2>1. LargeTop(c, p, t) /\ Goto(c, "alias") /\ pmd' = pmd /\ w = old /\ Limited(g, old) = old
    BY <1>8, Zenon DEF StaysAs, w, old
  <2>2. \A q \in Page : Entry(q)' = Entry(q)
    BY <1>4, <2>1, Zenon DEF Entry
  <2>3. ASSUME NEW i \in 0 .. t.numpages - 1 PROVE Settled(r, p + i)
    <3>1. p + i \in Of(g) /\ p + i \in Page
      BY <1>5, <2>1, Zenon
    <3>2. Safe(p + i, w)
      BY <1>1, <2>1, <3>1, LimitedSafe, Zenon
    <3> QED
      BY <1>6, <1>7, <2>1, <2>2, <3>1, <3>2, Zenon
  <2> QED
    BY <1>4, <2>1, <2>2, <2>3, Zenon DEF RoundDone, LargeTop
<1>9. CASE AsWhole(c, p, t)
  <2>1. /\ LargeTop(c, p, t) /\ Goto(c, "alias") /\ t.flushtlb /\ p = g * L /\ t.numpages = L
        /\ Limited(g, w) = w /\ pmd' = [pmd EXCEPT ![g].e.prot = w]
    BY <1>9, Zenon DEF AsWhole, w
  <2>2. w \in SUBSET Bits
    BY <1>1, WantedIs, Zenon DEF w
  <2>3. /\ \A q \in Of(g) : Entry(q)' = [pfn |-> Frame[q], prot |-> w]
        /\ \A q \in Page \ Of(g) : Entry(q)' = Entry(q)
    <3>1. p \in Page /\ pte' = pte /\ pmd' = [pmd EXCEPT ![g].e.prot = w]
      BY <1>1, <1>4, <2>1, Zenon
    <3> QED
      BY <2>2, <3>1, StoreLarge, Zenon
  <2>4. ASSUME NEW i \in 0 .. t.numpages - 1 PROVE Settled(r, p + i)
    <3>1. p + i \in Of(g) /\ p + i \in Page
      BY <1>5, <2>1, Zenon
    <3>2. Safe(p + i, w)
      BY <1>1, <2>1, <3>1, LimitedSafe, Zenon
    <3>3. Entry(p + i)'.pfn = Frame[p + i] /\ Entry(p + i)'.prot = w
      <4>1. \A q \in Of(g) : Entry(q)'.pfn = Frame[q] /\ Entry(q)'.prot = w
        BY <2>3
      <4> QED
        BY <3>1, <4>1, Zenon
    <3> QED
      BY <1>7, <3>1, <3>2, <3>3, Zenon
  <2>5. ASSUME NEW q \in Page, Entry(q)' # Entry(q)
        PROVE  \E i \in 0 .. t.numpages - 1 : q = p + i
    <3>1. q \div L = g
      BY <2>3, <2>5, Zenon DEF Of
    <3>2. q = p + (q % L) /\ q % L \in 0 .. t.numpages - 1
      BY <2>1, <3>1, PageIs, Zenon
    <3> QED
      BY <3>2, Zenon
  <2> QED
    BY <1>4, <2>1, <2>4, <2>5 DEF RoundDone, LargeTop
<1> QED
  BY <1>3, <1>4, <1>8, <1>9, Zenon

(* The outcomes of __change_page_attr. *)
LEMMA AttrCases ==
  ASSUME Inv, NEW c \in Cpu, __change_page_attr(c)
  PROVE  /\ pc[c] = "attr" /\ UNCHANGED <<tlb, pend, calls>>
         /\ lost' = lost \cup IF Len(cpa[c]) = 2 /\ ~Bottom(c).flushtlb
                              THEN {q \in Page : Entry(q)' # Entry(q)} ELSE {}
         /\ \/ \E p \in Page : p = At(Top(c)) /\ \E t : RoundDone(c, p, t)
            \/ \E t : ToSplit(c, t) /\ pte' = pte /\ ret' = ret
            \/ Fail(c, -14) /\ UNCHANGED <<pmd, pte>>
<1>0. PICK p : p = At(Top(c))
  BY Zenon
<1>1. /\ pc[c] = "attr" /\ UNCHANGED <<tlb, pend, calls>>
      /\ lost' = lost \cup IF Len(cpa[c]) = 2 /\ ~Bottom(c).flushtlb
                           THEN {q \in Page : Entry(q)' # Entry(q)} ELSE {}
      /\ IF Entry(p) = Hole THEN __cpa_process_fault(c, p)
         ELSE IF pmd[p \div L].large THEN ChangeLarge(c, p) ELSE Change4K(c, p)
  BY <1>0, Zenon DEF __change_page_attr, At
<1>2. \/ \E t : RoundDone(c, p, t)
      \/ \E t : ToSplit(c, t) /\ pte' = pte /\ ret' = ret
      \/ Fail(c, -14) /\ UNCHANGED <<pmd, pte>>
  <2>1. CASE Entry(p) = Hole
    BY <1>0, <1>1, <2>1, DoneFault, Zenon
  <2>2. CASE Entry(p) # Hole /\ pmd[p \div L].large
    BY <1>0, <1>1, <2>2, DoneLarge, Zenon
  <2>3. CASE Entry(p) # Hole /\ ~pmd[p \div L].large
    BY <1>0, <1>1, <2>3, Done4K, Zenon
  <2> QED
    BY <2>1, <2>2, <2>3, Zenon
<1>3. p \in Page
  BY <1>0, <1>1, AttrIs, Zenon
<1> QED
  BY <1>0, <1>1, <1>2, <1>3, Zenon

(***************************************************************************)
(* Translations that differ from the page tables.                          *)
(***************************************************************************)

(* The flags of its call tell a CPU that it has to flush e. *)
LEMMA WillKeep ==
  ASSUME NEW c \in Cpu, NEW d \in Cpu, NEW e, WillFlush(c, d, e), pc[c] # "split_flush",
         pc'[c] \notin {"idle", "flush"}, Same(Bottom(c), Bottom(c)'), ret[c] # 0 => ret'[c] # 0
  PROVE  WillFlush(c, d, e)'
<1>1. Range(Bottom(c)') = Range(Bottom(c))
  BY SameRec, Zenon
<1>2. /\ Bottom(c).flushtlb
      /\ ret[c] # 0 \/ Bottom(c).flush_all \/ Bottom(c).total > Ceiling
            \/ Covers(e) \cap Range(Bottom(c)) # {}
  BY Zenon DEF WillFlush
<1>3. /\ Bottom(c)'.flushtlb
      /\ ret'[c] # 0 \/ Bottom(c)'.flush_all \/ Bottom(c)'.total > Ceiling
            \/ Covers(e) \cap Range(Bottom(c)') # {}
  BY <1>1, <1>2, Zenon DEF Same
<1> QED
  BY <1>3, Zenon DEF WillFlush

LEMMA WillApart ==
  ASSUME NEW c \in Cpu, Apart(c), NEW k \in Cpu, k # c, NEW d \in Cpu, NEW e, WillFlush(k, d, e)
  PROVE  WillFlush(k, d, e)'
<1>1. pc'[k] = pc[k] /\ cpa'[k] = cpa[k] /\ ret'[k] = ret[k] /\ pend'[k] = pend[k]
  BY Zenon DEF Apart
<1>2. Bottom(k)' = Bottom(k)
  BY <1>1, Zenon DEF Bottom
<1> QED
  BY <1>1, <1>2, Zenon DEF WillFlush

LEMMA CoversIs ==
  ASSUME NEW e \in TlbType PROVE Covers(e) \subseteq Page
  BY Zenon DEF TlbType, Covers, Of

(* A translation that differs did so before, or one of its pages has changed. *)
LEMMA DiffersWas ==
  ASSUME NEW e \in TlbType, lost \subseteq lost', Differs(e)'
  PROVE  Differs(e) \/ \E q \in Covers(e) \ lost' : q \in Page /\ Entry(q)' # Entry(q)
<1>1. PICK p \in Covers(e) \ lost' : Entry(p)'.prot # e.prot
          \/ Entry(p)'.pfn # IF e.large THEN e.pfn + (p % L) ELSE e.pfn
  BY Zenon DEF Differs
<1>2. p \in Covers(e) \ lost /\ p \in Page
  BY CoversIs, Zenon
<1>3. CASE Entry(p)' = Entry(p)
  BY <1>1, <1>2, <1>3, Zenon DEF Differs
<1> QED
  BY <1>1, <1>2, <1>3, Zenon

(* A step of c that changes no entry. *)
LEMMA KeepsNoStale ==
  ASSUME Inv, NoStaleTlb, NEW c \in Cpu, Apart(c), lost \subseteq lost',
         \A q \in Page : Entry(q)' = Entry(q),
         \A d \in Cpu : tlb'[d] \subseteq tlb[d],
         \A d \in Cpu : \A e \in tlb'[d] : WillFlush(c, d, e) => WillFlush(c, d, e)'
  PROVE  NoStaleTlb'
<1> SUFFICES ASSUME NEW d \in Cpu, NEW e \in tlb'[d], Differs(e)'
             PROVE  \E k \in Cpu : WillFlush(k, d, e)'
  BY Zenon DEF NoStaleTlb
<1>1. e \in tlb[d] /\ e \in TlbType
  BY Zenon DEF Inv, Types
<1>2. Differs(e)
  BY <1>1, DiffersWas, Zenon
<1>3. PICK k \in Cpu : WillFlush(k, d, e)
  BY <1>1, <1>2, Zenon DEF NoStaleTlb
<1>4. WillFlush(k, d, e)'
  BY <1>3, WillApart, Zenon
<1> QED
  BY <1>4, Zenon

(* One within a call. *)
LEMMA KeepsWithin ==
  ASSUME Inv, NoStaleTlb, NEW c \in Cpu, Apart(c), UNCHANGED <<pmd, pte, tlb, lost>>,
         pc[c] # "split_flush", pc'[c] \notin {"idle", "flush"}, ret[c] = 0,
         pc[c] = "idle" \/ Same(Bottom(c), Bottom(c)')
  PROVE  NoStaleTlb'
<1>1. \A q \in Page : Entry(q)' = Entry(q)
  BY Zenon DEF Entry
<1>2. ASSUME NEW d \in Cpu, NEW e \in tlb'[d], WillFlush(c, d, e) PROVE WillFlush(c, d, e)'
  <2>1. pc[c] # "idle"
    BY <1>2, Zenon DEF WillFlush
  <2> QED
    BY <1>2, <2>1, WillKeep, Zenon
<1> QED
  BY <1>1, <1>2, KeepsNoStale, Zenon

LEMMA StaleAttr ==
  ASSUME Inv, NoStaleTlb, NEW c \in Cpu, __change_page_attr(c)
  PROVE  NoStaleTlb'
<1>1. /\ pc[c] = "attr" /\ UNCHANGED <<tlb, pend>> /\ Apart(c)
      /\ lost' = lost \cup IF Len(cpa[c]) = 2 /\ ~Bottom(c).flushtlb
                           THEN {q \in Page : Entry(q)' # Entry(q)} ELSE {}
  BY AttrCases, AttrApart, Zenon
<1>2. ret[c] = 0 /\ Top(c) \in Rec /\ RecOK(Top(c)) /\ Len(cpa[c]) \in {1, 2}
  BY <1>1, AttrIs, Zenon
<1>3. Same(Bottom(c), Bottom(c)) /\ pc \in [Cpu -> Code]
  BY Zenon DEF Same, Inv, Types
<1>4. ASSUME NEW p, p = At(Top(c)), NEW t, RoundDone(c, p, t) PROVE NoStaleTlb'
  <2>1. SetTop(c, t) /\ SameRound(Top(c), t) /\ RoundOK(t) /\ pc'[c] = "alias" /\ t \in Rec
    BY <1>3, <1>4, Zenon DEF RoundDone, SameRound, Goto
  <2>2. /\ Len(cpa'[c]) = Len(cpa[c])
        /\ Len(cpa[c]) = 1 => Bottom(c)' = t /\ Bottom(c) = Top(c)
        /\ Len(cpa[c]) = 2 => Bottom(c)' = Bottom(c) /\ Bottom(c) = cpa[c][2]
    BY <1>1, <2>1, TopBottom, Zenon
  <2>3. Same(Bottom(c), Bottom(c)')
    BY <1>2, <1>3, <2>1, <2>2, Zenon DEF SameRound
  <2> SUFFICES ASSUME NEW d \in Cpu, NEW e \in tlb'[d], Differs(e)'
               PROVE  \E k \in Cpu : WillFlush(k, d, e)'
    BY Zenon DEF NoStaleTlb
  <2>4. e \in tlb[d] /\ e \in TlbType /\ lost \subseteq lost'
    BY <1>1, Zenon DEF Inv, Types
  <2>5. CASE Differs(e)
    <3>1. PICK k \in Cpu : WillFlush(k, d, e)
      BY <2>4, <2>5, Zenon DEF NoStaleTlb
    <3>2. WillFlush(k, d, e)'
      BY <1>1, <1>2, <2>1, <2>3, <3>1, WillApart, WillKeep, Zenon
    <3> QED
      BY <3>2, Zenon
  <2>6. CASE \E q \in Covers(e) \ lost' : q \in Page /\ Entry(q)' # Entry(q)
    <3>1. PICK q \in Covers(e) \ lost' : q \in Page /\ Entry(q)' # Entry(q)
      BY <2>6, Zenon
    <3>2. PICK i \in 0 .. t.numpages - 1 : q = p + i /\ t.flushtlb
      BY <1>4, <3>1, Zenon DEF RoundDone
    <3>3. CASE Len(cpa[c]) = 1
      <4>1. RecOK(t) /\ At(t) = p
        <5>1. /\ Same(Top(c), t) /\ t.rem = Top(c).rem /\ t.curpage = Top(c).curpage
              /\ t.total = Top(c).total
          BY <2>1, Zenon DEF SameRound, Same
        <5>2. t.curpage + t.rem = t.total
          BY <1>2, <5>1, Zenon DEF RecOK
        <5> QED
          BY <1>2, <1>4, <5>1, <5>2, SameRec, Zenon
      <4>2. q \in Range(t)
        BY <2>1, <3>2, <4>1, RoundIn, Zenon
      <4>3. Bottom(c)' = t
        BY <2>2, <3>3, Zenon
      <4>4. Covers(e) \cap Range(t) # {}
        BY <3>1, <4>2, Zenon
      <4>5. WillFlush(c, d, e)'
        BY <2>1, <3>2, <4>3, <4>4, Zenon DEF WillFlush
      <4> QED
        BY <4>5, Zenon
    <3>4. CASE Len(cpa[c]) = 2
      <4>1. Bottom(c).flushtlb
        BY <1>1, <3>1, <3>4, Zenon
      <4>2. Bottom(c).flush_all
        <5>1. Shape(cpa[c], "attr", 0)
          BY <1>1, AttrIs, Zenon
        <5> QED
          BY <2>2, <3>4, <5>1, Zenon DEF Shape, AliasOK
      <4>3. Bottom(c)' = Bottom(c)
        BY <2>2, <3>4, Zenon
      <4>4. WillFlush(c, d, e)'
        BY <2>1, <4>1, <4>2, <4>3, Zenon DEF WillFlush
      <4> QED
        BY <4>4, Zenon
    <3> QED
      BY <1>2, <3>3, <3>4, Zenon
  <2> QED
    BY <2>4, <2>5, <2>6, DiffersWas, Zenon
<1>5. ASSUME UNCHANGED <<pmd, pte>> PROVE UNCHANGED lost
  BY <1>1, <1>5, Zenon DEF Entry
<1>6. ASSUME NEW t, ToSplit(c, t), pte' = pte PROVE NoStaleTlb'
  <2>1. SetTop(c, t) /\ SameRound(Top(c), t) /\ pc'[c] = "alloc" /\ pmd' = pmd /\ t \in Rec
    BY <1>3, <1>6, Zenon DEF ToSplit, SameRound, Goto
  <2>2. Same(Bottom(c), Bottom(c)')
    BY <1>1, <1>2, <1>3, <2>1, TopBottom, Zenon DEF SameRound
  <2> QED
    BY <1>1, <1>2, <1>5, <1>6, <2>1, <2>2, KeepsWithin, Zenon
<1>7. ASSUME Fail(c, -14), UNCHANGED <<pmd, pte>> PROVE NoStaleTlb'
  <2>1. pc'[c] \in {"adjust", "done"} /\ Bottom(c)' = Bottom(c)
    BY <1>1, <1>7, FailBottom, Zenon
  <2> QED
    BY <1>1, <1>2, <1>3, <1>5, <1>7, <2>1, KeepsWithin, Zenon
<1> QED
  BY <1>4, <1>6, <1>7, AttrCases, Zenon

LEMMA StaleSplit ==
  ASSUME Inv, NoStaleTlb, NEW c \in Cpu, __split_large_page(c)
  PROVE  NoStaleTlb'
<1> DEFINE g == At(Top(c)) \div L
<1>1. /\ pc[c] = "split" /\ UNCHANGED <<tlb, cpa, ret, lost>> /\ Apart(c)
      /\ \/ Goto(c, "attr") /\ UNCHANGED <<pmd, pte, pend>>
         \/ pend' = [pend EXCEPT ![c] = Cpu] /\ Goto(c, "split_flush")
  BY SplitCases, StepApart, Zenon DEF Step
<1>2. ret[c] = 0 /\ Same(Bottom(c), Bottom(c)')
  BY <1>1, TopIs, Zenon DEF Same, Bottom
<1>3. CASE Goto(c, "attr") /\ UNCHANGED <<pmd, pte, pend>>
  <2>1. pc'[c] = "attr"
    BY <1>3, Zenon DEF Goto, Inv, Types
  <2> QED
    BY <1>1, <1>2, <1>3, <2>1, KeepsWithin, Zenon
<1>4. CASE pend' = [pend EXCEPT ![c] = Cpu] /\ Goto(c, "split_flush")
  <2>1. pc'[c] = "split_flush" /\ pend'[c] = Cpu
    BY <1>4, Zenon DEF Goto, Inv, Types
  <2> QED
    BY <2>1, Zenon DEF NoStaleTlb, WillFlush
<1> QED
  BY <1>1, <1>3, <1>4, Zenon

LEMMA StaleSplitFlush ==
  ASSUME Inv, NoStaleTlb, NEW c \in Cpu, SplitFlush(c)
  PROVE  NoStaleTlb'
<1>1. /\ pc[c] = "split_flush" /\ UNCHANGED <<pmd, pte, cpa_lock, cpa, ret, lost>> /\ Apart(c)
      /\ Bottom(c)' = Bottom(c) /\ \A q \in Page : Entry(q)' = Entry(q)
  BY StepApart, Zenon DEF SplitFlush, Step, Bottom, Entry
<1>2. tlb \in [Cpu -> SUBSET TlbType] /\ pend \in [Cpu -> SUBSET Cpu] /\ pc \in [Cpu -> Code]
  BY Zenon DEF Inv, Types
<1>3. CASE pend[c] = {} /\ Goto(c, "attr") /\ UNCHANGED <<tlb, pend>>
  <2>1. pc'[c] = "attr"
    BY <1>2, <1>3, Zenon DEF Goto
  <2>2. ASSUME NEW d \in Cpu, NEW e \in tlb'[d], WillFlush(c, d, e) PROVE WillFlush(c, d, e)'
    BY <1>1, <1>3, <2>1, <2>2, Zenon DEF WillFlush
  <2> QED
    BY <1>1, <1>3, <2>2, KeepsNoStale, Zenon
<1>4. ASSUME NEW x \in pend[c], tlb' = [tlb EXCEPT ![x] = {}],
             pend' = [pend EXCEPT ![c] = @ \ {x}], UNCHANGED pc
      PROVE  NoStaleTlb'
  <2>1. \A d \in Cpu : tlb'[d] \subseteq tlb[d]
    BY <1>2, <1>4, Zenon
  <2>2. ASSUME NEW d \in Cpu, NEW e \in tlb'[d], WillFlush(c, d, e) PROVE WillFlush(c, d, e)'
    <3>1. d # x
      BY <1>2, <1>4, Zenon
    <3>2. d \in pend[c] => d \in pend'[c]
      BY <1>2, <1>4, <3>1, Zenon
    <3> QED
      BY <1>1, <1>4, <2>2, <3>2, Zenon DEF WillFlush
  <2> QED
    BY <1>1, <2>1, <2>2, KeepsNoStale, Zenon
<1> QED
  BY <1>3, <1>4, Zenon DEF SplitFlush

LEMMA StaleDone ==
  ASSUME Inv, NoStaleTlb, NEW c \in Cpu, Done(c)
  PROVE  NoStaleTlb'
<1>1. /\ pc[c] = "done" /\ UNCHANGED <<pmd, pte, tlb, ret, lost>> /\ Apart(c)
      /\ \A q \in Page : Entry(q)' = Entry(q)
  BY StepApart, Zenon DEF Done, Step, Entry
<1>2. Bottom(c) = Top(c)
  <2>1. Shape(cpa[c], "done", ret[c])
    BY <1>1, TopIs, Zenon
  <2> QED
    BY <2>1, Zenon DEF Shape, Bottom, Top
<1>3. ASSUME NEW d \in Cpu, NEW e \in tlb'[d], WillFlush(c, d, e) PROVE WillFlush(c, d, e)'
  <2>1. Top(c).flushtlb
    BY <1>1, <1>2, <1>3, Zenon DEF WillFlush
  <2>2. pend' = [pend EXCEPT ![c] = Cpu] /\ Goto(c, "flush") /\ UNCHANGED cpa
    BY <2>1, Zenon DEF Done
  <2>3. pend'[c] = Cpu /\ pc'[c] = "flush" /\ Bottom(c)' = Bottom(c)
    BY <2>2, Zenon DEF Goto, Bottom, Inv, Types
  <2> QED
    BY <1>1, <1>3, <2>3, Zenon DEF WillFlush
<1> QED
  BY <1>1, <1>3, KeepsNoStale, Zenon

LEMMA StaleFlush ==
  ASSUME Inv, NoStaleTlb, NEW c \in Cpu, cpa_flush(c)
  PROVE  NoStaleTlb'
<1>1. /\ pc[c] = "flush" /\ UNCHANGED <<pmd, pte, ret, lost>> /\ Apart(c)
      /\ \A q \in Page : Entry(q)' = Entry(q)
  BY StepApart, Zenon DEF cpa_flush, Step, Entry
<1>2. tlb \in [Cpu -> SUBSET TlbType] /\ pend \in [Cpu -> SUBSET Cpu]
  BY Zenon DEF Inv, Types
<1>3. Bottom(c) = Top(c)
  <2>1. Shape(cpa[c], "flush", ret[c])
    BY <1>1, TopIs, Zenon
  <2> QED
    BY <2>1, Zenon DEF Shape, Bottom, Top
<1>4. CASE pend[c] = {}
  <2>1. UNCHANGED tlb
    BY <1>4, Zenon DEF cpa_flush
  <2>2. \A d \in Cpu : \A e \in tlb'[d] : ~WillFlush(c, d, e)
    BY <1>1, <1>4, Zenon DEF WillFlush
  <2> QED
    BY <1>1, <2>1, <2>2, KeepsNoStale, Zenon
<1>5. CASE pend[c] # {}
  <2>1. PICK x \in pend[c] :
            /\ tlb' = [tlb EXCEPT ![x] = IF FlushesAll(c) THEN __cpa_flush_all(@)
                                         ELSE __cpa_flush_tlb(@, Top(c))]
            /\ pend' = [pend EXCEPT ![c] = @ \ {x}] /\ UNCHANGED <<pc, cpa>>
    BY <1>5, Zenon DEF cpa_flush
  <2> DEFINE T == IF FlushesAll(c) THEN __cpa_flush_all(tlb[x]) ELSE __cpa_flush_tlb(tlb[x], Top(c))
  <2>2. tlb' = [tlb EXCEPT ![x] = T] /\ x \in Cpu
    BY <1>2, <2>1, Zenon
  <2>3. T \subseteq tlb[x] /\ \A e \in T : ~FlushesAll(c) /\ Covers(e) \cap Range(Top(c)) = {}
    BY Zenon DEF __cpa_flush_all, __cpa_flush_tlb
  <2> HIDE DEF T
  <2>4. /\ tlb'[x] = T /\ \A d \in Cpu : d # x => tlb'[d] = tlb[d] /\ (d \in pend[c] => d \in pend'[c])
    BY <1>2, <2>1, <2>2, Zenon
  <2>5. \A d \in Cpu : tlb'[d] \subseteq tlb[d]
    BY <2>3, <2>4, Zenon
  <2>6. ASSUME NEW d \in Cpu, NEW e \in tlb'[d], WillFlush(c, d, e) PROVE WillFlush(c, d, e)'
    <3>1. /\ d \in pend[c] /\ Top(c).flushtlb
          /\ FlushesAll(c) \/ Covers(e) \cap Range(Top(c)) # {}
      BY <1>1, <1>3, <2>6, Zenon DEF WillFlush, FlushesAll
    <3>2. d # x
      BY <2>3, <2>4, <2>6, <3>1, Zenon
    <3>3. d \in pend'[c] /\ Bottom(c)' = Bottom(c) /\ pc'[c] = pc[c]
      BY <2>1, <2>4, <3>1, <3>2, Zenon DEF Bottom
    <3> QED
      BY <1>1, <2>6, <3>3, Zenon DEF WillFlush
  <2> QED
    BY <1>1, <2>5, <2>6, KeepsNoStale, Zenon
<1> QED
  BY <1>4, <1>5, Zenon

LEMMA StaleLoad ==
  ASSUME Inv, NoStaleTlb, NEW c \in Cpu, TlbLoad(c)
  PROVE  NoStaleTlb'
<1>1. PICK p \in Page : tlb' = [tlb EXCEPT ![c] = @ \cup {Loaded(p)}]
  BY LoadIs, Zenon
<1>2. UNCHANGED <<pmd, pte, pc, cpa, pend, ret, lost>>
  BY LoadIs, Zenon
<1> SUFFICES ASSUME NEW d \in Cpu, NEW e \in tlb'[d], Differs(e)'
             PROVE  \E k \in Cpu : WillFlush(k, d, e)'
  BY Zenon DEF NoStaleTlb
<1>3. Differs(e)
  BY <1>2, Zenon DEF Differs, Entry
<1>4. e \in tlb[d] \/ e = Loaded(p)
  BY <1>1, Zenon DEF Inv, Types
<1>5. ~Differs(Loaded(p))
  <2> DEFINE g == p \div L
  <2>1. g \in Group /\ pmd[g].e \in EntryType /\ pte[p] \in EntryType
    BY PageIs, Zenon DEF Inv, Types
  <2>2. CASE pmd[g].large
    <3>1. /\ Loaded(p).large /\ Loaded(p).at = g /\ Loaded(p).pfn = pmd[g].e.pfn
          /\ Loaded(p).prot = pmd[g].e.prot
      BY <2>2, Zenon DEF Loaded
    <3>2. ASSUME NEW q \in Of(g)
          PROVE  Entry(q).prot = pmd[g].e.prot /\ Entry(q).pfn = pmd[g].e.pfn + (q % L)
      BY <2>1, <2>2, Zenon DEF Entry, Of, EntryType
    <3> QED
      BY <3>1, <3>2, Zenon DEF Differs, Covers
  <2>3. CASE ~pmd[g].large
    <3>1. /\ ~Loaded(p).large /\ Loaded(p).at = p /\ Loaded(p).pfn = pte[p].pfn
          /\ Loaded(p).prot = pte[p].prot
      BY <2>3, Zenon DEF Loaded
    <3>2. Entry(p) = pte[p]
      BY <2>3, Zenon DEF Entry
    <3> QED
      BY <3>1, <3>2, Zenon DEF Differs, Covers
  <2> QED
    BY <2>2, <2>3, Zenon
<1>6. PICK k \in Cpu : WillFlush(k, d, e)
  BY <1>3, <1>4, <1>5, Zenon DEF NoStaleTlb
<1>7. WillFlush(k, d, e)'
  BY <1>2, <1>6, Zenon DEF WillFlush, Bottom
<1> QED
  BY <1>7, Zenon

LEMMA NoStaleStep ==
  ASSUME Inv, NoStaleTlb, NEW c \in Cpu, Call(c) \/ Step(c) \/ TlbLoad(c)
  PROVE  NoStaleTlb'
<1>1. pc \in [Cpu -> Code] /\ Same(Bottom(c), Bottom(c))
  BY Zenon DEF Inv, Types, Same
<1>2. ASSUME Call(c) PROVE NoStaleTlb'
  <2>1. /\ pc[c] = "idle" /\ pc'[c] = "loop" /\ UNCHANGED <<pmd, pte, tlb, lost>> /\ Apart(c)
    BY <1>1, <1>2, StepApart, Zenon DEF Call, Goto
  <2>2. \A d \in Cpu : \A e \in tlb'[d] : ~WillFlush(c, d, e)
    BY <2>1, Zenon DEF WillFlush
  <2>3. \A q \in Page : Entry(q)' = Entry(q)
    BY <2>1, Zenon DEF Entry
  <2> QED
    BY <2>1, <2>2, <2>3, KeepsNoStale, Zenon
<1>3. ASSUME Loop(c) \/ cpa_process_alias(c) \/ Adjust(c) PROVE NoStaleTlb'
  <2>1. /\ pc[c] \in {"loop", "alias", "alias_high", "adjust"} /\ UNCHANGED <<pmd, pte, tlb, lost>>
    BY <1>3, Zenon DEF Loop, cpa_process_alias, Adjust
  <2>2. Apart(c) /\ ret[c] = 0
    BY <1>3, <2>1, StepApart, TopIs, Zenon DEF Step
  <2>3. Same(Bottom(c), Bottom(c)') /\ pc'[c] \notin {"idle", "flush"}
    BY <1>3, LoopBottom, AliasBottom, AdjustBottom, Zenon
  <2> QED
    BY <2>1, <2>2, <2>3, KeepsWithin, Zenon
<1>4. ASSUME Alloc(c) PROVE NoStaleTlb'
  <2>1. pc[c] = "alloc" /\ UNCHANGED <<pmd, pte, tlb, lost>> /\ Apart(c)
    BY <1>4, StepApart, Zenon DEF Alloc, Step
  <2>2. ret[c] = 0
    BY <2>1, TopIs, Zenon
  <2>3. Same(Bottom(c), Bottom(c)') /\ pc'[c] \notin {"idle", "flush"}
    BY <1>1, <1>4, <2>1, FailBottom, Zenon DEF Alloc, Goto, Bottom
  <2> QED
    BY <2>1, <2>2, <2>3, KeepsWithin, Zenon
<1> QED
  BY <1>2, <1>3, <1>4, StaleAttr, StaleSplit, StaleSplitFlush, StaleDone, StaleFlush,
     StaleLoad, Zenon DEF Step

(* However the calls, splits, flushes and loads of any number of CPUs interleave: a
   translation that differs from the page tables (but for the changes that are
   lost in the copy of cpa_data) is flushed by a CPU that has not returned. *)
THEOREM AlwaysNoStaleTlb == Spec => []NoStaleTlb
<1>1. Init => NoStaleTlb
  BY Zenon DEF Init, NoStaleTlb
<1>2. ASSUME Inv, NoStaleTlb, [Next]_vars PROVE NoStaleTlb'
  <2>1. CASE UNCHANGED vars
    BY <1>2, <2>1 DEF vars, NoStaleTlb, Differs, Entry, WillFlush, Bottom
  <2> QED
    BY <1>2, <2>1, NoStaleStep, Zenon DEF Next
<1> QED
  BY <1>1, <1>2, Invariant, PTL DEF Spec
=============================================================================
