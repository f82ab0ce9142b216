---------------------------- MODULE PageProtProofs ----------------------------
(***************************************************************************)
(* The changes of page attributes (module PageAttr) keep the protections   *)
(* and implement what change_page_attr_set_clr promises (module PageProt), *)
(* for all values of the constants.                                        *)
(*                                                                         *)
(* The argument: by the invariant of PageAttrProofs every store is the     *)
(* request of a running call, less what may be withheld, on a page of the  *)
(* call or of an alias; the stores of a split only restore protections.    *)
(***************************************************************************)
EXTENDS PageAttrMap, PageAttrProofs

(***************************************************************************)
(* The pages a call has been applied to.                                   *)
(***************************************************************************)

(* How many: those of the rounds that are over, and of the round whose aliases are
   followed. *)
Upto(c) ==
    Bottom(c).curpage
        + IF Len(cpa[c]) = 2 \/ pc[c] \in {"alias", "alias_high", "adjust"}
          THEN Bottom(c).numpages ELSE 0

LEMMA AppliedIs ==
  ASSUME Inv, NEW c \in Cpu, pc[c] # "idle"
  PROVE  /\ Applied(c) = {__cpa_addr(Bottom(c), i) : i \in 0 .. Upto(c) - 1}
         /\ Upto(c) \in Nat /\ Upto(c) <= Bottom(c).total /\ Applied(c) \subseteq Page
         /\ Bottom(c).curpage \in Nat /\ Bottom(c).numpages \in Nat
<1> DEFINE r == Bottom(c)
<1>1. /\ cpa[c] \in Seq(Rec) /\ Shape(cpa[c], pc[c], ret[c]) /\ Len(cpa[c]) \in {1, 2}
      /\ Bottom(c) = cpa[c][Len(cpa[c])] /\ r \in Rec /\ RecOK(r)
  BY TopIs, Zenon DEF BaseOK
<1>2. r.curpage \in Nat /\ r.numpages \in Nat /\ r.rem \in Nat /\ r.total \in Nat
  BY <1>1, RecIs, Zenon
<1>3. r.curpage + r.rem = r.total
  BY <1>1, Zenon DEF RecOK
<1>4. Len(cpa[c]) = 2 \/ pc[c] \in {"alias", "alias_high", "adjust"} => r.numpages <= r.rem
  <2>1. Len(cpa[c]) = 2 => RoundOK(r)
    BY <1>1, Zenon DEF Shape
  <2>2. Len(cpa[c]) = 1 /\ pc[c] \in {"alias", "alias_high", "adjust"} => RoundOK(r)
    BY <1>1, Zenon DEF Shape
  <2> QED
    BY <1>1, <1>2, <2>1, <2>2 DEF RoundOK
<1>5. Upto(c) \in Nat /\ Upto(c) <= r.total
  BY <1>2, <1>3, <1>4 DEF Upto
<1>6. Applied(c) = {__cpa_addr(Bottom(c), i) : i \in 0 .. Upto(c) - 1}
  <2> DEFINE n == IF Len(cpa[c]) = 2 \/ pc[c] \in {"alias", "alias_high", "adjust"}
                  THEN r.numpages ELSE 0
  <2> DEFINE u == r.curpage + n
  <2>1. Applied(c) = {__cpa_addr(r, i) : i \in 0 .. u - 1}
    <3>1. Applied(c) = {__cpa_addr(r, i) : i \in 0 .. r.curpage + n - 1}
      BY Zenon DEF Applied
    <3>2. n \in Int
      BY <1>2
    <3> HIDE DEF n
    <3>3. (r.curpage + n - 1) = u - 1
      BY <1>2, <3>2
    <3> HIDE DEF u
    <3> QED
      BY <3>1, <3>3, Zenon
  <2>2. Upto(c) = u
    BY Zenon DEF Upto
  <2> HIDE DEF u
  <2> QED
    BY <2>1, <2>2, Zenon
<1>7. Applied(c) \subseteq Page
  <2> SUFFICES ASSUME NEW i \in 0 .. Upto(c) - 1 PROVE __cpa_addr(r, i) \in Page
    BY <1>6, Zenon
  <2>1. i \in 0 .. r.total - 1
    BY <1>2, <1>5
  <2> QED
    BY <1>1, <2>1, AddrIn, Zenon
<1> QED
  BY <1>2, <1>5, <1>6, <1>7, Zenon

(* The same of every CPU, for the state after a step. *)
AppliedUpto ==
    \A c \in Cpu : pc[c] # "idle" =>
        /\ Applied(c) = {__cpa_addr(Bottom(c), i) : i \in 0 .. Upto(c) - 1}
        /\ Upto(c) \in Nat /\ Upto(c) <= Bottom(c).total /\ Applied(c) \subseteq Page

LEMMA AppliedAll == Inv => AppliedUpto
  BY AppliedIs, Zenon DEF AppliedUpto

LEMMA AppliedApart ==
  ASSUME NEW c \in Cpu, Apart(c), NEW d \in Cpu, d # c
  PROVE  Applied(d)' = Applied(d)
<1>1. pc'[d] = pc[d] /\ cpa'[d] = cpa[d] /\ Bottom(d)' = Bottom(d)
  BY Zenon DEF Apart, Bottom
<1> QED
  BY <1>1, Zenon DEF Applied

(* A step within a call. *)
LEMMA AppliedMore ==
  ASSUME Inv, Inv', NEW c \in Cpu, pc[c] # "idle", pc'[c] # "idle", Same(Bottom(c), Bottom(c)')
  PROVE  /\ Upto(c)' = Upto(c) => Applied(c)' = Applied(c)
         /\ Upto(c)' <= Upto(c) => Applied(c)' \subseteq Applied(c)
<1>1. /\ Applied(c) = {__cpa_addr(Bottom(c), i) : i \in 0 .. Upto(c) - 1} /\ Upto(c) \in Nat
  BY AppliedIs, Zenon
<1>2. /\ Applied(c)' = {__cpa_addr(Bottom(c)', i) : i \in 0 .. Upto(c)' - 1} /\ Upto(c)' \in Nat
  <2>1. AppliedUpto'
    BY AppliedAll, PTL
  <2> QED
    BY <2>1, Zenon DEF AppliedUpto
<1>3. \A i : __cpa_addr(Bottom(c)', i) = __cpa_addr(Bottom(c), i)
  BY SameRec, Zenon
<1>4. Applied(c)' = {__cpa_addr(Bottom(c), i) : i \in 0 .. Upto(c)' - 1}
  BY <1>2, <1>3, Zenon
<1>5. Upto(c)' <= Upto(c) => 0 .. Upto(c)' - 1 \subseteq 0 .. Upto(c) - 1
  BY <1>1, <1>2
<1> QED
  BY <1>1, <1>4, <1>5, Zenon

(* The steps that do not change what a call has been applied to. *)
LEMMA AppliedStays ==
  ASSUME Inv, Inv', NEW c \in Cpu,
         Loop(c) \/ cpa_process_alias(c) \/ Adjust(c) \/ __split_large_page(c) \/ SplitFlush(c)
  PROVE  /\ Applied(c)' = Applied(c) /\ Same(Bottom(c), Bottom(c)') /\ ret' = ret
         /\ pc[c] # "idle" /\ pc'[c] # "idle"
<1>1. /\ pc[c] \in {"loop", "alias", "alias_high", "adjust", "split", "split_flush"} /\ ret' = ret
  BY Zenon DEF Loop, cpa_process_alias, Adjust, __split_large_page, SplitFlush
<1>2. /\ Len(cpa[c]) \in {1, 2} /\ Bottom(c).curpage \in Nat /\ Bottom(c).numpages \in Nat
      /\ Same(Bottom(c), Bottom(c)) /\ pc \in [Cpu -> Code]
  BY <1>1, TopIs, AppliedIs, Zenon DEF Same, Inv, Types
<1>3. ASSUME Loop(c)
      PROVE  Upto(c)' = Upto(c) /\ Same(Bottom(c), Bottom(c)') /\ pc'[c] # "idle"
  <2>1. /\ pc[c] = "loop" /\ Same(Bottom(c), Bottom(c)') /\ Bottom(c)'.curpage = Bottom(c).curpage
        /\ \/ Len(cpa'[c]) = Len(cpa[c]) /\ pc'[c] = "attr"
              /\ (Len(cpa[c]) = 2 => Bottom(c)' = Bottom(c))
           \/ Len(cpa[c]) = 1 /\ cpa' = cpa /\ pc'[c] = "done"
           \/ /\ Len(cpa[c]) = 2 /\ Len(cpa'[c]) = 1 /\ Bottom(c)' = Bottom(c)
              /\ pc'[c] \in {"alias_high", "adjust"}
    BY <1>3, LoopBottom, Zenon
  <2>2. CASE Len(cpa'[c]) = Len(cpa[c]) /\ pc'[c] \in {"attr", "done"}
             /\ (Len(cpa[c]) = 2 => Bottom(c)' = Bottom(c))
    <3>1. Upto(c)' = Upto(c)
      BY <1>2, <2>1, <2>2, Zenon DEF Upto
    <3> QED
      BY <2>1, <2>2, <3>1, Zenon
  <2>3. CASE /\ Len(cpa[c]) = 2 /\ Len(cpa'[c]) = 1 /\ Bottom(c)' = Bottom(c)
             /\ pc'[c] \in {"alias_high", "adjust"}
    <3>1. Upto(c)' = Upto(c)
      BY <2>1, <2>3, Zenon DEF Upto
    <3> QED
      BY <2>1, <2>3, <3>1, Zenon
  <2> QED
    BY <2>1, <2>2, <2>3
<1>4. ASSUME cpa_process_alias(c)
      PROVE  Upto(c)' = Upto(c) /\ Same(Bottom(c), Bottom(c)') /\ pc'[c] # "idle"
  <2>1. pc[c] \in {"alias", "alias_high"}
    BY <1>4, AliasCases, Zenon
  <2>2. /\ Same(Bottom(c), Bottom(c)') /\ Bottom(c)'.curpage = Bottom(c).curpage
        /\ Bottom(c)'.numpages = Bottom(c).numpages
        /\ \/ pc'[c] \in {"adjust", "alias_high"} /\ cpa' = cpa
           \/ pc'[c] = "loop" /\ Len(cpa[c]) = 1 /\ Len(cpa'[c]) = 2
    BY <1>4, AliasBottom, Zenon
  <2>3. Upto(c)' = Upto(c)
    BY <2>1, <2>2, Zenon DEF Upto
  <2> QED
    BY <2>2, <2>3, Zenon
<1>5. ASSUME Adjust(c)
      PROVE  Upto(c)' = Upto(c) /\ Same(Bottom(c), Bottom(c)') /\ pc'[c] # "idle"
  <2>1. pc[c] = "adjust"
    BY <1>5, Zenon DEF Adjust
  <2>2. /\ Same(Bottom(c), Bottom(c)') /\ Len(cpa'[c]) = Len(cpa[c]) /\ pc'[c] = "loop"
        /\ Len(cpa[c]) = 1 => Bottom(c)'.curpage = Bottom(c).curpage + Bottom(c).numpages
        /\ Len(cpa[c]) = 2 => Bottom(c)' = Bottom(c)
    BY <1>5, AdjustBottom, Zenon
  <2>3. Upto(c)' = Upto(c)
    BY <1>2, <2>1, <2>2 DEF Upto
  <2> QED
    BY <2>2, <2>3, Zenon
<1>6. ASSUME __split_large_page(c) \/ SplitFlush(c)
      PROVE  Upto(c)' = Upto(c) /\ Same(Bottom(c), Bottom(c)') /\ pc'[c] # "idle"
  <2>1. pc[c] \in {"split", "split_flush"} /\ cpa' = cpa
    BY <1>6, Zenon DEF __split_large_page, SplitFlush
  <2>2. pc'[c] \in {"attr", "split_flush"}
    BY <1>2, <1>6, Zenon DEF __split_large_page, SplitFlush, Goto
  <2> QED
    BY <1>2, <2>1, <2>2, Zenon DEF Upto, Bottom
<1>7. Upto(c)' = Upto(c) /\ Same(Bottom(c), Bottom(c)') /\ pc'[c] # "idle"
  BY <1>3, <1>4, <1>5, <1>6, Zenon
<1>8. Applied(c)' = Applied(c)
  BY <1>1, <1>7, AppliedMore, Zenon
<1> QED
  BY <1>1, <1>7, <1>8, Zenon

(* A call that fails, or an alias that does. *)
LEMMA AppliedFail ==
  ASSUME Inv, Inv', NEW c \in Cpu, pc[c] \in {"attr", "alloc"}, NEW v, Fail(c, v)
  PROVE  /\ Bottom(c)' = Bottom(c) /\ pc'[c] # "idle"
         /\ \/ Applied(c)' = Applied(c) /\ ret' = ret
            \/ Applied(c)' \subseteq Applied(c) /\ ret' = [ret EXCEPT ![c] = v]
<1>1. /\ Len(cpa'[c]) = 1 /\ Bottom(c)' = Bottom(c)
      /\ \/ pc'[c] = "adjust" /\ ret' = ret /\ Len(cpa[c]) = 2
         \/ pc'[c] = "done" /\ ret' = [ret EXCEPT ![c] = v]
  BY FailBottom, Zenon
<1>2. /\ Len(cpa[c]) \in {1, 2} /\ Bottom(c).curpage \in Nat /\ Bottom(c).numpages \in Nat
      /\ Same(Bottom(c), Bottom(c)') /\ pc[c] # "idle" /\ pc'[c] # "idle"
  BY <1>1, TopIs, AppliedIs, Zenon DEF Same
<1>3. pc'[c] = "adjust" /\ Len(cpa[c]) = 2 => Upto(c)' = Upto(c)
  BY <1>1, <1>2, Zenon DEF Upto
<1>4. pc'[c] = "done" => Upto(c)' <= Upto(c)
  BY <1>1, <1>2 DEF Upto
<1> QED
  BY <1>1, <1>2, <1>3, <1>4, AppliedMore, Zenon

(* A round is over: its pages are added, if it is one of the call itself. *)
LEMMA AppliedRound ==
  ASSUME Inv, Inv', NEW c \in Cpu, pc[c] = "attr", NEW t, SetTop(c, t), SameRound(Top(c), t),
         RoundOK(t), Goto(c, "alias")
  PROVE  /\ Same(Bottom(c), Bottom(c)') /\ pc'[c] = "alias"
         /\ Len(cpa[c]) = 1 =>
                Applied(c)' = Applied(c) \cup {At(Top(c)) + i : i \in 0 .. t.numpages - 1}
         /\ Len(cpa[c]) = 2 => Applied(c)' = Applied(c)
<1>1. /\ Top(c) \in Rec /\ RecOK(Top(c)) /\ Len(cpa[c]) \in {1, 2} /\ t \in Rec
      /\ Same(Bottom(c), Bottom(c)) /\ pc'[c] = "alias" /\ t.curpage = Top(c).curpage
  BY AttrIs, Zenon DEF SameRound, Same, Goto, Inv, Types
<1>2. /\ Len(cpa'[c]) = Len(cpa[c])
      /\ Len(cpa[c]) = 1 => Bottom(c)' = t /\ Bottom(c) = Top(c)
      /\ Len(cpa[c]) = 2 => Bottom(c)' = Bottom(c)
  BY <1>1, TopBottom, Zenon
<1>3. Same(Bottom(c), Bottom(c)')
  BY <1>1, <1>2, Zenon DEF SameRound
<1>4. ASSUME Len(cpa[c]) = 2 PROVE Applied(c)' = Applied(c)
  <2>1. Upto(c)' = Upto(c)
    BY <1>2, <1>4, Zenon DEF Upto
  <2> QED
    BY <1>1, <1>3, <2>1, AppliedMore, Zenon
<1>5. ASSUME Len(cpa[c]) = 1
      PROVE  Applied(c)' = Applied(c) \cup {At(Top(c)) + i : i \in 0 .. t.numpages - 1}
  <2> DEFINE k == Top(c).curpage
  <2>1. Bottom(c)' = t /\ Bottom(c) = Top(c) /\ k \in Nat /\ t.numpages \in Nat
    BY <1>1, <1>2, <1>5, RecIs, Zenon
  <2>2. Upto(c) = k + 0 /\ Upto(c)' = k + t.numpages
    BY <1>1, <1>2, <1>5, <2>1 DEF Upto
  <2>3. Applied(c) = {__cpa_addr(Bottom(c), i) : i \in 0 .. Upto(c) - 1}
    BY AppliedIs, Zenon
  <2>4. Applied(c)' = {__cpa_addr(Bottom(c)', i) : i \in 0 .. Upto(c)' - 1}
    <3>1. AppliedUpto'
      BY AppliedAll, PTL
    <3> QED
      BY <1>1, <3>1, Zenon DEF AppliedUpto
  <2>5. \A i : __cpa_addr(Bottom(c)', i) = __cpa_addr(t, i) /\ __cpa_addr(Bottom(c), i) = __cpa_addr(t, i)
    BY <2>1, SameRec, Zenon DEF SameRound
  <2>6. RecOK(t) /\ At(t) = At(Top(c))
    BY <1>1, SameRec DEF SameRound, Same, RecOK
  <2>7. ASSUME NEW i \in 0 .. t.numpages - 1 PROVE __cpa_addr(t, k + i) = At(Top(c)) + i
    BY <1>1, <2>6, RoundIn, Zenon
  <2> HIDE DEF k
  <2>8. ASSUME NEW x \in Applied(c)' PROVE x \in Applied(c) \cup {At(Top(c)) + i : i \in 0 .. t.numpages - 1}
    <3>1. PICK j \in 0 .. (k + t.numpages) - 1 : x = __cpa_addr(t, j)
      BY <2>2, <2>4, <2>5, Zenon
    <3>2. CASE j < k
      <4>1. j \in 0 .. Upto(c) - 1
        BY <2>1, <2>2, <3>2
      <4> QED
        BY <2>3, <2>5, <3>1, <4>1, Zenon
    <3>3. CASE j >= k
      <4>1. j - k \in 0 .. t.numpages - 1 /\ k + (j - k) = j
        BY <2>1, <3>3
      <4> QED
        BY <2>7, <3>1, <4>1, Zenon
    <3> QED
      BY <2>1, <3>2, <3>3
  <2>9. Applied(c) \subseteq Applied(c)'
    <3>1. 0 .. Upto(c) - 1 \subseteq 0 .. Upto(c)' - 1
      BY <2>1, <2>2
    <3> QED
      BY <2>3, <2>4, <2>5, <3>1, Zenon
  <2>10. ASSUME NEW i \in 0 .. t.numpages - 1 PROVE At(Top(c)) + i \in Applied(c)'
    <3>1. k + i \in 0 .. Upto(c)' - 1
      BY <2>1, <2>2
    <3> QED
      BY <2>4, <2>5, <2>7, <3>1, Zenon
  <2> QED
    BY <2>8, <2>9, <2>10, Zenon
<1> QED
  BY <1>1, <1>3, <1>4, <1>5, Zenon

(* The round waits for a split. *)
LEMMA AppliedSplit ==
  ASSUME Inv, Inv', NEW c \in Cpu, pc[c] = "attr", NEW t, SetTop(c, t), SameRound(Top(c), t),
         Goto(c, "alloc")
  PROVE  Applied(c)' = Applied(c) /\ Same(Bottom(c), Bottom(c)') /\ pc'[c] = "alloc"
<1>1. /\ t \in Rec /\ pc'[c] = "alloc" /\ Len(cpa[c]) \in {1, 2} /\ Same(Bottom(c), Bottom(c))
  BY AttrIs, Zenon DEF SameRound, Same, Goto, Inv, Types
<1>2. /\ Len(cpa'[c]) = Len(cpa[c])
      /\ Len(cpa[c]) = 1 => Bottom(c)' = t /\ Bottom(c) = Top(c)
      /\ Len(cpa[c]) = 2 => Bottom(c)' = Bottom(c)
  BY <1>1, TopBottom, Zenon
<1>3. Same(Bottom(c), Bottom(c)')
  BY <1>1, <1>2, Zenon DEF SameRound
<1>4. Upto(c)' = Upto(c)
  BY <1>1, <1>2, Zenon DEF Upto, SameRound
<1> QED
  BY <1>1, <1>3, <1>4, AppliedMore, Zenon

(* The call begins or returns. *)
LEMMA AppliedNone ==
  ASSUME Inv, Inv', NEW c \in Cpu, Call(c) \/ Done(c) \/ cpa_flush(c)
  PROVE  /\ Call(c) => Applied(c) = {} /\ Applied(c)' = {}
         /\ Done(c) \/ cpa_flush(c) =>
                \/ pc'[c] = "idle" /\ Applied(c)' = {}
                \/ pc'[c] = "flush" /\ cpa' = cpa /\ Applied(c)' = Applied(c)
<1>1. pc \in [Cpu -> Code] /\ cpa \in [Cpu -> Seq(Rec)]
  BY Zenon DEF Inv, Types
<1>2. ASSUME Call(c) PROVE Applied(c) = {} /\ Applied(c)' = {}
  <2>1. pc[c] = "idle" /\ pc'[c] = "loop"
    BY <1>1, <1>2, Zenon DEF Call, Goto
  <2>2. PICK r \in Request[c] : cpa' = [cpa EXCEPT ![c] = <<cpa_data(r)>>]
    BY <1>2, Zenon DEF Call
  <2>3. cpa'[c] = <<cpa_data(r)>>
    BY <1>1, <2>2, Zenon
  <2>4. Bottom(c)' = cpa_data(r) /\ Len(cpa'[c]) = 1
    BY <2>3 DEF Bottom
  <2>5. cpa_data(r).curpage = 0
    BY CallRec, Zenon
  <2>6. Upto(c)' = 0 + 0
    BY <2>1, <2>4, <2>5 DEF Upto
  <2>7. Applied(c)' = {__cpa_addr(Bottom(c)', i) : i \in 0 .. Upto(c)' - 1}
    <3>1. AppliedUpto'
      BY AppliedAll, PTL
    <3> QED
      BY <2>1, <3>1, Zenon DEF AppliedUpto
  <2> QED
    BY <2>1, <2>6, <2>7 DEF Applied
<1>3. ASSUME Done(c) \/ cpa_flush(c)
      PROVE  \/ pc'[c] = "idle" /\ Applied(c)' = {}
             \/ pc'[c] = "flush" /\ cpa' = cpa /\ Applied(c)' = Applied(c)
  <2>1. /\ pc[c] \in {"done", "flush"}
        /\ pc'[c] = "idle" \/ (pc'[c] = "flush" /\ cpa' = cpa)
    <3>1. ASSUME Done(c)
          PROVE  pc[c] = "done" /\ (pc'[c] = "idle" \/ (pc'[c] = "flush" /\ cpa' = cpa))
      <4>1. pc[c] = "done" /\ (Goto(c, "idle") \/ (Goto(c, "flush") /\ cpa' = cpa))
        BY <3>1, Zenon DEF Done
      <4> QED
        BY <1>1, <4>1, Zenon DEF Goto
    <3>2. ASSUME cpa_flush(c)
          PROVE  pc[c] = "flush" /\ (pc'[c] = "idle" \/ (pc'[c] = "flush" /\ cpa' = cpa))
      <4>1. CASE pend[c] = {}
        <5>1. pc[c] = "flush" /\ Goto(c, "idle")
          BY <3>2, <4>1, Zenon DEF cpa_flush
        <5> QED
          BY <1>1, <5>1, Zenon DEF Goto
      <4>2. CASE pend[c] # {}
        BY <3>2, <4>2, Zenon DEF cpa_flush
      <4> QED
        BY <4>1, <4>2, Zenon
    <3> QED
      BY <1>3, <3>1, <3>2, Zenon
  <2>2. CASE pc'[c] = "idle"
    BY <2>2, Zenon DEF Applied
  <2>3. CASE pc'[c] = "flush" /\ cpa' = cpa
    <3>1. Bottom(c)' = Bottom(c) /\ Same(Bottom(c), Bottom(c)')
      BY <2>3, Zenon DEF Bottom, Same
    <3>2. Upto(c)' = Upto(c)
      BY <2>1, <2>3, <3>1, Zenon DEF Upto
    <3> QED
      BY <2>1, <2>3, <3>1, <3>2, AppliedMore, Zenon
  <2> QED
    BY <2>1, <2>2, <2>3, Zenon
<1> QED
  BY <1>2, <1>3, Zenon

(* The stores of a split restore protections and drop nothing else. *)
LEMMA SplitStores ==
  ASSUME Inv, NEW c \in Cpu, __split_large_page(c), NEW q \in Page
  PROVE  /\ Entry(q)'.pfn = Entry(q).pfn /\ Entry(q)'.prot \subseteq Entry(q).prot
         /\ pgprot_clear_protnone_bits(Entry(q).prot) \ Entry(q)'.prot \subseteq Kept(q)
         /\ Safe(q, Entry(q).prot) => Safe(q, Entry(q)'.prot)
<1> DEFINE g == At(Top(c)) \div L
<1> DEFINE old == pmd[g].e.prot
<1> DEFINE w == pgprot_clear_protnone_bits(old)
<1> DEFINE new == SplitProt(Top(c), q, g)
<1>1. /\ g \in Group
      /\ \/ UNCHANGED <<pmd, pte>>
         \/ pmd[g].large /\ Splits(c, g)
  BY SplitCases, Zenon
<1>2. CASE Entry(q)' = Entry(q)
  <2>1. pgprot_clear_protnone_bits(Entry(q).prot) \subseteq Entry(q).prot
    BY Zenon DEF pgprot_clear_protnone_bits
  <2> QED
    BY <1>2, <2>1, Zenon
<1>3. CASE pmd[g].large /\ Splits(c, g) /\ q \in Of(g)
  <2>1. Entry(q)' = [pfn |-> Frame[q], prot |-> new]
    BY <1>1, <1>3, StoreSplit, Zenon
  <2>2. Entry(q).prot = old /\ Entry(q).pfn = Frame[q] /\ old \in SUBSET Bits
    <3>1. q \div L = g
      BY <1>3, Zenon DEF Of
    <3>2. Entry(q).prot = old /\ Entry(q).pfn = Frame[q]
      BY <1>3, <3>1, EntryIs, Zenon DEF Inv
    <3> QED
      BY <1>1, <3>2, Zenon DEF Inv, Types, EntryType
  <2>3. w \in SUBSET Bits /\ w \subseteq old /\ (Safe(q, old) => Safe(q, w))
    <3> HIDE DEF old
    <3> QED
      BY <2>2, ProtIs, ClearIs
  <2>4. new = w \/ new = static_protections(w, q, Frame[q], 1, FALSE)
    BY Zenon DEF SplitProt
  <2> HIDE DEF new, w
  <2>5. new \subseteq w /\ w \ new \subseteq Kept(q) /\ (Safe(q, w) => Safe(q, new))
    <3>1. CASE new = w
      BY <3>1, Zenon
    <3>2. CASE new = static_protections(w, q, Frame[q], 1, FALSE)
      <4>1. w \in SUBSET Bits
        BY <2>3, Zenon
      <4> QED
        BY <3>2, <4>1, StaticOne, Zenon
    <3> QED
      BY <2>4, <3>1, <3>2, Zenon
  <2> HIDE DEF old
  <2>6. new \subseteq old /\ (Safe(q, old) => Safe(q, new))
    BY <2>3, <2>5, Zenon
  <2>7. pgprot_clear_protnone_bits(Entry(q).prot) = w
    BY <2>2, Zenon DEF w
  <2> QED
    BY <2>1, <2>2, <2>5, <2>6, <2>7
<1> QED
  BY <1>1, <1>2, <1>3, StoreSplit, Zenon DEF Entry

(* A step that changes no entry and does not add to what is applied. *)
LEMMA KeepsProtected ==
  ASSUME ProtectedOnce, NEW c \in Cpu, Apart(c), Applied(c)' \subseteq Applied(c),
         UNCHANGED <<pmd, pte>>
  PROVE  ProtectedOnce'
<1>1. ASSUME NEW d \in Cpu PROVE Applied(d)' \subseteq Applied(d)
  BY <1>1, AppliedApart, Zenon
<1>2. ASSUME NEW p PROVE Entry(p)' = Entry(p)
  BY Zenon DEF Entry
<1>3. ASSUME NEW d \in Cpu, NEW p \in Applied(d)' PROVE Protected(p)'
  BY <1>1, <1>2, <1>3, Zenon DEF ProtectedOnce, Protected
<1> QED
  BY <1>3, Zenon DEF ProtectedOnce

LEMMA ProtectedAttr ==
  ASSUME Inv, Inv', ProtectedOnce, NEW c \in Cpu, __change_page_attr(c)
  PROVE  ProtectedOnce'
<1>1. pc[c] = "attr" /\ Apart(c) /\ Same(Bottom(c), Bottom(c))
  BY AttrCases, AttrApart, Zenon DEF Same
<1>2. ASSUME NEW p, p = At(Top(c)), NEW t, RoundDone(c, p, t) PROVE ProtectedOnce'
  <2>1. /\ SetTop(c, t) /\ SameRound(Top(c), t) /\ RoundOK(t) /\ Goto(c, "alias")
        /\ \A i \in 0 .. t.numpages - 1 : Settled(Top(c), p + i)
        /\ \A q \in Page : Entry(q)' # Entry(q) => \E i \in 0 .. t.numpages - 1 : q = p + i
    BY <1>2, Zenon DEF RoundDone
  <2>2. Applied(c)' \subseteq Applied(c) \cup {p + i : i \in 0 .. t.numpages - 1}
    <3>1. Len(cpa[c]) \in {1, 2}
      BY <1>1, AttrIs, Zenon
    <3> QED
      BY <1>1, <1>2, <2>1, <3>1, AppliedRound
  <2>3. ASSUME NEW i \in 0 .. t.numpages - 1 PROVE Safe(p + i, Entry(p + i)'.prot)
    <3>1. Settled(Top(c), p + i)
      BY <2>1, Zenon
    <3>2. CASE Entry(p + i) = Hole
      <4>1. Entry(p + i)' = Hole
        BY <3>1, <3>2, Zenon DEF Settled
      <4> QED
        BY <4>1 DEF Hole, Safe
    <3>3. CASE Entry(p + i) # Hole
      BY <3>1, <3>3, Zenon DEF Settled
    <3> QED
      BY <3>2, <3>3, Zenon
  <2>4. ASSUME NEW d \in Cpu, NEW q \in Applied(d)' PROVE Safe(q, Entry(q)'.prot)
    <3>1. CASE \E i \in 0 .. t.numpages - 1 : q = p + i
      <4>1. PICK i \in 0 .. t.numpages - 1 : q = p + i
        BY <3>1, Zenon
      <4>2. Safe(p + i, Entry(p + i)'.prot)
        BY <2>3, Zenon
      <4> QED
        BY <4>1, <4>2, Zenon
    <3>2. CASE ~\E i \in 0 .. t.numpages - 1 : q = p + i
      <4>1. q \in Applied(d)
        BY <1>1, <2>2, <2>4, <3>2, AppliedApart, Zenon
      <4>2. pc[d] # "idle"
        BY <4>1, Zenon DEF Applied
      <4>3. q \in Page
        BY <4>1, <4>2, AppliedIs, Zenon
      <4>4. Entry(q)' = Entry(q)
        BY <2>1, <3>2, <4>3, Zenon
      <4>5. Safe(q, Entry(q).prot)
        BY <4>1, Zenon DEF ProtectedOnce, Protected, Safe
      <4> QED
        BY <4>4, <4>5, Zenon
    <3> QED
      BY <3>1, <3>2, Zenon
  <2> QED
    BY <2>4, Zenon DEF ProtectedOnce, Protected, Safe
<1>3. ASSUME NEW t, ToSplit(c, t), pte' = pte PROVE ProtectedOnce'
  <2>1. SetTop(c, t) /\ SameRound(Top(c), t) /\ Goto(c, "alloc") /\ pmd' = pmd
    BY <1>3, Zenon DEF ToSplit
  <2>2. Applied(c)' = Applied(c)
    BY <1>1, <2>1, AppliedSplit, Zenon
  <2> QED
    BY <1>1, <1>3, <2>1, <2>2, KeepsProtected, Zenon
<1>4. ASSUME Fail(c, -14), UNCHANGED <<pmd, pte>> PROVE ProtectedOnce'
  BY <1>1, <1>4, AppliedFail, KeepsProtected, Zenon
<1> QED
  BY <1>2, <1>3, <1>4, AttrCases, Zenon

LEMMA ProtectedStep ==
  ASSUME Inv, Inv', ProtectedOnce, NEW c \in Cpu, Call(c) \/ Step(c) \/ TlbLoad(c)
  PROVE  ProtectedOnce'
<1>1. ASSUME __split_large_page(c) PROVE ProtectedOnce'
  <2>1. Apart(c)
    BY <1>1, StepApart, Zenon DEF Step
  <2>2. ASSUME NEW d \in Cpu PROVE Applied(d)' = Applied(d)
    BY <1>1, <2>1, AppliedStays, AppliedApart, Zenon
  <2>3. ASSUME NEW d \in Cpu, NEW q \in Applied(d) PROVE Safe(q, Entry(q)'.prot)
    <3>1. pc[d] # "idle"
      BY <2>3, Zenon DEF Applied
    <3>2. q \in Page
      BY <2>3, <3>1, AppliedIs, Zenon
    <3>3. Safe(q, Entry(q).prot)
      BY <2>3, Zenon DEF ProtectedOnce, Protected, Safe
    <3> QED
      BY <1>1, <3>2, <3>3, SplitStores, Zenon
  <2> QED
    BY <2>2, <2>3, Zenon DEF ProtectedOnce, Protected, Safe
<1>2. ASSUME Loop(c) \/ cpa_process_alias(c) \/ Adjust(c) \/ SplitFlush(c) PROVE ProtectedOnce'
  <2>1. Apart(c) /\ UNCHANGED <<pmd, pte>>
    BY <1>2, StepApart, Zenon DEF Step, Loop, cpa_process_alias, Adjust, SplitFlush
  <2> QED
    BY <1>2, <2>1, AppliedStays, KeepsProtected, Zenon
<1>3. ASSUME Call(c) \/ Done(c) \/ cpa_flush(c) PROVE ProtectedOnce'
  <2>1. Apart(c) /\ UNCHANGED <<pmd, pte>>
    BY <1>3, StepApart, Zenon DEF Step, Call, Done, cpa_flush
  <2> QED
    BY <1>3, <2>1, AppliedNone, KeepsProtected, Zenon
<1>4. ASSUME Alloc(c) PROVE ProtectedOnce'
  <2>1. pc[c] = "alloc" /\ Apart(c) /\ UNCHANGED <<pmd, pte>>
    BY <1>4, StepApart, Zenon DEF Step, Alloc
  <2>2. Applied(c)' \subseteq Applied(c)
    <3>1. CASE Goto(c, "split") /\ UNCHANGED <<cpa, ret>>
      <4>1. pc'[c] = "split" /\ Bottom(c)' = Bottom(c)
        BY <3>1, Zenon DEF Goto, Bottom, Inv, Types
      <4> QED
        BY <2>1, <3>1, <4>1, Zenon DEF Applied
    <3>2. CASE Fail(c, -12)
      BY <2>1, <3>2, AppliedFail, Zenon
    <3> QED
      BY <1>4, <3>1, <3>2, Zenon DEF Alloc
  <2> QED
    BY <2>1, <2>2, KeepsProtected, Zenon
<1>5. ASSUME TlbLoad(c) PROVE ProtectedOnce'
  <2>1. UNCHANGED <<pmd, pte, pc, cpa>>
    BY <1>5, Zenon DEF TlbLoad
  <2> QED
    BY <2>1 DEF ProtectedOnce, Applied, Bottom, Protected, Entry,
       protect_kernel_text, protect_rodata
<1> QED
  BY <1>1, <1>2, <1>3, <1>4, <1>5, ProtectedAttr, Zenon DEF Step

(* Whatever the calls, the mappings at boot and the interleaving: a page that a call
   in progress has gone over has the protections of static_protections: the
   text is executable, .rodata is not writable. *)
THEOREM AlwaysProtectedOnce == Spec => []ProtectedOnce
<1>1. Init => ProtectedOnce
  BY Zenon DEF Init, ProtectedOnce, Applied
<1>2. ASSUME Inv, Inv', ProtectedOnce, [Next]_vars PROVE ProtectedOnce'
  <2>1. CASE UNCHANGED vars
    BY <1>2, <2>1 DEF vars, ProtectedOnce, Applied, Bottom, Protected, Entry,
       protect_kernel_text, protect_rodata
  <2> QED
    BY <1>2, <2>1, ProtectedStep, Zenon DEF Next
<1> QED
  BY <1>1, <1>2, Invariant, PTL DEF Spec

(***************************************************************************)
(* The refinement: the state of PageProt is a function of the page tables  *)
(* and of the stacks.                                                      *)
(***************************************************************************)

(* map, req and applied of PageProt. *)
Map == [p \in Page |-> Entry(p)]
Reqs == [c \in Cpu |-> IF pc[c] = "idle" THEN {} ELSE {Bottom(c).req}]
Apps == [c \in Cpu |-> Applied(c)]

LEMMA TheIs ==
  ASSUME NEW c \in Cpu
  PROVE  /\ Abstract!Idle(c) <=> pc[c] = "idle"
         /\ pc[c] # "idle" => Abstract!The(c) = Bottom(c).req
<1>1. Abstract!Idle(c) <=> pc[c] = "idle"
  BY Zenon DEF Abstract!Idle
<1>2. ASSUME NEW x PROVE (CHOOSE r \in {x} : TRUE) = x
  BY Zenon
<1>3. ASSUME pc[c] # "idle" PROVE Abstract!The(c) = Bottom(c).req
  BY <1>2, <1>3, Zenon DEF Abstract!The
<1> QED
  BY <1>1, <1>3, Zenon

LEMMA StutterIs ==
  ASSUME Map' = Map, Reqs' = Reqs, Apps' = Apps, ret' = ret
  PROVE  UNCHANGED Abstract!vars
  BY Zenon DEF Abstract!vars, Map, Reqs, Apps

LEMMA ReqStays ==
  ASSUME NEW c \in Cpu, Apart(c), pc[c] # "idle", pc'[c] # "idle", Bottom(c)'.req = Bottom(c).req
  PROVE  Reqs' = Reqs
<1>1. ASSUME NEW d \in Cpu, d # c PROVE pc'[d] = pc[d] /\ Bottom(d)' = Bottom(d)
  BY <1>1, Zenon DEF Apart, Bottom
<1> QED
  BY <1>1, Zenon DEF Reqs

LEMMA AppStays ==
  ASSUME NEW c \in Cpu, Apart(c)
  PROVE  Apps' = [Apps EXCEPT ![c] = Applied(c)']
<1>1. ASSUME NEW d \in Cpu, d # c PROVE Applied(d)' = Applied(d)
  BY <1>1, AppliedApart, Zenon
<1> QED
  BY <1>1, Zenon DEF Apps

LEMMA MapStays == ASSUME UNCHANGED <<pmd, pte>> PROVE Map' = Map
  BY Zenon DEF Map, Entry

LEMMA FailIs ==
  ASSUME NEW c \in Cpu, pc[c] # "idle", Map' = Map, Reqs' = Reqs,
         NEW e \in {-12, -14}, ret' = [ret EXCEPT ![c] = e],
         Applied(c)' \subseteq Applied(c), Apps' = [Apps EXCEPT ![c] = Applied(c)']
  PROVE  Abstract!Fail(c)
<1>1. ~Abstract!Idle(c)
  BY TheIs, Zenon
<1>2. Apps[c] = Applied(c)
  BY Zenon DEF Apps
<1> QED
  BY <1>1, <1>2, Zenon DEF Abstract!Fail, Map, Reqs, Apps

(* The pages a call asks for. *)
LEMMA AskedIs ==
  ASSUME NEW r, r \in Rec, BaseOK(r)
  PROVE  Range(r) = Abstract!Asked(r.req)
<1>1. /\ r.req.pages = r.pages /\ r.pages \in Seq(Page) /\ r.total = Len(r.pages) /\ r.pages # <<>>
      /\ ~r.array => \A i \in DOMAIN r.pages : r.pages[i] = r.pages[1] + i - 1
  BY RecIs, Zenon DEF BaseOK, RecOK
<1>2. DOMAIN r.pages = 1 .. Len(r.pages) /\ Len(r.pages) \in Nat
  BY <1>1
<1>3. ASSUME NEW i \in 0 .. Len(r.pages) - 1
      PROVE  __cpa_addr(r, i) = r.pages[i + 1] /\ i + 1 \in DOMAIN r.pages
  <2>1. i + 1 \in DOMAIN r.pages /\ r.pages[1] \in Page
    BY <1>1, <1>2
  <2>2. ~r.array => r.pages[i + 1] = r.pages[1] + (i + 1) - 1
    BY <1>1, <2>1, Zenon
  <2>3. ~r.array => r.pages[i + 1] = r.pages[1] + i
    BY <2>1, <2>2, PageIs
  <2> QED
    BY <2>1, <2>3, Zenon DEF __cpa_addr
<1>4. ASSUME NEW j \in DOMAIN r.pages PROVE j - 1 \in 0 .. Len(r.pages) - 1 /\ (j - 1) + 1 = j
  BY <1>2
<1>5. ASSUME NEW j \in DOMAIN r.pages PROVE r.pages[j] \in Range(r)
  <2>1. __cpa_addr(r, j - 1) = r.pages[(j - 1) + 1] /\ (j - 1) + 1 = j
    BY <1>3, <1>4, Zenon
  <2> QED
    BY <1>1, <1>4, <2>1, Zenon DEF Range
<1>6. Range(r) \subseteq {r.pages[j] : j \in DOMAIN r.pages}
  BY <1>1, <1>3, Zenon DEF Range
<1>7. Abstract!Asked(r.req) = {r.pages[j] : j \in DOMAIN r.pages}
  BY <1>1, Zenon DEF Abstract!Asked
<1> QED
  BY <1>5, <1>6, <1>7, Zenon

LEMMA BeginIs ==
  ASSUME Inv, Inv', NEW c \in Cpu, Call(c)
  PROVE  Abstract!Begin(c)
<1>1. pc[c] = "idle" /\ ret' = [ret EXCEPT ![c] = 0] /\ Map' = Map /\ Apart(c)
  BY MapStays, StepApart, Zenon DEF Call
<1>2. Apps' = [Apps EXCEPT ![c] = {}]
  BY <1>1, AppStays, AppliedNone, Zenon
<1>3. PICK r \in Request[c] : cpa' = [cpa EXCEPT ![c] = <<cpa_data(r)>>]
  BY Zenon DEF Call
<1>4. cpa'[c] = <<cpa_data(r)>> /\ pc'[c] = "loop"
  BY <1>3, Zenon DEF Inv, Types, Call, Goto
<1>5. Bottom(c)'.req = r
  BY <1>4, CallRec DEF Bottom
<1>6. ASSUME NEW d \in Cpu, d # c PROVE pc'[d] = pc[d] /\ Bottom(d)' = Bottom(d)
  BY <1>1, <1>6, Zenon DEF Apart, Bottom
<1>7. Reqs' = [Reqs EXCEPT ![c] = {r}]
  BY <1>4, <1>5, <1>6, Zenon DEF Reqs
<1>8. Abstract!Idle(c)
  BY <1>1, TheIs, Zenon
<1> QED
  BY <1>1, <1>2, <1>7, <1>8, Zenon DEF Abstract!Begin, Map, Reqs, Apps

LEMMA EndIs ==
  ASSUME Inv, Inv', NEW c \in Cpu, Done(c) \/ cpa_flush(c), pc'[c] = "idle"
  PROVE  Abstract!End(c)
<1>1. /\ pc[c] \in {"done", "flush"} /\ ret' = ret /\ Map' = Map /\ Apart(c)
  BY MapStays, StepApart, Zenon DEF Done, cpa_flush, Step
<1>2. Apps' = [Apps EXCEPT ![c] = {}]
  BY <1>1, AppStays, AppliedNone, Zenon
<1>3. ASSUME NEW d \in Cpu, d # c PROVE pc'[d] = pc[d] /\ Bottom(d)' = Bottom(d)
  BY <1>1, <1>3, Zenon DEF Apart, Bottom
<1>4. Reqs' = [Reqs EXCEPT ![c] = {}]
  BY <1>3, Zenon DEF Reqs
<1>5. ~Abstract!Idle(c) /\ Abstract!The(c) = Bottom(c).req /\ Apps[c] = Applied(c)
  BY <1>1, TheIs, Zenon DEF Apps
<1>6. ASSUME ret[c] = 0 PROVE Applied(c) = Abstract!Asked(Bottom(c).req)
  <2>1. /\ Shape(cpa[c], pc[c], ret[c]) /\ Bottom(c) = cpa[c][Len(cpa[c])] /\ Bottom(c) \in Rec
        /\ BaseOK(Bottom(c))
    BY <1>1, TopIs, Zenon
  <2>2. Len(cpa[c]) = 1 /\ Bottom(c).rem = 0
    BY <1>1, <1>6, <2>1, Zenon DEF Shape
  <2>3. Bottom(c).curpage = Bottom(c).total
    <3>1. Bottom(c).curpage + Bottom(c).rem = Bottom(c).total
      BY <2>1, Zenon DEF BaseOK, RecOK
    <3>2. Bottom(c).curpage \in Nat
      BY <2>1, RecIs, Zenon
    <3> QED
      BY <2>2, <3>1, <3>2
  <2>4. Upto(c) = Bottom(c).total
    BY <1>1, <2>1, <2>2, <2>3, RecIs DEF Upto
  <2>5. Applied(c) = Range(Bottom(c))
    BY <1>1, <2>4, AppliedIs, Zenon DEF Range
  <2> QED
    BY <2>1, <2>5, AskedIs, Zenon
<1> QED
  BY <1>1, <1>2, <1>4, <1>5, <1>6, Zenon DEF Abstract!End, Map, Reqs, Apps

LEMMA EnforceIs ==
  ASSUME Inv, Inv', NEW c \in Cpu, __split_large_page(c)
  PROVE  Abstract!Enforce(c)
<1>1. /\ Applied(c)' = Applied(c) /\ Same(Bottom(c), Bottom(c)') /\ ret' = ret
      /\ pc[c] # "idle" /\ pc'[c] # "idle" /\ Apart(c)
  BY AppliedStays, StepApart, Zenon DEF Step
<1>2. Reqs' = Reqs
  BY <1>1, ReqStays, Zenon DEF Same
<1>3. Apps' = Apps
  BY <1>1, AppStays, Zenon DEF Apps
<1>4. ~Abstract!Idle(c)
  BY <1>1, TheIs, Zenon
<1>5. ASSUME NEW p \in Page
      PROVE  /\ Map'[p].pfn = Map[p].pfn /\ Map'[p].prot \subseteq Map[p].prot
             /\ Abstract!Norm(Map[p].prot) \ Map'[p].prot \subseteq Kept(p)
  <2>1. Abstract!Norm(Map[p].prot) = pgprot_clear_protnone_bits(Map[p].prot)
    BY Zenon DEF Abstract!Norm, pgprot_clear_protnone_bits
  <2> QED
    BY <2>1, SplitStores, Zenon DEF Map
<1> QED
  BY <1>1, <1>2, <1>3, <1>4, <1>5, Zenon DEF Abstract!Enforce, Map, Reqs, Apps, Kept

(* The pages of a round are pages of the call, or map frames of pages of the call. *)
LEMMA RoundReach ==
  ASSUME Inv, NEW c \in Cpu, pc[c] = "attr", NEW t, SameRound(Top(c), t), RoundOK(t),
         NEW i \in 0 .. t.numpages - 1, NEW q, q = At(Top(c)) + i
  PROVE  /\ q \in Page
         /\ Len(cpa[c]) = 1 => q \in Abstract!Asked(Bottom(c).req)
         /\ Len(cpa[c]) = 2 /\ Frame[q] # -1 => q \in Abstract!Reach(Bottom(c).req)
<1>1. /\ Top(c) = cpa[c][1] /\ Top(c) \in Rec /\ RecOK(Top(c)) /\ Bottom(c) \in Rec
      /\ BaseOK(Bottom(c)) /\ Bottom(c) = cpa[c][Len(cpa[c])] /\ Shape(cpa[c], "attr", ret[c])
  BY TopIs, Zenon
<1>2. t \in Rec /\ RecOK(t) /\ At(t) = At(Top(c)) /\ Range(t) = Range(Top(c)) /\ Same(Top(c), t)
  BY <1>1, SameRec, Zenon DEF SameRound, Same, RecOK
<1>3. q \in Page /\ q \in Range(Top(c)) /\ __cpa_addr(t, t.curpage + i) = q
  BY <1>2, RoundIn, Zenon
<1>4. ASSUME Len(cpa[c]) = 1 PROVE q \in Abstract!Asked(Bottom(c).req)
  <2>1. Bottom(c) = Top(c)
    BY <1>1, <1>4, Zenon
  <2> QED
    BY <1>1, <1>3, <2>1, AskedIs, Zenon
<1>5. ASSUME Len(cpa[c]) = 2, Frame[q] # -1 PROVE q \in Abstract!Reach(Bottom(c).req)
  <2> DEFINE a == Top(c)
  <2> DEFINE r == Bottom(c)
  <2> DEFINE j == t.curpage + i
  <2>1. AliasOK(a, r) /\ RoundOK(r) /\ RecOK(r)
    BY <1>1, <1>5, Zenon DEF Shape, BaseOK
  <2>2. /\ t.curpage \in Nat /\ t.rem \in Nat /\ t.numpages \in 1 .. t.rem
        /\ t.curpage + t.rem = t.total /\ t.total = a.total /\ a.total = r.numpages
        /\ r.numpages \in Nat
    BY <1>1, <1>2, <2>1, RecIs, Zenon DEF RecOK, RoundOK, Same, AliasOK
  <2>3. j \in 0 .. a.total - 1 /\ j \in 0 .. r.numpages - 1
    BY <2>2
  <2>4. q = a.pages[1] + j
    BY <1>2, <1>3, <2>1, Zenon DEF AliasOK, Same, __cpa_addr
  <2> HIDE DEF j, a, r
  <2>5. Frame[a.pages[1] + j] \in {-1, Frame[At(r) + j]}
    BY <2>1, <2>3, Zenon DEF AliasOK
  <2>6. At(r) + j \in Range(r)
    BY <1>1, <2>1, <2>3, RoundIn, Zenon DEF r
  <2>7. At(r) + j \in Abstract!Asked(r.req)
    BY <1>1, <2>6, AskedIs, Zenon DEF r
  <2>8. Frame[q] = Frame[At(r) + j]
    BY <1>5, <2>4, <2>5, Zenon
  <2> QED
    BY <1>3, <2>7, <2>8, Zenon DEF Abstract!Reach, r
<1> QED
  BY <1>3, <1>4, <1>5, Zenon

(* A page of the round gets what the call asks for. *)
LEMMA GrantedIs ==
  ASSUME NEW r, RecOK(r), NEW q \in Page, Settled(r, q)
  PROVE  Abstract!Granted(q, Entry(q), Entry(q)', r.req)
<1>1. Requested(r, Entry(q).prot) = (Entry(q).prot \ r.req.clr) \cup r.req.set
  BY Zenon DEF RecOK, Requested
<1> QED
  BY <1>1, Zenon DEF Settled, Abstract!Granted, Abstract!Norm, pgprot_clear_protnone_bits, Kept

LEMMA ApplyIs ==
  ASSUME Inv, Inv', NEW c \in Cpu, pc[c] = "attr", Apart(c), NEW p, p = At(Top(c)), NEW t,
         RoundDone(c, p, t)
  PROVE  Abstract!Apply(c)
<1> DEFINE R == {p + i : i \in 0 .. t.numpages - 1}
<1> DEFINE S == IF Len(cpa[c]) = 1 THEN R ELSE {q \in R : Frame[q] # -1}
<1> DEFINE r == Bottom(c).req
<1>1. /\ SetTop(c, t) /\ SameRound(Top(c), t) /\ RoundOK(t) /\ Goto(c, "alias") /\ ret' = ret
      /\ \A i \in 0 .. t.numpages - 1 : Settled(Top(c), p + i)
      /\ \A q \in Page : Entry(q)' # Entry(q) => q \in R
  BY Zenon DEF RoundDone
<1>2. /\ Same(Bottom(c), Bottom(c)') /\ pc'[c] = "alias" /\ Len(cpa[c]) \in {1, 2}
      /\ Len(cpa[c]) = 1 => Applied(c)' = Applied(c) \cup R
      /\ Len(cpa[c]) = 2 => Applied(c)' = Applied(c)
  <2>1. Len(cpa[c]) \in {1, 2}
    BY AttrIs, Zenon
  <2>2. /\ Same(Bottom(c), Bottom(c)') /\ pc'[c] = "alias"
        /\ Len(cpa[c]) = 1 =>
               Applied(c)' = Applied(c) \cup {At(Top(c)) + i : i \in 0 .. t.numpages - 1}
        /\ Len(cpa[c]) = 2 => Applied(c)' = Applied(c)
    BY <1>1, AppliedRound, Zenon
  <2> QED
    BY <2>1, <2>2, Zenon
<1>3. Reqs' = Reqs
  BY <1>2, ReqStays, Zenon DEF Same
<1>4. ~Abstract!Idle(c) /\ Abstract!The(c) = r
  BY TheIs, Zenon
<1>5. Top(c).req = r /\ RecOK(Top(c))
  <2>1. /\ Shape(cpa[c], pc[c], ret[c]) /\ Top(c) = cpa[c][1] /\ Bottom(c) = cpa[c][Len(cpa[c])]
        /\ RecOK(Top(c))
    BY TopIs, Zenon
  <2> QED
    BY <1>2, <2>1, Zenon DEF Shape, AliasOK
<1>6. ASSUME NEW q \in R
      PROVE  /\ q \in Page /\ Settled(Top(c), q)
             /\ Len(cpa[c]) = 1 => q \in Abstract!Asked(r)
             /\ Len(cpa[c]) = 2 /\ Frame[q] # -1 => q \in Abstract!Reach(r)
  <2>1. PICK i \in 0 .. t.numpages - 1 : q = p + i
    BY Zenon
  <2>2. q = At(Top(c)) + i
    BY <2>1, Zenon
  <2>3. Settled(Top(c), p + i)
    BY <1>1, Zenon
  <2>4. Settled(Top(c), q)
    BY <2>1, <2>3, Zenon
  <2> QED
    BY <1>1, <2>2, <2>4, RoundReach, Zenon
<1> HIDE DEF R, r
<1>7. S \in SUBSET Abstract!Reach(r)
  <2>1. ASSUME NEW q \in S PROVE q \in Abstract!Reach(r)
    <3>1. CASE Len(cpa[c]) = 1
      BY <1>6, <3>1, Zenon DEF Abstract!Reach
    <3>2. CASE Len(cpa[c]) = 2
      BY <1>6, <3>2
    <3> QED
      BY <1>2, <3>1, <3>2, Zenon
  <2> QED
    BY <2>1, Zenon
<1>8. ASSUME NEW q \in Page
      PROVE  IF q \in S THEN Abstract!Granted(q, Map[q], Map'[q], r) ELSE Map'[q] = Map[q]
  <2>1. Map[q] = Entry(q) /\ Map'[q] = Entry(q)'
    BY Zenon DEF Map
  <2>2. CASE q \in S
    <3>1. Settled(Top(c), q)
      BY <1>6, <2>2, Zenon
    <3>2. Abstract!Granted(q, Entry(q), Entry(q)', Top(c).req)
      BY <1>5, <3>1, GrantedIs, Zenon
    <3> QED
      BY <1>5, <2>1, <2>2, <3>2, Zenon
  <2>3. CASE q \notin R
    BY <1>1, <2>1, <2>3, Zenon
  <2>4. CASE q \in R /\ q \notin S
    <3>1. Frame[q] = -1
      BY <2>4, Zenon
    <3>2. Entry(q) = Hole /\ Settled(Top(c), q)
      BY <1>6, <2>4, <3>1, EntryIs, Zenon DEF Inv
    <3>3. Entry(q)' = Hole
      BY <3>2, Zenon DEF Settled
    <3> QED
      BY <2>1, <2>4, <3>2, <3>3, Zenon
  <2> QED
    BY <2>2, <2>3, <2>4, Zenon
<1>9. Apps' \in {Apps, [Apps EXCEPT ![c] = @ \cup (S \cap Abstract!Asked(r))]}
  <2>1. Apps' = [Apps EXCEPT ![c] = Applied(c)'] /\ Apps[c] = Applied(c) /\ Apps = [Apps EXCEPT ![c] = Applied(c)]
    BY AppStays, Zenon DEF Apps
  <2>2. CASE Len(cpa[c]) = 1
    <3>1. S \cap Abstract!Asked(r) = R
      BY <1>6, <2>2, Zenon
    <3>2. Applied(c)' = Applied(c) \cup (S \cap Abstract!Asked(r))
      BY <1>2, <2>2, <3>1, Zenon
    <3> QED
      BY <2>1, <3>2, Zenon
  <2>3. CASE Len(cpa[c]) = 2
    BY <1>2, <2>1, <2>3, Zenon
  <2> QED
    BY <1>2, <2>2, <2>3, Zenon
<1> HIDE DEF S
<1> QED
  BY <1>1, <1>3, <1>4, <1>7, <1>8, <1>9, Zenon DEF Abstract!Apply, Map, Reqs, Apps

(* A failure is one of the call, or of an alias that is ignored. *)
LEMMA FailMaps ==
  ASSUME Inv, Inv', NEW c \in Cpu, pc[c] \in {"attr", "alloc"}, Apart(c), UNCHANGED <<pmd, pte>>,
         NEW v \in {-12, -14}, Fail(c, v)
  PROVE  Abstract!Fail(c) \/ UNCHANGED Abstract!vars
<1>1. /\ Bottom(c)' = Bottom(c) /\ pc'[c] # "idle" /\ pc[c] # "idle"
      /\ \/ Applied(c)' = Applied(c) /\ ret' = ret
         \/ Applied(c)' \subseteq Applied(c) /\ ret' = [ret EXCEPT ![c] = v]
  BY AppliedFail, Zenon
<1>2. Reqs' = Reqs /\ Map' = Map /\ Apps' = [Apps EXCEPT ![c] = Applied(c)']
  BY <1>1, ReqStays, MapStays, AppStays, Zenon
<1>3. CASE Applied(c)' = Applied(c) /\ ret' = ret
  <2>1. Apps' = Apps
    BY <1>2, <1>3, Zenon DEF Apps
  <2> QED
    BY <1>2, <1>3, <2>1, StutterIs, Zenon
<1>4. CASE Applied(c)' \subseteq Applied(c) /\ ret' = [ret EXCEPT ![c] = v]
  BY <1>1, <1>2, <1>4, FailIs, Zenon
<1> QED
  BY <1>1, <1>3, <1>4, Zenon

(* Every step maps to a step of PageProt or to none. *)
LEMMA AttrMaps ==
  ASSUME Inv, Inv', NEW c \in Cpu, __change_page_attr(c)
  PROVE  Abstract!Apply(c) \/ Abstract!Fail(c) \/ UNCHANGED Abstract!vars
<1>1. pc[c] = "attr" /\ Apart(c) /\ Same(Bottom(c), Bottom(c))
  BY AttrCases, AttrApart, Zenon DEF Same
<1>2. ASSUME NEW p, p = At(Top(c)), NEW t, RoundDone(c, p, t) PROVE Abstract!Apply(c)
  BY <1>1, <1>2, ApplyIs, Zenon
<1>3. ASSUME NEW t, ToSplit(c, t), pte' = pte, ret' = ret PROVE UNCHANGED Abstract!vars
  <2>1. SetTop(c, t) /\ SameRound(Top(c), t) /\ Goto(c, "alloc") /\ pmd' = pmd
    BY <1>3, Zenon DEF ToSplit
  <2>2. /\ Applied(c)' = Applied(c) /\ Same(Bottom(c), Bottom(c)') /\ pc'[c] = "alloc"
    BY <1>1, <2>1, AppliedSplit, Zenon
  <2>3. Reqs' = Reqs
    BY <1>1, <2>2, ReqStays, Zenon DEF Same
  <2>4. Apps' = Apps
    BY <1>1, <2>2, AppStays, Zenon DEF Apps
  <2>5. Map' = Map
    BY <1>3, <2>1, MapStays, Zenon
  <2> QED
    BY <1>3, <2>3, <2>4, <2>5, StutterIs, Zenon
<1>4. ASSUME Fail(c, -14), UNCHANGED <<pmd, pte>> PROVE Abstract!Fail(c) \/ UNCHANGED Abstract!vars
  BY <1>1, <1>4, FailMaps, Zenon
<1> QED
  BY <1>2, <1>3, <1>4, AttrCases, Zenon

LEMMA StepMaps ==
  ASSUME Inv, Inv', NEW c \in Cpu, Call(c) \/ Step(c) \/ TlbLoad(c)
  PROVE  \/ Abstract!Begin(c) \/ Abstract!Apply(c) \/ Abstract!Enforce(c) \/ Abstract!Fail(c)
         \/ Abstract!End(c) \/ UNCHANGED Abstract!vars
<1>1. ASSUME Loop(c) \/ cpa_process_alias(c) \/ Adjust(c) \/ SplitFlush(c)
      PROVE  UNCHANGED Abstract!vars
  <2>1. /\ Applied(c)' = Applied(c) /\ Same(Bottom(c), Bottom(c)') /\ ret' = ret
        /\ pc[c] # "idle" /\ pc'[c] # "idle"
    BY <1>1, AppliedStays, Zenon
  <2>2. Apart(c) /\ Map' = Map
    BY <1>1, StepApart, MapStays, Zenon DEF Step, Loop, cpa_process_alias, Adjust, SplitFlush
  <2>3. Reqs' = Reqs /\ Apps' = Apps
    BY <2>1, <2>2, ReqStays, AppStays, Zenon DEF Same, Apps
  <2> QED
    BY <2>1, <2>2, <2>3, StutterIs, Zenon
<1>2. ASSUME Done(c) \/ cpa_flush(c), pc'[c] # "idle" PROVE UNCHANGED Abstract!vars
  <2>1. pc'[c] = "flush" /\ cpa' = cpa /\ Applied(c)' = Applied(c)
    BY <1>2, AppliedNone, Zenon
  <2>2. /\ pc[c] # "idle" /\ ret' = ret /\ Map' = Map /\ Apart(c)
    BY <1>2, MapStays, StepApart, Zenon DEF Done, cpa_flush, Step
  <2>3. Bottom(c)'.req = Bottom(c).req
    BY <2>1, Zenon DEF Bottom
  <2>4. Reqs' = Reqs /\ Apps' = Apps
    BY <2>1, <2>2, <2>3, ReqStays, AppStays, Zenon DEF Apps
  <2> QED
    BY <2>2, <2>4, StutterIs, Zenon
<1>3. ASSUME Alloc(c) PROVE Abstract!Fail(c) \/ UNCHANGED Abstract!vars
  <2>1. pc[c] = "alloc" /\ Apart(c) /\ UNCHANGED <<pmd, pte>>
    BY <1>3, StepApart, Zenon DEF Step, Alloc
  <2>2. CASE Goto(c, "split") /\ UNCHANGED <<cpa, ret>>
    <3>1. pc'[c] = "split" /\ Bottom(c)' = Bottom(c)
      BY <2>2, Zenon DEF Goto, Bottom, Inv, Types
    <3>2. Applied(c)' = Applied(c)
      BY <2>1, <2>2, <3>1, Zenon DEF Applied
    <3>3. Reqs' = Reqs /\ Apps' = Apps /\ Map' = Map
      BY <2>1, <3>1, <3>2, ReqStays, AppStays, MapStays, Zenon DEF Apps
    <3> QED
      BY <2>2, <3>3, StutterIs, Zenon
  <2>3. CASE Fail(c, -12)
    BY <2>1, <2>3, FailMaps, Zenon
  <2> QED
    BY <1>3, <2>2, <2>3, Zenon DEF Alloc
<1>4. ASSUME TlbLoad(c) PROVE UNCHANGED Abstract!vars
  <2>1. UNCHANGED <<pmd, pte, pc, cpa, ret>>
    BY <1>4, Zenon DEF TlbLoad
  <2>2. Reqs' = Reqs /\ Apps' = Apps
    BY <2>1, Zenon DEF Reqs, Apps, Applied, Bottom
  <2> QED
    BY <2>1, <2>2, MapStays, StutterIs, Zenon
<1> QED
  BY <1>1, <1>2, <1>3, <1>4, BeginIs, EndIs, EnforceIs, AttrMaps, Zenon DEF Step

(* Whatever the calls, the mappings at boot and the interleaving, the functions of
   pageattr.c change the mappings as PageProt promises: only pages that a call
   reaches change, to what it asks for less the bits static_protections keeps;
   frames never change; a call that returns 0 has been applied to all its pages. *)
THEOREM Implements == Spec => Refines
<1>1. Init => Abstract!Init
  BY Zenon DEF Init, Abstract!Init, Applied
<1>2. ASSUME Inv, Inv', [Next]_vars PROVE [Abstract!Next]_(Abstract!vars)
  <2>1. CASE UNCHANGED vars
    <3>1. UNCHANGED <<pmd, pte, pc, cpa, ret>>
      BY <2>1, Zenon DEF vars
    <3>2. Reqs' = Reqs /\ Apps' = Apps
      BY <3>1 DEF Reqs, Apps, Applied, Bottom
    <3> QED
      BY <3>1, <3>2, MapStays, StutterIs, Zenon
  <2>2. CASE Next
    <3>1. PICK c \in Cpu : Call(c) \/ Step(c) \/ TlbLoad(c)
      BY <2>2, Zenon DEF Next
    <3> QED
      BY <1>2, <3>1, StepMaps, Zenon DEF Abstract!Next
  <2> QED
    BY <1>2, <2>1, <2>2, Zenon
<1> QED
  BY <1>1, <1>2, Invariant, PTL DEF Spec, Refines, Abstract!Spec
=============================================================================
