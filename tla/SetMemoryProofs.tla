--------------------------- MODULE SetMemoryProofs ---------------------------
(***************************************************************************)
(* The reservations of cache modes (module SetMemory) are accounted for,   *)
(* and the bits of a page are those of its memory type, for any number of  *)
(* threads and pages, any ranges and arrays, and however often a change of *)
(* attributes fails.                                                       *)
(*                                                                         *)
(* The argument: a thread takes only pages that nobody has reserved and    *)
(* gives back only its own, once each, since the pages of a call are       *)
(* different and none of them is held already (Shape).                     *)
(***************************************************************************)
EXTENDS SetMemory, TLAPS

Call == [pages : Ranges \cup Arrays \cup {<<>>}, mode : Mode, i : Nat, free : Nat]

Pcs  == {"idle", "reserve", "set", "set_wc", "clear", "free"}

Types ==
    /\ memtype \in [Page -> Mode] /\ held \in [Thread -> SUBSET Page]
    /\ call \in [Thread -> Call]
    /\ pc \in [Thread -> Pcs]

(* All pages of a call, and those it has reserved and not given back. *)
All(c) == Pages(c.pages, Len(c.pages))
Part(c) == {c.pages[k] : k \in c.free + 1 .. c.i}

(* A call c at p, by a thread that holds h. *)
Shape(c, p, h) ==
    /\ c.free <= c.i /\ c.i <= Len(c.pages)
    /\ p = "idle" => c = NoCall
    /\ p \in {"reserve", "set", "set_wc"} => c.mode # "WB" /\ c.free = 0
    /\ p \in {"set", "set_wc", "clear"} => c.i = Len(c.pages) /\ c.free = 0
    /\ p = "clear" => All(c) \subseteq h
    /\ p # "clear" => Part(c) \cap h = {}

ShapeOf(t) == Shape(call[t], pc[t], held[t])

(* Reserved, of the same. *)
Counted(c, p, h) == h \cup (IF p = "clear" THEN {} ELSE Part(c))

LEMMA ReservedIs ==
  ASSUME NEW t PROVE Reserved(t) = Counted(call[t], pc[t], held[t])
  BY Zenon DEF Reserved, Mine, PageAt, Counted, Part

LEMMA ReservedNext ==
  ASSUME NEW t PROVE Reserved(t)' = Counted(call'[t], pc'[t], held'[t])
  BY Zenon DEF Reserved, Mine, PageAt, Counted, Part

Inv == Types /\ Accounted /\ \A t \in Thread : ShapeOf(t)

LEMMA NoCallType ==
    NoCall \in Call /\ NoCall.free = 0 /\ NoCall.i = 0 /\ Len(NoCall.pages) = 0
  BY Zenon DEF NoCall, Call, Mode

LEMMA CallType ==
  ASSUME NEW t \in Thread, Types
  PROVE  /\ call[t] \in Call /\ call[t].pages \in Seq(Page) /\ Len(call[t].pages) \in Nat
         /\ call[t].mode \in Mode /\ call[t].i \in Nat /\ call[t].free \in Nat
         /\ \A j, k \in 1 .. Len(call[t].pages) : call[t].pages[j] = call[t].pages[k] => j = k
<1>1. call[t] \in Call
  BY Zenon DEF Types
<1>2. /\ call[t].pages \in Ranges \cup Arrays \cup {<<>>}
      /\ call[t].mode \in Mode /\ call[t].i \in Nat /\ call[t].free \in Nat
  BY <1>1, Zenon DEF Call
<1>3. call[t].pages \in Seq(Page)
  <2>1. <<>> \in Seq(Page)
    OBVIOUS
  <2> QED
    BY <1>2, <2>1, SeqAssumption, Zenon
<1>4. Len(call[t].pages) \in Nat /\ DOMAIN call[t].pages = 1 .. Len(call[t].pages)
  BY <1>3
<1>5. CASE call[t].pages \in Ranges \cup Arrays
  BY <1>1, <1>2, <1>3, <1>4, <1>5, SeqAssumption, Zenon
<1>6. CASE call[t].pages = <<>>
  BY <1>1, <1>2, <1>3, <1>4, <1>6
<1> QED
  BY <1>2, <1>5, <1>6, Zenon

(* Between calls. *)
LEMMA IdleShape ==
  ASSUME NEW h PROVE Shape(NoCall, "idle", h) /\ Counted(NoCall, "idle", h) = h
<1>1. NoCall.free + 1 .. NoCall.i = {}
  BY NoCallType
<1>2. Part(NoCall) = {}
  BY <1>1, Zenon DEF Part
<1>3. NoCall.free <= NoCall.i /\ NoCall.i <= Len(NoCall.pages)
  BY NoCallType
<1> QED
  BY <1>2, <1>3, Zenon DEF Shape, Counted

LEMMA InitInv == Init => Inv
<1> SUFFICES ASSUME Init PROVE Inv
  BY Zenon
<1>1. Types
  BY NoCallType, Zenon DEF Init, Types, Mode, Pcs
<1>2. \A t \in Thread : pc[t] = "idle" /\ call[t] = NoCall /\ held[t] = {}
  BY Zenon DEF Init
<1>3. \A t \in Thread : ShapeOf(t) /\ Reserved(t) = {}
  BY <1>2, IdleShape, ReservedIs, Zenon DEF ShapeOf
<1>4. \A p \in Page : memtype[p] = "WB"
  BY Zenon DEF Init
<1>5. Accounted
  BY <1>3, <1>4, Zenon DEF Accounted
<1> QED
  BY <1>1, <1>3, <1>5, Zenon DEF Inv

(***************************************************************************)
(* What a step of t does to the account.                                   *)
(***************************************************************************)

(* Nothing about another thread changes. *)
Others(t) ==
    \A u \in Thread : u # t => pc'[u] = pc[u] /\ call'[u] = call[u] /\ held'[u] = held[u]

LEMMA OthersKeep ==
  ASSUME NEW t \in Thread, NEW u \in Thread, u # t, Others(t), Inv
  PROVE  ShapeOf(u)' /\ Reserved(u)' = Reserved(u)
<1>1. pc'[u] = pc[u] /\ call'[u] = call[u] /\ held'[u] = held[u]
  BY Zenon DEF Others
<1> QED
  BY <1>1, ReservedIs, Zenon DEF Inv, ShapeOf, Reserved, Mine, PageAt

LEMMA KeepInv ==
  ASSUME NEW t \in Thread, Inv, Types', Others(t), ShapeOf(t)', UNCHANGED memtype,
         Reserved(t)' = Reserved(t)
  PROVE  Inv'
<1>1. \A u \in Thread : ShapeOf(u)' /\ Reserved(u)' = Reserved(u)
  BY OthersKeep, Zenon
<1>2. Accounted'
  BY <1>1 DEF Inv, Accounted
<1> QED
  BY <1>1, <1>2, Zenon DEF Inv

LEMMA TakeInv ==
  ASSUME NEW t \in Thread, NEW P \in SUBSET Page, NEW m \in Mode \ {"WB"},
         Inv, Types', Others(t), ShapeOf(t)', reserve_memtype(P, m),
         \A p \in P : memtype[p] = "WB", Reserved(t)' = Reserved(t) \cup P
  PROVE  Inv'
<1>1. \A u \in Thread : ShapeOf(u)' /\ (u # t => Reserved(u)' = Reserved(u))
  BY OthersKeep, Zenon
<1>2. \A p \in Page : memtype'[p] = IF p \in P THEN m ELSE memtype[p]
  BY Zenon DEF reserve_memtype
<1>3. ASSUME NEW p \in P, NEW u \in Thread PROVE p \notin Reserved(u)
  BY <1>3, Zenon DEF Inv, Accounted
<1>4. ASSUME NEW p \in Page
      PROVE  /\ memtype'[p] # "WB" <=> \E u \in Thread : p \in Reserved(u)'
             /\ \A u, v \in Thread : p \in Reserved(u)' \cap Reserved(v)' => u = v
  <2>1. CASE p \in P
    BY <1>1, <1>2, <1>3, <2>1, Zenon
  <2>2. CASE p \notin P
    <3>1. \A u \in Thread : p \in Reserved(u)' <=> p \in Reserved(u)
      BY <1>1, <2>2, Zenon
    <3> QED
      BY <1>2, <2>2, <3>1, Zenon DEF Inv, Accounted
  <2> QED
    BY <2>1, <2>2, Zenon
<1> QED
  BY <1>1, <1>4, Zenon DEF Inv, Accounted

LEMMA GiveInv ==
  ASSUME NEW t \in Thread, NEW q \in Reserved(t), q \in Page,
         Inv, Types', Others(t), ShapeOf(t)', free_memtype(q),
         Reserved(t)' = Reserved(t) \ {q}
  PROVE  Inv'
<1>1. \A u \in Thread : ShapeOf(u)' /\ (u # t => Reserved(u)' = Reserved(u))
  BY OthersKeep, Zenon
<1>2. \A p \in Page : memtype'[p] = IF p = q THEN "WB" ELSE memtype[p]
  BY Zenon DEF free_memtype, Inv, Types
<1>3. \A u \in Thread : u # t => q \notin Reserved(u)
  BY Zenon DEF Inv, Accounted
<1>4. ASSUME NEW p \in Page
      PROVE  /\ memtype'[p] # "WB" <=> \E u \in Thread : p \in Reserved(u)'
             /\ \A u, v \in Thread : p \in Reserved(u)' \cap Reserved(v)' => u = v
  <2>1. CASE p = q
    BY <1>1, <1>2, <1>3, <2>1, Zenon
  <2>2. CASE p # q
    <3>1. \A u \in Thread : p \in Reserved(u)' <=> p \in Reserved(u)
      BY <1>1, <2>2, Zenon
    <3> QED
      BY <1>2, <2>2, <3>1, Zenon DEF Inv, Accounted
  <2> QED
    BY <2>1, <2>2, Zenon
<1> QED
  BY <1>1, <1>4, Zenon DEF Inv, Accounted

(* The step takes t to call c, position p and pages h. *)
Goes(t, c, p, h) ==
    /\ call' = [call EXCEPT ![t] = c] /\ pc' = [pc EXCEPT ![t] = p]
    /\ held' = [held EXCEPT ![t] = h]

LEMMA GoesTo ==
  ASSUME NEW t \in Thread, NEW c \in Call, NEW p \in Pcs, NEW h \in SUBSET Page,
         Types, Goes(t, c, p, h), memtype' \in [Page -> Mode], Shape(c, p, h)
  PROVE  Types' /\ Others(t) /\ ShapeOf(t)' /\ Reserved(t)' = Counted(c, p, h)
<1>1. Types' /\ Others(t)
  BY Zenon DEF Types, Goes, Others
<1>2. call'[t] = c /\ pc'[t] = p /\ held'[t] = h
  BY Zenon DEF Types, Goes
<1> QED
  BY <1>1, <1>2, ReservedNext, Zenon DEF ShapeOf

LEMMA KeepStep ==
  ASSUME NEW t \in Thread, NEW c \in Call, NEW p \in Pcs, NEW h \in SUBSET Page,
         Inv, Goes(t, c, p, h), UNCHANGED memtype, Shape(c, p, h),
         Counted(c, p, h) = Counted(call[t], pc[t], held[t])
  PROVE  Inv'
<1>1. memtype' \in [Page -> Mode] /\ Types
  BY Zenon DEF Inv, Types
<1> QED
  BY <1>1, GoesTo, ReservedIs, KeepInv, Zenon

LEMMA TakeStep ==
  ASSUME NEW t \in Thread, NEW c \in Call, NEW p \in Pcs, NEW P \in SUBSET Page,
         NEW m \in Mode \ {"WB"}, Inv, Goes(t, c, p, held[t]), Shape(c, p, held[t]),
         reserve_memtype(P, m), \A q \in P : memtype[q] = "WB",
         Counted(c, p, held[t]) = Counted(call[t], pc[t], held[t]) \cup P
  PROVE  Inv'
<1>1. memtype' \in [Page -> Mode] /\ Types /\ held[t] \in SUBSET Page
  BY Zenon DEF Inv, Types, reserve_memtype
<1> QED
  BY <1>1, GoesTo, ReservedIs, TakeInv

(* What a thread holds or has reserved is not free for it to take. *)
LEMMA FreePages ==
  ASSUME NEW t \in Thread, NEW P \in SUBSET Page, Inv, \A q \in P : memtype[q] = "WB"
  PROVE  P \cap Counted(call[t], pc[t], held[t]) = {} /\ P \cap held[t] = {}
  BY ReservedIs, Zenon DEF Inv, Accounted, Counted

LEMMA Idle ==
  ASSUME NEW t \in Thread, Inv, pc[t] = "idle"
  PROVE  Counted(call[t], pc[t], held[t]) = held[t]
  BY IdleShape, Zenon DEF Inv, ShapeOf, Shape

(***************************************************************************)
(* The pages of a call.                                                    *)
(***************************************************************************)

(* A call that starts: all pages reserved, or none. *)
LEMMA StartCall ==
  ASSUME NEW s \in Ranges \cup Arrays, NEW m \in Mode
  PROVE  /\ [pages |-> s, mode |-> m, i |-> Len(s), free |-> 0] \in Call
         /\ [pages |-> s, mode |-> m, i |-> 0, free |-> 0] \in Call
         /\ Part([pages |-> s, mode |-> m, i |-> Len(s), free |-> 0]) = Pages(s, Len(s))
         /\ Part([pages |-> s, mode |-> m, i |-> 0, free |-> 0]) = {}
         /\ Pages(s, Len(s)) \in SUBSET Page /\ Len(s) \in Nat
<1>1. s \in Seq(Page) /\ Len(s) \in Nat
  BY SeqAssumption
<1>2. 0 + 1 .. Len(s) = 1 .. Len(s) /\ 0 + 1 .. 0 = {}
  OBVIOUS
<1>3. \A k \in 1 .. Len(s) : s[k] \in Page
  BY <1>1
<1> QED
  BY <1>1, <1>2, <1>3, Zenon DEF Call, Part, Pages

LEMMA PartIsAll ==
  ASSUME NEW c \in Call, c.free = 0, c.i = Len(c.pages) PROVE Part(c) = All(c)
<1>1. c.free + 1 = 1
  OBVIOUS
<1> QED
  BY <1>1, Zenon DEF Part, All, Pages

LEMMA NextFree ==
  ASSUME NEW n \in Nat, NEW i \in Nat, NEW len \in Nat, n <= i, n # i, i <= len
  PROVE  /\ n + 1 .. i = ((n + 1) + 1 .. i) \cup {n + 1}
         /\ n + 1 \in 1 .. len /\ n + 1 <= i
         /\ \A k \in (n + 1) + 1 .. i : k \in 1 .. len /\ k # n + 1
  OBVIOUS

(***************************************************************************)
(* One lemma per action.                                                   *)
(***************************************************************************)

LEMMA SetMemoryStep == ASSUME NEW t \in Thread, Inv, set_memory(t) PROVE Inv'
<1>1. PICK s \in Ranges, m \in {"UC_MINUS", "WC"} :
         /\ \A k \in DOMAIN s : memtype[s[k]] = "WB"
         /\ reserve_memtype(Pages(s, Len(s)), m)
         /\ call' = [call EXCEPT ![t] = [pages |-> s, mode |-> m, i |-> Len(s), free |-> 0]]
  BY Zenon DEF set_memory
<1> DEFINE c == [pages |-> s, mode |-> m, i |-> Len(s), free |-> 0]
<1> DEFINE P == Pages(s, Len(s))
<1>2. m \in Mode \ {"WB"}
  BY Zenon DEF Mode
<1>3. c \in Call /\ Part(c) = P /\ P \in SUBSET Page /\ Len(s) \in Nat
  BY <1>2, StartCall, Zenon
<1>4. \A q \in P : memtype[q] = "WB"
  <2>1. DOMAIN s = 1 .. Len(s)
    BY SeqAssumption
  <2> QED
    BY <1>1, <2>1, Zenon DEF Pages
<1>5. P \cap held[t] = {}
  BY <1>3, <1>4, FreePages, Zenon
<1>6. Shape(c, "set", held[t])
  <2>1. c.free = 0 /\ c.i = Len(s) /\ c.pages = s /\ c.mode = m /\ c.free <= c.i
    BY <1>3
  <2> QED
    BY <1>2, <1>3, <1>5, <2>1 DEF Shape
<1>7. Goes(t, c, "set", held[t])
  BY <1>1, Zenon DEF Goes, set_memory, Goto, Inv, Types
<1>8. pc[t] = "idle"
  BY Zenon DEF set_memory
<1>9. Counted(c, "set", held[t]) = Counted(call[t], pc[t], held[t]) \cup P
  BY <1>3, <1>8, Idle, Zenon DEF Counted
<1>10. reserve_memtype(P, m) /\ "set" \in Pcs
  BY <1>1, Zenon DEF Pcs
<1> HIDE DEF c, P
<1> QED
  BY <1>2, <1>3, <1>4, <1>6, <1>7, <1>9, <1>10, TakeStep, Zenon

LEMMA SetPagesArrayStep == ASSUME NEW t \in Thread, Inv, _set_pages_array(t) PROVE Inv'
<1>1. PICK s \in Arrays, m \in Mode \ {"WB"} :
         call' = [call EXCEPT ![t] = [pages |-> s, mode |-> m, i |-> 0, free |-> 0]]
  BY Zenon DEF _set_pages_array
<1> DEFINE c == [pages |-> s, mode |-> m, i |-> 0, free |-> 0]
<1>2. c \in Call /\ Part(c) = {} /\ Len(s) \in Nat
  BY StartCall, Zenon
<1>3. Shape(c, "reserve", held[t])
  BY <1>2 DEF Shape
<1>4. Goes(t, c, "reserve", held[t]) /\ UNCHANGED memtype /\ pc[t] = "idle"
  BY <1>1, Zenon DEF Goes, _set_pages_array, Goto, Inv, Types
<1>5. Counted(c, "reserve", held[t]) = Counted(call[t], pc[t], held[t])
  BY <1>2, <1>4, Idle, Zenon DEF Counted
<1>6. held[t] \in SUBSET Page /\ "reserve" \in Pcs
  BY Zenon DEF Inv, Types, Pcs
<1> HIDE DEF c
<1> QED
  BY <1>2, <1>3, <1>4, <1>5, <1>6, KeepStep, Zenon

LEMMA SetMemoryWbStep == ASSUME NEW t \in Thread, Inv, set_memory_wb(t) PROVE Inv'
<1>1. PICK s \in Ranges \cup Arrays :
         /\ Pages(s, Len(s)) \subseteq held[t]
         /\ call' = [call EXCEPT ![t] = [pages |-> s, mode |-> "WB", i |-> Len(s), free |-> 0]]
  BY Zenon DEF set_memory_wb
<1> DEFINE c == [pages |-> s, mode |-> "WB", i |-> Len(s), free |-> 0]
<1>2. "WB" \in Mode
  BY Zenon DEF Mode
<1>3. c \in Call /\ Len(s) \in Nat
  BY <1>2, StartCall, Zenon
<1>4. Shape(c, "clear", held[t])
  <2>1. c.free = 0 /\ c.i = Len(s) /\ c.pages = s /\ c.free <= c.i
    BY <1>3
  <2> QED
    BY <1>1, <1>3, <2>1 DEF Shape, All
<1>5. Goes(t, c, "clear", held[t]) /\ UNCHANGED memtype /\ pc[t] = "idle"
  BY <1>1, Zenon DEF Goes, set_memory_wb, Goto, Inv, Types
<1>6. Counted(c, "clear", held[t]) = Counted(call[t], pc[t], held[t])
  BY <1>5, Idle, Zenon DEF Counted
<1>7. held[t] \in SUBSET Page /\ "clear" \in Pcs
  BY Zenon DEF Inv, Types, Pcs
<1> HIDE DEF c
<1> QED
  BY <1>3, <1>4, <1>5, <1>6, <1>7, KeepStep, Zenon

(* The call goes on as it is. *)
LEMMA MoveStep ==
  ASSUME NEW t \in Thread, NEW p \in Pcs \ {"clear"}, Inv, pc[t] # "clear", Goto(t, p),
         UNCHANGED <<memtype, call, held>>, Shape(call[t], p, held[t])
  PROVE  Inv'
<1>1. call[t] \in Call /\ held[t] \in SUBSET Page
  BY Zenon DEF Inv, Types
<1>2. Goes(t, call[t], p, held[t])
  BY Zenon DEF Goes, Goto, Inv, Types
<1>3. Counted(call[t], p, held[t]) = Counted(call[t], pc[t], held[t])
  BY Zenon DEF Counted
<1> QED
  BY <1>1, <1>2, <1>3, KeepStep, Zenon

(* The call ends and leaves t with h. *)
LEMMA FinishStep ==
  ASSUME NEW t \in Thread, NEW h \in SUBSET Page, Inv, Finish(t), UNCHANGED memtype,
         held' = [held EXCEPT ![t] = h], h = Counted(call[t], pc[t], held[t])
  PROVE  Inv'
<1>1. Goes(t, NoCall, "idle", h)
  BY Zenon DEF Goes, Finish, Goto
<1>2. "idle" \in Pcs
  BY Zenon DEF Pcs
<1> QED
  BY <1>1, <1>2, IdleShape, NoCallType, KeepStep, Zenon

LEMMA ReservePageStep == ASSUME NEW t \in Thread, Inv, ReservePage(t) PROVE Inv'
<1> DEFINE c == call[t]
<1> DEFINE q == PageAt(t, c.i + 1)
<1>1. pc[t] = "reserve" /\ UNCHANGED held
  BY Zenon DEF ReservePage
<1>2. Shape(c, "reserve", held[t]) /\ Types
  BY <1>1, Zenon DEF Inv, ShapeOf
<1>3. /\ c \in Call /\ c.pages \in Seq(Page) /\ Len(c.pages) \in Nat /\ c.mode \in Mode
      /\ c.i \in Nat /\ c.free \in Nat
  BY <1>2, CallType, Zenon
<1>4. c.free = 0 /\ c.mode # "WB" /\ c.i <= Len(c.pages)
  BY <1>2, Zenon DEF Shape
<1>5. CASE c.i = Len(c.pages)
  <2>1. Goto(t, "set") /\ UNCHANGED <<memtype, call>>
    BY <1>5, Zenon DEF ReservePage
  <2>2. Shape(c, "set", held[t])
    BY <1>2, <1>5, Zenon DEF Shape
  <2> QED
    BY <1>1, <2>1, <2>2, MoveStep, Zenon DEF Pcs
<1>6. CASE c.i # Len(c.pages) /\ memtype[q] # "WB"
  <2>1. Goto(t, "free") /\ UNCHANGED <<memtype, call>>
    BY <1>6, Zenon DEF ReservePage
  <2>2. Shape(c, "free", held[t])
    BY <1>2, Zenon DEF Shape
  <2> QED
    BY <1>1, <2>1, <2>2, MoveStep, Zenon DEF Pcs
<1>7. CASE c.i # Len(c.pages) /\ memtype[q] = "WB"
  <2> DEFINE d == [c EXCEPT !.i = c.i + 1]
  <2>1. reserve_memtype({q}, c.mode) /\ call' = [call EXCEPT ![t].i = @ + 1] /\ UNCHANGED pc
    BY <1>7, Zenon DEF ReservePage
  <2>2. /\ d \in Call /\ d.pages = c.pages /\ d.mode = c.mode /\ d.free = 0
        /\ d.i = c.i + 1
    BY <1>3, <1>4 DEF Call
  <2>3. c.i + 1 \in 1 .. Len(c.pages)
    BY <1>3, <1>4, <1>7
  <2>4. {q} \in SUBSET Page
    BY <1>3, <2>3 DEF PageAt
  <2>5. 0 + 1 .. c.i + 1 = (0 + 1 .. c.i) \cup {c.i + 1}
    BY <1>3
  <2>6. Part(d) = Part(c) \cup {q}
    BY <1>4, <2>2, <2>5 DEF Part, PageAt
  <2>7. {q} \cap held[t] = {}
    BY <1>7, <2>4, FreePages, Zenon
  <2>8. Part(c) \cap held[t] = {}
    BY <1>2, Zenon DEF Shape
  <2>9. d.i <= Len(d.pages) /\ d.free <= d.i
    BY <1>3, <2>2, <2>3
  <2>10. Shape(d, "reserve", held[t])
    BY <1>4, <2>2, <2>6, <2>7, <2>8, <2>9, Zenon DEF Shape
  <2>11. Goes(t, d, "reserve", held[t])
    BY <1>1, <2>1, Zenon DEF Goes, Inv, Types
  <2>12. Counted(d, "reserve", held[t]) = Counted(c, pc[t], held[t]) \cup {q}
    BY <1>1, <2>6, Zenon DEF Counted
  <2>13. c.mode \in Mode \ {"WB"} /\ "reserve" \in Pcs /\ \A x \in {q} : memtype[x] = "WB"
    BY <1>3, <1>4, <1>7, Zenon DEF Pcs
  <2> HIDE DEF c, q, d
  <2> QED
    BY <2>1, <2>2, <2>4, <2>10, <2>11, <2>12, <2>13, TakeStep, Zenon DEF c
<1> QED
  BY <1>5, <1>6, <1>7, Zenon

(* The two ends of setting a mode. *)
LEMMA SetEnds ==
  ASSUME NEW t \in Thread, Inv, pc[t] \in {"set", "set_wc"}, UNCHANGED memtype,
         \/ Succeed(t)
         \/ \E p \in {"set_wc", "free"} : Goto(t, p) /\ UNCHANGED <<held, call>>
  PROVE  Inv'
<1> DEFINE c == call[t]
<1>1. Shape(c, pc[t], held[t]) /\ Types
  BY Zenon DEF Inv, ShapeOf
<1>2. c \in Call /\ c.i = Len(c.pages) /\ c.free = 0 /\ c.mode # "WB"
  BY <1>1, CallType, Zenon DEF Shape
<1>3. CASE Succeed(t)
  <2>1. Part(c) = All(c)
    BY <1>2, PartIsAll, Zenon
  <2>2. held' = [held EXCEPT ![t] = held[t] \cup All(c)] /\ Finish(t)
    BY <1>3, Zenon DEF Succeed, All
  <2>3. c.pages \in Seq(Page)
    BY <1>1, CallType, Zenon
  <2>4. All(c) \subseteq Page
    BY <2>3 DEF All, Pages
  <2>5. held[t] \cup All(c) = Counted(c, pc[t], held[t]) /\ held[t] \cup All(c) \in SUBSET Page
    BY <1>1, <2>1, <2>4, Zenon DEF Counted, Types
  <2> HIDE DEF c
  <2> QED
    BY <2>2, <2>5, FinishStep, Zenon DEF c
<1>4. ASSUME NEW p \in {"set_wc", "free"}, Goto(t, p), UNCHANGED <<held, call>> PROVE Inv'
  <2>1. Shape(c, p, held[t])
    BY <1>1, <1>2, Zenon DEF Shape
  <2> QED
    BY <1>4, <2>1, MoveStep, Zenon DEF Pcs
<1> QED
  BY <1>3, <1>4, Zenon

LEMMA SetModeStep == ASSUME NEW t \in Thread, Inv, SetMode(t) \/ SetWc(t) PROVE Inv'
<1>1. pc[t] \in {"set", "set_wc"} /\ UNCHANGED memtype
  BY Zenon DEF SetMode, SetWc
<1>2. \/ Succeed(t)
      \/ \E p \in {"set_wc", "free"} : Goto(t, p) /\ UNCHANGED <<held, call>>
  BY Zenon DEF SetMode, SetWc, ChangeAttr
<1> QED
  BY <1>1, <1>2, SetEnds, Zenon

LEMMA ClearModeStep == ASSUME NEW t \in Thread, Inv, ClearMode(t) PROVE Inv'
<1> DEFINE c == call[t]
<1>1. pc[t] = "clear" /\ UNCHANGED memtype
  BY Zenon DEF ClearMode
<1>2. Shape(c, "clear", held[t]) /\ Types
  BY <1>1, Zenon DEF Inv, ShapeOf
<1>3. c \in Call /\ c.i = Len(c.pages) /\ c.free = 0 /\ All(c) \subseteq held[t] /\ c.free <= c.i
  BY <1>2, CallType, Zenon DEF Shape
<1>4. held[t] \in SUBSET Page
  BY <1>2, Zenon DEF Types
<1>5. CASE held' = [held EXCEPT ![t] = @ \ All(c)] /\ Goto(t, "free") /\ UNCHANGED call
  <2>1. Goes(t, c, "free", held[t] \ All(c))
    BY <1>2, <1>5, Zenon DEF Goes, Goto, Types
  <2>2. Part(c) = All(c)
    BY <1>3, PartIsAll, Zenon
  <2>3. Shape(c, "free", held[t] \ All(c))
    BY <1>2, <1>3, <2>2, Zenon DEF Shape
  <2>4. Counted(c, "free", held[t] \ All(c)) = Counted(c, pc[t], held[t])
    BY <1>1, <1>3, <2>2, Zenon DEF Counted
  <2>5. held[t] \ All(c) \in SUBSET Page /\ "free" \in Pcs
    BY <1>4, Zenon DEF Pcs
  <2> HIDE DEF c
  <2> QED
    BY <1>1, <1>3, <2>1, <2>3, <2>4, <2>5, KeepStep, Zenon DEF c
<1>6. CASE Finish(t) /\ UNCHANGED held
  <2>1. held' = [held EXCEPT ![t] = held[t]]
    BY <1>2, <1>6, Zenon DEF Types
  <2>2. held[t] = Counted(call[t], pc[t], held[t])
    BY <1>1, Zenon DEF Counted
  <2> QED
    BY <1>1, <1>4, <1>6, <2>1, <2>2, FinishStep, Zenon
<1> QED
  BY <1>5, <1>6, Zenon DEF ClearMode, ChangeAttr, All

LEMMA FreePageStep == ASSUME NEW t \in Thread, Inv, FreePage(t) PROVE Inv'
<1> DEFINE c == call[t]
<1> DEFINE q == PageAt(t, c.free + 1)
<1>1. pc[t] = "free" /\ UNCHANGED held
  BY Zenon DEF FreePage
<1>2. Shape(c, "free", held[t]) /\ Types
  BY <1>1, Zenon DEF Inv, ShapeOf
<1>3. /\ c \in Call /\ c.pages \in Seq(Page) /\ Len(c.pages) \in Nat
      /\ c.i \in Nat /\ c.free \in Nat /\ c.free <= c.i /\ c.i <= Len(c.pages)
      /\ \A j, k \in 1 .. Len(c.pages) : c.pages[j] = c.pages[k] => j = k
  BY <1>2, CallType, Zenon DEF Shape
<1>4. held[t] \in SUBSET Page
  BY <1>2, Zenon DEF Types
<1>5. CASE c.free = c.i
  <2>1. Finish(t) /\ UNCHANGED memtype
    BY <1>5, Zenon DEF FreePage
  <2>2. c.free + 1 .. c.i = {}
    BY <1>3, <1>5
  <2>3. held[t] = Counted(call[t], pc[t], held[t])
    BY <1>1, <2>2, Zenon DEF Counted, Part
  <2>4. held' = [held EXCEPT ![t] = held[t]]
    BY <1>1, <1>2, Zenon DEF Types
  <2> QED
    BY <1>4, <2>1, <2>3, <2>4, FinishStep, Zenon
<1>6. CASE c.free # c.i
  <2> DEFINE d == [c EXCEPT !.free = c.free + 1]
  <2>1. free_memtype(q) /\ call' = [call EXCEPT ![t].free = @ + 1] /\ UNCHANGED pc
    BY <1>6, Zenon DEF FreePage
  <2>2. d \in Call /\ d.pages = c.pages /\ d.i = c.i /\ d.free = c.free + 1
    BY <1>3 DEF Call
  <2>3. /\ c.free + 1 .. c.i = (d.free + 1 .. d.i) \cup {c.free + 1}
        /\ c.free + 1 \in 1 .. Len(c.pages) /\ d.free <= d.i
        /\ \A k \in d.free + 1 .. d.i : k \in 1 .. Len(c.pages) /\ k # c.free + 1
    <3> HIDE DEF c, d
    <3> QED
      BY <1>3, <1>6, <2>2, NextFree
  <2>4. q = c.pages[c.free + 1] /\ q \in Page
    BY <1>3, <2>3 DEF PageAt
  <2>5. Part(c) = Part(d) \cup {q}
    BY <2>2, <2>3, <2>4, Zenon DEF Part
  <2>6. q \notin Part(d)
    BY <1>3, <2>2, <2>3, <2>4, Zenon DEF Part
  <2>7. Part(c) \cap held[t] = {}
    BY <1>2, Zenon DEF Shape
  <2>8. Shape(d, "free", held[t])
    BY <1>3, <2>2, <2>3, <2>5, <2>7, Zenon DEF Shape
  <2>9. Goes(t, d, "free", held[t])
    BY <1>1, <1>2, <2>1, Zenon DEF Goes, Types
  <2>10. Counted(d, "free", held[t]) = Counted(c, pc[t], held[t]) \ {q}
    BY <1>1, <2>5, <2>6, <2>7, Zenon DEF Counted
  <2>11. q \in Counted(c, pc[t], held[t])
    BY <1>1, <2>5, Zenon DEF Counted
  <2>12. memtype' \in [Page -> Mode] /\ "free" \in Pcs
    BY <1>2, <2>1, Zenon DEF free_memtype, Types, Mode, Pcs
  <2>13. Types' /\ Others(t) /\ ShapeOf(t)' /\ Reserved(t)' = Counted(d, "free", held[t])
    <3> HIDE DEF c, q, d
    <3> QED
      BY <1>2, <1>4, <2>2, <2>8, <2>9, <2>12, GoesTo, Zenon
  <2>14. q \in Reserved(t) /\ Reserved(t)' = Reserved(t) \ {q}
    BY <2>10, <2>11, <2>13, ReservedIs, Zenon
  <2> HIDE DEF c, q, d
  <2> QED
    BY <2>1, <2>4, <2>13, <2>14, GiveInv, Zenon
<1> QED
  BY <1>5, <1>6, Zenon

LEMMA StutterInv == Inv /\ UNCHANGED vars => Inv'
<1> SUFFICES ASSUME Inv, UNCHANGED vars PROVE Inv'
  BY Zenon
<1>1. Types' /\ \A t \in Thread : ShapeOf(t)'
  BY Zenon DEF Inv, Types, ShapeOf, vars
<1>2. \A t \in Thread : Reserved(t)' = Reserved(t)
  BY ReservedIs, ReservedNext, Zenon DEF vars
<1>3. Accounted'
  BY <1>2 DEF Inv, Accounted, vars
<1> QED
  BY <1>1, <1>3, Zenon DEF Inv

(* The invariant the theorem rests on. *)
THEOREM Invariant == Spec => []Inv
<1>1. Inv /\ [Next]_vars => Inv'
  <2> SUFFICES ASSUME Inv, [Next]_vars PROVE Inv'
    BY Zenon
  <2>1. CASE Next
    BY <2>1, SetMemoryStep, SetPagesArrayStep, ReservePageStep, SetModeStep,
       SetMemoryWbStep, ClearModeStep, FreePageStep, Zenon DEF Next
  <2>2. CASE UNCHANGED vars
    BY <2>2, StutterInv, Zenon
  <2> QED
    BY <2>1, <2>2, Zenon
<1> QED
  BY InitInv, <1>1, PTL DEF Spec

(* A page is reserved exactly when one thread accounts for it, on every error path
   of set_memory_uc, set_memory_wc, _set_pages_array and set_memory_wb. *)
THEOREM AlwaysAccounted == Spec => []Accounted
<1>1. Inv => Accounted
  BY Zenon DEF Inv
<1> QED
  BY Invariant, <1>1, PTL

(***************************************************************************)
(* The bits of the pages.  A page nobody reserved has none, a page held    *)
(* has those of its type, and a page of a call under way has those of the  *)
(* changes made so far; a step changes only pages of its own thread.       *)
(***************************************************************************)

(* The bits that the pages of a call have at p. *)
Expected(p) == IF p = "set_wc" THEN cachemode2pgprot["UC_MINUS"] ELSE {}

BitsOf(t) ==
    /\ \A q \in held[t] \ torn : attr[q] = cachemode2pgprot[memtype[q]]
    /\ pc[t] # "clear" => \A q \in Part(call[t]) \ torn : attr[q] = Expected(pc[t])
    /\ pc[t] \in {"reserve", "set", "set_wc"} =>
           \A q \in Part(call[t]) : memtype[q] = call[t].mode
    /\ pc[t] = "set_wc" => call[t].mode = "WC"

Bits ==
    /\ attr \in [Page -> SUBSET Mask]
    /\ \A p \in Page \ torn : memtype[p] = "WB" => attr[p] = {}
    /\ \A t \in Thread : BitsOf(t)

LEMMA ModeBits ==
    /\ cachemode2pgprot["WB"] = {} /\ cachemode2pgprot["WC"] = {"PWT"}
    /\ cachemode2pgprot["UC_MINUS"] = {"PCD"} /\ cachemode2pgprot["WT"] = Mask
    /\ \A m \in Mode : cachemode2pgprot[m] \in SUBSET Mask
  BY Zenon DEF cachemode2pgprot, Mode, Mask

LEMMA PartInPage == ASSUME NEW t \in Thread, Inv PROVE Part(call[t]) \subseteq Page
<1>1. /\ call[t].pages \in Seq(Page) /\ Len(call[t].pages) \in Nat
      /\ call[t].i \in Nat /\ call[t].free \in Nat /\ call[t].i <= Len(call[t].pages)
  BY CallType, Zenon DEF Inv, ShapeOf, Shape
<1>2. \A k \in call[t].free + 1 .. call[t].i : k \in 1 .. Len(call[t].pages)
  BY <1>1
<1> QED
  BY <1>1, <1>2 DEF Part

LEMMA ReservedInPage == ASSUME NEW t \in Thread, Inv PROVE Reserved(t) \subseteq Page
  BY PartInPage, ReservedIs, Zenon DEF Counted, Inv, Types

(* A step of t that changes only pages P, none of them another thread's. *)
LEMMA BitsStep ==
  ASSUME NEW t \in Thread, NEW P \in SUBSET Page, Inv, Bits, Others(t), BitsOf(t)',
         attr' \in [Page -> SUBSET Mask],
         \A u \in Thread : u # t => P \cap Reserved(u) = {},
         \A q \in Page \ P : /\ attr'[q] = attr[q] /\ memtype'[q] = memtype[q]
                             /\ q \in torn' <=> q \in torn,
         \A q \in P \ torn' : memtype'[q] = "WB" => attr'[q] = {}
  PROVE  Bits'
<1>1. ASSUME NEW u \in Thread, u # t PROVE BitsOf(u)'
  <2>1. pc'[u] = pc[u] /\ call'[u] = call[u] /\ held'[u] = held[u] /\ BitsOf(u)
    BY <1>1, Zenon DEF Others, Bits
  <2>2. ASSUME NEW q \in Reserved(u)
        PROVE  attr'[q] = attr[q] /\ memtype'[q] = memtype[q] /\ (q \in torn' <=> q \in torn)
    BY <1>1, ReservedInPage, Zenon
  <2>3. \A q \in held[u] : q \in Reserved(u)
    BY Zenon DEF Reserved
  <2>4. pc[u] # "clear" => \A q \in Part(call[u]) : q \in Reserved(u)
    BY ReservedIs, Zenon DEF Counted
  <2> QED
    BY <2>1, <2>2, <2>3, <2>4 DEF BitsOf
<1>2. \A q \in Page \ torn' : memtype'[q] = "WB" => attr'[q] = {}
  BY Zenon DEF Bits
<1> QED
  BY <1>1, <1>2, Zenon DEF Bits

LEMMA NoPart == Part(NoCall) = {}
  BY NoCallType DEF Part

LEMMA InitBits == Init => Bits
<1> SUFFICES ASSUME Init PROVE Bits
  BY Zenon
<1>1. \A t \in Thread : BitsOf(t)
  BY NoPart, Zenon DEF Init, BitsOf
<1> QED
  BY <1>1, Zenon DEF Init, Bits

(* A step of t that leaves memory types and attributes alone. *)
LEMMA QuietBits ==
  ASSUME NEW t \in Thread, Inv, Bits, Others(t), UNCHANGED <<memtype, attr, torn>>, BitsOf(t)'
  PROVE  Bits'
<1>1. {} \in SUBSET Page /\ attr' \in [Page -> SUBSET Mask]
  BY Zenon DEF Bits
<1> QED
  BY <1>1, BitsStep, Zenon

(* A step of t that changes the bits of some pages of its call. *)
LEMMA ChangeBits ==
  ASSUME NEW t \in Thread, Inv, Bits, Others(t), UNCHANGED memtype, BitsOf(t)',
         All(call[t]) \subseteq Reserved(t), attr' \in [Page -> SUBSET Mask],
         \A q \in Page \ All(call[t]) : attr'[q] = attr[q],
         torn' \in {torn, torn \ All(call[t]), torn \cup All(call[t])}
  PROVE  Bits'
<1> DEFINE A == All(call[t])
<1>1. A \in SUBSET Page
  BY ReservedInPage, Zenon
<1>2. \A u \in Thread : u # t => A \cap Reserved(u) = {}
  BY <1>1, Zenon DEF Inv, Accounted
<1>3. \A q \in Page \ A : q \in torn' <=> q \in torn
  BY <1>1, Zenon
<1>4. \A q \in A : memtype'[q] # "WB"
  BY <1>1, Zenon DEF Inv, Accounted
<1> HIDE DEF A
<1> QED
  BY <1>1, <1>2, <1>3, <1>4, BitsStep, Zenon DEF A

LEMMA SetMemoryBits == ASSUME NEW t \in Thread, Inv, Bits, set_memory(t) PROVE Bits'
<1>1. PICK s \in Ranges, m \in {"UC_MINUS", "WC"} :
         /\ \A k \in DOMAIN s : memtype[s[k]] = "WB"
         /\ reserve_memtype(Pages(s, Len(s)), m)
         /\ call' = [call EXCEPT ![t] = [pages |-> s, mode |-> m, i |-> Len(s), free |-> 0]]
  BY Zenon DEF set_memory
<1> DEFINE P == Pages(s, Len(s))
<1>2. m \in Mode /\ m # "WB"
  BY Zenon DEF Mode
<1>3. Part([pages |-> s, mode |-> m, i |-> Len(s), free |-> 0]) = P /\ P \in SUBSET Page
  BY <1>2, StartCall, Zenon
<1>4. \A q \in P : memtype[q] = "WB"
  <2>1. DOMAIN s = 1 .. Len(s)
    BY SeqAssumption
  <2> QED
    BY <1>1, <2>1, Zenon DEF Pages
<1>5. \A u \in Thread : P \cap Reserved(u) = {}
  BY <1>3, <1>4, Zenon DEF Inv, Accounted
<1>6. /\ Others(t) /\ UNCHANGED <<attr, held, torn>>
      /\ pc'[t] = "set" /\ Part(call'[t]) = P /\ call'[t].mode = m
  BY <1>1, <1>3, Zenon DEF set_memory, Goto, Others, Inv, Types
<1>7. \A q \in Page : memtype'[q] = IF q \in P THEN m ELSE memtype[q]
  BY <1>1, Zenon DEF reserve_memtype
<1>8. P \cap held[t] = {} /\ held[t] \subseteq Page
  BY <1>5, Zenon DEF Reserved, Inv, Types
<1>9. BitsOf(t)'
  <2>1. \A q \in held[t] \ torn : attr[q] = cachemode2pgprot[memtype'[q]]
    <3>1. \A q \in held[t] \ torn : attr[q] = cachemode2pgprot[memtype[q]]
      BY Zenon DEF Bits, BitsOf
    <3>2. \A q \in held[t] : memtype'[q] = memtype[q]
      BY <1>7, <1>8, Zenon
    <3> QED
      BY <3>1, <3>2, Zenon
  <2>2. \A q \in P \ torn : attr[q] = {}
    BY <1>3, <1>4, Zenon DEF Bits
  <2> HIDE DEF P
  <2> QED
    BY <1>3, <1>6, <1>7, <2>1, <2>2, Zenon DEF BitsOf, Expected
<1>10. attr' \in [Page -> SUBSET Mask]
  BY <1>6, Zenon DEF Bits
<1> HIDE DEF P
<1> QED
  BY <1>2, <1>3, <1>5, <1>6, <1>7, <1>9, <1>10, BitsStep, Zenon

LEMMA StartBits ==
  ASSUME NEW t \in Thread, Inv, Bits, _set_pages_array(t) \/ set_memory_wb(t) PROVE Bits'
<1>1. CASE _set_pages_array(t)
  <2>1. PICK s \in Arrays, m \in Mode \ {"WB"} :
           call' = [call EXCEPT ![t] = [pages |-> s, mode |-> m, i |-> 0, free |-> 0]]
    BY <1>1, Zenon DEF _set_pages_array
  <2>2. Part([pages |-> s, mode |-> m, i |-> 0, free |-> 0]) = {}
    BY StartCall, Zenon
  <2>3. /\ Others(t) /\ UNCHANGED <<memtype, attr, held, torn>>
        /\ pc'[t] = "reserve" /\ Part(call'[t]) = {}
    BY <1>1, <2>1, <2>2, Zenon DEF _set_pages_array, Goto, Others, Inv, Types
  <2>4. BitsOf(t)'
    BY <2>3, Zenon DEF Bits, BitsOf
  <2> QED
    BY <2>3, <2>4, QuietBits, Zenon
<1>2. CASE set_memory_wb(t)
  <2>1. Others(t) /\ UNCHANGED <<memtype, attr, held, torn>> /\ pc'[t] = "clear"
    BY <1>2, Zenon DEF set_memory_wb, Goto, Others, Inv, Types
  <2>2. BitsOf(t)'
    BY <2>1, Zenon DEF Bits, BitsOf
  <2> QED
    BY <2>1, <2>2, QuietBits, Zenon
<1> QED
  BY <1>1, <1>2, Zenon

LEMMA ReservePageBits == ASSUME NEW t \in Thread, Inv, Bits, ReservePage(t) PROVE Bits'
<1> DEFINE c == call[t]
<1> DEFINE q == PageAt(t, c.i + 1)
<1>1. pc[t] = "reserve" /\ UNCHANGED <<attr, held, torn>>
  BY Zenon DEF ReservePage
<1>2. Shape(c, "reserve", held[t]) /\ Types
  BY <1>1, Zenon DEF Inv, ShapeOf
<1>3. /\ c \in Call /\ c.pages \in Seq(Page) /\ Len(c.pages) \in Nat /\ c.mode \in Mode
      /\ c.i \in Nat /\ c.free = 0 /\ c.mode # "WB" /\ c.i <= Len(c.pages)
  BY <1>2, CallType, Zenon DEF Shape
<1>4. BitsOf(t)
  BY Zenon DEF Bits
<1>5. ASSUME NEW p \in {"set", "free"}, Goto(t, p), UNCHANGED <<memtype, call>> PROVE Bits'
  <2>1. Others(t) /\ pc'[t] = p
    BY <1>1, <1>5, Zenon DEF Goto, Others, Inv, Types
  <2>2. BitsOf(t)'
    BY <1>1, <1>4, <1>5, <2>1, Zenon DEF BitsOf, Expected
  <2> QED
    BY <1>1, <1>5, <2>1, <2>2, QuietBits, Zenon
<1>6. CASE c.i # Len(c.pages) /\ memtype[q] = "WB"
  <2>1. reserve_memtype({q}, c.mode) /\ call' = [call EXCEPT ![t].i = @ + 1] /\ UNCHANGED pc
    BY <1>6, Zenon DEF ReservePage
  <2>2. c.i + 1 \in 1 .. Len(c.pages) /\ 0 + 1 .. c.i + 1 = (0 + 1 .. c.i) \cup {c.i + 1}
    BY <1>3, <1>6
  <2>3. q \in Page
    BY <1>3, <2>2 DEF PageAt
  <2>4. /\ call'[t] = [c EXCEPT !.i = c.i + 1] /\ Others(t)
    BY <1>1, <1>2, <2>1, Zenon DEF Types, Others
  <2>5. /\ call'[t].pages = c.pages /\ call'[t].mode = c.mode /\ call'[t].free = 0
        /\ call'[t].i = c.i + 1
    BY <1>3, <2>4, Zenon DEF Call
  <2>6. Part(call'[t]) = Part(c) \cup {q}
    BY <1>3, <2>2, <2>5, Zenon DEF Part, PageAt
  <2>7. \A u \in Thread : q \notin Reserved(u)
    BY <1>6, <2>3, Zenon DEF Inv, Accounted
  <2>8. \A x \in Page : memtype'[x] = IF x = q THEN c.mode ELSE memtype[x]
    BY <2>1, Zenon DEF reserve_memtype
  <2>9. held[t] \subseteq Page /\ Part(c) \subseteq Page /\ q \notin held[t]
    BY <1>2, <2>7, PartInPage, Zenon DEF Reserved, Types
  <2>10. q \notin torn => attr[q] = {}
    BY <1>6, <2>3, Zenon DEF Bits
  <2>11. BitsOf(t)'
    <3>1. \A x \in held[t] \ torn : attr[x] = cachemode2pgprot[memtype'[x]]
      BY <1>4, <2>8, <2>9, Zenon DEF BitsOf
    <3>2. \A x \in Part(call'[t]) \ torn : attr[x] = {}
      BY <1>1, <1>4, <2>6, <2>10, Zenon DEF BitsOf, Expected
    <3>3. \A x \in Part(call'[t]) : memtype'[x] = c.mode
      BY <1>1, <1>4, <2>3, <2>6, <2>8, <2>9, Zenon DEF BitsOf
    <3> HIDE DEF c, q
    <3> QED
      BY <1>1, <2>1, <2>5, <3>1, <3>2, <3>3, Zenon DEF BitsOf, Expected
  <2>12. attr' \in [Page -> SUBSET Mask]
    BY <1>1, Zenon DEF Bits
  <2>13. /\ {q} \in SUBSET Page /\ \A u \in Thread : {q} \cap Reserved(u) = {}
         /\ \A x \in Page \ {q} : memtype'[x] = memtype[x]
         /\ \A x \in {q} : memtype'[x] # "WB"
    BY <1>3, <2>3, <2>7, <2>8, Zenon
  <2> HIDE DEF c, q
  <2> QED
    BY <1>1, <2>4, <2>11, <2>12, <2>13, BitsStep, Zenon
<1> QED
  BY <1>5, <1>6, Zenon DEF ReservePage

(* The pages of a call that sets a mode. *)
LEMMA SetPages ==
  ASSUME NEW t \in Thread, Inv, Bits, pc[t] \in {"set", "set_wc"}
  PROVE  /\ Part(call[t]) = All(call[t]) /\ All(call[t]) \subseteq Reserved(t)
         /\ All(call[t]) \subseteq Page /\ All(call[t]) \cap held[t] = {}
         /\ held[t] \subseteq Page /\ call[t].mode \in Mode
         /\ \A q \in All(call[t]) : memtype[q] = call[t].mode
         /\ \A q \in All(call[t]) \ torn : attr[q] = Expected(pc[t])
<1>1. Shape(call[t], pc[t], held[t]) /\ Types /\ BitsOf(t)
  BY Zenon DEF Inv, ShapeOf, Bits
<1>2. call[t] \in Call /\ call[t].i = Len(call[t].pages) /\ call[t].free = 0
  BY <1>1, CallType, Zenon DEF Shape
<1>3. Part(call[t]) = All(call[t])
  BY <1>2, PartIsAll, Zenon
<1>4. Part(call[t]) \subseteq Reserved(t) /\ Part(call[t]) \cap held[t] = {}
  BY <1>1, ReservedIs, Zenon DEF Counted, Shape
<1> QED
  BY <1>1, <1>3, <1>4, PartInPage, CallType, Zenon DEF BitsOf, Types

(* A change of the bits of the first k pages of a call. *)
LEMMA ChangedPages ==
  ASSUME NEW t \in Thread, Inv, Bits, NEW k \in 0 .. Len(call[t].pages),
         NEW set \in SUBSET Mask, NEW clr,
         Changed(t, k, set, clr)
  PROVE  /\ attr' \in [Page -> SUBSET Mask]
         /\ \A q \in Page \ All(call[t]) : attr'[q] = attr[q]
<1>1. Len(call[t].pages) \in Nat
  BY CallType, Zenon DEF Inv
<1>2. 1 .. k \subseteq 1 .. Len(call[t].pages)
  BY <1>1
<1>3. Pages(call[t].pages, k) \subseteq All(call[t])
  BY <1>2, Zenon DEF All, Pages
<1>4. attr' \in [Page -> SUBSET Mask]
  BY Zenon DEF Bits, Changed
<1> QED
  BY <1>3, <1>4, Zenon DEF All, Changed

(* The two ends of a change of attributes, in terms of the pages of the call. *)
Bounded(t) ==
    /\ attr' \in [Page -> SUBSET Mask]
    /\ \A q \in Page \ All(call[t]) : attr'[q] = attr[q]

Done(t, set, clr) ==
    /\ Bounded(t) /\ torn' = IF clr = Mask THEN torn \ All(call[t]) ELSE torn
    /\ \A q \in All(call[t]) : q \in Page => attr'[q] = (attr[q] \ clr) \cup set

Failed(t) == Bounded(t) /\ torn' = torn \cup All(call[t])

LEMMA ChangeEnds ==
  ASSUME NEW t \in Thread, Inv, Bits, NEW set \in SUBSET Mask, NEW clr
  PROVE  /\ /\ Changed(t, Len(call[t].pages), set, clr)
            /\ torn' = IF clr = Mask THEN torn \ Pages(call[t].pages, Len(call[t].pages))
                       ELSE torn
            => Done(t, set, clr)
         /\ /\ \E k \in 0 .. Len(call[t].pages) - 1 : Changed(t, k, set, clr)
            /\ torn' = torn \cup Pages(call[t].pages, Len(call[t].pages))
            => Failed(t)
<1> DEFINE n == Len(call[t].pages)
<1>1. n \in 0 .. n /\ \A k \in 0 .. n - 1 : k \in 0 .. n
  <2>1. n \in Nat
    BY CallType, Zenon DEF Inv
  <2> HIDE DEF n
  <2> QED
    BY <2>1
<1>2. ASSUME Changed(t, n, set, clr)
      PROVE  /\ Bounded(t)
             /\ \A q \in All(call[t]) : q \in Page => attr'[q] = (attr[q] \ clr) \cup set
  <2>1. Bounded(t)
    BY <1>1, <1>2, ChangedPages, Zenon DEF Bounded
  <2>2. \A q \in All(call[t]) : q \in Page => attr'[q] = (attr[q] \ clr) \cup set
    BY <1>2, Zenon DEF Changed, All
  <2> QED
    BY <2>1, <2>2, Zenon
<1>3. (\E k \in 0 .. n - 1 : Changed(t, k, set, clr)) => Bounded(t)
  BY <1>1, ChangedPages, Zenon DEF Bounded
<1> QED
  BY <1>2, <1>3, Zenon DEF Done, Failed, All

(* A change that fails: every page of the call is torn. *)
LEMMA FailBits ==
  ASSUME NEW t \in Thread, Inv, Bits, Others(t), UNCHANGED <<memtype, held>>,
         All(call[t]) \subseteq Reserved(t), Failed(t),
         pc'[t] \in {"idle", "free"}, Part(call'[t]) \subseteq All(call[t])
  PROVE  Bits'
<1>1. \A q \in held[t] \ torn' : q \in Page /\ attr'[q] = attr[q]
  BY Zenon DEF Failed, Bounded, Inv, Types
<1>2. BitsOf(t)'
  BY <1>1 DEF Failed, Bits, BitsOf
<1> QED
  BY <1>2, ChangeBits, Zenon DEF Failed, Bounded

LEMMA SetModeBits == ASSUME NEW t \in Thread, Inv, Bits, SetMode(t) PROVE Bits'
<1> DEFINE c == call[t]
<1> DEFINE m == IF c.mode = "WC" THEN "UC_MINUS" ELSE c.mode
<1> DEFINE done == IF c.mode = "WC" THEN Goto(t, "set_wc") /\ UNCHANGED <<held, call>>
                   ELSE Succeed(t)
<1> DEFINE failed == Goto(t, "free") /\ UNCHANGED <<held, call>>
<1>1. pc[t] = "set" /\ UNCHANGED memtype
  BY Zenon DEF SetMode
<1>2. /\ Part(c) = All(c) /\ All(c) \subseteq Reserved(t)
      /\ All(c) \subseteq Page /\ All(c) \cap held[t] = {} /\ held[t] \subseteq Page
      /\ c.mode \in Mode /\ \A q \in All(c) : memtype[q] = c.mode
      /\ \A q \in All(c) \ torn : attr[q] = {}
  BY <1>1, SetPages, Zenon DEF Expected
<1>3. m \in Mode /\ cachemode2pgprot[m] \in SUBSET Mask
  BY <1>2, ModeBits, Zenon DEF Mode
<1>4. \/ Done(t, cachemode2pgprot[m], {}) /\ done
      \/ Failed(t) /\ failed
  BY <1>3, ChangeEnds, Zenon DEF SetMode, ChangeAttr
<1>5. CASE Failed(t) /\ failed
  <2>1. /\ Others(t) /\ pc'[t] = "free" /\ Part(call'[t]) \subseteq All(c)
        /\ UNCHANGED held
    BY <1>2, <1>5, Zenon DEF Goto, Others, Inv, Types
  <2> QED
    BY <1>1, <1>2, <1>5, <2>1, FailBits, Zenon
<1>6. CASE Done(t, cachemode2pgprot[m], {}) /\ done
  <2>1. /\ torn' = torn /\ attr' \in [Page -> SUBSET Mask]
        /\ \A q \in Page \ All(c) : attr'[q] = attr[q]
        /\ \A q \in All(c) : q \in Page => attr'[q] = (attr[q] \ {}) \cup cachemode2pgprot[m]
    <3>1. {} # Mask
      BY Zenon DEF Mask
    <3> HIDE DEF m, done
    <3> QED
      BY <1>6, <3>1, Zenon DEF Done, Bounded
  <2>2. \A q \in All(c) \ torn : attr'[q] = cachemode2pgprot[m]
    <3> HIDE DEF m
    <3> QED
      BY <1>2, <2>1, Zenon
  <2>3. \A q \in held[t] \ torn : attr'[q] = cachemode2pgprot[memtype[q]]
    <3>1. \A q \in held[t] \ torn : attr[q] = cachemode2pgprot[memtype[q]]
      BY Zenon DEF Bits, BitsOf
    <3>2. \A q \in held[t] : attr'[q] = attr[q]
      BY <1>2, <2>1, Zenon
    <3> QED
      BY <3>1, <3>2, Zenon
  <2>4. CASE c.mode = "WC"
    <3>1. Others(t) /\ pc'[t] = "set_wc" /\ UNCHANGED <<held, call>>
      BY <1>6, <2>4, Zenon DEF Goto, Others, Inv, Types
    <3>2. BitsOf(t)'
      BY <1>1, <1>2, <2>1, <2>2, <2>3, <2>4, <3>1, Zenon DEF BitsOf, Expected
    <3> QED
      BY <1>1, <1>2, <2>1, <3>1, <3>2, ChangeBits, Zenon
  <2>5. CASE c.mode # "WC"
    <3>1. Succeed(t)
      BY <1>6, <2>5, Zenon
    <3>2. /\ Others(t) /\ pc'[t] = "idle" /\ call'[t] = NoCall
          /\ held'[t] = held[t] \cup All(c)
      BY <3>1, Zenon DEF Succeed, Finish, Goto, Others, All, Inv, Types
    <3>3. BitsOf(t)'
      <4>1. m = c.mode
        BY <2>5, Zenon
      <4>2. \A q \in held'[t] \ torn' : attr'[q] = cachemode2pgprot[memtype'[q]]
        <5> HIDE DEF m, c
        <5> QED
          BY <1>1, <1>2, <2>1, <2>2, <2>3, <3>2, <4>1, Zenon
      <4>3. Part(call'[t]) = {}
        BY <3>2, NoPart, Zenon
      <4> QED
        BY <3>2, <4>2, <4>3, Zenon DEF BitsOf
    <3> QED
      BY <1>1, <1>2, <2>1, <3>2, <3>3, ChangeBits, Zenon
  <2> QED
    BY <2>4, <2>5, Zenon
<1> QED
  BY <1>4, <1>5, <1>6, Zenon

LEMMA SetWcBits == ASSUME NEW t \in Thread, Inv, Bits, SetWc(t) PROVE Bits'
<1> DEFINE c == call[t]
<1> DEFINE failed == Goto(t, "free") /\ UNCHANGED <<held, call>>
<1>1. pc[t] = "set_wc" /\ UNCHANGED memtype
  BY Zenon DEF SetWc
<1>2. /\ Part(c) = All(c) /\ All(c) \subseteq Reserved(t)
      /\ All(c) \subseteq Page /\ All(c) \cap held[t] = {} /\ held[t] \subseteq Page
      /\ \A q \in All(c) : memtype[q] = "WC"
  BY <1>1, SetPages, Zenon DEF Bits, BitsOf
<1>3. cachemode2pgprot["WC"] \in SUBSET Mask
  BY ModeBits, Zenon DEF Mode
<1>4. \/ Done(t, cachemode2pgprot["WC"], Mask) /\ Succeed(t)
      \/ Failed(t) /\ failed
  BY <1>3, ChangeEnds, Zenon DEF SetWc, ChangeAttr
<1>5. CASE Failed(t) /\ failed
  <2>1. /\ Others(t) /\ pc'[t] = "free" /\ Part(call'[t]) \subseteq All(c)
        /\ UNCHANGED held
    BY <1>2, <1>5, Zenon DEF Goto, Others, Inv, Types
  <2> QED
    BY <1>1, <1>2, <1>5, <2>1, FailBits, Zenon
<1>6. CASE Done(t, cachemode2pgprot["WC"], Mask) /\ Succeed(t)
  <2>1. /\ torn' = torn \ All(c) /\ attr' \in [Page -> SUBSET Mask]
        /\ \A q \in Page \ All(c) : attr'[q] = attr[q]
        /\ \A q \in All(c) : q \in Page => attr'[q] = (attr[q] \ Mask) \cup cachemode2pgprot["WC"]
    BY <1>6, Zenon DEF Done, Bounded
  <2>2. \A q \in All(c) : attr'[q] = cachemode2pgprot["WC"]
    BY <1>2, <2>1, Zenon DEF Bits
  <2>3. \A q \in held[t] \ torn : attr'[q] = cachemode2pgprot[memtype[q]]
    BY <1>2, <2>1 DEF Bits, BitsOf
  <2>4. /\ Others(t) /\ pc'[t] = "idle" /\ call'[t] = NoCall
        /\ held'[t] = held[t] \cup All(c)
    BY <1>6, Zenon DEF Succeed, Finish, Goto, Others, All, Inv, Types
  <2>5. BitsOf(t)'
    BY <1>1, <1>2, <2>1, <2>2, <2>3, <2>4, NoPart, Zenon DEF BitsOf
  <2> QED
    BY <1>1, <1>2, <2>1, <2>4, <2>5, ChangeBits, Zenon
<1> QED
  BY <1>4, <1>5, <1>6, Zenon

LEMMA ClearModeBits == ASSUME NEW t \in Thread, Inv, Bits, ClearMode(t) PROVE Bits'
<1> DEFINE c == call[t]
<1> DEFINE done == held' = [held EXCEPT ![t] = @ \ All(c)] /\ Goto(t, "free") /\ UNCHANGED call
<1>1. pc[t] = "clear" /\ UNCHANGED memtype
  BY Zenon DEF ClearMode
<1>2. Shape(c, "clear", held[t]) /\ Types
  BY <1>1, Zenon DEF Inv, ShapeOf
<1>3. /\ c \in Call /\ c.i = Len(c.pages) /\ c.free = 0 /\ All(c) \subseteq held[t]
      /\ held[t] \subseteq Page
  BY <1>2, CallType, Zenon DEF Shape, Types
<1>4. All(c) \subseteq Reserved(t) /\ Part(c) = All(c)
  BY <1>3, PartIsAll, Zenon DEF Reserved
<1>5. \/ Done(t, {}, Mask) /\ done
      \/ Failed(t) /\ Finish(t) /\ UNCHANGED held
  BY ChangeEnds, Zenon DEF ClearMode, ChangeAttr, All
<1>6. CASE Failed(t) /\ Finish(t) /\ UNCHANGED held
  <2>1. Others(t) /\ pc'[t] = "idle" /\ call'[t] = NoCall
    BY <1>6, Zenon DEF Finish, Goto, Others, Inv, Types
  <2> QED
    BY <1>1, <1>4, <1>6, <2>1, FailBits, NoPart, Zenon
<1>7. CASE Done(t, {}, Mask) /\ done
  <2>1. /\ torn' = torn \ All(c) /\ attr' \in [Page -> SUBSET Mask]
        /\ \A q \in Page \ All(c) : attr'[q] = attr[q]
        /\ \A q \in All(c) : q \in Page => attr'[q] = (attr[q] \ Mask) \cup {}
    BY <1>7, Zenon DEF Done, Bounded
  <2>2. \A q \in All(c) : attr'[q] = {}
    BY <1>3, <2>1, Zenon DEF Bits
  <2>3. \A q \in held[t] \ All(c) : q \notin torn => attr'[q] = cachemode2pgprot[memtype[q]]
    BY <1>3, <2>1, Zenon DEF Bits, BitsOf
  <2>4. /\ Others(t) /\ pc'[t] = "free" /\ UNCHANGED call /\ held'[t] = held[t] \ All(c)
    BY <1>7, Zenon DEF Goto, Others, Inv, Types
  <2>5. BitsOf(t)'
    BY <1>1, <1>4, <2>1, <2>2, <2>3, <2>4, Zenon DEF BitsOf, Expected
  <2> QED
    BY <1>1, <1>4, <2>1, <2>4, <2>5, ChangeBits, Zenon
<1> QED
  BY <1>5, <1>6, <1>7, Zenon

LEMMA FreePageBits == ASSUME NEW t \in Thread, Inv, Bits, FreePage(t) PROVE Bits'
<1> DEFINE c == call[t]
<1> DEFINE q == PageAt(t, c.free + 1)
<1>1. pc[t] = "free" /\ UNCHANGED <<attr, held, torn>>
  BY Zenon DEF FreePage
<1>2. Shape(c, "free", held[t]) /\ Types /\ BitsOf(t)
  BY <1>1, Zenon DEF Inv, ShapeOf, Bits
<1>3. /\ c \in Call /\ Len(c.pages) \in Nat
      /\ c.i \in Nat /\ c.free \in Nat /\ c.free <= c.i /\ c.i <= Len(c.pages)
  BY <1>2, CallType, Zenon DEF Shape
<1>4. CASE c.free = c.i
  <2>1. Finish(t) /\ UNCHANGED memtype
    BY <1>4, Zenon DEF FreePage
  <2>2. Others(t) /\ pc'[t] = "idle" /\ call'[t] = NoCall
    BY <1>1, <2>1, Zenon DEF Finish, Goto, Others, Inv, Types
  <2>3. BitsOf(t)'
    BY <1>1, <1>2, <2>1, <2>2, NoPart, Zenon DEF BitsOf
  <2> QED
    BY <1>1, <2>1, <2>2, <2>3, QuietBits, Zenon
<1>5. CASE c.free # c.i
  <2>1. free_memtype(q) /\ call' = [call EXCEPT ![t].free = @ + 1] /\ UNCHANGED pc
    BY <1>5, Zenon DEF FreePage
  <2>2. /\ c.free + 1 .. c.i = ((c.free + 1) + 1 .. c.i) \cup {c.free + 1}
    <3> HIDE DEF c
    <3> QED
      BY <1>3, <1>5, NextFree, Zenon
  <2>3. call'[t] = [c EXCEPT !.free = c.free + 1] /\ Others(t)
    BY <1>1, <1>2, <2>1, Zenon DEF Types, Others
  <2>4. call'[t].pages = c.pages /\ call'[t].i = c.i /\ call'[t].free = c.free + 1
    BY <1>3, <2>3, Zenon DEF Call
  <2>5. Part(call'[t]) \subseteq Part(c) /\ q \in Part(c)
    BY <2>2, <2>4, Zenon DEF Part, PageAt
  <2>6. q \in Page /\ Part(c) \subseteq Page /\ held[t] \subseteq Page /\ q \notin held[t]
    BY <1>2, <2>5, PartInPage, Zenon DEF Shape, Types
  <2>7. \A x \in Page : memtype'[x] = IF x = q THEN "WB" ELSE memtype[x]
    BY <1>2, <2>1, Zenon DEF free_memtype, Types
  <2>8. q \in Reserved(t)
    BY <1>1, <2>5, ReservedIs, Zenon DEF Counted
  <2>9. q \notin torn => attr[q] = {}
    BY <1>1, <1>2, <2>5, Zenon DEF BitsOf, Expected
  <2>10. BitsOf(t)'
    <3>1. \A x \in held[t] \ torn : attr[x] = cachemode2pgprot[memtype'[x]]
      BY <1>2, <2>6, <2>7, Zenon DEF BitsOf
    <3>2. \A x \in Part(call'[t]) \ torn : attr[x] = {}
      BY <1>1, <1>2, <2>5, Zenon DEF BitsOf, Expected
    <3> HIDE DEF c, q
    <3> QED
      BY <1>1, <2>1, <3>1, <3>2, Zenon DEF BitsOf, Expected
  <2>11. /\ {q} \in SUBSET Page /\ \A u \in Thread : u # t => {q} \cap Reserved(u) = {}
         /\ \A x \in Page \ {q} : memtype'[x] = memtype[x]
         /\ \A x \in {q} \ torn : attr[x] = {}
    <3>1. \A u \in Thread : u # t => q \notin Reserved(u)
      BY <2>6, <2>8, Zenon DEF Inv, Accounted
    <3> HIDE DEF q
    <3> QED
      BY <2>6, <2>7, <2>9, <3>1, Zenon
  <2>12. attr' \in [Page -> SUBSET Mask]
    BY <1>1, Zenon DEF Bits
  <2> HIDE DEF c, q
  <2> QED
    BY <1>1, <2>3, <2>10, <2>11, <2>12, BitsStep, Zenon
<1> QED
  BY <1>4, <1>5, Zenon

LEMMA StutterBits == Bits /\ UNCHANGED vars => Bits'
  BY DEF Bits, BitsOf, vars

(* Reservations and bits together: the invariant of the whole component. *)
THEOREM BitsInvariant == Spec => [](Inv /\ Bits)
<1>1. Inv /\ Bits /\ [Next]_vars => Bits'
  <2> SUFFICES ASSUME Inv, Bits, [Next]_vars PROVE Bits'
    BY Zenon
  <2>1. CASE Next
    BY <2>1, SetMemoryBits, StartBits, ReservePageBits, SetModeBits, SetWcBits,
       ClearModeBits, FreePageBits, Zenon DEF Next
  <2>2. CASE UNCHANGED vars
    BY <2>2, StutterBits, Zenon
  <2> QED
    BY <2>1, <2>2, Zenon
<1> QED
  BY InitBits, Invariant, <1>1, PTL DEF Spec

(* The bits of a page are those of its memory type, except for pages of a change
   that failed: what set_memory_wb gives back is clean before another thread can
   reserve it, a mode that was set is the one that was asked for, and a failure
   disturbs no page of another call. *)
THEOREM AlwaysModeRight == Spec => []ModeRight
<1>1. Bits => ModeRight
  BY Zenon DEF Bits, BitsOf, ModeRight
<1> QED
  BY BitsInvariant, <1>1, PTL
=============================================================================
