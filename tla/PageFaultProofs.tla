--------------------------- MODULE PageFaultProofs ---------------------------
(***************************************************************************)
(* The safety of the page-fault handler (module PageFault), for any number *)
(* of threads, any set of faults and of mappings, and any symbols.         *)
(*                                                                         *)
(* The argument is about one thread at a time.  Local is what its own      *)
(* position, locals and fault tell: which code can be where, and what it   *)
(* can hold there.  Semaphore ties its position to the read count, and     *)
(* Mapped, with no writer while it is counted, to the mapping it works on. *)
(* A step of a thread disturbs the others only in Mapped: a writer comes   *)
(* in only when nobody is counted, and a reader changes only a mapping     *)
(* that nobody works on, the stack it is about to expand.                  *)
(***************************************************************************)
EXTENDS PageFault, TLAPS

OfUser(a) == a.ip = "user" /\ "USER" \in a.err

(* At p with locals l, after outcome o, handling fault a, in code that holds the
   semaphore as w says. *)
Local(p, l, o, a, w) ==
    /\ o \in {"oops", "panic"} => p = "dead" /\ (OfUser(a) => "RSVD" \in a.err)
    /\ p \in {"trylock", "down_read", "find_vma", "handle_mm_fault"} =>
           a.ctx = "task" /\ (l.irq \/ (a.ip # "user" /\ ~a.IFL))
    /\ p \notin {"run", "dead"} =>
           w # "wants" /\ (w # "no" => a.ip = "kernel" \/ (a.ip = "extable" /\ a.ctx # "task"))
    /\ p = "down_read" => w = "no" \/ (w = "read" /\ ~l.retry)
    /\ p = "no_context" => ~OfUser(a)

(* access_error, for a fault. *)
Denied(a, v) ==
    \/ "PK" \in a.err
    \/ v = "pkey" /\ "INSTR" \notin a.err
    \/ "WRITE" \in a.err /\ v \in {"ro", "noacc"}
    \/ "WRITE" \notin a.err /\ ("PROT" \in a.err \/ v = "noacc")

Semaphore(t) == rd[t] = IF Holds(t) THEN 1 ELSE 0

Mapped(t) ==
    /\ Holds(t) => ~Writer
    /\ pc[t] = "handle_mm_fault" =>
           loc[t].vm = vma /\ vma # "stack" /\ ~Denied(f[t], vma)

LocalOf(t) == Local(pc[t], loc[t], out[t], f[t], own[t])

Inv ==
    /\ TypeOK
    /\ Running \/ \A t \in Thread : pc[t] = "dead"
    /\ Running => \A t \in Thread : Semaphore(t)
    /\ \A t \in Thread : LocalOf(t) /\ Mapped(t)

LEMMA InitInv == Init => Inv
<1> SUFFICES ASSUME Init PROVE Inv
  BY Zenon
<1>1. Entry \in Locals
  BY Zenon DEF Entry, Locals, VmaKind, Sig
<1>2. NoFault \in AnyAccess
  BY Zenon DEF NoFault, AnyAccess, Bits
<1>3. TypeOK
  BY <1>1, <1>2, AccessAssumption, Zenon DEF Init, TypeOK, Pcs, Outcome
<1>4. Running
  BY Zenon DEF Init, Running
<1>5. \A t \in Thread : Semaphore(t) /\ Mapped(t)
  BY Zenon DEF Init, Semaphore, Mapped, Holds
<1>6. \A t \in Thread : LocalOf(t)
  BY Zenon DEF Init, LocalOf, Local
<1> QED
  BY <1>3, <1>4, <1>5, <1>6, Zenon DEF Inv

(***************************************************************************)
(* A step of one thread of the handler.                                    *)
(***************************************************************************)

Goes(t, p, l, o) ==
    /\ pc' = [pc EXCEPT ![t] = p] /\ loc' = [loc EXCEPT ![t] = l]
    /\ out' = [out EXCEPT ![t] = o]

(* An oops in an interrupt: everything stops. *)
Panics(t) ==
    /\ pc' = [u \in Thread |-> "dead"] /\ out' = [out EXCEPT ![t] = "panic"]
    /\ loc' = loc

(* What a thread does by itself ends well: at p, with l and o. *)
Good(t, p, l, o) ==
    /\ p \in Pcs /\ l \in Locals /\ o \in Outcome \ {"panic"}
    /\ Local(p, l, o, f'[t], own[t])

LEMMA Alive ==
  ASSUME NEW t \in Thread, Inv, pc[t] # "dead"
  PROVE  Running /\ (\A u \in Thread : Semaphore(u)) /\ LocalOf(t) /\ Mapped(t)
  BY Zenon DEF Inv

LEMMA Types ==
  ASSUME NEW t \in Thread, TypeOK
  PROVE  /\ pc[t] \in Pcs /\ loc[t] \in Locals /\ out[t] \in Outcome
         /\ own[t] \in {"no", "wants", "read", "write"}
         /\ f[t] \in AnyAccess
  BY AccessAssumption, Zenon DEF TypeOK

(* A step of t with what it does to the shared state. *)
LEMMA StepInv ==
  ASSUME NEW t \in Thread, NEW p, NEW l, NEW o, NEW r \in Nat, NEW a \in AnyAccess,
         Inv, pc[t] # "dead", Goes(t, p, l, o), Good(t, p, l, o),
         f' = [f EXCEPT ![t] = a], rd' = [rd EXCEPT ![t] = r],
         arch' \in [Thread -> SUBSET Bits], UNCHANGED <<own, fatal>>,
         vma' \in VmaKind, vma' = vma \/ vma = "stack",
         r = IF p \in {"find_vma", "handle_mm_fault"} THEN 1 ELSE 0,
         p \in {"find_vma", "handle_mm_fault"} => ~Writer,
         p = "handle_mm_fault" => l.vm = vma' /\ vma' # "stack" /\ ~Denied(f'[t], vma')
  PROVE  Inv'
<1>1. Running /\ \A u \in Thread : Semaphore(u) /\ LocalOf(u) /\ Mapped(u)
  BY Alive, Zenon DEF Inv
<1>2. p \in Pcs /\ l \in Locals /\ o \in Outcome /\ o # "panic" /\ Local(p, l, o, f'[t], own[t])
  BY Zenon DEF Good
<1>3. TypeOK'
  BY <1>2, Zenon DEF Inv, TypeOK, Goes
<1>4. pc'[t] = p /\ loc'[t] = l /\ out'[t] = o /\ rd'[t] = r
  BY Zenon DEF Inv, TypeOK, Goes
<1>5. \A u \in Thread : u # t => /\ pc'[u] = pc[u] /\ loc'[u] = loc[u] /\ out'[u] = out[u]
                                 /\ rd'[u] = rd[u] /\ f'[u] = f[u]
  BY Zenon DEF Inv, TypeOK, Goes
<1>6. Running'
  BY <1>1, <1>2, <1>4, <1>5, Zenon DEF Running
<1>7. \A u \in Thread : Semaphore(u)'
  BY <1>1, <1>4, <1>5 DEF Semaphore, Holds
<1>8. ASSUME NEW u \in Thread PROVE LocalOf(u)'
  <2>1. CASE u = t
    BY <1>2, <1>4, <2>1, Zenon DEF LocalOf
  <2>2. CASE u # t
    BY <1>1, <1>5, <2>2, Zenon DEF LocalOf
  <2> QED
    BY <2>1, <2>2, Zenon
<1>9. Writer' = Writer
  BY Zenon DEF Writer
<1>10. ASSUME NEW u \in Thread PROVE Mapped(u)'
  <2>1. CASE u = t
    BY <1>4, <1>9, <2>1, Zenon DEF Mapped, Holds
  <2>2. CASE u # t
    <3>1. Holds(u)' => ~Writer'
      BY <1>1, <1>5, <1>9, <2>2, Zenon DEF Mapped, Holds
    <3>2. pc[u] = "handle_mm_fault" => vma' = vma
      BY <1>1, Zenon DEF Mapped
    <3> QED
      BY <1>1, <1>5, <2>2, <3>1, <3>2, Zenon DEF Mapped
  <2> QED
    BY <2>1, <2>2, Zenon
<1> QED
  BY <1>3, <1>6, <1>7, <1>8, <1>10, Zenon DEF Inv

(* A step of t after which it does not hold the semaphore. *)
Leaves(t) ==
    /\ rd' = [rd EXCEPT ![t] = 0] /\ arch' \in [Thread -> SUBSET Bits]
    /\ vma' \in VmaKind /\ (vma' = vma \/ vma = "stack")
    /\ UNCHANGED <<f, own, fatal>>

LEMMA LeavesPlain ==
  ASSUME NEW t \in Thread, Inv, pc[t] # "dead", ~Holds(t), UNCHANGED <<f, rd, own, fatal, vma>>,
         arch' \in [Thread -> SUBSET Bits]
  PROVE  Leaves(t)
<1>1. rd[t] = 0
  BY Alive, Zenon DEF Semaphore
<1>2. rd' = [rd EXCEPT ![t] = 0] /\ vma \in VmaKind
  BY <1>1, Zenon DEF Inv, TypeOK
<1> QED
  BY <1>2, Zenon DEF Leaves

LEMMA LeavesHeld ==
  ASSUME NEW t \in Thread, Inv, Holds(t), up_read(t), UNCHANGED <<f, own, fatal, arch>>,
         vma' \in VmaKind, vma' = vma \/ vma = "stack"
  PROVE  Leaves(t)
<1>1. rd[t] = 1
  BY Alive, Zenon DEF Semaphore, Holds
<1>2. rd' = [rd EXCEPT ![t] = 0] /\ arch \in [Thread -> SUBSET Bits]
  BY <1>1 DEF Inv, TypeOK, up_read
<1> QED
  BY <1>2, Zenon DEF Leaves

LEMMA LeavesInv ==
  ASSUME NEW t \in Thread, NEW p, NEW l, NEW o, Inv, pc[t] # "dead", Leaves(t),
         Goes(t, p, l, o), p \in Pcs, l \in Locals, o \in Outcome \ {"panic"},
         Local(p, l, o, f[t], own[t]), p \notin {"find_vma", "handle_mm_fault"}
  PROVE  Inv'
<1>1. f' = [f EXCEPT ![t] = f[t]] /\ f'[t] = f[t] /\ f[t] \in AnyAccess
  BY Zenon DEF Inv, TypeOK, Leaves
<1>2. Good(t, p, l, o)
  BY <1>1, Zenon DEF Good
<1>3. 0 \in Nat
  BY Zenon
<1> QED
  BY <1>1, <1>2, <1>3, StepInv, Zenon DEF Leaves

LEMMA PanicInv ==
  ASSUME NEW t \in Thread, Inv, pc[t] # "dead", Panics(t),
         OfUser(f[t]) => "RSVD" \in f[t].err,
         UNCHANGED <<f, rd, own, fatal, arch, vma>>
  PROVE  Inv'
<1>1. TypeOK'
  BY Zenon DEF Inv, TypeOK, Panics, Pcs, Outcome
<1>2. \A u \in Thread : pc'[u] = "dead"
  BY Zenon DEF Panics
<1>3. ~Running'
  BY Zenon DEF Running, Panics, Inv, TypeOK
<1>4. ASSUME NEW u \in Thread PROVE LocalOf(u)'
  <2>1. CASE u = t
    BY <1>2, <2>1, Zenon DEF LocalOf, Local
  <2>2. CASE u # t
    <3>1. out'[u] = out[u] /\ LocalOf(u)
      BY <2>2, Zenon DEF Panics, Inv, TypeOK
    <3> QED
      BY <1>2, <3>1, Zenon DEF LocalOf, Local
  <2> QED
    BY <2>1, <2>2, Zenon
<1>5. \A u \in Thread : Mapped(u)'
  BY <1>2, Zenon DEF Mapped, Holds
<1> QED
  BY <1>1, <1>2, <1>3, <1>4, <1>5, Zenon DEF Inv

(***************************************************************************)
(* The ways to go on.                                                      *)
(***************************************************************************)

LEMMA EntryType == Entry \in Locals
  BY Zenon DEF Entry, Locals, VmaKind, Sig

LEMMA ArchType ==
  ASSUME NEW t \in Thread, TypeOK, set_signal_archinfo(t) \/ UNCHANGED arch
  PROVE  arch' \in [Thread -> SUBSET Bits]
<1>1. f[t].err \in SUBSET Bits
  BY Types, Zenon DEF AnyAccess
<1>2. f[t].err \cup {"USER"} \cup (IF f[t].addr = "user" THEN {} ELSE {"PROT"}) \in SUBSET Bits
  BY <1>1, Zenon DEF Bits
<1> QED
  BY <1>2, Zenon DEF TypeOK, set_signal_archinfo

LEMMA NotOops ==
  ASSUME NEW t \in Thread, Inv, pc[t] # "dead"
  PROVE  out[t] \in Outcome \ {"oops", "panic"}
  BY Alive, Types, Zenon DEF Inv, LocalOf, Local

LEMMA ReturnInv ==
  ASSUME NEW t \in Thread, NEW o \in Outcome \ {"oops", "panic"},
         Inv, pc[t] # "dead", Leaves(t), Return(t, o)
  PROVE  Inv'
<1>1. Goes(t, "run", Entry, o)
  BY Zenon DEF Return, Goes
<1>2. Local("run", Entry, o, f[t], own[t])
  BY Zenon DEF Local
<1> QED
  BY <1>1, <1>2, EntryType, LeavesInv, Zenon DEF Pcs

LEMMA CallGoes ==
  ASSUME NEW t \in Thread, NEW p, NEW l, TypeOK, Call(t, p, l) PROVE Goes(t, p, l, out[t])
  BY Zenon DEF Call, Goes, TypeOK

(* Owned: what the code around a fault can hold. *)
LEMMA Owned ==
  ASSUME NEW t \in Thread, Inv, pc[t] \notin {"run", "dead"}
  PROVE  /\ own[t] # "wants"
         /\ own[t] # "no" => f[t].ip = "kernel" \/ (f[t].ip = "extable" /\ f[t].ctx # "task")
  BY Zenon DEF Inv, LocalOf, Local

(* To a place where the handler neither sleeps nor holds the semaphore. *)
LEMMA CallInv ==
  ASSUME NEW t \in Thread, NEW l \in Locals,
         NEW p \in {"bad_area", "no_context", "oom", "sigbus", "hwpoison", "sigsegv"},
         Inv, pc[t] \notin {"run", "dead"}, Leaves(t), Call(t, p, l),
         p = "no_context" => ~OfUser(f[t])
  PROVE  Inv'
<1>1. Goes(t, p, l, out[t])
  BY CallGoes, Zenon DEF Inv
<1>2. out[t] \in Outcome \ {"oops", "panic"}
  BY NotOops, Zenon
<1>3. Local(p, l, out[t], f[t], own[t])
  BY <1>2, Owned, Zenon DEF Local
<1>4. p \in Pcs
  BY Zenon DEF Pcs
<1> QED
  BY <1>1, <1>2, <1>3, <1>4, LeavesInv, Zenon

LEMMA SiType ==
  ASSUME NEW t \in Thread, NEW s \in Sig, TypeOK PROVE [loc[t] EXCEPT !.si = s] \in Locals
  BY Types, Zenon DEF Locals

LEMMA BadAreaInv ==
  ASSUME NEW t \in Thread, NEW s \in Sig, Inv, pc[t] \notin {"run", "dead"}, Leaves(t),
         BadArea(t, s)
  PROVE  Inv'
  BY SiType, CallInv, Zenon DEF BadArea, Inv

LEMMA NoContextInv ==
  ASSUME NEW t \in Thread, NEW s \in Sig, Inv, pc[t] \notin {"run", "dead"}, Leaves(t),
         NoContext(t, s), ~OfUser(f[t])
  PROVE  Inv'
  BY SiType, CallInv, Zenon DEF NoContext, Inv

LEMMA OopsInv ==
  ASSUME NEW t \in Thread, Inv, pc[t] # "dead", ~Holds(t), Oops(t),
         OfUser(f[t]) => "RSVD" \in f[t].err,
         UNCHANGED <<f, rd, own, fatal, arch, vma>>
  PROVE  Inv'
<1>1. CASE Die(t, "oops")
  <2>1. Goes(t, "dead", loc[t], "oops")
    BY <1>1, Zenon DEF Die, Goes, Inv, TypeOK
  <2>2. Local("dead", loc[t], "oops", f[t], own[t])
    BY Zenon DEF Local
  <2>3. Leaves(t)
    BY LeavesPlain, Zenon DEF Inv, TypeOK
  <2>4. loc[t] \in Locals /\ "dead" \in Pcs /\ "oops" \in Outcome
    BY Zenon DEF Inv, TypeOK, Pcs, Outcome
  <2> QED
    BY <2>1, <2>2, <2>3, <2>4, LeavesInv
<1>2. CASE ~Die(t, "oops")
  <2>1. Panics(t)
    BY <1>2, Zenon DEF Oops, Panics
  <2> QED
    BY <2>1, PanicInv, Zenon
<1> QED
  BY <1>1, <1>2, Zenon

(***************************************************************************)
(* One lemma per action.                                                   *)
(***************************************************************************)

LEMMA NoContextStep == ASSUME NEW t \in Thread, Inv, no_context(t) PROVE Inv'
<1>1. pc[t] = "no_context" /\ ~Holds(t) /\ UNCHANGED <<f, rd, own, fatal, vma>> /\ ~OfUser(f[t])
  BY Zenon DEF no_context, Holds, Inv, LocalOf, Local
<1>2. arch' \in [Thread -> SUBSET Bits] => Leaves(t)
  BY <1>1, LeavesPlain, Zenon
<1>3. ASSUME NEW o \in {"die_stop", "fixup", "ub_fixup", "quirk"}, Return(t, o), UNCHANGED arch
      PROVE  Inv'
  BY <1>1, <1>2, <1>3, ArchType, ReturnInv, Zenon DEF Inv, Outcome
<1>4. ASSUME set_signal_archinfo(t), Return(t, loc[t].si) PROVE Inv'
  <2>1. loc[t].si \in Outcome \ {"oops", "panic"}
    BY Types, Zenon DEF Inv, Locals, Outcome, Sig
  <2> QED
    BY <1>1, <1>2, <1>4, <2>1, ArchType, ReturnInv, Zenon DEF Inv
<1>5. ASSUME Oops(t), UNCHANGED arch PROVE Inv'
  BY <1>1, <1>5, OopsInv, Zenon
<1>6. ASSUME Die(t, "overflow"), UNCHANGED arch PROVE Inv'
  <2>1. Goes(t, "dead", loc[t], "overflow")
    BY <1>6, Zenon DEF Die, Goes, Inv, TypeOK
  <2>2. Local("dead", loc[t], "overflow", f[t], own[t])
    BY Zenon DEF Local
  <2>3. loc[t] \in Locals /\ "dead" \in Pcs /\ "overflow" \in Outcome
    BY Zenon DEF Inv, TypeOK, Pcs, Outcome
  <2>4. Leaves(t)
    BY <1>2, <1>6, ArchType, Zenon DEF Inv
  <2> QED
    BY <1>1, <2>1, <2>2, <2>3, <2>4, LeavesInv
<1> QED
  BY <1>3, <1>4, <1>5, <1>6, Zenon DEF no_context

LEMMA BadAreaStep == ASSUME NEW t \in Thread, Inv, bad_area_nosemaphore(t) PROVE Inv'
<1>1. pc[t] = "bad_area" /\ ~Holds(t) /\ UNCHANGED <<f, rd, own, fatal, vma>>
  BY Zenon DEF bad_area_nosemaphore, Holds
<1>2. arch' \in [Thread -> SUBSET Bits] => Leaves(t)
  BY <1>1, LeavesPlain, Zenon
<1>3. CASE Return(t, "quirk") /\ UNCHANGED arch
  BY <1>1, <1>2, <1>3, ArchType, ReturnInv, Zenon DEF Inv, Outcome
<1>4. CASE Return(t, loc[t].si) /\ set_signal_archinfo(t)
  <2>1. loc[t].si \in Outcome \ {"oops", "panic"}
    BY Types, Zenon DEF Inv, Locals, Outcome, Sig
  <2> QED
    BY <1>1, <1>2, <1>4, <2>1, ArchType, ReturnInv, Zenon DEF Inv
<1>5. CASE ~OfUser(f[t]) /\ Call(t, "no_context", loc[t]) /\ UNCHANGED arch
  BY <1>1, <1>2, <1>5, ArchType, CallInv, Types, Zenon DEF Inv
<1> QED
  BY <1>3, <1>4, <1>5, Zenon DEF bad_area_nosemaphore, OfUser, user_mode, Has

LEMMA KernAddrStep == ASSUME NEW t \in Thread, Inv, do_kern_addr_fault(t) PROVE Inv'
<1>1. pc[t] = "kern_addr" /\ ~Holds(t) /\ UNCHANGED <<f, rd, own, fatal, arch, vma>>
  BY Zenon DEF do_kern_addr_fault, Holds
<1>2. Leaves(t)
  BY <1>1, LeavesPlain, ArchType, Zenon DEF Inv
<1>3. CASE Return(t, "handled")
  BY <1>1, <1>2, <1>3, ReturnInv, Zenon DEF Outcome
<1>4. CASE BadArea(t, "MAPERR")
  BY <1>1, <1>2, <1>4, BadAreaInv, Zenon DEF Sig
<1> QED
  BY <1>3, <1>4, Zenon DEF do_kern_addr_fault

LEMMA UserAddrStep == ASSUME NEW t \in Thread, Inv, do_user_addr_fault(t) PROVE Inv'
<1>1. pc[t] = "user_addr" /\ ~Holds(t) /\ UNCHANGED <<f, rd, own, fatal, arch, vma>>
  BY Zenon DEF do_user_addr_fault, Holds
<1>2. Leaves(t)
  BY <1>1, LeavesPlain, ArchType, Zenon DEF Inv
<1>3. CASE Return(t, "handled")
  BY <1>1, <1>2, <1>3, ReturnInv, Zenon DEF Outcome
<1>4. CASE pgtable_bad(t)
  BY <1>1, <1>4, OopsInv, Zenon DEF pgtable_bad, Has
<1>5. CASE BadArea(t, "MAPERR")
  BY <1>1, <1>2, <1>5, BadAreaInv, Zenon DEF Sig
<1>6. CASE f[t].ctx = "task" /\ Call(t, "trylock", [loc[t] EXCEPT !.irq = user_mode(t) \/ f[t].IFL])
  <2> DEFINE i == user_mode(t) \/ f[t].IFL
  <2> DEFINE l == [loc[t] EXCEPT !.irq = i]
  <2>1. loc[t] \in Locals /\ i \in BOOLEAN
    BY Types, Zenon DEF Inv
  <2>2. l \in Locals /\ l.irq = i
    BY <2>1, Zenon DEF Locals
  <2>3. Goes(t, "trylock", l, out[t])
    BY <1>6, CallGoes, Zenon DEF Inv
  <2>4. out[t] \in Outcome \ {"oops", "panic"}
    BY <1>1, NotOops, Zenon
  <2>5. l.irq \/ (f[t].ip # "user" /\ ~f[t].IFL)
    BY <2>2, Zenon DEF user_mode
  <2>6. Local("trylock", l, out[t], f[t], own[t])
    BY <1>1, <1>6, <2>4, <2>5, Owned, Zenon DEF Local
  <2> QED
    BY <1>1, <1>2, <2>2, <2>3, <2>4, <2>6, LeavesInv DEF Pcs
<1> QED
  BY <1>3, <1>4, <1>5, <1>6, Zenon DEF do_user_addr_fault

(* The semaphore is taken. *)
LEMMA TakenInv ==
  ASSUME NEW t \in Thread, Inv, pc[t] \in {"trylock", "down_read"}, ~Writer,
         rd' = [rd EXCEPT ![t] = @ + 1], Call(t, "find_vma", loc[t]),
         UNCHANGED <<f, own, fatal, arch, vma>>
  PROVE  Inv'
<1>1. rd[t] = 0
  BY Alive, Zenon DEF Semaphore, Holds
<1>2. rd' = [rd EXCEPT ![t] = 1] /\ 1 \in Nat
  BY <1>1 DEF Inv, TypeOK
<1>3. f' = [f EXCEPT ![t] = f[t]] /\ f[t] \in AnyAccess /\ f'[t] = f[t] /\ vma \in VmaKind
      /\ arch \in [Thread -> SUBSET Bits]
  BY Zenon DEF Inv, TypeOK
<1>4. Goes(t, "find_vma", loc[t], out[t]) /\ loc[t] \in Locals
  BY CallGoes, Types, Zenon DEF Inv
<1>5. out[t] \in Outcome \ {"oops", "panic"}
  BY NotOops, Zenon
<1>6. Local("find_vma", loc[t], out[t], f[t], own[t])
  BY <1>5, Owned, Zenon DEF Inv, LocalOf, Local
<1>7. Good(t, "find_vma", loc[t], out[t])
  BY <1>3, <1>4, <1>5, <1>6, Zenon DEF Good, Pcs
<1>8. pc[t] # "dead" /\ vma' \in VmaKind /\ vma' = vma /\ arch' \in [Thread -> SUBSET Bits]
  BY <1>3, Zenon
<1> HIDE DEF Goes, Good, Inv
<1> QED
  BY <1>2, <1>3, <1>4, <1>7, <1>8, StepInv, Zenon

LEMMA TrylockStep == ASSUME NEW t \in Thread, Inv, Trylock(t) PROVE Inv'
<1>1. pc[t] = "trylock" /\ ~Holds(t) /\ UNCHANGED <<f, own, fatal, arch, vma>>
  BY Zenon DEF Trylock, Holds
<1>2. CASE ~Contended
  <2>1. ~Writer
    BY <1>2, Zenon DEF Contended, Writer
  <2> QED
    BY <1>1, <1>2, <2>1, TakenInv, Zenon DEF Trylock
<1>3. CASE Contended
  <2>1. UNCHANGED rd
    BY <1>3, Zenon DEF Trylock
  <2>2. Leaves(t)
    BY <1>1, <2>1, LeavesPlain, ArchType, Zenon DEF Inv
  <2>3. CASE f[t].ip \in {"block", "kernel"}
    BY <1>1, <1>3, <2>2, <2>3, BadAreaInv, Zenon DEF Trylock, Sig
  <2>4. CASE f[t].ip \notin {"block", "kernel"}
    <3>1. f[t].ctx = "task" /\ own[t] = "no"
      BY <1>1, <2>4, Owned, Zenon DEF Inv, LocalOf, Local
    <3>2. out[t] \in Outcome \ {"oops", "panic"}
      BY <1>1, NotOops, Zenon
    <3>3. Local("down_read", loc[t], out[t], f[t], own[t])
      BY <1>1, <3>1, <3>2, Zenon DEF Inv, LocalOf, Local
    <3>4. Goes(t, "down_read", loc[t], out[t]) /\ loc[t] \in Locals
      BY <1>3, <2>4, CallGoes, Types, Zenon DEF Trylock, Inv
    <3> QED
      BY <1>1, <2>2, <3>2, <3>3, <3>4, LeavesInv DEF Pcs
  <2> QED
    BY <2>3, <2>4, Zenon
<1> QED
  BY <1>2, <1>3, Zenon

LEMMA DownReadStep == ASSUME NEW t \in Thread, Inv, DownRead(t) PROVE Inv'
  BY TakenInv, Zenon DEF DownRead

LEMMA DeniedIsError ==
  ASSUME NEW t, NEW v PROVE access_error(t, v) <=> Denied(f[t], v)
  BY Zenon DEF access_error, Denied, Has

LEMMA FindVmaStep == ASSUME NEW t \in Thread, Inv, FindVma(t) PROVE Inv'
<1>1. pc[t] = "find_vma" /\ Holds(t) /\ UNCHANGED <<f, own, fatal, arch>>
  BY Zenon DEF FindVma, Holds
<1>2. vma' \in VmaKind /\ (vma' = vma \/ vma = "stack")
  BY Zenon DEF FindVma, Inv, TypeOK, VmaKind
<1>3. ASSUME NEW s \in Sig, __bad_area(t, s) PROVE Inv'
  <2>1. Leaves(t)
    BY <1>1, <1>2, <1>3, LeavesHeld, Zenon DEF __bad_area
  <2> QED
    BY <1>1, <1>3, <2>1, BadAreaInv, Zenon DEF __bad_area
<1>4. ASSUME ~access_error(t, vma'), vma' # "stack", UNCHANGED rd,
             Call(t, "handle_mm_fault", [loc[t] EXCEPT !.vm = vma'])
      PROVE  Inv'
  <2> DEFINE l == [loc[t] EXCEPT !.vm = vma']
  <2>1. loc[t] \in Locals
    BY Types, Zenon DEF Inv
  <2>2. l \in Locals /\ l.vm = vma' /\ l.irq = loc[t].irq
    BY <1>2, <2>1, Zenon DEF Locals
  <2>3. Goes(t, "handle_mm_fault", l, out[t])
    BY <1>4, CallGoes, Zenon DEF Inv
  <2>4. out[t] \in Outcome \ {"oops", "panic"}
    BY <1>1, NotOops, Zenon
  <2>5. Local("handle_mm_fault", l, out[t], f[t], own[t])
    BY <1>1, <2>2, <2>4, Zenon DEF Inv, LocalOf, Local
  <2>6. f' = [f EXCEPT ![t] = f[t]] /\ f[t] \in AnyAccess /\ f'[t] = f[t]
        /\ arch' \in [Thread -> SUBSET Bits]
    BY <1>1, Zenon DEF Inv, TypeOK
  <2>7. Good(t, "handle_mm_fault", l, out[t])
    BY <2>2, <2>4, <2>5, <2>6, Zenon DEF Good, Pcs
  <2>8. rd[t] = 1 /\ ~Writer
    BY <1>1, Alive, Zenon DEF Semaphore, Mapped
  <2>9. rd' = [rd EXCEPT ![t] = 1] /\ 1 \in Nat
    BY <1>4, <2>8, Zenon DEF Inv, TypeOK
  <2>10. ~Denied(f'[t], vma')
    BY <1>4, <2>6, DeniedIsError, Zenon
  <2>11. pc[t] # "dead"
    BY <1>1, Zenon
  <2> HIDE DEF l, Goes, Good, Inv
  <2> QED
    BY <1>1, <1>2, <1>4, <2>2, <2>3, <2>6, <2>7, <2>8, <2>9, <2>10, <2>11, StepInv, Zenon
<1>5. CASE __bad_area(t, "MAPERR")
  BY <1>3, <1>5, Zenon DEF Sig
<1>6. CASE bad_area_access_error(t, vma')
  BY <1>3, <1>6, Zenon DEF bad_area_access_error, Sig
<1>7. CASE ~access_error(t, vma') /\ UNCHANGED rd
           /\ Call(t, "handle_mm_fault", [loc[t] EXCEPT !.vm = vma'])
           /\ vma' = IF vma = "stack" THEN "rw" ELSE vma
  <2>1. vma' # "stack"
    BY <1>7, Zenon
  <2> QED
    BY <1>4, <1>7, <2>1, Zenon
<1> QED
  BY <1>5, <1>6, <1>7, Zenon DEF FindVma

LEMMA HandleMmFaultStep == ASSUME NEW t \in Thread, Inv, HandleMmFault(t) PROVE Inv'
<1>1. pc[t] = "handle_mm_fault" /\ Holds(t) /\ UNCHANGED <<f, own, fatal, arch, vma>> /\ up_read(t)
  BY Zenon DEF HandleMmFault, Holds
<1>2. vma' \in VmaKind
  BY <1>1, Zenon DEF Inv, TypeOK
<1>3. Leaves(t)
  BY <1>1, <1>2, LeavesHeld, Zenon
<1>4. CASE Retry(t)
  <2> DEFINE l == [loc[t] EXCEPT !.retry = FALSE]
  <2>1. loc[t] \in Locals
    BY Types, Zenon DEF Inv
  <2>2. l \in Locals /\ ~l.retry /\ l.irq = loc[t].irq
    BY <2>1, Zenon DEF Locals
  <2>3. Goes(t, "down_read", l, out[t])
    BY <1>4, CallGoes, Zenon DEF Retry, Inv
  <2>4. out[t] \in Outcome \ {"oops", "panic"}
    BY <1>1, NotOops, Zenon
  <2>5. own[t] # "write" /\ own[t] # "wants"
    BY <1>1, Alive, Owned, Zenon DEF Mapped, Writer
  <2>6. own[t] \in {"no", "read"}
    BY <2>5, Types, Zenon DEF Inv
  <2>7. Local("down_read", l, out[t], f[t], own[t])
    BY <1>1, <2>2, <2>4, <2>6, Zenon DEF Inv, LocalOf, Local
  <2> QED
    BY <1>1, <1>3, <2>2, <2>3, <2>4, <2>7, LeavesInv DEF Pcs
<1>5. CASE Return(t, "killed") \/ Return(t, "handled")
  BY <1>1, <1>3, <1>5, ReturnInv, Zenon DEF Outcome
<1>6. CASE ~user_mode(t) /\ NoContext(t, "ADRERR")
  BY <1>1, <1>3, <1>6, NoContextInv, Zenon DEF Sig, OfUser, user_mode
<1>7. CASE \E e \in {"oom", "sigbus", "hwpoison", "sigsegv"} : Call(t, e, loc[t])
  BY <1>1, <1>3, <1>7, CallInv, Types, Zenon DEF Inv
<1> QED
  BY <1>4, <1>5, <1>6, <1>7, Zenon DEF HandleMmFault

LEMMA MmFaultErrorStep == ASSUME NEW t \in Thread, Inv, mm_fault_error(t) PROVE Inv'
<1>1. pc[t] \in {"oom", "sigbus", "hwpoison", "sigsegv"} /\ ~Holds(t)
      /\ UNCHANGED <<f, rd, own, fatal, vma>>
  BY Zenon DEF mm_fault_error, Holds
<1>2. arch' \in [Thread -> SUBSET Bits] => Leaves(t)
  BY <1>1, LeavesPlain, Zenon
<1>3. ASSUME NEW s \in {"none", "ADRERR", "MAPERR"}, NoContext(t, s), ~Has(t, "USER"), UNCHANGED arch
      PROVE  Inv'
  BY <1>1, <1>2, <1>3, ArchType, NoContextInv, Zenon DEF Inv, Sig, OfUser, Has
<1>4. ASSUME NEW o \in {"oom", "quirk", "MCEERR", "ADRERR"}, Return(t, o),
             set_signal_archinfo(t) \/ UNCHANGED arch
      PROVE  Inv'
  BY <1>1, <1>2, <1>4, ArchType, ReturnInv, Zenon DEF Inv, Outcome, Sig
<1>5. ASSUME BadArea(t, "MAPERR"), UNCHANGED arch PROVE Inv'
  BY <1>1, <1>2, <1>5, ArchType, BadAreaInv, Zenon DEF Inv, Sig
<1>6. CASE do_sigbus(t)
  BY <1>3, <1>4, <1>6, Zenon DEF do_sigbus
<1> QED
  BY <1>3, <1>4, <1>5, <1>6, Zenon DEF mm_fault_error

LEMMA DoPageFaultStep == ASSUME NEW t \in Thread, Inv, do_page_fault(t) PROVE Inv'
<1>1. pc[t] = "run" /\ own[t] # "wants" /\ UNCHANGED <<rd, own, fatal, arch, vma>>
  BY Zenon DEF do_page_fault
<1>2. PICK a \in AnyAccess :
         /\ own[t] # "no" => a.ip = "kernel" \/ (a.ip = "extable" /\ a.ctx # "task")
         /\ f' = [f EXCEPT ![t] = a]
         /\ \/ Return(t, "handled")
            \/ \E p \in {"kern_addr", "user_addr"} : Goes(t, p, loc[t], "none")
  <2>1. loc' = loc => loc' = [loc EXCEPT ![t] = loc[t]]
    BY Zenon DEF Inv, TypeOK
  <2> QED
    BY <2>1, AccessAssumption, Zenon DEF do_page_fault, Goes
<1>3. f'[t] = a /\ vma' \in VmaKind /\ vma' = vma /\ arch' \in [Thread -> SUBSET Bits]
  BY <1>1, <1>2, Zenon DEF Inv, TypeOK
<1>4. rd[t] = 0
  BY <1>1, Alive, Zenon DEF Semaphore, Holds
<1>5. rd' = [rd EXCEPT ![t] = 0] /\ 0 \in Nat
  BY <1>1, <1>4, Zenon DEF Inv, TypeOK
<1>6. ASSUME NEW p \in Pcs, NEW l, NEW o, Goes(t, p, l, o), Good(t, p, l, o),
             p \notin {"find_vma", "handle_mm_fault"}
      PROVE  Inv'
  <2> HIDE DEF Goes, Good, Inv
  <2> QED
    BY <1>1, <1>2, <1>3, <1>5, <1>6, StepInv, Zenon
<1>7. CASE Return(t, "handled")
  <2>1. Goes(t, "run", Entry, "handled") /\ Local("run", Entry, "handled", f'[t], own[t])
    BY <1>7, Zenon DEF Return, Goes, Local
  <2>2. Good(t, "run", Entry, "handled")
    BY <2>1, EntryType, Zenon DEF Good, Pcs, Outcome
  <2> QED
    BY <1>6, <2>1, <2>2, Zenon DEF Pcs
<1>8. ASSUME NEW p \in {"kern_addr", "user_addr"}, Goes(t, p, loc[t], "none") PROVE Inv'
  <2>1. Local(p, loc[t], "none", f'[t], own[t])
    BY <1>1, <1>2, <1>3, Zenon DEF Local
  <2>2. Good(t, p, loc[t], "none")
    BY <2>1, Types, Zenon DEF Good, Pcs, Outcome, Inv
  <2> QED
    BY <1>6, <1>8, <2>2, Zenon DEF Pcs
<1> QED
  BY <1>2, <1>7, <1>8, Zenon

(* A writer comes in only when nobody is counted. *)
LEMMA MmapSemStep == ASSUME NEW t \in Thread, Inv, MmapSem(t) PROVE Inv'
<1>1. pc[t] = "run" /\ UNCHANGED <<pc, f, loc, rd, fatal, arch, out>>
  BY Zenon DEF MmapSem
<1>2. PICK w \in {"no", "wants", "read", "write"} : own' = [own EXCEPT ![t] = w]
  BY Zenon DEF MmapSem
<1>3. vma' \in VmaKind
  BY AccessAssumption, Zenon DEF MmapSem, Inv, TypeOK
<1>4. TypeOK'
  BY <1>1, <1>2, <1>3, Zenon DEF Inv, TypeOK
<1>5. \A u \in Thread : u # t => own'[u] = own[u]
  BY <1>2, Zenon DEF Inv, TypeOK
<1>6. ASSUME NEW u \in Thread PROVE LocalOf(u)'
  <2>1. CASE u = t
    BY <1>1, <2>1, Zenon DEF Inv, LocalOf, Local
  <2>2. CASE u # t
    BY <1>1, <1>5, <2>2, Zenon DEF Inv, LocalOf
  <2> QED
    BY <2>1, <2>2, Zenon
<1>7. Running /\ \A u \in Thread : Semaphore(u) /\ Mapped(u)
  BY <1>1, Alive, Zenon DEF Inv
<1>8. ASSUME NEW u \in Thread PROVE Mapped(u)'
  <2>1. CASE \A v \in Thread : rd[v] = 0
    <3>1. ~Holds(u)
      BY <1>7, <2>1 DEF Semaphore
    <3> QED
      BY <1>1, <3>1, Zenon DEF Mapped, Holds
  <2>2. CASE own'[t] # "write" /\ UNCHANGED vma
    <3>1. Writer' => Writer
      BY <1>5, <2>2, Zenon DEF Writer
    <3> QED
      BY <1>1, <1>7, <2>2, <3>1, Zenon DEF Mapped, Holds
  <2>3. own[t] = "wants" \/ (UNCHANGED vma /\ own'[t] # "write")
    BY Zenon DEF MmapSem, Inv, TypeOK
  <2>4. own[t] = "wants" => \A v \in Thread : rd[v] = 0
    BY Zenon DEF MmapSem
  <2> QED
    BY <2>1, <2>2, <2>3, <2>4, Zenon
<1>9. Running' /\ \A u \in Thread : Semaphore(u)'
  BY <1>1, <1>7, Zenon DEF Running, Semaphore, Holds
<1> QED
  BY <1>4, <1>6, <1>8, <1>9, Zenon DEF Inv

(* Nothing the invariant speaks of but fatal. *)
LEMMA KillStep ==
  ASSUME Inv, fatal' \in [Thread -> BOOLEAN], UNCHANGED <<pc, f, loc, rd, own, arch, vma, out>>
  PROVE  Inv'
<1>1. TypeOK'
  BY Zenon DEF Inv, TypeOK
<1>2. \A t \in Thread : LocalOf(t)'
  BY Zenon DEF Inv, LocalOf
<1>3. \A t \in Thread : Mapped(t)'
  BY Zenon DEF Inv, Mapped, Holds, Writer
<1>4. Running' = Running /\ \A t \in Thread : Semaphore(t)' = Semaphore(t)
  BY Zenon DEF Running, Semaphore, Holds
<1> QED
  BY <1>1, <1>2, <1>3, <1>4, Zenon DEF Inv

(* The invariant the theorems rest on. *)
THEOREM Invariant == Spec => []Inv
<1>1. Inv /\ [Next]_vars => Inv'
  <2> SUFFICES ASSUME Inv, [Next]_vars PROVE Inv'
    BY Zenon
  <2>1. ASSUME NEW t \in Thread, Handler(t) PROVE Inv'
    BY <2>1, KernAddrStep, UserAddrStep, TrylockStep, FindVmaStep, HandleMmFaultStep,
       MmFaultErrorStep, BadAreaStep, NoContextStep, Zenon DEF Handler
  <2>2. ASSUME NEW t \in Thread, do_page_fault(t) \/ DownRead(t) \/ MmapSem(t) PROVE Inv'
    BY <2>2, DoPageFaultStep, DownReadStep, MmapSemStep, Zenon
  <2>3. ASSUME NEW t \in Thread, Kill(t) PROVE Inv'
    <3>1. fatal' \in [Thread -> BOOLEAN]
      BY <2>3, Zenon DEF Kill, Inv, TypeOK
    <3> QED
      BY <2>3, <3>1, KillStep, Zenon DEF Kill
  <2>4. CASE UNCHANGED vars
    <3>1. fatal' \in [Thread -> BOOLEAN]
      BY <2>4, Zenon DEF vars, Inv, TypeOK
    <3> QED
      BY <2>4, <3>1, KillStep, Zenon DEF vars
  <2> QED
    BY <2>1, <2>2, <2>3, <2>4, Zenon DEF Next
<1> QED
  BY InitInv, <1>1, PTL DEF Spec

(* Every path of the handler releases mmap_sem as often as it took it. *)
THEOREM SemIsBalanced == Spec => []SemBalanced
<1>1. Inv => SemBalanced
  BY Zenon DEF Inv, Semaphore, SemBalanced
<1> QED
  BY Invariant, <1>1, PTL

(* The handler sleeps only where the code it interrupted lets it. *)
THEOREM SleepIsSafe == Spec => []SleepsSafely
<1>1. Inv => SleepsSafely
  BY Zenon DEF Inv, LocalOf, Local, SleepsSafely, user_mode
<1> QED
  BY Invariant, <1>1, PTL

(* handle_mm_fault works on the mapping that is there, which permits the access,
   and no writer is in. *)
THEOREM MappingIsCurrent == Spec => []VmaIsCurrent
<1>1. Inv => VmaIsCurrent
  BY DeniedIsError, Zenon DEF Inv, Mapped, Holds, VmaIsCurrent
<1> QED
  BY Invariant, <1>1, PTL

(* What user code does for itself never ends in an oops while the page tables are
   sound. *)
THEOREM UserNeverOopses == Spec => []UserAccessNoOops
<1>1. Inv => UserAccessNoOops
  BY Zenon DEF Inv, LocalOf, Local, OfUser, UserAccessNoOops, user_mode, Has
<1> QED
  BY Invariant, <1>1, PTL
=============================================================================
