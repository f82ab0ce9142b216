------------------------- MODULE SyscallEntryProofs -------------------------
(***************************************************************************)
(* The safety of the way into and out of a system call (module             *)
(* SyscallEntry), for any flags, entry points and bounds.                  *)
(*                                                                         *)
(* Before the flags are looked at for the last time interrupts are off, so *)
(* that an interrupt on its way is still on its way in user mode (Clean);  *)
(* a number is judged and put into nr in one step, and what is put there   *)
(* for a call that is not to run is in no table (Judged); TS_COMPAT        *)
(* follows the entry (Compat).                                             *)
(***************************************************************************)
EXTENDS SyscallEntry, TLAPS

Places == {"user", "ebp", "entry", "trace", "seccomp", "dispatch", "hook", "exit",
           "exit_work", "prepare", "loop", "notify", "reread", "leave"}

Types ==
    /\ pc \in Places
    /\ by \in {"64", "int80", "fast", "irq", "fault"}
    /\ ct = "user" <=> pc = "user"
    /\ orig_ax \in Nr /\ nr \in Nr

Clean ==
    /\ pc \in {"prepare", "reread", "leave"} => ~irqs
    /\ pc \in {"leave", "user"} /\ flags \cap Kicked # {} => ipi

Judged ==
    /\ pc \in {"ebp", "entry", "trace", "seccomp", "dispatch"} => ran = None
    /\ pc \in {"ebp", "entry", "trace"} => judged = None
    /\ pc = "seccomp" => judged = IF "SECCOMP" \in cached THEN Denied ELSE None
    /\ pc = "dispatch" => \/ judged = None \/ judged = u32(nr)
                          \/ judged = Denied /\ ~Legal(nr)
    /\ RunsJudged

Compat ==
    /\ pc = "ebp" => by = "fast"
    /\ TS_COMPAT <=> Is32 /\ pc \notin {"ebp", "user"}

Inv == Types /\ Clean /\ Judged /\ Compat /\ NoLostResume

LEMMA InitInv == Init => Inv
  BY DEF Init, Inv, Types, Clean, Judged, RunsJudged, Compat, NoLostResume, Places,
         Is32, Nr, Half

(* Cutting a number off: it stays one, and is not cut off again. *)
LEMMA Cut == ASSUME NEW n \in Nr PROVE u32(n) \in Nr /\ u32(u32(n)) = u32(n)
  BY DEF u32, Nr, Half

LEMMA EntersType ==
  ASSUME NEW n \in Nr, Enters(n) PROVE nr' \in Nr /\ u32(nr') = u32(n)
  BY Cut, Zenon DEF Enters

(* -1 is in no table, also if it is cut off. *)
LEMMA SkipIllegal == ASSUME Enters(Skip) PROVE ~Legal(nr')
<1>1. CASE Is32
  BY <1>1 DEF Enters, Legal, Skip, u32, Half, NR_syscalls
<1>2. CASE ~Is32
  BY <1>2 DEF Enters, Legal, Skip, X32Bit, Half, NR_syscalls
<1> QED
  BY <1>1, <1>2, Zenon

LEMMA Consts == Skip \in Nr /\ 1 \in Nr /\ Half \in Nr /\ X32Bit \in Nr
  BY DEF Skip, Nr, Half, X32Bit

(* Another CPU sets a flag: if it kicks, with an interrupt. *)
LEMMA SetFlagInv == ASSUME NEW fl \in Work, Inv, SetFlag(fl) PROVE Inv'
<1>1. UNCHANGED <<TS_COMPAT, irqs, ct, orig_ax, nr, by, cached, pc, judged, ran>>
  BY Zenon DEF SetFlag, regs, history
<1>2. Types' /\ Judged' /\ Compat'
  BY <1>1, Zenon DEF Inv, Types, Judged, RunsJudged, Legal, Compat, Is32
<1>3. flags' = flags \cup {fl} /\ (ipi' <=> ipi \/ fl \in Kicked) /\ (resume' <=> resume \/ fl = "NOTIFY")
  BY Zenon DEF SetFlag
<1>4. Clean'
  BY <1>1, <1>3, Zenon DEF Inv, Clean
<1>5. NoLostResume'
  BY <1>1, <1>3, Zenon DEF Inv, NoLostResume
<1> QED
  BY <1>2, <1>4, <1>5, Zenon DEF Inv

LEMMA InterruptInv == ASSUME Inv, Interrupt PROVE Inv'
<1>1. irqs /\ UNCHANGED <<flags, TS_COMPAT, orig_ax, nr, cached, resume, judged, ran>>
  BY Zenon DEF Interrupt, history
<1>2. CASE pc = "user"
  <2>1. ct' = "kernel" /\ ~irqs' /\ by' = "irq" /\ pc' = "prepare"
    BY <1>2, Zenon DEF Interrupt
  <2> QED
    BY <1>1, <1>2, <2>1, Zenon DEF Inv, Types, Clean, Judged, RunsJudged, Compat, NoLostResume, Places,
       Is32
<1>3. CASE pc # "user"
  <2>1. UNCHANGED <<ct, irqs, by, pc>>
    BY <1>3, Zenon DEF Interrupt
  <2> QED
    BY <1>1, <1>3, <2>1, Zenon DEF Inv, Types, Clean, Judged, RunsJudged, Legal, Compat,
       NoLostResume, Is32
<1> QED
  BY <1>2, <1>3, Zenon

LEMMA SystemCallInv == ASSUME NEW e \in Entry, Inv, SystemCall(e) PROVE Inv'
<1>1. e \in {"64", "int80", "fast"}
  BY WorkAssumption, Zenon
<1>2. orig_ax' \in Nr /\ nr' \in Nr
  BY Cut, Zenon DEF SystemCall
<1>3. /\ pc = "user" /\ ct' = "kernel" /\ by' = e /\ judged' = None /\ ran' = None
      /\ pc' = IF e = "fast" THEN "ebp" ELSE "entry"
      /\ UNCHANGED <<flags, resume>>
  BY Zenon DEF SystemCall, enter_from_user_mode, Goto
<1>4. TS_COMPAT' <=> e = "int80"
  BY <1>3, Zenon DEF SystemCall, Inv, Compat
<1>5. Types'
  BY <1>1, <1>2, <1>3, Zenon DEF Types, Places
<1>6. Clean' /\ Judged'
  BY <1>3, Zenon DEF Clean, Judged, RunsJudged
<1>7. Compat'
  BY <1>1, <1>3, <1>4, Zenon DEF Compat, Is32
<1>8. NoLostResume'
  BY <1>3, Zenon DEF Inv, NoLostResume
<1> QED
  BY <1>5, <1>6, <1>7, <1>8, Zenon DEF Inv

(* The kernel moves on within a system call. *)
Moves(p) ==
    /\ pc' = p /\ UNCHANGED <<flags, TS_COMPAT, ct, by, resume>>
    /\ orig_ax' \in Nr /\ nr' \in Nr

LEMMA MovesInv ==
  ASSUME NEW p \in Places \ {"user", "ebp"}, Inv, Moves(p), pc \notin {"user", "ebp"},
         p \in {"prepare", "reread", "leave"} => ~irqs',
         p = "leave" => flags \cap Kicked = {}, Judged', pc # "notify"
  PROVE  Inv'
<1>1. Types'
  BY Zenon DEF Inv, Types, Moves
<1>2. Clean'
  BY Zenon DEF Clean, Moves
<1>3. Compat' /\ NoLostResume'
  BY Zenon DEF Inv, Compat, NoLostResume, Moves, Is32
<1> QED
  BY <1>1, <1>2, <1>3, Zenon DEF Inv

LEMMA Frame ==
  ASSUME Inv, UNCHANGED <<orig_ax, nr>> PROVE orig_ax' \in Nr /\ nr' \in Nr
  BY Zenon DEF Inv, Types

LEMMA FetchEbpInv == ASSUME Inv, FetchEbp PROVE Inv'
<1>1. pc = "ebp" /\ by = "fast" /\ UNCHANGED <<flags, ct, orig_ax, nr, resume, judged, ran>>
  BY Zenon DEF FetchEbp, Inv, Compat, env, history
<1>2. CASE ~irqs' /\ by' = "fault" /\ pc' = "prepare" /\ UNCHANGED TS_COMPAT
  BY <1>1, <1>2, Zenon DEF Inv, Types, Clean, Judged, RunsJudged, Compat, NoLostResume, Places, Is32
<1>3. CASE TS_COMPAT' /\ pc' = "entry" /\ UNCHANGED <<irqs, by>>
  BY <1>1, <1>3, Zenon DEF Inv, Types, Clean, Judged, RunsJudged, Compat, NoLostResume, Places, Is32
<1> QED
  BY <1>2, <1>3, Zenon DEF FetchEbp, Goto

LEMMA CheckInv == ASSUME Inv, CheckEntryWork PROVE Inv'
<1>1. PICK p \in {"trace", "dispatch"} : pc' = p
  BY Zenon DEF CheckEntryWork, Goto
<1>2. pc = "entry" /\ UNCHANGED <<flags, TS_COMPAT, irqs, ct, orig_ax, nr, by, resume, judged, ran>>
  BY Zenon DEF CheckEntryWork, regs, env, history
<1>3. Moves(p)
  BY <1>1, <1>2, Frame, Zenon DEF Moves
<1>4. Judged'
  BY <1>1, <1>2, Zenon DEF Inv, Judged, RunsJudged
<1> QED
  BY <1>1, <1>2, <1>3, <1>4, MovesInv, Zenon DEF Places

LEMMA TraceInv == ASSUME Inv, syscall_trace_enter PROVE Inv'
<1>1. pc = "trace" /\ ran = None /\ UNCHANGED <<flags, TS_COMPAT, irqs, ct, by, resume, ran>>
  BY Zenon DEF syscall_trace_enter, env, Inv, Judged
<1>2. PICK p \in {"seccomp", "dispatch"} : pc' = p /\ (p = "dispatch" => Enters(Skip))
  BY Zenon DEF syscall_trace_enter, Goto
<1>3. orig_ax' \in Nr
  BY Consts, Zenon DEF syscall_trace_enter, Inv, Types
<1>4. nr' \in Nr
  BY Consts, EntersType, Zenon DEF syscall_trace_enter, Inv, Types
<1>5. Moves(p)
  BY <1>1, <1>2, <1>3, <1>4, Zenon DEF Moves
<1>6. judged' = (IF "SECCOMP" \in flags THEN Denied ELSE None) /\ cached' = flags \cap EntryWork
  BY Zenon DEF syscall_trace_enter
<1>7. "SECCOMP" \in flags <=> "SECCOMP" \in cached'
  BY <1>6, Zenon DEF EntryWork
<1>8. p = "dispatch" => ~Legal(nr)'
  BY <1>1, <1>2, SkipIllegal, Zenon DEF Legal, Is32
<1>9. Judged'
  BY <1>1, <1>2, <1>6, <1>7, <1>8, Zenon DEF Judged, RunsJudged
<1> QED
  BY <1>1, <1>2, <1>5, <1>9, MovesInv, Zenon DEF Places

LEMMA SeccompInv == ASSUME Inv, Seccomp PROVE Inv'
<1>1. pc = "seccomp" /\ pc' = "dispatch"
      /\ UNCHANGED <<flags, TS_COMPAT, irqs, ct, orig_ax, by, resume, ran>>
  BY Zenon DEF Seccomp, Goto, env
<1>2. /\ orig_ax \in Nr /\ Skip \in Nr /\ ran = None
      /\ judged = IF "SECCOMP" \in cached THEN Denied ELSE None
  BY <1>1, Consts, Zenon DEF Inv, Types, Judged
<1>3. \/ Enters(orig_ax) /\ judged' \in {u32(orig_ax), None}
      \/ Enters(Skip) /\ judged' = Denied
  BY <1>2, Zenon DEF Seccomp
<1>4. Moves("dispatch")
  BY <1>1, <1>2, <1>3, EntersType, Zenon DEF Moves
<1>5. \/ judged' = None \/ judged' = u32(nr')
      \/ judged' = Denied /\ ~Legal(nr)'
  BY <1>1, <1>2, <1>3, EntersType, SkipIllegal, Zenon DEF Legal, Is32
<1>6. Judged'
  BY <1>1, <1>2, <1>5, Zenon DEF Judged, RunsJudged
<1> QED
  BY <1>1, <1>4, <1>6, MovesInv, Zenon DEF Places

LEMMA DispatchInv == ASSUME Inv, Dispatch PROVE Inv'
<1>1. PICK p \in {"hook", "exit"} : pc' = p
  BY Zenon DEF Dispatch, Goto
<1>2. pc = "dispatch" /\ UNCHANGED <<flags, TS_COMPAT, irqs, ct, orig_ax, nr, by, resume, judged>>
  BY Zenon DEF Dispatch, regs, env
<1>3. Moves(p)
  BY <1>1, <1>2, Frame, Zenon DEF Moves
<1>4. ran' = IF Legal(nr) THEN nr ELSE None
  BY <1>2, Zenon DEF Dispatch, Inv, Judged
<1>5. judged = None \/ judged = u32(nr) \/ (judged = Denied /\ ~Legal(nr))
  BY <1>2, Zenon DEF Inv, Judged
<1>6. Judged'
  BY <1>1, <1>2, <1>4, <1>5, Zenon DEF Judged, RunsJudged
<1> QED
  BY <1>1, <1>2, <1>3, <1>6, MovesInv, Zenon DEF Places

(* What func does after the call changes neither what was judged nor what ran. *)
LEMMA HookInv == ASSUME Inv, zz_var PROVE Inv'
<1>1. PICK p \in {"hook", "exit"} : pc' = p
  BY Zenon DEF zz_var, Goto
<1>2. pc = "hook" /\ UNCHANGED <<flags, TS_COMPAT, irqs, ct, nr, by, resume, judged, ran>>
  BY Zenon DEF zz_var, env, history
<1>3. Moves(p)
  BY <1>1, <1>2, Zenon DEF Moves, zz_var, Inv, Types
<1>4. Judged'
  BY <1>1, <1>2, Zenon DEF Inv, Judged, RunsJudged
<1> QED
  BY <1>1, <1>2, <1>3, <1>4, MovesInv, Zenon DEF Places

LEMMA ExitInv == ASSUME Inv, syscall_return_slowpath \/ syscall_slow_exit_work PROVE Inv'
<1>1. PICK p \in {"exit_work", "prepare"} : pc' = p /\ (p = "prepare" => ~irqs')
  BY Zenon DEF syscall_return_slowpath, syscall_slow_exit_work, Goto
<1>2. pc \in {"exit", "exit_work"}
      /\ UNCHANGED <<flags, TS_COMPAT, ct, orig_ax, nr, by, resume, judged, ran>>
  BY Zenon DEF syscall_return_slowpath, syscall_slow_exit_work, regs, env, history
<1>3. Moves(p)
  BY <1>1, <1>2, Frame, Zenon DEF Moves
<1>4. Judged'
  BY <1>1, <1>2, Zenon DEF Inv, Judged, RunsJudged
<1> QED
  BY <1>1, <1>2, <1>3, <1>4, MovesInv, Zenon DEF Places

(* The last look at the flags, with interrupts off. *)
LEMMA LookInv == ASSUME Inv, prepare_exit_to_usermode \/ LoopAgain PROVE Inv'
<1>1. pc \in {"prepare", "reread"} /\ ~irqs
  BY Zenon DEF prepare_exit_to_usermode, LoopAgain, Inv, Clean
<1>2. UNCHANGED <<flags, TS_COMPAT, ct, orig_ax, nr, by, resume, judged, ran>>
  BY Zenon DEF prepare_exit_to_usermode, LoopAgain, regs, env, history
<1>3. Kicked \subseteq EXIT_TO_USERMODE_LOOP_FLAGS
  <2>1. /\ DOMAIN LoopOrder = 1 .. 6
        /\ LoopOrder[1] = "RESCHED" /\ LoopOrder[4] = "SIGPENDING" /\ LoopOrder[5] = "NOTIFY"
    BY DEF LoopOrder
  <2> QED
    BY <2>1 DEF Kicked, EXIT_TO_USERMODE_LOOP_FLAGS
<1>4. CASE flags \cap EXIT_TO_USERMODE_LOOP_FLAGS = {}
  <2>1. pc' = "leave" /\ ~irqs' /\ flags \cap Kicked = {}
    BY <1>1, <1>3, <1>4, Zenon DEF prepare_exit_to_usermode, LoopAgain, Goto
  <2>2. Moves("leave") /\ Judged'
    BY <1>2, <2>1, Frame, Zenon DEF Moves, Inv, Judged, RunsJudged
  <2> QED
    BY <1>1, <2>1, <2>2, MovesInv, Zenon DEF Places
<1>5. CASE flags \cap EXIT_TO_USERMODE_LOOP_FLAGS # {}
  <2>1. pc' = "loop"
    BY <1>5, Zenon DEF prepare_exit_to_usermode, LoopAgain, Goto
  <2>2. Moves("loop") /\ Judged'
    BY <1>2, <2>1, Frame, Zenon DEF Moves, Inv, Judged, RunsJudged
  <2> QED
    BY <1>1, <2>1, <2>2, MovesInv, Zenon DEF Places
<1> QED
  BY <1>4, <1>5, Zenon

(* TIF_NOTIFY_RESUME is cleared on the way to what was queued. *)
LEMMA LoopInv == ASSUME Inv, LoopWork \/ NotifyResume PROVE Inv'
<1>1. PICK p \in {"loop", "notify"} : pc' = p
  BY Zenon DEF LoopWork, NotifyResume, Goto
<1>2. pc \in {"loop", "notify"} /\ UNCHANGED <<TS_COMPAT, irqs, ct, orig_ax, nr, by, judged, ran>>
  BY Zenon DEF LoopWork, NotifyResume, regs, history
<1>3. Types' /\ Clean' /\ Judged' /\ Compat'
  BY <1>1, <1>2, Zenon DEF Inv, Types, Clean, Judged, RunsJudged, Compat, Is32, Places
<1>4. NoLostResume'
  <2>1. CASE LoopWork
    <3>1. pc = "loop" /\ flags' = flags \ {First} /\ resume' = resume
          /\ pc' = IF First = "NOTIFY" THEN "notify" ELSE "loop"
      BY <2>1, Zenon DEF LoopWork, Goto, env
    <3> HIDE DEF First
    <3> QED
      BY <3>1, Zenon DEF Inv, NoLostResume
  <2>2. CASE NotifyResume
    BY <2>2, Zenon DEF NotifyResume, NoLostResume
  <2> QED
    BY <2>1, <2>2, Zenon
<1> QED
  BY <1>3, <1>4, Zenon DEF Inv

LEMMA LoopOffInv == ASSUME Inv, LoopOff PROVE Inv'
<1>1. pc = "loop" /\ pc' = "reread" /\ ~irqs'
      /\ UNCHANGED <<flags, TS_COMPAT, ct, orig_ax, nr, by, resume, judged, ran>>
  BY Zenon DEF LoopOff, Goto, regs, env, history
<1>2. Moves("reread") /\ Judged'
  BY <1>1, Frame, Zenon DEF Moves, Inv, Judged, RunsJudged
<1> QED
  BY <1>1, <1>2, MovesInv, Zenon DEF Places

LEMMA LeaveInv == ASSUME Inv, Leave PROVE Inv'
<1>1. pc = "leave" /\ pc' = "user" /\ ct' = "user" /\ ~TS_COMPAT'
      /\ UNCHANGED <<flags, orig_ax, nr, by, ipi, resume, judged, ran>>
  BY Zenon DEF Leave, Goto, regs, env, history
<1> QED
  BY <1>1, Zenon DEF Inv, Types, Clean, Judged, RunsJudged, Compat, NoLostResume, Places, Is32

LEMMA StutterInv == Inv /\ UNCHANGED vars => Inv'
  BY DEF Inv, Types, Clean, Judged, RunsJudged, Legal, Compat, NoLostResume, Is32, vars

(* The invariant the theorems rest on. *)
THEOREM Invariant == Spec => []Inv
<1>1. Inv /\ [Next]_vars => Inv'
  <2> SUFFICES ASSUME Inv, [Next]_vars PROVE Inv'
    BY Zenon
  <2>1. CASE Kernel
    BY <2>1, FetchEbpInv, CheckInv, TraceInv, SeccompInv, DispatchInv, HookInv, ExitInv,
       LookInv, LoopInv, LoopOffInv, LeaveInv, Zenon DEF Kernel
  <2>2. CASE Interrupt
    BY <2>2, InterruptInv, Zenon
  <2>3. CASE UNCHANGED vars
    BY <2>3, StutterInv, Zenon
  <2> QED
    BY <2>1, <2>2, <2>3, SystemCallInv, SetFlagInv, Zenon DEF Next
<1> QED
  BY InitInv, <1>1, PTL DEF Spec

(* User mode is entered with no signal, reschedule request or resume work pending
   but one whose interrupt is still to come. *)
THEOREM UserIsClean == Spec => []UserClean
<1>1. Inv => UserClean
  BY Zenon DEF Inv, Clean, UserClean
<1> QED
  BY Invariant, <1>1, PTL

(* Work queued for the return to user mode is never forgotten. *)
THEOREM ResumeNotLost == Spec => []NoLostResume
<1>1. Inv => NoLostResume
  BY Zenon DEF Inv
<1> QED
  BY Invariant, <1>1, PTL

(* With seccomp enabled at the entry, the entry code dispatches no number but the
   one that seccomp allowed.  (Calls chained by the hook are not its doing.) *)
THEOREM JudgedRuns == Spec => []RunsJudged
<1>1. Inv => RunsJudged
  BY Zenon DEF Inv, Judged, RunsJudged
<1> QED
  BY Invariant, <1>1, PTL

(* TS_COMPAT is set exactly during the 32 bit system calls. *)
THEOREM CompatIsRight == Spec => []CompatRight
<1>1. Inv => CompatRight
  BY Zenon DEF Inv, Compat, CompatRight
<1> QED
  BY Invariant, <1>1, PTL
=============================================================================
