---------------------------- MODULE SyscallEntry ----------------------------
(***************************************************************************)
(* The way of a thread into and out of a system call (kernel_modify/       *)
(* common.c): do_syscall_64 with the hook, the 32 bit entries, the work    *)
(* before and after a system call and the loop that ends in user mode.     *)
(* Meanwhile the thread's flags are set by other CPUs, by interrupts and   *)
(* by a tracer, which may also change the number of the system call.       *)
(*                                                                         *)
(* A number has as many bits as it takes to tell the cases apart: two for  *)
(* the system call, one for __X32_SYSCALL_BIT, and one for the upper half  *)
(* of the register.                                                        *)
(***************************************************************************)
EXTENDS Integers

CONSTANTS
    Work,           \* TIF flags that are set during the run
    Entry,          \* entry points in use: "64", "int80", "fast"
    MaxSet          \* bound: how often a flag is set

NR_syscalls == 2
X32Bit      == 4
Half        == 8            \* 2^32
Nr          == 0 .. 2 * Half - 1
Skip        == 2 * Half - 1 \* -1L
u32(n)      == n % Half
x32(n)      == (n \div X32Bit) % 2 = 1

EntryWork == {"TRACE", "EMU", "SECCOMP", "TRACEPOINT", "AUDIT"}
SYSCALL_EXIT_WORK_FLAGS == {"TRACE", "AUDIT", "SINGLESTEP", "TRACEPOINT"}

(* In the order in which exit_to_usermode_loop looks at them. *)
LoopOrder == <<"RESCHED", "UPROBE", "PATCH", "SIGPENDING", "NOTIFY", "RETURN_NOTIFY">>
EXIT_TO_USERMODE_LOOP_FLAGS == {LoopOrder[i] : i \in DOMAIN LoopOrder}

(* Set from another CPU together with an interrupt to the one of the thread. *)
Kicked == {"RESCHED", "SIGPENDING", "NOTIFY"}

ASSUME WorkAssumption ==
    /\ Work \subseteq EntryWork \cup SYSCALL_EXIT_WORK_FLAGS \cup EXIT_TO_USERMODE_LOOP_FLAGS
    /\ Entry \subseteq {"64", "int80", "fast"} /\ MaxSet \in Nat

VARIABLES
    flags,      \* ti->flags
    TS_COMPAT,
    irqs,       \* interrupts are on
    ct,         \* context tracking: "user" or "kernel"
    orig_ax,    \* regs->orig_ax
    nr,         \* the local nr
    by,         \* the entry; "irq": an interrupt, "fault": EBP was not readable
    cached,     \* the local copy of the flags
    pc,
    ipi,        \* an interrupt is on its way
    resume,     \* work for tracehook_notify_resume is queued
    sets,       \* bound for the environment
    judged,     \* history: number seccomp allowed; None: no seccomp, Denied: no number
    ran         \* history: number the entry code dispatched; None

vars == <<flags, TS_COMPAT, irqs, ct, orig_ax, nr, by, cached, pc, ipi, resume,
          sets, judged, ran>>
history == <<judged, ran>>
regs == <<orig_ax, nr, by>>
env  == <<ipi, resume, sets>>

None   == -1
Denied == -2

Is32 == by \in {"int80", "fast"}

Init ==
    /\ flags = {} /\ TS_COMPAT = FALSE /\ irqs = TRUE /\ ct = "user" /\ pc = "user"
    /\ orig_ax = 0 /\ nr = 0 /\ by = "64" /\ cached = {}
    /\ ipi = FALSE /\ resume = FALSE /\ sets = 0
    /\ judged = None /\ ran = None

(***************************************************************************)
(* The environment.                                                        *)
(***************************************************************************)

(* Another CPU, an interrupt handler or the tracer sets a flag. *)
SetFlag(f) ==
    /\ sets < MaxSet /\ sets' = sets + 1
    /\ flags' = flags \cup {f} /\ resume' = (resume \/ f = "NOTIFY")
    /\ ipi' = (ipi \/ f \in Kicked)
    /\ UNCHANGED <<TS_COMPAT, irqs, ct, regs, cached, pc, history>>

(* The interrupt: in the kernel the flag is seen later, user mode is left. *)
Interrupt ==
    /\ irqs /\ (ipi \/ (pc = "user" /\ sets < MaxSet)) /\ ipi' = FALSE
    /\ IF pc = "user" THEN /\ ct' = "kernel" /\ irqs' = FALSE /\ by' = "irq" /\ pc' = "prepare"
       ELSE UNCHANGED <<ct, irqs, by, pc>>
    /\ UNCHANGED <<flags, TS_COMPAT, orig_ax, nr, cached, resume, sets, history>>

(***************************************************************************)
(* Entry.                                                                  *)
(***************************************************************************)

Goto(at) == pc' = at

enter_from_user_mode == ct = "user" /\ ct' = "kernel"

(* The three entries; do_fast_syscall_32 first fetches EBP. *)
SystemCall(e) ==
    /\ pc = "user" /\ enter_from_user_mode /\ irqs' = TRUE
    /\ \E n \in Nr : orig_ax' = n /\ nr' = (IF e = "64" THEN n ELSE u32(n))
    /\ by' = e /\ judged' = None /\ ran' = None
    /\ TS_COMPAT' = (TS_COMPAT \/ e = "int80")
    /\ Goto(IF e = "fast" THEN "ebp" ELSE "entry")
    /\ UNCHANGED <<flags, cached, ipi, resume, sets>>

(* do_fast_syscall_32: a bad stack pointer, or on as in do_int80_syscall_32. *)
FetchEbp ==
    /\ pc = "ebp" /\ UNCHANGED <<flags, ct, orig_ax, nr, cached, env, history>>
    /\ \/ irqs' = FALSE /\ by' = "fault" /\ Goto("prepare") /\ UNCHANGED TS_COMPAT
       \/ TS_COMPAT' = TRUE /\ Goto("entry") /\ UNCHANGED <<irqs, by>>

CheckEntryWork ==
    /\ pc = "entry" /\ Goto(IF flags \cap EntryWork # {} THEN "trace" ELSE "dispatch")
    /\ UNCHANGED <<flags, TS_COMPAT, irqs, ct, regs, cached, env, history>>

Enters(n) == nr' = IF Is32 THEN u32(n) ELSE n

(* syscall_trace_enter up to the report to the tracer, which may change the
   number, and may cancel the call. *)
syscall_trace_enter ==
    /\ pc = "trace" /\ cached' = flags \cap EntryWork
    /\ judged' = IF "SECCOMP" \in flags THEN Denied ELSE None
    /\ IF flags \cap {"TRACE", "EMU"} # {}
       THEN /\ \E n \in {orig_ax, 1, Half, Skip} : orig_ax' = n
            /\ \/ "EMU" \notin flags /\ Goto("seccomp") /\ UNCHANGED nr
               \/ Enters(Skip) /\ Goto("dispatch")
       ELSE Goto("seccomp") /\ UNCHANGED <<orig_ax, nr>>
    /\ UNCHANGED <<flags, TS_COMPAT, irqs, ct, by, env, ran>>

(* Mutant of Seccomp: the number at the entry is judged. *)
SeccompEarly ==
    /\ pc = "seccomp" /\ cached' = {} /\ Goto("dispatch")
    /\ judged' = (IF "SECCOMP" \in cached THEN u32(nr) ELSE judged) /\ Enters(orig_ax)
    /\ UNCHANGED <<flags, TS_COMPAT, irqs, ct, orig_ax, by, env, ran>>

(* Seccomp gets the number as it is now, as an int; then tracing and audit. *)
Seccomp ==
    /\ pc = "seccomp" /\ cached' = {} /\ Goto("dispatch")
    /\ IF "SECCOMP" \in cached
       THEN \/ judged' = u32(orig_ax) /\ Enters(orig_ax)
            \/ Enters(Skip) /\ UNCHANGED judged
       ELSE Enters(orig_ax) /\ UNCHANGED judged
    /\ UNCHANGED <<flags, TS_COMPAT, irqs, ct, orig_ax, by, env, ran>>

(* Whether the number is in a table. *)
Legal(n) == IF Is32 THEN n < NR_syscalls
            ELSE n < NR_syscalls \/ (x32(n) /\ n - X32Bit < NR_syscalls)

Dispatch ==
    /\ pc = "dispatch" /\ ran' = IF Legal(nr) THEN nr ELSE ran
    /\ Goto(IF by = "64" THEN "hook" ELSE "exit")
    /\ UNCHANGED <<flags, TS_COMPAT, irqs, ct, regs, cached, env, judged>>

(* The hook of do_syscall_64, called with any number.  func may run system
   calls of its own, as many as it likes: for each one it stores the number in
   orig_ax and dispatches it itself if it is in the table, without the work of
   syscall_trace_enter. *)
zz_var ==
    /\ pc = "hook" /\ UNCHANGED <<flags, TS_COMPAT, irqs, ct, nr, by, cached, env, history>>
    /\ \/ Goto("exit") /\ UNCHANGED orig_ax
       \/ (\E n \in Nr : orig_ax' = n) /\ UNCHANGED pc

(***************************************************************************)
(* Exit.                                                                   *)
(***************************************************************************)

(* The flags are read once, for the work that is done once. *)
syscall_return_slowpath ==
    /\ pc = "exit"
    /\ IF flags \cap SYSCALL_EXIT_WORK_FLAGS # {}
       THEN cached' = flags /\ Goto("exit_work") /\ UNCHANGED irqs
       ELSE Goto("prepare") /\ irqs' = FALSE /\ UNCHANGED cached
    /\ UNCHANGED <<flags, TS_COMPAT, ct, regs, env, history>>

(* Audit, tracepoint and the report to the tracer. *)
syscall_slow_exit_work ==
    /\ pc = "exit_work" /\ cached' = {} /\ irqs' = FALSE
    /\ Goto("prepare")
    /\ UNCHANGED <<flags, TS_COMPAT, ct, orig_ax, nr, by, env, judged, ran>>

(* prepare_exit_to_usermode, with interrupts off. *)
prepare_exit_to_usermode ==
    /\ pc = "prepare"
    /\ LET todo == flags \cap EXIT_TO_USERMODE_LOOP_FLAGS
       IN  IF todo = {} THEN Goto("leave") /\ UNCHANGED <<cached, irqs>>
           ELSE Goto("loop") /\ cached' = todo /\ irqs' = TRUE
    /\ UNCHANGED <<flags, TS_COMPAT, ct, regs, env, history>>

(* The next of the flags that the loop has still to look at. *)
First == CHOOSE f \in cached : \E i \in DOMAIN LoopOrder :
             f = LoopOrder[i] /\ \A j \in 1 .. i - 1 : LoopOrder[j] \notin cached

(* Mutant of LoopWork: all flags that were read are cleared. *)
LoopWorkAll ==
    /\ pc = "loop" /\ cached # {}
    /\ cached' = cached \ {First} /\ flags' = flags \ cached
    /\ Goto(IF First = "NOTIFY" THEN "notify" ELSE "loop")
    /\ UNCHANGED <<TS_COMPAT, irqs, ct, regs, env, history>>

(* Mutant of LoopWork: TIF_NOTIFY_RESUME is not cleared. *)
LoopWorkKept ==
    /\ pc = "loop" /\ cached # {}
    /\ cached' = cached \ {First} /\ flags' = flags \ ({First} \ {"NOTIFY"})
    /\ Goto(IF First = "NOTIFY" THEN "notify" ELSE "loop")
    /\ UNCHANGED <<TS_COMPAT, irqs, ct, regs, env, history>>

(* The work for one flag, which clears it. *)
LoopWork ==
    /\ pc = "loop" /\ cached # {}
    /\ cached' = cached \ {First} /\ flags' = flags \ {First}
    /\ Goto(IF First = "NOTIFY" THEN "notify" ELSE "loop")
    /\ UNCHANGED <<TS_COMPAT, irqs, ct, regs, env, history>>

(* TIF_NOTIFY_RESUME is cleared before what was queued is done. *)
NotifyResume ==
    /\ pc = "notify" /\ resume' = FALSE /\ Goto("loop")
    /\ UNCHANGED <<flags, TS_COMPAT, irqs, ct, regs, cached, ipi, sets, history>>

(* The end of a round: interrupts off, then the flags once more. *)
LoopOff ==
    /\ pc = "loop" /\ cached = {} /\ irqs' = FALSE /\ Goto("reread")
    /\ UNCHANGED <<flags, TS_COMPAT, ct, regs, cached, env, history>>

(* Mutant of LoopAgain: the flags are not read again. *)
LoopNotAgain ==
    /\ pc = "reread" /\ Goto("leave")
    /\ UNCHANGED <<flags, TS_COMPAT, irqs, ct, cached, regs, env, history>>

LoopAgain ==
    /\ pc = "reread"
    /\ LET todo == flags \cap EXIT_TO_USERMODE_LOOP_FLAGS
       IN  IF todo = {} THEN Goto("leave") /\ UNCHANGED <<cached, irqs>>
           ELSE Goto("loop") /\ cached' = todo /\ irqs' = TRUE
    /\ UNCHANGED <<flags, TS_COMPAT, ct, regs, env, history>>

(* Mutant of Leave: TS_COMPAT is not cleared. *)
LeaveCompat ==
    /\ pc = "leave" /\ ~irqs /\ ct' = "user" /\ irqs' = TRUE /\ Goto("user")
    /\ UNCHANGED <<flags, TS_COMPAT, regs, cached, env, history>>

(* The end of prepare_exit_to_usermode, and the return, which restores IF. *)
Leave ==
    /\ pc = "leave" /\ ~irqs
    /\ TS_COMPAT' = FALSE /\ ct' = "user" /\ irqs' = TRUE /\ Goto("user")
    /\ UNCHANGED <<flags, regs, cached, env, history>>

Kernel ==
    \/ FetchEbp \/ CheckEntryWork \/ syscall_trace_enter \/ Seccomp \/ Dispatch \/ zz_var
    \/ syscall_return_slowpath \/ syscall_slow_exit_work \/ prepare_exit_to_usermode
    \/ LoopWork \/ NotifyResume \/ LoopOff \/ LoopAgain \/ Leave

Next ==
    \/ \E e \in Entry : SystemCall(e)
    \/ Kernel \/ Interrupt \/ \E f \in Work : SetFlag(f)

Spec == Init /\ [][Next]_vars

(* The kernel goes on, and an interrupt on its way arrives. *)
FairSpec == Spec /\ WF_vars(Kernel) /\ WF_vars(ipi /\ Interrupt)

(***************************************************************************)
(* Properties.                                                             *)
(***************************************************************************)

(* The comment of exit_to_usermode_loop: user mode is entered with no loop flag
   set.  A flag that another CPU sets after the last look was taken with
   interrupts off, and its interrupt is still to come.  (TIF_PATCH_PENDING is
   set without one and waits for the next entry.) *)
UserClean == pc = "user" /\ flags \cap Kicked # {} => ipi

(* With seccomp enabled at the entry, do_syscall_64 and the 32 bit entries
   dispatch no number but the one that seccomp allowed: none if seccomp denied
   the call or the tracer cancelled it before, not the one before the tracer's
   change, and not another one if the tracer has put a number with bits in the
   upper half into orig_ax, which the 32 bit entries cut off after and the
   filter's int before.  It is about the call that was made; the ones the hook
   makes after it are dispatched by func and not shown to seccomp. *)
RunsJudged == ran # None /\ judged # None => u32(ran) = judged

(* TS_COMPAT is set during a 32 bit system call up to and including the delivery
   of signals, which restart system calls by it, and at no other time: not in
   user mode, in a 64 bit system call or in an interrupt. *)
CompatRight == TS_COMPAT <=> Is32 /\ pc \notin {"ebp", "user"}

(* Work queued for the return to user mode is never forgotten: the flag is set
   or the work is about to be done, also if it is queued while earlier work is
   being done. *)
NoLostResume == resume => "NOTIFY" \in flags \/ pc = "notify"

(* A signal, a reschedule request or resume work is handled, whatever the thread
   was doing when it came, but for one case: func of the hook loops as long as
   the emulated code makes system calls, and nothing in it looks at the flags. *)
KickHandled ==
    []<>(pc # "hook") => \A f \in Kicked : f \in flags ~> f \notin flags
=============================================================================
