------------------------------ MODULE PageFault ------------------------------
(***************************************************************************)
(* The page-fault handler of the patched kernel (kernel_modify/fault.c,    *)
(* 64-bit) and the part of it that is to repair faults of translated code  *)
(* blocks (zz_lkm/error_handler.h).                                        *)
(*                                                                         *)
(* The threads share one address space.  They fault on one user address,   *)
(* on the vsyscall page or on kernel addresses, from user code, from an    *)
(* instruction of the exception tables, from other kernel code and from a  *)
(* translated block; meanwhile others take mmap_sem for writing and change *)
(* the mapping of the user address.  A step ends where the handler may     *)
(* sleep, or has just released mmap_sem.                                   *)
(***************************************************************************)
EXTENDS Integers

CONSTANTS
    Thread,     \* the threads of the process
    Access,     \* thread -> the faults it causes: some of AnyAccess
    Vma,        \* the mappings the user address may have: some of VmaKind
    Symbols     \* what kallsyms_lookup_name finds of the module

(* A fault: the error code; the address ("guard" is a page next to the
   kernel stack, "vsys" the vsyscall page); the instruction ("user" code, one
   of the exception tables, translated "block", other "kernel" code); EFLAGS.AC
   and EFLAGS.IF of the interrupted code; its context: a task, a task that may
   not take the fault (page faults disabled, no mm), an interrupt; the CPU
   quirk the fault is due to. *)
Bits      == {"PROT", "WRITE", "USER", "RSVD", "INSTR", "PK"}
AnyAccess ==
    [err : SUBSET Bits, addr : {"user", "vsys", "kernel", "vmalloc", "guard"},
     ip : {"user", "extable", "block", "kernel"}, AC : BOOLEAN, IFL : BOOLEAN,
     ctx : {"task", "nofault", "interrupt"},
     quirk : {"none", "prefetch", "errata93", "errata100"}]

(* What find_vma finds for the user address: nothing, a mapping that starts
   above it and does not grow down, a stack above it, or a mapping that holds
   it: read-only, writable, without access, writable with a key PKRU denies. *)
VmaKind == {"none", "gap", "stack", "ro", "rw", "noacc", "pkey"}

(* The arguments signal and si_code: SIGSEGV with one of three codes, SIGBUS,
   hardware poison, or no signal. *)
Sig     == {"none", "MAPERR", "ACCERR", "PKUERR", "ADRERR", "MCEERR"}
Outcome == {"none", "handled", "fixup", "ub_fixup", "quirk", "oom", "killed",
            "oops", "die_stop", "overflow", "panic"} \cup Sig

ASSUME AccessAssumption == Access \in [Thread -> SUBSET AnyAccess] /\ Vma \subseteq VmaKind

VARIABLES
    pc,     \* position of each thread in the handler; "run" outside
    f,      \* the fault it handles
    loc,    \* its locals, see Locals
    rd,     \* how often the handler holds mmap_sem for reading
    own,    \* how the code around the fault holds mmap_sem
    fatal,  \* fatal_signal_pending
    arch,   \* current->thread.error_code, what a signal handler is shown
    vma,    \* the mapping of the user address
    out     \* how the last fault of each thread ended

vars == <<pc, f, loc, rd, own, fatal, arch, vma, out>>

(* Interrupts are enabled on this CPU; FAULT_FLAG_ALLOW_RETRY is set in flags;
   vma as found; the arguments signal and si_code. *)
Locals == [irq : BOOLEAN, retry : BOOLEAN, vm : VmaKind, si : Sig]
Entry  == [irq |-> FALSE, retry |-> TRUE, vm |-> "none", si |-> "none"]

(* Before the first fault. *)
NoFault == [err |-> {}, addr |-> "user", ip |-> "kernel", AC |-> FALSE, IFL |-> TRUE,
            ctx |-> "task", quirk |-> "none"]

Init ==
    /\ pc = [t \in Thread |-> "run"]
    /\ f = [t \in Thread |-> NoFault]
    /\ loc = [t \in Thread |-> Entry] /\ rd = [t \in Thread |-> 0]
    /\ own = [t \in Thread |-> "no"] /\ fatal = [t \in Thread |-> FALSE]
    /\ arch = [t \in Thread |-> {}] /\ vma \in Vma
    /\ out = [t \in Thread |-> "none"]

user_mode(t) == f[t].ip = "user"
Has(t, bit)  == bit \in f[t].err

(* The handler goes on at `at' with the locals l. *)
Call(t, at, l) ==
    /\ pc' = [pc EXCEPT ![t] = at] /\ loc' = [loc EXCEPT ![t] = l]
    /\ UNCHANGED out

(* It returns to the interrupted code, which goes on or faults again. *)
Return(t, o) ==
    /\ pc' = [pc EXCEPT ![t] = "run"] /\ loc' = [loc EXCEPT ![t] = Entry]
    /\ out' = [out EXCEPT ![t] = o]

Die(t, o) ==
    /\ pc' = [pc EXCEPT ![t] = "dead"] /\ out' = [out EXCEPT ![t] = o]
    /\ UNCHANGED loc

(* down_read_trylock gives up when a writer holds the semaphore or waits. *)
Writer    == \E u \in Thread : own[u] = "write"
Contended == \E u \in Thread : own[u] \in {"write", "wants"}
up_read(t) == rd' = [rd EXCEPT ![t] = @ - 1]

(***************************************************************************)
(* Signals and oopses.                                                     *)
(***************************************************************************)

(* oops_begin .. oops_end: the thread dies, or an interrupt takes the system
   down. *)
Oops(t) ==
    \/ f[t].ctx # "interrupt" /\ Die(t, "oops")
    \/ /\ f[t].ctx = "interrupt" /\ pc' = [u \in Thread |-> "dead"]
       /\ out' = [out EXCEPT ![t] = "panic"] /\ UNCHANGED loc

(* __die may say stop: then oops_end returns, and do_user_addr_fault goes on. *)
pgtable_bad(t) == Has(t, "RSVD") /\ Oops(t)

is_prefetch(t)  == f[t].quirk = "prefetch" /\ ~Has(t, "INSTR")
is_errata93(t)  == f[t].quirk = "errata93"
is_errata100(t) == f[t].quirk = "errata100"

UB_fault_address_space == 1

(* The part added for translated blocks: the address to go on at, if the
   handler the kernel looks for exists. *)
UB_repairs ==
    /\ "UB_fault_address_space" \in Symbols
    /\ UB_fault_address_space = 1
    /\ "UB_SFI_error_handler" \in Symbols

(* Nothing is said about the layout of the kernel: an access to it always
   looks like a protection fault. *)
set_signal_archinfo(t) ==
    arch' = [arch EXCEPT ![t] = f[t].err \cup {"USER"} \cup
                 (IF f[t].addr = "user" THEN {} ELSE {"PROT"})]

(* fixup_exception succeeds for the instructions of the exception tables.
   sig_on_uaccess_err is set while emulate_vsyscall runs. *)
no_context(t) ==
    /\ pc[t] = "no_context"
    /\ \/ user_mode(t) /\ (Oops(t) \/ Return(t, "die_stop")) /\ UNCHANGED arch
       \/ f[t].ip = "extable" /\ Return(t, "fixup") /\ UNCHANGED arch
       \/ /\ f[t].ip = "extable" /\ f[t].ctx # "interrupt"
          /\ loc[t].si # "none"
          /\ set_signal_archinfo(t) /\ Return(t, loc[t].si)
       \/ /\ f[t].ip \in {"block", "kernel"} /\ UNCHANGED arch
          /\ IF UB_repairs THEN Return(t, "ub_fixup")
             ELSE IF f[t].addr = "guard" THEN Die(t, "overflow")
             ELSE IF is_prefetch(t) \/ is_errata93(t) THEN Return(t, "quirk")
             ELSE Oops(t) \/ Return(t, "die_stop")
    /\ UNCHANGED <<f, rd, own, fatal, vma>>

(* The body of __bad_area_nosemaphore. *)
bad_area_nosemaphore(t) ==
    /\ pc[t] = "bad_area"
    /\ IF user_mode(t) /\ Has(t, "USER")
       THEN IF is_prefetch(t) \/ is_errata100(t)
            THEN Return(t, "quirk") /\ UNCHANGED arch
            ELSE Return(t, loc[t].si) /\ set_signal_archinfo(t)
       ELSE Call(t, "no_context", loc[t]) /\ UNCHANGED arch
    /\ UNCHANGED <<f, rd, own, fatal, vma>>

(* Calls of __bad_area_nosemaphore and no_context. *)
BadArea(t, s)   == Call(t, "bad_area", [loc[t] EXCEPT !.si = s])
NoContext(t, s) == Call(t, "no_context", [loc[t] EXCEPT !.si = s])

(* As BadArea, after releasing mmap_sem. *)
__bad_area(t, s) == up_read(t) /\ BadArea(t, s)

bad_area_access_from_pkeys(t, v) ==
    Has(t, "PK") \/ (v = "pkey" /\ ~Has(t, "INSTR"))

bad_area_access_error(t, v) ==
    __bad_area(t, IF bad_area_access_from_pkeys(t, v) THEN "PKUERR" ELSE "ACCERR")

(***************************************************************************)
(* Faults on kernel addresses.                                             *)
(***************************************************************************)

(* What the page tables hold for the kernel address when they are walked is
   nondeterministic here; the walks are modelled in VmallocFault. *)
do_kern_addr_fault(t) ==
    /\ pc[t] = "kern_addr"
    /\ \/ /\ f[t].err \cap {"RSVD", "USER", "PROT"} = {}
          /\ f[t].addr = "vmalloc" /\ Return(t, "handled")
       \/ /\ f[t].err \in {{"WRITE", "PROT"}, {"INSTR", "PROT"}}
          /\ Return(t, "handled")
       \/ ~user_mode(t) /\ Return(t, "handled")
       \/ BadArea(t, "MAPERR")
    /\ UNCHANGED <<f, rd, own, fatal, arch, vma>>

(***************************************************************************)
(* Faults on user addresses.                                               *)
(***************************************************************************)

(* Up to the semaphore. *)
do_user_addr_fault(t) ==
    /\ pc[t] = "user_addr"
    /\ \/ ~user_mode(t) /\ Return(t, "handled")
       \/ pgtable_bad(t)
       \/ /\ \/ ~Has(t, "USER") /\ ~f[t].AC              \* SMAP
             \/ f[t].ctx # "task"                        \* faulthandler_disabled
          /\ BadArea(t, "MAPERR")
       \/ /\ Has(t, "USER") \/ f[t].AC
          /\ f[t].ctx = "task"
          /\ \/ f[t].addr = "vsys" /\ Return(t, "handled")
             \/ Call(t, "trylock", [loc[t] EXCEPT !.irq = user_mode(t) \/ f[t].IFL])
    /\ UNCHANGED <<f, rd, own, fatal, arch, vma>>

(* Mutant of Trylock: the exception tables are not searched. *)
TrylockUnsearched(t) ==
    /\ pc[t] = "trylock"
    /\ IF ~Contended
       THEN rd' = [rd EXCEPT ![t] = @ + 1] /\ Call(t, "find_vma", loc[t])
       ELSE Call(t, "down_read", loc[t]) /\ UNCHANGED rd
    /\ UNCHANGED <<f, own, fatal, arch, vma>>

(* down_read_trylock; when it fails, only code that may fault waits. *)
Trylock(t) ==
    /\ pc[t] = "trylock"
    /\ IF ~Contended
       THEN rd' = [rd EXCEPT ![t] = @ + 1] /\ Call(t, "find_vma", loc[t])
       ELSE /\ IF f[t].ip \in {"block", "kernel"} THEN BadArea(t, "MAPERR")
               ELSE Call(t, "down_read", loc[t])
            /\ UNCHANGED rd
    /\ UNCHANGED <<f, own, fatal, arch, vma>>

(* Mutant of DownRead: a retry goes on with the mapping found before. *)
DownReadOldVma(t) ==
    /\ pc[t] = "down_read" /\ ~Writer
    /\ rd' = [rd EXCEPT ![t] = @ + 1] /\ Call(t, "handle_mm_fault", loc[t])
    /\ UNCHANGED <<f, own, fatal, arch, vma>>

DownRead(t) ==
    /\ pc[t] = "down_read" /\ ~Writer
    /\ rd' = [rd EXCEPT ![t] = @ + 1] /\ Call(t, "find_vma", loc[t])
    /\ UNCHANGED <<f, own, fatal, arch, vma>>

access_error(t, v) ==
    \/ Has(t, "PK")
    \/ v = "pkey" /\ ~Has(t, "INSTR")
    \/ Has(t, "WRITE") /\ v \in {"ro", "noacc"}
    \/ ~Has(t, "WRITE") /\ (Has(t, "PROT") \/ v = "noacc")

(* find_vma, expand_stack and the check of the access. *)
FindVma(t) ==
    /\ pc[t] = "find_vma"
    /\ \/ /\ vma \in {"none", "gap", "stack"} \/ f[t].addr = "vsys"
          /\ __bad_area(t, "MAPERR") /\ UNCHANGED vma
       \/ /\ vma \notin {"none", "gap"} /\ f[t].addr = "user"
          /\ vma' = IF vma = "stack" THEN "rw" ELSE vma   \* expand_stack
          /\ IF access_error(t, vma') THEN bad_area_access_error(t, vma')
             ELSE /\ Call(t, "handle_mm_fault", [loc[t] EXCEPT !.vm = vma'])
                  /\ UNCHANGED rd
    /\ UNCHANGED <<f, own, fatal, arch>>

RetryAlways(t) == Call(t, "trylock", loc[t])           \* mutant of Retry
Retry(t)       == Call(t, "down_read", [loc[t] EXCEPT !.retry = FALSE])

(* Mutant of HandleMmFault: the semaphore is released once more before a retry. *)
HandleMmFaultUp(t) ==
    /\ pc[t] = "handle_mm_fault" /\ rd' = [rd EXCEPT ![t] = @ - 2] /\ Retry(t)
    /\ UNCHANGED <<f, own, fatal, arch, vma>>

(* VM_FAULT_RETRY means that handle_mm_fault has released mmap_sem. *)
HandleMmFault(t) ==
    /\ pc[t] = "handle_mm_fault" /\ up_read(t)
    /\ \/ IF loc[t].retry /\ ~fatal[t] THEN Retry(t)
          ELSE IF user_mode(t) THEN Return(t, "killed")
          ELSE NoContext(t, "ADRERR")
       \/ Return(t, "handled")
       \/ \E e \in {"oom", "sigbus", "hwpoison", "sigsegv"} : Call(t, e, loc[t])
    /\ UNCHANGED <<f, own, fatal, arch, vma>>

(* Mutant of do_sigbus: user code is treated as the kernel is. *)
do_sigbus_kernel(t) == NoContext(t, "ADRERR") /\ UNCHANGED arch

do_sigbus(t) ==
    IF ~Has(t, "USER") THEN NoContext(t, "ADRERR") /\ UNCHANGED arch
    ELSE IF is_prefetch(t) THEN Return(t, "quirk") /\ UNCHANGED arch
    ELSE /\ set_signal_archinfo(t)
         /\ Return(t, IF pc[t] = "hwpoison" THEN "MCEERR" ELSE "ADRERR")

mm_fault_error(t) ==
    /\ pc[t] \in {"oom", "sigbus", "hwpoison", "sigsegv"}
    /\ IF fatal[t] /\ ~Has(t, "USER")
       THEN NoContext(t, "none") /\ UNCHANGED arch
       ELSE \/ /\ pc[t] = "oom" /\ UNCHANGED arch
               /\ IF Has(t, "USER") THEN Return(t, "oom") ELSE NoContext(t, "MAPERR")
            \/ pc[t] \in {"sigbus", "hwpoison"} /\ do_sigbus(t)
            \/ pc[t] = "sigsegv" /\ BadArea(t, "MAPERR") /\ UNCHANGED arch
    /\ UNCHANGED <<f, rd, own, fatal, vma>>

(***************************************************************************)
(* The entry, and what the threads do outside the handler.                 *)
(***************************************************************************)

fault_in_kernel_space(a) == a.addr \notin {"user", "vsys"}

(* Code that holds mmap_sem makes no access that the exception tables allow
   to sleep: that is the rule of the kernel the handler relies on. *)
do_page_fault(t) ==
    /\ pc[t] = "run" /\ own[t] # "wants"
    /\ \E a \in Access[t] :
          /\ own[t] # "no" => a.ip = "kernel" \/ (a.ip = "extable" /\ a.ctx # "task")
          /\ f' = [f EXCEPT ![t] = a]
          /\ \/ Return(t, "handled")                          \* kmmio_fault
             \/ /\ pc' = [pc EXCEPT ![t] = IF fault_in_kernel_space(a)
                                            THEN "kern_addr" ELSE "user_addr"]
                /\ out' = [out EXCEPT ![t] = "none"] /\ UNCHANGED loc
    /\ UNCHANGED <<rd, own, fatal, arch, vma>>

(* Kernel code of the process takes and releases mmap_sem around a fault. *)
MmapSem(t) ==
    /\ pc[t] = "run"
    /\ \/ /\ own[t] = "no" /\ own' = [own EXCEPT ![t] = "wants"]
          /\ UNCHANGED vma
       \/ /\ own[t] = "no" /\ ~Contended
          /\ own' = [own EXCEPT ![t] = "read"] /\ UNCHANGED vma
       \/ /\ own[t] = "wants" /\ \A u \in Thread : rd[u] = 0
          /\ \A u \in Thread : own[u] \in {"no", "wants"}
          /\ own' = [own EXCEPT ![t] = "write"]
          /\ vma' \in Vma                                    \* mmap, munmap
       \/ /\ own[t] \in {"read", "write"}
          /\ own' = [own EXCEPT ![t] = "no"] /\ UNCHANGED vma
    /\ UNCHANGED <<pc, f, loc, rd, fatal, arch, out>>

(* A fatal signal, to a thread that has a handler to see it. *)
Kill(t) ==
    /\ Access[t] # {} /\ ~fatal[t] /\ fatal' = [fatal EXCEPT ![t] = TRUE]
    /\ UNCHANGED <<pc, f, loc, rd, own, arch, vma, out>>

Handler(t) ==
    \/ do_kern_addr_fault(t) \/ do_user_addr_fault(t) \/ Trylock(t)
    \/ FindVma(t) \/ HandleMmFault(t) \/ mm_fault_error(t)
    \/ bad_area_nosemaphore(t) \/ no_context(t)

Next ==
    \E t \in Thread : \/ do_page_fault(t) \/ Handler(t) \/ DownRead(t)
                      \/ MmapSem(t) \/ Kill(t)

Spec == Init /\ [][Next]_vars

Release(t) == MmapSem(t) /\ own[t] # "no"

(* The CPU runs the handler.  Code that holds the semaphore faults finitely
   often before it releases it.  A reader in the queue of the semaphore is
   woken in the end if no writer holds it or waits for it; with a writer
   before it in the queue it waits for that one too. *)
FairSpec ==
    /\ Spec
    /\ \A t \in Thread : /\ WF_vars(Handler(t)) /\ SF_vars(DownRead(t) /\ ~Contended)
                         /\ SF_vars(Release(t))

(***************************************************************************)
(* Properties.                                                             *)
(***************************************************************************)

Pcs == {"run", "dead", "kern_addr", "user_addr", "trylock", "down_read",
        "find_vma", "handle_mm_fault", "oom", "sigbus", "hwpoison", "sigsegv",
        "bad_area", "no_context"}

TypeOK ==
    /\ pc \in [Thread -> Pcs] /\ f \in [Thread -> AnyAccess]
    /\ loc \in [Thread -> Locals] /\ rd \in [Thread -> Nat]
    /\ arch \in [Thread -> SUBSET Bits]
    /\ own \in [Thread -> {"no", "wants", "read", "write"}]
    /\ fatal \in [Thread -> BOOLEAN] /\ vma \in VmaKind
    /\ out \in [Thread -> Outcome]

Running  == \A t \in Thread : out[t] # "panic"
Holds(t) == pc[t] \in {"find_vma", "handle_mm_fault"}

(* Every path through the handler releases mmap_sem exactly as often as it
   took it, the ones on which handle_mm_fault has released it included: the
   handler holds it once from finding the mapping to the end of
   handle_mm_fault, and no thread returns, waits or dies holding it (unless an
   oops in an interrupt has taken the system down). *)
SemBalanced ==
    Running => \A t \in Thread : rd[t] = IF Holds(t) THEN 1 ELSE 0

(* The handler sleeps only where the interrupted code lets it: not in an
   interrupt or with page faults disabled; with interrupts on if they were on;
   and in down_read only if the code around the fault does not hold mmap_sem
   itself, since it would wait for itself.  The search of the exception tables
   sees to the last point, except in a retry under a read lock (see NoSelfWait). *)
SleepsSafely ==
    \A t \in Thread :
        pc[t] \in {"down_read", "handle_mm_fault"} =>
            /\ f[t].ctx = "task"
            /\ pc[t] = "down_read" =>
                   own[t] = "no" \/ (own[t] = "read" /\ ~loc[t].retry)
            /\ loc[t].irq \/ (~user_mode(t) /\ ~f[t].IFL)

(* The mapping handle_mm_fault works on is the one that is there: after a
   retry it has been looked up again, since the semaphore was free. *)
VmaIsCurrent ==
    \A t \in Thread : pc[t] = "handle_mm_fault" =>
        loc[t].vm = vma /\ ~access_error(t, vma) /\ ~Writer

(* An access that user code makes for itself never ends in an oops, whatever
   the handler meets (retries, errors of handle_mm_fault, fatal signals),
   unless the page tables are corrupt. *)
UserAccessNoOops ==
    \A t \in Thread :
        user_mode(t) /\ Has(t, "USER") /\ ~Has(t, "RSVD") =>
            out[t] \notin {"oops", "panic"}

(* A fault of a translated block is repaired, as the comment of no_context
   says: a block never ends in an oops. *)
UBFaultHandled ==
    \A t \in Thread : f[t].ip = "block" => out[t] # "oops"

(* Code that holds mmap_sem and faults where no fault is expected does not wait
   for mmap_sem: what the comment above down_read_trylock says the search of
   the exception tables is for. *)
NoSelfWait == \A t \in Thread : pc[t] = "down_read" => own[t] = "no"

(* A thread that died with mmap_sem keeps it for ever. *)
Orphaned == \E t \in Thread : pc[t] = "dead" /\ own[t] # "no"

(* Every fault ends: a retry is made at most once, nobody waits for himself.
   Only a thread that oopsed holding mmap_sem, or waits for it while it holds
   it, can stop the others. *)
FaultEnds ==
    \A t \in Thread :
        (pc[t] # "run") ~> (pc[t] \in {"run", "dead"} \/ Orphaned \/ ~NoSelfWait)
=============================================================================
