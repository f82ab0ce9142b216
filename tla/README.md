# Verification of UserspaceBypass

UserspaceBypass accelerates programs that make many system calls. When a
thread returns from a system call and its code up to the next one is short,
a translation of that code runs inside the kernel, and the next system call is
dispatched from there without going back to user mode. This directory holds
TLA+ specifications of the protocol behind it, of the kernel code it patches
and of the translator, TLC configurations for small instances, and TLAPS proofs
for all instances.

## The system

Paths are relative to `src/source_codes`.

| part | code | state | operations | who runs it |
|------|------|-------|------------|-------------|
| system call entry, with the hook | `kernel_modify/common.c` | thread flags, `zz_var`, `zz_sys_call_table` | entries, exit work; `do_syscall_64` calls `zz_var` after each system call | every thread, on every CPU |
| module | `ub/zz_lkm/zz_lkm_main.c` | `stat_flag` | `func`, load, unload | threads; `insmod`, `rmmod` |
| hot callers | `ub/zz_lkm/stat.c` | per-CPU counters, a table of callers | `stat_func` counts short system calls and hands hot callers to `exe_add` | threads; may sleep in `exe_add` |
| executor | `ub/zz_lkm/exe.c` | `exes[max_exe]`, `added`, the code blocks | `exe_add`, `exe_on_call` | threads; no locks |
| sysfs channel | `ub/zz_lkm/sys.c` | the same table | `sysfs_show` copies the entries out, `sysfs_store` copies a packet in | the daemon, in the kernel |
| daemon | `ub/zz_daemon/main.c` | buffer, history of commands, one directory per address | poll, compile, write in packets | one process; may be killed and restarted |
| translator | `ub/zz_disassem/*.py` | files of the directory | disassemble, find the exits, rename registers, print assembly | a child of the daemon, sequential |
| wrapper | `ub/zz_daemon/asm/wrapper.S` | stack frame | save and restore the context, leave the block with a reason | inside a block |
| page faults | `kernel_modify/fault.c`, `ub/zz_lkm/error_handler.h` | `mmap_sem`, page tables | handle faults on user and kernel addresses; find a fix-up for a fault in a block | the fault handler, any thread |
| page attributes | `kernel_modify/pageattr.c` | kernel page tables, TLBs, cache modes | `set_memory_x` (exported for `exe_add`) and its siblings | any CPU |
| everything else | `apps`, `scripts`, `start.sh`, generated `jit.S` | none | benchmarks, configuration, start-up | |

The table is the point where everything meets. A thread's statistics claim a
free slot for a pair of pid and address (`un_used` to `un_init`). The daemon
sees the entry, translates the code at the address and sends the image in
packets; the last one makes the entry `normal`. From then on the thread runs
the block whenever it returns to that address. If the block meets a call or an
indirect jump it does not know, and that happens too often, the thread
stores where it was heading and makes the entry `call_miss` or `ij_miss`; the
daemon adds the exit to its tables, translates again and writes the block
again. No lock protects any of this: what keeps it safe is the order of the
stores and who writes in which status.

The three kernel files are part of the repository because the project patches
them: the hook is in `common.c`, the fix-up of blocks in `fault.c`, and
`pageattr.c` exports `set_memory_x`. What a block relies on is therefore in
them: that its memory is executable on every CPU (`PageAttr`), that touching it
from any address space works (`VmallocFault`), that its faults are handled
(`PageFault`), and that a thread still does its exit work around the hook
(`SyscallEntry`).

## Modules

| module | models | proofs |
|--------|--------|--------|
| `Bypass`, `MCBypass` | executor, sysfs channel, daemon | `BypassProofs` |
| `HotCaller`, `MCHotCaller` | `stat_func` for one CPU | `LkmProofs` |
| `Lifecycle` | load and unload of the module, the hook's reads of `zz_var` | `LkmProofs` |
| `SyscallEntry` | `common.c` | `SyscallEntryProofs` |
| `PageFault`, `MCPageFault` | `do_page_fault` and what it calls, the fix-up of blocks | `PageFaultProofs` |
| `VmallocFault`, `MCVmallocFault` | `vmalloc_fault`, spurious faults | `VmallocFaultProofs` |
| `Prefetch` | `is_prefetch`, as operators that `MCPageFault` checks | |
| `PageAttr`, `MCPageAttr` | `change_page_attr_set_clr` and below | `PageAttrProofs` |
| `PageProt`, `PageAttrMap` | what it promises: the abstract specification of `PageAttr`, and the refinement mapping | `PageProtProofs` |
| `PgdMap` | `kernel_map_pages_in_pgd`, as operators that `MCPageAttr` checks | |
| `SetMemory`, `MCSetMemory` | reservations and modes of the `set_memory_*` functions | `SetMemoryProofs` |
| `RegAlloc`, `MCTranslator` | registers of translated code | |
| `JumpTable` | targets of returns, as operators that `MCTranslator` checks | |

An `MC` module gives the constants of its namesake values that a configuration
cannot write down. In every module an operator introduced by "A slip" or
"Mutant of" is a mistaken variant of its neighbour (`SwapUnloaded` before `Swap`); no specification uses it, and every property was seen to fail
with one of them in place.

The parts meet as follows. `HotCaller` produces calls of `exe_add`; `Bypass`
admits any pair of thread and address, so whatever `HotCaller` chooses is
covered. `Bypass` composes executor, channel and daemon in one module, since
they share every variable. `Lifecycle` has the same hook, threads and sysfs
handlers but only the life of the memory they use. `SetMemory` takes
`change_page_attr_set_clr` as one step; `PageAttr` is that step in detail, and
`PageProt` what the two agree on. A translation is one step of `Bypass`;
`JumpTable` and `RegAlloc` look inside it.

### How `Bypass` corresponds to the code

State. `status_code`, `pid`, `RIP`, `code_block`, `jump_from`, `tgt_addr`,
`success_cnt` and `fail_cnt` are the fields of `exes`, one function from slots
each. `heap` is what the blocks contain, `nblk` how many `vmalloc` has
returned; block 0 is the null pointer. `added` and `stat_flag` are the
variables of the same names. A thread has a position `pc`, `regs->ip`, and
the locals of `exe_on_call` and `exe_add` that outlive a step. The daemon has
a position `dpc`, the index and buffer of `check`, the offset of `write_sys`,
the history of commands and, for each address, the tables and the `jit.bin` of
its directory.

Actions. Threads: `Syscall` (user mode makes a system call), the chaining loop
of `exe_on_call` (`EnterBlock`, `LeaveChain`, the ways out of a block
`RunToSyscall`, `RunToIllegal`, `MissIgnored`, `MissTaken`, the return of the
dispatched call `SyscallReturns`, and the three stores of a report), `exe_add`
(`AddCheck`, `AddReload`, `AddClaim`, `AddBlock`, `AddPublish`) and `ReturnToUser`. Daemon:
`sysfs_show` entry by entry, `check` entry by entry, `sysfs_store` packet by
packet, `Restart`.

Granularity. A step is what no other CPU can divide in a way that matters:
stores to different fields that another actor reads are separate steps, in
program order, which x86 keeps. `memcpy` of an entry in `sysfs_show` is two
steps, the fields before `jump_from` and the rest, copied upwards. A block is
one step long but everybody may move between entering and leaving it.
`vmalloc` may sleep (`CONFIG_PREEMPT_VOLUNTARY`), so the stores of `exe_add`
are far apart. Its two tests (the status and `added`) are one step, at the time
of the first: unless an increment is lost `added` only grows, and a test of it that
succeeds later would have succeeded then. `added++` is a load and a store,
and whether it loads the variable anew or uses what the test has loaded is up to
the compiler (`AddReload` or not).

Data. An image is the address it was made for and the set of exits it
follows; a byte of a block is the image it belongs to, or `Null`. The
translator is one step that produces the image for the directory's tables, or
fails and leaves `jit.bin` as it was. A new directory starts with the template's
`jit.bin`, `Prebuilt`, which belongs to no address of the program.

Memory that is not written yet is `Null`, except `success_cnt` and `fail_cnt`,
which the code increments without ever setting them: they start with any
value of `Fresh`.

### Assumptions of `Bypass`

* One program, one daemon; a pid is not reused.
* `exe_add` may be called by any thread for any pid and any value of
  `regs->ip`. The statistics choose among these; the model does not need to
  know how.
* An image is not empty and fits its block (`JitAssumption`). Neither
  `write_sys` nor `sysfs_store` checks.
* Allocation succeeds; the module stays loaded (unloading is `Lifecycle`).
* A block leaves through a system call or a miss. The exits for a rejected
  address (`wrapper.S:54-59`) are left out; page faults are `PageFault`.
* The daemon is killed between its calls into the kernel, not inside one.

### The condition `raced`

Two threads can both find a slot `un_used` and both go through `exe_add` for
it (`exe.c:40-54`). The history variable `raced` becomes true when a second
call passes the test while a first is not finished for the same slot. From
then on the table may be inconsistent: without the condition `~ raced` TLC
finds a behaviour of 23 steps in which a thread enters a block that was never
written, because the second `exe_add` replaced `code_block` after the daemon
had made the entry `normal`. The safety properties are therefore stated up to
the first overlap, and say that the overlap is the only way to lose them.
`TypeOK` and `TableFits` do not need the condition.

### The condition `lost`

`added++` of `exe.c:46` is not atomic. Two calls of `exe_add`, also for different
slots, can load the same value; the later store then overwrites the earlier
increment, which the history variable `lost` records. From then on `added` is
smaller than the number of entries, and the table can outgrow the limit: without
the condition TLC finds more slots in use than `added` says. `TableFits` says that
this is the only way, and by how much the limit can be passed otherwise: by one
entry for each thread that is between the test and the increment. With the limit of
62 (`added <= 62` still adds, `exe.c:43`) and the 73 entries of 56 bytes that
`sysfs_show` can copy into a page, eleven threads in `exe_add` at once still fit.

### How the other modules correspond to the code

`HotCaller`. `my_info` is `struct per_cpu_info` of one CPU; `stat_func` is one
step up to the call of `exe_add`, where the thread may sleep and others of the
CPU run it on the same record, and the loop over the callers goes on from the
locals that outlive the call. Times are unsigned: a negative difference is
above every threshold (`Below`). A thread that sleeps in `exe_add` can wake up on
another CPU and go on with the record of the old one at the same time as a thread
there; that parallel use of one record is not modelled, only the alternating one.

`Lifecycle`. One action per call in `zz_lkm_init` and `zz_lkm_exit`. A thread
tests `zz_var`, reads it again to call it, and is in `func` or in the statistics;
it ends in `"oops"` if what it uses is gone. kernfs, which waits for the
handlers of a file, and the freeing of the text are external.

`SyscallEntry`. One thread with its flags, and an environment of other CPUs,
interrupts and a tracer. All of `common.c` that decides which system call runs
and what is done on the way back. The hook chains any number of further calls,
which it dispatches itself: of them the entry code sees the number left in
`orig_ax`. A register
has enough bits to tell apart what is cut off where: two for the number, one for
`__X32_SYSCALL_BIT`, one for the upper half.

`PageFault`. A fault is described by error code, kind of address, kind of
instruction, flags and context. A step of the handler ends where it may sleep or
has released `mmap_sem`; other threads take the semaphore for writing and change
the mapping, also the interrupted code itself may hold it. `handle_mm_fault` is
external: it returns any of its results, and releases the semaphore when it asks
for a retry. `Symbols` is what `kallsyms_lookup_name` finds.

`VmallocFault`. Address spaces with copies of the top-level entries of the
reference table; CPUs that switch between them; translations that are older than
the tables. `vmalloc_fault` and `spurious_kernel_fault` are the two functions of
`fault.c`; allocation, freeing (flushed, and of memory nobody uses any more) and
the MMU are external.

`Prefetch`. The scan byte by byte as a recursive operator; the reference
(`IsPrefetch`) is a definition of what a prefetch instruction is in each mode.
The scan has no state that anybody else sees, so it is checked in the initial
states of the page fault run.

`PageAttr`. Two levels of pages, the frames they map, and per CPU a stack of
`struct cpa_data` (the call, and the nested call for an alias). A step is one
store into a table, the flush of one CPU, or what lies between taking and
releasing `cpa_lock`; TLBs load translations at any time. `PageProt` is the
abstract specification: a map from pages to attributes and frames, and calls that
are applied to their pages in any order. The refinement mapping (`PageAttrMap`)
takes for the map what a walk of the tables finds and for the progress of a call the index
`curpage` of its outermost record (`Applied`).

`PgdMap`. The tables of three levels as a record of functions; every C function
is an operator on it, the loop of rounds a recursive one. An allocation may fail
after any number of successes, for good or once. A store through an entry without
a table ends the model of a call, with the tables as they were before it (`wild`).
Only boot code calls it, before other CPUs run, so it is checked in the initial state
of the attribute run.

`SetMemory`. One step per page reserved or given back in the array functions,
one per call of `change_page_attr_set_clr`, which may fail with the first pages
changed. `memtype` is external: for RAM it holds one mode per page.

`RegAlloc`. `reg_map` is the translator's map; `R` and `Stack` say, for each of
R12 to R15 and each word of the frame, which register's present value it holds.
An instruction is the list of the translator's own calls that it leads to
(`process_normal`, `conflict_resolve`, `release_*`), with all shapes of
operands; choices that depend on the order of Python's sets are
nondeterministic. Within PUSH, POP and CALL the values of RSP before and after it
moves are told apart. The code of a block is straight, so the emitted instructions
are executed as they are emitted.

`JumpTable`. `find` and `dfs` as operators on the tables of a program. The
reference (`Reaches`) does not follow the search: a RET belongs to a callee if
it is in every set of blocks that holds the callee and that control does not
leave. A block's successors are taken to have been disassembled with it.

Configuration assumed for the kernel files: x86-64 with SMAP, NX, PKEYS and
four-level tables; seccomp, kprobes, live patching, 32-bit and x32 system calls
and vsyscall emulation on; `DEBUG_PAGEALLOC` and `CPA_DEBUG` off; voluntary
preemption.

## Runs and what they show

### Executor, channel, daemon (`MCBypass`)

* `TableFits`: unless an increment of `added` was overwritten, `added` counts at
  least the slots in use, and is above the limit by at most one for each thread
  (there are injections of the slots in use into `1 .. added`, and of the numbers
  past the limit into the threads).
* `RunsSoundCode`: a thread that runs a block runs one whole image, never a
  mixture or a part, and unless a compilation for the address has failed the
  image translates the code at `regs->ip`. After a failed first compilation the
  daemon sends the template's `jit.bin`, so the exception is needed.
* `NoOverwrite`: no step changes a block while a thread executes it.
* `RequestIsCurrent`: what the daemon is about to serve from its old copy of
  the table is what the entry still says, and the two addresses of a miss
  belong to one exit, which the installed image lacks.
* `AnswerHasMiss`: the image sent in answer to a miss follows it, also when
  it comes from a compilation for another thread ("Compile saved").
* `Served`: an entry on the white-list that waits for code becomes `normal`, unless
  the daemon has crashed for good.

All use `MCBypass`: two slots, one of them with collisions, two addresses that
follow a system call, one of them white-listed, a call and an indirect jump
to the same target (so that their reports can be confused), images of
one packet, of exactly one full packet and of two packets, and a table limit
that two calls of `exe_add` reach.

| run | instance | states | shows |
|-----|----------|--------|-------|
| `bypass_threads` | two threads, compilations succeed | 1.6 million | all safety properties under every interleaving of two threads and the daemon |
| `bypass_daemon` | one thread, failing compilations, a restart, arbitrary counters | 257 thousand | the same when the daemon is killed at any point or crashes on a missing directory; `Served` |

Bounds. `MaxBlock` bounds the calls of `vmalloc`; there are as many as
slots, and more would only be used after an overlap. `MaxHit` and `MaxFail`
bound the counters; they are large enough for a miss to be ignored and one to
be reported. With one thread an entry can report both exits one after the
other; with two threads each entry reports one, and since the tables belong to
the address, not to the thread, the image grows to two packets all the same.
`MaxRestart` is one: a restart leaves nothing behind but the table, so a
second one meets no new kind of state. `StatLimit` is two, so that statistics
are switched off during the run. `Fresh` is `{0}` in `bypass_threads` to keep
it small.

### Statistics and life cycle

| run | states | shows |
|-----|--------|-------|
| `hot_callers` | 2.2 million | `AddedIsHot`: what reaches `exe_add` was hot and seen; `PerMilestone`, `InterestAlone`: counts and `interested` are right as long as no two threads end a milestone at once |
| `lifecycle` | 3 thousand | `SysfsSafe`, `ThreadsSafe`, `TableWindow`, and `UnloadEnds` |

`hot_callers` has two threads on a CPU, two addresses, a hash that makes them
collide for one thread and not for the other, and thresholds one above the
smallest at which both sides of every test are taken; the clock (`MaxTime`)
covers a milestone and the next. `lifecycle` has two threads, two readers and two
loads, so that a thread of the first life meets the second.

`ThreadsSafe` and `TableWindow` are as strong as the code allows: a thread that
is past the test of `zz_var` when `rmmod` clears it does run into freed memory
in the model, and between two stores of `zz_lkm_init` the system call table is
missing. The properties say that these are the only ways. `late` and `overlap`
are history variables, as `raced` is.

### System calls

| run | states | shows |
|-----|--------|-------|
| `entry` | 717 thousand | `RunsJudged`, `CompatRight`, `UserClean`, `NoLostResume`, `KickHandled` with all three entries, a tracer, seccomp and flags set from outside |

A flag must be set at least twice for the loop to go round again for it;
`MaxSet` is three. The hook chains calls without a bound. `RunsJudged` is about the
system call that was made: the ones the hook makes after it are dispatched by
`func` without `syscall_trace_enter`, so neither seccomp nor the tracer sees them.
`KickHandled` is conditional on the thread leaving the hook again and again, since
`exe_on_call` loops as long as the emulated code makes system calls and looks at no
flag. `UserClean` is about flags that come with an
interrupt; `TIF_PATCH_PENDING` waits for the next entry.

### Faults

| run | states | shows |
|-----|--------|-------|
| `fault` | 119 thousand | every kind of fault of one thread, while another takes `mmap_sem` and changes the mapping: `SemBalanced`, `SleepsSafely`, `VmaIsCurrent`, `UserAccessNoOops`, `FaultEnds`; and `FindsPrefetch` |
| `vmalloc` | 507 thousand | two CPUs, two address spaces, vmalloc memory and the text under top-level entries of their own: `NoBadArea`, `CopiesAgree`, `AccessEnds` |

In `fault` the second thread does not fault itself: two handlers meet only in the
semaphore, which it takes in both modes. `Vma` has one mapping of each kind that
the handler tells apart (a stack becomes a writable one when it is expanded).
`FindsPrefetch` looks at every first byte, then at bytes on both sides of every
boundary, in all modes, with the limit of bytes at three instead of fifteen.

### Page attributes

| run | states | shows |
|-----|--------|-------|
| `cpa` | 173 thousand | two CPUs, ten pages of the direct map, vmalloc space and the high map with shared frames, holes and three large pages: `NoLargeLeft`, `NoStaleTlb`, `NumpagesOK`, `ProtectedOnce`, `CallEnds`, `Refines`; and `MapsRange` for all ranges in eight pages of three sizes after any other call |
| `memtype` | 1.9 million | `Accounted`, `ModeRight` with a failure anywhere |

A large page has two small ones, which is enough for a first, a last and a
neighbour; the flush ceiling of one page lets calls of one and of two pages take
the two ways of flushing. One large page has nothing to protect, so that it can
change as a whole; the others hold text and `.rodata`. Each CPU makes one of
seven or eight calls (`MaxCall` is one), so that every function meets one of every kind
on the same pages. `Loads` names the pages whose translations a TLB loads: one
that is changed directly and as an alias, and its other mapping.

### Translator

| run | states | shows |
|-----|--------|-------|
| `translator` | 5.7 million | `OperandsHold`, `ContextSaved` for sequences of instructions of any length: the state space is finite without a bound; `TargetsRight` for all programs of three blocks |

Three blocks give shared code, recursion and loops; a fourth adds longer paths
to the same joins.

### Deadlock

Deadlock is checked where the system runs for ever (`Bypass`, `SyscallEntry`,
`VmallocFault`). The other runs stop where their bounds, the end of an algorithm
or a thread that died stop the system.

### Fairness

* `bypass_daemon`: the daemon, an ordinary process in an endless loop that waits
  for no one, keeps taking steps. Nothing is assumed of the threads, nor that a
  daemon is restarted: one that meets an old miss after a restart crashes
  (`CheckNoDir`) and nothing starts it again, which `Served` allows for.
* `lifecycle`: `rmmod` and handlers of the file keep running.
* `entry`: the thread runs when it is in the kernel, and an interrupt that was
  sent arrives.
* `fault`: weak fairness of the handler; strong fairness of taking `mmap_sem`
  when no writer holds it or waits, and of releasing it, which is what the queue
  of an rwsem gives.
* `vmalloc`: every CPU keeps running.
* `cpa`: strong fairness of every CPU's steps, for `cpa_lock`, a queued spinlock,
  which is handed on in order.

### Runs that end in a violation

Each states what a comment of the repository says, and TLC shows how the code
differs. `PROJECT.json` has the lines and the words.

| run | what the code does |
|-----|--------------------|
| `fault_block` | a fault in a block looks up `UB_SFI_error_handler`, the module exports `UB_error_handler`: no fix-up, the kernel oopses |
| `translator_syscall` | at a SYSCALL, program registers held in R14 or R15 are not written back to the frame |

### Conditions of the properties

Several properties hold only up to a point that the code can pass. The condition
is part of the property or of the instance, and dropping it makes TLC show the
behaviour:

* `raced` and `lost` (`Bypass`): see above.
* The hook (`SyscallEntry`, `RunsJudged` and `KickHandled`): see the run `entry`.
* `overlap` (`HotCaller`, `InterestAlone`): a thread that slept in `exe_add` ends
  its milestone with an old time; the unsigned difference wraps and `interested`
  turns false after a short milestone.
* The own read lock (`PageFault`, `SleepsSafely` and `FaultEnds`): kernel code that
  faults while it reads under `mmap_sem` comes to `down_read` by way of a retry,
  without a search of the exception tables, and waits for itself if a writer is
  queued.
* Aliases (`PageAttr`, `NoStaleTlb`): `cpa_process_alias` works on a copy of
  `cpa_data`, so a change that reaches only the alias sets `CPA_FLUSHTLB` in the
  copy and nothing is flushed. It takes a page that already is as asked while its
  alias is not: two calls on one vmalloc page at once, or one repeated after a
  failed split. `lost` records the pages, which the property excepts; the instance
  has such a behaviour, and without the exception TLC finds it.
* The flush of a split (`PageAttr`, `NoLargeLeft`): until it reaches a CPU that CPU
  can hold a large and a small translation of a page.
* `Narrow`, `short` and `wild` (`PgdMap`, `MapsRange`): without 1G pages, what lies
  beyond the gigabyte of the first boundary is mapped over it (`Narrow`). If memory
  runs out in the last part, `populate_pud` drops the failure (`short`); when there is
  memory again in the next round, the rest of the range gets wrong frames and the
  call returns 0. A first part that fails can become a round of no pages, which the
  `BUG_ON` stops. Every other failure below the top level leads the clean-up through
  the entry for which no table was allocated: it clears what it takes for entries at
  the start of memory. `MapsRange` says what a call that returns 0 has mapped, and
  that no page outside the range was changed up to such a store (`wild`).
* `torn` (`SetMemory`, `ModeRight`): a call that fails halfway gives back its
  reservations and leaves its mode bits; a later `set_memory_uc` adds its own bit to
  them and returns 0. The pages of such a call are excepted until
  `set_memory_wb` or `set_memory_wc` sets all their bits anew.
* RSP in the operand (`RegAlloc`, `OperandsHold` and `ContextSaved`): `process_push`
  and CALL move RSP before they read their operand, `process_pop` after it has
  written its own. An operand with RSP in it (`PUSH RSP`, `POP [RSP + 8]`, ...) is
  therefore taken with the wrong RSP. `rsp` marks these instructions; nothing is said
  of them, nor of what follows them in the block (`"apart"`).
* Candidates (`RegAlloc`): for an instruction with R12, R13 and R14
  `possible_stable_victims` finds no register although RSP and RBP are not used;
  the translator ends with a `KeyError`, and for the daemon the compilation fails.

## Theorems

Proved for every value of the constants, from the `ASSUME`s of the modules
alone. Where a property is not inductive the invariant is named with it.

### `Bypass`

* `TypeCorrect == Spec => []TypeOK`, which all others rest on. `TypeOK` is
  inductive with two additions (`TypeInv`): what each position of a thread or the
  daemon says about its locals, and that the fields a step is about to use have been
  written.
* `TableIsLimited == Spec => []TableFits`, for any number of threads, also after
  overlaps. The sizes are compared by injections, which a step extends or restricts:
  the invariant (`FitInv`) gives every slot in use, or claimed and not yet published
  (`Held`), a number up to `added`, and every number past the limit a thread that is
  not between the test and the increment (`Claiming`). That nothing else brings a slot into use takes `EntryInv`: an identity
  hashes to its slot, so a packet of the daemon is for the slot it was copied from,
  which is in use, as is the slot of a thread in the loop.
* `CodeIsSound == Spec => []RunsSoundCode` and
  `BlocksStay == Spec => NoOverwrite`.

Neither of these two is inductive. Their invariant `SafeInv` says, as long as there
was no overlap:

* `AddInv`: at most one call of `exe_add` works on a slot, the slot is
  `un_used` meanwhile, and what the call has stored is still there;
* `TableInv`: a used slot has an owner that hashes to it and a block that no
  other slot has;
* `OwnerInv`: a thread inside the loop holds the slot of its own pid and
  address, which stays `normal` until the thread itself reports a miss;
* `SnapInv`: an entry of the daemon's copy that asks for code still says so in
  the table, since only the daemon ends that status;
* `WriteInv`: while `sysfs_store` is at work the bytes below the offset are
  those of the image being sent, and the entry is not `normal`;
* `CodeInv`: the block of a `normal` entry holds one whole image, for the
  entry's address unless a compilation for it failed; a directory's `jit.bin`
  likewise.

The argument in one sentence: a block is written only for an entry the daemon
saw waiting; only the daemon ends the waiting, and only the owner, outside its
block, begins it; so writer and reader of a block exclude each other. The proofs
establish what each kind of step does to one slot, then each conjunct of the
invariant slot by slot, one case per action that can disturb it.

* `AnswerFollows == Spec => []AnswerHasMiss`. Needs `DirInv` as well: a
  directory's `jit.bin` follows every exit of the directory's tables unless a
  compilation has failed, and the command history only holds exits that are in
  them.
* `RequestsCurrent == Spec => []RequestIsCurrent`. Needs `MissInv`: wherever a
  miss is on its way (in a thread about to report it, in the slot, in the
  daemon's copy) its two addresses belong to one exit, and the installed image
  does not know that exit.

### `HotCaller` and `Lifecycle`

`LkmProofs` has the theorems about the kernel module outside its executor. It extends
both modules, which is why `Lifecycle` names its specification `LifeSpec` and the
positions of its threads `hook`.

The statistics, for any threads, addresses, number of slots, hash and thresholds
(`StatAssumption`: the thresholds are numbers, the table has a slot, 0 is no
address of a program):

* `OnlyHotAdded == Spec => AddedIsHot`. The property compares a slot with the
  history of calls, which only an invariant about every slot gives: `Counted`, a
  count is at most the number of short calls after the slot's address (`short`,
  which stops above `hot_caller_th`), and its thread made one of them. A slot
  changes its address only at count 0; going over the table only resets counts,
  whoever else goes over it at the same time.
* `AlwaysInterestAlone == Spec => []InterestAlone`. Needs `Alone`: before an overlap
  one thread at most sleeps in `exe_add`, and the time it carries is not before the
  last end of a milestone, so the difference of times does not wrap.

`Inv` has both, with the types, that a milestone starts where the record says, and
that a thread in `exe_add` is at a slot of the table. `Scan`, the loop up to the next
hot caller, is shared by `stat_func` and `Added`; `ScanIs` is the one lemma about it.

The life of the module, for any threads, users of the file and number of loads:
`SysfsIsSafe`, `ThreadsAreSafe`, `TableIsSet`. `LifeInv` ties each position of init and
exit to what exists there, handlers to the file, and threads beyond the test to the
hook or to `late`.

### The other modules

* `SyscallEntryProofs`: `UserIsClean`, `ResumeNotLost`, `JudgedRuns`,
  `CompatIsRight`. The invariant says what the local copy of the flags may
  miss while interrupts are off, which number seccomp has seen at each position
  and that what was dispatched is that number, and where `TS_COMPAT` is set.
* `PageFaultProofs`: `SemIsBalanced`, `SleepIsSafe`, `MappingIsCurrent`,
  `UserNeverOopses`. The invariant has what each position says of the locals
  (interrupts, whether a retry is still allowed, the signal), readers and writers
  exclude each other, and a mapping that was found under the semaphore is the
  present one. An oops in an interrupt ends all threads, after which nothing is
  claimed.
* `VmallocFaultProofs`: `NeverBadArea`, `CopiesAlwaysAgree`. Tables only grow
  and copies agree; an access that is going on stays allowed, so the check that
  follows a fault finds it allowed.
* `SetMemoryProofs`: `AlwaysAccounted`. A page is reserved exactly when it is held
  or lies between what a call has reserved and what it has given back
  (`ShapeOf` bounds the two counters at every position). `AlwaysModeRight`, from
  the same invariant and `Bits`: the mode bits of a page are those of its memory
  type, except for `torn` pages, pages a call has reserved and not yet changed, and
  pages a call has changed back and not yet given back; which of these a page is
  follows from the position and the counters of the one thread that accounts
  for it.

### `PageAttr`

The constants: any CPUs, pages, size of large pages and flush ceiling, any calls
(`RequestAssumption`: a range is a range), and the mappings the kernel boots with
(`BootAssumption`: a large page maps frames that follow each other, the direct
mapping has each frame at its own number, the high mapping is mapped directly
too; `kernel_physical_mapping_init` and `cleanup_highmap` make it so).

* `Invariant == Spec => []Inv`. Besides types, `Inv` has: `LockInv`, `cpa_lock` is
  held by the CPU that looks at an entry or splits; `Framed`, every entry maps its
  page's frame and only large pages of boot are large; and `Shape`, what the stack of
  `cpa_data` is at each position. The outer record is the call: `curpage` pages are
  done and `rem` are left (`RecOK`, `BaseOK`). The round is about pages that are left
  (`RoundOK`) and `pfn` is the frame of its first page, whose successors are the
  frames of the rest (`RunOK`). An inner record is for another mapping of just these
  frames (`AliasOK`). That the alias has a page for each page of the round is where
  `BootAssumption` is needed.
* `AlwaysNumpagesOK`: the `BUG_ON` for `numpages` in `__change_page_attr_set_clr`
  never fires. It is part of `Shape`.
* `AlwaysNoLargeLeft`: only a split makes large translations obsolete, and its flush
  reaches every CPU before the next step of the CPU that holds the lock; an entry
  that is loaded later is the present one.
* `AlwaysNoStaleTlb`: what is in a TLB and not in the tables will be flushed by a
  CPU that has not returned, except for `lost` pages. A round that stores something
  sets `flushtlb` in its record; if the record is the outer one the flush covers the
  range or everything, if it is an inner one the page is `lost`. No later step of the
  call drops the flag, an error flushes everything.
* `AlwaysProtectedOnce`: a page the call has gone over has its protections. A store
  of a round withholds them (`static_protections` for a small page, the conflict
  checks of `__should_split_large_page` for a large one); a split restores them
  in each of the small pages it makes; nobody else's store takes them away.
* `Implements == Spec => Refines`, that is `Spec => Abstract!Spec`: every step of the
  page table code is a step of `PageProt` or leaves its variables alone. A call
  is `Begin`, the store of a round is `Apply` for the pages of the round, a split is
  `Enforce`, an error is `Fail`, the last flush (or the return without one) is
  `End`; the other steps stutter. `Inv` gives that the pages of a round, of an alias
  too, are within reach of the request, that a whole large page only changes if all
  its pages may get all that was asked for, and that `rem = 0` when a call
  returns 0.

### Only model-checked

* Liveness (`Served`, `UnloadEnds`, `KickHandled`, `FaultEnds`, `AccessEnds`,
  `CallEnds`) and fairness are out of the prover's reach.
* `TargetsRight`, `FindsPrefetch` and `MapsRange` are about what the search of
  `JumpTable`, the scan of `Prefetch` and the rounds of `PgdMap` compute, which needs
  induction over data.
* `OperandsHold`, `ContextSaved`: `RegAlloc` has no constants to generalise over. Its
  registers and frame are those of the machine, and the run visits all its states.
* `PerMilestone` compares the table of callers with a sum over its entries; adding
  one to a sum of unknown length is an induction again.

## Not modelled

* `common.c`: the choice between SYSRETL and IRET at the end of
  `do_fast_syscall_32`, a comparison of register values.
* `fault.c`: the text of an oops, the dumps of page tables, everything for 32-bit
  kernels.
* `pageattr.c`: counters in debugfs, `__set_memory_enc_dec` (memory encryption),
  `__set_pages_p`, `__set_pages_np` and `__kernel_map_pages` (only with
  `DEBUG_PAGEALLOC`), `kernel_unmap_pages_in_pgd`, the flushing of data caches.
* `exe.c`: a failing `vmalloc`; the exits of a block that reject an address
  (`wrapper.S` `seg_error`), which depend on what the stack held before.
* `stat.c`: the array of CPUs, whose numbers come from outside.
* Translator: reading the program's memory and decoding instructions, which a
  library does; `check_flag_def_use`, which compares parts of names with two
  lists, while nothing says what instructions do to flags; the checks of
  addresses that `process_normal` emits, which leave the program's values alone;
  INVLPG, whose exit `ill_inst` no file defines; printing.
* `wrapper.S` beyond what `RegAlloc` takes from it: straight-line moves that are
  right if the layout of the frame is.
* Generated translations, benchmarks, their configuration and scripts: no
  state of the system.
