------------------------------- MODULE Bypass -------------------------------
(***************************************************************************)
(* The boosting protocol of UserspaceBypass: application threads that run  *)
(* translated code blocks inside the kernel (zz_lkm/exe.c), the table of   *)
(* blocks `exes' they share, the statistics hook that adds entries to it,  *)
(* and the user-space daemon that polls the table through sysfs, compiles  *)
(* what is missing and writes it back in packets (zz_lkm/sys.c,            *)
(* zz_daemon/main.c).                                                      *)
(*                                                                         *)
(* Granularity.  Every step another CPU can observe is a step of its own:  *)
(* the stores of exe_add and exe_on_call in program order (x86 keeps it),  *)
(* the two halves of sysfs_show's copy of an entry, sysfs_store's memcpy   *)
(* and its store of the status.  A translated block is one step from entry *)
(* to exit during which everybody else may move.                           *)
(*                                                                         *)
(* Data.  What a block does is abstracted to the exits it was compiled     *)
(* with: an image is the pair of the address it starts at and the set of   *)
(* calls and indirect jumps it can follow.                                 *)
(***************************************************************************)
EXTENDS Integers, Functions

CONSTANTS
    Pid,            \* the threads of the boosted program (task_pid_nr)
    Addr,           \* user code addresses
    Rip,            \* the addresses that follow a syscall instruction
    Null,           \* memory not written yet: no pid, address, code or entry
    Fresh,          \* what the counters of an entry hold in such memory
    MaxExe,         \* size of the table (max_exe)
    SlotOf,         \* <<pid, address>> -> slot (zz_hash % max_exe)
    Exit,           \* the program's calls and indirect jumps
    Targets,        \* the daemon's white-list of addresses
    AddLimit,       \* exe_add refuses once added > AddLimit (62)
    BlockBytes,     \* size of a code block (4096 * num_pg)
    MaxPay,         \* largest payload of a packet (max_pay)
    JitLen,         \* image -> length of its jit.bin
    StatLimit,      \* statistics run while stat_flag < StatLimit (100)
    CompileMayFail, \* TRUE when the translator may fail
    MaxRestart,     \* bound: restarts of the daemon
    MaxBlock,       \* bound: calls of vmalloc by exe_add
    MaxHit, MaxFail \* bounds: success_cnt, fail_cnt

(* Status codes, zz_lkm/exe.h. *)
un_used   == -2
un_init   == -1
normal    == 0
call_miss == 1
ij_miss   == 2

Misses == {call_miss, ij_miss}
Status == {un_used, un_init, normal} \cup Misses

Slot  == 0 .. MaxExe - 1
Byte  == 0 .. BlockBytes - 1
Block == 0 .. MaxBlock             \* 0 is the NULL pointer

(* What the fields of a report hold.  Nothing in the types says that the two
   addresses are those of one exit. *)
JumpFrom == {x.from : x \in Exit} \cup {Null}
TgtAddr  == {x.tgt : x \in Exit} \cup {Null}
AnyMiss  == [kind : Misses, from : JumpFrom, tgt : TgtAddr]

(* An image that translates the code at rip, following the exits `known'. *)
Image == [rip : Addr \cup {Null}, known : SUBSET AnyMiss]

(* The jit.bin left in zz_daemon/asm, which a new directory starts with: it
   was compiled for another run of another program. *)
Prebuilt == [rip |-> Null, known |-> {}]

(* The arguments of exe_add. *)
Candidate == [pid : Pid, rip : Addr]

(* A struct exe_info as the daemon reads it. *)
Entry == [status_code : Status, pid : Pid, RIP : Addr,
          jump_from : JumpFrom, tgt_addr : TgtAddr]

ASSUME NullAssumption ==
    /\ Null \notin Pid /\ Null \notin Addr /\ Null \notin Image
    /\ Null \notin Entry /\ Null \notin Candidate /\ Null \notin AnyMiss
ASSUME SizeAssumption ==
    /\ MaxExe \in Nat \ {0} /\ MaxBlock \in Nat
    /\ MaxPay \in Nat \ {0} /\ BlockBytes \in Nat \ {0}
    /\ AddLimit \in Nat /\ StatLimit \in Nat /\ MaxRestart \in Nat
    /\ MaxHit \in Nat /\ MaxFail \in Nat /\ CompileMayFail \in BOOLEAN
ASSUME FreshAssumption == Fresh \subseteq Nat
ASSUME AddrAssumption  == Rip \subseteq Addr /\ Targets \subseteq Addr
ASSUME SlotAssumption  == SlotOf \in [Pid \X Addr -> Slot]

(* A jit.bin is not empty and fits its block; write_sys and sysfs_store check
   neither. *)
ASSUME JitAssumption   == JitLen \in [Image -> 1 .. BlockBytes]

(* Only an indirect jump has a source. *)
ASSUME ExitAssumption ==
    \A x \in Exit : /\ x \in [kind : Misses, from : Addr \cup {Null}, tgt : Addr]
                    /\ x.kind = call_miss <=> x.from = Null

(* The values regs->ip takes when func is called or left. *)
Ips == Rip \cup {x.tgt : x \in Exit}

VARIABLES
    \* struct exe_info exes[max_exe], one function per field
    status_code, pid, RIP, code_block, jump_from, tgt_addr,
    success_cnt, fail_cnt,
    heap, nblk,     \* contents and number of the blocks vmalloc returned
    added, stat_flag,
    seen,           \* per thread: `added' as exe_add has last loaded it
    \* per thread: position in func, regs->ip, the locals exe, virt_ptr and
    \* args[0] of exe_on_call, the arguments of exe_add
    pc, ip, exe, virt_ptr, miss, cand,
    \* the daemon: position, index, buffer, offset, commands run, the tables
    \* and the jit.bin of each directory
    dpc, idx, snap, off, hist, table, jit, restarts,
    \* history: two calls of exe_add have overlapped on a slot; an increment of
    \* `added' has been overwritten; the addresses a compilation has failed for
    raced, lost, failed

exeVars    == <<status_code, pid, RIP, code_block, jump_from, tgt_addr,
                success_cnt, fail_cnt>>
memVars    == <<heap, nblk, added, seen, lost>>
threadVars == <<pc, ip, exe, virt_ptr, miss, cand>>
daemonVars == <<dpc, idx, snap, off, hist, table, jit, restarts, failed>>
vars == <<exeVars, memVars, threadVars, daemonVars, stat_flag, raced>>

(* zz_lkm_init.  exe_init sets the status of the entries and nothing else:
   vmalloc does not clear them, and exe_add does not reset the counters. *)
Init ==
    /\ status_code = [s \in Slot |-> un_used]
    /\ pid = [s \in Slot |-> Null] /\ RIP = [s \in Slot |-> Null]
    /\ code_block = [s \in Slot |-> 0]
    /\ jump_from = [s \in Slot |-> Null] /\ tgt_addr = [s \in Slot |-> Null]
    /\ success_cnt \in [Slot -> Fresh] /\ fail_cnt \in [Slot -> Fresh]
    /\ heap = [b \in Block |-> [i \in Byte |-> Null]]
    /\ nblk = 0 /\ added = 0 /\ seen = [t \in Pid |-> 0] /\ stat_flag = 1
    /\ pc = [t \in Pid |-> "user"] /\ ip = [t \in Pid |-> Null]
    /\ exe = [t \in Pid |-> 0] /\ virt_ptr = [t \in Pid |-> 0]
    /\ miss = [t \in Pid |-> Null] /\ cand = [t \in Pid |-> Null]
    /\ dpc = "show" /\ idx = 0 /\ snap = [s \in Slot |-> Null] /\ off = 0
    /\ hist = {} /\ table = [a \in Addr |-> {}] /\ jit = [a \in Addr |-> Null]
    /\ restarts = 0 /\ raced = FALSE /\ lost = FALSE /\ failed = {}

(***************************************************************************)
(* Application threads: func and exe_on_call.                              *)
(***************************************************************************)

get_exe(p, a) == SlotOf[<<p, a>>]

Goto(t, from, to) == pc[t] = from /\ pc' = [pc EXCEPT ![t] = to]

(* A system call from user mode; do_syscall_64 runs it, then calls func. *)
Syscall(t) ==
    /\ Goto(t, "user", "lookup")
    /\ \E r \in Rip : ip' = [ip EXCEPT ![t] = r]
    /\ UNCHANGED <<exeVars, memVars, exe, virt_ptr, miss, cand, daemonVars,
                   stat_flag, raced>>

(* Mutant of Boosted: the addresses are not compared. *)
BoostedAnyRip(t) ==
    LET s == get_exe(t, ip[t])
    IN  status_code[s] = normal /\ pid[s] = t

(* Mutant of Boosted: a block with a miss to be dealt with still runs. *)
BoostedOnMiss(t) ==
    LET s == get_exe(t, ip[t])
    IN  status_code[s] >= normal /\ RIP[s] = ip[t] /\ pid[s] = t

(* The test at the head of the chaining loop. *)
Boosted(t) ==
    LET s == get_exe(t, ip[t])
    IN  status_code[s] = normal /\ RIP[s] = ip[t] /\ pid[s] = t

EnterBlock(t) ==
    /\ Goto(t, "lookup", "run")
    /\ Boosted(t)
    /\ LET s == get_exe(t, ip[t])
       IN  /\ exe' = [exe EXCEPT ![t] = s]
           /\ virt_ptr' = [virt_ptr EXCEPT ![t] = code_block[s]]
    /\ UNCHANGED <<exeVars, memVars, ip, miss, cand, daemonVars, stat_flag,
                   raced>>

(* The loop breaks; func goes on to the statistics while they are on.  From
   here on regs->ip is where user mode resumes, and no longer kept. *)
LeaveChain(t) ==
    /\ Goto(t, "lookup", IF stat_flag < StatLimit THEN "stat" ELSE "user")
    /\ ~ Boosted(t)
    /\ exe' = [exe EXCEPT ![t] = 0] /\ ip' = [ip EXCEPT ![t] = Null]
    /\ UNCHANGED <<exeVars, memVars, virt_ptr, miss, cand, daemonVars,
                   stat_flag, raced>>

(* Block b holds the whole of one image. *)
Whole(b) == LET img == heap[b][0]
            IN  img # Null /\ \A i \in 0 .. JitLen[img] - 1 : heap[b][i] = img

(* What thread t is about to execute translates the code at regs->ip. *)
Sound(t) == Whole(virt_ptr[t]) /\ heap[virt_ptr[t]][0].rip = ip[t]

(* The translated code reaches a syscall instruction (args[0] = normal).  The
   number is legal: the system call is dispatched. *)
RunToSyscall(t) ==
    /\ Goto(t, "run", "sys")
    /\ Sound(t)
    /\ success_cnt[exe[t]] < MaxHit
    /\ \E r \in Rip : ip' = [ip EXCEPT ![t] = r]
    /\ virt_ptr' = [virt_ptr EXCEPT ![t] = 0]
    /\ UNCHANGED <<exeVars, memVars, exe, miss, cand, daemonVars, stat_flag,
                   raced>>

(* The number is not legal: regs->ax stays -38 and nothing is counted. *)
RunToIllegal(t) ==
    /\ Goto(t, "run", "lookup")
    /\ Sound(t)
    /\ \E r \in Rip : ip' = [ip EXCEPT ![t] = r]
    /\ virt_ptr' = [virt_ptr EXCEPT ![t] = 0]
    /\ UNCHANGED <<exeVars, memVars, exe, miss, cand, daemonVars, stat_flag,
                   raced>>

(* The dispatched system call, which may have slept, returns. *)
SyscallReturns(t) ==
    /\ Goto(t, "sys", "lookup")
    /\ success_cnt' = [success_cnt EXCEPT ![exe[t]] = @ + 1]
    /\ UNCHANGED <<status_code, pid, RIP, code_block, jump_from, tgt_addr,
                   fail_cnt, memVars, ip, exe, virt_ptr, miss, cand,
                   daemonVars, stat_flag, raced>>

(* The code takes an exit the image does not know, while hits outnumber or
   equal the misses: only counted. *)
MissIgnored(t) ==
    /\ Goto(t, "run", "lookup")
    /\ Sound(t)
    /\ success_cnt[exe[t]] >= fail_cnt[exe[t]] /\ fail_cnt[exe[t]] < MaxFail
    /\ \E x \in Exit \ heap[virt_ptr[t]][0].known :
          ip' = [ip EXCEPT ![t] = x.tgt]
    /\ fail_cnt' = [fail_cnt EXCEPT ![exe[t]] = @ + 1]
    /\ virt_ptr' = [virt_ptr EXCEPT ![t] = 0]
    /\ UNCHANGED <<status_code, pid, RIP, code_block, jump_from, tgt_addr,
                   success_cnt, memVars, exe, miss, cand, daemonVars,
                   stat_flag, raced>>

(* The same while misses outnumber the hits: it will be reported. *)
MissTaken(t) ==
    /\ Goto(t, "run", "tgt")
    /\ Sound(t)
    /\ success_cnt[exe[t]] < fail_cnt[exe[t]] /\ fail_cnt[exe[t]] < MaxFail
    /\ \E x \in Exit \ heap[virt_ptr[t]][0].known :
          /\ ip' = [ip EXCEPT ![t] = x.tgt]
          /\ miss' = [miss EXCEPT ![t] = x]
    /\ virt_ptr' = [virt_ptr EXCEPT ![t] = 0]
    /\ UNCHANGED <<exeVars, memVars, exe, cand, daemonVars, stat_flag, raced>>

(* Mutant of ReportTgt: the status is stored with the first address. *)
ReportTgtEarly(t) ==
    /\ Goto(t, "tgt", IF miss[t].kind = call_miss THEN "report" ELSE "from")
    /\ tgt_addr' = [tgt_addr EXCEPT ![exe[t]] = ip[t]]
    /\ status_code' = [status_code EXCEPT ![exe[t]] = miss[t].kind]
    /\ UNCHANGED <<pid, RIP, code_block, jump_from, success_cnt, fail_cnt,
                   memVars, ip, exe, virt_ptr, miss, cand, daemonVars,
                   stat_flag, raced>>

(* The three stores of a report: tgt_addr, for an indirect jump jump_from,
   and the status last. *)
ReportTgt(t) ==
    /\ Goto(t, "tgt", IF miss[t].kind = call_miss THEN "report" ELSE "from")
    /\ tgt_addr' = [tgt_addr EXCEPT ![exe[t]] = ip[t]]
    /\ UNCHANGED <<status_code, pid, RIP, code_block, jump_from, success_cnt,
                   fail_cnt, memVars, ip, exe, virt_ptr, miss, cand,
                   daemonVars, stat_flag, raced>>

ReportFrom(t) ==
    /\ Goto(t, "from", "report")
    /\ jump_from' = [jump_from EXCEPT ![exe[t]] = miss[t].from]
    /\ UNCHANGED <<status_code, pid, RIP, code_block, tgt_addr, success_cnt,
                   fail_cnt, memVars, ip, exe, virt_ptr, miss, cand,
                   daemonVars, stat_flag, raced>>

ReportStatus(t) ==
    /\ Goto(t, "report", "lookup")
    /\ status_code' = [status_code EXCEPT ![exe[t]] = miss[t].kind]
    /\ fail_cnt' = [fail_cnt EXCEPT ![exe[t]] = @ + 1]
    /\ miss' = [miss EXCEPT ![t] = Null]
    /\ UNCHANGED <<pid, RIP, code_block, jump_from, tgt_addr, success_cnt,
                   memVars, ip, exe, virt_ptr, cand, daemonVars, stat_flag,
                   raced>>

(* The block holds something else: no statement is made of what follows. *)
RunWild(t) ==
    /\ Goto(t, "run", "wild")
    /\ ~ Sound(t)
    /\ UNCHANGED <<exeVars, memVars, ip, exe, virt_ptr, miss, cand,
                   daemonVars, stat_flag, raced>>

(***************************************************************************)
(* exe_add, called by the statistics of any thread for any thread and any  *)
(* value of regs->ip.                                                      *)
(***************************************************************************)

CandSlot(u) == get_exe(cand[u].pid, cand[u].rip)

(* Mutant of AddCheck: `added' is not tested. *)
AddCheckNoLimit(t) ==
    /\ Goto(t, "stat", "claim")
    /\ \E p \in Pid, a \in Ips :
          /\ status_code[get_exe(p, a)] = un_used
          /\ cand' = [cand EXCEPT ![t] = [pid |-> p, rip |-> a]]
          /\ raced' = (raced \/ \E u \in Pid \ {t} :
                          cand[u] # Null /\ CandSlot(u) = get_exe(p, a))
    /\ seen' = [seen EXCEPT ![t] = added]
    /\ UNCHANGED <<exeVars, heap, nblk, added, lost, ip, exe, virt_ptr, miss,
                   daemonVars, stat_flag>>

(* The slot is free and the table has room; the early returns change
   nothing.  `raced' records that another call has passed the same test for
   the same slot and is not finished. *)
AddCheck(t) ==
    /\ Goto(t, "stat", "claim")
    /\ added <= AddLimit
    /\ \E p \in Pid, a \in Ips :
          /\ status_code[get_exe(p, a)] = un_used
          /\ cand' = [cand EXCEPT ![t] = [pid |-> p, rip |-> a]]
          /\ raced' = (raced \/ \E u \in Pid \ {t} :
                          cand[u] # Null /\ CandSlot(u) = get_exe(p, a))
    /\ seen' = [seen EXCEPT ![t] = added]
    /\ UNCHANGED <<exeVars, heap, nblk, added, lost, ip, exe, virt_ptr, miss,
                   daemonVars, stat_flag>>

(* added++ is a load and a store; whether it loads `added' once more or uses what
   the test has loaded is up to the compiler. *)
AddReload(t) ==
    /\ pc[t] = "claim" /\ seen' = [seen EXCEPT ![t] = added]
    /\ UNCHANGED <<exeVars, heap, nblk, added, lost, threadVars, daemonVars,
                   stat_flag, raced>>

(* The store of added++, and the identity. *)
AddClaim(t) ==
    /\ Goto(t, "claim", "alloc")
    /\ added' = seen[t] + 1 /\ seen' = [seen EXCEPT ![t] = 0]
    /\ lost' = (lost \/ seen[t] # added)
    /\ pid' = [pid EXCEPT ![CandSlot(t)] = cand[t].pid]
    /\ RIP' = [RIP EXCEPT ![CandSlot(t)] = cand[t].rip]
    /\ UNCHANGED <<status_code, code_block, jump_from, tgt_addr, success_cnt,
                   fail_cnt, heap, nblk, ip, exe, virt_ptr, miss, cand,
                   daemonVars, stat_flag, raced>>

(* vmalloc and set_memory_x, which may sleep, then the store of the block. *)
AddBlock(t) ==
    /\ Goto(t, "alloc", "publish")
    /\ nblk < MaxBlock
    /\ nblk' = nblk + 1
    /\ code_block' = [code_block EXCEPT ![CandSlot(t)] = nblk']
    /\ UNCHANGED <<status_code, pid, RIP, jump_from, tgt_addr, success_cnt,
                   fail_cnt, heap, added, seen, lost, ip, exe, virt_ptr, miss,
                   cand, daemonVars, stat_flag, raced>>

AddPublish(t) ==
    /\ Goto(t, "publish", "stat")
    /\ status_code' = [status_code EXCEPT ![CandSlot(t)] = un_init]
    /\ cand' = [cand EXCEPT ![t] = Null]
    /\ UNCHANGED <<pid, RIP, code_block, jump_from, tgt_addr, success_cnt,
                   fail_cnt, memVars, ip, exe, virt_ptr, miss, daemonVars,
                   stat_flag, raced>>

(* stat_func returns and do_syscall_64 goes back to user mode. *)
ReturnToUser(t) ==
    /\ Goto(t, "stat", "user")
    /\ UNCHANGED <<exeVars, memVars, ip, exe, virt_ptr, miss, cand,
                   daemonVars, stat_flag, raced>>

(***************************************************************************)
(* sysfs_show, called by the daemon's read_sys.  memcpy copies an entry    *)
(* upwards: status, pid and RIP are read before jump_from and tgt_addr.    *)
(***************************************************************************)

ShowSkip ==
    /\ dpc = "show" /\ idx < MaxExe
    /\ status_code[idx] = un_used
    /\ idx' = idx + 1
    /\ UNCHANGED <<exeVars, memVars, threadVars, dpc, snap, off, hist, table,
                   jit, restarts, failed, stat_flag, raced>>

ShowHead ==
    /\ dpc = "show" /\ idx < MaxExe
    /\ status_code[idx] # un_used
    /\ dpc' = "tail"
    /\ snap' = [snap EXCEPT ![idx] =
                  [status_code |-> status_code[idx], pid |-> pid[idx],
                   RIP |-> RIP[idx], jump_from |-> Null, tgt_addr |-> Null]]
    /\ UNCHANGED <<exeVars, memVars, threadVars, idx, off, hist, table, jit,
                   restarts, failed, stat_flag, raced>>

ShowTail ==
    /\ dpc = "tail"
    /\ dpc' = "show" /\ idx' = idx + 1
    /\ snap' = [snap EXCEPT ![idx] = [@ EXCEPT !.jump_from = jump_from[idx],
                                               !.tgt_addr = tgt_addr[idx]]]
    /\ UNCHANGED <<exeVars, memVars, threadVars, off, hist, table, jit,
                   restarts, failed, stat_flag, raced>>

(* stat_flag only matters below StatLimit, where it stops counting here. *)
ShowEnd ==
    /\ dpc = "show" /\ idx = MaxExe
    /\ dpc' = "check" /\ idx' = 0
    /\ stat_flag' = IF stat_flag < StatLimit THEN stat_flag + 1 ELSE stat_flag
    /\ UNCHANGED <<exeVars, memVars, threadVars, snap, off, hist, table, jit,
                   restarts, failed, raced>>

(***************************************************************************)
(* The daemon: check, compile and write_sys.  An entry of the buffer is    *)
(* cleared once it has been dealt with, since check never looks back.      *)
(***************************************************************************)

(* The miss an entry reports; a missing call has no source. *)
MissOf(e) == [kind |-> e.status_code, tgt |-> e.tgt_addr,
              from |-> IF e.status_code = call_miss THEN Null ELSE e.jump_from]

(* Mutant of Command: misses are told apart by their target alone. *)
CommandByTarget(e) ==
    <<e.RIP, IF e.status_code = un_init THEN Null
             ELSE CHOOSE x \in Exit : x.tgt = e.tgt_addr>>

(* The shell command the daemon derives from an entry.  It names the address
   and the miss and not the pid. *)
Command(e) == <<e.RIP, IF e.status_code = un_init THEN Null ELSE MissOf(e)>>

Wanted(e) == /\ e # Null
             /\ e.RIP \in Targets
             /\ e.status_code \in {un_init} \cup Misses

NextEntry == idx' = idx + 1 /\ snap' = [snap EXCEPT ![idx] = Null]

CheckSkip ==
    /\ dpc = "check" /\ idx < MaxExe
    /\ ~ Wanted(snap[idx])
    /\ NextEntry
    /\ UNCHANGED <<exeVars, memVars, threadVars, dpc, off, hist, table, jit,
                   restarts, failed, stat_flag, raced>>

(* The command has been run before: "Compile saved". *)
CheckSaved ==
    /\ dpc = "check" /\ idx < MaxExe
    /\ Wanted(snap[idx]) /\ Command(snap[idx]) \in hist
    /\ dpc' = "copy"
    /\ UNCHANGED <<exeVars, memVars, threadVars, idx, snap, off, hist, table,
                   jit, restarts, failed, stat_flag, raced>>

(* compile(pid, RIP) with the tables t: on failure jit.bin stays as it is. *)
Compile(r, t, old) ==
    /\ table' = [table EXCEPT ![r] = t]
    /\ \/ /\ jit' = [jit EXCEPT ![r] = [rip |-> r, known |-> t]]
          /\ UNCHANGED failed
       \/ /\ CompileMayFail
          /\ jit' = [jit EXCEPT ![r] = old]
          /\ failed' = failed \cup {r}

(* A new entry: its directory is copied from the template, whose tables are
   empty. *)
CheckInit ==
    /\ dpc = "check" /\ idx < MaxExe
    /\ LET e == snap[idx]
       IN  /\ Wanted(e) /\ e.status_code = un_init
           /\ Command(e) \notin hist
           /\ hist' = hist \cup {Command(e)}
           /\ Compile(e.RIP, {}, Prebuilt)
    /\ dpc' = "copy"
    /\ UNCHANGED <<exeVars, memVars, threadVars, idx, snap, off, restarts,
                   stat_flag, raced>>

(* A new miss: it is appended to the address's table. *)
CheckMiss ==
    /\ dpc = "check" /\ idx < MaxExe
    /\ LET e == snap[idx]
       IN  /\ Wanted(e) /\ e.status_code \in Misses
           /\ Command(e) \notin hist /\ jit[e.RIP] # Null
           /\ hist' = hist \cup {Command(e)}
           /\ Compile(e.RIP, table[e.RIP] \cup {MissOf(e)}, jit[e.RIP])
    /\ dpc' = "copy"
    /\ UNCHANGED <<exeVars, memVars, threadVars, idx, snap, off, restarts,
                   stat_flag, raced>>

(* A miss at an address without a directory: the shell commands fail and
   write_sys reads from the NULL that fopen returned. *)
CheckNoDir ==
    /\ dpc = "check" /\ idx < MaxExe
    /\ Wanted(snap[idx]) /\ snap[idx].status_code \in Misses
    /\ Command(snap[idx]) \notin hist /\ jit[snap[idx].RIP] = Null
    /\ dpc' = "dead"
    /\ UNCHANGED <<exeVars, memVars, threadVars, idx, snap, off, hist, table,
                   jit, restarts, failed, stat_flag, raced>>

(* check returns; main sleeps and polls again. *)
CheckEnd ==
    /\ dpc = "check" /\ idx = MaxExe
    /\ dpc' = "show" /\ idx' = 0
    /\ UNCHANGED <<exeVars, memVars, threadVars, snap, off, hist, table, jit,
                   restarts, failed, stat_flag, raced>>

(* The packet write_sys is about to send. *)
PktSlot  == get_exe(snap[idx].pid, snap[idx].RIP)
PktImage == jit[snap[idx].RIP]
RestLen  == JitLen[PktImage] - off
PktLen   == IF RestLen <= MaxPay THEN RestLen ELSE MaxPay
PktEarly == normal                                     \* mutant of PktCode
PktLate  == IF RestLen < MaxPay THEN normal ELSE un_init   \* mutant of PktCode
PktCode  == IF RestLen <= MaxPay THEN normal ELSE un_init
PktFound == RIP[PktSlot] = snap[idx].RIP /\ pid[PktSlot] = snap[idx].pid

(* write_sys goes on to the next packet, or returns to check. *)
PktSent ==
    IF RestLen > PktLen
    THEN dpc' = "copy" /\ off' = off + PktLen /\ UNCHANGED <<idx, snap>>
    ELSE dpc' = "check" /\ off' = 0 /\ NextEntry

(* sysfs_store: memcpy of the payload ... *)
StoreCopy ==
    /\ dpc = "copy" /\ PktFound
    /\ dpc' = "mark"
    /\ heap' = [heap EXCEPT ![code_block[PktSlot]] =
                  [i \in Byte |-> IF i \in off .. off + PktLen - 1
                                  THEN PktImage ELSE @[i]]]
    /\ UNCHANGED <<exeVars, nblk, added, seen, lost, threadVars, idx, snap, off,
                   hist, table, jit, restarts, failed, stat_flag, raced>>

(* ... and then the packet's status. *)
StoreStatus ==
    /\ dpc = "mark"
    /\ status_code' = [status_code EXCEPT ![PktSlot] = PktCode]
    /\ PktSent
    /\ UNCHANGED <<pid, RIP, code_block, jump_from, tgt_addr, success_cnt,
                   fail_cnt, memVars, threadVars, hist, table, jit, restarts,
                   failed, stat_flag, raced>>

(* "exe to be written not found". *)
StoreNotFound ==
    /\ dpc = "copy" /\ ~ PktFound
    /\ PktSent
    /\ UNCHANGED <<exeVars, memVars, threadVars, hist, table, jit, restarts,
                   failed, stat_flag, raced>>

(* The daemon is killed, between two of its calls into the kernel, and started
   again: main removes the directories, the history of commands is gone. *)
Restart ==
    /\ dpc \in {"check", "copy", "dead"}
    /\ restarts < MaxRestart
    /\ restarts' = restarts + 1
    /\ dpc' = "show" /\ idx' = 0 /\ off' = 0
    /\ snap' = [s \in Slot |-> Null]
    /\ hist' = {} /\ table' = [a \in Addr |-> {}]
    /\ jit' = [a \in Addr |-> Null]
    /\ UNCHANGED <<exeVars, memVars, threadVars, failed, stat_flag, raced>>

exe_on_call(t) ==
    \/ EnterBlock(t) \/ LeaveChain(t)
    \/ RunToSyscall(t) \/ RunToIllegal(t) \/ SyscallReturns(t)
    \/ MissIgnored(t) \/ MissTaken(t) \/ RunWild(t)
    \/ ReportTgt(t) \/ ReportFrom(t) \/ ReportStatus(t)

exe_add(t) == AddCheck(t) \/ AddReload(t) \/ AddClaim(t) \/ AddBlock(t) \/ AddPublish(t)

Thread(t) == Syscall(t) \/ exe_on_call(t) \/ exe_add(t) \/ ReturnToUser(t)

sysfs_show == ShowSkip \/ ShowHead \/ ShowTail \/ ShowEnd

sysfs_store == StoreCopy \/ StoreStatus \/ StoreNotFound

check == CheckSkip \/ CheckSaved \/ CheckInit \/ CheckMiss \/ CheckNoDir
         \/ CheckEnd

Daemon == sysfs_show \/ check \/ sysfs_store

Next == (\E t \in Pid : Thread(t)) \/ Daemon \/ Restart

Spec == Init /\ [][Next]_vars

(* The daemon is a process that runs: its steps are never put off forever. *)
FairSpec == Spec /\ WF_vars(Daemon)

-----------------------------------------------------------------------------
ExeType ==
    /\ status_code \in [Slot -> Status]
    /\ pid \in [Slot -> Pid \cup {Null}] /\ RIP \in [Slot -> Addr \cup {Null}]
    /\ code_block \in [Slot -> Block]
    /\ jump_from \in [Slot -> JumpFrom] /\ tgt_addr \in [Slot -> TgtAddr]
    /\ success_cnt \in [Slot -> Nat] /\ fail_cnt \in [Slot -> Nat]

MemType ==
    /\ heap \in [Block -> [Byte -> Image \cup {Null}]]
    /\ nblk \in Block /\ added \in Nat /\ seen \in [Pid -> Nat]
    /\ lost \in BOOLEAN

ThreadType ==
    /\ pc \in [Pid -> {"user", "lookup", "run", "sys", "tgt", "from", "report",
                       "wild", "stat", "claim", "alloc", "publish"}]
    /\ ip \in [Pid -> Addr \cup {Null}] /\ exe \in [Pid -> Slot]
    /\ virt_ptr \in [Pid -> Block]
    /\ miss \in [Pid -> Exit \cup {Null}] /\ cand \in [Pid -> Candidate \cup {Null}]

DaemonType ==
    /\ dpc \in {"show", "tail", "check", "copy", "mark", "dead"}
    /\ idx \in 0 .. MaxExe /\ snap \in [Slot -> Entry \cup {Null}]
    /\ off \in 0 .. BlockBytes
    /\ hist \subseteq (Addr \X (AnyMiss \cup {Null}))
    /\ table \in [Addr -> SUBSET AnyMiss] /\ jit \in [Addr -> Image \cup {Null}]
    /\ restarts \in Nat /\ failed \subseteq Addr

(* Every variable has its type. *)
TypeOK == /\ ExeType /\ MemType /\ ThreadType /\ DaemonType
          /\ stat_flag \in Nat /\ raced \in BOOLEAN

Used == {s \in Slot : status_code[s] # un_used}

(* The table is limited, which sysfs_show relies on when it copies all of it into
   one page (sys.c:28-33): as long as no increment of `added' has been
   overwritten, every entry in use is counted in `added', and the count passes the
   limit at most once for every thread, which can have been between its test and
   its increment (exe.c:43-46).  An injection compares the sizes. *)
TableFits ==
    ~ lost => /\ ExistsInjection(Used, 1 .. added)
              /\ ExistsInjection(AddLimit + 1 .. added, Pid)

(* A thread that runs a block runs one whole image, never a mixture of two
   nor a partly written one, although the image arrives in packets while the
   thread keeps looking at the entry (exe.c:81-90, sys.c:48-50).  Unless a
   compilation for the address has failed, the image translates the code at
   regs->ip. *)
RunsSoundCode ==
    ~ raced => \A t \in Pid : pc[t] = "run" =>
                   /\ Whole(virt_ptr[t])
                   /\ ip[t] \notin failed => Sound(t)

(* No step changes a block while a thread executes it: between virt_ptr's
   call and its return (exe.c:90) sysfs_store never writes there. *)
NoOverwrite ==
    [][~ raced' => \A t \in Pid : pc[t] = "run" =>
                       heap'[virt_ptr[t]] = heap[virt_ptr[t]]]_vars

(* What the daemon is about to serve is what the entry still says, however
   long ago it was read (main.c:106-144), and a miss it is about to add is a
   call or jump of the program that the installed image lacks: its two
   addresses belong together. *)
RequestIsCurrent ==
    ~ raced /\ dpc = "check" => \A s \in Slot : Wanted(snap[s]) =>
        LET e == snap[s]
        IN  /\ status_code[s] = e.status_code /\ pid[s] = e.pid /\ RIP[s] = e.RIP
            /\ e.status_code \in Misses =>
                  MissOf(e) \in Exit \ heap[code_block[s]][0].known

(* The image sent in answer to a miss follows that miss, also when the daemon
   takes it from an earlier compilation for another thread ("Compile saved",
   main.c:136-144). *)
AnswerHasMiss ==
    /\ ~ raced /\ dpc \in {"copy", "mark"}
    /\ snap[idx].status_code \in Misses /\ snap[idx].RIP \notin failed
    => MissOf(snap[idx]) \in PktImage.known

(* An entry on the white-list that waits for code gets it (main.c:149-155), also
   when the daemon is killed between two packets and started again; unless it
   crashes on a directory that is not there. *)
Served ==
    \A s \in Slot :
        (status_code[s] \in {un_init} \cup Misses /\ RIP[s] \in Targets)
            ~> (status_code[s] = normal \/ raced \/ dpc = "dead")
=============================================================================
