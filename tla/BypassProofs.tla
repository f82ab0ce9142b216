---------------------------- MODULE BypassProofs ----------------------------
(***************************************************************************)
(* Bypass for any number of threads, addresses, slots and exits and any    *)
(* sizes: it is type correct; the table keeps to its limit; the code that  *)
(* threads run in the kernel is whole and theirs, and never overwritten    *)
(* while they run it; what the daemon serves is current and answers the    *)
(* miss.                                                                   *)
(***************************************************************************)
EXTENDS Bypass, TLAPS

USE DEF un_used, un_init, normal, call_miss, ij_miss, Misses, Status

(***************************************************************************)
(* Types.                                                                  *)
(***************************************************************************)

(* The positions at which a thread holds an address, a block, a miss, a
   candidate. *)
InKernel == {"lookup", "run", "sys", "tgt", "from", "report"}
InChain  == {"run", "sys", "tgt", "from", "report"}
InReport == {"tgt", "from", "report"}
InAdd    == {"claim", "alloc", "publish"}

(* A slot carries an identity. *)
Named(s) == pid[s] \in Pid /\ RIP[s] \in Addr

ThreadOK(t) ==
    /\ pc[t] \in InKernel => ip[t] \in Addr
    /\ pc[t] \in InChain => Named(exe[t])
    /\ pc[t] \in InReport => miss[t] \in Exit /\ ip[t] = miss[t].tgt
    /\ pc[t] \in InAdd <=> cand[t] # Null
    /\ pc[t] \in {"alloc", "publish"} => Named(CandSlot(t))

ThreadInv == \A t \in Pid : ThreadOK(t)

UsedNamed == \A s \in Slot : status_code[s] # un_used => Named(s)

DaemonInv ==
    /\ dpc \in {"tail", "copy", "mark"} => idx \in Slot /\ snap[idx] # Null
    /\ dpc \in {"copy", "mark"} => PktImage # Null /\ off < JitLen[PktImage]
    /\ dpc = "mark" => Named(PktSlot)
    /\ dpc \notin {"copy", "mark"} => off = 0 \/ dpc = "dead"
    /\ \A c \in hist : jit[c[1]] # Null

(* The inductive strengthening of TypeOK. *)
TypeInv == TypeOK /\ ThreadInv /\ UsedNamed /\ DaemonInv

-----------------------------------------------------------------------------
(* Types of what the actions compute. *)

LEMMA StatusApart ==
    /\ normal \notin Misses /\ un_used \notin Misses /\ un_init \notin Misses
    /\ normal # un_used /\ normal # un_init /\ un_used # un_init
OBVIOUS

LEMMA ExitTypes ==
    \A x \in Exit : /\ x \in AnyMiss /\ x # Null
                    /\ x.tgt \in Addr /\ x.tgt \in TgtAddr
                    /\ x.from \in JumpFrom /\ x.kind \in Misses
BY ExitAssumption, NullAssumption, Zenon DEF AnyMiss, TgtAddr, JumpFrom

LEMMA IpsType == Ips \subseteq Addr
BY ExitTypes, AddrAssumption, Zenon DEF Ips

LEMMA SlotType == \A p \in Pid, a \in Addr : get_exe(p, a) \in Slot
BY SlotAssumption, Zenon DEF get_exe

LEMMA ZeroType == 0 \in Slot /\ 0 \in Block /\ 0 \in 0 .. MaxExe /\ 0 \in 0 .. BlockBytes
BY SizeAssumption DEF Slot, Block

LEMMA ZeroNat == 0 \in Nat
OBVIOUS

LEMMA OneMore == \A n \in Nat : n + 1 \in Nat
OBVIOUS

LEMMA BelowNext == \A m, n \in Nat : m <= n => m <= n + 1 /\ m # n + 1
OBVIOUS

LEMMA CandType ==
    ASSUME ThreadType, ThreadInv, NEW t \in Pid, pc[t] \in InAdd
    PROVE  /\ cand[t] \in Candidate /\ cand[t] # Null
           /\ cand[t].pid \in Pid /\ cand[t].rip \in Addr
           /\ CandSlot(t) \in Slot
<1>1. cand[t] \in Candidate /\ cand[t] # Null
  BY Zenon DEF ThreadType, ThreadInv, ThreadOK
<1> QED BY <1>1, SlotType, Zenon DEF Candidate, CandSlot

LEMMA IdxType ==
    ASSUME DaemonType, idx < MaxExe
    PROVE  idx \in Slot /\ idx + 1 \in 0 .. MaxExe
<1>1. idx \in 0 .. MaxExe
  BY Zenon DEF DaemonType
<1> QED BY <1>1, SizeAssumption DEF Slot

LEMMA EntryFields ==
    ASSUME DaemonType, idx \in Slot, snap[idx] # Null
    PROVE  /\ snap[idx] \in Entry
           /\ snap[idx].pid \in Pid /\ snap[idx].RIP \in Addr
           /\ snap[idx].status_code \in Misses => MissOf(snap[idx]) \in AnyMiss
           /\ PktSlot \in Slot
<1>1. snap[idx] \in Entry
  BY Zenon DEF DaemonType
<1>2. snap[idx].status_code \in Misses => MissOf(snap[idx]) \in AnyMiss
  BY <1>1, Zenon DEF Entry, MissOf, AnyMiss, JumpFrom
<1> QED BY <1>1, <1>2, SlotType, Zenon DEF Entry, PktSlot

LEMMA EntryType ==
    ASSUME DaemonType, DaemonInv, dpc \in {"tail", "copy", "mark"}
    PROVE  /\ idx \in Slot /\ snap[idx] # Null /\ snap[idx] \in Entry
           /\ snap[idx].pid \in Pid /\ snap[idx].RIP \in Addr
           /\ PktSlot \in Slot
<1>1. idx \in Slot /\ snap[idx] # Null
  BY Zenon DEF DaemonInv
<1> QED BY <1>1, EntryFields, Zenon

LEMMA PktType ==
    ASSUME DaemonType, DaemonInv, dpc \in {"copy", "mark"}
    PROVE  /\ PktImage \in Image /\ JitLen[PktImage] \in 1 .. BlockBytes
           /\ off \in Nat /\ RestLen \in Nat \ {0} /\ PktLen \in 1 .. RestLen
           /\ off + RestLen = JitLen[PktImage]
<1>1. PktImage \in Image
  <2>1. snap[idx].RIP \in Addr
    BY EntryType, Zenon
  <2> QED BY <2>1, Zenon DEF DaemonType, DaemonInv, PktImage
<1>2. JitLen[PktImage] \in 1 .. BlockBytes
  BY <1>1, JitAssumption, Zenon
<1>3. off \in Nat /\ off < JitLen[PktImage]
  BY DEF DaemonType, DaemonInv
<1> QED BY <1>1, <1>2, <1>3, SizeAssumption DEF RestLen, PktLen

(* A compilation leaves a table and an image of the right types. *)
LEMMA CompileType ==
    ASSUME NEW r \in Addr, NEW k \in SUBSET AnyMiss, NEW g \in Image,
           Compile(r, k, g), DaemonType
    PROVE  /\ table' \in [Addr -> SUBSET AnyMiss]
           /\ jit' \in [Addr -> Image \cup {Null}] /\ jit'[r] \in Image
           /\ \A a \in Addr \ {r} : jit'[a] = jit[a]
           /\ failed' \subseteq Addr
<1>1. /\ table \in [Addr -> SUBSET AnyMiss] /\ jit \in [Addr -> Image \cup {Null}]
      /\ failed \subseteq Addr
  BY Zenon DEF DaemonType
<1>2. table' \in [Addr -> SUBSET AnyMiss]
  BY <1>1, Zenon DEF Compile
<1>3. [rip |-> r, known |-> k] \in Image
  BY Zenon DEF Image
<1>4. PICK i \in Image : jit' = [jit EXCEPT ![r] = i]
  BY <1>3, Zenon DEF Compile
<1>5. failed' \subseteq Addr
  BY <1>1, Zenon DEF Compile
<1> QED BY <1>1, <1>2, <1>4, <1>5, Zenon

LEMMA SentType ==
    ASSUME DaemonType, DaemonInv, dpc \in {"copy", "mark"}, PktSent
    PROVE  /\ dpc' \in {"copy", "check"} /\ idx' \in 0 .. MaxExe
           /\ off' \in 0 .. BlockBytes /\ snap' \in [Slot -> Entry \cup {Null}]
<1>1. idx \in Slot /\ off \in Nat /\ PktLen \in Nat /\ RestLen \in Nat
  BY EntryType, PktType
<1>2. snap \in [Slot -> Entry \cup {Null}] /\ idx \in 0 .. MaxExe
  BY Zenon DEF DaemonType
<1>3. CASE RestLen > PktLen
  <2>1. off + PktLen \in 0 .. BlockBytes
    BY <1>1, <1>3, PktType, SizeAssumption
  <2> QED BY <1>2, <1>3, <2>1, Zenon DEF PktSent
<1>4. CASE ~ (RestLen > PktLen)
  <2>1. idx + 1 \in 0 .. MaxExe /\ 0 \in 0 .. BlockBytes
    BY <1>1, SizeAssumption DEF Slot
  <2> QED BY <1>2, <1>4, <2>1, Zenon DEF PktSent, NextEntry
<1> QED BY <1>3, <1>4, Zenon

-----------------------------------------------------------------------------
LEMMA InitType == Init => TypeInv
<1> SUFFICES ASSUME Init PROVE TypeInv
  BY Zenon
<1>1. /\ status_code = [s \in Slot |-> un_used]
      /\ pid = [s \in Slot |-> Null] /\ RIP = [s \in Slot |-> Null]
      /\ code_block = [s \in Slot |-> 0]
      /\ jump_from = [s \in Slot |-> Null] /\ tgt_addr = [s \in Slot |-> Null]
  BY Zenon DEF Init
<1>2. /\ pc = [t \in Pid |-> "user"] /\ ip = [t \in Pid |-> Null]
      /\ exe = [t \in Pid |-> 0] /\ virt_ptr = [t \in Pid |-> 0]
      /\ miss = [t \in Pid |-> Null] /\ cand = [t \in Pid |-> Null]
  BY Zenon DEF Init
<1>3. /\ dpc = "show" /\ idx = 0 /\ snap = [s \in Slot |-> Null] /\ off = 0
      /\ hist = {} /\ table = [a \in Addr |-> {}]
      /\ jit = [a \in Addr |-> Null] /\ restarts = 0 /\ failed = {}
  BY Zenon DEF Init
<1>4. /\ 0 \in Block /\ 0 \in Slot /\ 0 \in 0 .. MaxExe
      /\ 0 \in 0 .. BlockBytes /\ 0 \in Nat
  BY SizeAssumption DEF Slot, Block
<1>5. Null \in JumpFrom /\ Null \in TgtAddr
  BY Zenon DEF JumpFrom, TgtAddr
<1>6. ExeType
  <2>1. success_cnt \in [Slot -> Nat] /\ fail_cnt \in [Slot -> Nat]
    <3>1. success_cnt \in [Slot -> Fresh] /\ fail_cnt \in [Slot -> Fresh]
      BY Zenon DEF Init
    <3> QED BY <3>1, FreshAssumption, Zenon
  <2> QED BY <1>1, <1>4, <1>5, <2>1, Zenon DEF ExeType
<1>7. MemType
  BY <1>4, Zenon DEF Init, MemType
<1>8. ThreadType
  BY <1>2, <1>4, Zenon DEF ThreadType
<1>9. DaemonType
  BY <1>3, <1>4, Zenon DEF DaemonType
<1>10. stat_flag \in Nat /\ raced \in BOOLEAN
  BY Zenon DEF Init
<1>11. ThreadInv
  BY <1>2, Zenon DEF ThreadInv, ThreadOK, InKernel, InChain, InReport, InAdd
<1>12. UsedNamed
  BY <1>1, Zenon DEF UsedNamed
<1>13. DaemonInv
  BY <1>3, Zenon DEF DaemonInv
<1> QED BY <1>6, <1>7, <1>8, <1>9, <1>10, <1>11, <1>12, <1>13, Zenon DEF TypeInv, TypeOK

(* Steps that leave a group of variables alone keep its type. *)
LEMMA TypeFrames ==
    /\ ExeType /\ UNCHANGED exeVars => ExeType'
    /\ MemType /\ UNCHANGED memVars => MemType'
    /\ ThreadType /\ UNCHANGED threadVars => ThreadType'
    /\ DaemonType /\ UNCHANGED daemonVars => DaemonType'
<1>1. ExeType /\ UNCHANGED exeVars => ExeType'
  BY Zenon DEF ExeType, exeVars
<1>2. MemType /\ UNCHANGED memVars => MemType'
  BY Zenon DEF MemType, memVars
<1>3. ThreadType /\ UNCHANGED threadVars => ThreadType'
  BY Zenon DEF ThreadType, threadVars
<1>4. DaemonType /\ UNCHANGED daemonVars => DaemonType'
  BY Zenon DEF DaemonType, daemonVars
<1> QED BY <1>1, <1>2, <1>3, <1>4, Zenon

LEMMA TypeOKStep == TypeInv /\ [Next]_vars => TypeOK'
<1> SUFFICES ASSUME TypeOK, ThreadInv, UsedNamed, DaemonInv, [Next]_vars
             PROVE  TypeOK'
  BY Zenon DEF TypeInv
<1>1. ASSUME NEW t \in Pid, Syscall(t) PROVE TypeOK'
  <2>1. ThreadType'
    BY <1>1, AddrAssumption DEF Syscall, TypeOK, ThreadType, Goto
  <2>2. ExeType' /\ MemType' /\ DaemonType'
    BY <1>1, TypeFrames, Zenon DEF Syscall, TypeOK
  <2> QED BY <1>1, <2>1, <2>2, Zenon DEF Syscall, TypeOK
<1>2. ASSUME NEW t \in Pid, EnterBlock(t) PROVE TypeOK'
  <2>1. get_exe(t, ip[t]) \in Slot
    BY <1>2, SlotType, Zenon DEF EnterBlock, Goto, ThreadInv, ThreadOK, InKernel
  <2>2. code_block[get_exe(t, ip[t])] \in Block
    BY <2>1, Zenon DEF TypeOK, ExeType
  <2>3. ThreadType'
    BY <1>2, <2>1, <2>2, Zenon DEF EnterBlock, Goto, TypeOK, ThreadType
  <2>4. ExeType' /\ MemType' /\ DaemonType'
    BY <1>2, TypeFrames, Zenon DEF EnterBlock, TypeOK
  <2> QED BY <1>2, <2>3, <2>4, Zenon DEF EnterBlock, TypeOK
<1>3. ASSUME NEW t \in Pid, LeaveChain(t) PROVE TypeOK'
  <2>1. ThreadType'
    BY <1>3, ZeroType, Zenon DEF LeaveChain, TypeOK, ThreadType, Goto
  <2>2. ExeType' /\ MemType' /\ DaemonType'
    BY <1>3, TypeFrames, Zenon DEF LeaveChain, TypeOK
  <2> QED BY <1>3, <2>1, <2>2, Zenon DEF LeaveChain, TypeOK
<1>4. ASSUME NEW t \in Pid, RunToSyscall(t) PROVE TypeOK'
  <2>1. ThreadType'
    BY <1>4, AddrAssumption, ZeroType, Zenon DEF RunToSyscall, TypeOK, ThreadType,
       Goto
  <2>2. ExeType' /\ MemType' /\ DaemonType'
    BY <1>4, TypeFrames, Zenon DEF RunToSyscall, TypeOK
  <2> QED BY <1>4, <2>1, <2>2, Zenon DEF RunToSyscall, TypeOK
<1>5. ASSUME NEW t \in Pid, RunToIllegal(t) PROVE TypeOK'
  <2>1. ThreadType'
    BY <1>5, AddrAssumption, ZeroType DEF RunToIllegal, TypeOK, ThreadType,
       Goto
  <2>2. ExeType' /\ MemType' /\ DaemonType'
    BY <1>5, TypeFrames, Zenon DEF RunToIllegal, TypeOK
  <2> QED BY <1>5, <2>1, <2>2, Zenon DEF RunToIllegal, TypeOK
<1>6. ASSUME NEW t \in Pid, SyscallReturns(t) PROVE TypeOK'
  <2>1. exe[t] \in Slot
    BY Zenon DEF TypeOK, ThreadType
  <2>2. success_cnt' = [success_cnt EXCEPT ![exe[t]] = success_cnt[exe[t]] + 1]
    BY <1>6, Zenon DEF SyscallReturns
  <2>3. success_cnt \in [Slot -> Nat] /\ success_cnt[exe[t]] + 1 \in Nat
    BY <2>1 DEF TypeOK, ExeType
  <2>4. success_cnt' \in [Slot -> Nat]
    BY <2>2, <2>3, Zenon
  <2>5. ExeType'
    BY <1>6, <2>4, Zenon DEF SyscallReturns, TypeOK, ExeType
  <2>6. ThreadType'
    BY <1>6, <2>4, Zenon DEF SyscallReturns, TypeOK, ThreadType, Goto
  <2>7. MemType' /\ DaemonType'
    BY <1>6, TypeFrames, Zenon DEF SyscallReturns, TypeOK
  <2> QED BY <1>6, <2>5, <2>6, <2>7, Zenon DEF SyscallReturns, TypeOK
<1>7. ASSUME NEW t \in Pid, MissIgnored(t) PROVE TypeOK'
  <2>1. exe[t] \in Slot
    BY Zenon DEF TypeOK, ThreadType
  <2>2. fail_cnt' = [fail_cnt EXCEPT ![exe[t]] = fail_cnt[exe[t]] + 1]
    BY <1>7, Zenon DEF MissIgnored
  <2>3. fail_cnt \in [Slot -> Nat] /\ fail_cnt[exe[t]] + 1 \in Nat
    BY <2>1 DEF TypeOK, ExeType
  <2>4. fail_cnt' \in [Slot -> Nat]
    BY <2>2, <2>3, Zenon
  <2>5. ExeType'
    BY <1>7, <2>4, ExitTypes, ZeroType, Zenon DEF MissIgnored, TypeOK, ExeType
  <2>6. ThreadType'
    BY <1>7, <2>4, ExitTypes, ZeroType, Zenon DEF MissIgnored, TypeOK, ThreadType,
       Goto
  <2>7. MemType' /\ DaemonType'
    BY <1>7, TypeFrames, Zenon DEF MissIgnored, TypeOK
  <2> QED BY <1>7, <2>5, <2>6, <2>7, Zenon DEF MissIgnored, TypeOK
<1>8. ASSUME NEW t \in Pid, MissTaken(t) PROVE TypeOK'
  <2>1. ThreadType'
    BY <1>8, ExitTypes, ZeroType DEF MissTaken, TypeOK, ThreadType, Goto
  <2>2. ExeType' /\ MemType' /\ DaemonType'
    BY <1>8, TypeFrames, Zenon DEF MissTaken, TypeOK
  <2> QED BY <1>8, <2>1, <2>2, Zenon DEF MissTaken, TypeOK
<1>9. ASSUME NEW t \in Pid, ReportTgt(t) PROVE TypeOK'
  <2>1. miss[t] \in Exit /\ exe[t] \in Slot /\ ip[t] = miss[t].tgt
    BY <1>9, Zenon DEF ReportTgt, Goto, ThreadInv, ThreadOK, InReport, TypeOK,
       ThreadType
  <2>2. miss[t].tgt \in TgtAddr /\ miss[t].from \in JumpFrom /\ miss[t].kind \in Misses
    BY <2>1, ExitTypes, Zenon
  <2>3. ExeType'
    BY <1>9, <2>1, <2>2, Zenon DEF ReportTgt, TypeOK, ExeType
  <2>4. ThreadType'
    BY <1>9, <2>1, <2>2, Zenon DEF ReportTgt, TypeOK, ThreadType, Goto
  <2>5. MemType' /\ DaemonType'
    BY <1>9, TypeFrames, Zenon DEF ReportTgt, TypeOK
  <2> QED BY <1>9, <2>3, <2>4, <2>5, Zenon DEF ReportTgt, TypeOK
<1>10. ASSUME NEW t \in Pid, ReportFrom(t) PROVE TypeOK'
  <2>1. miss[t] \in Exit /\ exe[t] \in Slot /\ ip[t] = miss[t].tgt
    BY <1>10, Zenon DEF ReportFrom, Goto, ThreadInv, ThreadOK, InReport, TypeOK,
       ThreadType
  <2>2. miss[t].tgt \in TgtAddr /\ miss[t].from \in JumpFrom /\ miss[t].kind \in Misses
    BY <2>1, ExitTypes, Zenon
  <2>3. ExeType'
    BY <1>10, <2>1, <2>2, Zenon DEF ReportFrom, TypeOK, ExeType
  <2>4. ThreadType'
    BY <1>10, <2>1, <2>2, Zenon DEF ReportFrom, TypeOK, ThreadType, Goto
  <2>5. MemType' /\ DaemonType'
    BY <1>10, TypeFrames, Zenon DEF ReportFrom, TypeOK
  <2> QED BY <1>10, <2>3, <2>4, <2>5, Zenon DEF ReportFrom, TypeOK
<1>11. ASSUME NEW t \in Pid, ReportStatus(t) PROVE TypeOK'
  <2>1. miss[t] \in Exit /\ exe[t] \in Slot /\ ip[t] = miss[t].tgt
    BY <1>11, Zenon DEF ReportStatus, Goto, ThreadInv, ThreadOK, InReport, TypeOK,
       ThreadType
  <2>2. miss[t].tgt \in TgtAddr /\ miss[t].from \in JumpFrom /\ miss[t].kind \in Misses
    BY <2>1, ExitTypes, Zenon
  <2>3. fail_cnt \in [Slot -> Nat] /\ status_code \in [Slot -> Status]
    BY Zenon DEF TypeOK, ExeType
  <2>4. fail_cnt' \in [Slot -> Nat]
    <3>1. fail_cnt' = [fail_cnt EXCEPT ![exe[t]] = fail_cnt[exe[t]] + 1]
      BY <1>11, Zenon DEF ReportStatus
    <3>2. fail_cnt[exe[t]] \in Nat
      BY <2>1, <2>3, Zenon
    <3>3. fail_cnt[exe[t]] + 1 \in Nat
      BY <3>2, OneMore, Zenon
    <3> QED BY <2>3, <3>1, <3>3, Zenon
  <2>5. status_code' \in [Slot -> Status]
    BY <1>11, <2>2, <2>3, Zenon DEF ReportStatus
  <2>6. ExeType'
    BY <1>11, <2>4, <2>5, Zenon DEF ReportStatus, TypeOK, ExeType
  <2>7. ThreadType'
    BY <1>11, Zenon DEF ReportStatus, TypeOK, ThreadType, Goto
  <2>8. MemType' /\ DaemonType'
    BY <1>11, TypeFrames, Zenon DEF ReportStatus, TypeOK
  <2> QED BY <1>11, <2>6, <2>7, <2>8, Zenon DEF ReportStatus, TypeOK
<1>12. ASSUME NEW t \in Pid, RunWild(t) PROVE TypeOK'
  <2>1. ThreadType'
    BY <1>12, Zenon DEF RunWild, TypeOK, ThreadType, Goto
  <2>2. ExeType' /\ MemType' /\ DaemonType'
    BY <1>12, TypeFrames, Zenon DEF RunWild, TypeOK
  <2> QED BY <1>12, <2>1, <2>2, Zenon DEF RunWild, TypeOK
<1>13. ASSUME NEW t \in Pid, AddCheck(t) PROVE TypeOK'
  <2>1. PICK p \in Pid, a \in Addr :
          cand' = [cand EXCEPT ![t] = [pid |-> p, rip |-> a]]
    BY <1>13, IpsType, Zenon DEF AddCheck
  <2>3. [pid |-> p, rip |-> a] \in Candidate
    BY Zenon DEF Candidate
  <2>4. ThreadType'
    BY <1>13, <2>1, <2>3, Zenon DEF AddCheck, Goto, TypeOK, ThreadType
  <2>5. ExeType' /\ DaemonType'
    BY <1>13, TypeFrames, Zenon DEF AddCheck, TypeOK
  <2>6. raced' \in BOOLEAN
    BY <1>13, Zenon DEF AddCheck
  <2>7. MemType'
    BY <1>13, Zenon DEF AddCheck, TypeOK, MemType
  <2> QED BY <1>13, <2>4, <2>5, <2>6, <2>7, Zenon DEF AddCheck, TypeOK
<1>14. ASSUME NEW t \in Pid, AddClaim(t) PROVE TypeOK'
  <2>1. /\ CandSlot(t) \in Slot /\ cand[t].pid \in Pid /\ cand[t].rip \in Addr
    BY <1>14, CandType, Zenon DEF AddClaim, Goto, TypeOK, InAdd
  <2>2. /\ added' \in Nat /\ lost' \in BOOLEAN
        /\ seen' \in [Pid -> Nat]
    BY <1>14, OneMore, ZeroNat, Zenon DEF AddClaim, TypeOK, MemType
  <2>3. ExeType'
    BY <1>14, <2>1, Zenon DEF AddClaim, TypeOK, ExeType
  <2>4. MemType' /\ ThreadType'
    BY <1>14, <2>2, Zenon DEF AddClaim, Goto, TypeOK, MemType, ThreadType
  <2>5. DaemonType'
    BY <1>14, TypeFrames, Zenon DEF AddClaim, TypeOK
  <2> QED BY <1>14, <2>3, <2>4, <2>5, Zenon DEF AddClaim, TypeOK
<1>15. ASSUME NEW t \in Pid, AddBlock(t) PROVE TypeOK'
  <2>1. /\ CandSlot(t) \in Slot /\ cand[t].pid \in Pid /\ cand[t].rip \in Addr
    BY <1>15, CandType, Zenon DEF AddBlock, Goto, TypeOK, InAdd
  <2>2. nblk' \in Block
    BY <1>15, SizeAssumption DEF AddBlock, TypeOK, MemType, Block
  <2>3. ExeType'
    BY <1>15, <2>1, <2>2, Zenon DEF AddBlock, TypeOK, ExeType
  <2>4. MemType' /\ ThreadType'
    BY <1>15, <2>2, Zenon DEF AddBlock, Goto, TypeOK, MemType, ThreadType
  <2>5. DaemonType'
    BY <1>15, TypeFrames, Zenon DEF AddBlock, TypeOK
  <2> QED BY <1>15, <2>3, <2>4, <2>5, Zenon DEF AddBlock, TypeOK
<1>16. ASSUME NEW t \in Pid, AddPublish(t) PROVE TypeOK'
  <2>1. /\ CandSlot(t) \in Slot /\ cand[t].pid \in Pid /\ cand[t].rip \in Addr
    BY <1>16, CandType, Zenon DEF AddPublish, Goto, TypeOK, InAdd
  <2>2. ExeType'
    BY <1>16, <2>1, Zenon DEF AddPublish, TypeOK, ExeType
  <2>3. ThreadType'
    BY <1>16, <2>1, Zenon DEF AddPublish, TypeOK, ThreadType, Goto
  <2>4. MemType' /\ DaemonType'
    BY <1>16, TypeFrames, Zenon DEF AddPublish, TypeOK
  <2> QED BY <1>16, <2>2, <2>3, <2>4, Zenon DEF AddPublish, TypeOK
<1>17. ASSUME NEW t \in Pid, ReturnToUser(t) PROVE TypeOK'
  <2>1. ThreadType'
    BY <1>17, Zenon DEF ReturnToUser, TypeOK, ThreadType, Goto
  <2>2. ExeType' /\ MemType' /\ DaemonType'
    BY <1>17, TypeFrames, Zenon DEF ReturnToUser, TypeOK
  <2> QED BY <1>17, <2>1, <2>2, Zenon DEF ReturnToUser, TypeOK
<1>18. CASE ShowSkip
  <2>1. idx \in Slot /\ idx + 1 \in 0 .. MaxExe
    BY <1>18, IdxType, Zenon DEF ShowSkip, TypeOK
  <2>2. DaemonType'
    BY <1>18, <2>1, Zenon DEF ShowSkip, TypeOK, DaemonType
  <2>3. ExeType' /\ MemType' /\ ThreadType'
    BY <1>18, TypeFrames, Zenon DEF ShowSkip, TypeOK
  <2> QED BY <1>18, <2>2, <2>3, Zenon DEF ShowSkip, TypeOK
<1>19. CASE ShowHead
  <2>1. idx \in Slot /\ idx + 1 \in 0 .. MaxExe
    BY <1>19, IdxType, Zenon DEF ShowHead, TypeOK
  <2>2. pid[idx] \in Pid /\ RIP[idx] \in Addr /\ status_code[idx] \in Status
    BY <1>19, <2>1, Zenon DEF ShowHead, UsedNamed, Named, TypeOK, ExeType
  <2>3. Null \in JumpFrom /\ Null \in TgtAddr
    BY Zenon DEF JumpFrom, TgtAddr
  <2>4. [status_code |-> status_code[idx], pid |-> pid[idx], RIP |-> RIP[idx],
         jump_from |-> Null, tgt_addr |-> Null] \in Entry
    BY <2>2, <2>3, Zenon DEF Entry
  <2>5. DaemonType'
    BY <1>19, <2>1, <2>4, Zenon DEF ShowHead, TypeOK, DaemonType
  <2>6. ExeType' /\ MemType' /\ ThreadType'
    BY <1>19, TypeFrames, Zenon DEF ShowHead, TypeOK
  <2> QED BY <1>19, <2>5, <2>6, Zenon DEF ShowHead, TypeOK
<1>20. CASE ShowTail
  <2>1. idx \in Slot /\ snap[idx] \in Entry
    BY <1>20, EntryType, Zenon DEF ShowTail, TypeOK
  <2>2. jump_from[idx] \in JumpFrom /\ tgt_addr[idx] \in TgtAddr
    BY <2>1, Zenon DEF TypeOK, ExeType
  <2>3. [snap[idx] EXCEPT !.jump_from = jump_from[idx],
                          !.tgt_addr = tgt_addr[idx]] \in Entry
    BY <2>1, <2>2, Zenon DEF Entry
  <2>4. idx + 1 \in 0 .. MaxExe
    BY <2>1, SizeAssumption DEF Slot
  <2>5. DaemonType'
    BY <1>20, <2>1, <2>3, <2>4, Zenon DEF ShowTail, TypeOK, DaemonType
  <2>6. ExeType' /\ MemType' /\ ThreadType'
    BY <1>20, TypeFrames, Zenon DEF ShowTail, TypeOK
  <2> QED BY <1>20, <2>5, <2>6, Zenon DEF ShowTail, TypeOK
<1>21. CASE ShowEnd
  <2>1. DaemonType'
    BY <1>21, ZeroType, Zenon DEF ShowEnd, TypeOK, DaemonType
  <2>2. ExeType' /\ MemType' /\ ThreadType'
    BY <1>21, TypeFrames, Zenon DEF ShowEnd, TypeOK
  <2>3. stat_flag' \in Nat /\ raced' \in BOOLEAN
    BY <1>21 DEF ShowEnd, TypeOK
  <2> QED BY <2>1, <2>2, <2>3, Zenon DEF TypeOK
<1>22. CASE CheckSkip
  <2>1. idx \in Slot /\ idx + 1 \in 0 .. MaxExe
    BY <1>22, IdxType, Zenon DEF CheckSkip, TypeOK
  <2>2. DaemonType'
    BY <1>22, <2>1, Zenon DEF CheckSkip, TypeOK, DaemonType, NextEntry
  <2>3. ExeType' /\ MemType' /\ ThreadType'
    BY <1>22, TypeFrames, Zenon DEF CheckSkip, TypeOK
  <2> QED BY <1>22, <2>2, <2>3, Zenon DEF CheckSkip, TypeOK
<1>23. CASE CheckSaved
  <2>1. DaemonType'
    BY <1>23, Zenon DEF CheckSaved, TypeOK, DaemonType
  <2>2. ExeType' /\ MemType' /\ ThreadType'
    BY <1>23, TypeFrames, Zenon DEF CheckSaved, TypeOK
  <2> QED BY <1>23, <2>1, <2>2, Zenon DEF CheckSaved, TypeOK
<1>24. CASE CheckInit
  <2>1. idx \in Slot /\ snap[idx] # Null
    BY <1>24, IdxType, Zenon DEF CheckInit, TypeOK, Wanted
  <2>2. snap[idx].RIP \in Addr
    BY <2>1, EntryFields, Zenon DEF TypeOK
  <2>3. Command(snap[idx]) \in Addr \X (AnyMiss \cup {Null})
    BY <1>24, <2>2, Zenon DEF CheckInit, Command
  <2>4. Prebuilt \in Image
    BY Zenon DEF Prebuilt, Image
  <2>5. /\ table' \in [Addr -> SUBSET AnyMiss] /\ jit' \in [Addr -> Image \cup {Null}]
        /\ failed' \subseteq Addr
    BY <1>24, <2>2, <2>4, CompileType, Zenon DEF CheckInit, TypeOK
  <2>6. DaemonType'
    BY <1>24, <2>3, <2>5, Zenon DEF CheckInit, TypeOK, DaemonType
  <2>7. ExeType' /\ MemType' /\ ThreadType'
    BY <1>24, TypeFrames, Zenon DEF CheckInit, TypeOK
  <2> QED BY <1>24, <2>6, <2>7, Zenon DEF CheckInit, TypeOK
<1>25. CASE CheckMiss
  <2>1. idx \in Slot /\ snap[idx] # Null
    BY <1>25, IdxType, Zenon DEF CheckMiss, TypeOK, Wanted
  <2>2. snap[idx].RIP \in Addr
    BY <2>1, EntryFields, Zenon DEF TypeOK
  <2>3. MissOf(snap[idx]) \in AnyMiss
    BY <1>25, <2>1, EntryFields, Zenon DEF CheckMiss, TypeOK
  <2>4. Command(snap[idx]) \in Addr \X (AnyMiss \cup {Null})
    BY <2>2, <2>3, Zenon DEF Command
  <2>5. /\ table[snap[idx].RIP] \cup {MissOf(snap[idx])} \in SUBSET AnyMiss
        /\ jit[snap[idx].RIP] \in Image
    BY <1>25, <2>2, <2>3, Zenon DEF CheckMiss, TypeOK, DaemonType
  <2>6. /\ table' \in [Addr -> SUBSET AnyMiss] /\ jit' \in [Addr -> Image \cup {Null}]
        /\ failed' \subseteq Addr
    BY <1>25, <2>2, <2>5, CompileType, Zenon DEF CheckMiss, TypeOK
  <2>7. DaemonType'
    BY <1>25, <2>4, <2>6, Zenon DEF CheckMiss, TypeOK, DaemonType
  <2>8. ExeType' /\ MemType' /\ ThreadType'
    BY <1>25, TypeFrames, Zenon DEF CheckMiss, TypeOK
  <2> QED BY <1>25, <2>7, <2>8, Zenon DEF CheckMiss, TypeOK
<1>26. CASE CheckNoDir
  <2>1. DaemonType'
    BY <1>26, Zenon DEF CheckNoDir, TypeOK, DaemonType
  <2>2. ExeType' /\ MemType' /\ ThreadType'
    BY <1>26, TypeFrames, Zenon DEF CheckNoDir, TypeOK
  <2> QED BY <1>26, <2>1, <2>2, Zenon DEF CheckNoDir, TypeOK
<1>27. CASE CheckEnd
  <2>1. DaemonType'
    BY <1>27, ZeroType, Zenon DEF CheckEnd, TypeOK, DaemonType
  <2>2. ExeType' /\ MemType' /\ ThreadType'
    BY <1>27, TypeFrames, Zenon DEF CheckEnd, TypeOK
  <2> QED BY <1>27, <2>1, <2>2, Zenon DEF CheckEnd, TypeOK
<1>28. CASE StoreCopy
  <2>1. code_block[PktSlot] \in Block /\ PktImage \in Image
    BY <1>28, EntryType, PktType, Zenon DEF StoreCopy, TypeOK, ExeType
  <2>2. MemType'
    BY <1>28, <2>1, Zenon DEF StoreCopy, TypeOK, MemType
  <2>3. DaemonType'
    BY <1>28, Zenon DEF StoreCopy, TypeOK, DaemonType
  <2>4. ExeType' /\ ThreadType'
    BY <1>28, TypeFrames, Zenon DEF StoreCopy, TypeOK
  <2> QED BY <1>28, <2>2, <2>3, <2>4, Zenon DEF StoreCopy, TypeOK
<1>29. CASE StoreStatus
  <2>1. /\ dpc' \in {"copy", "check"} /\ idx' \in 0 .. MaxExe
        /\ off' \in 0 .. BlockBytes /\ snap' \in [Slot -> Entry \cup {Null}]
    BY <1>29, SentType, Zenon DEF StoreStatus, TypeOK
  <2>2. PktSlot \in Slot /\ PktCode \in Status
    BY <1>29, EntryType, Zenon DEF StoreStatus, PktCode, TypeOK
  <2>3. ExeType'
    BY <1>29, <2>2, Zenon DEF StoreStatus, TypeOK, ExeType
  <2>4. DaemonType'
    BY <1>29, <2>1, Zenon DEF StoreStatus, TypeOK, DaemonType
  <2>5. MemType' /\ ThreadType'
    BY <1>29, TypeFrames, Zenon DEF StoreStatus, TypeOK
  <2> QED BY <1>29, <2>3, <2>4, <2>5, Zenon DEF StoreStatus, TypeOK
<1>30. CASE StoreNotFound
  <2>1. /\ dpc' \in {"copy", "check"} /\ idx' \in 0 .. MaxExe
        /\ off' \in 0 .. BlockBytes /\ snap' \in [Slot -> Entry \cup {Null}]
    BY <1>30, SentType, Zenon DEF StoreNotFound, TypeOK
  <2>2. DaemonType'
    BY <1>30, <2>1, Zenon DEF StoreNotFound, TypeOK, DaemonType
  <2>3. ExeType' /\ MemType' /\ ThreadType'
    BY <1>30, TypeFrames, Zenon DEF StoreNotFound, TypeOK
  <2> QED BY <1>30, <2>2, <2>3, Zenon DEF StoreNotFound, TypeOK
<1>31. CASE Restart
  <2>1. restarts' \in Nat
    <3>1. restarts \in Nat /\ restarts' = restarts + 1
      BY <1>31, Zenon DEF Restart, TypeOK, DaemonType
    <3> QED BY <3>1, OneMore, Zenon
  <2>2. DaemonType'
    BY <1>31, <2>1, ZeroType, Zenon DEF Restart, TypeOK, DaemonType
  <2>3. ExeType' /\ MemType' /\ ThreadType'
    BY <1>31, TypeFrames, Zenon DEF Restart, TypeOK
  <2> QED BY <1>31, <2>2, <2>3, Zenon DEF Restart, TypeOK
<1>32. CASE UNCHANGED vars
  <2>1. ExeType' /\ MemType' /\ ThreadType' /\ DaemonType'
    BY <1>32, TypeFrames, Zenon DEF vars, TypeOK
  <2> QED BY <1>32, <2>1, Zenon DEF vars, TypeOK
<1>33. ASSUME NEW t \in Pid, AddReload(t) PROVE TypeOK'
  <2>1. ExeType' /\ ThreadType' /\ DaemonType'
    BY <1>33, TypeFrames, Zenon DEF AddReload, TypeOK
  <2>2. MemType'
    BY <1>33, Zenon DEF AddReload, TypeOK, MemType
  <2> QED BY <1>33, <2>1, <2>2, Zenon DEF AddReload, TypeOK
<1> QED
  BY <1>1, <1>2, <1>3, <1>4, <1>5, <1>6, <1>7, <1>8, <1>9, <1>10, <1>11, <1>12,
     <1>13, <1>14, <1>15, <1>16, <1>17, <1>18, <1>19, <1>20, <1>21, <1>22,
     <1>23, <1>24, <1>25, <1>26, <1>27, <1>28, <1>29, <1>30, <1>31, <1>32,
     <1>33, Zenon
  DEF Next, Thread, exe_on_call, exe_add, Daemon, sysfs_show, check, sysfs_store

(* A step of t that leaves the others' locals and the identities alone. *)
LEMMA OneMoves ==
    ASSUME ThreadInv, NEW t \in Pid, ThreadOK(t)', UNCHANGED <<pid, RIP>>,
           \A u \in Pid \ {t} :
               /\ pc'[u] = pc[u] /\ ip'[u] = ip[u] /\ exe'[u] = exe[u]
               /\ miss'[u] = miss[u] /\ cand'[u] = cand[u]
    PROVE  ThreadInv'
<1> SUFFICES ASSUME NEW u \in Pid \ {t} PROVE ThreadOK(u)'
  BY Zenon DEF ThreadInv
<1>1. ThreadOK(u) /\ CandSlot(u)' = CandSlot(u)
  BY Zenon DEF ThreadInv, CandSlot, get_exe
<1> QED BY <1>1, Zenon DEF ThreadOK, Named

LEMMA NoneMoves ==
    ASSUME ThreadInv, UNCHANGED <<pid, RIP, threadVars>>
    PROVE  ThreadInv'
<1> SUFFICES ASSUME NEW u \in Pid PROVE ThreadOK(u)'
  BY Zenon DEF ThreadInv
<1>1. ThreadOK(u) /\ CandSlot(u)' = CandSlot(u)
  BY Zenon DEF ThreadInv, CandSlot, get_exe, threadVars
<1> QED BY <1>1, Zenon DEF ThreadOK, Named, threadVars

LEMMA ThreadInvStep == TypeInv /\ [Next]_vars => ThreadInv'
<1> SUFFICES ASSUME TypeOK, ThreadInv, UsedNamed, DaemonInv, [Next]_vars
             PROVE  ThreadInv'
  BY Zenon DEF TypeInv
<1>1. ASSUME NEW t \in Pid, Syscall(t) PROVE ThreadInv'
  <2>7. ThreadOK(t) /\ ThreadType
    BY Zenon DEF ThreadInv, TypeOK
  <2>8. \A u \in Pid \ {t} :
            /\ pc'[u] = pc[u] /\ ip'[u] = ip[u] /\ exe'[u] = exe[u]
            /\ miss'[u] = miss[u] /\ cand'[u] = cand[u]
    BY <1>1, Zenon DEF Syscall, Goto, TypeOK, ThreadType
  <2>9. ThreadOK(t)'
    BY <1>1, <2>7, AddrAssumption, Zenon DEF Syscall, Goto, ThreadOK, Named, exeVars,
       InKernel, InChain, InReport, InAdd, ThreadType
  <2> QED BY <1>1, <2>8, <2>9, OneMoves, Zenon DEF Syscall, exeVars
<1>2. ASSUME NEW t \in Pid, EnterBlock(t) PROVE ThreadInv'
  <2>7. ThreadOK(t) /\ ThreadType
    BY Zenon DEF ThreadInv, TypeOK
  <2>1. /\ exe'[t] = get_exe(t, ip[t])
        /\ RIP[exe'[t]] = ip[t] /\ pid[exe'[t]] = t
    BY <1>2, Zenon DEF EnterBlock, Boosted, TypeOK, ThreadType
  <2>8. \A u \in Pid \ {t} :
            /\ pc'[u] = pc[u] /\ ip'[u] = ip[u] /\ exe'[u] = exe[u]
            /\ miss'[u] = miss[u] /\ cand'[u] = cand[u]
    BY <1>2, Zenon DEF EnterBlock, Goto, TypeOK, ThreadType
  <2>9. ThreadOK(t)'
    BY <1>2, <2>7, <2>1, Zenon DEF EnterBlock, Goto, ThreadOK, Named, exeVars,
       InKernel, InChain, InReport, InAdd, ThreadType
  <2> QED BY <1>2, <2>8, <2>9, OneMoves, Zenon DEF EnterBlock, exeVars
<1>3. ASSUME NEW t \in Pid, LeaveChain(t) PROVE ThreadInv'
  <2>7. ThreadOK(t) /\ ThreadType
    BY Zenon DEF ThreadInv, TypeOK
  <2>8. \A u \in Pid \ {t} :
            /\ pc'[u] = pc[u] /\ ip'[u] = ip[u] /\ exe'[u] = exe[u]
            /\ miss'[u] = miss[u] /\ cand'[u] = cand[u]
    BY <1>3, Zenon DEF LeaveChain, Goto, TypeOK, ThreadType
  <2>9. ThreadOK(t)'
    BY <1>3, <2>7, Zenon DEF LeaveChain, Goto, ThreadOK, Named, exeVars, InKernel,
       InChain, InReport, InAdd, ThreadType
  <2> QED BY <1>3, <2>8, <2>9, OneMoves, Zenon DEF LeaveChain, exeVars
<1>4. ASSUME NEW t \in Pid, RunToSyscall(t) PROVE ThreadInv'
  <2>7. ThreadOK(t) /\ ThreadType
    BY Zenon DEF ThreadInv, TypeOK
  <2>8. \A u \in Pid \ {t} :
            /\ pc'[u] = pc[u] /\ ip'[u] = ip[u] /\ exe'[u] = exe[u]
            /\ miss'[u] = miss[u] /\ cand'[u] = cand[u]
    BY <1>4, Zenon DEF RunToSyscall, Goto, TypeOK, ThreadType
  <2>9. ThreadOK(t)'
    BY <1>4, <2>7, AddrAssumption, Zenon DEF RunToSyscall, Goto, ThreadOK, Named,
       exeVars, InKernel, InChain, InReport, InAdd, ThreadType
  <2> QED BY <1>4, <2>8, <2>9, OneMoves, Zenon DEF RunToSyscall, exeVars
<1>5. ASSUME NEW t \in Pid, RunToIllegal(t) PROVE ThreadInv'
  <2>7. ThreadOK(t) /\ ThreadType
    BY Zenon DEF ThreadInv, TypeOK
  <2>8. \A u \in Pid \ {t} :
            /\ pc'[u] = pc[u] /\ ip'[u] = ip[u] /\ exe'[u] = exe[u]
            /\ miss'[u] = miss[u] /\ cand'[u] = cand[u]
    BY <1>5, Zenon DEF RunToIllegal, Goto, TypeOK, ThreadType
  <2>9. ThreadOK(t)'
    BY <1>5, <2>7, AddrAssumption, Zenon DEF RunToIllegal, Goto, ThreadOK, Named,
       exeVars, InKernel, InChain, InReport, InAdd, ThreadType
  <2> QED BY <1>5, <2>8, <2>9, OneMoves, Zenon DEF RunToIllegal, exeVars
<1>6. ASSUME NEW t \in Pid, SyscallReturns(t) PROVE ThreadInv'
  <2>7. ThreadOK(t) /\ ThreadType
    BY Zenon DEF ThreadInv, TypeOK
  <2>8. \A u \in Pid \ {t} :
            /\ pc'[u] = pc[u] /\ ip'[u] = ip[u] /\ exe'[u] = exe[u]
            /\ miss'[u] = miss[u] /\ cand'[u] = cand[u]
    BY <1>6, Zenon DEF SyscallReturns, Goto, TypeOK, ThreadType
  <2>9. ThreadOK(t)'
    BY <1>6, <2>7, Zenon DEF SyscallReturns, Goto, ThreadOK, Named, exeVars, InKernel,
       InChain, InReport, InAdd, ThreadType
  <2> QED BY <1>6, <2>8, <2>9, OneMoves, Zenon DEF SyscallReturns, exeVars
<1>7. ASSUME NEW t \in Pid, MissIgnored(t) PROVE ThreadInv'
  <2>7. ThreadOK(t) /\ ThreadType
    BY Zenon DEF ThreadInv, TypeOK
  <2>8. \A u \in Pid \ {t} :
            /\ pc'[u] = pc[u] /\ ip'[u] = ip[u] /\ exe'[u] = exe[u]
            /\ miss'[u] = miss[u] /\ cand'[u] = cand[u]
    BY <1>7, Zenon DEF MissIgnored, Goto, TypeOK, ThreadType
  <2>9. ThreadOK(t)'
    BY <1>7, <2>7, ExitTypes, Zenon DEF MissIgnored, Goto, ThreadOK, Named, exeVars,
       InKernel, InChain, InReport, InAdd, ThreadType
  <2> QED BY <1>7, <2>8, <2>9, OneMoves, Zenon DEF MissIgnored, exeVars
<1>8. ASSUME NEW t \in Pid, MissTaken(t) PROVE ThreadInv'
  <2>7. ThreadOK(t) /\ ThreadType
    BY Zenon DEF ThreadInv, TypeOK
  <2>1. PICK x \in Exit : ip' = [ip EXCEPT ![t] = x.tgt] /\ miss' = [miss EXCEPT ![t] = x]
    BY <1>8, Zenon DEF MissTaken
  <2>2. ip'[t] = x.tgt /\ miss'[t] = x /\ x.tgt \in Addr
    BY <2>1, ExitTypes, Zenon DEF TypeOK, ThreadType
  <2>8. \A u \in Pid \ {t} :
            /\ pc'[u] = pc[u] /\ ip'[u] = ip[u] /\ exe'[u] = exe[u]
            /\ miss'[u] = miss[u] /\ cand'[u] = cand[u]
    BY <1>8, Zenon DEF MissTaken, Goto, TypeOK, ThreadType
  <2>9. ThreadOK(t)'
    BY <1>8, <2>7, <2>2, Zenon DEF MissTaken, Goto, ThreadOK, Named, exeVars,
       InKernel, InChain, InReport, InAdd, ThreadType
  <2> QED BY <1>8, <2>8, <2>9, OneMoves, Zenon DEF MissTaken, exeVars
<1>9. ASSUME NEW t \in Pid, ReportTgt(t) PROVE ThreadInv'
  <2>7. ThreadOK(t) /\ ThreadType
    BY Zenon DEF ThreadInv, TypeOK
  <2>8. \A u \in Pid \ {t} :
            /\ pc'[u] = pc[u] /\ ip'[u] = ip[u] /\ exe'[u] = exe[u]
            /\ miss'[u] = miss[u] /\ cand'[u] = cand[u]
    BY <1>9, Zenon DEF ReportTgt, Goto, TypeOK, ThreadType
  <2>9. ThreadOK(t)'
    BY <1>9, <2>7, Zenon DEF ReportTgt, Goto, ThreadOK, Named, exeVars, InKernel,
       InChain, InReport, InAdd, ThreadType
  <2> QED BY <1>9, <2>8, <2>9, OneMoves, Zenon DEF ReportTgt, exeVars
<1>10. ASSUME NEW t \in Pid, ReportFrom(t) PROVE ThreadInv'
  <2>7. ThreadOK(t) /\ ThreadType
    BY Zenon DEF ThreadInv, TypeOK
  <2>8. \A u \in Pid \ {t} :
            /\ pc'[u] = pc[u] /\ ip'[u] = ip[u] /\ exe'[u] = exe[u]
            /\ miss'[u] = miss[u] /\ cand'[u] = cand[u]
    BY <1>10, Zenon DEF ReportFrom, Goto, TypeOK, ThreadType
  <2>9. ThreadOK(t)'
    BY <1>10, <2>7, Zenon DEF ReportFrom, Goto, ThreadOK, Named, exeVars, InKernel,
       InChain, InReport, InAdd, ThreadType
  <2> QED BY <1>10, <2>8, <2>9, OneMoves, Zenon DEF ReportFrom, exeVars
<1>11. ASSUME NEW t \in Pid, ReportStatus(t) PROVE ThreadInv'
  <2>7. ThreadOK(t) /\ ThreadType
    BY Zenon DEF ThreadInv, TypeOK
  <2>8. \A u \in Pid \ {t} :
            /\ pc'[u] = pc[u] /\ ip'[u] = ip[u] /\ exe'[u] = exe[u]
            /\ miss'[u] = miss[u] /\ cand'[u] = cand[u]
    BY <1>11, Zenon DEF ReportStatus, Goto, TypeOK, ThreadType
  <2>9. ThreadOK(t)'
    BY <1>11, <2>7, Zenon DEF ReportStatus, Goto, ThreadOK, Named, exeVars, InKernel,
       InChain, InReport, InAdd, ThreadType
  <2> QED BY <1>11, <2>8, <2>9, OneMoves, Zenon DEF ReportStatus, exeVars
<1>12. ASSUME NEW t \in Pid, RunWild(t) PROVE ThreadInv'
  <2>7. ThreadOK(t) /\ ThreadType
    BY Zenon DEF ThreadInv, TypeOK
  <2>8. \A u \in Pid \ {t} :
            /\ pc'[u] = pc[u] /\ ip'[u] = ip[u] /\ exe'[u] = exe[u]
            /\ miss'[u] = miss[u] /\ cand'[u] = cand[u]
    BY <1>12, Zenon DEF RunWild, Goto, TypeOK, ThreadType
  <2>9. ThreadOK(t)'
    BY <1>12, <2>7, Zenon DEF RunWild, Goto, ThreadOK, Named, exeVars, InKernel,
       InChain, InReport, InAdd, ThreadType
  <2> QED BY <1>12, <2>8, <2>9, OneMoves, Zenon DEF RunWild, exeVars
<1>13. ASSUME NEW t \in Pid, AddCheck(t) PROVE ThreadInv'
  <2>7. ThreadOK(t) /\ ThreadType
    BY Zenon DEF ThreadInv, TypeOK
  <2>1. cand'[t] # Null
    <3>1. PICK p \in Pid, a \in Addr :
            cand' = [cand EXCEPT ![t] = [pid |-> p, rip |-> a]]
      BY <1>13, IpsType, Zenon DEF AddCheck
    <3>2. [pid |-> p, rip |-> a] \in Candidate
      BY Zenon DEF Candidate
    <3> QED BY <3>1, <3>2, NullAssumption, Zenon DEF TypeOK, ThreadType
  <2>8. \A u \in Pid \ {t} :
            /\ pc'[u] = pc[u] /\ ip'[u] = ip[u] /\ exe'[u] = exe[u]
            /\ miss'[u] = miss[u] /\ cand'[u] = cand[u]
    BY <1>13, Zenon DEF AddCheck, Goto, TypeOK, ThreadType
  <2>9. ThreadOK(t)'
    BY <1>13, <2>7, <2>1, Zenon DEF AddCheck, Goto, ThreadOK, Named, exeVars,
       InKernel, InChain, InReport, InAdd, ThreadType
  <2> QED BY <1>13, <2>8, <2>9, OneMoves, Zenon DEF AddCheck, exeVars
<1>14. ASSUME NEW t \in Pid, AddClaim(t) PROVE ThreadInv'
  <2>1. CandSlot(t) \in Slot /\ cand[t].pid \in Pid /\ cand[t].rip \in Addr
    BY <1>14, CandType, Zenon DEF AddClaim, Goto, TypeOK, InAdd
  <2>2. \A s \in Slot : Named(s) \/ s = CandSlot(t) => Named(s)'
    BY <1>14, <2>1, Zenon DEF AddClaim, Named, TypeOK, ExeType
  <2>3. /\ \A u \in Pid : CandSlot(u)' = CandSlot(u) /\ exe[u] \in Slot
        /\ \A u \in Pid : pc[u] \in InAdd => CandSlot(u) \in Slot
    BY <1>14, CandType, Zenon DEF AddClaim, CandSlot, get_exe, TypeOK, ThreadType
  <2>4. \A u \in Pid \ {t} : pc'[u] = pc[u]
    BY <1>14, Zenon DEF AddClaim, Goto, TypeOK, ThreadType
  <2>5. ASSUME NEW u \in Pid \ {t} PROVE ThreadOK(u)'
    <3>1. ThreadOK(u)
      BY Zenon DEF ThreadInv
    <3> QED BY <1>14, <2>2, <2>3, <2>4, <3>1, Zenon DEF AddClaim, ThreadOK, InAdd
  <2>6. ThreadOK(t)'
    <3>1. ThreadOK(t) /\ pc[t] = "claim" /\ pc'[t] = "alloc"
      BY <1>14, Zenon DEF AddClaim, Goto, ThreadInv, TypeOK, ThreadType
    <3> QED BY <1>14, <2>1, <2>2, <2>3, <3>1, Zenon DEF AddClaim, ThreadOK, InKernel,
       InChain, InReport, InAdd
  <2> QED BY <2>5, <2>6, Zenon DEF ThreadInv
<1>15. ASSUME NEW t \in Pid, AddBlock(t) PROVE ThreadInv'
  <2>7. ThreadOK(t) /\ ThreadType
    BY Zenon DEF ThreadInv, TypeOK
  <2>8. \A u \in Pid \ {t} :
            /\ pc'[u] = pc[u] /\ ip'[u] = ip[u] /\ exe'[u] = exe[u]
            /\ miss'[u] = miss[u] /\ cand'[u] = cand[u]
    BY <1>15, Zenon DEF AddBlock, Goto, TypeOK, ThreadType
  <2>9. ThreadOK(t)'
    BY <1>15, <2>7, Zenon DEF AddBlock, Goto, ThreadOK, Named, exeVars, InKernel,
       InChain, InReport, InAdd, ThreadType, CandSlot, get_exe
  <2> QED BY <1>15, <2>8, <2>9, OneMoves, Zenon DEF AddBlock, exeVars
<1>16. ASSUME NEW t \in Pid, AddPublish(t) PROVE ThreadInv'
  <2>7. ThreadOK(t) /\ ThreadType
    BY Zenon DEF ThreadInv, TypeOK
  <2>8. \A u \in Pid \ {t} :
            /\ pc'[u] = pc[u] /\ ip'[u] = ip[u] /\ exe'[u] = exe[u]
            /\ miss'[u] = miss[u] /\ cand'[u] = cand[u]
    BY <1>16, Zenon DEF AddPublish, Goto, TypeOK, ThreadType
  <2>9. ThreadOK(t)'
    BY <1>16, <2>7, Zenon DEF AddPublish, Goto, ThreadOK, Named, exeVars, InKernel,
       InChain, InReport, InAdd, ThreadType
  <2> QED BY <1>16, <2>8, <2>9, OneMoves, Zenon DEF AddPublish, exeVars
<1>17. ASSUME NEW t \in Pid, ReturnToUser(t) PROVE ThreadInv'
  <2>7. ThreadOK(t) /\ ThreadType
    BY Zenon DEF ThreadInv, TypeOK
  <2>8. \A u \in Pid \ {t} :
            /\ pc'[u] = pc[u] /\ ip'[u] = ip[u] /\ exe'[u] = exe[u]
            /\ miss'[u] = miss[u] /\ cand'[u] = cand[u]
    BY <1>17, Zenon DEF ReturnToUser, Goto, TypeOK, ThreadType
  <2>9. ThreadOK(t)'
    BY <1>17, <2>7, Zenon DEF ReturnToUser, Goto, ThreadOK, Named, exeVars, InKernel,
       InChain, InReport, InAdd, ThreadType
  <2> QED BY <1>17, <2>8, <2>9, OneMoves, Zenon DEF ReturnToUser, exeVars
<1>18. CASE ShowSkip
  BY <1>18, NoneMoves, Zenon DEF ShowSkip, exeVars
<1>19. CASE ShowHead
  BY <1>19, NoneMoves, Zenon DEF ShowHead, exeVars
<1>20. CASE ShowTail
  BY <1>20, NoneMoves, Zenon DEF ShowTail, exeVars
<1>21. CASE ShowEnd
  BY <1>21, NoneMoves, Zenon DEF ShowEnd, exeVars
<1>22. CASE CheckSkip
  BY <1>22, NoneMoves, Zenon DEF CheckSkip, exeVars
<1>23. CASE CheckSaved
  BY <1>23, NoneMoves, Zenon DEF CheckSaved, exeVars
<1>24. CASE CheckInit
  BY <1>24, NoneMoves, Zenon DEF CheckInit, exeVars
<1>25. CASE CheckMiss
  BY <1>25, NoneMoves, Zenon DEF CheckMiss, exeVars
<1>26. CASE CheckNoDir
  BY <1>26, NoneMoves, Zenon DEF CheckNoDir, exeVars
<1>27. CASE CheckEnd
  BY <1>27, NoneMoves, Zenon DEF CheckEnd, exeVars
<1>28. CASE StoreCopy
  BY <1>28, NoneMoves, Zenon DEF StoreCopy, exeVars
<1>29. CASE StoreStatus
  BY <1>29, NoneMoves, Zenon DEF StoreStatus, exeVars
<1>30. CASE StoreNotFound
  BY <1>30, NoneMoves, Zenon DEF StoreNotFound, exeVars
<1>31. CASE Restart
  BY <1>31, NoneMoves, Zenon DEF Restart, exeVars
<1>32. CASE UNCHANGED vars
  BY <1>32, NoneMoves, Zenon DEF vars, exeVars, threadVars
<1>33. ASSUME NEW t \in Pid, AddReload(t) PROVE ThreadInv'
  BY <1>33, NoneMoves, Zenon DEF AddReload, exeVars
<1> QED
  BY <1>1, <1>2, <1>3, <1>4, <1>5, <1>6, <1>7, <1>8, <1>9, <1>10, <1>11, <1>12,
     <1>13, <1>14, <1>15, <1>16, <1>17, <1>18, <1>19, <1>20, <1>21, <1>22,
     <1>23, <1>24, <1>25, <1>26, <1>27, <1>28, <1>29, <1>30, <1>31, <1>32,
     <1>33, Zenon
  DEF Next, Thread, exe_on_call, exe_add, Daemon, sysfs_show, check, sysfs_store

LEMMA DaemonFrame ==
    ASSUME DaemonInv, UNCHANGED <<pid, RIP, dpc, idx, snap, off, hist, jit>>
    PROVE  DaemonInv'
BY Zenon DEF DaemonInv, Named, PktImage, PktSlot, get_exe

(* An image has at least one byte. *)
LEMMA Positive == \A n \in 1 .. BlockBytes : 0 < n
BY SizeAssumption

LEMMA CompiledInv ==
    ASSUME DaemonType, DaemonInv, snap[idx].RIP \in Addr,
           idx \in Slot, snap[idx] # Null, dpc = "check", dpc' = "copy",
           jit'[snap[idx].RIP] \in Image,
           \A a \in Addr \ {snap[idx].RIP} : jit'[a] = jit[a],
           hist' = hist \cup {Command(snap[idx])},
           UNCHANGED <<idx, snap, off>>
    PROVE  DaemonInv'
<1>1. off = 0 /\ JitLen[jit'[snap[idx].RIP]] \in 1 .. BlockBytes
  BY JitAssumption, Zenon DEF DaemonInv
<1>2. PktImage' # Null /\ off' < JitLen[PktImage']
  <2>1. PktImage' = jit'[snap[idx].RIP] /\ off' = 0
    BY <1>1, Zenon DEF PktImage
  <2>2. PktImage' # Null
    BY <2>1, NullAssumption, Zenon
  <2>3. 0 < JitLen[jit'[snap[idx].RIP]]
    BY <1>1, Positive, Zenon
  <2> QED BY <2>1, <2>2, <2>3, Zenon
<1>3. \A d \in hist' : jit'[d[1]] # Null
  <2>1. \A d \in hist : d[1] \in Addr /\ jit[d[1]] # Null
    BY Zenon DEF DaemonInv, DaemonType
  <2>2. Command(snap[idx])[1] = snap[idx].RIP
    BY Zenon DEF Command
  <2> QED BY <2>1, <2>2, NullAssumption, Zenon
<1> QED BY <1>2, <1>3, Zenon DEF DaemonInv

LEMMA SentInv ==
    ASSUME DaemonType, DaemonInv, dpc \in {"copy", "mark"}, PktSent,
           UNCHANGED <<hist, jit>>
    PROVE  DaemonInv'
<1>1. CASE RestLen > PktLen
  <2>1. idx \in Slot /\ snap[idx] # Null /\ PktImage # Null
    BY Zenon DEF DaemonInv
  <2>2. PktImage' = PktImage /\ off' = off + PktLen
    BY <1>1, Zenon DEF PktSent, PktImage
  <2>3. off' < JitLen[PktImage']
    BY <1>1, <2>2, PktType, SizeAssumption
  <2> QED BY <1>1, <2>1, <2>2, <2>3, Zenon DEF PktSent, DaemonInv
<1>2. CASE ~ (RestLen > PktLen)
  BY <1>2, Zenon DEF PktSent, NextEntry, DaemonInv
<1> QED BY <1>1, <1>2, Zenon

LEMMA DaemonInvStep == TypeInv /\ [Next]_vars => DaemonInv'
<1> SUFFICES ASSUME TypeOK, ThreadInv, UsedNamed, DaemonInv, [Next]_vars
             PROVE  DaemonInv'
  BY Zenon DEF TypeInv
<1> USE DEF exeVars, memVars, threadVars, daemonVars
<1>1. ASSUME NEW t \in Pid, Syscall(t) PROVE DaemonInv'
  BY <1>1, DaemonFrame, Zenon DEF Syscall
<1>2. ASSUME NEW t \in Pid, EnterBlock(t) PROVE DaemonInv'
  BY <1>2, DaemonFrame, Zenon DEF EnterBlock
<1>3. ASSUME NEW t \in Pid, LeaveChain(t) PROVE DaemonInv'
  BY <1>3, DaemonFrame, Zenon DEF LeaveChain
<1>4. ASSUME NEW t \in Pid, RunToSyscall(t) PROVE DaemonInv'
  BY <1>4, DaemonFrame, Zenon DEF RunToSyscall
<1>5. ASSUME NEW t \in Pid, RunToIllegal(t) PROVE DaemonInv'
  BY <1>5, DaemonFrame, Zenon DEF RunToIllegal
<1>6. ASSUME NEW t \in Pid, SyscallReturns(t) PROVE DaemonInv'
  BY <1>6, DaemonFrame, Zenon DEF SyscallReturns
<1>7. ASSUME NEW t \in Pid, MissIgnored(t) PROVE DaemonInv'
  BY <1>7, DaemonFrame, Zenon DEF MissIgnored
<1>8. ASSUME NEW t \in Pid, MissTaken(t) PROVE DaemonInv'
  BY <1>8, DaemonFrame, Zenon DEF MissTaken
<1>9. ASSUME NEW t \in Pid, ReportTgt(t) PROVE DaemonInv'
  BY <1>9, DaemonFrame, Zenon DEF ReportTgt
<1>10. ASSUME NEW t \in Pid, ReportFrom(t) PROVE DaemonInv'
  BY <1>10, DaemonFrame, Zenon DEF ReportFrom
<1>11. ASSUME NEW t \in Pid, ReportStatus(t) PROVE DaemonInv'
  BY <1>11, DaemonFrame, Zenon DEF ReportStatus
<1>12. ASSUME NEW t \in Pid, RunWild(t) PROVE DaemonInv'
  BY <1>12, DaemonFrame, Zenon DEF RunWild
<1>13. ASSUME NEW t \in Pid, AddCheck(t) PROVE DaemonInv'
  BY <1>13, DaemonFrame, Zenon DEF AddCheck
<1>14. ASSUME NEW t \in Pid, AddClaim(t) PROVE DaemonInv'
  <2>1. /\ CandSlot(t) \in Slot /\ cand[t].pid \in Pid /\ cand[t].rip \in Addr
    BY <1>14, CandType, Zenon DEF AddClaim, Goto, TypeOK, InAdd
  <2>2. \A s \in Slot : Named(s) => Named(s)'
    BY <1>14, <2>1, Zenon DEF AddClaim, Named, TypeOK, ExeType
  <2>3. PktSlot' = PktSlot /\ PktImage' = PktImage
    BY <1>14, Zenon DEF AddClaim, PktSlot, PktImage, get_exe
  <2>4. dpc = "mark" => PktSlot \in Slot
    BY EntryType, Zenon DEF TypeOK
  <2> QED BY <1>14, <2>2, <2>3, <2>4, Zenon DEF AddClaim, DaemonInv
<1>15. ASSUME NEW t \in Pid, AddBlock(t) PROVE DaemonInv'
  BY <1>15, DaemonFrame, Zenon DEF AddBlock
<1>16. ASSUME NEW t \in Pid, AddPublish(t) PROVE DaemonInv'
  BY <1>16, DaemonFrame, Zenon DEF AddPublish
<1>17. ASSUME NEW t \in Pid, ReturnToUser(t) PROVE DaemonInv'
  BY <1>17, DaemonFrame, Zenon DEF ReturnToUser
<1>18. CASE ShowSkip
  BY <1>18, Zenon DEF ShowSkip, DaemonInv
<1>19. CASE ShowHead
  <2>1. idx \in Slot /\ idx + 1 \in 0 .. MaxExe
    BY <1>19, IdxType, Zenon DEF ShowHead, TypeOK
  <2>2. snap'[idx] # Null
    <3>1. pid[idx] \in Pid /\ RIP[idx] \in Addr /\ status_code[idx] \in Status
      BY <1>19, <2>1, Zenon DEF ShowHead, UsedNamed, Named, TypeOK, ExeType
    <3>2. Null \in JumpFrom /\ Null \in TgtAddr
      BY Zenon DEF JumpFrom, TgtAddr
    <3>3. [status_code |-> status_code[idx], pid |-> pid[idx], RIP |-> RIP[idx],
           jump_from |-> Null, tgt_addr |-> Null] \in Entry
      BY <3>1, <3>2, Zenon DEF Entry
    <3> QED BY <1>19, <2>1, <3>3, NullAssumption, Zenon DEF ShowHead, TypeOK,
       DaemonType
  <2> QED BY <1>19, <2>1, <2>2, Zenon DEF ShowHead, DaemonInv
<1>20. CASE ShowTail
  BY <1>20, Zenon DEF ShowTail, DaemonInv
<1>21. CASE ShowEnd
  BY <1>21, Zenon DEF ShowEnd, DaemonInv
<1>22. CASE CheckSkip
  BY <1>22, Zenon DEF CheckSkip, DaemonInv
<1>23. CASE CheckSaved
  <2>1. idx \in Slot /\ snap[idx] # Null
    BY <1>23, IdxType, Zenon DEF CheckSaved, TypeOK, Wanted
  <2>2. snap[idx].RIP \in Addr
    BY <2>1, EntryFields, Zenon DEF TypeOK
  <2>3. jit[snap[idx].RIP] # Null
    BY <1>23, Zenon DEF CheckSaved, Command, DaemonInv
  <2>4. jit[snap[idx].RIP] \in Image
    BY <2>2, <2>3, Zenon DEF TypeOK, DaemonType
  <2>5. off = 0 /\ JitLen[jit[snap[idx].RIP]] \in 1 .. BlockBytes
    BY <1>23, <2>4, JitAssumption, Zenon DEF CheckSaved, DaemonInv
  <2>6. PktImage' = jit[snap[idx].RIP] /\ off' = off
    BY <1>23, Zenon DEF CheckSaved, PktImage
  <2>7. PktImage' # Null /\ off' < JitLen[PktImage']
    <3>1. off' = 0 /\ JitLen[PktImage'] \in 1 .. BlockBytes
      BY <2>5, <2>6, Zenon
    <3>2. off' < JitLen[PktImage']
      BY <3>1, Positive, Zenon
    <3> QED BY <2>3, <2>6, <3>2, Zenon
  <2> QED BY <1>23, <2>1, <2>7, Zenon DEF CheckSaved, DaemonInv
<1>24. CASE CheckInit
  <2>1. idx \in Slot /\ snap[idx] # Null
    BY <1>24, IdxType, Zenon DEF CheckInit, TypeOK, Wanted
  <2>2. snap[idx].RIP \in Addr
    BY <2>1, EntryFields, Zenon DEF TypeOK
  <2>3. Prebuilt \in Image
    BY Zenon DEF Prebuilt, Image
  <2>4. /\ jit'[snap[idx].RIP] \in Image
        /\ \A a \in Addr \ {snap[idx].RIP} : jit'[a] = jit[a]
    BY <1>24, <2>2, <2>3, CompileType, Zenon DEF CheckInit, TypeOK
  <2> QED BY <1>24, <2>1, <2>2, <2>4, CompiledInv, Zenon DEF CheckInit, TypeOK
<1>25. CASE CheckMiss
  <2>1. idx \in Slot /\ snap[idx] # Null
    BY <1>25, IdxType, Zenon DEF CheckMiss, TypeOK, Wanted
  <2>2. snap[idx].RIP \in Addr
    BY <2>1, EntryFields, Zenon DEF TypeOK
  <2>3. MissOf(snap[idx]) \in AnyMiss
    BY <1>25, <2>1, EntryFields, Zenon DEF CheckMiss, TypeOK
  <2>4. /\ table[snap[idx].RIP] \cup {MissOf(snap[idx])} \in SUBSET AnyMiss
        /\ jit[snap[idx].RIP] \in Image
    BY <1>25, <2>2, <2>3, Zenon DEF CheckMiss, TypeOK, DaemonType
  <2>5. /\ jit'[snap[idx].RIP] \in Image
        /\ \A a \in Addr \ {snap[idx].RIP} : jit'[a] = jit[a]
    BY <1>25, <2>2, <2>4, CompileType, Zenon DEF CheckMiss, TypeOK
  <2> QED BY <1>25, <2>1, <2>2, <2>5, CompiledInv, Zenon DEF CheckMiss, TypeOK
<1>26. CASE CheckNoDir
  BY <1>26, Zenon DEF CheckNoDir, DaemonInv
<1>27. CASE CheckEnd
  BY <1>27, Zenon DEF CheckEnd, DaemonInv
<1>28. CASE StoreCopy
  <2>1. PktSlot' = PktSlot /\ PktImage' = PktImage
    BY <1>28, Zenon DEF StoreCopy, PktSlot, PktImage, get_exe
  <2>2. Named(PktSlot)
    BY <1>28, EntryType, Zenon DEF StoreCopy, PktFound, Named, TypeOK
  <2> QED BY <1>28, <2>1, <2>2, Zenon DEF StoreCopy, DaemonInv, Named
<1>29. CASE StoreStatus
  BY <1>29, SentInv, Zenon DEF StoreStatus, TypeOK
<1>30. CASE StoreNotFound
  BY <1>30, SentInv, Zenon DEF StoreNotFound, TypeOK
<1>31. CASE Restart
  BY <1>31, Zenon DEF Restart, DaemonInv
<1>32. CASE UNCHANGED vars
  BY <1>32, DaemonFrame, Zenon DEF vars
<1>33. ASSUME NEW t \in Pid, AddReload(t) PROVE DaemonInv'
  BY <1>33, DaemonFrame, Zenon DEF AddReload
<1> QED
  BY <1>1, <1>2, <1>3, <1>4, <1>5, <1>6, <1>7, <1>8, <1>9, <1>10, <1>11, <1>12,
     <1>13, <1>14, <1>15, <1>16, <1>17, <1>18, <1>19, <1>20, <1>21, <1>22,
     <1>23, <1>24, <1>25, <1>26, <1>27, <1>28, <1>29, <1>30, <1>31, <1>32,
     <1>33, Zenon
  DEF Next, Thread, exe_on_call, exe_add, Daemon, sysfs_show, check, sysfs_store

LEMMA UsedFrame ==
    ASSUME UsedNamed, UNCHANGED <<status_code, pid, RIP>>
    PROVE  UsedNamed'
BY Zenon DEF UsedNamed, Named

LEMMA UsedNamedStep == TypeInv /\ [Next]_vars => UsedNamed'
<1> SUFFICES ASSUME TypeOK, ThreadInv, UsedNamed, DaemonInv, [Next]_vars
             PROVE  UsedNamed'
  BY Zenon DEF TypeInv
<1> USE DEF exeVars, memVars, threadVars, daemonVars
<1>1. ASSUME NEW t \in Pid, Syscall(t) PROVE UsedNamed'
  BY <1>1, UsedFrame, Zenon DEF Syscall
<1>2. ASSUME NEW t \in Pid, EnterBlock(t) PROVE UsedNamed'
  BY <1>2, UsedFrame, Zenon DEF EnterBlock
<1>3. ASSUME NEW t \in Pid, LeaveChain(t) PROVE UsedNamed'
  BY <1>3, UsedFrame, Zenon DEF LeaveChain
<1>4. ASSUME NEW t \in Pid, RunToSyscall(t) PROVE UsedNamed'
  BY <1>4, UsedFrame, Zenon DEF RunToSyscall
<1>5. ASSUME NEW t \in Pid, RunToIllegal(t) PROVE UsedNamed'
  BY <1>5, UsedFrame, Zenon DEF RunToIllegal
<1>6. ASSUME NEW t \in Pid, SyscallReturns(t) PROVE UsedNamed'
  BY <1>6, UsedFrame, Zenon DEF SyscallReturns
<1>7. ASSUME NEW t \in Pid, MissIgnored(t) PROVE UsedNamed'
  BY <1>7, UsedFrame, Zenon DEF MissIgnored
<1>8. ASSUME NEW t \in Pid, MissTaken(t) PROVE UsedNamed'
  BY <1>8, UsedFrame, Zenon DEF MissTaken
<1>9. ASSUME NEW t \in Pid, ReportTgt(t) PROVE UsedNamed'
  BY <1>9, UsedFrame, Zenon DEF ReportTgt
<1>10. ASSUME NEW t \in Pid, ReportFrom(t) PROVE UsedNamed'
  BY <1>10, UsedFrame, Zenon DEF ReportFrom
<1>11. ASSUME NEW t \in Pid, ReportStatus(t) PROVE UsedNamed'
  <2>1. exe[t] \in Slot /\ Named(exe[t])
    BY <1>11, Zenon DEF ReportStatus, Goto, ThreadInv, ThreadOK, InChain, TypeOK,
       ThreadType
  <2> QED BY <1>11, <2>1, Zenon DEF ReportStatus, UsedNamed, Named, TypeOK, ExeType
<1>12. ASSUME NEW t \in Pid, RunWild(t) PROVE UsedNamed'
  BY <1>12, UsedFrame, Zenon DEF RunWild
<1>13. ASSUME NEW t \in Pid, AddCheck(t) PROVE UsedNamed'
  BY <1>13, UsedFrame, Zenon DEF AddCheck
<1>14. ASSUME NEW t \in Pid, AddClaim(t) PROVE UsedNamed'
  <2>1. /\ CandSlot(t) \in Slot /\ cand[t].pid \in Pid /\ cand[t].rip \in Addr
    BY <1>14, CandType, Zenon DEF AddClaim, Goto, TypeOK, InAdd
  <2> QED BY <1>14, <2>1, Zenon DEF AddClaim, UsedNamed, Named, TypeOK, ExeType
<1>15. ASSUME NEW t \in Pid, AddBlock(t) PROVE UsedNamed'
  BY <1>15, UsedFrame, Zenon DEF AddBlock
<1>16. ASSUME NEW t \in Pid, AddPublish(t) PROVE UsedNamed'
  <2>1. CandSlot(t) \in Slot /\ Named(CandSlot(t))
    BY <1>16, CandType, Zenon DEF AddPublish, Goto, ThreadInv, ThreadOK, InAdd, TypeOK
  <2> QED BY <1>16, <2>1, Zenon DEF AddPublish, UsedNamed, Named, TypeOK, ExeType
<1>17. ASSUME NEW t \in Pid, ReturnToUser(t) PROVE UsedNamed'
  BY <1>17, UsedFrame, Zenon DEF ReturnToUser
<1>18. CASE ShowSkip
  BY <1>18, UsedFrame, Zenon DEF ShowSkip
<1>19. CASE ShowHead
  BY <1>19, UsedFrame, Zenon DEF ShowHead
<1>20. CASE ShowTail
  BY <1>20, UsedFrame, Zenon DEF ShowTail
<1>21. CASE ShowEnd
  BY <1>21, UsedFrame, Zenon DEF ShowEnd
<1>22. CASE CheckSkip
  BY <1>22, UsedFrame, Zenon DEF CheckSkip
<1>23. CASE CheckSaved
  BY <1>23, UsedFrame, Zenon DEF CheckSaved
<1>24. CASE CheckInit
  BY <1>24, UsedFrame, Zenon DEF CheckInit
<1>25. CASE CheckMiss
  BY <1>25, UsedFrame, Zenon DEF CheckMiss
<1>26. CASE CheckNoDir
  BY <1>26, UsedFrame, Zenon DEF CheckNoDir
<1>27. CASE CheckEnd
  BY <1>27, UsedFrame, Zenon DEF CheckEnd
<1>28. CASE StoreCopy
  BY <1>28, UsedFrame, Zenon DEF StoreCopy
<1>29. CASE StoreStatus
  <2>1. PktSlot \in Slot /\ Named(PktSlot)
    BY <1>29, EntryType, Zenon DEF StoreStatus, DaemonInv, TypeOK
  <2> QED BY <1>29, <2>1, Zenon DEF StoreStatus, UsedNamed, Named, TypeOK, ExeType
<1>30. CASE StoreNotFound
  BY <1>30, UsedFrame, Zenon DEF StoreNotFound
<1>31. CASE Restart
  BY <1>31, UsedFrame, Zenon DEF Restart
<1>32. CASE UNCHANGED vars
  BY <1>32, UsedFrame, Zenon DEF vars
<1>33. ASSUME NEW t \in Pid, AddReload(t) PROVE UsedNamed'
  BY <1>33, UsedFrame, Zenon DEF AddReload
<1> QED
  BY <1>1, <1>2, <1>3, <1>4, <1>5, <1>6, <1>7, <1>8, <1>9, <1>10, <1>11, <1>12,
     <1>13, <1>14, <1>15, <1>16, <1>17, <1>18, <1>19, <1>20, <1>21, <1>22,
     <1>23, <1>24, <1>25, <1>26, <1>27, <1>28, <1>29, <1>30, <1>31, <1>32,
     <1>33, Zenon
  DEF Next, Thread, exe_on_call, exe_add, Daemon, sysfs_show, check, sysfs_store

LEMMA TypeStep == TypeInv /\ [Next]_vars => TypeInv'
BY TypeOKStep, ThreadInvStep, DaemonInvStep, UsedNamedStep, Zenon DEF TypeInv

(* Every reachable state is well typed: whatever the threads, the daemon and
   overlapping calls of exe_add do, the locals and the table keep their types
   (exe.c:36-46). *)
THEOREM TypeCorrect == Spec => []TypeOK
<1>1. Init => TypeInv
  BY InitType, Zenon
<1>2. TypeInv => TypeOK
  BY Zenon DEF TypeInv
<1> QED BY <1>1, <1>2, TypeStep, PTL DEF Spec

(***************************************************************************)
(* The invariants behind the safety of Bypass, what each step does to the  *)
(* table of blocks, and the three invariants about it: the candidates of   *)
(* exe_add, the entries, and the threads that own them.  The invariants    *)
(* hold as long as no two calls of exe_add have overlapped on a slot.      *)
(***************************************************************************)

(* A candidate's slot is unused until its adder publishes it; the fields it
   has filled are still its own. *)
AddOK(t) ==
    /\ cand[t] # Null => status_code[CandSlot(t)] = un_used
    /\ pc[t] \in {"alloc", "publish"} =>
           pid[CandSlot(t)] = cand[t].pid /\ RIP[CandSlot(t)] = cand[t].rip
    /\ pc[t] = "publish" => code_block[CandSlot(t)] # 0

(* A slot has one adder at a time. *)
Apart(t, u) == cand[t] # Null /\ cand[u] # Null => CandSlot(t) # CandSlot(u)

AddInv == /\ \A t \in Pid : AddOK(t)
          /\ \A t, u \in Pid : t # u => Apart(t, u)

(* A used slot holds an entry that hashes to it and has a block. *)
SlotOK(s) ==
    /\ status_code[s] # un_used =>
           get_exe(pid[s], RIP[s]) = s /\ code_block[s] # 0
    /\ code_block[s] <= nblk

(* No two slots share a block. *)
OwnBlock(r, s) == code_block[r] = code_block[s] => code_block[r] = 0

TableInv == /\ \A s \in Slot : SlotOK(s)
            /\ \A r, s \in Slot : r # s => OwnBlock(r, s)

(* A thread in the chaining loop owns its slot, which stays normal until the
   thread itself reports a miss. *)
OwnerOK(t) ==
    /\ pc[t] \in InChain => pid[exe[t]] = t /\ status_code[exe[t]] = normal
    /\ pc[t] = "run" => RIP[exe[t]] = ip[t] /\ virt_ptr[t] = code_block[exe[t]]

OwnerInv == \A t \in Pid : OwnerOK(t)

(* s is the entry the daemon is writing. *)
Writing(s) == s = idx /\ dpc \in {"copy", "mark"}

(* What the daemon has read and not dealt with is still there. *)
SnapOK(s) ==
    /\ snap[s] # Null =>
           snap[s].pid = pid[s] /\ snap[s].RIP = RIP[s] /\ status_code[s] # un_used
    /\ snap[s] # Null /\ snap[s].status_code # normal =>
           /\ status_code[s] # normal
           /\ ~ Writing(s) => status_code[s] = snap[s].status_code

SnapInv == /\ \A s \in Slot : SnapOK(s)
           /\ dpc \in {"copy", "mark"} => Wanted(snap[idx])

(* The packets sent so far are in the block. *)
WriteInv ==
    /\ dpc = "copy" =>
           \A i \in 0 .. off - 1 : heap[code_block[idx]][i] = PktImage
    /\ dpc = "mark" =>
           \A i \in 0 .. off + PktLen - 1 : heap[code_block[idx]][i] = PktImage

(* A normal entry has a whole image of its own code; so has a directory. *)
CodeOK(s) == status_code[s] = normal =>
    /\ Whole(code_block[s])
    /\ RIP[s] \notin failed => heap[code_block[s]][0].rip = RIP[s]

DirOK(a) == jit[a] # Null /\ a \notin failed => jit[a].rip = a

CodeInv == (\A s \in Slot : CodeOK(s)) /\ (\A a \in Addr : DirOK(a))

(* A step that leaves slot s alone. *)
Same(s) == /\ status_code'[s] = status_code[s] /\ pid'[s] = pid[s]
           /\ RIP'[s] = RIP[s] /\ code_block'[s] = code_block[s]

(* The inductive strengthening of RunsSoundCode. *)
Safe == AddInv /\ TableInv /\ OwnerInv /\ SnapInv /\ WriteInv /\ CodeInv

SafeInv == ~ raced => Safe

-----------------------------------------------------------------------------
(* No block vmalloc returns is the null pointer. *)
LEMMA NextBlock == \A n \in Nat : n + 1 # 0
OBVIOUS

(* The slot of a candidate is a slot, and unused. *)
LEMMA CandFacts ==
    ASSUME TypeInv, AddInv, NEW u \in Pid, pc[u] \in InAdd \/ cand[u] # Null
    PROVE  /\ cand[u] # Null /\ cand[u] \in Candidate
           /\ cand[u].pid \in Pid /\ cand[u].rip \in Addr
           /\ CandSlot(u) \in Slot
           /\ status_code[CandSlot(u)] = un_used
<1>1. pc[u] \in InAdd /\ cand[u] # Null
  BY Zenon DEF TypeInv, ThreadInv, ThreadOK
<1>2. status_code[CandSlot(u)] = un_used
  BY <1>1, Zenon DEF AddInv, AddOK
<1> QED BY <1>1, <1>2, CandType, Zenon DEF TypeInv, TypeOK

(* The slot of a thread in the chaining loop is a slot, and normal. *)
LEMMA OwnFacts ==
    ASSUME TypeInv, OwnerInv, NEW u \in Pid, pc[u] \in InChain
    PROVE  exe[u] \in Slot /\ pid[exe[u]] = u /\ status_code[exe[u]] = normal
BY Zenon DEF TypeInv, TypeOK, ThreadType, OwnerInv, OwnerOK

(* A packet goes to the slot its entry was read from, which is in use, not
   normal, and has a block. *)
LEMMA PktIsIdx ==
    ASSUME TypeInv, TableInv, SnapInv, dpc \in {"copy", "mark"}
    PROVE  /\ PktSlot = idx /\ idx \in Slot /\ PktFound
           /\ snap[idx] # Null /\ snap[idx].RIP = RIP[idx] /\ snap[idx].RIP \in Addr
           /\ status_code[idx] # normal /\ status_code[idx] # un_used
           /\ code_block[idx] # 0 /\ code_block[idx] \in Block
<1>1. idx \in Slot /\ snap[idx] # Null /\ snap[idx].RIP \in Addr
  BY EntryType, Zenon DEF TypeInv, TypeOK
<1>2. /\ snap[idx].pid = pid[idx] /\ snap[idx].RIP = RIP[idx]
      /\ status_code[idx] # un_used
  BY <1>1, Zenon DEF SnapInv, SnapOK
<1>3. PktSlot = idx /\ code_block[idx] # 0
  BY <1>1, <1>2, Zenon DEF TableInv, SlotOK, PktSlot
<1>4. status_code[idx] # normal
  <2>1. snap[idx].status_code # normal
    BY DEF SnapInv, Wanted
  <2> QED BY <1>1, <2>1, Zenon DEF SnapInv, SnapOK
<1>5. code_block[idx] \in Block
  BY <1>1, Zenon DEF TypeInv, TypeOK, ExeType
<1> QED BY <1>1, <1>2, <1>3, <1>4, <1>5, Zenon DEF PktFound

-----------------------------------------------------------------------------
(* What the steps that change the table do to it, slot by slot. *)

LEMMA ReportEffect ==
    ASSUME TypeInv, OwnerInv, NEW t \in Pid, ReportStatus(t)
    PROVE  /\ exe[t] \in Slot /\ pid[exe[t]] = t
           /\ status_code[exe[t]] = normal /\ status_code'[exe[t]] \in Misses
           /\ \A s \in Slot \ {exe[t]} : Same(s)
           /\ pc'[t] = "lookup" /\ \A u \in Pid \ {t} : pc'[u] = pc[u]
           /\ UNCHANGED <<pid, RIP, code_block, tgt_addr, jump_from, memVars,
                          cand, exe, ip, virt_ptr, daemonVars>>
<1>1. pc[t] = "report" /\ miss[t] \in Exit
  BY Zenon DEF ReportStatus, Goto, TypeInv, ThreadInv, ThreadOK, InReport
<1>2. exe[t] \in Slot /\ pid[exe[t]] = t /\ status_code[exe[t]] = normal
  BY <1>1, OwnFacts, Zenon DEF InChain
<1>3. miss[t].kind \in Misses
  BY <1>1, ExitTypes, Zenon
<1>4. /\ status_code'[exe[t]] = miss[t].kind
      /\ \A s \in Slot \ {exe[t]} : status_code'[s] = status_code[s]
  BY <1>2, Zenon DEF ReportStatus, TypeInv, TypeOK, ExeType
<1>5. pc'[t] = "lookup" /\ \A u \in Pid \ {t} : pc'[u] = pc[u]
  BY Zenon DEF ReportStatus, Goto, TypeInv, TypeOK, ThreadType
<1>6. \A s \in Slot \ {exe[t]} : Same(s)
  BY <1>4, Zenon DEF ReportStatus, Same
<1> QED BY <1>2, <1>3, <1>4, <1>5, <1>6, Zenon DEF ReportStatus

LEMMA ClaimEffect ==
    ASSUME TypeInv, AddInv, NEW t \in Pid, AddClaim(t)
    PROVE  /\ cand[t] # Null /\ CandSlot(t) \in Slot
           /\ status_code[CandSlot(t)] = un_used
           /\ \A u \in Pid \ {t} : pc'[u] = pc[u]
           /\ \A u \in Pid \ {t} : cand[u] # Null =>
                  CandSlot(u) \in Slot \ {CandSlot(t)}
           /\ pc'[t] = "alloc"
           /\ pid'[CandSlot(t)] = cand[t].pid /\ RIP'[CandSlot(t)] = cand[t].rip
           /\ \A s \in Slot \ {CandSlot(t)} : Same(s)
           /\ \A u \in Pid : CandSlot(u)' = CandSlot(u)
           /\ UNCHANGED <<status_code, code_block, tgt_addr, jump_from, heap,
                          nblk, cand, exe, ip, virt_ptr, miss, daemonVars>>
<1>1. cand[t] # Null /\ CandSlot(t) \in Slot /\ status_code[CandSlot(t)] = un_used
  BY CandFacts, Zenon DEF AddClaim, Goto, InAdd
<1>2. \A u \in Pid \ {t} : cand[u] # Null => CandSlot(u) \in Slot \ {CandSlot(t)}
  BY <1>1, CandFacts, Zenon DEF AddInv, Apart
<1>3. pc'[t] = "alloc" /\ \A u \in Pid \ {t} : pc'[u] = pc[u]
  BY Zenon DEF AddClaim, Goto, TypeInv, TypeOK, ThreadType
<1>4. /\ pid'[CandSlot(t)] = cand[t].pid /\ RIP'[CandSlot(t)] = cand[t].rip
      /\ \A s \in Slot \ {CandSlot(t)} : pid'[s] = pid[s] /\ RIP'[s] = RIP[s]
  BY <1>1, Zenon DEF AddClaim, TypeInv, TypeOK, ExeType
<1>5. \A u \in Pid : CandSlot(u)' = CandSlot(u)
  BY Zenon DEF AddClaim, CandSlot, get_exe
<1>6. \A s \in Slot \ {CandSlot(t)} : Same(s)
  BY <1>4, Zenon DEF AddClaim, Same
<1> QED BY <1>1, <1>2, <1>3, <1>4, <1>5, <1>6, Zenon DEF AddClaim

LEMMA BlockEffect ==
    ASSUME TypeInv, AddInv, NEW t \in Pid, AddBlock(t)
    PROVE  /\ cand[t] # Null /\ CandSlot(t) \in Slot
           /\ status_code[CandSlot(t)] = un_used
           /\ \A u \in Pid \ {t} : pc'[u] = pc[u]
           /\ \A u \in Pid \ {t} : cand[u] # Null =>
                  CandSlot(u) \in Slot \ {CandSlot(t)}
           /\ pc'[t] = "publish"
           /\ nblk \in Nat /\ nblk' = nblk + 1
           /\ code_block'[CandSlot(t)] = nblk'
           /\ \A s \in Slot : code_block[s] \in Nat
           /\ \A s \in Slot \ {CandSlot(t)} : Same(s)
           /\ \A u \in Pid : CandSlot(u)' = CandSlot(u)
           /\ UNCHANGED <<status_code, pid, RIP, tgt_addr, jump_from, heap,
                          cand, exe, ip, virt_ptr, miss, daemonVars>>
<1>1. cand[t] # Null /\ CandSlot(t) \in Slot /\ status_code[CandSlot(t)] = un_used
  BY CandFacts, Zenon DEF AddBlock, Goto, InAdd
<1>2. \A u \in Pid \ {t} : cand[u] # Null => CandSlot(u) \in Slot \ {CandSlot(t)}
  BY <1>1, CandFacts, Zenon DEF AddInv, Apart
<1>3. pc'[t] = "publish" /\ \A u \in Pid \ {t} : pc'[u] = pc[u]
  BY Zenon DEF AddBlock, Goto, TypeInv, TypeOK, ThreadType
<1>4. nblk \in Nat /\ nblk' = nblk + 1 /\ \A s \in Slot : code_block[s] \in Nat
  BY SizeAssumption DEF AddBlock, TypeInv, TypeOK, ExeType, MemType, Block
<1>5. /\ code_block'[CandSlot(t)] = nblk'
      /\ \A s \in Slot \ {CandSlot(t)} : code_block'[s] = code_block[s]
  BY <1>1, Zenon DEF AddBlock, TypeInv, TypeOK, ExeType
<1>6. \A u \in Pid : CandSlot(u)' = CandSlot(u)
  BY Zenon DEF AddBlock, CandSlot, get_exe
<1>7. \A s \in Slot \ {CandSlot(t)} : Same(s)
  BY <1>5, Zenon DEF AddBlock, Same
<1> QED BY <1>1, <1>2, <1>3, <1>4, <1>5, <1>6, <1>7, Zenon DEF AddBlock

LEMMA PublishEffect ==
    ASSUME TypeInv, AddInv, NEW t \in Pid, AddPublish(t)
    PROVE  /\ cand[t] # Null /\ CandSlot(t) \in Slot
           /\ status_code[CandSlot(t)] = un_used
           /\ \A u \in Pid \ {t} : pc'[u] = pc[u]
           /\ \A u \in Pid \ {t} : cand[u] # Null =>
                  CandSlot(u) \in Slot \ {CandSlot(t)}
           /\ pc[t] = "publish" /\ pc'[t] = "stat" /\ cand'[t] = Null
           /\ \A u \in Pid \ {t} : cand'[u] = cand[u] /\ CandSlot(u)' = CandSlot(u)
           /\ status_code'[CandSlot(t)] = un_init
           /\ \A s \in Slot \ {CandSlot(t)} : Same(s)
           /\ UNCHANGED <<pid, RIP, code_block, tgt_addr, jump_from, memVars,
                          exe, ip, virt_ptr, miss, daemonVars>>
<1>1. cand[t] # Null /\ CandSlot(t) \in Slot /\ status_code[CandSlot(t)] = un_used
  BY CandFacts, Zenon DEF AddPublish, Goto, InAdd
<1>2. \A u \in Pid \ {t} : cand[u] # Null => CandSlot(u) \in Slot \ {CandSlot(t)}
  BY <1>1, CandFacts, Zenon DEF AddInv, Apart
<1>3. pc'[t] = "stat" /\ \A u \in Pid \ {t} : pc'[u] = pc[u]
  BY Zenon DEF AddPublish, Goto, TypeInv, TypeOK, ThreadType
<1>4. cand'[t] = Null /\ \A u \in Pid \ {t} : cand'[u] = cand[u]
  BY Zenon DEF AddPublish, TypeInv, TypeOK, ThreadType
<1>5. \A u \in Pid \ {t} : CandSlot(u)' = CandSlot(u)
  BY <1>4, Zenon DEF CandSlot, get_exe
<1>6. /\ status_code'[CandSlot(t)] = un_init
      /\ \A s \in Slot \ {CandSlot(t)} : status_code'[s] = status_code[s]
  BY <1>1, Zenon DEF AddPublish, TypeInv, TypeOK, ExeType
<1>7. \A s \in Slot \ {CandSlot(t)} : Same(s)
  BY <1>6, Zenon DEF AddPublish, Same
<1> QED BY <1>1, <1>2, <1>3, <1>4, <1>5, <1>6, <1>7, Zenon DEF AddPublish, Goto

(* A packet that is not the last leaves the entry un_init; after the last one
   the block holds the whole image. *)
LEMMA StoreEffect ==
    ASSUME TypeInv, TableInv, SnapInv, WriteInv, StoreStatus
    PROVE  /\ dpc = "mark" /\ idx \in Slot /\ snap[idx] # Null
           /\ snap[idx].RIP = RIP[idx] /\ snap[idx].RIP \in Addr
           /\ status_code[idx] # normal /\ status_code[idx] # un_used
           /\ \A s \in Slot \ {idx} : Same(s)
           /\ UNCHANGED <<pid, RIP, code_block, tgt_addr, jump_from, memVars,
                          threadVars, hist, table, jit, failed>>
           /\ \/ /\ status_code'[idx] = un_init
                 /\ dpc' = "copy" /\ off' = off + PktLen /\ UNCHANGED <<idx, snap>>
                 /\ off \in Nat /\ PktLen \in Nat
              \/ /\ status_code'[idx] = normal
                 /\ dpc' = "check" /\ off' = 0 /\ idx' = idx + 1
                 /\ snap' = [snap EXCEPT ![idx] = Null]
                 /\ Whole(code_block[idx]) /\ heap[code_block[idx]][0] = PktImage
<1>1. dpc = "mark" /\ PktSent
  BY Zenon DEF StoreStatus
<1>2. /\ PktSlot = idx /\ idx \in Slot /\ snap[idx] # Null
      /\ snap[idx].RIP = RIP[idx] /\ snap[idx].RIP \in Addr
      /\ status_code[idx] # normal /\ status_code[idx] # un_used
  BY <1>1, PktIsIdx, Zenon
<1>3. /\ status_code'[idx] = PktCode
      /\ \A s \in Slot \ {idx} : status_code'[s] = status_code[s]
  BY <1>2, Zenon DEF StoreStatus, TypeInv, TypeOK, ExeType
<1>7. \A s \in Slot \ {idx} : Same(s)
  BY <1>3, Zenon DEF StoreStatus, Same
<1>4. /\ PktImage \in Image /\ JitLen[PktImage] \in 1 .. BlockBytes
      /\ off \in Nat /\ RestLen \in Nat \ {0} /\ PktLen \in 1 .. RestLen
      /\ off + RestLen = JitLen[PktImage]
  BY <1>1, PktType, Zenon DEF TypeInv, TypeOK
<1>5. CASE RestLen > PktLen
  <2>1. PktCode = un_init
    BY <1>4, <1>5, SizeAssumption DEF PktCode, PktLen
  <2>2. PktLen \in Nat
    BY <1>4
  <2> QED BY <1>1, <1>2, <1>3, <1>4, <1>5, <1>7, <2>1, <2>2, Zenon DEF StoreStatus,
     PktSent
<1>6. CASE ~ (RestLen > PktLen)
  <2>1. PktLen = RestLen /\ off + PktLen = JitLen[PktImage] /\ JitLen[PktImage] \in Nat \ {0}
    BY <1>4, <1>6
  <2>2. PktCode = normal
    BY <1>4, <2>1, SizeAssumption DEF PktCode, PktLen
  <2>3. \A i \in 0 .. off + PktLen - 1 : heap[code_block[idx]][i] = PktImage
    BY <1>1, Zenon DEF WriteInv
  <2>4. \A i \in 0 .. JitLen[PktImage] - 1 : heap[code_block[idx]][i] = PktImage
    <3> TAKE i \in 0 .. JitLen[PktImage] - 1
    <3>1. i \in 0 .. off + PktLen - 1
      BY <1>4, <2>1
    <3> QED BY <2>3, <3>1, Zenon
  <2>5. heap[code_block[idx]][0] = PktImage
    <3>1. 0 \in 0 .. JitLen[PktImage] - 1
      BY <2>1
    <3> QED BY <2>4, <3>1, Zenon
  <2>6. Whole(code_block[idx])
    BY <1>4, <2>4, <2>5, NullAssumption, Zenon DEF Whole
  <2> QED BY <1>1, <1>2, <1>3, <1>6, <1>7, <2>2, <2>5, <2>6, Zenon DEF StoreStatus,
     PktSent, NextEntry
<1> QED BY <1>5, <1>6, Zenon

LEMMA CopyEffect ==
    ASSUME TypeInv, TableInv, SnapInv, WriteInv, StoreCopy
    PROVE  /\ dpc = "copy" /\ dpc' = "mark" /\ idx \in Slot
           /\ status_code[idx] # normal /\ code_block[idx] # 0
           /\ \A b \in Block \ {code_block[idx]} : heap'[b] = heap[b]
           /\ \A i \in 0 .. off + PktLen - 1 : heap'[code_block[idx]][i] = PktImage
           /\ UNCHANGED <<exeVars, nblk, threadVars, idx, snap, off, hist,
                          table, jit, failed>>
<1>1. dpc = "copy"
  BY Zenon DEF StoreCopy
<1>2. /\ PktSlot = idx /\ idx \in Slot /\ status_code[idx] # normal
      /\ code_block[idx] # 0 /\ code_block[idx] \in Block
  BY <1>1, PktIsIdx, Zenon
<1>3. /\ off \in Nat /\ PktLen \in Nat /\ off + PktLen <= BlockBytes
  <2>1. /\ JitLen[PktImage] \in 1 .. BlockBytes
        /\ off \in Nat /\ RestLen \in Nat \ {0} /\ PktLen \in 1 .. RestLen
        /\ off + RestLen = JitLen[PktImage]
    BY <1>1, PktType, Zenon DEF TypeInv, TypeOK
  <2> QED BY <2>1, SizeAssumption
<1>4. heap \in [Block -> [Byte -> Image \cup {Null}]]
  BY Zenon DEF TypeInv, TypeOK, MemType
<1>5. heap'[code_block[idx]] =
          [i \in Byte |-> IF i \in off .. off + PktLen - 1
                          THEN PktImage ELSE heap[code_block[idx]][i]]
  BY <1>2, <1>4, Zenon DEF StoreCopy
<1>6. \A b \in Block \ {code_block[idx]} : heap'[b] = heap[b]
  BY <1>2, <1>4, Zenon DEF StoreCopy
<1>7. ASSUME NEW i \in 0 .. off + PktLen - 1
      PROVE  heap'[code_block[idx]][i] = PktImage
  <2>1. i \in Byte
    BY <1>3, SizeAssumption DEF Byte
  <2>2. CASE i \in 0 .. off - 1
    <3>1. heap[code_block[idx]][i] = PktImage
      BY <1>1, <2>2, Zenon DEF WriteInv
    <3> QED BY <1>5, <2>1, <3>1, Zenon
  <2>3. CASE i \in off .. off + PktLen - 1
    BY <1>5, <2>1, <2>3, Zenon
  <2> QED BY <1>3, <2>2, <2>3
<1> QED BY <1>1, <1>2, <1>6, <1>7, Zenon DEF StoreCopy

(* A packet is always for an entry that is found. *)
LEMMA AlwaysFound == TypeInv /\ TableInv /\ SnapInv => ~ StoreNotFound
BY PktIsIdx, Zenon DEF StoreNotFound

-----------------------------------------------------------------------------
(* What a step leaves alone stays as it should be: one thread, one slot, and
   then a whole invariant. *)

LEMMA SlotsSame ==
    ASSUME UNCHANGED <<status_code, pid, RIP, code_block>>
    PROVE  \A s : Same(s)
BY Zenon DEF Same

LEMMA AddSame ==
    ASSUME TypeInv, NEW u \in Pid, AddOK(u), cand'[u] = cand[u],
           cand[u] # Null => Same(CandSlot(u)),
           pc'[u] \in {"alloc", "publish"} => pc'[u] = pc[u]
    PROVE  AddOK(u)'
<1>1. CandSlot(u)' = CandSlot(u)
  BY Zenon DEF CandSlot, get_exe
<1>2. pc[u] \in {"alloc", "publish"} => cand[u] # Null
  BY Zenon DEF TypeInv, ThreadInv, ThreadOK, InAdd
<1> QED BY <1>1, <1>2, Zenon DEF AddOK, Same

LEMMA ApartSame ==
    ASSUME NEW t \in Pid, NEW u \in Pid, Apart(t, u),
           cand'[t] = cand[t], cand'[u] = cand[u]
    PROVE  Apart(t, u)'
BY Zenon DEF Apart, CandSlot, get_exe

LEMMA SlotSame ==
    ASSUME NEW s \in Slot, SlotOK(s), nblk' = nblk,
           pid'[s] = pid[s], RIP'[s] = RIP[s], code_block'[s] = code_block[s],
           status_code'[s] # un_used => status_code[s] # un_used
    PROVE  SlotOK(s)'
BY Zenon DEF SlotOK, get_exe

LEMMA OwnerSame ==
    ASSUME NEW u \in Pid, OwnerOK(u),
           pc'[u] \in InChain => pc[u] \in InChain /\ exe'[u] = exe[u] /\ Same(exe[u]),
           pc'[u] = "run" =>
               pc[u] = "run" /\ ip'[u] = ip[u] /\ virt_ptr'[u] = virt_ptr[u]
    PROVE  OwnerOK(u)'
BY Zenon DEF OwnerOK, InChain, Same

LEMMA SnapSame ==
    ASSUME NEW s \in Slot, SnapOK(s), snap'[s] = snap[s], UNCHANGED <<idx, dpc>>,
           snap[s] # Null => Same(s)
    PROVE  SnapOK(s)'
<1>1. Writing(s)' = Writing(s)
  BY Zenon DEF Writing
<1> QED BY <1>1, Zenon DEF SnapOK, Same

LEMMA CodeSame ==
    ASSUME NEW s \in Slot, CodeOK(s), failed \subseteq failed',
           status_code'[s] = normal =>
               Same(s) /\ heap'[code_block[s]] = heap[code_block[s]]
    PROVE  CodeOK(s)'
<1> SUFFICES ASSUME status_code'[s] = normal PROVE CodeOK(s)'
  BY Zenon DEF CodeOK
<1>1. /\ status_code[s] = normal /\ RIP'[s] = RIP[s]
      /\ heap'[code_block'[s]] = heap[code_block[s]]
  BY Zenon DEF Same
<1>2. Whole(code_block[s])' = Whole(code_block[s])
  BY <1>1, Zenon DEF Whole
<1> QED BY <1>1, <1>2, Zenon DEF CodeOK

LEMMA AddFrame ==
    ASSUME TypeInv, AddInv, UNCHANGED <<cand, status_code, pid, RIP, code_block>>,
           \A u \in Pid : pc'[u] \in {"alloc", "publish"} => pc'[u] = pc[u]
    PROVE  AddInv'
<1>1. ASSUME NEW u \in Pid PROVE AddOK(u)'
  BY AddSame, SlotsSame, Zenon DEF AddInv
<1>2. ASSUME NEW t \in Pid, NEW u \in Pid, t # u PROVE Apart(t, u)'
  BY <1>2, ApartSame, Zenon DEF AddInv
<1> QED BY <1>1, <1>2, Zenon DEF AddInv

LEMMA TableStays ==
    ASSUME TableInv, UNCHANGED <<pid, RIP, code_block, nblk>>,
           \A s \in Slot : status_code'[s] # un_used => status_code[s] # un_used
    PROVE  TableInv'
<1>1. ASSUME NEW s \in Slot PROVE SlotOK(s)'
  BY SlotSame, Zenon DEF TableInv
<1>2. ASSUME NEW r \in Slot, NEW s \in Slot, r # s PROVE OwnBlock(r, s)'
  BY <1>2, Zenon DEF TableInv, OwnBlock
<1> QED BY <1>1, <1>2, Zenon DEF TableInv

LEMMA OwnerFrame ==
    ASSUME OwnerInv, UNCHANGED <<status_code, pid, RIP, code_block>>,
           \A u \in Pid : pc'[u] \in InChain => pc[u] \in InChain /\ exe'[u] = exe[u],
           \A u \in Pid : pc'[u] = "run" =>
               pc[u] = "run" /\ ip'[u] = ip[u] /\ virt_ptr'[u] = virt_ptr[u]
    PROVE  OwnerInv'
<1>1. ASSUME NEW u \in Pid PROVE OwnerOK(u)'
  BY OwnerSame, SlotsSame, Zenon DEF OwnerInv
<1> QED BY <1>1, Zenon DEF OwnerInv

LEMMA SnapStays ==
    ASSUME SnapInv, UNCHANGED <<snap, idx, dpc>>,
           \A s \in Slot : snap[s] # Null => Same(s)
    PROVE  SnapInv'
<1>1. ASSUME NEW s \in Slot PROVE SnapOK(s)'
  BY SnapSame, Zenon DEF SnapInv
<1> QED BY <1>1, Zenon DEF SnapInv, Wanted

LEMMA WriteFrame ==
    ASSUME WriteInv, UNCHANGED <<dpc, off, idx, snap, jit, heap, code_block>>
    PROVE  WriteInv'
BY Zenon DEF WriteInv, PktImage, PktLen, RestLen

LEMMA CodeStays ==
    ASSUME CodeInv, UNCHANGED <<heap, failed, jit>>,
           \A s \in Slot : status_code'[s] = normal => Same(s)
    PROVE  CodeInv'
<1>1. ASSUME NEW s \in Slot PROVE CodeOK(s)'
  BY CodeSame, Zenon DEF CodeInv
<1>2. ASSUME NEW a \in Addr PROVE DirOK(a)'
  BY Zenon DEF CodeInv, DirOK
<1> QED BY <1>1, <1>2, Zenon DEF CodeInv

LEMMA TableFrame ==
    ASSUME TableInv, UNCHANGED <<status_code, pid, RIP, code_block, nblk>>
    PROVE  TableInv'
BY TableStays, Zenon

LEMMA SnapFrame ==
    ASSUME SnapInv, UNCHANGED <<snap, idx, dpc, status_code, pid, RIP, code_block>>
    PROVE  SnapInv'
BY SnapStays, SlotsSame, Zenon

LEMMA CodeFrame ==
    ASSUME CodeInv,
           UNCHANGED <<heap, failed, jit, status_code, pid, RIP, code_block>>
    PROVE  CodeInv'
BY CodeStays, SlotsSame, Zenon

LEMMA AddStep == TypeInv /\ Safe /\ [Next]_vars /\ ~ raced' => AddInv'
<1> SUFFICES ASSUME TypeInv, Safe, [Next]_vars, ~ raced'
             PROVE  AddInv'
  BY Zenon
<1>0. AddInv /\ TableInv /\ OwnerInv /\ SnapInv /\ WriteInv /\ CodeInv
  BY Zenon DEF Safe
<1> USE DEF exeVars, memVars, threadVars, daemonVars
<1>1. ASSUME NEW t \in Pid, Syscall(t) PROVE AddInv'
  <2>1. \A u \in Pid : pc'[u] \in {"alloc", "publish"} => pc'[u] = pc[u]
    BY <1>1, Zenon DEF Syscall, Goto, TypeInv, TypeOK, ThreadType
  <2> QED BY <1>1, <1>0, <2>1, AddFrame, Zenon DEF Syscall
<1>2. ASSUME NEW t \in Pid, EnterBlock(t) PROVE AddInv'
  <2>1. \A u \in Pid : pc'[u] \in {"alloc", "publish"} => pc'[u] = pc[u]
    BY <1>2, Zenon DEF EnterBlock, Goto, TypeInv, TypeOK, ThreadType
  <2> QED BY <1>2, <1>0, <2>1, AddFrame, Zenon DEF EnterBlock
<1>3. ASSUME NEW t \in Pid, LeaveChain(t) PROVE AddInv'
  <2>1. \A u \in Pid : pc'[u] \in {"alloc", "publish"} => pc'[u] = pc[u]
    BY <1>3, Zenon DEF LeaveChain, Goto, TypeInv, TypeOK, ThreadType
  <2> QED BY <1>3, <1>0, <2>1, AddFrame, Zenon DEF LeaveChain
<1>4. ASSUME NEW t \in Pid, RunToSyscall(t) PROVE AddInv'
  <2>1. \A u \in Pid : pc'[u] \in {"alloc", "publish"} => pc'[u] = pc[u]
    BY <1>4, Zenon DEF RunToSyscall, Goto, TypeInv, TypeOK, ThreadType
  <2> QED BY <1>4, <1>0, <2>1, AddFrame, Zenon DEF RunToSyscall
<1>5. ASSUME NEW t \in Pid, RunToIllegal(t) PROVE AddInv'
  <2>1. \A u \in Pid : pc'[u] \in {"alloc", "publish"} => pc'[u] = pc[u]
    BY <1>5, Zenon DEF RunToIllegal, Goto, TypeInv, TypeOK, ThreadType
  <2> QED BY <1>5, <1>0, <2>1, AddFrame, Zenon DEF RunToIllegal
<1>6. ASSUME NEW t \in Pid, SyscallReturns(t) PROVE AddInv'
  <2>1. \A u \in Pid : pc'[u] \in {"alloc", "publish"} => pc'[u] = pc[u]
    BY <1>6, Zenon DEF SyscallReturns, Goto, TypeInv, TypeOK, ThreadType
  <2> QED BY <1>6, <1>0, <2>1, AddFrame, Zenon DEF SyscallReturns
<1>7. ASSUME NEW t \in Pid, MissIgnored(t) PROVE AddInv'
  <2>1. \A u \in Pid : pc'[u] \in {"alloc", "publish"} => pc'[u] = pc[u]
    BY <1>7, Zenon DEF MissIgnored, Goto, TypeInv, TypeOK, ThreadType
  <2> QED BY <1>7, <1>0, <2>1, AddFrame, Zenon DEF MissIgnored
<1>8. ASSUME NEW t \in Pid, MissTaken(t) PROVE AddInv'
  <2>1. \A u \in Pid : pc'[u] \in {"alloc", "publish"} => pc'[u] = pc[u]
    BY <1>8, Zenon DEF MissTaken, Goto, TypeInv, TypeOK, ThreadType
  <2> QED BY <1>8, <1>0, <2>1, AddFrame, Zenon DEF MissTaken
<1>9. ASSUME NEW t \in Pid, ReportTgt(t) PROVE AddInv'
  <2>1. \A u \in Pid : pc'[u] \in {"alloc", "publish"} => pc'[u] = pc[u]
    BY <1>9, Zenon DEF ReportTgt, Goto, TypeInv, TypeOK, ThreadType
  <2> QED BY <1>9, <1>0, <2>1, AddFrame, Zenon DEF ReportTgt
<1>10. ASSUME NEW t \in Pid, ReportFrom(t) PROVE AddInv'
  <2>1. \A u \in Pid : pc'[u] \in {"alloc", "publish"} => pc'[u] = pc[u]
    BY <1>10, Zenon DEF ReportFrom, Goto, TypeInv, TypeOK, ThreadType
  <2> QED BY <1>10, <1>0, <2>1, AddFrame, Zenon DEF ReportFrom
<1>11. ASSUME NEW t \in Pid, ReportStatus(t) PROVE AddInv'
  <2>0. /\ exe[t] \in Slot /\ status_code[exe[t]] = normal
        /\ status_code'[exe[t]] \in Misses
    BY <1>11, <1>0, ReportEffect, Zenon
  <2>1. /\ \A s \in Slot \ {exe[t]} : Same(s)
        /\ pc'[t] = "lookup" /\ \A u \in Pid \ {t} : pc'[u] = pc[u]
        /\ UNCHANGED <<pid, RIP, code_block, nblk, heap, cand, exe, ip, virt_ptr,
                       snap, dpc, idx, failed, jit>>
    BY <1>11, <1>0, ReportEffect, Zenon
  <2>2. ASSUME NEW u \in Pid PROVE AddOK(u)'
    <3>1. AddOK(u)
      BY <1>0, Zenon DEF AddInv
    <3>3. cand[u] # Null => CandSlot(u) \in Slot /\ status_code[CandSlot(u)] = un_used
      BY <1>0, CandFacts, Zenon
    <3>5. cand[u] # Null => CandSlot(u) # exe[t]
      <4> HIDE DEF normal, un_used, Misses
      <4> QED BY <2>0, <3>3, StatusApart, Zenon
    <3>4. cand[u] # Null => Same(CandSlot(u))
      BY <2>1, <3>3, <3>5, Zenon
    <3>2. pc'[u] \in {"alloc", "publish"} => pc'[u] = pc[u]
      BY <2>1, Zenon
    <3> QED BY <2>1, <3>1, <3>2, <3>4, AddSame, Zenon
  <2>3. ASSUME NEW v \in Pid, NEW u \in Pid, v # u PROVE Apart(v, u)'
    BY <1>0, <2>1, <2>3, ApartSame, Zenon DEF AddInv
  <2> QED BY <2>2, <2>3, Zenon DEF AddInv
<1>12. ASSUME NEW t \in Pid, RunWild(t) PROVE AddInv'
  <2>1. \A u \in Pid : pc'[u] \in {"alloc", "publish"} => pc'[u] = pc[u]
    BY <1>12, Zenon DEF RunWild, Goto, TypeInv, TypeOK, ThreadType
  <2> QED BY <1>12, <1>0, <2>1, AddFrame, Zenon DEF RunWild
<1>13. ASSUME NEW t \in Pid, AddCheck(t) PROVE AddInv'
  <2>1. PICK p \in Pid, a \in Ips :
          /\ status_code[get_exe(p, a)] = un_used
          /\ cand' = [cand EXCEPT ![t] = [pid |-> p, rip |-> a]]
          /\ raced' = (raced \/ \E u \in Pid \ {t} :
                          cand[u] # Null /\ CandSlot(u) = get_exe(p, a))
    BY <1>13, Zenon DEF AddCheck
  <2>2. cand \in [Pid -> Candidate \cup {Null}]
    BY Zenon DEF TypeInv, TypeOK, ThreadType
  <2>3. /\ cand'[t].pid = p /\ cand'[t].rip = a
        /\ \A u \in Pid \ {t} : cand'[u] = cand[u]
    BY <2>1, <2>2, Zenon
  <2>4. /\ CandSlot(t)' = get_exe(p, a)
        /\ \A u \in Pid \ {t} : CandSlot(u)' = CandSlot(u)
    BY <2>3, Zenon DEF CandSlot, get_exe
  <2>5. \A u \in Pid : pc'[u] \in {"alloc", "publish"} => u # t /\ pc'[u] = pc[u]
    BY <1>13, Zenon DEF AddCheck, Goto, TypeInv, TypeOK, ThreadType
  <2>6. UNCHANGED <<status_code, pid, RIP, code_block>>
    BY <1>13, Zenon DEF AddCheck
  <2>7. \A u \in Pid \ {t} : cand[u] # Null => CandSlot(u) # get_exe(p, a)
    BY <2>1, Zenon
  <2>8. ASSUME NEW v \in Pid, NEW u \in Pid, v # u PROVE Apart(v, u)'
    <3>1. CASE v = t
      BY <2>3, <2>4, <2>7, <2>8, <3>1, Zenon DEF Apart
    <3>2. CASE u = t
      BY <2>3, <2>4, <2>7, <2>8, <3>2, Zenon DEF Apart
    <3>3. CASE v # t /\ u # t
      BY <1>0, <2>3, <2>8, <3>3, ApartSame, Zenon DEF AddInv
    <3> QED BY <3>1, <3>2, <3>3, Zenon
  <2>9. ASSUME NEW u \in Pid \ {t} PROVE AddOK(u)'
    <3>1. AddOK(u) /\ cand'[u] = cand[u] /\ Same(CandSlot(u))
      BY <1>0, <2>3, <2>6, SlotsSame, Zenon DEF AddInv
    <3> QED BY <2>5, <3>1, AddSame, Zenon
  <2>10. AddOK(t)'
    BY <2>1, <2>4, <2>5, <2>6, Zenon DEF AddOK
  <2> QED BY <2>8, <2>9, <2>10, Zenon DEF AddInv
<1>14. ASSUME NEW t \in Pid, AddClaim(t) PROVE AddInv'
  <2>0. /\ cand[t] # Null /\ CandSlot(t) \in Slot
        /\ status_code[CandSlot(t)] = un_used
    BY <1>14, <1>0, ClaimEffect, Zenon
  <2>1. /\ \A u \in Pid \ {t} : pc'[u] = pc[u]
        /\ \A u \in Pid \ {t} : cand[u] # Null => CandSlot(u) \in Slot \ {CandSlot(t)}
        /\ \A s \in Slot \ {CandSlot(t)} : Same(s)
        /\ UNCHANGED <<heap, exe, ip, virt_ptr, snap, dpc, idx, failed, jit>>
        /\ pc'[t] = "alloc" /\ UNCHANGED <<cand, status_code>>
        /\ pid'[CandSlot(t)] = cand[t].pid /\ RIP'[CandSlot(t)] = cand[t].rip
        /\ \A u \in Pid : CandSlot(u)' = CandSlot(u)
    BY <1>14, <1>0, ClaimEffect, Zenon
  <2>2. ASSUME NEW u \in Pid \ {t} PROVE AddOK(u)'
    <3>1. AddOK(u) /\ cand'[u] = cand[u] /\ pc'[u] = pc[u]
      BY <1>0, <2>1, Zenon DEF AddInv
    <3>2. cand[u] # Null => Same(CandSlot(u))
      BY <2>1, Zenon
    <3> QED BY <3>1, <3>2, AddSame, Zenon
  <2>3. AddOK(t)'
    BY <2>0, <2>1, Zenon DEF AddOK
  <2>4. ASSUME NEW v \in Pid, NEW u \in Pid, v # u PROVE Apart(v, u)'
    BY <1>0, <2>1, <2>4, Zenon DEF AddInv, Apart
  <2> QED BY <2>2, <2>3, <2>4, Zenon DEF AddInv
<1>15. ASSUME NEW t \in Pid, AddBlock(t) PROVE AddInv'
  <2>0. /\ cand[t] # Null /\ CandSlot(t) \in Slot
        /\ status_code[CandSlot(t)] = un_used
    BY <1>15, <1>0, BlockEffect, Zenon
  <2>1. /\ \A u \in Pid \ {t} : pc'[u] = pc[u]
        /\ \A u \in Pid \ {t} : cand[u] # Null => CandSlot(u) \in Slot \ {CandSlot(t)}
        /\ \A s \in Slot \ {CandSlot(t)} : Same(s)
        /\ UNCHANGED <<heap, exe, ip, virt_ptr, snap, dpc, idx, failed, jit>>
        /\ pc'[t] = "publish" /\ UNCHANGED <<cand, status_code, pid, RIP>>
        /\ nblk \in Nat /\ code_block'[CandSlot(t)] = nblk + 1
        /\ \A u \in Pid : CandSlot(u)' = CandSlot(u)
    BY <1>15, <1>0, BlockEffect, Zenon
  <2>2. ASSUME NEW u \in Pid \ {t} PROVE AddOK(u)'
    <3>1. AddOK(u) /\ cand'[u] = cand[u] /\ pc'[u] = pc[u]
      BY <1>0, <2>1, Zenon DEF AddInv
    <3>2. cand[u] # Null => Same(CandSlot(u))
      BY <2>1, Zenon
    <3> QED BY <3>1, <3>2, AddSame, Zenon
  <2>3. AddOK(t)'
    <3>1. pid[CandSlot(t)] = cand[t].pid /\ RIP[CandSlot(t)] = cand[t].rip
      BY <1>15, <1>0, Zenon DEF AddBlock, Goto, AddInv, AddOK
    <3>2. code_block'[CandSlot(t)] # 0
      BY <2>1, NextBlock, Zenon
    <3> QED BY <2>0, <2>1, <3>1, <3>2, Zenon DEF AddOK
  <2>4. ASSUME NEW v \in Pid, NEW u \in Pid, v # u PROVE Apart(v, u)'
    BY <1>0, <2>1, <2>4, Zenon DEF AddInv, Apart
  <2> QED BY <2>2, <2>3, <2>4, Zenon DEF AddInv
<1>16. ASSUME NEW t \in Pid, AddPublish(t) PROVE AddInv'
  <2>0. /\ cand[t] # Null /\ CandSlot(t) \in Slot
        /\ status_code[CandSlot(t)] = un_used
    BY <1>16, <1>0, PublishEffect, Zenon
  <2>1. /\ \A u \in Pid \ {t} : pc'[u] = pc[u]
        /\ \A u \in Pid \ {t} : cand[u] # Null => CandSlot(u) \in Slot \ {CandSlot(t)}
        /\ \A s \in Slot \ {CandSlot(t)} : Same(s)
        /\ UNCHANGED <<heap, exe, ip, virt_ptr, snap, dpc, idx, failed, jit>>
        /\ pc'[t] = "stat" /\ cand'[t] = Null
        /\ \A u \in Pid \ {t} : cand'[u] = cand[u] /\ CandSlot(u)' = CandSlot(u)
    BY <1>16, <1>0, PublishEffect, Zenon
  <2>2. ASSUME NEW u \in Pid \ {t} PROVE AddOK(u)'
    <3>1. AddOK(u) /\ cand'[u] = cand[u] /\ pc'[u] = pc[u]
      BY <1>0, <2>1, Zenon DEF AddInv
    <3>2. cand[u] # Null => Same(CandSlot(u))
      BY <2>1, Zenon
    <3> QED BY <3>1, <3>2, AddSame, Zenon
  <2>3. AddOK(t)'
    BY <2>0, <2>1, Zenon DEF AddOK
  <2>4. ASSUME NEW v \in Pid, NEW u \in Pid, v # u PROVE Apart(v, u)'
    BY <1>0, <2>1, <2>4, Zenon DEF AddInv, Apart
  <2> QED BY <2>2, <2>3, <2>4, Zenon DEF AddInv
<1>17. ASSUME NEW t \in Pid, ReturnToUser(t) PROVE AddInv'
  <2>1. \A u \in Pid : pc'[u] \in {"alloc", "publish"} => pc'[u] = pc[u]
    BY <1>17, Zenon DEF ReturnToUser, Goto, TypeInv, TypeOK, ThreadType
  <2> QED BY <1>17, <1>0, <2>1, AddFrame, Zenon DEF ReturnToUser
<1>18. CASE ShowSkip
  BY <1>18, <1>0, AddFrame, Zenon DEF ShowSkip
<1>19. CASE ShowHead
  BY <1>19, <1>0, AddFrame, Zenon DEF ShowHead
<1>20. CASE ShowTail
  BY <1>20, <1>0, AddFrame, Zenon DEF ShowTail
<1>21. CASE ShowEnd
  BY <1>21, <1>0, AddFrame, Zenon DEF ShowEnd
<1>22. CASE CheckSkip
  BY <1>22, <1>0, AddFrame, Zenon DEF CheckSkip
<1>23. CASE CheckSaved
  BY <1>23, <1>0, AddFrame, Zenon DEF CheckSaved
<1>24. CASE CheckInit
  BY <1>24, <1>0, AddFrame, Zenon DEF CheckInit
<1>25. CASE CheckMiss
  BY <1>25, <1>0, AddFrame, Zenon DEF CheckMiss
<1>26. CASE CheckNoDir
  BY <1>26, <1>0, AddFrame, Zenon DEF CheckNoDir
<1>27. CASE CheckEnd
  BY <1>27, <1>0, AddFrame, Zenon DEF CheckEnd
<1>28. CASE StoreCopy
  BY <1>28, <1>0, AddFrame, Zenon DEF StoreCopy
<1>29. CASE StoreStatus
  <2>0. /\ idx \in Slot /\ status_code[idx] # normal /\ status_code[idx] # un_used
        /\ status_code'[idx] \in {un_init, normal}
    BY <1>29, <1>0, StoreEffect, Zenon
  <2>1. /\ \A s \in Slot \ {idx} : Same(s)
        /\ UNCHANGED <<pid, RIP, code_block, nblk, pc, cand, exe, ip, virt_ptr>>
    BY <1>29, <1>0, StoreEffect, Zenon
  <2>2. ASSUME NEW u \in Pid PROVE AddOK(u)'
    <3>1. AddOK(u)
      BY <1>0, Zenon DEF AddInv
    <3>3. cand[u] # Null => CandSlot(u) \in Slot /\ status_code[CandSlot(u)] = un_used
      BY <1>0, CandFacts, Zenon
    <3>5. cand[u] # Null => CandSlot(u) # idx
      BY <2>0, <3>3, Zenon
    <3>4. cand[u] # Null => Same(CandSlot(u))
      BY <2>1, <3>3, <3>5, Zenon
    <3>2. pc'[u] \in {"alloc", "publish"} => pc'[u] = pc[u]
      BY <2>1, Zenon
    <3> QED BY <2>1, <3>1, <3>2, <3>4, AddSame, Zenon
  <2>3. ASSUME NEW v \in Pid, NEW u \in Pid, v # u PROVE Apart(v, u)'
    BY <1>0, <2>1, <2>3, ApartSame, Zenon DEF AddInv
  <2> QED BY <2>2, <2>3, Zenon DEF AddInv
<1>30. CASE StoreNotFound
  BY <1>30, <1>0, AddFrame, Zenon DEF StoreNotFound
<1>31. CASE Restart
  BY <1>31, <1>0, AddFrame, Zenon DEF Restart
<1>32. CASE UNCHANGED vars
  BY <1>32, <1>0, AddFrame, Zenon DEF vars
<1>33. ASSUME NEW t \in Pid, AddReload(t) PROVE AddInv'
  BY <1>33, <1>0, AddFrame, Zenon DEF AddReload
<1> QED
  BY <1>1, <1>2, <1>3, <1>4, <1>5, <1>6, <1>7, <1>8, <1>9, <1>10, <1>11, <1>12,
     <1>13, <1>14, <1>15, <1>16, <1>17, <1>18, <1>19, <1>20, <1>21, <1>22,
     <1>23, <1>24, <1>25, <1>26, <1>27, <1>28, <1>29, <1>30, <1>31, <1>32,
     <1>33, Zenon
  DEF Next, Thread, exe_on_call, exe_add, Daemon, sysfs_show, check, sysfs_store

LEMMA TableStep == TypeInv /\ Safe /\ [Next]_vars /\ ~ raced' => TableInv'
<1> SUFFICES ASSUME TypeInv, Safe, [Next]_vars, ~ raced'
             PROVE  TableInv'
  BY Zenon
<1>0. AddInv /\ TableInv /\ OwnerInv /\ SnapInv /\ WriteInv /\ CodeInv
  BY Zenon DEF Safe
<1> USE DEF exeVars, memVars, threadVars, daemonVars
<1>1. ASSUME NEW t \in Pid, Syscall(t) PROVE TableInv'
  BY <1>1, <1>0, TableFrame, Zenon DEF Syscall
<1>2. ASSUME NEW t \in Pid, EnterBlock(t) PROVE TableInv'
  BY <1>2, <1>0, TableFrame, Zenon DEF EnterBlock
<1>3. ASSUME NEW t \in Pid, LeaveChain(t) PROVE TableInv'
  BY <1>3, <1>0, TableFrame, Zenon DEF LeaveChain
<1>4. ASSUME NEW t \in Pid, RunToSyscall(t) PROVE TableInv'
  BY <1>4, <1>0, TableFrame, Zenon DEF RunToSyscall
<1>5. ASSUME NEW t \in Pid, RunToIllegal(t) PROVE TableInv'
  BY <1>5, <1>0, TableFrame, Zenon DEF RunToIllegal
<1>6. ASSUME NEW t \in Pid, SyscallReturns(t) PROVE TableInv'
  BY <1>6, <1>0, TableFrame, Zenon DEF SyscallReturns
<1>7. ASSUME NEW t \in Pid, MissIgnored(t) PROVE TableInv'
  BY <1>7, <1>0, TableFrame, Zenon DEF MissIgnored
<1>8. ASSUME NEW t \in Pid, MissTaken(t) PROVE TableInv'
  BY <1>8, <1>0, TableFrame, Zenon DEF MissTaken
<1>9. ASSUME NEW t \in Pid, ReportTgt(t) PROVE TableInv'
  BY <1>9, <1>0, TableFrame, Zenon DEF ReportTgt
<1>10. ASSUME NEW t \in Pid, ReportFrom(t) PROVE TableInv'
  BY <1>10, <1>0, TableFrame, Zenon DEF ReportFrom
<1>11. ASSUME NEW t \in Pid, ReportStatus(t) PROVE TableInv'
  <2>0. /\ exe[t] \in Slot /\ status_code[exe[t]] = normal
        /\ status_code'[exe[t]] \in Misses
    BY <1>11, <1>0, ReportEffect, Zenon
  <2>1. /\ \A s \in Slot \ {exe[t]} : Same(s)
        /\ pc'[t] = "lookup" /\ \A u \in Pid \ {t} : pc'[u] = pc[u]
        /\ UNCHANGED <<pid, RIP, code_block, nblk, heap, cand, exe, ip, virt_ptr,
                       snap, dpc, idx, failed, jit>>
    BY <1>11, <1>0, ReportEffect, Zenon
  <2>2. ASSUME NEW s \in Slot PROVE status_code'[s] # un_used => status_code[s] # un_used
    <3>1. CASE s = exe[t]
      BY <2>0, <3>1
    <3>2. CASE s # exe[t]
      BY <2>1, <3>2, Zenon DEF Same
    <3> QED BY <3>1, <3>2, Zenon
  <2> QED BY <1>0, <2>1, <2>2, TableStays, Zenon
<1>12. ASSUME NEW t \in Pid, RunWild(t) PROVE TableInv'
  BY <1>12, <1>0, TableFrame, Zenon DEF RunWild
<1>13. ASSUME NEW t \in Pid, AddCheck(t) PROVE TableInv'
  BY <1>13, <1>0, TableFrame, Zenon DEF AddCheck
<1>14. ASSUME NEW t \in Pid, AddClaim(t) PROVE TableInv'
  <2>0. /\ cand[t] # Null /\ CandSlot(t) \in Slot
        /\ status_code[CandSlot(t)] = un_used
    BY <1>14, <1>0, ClaimEffect, Zenon
  <2>1. /\ \A u \in Pid \ {t} : pc'[u] = pc[u]
        /\ \A u \in Pid \ {t} : cand[u] # Null => CandSlot(u) \in Slot \ {CandSlot(t)}
        /\ \A s \in Slot \ {CandSlot(t)} : Same(s)
        /\ UNCHANGED <<heap, exe, ip, virt_ptr, snap, dpc, idx, failed, jit>>
        /\ UNCHANGED <<status_code, code_block, nblk>>
    BY <1>14, <1>0, ClaimEffect, Zenon
  <2>2. ASSUME NEW s \in Slot \ {CandSlot(t)} PROVE SlotOK(s)'
    BY <1>0, <2>1, SlotSame, Zenon DEF TableInv, Same
  <2>3. ASSUME NEW s \in Slot, s = CandSlot(t) PROVE SlotOK(s)'
    <3>1. SlotOK(s) /\ status_code'[s] = un_used /\ code_block'[s] = code_block[s]
      BY <1>0, <2>0, <2>1, <2>3, Zenon DEF TableInv
    <3> QED BY <2>1, <3>1, Zenon DEF SlotOK
  <2>4. ASSUME NEW r \in Slot, NEW s \in Slot, r # s PROVE OwnBlock(r, s)'
    BY <1>0, <2>1, <2>4, Zenon DEF TableInv, OwnBlock
  <2> QED BY <2>2, <2>3, <2>4, Zenon DEF TableInv
<1>15. ASSUME NEW t \in Pid, AddBlock(t) PROVE TableInv'
  <2>0. /\ cand[t] # Null /\ CandSlot(t) \in Slot
        /\ status_code[CandSlot(t)] = un_used
    BY <1>15, <1>0, BlockEffect, Zenon
  <2>1. /\ \A u \in Pid \ {t} : pc'[u] = pc[u]
        /\ \A u \in Pid \ {t} : cand[u] # Null => CandSlot(u) \in Slot \ {CandSlot(t)}
        /\ \A s \in Slot \ {CandSlot(t)} : Same(s)
        /\ UNCHANGED <<heap, exe, ip, virt_ptr, snap, dpc, idx, failed, jit>>
    BY <1>15, <1>0, BlockEffect, Zenon
  <2>2. /\ nblk \in Nat /\ nblk' = nblk + 1 /\ code_block'[CandSlot(t)] = nblk'
        /\ status_code' = status_code
    BY <1>15, <1>0, BlockEffect, Zenon
  <2>3. \A s \in Slot : code_block[s] \in Nat /\ code_block[s] <= nblk
    BY <1>15, <1>0, BlockEffect, Zenon DEF TableInv, SlotOK
  <2>4. ASSUME NEW s \in Slot \ {CandSlot(t)} PROVE SlotOK(s)' /\ code_block'[s] # nblk'
    <3>1. SlotOK(s)
      BY <1>0, Zenon DEF TableInv
    <3>2. pid'[s] = pid[s] /\ RIP'[s] = RIP[s] /\ code_block'[s] = code_block[s]
      BY <2>1, Zenon DEF Same
    <3>3. code_block[s] <= nblk' /\ code_block[s] # nblk'
      <4>1. code_block[s] \in Nat /\ code_block[s] <= nblk
        BY <2>3, Zenon
      <4>2. code_block[s] <= nblk + 1 /\ code_block[s] # nblk + 1
        BY <2>2, <4>1, BelowNext, Zenon
      <4> QED BY <2>2, <4>2, Zenon
    <3> QED BY <2>2, <3>1, <3>2, <3>3, Zenon DEF SlotOK, get_exe
  <2>5. ASSUME NEW s \in Slot, s = CandSlot(t) PROVE SlotOK(s)'
    <3>1. status_code'[s] = un_used
      BY <2>0, <2>2, <2>5, Zenon
    <3>2. code_block'[s] <= nblk'
      BY <2>2, <2>5
    <3> QED BY <3>1, <3>2, Zenon DEF SlotOK
  <2>6. ASSUME NEW r \in Slot, NEW s \in Slot, r # s PROVE OwnBlock(r, s)'
    <3>1. CASE r = CandSlot(t) \/ s = CandSlot(t)
      <4>1. code_block'[r] # code_block'[s]
        BY <2>2, <2>4, <2>6, <3>1, Zenon
      <4> QED BY <4>1, Zenon DEF OwnBlock
    <3>2. CASE r # CandSlot(t) /\ s # CandSlot(t)
      <4>1. OwnBlock(r, s) /\ Same(r) /\ Same(s)
        BY <1>0, <2>1, <2>6, <3>2, Zenon DEF TableInv
      <4> QED BY <4>1, Zenon DEF OwnBlock, Same
    <3> QED BY <3>1, <3>2, Zenon
  <2> QED BY <2>4, <2>5, <2>6, Zenon DEF TableInv
<1>16. ASSUME NEW t \in Pid, AddPublish(t) PROVE TableInv'
  <2>0. /\ cand[t] # Null /\ CandSlot(t) \in Slot
        /\ status_code[CandSlot(t)] = un_used
    BY <1>16, <1>0, PublishEffect, Zenon
  <2>1. /\ \A u \in Pid \ {t} : pc'[u] = pc[u]
        /\ \A u \in Pid \ {t} : cand[u] # Null => CandSlot(u) \in Slot \ {CandSlot(t)}
        /\ \A s \in Slot \ {CandSlot(t)} : Same(s)
        /\ UNCHANGED <<heap, exe, ip, virt_ptr, snap, dpc, idx, failed, jit>>
        /\ UNCHANGED <<pid, RIP, code_block, nblk>>
    BY <1>16, <1>0, PublishEffect, Zenon
  <2>2. ASSUME NEW s \in Slot \ {CandSlot(t)} PROVE SlotOK(s)'
    BY <1>0, <2>1, SlotSame, Zenon DEF TableInv, Same
  <2>3. ASSUME NEW s \in Slot, s = CandSlot(t) PROVE SlotOK(s)'
    <3>1. get_exe(pid[s], RIP[s]) = s /\ code_block[s] # 0
      BY <1>16, <1>0, <2>3, Zenon DEF AddPublish, Goto, AddInv, AddOK, CandSlot
    <3>2. code_block[s] <= nblk
      BY <1>0, Zenon DEF TableInv, SlotOK
    <3> QED BY <2>1, <3>1, <3>2, Zenon DEF SlotOK, get_exe
  <2>4. ASSUME NEW r \in Slot, NEW s \in Slot, r # s PROVE OwnBlock(r, s)'
    BY <1>0, <2>1, <2>4, Zenon DEF TableInv, OwnBlock
  <2> QED BY <2>2, <2>3, <2>4, Zenon DEF TableInv
<1>17. ASSUME NEW t \in Pid, ReturnToUser(t) PROVE TableInv'
  BY <1>17, <1>0, TableFrame, Zenon DEF ReturnToUser
<1>18. CASE ShowSkip
  BY <1>18, <1>0, TableFrame, Zenon DEF ShowSkip
<1>19. CASE ShowHead
  BY <1>19, <1>0, TableFrame, Zenon DEF ShowHead
<1>20. CASE ShowTail
  BY <1>20, <1>0, TableFrame, Zenon DEF ShowTail
<1>21. CASE ShowEnd
  BY <1>21, <1>0, TableFrame, Zenon DEF ShowEnd
<1>22. CASE CheckSkip
  BY <1>22, <1>0, TableFrame, Zenon DEF CheckSkip
<1>23. CASE CheckSaved
  BY <1>23, <1>0, TableFrame, Zenon DEF CheckSaved
<1>24. CASE CheckInit
  BY <1>24, <1>0, TableFrame, Zenon DEF CheckInit
<1>25. CASE CheckMiss
  BY <1>25, <1>0, TableFrame, Zenon DEF CheckMiss
<1>26. CASE CheckNoDir
  BY <1>26, <1>0, TableFrame, Zenon DEF CheckNoDir
<1>27. CASE CheckEnd
  BY <1>27, <1>0, TableFrame, Zenon DEF CheckEnd
<1>28. CASE StoreCopy
  BY <1>28, <1>0, TableFrame, Zenon DEF StoreCopy
<1>29. CASE StoreStatus
  <2>0. /\ idx \in Slot /\ status_code[idx] # normal /\ status_code[idx] # un_used
        /\ status_code'[idx] \in {un_init, normal}
    BY <1>29, <1>0, StoreEffect, Zenon
  <2>1. /\ \A s \in Slot \ {idx} : Same(s)
        /\ UNCHANGED <<pid, RIP, code_block, nblk, pc, cand, exe, ip, virt_ptr>>
    BY <1>29, <1>0, StoreEffect, Zenon
  <2>2. ASSUME NEW s \in Slot PROVE status_code'[s] # un_used => status_code[s] # un_used
    <3>1. CASE s = idx
      BY <2>0, <3>1, Zenon
    <3>2. CASE s # idx
      BY <2>1, <3>2, Zenon DEF Same
    <3> QED BY <3>1, <3>2, Zenon
  <2> QED BY <1>0, <2>1, <2>2, TableStays, Zenon
<1>30. CASE StoreNotFound
  BY <1>30, <1>0, TableFrame, Zenon DEF StoreNotFound
<1>31. CASE Restart
  BY <1>31, <1>0, TableFrame, Zenon DEF Restart
<1>32. CASE UNCHANGED vars
  BY <1>32, <1>0, TableFrame, Zenon DEF vars
<1>33. ASSUME NEW t \in Pid, AddReload(t) PROVE TableInv'
  BY <1>33, <1>0, TableFrame, Zenon DEF AddReload
<1> QED
  BY <1>1, <1>2, <1>3, <1>4, <1>5, <1>6, <1>7, <1>8, <1>9, <1>10, <1>11, <1>12,
     <1>13, <1>14, <1>15, <1>16, <1>17, <1>18, <1>19, <1>20, <1>21, <1>22,
     <1>23, <1>24, <1>25, <1>26, <1>27, <1>28, <1>29, <1>30, <1>31, <1>32,
     <1>33, Zenon
  DEF Next, Thread, exe_on_call, exe_add, Daemon, sysfs_show, check, sysfs_store

LEMMA OwnerStep == TypeInv /\ Safe /\ [Next]_vars /\ ~ raced' => OwnerInv'
<1> SUFFICES ASSUME TypeInv, Safe, [Next]_vars, ~ raced'
             PROVE  OwnerInv'
  BY Zenon
<1>0. AddInv /\ TableInv /\ OwnerInv /\ SnapInv /\ WriteInv /\ CodeInv
  BY Zenon DEF Safe
<1> USE DEF exeVars, memVars, threadVars, daemonVars
<1>1. ASSUME NEW t \in Pid, Syscall(t) PROVE OwnerInv'
  <2>1. /\ \A u \in Pid : pc'[u] \in InChain => pc[u] \in InChain /\ exe'[u] = exe[u]
        /\ \A u \in Pid : pc'[u] = "run" =>
              pc[u] = "run" /\ ip'[u] = ip[u] /\ virt_ptr'[u] = virt_ptr[u]
    BY <1>1, Zenon DEF Syscall, Goto, TypeInv, TypeOK, ThreadType, InChain
  <2> QED BY <1>1, <1>0, <2>1, OwnerFrame, Zenon DEF Syscall
<1>2. ASSUME NEW t \in Pid, EnterBlock(t) PROVE OwnerInv'
  <2>1. /\ exe'[t] = get_exe(t, ip[t]) /\ virt_ptr'[t] = code_block[exe'[t]]
        /\ status_code[exe'[t]] = normal /\ RIP[exe'[t]] = ip[t] /\ pid[exe'[t]] = t
        /\ UNCHANGED <<status_code, pid, RIP, code_block, ip>>
        /\ \A u \in Pid \ {t} : pc'[u] = pc[u] /\ exe'[u] = exe[u] /\ virt_ptr'[u] = virt_ptr[u]
    BY <1>2, Zenon DEF EnterBlock, Goto, Boosted, TypeInv, TypeOK, ThreadType
  <2>2. OwnerOK(t)'
    BY <2>1, Zenon DEF OwnerOK
  <2>3. ASSUME NEW u \in Pid \ {t} PROVE OwnerOK(u)'
    <3>1. OwnerOK(u) /\ Same(exe[u])
      BY <1>0, <2>1, SlotsSame, Zenon DEF OwnerInv
    <3> QED BY <2>1, <3>1, OwnerSame, Zenon
  <2> QED BY <2>2, <2>3, Zenon DEF OwnerInv
<1>3. ASSUME NEW t \in Pid, LeaveChain(t) PROVE OwnerInv'
  <2>1. /\ \A u \in Pid : pc'[u] \in InChain => pc[u] \in InChain /\ exe'[u] = exe[u]
        /\ \A u \in Pid : pc'[u] = "run" =>
              pc[u] = "run" /\ ip'[u] = ip[u] /\ virt_ptr'[u] = virt_ptr[u]
    BY <1>3, Zenon DEF LeaveChain, Goto, TypeInv, TypeOK, ThreadType, InChain
  <2> QED BY <1>3, <1>0, <2>1, OwnerFrame, Zenon DEF LeaveChain
<1>4. ASSUME NEW t \in Pid, RunToSyscall(t) PROVE OwnerInv'
  <2>1. /\ \A u \in Pid : pc'[u] \in InChain => pc[u] \in InChain /\ exe'[u] = exe[u]
        /\ \A u \in Pid : pc'[u] = "run" =>
              pc[u] = "run" /\ ip'[u] = ip[u] /\ virt_ptr'[u] = virt_ptr[u]
    BY <1>4, Zenon DEF RunToSyscall, Goto, TypeInv, TypeOK, ThreadType, InChain
  <2> QED BY <1>4, <1>0, <2>1, OwnerFrame, Zenon DEF RunToSyscall
<1>5. ASSUME NEW t \in Pid, RunToIllegal(t) PROVE OwnerInv'
  <2>1. /\ \A u \in Pid : pc'[u] \in InChain => pc[u] \in InChain /\ exe'[u] = exe[u]
        /\ \A u \in Pid : pc'[u] = "run" =>
              pc[u] = "run" /\ ip'[u] = ip[u] /\ virt_ptr'[u] = virt_ptr[u]
    BY <1>5, Zenon DEF RunToIllegal, Goto, TypeInv, TypeOK, ThreadType, InChain
  <2> QED BY <1>5, <1>0, <2>1, OwnerFrame, Zenon DEF RunToIllegal
<1>6. ASSUME NEW t \in Pid, SyscallReturns(t) PROVE OwnerInv'
  <2>1. /\ \A u \in Pid : pc'[u] \in InChain => pc[u] \in InChain /\ exe'[u] = exe[u]
        /\ \A u \in Pid : pc'[u] = "run" =>
              pc[u] = "run" /\ ip'[u] = ip[u] /\ virt_ptr'[u] = virt_ptr[u]
    BY <1>6, Zenon DEF SyscallReturns, Goto, TypeInv, TypeOK, ThreadType, InChain
  <2> QED BY <1>6, <1>0, <2>1, OwnerFrame, Zenon DEF SyscallReturns
<1>7. ASSUME NEW t \in Pid, MissIgnored(t) PROVE OwnerInv'
  <2>1. /\ \A u \in Pid : pc'[u] \in InChain => pc[u] \in InChain /\ exe'[u] = exe[u]
        /\ \A u \in Pid : pc'[u] = "run" =>
              pc[u] = "run" /\ ip'[u] = ip[u] /\ virt_ptr'[u] = virt_ptr[u]
    BY <1>7, Zenon DEF MissIgnored, Goto, TypeInv, TypeOK, ThreadType, InChain
  <2> QED BY <1>7, <1>0, <2>1, OwnerFrame, Zenon DEF MissIgnored
<1>8. ASSUME NEW t \in Pid, MissTaken(t) PROVE OwnerInv'
  <2>1. /\ \A u \in Pid : pc'[u] \in InChain => pc[u] \in InChain /\ exe'[u] = exe[u]
        /\ \A u \in Pid : pc'[u] = "run" =>
              pc[u] = "run" /\ ip'[u] = ip[u] /\ virt_ptr'[u] = virt_ptr[u]
    BY <1>8, Zenon DEF MissTaken, Goto, TypeInv, TypeOK, ThreadType, InChain
  <2> QED BY <1>8, <1>0, <2>1, OwnerFrame, Zenon DEF MissTaken
<1>9. ASSUME NEW t \in Pid, ReportTgt(t) PROVE OwnerInv'
  <2>1. /\ \A u \in Pid : pc'[u] \in InChain => pc[u] \in InChain /\ exe'[u] = exe[u]
        /\ \A u \in Pid : pc'[u] = "run" =>
              pc[u] = "run" /\ ip'[u] = ip[u] /\ virt_ptr'[u] = virt_ptr[u]
    BY <1>9, Zenon DEF ReportTgt, Goto, TypeInv, TypeOK, ThreadType, InChain
  <2> QED BY <1>9, <1>0, <2>1, OwnerFrame, Zenon DEF ReportTgt
<1>10. ASSUME NEW t \in Pid, ReportFrom(t) PROVE OwnerInv'
  <2>1. /\ \A u \in Pid : pc'[u] \in InChain => pc[u] \in InChain /\ exe'[u] = exe[u]
        /\ \A u \in Pid : pc'[u] = "run" =>
              pc[u] = "run" /\ ip'[u] = ip[u] /\ virt_ptr'[u] = virt_ptr[u]
    BY <1>10, Zenon DEF ReportFrom, Goto, TypeInv, TypeOK, ThreadType, InChain
  <2> QED BY <1>10, <1>0, <2>1, OwnerFrame, Zenon DEF ReportFrom
<1>11. ASSUME NEW t \in Pid, ReportStatus(t) PROVE OwnerInv'
  <2>0. /\ exe[t] \in Slot /\ status_code[exe[t]] = normal
        /\ status_code'[exe[t]] \in Misses
    BY <1>11, <1>0, ReportEffect, Zenon
  <2>1. /\ \A s \in Slot \ {exe[t]} : Same(s)
        /\ pc'[t] = "lookup" /\ \A u \in Pid \ {t} : pc'[u] = pc[u]
        /\ UNCHANGED <<pid, RIP, code_block, nblk, heap, cand, exe, ip, virt_ptr,
                       snap, dpc, idx, failed, jit>>
    BY <1>11, <1>0, ReportEffect, Zenon
  <2>2. ASSUME NEW u \in Pid PROVE OwnerOK(u)'
    <3>1. pc'[u] \in InChain => u # t /\ pc[u] \in InChain /\ pc'[u] = pc[u]
      BY <2>1, Zenon DEF InChain
    <3>2. pc'[u] \in InChain => exe[u] \in Slot /\ pid[exe[u]] = u
      BY <1>0, <3>1, OwnFacts, Zenon
    <3>3. pid[exe[t]] = t
      BY <1>11, <1>0, ReportEffect, Zenon
    <3>4. pc'[u] \in InChain => Same(exe[u])
      BY <2>1, <3>1, <3>2, <3>3, Zenon
    <3>5. OwnerOK(u)
      BY <1>0, Zenon DEF OwnerInv
    <3> QED BY <2>1, <3>1, <3>4, <3>5, OwnerSame, Zenon DEF InChain
  <2> QED BY <2>2, Zenon DEF OwnerInv
<1>12. ASSUME NEW t \in Pid, RunWild(t) PROVE OwnerInv'
  <2>1. /\ \A u \in Pid : pc'[u] \in InChain => pc[u] \in InChain /\ exe'[u] = exe[u]
        /\ \A u \in Pid : pc'[u] = "run" =>
              pc[u] = "run" /\ ip'[u] = ip[u] /\ virt_ptr'[u] = virt_ptr[u]
    BY <1>12, Zenon DEF RunWild, Goto, TypeInv, TypeOK, ThreadType, InChain
  <2> QED BY <1>12, <1>0, <2>1, OwnerFrame, Zenon DEF RunWild
<1>13. ASSUME NEW t \in Pid, AddCheck(t) PROVE OwnerInv'
  <2>1. /\ \A u \in Pid : pc'[u] \in InChain => pc[u] \in InChain /\ exe'[u] = exe[u]
        /\ \A u \in Pid : pc'[u] = "run" =>
              pc[u] = "run" /\ ip'[u] = ip[u] /\ virt_ptr'[u] = virt_ptr[u]
    BY <1>13, Zenon DEF AddCheck, Goto, TypeInv, TypeOK, ThreadType, InChain
  <2> QED BY <1>13, <1>0, <2>1, OwnerFrame, Zenon DEF AddCheck
<1>14. ASSUME NEW t \in Pid, AddClaim(t) PROVE OwnerInv'
  <2>0. /\ cand[t] # Null /\ CandSlot(t) \in Slot
        /\ status_code[CandSlot(t)] = un_used
    BY <1>14, <1>0, ClaimEffect, Zenon
  <2>1. /\ \A u \in Pid \ {t} : pc'[u] = pc[u]
        /\ \A u \in Pid \ {t} : cand[u] # Null => CandSlot(u) \in Slot \ {CandSlot(t)}
        /\ \A s \in Slot \ {CandSlot(t)} : Same(s)
        /\ UNCHANGED <<heap, exe, ip, virt_ptr, snap, dpc, idx, failed, jit>>
        /\ pc'[t] = "alloc"
    BY <1>14, <1>0, ClaimEffect, Zenon
  <2>2. ASSUME NEW u \in Pid PROVE OwnerOK(u)'
    <3>1. pc'[u] \in InChain => pc[u] \in InChain /\ pc'[u] = pc[u]
      BY <2>1, Zenon DEF InChain
    <3>2. ASSUME pc[u] \in InChain PROVE exe[u] \in Slot \ {CandSlot(t)}
      <4>1. exe[u] \in Slot /\ status_code[exe[u]] = normal
        BY <1>0, <3>2, OwnFacts, Zenon
      <4>2. exe[u] # CandSlot(t)
        BY <2>0, <4>1
      <4> QED BY <4>1, <4>2, Zenon
    <3>3. pc'[u] \in InChain => Same(exe[u])
      BY <2>1, <3>1, <3>2, Zenon
    <3>4. OwnerOK(u)
      BY <1>0, Zenon DEF OwnerInv
    <3> QED BY <2>1, <3>1, <3>3, <3>4, OwnerSame, Zenon DEF InChain
  <2> QED BY <2>2, Zenon DEF OwnerInv
<1>15. ASSUME NEW t \in Pid, AddBlock(t) PROVE OwnerInv'
  <2>0. /\ cand[t] # Null /\ CandSlot(t) \in Slot
        /\ status_code[CandSlot(t)] = un_used
    BY <1>15, <1>0, BlockEffect, Zenon
  <2>1. /\ \A u \in Pid \ {t} : pc'[u] = pc[u]
        /\ \A u \in Pid \ {t} : cand[u] # Null => CandSlot(u) \in Slot \ {CandSlot(t)}
        /\ \A s \in Slot \ {CandSlot(t)} : Same(s)
        /\ UNCHANGED <<heap, exe, ip, virt_ptr, snap, dpc, idx, failed, jit>>
        /\ pc'[t] = "publish"
    BY <1>15, <1>0, BlockEffect, Zenon
  <2>2. ASSUME NEW u \in Pid PROVE OwnerOK(u)'
    <3>1. pc'[u] \in InChain => pc[u] \in InChain /\ pc'[u] = pc[u]
      BY <2>1, Zenon DEF InChain
    <3>2. ASSUME pc[u] \in InChain PROVE exe[u] \in Slot \ {CandSlot(t)}
      <4>1. exe[u] \in Slot /\ status_code[exe[u]] = normal
        BY <1>0, <3>2, OwnFacts, Zenon
      <4>2. exe[u] # CandSlot(t)
        BY <2>0, <4>1
      <4> QED BY <4>1, <4>2, Zenon
    <3>3. pc'[u] \in InChain => Same(exe[u])
      BY <2>1, <3>1, <3>2, Zenon
    <3>4. OwnerOK(u)
      BY <1>0, Zenon DEF OwnerInv
    <3> QED BY <2>1, <3>1, <3>3, <3>4, OwnerSame, Zenon DEF InChain
  <2> QED BY <2>2, Zenon DEF OwnerInv
<1>16. ASSUME NEW t \in Pid, AddPublish(t) PROVE OwnerInv'
  <2>0. /\ cand[t] # Null /\ CandSlot(t) \in Slot
        /\ status_code[CandSlot(t)] = un_used
    BY <1>16, <1>0, PublishEffect, Zenon
  <2>1. /\ \A u \in Pid \ {t} : pc'[u] = pc[u]
        /\ \A u \in Pid \ {t} : cand[u] # Null => CandSlot(u) \in Slot \ {CandSlot(t)}
        /\ \A s \in Slot \ {CandSlot(t)} : Same(s)
        /\ UNCHANGED <<heap, exe, ip, virt_ptr, snap, dpc, idx, failed, jit>>
        /\ pc'[t] = "stat"
    BY <1>16, <1>0, PublishEffect, Zenon
  <2>2. ASSUME NEW u \in Pid PROVE OwnerOK(u)'
    <3>1. pc'[u] \in InChain => pc[u] \in InChain /\ pc'[u] = pc[u]
      BY <2>1, Zenon DEF InChain
    <3>2. ASSUME pc[u] \in InChain PROVE exe[u] \in Slot \ {CandSlot(t)}
      <4>1. exe[u] \in Slot /\ status_code[exe[u]] = normal
        BY <1>0, <3>2, OwnFacts, Zenon
      <4>2. exe[u] # CandSlot(t)
        BY <2>0, <4>1
      <4> QED BY <4>1, <4>2, Zenon
    <3>3. pc'[u] \in InChain => Same(exe[u])
      BY <2>1, <3>1, <3>2, Zenon
    <3>4. OwnerOK(u)
      BY <1>0, Zenon DEF OwnerInv
    <3> QED BY <2>1, <3>1, <3>3, <3>4, OwnerSame, Zenon DEF InChain
  <2> QED BY <2>2, Zenon DEF OwnerInv
<1>17. ASSUME NEW t \in Pid, ReturnToUser(t) PROVE OwnerInv'
  <2>1. /\ \A u \in Pid : pc'[u] \in InChain => pc[u] \in InChain /\ exe'[u] = exe[u]
        /\ \A u \in Pid : pc'[u] = "run" =>
              pc[u] = "run" /\ ip'[u] = ip[u] /\ virt_ptr'[u] = virt_ptr[u]
    BY <1>17, Zenon DEF ReturnToUser, Goto, TypeInv, TypeOK, ThreadType, InChain
  <2> QED BY <1>17, <1>0, <2>1, OwnerFrame, Zenon DEF ReturnToUser
<1>18. CASE ShowSkip
  BY <1>18, <1>0, OwnerFrame, Zenon DEF ShowSkip
<1>19. CASE ShowHead
  BY <1>19, <1>0, OwnerFrame, Zenon DEF ShowHead
<1>20. CASE ShowTail
  BY <1>20, <1>0, OwnerFrame, Zenon DEF ShowTail
<1>21. CASE ShowEnd
  BY <1>21, <1>0, OwnerFrame, Zenon DEF ShowEnd
<1>22. CASE CheckSkip
  BY <1>22, <1>0, OwnerFrame, Zenon DEF CheckSkip
<1>23. CASE CheckSaved
  BY <1>23, <1>0, OwnerFrame, Zenon DEF CheckSaved
<1>24. CASE CheckInit
  BY <1>24, <1>0, OwnerFrame, Zenon DEF CheckInit
<1>25. CASE CheckMiss
  BY <1>25, <1>0, OwnerFrame, Zenon DEF CheckMiss
<1>26. CASE CheckNoDir
  BY <1>26, <1>0, OwnerFrame, Zenon DEF CheckNoDir
<1>27. CASE CheckEnd
  BY <1>27, <1>0, OwnerFrame, Zenon DEF CheckEnd
<1>28. CASE StoreCopy
  BY <1>28, <1>0, OwnerFrame, Zenon DEF StoreCopy
<1>29. CASE StoreStatus
  <2>0. /\ idx \in Slot /\ status_code[idx] # normal /\ status_code[idx] # un_used
        /\ status_code'[idx] \in {un_init, normal}
    BY <1>29, <1>0, StoreEffect, Zenon
  <2>1. /\ \A s \in Slot \ {idx} : Same(s)
        /\ UNCHANGED <<pid, RIP, code_block, nblk, pc, cand, exe, ip, virt_ptr>>
    BY <1>29, <1>0, StoreEffect, Zenon
  <2>2. ASSUME NEW u \in Pid PROVE OwnerOK(u)'
    <3>1. pc'[u] \in InChain => pc[u] \in InChain /\ pc'[u] = pc[u]
      BY <2>1, Zenon DEF InChain
    <3>2. ASSUME pc[u] \in InChain PROVE exe[u] \in Slot \ {idx}
      <4>1. exe[u] \in Slot /\ status_code[exe[u]] = normal
        BY <1>0, <3>2, OwnFacts, Zenon
      <4>2. exe[u] # idx
        BY <2>0, <4>1, Zenon
      <4> QED BY <4>1, <4>2, Zenon
    <3>3. pc'[u] \in InChain => Same(exe[u])
      BY <2>1, <3>1, <3>2, Zenon
    <3>4. OwnerOK(u)
      BY <1>0, Zenon DEF OwnerInv
    <3> QED BY <2>1, <3>1, <3>3, <3>4, OwnerSame, Zenon DEF InChain
  <2> QED BY <2>2, Zenon DEF OwnerInv
<1>30. CASE StoreNotFound
  BY <1>30, <1>0, OwnerFrame, Zenon DEF StoreNotFound
<1>31. CASE Restart
  BY <1>31, <1>0, OwnerFrame, Zenon DEF Restart
<1>32. CASE UNCHANGED vars
  BY <1>32, <1>0, OwnerFrame, Zenon DEF vars
<1>33. ASSUME NEW t \in Pid, AddReload(t) PROVE OwnerInv'
  BY <1>33, <1>0, OwnerFrame, Zenon DEF AddReload, InChain
<1> QED
  BY <1>1, <1>2, <1>3, <1>4, <1>5, <1>6, <1>7, <1>8, <1>9, <1>10, <1>11, <1>12,
     <1>13, <1>14, <1>15, <1>16, <1>17, <1>18, <1>19, <1>20, <1>21, <1>22,
     <1>23, <1>24, <1>25, <1>26, <1>27, <1>28, <1>29, <1>30, <1>31, <1>32,
     <1>33, Zenon
  DEF Next, Thread, exe_on_call, exe_add, Daemon, sysfs_show, check, sysfs_store

(***************************************************************************)
(* The requests of the daemon, its writes, and the code that threads run.  *)
(***************************************************************************)

LEMMA SnapStep == TypeInv /\ Safe /\ [Next]_vars /\ ~ raced' => SnapInv'
<1> SUFFICES ASSUME TypeInv, Safe, [Next]_vars, ~ raced'
             PROVE  SnapInv'
  BY Zenon
<1>0. AddInv /\ TableInv /\ OwnerInv /\ SnapInv /\ WriteInv /\ CodeInv
  BY Zenon DEF Safe
<1> USE DEF exeVars, memVars, threadVars, daemonVars
<1>1. ASSUME NEW t \in Pid, Syscall(t) PROVE SnapInv'
  BY <1>1, <1>0, SnapFrame, Zenon DEF Syscall
<1>2. ASSUME NEW t \in Pid, EnterBlock(t) PROVE SnapInv'
  BY <1>2, <1>0, SnapFrame, Zenon DEF EnterBlock
<1>3. ASSUME NEW t \in Pid, LeaveChain(t) PROVE SnapInv'
  BY <1>3, <1>0, SnapFrame, Zenon DEF LeaveChain
<1>4. ASSUME NEW t \in Pid, RunToSyscall(t) PROVE SnapInv'
  BY <1>4, <1>0, SnapFrame, Zenon DEF RunToSyscall
<1>5. ASSUME NEW t \in Pid, RunToIllegal(t) PROVE SnapInv'
  BY <1>5, <1>0, SnapFrame, Zenon DEF RunToIllegal
<1>6. ASSUME NEW t \in Pid, SyscallReturns(t) PROVE SnapInv'
  BY <1>6, <1>0, SnapFrame, Zenon DEF SyscallReturns
<1>7. ASSUME NEW t \in Pid, MissIgnored(t) PROVE SnapInv'
  BY <1>7, <1>0, SnapFrame, Zenon DEF MissIgnored
<1>8. ASSUME NEW t \in Pid, MissTaken(t) PROVE SnapInv'
  BY <1>8, <1>0, SnapFrame, Zenon DEF MissTaken
<1>9. ASSUME NEW t \in Pid, ReportTgt(t) PROVE SnapInv'
  BY <1>9, <1>0, SnapFrame, Zenon DEF ReportTgt
<1>10. ASSUME NEW t \in Pid, ReportFrom(t) PROVE SnapInv'
  BY <1>10, <1>0, SnapFrame, Zenon DEF ReportFrom
<1>11. ASSUME NEW t \in Pid, ReportStatus(t) PROVE SnapInv'
  <2>0. /\ exe[t] \in Slot /\ status_code[exe[t]] = normal
        /\ status_code'[exe[t]] \in Misses
    BY <1>11, <1>0, ReportEffect, Zenon
  <2>1. /\ \A s \in Slot \ {exe[t]} : Same(s)
        /\ pc'[t] = "lookup" /\ \A u \in Pid \ {t} : pc'[u] = pc[u]
        /\ UNCHANGED <<pid, RIP, code_block, nblk, heap, cand, exe, ip, virt_ptr,
                       snap, dpc, idx, failed, jit>>
    BY <1>11, <1>0, ReportEffect, Zenon
  <2>2. ASSUME NEW s \in Slot PROVE SnapOK(s)'
    <3>1. SnapOK(s)
      BY <1>0, Zenon DEF SnapInv
    <3>2. CASE s = exe[t]
      <4>1. snap[s] # Null => snap[s].status_code = normal
        BY <2>0, <3>1, <3>2, Zenon DEF SnapOK
      <4>2. /\ snap'[s] = snap[s] /\ pid'[s] = pid[s] /\ RIP'[s] = RIP[s]
            /\ status_code'[s] # un_used
        BY <2>0, <2>1, <3>2
      <4> QED BY <3>1, <4>1, <4>2, Zenon DEF SnapOK
    <3>3. CASE s # exe[t]
      BY <2>1, <3>1, <3>3, SnapSame, Zenon
    <3> QED BY <3>2, <3>3, Zenon
  <2> QED BY <1>0, <2>1, <2>2, Zenon DEF SnapInv
<1>12. ASSUME NEW t \in Pid, RunWild(t) PROVE SnapInv'
  BY <1>12, <1>0, SnapFrame, Zenon DEF RunWild
<1>13. ASSUME NEW t \in Pid, AddCheck(t) PROVE SnapInv'
  BY <1>13, <1>0, SnapFrame, Zenon DEF AddCheck
<1>14. ASSUME NEW t \in Pid, AddClaim(t) PROVE SnapInv'
  <2>0. /\ cand[t] # Null /\ CandSlot(t) \in Slot
        /\ status_code[CandSlot(t)] = un_used
    BY <1>14, <1>0, ClaimEffect, Zenon
  <2>1. /\ \A u \in Pid \ {t} : pc'[u] = pc[u]
        /\ \A u \in Pid \ {t} : cand[u] # Null => CandSlot(u) \in Slot \ {CandSlot(t)}
        /\ \A s \in Slot \ {CandSlot(t)} : Same(s)
        /\ UNCHANGED <<heap, exe, ip, virt_ptr, snap, dpc, idx, failed, jit>>
    BY <1>14, <1>0, ClaimEffect, Zenon
  <2>2. \A s \in Slot : snap[s] # Null => Same(s)
    BY <1>0, <2>0, <2>1, Zenon DEF SnapInv, SnapOK
  <2> QED BY <1>0, <2>1, <2>2, SnapStays, Zenon
<1>15. ASSUME NEW t \in Pid, AddBlock(t) PROVE SnapInv'
  <2>0. /\ cand[t] # Null /\ CandSlot(t) \in Slot
        /\ status_code[CandSlot(t)] = un_used
    BY <1>15, <1>0, BlockEffect, Zenon
  <2>1. /\ \A u \in Pid \ {t} : pc'[u] = pc[u]
        /\ \A u \in Pid \ {t} : cand[u] # Null => CandSlot(u) \in Slot \ {CandSlot(t)}
        /\ \A s \in Slot \ {CandSlot(t)} : Same(s)
        /\ UNCHANGED <<heap, exe, ip, virt_ptr, snap, dpc, idx, failed, jit>>
    BY <1>15, <1>0, BlockEffect, Zenon
  <2>2. \A s \in Slot : snap[s] # Null => Same(s)
    BY <1>0, <2>0, <2>1, Zenon DEF SnapInv, SnapOK
  <2> QED BY <1>0, <2>1, <2>2, SnapStays, Zenon
<1>16. ASSUME NEW t \in Pid, AddPublish(t) PROVE SnapInv'
  <2>0. /\ cand[t] # Null /\ CandSlot(t) \in Slot
        /\ status_code[CandSlot(t)] = un_used
    BY <1>16, <1>0, PublishEffect, Zenon
  <2>1. /\ \A u \in Pid \ {t} : pc'[u] = pc[u]
        /\ \A u \in Pid \ {t} : cand[u] # Null => CandSlot(u) \in Slot \ {CandSlot(t)}
        /\ \A s \in Slot \ {CandSlot(t)} : Same(s)
        /\ UNCHANGED <<heap, exe, ip, virt_ptr, snap, dpc, idx, failed, jit>>
    BY <1>16, <1>0, PublishEffect, Zenon
  <2>2. \A s \in Slot : snap[s] # Null => Same(s)
    BY <1>0, <2>0, <2>1, Zenon DEF SnapInv, SnapOK
  <2> QED BY <1>0, <2>1, <2>2, SnapStays, Zenon
<1>17. ASSUME NEW t \in Pid, ReturnToUser(t) PROVE SnapInv'
  BY <1>17, <1>0, SnapFrame, Zenon DEF ReturnToUser
<1>18. CASE ShowSkip
  <2>1. ASSUME NEW s \in Slot PROVE SnapOK(s)'
    <3>1. SnapOK(s) /\ (snap'[s] = snap[s] \/ snap'[s] = Null)
      BY <1>18, <1>0, Zenon DEF ShowSkip, SnapInv
    <3>2. ~ Writing(s) /\ UNCHANGED <<status_code, pid, RIP>>
      BY <1>18, Zenon DEF ShowSkip, Writing
    <3> QED BY <3>1, <3>2, Zenon DEF SnapOK
  <2> QED BY <1>18, <2>1, Zenon DEF ShowSkip, SnapInv, Wanted
<1>19. CASE ShowHead
  <2>1. idx \in Slot /\ dpc = "show" /\ dpc' = "tail" /\ status_code[idx] # un_used
    BY <1>19, IdxType, Zenon DEF ShowHead, TypeInv, TypeOK
  <2>2. /\ \A s \in Slot \ {idx} : snap'[s] = snap[s]
        /\ snap'[idx].status_code = status_code[idx]
        /\ snap'[idx].pid = pid[idx] /\ snap'[idx].RIP = RIP[idx]
    BY <1>19, <2>1, Zenon DEF ShowHead, TypeInv, TypeOK, DaemonType
  <2>3. UNCHANGED <<status_code, pid, RIP>>
    BY <1>19, Zenon DEF ShowHead
  <2>4. ASSUME NEW s \in Slot, s = idx PROVE SnapOK(s)'
    <3>1. /\ snap'[s].status_code = status_code[s] /\ snap'[s].pid = pid[s]
          /\ snap'[s].RIP = RIP[s] /\ status_code[s] # un_used
      BY <2>1, <2>2, <2>4, Zenon
    <3> QED BY <2>3, <3>1, Zenon DEF SnapOK
  <2>5. ASSUME NEW s \in Slot \ {idx} PROVE SnapOK(s)'
    <3>1. SnapOK(s)
      BY <1>0, Zenon DEF SnapInv
    <3> QED BY <2>1, <2>2, <2>3, <3>1, Zenon DEF SnapOK, Writing
  <2> QED BY <2>1, <2>4, <2>5, Zenon DEF SnapInv
<1>20. CASE ShowTail
  <2>1. /\ idx \in Slot /\ snap[idx] \in Entry /\ snap[idx] # Null
    BY <1>20, EntryType, Zenon DEF ShowTail, TypeInv, TypeOK
  <2>2. /\ \A s \in Slot \ {idx} : snap'[s] = snap[s]
        /\ snap'[idx].status_code = snap[idx].status_code
        /\ snap'[idx].pid = snap[idx].pid /\ snap'[idx].RIP = snap[idx].RIP
    BY <1>20, <2>1, Zenon DEF ShowTail, Entry, TypeInv, TypeOK, DaemonType
  <2>3. /\ dpc = "tail" /\ dpc' = "show" /\ UNCHANGED <<status_code, pid, RIP>>
    BY <1>20, Zenon DEF ShowTail
  <2>4. ASSUME NEW s \in Slot PROVE SnapOK(s)'
    <3>1. SnapOK(s)
      BY <1>0, Zenon DEF SnapInv
    <3>2. CASE s = idx
      BY <2>1, <2>2, <2>3, <3>1, <3>2, Zenon DEF SnapOK, Writing
    <3>3. CASE s # idx
      BY <2>2, <2>3, <3>1, <3>3, Zenon DEF SnapOK, Writing
    <3> QED BY <3>2, <3>3, Zenon
  <2> QED BY <2>3, <2>4, Zenon DEF SnapInv
<1>21. CASE ShowEnd
  <2>1. ASSUME NEW s \in Slot PROVE SnapOK(s)'
    <3>1. SnapOK(s) /\ (snap'[s] = snap[s] \/ snap'[s] = Null)
      BY <1>21, <1>0, Zenon DEF ShowEnd, SnapInv
    <3>2. ~ Writing(s) /\ UNCHANGED <<status_code, pid, RIP>>
      BY <1>21, Zenon DEF ShowEnd, Writing
    <3> QED BY <3>1, <3>2, Zenon DEF SnapOK
  <2> QED BY <1>21, <2>1, Zenon DEF ShowEnd, SnapInv, Wanted
<1>22. CASE CheckSkip
  <2>1. ASSUME NEW s \in Slot PROVE SnapOK(s)'
    <3>1. SnapOK(s) /\ (snap'[s] = snap[s] \/ snap'[s] = Null)
      BY <1>22, <1>0, Zenon DEF CheckSkip, SnapInv, NextEntry, TypeInv, TypeOK,
         DaemonType
    <3>2. ~ Writing(s) /\ UNCHANGED <<status_code, pid, RIP>>
      BY <1>22, Zenon DEF CheckSkip, Writing
    <3> QED BY <3>1, <3>2, Zenon DEF SnapOK
  <2> QED BY <1>22, <2>1, Zenon DEF CheckSkip, SnapInv, Wanted
<1>23. CASE CheckSaved
  <2>1. ASSUME NEW s \in Slot PROVE SnapOK(s)'
    <3>1. SnapOK(s) /\ (snap'[s] = snap[s] \/ snap'[s] = Null)
      BY <1>23, <1>0, Zenon DEF CheckSaved, SnapInv
    <3>2. ~ Writing(s) /\ UNCHANGED <<status_code, pid, RIP>>
      BY <1>23, Zenon DEF CheckSaved, Writing
    <3> QED BY <3>1, <3>2, Zenon DEF SnapOK
  <2> QED BY <1>23, <2>1, Zenon DEF CheckSaved, SnapInv, Wanted
<1>24. CASE CheckInit
  <2>1. ASSUME NEW s \in Slot PROVE SnapOK(s)'
    <3>1. SnapOK(s) /\ (snap'[s] = snap[s] \/ snap'[s] = Null)
      BY <1>24, <1>0, Zenon DEF CheckInit, SnapInv
    <3>2. ~ Writing(s) /\ UNCHANGED <<status_code, pid, RIP>>
      BY <1>24, Zenon DEF CheckInit, Writing
    <3> QED BY <3>1, <3>2, Zenon DEF SnapOK
  <2> QED BY <1>24, <2>1, Zenon DEF CheckInit, SnapInv, Wanted
<1>25. CASE CheckMiss
  <2>1. ASSUME NEW s \in Slot PROVE SnapOK(s)'
    <3>1. SnapOK(s) /\ (snap'[s] = snap[s] \/ snap'[s] = Null)
      BY <1>25, <1>0, Zenon DEF CheckMiss, SnapInv
    <3>2. ~ Writing(s) /\ UNCHANGED <<status_code, pid, RIP>>
      BY <1>25, Zenon DEF CheckMiss, Writing
    <3> QED BY <3>1, <3>2, Zenon DEF SnapOK
  <2> QED BY <1>25, <2>1, Zenon DEF CheckMiss, SnapInv, Wanted
<1>26. CASE CheckNoDir
  <2>1. ASSUME NEW s \in Slot PROVE SnapOK(s)'
    <3>1. SnapOK(s) /\ (snap'[s] = snap[s] \/ snap'[s] = Null)
      BY <1>26, <1>0, Zenon DEF CheckNoDir, SnapInv
    <3>2. ~ Writing(s) /\ UNCHANGED <<status_code, pid, RIP>>
      BY <1>26, Zenon DEF CheckNoDir, Writing
    <3> QED BY <3>1, <3>2, Zenon DEF SnapOK
  <2> QED BY <1>26, <2>1, Zenon DEF CheckNoDir, SnapInv, Wanted
<1>27. CASE CheckEnd
  <2>1. ASSUME NEW s \in Slot PROVE SnapOK(s)'
    <3>1. SnapOK(s) /\ (snap'[s] = snap[s] \/ snap'[s] = Null)
      BY <1>27, <1>0, Zenon DEF CheckEnd, SnapInv
    <3>2. ~ Writing(s) /\ UNCHANGED <<status_code, pid, RIP>>
      BY <1>27, Zenon DEF CheckEnd, Writing
    <3> QED BY <3>1, <3>2, Zenon DEF SnapOK
  <2> QED BY <1>27, <2>1, Zenon DEF CheckEnd, SnapInv, Wanted
<1>28. CASE StoreCopy
  <2>1. ASSUME NEW s \in Slot PROVE SnapOK(s)'
    <3>1. SnapOK(s) /\ Writing(s)' = Writing(s)
      BY <1>28, <1>0, Zenon DEF StoreCopy, SnapInv, Writing
    <3>2. UNCHANGED <<status_code, pid, RIP, snap>>
      BY <1>28, Zenon DEF StoreCopy
    <3> QED BY <3>1, <3>2, Zenon DEF SnapOK
  <2> QED BY <1>28, <1>0, <2>1, Zenon DEF StoreCopy, SnapInv, Wanted
<1>29. CASE StoreStatus
  <2>0. /\ idx \in Slot /\ status_code[idx] # normal /\ status_code[idx] # un_used
        /\ status_code'[idx] \in {un_init, normal}
    BY <1>29, <1>0, StoreEffect, Zenon
  <2>1. /\ \A s \in Slot \ {idx} : Same(s)
        /\ UNCHANGED <<pid, RIP, code_block, nblk, pc, cand, exe, ip, virt_ptr>>
    BY <1>29, <1>0, StoreEffect, Zenon
  <2>2. CASE status_code'[idx] = un_init /\ dpc' = "copy" /\ UNCHANGED <<idx, snap>>
    <3>1. dpc = "mark"
      BY <1>29, Zenon DEF StoreStatus
    <3>2. ASSUME NEW s \in Slot PROVE SnapOK(s)'
      <4>1. SnapOK(s) /\ Writing(s)' = Writing(s)
        BY <1>0, <2>2, <3>1, Zenon DEF SnapInv, Writing
      <4>2. CASE s = idx
        <5>1. Writing(s)'
          BY <2>2, <4>2, Zenon DEF Writing
        <5>2. /\ snap'[s] = snap[s] /\ pid'[s] = pid[s] /\ RIP'[s] = RIP[s]
              /\ status_code'[s] = un_init
          BY <2>1, <2>2, <4>2, Zenon
        <5>3. status_code'[s] # un_used /\ status_code'[s] # normal
          BY <5>2
        <5> QED BY <4>1, <5>1, <5>2, <5>3, Zenon DEF SnapOK
      <4>3. CASE s # idx
        BY <2>1, <2>2, <4>1, <4>3, Zenon DEF SnapOK, Same
      <4> QED BY <4>2, <4>3, Zenon
    <3> QED BY <1>0, <2>2, <3>1, <3>2, Zenon DEF SnapInv, Wanted
  <2>3. CASE dpc' = "check" /\ snap' = [snap EXCEPT ![idx] = Null]
    <3>1. snap'[idx] = Null /\ \A s \in Slot \ {idx} : snap'[s] = snap[s]
      BY <2>0, <2>3, Zenon DEF TypeInv, TypeOK, DaemonType
    <3>2. ASSUME NEW s \in Slot PROVE SnapOK(s)'
      <4>1. CASE s = idx
        BY <3>1, <4>1, Zenon DEF SnapOK
      <4>2. CASE s # idx
        <5>1. SnapOK(s) /\ Same(s) /\ ~ Writing(s) /\ snap'[s] = snap[s]
          BY <1>0, <2>1, <3>1, <4>2, Zenon DEF SnapInv, Writing
        <5> QED BY <5>1, Zenon DEF SnapOK, Same
      <4> QED BY <4>1, <4>2, Zenon
    <3> QED BY <2>3, <3>2, Zenon DEF SnapInv
  <2> QED BY <1>29, <1>0, <2>2, <2>3, StoreEffect, Zenon
<1>30. CASE StoreNotFound
  BY <1>30, <1>0, AlwaysFound, Zenon
<1>31. CASE Restart
  <2>1. dpc' = "show" /\ \A s \in Slot : snap'[s] = Null
    BY <1>31, Zenon DEF Restart
  <2> QED BY <2>1, Zenon DEF SnapInv, SnapOK
<1>32. CASE UNCHANGED vars
  BY <1>32, <1>0, SnapFrame, Zenon DEF vars
<1>33. ASSUME NEW t \in Pid, AddReload(t) PROVE SnapInv'
  BY <1>33, <1>0, SnapFrame, Zenon DEF AddReload
<1> QED
  BY <1>1, <1>2, <1>3, <1>4, <1>5, <1>6, <1>7, <1>8, <1>9, <1>10, <1>11, <1>12,
     <1>13, <1>14, <1>15, <1>16, <1>17, <1>18, <1>19, <1>20, <1>21, <1>22,
     <1>23, <1>24, <1>25, <1>26, <1>27, <1>28, <1>29, <1>30, <1>31, <1>32,
     <1>33, Zenon
  DEF Next, Thread, exe_on_call, exe_add, Daemon, sysfs_show, check, sysfs_store

LEMMA WriteStep == TypeInv /\ Safe /\ [Next]_vars /\ ~ raced' => WriteInv'
<1> SUFFICES ASSUME TypeInv, Safe, [Next]_vars, ~ raced'
             PROVE  WriteInv'
  BY Zenon
<1>0. AddInv /\ TableInv /\ OwnerInv /\ SnapInv /\ WriteInv /\ CodeInv
  BY Zenon DEF Safe
<1> USE DEF exeVars, memVars, threadVars, daemonVars
<1>1. ASSUME NEW t \in Pid, Syscall(t) PROVE WriteInv'
  BY <1>1, <1>0, WriteFrame, Zenon DEF Syscall
<1>2. ASSUME NEW t \in Pid, EnterBlock(t) PROVE WriteInv'
  BY <1>2, <1>0, WriteFrame, Zenon DEF EnterBlock
<1>3. ASSUME NEW t \in Pid, LeaveChain(t) PROVE WriteInv'
  BY <1>3, <1>0, WriteFrame, Zenon DEF LeaveChain
<1>4. ASSUME NEW t \in Pid, RunToSyscall(t) PROVE WriteInv'
  BY <1>4, <1>0, WriteFrame, Zenon DEF RunToSyscall
<1>5. ASSUME NEW t \in Pid, RunToIllegal(t) PROVE WriteInv'
  BY <1>5, <1>0, WriteFrame, Zenon DEF RunToIllegal
<1>6. ASSUME NEW t \in Pid, SyscallReturns(t) PROVE WriteInv'
  BY <1>6, <1>0, WriteFrame, Zenon DEF SyscallReturns
<1>7. ASSUME NEW t \in Pid, MissIgnored(t) PROVE WriteInv'
  BY <1>7, <1>0, WriteFrame, Zenon DEF MissIgnored
<1>8. ASSUME NEW t \in Pid, MissTaken(t) PROVE WriteInv'
  BY <1>8, <1>0, WriteFrame, Zenon DEF MissTaken
<1>9. ASSUME NEW t \in Pid, ReportTgt(t) PROVE WriteInv'
  BY <1>9, <1>0, WriteFrame, Zenon DEF ReportTgt
<1>10. ASSUME NEW t \in Pid, ReportFrom(t) PROVE WriteInv'
  BY <1>10, <1>0, WriteFrame, Zenon DEF ReportFrom
<1>11. ASSUME NEW t \in Pid, ReportStatus(t) PROVE WriteInv'
  BY <1>11, <1>0, WriteFrame, Zenon DEF ReportStatus
<1>12. ASSUME NEW t \in Pid, RunWild(t) PROVE WriteInv'
  BY <1>12, <1>0, WriteFrame, Zenon DEF RunWild
<1>13. ASSUME NEW t \in Pid, AddCheck(t) PROVE WriteInv'
  BY <1>13, <1>0, WriteFrame, Zenon DEF AddCheck
<1>14. ASSUME NEW t \in Pid, AddClaim(t) PROVE WriteInv'
  BY <1>14, <1>0, WriteFrame, Zenon DEF AddClaim
<1>15. ASSUME NEW t \in Pid, AddBlock(t) PROVE WriteInv'
  <2>1. dpc \in {"copy", "mark"} => code_block'[idx] = code_block[idx]
    <3>1. dpc \in {"copy", "mark"} => idx \in Slot /\ status_code[idx] # un_used
      BY <1>0, PktIsIdx, Zenon
    <3>2. /\ status_code[CandSlot(t)] = un_used
          /\ \A s \in Slot \ {CandSlot(t)} : Same(s)
      BY <1>15, <1>0, BlockEffect, Zenon
    <3> QED BY <3>1, <3>2, Zenon DEF Same
  <2>2. /\ PktImage' = PktImage /\ PktLen' = PktLen
        /\ UNCHANGED <<heap, dpc, off, idx>>
    BY <1>15, Zenon DEF AddBlock, PktImage, PktLen, RestLen
  <2> QED BY <1>0, <2>1, <2>2, Zenon DEF WriteInv
<1>16. ASSUME NEW t \in Pid, AddPublish(t) PROVE WriteInv'
  BY <1>16, <1>0, WriteFrame, Zenon DEF AddPublish
<1>17. ASSUME NEW t \in Pid, ReturnToUser(t) PROVE WriteInv'
  BY <1>17, <1>0, WriteFrame, Zenon DEF ReturnToUser
<1>18. CASE ShowSkip
  BY <1>18, <1>0, Zenon DEF ShowSkip, WriteInv
<1>19. CASE ShowHead
  BY <1>19, <1>0, Zenon DEF ShowHead, WriteInv
<1>20. CASE ShowTail
  BY <1>20, <1>0, Zenon DEF ShowTail, WriteInv
<1>21. CASE ShowEnd
  BY <1>21, <1>0, Zenon DEF ShowEnd, WriteInv
<1>22. CASE CheckSkip
  BY <1>22, <1>0, Zenon DEF CheckSkip, WriteInv
<1>23. CASE CheckSaved
  <2>1. off' = 0 /\ dpc' = "copy"
    BY <1>23, Zenon DEF CheckSaved, DaemonInv, TypeInv
  <2> QED BY <2>1 DEF WriteInv
<1>24. CASE CheckInit
  <2>1. off' = 0 /\ dpc' = "copy"
    BY <1>24, Zenon DEF CheckInit, DaemonInv, TypeInv
  <2> QED BY <2>1 DEF WriteInv
<1>25. CASE CheckMiss
  <2>1. off' = 0 /\ dpc' = "copy"
    BY <1>25, Zenon DEF CheckMiss, DaemonInv, TypeInv
  <2> QED BY <2>1 DEF WriteInv
<1>26. CASE CheckNoDir
  BY <1>26, <1>0, Zenon DEF CheckNoDir, WriteInv
<1>27. CASE CheckEnd
  BY <1>27, <1>0, Zenon DEF CheckEnd, WriteInv
<1>28. CASE StoreCopy
  <2>1. /\ dpc' = "mark" /\ UNCHANGED <<off, idx, code_block>>
        /\ PktImage' = PktImage /\ PktLen' = PktLen
        /\ \A i \in 0 .. off + PktLen - 1 : heap'[code_block[idx]][i] = PktImage
    BY <1>28, <1>0, CopyEffect, Zenon DEF PktImage, PktLen, RestLen
  <2> QED BY <2>1, Zenon DEF WriteInv
<1>29. CASE StoreStatus
  <2>1. CASE dpc' = "copy" /\ off' = off + PktLen /\ UNCHANGED <<idx, snap>>
    <3>1. \A i \in 0 .. off + PktLen - 1 : heap[code_block[idx]][i] = PktImage
      BY <1>29, <1>0, Zenon DEF StoreStatus, WriteInv
    <3>2. PktImage' = PktImage /\ UNCHANGED <<heap, code_block, idx>>
      BY <1>29, <2>1, Zenon DEF StoreStatus, PktImage
    <3>3. off \in Nat /\ PktLen \in Nat
      BY <1>29, PktType DEF StoreStatus, TypeInv, TypeOK
    <3>4. ASSUME NEW i \in 0 .. off' - 1 PROVE heap'[code_block'[idx']][i] = PktImage'
      <4>1. i \in 0 .. off + PktLen - 1
        BY <2>1, <3>3
      <4> QED BY <3>1, <3>2, <4>1, Zenon
    <3> QED BY <2>1, <3>4, Zenon DEF WriteInv
  <2>2. CASE dpc' = "check"
    BY <2>2, Zenon DEF WriteInv
  <2> QED BY <1>29, <1>0, <2>1, <2>2, StoreEffect, Zenon
<1>30. CASE StoreNotFound
  BY <1>30, <1>0, AlwaysFound, Zenon
<1>31. CASE Restart
  BY <1>31, <1>0, Zenon DEF Restart, WriteInv
<1>32. CASE UNCHANGED vars
  BY <1>32, <1>0, WriteFrame, Zenon DEF vars
<1>33. ASSUME NEW t \in Pid, AddReload(t) PROVE WriteInv'
  BY <1>33, <1>0, WriteFrame, Zenon DEF AddReload
<1> QED
  BY <1>1, <1>2, <1>3, <1>4, <1>5, <1>6, <1>7, <1>8, <1>9, <1>10, <1>11, <1>12,
     <1>13, <1>14, <1>15, <1>16, <1>17, <1>18, <1>19, <1>20, <1>21, <1>22,
     <1>23, <1>24, <1>25, <1>26, <1>27, <1>28, <1>29, <1>30, <1>31, <1>32,
     <1>33, Zenon
  DEF Next, Thread, exe_on_call, exe_add, Daemon, sysfs_show, check, sysfs_store

LEMMA CodeStep == TypeInv /\ Safe /\ [Next]_vars /\ ~ raced' => CodeInv'
<1> SUFFICES ASSUME TypeInv, Safe, [Next]_vars, ~ raced'
             PROVE  CodeInv'
  BY Zenon
<1>0. AddInv /\ TableInv /\ OwnerInv /\ SnapInv /\ WriteInv /\ CodeInv
  BY Zenon DEF Safe
<1> USE DEF exeVars, memVars, threadVars, daemonVars
<1>1. ASSUME NEW t \in Pid, Syscall(t) PROVE CodeInv'
  BY <1>1, <1>0, CodeFrame, Zenon DEF Syscall
<1>2. ASSUME NEW t \in Pid, EnterBlock(t) PROVE CodeInv'
  BY <1>2, <1>0, CodeFrame, Zenon DEF EnterBlock
<1>3. ASSUME NEW t \in Pid, LeaveChain(t) PROVE CodeInv'
  BY <1>3, <1>0, CodeFrame, Zenon DEF LeaveChain
<1>4. ASSUME NEW t \in Pid, RunToSyscall(t) PROVE CodeInv'
  BY <1>4, <1>0, CodeFrame, Zenon DEF RunToSyscall
<1>5. ASSUME NEW t \in Pid, RunToIllegal(t) PROVE CodeInv'
  BY <1>5, <1>0, CodeFrame, Zenon DEF RunToIllegal
<1>6. ASSUME NEW t \in Pid, SyscallReturns(t) PROVE CodeInv'
  BY <1>6, <1>0, CodeFrame, Zenon DEF SyscallReturns
<1>7. ASSUME NEW t \in Pid, MissIgnored(t) PROVE CodeInv'
  BY <1>7, <1>0, CodeFrame, Zenon DEF MissIgnored
<1>8. ASSUME NEW t \in Pid, MissTaken(t) PROVE CodeInv'
  BY <1>8, <1>0, CodeFrame, Zenon DEF MissTaken
<1>9. ASSUME NEW t \in Pid, ReportTgt(t) PROVE CodeInv'
  BY <1>9, <1>0, CodeFrame, Zenon DEF ReportTgt
<1>10. ASSUME NEW t \in Pid, ReportFrom(t) PROVE CodeInv'
  BY <1>10, <1>0, CodeFrame, Zenon DEF ReportFrom
<1>11. ASSUME NEW t \in Pid, ReportStatus(t) PROVE CodeInv'
  <2>0. /\ exe[t] \in Slot /\ status_code[exe[t]] = normal
        /\ status_code'[exe[t]] \in Misses
    BY <1>11, <1>0, ReportEffect, Zenon
  <2>1. /\ \A s \in Slot \ {exe[t]} : Same(s)
        /\ pc'[t] = "lookup" /\ \A u \in Pid \ {t} : pc'[u] = pc[u]
        /\ UNCHANGED <<pid, RIP, code_block, nblk, heap, cand, exe, ip, virt_ptr,
                       snap, dpc, idx, failed, jit>>
    BY <1>11, <1>0, ReportEffect, Zenon
  <2>2. ASSUME NEW s \in Slot, status_code'[s] = normal PROVE Same(s)
    <3>1. s # exe[t]
      BY <2>0, <2>2
    <3> QED BY <2>1, <3>1, Zenon
  <2> QED BY <1>0, <2>1, <2>2, CodeStays, Zenon
<1>12. ASSUME NEW t \in Pid, RunWild(t) PROVE CodeInv'
  BY <1>12, <1>0, CodeFrame, Zenon DEF RunWild
<1>13. ASSUME NEW t \in Pid, AddCheck(t) PROVE CodeInv'
  BY <1>13, <1>0, CodeFrame, Zenon DEF AddCheck
<1>14. ASSUME NEW t \in Pid, AddClaim(t) PROVE CodeInv'
  <2>0. /\ cand[t] # Null /\ CandSlot(t) \in Slot
        /\ status_code[CandSlot(t)] = un_used
    BY <1>14, <1>0, ClaimEffect, Zenon
  <2>1. /\ \A u \in Pid \ {t} : pc'[u] = pc[u]
        /\ \A u \in Pid \ {t} : cand[u] # Null => CandSlot(u) \in Slot \ {CandSlot(t)}
        /\ \A s \in Slot \ {CandSlot(t)} : Same(s)
        /\ UNCHANGED <<heap, exe, ip, virt_ptr, snap, dpc, idx, failed, jit>>
    BY <1>14, <1>0, ClaimEffect, Zenon
  <2>3. status_code'[CandSlot(t)] # normal
    <3>1. status_code' = status_code
      BY <1>14, Zenon DEF AddClaim
    <3> QED BY <2>0, <3>1
  <2>2. ASSUME NEW s \in Slot, status_code'[s] = normal PROVE Same(s)
    <3>1. s # CandSlot(t)
      BY <2>2, <2>3, Zenon
    <3> QED BY <2>1, <3>1, Zenon
  <2> QED BY <1>0, <2>1, <2>2, CodeStays, Zenon
<1>15. ASSUME NEW t \in Pid, AddBlock(t) PROVE CodeInv'
  <2>0. /\ cand[t] # Null /\ CandSlot(t) \in Slot
        /\ status_code[CandSlot(t)] = un_used
    BY <1>15, <1>0, BlockEffect, Zenon
  <2>1. /\ \A u \in Pid \ {t} : pc'[u] = pc[u]
        /\ \A u \in Pid \ {t} : cand[u] # Null => CandSlot(u) \in Slot \ {CandSlot(t)}
        /\ \A s \in Slot \ {CandSlot(t)} : Same(s)
        /\ UNCHANGED <<heap, exe, ip, virt_ptr, snap, dpc, idx, failed, jit>>
    BY <1>15, <1>0, BlockEffect, Zenon
  <2>3. status_code'[CandSlot(t)] # normal
    <3>1. status_code' = status_code
      BY <1>15, Zenon DEF AddBlock
    <3> QED BY <2>0, <3>1
  <2>2. ASSUME NEW s \in Slot, status_code'[s] = normal PROVE Same(s)
    <3>1. s # CandSlot(t)
      BY <2>2, <2>3, Zenon
    <3> QED BY <2>1, <3>1, Zenon
  <2> QED BY <1>0, <2>1, <2>2, CodeStays, Zenon
<1>16. ASSUME NEW t \in Pid, AddPublish(t) PROVE CodeInv'
  <2>0. /\ cand[t] # Null /\ CandSlot(t) \in Slot
        /\ status_code[CandSlot(t)] = un_used
    BY <1>16, <1>0, PublishEffect, Zenon
  <2>1. /\ \A u \in Pid \ {t} : pc'[u] = pc[u]
        /\ \A u \in Pid \ {t} : cand[u] # Null => CandSlot(u) \in Slot \ {CandSlot(t)}
        /\ \A s \in Slot \ {CandSlot(t)} : Same(s)
        /\ UNCHANGED <<heap, exe, ip, virt_ptr, snap, dpc, idx, failed, jit>>
    BY <1>16, <1>0, PublishEffect, Zenon
  <2>3. status_code'[CandSlot(t)] # normal
    <3>1. status_code'[CandSlot(t)] = un_init
      BY <1>16, <1>0, PublishEffect, Zenon
    <3> QED BY <3>1
  <2>2. ASSUME NEW s \in Slot, status_code'[s] = normal PROVE Same(s)
    <3>1. s # CandSlot(t)
      BY <2>2, <2>3, Zenon
    <3> QED BY <2>1, <3>1, Zenon
  <2> QED BY <1>0, <2>1, <2>2, CodeStays, Zenon
<1>17. ASSUME NEW t \in Pid, ReturnToUser(t) PROVE CodeInv'
  BY <1>17, <1>0, CodeFrame, Zenon DEF ReturnToUser
<1>18. CASE ShowSkip
  BY <1>18, <1>0, CodeFrame, Zenon DEF ShowSkip
<1>19. CASE ShowHead
  BY <1>19, <1>0, CodeFrame, Zenon DEF ShowHead
<1>20. CASE ShowTail
  BY <1>20, <1>0, CodeFrame, Zenon DEF ShowTail
<1>21. CASE ShowEnd
  BY <1>21, <1>0, CodeFrame, Zenon DEF ShowEnd
<1>22. CASE CheckSkip
  BY <1>22, <1>0, CodeFrame, Zenon DEF CheckSkip
<1>23. CASE CheckSaved
  BY <1>23, <1>0, CodeFrame, Zenon DEF CheckSaved
<1>24. CASE CheckInit
  <2> DEFINE r == snap[idx].RIP
             known == {}
             old == Prebuilt
  <2>1. r \in Addr /\ jit \in [Addr -> Image \cup {Null}]
    BY <1>24, AddrAssumption, Zenon DEF CheckInit, Wanted, TypeInv, TypeOK, DaemonType
  <2>2. ASSUME NEW a \in Addr PROVE DirOK(a)'
    <3>1. DirOK(a)
      BY <1>0, Zenon DEF CodeInv
    <3>2. CASE /\ failed' = failed
               /\ jit' = [jit EXCEPT ![r] = [rip |-> r, known |-> known]]
      BY <2>1, <3>1, <3>2, Zenon DEF DirOK
    <3>3. CASE /\ failed' = failed \cup {r}
               /\ jit' = [jit EXCEPT ![r] = old]
      BY <2>1, <3>1, <3>3, Zenon DEF DirOK
    <3> QED BY <1>24, <3>2, <3>3, Zenon DEF CheckInit, Compile
  <2>3. failed \subseteq failed' /\ UNCHANGED <<status_code, pid, code_block, RIP, heap>>
    BY <1>24, Zenon DEF CheckInit, Compile
  <2>4. ASSUME NEW s \in Slot PROVE CodeOK(s)'
    <3>1. CodeOK(s) /\ Same(s)
      BY <1>0, <2>3, SlotsSame, Zenon DEF CodeInv
    <3> QED BY <2>3, <3>1, CodeSame, Zenon
  <2> QED BY <2>2, <2>4, Zenon DEF CodeInv
<1>25. CASE CheckMiss
  <2> DEFINE r == snap[idx].RIP
             known == table[r] \cup {MissOf(snap[idx])}
             old == jit[r]
  <2>1. r \in Addr /\ jit \in [Addr -> Image \cup {Null}]
    BY <1>25, AddrAssumption, Zenon DEF CheckMiss, Wanted, TypeInv, TypeOK, DaemonType
  <2>2. ASSUME NEW a \in Addr PROVE DirOK(a)'
    <3>1. DirOK(a)
      BY <1>0, Zenon DEF CodeInv
    <3>2. CASE /\ failed' = failed
               /\ jit' = [jit EXCEPT ![r] = [rip |-> r, known |-> known]]
      BY <2>1, <3>1, <3>2, Zenon DEF DirOK
    <3>3. CASE /\ failed' = failed \cup {r}
               /\ jit' = [jit EXCEPT ![r] = old]
      BY <2>1, <3>1, <3>3, Zenon DEF DirOK
    <3> QED BY <1>25, <3>2, <3>3, Zenon DEF CheckMiss, Compile
  <2>3. failed \subseteq failed' /\ UNCHANGED <<status_code, pid, code_block, RIP, heap>>
    BY <1>25, Zenon DEF CheckMiss, Compile
  <2>4. ASSUME NEW s \in Slot PROVE CodeOK(s)'
    <3>1. CodeOK(s) /\ Same(s)
      BY <1>0, <2>3, SlotsSame, Zenon DEF CodeInv
    <3> QED BY <2>3, <3>1, CodeSame, Zenon
  <2> QED BY <2>2, <2>4, Zenon DEF CodeInv
<1>26. CASE CheckNoDir
  BY <1>26, <1>0, CodeFrame, Zenon DEF CheckNoDir
<1>27. CASE CheckEnd
  BY <1>27, <1>0, CodeFrame, Zenon DEF CheckEnd
<1>28. CASE StoreCopy
  <2>1. /\ idx \in Slot /\ status_code[idx] # normal /\ code_block[idx] # 0
        /\ \A b \in Block \ {code_block[idx]} : heap'[b] = heap[b]
    BY <1>28, <1>0, CopyEffect, Zenon
  <2>2. UNCHANGED <<status_code, pid, code_block, RIP, failed, jit>>
    BY <1>28, Zenon DEF StoreCopy
  <2>3. ASSUME NEW s \in Slot PROVE CodeOK(s)'
    <3>1. CodeOK(s) /\ Same(s)
      BY <1>0, <2>2, SlotsSame, Zenon DEF CodeInv
    <3>2. status_code[s] = normal => code_block[s] # code_block[idx]
      BY <1>0, <2>1, Zenon DEF TableInv, OwnBlock
    <3>3. code_block[s] \in Block
      BY Zenon DEF TypeInv, TypeOK, ExeType
    <3>4. status_code[s] = normal => heap'[code_block[s]] = heap[code_block[s]]
      BY <2>1, <3>2, <3>3, Zenon
    <3> QED BY <2>2, <3>1, <3>4, CodeSame, Zenon
  <2>4. ASSUME NEW a \in Addr PROVE DirOK(a)'
    BY <1>0, <2>2, Zenon DEF CodeInv, DirOK
  <2> QED BY <2>3, <2>4, Zenon DEF CodeInv
<1>29. CASE StoreStatus
  <2>1. /\ idx \in Slot /\ \A s \in Slot \ {idx} : Same(s)
        /\ snap[idx].RIP = RIP[idx] /\ snap[idx].RIP \in Addr
        /\ UNCHANGED <<code_block, RIP, heap, failed, jit>>
    BY <1>29, <1>0, StoreEffect, Zenon
  <2>2. ASSUME NEW s \in Slot \ {idx} PROVE CodeOK(s)'
    <3>1. CodeOK(s) /\ Same(s)
      BY <1>0, <2>1, Zenon DEF CodeInv
    <3> QED BY <2>1, <3>1, CodeSame, Zenon
  <2>3. ASSUME NEW s \in Slot, s = idx PROVE CodeOK(s)'
    <3>1. CASE status_code'[idx] = un_init
      BY <2>3, <3>1 DEF CodeOK
    <3>2. CASE Whole(code_block[idx]) /\ heap[code_block[idx]][0] = PktImage
      <4>1. PktImage = jit[RIP[s]] /\ PktImage # Null
        BY <2>1, <2>3, <3>2, Zenon DEF Whole, PktImage
      <4>2. DirOK(RIP[s])
        BY <1>0, <2>1, <2>3, Zenon DEF CodeInv
      <4>3. RIP[s] \notin failed => heap[code_block[s]][0].rip = RIP[s]
        BY <2>3, <3>2, <4>1, <4>2, Zenon DEF DirOK
      <4>4. Whole(code_block[s])'
        BY <2>1, <2>3, <3>2, Zenon DEF Whole
      <4> QED BY <2>1, <4>3, <4>4, Zenon DEF CodeOK
    <3> QED BY <1>29, <1>0, <3>1, <3>2, StoreEffect, Zenon
  <2>4. ASSUME NEW a \in Addr PROVE DirOK(a)'
    BY <1>0, <2>1, Zenon DEF CodeInv, DirOK
  <2> QED BY <2>2, <2>3, <2>4, Zenon DEF CodeInv
<1>30. CASE StoreNotFound
  BY <1>30, <1>0, AlwaysFound, Zenon
<1>31. CASE Restart
  <2>1. \A a \in Addr : jit'[a] = Null
    BY <1>31, Zenon DEF Restart
  <2>2. failed' = failed /\ UNCHANGED <<status_code, pid, code_block, RIP, heap>>
    BY <1>31, Zenon DEF Restart
  <2>3. ASSUME NEW s \in Slot PROVE CodeOK(s)'
    <3>1. CodeOK(s) /\ Same(s)
      BY <1>0, <2>2, SlotsSame, Zenon DEF CodeInv
    <3> QED BY <2>2, <3>1, CodeSame, Zenon
  <2> QED BY <2>1, <2>3, Zenon DEF CodeInv, DirOK
<1>32. CASE UNCHANGED vars
  BY <1>32, <1>0, CodeFrame, Zenon DEF vars
<1>33. ASSUME NEW t \in Pid, AddReload(t) PROVE CodeInv'
  BY <1>33, <1>0, CodeFrame, Zenon DEF AddReload
<1> QED
  BY <1>1, <1>2, <1>3, <1>4, <1>5, <1>6, <1>7, <1>8, <1>9, <1>10, <1>11, <1>12,
     <1>13, <1>14, <1>15, <1>16, <1>17, <1>18, <1>19, <1>20, <1>21, <1>22,
     <1>23, <1>24, <1>25, <1>26, <1>27, <1>28, <1>29, <1>30, <1>31, <1>32,
     <1>33, Zenon
  DEF Next, Thread, exe_on_call, exe_add, Daemon, sysfs_show, check, sysfs_store

-----------------------------------------------------------------------------
LEMMA InitSafe == Init => SafeInv
<1> SUFFICES ASSUME Init PROVE Safe
  BY Zenon DEF SafeInv
<1>1. /\ \A s \in Slot : status_code[s] = un_used /\ code_block[s] = 0
      /\ nblk = 0
  BY Zenon DEF Init
<1>2. \A t \in Pid : pc[t] = "user" /\ cand[t] = Null
  BY Zenon DEF Init
<1>3. dpc = "show" /\ \A s \in Slot : snap[s] = Null
  BY Zenon DEF Init
<1>4. \A a \in Addr : jit[a] = Null
  BY Zenon DEF Init
<1>5. AddInv
  BY <1>2, Zenon DEF AddInv, AddOK, Apart
<1>6. TableInv
  <2>1. ASSUME NEW s \in Slot PROVE SlotOK(s)
    <3>1. status_code[s] = un_used /\ code_block[s] <= nblk
      <4>1. status_code[s] = un_used /\ code_block[s] = 0 /\ nblk = 0
        BY <1>1, Zenon
      <4>2. code_block[s] <= nblk
        BY <4>1
      <4> QED BY <4>1, <4>2, Zenon
    <3> QED BY <3>1, Zenon DEF SlotOK
  <2>2. \A r, s \in Slot : OwnBlock(r, s)
    BY <1>1, Zenon DEF OwnBlock
  <2> QED BY <2>1, <2>2, Zenon DEF TableInv
<1>7. OwnerInv
  BY <1>2, Zenon DEF OwnerInv, OwnerOK, InChain
<1>8. SnapInv /\ WriteInv
  BY <1>3, Zenon DEF SnapInv, SnapOK, WriteInv
<1>9. CodeInv
  <2>1. \A s \in Slot : CodeOK(s)
    BY <1>1 DEF CodeOK
  <2>2. \A a \in Addr : DirOK(a)
    BY <1>4, Zenon DEF DirOK
  <2> QED BY <2>1, <2>2, Zenon DEF CodeInv
<1> QED BY <1>5, <1>6, <1>7, <1>8, <1>9, Zenon DEF Safe

(* An overlap of two calls of exe_add is remembered for good. *)
LEMMA RacedStays == TypeInv /\ [Next]_vars /\ ~ raced' => ~ raced
<1> SUFFICES ASSUME TypeInv, [Next]_vars, ~ raced' PROVE ~ raced
  BY Zenon
<1>1. ASSUME NEW t \in Pid, AddCheck(t) PROVE ~ raced
  BY <1>1, Zenon DEF AddCheck
<1>2. ASSUME NEW t \in Pid, Thread(t), ~ AddCheck(t) PROVE ~ raced
  BY <1>2, Zenon DEF Thread, exe_on_call, exe_add, Syscall, EnterBlock, LeaveChain,
     RunToSyscall, RunToIllegal, SyscallReturns, MissIgnored, MissTaken,
     RunWild, ReportTgt, ReportFrom, ReportStatus, AddReload, AddClaim,
     AddBlock, AddPublish, ReturnToUser
<1>3. CASE Daemon \/ Restart
  BY <1>3, Zenon DEF Daemon, Restart, sysfs_show, check, sysfs_store, ShowSkip,
     ShowHead, ShowTail, ShowEnd, CheckSkip, CheckSaved, CheckInit, CheckMiss,
     CheckNoDir, CheckEnd, StoreCopy, StoreStatus, StoreNotFound
<1>4. CASE UNCHANGED vars
  BY <1>4, Zenon DEF vars
<1> QED BY <1>1, <1>2, <1>3, <1>4, Zenon DEF Next

LEMMA SafeStep == TypeInv /\ SafeInv /\ [Next]_vars => SafeInv'
<1> SUFFICES ASSUME TypeInv, SafeInv, [Next]_vars, ~ raced' PROVE Safe'
  BY Zenon DEF SafeInv
<1>1. Safe
  BY RacedStays, Zenon DEF SafeInv
<1>2. AddInv' /\ TableInv' /\ OwnerInv'
  BY <1>1, AddStep, TableStep, OwnerStep, Zenon
<1>3. SnapInv' /\ WriteInv' /\ CodeInv'
  BY <1>1, SnapStep, WriteStep, CodeStep, Zenon
<1> QED BY <1>2, <1>3, Zenon DEF Safe

(* Spec keeps the two inductive invariants. *)
LEMMA InvariantsHold == Spec => [](TypeInv /\ SafeInv)
<1>1. Init => TypeInv /\ SafeInv
  BY InitType, InitSafe, Zenon
<1>2. TypeInv /\ SafeInv /\ [Next]_vars => (TypeInv /\ SafeInv)'
  BY TypeStep, SafeStep, Zenon
<1> QED BY <1>1, <1>2, PTL DEF Spec

(* The code a thread executes in the kernel (exe.c:90) is one whole image and,
   unless a compilation failed, the translation of the code at regs->ip: in
   every reachable state, for any number of threads and any sizes, as long as
   no two calls of exe_add have overlapped on a slot. *)
THEOREM CodeIsSound == Spec => []RunsSoundCode
<1>1. TypeInv /\ SafeInv => RunsSoundCode
  <2> SUFFICES ASSUME TypeInv, Safe, NEW t \in Pid, pc[t] = "run"
               PROVE  Whole(virt_ptr[t]) /\ (ip[t] \notin failed => Sound(t))
    BY Zenon DEF SafeInv, RunsSoundCode
  <2>1. /\ exe[t] \in Slot /\ status_code[exe[t]] = normal
        /\ RIP[exe[t]] = ip[t] /\ virt_ptr[t] = code_block[exe[t]]
    BY OwnFacts, Zenon DEF Safe, OwnerInv, OwnerOK, InChain
  <2> QED BY <2>1, Zenon DEF Safe, CodeInv, CodeOK, Sound
<1> QED BY <1>1, InvariantsHold, PTL

(* sysfs_store's memcpy (sys.c:48) never writes to a block that a thread is
   executing. *)
THEOREM BlocksStay == Spec => NoOverwrite
<1> DEFINE Stays == ~ raced' => \A t \in Pid : pc[t] = "run" =>
                        heap'[virt_ptr[t]] = heap[virt_ptr[t]]
<1>1. TypeInv /\ SafeInv /\ [Next]_vars => [Stays]_vars
  <2> SUFFICES ASSUME TypeInv, SafeInv, [Next]_vars, ~ raced',
                      NEW t \in Pid, pc[t] = "run"
               PROVE  heap'[virt_ptr[t]] = heap[virt_ptr[t]]
    BY Zenon
  <2>1. Safe
    BY RacedStays, Zenon DEF SafeInv
  <2>2. CASE StoreCopy
    <3>1. /\ exe[t] \in Slot /\ status_code[exe[t]] = normal
          /\ virt_ptr[t] = code_block[exe[t]]
      BY <2>1, OwnFacts, Zenon DEF Safe, OwnerInv, OwnerOK, InChain
    <3>2. /\ idx \in Slot /\ status_code[idx] # normal /\ code_block[idx] # 0
          /\ \A b \in Block \ {code_block[idx]} : heap'[b] = heap[b]
      BY <2>1, <2>2, CopyEffect, Zenon DEF Safe
    <3>3. code_block[exe[t]] # code_block[idx]
      BY <2>1, <3>1, <3>2, Zenon DEF Safe, TableInv, OwnBlock
    <3>4. code_block[exe[t]] \in Block
      BY <3>1, Zenon DEF TypeInv, TypeOK, ExeType
    <3> QED BY <3>1, <3>2, <3>3, <3>4, Zenon
  <2>3. ASSUME NEW u \in Pid, Thread(u) PROVE heap' = heap
    BY <2>3, Zenon DEF memVars, Thread, exe_on_call, exe_add, Syscall, EnterBlock,
       LeaveChain, RunToSyscall, RunToIllegal, SyscallReturns, MissIgnored,
       MissTaken, RunWild, ReportTgt, ReportFrom, ReportStatus, AddCheck,
       AddReload, AddClaim, AddBlock, AddPublish, ReturnToUser
  <2>4. ASSUME (Daemon /\ ~ StoreCopy) \/ Restart PROVE heap' = heap
    BY <2>4, Zenon DEF memVars, Daemon, Restart, sysfs_show, check, sysfs_store,
       ShowSkip, ShowHead, ShowTail, ShowEnd, CheckSkip, CheckSaved, CheckInit,
       CheckMiss, CheckNoDir, CheckEnd, StoreStatus, StoreNotFound
  <2>5. CASE UNCHANGED vars
    BY <2>5, Zenon DEF vars, memVars
  <2> QED BY <2>2, <2>3, <2>4, <2>5, Zenon DEF Next
<1> QED BY <1>1, InvariantsHold, PTL DEF Spec, NoOverwrite

-----------------------------------------------------------------------------
(* A directory exists since its first command; its image follows the misses
   of its table, unless a compilation has failed; a command that has been run
   has left its miss in the table; what is sent has been compiled for. *)
DirInv ==
    /\ \A a \in Addr : jit[a] # Null => <<a, Null>> \in hist
    /\ \A a \in Addr : jit[a] # Null /\ a \notin failed => jit[a].known = table[a]
    /\ \A a \in Addr, x \in AnyMiss : <<a, x>> \in hist => x \in table[a]
    /\ dpc \in {"copy", "mark"} => Command(snap[idx]) \in hist

LEMMA DirFrame ==
    ASSUME DirInv, UNCHANGED <<hist, jit, table, failed>>,
           dpc' \in {"copy", "mark"} =>
               dpc \in {"copy", "mark"} /\ UNCHANGED <<idx, snap>>
    PROVE  DirInv'
BY Zenon DEF DirInv, Command, MissOf

LEMMA InitDir == Init => DirInv
BY Zenon DEF Init, DirInv

LEMMA InitAdds ==
    ASSUME TypeInv, DirInv, CheckInit
    PROVE  DirInv'
<1> DEFINE r == snap[idx].RIP
<1>1. idx \in Slot /\ snap[idx] # Null
  BY IdxType, Zenon DEF CheckInit, Wanted, TypeInv, TypeOK
<1>2. r \in Addr
  BY <1>1, EntryFields, Zenon DEF TypeInv, TypeOK
<1>3. Command(snap[idx]) = <<r, Null>> /\ <<r, Null>> \notin hist
  BY Zenon DEF CheckInit, Command
<1>4. jit[r] = Null
  BY <1>2, <1>3, Zenon DEF DirInv
<1>5. \A x \in AnyMiss : <<r, x>> \notin hist
  BY <1>4, Zenon DEF TypeInv, DaemonInv
<1>6. /\ hist' = hist \cup {<<r, Null>>} /\ Compile(r, {}, Prebuilt)
      /\ UNCHANGED <<idx, snap>>
  BY <1>3, Zenon DEF CheckInit
<1>7. /\ table \in [Addr -> SUBSET AnyMiss] /\ jit \in [Addr -> Image \cup {Null}]
  BY Zenon DEF TypeInv, TypeOK, DaemonType
<1> HIDE DEF r
<1>8. /\ table'[r] = {}
      /\ r \notin failed' => jit'[r].known = {}
      /\ \A a \in Addr \ {r} : table'[a] = table[a] /\ jit'[a] = jit[a]
      /\ failed \subseteq failed'
  <2>1. \A a \in Addr : table'[a] = IF a = r THEN {} ELSE table[a]
    BY <1>2, <1>6, <1>7, Zenon DEF Compile
  <2>2. CASE /\ jit' = [jit EXCEPT ![r] = [rip |-> r, known |-> {}]]
             /\ UNCHANGED failed
    BY <1>2, <1>7, <2>1, <2>2, Zenon
  <2>3. CASE /\ jit' = [jit EXCEPT ![r] = Prebuilt]
             /\ failed' = failed \cup {r}
    BY <1>2, <1>7, <2>1, <2>3, Zenon
  <2> QED BY <1>6, <2>2, <2>3, Zenon DEF Compile
<1>9. \A a \in Addr, x \in AnyMiss : <<a, x>> \in hist' => <<a, x>> \in hist
  BY <1>6, NullAssumption, Zenon
<1>10. \A a \in Addr : jit'[a] # Null => <<a, Null>> \in hist'
  BY <1>6, <1>8, Zenon DEF DirInv
<1>11. ASSUME NEW a \in Addr, jit'[a] # Null, a \notin failed'
       PROVE  jit'[a].known = table'[a]
  <2>1. CASE a = r
    BY <1>8, <1>11, <2>1, Zenon
  <2>2. CASE a # r
    BY <1>8, <1>11, <2>2, Zenon DEF DirInv
  <2> QED BY <2>1, <2>2, Zenon
<1>12. \A a \in Addr, x \in AnyMiss : <<a, x>> \in hist' => x \in table'[a]
  BY <1>5, <1>8, <1>9, Zenon DEF DirInv
<1>13. Command(snap[idx])' \in hist'
  BY <1>3, <1>6, Zenon DEF Command, MissOf
<1> QED BY <1>10, <1>11, <1>12, <1>13, Zenon DEF DirInv

LEMMA MissAdds ==
    ASSUME TypeInv, DirInv, CheckMiss
    PROVE  DirInv'
<1> DEFINE r == snap[idx].RIP
           m == MissOf(snap[idx])
<1>1. idx \in Slot /\ snap[idx] # Null
  BY IdxType, Zenon DEF CheckMiss, Wanted, TypeInv, TypeOK
<1>2. r \in Addr /\ m \in AnyMiss
  BY <1>1, EntryFields, Zenon DEF CheckMiss, TypeInv, TypeOK
<1>3. Command(snap[idx]) = <<r, m>>
  <2>1. snap[idx].status_code # un_init
    <3>1. snap[idx].status_code \in Misses
      BY Zenon DEF CheckMiss
    <3> QED BY <3>1
  <2> HIDE DEF m
  <2>2. Command(snap[idx]) = <<r, MissOf(snap[idx])>>
    BY <2>1, Zenon DEF Command
  <2> QED BY <2>2, Zenon DEF m
<1>4. jit[r] # Null
  BY Zenon DEF CheckMiss
<1>5. /\ hist' = hist \cup {<<r, m>>} /\ Compile(r, table[r] \cup {m}, jit[r])
      /\ UNCHANGED <<idx, snap>>
  BY <1>3, Zenon DEF CheckMiss
<1>6. Command(snap[idx])' = <<r, m>>
  BY <1>3, <1>5, Zenon DEF Command, MissOf
<1>7. /\ table \in [Addr -> SUBSET AnyMiss] /\ jit \in [Addr -> Image \cup {Null}]
  BY Zenon DEF TypeInv, TypeOK, DaemonType
<1> HIDE DEF r, m
<1>8. /\ table'[r] = table[r] \cup {m}
      /\ r \notin failed' => jit'[r].known = table'[r]
      /\ \A a \in Addr \ {r} : table'[a] = table[a] /\ jit'[a] = jit[a]
      /\ failed \subseteq failed'
  <2>1. \A a \in Addr : table'[a] = IF a = r THEN table[r] \cup {m} ELSE table[a]
    BY <1>2, <1>5, <1>7, Zenon DEF Compile
  <2>2. CASE /\ jit' = [jit EXCEPT ![r] = [rip |-> r, known |-> table[r] \cup {m}]]
             /\ UNCHANGED failed
    BY <1>2, <1>7, <2>1, <2>2, Zenon
  <2>3. CASE /\ jit' = [jit EXCEPT ![r] = jit[r]]
             /\ failed' = failed \cup {r}
    BY <1>2, <1>7, <2>1, <2>3, Zenon
  <2> QED BY <1>5, <2>2, <2>3, Zenon DEF Compile
<1>9. \A a \in Addr, x \in AnyMiss :
          <<a, x>> \in hist' => <<a, x>> \in hist \/ (a = r /\ x = m)
  BY <1>5, Zenon
<1>10. \A a \in Addr : jit'[a] # Null => <<a, Null>> \in hist'
  BY <1>4, <1>5, <1>8, Zenon DEF DirInv
<1>11. ASSUME NEW a \in Addr, jit'[a] # Null, a \notin failed'
       PROVE  jit'[a].known = table'[a]
  <2>1. CASE a = r
    BY <1>8, <1>11, <2>1, Zenon
  <2>2. CASE a # r
    BY <1>8, <1>11, <2>2, Zenon DEF DirInv
  <2> QED BY <2>1, <2>2, Zenon
<1>12. \A a \in Addr, x \in AnyMiss : <<a, x>> \in hist' => x \in table'[a]
  BY <1>8, <1>9, Zenon DEF DirInv
<1>13. Command(snap[idx])' \in hist'
  BY <1>5, <1>6, Zenon
<1> QED BY <1>10, <1>11, <1>12, <1>13, Zenon DEF DirInv

LEMMA DirStep == TypeInv /\ DirInv /\ [Next]_vars => DirInv'
<1> SUFFICES ASSUME TypeInv, DirInv, [Next]_vars PROVE DirInv'
  BY Zenon
<1>1. ASSUME NEW t \in Pid, Thread(t) PROVE DirInv'
  <2>1. UNCHANGED daemonVars
    BY <1>1, Zenon DEF Thread, exe_on_call, exe_add, Syscall, EnterBlock, LeaveChain,
       RunToSyscall, RunToIllegal, SyscallReturns, MissIgnored, MissTaken,
       RunWild, ReportTgt, ReportFrom, ReportStatus, AddCheck, AddReload,
       AddClaim, AddBlock, AddPublish, ReturnToUser
  <2> QED BY <2>1, DirFrame, Zenon DEF daemonVars
<1>2. CASE sysfs_show
  BY <1>2, DirFrame, Zenon DEF sysfs_show, ShowSkip, ShowHead, ShowTail, ShowEnd
<1>3. CASE CheckSkip \/ CheckNoDir \/ CheckEnd
  BY <1>3, DirFrame, Zenon DEF CheckSkip, CheckNoDir, CheckEnd
<1>4. CASE CheckSaved
  BY <1>4, Zenon DEF CheckSaved, DirInv, Command, MissOf
<1>5. CASE CheckInit
  BY <1>5, InitAdds, Zenon
<1>6. CASE CheckMiss
  BY <1>6, MissAdds, Zenon
<1>7. CASE sysfs_store
  BY <1>7, DirFrame, Zenon DEF sysfs_store, StoreCopy, StoreStatus, StoreNotFound,
     PktSent
<1>8. CASE Restart
  BY <1>8, Zenon DEF Restart, DirInv
<1>9. CASE UNCHANGED vars
  BY <1>9, DirFrame, Zenon DEF vars, daemonVars
<1> QED
  BY <1>1, <1>2, <1>3, <1>4, <1>5, <1>6, <1>7, <1>8, <1>9, Zenon DEF Next, Daemon, check

(* The image write_sys sends for a miss (main.c:136-144) follows that miss,
   whether it has just been compiled or was compiled for another thread, for
   any number of threads, addresses and misses and after any number of
   restarts of the daemon. *)
THEOREM AnswerFollows == Spec => []AnswerHasMiss
<1>1. Init => TypeInv /\ DirInv
  BY InitType, InitDir, Zenon
<1>2. TypeInv /\ DirInv /\ [Next]_vars => (TypeInv /\ DirInv)'
  BY TypeStep, DirStep, Zenon
<1>3. TypeInv /\ DirInv => AnswerHasMiss
  <2> SUFFICES ASSUME TypeInv, DirInv, dpc \in {"copy", "mark"},
                      snap[idx].status_code \in Misses, snap[idx].RIP \notin failed
               PROVE  MissOf(snap[idx]) \in PktImage.known
    BY Zenon DEF AnswerHasMiss
  <2>1. idx \in Slot /\ snap[idx] # Null /\ snap[idx].RIP \in Addr
    BY EntryType, Zenon DEF TypeInv, TypeOK
  <2>2. MissOf(snap[idx]) \in AnyMiss
    BY <2>1, EntryFields, Zenon DEF TypeInv, TypeOK
  <2>3. <<snap[idx].RIP, MissOf(snap[idx])>> \in hist
    <3>1. Command(snap[idx]) \in hist
      BY Zenon DEF DirInv
    <3>2. snap[idx].status_code # un_init
      <4> HIDE DEF un_init, Misses
      <4> QED BY StatusApart, Zenon
    <3> QED BY <3>1, <3>2, Zenon DEF Command
  <2>4. PktImage # Null
    BY Zenon DEF TypeInv, DaemonInv
  <2> QED BY <2>1, <2>2, <2>3, <2>4, Zenon DEF DirInv, PktImage
<1> QED BY <1>1, <1>2, <1>3, PTL DEF Spec

-----------------------------------------------------------------------------
(* The misses the image in block b would take. *)
Unknown(b) == Exit \ heap[b][0].known

(* The miss that the fields of slot s spell. *)
MissAt(s) == [kind |-> status_code[s], tgt |-> tgt_addr[s],
              from |-> IF status_code[s] = call_miss THEN Null ELSE jump_from[s]]

(* A reported miss is one the image lacks, until the answer is being copied. *)
SlotMiss(s) ==
    status_code[s] \in Misses /\ ~ (s = idx /\ dpc = "mark") =>
        MissAt(s) \in Unknown(code_block[s])

(* What the daemon has read of a miss is what the fields say. *)
SnapMiss(s) ==
    /\ snap[s] # Null /\ snap[s].status_code \in Misses
    /\ ~ Writing(s) /\ ~ (s = idx /\ dpc = "tail")
    => snap[s].tgt_addr = tgt_addr[s] /\ snap[s].jump_from = jump_from[s]

(* A thread that reports a miss has stored the fields it has come past. *)
ThreadMiss(t) ==
    pc[t] \in InReport =>
        /\ miss[t] \in Unknown(code_block[exe[t]])
        /\ pc[t] \in {"from", "report"} => tgt_addr[exe[t]] = miss[t].tgt
        /\ pc[t] = "report" /\ miss[t].kind # call_miss =>
               jump_from[exe[t]] = miss[t].from

(* The inductive strengthening of RequestIsCurrent, on top of Safe. *)
MissInv == /\ \A s \in Slot : SlotMiss(s) /\ SnapMiss(s)
           /\ \A t \in Pid : ThreadMiss(t)

(* A step that leaves the addresses slot s reports alone. *)
Kept(s) == tgt_addr'[s] = tgt_addr[s] /\ jump_from'[s] = jump_from[s]

LEMMA SlotMissSame ==
    ASSUME NEW s \in Slot, SlotMiss(s),
           status_code'[s] \in Misses =>
               /\ status_code'[s] = status_code[s] /\ Kept(s)
               /\ code_block'[s] = code_block[s]
               /\ heap'[code_block[s]] = heap[code_block[s]]
               /\ ~ (s = idx' /\ dpc' = "mark") => ~ (s = idx /\ dpc = "mark")
    PROVE  SlotMiss(s)'
<1> SUFFICES ASSUME status_code'[s] \in Misses, ~ (s = idx' /\ dpc' = "mark")
             PROVE  MissAt(s)' \in Unknown(code_block[s])'
  BY Zenon DEF SlotMiss
<1>1. MissAt(s)' = MissAt(s)
  BY Zenon DEF MissAt, Kept
<1>2. Unknown(code_block[s])' = Unknown(code_block[s])
  BY Zenon DEF Unknown
<1>3. MissAt(s) \in Unknown(code_block[s])
  BY Zenon DEF SlotMiss
<1> QED BY <1>1, <1>2, <1>3, Zenon

LEMMA SnapMissSame ==
    ASSUME NEW s \in Slot, SnapMiss(s),
           snap'[s] # Null =>
               /\ snap'[s] = snap[s]
               /\ snap[s].status_code \in Misses => Kept(s)
               /\ Writing(s) \/ (s = idx /\ dpc = "tail") =>
                      Writing(s)' \/ (s = idx' /\ dpc' = "tail")
    PROVE  SnapMiss(s)'
BY Zenon DEF SnapMiss, Kept

LEMMA ThreadMissSame ==
    ASSUME NEW u \in Pid, ThreadMiss(u),
           pc'[u] \in InReport =>
               /\ pc'[u] = pc[u] /\ exe'[u] = exe[u] /\ miss'[u] = miss[u]
               /\ Kept(exe[u]) /\ code_block'[exe[u]] = code_block[exe[u]]
               /\ heap'[code_block[exe[u]]] = heap[code_block[exe[u]]]
    PROVE  ThreadMiss(u)'
BY Zenon DEF ThreadMiss, Unknown, Kept

(* A step of thread t that stores nothing an entry, a block or the daemon
   would show, and does not report. *)
LEMMA QuietStep ==
    ASSUME TypeInv, MissInv, NEW t \in Pid,
           UNCHANGED <<tgt_addr, jump_from, status_code, code_block, heap, miss>>,
           UNCHANGED <<snap, idx, dpc>>,
           pc'[t] \notin InReport,
           \A u \in Pid \ {t} : pc'[u] = pc[u] /\ exe'[u] = exe[u]
    PROVE  MissInv'
<1>1. ASSUME NEW s \in Slot PROVE SlotMiss(s)' /\ SnapMiss(s)'
  <2>1. SlotMiss(s) /\ SnapMiss(s) /\ Kept(s) /\ Writing(s)' = Writing(s)
    BY Zenon DEF MissInv, Kept, Writing
  <2> QED BY <2>1, SlotMissSame, SnapMissSame, Zenon
<1>2. ASSUME NEW u \in Pid PROVE ThreadMiss(u)'
  <2>1. ThreadMiss(u) /\ Kept(exe[u])
    BY Zenon DEF MissInv, Kept
  <2> QED BY <2>1, ThreadMissSame, Zenon
<1> QED BY <1>1, <1>2, Zenon DEF MissInv

(* Two threads in the chaining loop are in different slots. *)
LEMMA OwnersApart ==
    ASSUME TypeInv, OwnerInv, NEW t \in Pid, NEW u \in Pid, t # u,
           pc[t] \in InChain, pc[u] \in InChain
    PROVE  exe[t] # exe[u]
BY OwnFacts, Zenon

(* A thread that reports a miss stores to a slot of its own, which is normal
   and which the daemon has not read as a miss. *)
LEMMA StoreField ==
    ASSUME TypeInv, OwnerInv, SnapInv, MissInv, NEW t \in Pid, pc[t] \in InReport,
           \A s \in Slot \ {exe[t]} : Kept(s),
           UNCHANGED <<status_code, code_block, heap, miss, exe>>,
           UNCHANGED <<snap, idx, dpc>>,
           ThreadMiss(t)',
           \A u \in Pid \ {t} : pc'[u] = pc[u]
    PROVE  MissInv'
<1>1. exe[t] \in Slot /\ status_code[exe[t]] = normal
  BY OwnFacts, Zenon DEF InChain, InReport
<1>2. ASSUME NEW s \in Slot PROVE SlotMiss(s)' /\ SnapMiss(s)'
  <2>1. SlotMiss(s) /\ SnapMiss(s) /\ Writing(s)' = Writing(s)
    BY Zenon DEF MissInv, Writing
  <2>2. status_code'[s] \in Misses => Kept(s)
    <3>1. CASE s = exe[t]
      <4>1. status_code'[s] = normal
        BY <1>1, <3>1, Zenon
      <4> HIDE DEF normal, Misses
      <4> QED BY <4>1, StatusApart, Zenon
    <3>2. CASE s # exe[t]
      BY <3>2, Zenon
    <3> QED BY <3>1, <3>2, Zenon
  <2>3. snap[s] # Null /\ snap[s].status_code \in Misses => Kept(s)
    <3>1. CASE s = exe[t]
      <4>1. SnapOK(s) /\ status_code[s] = normal
        BY <1>1, <3>1, Zenon DEF SnapInv
      <4>2. snap[s] # Null => snap[s].status_code = normal
        BY <4>1, Zenon DEF SnapOK
      <4> HIDE DEF normal, Misses
      <4> QED BY <4>2, StatusApart, Zenon
    <3>2. CASE s # exe[t]
      BY <3>2, Zenon
    <3> QED BY <3>1, <3>2, Zenon
  <2> QED BY <2>1, <2>2, <2>3, SlotMissSame, SnapMissSame, Zenon
<1>3. ASSUME NEW u \in Pid \ {t} PROVE ThreadMiss(u)'
  <2>1. ThreadMiss(u)
    BY Zenon DEF MissInv
  <2>2. pc[u] \in InReport => Kept(exe[u])
    <3> SUFFICES ASSUME pc[u] \in InReport PROVE Kept(exe[u])
      BY Zenon
    <3>1. exe[u] \in Slot /\ exe[u] # exe[t]
      BY OwnFacts, OwnersApart, Zenon DEF InChain, InReport
    <3> QED BY <3>1, Zenon
  <2> QED BY <2>1, <2>2, ThreadMissSame, Zenon
<1> QED BY <1>2, <1>3, Zenon DEF MissInv

LEMMA ThreadMissStep ==
    ASSUME TypeInv, Safe, MissInv, NEW t \in Pid, Thread(t)
    PROVE  MissInv'
<1>0. AddInv /\ TableInv /\ OwnerInv /\ SnapInv
  BY Zenon DEF Safe
<1> USE DEF exeVars, memVars, daemonVars, ThreadType
<1>1. ThreadType
  BY Zenon DEF TypeInv, TypeOK
<1>2. CASE Syscall(t) \/ RunToSyscall(t) \/ RunToIllegal(t) \/ RunWild(t)
           \/ AddCheck(t) \/ AddReload(t) \/ AddClaim(t) \/ ReturnToUser(t)
  <2>1. /\ pc'[t] \notin InReport
        /\ \A u \in Pid \ {t} : pc'[u] = pc[u] /\ exe'[u] = exe[u]
    BY <1>1, <1>2, Zenon DEF Syscall, RunToSyscall, RunToIllegal, RunWild, AddCheck,
       AddReload, AddClaim, ReturnToUser, Goto, InReport, threadVars
  <2> QED BY <1>2, <2>1, QuietStep, Zenon DEF Syscall, RunToSyscall, RunToIllegal,
     RunWild, AddCheck, AddReload, AddClaim, ReturnToUser, threadVars
<1>3. CASE EnterBlock(t) \/ LeaveChain(t) \/ SyscallReturns(t) \/ MissIgnored(t)
  <2>1. pc'[t] \notin InReport
    BY <1>1, <1>3, Zenon DEF EnterBlock, LeaveChain, SyscallReturns, MissIgnored, Goto,
       InReport
  <2>2. \A u \in Pid \ {t} : pc'[u] = pc[u] /\ exe'[u] = exe[u]
    BY <1>1, <1>3, Zenon DEF EnterBlock, LeaveChain, SyscallReturns, MissIgnored, Goto
  <2> QED BY <1>3, <2>1, <2>2, QuietStep, Zenon DEF EnterBlock, LeaveChain,
     SyscallReturns, MissIgnored
<1>4. CASE MissTaken(t)
  <2>1. /\ pc[t] = "run" /\ pc'[t] = "tgt"
        /\ \A u \in Pid \ {t} : pc'[u] = pc[u] /\ miss'[u] = miss[u]
        /\ miss'[t] \in Exit \ heap[virt_ptr[t]][0].known
    BY <1>1, <1>4, Zenon DEF MissTaken, Goto
  <2>2. virt_ptr[t] = code_block[exe[t]]
    BY <1>0, <2>1, Zenon DEF OwnerInv, OwnerOK
  <2>3. UNCHANGED <<tgt_addr, jump_from, status_code, code_block, heap, exe,
                    snap, idx, dpc>>
    BY <1>4, Zenon DEF MissTaken
  <2>4. ThreadMiss(t)'
    BY <2>1, <2>2, <2>3, Zenon DEF ThreadMiss, Unknown
  <2>5. ASSUME NEW u \in Pid \ {t} PROVE ThreadMiss(u)'
    <3>1. ThreadMiss(u) /\ Kept(exe[u])
      BY <2>3, Zenon DEF MissInv, Kept
    <3> QED BY <2>1, <2>3, <3>1, ThreadMissSame, Zenon
  <2>6. ASSUME NEW s \in Slot PROVE SlotMiss(s)' /\ SnapMiss(s)'
    <3>1. SlotMiss(s) /\ SnapMiss(s) /\ Kept(s) /\ Writing(s)' = Writing(s)
      BY <2>3, Zenon DEF MissInv, Kept, Writing
    <3> QED BY <2>3, <3>1, SlotMissSame, SnapMissSame, Zenon
  <2> QED BY <2>4, <2>5, <2>6, Zenon DEF MissInv
<1>5. CASE ReportTgt(t)
  <2>1. /\ pc[t] = "tgt" /\ \A u \in Pid \ {t} : pc'[u] = pc[u]
        /\ pc'[t] = IF miss[t].kind = call_miss THEN "report" ELSE "from"
    BY <1>1, <1>5, Zenon DEF ReportTgt, Goto
  <2>2. /\ tgt_addr'[exe[t]] = ip[t]
        /\ \A s \in Slot \ {exe[t]} : Kept(s)
    BY <1>1, <1>5, Zenon DEF ReportTgt, Kept, TypeInv, TypeOK, ExeType
  <2>3. ip[t] = miss[t].tgt /\ ThreadMiss(t)
    BY <2>1, Zenon DEF TypeInv, ThreadInv, ThreadOK, InReport, MissInv
  <2>4. UNCHANGED <<status_code, code_block, heap, miss, exe, snap, idx, dpc>>
    BY <1>5, Zenon DEF ReportTgt
  <2>5. ThreadMiss(t)'
    BY <2>1, <2>2, <2>3, <2>4, Zenon DEF ThreadMiss, Unknown, InReport
  <2> QED BY <1>0, <2>1, <2>2, <2>4, <2>5, StoreField, Zenon DEF InReport
<1>6. CASE ReportFrom(t)
  <2>1. /\ pc[t] = "from" /\ \A u \in Pid \ {t} : pc'[u] = pc[u]
        /\ pc'[t] = "report"
    BY <1>1, <1>6, Zenon DEF ReportFrom, Goto
  <2>2. /\ jump_from'[exe[t]] = miss[t].from
        /\ \A s \in Slot \ {exe[t]} : Kept(s)
    BY <1>1, <1>6, Zenon DEF ReportFrom, Kept, TypeInv, TypeOK, ExeType
  <2>3. ThreadMiss(t)
    BY Zenon DEF MissInv
  <2>4. UNCHANGED <<tgt_addr, status_code, code_block, heap, miss, exe, snap,
                    idx, dpc>>
    BY <1>6, Zenon DEF ReportFrom
  <2>5. ThreadMiss(t)'
    BY <2>1, <2>2, <2>3, <2>4, Zenon DEF ThreadMiss, Unknown, InReport
  <2> QED BY <1>0, <2>1, <2>2, <2>4, <2>5, StoreField, Zenon DEF InReport
<1>7. CASE ReportStatus(t)
  <2>1. /\ exe[t] \in Slot /\ pc'[t] = "lookup"
        /\ \A s \in Slot \ {exe[t]} : Same(s)
        /\ \A u \in Pid \ {t} : pc'[u] = pc[u]
        /\ UNCHANGED <<code_block, tgt_addr, jump_from, heap, exe, snap, idx, dpc>>
    BY <1>0, <1>7, ReportEffect, Zenon
  <2>2. /\ pc[t] = "report" /\ status_code'[exe[t]] = miss[t].kind
        /\ \A u \in Pid \ {t} : miss'[u] = miss[u]
    BY <1>1, <1>7, <2>1, Zenon DEF ReportStatus, Goto, TypeInv, TypeOK, ExeType
  <2>3. /\ miss[t] \in Unknown(code_block[exe[t]])
        /\ tgt_addr[exe[t]] = miss[t].tgt
        /\ miss[t].kind # call_miss => jump_from[exe[t]] = miss[t].from
    BY <2>2, Zenon DEF MissInv, ThreadMiss, InReport
  <2>4. ASSUME NEW s \in Slot, s = exe[t] PROVE SlotMiss(s)'
    <3>1. /\ miss[t] \in [kind : Misses, from : Addr \cup {Null}, tgt : Addr]
          /\ miss[t].kind = call_miss => miss[t].from = Null
      BY <2>3, ExitAssumption, Zenon DEF Unknown
    <3>2. MissAt(s)' = miss[t]
      BY <2>1, <2>2, <2>3, <2>4, <3>1, Zenon DEF MissAt
    <3>3. Unknown(code_block[s])' = Unknown(code_block[s])
      BY <2>1, Zenon DEF Unknown
    <3>4. (MissAt(s) \in Unknown(code_block[s]))'
      BY <2>3, <2>4, <3>2, <3>3, Zenon
    <3> QED BY <3>4, Zenon DEF SlotMiss
  <2>5. ASSUME NEW s \in Slot \ {exe[t]} PROVE SlotMiss(s)'
    <3>1. SlotMiss(s) /\ Kept(s) /\ Same(s)
      BY <2>1, Zenon DEF MissInv, Kept
    <3> QED BY <2>1, <3>1, SlotMissSame, Zenon DEF Same
  <2>6. ASSUME NEW s \in Slot PROVE SnapMiss(s)'
    <3>1. SnapMiss(s) /\ Kept(s) /\ Writing(s)' = Writing(s)
      BY <2>1, Zenon DEF MissInv, Kept, Writing
    <3> QED BY <2>1, <3>1, SnapMissSame, Zenon
  <2>7. ASSUME NEW u \in Pid PROVE ThreadMiss(u)'
    <3>1. ThreadMiss(u) /\ Kept(exe[u])
      BY <2>1, Zenon DEF MissInv, Kept
    <3>2. CASE u = t
      BY <2>1, <3>2, Zenon DEF ThreadMiss, InReport
    <3>3. CASE u # t
      BY <2>1, <2>2, <3>1, <3>3, ThreadMissSame, Zenon
    <3> QED BY <3>2, <3>3, Zenon
  <2> QED BY <2>4, <2>5, <2>6, <2>7, Zenon DEF MissInv
<1>8. CASE AddBlock(t) \/ AddPublish(t)
  <2>1. /\ CandSlot(t) \in Slot /\ status_code[CandSlot(t)] = un_used
        /\ \A s \in Slot \ {CandSlot(t)} : Same(s)
        /\ status_code'[CandSlot(t)] \in {un_used, un_init}
        /\ UNCHANGED <<tgt_addr, jump_from, heap, exe, miss, snap, idx, dpc>>
    BY <1>0, <1>8, BlockEffect, PublishEffect, Zenon
  <2>2. /\ \A u \in Pid \ {t} : pc'[u] = pc[u]
        /\ pc'[t] \notin InReport
    BY <1>1, <1>8, Zenon DEF AddBlock, AddPublish, Goto, InReport
  <2>3. ASSUME NEW s \in Slot PROVE SlotMiss(s)'
    <3>1. SlotMiss(s) /\ Kept(s)
      BY <2>1, Zenon DEF MissInv, Kept
    <3>2. status_code'[s] \in Misses => Same(s)
      <4>1. CASE s = CandSlot(t)
        <5>1. status_code'[s] \in {un_used, un_init}
          BY <2>1, <4>1, Zenon
        <5> QED BY <5>1
      <4>2. CASE s # CandSlot(t)
        BY <2>1, <4>2, Zenon
      <4> QED BY <4>1, <4>2, Zenon
    <3> QED BY <2>1, <3>1, <3>2, SlotMissSame, Zenon DEF Same
  <2>4. ASSUME NEW s \in Slot PROVE SnapMiss(s)'
    <3>1. SnapMiss(s) /\ Kept(s) /\ Writing(s)' = Writing(s)
      BY <2>1, Zenon DEF MissInv, Kept, Writing
    <3> QED BY <2>1, <3>1, SnapMissSame, Zenon
  <2>5. ASSUME NEW u \in Pid PROVE ThreadMiss(u)'
    <3>1. ThreadMiss(u) /\ Kept(exe[u])
      BY <2>1, Zenon DEF MissInv, Kept
    <3>2. pc[u] \in InReport => code_block'[exe[u]] = code_block[exe[u]]
      <4> SUFFICES ASSUME pc[u] \in InReport
                   PROVE  code_block'[exe[u]] = code_block[exe[u]]
        BY Zenon
      <4>1. exe[u] \in Slot /\ status_code[exe[u]] = normal
        BY <1>0, OwnFacts, Zenon DEF InReport, InChain
      <4>2. exe[u] # CandSlot(t)
        <5> HIDE DEF normal, un_used
        <5> QED BY <2>1, <4>1, StatusApart, Zenon
      <4>3. Same(exe[u])
        BY <2>1, <4>1, <4>2, Zenon
      <4> QED BY <4>3, Zenon DEF Same
    <3> QED BY <2>1, <2>2, <3>1, <3>2, ThreadMissSame, Zenon
  <2> QED BY <2>3, <2>4, <2>5, Zenon DEF MissInv
<1> QED
  BY <1>2, <1>3, <1>4, <1>5, <1>6, <1>7, <1>8, Zenon DEF Thread, exe_on_call, exe_add

LEMMA DaemonMissStep ==
    ASSUME TypeInv, Safe, MissInv, Daemon \/ Restart
    PROVE  MissInv'
<1>0. TableInv /\ OwnerInv /\ SnapInv /\ WriteInv
  BY Zenon DEF Safe
<1> USE DEF exeVars, memVars, threadVars
<1>1. /\ dpc \in {"show", "tail", "check", "copy", "mark", "dead"}
      /\ snap \in [Slot -> Entry \cup {Null}]
  BY Zenon DEF TypeInv, TypeOK, DaemonType
<1>2. UNCHANGED <<threadVars, tgt_addr, jump_from, code_block>>
  BY Zenon DEF Daemon, Restart, sysfs_show, check, sysfs_store, ShowSkip, ShowHead,
     ShowTail, ShowEnd, CheckSkip, CheckSaved, CheckInit, CheckMiss, CheckNoDir,
     CheckEnd, StoreCopy, StoreStatus, StoreNotFound
<1>3. \A s : Kept(s)
  BY <1>2, Zenon DEF Kept
<1>4. ASSUME UNCHANGED heap, NEW u \in Pid PROVE ThreadMiss(u)'
  BY <1>2, <1>3, <1>4, ThreadMissSame, Zenon DEF MissInv
<1>5. ASSUME UNCHANGED <<heap, status_code>>, dpc # "mark", NEW s \in Slot
      PROVE  SlotMiss(s)'
  BY <1>2, <1>3, <1>5, SlotMissSame, Zenon DEF MissInv
<1>6. CASE ShowSkip \/ ShowEnd \/ check \/ Restart
  <2>1. /\ dpc \notin {"tail", "mark"} /\ UNCHANGED <<heap, status_code>>
    BY <1>6, Zenon DEF ShowSkip, ShowEnd, check, Restart, CheckSkip, CheckSaved,
       CheckInit, CheckMiss, CheckNoDir, CheckEnd
  <2>2. CASE dpc = "copy" \/ Restart
    <3>1. \A s \in Slot : snap'[s] = Null
      BY <1>6, <2>2, Zenon DEF Restart, ShowSkip, ShowEnd, check, CheckSkip,
         CheckSaved, CheckInit, CheckMiss, CheckNoDir, CheckEnd
    <3>2. \A s \in Slot : SnapMiss(s)'
      BY <3>1, Zenon DEF SnapMiss
    <3> QED BY <1>4, <1>5, <2>1, <3>2, Zenon DEF MissInv
  <2>3. CASE dpc # "copy" /\ ~ Restart
    <3>1. ASSUME NEW s \in Slot PROVE SnapMiss(s)'
      <4>1. snap'[s] = snap[s] \/ snap'[s] = Null
        BY <1>1, <1>6, <2>3, Zenon DEF ShowSkip, ShowEnd, check, CheckSkip,
           CheckSaved, CheckInit, CheckMiss, CheckNoDir, CheckEnd, NextEntry
      <4>2. SnapMiss(s) /\ ~ Writing(s)
        BY <2>1, <2>3, Zenon DEF MissInv, Writing
      <4> QED BY <1>3, <2>1, <4>1, <4>2, SnapMissSame, Zenon
    <3> QED BY <1>4, <1>5, <2>1, <3>1, Zenon DEF MissInv
  <2> QED BY <2>2, <2>3, Zenon
<1>7. CASE ShowHead
  <2>1. /\ dpc = "show" /\ dpc' = "tail" /\ UNCHANGED <<heap, status_code, idx>>
        /\ \A s \in Slot \ {idx} : snap'[s] = snap[s]
    BY <1>1, <1>7, Zenon DEF ShowHead
  <2>2. ASSUME NEW s \in Slot PROVE SnapMiss(s)'
    <3>1. CASE s = idx
      BY <2>1, <3>1, Zenon DEF SnapMiss
    <3>2. CASE s # idx
      <4>1. SnapMiss(s) /\ ~ Writing(s) /\ snap'[s] = snap[s]
        BY <2>1, <3>2, Zenon DEF MissInv, Writing
      <4> QED BY <1>3, <2>1, <4>1, SnapMissSame, Zenon
    <3> QED BY <3>1, <3>2, Zenon
  <2> QED BY <1>4, <1>5, <2>1, <2>2, Zenon DEF MissInv
<1>8. CASE ShowTail
  <2>1. idx \in Slot /\ snap[idx] \in Entry
    BY <1>8, EntryType, Zenon DEF ShowTail, TypeInv, TypeOK
  <2>2. /\ dpc = "tail" /\ UNCHANGED <<heap, status_code>>
        /\ \A s \in Slot \ {idx} : snap'[s] = snap[s]
    BY <1>1, <1>8, <2>1, Zenon DEF ShowTail
  <2>3. snap'[idx].tgt_addr = tgt_addr[idx] /\ snap'[idx].jump_from = jump_from[idx]
    BY <1>1, <1>8, <2>1, Zenon DEF ShowTail, Entry
  <2>4. ASSUME NEW s \in Slot PROVE SnapMiss(s)'
    <3>1. CASE s = idx
      BY <1>2, <2>3, <3>1, Zenon DEF SnapMiss
    <3>2. CASE s # idx
      <4>1. SnapMiss(s) /\ ~ Writing(s) /\ snap'[s] = snap[s]
        BY <2>2, <3>2, Zenon DEF MissInv, Writing
      <4> QED BY <1>3, <2>2, <3>2, <4>1, SnapMissSame, Zenon
    <3> QED BY <3>1, <3>2, Zenon
  <2> QED BY <1>4, <1>5, <2>2, <2>4, Zenon DEF MissInv
<1>9. CASE StoreCopy
  <2>1. /\ dpc = "copy" /\ dpc' = "mark" /\ idx \in Slot
        /\ status_code[idx] # normal /\ code_block[idx] # 0
        /\ \A b \in Block \ {code_block[idx]} : heap'[b] = heap[b]
        /\ UNCHANGED <<status_code, idx, snap>>
    BY <1>0, <1>9, CopyEffect, Zenon
  <2>2. ASSUME NEW s \in Slot \ {idx} PROVE heap'[code_block[s]] = heap[code_block[s]]
    <3>1. code_block[s] # code_block[idx] /\ code_block[s] \in Block
      BY <1>0, <2>1, Zenon DEF TableInv, OwnBlock, TypeInv, TypeOK, ExeType
    <3> QED BY <2>1, <3>1, Zenon
  <2>3. ASSUME NEW s \in Slot PROVE SlotMiss(s)'
    <3>1. CASE s = idx
      BY <2>1, <3>1, Zenon DEF SlotMiss
    <3>2. CASE s # idx
      BY <1>2, <1>3, <2>1, <2>2, <3>2, SlotMissSame, Zenon DEF MissInv
    <3> QED BY <3>1, <3>2, Zenon
  <2>4. ASSUME NEW s \in Slot PROVE SnapMiss(s)'
    <3>1. SnapMiss(s) /\ Writing(s)' = Writing(s)
      BY <2>1, Zenon DEF MissInv, Writing
    <3> QED BY <1>3, <2>1, <3>1, SnapMissSame, Zenon
  <2>5. ASSUME NEW u \in Pid PROVE ThreadMiss(u)'
    <3>1. ThreadMiss(u)
      BY Zenon DEF MissInv
    <3>2. pc[u] \in InReport => heap'[code_block[exe[u]]] = heap[code_block[exe[u]]]
      <4> SUFFICES ASSUME pc[u] \in InReport
                   PROVE  heap'[code_block[exe[u]]] = heap[code_block[exe[u]]]
        BY Zenon
      <4>1. exe[u] \in Slot /\ status_code[exe[u]] = normal
        BY <1>0, OwnFacts, Zenon DEF InReport, InChain
      <4> QED BY <2>1, <2>2, <4>1, Zenon
    <3> QED BY <1>2, <1>3, <3>1, <3>2, ThreadMissSame, Zenon
  <2> QED BY <2>3, <2>4, <2>5, Zenon DEF MissInv
<1>10. CASE StoreStatus
  <2>1. /\ dpc = "mark" /\ idx \in Slot /\ UNCHANGED heap
        /\ \A s \in Slot \ {idx} : Same(s)
    BY <1>0, <1>10, StoreEffect, Zenon
  <2>2. /\ status_code'[idx] \notin Misses
        /\ \/ dpc' = "copy" /\ UNCHANGED <<idx, snap>>
           \/ snap' = [snap EXCEPT ![idx] = Null]
    <3>1. \/ status_code'[idx] = un_init /\ dpc' = "copy" /\ UNCHANGED <<idx, snap>>
          \/ status_code'[idx] = normal /\ snap' = [snap EXCEPT ![idx] = Null]
      BY <1>0, <1>10, StoreEffect, Zenon
    <3>2. status_code'[idx] \notin Misses
      BY <3>1
    <3> QED BY <3>1, <3>2, Zenon
  <2>3. ASSUME NEW s \in Slot PROVE SlotMiss(s)'
    <3>1. CASE s = idx
      BY <2>2, <3>1, Zenon DEF SlotMiss
    <3>2. CASE s # idx
      <4>1. SlotMiss(s) /\ Same(s)
        BY <2>1, <3>2, Zenon DEF MissInv
      <4> QED BY <1>2, <1>3, <2>1, <3>2, <4>1, SlotMissSame, Zenon DEF Same
    <3> QED BY <3>1, <3>2, Zenon
  <2>4. ASSUME NEW s \in Slot PROVE SnapMiss(s)'
    <3>1. SnapMiss(s)
      BY Zenon DEF MissInv
    <3>2. CASE dpc' = "copy" /\ UNCHANGED <<idx, snap>>
      <4>1. Writing(s)' = Writing(s)
        BY <2>1, <3>2, Zenon DEF Writing
      <4> QED BY <1>3, <2>1, <3>1, <3>2, <4>1, SnapMissSame, Zenon
    <3>3. CASE snap' = [snap EXCEPT ![idx] = Null]
      <4>1. CASE s = idx
        <5>1. snap'[s] = Null
          BY <1>1, <3>3, <4>1, Zenon
        <5> QED BY <5>1, Zenon DEF SnapMiss
      <4>2. CASE s # idx
        <5>1. snap'[s] = snap[s] /\ ~ Writing(s)
          BY <1>1, <3>3, <4>2, Zenon DEF Writing
        <5> QED BY <1>3, <3>1, <4>2, <5>1, SnapMissSame, Zenon
      <4> QED BY <4>1, <4>2, Zenon
    <3> QED BY <2>2, <3>2, <3>3, Zenon
  <2> QED BY <1>4, <2>1, <2>3, <2>4, Zenon DEF MissInv
<1> QED
  BY <1>0, <1>6, <1>7, <1>8, <1>9, <1>10, AlwaysFound, Zenon DEF Daemon, sysfs_show,
     sysfs_store

LEMMA InitMiss == Init => MissInv
<1> SUFFICES ASSUME Init PROVE MissInv
  BY Zenon
<1>1. /\ \A s \in Slot : status_code[s] = un_used /\ snap[s] = Null
      /\ \A t \in Pid : pc[t] = "user"
  BY Zenon DEF Init
<1>2. \A s \in Slot : SlotMiss(s)
  <2> HIDE DEF un_used, Misses
  <2> QED BY <1>1, StatusApart, Zenon DEF SlotMiss
<1>3. \A s \in Slot : SnapMiss(s)
  BY <1>1, Zenon DEF SnapMiss
<1>4. \A t \in Pid : ThreadMiss(t)
  BY <1>1, Zenon DEF ThreadMiss, InReport
<1> QED BY <1>2, <1>3, <1>4, Zenon DEF MissInv

LEMMA MissStep ==
    TypeInv /\ SafeInv /\ (~ raced => MissInv) /\ [Next]_vars =>
        (~ raced => MissInv)'
<1> SUFFICES ASSUME TypeInv, SafeInv, ~ raced => MissInv, [Next]_vars, ~ raced'
             PROVE  MissInv'
  BY Zenon
<1>1. Safe /\ MissInv
  BY RacedStays, Zenon DEF SafeInv
<1>2. CASE UNCHANGED vars
  BY <1>1, <1>2, Zenon DEF vars, exeVars, memVars, threadVars, daemonVars, MissInv,
     SlotMiss, SnapMiss, ThreadMiss, MissAt, Unknown, Writing
<1> QED BY <1>1, <1>2, ThreadMissStep, DaemonMissStep, Zenon DEF Next

(* What the daemon is about to serve (main.c:106-144) is what the entry still
   says, and a miss it is about to compile for is one exit of the program that
   the installed image lacks, its two addresses stored by one report: for any
   number of threads and any sizes, as long as no two calls of exe_add have
   overlapped on a slot. *)
THEOREM RequestsCurrent == Spec => []RequestIsCurrent
<1> DEFINE All == TypeInv /\ SafeInv /\ (~ raced => MissInv)
<1>1. Init => All
  BY InitType, InitSafe, InitMiss, Zenon
<1>2. All /\ [Next]_vars => All'
  BY TypeStep, SafeStep, MissStep, Zenon
<1>3. All => RequestIsCurrent
  <2> SUFFICES ASSUME TypeInv, Safe, MissInv, dpc = "check",
                      NEW s \in Slot, Wanted(snap[s])
               PROVE  /\ status_code[s] = snap[s].status_code
                      /\ pid[s] = snap[s].pid /\ RIP[s] = snap[s].RIP
                      /\ snap[s].status_code \in Misses =>
                             MissOf(snap[s]) \in Exit \ heap[code_block[s]][0].known
    BY Zenon DEF SafeInv, RequestIsCurrent
  <2>1. snap[s] # Null /\ snap[s].status_code # normal /\ ~ Writing(s)
    BY DEF Wanted, Writing
  <2>2. /\ status_code[s] = snap[s].status_code
        /\ pid[s] = snap[s].pid /\ RIP[s] = snap[s].RIP
    BY <2>1, Zenon DEF Safe, SnapInv, SnapOK
  <2>3. ASSUME snap[s].status_code \in Misses
        PROVE  MissOf(snap[s]) \in Exit \ heap[code_block[s]][0].known
    <3>1. snap[s].tgt_addr = tgt_addr[s] /\ snap[s].jump_from = jump_from[s]
      BY <2>1, <2>3, Zenon DEF MissInv, SnapMiss
    <3>2. MissOf(snap[s]) = MissAt(s)
      BY <2>2, <3>1, Zenon DEF MissOf, MissAt
    <3>3. MissAt(s) \in Unknown(code_block[s])
      BY <2>2, <2>3, Zenon DEF MissInv, SlotMiss
    <3> QED BY <3>2, <3>3, Zenon DEF Unknown
  <2> QED BY <2>2, <2>3, Zenon
<1> QED BY <1>1, <1>2, <1>3, PTL DEF Spec

-----------------------------------------------------------------------------
(* The limit of the table.  The slots in use and those that exe_add has
   counted and not yet published, and the threads between the test of `added'
   and its increment. *)

InUse(s) == status_code[s] # un_used

Counted(u) == pc[u] \in {"alloc", "publish"}

Held == {s \in Slot : InUse(s) \/ \E u \in Pid : Counted(u) /\ s = CandSlot(u)}

Claiming == {u \in Pid : pc[u] = "claim"}

(* An identity hashes to its slot; what the daemon has copied and what a thread
   executes are slots in use.  It holds even when calls of exe_add overlap. *)
HashInv == \A s \in Slot : Named(s) => get_exe(pid[s], RIP[s]) = s

CopyInv == \A s \in Slot : snap[s] # Null =>
               InUse(s) /\ get_exe(snap[s].pid, snap[s].RIP) = s

ChainInv == \A t \in Pid : pc[t] \in InChain => InUse(exe[t])

EntryInv == HashInv /\ CopyInv /\ ChainInv

(* Every slot held has a number up to `added', every number past the limit a
   thread that is not about to increment. *)
LimitInv == ~ lost => /\ ExistsInjection(Held, 1 .. added)
                      /\ ExistsInjection(AddLimit + 1 .. added, Pid \ Claiming)

FitInv == EntryInv /\ LimitInv

LEMMA FitsNone == ASSUME NEW T PROVE ExistsInjection({}, T)
<1> DEFINE f == [x \in {} |-> x]
<1>1. f \in [{} -> T] /\ IsInjective(f)
  BY Zenon DEF IsInjective
<1> QED BY <1>1, Zenon DEF ExistsInjection, Injection

LEMMA FitsStill ==
    ASSUME NEW S, NEW T, NEW R \in SUBSET S, NEW U, T \subseteq U,
           ExistsInjection(S, T)
    PROVE  ExistsInjection(R, U)
<1>1. PICK f \in [S -> T] : IsInjective(f)
  BY Zenon DEF ExistsInjection, Injection
<1> DEFINE g == [x \in R |-> f[x]]
<1>2. g \in [R -> U] /\ IsInjective(g)
  BY <1>1, Zenon DEF IsInjective
<1> QED BY <1>2, Zenon DEF ExistsInjection, Injection

LEMMA FitsOneMore ==
    ASSUME NEW S, NEW T, NEW x, NEW y, y \notin T, ExistsInjection(S, T)
    PROVE  ExistsInjection(S \cup {x}, T \cup {y})
<1>1. PICK f \in [S -> T] : IsInjective(f)
  BY Zenon DEF ExistsInjection, Injection
<1> DEFINE g == [z \in S \cup {x} |-> IF z \in S THEN f[z] ELSE y]
<1>2. g \in [S \cup {x} -> T \cup {y}]
  BY <1>1, Zenon
<1>3. ASSUME NEW a \in S \cup {x}, NEW b \in S \cup {x}, g[a] = g[b] PROVE a = b
  BY <1>1, <1>3, Zenon DEF IsInjective
<1>4. IsInjective(g)
  BY <1>3, Zenon DEF IsInjective
<1> QED BY <1>2, <1>4, Zenon DEF ExistsInjection, Injection

(* The slot a packet is for is the one its entry was copied from. *)
LEMMA PktUsed ==
    ASSUME TypeInv, CopyInv, dpc \in {"tail", "copy", "mark"}
    PROVE  PktSlot = idx /\ idx \in Slot /\ InUse(idx)
<1>1. idx \in Slot /\ snap[idx] # Null
  BY EntryType, Zenon DEF TypeInv, TypeOK
<1> QED BY <1>1, Zenon DEF CopyInv, PktSlot

(* A thread that reports, publishes or stores leaves every slot in use; only
   exe_add brings one into use. *)
LEMMA UseStays ==
    ASSUME TypeInv, EntryInv, [Next]_vars, NEW s \in Slot
    PROVE  (InUse(s) => InUse(s)') /\ (InUse(s)' => s \in Held)
<1> USE DEF InUse
<1>0. status_code \in [Slot -> Status]
  BY Zenon DEF TypeInv, TypeOK, ExeType
<1>1. CASE UNCHANGED status_code
  BY <1>1, Zenon DEF Held
<1>2. ASSUME NEW t \in Pid, ReportStatus(t)
      PROVE  (InUse(s) => InUse(s)') /\ (InUse(s)' => s \in Held)
  <2>1. pc[t] = "report" /\ status_code' = [status_code EXCEPT ![exe[t]] = miss[t].kind]
    BY <1>2, Zenon DEF ReportStatus, Goto
  <2>2. InUse(exe[t]) /\ exe[t] \in Slot
    BY <2>1, Zenon DEF EntryInv, ChainInv, InChain, TypeInv, TypeOK, ThreadType
  <2>3. miss[t].kind \in Misses
    BY <2>1, ExitTypes, Zenon DEF TypeInv, ThreadInv, ThreadOK, InReport
  <2>4. miss[t].kind # un_used
    BY <2>3, StatusApart, Zenon
  <2>5. status_code'[s] = IF s = exe[t] THEN miss[t].kind ELSE status_code[s]
    BY <1>0, <2>1, Zenon
  <2> QED BY <2>2, <2>4, <2>5, Zenon DEF Held
<1>3. ASSUME NEW t \in Pid, AddPublish(t)
      PROVE  (InUse(s) => InUse(s)') /\ (InUse(s)' => s \in Held)
  <2>1. pc[t] = "publish" /\ status_code' = [status_code EXCEPT ![CandSlot(t)] = un_init]
    BY <1>3, Zenon DEF AddPublish, Goto
  <2>2. status_code'[s] = IF s = CandSlot(t) THEN un_init ELSE status_code[s]
    BY <1>0, <2>1, Zenon
  <2> QED BY <2>1, <2>2, StatusApart, Zenon DEF Held, Counted
<1>4. ASSUME StoreStatus
      PROVE  (InUse(s) => InUse(s)') /\ (InUse(s)' => s \in Held)
  <2>1. dpc = "mark" /\ status_code' = [status_code EXCEPT ![PktSlot] = PktCode]
    BY <1>4, Zenon DEF StoreStatus
  <2>2. PktSlot = idx /\ InUse(idx)
    BY <2>1, PktUsed, Zenon DEF EntryInv
  <2>3. PktCode # un_used
    BY StatusApart, Zenon DEF PktCode
  <2>4. status_code'[s] = IF s = PktSlot THEN PktCode ELSE status_code[s]
    BY <1>0, <2>1, Zenon
  <2> QED BY <2>2, <2>3, <2>4, Zenon DEF Held
<1>5. ASSUME NEW t \in Pid, Thread(t) PROVE
         ReportStatus(t) \/ AddPublish(t) \/ UNCHANGED status_code
  BY <1>5, Zenon DEF exeVars, Thread, exe_on_call, exe_add, Syscall, EnterBlock,
     LeaveChain, RunToSyscall, RunToIllegal, SyscallReturns, MissIgnored,
     MissTaken, RunWild, ReportTgt, ReportFrom, AddCheck, AddReload, AddClaim,
     AddBlock, ReturnToUser
<1>6. ASSUME Daemon \/ Restart PROVE StoreStatus \/ UNCHANGED status_code
  BY <1>6, Zenon DEF exeVars, Daemon, Restart, sysfs_show, check, sysfs_store,
     ShowSkip, ShowHead, ShowTail, ShowEnd, CheckSkip, CheckSaved, CheckInit,
     CheckMiss, CheckNoDir, CheckEnd, StoreCopy, StoreNotFound
<1>7. UNCHANGED vars => UNCHANGED status_code
  BY Zenon DEF vars, exeVars
<1> QED BY <1>1, <1>2, <1>3, <1>4, <1>5, <1>6, <1>7, Zenon DEF Next

LEMMA HashStep == TypeInv /\ HashInv /\ [Next]_vars => HashInv'
<1> SUFFICES ASSUME TypeInv, HashInv, [Next]_vars PROVE HashInv'
  BY Zenon
<1>1. CASE UNCHANGED <<pid, RIP>>
  BY <1>1, Zenon DEF HashInv, Named, get_exe
<1>2. ASSUME NEW t \in Pid, AddClaim(t) PROVE HashInv'
  <2>1. pid \in [Slot -> Pid \cup {Null}] /\ RIP \in [Slot -> Addr \cup {Null}]
    BY Zenon DEF TypeInv, TypeOK, ExeType
  <2>2. /\ pid' = [pid EXCEPT ![CandSlot(t)] = cand[t].pid]
        /\ RIP' = [RIP EXCEPT ![CandSlot(t)] = cand[t].rip]
    BY <1>2, Zenon DEF AddClaim
  <2> SUFFICES ASSUME NEW s \in Slot, Named(s)' PROVE get_exe(pid'[s], RIP'[s]) = s
    BY Zenon DEF HashInv, get_exe
  <2>3. CASE s = CandSlot(t)
    BY <2>1, <2>2, <2>3, Zenon DEF CandSlot
  <2>4. CASE s # CandSlot(t)
    BY <2>1, <2>2, <2>4, Zenon DEF HashInv, Named
  <2> QED BY <2>3, <2>4, Zenon
<1>3. ASSUME NEW t \in Pid, Thread(t) PROVE AddClaim(t) \/ UNCHANGED <<pid, RIP>>
  BY <1>3, Zenon DEF exeVars, Thread, exe_on_call, exe_add, Syscall, EnterBlock,
     LeaveChain, RunToSyscall, RunToIllegal, SyscallReturns, MissIgnored,
     MissTaken, RunWild, ReportTgt, ReportFrom, ReportStatus, AddCheck,
     AddReload, AddBlock, AddPublish, ReturnToUser
<1>4. ASSUME Daemon \/ Restart PROVE UNCHANGED <<pid, RIP>>
  BY <1>4, Zenon DEF exeVars, Daemon, Restart, sysfs_show, check, sysfs_store,
     ShowSkip, ShowHead, ShowTail, ShowEnd, CheckSkip, CheckSaved, CheckInit,
     CheckMiss, CheckNoDir, CheckEnd, StoreCopy, StoreStatus, StoreNotFound
<1>5. UNCHANGED vars => UNCHANGED <<pid, RIP>>
  BY Zenon DEF vars, exeVars
<1> QED BY <1>1, <1>2, <1>3, <1>4, <1>5, Zenon DEF Next

(* A buffer that has no other entry than before. *)
LEMMA CopyFrame ==
    ASSUME CopyInv, \A s \in Slot : InUse(s) => InUse(s)',
           \A s \in Slot : snap'[s] = Null \/ snap'[s] = snap[s]
    PROVE  CopyInv'
BY Zenon DEF CopyInv, get_exe

LEMMA CopyStep == TypeInv /\ EntryInv /\ [Next]_vars => CopyInv'
<1> SUFFICES ASSUME TypeInv, EntryInv, [Next]_vars PROVE CopyInv'
  BY Zenon
<1>0. /\ CopyInv /\ \A s \in Slot : InUse(s) => InUse(s)'
      /\ snap \in [Slot -> Entry \cup {Null}]
  BY UseStays, Zenon DEF EntryInv, TypeInv, TypeOK, DaemonType
<1>1. CASE \A s \in Slot : snap'[s] = Null \/ snap'[s] = snap[s]
  BY <1>0, <1>1, CopyFrame, Zenon
<1>2. CASE ShowHead
  <2>1. /\ idx \in Slot /\ InUse(idx)
        /\ snap' = [snap EXCEPT ![idx] =
             [status_code |-> status_code[idx], pid |-> pid[idx],
              RIP |-> RIP[idx], jump_from |-> Null, tgt_addr |-> Null]]
    BY <1>2, IdxType, Zenon DEF ShowHead, TypeInv, TypeOK, InUse
  <2>2. snap'[idx].pid = pid[idx] /\ snap'[idx].RIP = RIP[idx]
    BY <1>0, <2>1, Zenon
  <2>3. get_exe(pid[idx], RIP[idx]) = idx
    BY <2>1, Zenon DEF TypeInv, UsedNamed, EntryInv, HashInv, InUse
  <2>4. \A s \in Slot \ {idx} : snap'[s] = snap[s]
    BY <1>0, <2>1, Zenon
  <2> QED BY <1>0, <2>1, <2>2, <2>3, <2>4, Zenon DEF CopyInv, get_exe
<1>3. CASE ShowTail
  <2>1. /\ idx \in Slot /\ snap[idx] # Null /\ snap[idx] \in Entry
        /\ snap' = [snap EXCEPT ![idx] =
             [@ EXCEPT !.jump_from = jump_from[idx], !.tgt_addr = tgt_addr[idx]]]
    BY <1>3, EntryType, Zenon DEF ShowTail, TypeInv, TypeOK
  <2>2. snap'[idx].pid = snap[idx].pid /\ snap'[idx].RIP = snap[idx].RIP
    BY <1>0, <2>1, Zenon DEF Entry
  <2>3. \A s \in Slot \ {idx} : snap'[s] = snap[s]
    BY <1>0, <2>1, Zenon
  <2> QED BY <1>0, <2>1, <2>2, <2>3, Zenon DEF CopyInv, get_exe
<1>4. ASSUME NEW t \in Pid, Thread(t) PROVE UNCHANGED snap
  BY <1>4, Zenon DEF daemonVars, Thread, exe_on_call, exe_add, Syscall, EnterBlock,
     LeaveChain, RunToSyscall, RunToIllegal, SyscallReturns, MissIgnored,
     MissTaken, RunWild, ReportTgt, ReportFrom, ReportStatus, AddCheck,
     AddReload, AddClaim, AddBlock, AddPublish, ReturnToUser
<1>5. ASSUME Daemon
      PROVE  \/ ShowHead \/ ShowTail \/ UNCHANGED snap
             \/ snap' = [snap EXCEPT ![idx] = Null]
  BY <1>5, Zenon DEF Daemon, sysfs_show, check, sysfs_store, ShowSkip, ShowEnd,
     CheckSkip, CheckSaved, CheckInit, CheckMiss, CheckNoDir, CheckEnd, StoreCopy,
     StoreStatus, StoreNotFound, PktSent, NextEntry
<1>6. snap' = [snap EXCEPT ![idx] = Null] =>
        \A s \in Slot : snap'[s] = Null \/ snap'[s] = snap[s]
  BY <1>0, Zenon
<1>7. Restart => \A s \in Slot : snap'[s] = Null \/ snap'[s] = snap[s]
  BY Zenon DEF Restart
<1>8. UNCHANGED vars => UNCHANGED snap
  BY Zenon DEF vars, daemonVars
<1> QED BY <1>1, <1>2, <1>3, <1>4, <1>5, <1>6, <1>7, <1>8, Zenon DEF Next

(* Outside exe_add a thread stays out of it. *)
LEMMA NoAdd ==
    ASSUME TypeInv, NEW t \in Pid, Thread(t), ~ exe_add(t)
    PROVE  /\ UNCHANGED <<cand, added, lost>>
           /\ pc'[t] \notin InAdd /\ \A u \in Pid \ {t} : pc'[u] = pc[u]
<1>1. UNCHANGED <<cand, added, lost>>
  BY Zenon DEF memVars, Thread, exe_on_call, Syscall, EnterBlock, LeaveChain,
     RunToSyscall, RunToIllegal, SyscallReturns, MissIgnored, MissTaken, RunWild,
     ReportTgt, ReportFrom, ReportStatus, ReturnToUser
<1>2. \E q \in InKernel \cup {"stat", "user", "wild"} : pc' = [pc EXCEPT ![t] = q]
  BY Zenon DEF InKernel, Goto, Thread, exe_on_call, Syscall, EnterBlock, LeaveChain,
     RunToSyscall, RunToIllegal, SyscallReturns, MissIgnored, MissTaken, RunWild,
     ReportTgt, ReportFrom, ReportStatus, ReturnToUser
<1>3. pc \in [Pid -> {"user", "lookup", "run", "sys", "tgt", "from", "report",
                      "wild", "stat", "claim", "alloc", "publish"}]
  BY Zenon DEF TypeInv, TypeOK, ThreadType
<1>4. PICK q \in InKernel \cup {"stat", "user", "wild"} : pc' = [pc EXCEPT ![t] = q]
  BY <1>2, Zenon
<1>5. q \notin InAdd
  BY Zenon DEF InKernel, InAdd
<1> QED BY <1>1, <1>3, <1>4, <1>5, Zenon

LEMMA DaemonApart ==
    ASSUME Daemon \/ Restart \/ UNCHANGED vars
    PROVE  UNCHANGED <<pc, exe, cand, added, lost>>
BY Zenon DEF vars, memVars, threadVars, Daemon, Restart, sysfs_show, check,
   sysfs_store, ShowSkip, ShowHead, ShowTail, ShowEnd, CheckSkip, CheckSaved,
   CheckInit, CheckMiss, CheckNoDir, CheckEnd, StoreCopy, StoreStatus, StoreNotFound

LEMMA ChainStep == TypeInv /\ EntryInv /\ [Next]_vars => ChainInv'
<1> SUFFICES ASSUME TypeInv, EntryInv, [Next]_vars PROVE ChainInv'
  BY Zenon
<1>0. /\ ChainInv /\ \A s \in Slot : InUse(s) => InUse(s)'
      /\ exe \in [Pid -> Slot]
  BY UseStays, Zenon DEF EntryInv, TypeInv, TypeOK, ThreadType
<1>1. CASE \A u \in Pid : pc'[u] \in InChain => pc[u] \in InChain /\ exe'[u] = exe[u]
  BY <1>0, <1>1, Zenon DEF ChainInv, InUse
<1>2. ASSUME NEW t \in Pid, EnterBlock(t) PROVE ChainInv'
  <2>1. /\ exe'[t] = get_exe(t, ip[t]) /\ status_code[exe'[t]] = normal
        /\ \A u \in Pid \ {t} : pc'[u] = pc[u] /\ exe'[u] = exe[u]
    BY <1>2, Zenon DEF EnterBlock, Boosted, Goto, TypeInv, TypeOK, ThreadType
  <2>2. exe'[t] \in Slot
    BY <1>2, TypeStep, Zenon DEF TypeInv, TypeOK, ThreadType
  <2>3. status_code'[exe'[t]] # un_used
    BY <1>0, <2>1, <2>2, StatusApart, Zenon DEF InUse
  <2> QED BY <1>0, <2>1, <2>3, Zenon DEF ChainInv, InUse
<1>3. ASSUME NEW t \in Pid, Thread(t), ~ EnterBlock(t), ~ exe_add(t)
      PROVE  \A u \in Pid : pc'[u] \in InChain => pc[u] \in InChain /\ exe'[u] = exe[u]
  BY <1>3, Zenon DEF Thread, exe_on_call, Syscall, LeaveChain, RunToSyscall,
     RunToIllegal, SyscallReturns, MissIgnored, MissTaken, RunWild, ReportTgt,
     ReportFrom, ReportStatus, ReturnToUser, Goto, InChain, TypeInv, TypeOK, ThreadType
<1>4. ASSUME NEW t \in Pid, exe_add(t)
      PROVE  \A u \in Pid : pc'[u] \in InChain => pc[u] \in InChain /\ exe'[u] = exe[u]
  BY <1>4, Zenon DEF exe_add, AddCheck, AddReload, AddClaim, AddBlock, AddPublish,
     threadVars, Goto, InChain, TypeInv, TypeOK, ThreadType
<1>5. Daemon \/ Restart \/ UNCHANGED vars => UNCHANGED <<pc, exe>>
  BY DaemonApart, Zenon
<1> QED BY <1>1, <1>2, <1>3, <1>4, <1>5, Zenon DEF Next

(* What a step does to the calls of exe_add that are under way. *)
LEMMA CountedStep ==
    ASSUME TypeInv, [Next]_vars, NEW u \in Pid, Counted(u)'
    PROVE  CandSlot(u)' = CandSlot(u) /\ (Counted(u) \/ AddClaim(u))
<1> USE DEF Counted, CandSlot, get_exe
<1>0. ThreadType
  BY Zenon DEF TypeInv, TypeOK
<1>1. CASE UNCHANGED <<pc, cand>>
  BY <1>1, Zenon
<1>2. ASSUME NEW t \in Pid, Thread(t), ~ exe_add(t)
      PROVE  CandSlot(u)' = CandSlot(u) /\ Counted(u)
  BY <1>2, NoAdd, Zenon DEF InAdd
<1>3. ASSUME NEW t \in Pid, AddCheck(t) \/ AddPublish(t)
      PROVE  CandSlot(u)' = CandSlot(u) /\ Counted(u)
  <2>1. u # t
    BY <1>0, <1>3, Zenon DEF AddCheck, AddPublish, Goto, ThreadType
  <2> QED BY <1>0, <1>3, <2>1, Zenon DEF AddCheck, AddPublish, Goto, ThreadType
<1>4. ASSUME NEW t \in Pid, AddReload(t) PROVE UNCHANGED <<pc, cand>>
  BY <1>4, Zenon DEF AddReload, threadVars
<1>5. ASSUME NEW t \in Pid, AddClaim(t)
      PROVE  CandSlot(u)' = CandSlot(u) /\ (Counted(u) \/ AddClaim(u))
  <2>1. UNCHANGED cand
    BY <1>5, Zenon DEF AddClaim
  <2>2. u # t => pc'[u] = pc[u]
    BY <1>0, <1>5, Zenon DEF AddClaim, Goto, ThreadType
  <2> QED BY <1>5, <2>1, <2>2, Zenon
<1>6. ASSUME NEW t \in Pid, AddBlock(t)
      PROVE  CandSlot(u)' = CandSlot(u) /\ Counted(u)
  BY <1>0, <1>6, Zenon DEF AddBlock, Goto, ThreadType
<1>7. Daemon \/ Restart \/ UNCHANGED vars => UNCHANGED <<pc, cand>>
  BY DaemonApart, Zenon
<1> QED BY <1>1, <1>2, <1>3, <1>4, <1>5, <1>6, <1>7, Zenon DEF Next, exe_add

(* Every step but the increment leaves the slots held and `added' alone; only
   the test lets a thread go on to the increment. *)
LEMMA QuietLimit ==
    ASSUME TypeInv, EntryInv, [Next]_vars, \A t \in Pid : ~ AddClaim(t)
    PROVE  /\ Held' \subseteq Held /\ UNCHANGED <<added, lost>>
           /\ Claiming' \subseteq Claiming \/ added <= AddLimit
<1>1. ASSUME NEW s \in Held' PROVE s \in Held
  <2>1. s \in Slot /\ (InUse(s)' \/ \E u \in Pid : Counted(u)' /\ s = CandSlot(u)')
    BY Zenon DEF Held
  <2>2. InUse(s)' => s \in Held
    BY <2>1, UseStays, Zenon
  <2>3. ASSUME NEW u \in Pid, Counted(u)', s = CandSlot(u)' PROVE s \in Held
    <3>1. CandSlot(u)' = CandSlot(u) /\ Counted(u)
      BY <2>3, CountedStep, Zenon
    <3> QED BY <2>1, <2>3, <3>1, Zenon DEF Held
  <2> QED BY <2>1, <2>2, <2>3, Zenon
<1>2. ASSUME NEW t \in Pid, Thread(t), ~ exe_add(t)
      PROVE  UNCHANGED <<added, lost>> /\ Claiming' \subseteq Claiming
  BY <1>2, NoAdd, Zenon DEF Claiming, InAdd
<1>3. ASSUME NEW t \in Pid, AddCheck(t)
      PROVE  UNCHANGED <<added, lost>> /\ added <= AddLimit
  BY <1>3, Zenon DEF AddCheck
<1>4. ASSUME NEW t \in Pid, AddReload(t)
      PROVE  UNCHANGED <<added, lost>> /\ Claiming' \subseteq Claiming
  BY <1>4, Zenon DEF AddReload, threadVars, Claiming
<1>5. ASSUME NEW t \in Pid, AddBlock(t) \/ AddPublish(t)
      PROVE  UNCHANGED <<added, lost>> /\ Claiming' \subseteq Claiming
  BY <1>5, Zenon DEF AddBlock, AddPublish, Goto, memVars, Claiming, TypeInv, TypeOK,
     ThreadType
<1>6. Daemon \/ Restart \/ UNCHANGED vars =>
        UNCHANGED <<added, lost>> /\ Claiming' \subseteq Claiming
  BY DaemonApart, Zenon DEF Claiming
<1> QED BY <1>1, <1>2, <1>3, <1>4, <1>5, <1>6, Zenon DEF Next, exe_add

LEMMA LimitStep == TypeInv /\ FitInv /\ [Next]_vars => LimitInv'
<1> DEFINE Over == AddLimit + 1 .. added
<1> SUFFICES ASSUME TypeInv, FitInv, [Next]_vars, ~ lost'
             PROVE  /\ ExistsInjection(Held', 1 .. added')
                    /\ ExistsInjection(Over', Pid \ Claiming')
  BY Zenon DEF LimitInv
<1>0. added \in Nat /\ AddLimit \in Nat
  BY SizeAssumption, Zenon DEF TypeInv, TypeOK, MemType
<1>1. ~ lost => ExistsInjection(Held, 1 .. added) /\ ExistsInjection(Over, Pid \ Claiming)
  BY Zenon DEF FitInv, LimitInv
<1>2. CASE \A t \in Pid : ~ AddClaim(t)
  <2>1. /\ Held' \in SUBSET Held /\ added' = added /\ lost' = lost
        /\ Claiming' \subseteq Claiming \/ added <= AddLimit
    BY <1>2, QuietLimit, Zenon DEF FitInv
  <2>2. ExistsInjection(Held', 1 .. added')
    BY <1>1, <2>1, FitsStill, Zenon
  <2>3. CASE Claiming' \subseteq Claiming
    <3>1. Over' = Over /\ Pid \ Claiming \subseteq Pid \ Claiming'
      BY <2>1, <2>3, Zenon
    <3>2. ExistsInjection(Over, Pid \ Claiming) /\ Over \in SUBSET Over
      BY <1>1, <2>1, Zenon
    <3> HIDE DEF Over
    <3>3. ExistsInjection(Over, Pid \ Claiming')
      BY <3>1, <3>2, FitsStill, Zenon
    <3> QED BY <2>2, <3>1, <3>3, Zenon
  <2>4. CASE added <= AddLimit
    <3>1. Over' = {}
      BY <1>0, <2>1, <2>4
    <3> QED BY <2>2, <3>1, FitsNone, Zenon
  <2> QED BY <2>1, <2>3, <2>4, Zenon
<1>3. ASSUME NEW t \in Pid, AddClaim(t)
      PROVE  /\ ExistsInjection(Held', 1 .. added')
             /\ ExistsInjection(Over', Pid \ Claiming')
  <2>1. added' = added + 1 /\ ~ lost
    BY <1>3, Zenon DEF AddClaim
  <2>2. ThreadType /\ pc[t] = "claim" /\ pc' = [pc EXCEPT ![t] = "alloc"]
    BY <1>3, Zenon DEF AddClaim, Goto, TypeInv, TypeOK
  <2>3. t \in Claiming /\ Pid \ Claiming' = (Pid \ Claiming) \cup {t}
    BY <2>2, Zenon DEF Claiming, ThreadType
  <2>4. /\ 1 .. added' = (1 .. added) \cup {added + 1} /\ added + 1 \notin 1 .. added
        /\ Over' \in SUBSET (Over \cup {added + 1})
    BY <1>0, <2>1
  <2>5. ASSUME NEW s \in Held' PROVE s \in Held \cup {CandSlot(t)}
    <3>1. s \in Slot /\ (InUse(s)' \/ \E u \in Pid : Counted(u)' /\ s = CandSlot(u)')
      BY Zenon DEF Held
    <3>2. InUse(s)' => s \in Held
      BY <3>1, UseStays, Zenon DEF FitInv
    <3>3. ASSUME NEW u \in Pid, Counted(u)', s = CandSlot(u)'
          PROVE  s \in Held \cup {CandSlot(t)}
      <4>1. CandSlot(u)' = CandSlot(u)
        BY <3>3, CountedStep, Zenon
      <4>2. u # t => Counted(u)
        BY <2>2, <3>3, Zenon DEF Counted, ThreadType
      <4> QED BY <3>1, <3>3, <4>1, <4>2, Zenon DEF Held
    <3> QED BY <3>1, <3>2, <3>3, Zenon
  <2>6. ExistsInjection(Held \cup {CandSlot(t)}, (1 .. added) \cup {added + 1})
    BY <1>1, <2>1, <2>4, FitsOneMore, Zenon
  <2>7. ExistsInjection(Held', 1 .. added')
    <3>1. Held' \in SUBSET (Held \cup {CandSlot(t)})
      BY <2>5, Zenon
    <3>2. ExistsInjection(Held \cup {CandSlot(t)}, 1 .. added')
      BY <2>4, <2>6, Zenon
    <3> QED BY <3>1, <3>2, FitsStill, Zenon
  <2>8. ExistsInjection(Over \cup {added + 1}, (Pid \ Claiming) \cup {t})
    BY <1>1, <2>1, <2>3, FitsOneMore, Zenon
  <2>9. ExistsInjection(Over', Pid \ Claiming')
    <3>1. ExistsInjection(Over \cup {added + 1}, Pid \ Claiming')
      BY <2>3, <2>8, Zenon
    <3> HIDE DEF Over
    <3> QED BY <2>4, <3>1, FitsStill, Zenon
  <2> QED BY <2>7, <2>9, Zenon
<1> QED BY <1>2, <1>3, Zenon

LEMMA InitFit == Init => FitInv
<1> SUFFICES ASSUME Init PROVE FitInv
  BY Zenon
<1>1. /\ \A s \in Slot : ~ InUse(s) /\ ~ Named(s) /\ snap[s] = Null
      /\ \A t \in Pid : pc[t] = "user"
      /\ added = 0
  BY NullAssumption, Zenon DEF Init, InUse, Named
<1>2. EntryInv
  BY <1>1, Zenon DEF EntryInv, HashInv, CopyInv, ChainInv, InChain
<1>3. Held = {}
  BY <1>1, Zenon DEF Held, Counted
<1>4. AddLimit + 1 .. added = {}
  BY <1>1, SizeAssumption
<1>5. LimitInv
  BY <1>3, <1>4, FitsNone, Zenon DEF LimitInv
<1> QED BY <1>2, <1>5, Zenon DEF FitInv

(* The table of blocks stays within its limit (exe.c:43, exe.c:46, sys.c:28-33):
   while no increment of `added' has been overwritten, the slots in use are
   counted, and past the limit there is at most one slot for each thread, for
   any number of threads, any limit and any number of slots, even when
   calls of exe_add overlap on a slot. *)
THEOREM TableIsLimited == Spec => []TableFits
<1>1. Init => TypeInv /\ FitInv
  BY InitType, InitFit, Zenon
<1>2. TypeInv /\ FitInv /\ [Next]_vars => (TypeInv /\ FitInv)'
  BY TypeStep, HashStep, CopyStep, ChainStep, LimitStep, Zenon DEF FitInv, EntryInv
<1>3. TypeInv /\ FitInv => TableFits
  <2>1. Used \in SUBSET Held /\ Pid \ Claiming \subseteq Pid
    BY Zenon DEF Used, Held, InUse
  <2>2. ASSUME FitInv, ~ lost PROVE ExistsInjection(Used, 1 .. added)
    <3>1. ExistsInjection(Held, 1 .. added)
      BY <2>2, Zenon DEF FitInv, LimitInv
    <3> QED BY <2>1, <3>1, FitsStill, Zenon
  <2>3. ASSUME FitInv, ~ lost PROVE ExistsInjection(AddLimit + 1 .. added, Pid)
    <3> DEFINE Over == AddLimit + 1 .. added
    <3>1. ExistsInjection(Over, Pid \ Claiming) /\ Over \in SUBSET Over
      BY <2>3, Zenon DEF FitInv, LimitInv
    <3> HIDE DEF Over
    <3>2. ExistsInjection(Over, Pid)
      BY <2>1, <3>1, FitsStill, Zenon
    <3> QED BY <3>2, Zenon DEF Over
  <2> QED BY <2>2, <2>3, Zenon DEF TableFits
<1> QED BY <1>1, <1>2, <1>3, PTL DEF Spec

=============================================================================
