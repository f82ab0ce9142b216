------------------------------ MODULE RegAlloc ------------------------------
(***************************************************************************)
(* The registers of translated code (zz_disassem: conflict.py, normal.py,  *)
(* special_inst.py, translation.py; wrapper.S).  A block runs on the       *)
(* kernel's stack, with R12 to R15 in the hands of the translator: R13     *)
(* stands for RSP, R12 for RBP, and the program's R12 to R15 and the bases *)
(* of FS live in the frame until an instruction needs them.                *)
(*                                                                         *)
(* The code of a block is straight, so the model runs each instruction as  *)
(* it is emitted.  A cell, R[p] or Stack[v], holds the name of the         *)
(* register whose present value it has, or "old".  Within an instruction   *)
(* that moves RSP, "SP" is the value before and "moved" the one after it.  *)
(***************************************************************************)
EXTENDS Sequences, FiniteSets, Functions

Phys    == {"12", "13", "14", "15"}
General == {"SP", "BP", "12", "13", "14", "15"}
Prog    == General \cup {"FS"}

stable_regs  == {"T1", "T2", "SP", "BP"}
orig_stable_map == [v \in {"SP", "BP"} |-> IF v = "SP" THEN "13" ELSE "12"]
block_init == [p \in Phys |-> CASE p = "13" -> "SP" [] p = "12" -> "BP" [] OTHER -> ""]

VARIABLES
    reg_map,        \* which register each of R12 to R15 stands for
    R, Stack,       \* what R12 to R15 and the words of the frame hold
    todo,           \* what is left of the instruction under translation
    need,           \* to_be_resolved of conflict_resolve
    rsp,            \* it is a PUSH, POP or CALL whose operand has RSP in it
    pc

vars == <<reg_map, R, Stack, todo, need, rsp, pc>>

Mapped == Range(reg_map)
inv_map(v) == CHOOSE p \in Phys : reg_map[p] = v

-----------------------------------------------------------------------------
(* Operands: IP, or up to two registers with or without FS (which stands for
   GS too), address memory.  An instruction reads or writes one more. *)
Mem == {s \in SUBSET Prog : Cardinality(s \ {"FS"}) <= 2} \cup {{"IP"}}
Reg == {{}} \cup {{v} : v \in General}

(* process_normal: the values it is to read and the ones it writes. *)
Normal(r, w)  == [do |-> "normal", r |-> r, w |-> w]
Resolve(v)    == [do |-> "resolve", r |-> {v}, w |-> {}]
ReleaseTmp    == [do |-> "tmp", r |-> {}, w |-> {}]
Release       == [do |-> "release", r |-> {}, w |-> {}]
JumpTo(a)     == [do |-> "jump", r |-> a, w |-> {}]
ToSyscall     == [do |-> "syscall", r |-> {}, w |-> {}]

RegOf(v) == IF v = "moved" THEN "SP" ELSE v
Regs(i)  == {RegOf(v) : v \in i.r \cup i.w}

(* What an operand means once RSP has moved. *)
After(a) == {IF v = "SP" THEN "moved" ELSE v : v \in a}

MoveSP == Normal({"SP"}, {"moved"})

(* The operand of a PUSH means the RSP from before, but is read after it has
   moved. *)
process_push(a) == <<MoveSP, Normal({"moved"} \cup a, {})>>

process_push_mem(m) ==
    <<MoveSP, Resolve("T1"), Normal(m, {"T1"}), Normal({"moved", "T1"}, {}), ReleaseTmp>>

(* That of a POP means the RSP from after it, but is written before it moves;
   POP RSP is to leave in RSP what it loads. *)
process_pop(a) == <<Normal({"SP"}, After(a)), MoveSP>>

process_pop_mem(m) ==
    <<Resolve("T1"), Normal({"SP"}, {"T1"}), Normal(After(m) \cup {"T1"}, {}), ReleaseTmp, MoveSP>>

(* To a label, to what a register holds, to what is in memory. *)
Jumps == {<<Release, JumpTo({})>>}
         \cup {<<Release, JumpTo(a)>> : a \in Reg}
         \cup {<<Resolve("T2"), Normal(m, {"T2"}), Release, JumpTo({"T2"})>> : m \in Mem}

(* The instructions inside a block, and those that end one.  The last one may
   also be any other, if the next is the target of a jump. *)
Inner == {<<Normal(m \cup d, {})>> : m \in Mem, d \in Reg}
         \cup {<<Normal(m \cup d, d)>> : m \in Mem, d \in Reg}
         \cup {<<Normal(m, d)>> : m \in Mem, d \in Reg}
         \cup {process_push(a) : a \in Reg} \cup {process_push_mem(m) : m \in Mem}
         \cup {process_pop(a) : a \in Reg} \cup {process_pop_mem(m) : m \in Mem}
         \cup {<<Normal({"BP"}, {"SP"})>> \o process_pop({"BP"})}
         \cup {<<Normal(d \cup e, d \cup e)>> : d \in Reg, e \in Reg}

(* The target of a CALL means the RSP from before the push, but is read after it. *)
Call(j) == <<Resolve("T2"), Normal({}, {"T2"})>> \o process_push({"T2"}) \o j

Last == Jumps \cup {Call(j) : j \in Jumps}
        \cup {<<Resolve("T2")>> \o process_pop({"T2"}) \o <<Release, JumpTo({"T2"})>>}
        \cup {<<ToSyscall>>}

(* PUSH, POP and CALL with RSP in the operand: PUSH RSP, PUSH [RSP + n], ... *)
RspInner == {process_push({"SP"}), process_pop({"SP"})}
            \cup {process_push_mem(m) : m \in {n \in Mem : "SP" \in n}}
            \cup {process_pop_mem(m) : m \in {n \in Mem : "SP" \in n}}
RspLast  == {Call(j) : j \in {k \in Jumps : \E i \in DOMAIN k : "SP" \in k[i].r}}

translate ==
    /\ pc = "line"
    /\ \/ /\ todo' \in Inner \cup Last
          /\ rsp' = (todo' \in RspInner \cup RspLast)
       \/ \E i \in Inner : todo' = i \o <<Release, JumpTo({})>> /\ rsp' = (i \in RspInner)
    /\ pc' = "step"
    /\ UNCHANGED <<reg_map, R, Stack, need>>

-----------------------------------------------------------------------------
(* conflict_resolve. *)

Idle == {p \in Phys : reg_map[p] = ""}

possible_victims(s) ==
    {p \in Phys : reg_map[p] \notin s \cup stable_regs \cup {""}}

(* The filter compares the physical register with the program's. *)
possible_stable_victims(s) ==
    {p \in Phys : p \notin s /\ reg_map[p] \in {"SP", "BP"}}

Candidates(s) ==
    IF Idle # {} THEN Idle
    ELSE IF possible_victims(s) # {} THEN possible_victims(s)
    ELSE possible_stable_victims(s)

(* The value is gone from wherever it was. *)
Forget(cells, w) == [c \in DOMAIN cells |-> IF cells[c] \in w THEN "old" ELSE cells[c]]

Begin ==
    /\ pc = "step" /\ todo # <<>> /\ Head(todo).do \in {"normal", "resolve"}
    /\ LET s == Regs(Head(todo))
       IN  IF s = {} THEN todo' = Tail(todo) /\ UNCHANGED <<need, pc>>
           ELSE need' = s \ Mapped /\ pc' = "resolve" /\ UNCHANGED todo
    /\ UNCHANGED <<reg_map, R, Stack, rsp>>

(* A slip: a register that takes the place of another is not loaded. *)
SwapUnloaded(v, p) ==
    /\ Stack' = IF reg_map[p] = "" THEN Stack ELSE [Stack EXCEPT ![reg_map[p]] = R[p]]
    /\ R' = CASE v = "IP" -> [Forget(R, {"IP"}) EXCEPT ![p] = "IP"]
              [] v \in stable_regs \/ reg_map[p] # "" -> R
              [] OTHER -> [R EXCEPT ![p] = Stack[v]]
    /\ reg_map' = [reg_map EXCEPT ![p] = v]

Swap(v, p) ==
    /\ Stack' = IF reg_map[p] = "" THEN Stack ELSE [Stack EXCEPT ![reg_map[p]] = R[p]]
    /\ R' = CASE v = "IP" -> [Forget(R, {"IP"}) EXCEPT ![p] = "IP"]
              [] v \in stable_regs -> R
              [] OTHER -> [R EXCEPT ![p] = Stack[v]]
    /\ reg_map' = [reg_map EXCEPT ![p] = v]

conflict_resolve ==
    /\ pc = "resolve" /\ need # {}
    /\ LET s == Regs(Head(todo))
       IN  \/ \E v \in need, p \in Candidates(s) :
                Swap(v, p) /\ need' = need \ {v} /\ UNCHANGED <<todo, rsp, pc>>
           \/ /\ Candidates(s) = {} /\ pc' = "no_victim"
              /\ UNCHANGED <<reg_map, R, Stack, todo, need, rsp>>

Resolved ==
    /\ pc = "resolve" /\ need = {}
    /\ IF Head(todo).do = "resolve" THEN todo' = Tail(todo) /\ pc' = "step"
       ELSE todo' = todo /\ pc' = "exec"
    /\ UNCHANGED <<reg_map, R, Stack, need, rsp>>

-----------------------------------------------------------------------------
(* The instruction itself, with its registers replaced (apply_map), then
   release_IP and recover_stable, which gives R13 and R12 back. *)

release_IP(m) == [p \in Phys |-> IF m[p] = "IP" THEN "" ELSE m[p]]

Lost(m) == {v \in {"SP", "BP"} : v \notin Range(m)}

process_normal ==
    /\ pc = "exec"
    /\ LET i    == Head(todo)
           r    == Forget(R, i.w)
           done == [p \in Phys |-> LET w == {v \in i.w : RegOf(v) = reg_map[p]}
                                   IN  IF w = {} THEN r[p] ELSE CHOOSE v \in w : TRUE]
           kept == Forget(Stack, i.w)
           m    == release_IP(reg_map)
           back == {orig_stable_map[v] : v \in Lost(m)}
       IN  IF ~ (Regs(i) \subseteq Mapped) THEN
               pc' = "key_error" /\ UNCHANGED <<reg_map, R, Stack, todo, need, rsp>>
           ELSE /\ Stack' = [v \in DOMAIN Stack |->
                      IF \E p \in back : m[p] = v THEN done[inv_map(v)] ELSE kept[v]]
                /\ R' = [p \in Phys |-> IF p \in back THEN kept[block_init[p]] ELSE done[p]]
                /\ reg_map' = [p \in Phys |-> IF p \in back THEN block_init[p] ELSE m[p]]
                /\ todo' = Tail(todo) /\ pc' = "step"
                /\ UNCHANGED <<need, rsp>>

release_tmp_conflict ==
    /\ pc = "step" /\ todo # <<>> /\ Head(todo).do = "tmp"
    /\ reg_map' = [p \in Phys |-> IF reg_map[p] \in {"T1", "T2"} THEN "" ELSE reg_map[p]]
    /\ todo' = Tail(todo)
    /\ UNCHANGED <<R, Stack, need, rsp, pc>>

-----------------------------------------------------------------------------
(* The end of a block. *)

(* A slip: a register that stands for itself is taken for saved. *)
SavesOthers(p) == reg_map[p] \notin stable_regs \cup {"", "FS", p}

(* The registers that release_conflict writes back to the frame. *)
Saves(p) == reg_map[p] \notin stable_regs \cup {"", "FS"}

release_conflict ==
    /\ pc = "step" /\ todo # <<>> /\ Head(todo).do = "release"
    /\ Stack' = [v \in DOMAIN Stack |->
                  IF v \in Mapped /\ Saves(inv_map(v)) THEN R[inv_map(v)] ELSE Stack[v]]
    /\ todo' = Tail(todo)
    /\ UNCHANGED <<reg_map, R, need, rsp, pc>>

(* reverse_reg; R14 takes the target of an indirect jump to its table of
   targets, from where the block of the target or the exit is reached. *)
process_jump ==
    /\ pc = "step" /\ todo # <<>> /\ Head(todo).do = "jump"
    /\ LET a == Head(todo).r
       IN  IF a \subseteq Mapped THEN
               /\ R' = [R EXCEPT !["14"] = IF a = {} THEN @ ELSE R[inv_map(CHOOSE v \in a : TRUE)]]
               /\ pc' = (IF rsp THEN "apart" ELSE "left") /\ UNCHANGED todo
           ELSE pc' = "key_error" /\ UNCHANGED <<R, todo>>
    /\ UNCHANGED <<reg_map, Stack, need, rsp>>

(* A SYSCALL leaves at once, with R14 for the address. *)
process_syscall ==
    /\ pc = "step" /\ todo # <<>> /\ Head(todo).do = "syscall"
    /\ R' = [R EXCEPT !["14"] = "old"] /\ pc' = "syscall"
    /\ UNCHANGED <<reg_map, Stack, todo, need, rsp>>

(* The program's RSP, and what the cells hold once the instruction is over. *)
PresentSP == IF "moved" \in Range(R) \cup Range(Stack) THEN "moved" ELSE "SP"
Settled(cells) ==
    [c \in DOMAIN cells |-> IF cells[c] = PresentSP THEN "SP"
                            ELSE IF cells[c] = "SP" THEN "old" ELSE cells[c]]

(* Of what comes after an instruction with RSP in its operand nothing is said. *)
NextLine ==
    /\ pc = "step" /\ todo = <<>> /\ pc' = (IF rsp THEN "apart" ELSE "line")
    /\ R' = Settled(R) /\ Stack' = Settled(Stack)
    /\ UNCHANGED <<reg_map, todo, need, rsp>>

NextBlock ==
    /\ pc = "left"
    /\ reg_map' = block_init /\ todo' = <<>> /\ pc' = "line"
    /\ R' = Settled(R) /\ Stack' = Settled(Stack)
    /\ UNCHANGED <<need, rsp>>

(* main of wrapper.S: the frame and R12, R13 are loaded from the context, and
   whatever the exit before had stored there is the program's from now on. *)
Loaded == [v \in Prog |-> v]
AtEntry == [p \in Phys |-> IF block_init[p] = "" THEN "old" ELSE block_init[p]]

Init ==
    /\ reg_map = block_init /\ R = AtEntry /\ Stack = Loaded
    /\ todo = <<>> /\ need = {} /\ rsp = FALSE /\ pc = "line"

main ==
    /\ pc = "syscall"
    /\ reg_map' = block_init /\ R' = AtEntry /\ Stack' = Loaded
    /\ todo' = <<>> /\ pc' = "line" /\ UNCHANGED <<need, rsp>>

Next ==
    \/ translate \/ Begin \/ conflict_resolve \/ Resolved \/ process_normal
    \/ release_tmp_conflict \/ release_conflict \/ process_jump \/ process_syscall
    \/ NextLine \/ NextBlock \/ main

Spec == Init /\ [][Next]_vars

-----------------------------------------------------------------------------
(* Properties. *)

(* Whatever was translated before it in the block, an instruction finds the
   program's values in the registers that apply_map puts for those it reads,
   different ones for different registers, and RSP from before or after it moves
   as the instruction means it.  PUSH, POP and CALL with RSP in the operand are
   excepted: process_push, process_pop and CALL read it on the wrong side. *)
OperandsHold ==
    pc = "exec" /\ Regs(Head(todo)) \subseteq Mapped /\ ~rsp =>
        \A v \in Head(todo).r : {p \in Phys : reg_map[p] = RegOf(v) /\ R[p] = v} # {}
                                /\ Cardinality({p \in Phys : reg_map[p] = RegOf(v)}) = 1

(* A jump, a call and a return leave a block with all registers where the next
   block, or the exit of wrapper.S, looks for them, and with the target in R14
   if it is not a label; excepted are the same instructions. *)
Context == R["13"] = PresentSP /\ R["12"] = "BP" /\ \A v \in Prog \ {"SP", "BP"} : Stack[v] = v

ContextSaved == pc = "left" => Context /\ \A v \in Head(todo).r : R["14"] = v

(* So does a system call, whose exit, comp_syscall, goes through the "Context
   Recovery" of wrapper.S. *)
SyscallContext == pc = "syscall" => Context
=============================================================================
