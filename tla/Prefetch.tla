------------------------------ MODULE Prefetch ------------------------------
(***************************************************************************)
(* is_prefetch and check_prefetch_opcode of kernel_modify/fault.c: is the  *)
(* instruction at regs->ip a prefetch, whose fault is to be ignored?  The  *)
(* instruction is scanned byte by byte; every byte is read where it may    *)
(* not be readable.                                                        *)
(***************************************************************************)
EXTENDS Integers, Sequences

CONSTANT Bytes      \* 15 in the code: bytes scanned

Unreadable == -1

(* What is looked at: the bytes from regs->ip on, X86_PF_INSTR, user_mode(regs),
   user_64bit_mode(regs), and whether regs->ip >= TASK_SIZE_MAX. *)
Cases(Memory) ==
    {r \in [mem : Memory, instr_pf : BOOLEAN, user : BOOLEAN, user64 : BOOLEAN, above : BOOLEAN] :
        r.user64 => r.user}

LongMode(r) == ~r.user \/ r.user64

(* Mutant of Prefix: REX prefixes in 32 bit code too. *)
PrefixRex(r, opcode) ==
    LET hi == opcode \div 16
        lo == opcode % 16
    IN  (hi \in {2, 3} /\ lo % 8 = 6) \/ hi = 4 \/ (hi = 6 /\ lo \div 4 = 1)
        \/ (hi = 15 /\ (lo = 0 \/ lo \div 2 = 1))

(* Whether the opcode is a prefix, and the scan goes on. *)
Prefix(r, opcode) ==
    LET hi == opcode \div 16
        lo == opcode % 16
    IN  \/ hi \in {2, 3} /\ lo % 8 = 6
        \/ hi = 4 /\ LongMode(r)
        \/ hi = 6 /\ lo \div 4 = 1
        \/ hi = 15 /\ (lo = 0 \/ lo \div 2 = 1)

(* 0x0f and the byte after it. *)
Second(opcode, next) ==
    opcode \div 16 = 0 /\ opcode % 16 = 15 /\ next \in {13, 24}

(* The loop from byte `instr' on. *)
RECURSIVE check_prefetch_opcode(_, _)
check_prefetch_opcode(r, instr) ==
    LET opcode == r.mem[instr + 1]
    IN  /\ instr < Bytes /\ opcode # Unreadable
        /\ IF Prefix(r, opcode) THEN check_prefetch_opcode(r, instr + 1)
           ELSE Second(opcode, r.mem[instr + 2])

is_prefetch(r) ==
    ~r.instr_pf /\ ~(r.user /\ r.above) /\ check_prefetch_opcode(r, 0)

(***************************************************************************)
(* The reference: what the manual calls a prefetch.                        *)
(***************************************************************************)

LegacyPrefix == {\H26, \H2E, \H36, \H3E, \H64, \H65, \H66, \H67, \HF0, \HF2, \HF3}
RexPrefix    == \H40 .. \H4F

IsPrefetch(r) ==
    \E n \in 0 .. Bytes - 1 :
        /\ \A i \in 1 .. n :
               r.mem[i] \in LegacyPrefix \cup (IF LongMode(r) THEN RexPrefix ELSE {})
        /\ r.mem[n + 1] = \H0F /\ r.mem[n + 2] \in {\H0D, \H18}
=============================================================================
