---------------------------- MODULE MCPageFault ----------------------------
(* Instances of PageFault for TLC. *)
EXTENDS PageFault

CONSTANTS t1, t2

(* The symbols the module exports (zz_lkm/error_handler.h). *)
MCSymbols == {"UB_error_handler", "UB_fault_address_space"}

Fault(err, addr, ip, AC, ctx, quirk) ==
    [err |-> err, addr |-> addr, ip |-> ip, AC |-> AC, IFL |-> ctx = "task",
     ctx |-> ctx, quirk |-> quirk]

(* User code reads, writes and jumps; the implicit access is one the CPU makes
   for it.  Blocks run with AC set (stac in exe_on_call). *)
UserFaults ==
    {Fault(e \cup {"USER"}, a, "user", FALSE, "task", "none") :
        e \in {{}, {"WRITE"}, {"PROT", "PK"}}, a \in {"user", "kernel"}}
        \cup {Fault({}, "kernel", "user", FALSE, "task", "none"),
              Fault({"USER", "PROT", "RSVD"}, "user", "user", FALSE, "task", "none"),
              Fault({"USER", "INSTR"}, "vsys", "user", FALSE, "task", "none"),
              Fault({"USER"}, "user", "user", FALSE, "task", "prefetch"),
              Fault({"USER", "PROT"}, "kernel", "user", FALSE, "task", "errata100")}
KernelFaults ==
    {Fault({"WRITE"}, "user", i, TRUE, "task", "none") : i \in {"extable", "block", "kernel"}}
        \cup {Fault({}, "user", "extable", TRUE, c, "none") : c \in {"nofault", "interrupt"}}
        \cup {Fault({}, "user", "kernel", FALSE, "task", "none"),
              Fault({}, "vmalloc", "kernel", FALSE, "interrupt", "none"),
              Fault({"PROT", "WRITE"}, "kernel", "kernel", FALSE, "task", "errata93"),
              Fault({}, "guard", "block", TRUE, "task", "none")}

(* One thread causes every fault, the other takes and releases mmap_sem and changes
   the mappings. *)
MCAccess == [t \in {t1, t2} |-> IF t = t1 THEN UserFaults \cup KernelFaults ELSE {}]

(* The scan of is_prefetch: every first byte, then bytes of every kind and on both
   sides of the boundaries between them. *)
Scan   == INSTANCE Prefetch WITH Bytes <- 3
Kinds  == {-1, \H0D, \H0F, \H18, \H25, \H26, \H4F, \H67, \H68, \HF1, \HF3}
Memory ==
    {<<a, b, c, d>> : a \in -1 .. 255, b \in Kinds, c \in {-1, \H0F, \H18, \H65},
                      d \in {-1, \H0D}}

(* is_prefetch finds a prefetch instruction exactly when there is one: any number
   of prefixes up to the longest instruction, REX prefixes only in long mode,
   every byte of it readable; and never for an instruction fetch.  The bytes are
   no part of the state: they are looked at once, before the first fault. *)
FindsPrefetch ==
    Init /\ vma = "none" =>
        \A r \in Scan!Cases(Memory) :
            Scan!is_prefetch(r) <=>
                ~r.instr_pf /\ ~(r.user /\ r.above) /\ Scan!IsPrefetch(r)
=============================================================================
