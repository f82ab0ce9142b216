------------------------------ MODULE HotCaller ------------------------------
(***************************************************************************)
(* The statistics of ub/zz_lkm/stat.c: which system calls follow each      *)
(* other so closely that the code between them is worth translating.  The  *)
(* counters belong to a CPU and are not locked.  The kernel is not         *)
(* preempted inside stat_func, but exe_add may sleep, and then another     *)
(* thread of the CPU runs stat_func on the same counters.                  *)
(***************************************************************************)
EXTENDS Integers

CONSTANTS
    Pid,                \* threads of one CPU, by their pids
    Rip,                \* addresses after system calls; 0 is none
    max_caller,
    zz_hash,            \* pid, rip -> unsigned int
    syscall_short_th, hot_caller_th, milestone_cnt, milestone_duration_th,
    MaxTime,            \* bound: the clock
    MaxGap              \* bound: how far the clock moves between two events

ASSUME StatAssumption ==
    /\ {max_caller, syscall_short_th, milestone_cnt, milestone_duration_th} \subseteq Nat \ {0}
    /\ hot_caller_th \in Nat /\ MaxTime \in Nat /\ MaxGap \in Nat
    /\ Rip \subseteq Nat \ {0} /\ zz_hash \in [Pid -> [Rip \cup {0} -> Nat]]

Pos   == 0 .. max_caller - 1
Empty == [rip |-> 0, pid |-> 0, cnt |-> 0]

VARIABLES
    my_info,    \* struct per_cpu_info of the CPU
    pc,         \* "user", "call" (in a system call), "add" (asleep in exe_add)
    ts,         \* when the thread entered its system call
    ip,         \* its regs->ip
    loc,        \* the locals that outlive exe_add: [current_time, pos]
    now,
    short,      \* history: rip -> short calls counted after it, up to the threshold
    seen,       \* history: the pairs of a thread and the address before it
    start,      \* history: the time of the call that ended the last milestone
    took,       \* history: how long that milestone took, up to the threshold
    overlap     \* history: two threads have been at a milestone's end at once

vars == <<my_info, pc, ts, ip, loc, now, short, seen, start, took, overlap>>

(* stat_init. *)
Init ==
    /\ my_info = [last_caller |-> 0, last_ts |-> 0, call_cnt |-> 0, milestone_ts |-> 0,
                  interested |-> FALSE, caller |-> [p \in Pos |-> Empty]]
    /\ pc = [t \in Pid |-> "user"] /\ ts = [t \in Pid |-> 0]
    /\ ip = [t \in Pid |-> 0] /\ loc = [t \in Pid |-> [current_time |-> 0, pos |-> 0]]
    /\ now = 1 /\ short = [r \in Rip \cup {0} |-> 0] /\ seen = {} /\ start = 0
    /\ took = milestone_duration_th /\ overlap = FALSE

(* Differences are unsigned: what is below zero is larger than any threshold. *)
Below(a, b, th) == a >= b /\ a - b < th

Later(gap) == now + gap <= MaxTime /\ now' = now + gap

(* do_syscall_64 reads the time first. *)
Syscall(t) ==
    /\ pc[t] = "user" /\ \E gap \in 0 .. MaxGap : Later(gap)
    /\ \E r \in Rip : ip' = [ip EXCEPT ![t] = r]
    /\ ts' = [ts EXCEPT ![t] = now'] /\ pc' = [pc EXCEPT ![t] = "call"]
    /\ UNCHANGED <<my_info, loc, short, seen, start, took, overlap>>

(* Mutant of Credit: the addresses are not compared. *)
CreditAny(slot, t, last) ==
    [(IF slot.cnt = 0 THEN [slot EXCEPT !.pid = t, !.rip = last] ELSE slot) EXCEPT !.cnt = @ + 1]

(* A call counted in a slot: a new one, or one for the same address. *)
Credit(slot, t, last) ==
    IF slot.cnt = 0 THEN [rip |-> last, pid |-> t, cnt |-> 1]
    ELSE IF slot.rip = last THEN [slot EXCEPT !.cnt = @ + 1] ELSE slot

(* The last part: count the call if it followed the one before closely. *)
Count(info, t, time) ==
    LET last == info.last_caller
        p    == zz_hash[t][last] % max_caller
        hit  == info.interested /\ Below(ts[t], info.last_ts, syscall_short_th)
    IN  /\ my_info' = IF ~info.interested THEN info
                      ELSE [info EXCEPT !.last_ts = time, !.last_caller = ip[t],
                                        !.caller[p] = IF hit THEN Credit(@, t, last) ELSE @]
        /\ short' = IF hit /\ short[last] <= hot_caller_th THEN [short EXCEPT ![last] = @ + 1]
                    ELSE short
        /\ seen' = IF hit THEN seen \cup {<<t, last>>} ELSE seen
        /\ pc' = [pc EXCEPT ![t] = "user"] /\ ts' = [ts EXCEPT ![t] = 0]
        /\ ip' = [ip EXCEPT ![t] = 0]
        /\ loc' = [loc EXCEPT ![t] = [current_time |-> 0, pos |-> 0]]

(* Mutant of Milestone: the time of the last milestone is overwritten first. *)
MilestoneSwapped(info, time) ==
    [info EXCEPT !.call_cnt = 0, !.milestone_ts = time,
        !.interested = Below(time, time, milestone_duration_th)]

(* The end of a milestone. *)
Milestone(info, time) ==
    [info EXCEPT !.call_cnt = 0, !.milestone_ts = time,
        !.interested = Below(time, info.milestone_ts, milestone_duration_th)]

Others(t) == \E u \in Pid \ {t} : pc[u] = "add"

(* The callers from pos on that are hot, and the counts reset up to one of them. *)
Hot(info, pos) == {p \in Pos : p >= pos /\ info.caller[p].cnt > hot_caller_th}

Cleared(info, pos, end) ==
    [info EXCEPT !.caller = [p \in Pos |-> IF p \in pos .. end - 1 THEN [@[p] EXCEPT !.cnt = 0]
                                           ELSE @[p]]]

(* The loop over the callers from pos on, up to the next that is hot: exe_add is
   called for it.  After the last one the milestone ends. *)
Scan(info, t, time, pos) ==
    /\ overlap' = (overlap \/ Others(t))
    /\ \/ /\ Hot(info, pos) = {}
          /\ Count(Milestone(Cleared(info, pos, max_caller), time), t, time) /\ start' = time
          /\ took' = IF time - start < milestone_duration_th THEN time - start
                     ELSE milestone_duration_th
       \/ \E end \in Hot(info, pos) :
             /\ \A p \in Hot(info, pos) : end <= p
             /\ my_info' = Cleared(info, pos, end) /\ pc' = [pc EXCEPT ![t] = "add"]
             /\ loc' = [loc EXCEPT ![t] = [current_time |-> time, pos |-> end]]
             /\ UNCHANGED <<ts, ip, short, seen, start, took>>

(* Mutant of stat_func: the callers are not gone over, nor their counts reset. *)
stat_func_keep(t) ==
    LET info == [my_info EXCEPT !.call_cnt = @ + 1] IN
    /\ pc[t] = "call" /\ \E gap \in 0 .. MaxGap : Later(gap)
    /\ IF info.call_cnt <= milestone_cnt
       THEN Count(info, t, now') /\ UNCHANGED <<start, took, overlap>>
       ELSE Scan(info, t, now', max_caller)

stat_func(t) ==
    LET info == [my_info EXCEPT !.call_cnt = @ + 1] IN
    /\ pc[t] = "call" /\ \E gap \in 0 .. MaxGap : Later(gap)
    /\ IF info.call_cnt <= milestone_cnt
       THEN Count(info, t, now') /\ UNCHANGED <<start, took, overlap>>
       ELSE Scan(info, t, now', IF info.interested THEN 0 ELSE max_caller)

(* exe_add returns: the caller's count is reset and the loop goes on.  A thread
   that wakes up on another CPU goes on with this record in parallel with the
   threads of its CPU; here they take turns. *)
Added(t) ==
    LET p == loc[t].pos IN
    /\ pc[t] = "add" /\ \E gap \in 0 .. MaxGap : Later(gap)
    /\ Scan([my_info EXCEPT !.caller[p].cnt = 0], t, loc[t].current_time, p + 1)

Next == \E t \in Pid : Syscall(t) \/ stat_func(t) \/ Added(t)

Spec == Init /\ [][Next]_vars

(***************************************************************************)
(* Properties.                                                             *)
(***************************************************************************)

(* Whatever is handed to exe_add: more than hot_caller_th short calls have been
   counted after that address, and the thread has been seen right after it;
   counts are never credited to another address that falls into the slot,
   nor made up when two threads go over the callers at once. *)
AddedIsHot ==
    [][\A t \in Pid : pc'[t] = "add" /\ (pc[t] # "add" \/ loc'[t] # loc[t]) =>
          LET c == my_info'.caller[loc'[t].pos]
          IN  short[c.rip] > hot_caller_th /\ <<c.pid, c.rip>> \in seen]_vars

(* The last milestone finished within the duration. *)
InterestRight == my_info.interested <=> took < milestone_duration_th

(* `interested' says whether the last milestone finished within the duration, as
   the comment of milestone_duration_th has it, also if the call that ended it
   slept in exe_add; as long as no two threads are at the end of a milestone at
   once. *)
InterestAlone == overlap \/ InterestRight
=============================================================================
