----------------------------- MODULE MCHotCaller -----------------------------
(* Instances of HotCaller for TLC. *)
EXTENDS HotCaller, FiniteSetsExt

(* Two slots: the addresses 1 and 3 share one for the first thread, the second
   thread has its own for 1. *)
MCHash == [t \in Pid |-> [r \in Rip \cup {0} |-> r + t]]

(* The counts are those of the current milestone, which is what hot_caller_th is
   compared with ("short calls per milestone"): together they are no more than
   the calls since its start, the one that ended the last included.  They are
   carried over only after two threads were at its end at once. *)
PerMilestone ==
    ~overlap => MapThenSumSet(LAMBDA p : my_info.caller[p].cnt, Pos) <= my_info.call_cnt + 1
=============================================================================
