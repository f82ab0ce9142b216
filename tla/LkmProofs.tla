------------------------------ MODULE LkmProofs ------------------------------
(***************************************************************************)
(* The kernel module outside its executor: the statistics of stat.c        *)
(* (module HotCaller), and the module's life (module Lifecycle).           *)
(*                                                                         *)
(* Statistics: what stat_func hands to exe_add is hot, and `interested' is *)
(* right as long as no two threads end a milestone at once, for any number *)
(* of threads, slots and addresses, any hash and any thresholds.           *)
(*                                                                         *)
(* Life: loading and unloading is safe, for any number of threads, of      *)
(* users of the file and of loads.  Where zz_lkm_init or zz_lkm_exit is    *)
(* decides what is allocated (Stages); a handler of the file runs only     *)
(* while the file is there, which lies within the life of the table; and a *)
(* thread beyond the test of zz_var is either within the life of the hook  *)
(* or was beyond it when the hook was cleared.                             *)
(***************************************************************************)
EXTENDS HotCaller, Lifecycle, TLAPS

(***************************************************************************)
(* Statistics.                                                             *)
(***************************************************************************)

Addr == Rip \cup {0}
Slot == [rip : Addr, pid : Pid \cup {0}, cnt : Nat]
Info == [last_caller : Addr, last_ts : Nat, call_cnt : Nat, milestone_ts : Nat,
         interested : BOOLEAN, caller : [Pos -> Slot]]

Types ==
    /\ my_info \in Info /\ pc \in [Pid -> {"user", "call", "add"}] /\ ts \in [Pid -> Nat]
    /\ ip \in [Pid -> Addr] /\ loc \in [Pid -> [current_time : Nat, pos : Nat]]
    /\ now \in Nat /\ short \in [Addr -> Nat] /\ start \in Nat /\ took \in Int
    /\ overlap \in BOOLEAN

(* The count of a slot is made of short calls after its address, or there have
   been too many of these to matter; and its thread made one of them. *)
Backed(slot, sh, sn) ==
    slot.cnt > 0 => /\ <<slot.pid, slot.rip>> \in sn
                    /\ slot.cnt <= sh[slot.rip] \/ hot_caller_th < sh[slot.rip]

Counted(rec, sh, sn) == \A p \in Pos : Backed(rec.caller[p], sh, sn)

(* A thread that sleeps in exe_add started the milestone's end after the last one
   was over, and it sleeps alone. *)
Alone ==
    /\ \A t \in Pid : pc[t] = "add" => start <= loc[t].current_time /\ loc[t].current_time <= now
    /\ \A t, u \in Pid : pc[t] = "add" /\ pc[u] = "add" => t = u

Timed == start <= now /\ my_info.milestone_ts = start /\ (overlap \/ (Alone /\ InterestRight))

Inv ==
    /\ Types /\ Timed /\ Counted(my_info, short, seen)
    /\ \A t \in Pid : pc[t] = "add" => loc[t].pos \in Pos /\ loc[t].current_time <= now

(* What the assumption says of the thresholds. *)
LEMMA Consts ==
  /\ max_caller \in Nat \ {0} /\ hot_caller_th \in Nat /\ milestone_duration_th \in Nat \ {0}
  /\ 0 \notin Rip
  BY StatAssumption, Zenon

(* The hash picks a slot. *)
LEMMA HashPos ==
  ASSUME NEW t \in Pid, NEW r \in Addr
  PROVE  zz_hash[t][r] % max_caller \in Pos
<1>1. zz_hash[t][r] \in Nat /\ max_caller \in Nat \ {0}
  BY StatAssumption, Zenon DEF Addr
<1> QED
  BY <1>1 DEF Pos

(* Histories only grow, and what backed a slot goes on doing so. *)
LEMMA BackedMore ==
  ASSUME NEW slot \in Slot, NEW sh \in [Addr -> Nat], NEW sh2 \in [Addr -> Nat], NEW sn, NEW sn2,
         Backed(slot, sh, sn), sn \subseteq sn2, \A r \in Addr : sh[r] <= sh2[r]
  PROVE  Backed(slot, sh2, sn2)
<1>1. slot.rip \in Addr /\ slot.cnt \in Nat /\ hot_caller_th \in Nat
  BY Consts, Zenon DEF Slot
<1>2. sh[slot.rip] \in Nat /\ sh2[slot.rip] \in Nat /\ sh[slot.rip] <= sh2[slot.rip]
  BY <1>1, Zenon
<1> QED
  BY <1>1, <1>2 DEF Backed

(* A slot that a short call is counted in is backed by that call. *)
LEMMA CreditBacked ==
  ASSUME NEW slot \in Slot, NEW sh \in [Addr -> Nat], NEW sh2 \in [Addr -> Nat], NEW sn, NEW sn2,
         NEW t \in Pid, NEW last \in Addr,
         Backed(slot, sh, sn), sn2 = sn \cup {<<t, last>>}, \A r \in Addr : sh[r] <= sh2[r],
         sh2[last] = IF sh[last] <= hot_caller_th THEN sh[last] + 1 ELSE sh[last]
  PROVE  Credit(slot, t, last) \in Slot /\ Backed(Credit(slot, t, last), sh2, sn2)
<1>1. /\ hot_caller_th \in Nat /\ sh[last] \in Nat /\ slot.cnt \in Nat
      /\ slot = [rip |-> slot.rip, pid |-> slot.pid, cnt |-> slot.cnt]
  BY Consts, Zenon DEF Slot
<1>2. CASE slot.cnt = 0
  <2>1. Credit(slot, t, last) = [rip |-> last, pid |-> t, cnt |-> 1]
    BY <1>2, Zenon DEF Credit
  <2>2. 1 <= sh2[last] \/ hot_caller_th < sh2[last]
    BY <1>1
  <2> QED
    BY <2>1, <2>2 DEF Slot, Backed
<1>3. CASE slot.cnt # 0 /\ slot.rip = last
  <2>1. Credit(slot, t, last) = [rip |-> slot.rip, pid |-> slot.pid, cnt |-> slot.cnt + 1]
    BY <1>1, <1>3, Zenon DEF Credit, Slot
  <2>2. <<slot.pid, slot.rip>> \in sn /\ (slot.cnt <= sh[last] \/ hot_caller_th < sh[last])
    BY <1>1, <1>3 DEF Backed
  <2>3. slot.cnt + 1 <= sh2[last] \/ hot_caller_th < sh2[last]
    BY <1>1, <2>2
  <2> QED
    BY <1>1, <1>3, <2>1, <2>2, <2>3 DEF Slot, Backed
<1>4. CASE slot.cnt # 0 /\ slot.rip # last
  <2>1. Credit(slot, t, last) = slot
    BY <1>4, Zenon DEF Credit
  <2> QED
    BY <2>1, BackedMore, Zenon
<1> QED
  BY <1>2, <1>3, <1>4, Zenon

(* Resetting counts leaves the rest alone, and every slot backed. *)
LEMMA ClearedIs ==
  ASSUME NEW rec \in Info, NEW pos \in Nat, NEW end \in Nat
  PROVE  /\ Cleared(rec, pos, end) \in Info
         /\ Cleared(rec, pos, end).milestone_ts = rec.milestone_ts
         /\ Cleared(rec, pos, end).interested = rec.interested
         /\ \A p \in Pos : \/ Cleared(rec, pos, end).caller[p] = rec.caller[p]
                           \/ p \in pos .. end - 1 /\ Cleared(rec, pos, end).caller[p].cnt = 0
<1> DEFINE f == [p \in Pos |-> IF p \in pos .. end - 1 THEN [rec.caller[p] EXCEPT !.cnt = 0]
                               ELSE rec.caller[p]]
<1>1. Cleared(rec, pos, end) = [rec EXCEPT !.caller = f]
  BY Zenon DEF Cleared, Info
<1>2. f \in [Pos -> Slot]
  BY Zenon DEF Info, Slot
<1>3. \A p \in Pos : f[p] = rec.caller[p] \/ (p \in pos .. end - 1 /\ f[p].cnt = 0)
  BY Zenon DEF Info, Slot
<1> HIDE DEF f
<1>4. /\ [rec EXCEPT !.caller = f] \in Info /\ [rec EXCEPT !.caller = f].caller = f
      /\ [rec EXCEPT !.caller = f].milestone_ts = rec.milestone_ts
      /\ [rec EXCEPT !.caller = f].interested = rec.interested
  BY <1>2, Zenon DEF Info
<1> QED
  BY <1>1, <1>3, <1>4, Zenon

(* The slot the reset stops at stays. *)
LEMMA ClearedAt ==
  ASSUME NEW rec \in Info, NEW pos \in Nat, NEW end \in Nat, end \in Pos
  PROVE  Cleared(rec, pos, end).caller[end] = rec.caller[end]
<1>1. end \notin pos .. end - 1
  OBVIOUS
<1> QED
  BY <1>1, ClearedIs, Zenon

(* A slot without a count needs no backing. *)
LEMMA ClearedCounted ==
  ASSUME NEW rec \in Info, NEW pos \in Nat, NEW end \in Nat, NEW sh, NEW sn,
         Counted(rec, sh, sn)
  PROVE  Counted(Cleared(rec, pos, end), sh, sn)
<1> SUFFICES ASSUME NEW p \in Pos PROVE Backed(Cleared(rec, pos, end).caller[p], sh, sn)
  BY Zenon DEF Counted
<1>1. Cleared(rec, pos, end).caller[p].cnt = 0 \/ Backed(Cleared(rec, pos, end).caller[p], sh, sn)
  BY ClearedIs, Zenon DEF Counted
<1> QED
  BY <1>1 DEF Backed

(* The last part of stat_func leaves the time of the milestone and `interested' as
   they are, and every slot backed. *)
LEMMA CountIs ==
  ASSUME Types, NEW rec \in Info, Counted(rec, short, seen), NEW t \in Pid,
         NEW time \in Nat, Count(rec, t, time)
  PROVE  /\ my_info' \in Info /\ short' \in [Addr -> Nat] /\ Counted(my_info, short, seen)'
         /\ my_info'.milestone_ts = rec.milestone_ts /\ my_info'.interested = rec.interested
         /\ pc' = [pc EXCEPT ![t] = "user"] /\ ts' \in [Pid -> Nat] /\ ip' \in [Pid -> Addr]
         /\ loc' = [loc EXCEPT ![t] = [current_time |-> 0, pos |-> 0]]
<1> DEFINE last == rec.last_caller
           p    == zz_hash[t][last] % max_caller
           hit  == rec.interested /\ Below(ts[t], rec.last_ts, syscall_short_th)
           slot == IF hit THEN Credit(rec.caller[p], t, last) ELSE rec.caller[p]
           f    == [rec.caller EXCEPT ![p] = slot]
<1>1. /\ last \in Addr /\ rec.caller \in [Pos -> Slot] /\ ip[t] \in Addr /\ hit \in BOOLEAN
      /\ short \in [Addr -> Nat] /\ hot_caller_th \in Nat
  BY Consts, Zenon DEF Info, Types, Below
<1>2. p \in Pos /\ rec.caller[p] \in Slot
  BY <1>1, HashPos, Zenon
<1>3. /\ my_info' = IF ~rec.interested THEN rec
                    ELSE [rec EXCEPT !.last_ts = time, !.last_caller = ip[t], !.caller = f]
      /\ short' = IF hit /\ short[last] <= hot_caller_th THEN [short EXCEPT ![last] = @ + 1]
                  ELSE short
      /\ seen' = IF hit THEN seen \cup {<<t, last>>} ELSE seen
  BY <1>1, <1>2, Zenon DEF Count, Info
<1>4. /\ pc' = [pc EXCEPT ![t] = "user"] /\ ts' \in [Pid -> Nat] /\ ip' \in [Pid -> Addr]
      /\ loc' = [loc EXCEPT ![t] = [current_time |-> 0, pos |-> 0]]
  BY Zenon DEF Count, Types, Addr
<1> HIDE DEF p, hit
<1>5. /\ short' \in [Addr -> Nat] /\ seen \subseteq seen' /\ \A r \in Addr : short[r] <= short'[r]
      /\ hit => /\ seen' = seen \cup {<<t, last>>}
                /\ short'[last] = IF short[last] <= hot_caller_th THEN short[last] + 1
                                  ELSE short[last]
  BY <1>1, <1>3
<1>6. slot \in Slot /\ Backed(slot, short', seen')
  <2>1. Backed(rec.caller[p], short, seen)
    BY <1>2, Zenon DEF Counted
  <2> QED
    BY <1>1, <1>2, <1>5, <2>1, CreditBacked, BackedMore, Zenon
<1>7. \A q \in Pos : rec.caller[q] \in Slot /\ Backed(rec.caller[q], short', seen')
  BY <1>1, <1>5, BackedMore, Zenon DEF Counted
<1> HIDE DEF slot
<1>8. f \in [Pos -> Slot] /\ \A q \in Pos : Backed(f[q], short', seen')
  BY <1>1, <1>2, <1>6, <1>7, Zenon
<1> HIDE DEF f, last
<1>9. CASE ~rec.interested
  BY <1>3, <1>4, <1>5, <1>7, <1>9, Zenon DEF Counted
<1>10. CASE rec.interested
  <2>1. /\ my_info' \in Info /\ my_info'.caller = f
        /\ my_info'.milestone_ts = rec.milestone_ts /\ my_info'.interested = rec.interested
    BY <1>1, <1>3, <1>8, <1>10, Zenon DEF Info
  <2> QED
    BY <1>4, <1>5, <1>8, <2>1, Zenon DEF Counted
<1> QED
  BY <1>9, <1>10, Zenon

(* Going over the callers: whichever way it goes, the invariant holds after it,
   and a caller that is handed on is hot. *)
LEMMA ScanIs ==
  ASSUME Inv, NEW rec \in Info, Counted(rec, short, seen), NEW t \in Pid, NEW time \in Nat,
         NEW pos \in Nat, rec.milestone_ts = start, now' \in Nat, now <= now', time <= now',
         overlap \/ Others(t) \/ start <= time, Scan(rec, t, time, pos),
         rec.interested = my_info.interested
  PROVE  /\ Inv'
         /\ pc'[t] = "add" => LET c == my_info'.caller[loc'[t].pos]
                              IN  short[c.rip] > hot_caller_th /\ <<c.pid, c.rip>> \in seen
         /\ \A u \in Pid \ {t} : pc'[u] = pc[u] /\ loc'[u] = loc[u]
<1>1. /\ Types /\ Timed /\ overlap' = (overlap \/ Others(t))
      /\ hot_caller_th \in Nat /\ milestone_duration_th \in Nat /\ start \in Nat /\ now \in Nat
      /\ \A u \in Pid : pc[u] = "add" => loc[u].pos \in Pos /\ loc[u].current_time <= now
      /\ loc \in [Pid -> [current_time : Nat, pos : Nat]] /\ start <= now
      /\ pc \in [Pid -> {"user", "call", "add"}]
  BY Consts, Zenon DEF Inv, Types, Timed, Scan
<1>2. CASE Hot(rec, pos) = {}
  <2> DEFINE cl == Cleared(rec, pos, max_caller)
             ms == Milestone(cl, time)
  <2>1. /\ Count(ms, t, time) /\ start' = time
        /\ took' = IF time - start < milestone_duration_th THEN time - start
                   ELSE milestone_duration_th
    BY <1>2, Zenon DEF Scan
  <2>2. cl \in Info /\ Counted(cl, short, seen) /\ cl.milestone_ts = start
    <3>1. max_caller \in Nat
      BY Consts, Zenon
    <3> QED
      BY <3>1, ClearedIs, ClearedCounted, Zenon
  <2> HIDE DEF cl
  <2>3. /\ ms \in Info /\ ms.caller = cl.caller /\ ms.milestone_ts = time
        /\ ms.interested = Below(time, start, milestone_duration_th)
    BY <2>2, Zenon DEF Milestone, Info, Below
  <2>4. Counted(ms, short, seen)
    BY <2>2, <2>3, Zenon DEF Counted
  <2> HIDE DEF ms
  <2>5. /\ my_info' \in Info /\ short' \in [Addr -> Nat] /\ Counted(my_info, short, seen)'
        /\ my_info'.milestone_ts = time
        /\ my_info'.interested = Below(time, start, milestone_duration_th)
        /\ pc' = [pc EXCEPT ![t] = "user"] /\ ts' \in [Pid -> Nat] /\ ip' \in [Pid -> Addr]
        /\ loc' = [loc EXCEPT ![t] = [current_time |-> 0, pos |-> 0]]
    BY <1>1, <2>1, <2>3, <2>4, CountIs, Zenon
  <2>6. took' \in Int /\ (start <= time => (my_info'.interested <=> took' < milestone_duration_th))
    <3>1. took' \in Int /\ (start <= time => (time - start < milestone_duration_th <=>
                                              took' < milestone_duration_th))
      BY <1>1, <2>1
    <3>2. start <= time => (Below(time, start, milestone_duration_th) <=>
                            time - start < milestone_duration_th)
      BY <1>1, Zenon DEF Below
    <3> QED
      BY <2>5, <3>1, <3>2, Zenon
  <2>7. Types'
    BY <1>1, <2>1, <2>5, <2>6, Zenon DEF Types
  <2>8. /\ pc'[t] = "user" /\ \A u \in Pid \ {t} : pc'[u] = pc[u] /\ loc'[u] = loc[u]
    BY <1>1, <2>5, Zenon
  <2>9. ~overlap' => Alone' /\ InterestRight'
    BY <1>1, <2>6, <2>8, Zenon DEF Alone, InterestRight, Others
  <2>10. Timed'
    BY <2>1, <2>5, <2>9, Zenon DEF Timed
  <2>11. \A u \in Pid : pc'[u] = "add" => loc'[u].pos \in Pos /\ loc'[u].current_time <= now'
    <3> SUFFICES ASSUME NEW u \in Pid, pc'[u] = "add"
                 PROVE  loc'[u].pos \in Pos /\ loc'[u].current_time <= now'
      BY Zenon
    <3>1. loc'[u] = loc[u] /\ pc[u] = "add" /\ loc[u].current_time \in Nat
      BY <1>1, <2>8, Zenon
    <3> QED
      BY <1>1, <3>1
  <2> QED
    BY <2>5, <2>7, <2>8, <2>10, <2>11, Zenon DEF Inv
<1>3. CASE Hot(rec, pos) # {}
  <2>1. PICK end \in Hot(rec, pos) :
             /\ my_info' = Cleared(rec, pos, end) /\ pc' = [pc EXCEPT ![t] = "add"]
             /\ loc' = [loc EXCEPT ![t] = [current_time |-> time, pos |-> end]]
             /\ UNCHANGED <<ts, ip, short, seen, start, took>>
    BY <1>3, Zenon DEF Scan
  <2>2. /\ end \in Pos /\ end \in Nat /\ end \notin pos .. end - 1
        /\ rec.caller[end].cnt > hot_caller_th
    BY Consts DEF Hot, Pos
  <2>3. /\ my_info' \in Info /\ Counted(my_info', short, seen) /\ my_info'.milestone_ts = start
        /\ my_info'.interested = my_info.interested /\ my_info'.caller[end] = rec.caller[end]
    <3> DEFINE cl == Cleared(rec, pos, end)
    <3>1. end \in Nat
      BY <2>2, Zenon
    <3>2. cl \in Info
      BY <3>1, ClearedIs, Zenon
    <3>3. cl.milestone_ts = rec.milestone_ts
      BY <3>1, ClearedIs, Zenon
    <3>4. cl.interested = rec.interested
      BY <3>1, ClearedIs, Zenon
    <3>5. cl.caller[end] = rec.caller[end]
      BY <2>2, ClearedAt, Zenon
    <3>6. Counted(cl, short, seen)
      BY <3>1, ClearedCounted, Zenon
    <3>7. my_info' = cl
      BY <2>1, Zenon
    <3> HIDE DEF cl
    <3> QED
      BY <3>2, <3>3, <3>4, <3>5, <3>6, <3>7, Zenon
  <2>4. /\ pc'[t] = "add" /\ \A u \in Pid \ {t} : pc'[u] = pc[u] /\ loc'[u] = loc[u]
        /\ loc'[t].current_time = time /\ loc'[t].pos = end
        /\ loc' \in [Pid -> [current_time : Nat, pos : Nat]]
        /\ pc' \in [Pid -> {"user", "call", "add"}]
    BY <1>1, <2>1, <2>2, Zenon
  <2>5. Types'
    BY <1>1, <2>1, <2>3, <2>4, Zenon DEF Types
  <2>6. ASSUME ~overlap' PROVE Alone' /\ InterestRight'
    <3>1. \A u \in Pid \ {t} : pc'[u] # "add"
      BY <1>1, <2>4, <2>6, Zenon DEF Others
    <3>2. start' <= loc'[t].current_time /\ loc'[t].current_time <= now'
      BY <1>1, <2>1, <2>4, <2>6, Zenon
    <3>3. Alone'
      BY <3>1, <3>2, Zenon DEF Alone
    <3>4. InterestRight'
      BY <1>1, <2>1, <2>3, <2>6, Zenon DEF Timed, InterestRight
    <3> QED
      BY <3>3, <3>4, Zenon
  <2>7. Timed'
    BY <1>1, <2>1, <2>3, <2>6 DEF Timed
  <2>8. \A u \in Pid : pc'[u] = "add" => loc'[u].pos \in Pos /\ loc'[u].current_time <= now'
    <3> SUFFICES ASSUME NEW u \in Pid \ {t}, pc'[u] = "add"
                 PROVE  loc'[u].pos \in Pos /\ loc'[u].current_time <= now'
      BY <2>2, <2>4, Zenon
    <3>1. loc'[u] = loc[u] /\ pc[u] = "add" /\ loc[u].current_time \in Nat
      BY <1>1, <2>4, Zenon
    <3> QED
      BY <1>1, <3>1
  <2>9. Counted(my_info, short, seen)'
    BY <2>1, <2>3, Zenon DEF Counted, Backed
  <2>10. LET c == my_info'.caller[loc'[t].pos]
         IN  short[c.rip] > hot_caller_th /\ <<c.pid, c.rip>> \in seen
    <3> DEFINE slot == my_info'.caller[end]
    <3>1. Backed(slot, short, seen) /\ slot \in Slot
      BY <2>2, <2>3, Zenon DEF Counted, Info
    <3>2. short[slot.rip] \in Nat /\ slot.cnt \in Nat
      BY <1>1, <3>1, Zenon DEF Types, Slot
    <3>3. slot.cnt > hot_caller_th
      BY <2>2, <2>3, Zenon
    <3> HIDE DEF slot
    <3>4. short[slot.rip] > hot_caller_th /\ <<slot.pid, slot.rip>> \in seen
      BY <3>1, <3>2, <3>3, Consts DEF Backed
    <3> QED
      BY <2>4, <3>4, Zenon DEF slot
  <2> QED
    BY <2>4, <2>5, <2>7, <2>8, <2>9, <2>10, Zenon DEF Inv
<1> QED
  BY <1>2, <1>3, Zenon

(* What AddedIsHot says of one step. *)
HandsOnHot ==
    \A t \in Pid : pc'[t] = "add" /\ (pc[t] # "add" \/ loc'[t] # loc[t]) =>
       LET c == my_info'.caller[loc'[t].pos]
       IN  short[c.rip] > hot_caller_th /\ <<c.pid, c.rip>> \in seen

(* The same, for the steps that go over the callers. *)
LEMMA ScanStep ==
  ASSUME Inv, NEW rec \in Info, Counted(rec, short, seen), NEW t \in Pid, NEW time \in Nat,
         NEW pos \in Nat, rec.milestone_ts = start, now' \in Nat, now <= now', time <= now',
         overlap \/ Others(t) \/ start <= time, Scan(rec, t, time, pos),
         rec.interested = my_info.interested
  PROVE  Inv' /\ HandsOnHot
  BY ScanIs, Zenon DEF HandsOnHot

(* The clock does not go back. *)
LEMMA LaterIs ==
  ASSUME Types, \E gap \in 0 .. MaxGap : Later(gap)
  PROVE  now' \in Nat /\ now <= now'
  BY DEF Types, Later

(* The three steps of a thread. *)
LEMMA SyscallStep ==
  ASSUME Inv, NEW t \in Pid, Syscall(t)
  PROVE  Inv' /\ HandsOnHot
<1>1. /\ Types /\ Timed /\ Counted(my_info, short, seen)
      /\ \A u \in Pid : pc[u] = "add" => loc[u].pos \in Pos /\ loc[u].current_time <= now
      /\ loc \in [Pid -> [current_time : Nat, pos : Nat]] /\ now \in Nat /\ start \in Nat
  BY Zenon DEF Inv, Types
<1>2. now' \in Nat /\ now <= now'
  BY <1>1, LaterIs, Zenon DEF Syscall
<1>3. /\ UNCHANGED <<my_info, loc, short, seen, start, took, overlap>>
      /\ pc' = [pc EXCEPT ![t] = "call"] /\ pc' \in [Pid -> {"user", "call", "add"}]
      /\ ts' \in [Pid -> Nat] /\ ip' \in [Pid -> Addr]
  BY <1>1, <1>2, Zenon DEF Syscall, Types, Addr
<1>4. \A u \in Pid : pc'[u] = "add" => pc[u] = "add"
  BY <1>1, <1>3, Zenon DEF Types
<1>5. Types'
  BY <1>1, <1>2, <1>3, Zenon DEF Types
<1>6. \A u \in Pid : pc'[u] = "add" => loc'[u].pos \in Pos /\ loc'[u].current_time <= now'
  <2> SUFFICES ASSUME NEW u \in Pid, pc'[u] = "add"
               PROVE  loc'[u].pos \in Pos /\ loc'[u].current_time <= now'
    BY Zenon
  <2>1. loc[u].current_time \in Nat /\ loc[u].pos \in Pos /\ loc[u].current_time <= now
    BY <1>1, <1>4, Zenon
  <2> QED
    BY <1>1, <1>2, <1>3, <2>1
<1>7. Timed'
  <2>1. start' <= now'
    BY <1>1, <1>2, <1>3 DEF Timed
  <2>2. Alone => Alone'
    BY <1>3, <1>4, <1>6, Zenon DEF Alone
  <2> QED
    BY <1>1, <1>3, <2>1, <2>2, Zenon DEF Timed, InterestRight
<1>8. Counted(my_info, short, seen)'
  BY <1>1, <1>3, Zenon DEF Counted, Backed
<1>9. HandsOnHot
  BY <1>3, <1>4, Zenon DEF HandsOnHot
<1> QED
  BY <1>5, <1>6, <1>7, <1>8, <1>9, Zenon DEF Inv

LEMMA StatStep ==
  ASSUME Inv, NEW t \in Pid, stat_func(t)
  PROVE  Inv' /\ HandsOnHot
<1> DEFINE rec == [my_info EXCEPT !.call_cnt = @ + 1]
<1>1. /\ Types /\ Timed /\ Counted(my_info, short, seen) /\ my_info \in Info
      /\ \A u \in Pid : pc[u] = "add" => loc[u].pos \in Pos /\ loc[u].current_time <= now
      /\ loc \in [Pid -> [current_time : Nat, pos : Nat]] /\ now \in Nat /\ start \in Nat
      /\ pc \in [Pid -> {"user", "call", "add"}] /\ start <= now
  BY Zenon DEF Inv, Types, Timed
<1>2. now' \in Nat /\ now <= now'
  BY <1>1, LaterIs, Zenon DEF stat_func
<1>3. /\ rec \in Info /\ rec.milestone_ts = my_info.milestone_ts
      /\ rec.interested = my_info.interested /\ rec.caller = my_info.caller
  BY <1>1 DEF Info
<1>4. Counted(rec, short, seen) /\ rec.milestone_ts = start
  BY <1>1, <1>3, Zenon DEF Counted, Timed
<1>5. CASE rec.call_cnt <= milestone_cnt
  <2>1. Count(rec, t, now') /\ UNCHANGED <<start, took, overlap>>
    BY <1>5, Zenon DEF stat_func
  <2> HIDE DEF rec
  <2>2. /\ my_info' \in Info /\ short' \in [Addr -> Nat] /\ Counted(my_info, short, seen)'
        /\ my_info'.milestone_ts = rec.milestone_ts /\ my_info'.interested = rec.interested
        /\ pc' = [pc EXCEPT ![t] = "user"] /\ ts' \in [Pid -> Nat] /\ ip' \in [Pid -> Addr]
        /\ loc' = [loc EXCEPT ![t] = [current_time |-> 0, pos |-> 0]]
    BY <1>1, <1>2, <1>3, <1>4, <2>1, CountIs, Zenon
  <2>3. \A u \in Pid : pc'[u] = "add" => pc[u] = "add" /\ loc'[u] = loc[u]
    BY <1>1, <2>2, Zenon
  <2>4. Types'
    BY <1>1, <1>2, <2>1, <2>2, Zenon DEF Types
  <2>5. \A u \in Pid : pc'[u] = "add" => loc'[u].pos \in Pos /\ loc'[u].current_time <= now'
    <3> SUFFICES ASSUME NEW u \in Pid, pc'[u] = "add"
                 PROVE  loc'[u].pos \in Pos /\ loc'[u].current_time <= now'
      BY Zenon
    <3>1. loc'[u] = loc[u] /\ pc[u] = "add" /\ loc[u].current_time \in Nat
      BY <1>1, <2>3, Zenon
    <3> QED
      BY <1>1, <1>2, <3>1
  <2>6. Timed'
    <3>1. start' <= now' /\ my_info'.milestone_ts = start'
      BY <1>1, <1>2, <1>4, <2>1, <2>2
    <3>2. Alone => Alone'
      BY <2>1, <2>3, <2>5, Zenon DEF Alone
    <3>3. InterestRight => InterestRight'
      BY <1>3, <2>1, <2>2, Zenon DEF InterestRight
    <3> QED
      BY <1>1, <2>1, <3>1, <3>2, <3>3, Zenon DEF Timed
  <2>7. HandsOnHot
    BY <2>3, Zenon DEF HandsOnHot
  <2> QED
    BY <2>2, <2>4, <2>5, <2>6, <2>7, Zenon DEF Inv
<1>6. CASE ~(rec.call_cnt <= milestone_cnt)
  <2>1. PICK pos \in Nat : Scan(rec, t, now', pos)
    BY <1>6, Consts, Zenon DEF stat_func
  <2>2. start <= now' /\ now' <= now'
    BY <1>1, <1>2
  <2> HIDE DEF rec
  <2> QED
    BY <1>2, <1>3, <1>4, <2>1, <2>2, ScanStep, Zenon
<1> QED
  BY <1>5, <1>6, Zenon

LEMMA AddedStep ==
  ASSUME Inv, NEW t \in Pid, Added(t)
  PROVE  Inv' /\ HandsOnHot
<1> DEFINE p    == loc[t].pos
           rec == [my_info EXCEPT !.caller[p].cnt = 0]
           time == loc[t].current_time
<1>1. /\ Types /\ Timed /\ Counted(my_info, short, seen) /\ my_info \in Info
      /\ p \in Pos /\ time \in Nat /\ time <= now /\ pc[t] = "add" /\ now \in Nat
  BY Zenon DEF Inv, Types, Added
<1>2. now' \in Nat /\ now <= now' /\ time <= now'
  BY <1>1, LaterIs DEF Added
<1>3. Scan(rec, t, time, p + 1) /\ p + 1 \in Nat
  BY <1>1, Consts DEF Added, Pos
<1>4. /\ rec \in Info /\ rec.milestone_ts = my_info.milestone_ts
      /\ rec.interested = my_info.interested
      /\ \A q \in Pos : \/ rec.caller[q] = my_info.caller[q]
                        \/ rec.caller[q].cnt = 0
  BY <1>1 DEF Info, Slot
<1>5. Counted(rec, short, seen) /\ rec.milestone_ts = start
  BY <1>1, <1>4 DEF Counted, Backed, Timed
<1>6. overlap \/ start <= time
  BY <1>1, Zenon DEF Timed, Alone
<1> HIDE DEF rec, time, p
<1> QED
  BY <1>1, <1>2, <1>3, <1>4, <1>5, <1>6, ScanStep, Zenon

(* The invariant holds at first, and every step keeps it. *)
LEMMA InitInv == Init => Inv
<1> SUFFICES ASSUME Init PROVE Inv
  BY Zenon
<1>1. Empty \in Slot /\ Empty.cnt = 0 /\ milestone_duration_th \in Nat
  BY Consts, Zenon DEF Empty, Slot, Addr
<1>2. [p \in Pos |-> Empty] \in [Pos -> Slot]
  BY <1>1, Zenon
<1>3. my_info \in Info /\ my_info.milestone_ts = 0 /\ my_info.interested = FALSE
  BY <1>2, Zenon DEF Init, Info, Addr
<1>4. my_info.caller = [p \in Pos |-> Empty]
  BY Zenon DEF Init
<1>5. Types
  <2>1. /\ pc = [t \in Pid |-> "user"] /\ ts = [t \in Pid |-> 0]
        /\ ip = [t \in Pid |-> 0] /\ loc = [t \in Pid |-> [current_time |-> 0, pos |-> 0]]
        /\ now = 1 /\ short = [r \in Addr |-> 0] /\ start = 0
        /\ took = milestone_duration_th /\ overlap = FALSE /\ 0 \in Addr
    BY Zenon DEF Init, Addr
  <2>2. pc \in [Pid -> {"user", "call", "add"}] /\ overlap \in BOOLEAN
    BY <2>1, Zenon
  <2>3. /\ ts \in [Pid -> Nat] /\ now \in Nat /\ start \in Nat /\ took \in Int
        /\ loc \in [Pid -> [current_time : Nat, pos : Nat]]
    BY <1>1, <2>1
  <2>4. ip \in [Pid -> Addr] /\ short \in [Addr -> Nat]
    BY <2>1, Zenon
  <2> QED
    BY <1>3, <2>2, <2>3, <2>4, Zenon DEF Types
<1>6. Counted(my_info, short, seen)
  BY <1>1, <1>4 DEF Counted, Backed
<1>7. \A t \in Pid : pc[t] # "add"
  BY Zenon DEF Init
<1>8. start <= now /\ my_info.milestone_ts = start /\ InterestRight
  BY <1>1, <1>3 DEF Init, InterestRight
<1>9. Alone
  BY <1>7, Zenon DEF Alone
<1> QED
  BY <1>5, <1>6, <1>7, <1>8, <1>9, Zenon DEF Inv, Timed

LEMMA NextInv == Inv /\ [Next]_vars => Inv' /\ [HandsOnHot]_vars
<1> SUFFICES ASSUME Inv, [Next]_vars PROVE Inv' /\ [HandsOnHot]_vars
  BY Zenon
<1>1. CASE Next
  <2>1. Inv' /\ HandsOnHot
    BY <1>1, SyscallStep, StatStep, AddedStep, Zenon DEF Next
  <2> QED
    BY <2>1, Zenon
<1>2. CASE UNCHANGED vars
  <2>1. Types' /\ Counted(my_info, short, seen)'
    BY <1>2, Zenon DEF vars, Inv, Types, Counted, Backed
  <2>2. Timed'
    BY <1>2, Zenon DEF vars, Inv, Timed, Alone, InterestRight
  <2> QED
    BY <1>2, <2>1, <2>2, Zenon DEF vars, Inv
<1> QED
  BY <1>1, <1>2, Zenon DEF vars

(* The invariant: types, counts that are backed by short calls after the address
   of the slot, and a milestone whose end no one else has entered. *)
THEOREM Invariant == Spec => []Inv
  BY InitInv, NextInv, PTL DEF Spec

(* stat_func calls exe_add only for an address after which more than
   hot_caller_th short calls were counted, by a thread that was seen after it. *)
THEOREM OnlyHotAdded == Spec => AddedIsHot
  BY InitInv, NextInv, PTL DEF Spec, AddedIsHot, HandsOnHot

(* `interested' is what the last milestone took, compared with
   milestone_duration_th, unless two threads were at the end of one at once. *)
THEOREM AlwaysInterestAlone == Spec => []InterestAlone
<1>1. Inv => InterestAlone
  BY Zenon DEF Inv, Timed, InterestAlone
<1> QED
  BY <1>1, Invariant, PTL

(***************************************************************************)
(* Life.                                                                   *)
(***************************************************************************)

Stage == {"out", "stat_init", "exe_init", "sys_init", "set_hook", "set_table", "in",
          "stat_exit", "sys_exit", "exe_exit", "gone"}
Hooked == {"set_table", "in"}
Filed  == Hooked \cup {"set_hook", "stat_exit", "sys_exit"}
Tabled == Filed \cup {"sys_init", "exe_exit"}

(* What is there at each stage. *)
Stages ==
    /\ mod \in Stage
    /\ text <=> mod # "out"
    /\ zz_var <=> mod \in Hooked
    /\ info <=> mod \in Hooked \cup {"exe_init", "sys_init", "set_hook", "stat_exit"}
    /\ exes <=> mod \in Tabled
    /\ mod = "in" => zz_sys_call_table
    /\ file \in {"none", "there", "going"}
    /\ file # "none" => mod \in Filed
    /\ file = "there" => kobj_ref

Handlers ==
    /\ rd \in [Reader -> BOOLEAN]
    /\ \A r \in Reader : rd[r] => file # "none"

Beyond ==
    /\ hook \in [Thread -> {"user", "test", "call", "func", "stat", "oops"}]
    /\ \A t \in Thread : hook[t] \in {"call", "func", "stat"} => mod \in Hooked \/ t \in late
    /\ \A t \in Thread : hook[t] = "oops" => t \in late

LifeInv == Stages /\ Handlers /\ Beyond

(* Nothing is there before the module is loaded. *)
LEMMA LifeFirst == LifeInit => LifeInv
  BY Zenon DEF LifeInit, LifeInv, Stages, Handlers, Beyond, Stage, Hooked, Filed, Tabled

(* A step of zz_lkm_init or zz_lkm_exit other than clearing the hook moves no
   thread. *)
LEMMA ModuleInv == LifeInv /\ (Insmod \/ Module) => LifeInv'
<1> SUFFICES ASSUME LifeInv, Insmod \/ Module PROVE LifeInv'
  BY Zenon
<1> USE DEF LifeInv, Stages, Handlers, Beyond, Stage, Hooked, Filed, Tabled, data, Threads
<1>1. CASE Insmod    BY <1>1, Zenon DEF Insmod
<1>2. CASE stat_init BY <1>2, Zenon DEF stat_init
<1>3. CASE exe_init  BY <1>3, Zenon DEF exe_init
<1>4. CASE sys_init  BY <1>4, Zenon DEF sys_init
<1>5. CASE SetHook   BY <1>5, Zenon DEF SetHook
<1>6. CASE SetTable  BY <1>6, Zenon DEF SetTable
<1>7. CASE stat_exit BY <1>7, Zenon DEF stat_exit
<1>8. CASE sys_exit  BY <1>8, Zenon DEF sys_exit
<1>9. CASE exe_exit  BY <1>9, Zenon DEF exe_exit
<1>10. CASE Rmmod    BY <1>10, Zenon DEF Rmmod
<1> QED
  BY <1>1, <1>2, <1>3, <1>4, <1>5, <1>6, <1>7, <1>8, <1>9, <1>10, Zenon DEF Module

(* Clearing the hook: whoever is beyond the test is late. *)
LEMMA ClearInv == LifeInv /\ ClearHook => LifeInv'
  BY DEF LifeInv, Stages, Handlers, Beyond, Stage, Hooked, Filed, Tabled, data, ClearHook

(* A thread moves. *)
LEMMA ThreadInv ==
  ASSUME NEW t \in Thread, LifeInv, do_syscall_64(t) \/ func(t) PROVE LifeInv'
<1> USE DEF LifeInv
<1>1. ASSUME NEW at, Move(t, at)
      PROVE  Stages' /\ Handlers' /\ UNCHANGED <<mod, zz_var, exes, info, text>>
  BY <1>1, Zenon DEF Move, Stages, Handlers, data
<1>2. ASSUME NEW at \in {"user", "test"}, Move(t, at)
      PROVE  Beyond'
  BY <1>2, Zenon DEF Move, Beyond, data
<1>3. ASSUME NEW at \in {"call", "func", "stat"}, Move(t, at), mod \in Hooked \/ t \in late
      PROVE  Beyond'
  BY <1>3, Zenon DEF Move, Beyond, data
<1>4. ASSUME Move(t, "oops"), t \in late
      PROVE  Beyond'
  BY <1>4, Zenon DEF Move, Beyond, data
<1>5. mod \in Hooked => zz_var /\ text /\ exes /\ info
  BY Zenon DEF Stages, Hooked, Filed, Tabled
<1>6. zz_var => mod \in Hooked
  BY Zenon DEF Stages
<1>7. hook[t] \in {"call", "func", "stat"} => mod \in Hooked \/ t \in late
  BY Zenon DEF Beyond
<1>8. CASE do_syscall_64(t)
  BY <1>1, <1>2, <1>3, <1>4, <1>5, <1>6, <1>7, <1>8, Zenon DEF do_syscall_64
<1>9. CASE func(t)
  BY <1>1, <1>2, <1>3, <1>4, <1>5, <1>7, <1>9, Zenon DEF func
<1> QED
  BY <1>8, <1>9, Zenon

(* A handler of the file starts or ends. *)
LEMMA HandlerInv ==
  ASSUME NEW r \in Reader, LifeInv, SysfsEnter(r) \/ SysfsLeave(r) PROVE LifeInv'
<1> USE DEF LifeInv, Stages, Handlers, Beyond, data, Threads
<1>1. CASE SysfsEnter(r) BY <1>1, Zenon DEF SysfsEnter
<1>2. CASE SysfsLeave(r) BY <1>2, Zenon DEF SysfsLeave
<1> QED
  BY <1>1, <1>2, Zenon

(* Nothing moves. *)
LEMMA StutterInv == LifeInv /\ UNCHANGED life_vars => LifeInv'
  BY DEF LifeInv, Stages, Handlers, Beyond, life_vars

(* The invariant the theorems rest on. *)
THEOREM LifeInvariant == LifeSpec => []LifeInv
<1>1. LifeInv /\ [LifeNext]_life_vars => LifeInv'
  <2> SUFFICES ASSUME LifeInv, [LifeNext]_life_vars PROVE LifeInv'
    BY Zenon
  <2>1. CASE LifeNext
    BY <2>1, ModuleInv, ClearInv, ThreadInv, HandlerInv, Zenon DEF LifeNext
  <2>2. CASE UNCHANGED life_vars
    BY <2>2, StutterInv, Zenon
  <2> QED
    BY <2>1, <2>2, Zenon
<1> QED
  BY LifeFirst, <1>1, PTL DEF LifeSpec

(* sysfs_show and sysfs_store run only while the table they read and write is
   allocated and their code is in memory, however the handlers interleave with
   zz_lkm_init and zz_lkm_exit. *)
THEOREM SysfsIsSafe == LifeSpec => []SysfsSafe
<1>1. LifeInv => SysfsSafe
  BY Zenon DEF LifeInv, Stages, Handlers, SysfsSafe, Stage, Hooked, Filed, Tabled
<1> QED
  BY LifeInvariant, <1>1, PTL

(* Only a thread that had passed the test of zz_var before it was cleared goes
   wrong in the hook. *)
THEOREM ThreadsAreSafe == LifeSpec => []ThreadsSafe
<1>1. LifeInv => ThreadsSafe
  BY Zenon DEF LifeInv, Beyond, ThreadsSafe
<1> QED
  BY LifeInvariant, <1>1, PTL

(* exe_on_call runs without zz_sys_call_table only between the last two stores of
   zz_lkm_init, or in a thread that was in the hook when the module went. *)
THEOREM TableIsSet == LifeSpec => []TableWindow
<1>1. LifeInv => TableWindow
  BY Zenon DEF LifeInv, Stages, Beyond, TableWindow, Hooked
<1> QED
  BY LifeInvariant, <1>1, PTL
=============================================================================
