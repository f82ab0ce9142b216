------------------------------ MODULE Lifecycle ------------------------------
(***************************************************************************)
(* Loading and unloading the module (ub/zz_lkm/zz_lkm_main.c) while        *)
(* threads make system calls and the daemon uses the file in sysfs.  Only  *)
(* what the life of `info', `exes', the file and the module's text depends *)
(* on is modelled; what the threads and the daemon do with the table is    *)
(* Bypass.  kernfs, which waits for handlers before a file is gone, and    *)
(* the freeing of the text after zz_lkm_exit are external.                 *)
(***************************************************************************)
EXTENDS Naturals

CONSTANTS
    Thread, Reader,     \* threads; processes that use the file
    MaxLoad             \* bound: how often the module is loaded

ASSUME LoadAssumption == MaxLoad \in Nat

VARIABLES
    zz_var,             \* the hook is set
    zz_sys_call_table,  \* is set
    info, exes, text,   \* allocated, allocated, in memory
    file,               \* "none", "there", or "going": no new handlers
    kobj_ref,           \* the directory was created
    mod,                \* where zz_lkm_init or zz_lkm_exit is
    hook,               \* thread: "user", "test", "call", "func", "stat", "oops"
    rd,                 \* reader: is in sysfs_show or sysfs_store
    late,               \* history: past the test when the hook was cleared
    loads

life_vars ==
    <<zz_var, zz_sys_call_table, info, exes, text, file, kobj_ref, mod, hook, rd, late, loads>>
data == <<info, exes, text>>

LifeInit ==
    /\ zz_var = FALSE /\ zz_sys_call_table = FALSE /\ file = "none" /\ kobj_ref = FALSE
    /\ info = FALSE /\ exes = FALSE /\ text = FALSE /\ mod = "out" /\ loads = 0
    /\ hook = [t \in Thread |-> "user"] /\ rd = [r \in Reader |-> FALSE]
    /\ late = {}

Threads == <<hook, late>>

(***************************************************************************)
(* zz_lkm_init.                                                            *)
(***************************************************************************)

Insmod ==
    /\ mod = "out" /\ loads < MaxLoad /\ loads' = loads + 1 /\ text' = TRUE
    /\ kobj_ref' = FALSE /\ zz_sys_call_table' = FALSE /\ mod' = "stat_init"
    /\ UNCHANGED <<zz_var, info, exes, file, rd, Threads>>

stat_init ==
    /\ mod = "stat_init" /\ info' = TRUE /\ mod' = "exe_init"
    /\ UNCHANGED <<zz_var, zz_sys_call_table, exes, text, file, kobj_ref, rd, loads, Threads>>

exe_init ==
    /\ mod = "exe_init" /\ exes' = TRUE /\ mod' = "sys_init"
    /\ UNCHANGED <<zz_var, zz_sys_call_table, info, text, file, kobj_ref, rd, loads, Threads>>

(* Without the directory, or without the file, the module is loaded all the same. *)
sys_init ==
    /\ mod = "sys_init" /\ mod' = "set_hook"
    /\ \/ kobj_ref' = TRUE /\ file' \in {"there", "none"}
       \/ UNCHANGED <<kobj_ref, file>>
    /\ UNCHANGED <<zz_var, zz_sys_call_table, data, rd, loads, Threads>>

SetHook ==
    /\ mod = "set_hook" /\ zz_var' = TRUE /\ mod' = "set_table"
    /\ UNCHANGED <<zz_sys_call_table, data, file, kobj_ref, rd, loads, Threads>>

(* Mutant of SetTable: the symbol is not found. *)
SetTableNot ==
    /\ mod = "set_table" /\ mod' = "in"
    /\ UNCHANGED <<zz_var, zz_sys_call_table, data, file, kobj_ref, rd, loads, Threads>>

SetTable ==
    /\ mod = "set_table" /\ zz_sys_call_table' = TRUE /\ mod' = "in"
    /\ UNCHANGED <<zz_var, data, file, kobj_ref, rd, loads, Threads>>

(***************************************************************************)
(* zz_lkm_exit.                                                            *)
(***************************************************************************)

(* Mutant of ClearHook: the hook stays. *)
ClearHookNot ==
    /\ mod = "in" /\ mod' = "stat_exit"
    /\ late' = late \cup {t \in Thread : hook[t] \in {"call", "func", "stat"}}
    /\ UNCHANGED <<zz_var, zz_sys_call_table, data, file, kobj_ref, hook, rd, loads>>

ClearHook ==
    /\ mod = "in" /\ zz_var' = FALSE /\ mod' = "stat_exit"
    /\ late' = late \cup {t \in Thread : hook[t] \in {"call", "func", "stat"}}
    /\ UNCHANGED <<zz_sys_call_table, data, file, kobj_ref, hook, rd, loads>>

stat_exit ==
    /\ mod = "stat_exit" /\ info' = FALSE /\ mod' = "sys_exit"
    /\ UNCHANGED <<zz_var, zz_sys_call_table, exes, text, file, kobj_ref, rd, loads, Threads>>

(* Mutant of sys_exit: the file stays. *)
sys_exit_not ==
    /\ mod = "sys_exit" /\ mod' = "exe_exit"
    /\ UNCHANGED <<zz_var, zz_sys_call_table, data, file, kobj_ref, rd, loads, Threads>>

(* Mutant of sys_exit: new handlers start while it waits. *)
sys_exit_open ==
    /\ mod = "sys_exit" /\ \A r \in Reader : ~rd[r]
    /\ file' = "none" /\ mod' = "exe_exit"
    /\ UNCHANGED <<zz_var, zz_sys_call_table, data, kobj_ref, rd, loads, Threads>>

(* kobject_del: first no new handlers, then no handlers. *)
sys_exit ==
    /\ mod = "sys_exit"
    /\ IF kobj_ref /\ file = "there" THEN file' = "going" /\ UNCHANGED mod
       ELSE /\ file = "going" => \A r \in Reader : ~rd[r]
            /\ file' = "none" /\ mod' = "exe_exit"
    /\ UNCHANGED <<zz_var, zz_sys_call_table, data, kobj_ref, rd, loads, Threads>>

exe_exit ==
    /\ mod = "exe_exit" /\ exes' = FALSE /\ mod' = "gone"
    /\ UNCHANGED <<zz_var, zz_sys_call_table, info, text, file, kobj_ref, rd, loads, Threads>>

Rmmod ==
    /\ mod = "gone" /\ text' = FALSE /\ mod' = "out"
    /\ UNCHANGED <<zz_var, zz_sys_call_table, info, exes, file, kobj_ref, rd, loads, Threads>>

Module ==
    \/ stat_init \/ exe_init \/ sys_init \/ SetHook \/ SetTable
    \/ stat_exit \/ sys_exit \/ exe_exit \/ Rmmod

(***************************************************************************)
(* Threads and readers.                                                    *)
(***************************************************************************)

Move(t, at) ==
    /\ hook' = [hook EXCEPT ![t] = at] /\ late' = IF at = "user" THEN late \ {t} ELSE late
    /\ UNCHANGED <<zz_var, zz_sys_call_table, data, file, kobj_ref, mod, rd, loads>>

(* The end of do_syscall_64: zz_var is tested, and read again to be called. *)
do_syscall_64(t) ==
    \/ hook[t] = "user" /\ Move(t, "test")
    \/ hook[t] = "test" /\ Move(t, IF zz_var THEN "call" ELSE "user")
    \/ hook[t] = "call" /\ Move(t, IF zz_var /\ text THEN "func" ELSE "oops")

(* func: exe_on_call on the table, then stat_func on the counters. *)
func(t) ==
    \/ hook[t] = "func" /\ Move(t, IF exes /\ text THEN "stat" ELSE "oops")
    \/ hook[t] = "stat" /\ Move(t, IF info /\ text THEN "user" ELSE "oops")

(* A handler of the file starts; and ends. *)
SysfsEnter(r) ==
    /\ ~rd[r] /\ file = "there" /\ rd' = [rd EXCEPT ![r] = TRUE]
    /\ UNCHANGED <<zz_var, zz_sys_call_table, data, file, kobj_ref, mod, loads, Threads>>

SysfsLeave(r) ==
    /\ rd[r] /\ rd' = [rd EXCEPT ![r] = FALSE]
    /\ UNCHANGED <<zz_var, zz_sys_call_table, data, file, kobj_ref, mod, loads, Threads>>

LifeNext ==
    \/ Insmod \/ Module \/ ClearHook
    \/ \E t \in Thread : do_syscall_64(t) \/ func(t)
    \/ \E r \in Reader : SysfsEnter(r) \/ SysfsLeave(r)

LifeSpec == LifeInit /\ [][LifeNext]_life_vars

(* insmod and rmmod go on; a handler of the file ends. *)
FairSpec ==
    LifeSpec /\ WF_life_vars(Module) /\ \A r \in Reader : WF_life_vars(SysfsLeave(r))

(***************************************************************************)
(* Properties.                                                             *)
(***************************************************************************)

(* sysfs_show and sysfs_store never run on a table that is not there yet or not
   any more, nor in a module that is gone: the file comes after exe_init, and
   sys_exit stands between its last handler and exe_exit. *)
SysfsSafe == \A r \in Reader : rd[r] => exes /\ text

(* A system call goes wrong in the hook only in a thread that had passed the test
   of zz_var before zz_lkm_exit cleared it: setting the hook last and clearing
   it first protects every other, also when the module is loaded again. *)
ThreadsSafe == \A t \in Thread : hook[t] = "oops" => t \in late

(* zz_lkm_init sets the hook before zz_sys_call_table, through which exe_on_call
   dispatches: a thread can be in func without it between the two stores, or
   if it was there when the module was unloaded, and never otherwise. *)
TableWindow ==
    \A t \in Thread : hook[t] = "func" /\ ~zz_sys_call_table =>
        mod = "set_table" \/ t \in late

(* Unloading ends: kobject_del waits only for handlers that end. *)
UnloadEnds == mod = "stat_exit" ~> mod = "out"
=============================================================================
