----------------------------- MODULE PidLedger -----------------------------
(***************************************************************************)
(* The table of pids that one bxroot process keeps (px_ledger of proc.c)   *)
(* and every call that reads or writes it: fork, posix_spawn, system,      *)
(* popen and pclose, the hooks of the wait family, kill, and the           *)
(* kill-on-exit handler.  kill() goes only to pids the table has as LIVE.  *)
(* The kernel hands a free pid to any new process, ours or not.            *)
(***************************************************************************)
EXTENDS Integers, FiniteSets

CONSTANTS
  Threads, NoThread,
  Pids, NoPid,
  Old,              (* entries of children reaped long ago                  *)
  InitCap, MaxCap,  (* slots at first and at most (256 and 2^22)            *)
  Ops,              (* the calls that each thread makes                     *)
  Refusable         (* the allocations that may be refused                  *)

Creations == {"fork", "spawn", "system", "popen"}
Signals == {"KILL", "TERM"}
Waits == {"wait", "waitnull", "pclose"}
Calls == Creations \cup Signals \cup Waits \cup {"exit"}

ASSUME LedgerAssumption ==
  /\ NoThread \notin Threads
  /\ NoPid \notin Pids
  /\ IsFiniteSet(Pids)
  /\ Old \in Nat /\ InitCap \in Nat /\ InitCap >= 4
  /\ MaxCap \in Nat
  /\ Ops \in [Threads -> SUBSET Calls]
  /\ Refusable \subseteq {"compact", "grow"}

VARIABLES
  proc,    (* the kernel: whose process has the pid                         *)
  life,    (* the entry of the pid                                          *)
  rest,    (* the number of entries of other pids: our own, REAPED ones     *)
  tombs,   (* slots given back                                              *)
  cap,     (* slots                                                         *)
  lock,    (* who holds g_ledger_mutex between two steps                    *)
  pc, op,  (* where each thread is, in which call                           *)
  on,      (* ... about which pid                                           *)
  todo,    (* what kill-on-exit has still to look at                        *)
  piped,   (* the children of popen whose stream is open                    *)
  stale,   (* ghost: pids whose last process ended with the entry LIVE      *)
  lost,    (* ghost: children whose entry was not made LIVE                 *)
  ran      (* ghost: the children that the call of each thread has made     *)

table == <<life, rest, tombs, cap, lock>>
ghosts == <<stale, lost>>   (* ran goes with pc, op and on *)
vars == <<proc, table, pc, op, on, ran, todo, piped, ghosts>>

PCs == {"run", "register", "again", "evict", "abort", "await", "note", "twice",
        "mark", "deliver", "exit", "exitnote", "gone", "real", "inner"}

TypeOK ==
  /\ proc \in [Pids -> {"free", "run", "zombie", "other"}]
  /\ life \in [Pids -> {"none", "live", "reaped"}]
  /\ rest \in Old .. Old + 1
  /\ tombs \in 0 .. 1
  /\ cap \in Nat
  /\ lock \in Threads \cup {NoThread}
  /\ pc \in [Threads -> PCs]
  /\ op \in [Threads -> Calls \cup {"none"}]
  /\ on \in [Threads -> Pids \cup {NoPid}]
  /\ todo \subseteq Pids /\ piped \subseteq Pids
  /\ stale \subseteq Pids /\ lost \subseteq Pids
  /\ ran \in [Threads -> 0 .. 2]

Entries == {p \in Pids : life[p] # "none"}

Count == rest + Cardinality(Entries)

Ours(p) == proc[p] \in {"run", "zombie"}

(* A new image registers itself; a forked child drops that entry and keeps the
   rest of its parent's table, whose live pids are no children of its. *)
Init ==
  /\ \/ rest = Old + 1 /\ tombs = 0 /\ life = [p \in Pids |-> "none"]
     \/ rest = Old /\ tombs = 1 /\ life \in [Pids -> {"none", "live", "reaped"}]
  /\ Count + tombs < InitCap
  /\ cap = InitCap
  /\ proc = [p \in Pids |-> IF life[p] = "live" THEN "other" ELSE "free"]
  /\ lock = NoThread
  /\ pc = [t \in Threads |-> "run"]
  /\ op = [t \in Threads |-> "none"]
  /\ on = [t \in Threads |-> NoPid]
  /\ ran = [t \in Threads |-> 0]
  /\ todo = {} /\ piped = {} /\ lost = {}
  /\ stale = {p \in Pids : life[p] = "live"}

Gone == \E t \in Threads : pc[t] = "gone"

At(t, l) == pc[t] = l /\ ~Gone

Goto(t, l) == pc' = [pc EXCEPT ![t] = l] /\ UNCHANGED <<op, on, ran>>

Call(t, l, o, p) ==
  /\ o \in Ops[t]
  /\ pc' = [pc EXCEPT ![t] = l]
  /\ op' = [op EXCEPT ![t] = o]
  /\ on' = [on EXCEPT ![t] = p]
  /\ ran' = [ran EXCEPT ![t] = IF l \in {"register", "inner"} THEN @ + 1 ELSE @]

Return(t) ==
  /\ pc' = [pc EXCEPT ![t] = "run"]
  /\ op' = [op EXCEPT ![t] = "none"]
  /\ on' = [on EXCEPT ![t] = NoPid]
  /\ ran' = [ran EXCEPT ![t] = 0]

(* A call is about the pid: the kernel does not hand it out again so soon. *)
Busy(p) == p \in todo \/ \E t \in Threads : on[t] = p
-----------------------------------------------------------------------------
(* px_ledger_put *)

(* Seeded fault: the load is compared with > instead of >=. *)
OverloadedLate(n, c) == 4 * n > 3 * c

(* px_ledger_overloaded: PX_LEDGER_LOAD_PERCENT = 75. *)
Overloaded(n, c) == 4 * n >= 3 * c

Full == Overloaded(Count + tombs, cap)

(* Compacting drops the tombstones, and growing doubles the slots. *)
RoomFor(c, b) ==
  \/ ~Full /\ c = cap /\ b = tombs
  \/ Full /\ ~Overloaded(Count, cap) /\ c = cap /\ b = 0
  \/ Full /\ Overloaded(Count, cap) /\ cap < MaxCap /\ c = 2 * cap /\ b = 0

CompactRefused == Full /\ tombs > 0 /\ "compact" \in Refusable

(* px_ledger_grow: PX_EFULL at the limit, PX_ENOMEM. *)
CannotGrow ==
  Full /\ Overloaded(Count, cap) /\ (cap >= MaxCap \/ "grow" \in Refusable)

(* Seeded fault: an entry once REAPED stays so (the defect of 2026-10-18). *)
InsertUnrevived(p, tag, b) ==
  IF life[p] # "none"
    THEN tombs' = b /\ life' = life
    ELSE /\ tombs' \in {b, IF b > 0 THEN b - 1 ELSE b}
         /\ life' = [life EXCEPT ![p] = "live"]

(* A REAPED entry lives again under the tags FORK and SPAWN; a new entry takes
   a tombstone if the probe meets one. *)
Insert(p, tag, b) ==
  IF life[p] # "none"
    THEN /\ tombs' = b
         /\ life' = IF tag = "SYSTEM" THEN life ELSE [life EXCEPT ![p] = "live"]
    ELSE /\ tombs' \in {b, IF b > 0 THEN b - 1 ELSE b}
         /\ life' = [life EXCEPT ![p] = "live"]

(* px_ledger_add, the table has room or makes some. *)
Put(p, tag) ==
  /\ lock = NoThread
  /\ \E c \in {cap, 2 * cap}, b \in {0, tombs} :
       RoomFor(c, b) /\ cap' = c /\ Insert(p, tag, b)
  /\ stale' = IF life'[p] = "live" /\ ~Ours(p) THEN stale \cup {p} ELSE stale
  /\ lost' = IF tag = "SYSTEM" /\ life'[p] = "reaped" THEN lost \cup {p} ELSE lost
  /\ UNCHANGED <<rest, lock>>

(* px_ledger_add, the compacted table cannot be allocated. *)
PutRefused(p) ==
  /\ lock = NoThread
  /\ CompactRefused
  /\ lost' = IF life[p] = "live" THEN lost ELSE lost \cup {p}
  /\ UNCHANGED <<table, stale>>

(* px_ledger_put cannot grow and evicts; px_ledger_evict takes the mutex that
   px_ledger_add already holds. *)
PutEvicts(t) ==
  /\ At(t, "register") \/ At(t, "again")
  /\ lock = NoThread
  /\ CannotGrow
  /\ lock' = t
  /\ tombs' = 0
  /\ Goto(t, "evict")
  /\ UNCHANGED <<proc, life, rest, cap, todo, piped, ghosts>>

-----------------------------------------------------------------------------
(* fork, posix_spawn, system, popen *)

(* The kernel makes the child; nobody else knows its pid yet. *)
Create(t, p, o) ==
  /\ At(t, "run")
  /\ o \in Creations
  /\ proc[p] = "free" /\ ~Busy(p)
  /\ proc' = [proc EXCEPT ![p] = "run"]
  /\ Call(t, "register", o, p)
  /\ stale' = stale \ {p} /\ lost' = lost \ {p}
  /\ UNCHANGED <<table, todo, piped>>

Tag(o) == IF o = "system" THEN "SYSTEM" ELSE IF o = "spawn" THEN "SPAWN" ELSE "FORK"

(* The parent registers the child.  system() goes on to wait for it; popen,
   which called fork(), registers it again. *)
Register(t) ==
  /\ At(t, "register")
  /\ Put(on[t], Tag(op[t]))
  /\ CASE op[t] \in {"fork", "spawn"} -> Return(t)
       [] op[t] = "system" -> Goto(t, "await")
       [] op[t] = "popen" -> Goto(t, "again")
  /\ piped' = IF op[t] = "popen" THEN piped \cup {on[t]} ELSE piped
  /\ UNCHANGED <<proc, todo>>

(* Only fork() looks at the result; it gives the child up. *)
RegisterRefused(t) ==
  /\ At(t, "register")
  /\ PutRefused(on[t])
  /\ CASE op[t] = "spawn" -> Return(t)
       [] op[t] = "system" -> Goto(t, "await")
       [] op[t] \in {"fork", "popen"} -> Goto(t, "abort")
  /\ UNCHANGED <<proc, todo, piped>>

Again(t) ==
  /\ At(t, "again")
  /\ \/ Put(on[t], "SYSTEM")
     \/ PutRefused(on[t])
  /\ Return(t)
  /\ UNCHANGED <<proc, todo, piped>>

(* fork() kills the child it could not register (px_real_kill). *)
Abort(t) ==
  /\ At(t, "abort")
  /\ proc' = [proc EXCEPT ![on[t]] = IF proc[on[t]] = "run" THEN "zombie" ELSE @]
  /\ Goto(t, "await")
  /\ UNCHANGED <<table, todo, piped, ghosts>>

-----------------------------------------------------------------------------
(* The wait family *)

(* waitpid(-1), waitpid(p) and their kin report the end of a child.  With a
   null status, or waitid of all children, the hook does not learn which. *)
Wait(t, p, o) ==
  /\ At(t, "run")
  /\ o \in {"wait", "waitnull"}
  /\ proc[p] = "zombie"
  /\ proc' = [proc EXCEPT ![p] = "free"]
  /\ \/ /\ o = "wait"
        /\ Call(t, "note", o, p)
        /\ UNCHANGED stale
     \/ /\ o = "waitnull" /\ o \in Ops[t]
        /\ stale' = IF life[p] = "live" THEN stale \cup {p} ELSE stale
        /\ UNCHANGED <<pc, op, on, ran>>
  /\ UNCHANGED <<table, todo, piped, lost>>

(* pclose: the slot of the stream is given back, then the child waited for. *)
Pclose(t, p) ==
  /\ At(t, "run")
  /\ p \in piped
  /\ piped' = piped \ {p}
  /\ Call(t, "await", "pclose", p)
  /\ UNCHANGED <<proc, table, todo, ghosts>>

(* waitpid of the one child; it fails with ECHILD if another thread took it.
   Then pclose still marks the entry, and system() takes the failure for the
   lack of a guest shell. *)
Await(t) ==
  /\ At(t, "await")
  /\ \/ /\ proc[on[t]] = "zombie"
        /\ proc' = [proc EXCEPT ![on[t]] = "free"]
        /\ Goto(t, "note")
     \/ /\ ~Ours(on[t])
        /\ CASE op[t] = "pclose" -> Goto(t, "twice")
             [] op[t] = "system" -> Call(t, "real", "system", NoPid)
             [] OTHER -> Return(t)
        /\ UNCHANGED proc
  /\ UNCHANGED <<table, todo, piped, ghosts>>

(* system() without a guest shell. *)
Fallback(t) ==
  /\ At(t, "run")
  /\ Call(t, "real", "system", NoPid)
  /\ UNCHANGED <<proc, table, todo, piped, ghosts>>

(* real_system: libc makes a child and waits for it, unseen by the hooks. *)
RealSystem(t, p) ==
  /\ At(t, "real")
  /\ proc[p] = "free" /\ ~Busy(p)
  /\ proc' = [proc EXCEPT ![p] = "run"]
  /\ Call(t, "inner", "system", p)
  /\ stale' = stale \ {p}
  /\ lost' = IF life[p] = "live" THEN lost \ {p} ELSE lost \cup {p}
  /\ UNCHANGED <<table, todo, piped>>

InnerWait(t) ==
  /\ At(t, "inner")
  /\ \/ /\ proc[on[t]] = "zombie"
        /\ proc' = [proc EXCEPT ![on[t]] = "free"]
        /\ stale' = IF life[on[t]] = "live" THEN stale \cup {on[t]} ELSE stale
     \/ ~Ours(on[t]) /\ UNCHANGED <<proc, stale>>
  /\ Return(t)
  /\ UNCHANGED <<table, todo, piped, lost>>

(* Seeded fault: the mutex is kept when there is no such entry. *)
ReapKeepsLock(p) ==
  /\ lock = NoThread
  /\ life' = [life EXCEPT ![p] = IF @ = "none" THEN @ ELSE "reaped"]
  /\ lock' = IF life[p] = "none" THEN CHOOSE t \in Threads : on[t] = p ELSE lock
  /\ UNCHANGED <<rest, tombs, cap, ghosts>>

(* px_ledger_reap *)
Reap(p) ==
  /\ lock = NoThread
  /\ life' = [life EXCEPT ![p] = IF @ = "none" THEN @ ELSE "reaped"]
  /\ UNCHANGED <<rest, tombs, cap, lock, ghosts>>

(* The hook marks the entry; system() and pclose() mark it once more. *)
Note(t) ==
  /\ At(t, "note")
  /\ Reap(on[t])
  /\ IF op[t] \in {"system", "pclose"} THEN Goto(t, "twice") ELSE Return(t)
  /\ UNCHANGED <<proc, todo, piped>>

Twice(t) ==
  /\ At(t, "twice")
  /\ Reap(on[t])
  /\ Return(t)
  /\ UNCHANGED <<proc, todo, piped>>

-----------------------------------------------------------------------------
(* kill *)

(* Seeded fault: any entry will do, REAPED or not. *)
MayKillAny(p) == life[p] # "none"

(* px_check_kill, of a pid or of the group it leads. *)
MayKill(p) == life[p] = "live"

(* KILL: SIGKILL to a pid.  TERM: another signal, or any signal to a group. *)
KillBegin(t, p, s) ==
  /\ At(t, "run")
  /\ s \in Signals
  /\ lock = NoThread
  /\ MayKill(p)
  /\ Call(t, IF s = "KILL" THEN "mark" ELSE "deliver", s, p)
  /\ UNCHANGED <<proc, table, todo, piped, ghosts>>

(* The entry is marked before the SIGKILL is sent. *)
Mark(t) ==
  /\ At(t, "mark")
  /\ Reap(on[t])
  /\ Goto(t, "deliver")
  /\ UNCHANGED <<proc, todo, piped>>

Deliver(t) ==
  /\ At(t, "deliver")
  /\ \/ proc' = [proc EXCEPT ![on[t]] = IF @ = "run" THEN "zombie" ELSE @]
     \/ op[t] = "TERM" /\ UNCHANGED proc
  /\ Return(t)
  /\ UNCHANGED <<table, todo, piped, ghosts>>

-----------------------------------------------------------------------------
(* kill-on-exit: the atexit handler of the process *)

(* px_ledger_foreach copies the entries and releases the mutex. *)
ExitBegin(t) ==
  /\ At(t, "run")
  /\ \A u \in Threads : pc[u] \notin {"exit", "exitnote"}
  /\ lock = NoThread
  /\ Call(t, "exit", "exit", NoPid)
  /\ todo' = {p \in Pids : life[p] = "live"}
  /\ UNCHANGED <<proc, table, piped, ghosts>>

(* kill(2) as such; a pid of another user or of nobody is left alone. *)
ExitKill(t, p) ==
  /\ At(t, "exit")
  /\ p \in todo
  /\ todo' = todo \ {p}
  /\ \/ /\ proc[p] # "free"
        /\ proc' = [proc EXCEPT ![p] = IF @ = "run" THEN "zombie" ELSE @]
        /\ Call(t, "exitnote", "exit", p)
     \/ proc[p] \in {"free", "other"} /\ UNCHANGED <<proc, pc, op, on, ran>>
  /\ UNCHANGED <<table, piped, ghosts>>

ExitNote(t) ==
  /\ At(t, "exitnote")
  /\ Reap(on[t])
  /\ Call(t, "exit", "exit", NoPid)
  /\ UNCHANGED <<proc, todo, piped>>

ExitEnd(t) ==
  /\ At(t, "exit")
  /\ todo = {}
  /\ Goto(t, "gone")
  /\ UNCHANGED <<proc, table, todo, piped, ghosts>>

-----------------------------------------------------------------------------
(* The kernel and other processes *)

ChildExits(p) ==
  /\ ~Gone
  /\ proc[p] = "run"
  /\ proc' = [proc EXCEPT ![p] = "zombie"]
  /\ UNCHANGED <<table, pc, op, on, ran, todo, piped, ghosts>>

StrangerComes(p) ==
  /\ ~Gone
  /\ proc[p] = "free" /\ ~Busy(p)
  /\ proc' = [proc EXCEPT ![p] = "other"]
  /\ UNCHANGED <<table, pc, op, on, ran, todo, piped, ghosts>>

StrangerGoes(p) ==
  /\ ~Gone
  /\ proc[p] = "other"
  /\ proc' = [proc EXCEPT ![p] = "free"]
  /\ UNCHANGED <<table, pc, op, on, ran, todo, piped, ghosts>>

-----------------------------------------------------------------------------

(* What a call does next without waiting for a child. *)
Continue(t) ==
  \/ Register(t) \/ RegisterRefused(t) \/ Again(t) \/ PutEvicts(t) \/ Abort(t)
  \/ Note(t) \/ Twice(t) \/ Mark(t) \/ Deliver(t)
  \/ \E p \in Pids : ExitKill(t, p)
  \/ ExitNote(t) \/ ExitEnd(t)

Begin(t, p) ==
  \/ \E o \in Calls : Create(t, p, o) \/ Wait(t, p, o) \/ KillBegin(t, p, o)
  \/ Pclose(t, p)

Next ==
  \/ \E t \in Threads :
       \/ \E p \in Pids : Begin(t, p) \/ RealSystem(t, p)
       \/ Continue(t) \/ Await(t) \/ InnerWait(t) \/ Fallback(t) \/ ExitBegin(t)
  \/ \E p \in Pids : ChildExits(p) \/ StrangerComes(p) \/ StrangerGoes(p)

(* A thread in a call runs on. *)
Spec == Init /\ [][Next]_vars /\ \A t \in Threads : WF_vars(Continue(t))

-----------------------------------------------------------------------------
(* Properties *)

(* px_probe ends at an empty slot, so there must be one. *)
EmptySlot == Count + tombs < cap

Noting(p) == \E t \in Threads : on[t] = p /\ pc[t] = "note"

(* A LIVE entry is about a child of this process, unless the end of that child
   was never noted: collected by a wait the hook cannot read or before the
   child was registered, or inherited in fork(). *)
LiveIsOurs ==
  \A p \in Pids : life[p] = "live" => Ours(p) \/ p \in stale \/ Noting(p)

(* Together: the table can be searched, and says of the children what is so. *)
LedgerSound == TypeOK /\ EmptySlot /\ LiveIsOurs

(* Nobody is about to send a signal to a stranger (the "most important"
   verdict of px_check_kill, proc.c:2052), unless the entry is one of these. *)
Aims(t, p) ==
  \/ pc[t] \in {"mark", "deliver"} /\ on[t] = p
  \/ pc[t] \in {"exit", "exitnote"} /\ p \in todo

NoStranger ==
  \A t \in Threads, p \in Pids : Aims(t, p) => proc[p] # "other" \/ p \in stale

(* A child can be killed once the call that made it has registered it, also
   when its pid had a REAPED entry, until it is killed; but for the children of
   posix_spawn whose registration failed and for those of system(). *)
Settling(p) ==
  \E t \in Threads :
    /\ on[t] = p
    /\ \/ pc[t] \in {"register", "evict", "abort"}
       \/ pc[t] = "deliver" /\ op[t] = "KILL"

OwnKillable ==
  \A p \in Pids :
    proc[p] = "run" => life[p] = "live" \/ p \in lost \/ Settling(p)

(* Only waits for a child keep a call from returning, as long as the table can
   grow: px_ledger_put evicts under the mutex that px_ledger_evict takes. *)
Waiting == {"run", "await", "real", "inner"}

CallsReturn ==
  \A t \in Threads :
    []<>(pc[t] \in Waiting \/ Gone \/ \E u \in Threads : pc[u] = "evict")

(* system() runs its command in the host world only for want of a guest shell
   (proc.c:7976-7979), so never after it has run it in the guest.
   The code breaks this, so no run asserts it. *)
SystemOnce == \A t \in Threads : ran[t] <= 1
=============================================================================
