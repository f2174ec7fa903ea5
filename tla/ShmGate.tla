------------------------------ MODULE ShmGate ------------------------------
(***************************************************************************)
(* The gate in front of the shared memory calls of one process             *)
(* (g_shm_transition): 0 idle, 1 a call is emulated, 2 a hooked fork is    *)
(* under way.  Whoever finds it closed gets EAGAIN at once; nobody waits.  *)
(* A new process starts with a copy of its parent's gate and with only the *)
(* thread that forked.                                                     *)
(***************************************************************************)
EXTENDS Integers, FiniteSets

CONSTANTS
  Threads, Procs,   (* threads and address spaces, born or not yet         *)
  NoProc,
  Root, RootThreads (* the first process and its threads                   *)

(* By fork() of the wrapper, by a fork inside libc, by clone(2) as such. *)
Kinds == {"root", "fork", "hidden", "raw"}

PCs == {"run", "shm", "fork", "forked", "atfork", "born"}

ASSUME GateAssumption ==
  /\ NoProc \notin Procs
  /\ Root \in Procs
  /\ RootThreads \subseteq Threads

VARIABLES
  home,   (* the process of each thread, NoProc: not born                  *)
  gate,   (* g_shm_transition of each process                              *)
  pc,     (* where each thread is                                          *)
  born    (* how each process came to be (a ghost: the code has no such)   *)

vars == <<home, gate, pc, born>>

TypeOK ==
  /\ home \in [Threads -> Procs \cup {NoProc}]
  /\ gate \in [Procs -> 0 .. 2]
  /\ pc \in [Threads -> PCs]
  /\ born \in [Procs -> Kinds]

Init ==
  /\ home = [t \in Threads |-> IF t \in RootThreads THEN Root ELSE NoProc]
  /\ gate = [q \in Procs |-> 0]
  /\ pc = [t \in Threads |-> "run"]
  /\ born = [q \in Procs |-> "root"]

At(t, l) == home[t] # NoProc /\ pc[t] = l

Goto(t, l) == pc' = [pc EXCEPT ![t] = l]

SetGate(t, g) == gate' = [gate EXCEPT ![home[t]] = g]

Newborn(q) == \A t \in Threads : home[t] # q

-----------------------------------------------------------------------------
(* bxroot_sysvshm_emulate *)

(* Seeded fault: the gate is read and then stored, not exchanged. *)
EmulateUnchecked(t) ==
  /\ At(t, "run")
  /\ SetGate(t, 1)
  /\ Goto(t, "shm")
  /\ UNCHANGED <<home, born>>

(* The compare-and-exchange 0 -> 1; a call that fails it changes nothing. *)
EmulateBegin(t) ==
  /\ At(t, "run")
  /\ gate[home[t]] = 0
  /\ SetGate(t, 1)
  /\ Goto(t, "shm")
  /\ UNCHANGED <<home, born>>

EmulateEnd(t) ==
  /\ At(t, "shm")
  /\ SetGate(t, 0)
  /\ Goto(t, "run")
  /\ UNCHANGED <<home, born>>

-----------------------------------------------------------------------------
(* fork *)

(* fork() of proc.c: the exchange 0 -> 2, EAGAIN if it fails. *)
ForkBegin(t) ==
  /\ At(t, "run")
  /\ gate[home[t]] = 0
  /\ SetGate(t, 2)
  /\ Goto(t, "fork")
  /\ UNCHANGED <<home, born>>

(* The process q is born: thread u runs in it, where thread t was. *)
Birth(t, u, q, kind) ==
  /\ home[u] = NoProc /\ Newborn(q)
  /\ born' = [born EXCEPT ![q] = kind]
  /\ home' = [home EXCEPT ![u] = q]
  /\ gate' = [gate EXCEPT ![q] = gate[home[t]]]

(* real_fork: the child goes on in the handlers of pthread_atfork. *)
RealFork(t, u, q) ==
  /\ At(t, "fork")
  /\ Birth(t, u, q, "fork")
  /\ pc' = [pc EXCEPT ![t] = "forked", ![u] = "atfork"]

RealForkFails(t) ==
  /\ At(t, "fork")
  /\ Goto(t, "forked")
  /\ UNCHANGED <<home, gate, born>>

(* A fork inside libc, whose hidden name no wrapper sees. *)
HiddenFork(t, u, q) ==
  /\ At(t, "run")
  /\ Birth(t, u, q, "hidden")
  /\ Goto(u, "atfork")

(* clone(2) as such, or _Fork(): neither wrapper nor handlers. *)
RawClone(t, u, q) ==
  /\ At(t, "run")
  /\ Birth(t, u, q, "raw")
  /\ UNCHANGED pc

(* Seeded fault: the handler of the child leaves the gate alone (the defect
   of 2026-10-18). *)
ForkChildKeeps(u) ==
  /\ At(u, "atfork")
  /\ Goto(u, IF born[home[u]] = "fork" THEN "born" ELSE "run")
  /\ UNCHANGED <<home, gate, born>>

(* bxroot_sysvshm_fork_child: the gate is reset, whoever closed it. *)
ForkChild(u) ==
  /\ At(u, "atfork")
  /\ SetGate(u, 0)
  /\ Goto(u, IF born[home[u]] = "fork" THEN "born" ELSE "run")
  /\ UNCHANGED <<home, born>>

(* bxroot_sysvshm_fork_end, after real_fork in parent and child. *)
ForkEnd(t) ==
  /\ At(t, "forked") \/ At(t, "born")
  /\ SetGate(t, 0)
  /\ Goto(t, "run")
  /\ UNCHANGED <<home, born>>

(* What a thread in a call does next: none of it waits for another thread. *)
Continue(t) ==
  \/ EmulateEnd(t) \/ ForkChild(t) \/ ForkEnd(t)
  \/ RealForkFails(t) \/ \E u \in Threads, q \in Procs : RealFork(t, u, q)

Next ==
  \E t \in Threads :
    \/ EmulateBegin(t) \/ ForkBegin(t) \/ Continue(t)
    \/ \E u \in Threads, q \in Procs : HiddenFork(t, u, q) \/ RawClone(t, u, q)

(* A thread in a call goes on. *)
Spec == Init /\ [][Next]_vars /\ \A t \in Threads : WF_vars(Continue(t))

-----------------------------------------------------------------------------
(* Properties *)

(* The threads of q that are between opening and closing its gate. *)
Inside(q) == {t \in Threads : home[t] = q /\ pc[t] # "run"}

(* One shared memory call or fork of a process at a time. *)
OneInside == \A q \in Procs : Cardinality(Inside(q)) <= 1

(* A closed gate has somebody inside who will open it, in every process that
   came out of fork(), also inside libc: the child does not keep a gate that a
   thread of its parent closed. *)
Orphaned(q) == ~Newborn(q) /\ gate[q] # 0 /\ Inside(q) = {}

GateOwned == \A q \in Procs : born[q] # "raw" => ~Orphaned(q)

(* Together: the gate lets one thread in, and there is one when it is closed. *)
GateSound == TypeOK /\ OneInside /\ GateOwned

(* ... so EAGAIN passes: the gate of such a process opens again. *)
GateOpens ==
  \A q \in Procs : []<>(gate[q] = 0 \/ born[q] = "raw")
=============================================================================
