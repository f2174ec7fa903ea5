--------------------------- MODULE ShmGateProofs ---------------------------
(* Proofs about ShmGate, for any number of threads and processes. *)
EXTENDS ShmGate, FiniteSetTheorems, TLAPS

(* A thread that is not born yet is nowhere. *)
Unborn == \A t \in Threads : home[t] = NoProc => pc[t] = "run"

(* Two threads of one process are not both inside. *)
Apart ==
  \A t, u \in Threads :
    home[t] = home[u] /\ pc[t] # "run" /\ pc[u] # "run" => t = u

(* Who came in by the gate keeps it closed ... *)
Closed ==
  \A t \in Threads :
    pc[t] \in {"shm", "fork", "forked"} => gate[home[t]] # 0

(* ... and who was born inside is alone in its process. *)
Alone ==
  \A t, u \in Threads :
    pc[t] \in {"atfork", "born"} /\ home[u] = home[t] => u = t

(* A closed gate has a thread inside, unless the process was cloned. *)
Kept ==
  \A q \in Procs :
    ~Newborn(q) /\ gate[q] # 0 /\ born[q] # "raw" =>
      \E t \in Threads : home[t] = q /\ pc[t] # "run"

IInv == TypeOK /\ Unborn /\ Apart /\ Closed /\ Alone /\ Kept

-----------------------------------------------------------------------------

LEMMA InitIInv == Init => IInv
BY GateAssumption DEF Init, IInv, TypeOK, Unborn, Apart, Closed, Alone, Kept,
  PCs, Kinds

LEMMA NextIInv == IInv /\ [Next]_vars => IInv'
<1> SUFFICES ASSUME IInv, [Next]_vars PROVE IInv'
  OBVIOUS
<1> USE GateAssumption
<1> USE DEF IInv, TypeOK, At, Goto, SetGate, Newborn
<1>1. ASSUME NEW t \in Threads, EmulateBegin(t) PROVE IInv'
  <2>1. TypeOK' /\ Unborn'
    BY <1>1 DEF EmulateBegin, Unborn, PCs
  <2>2. \A u \in Threads : home[u] = home[t] => pc[u] = "run"
    BY <1>1 DEF EmulateBegin, Closed, Alone, PCs
  <2> QED BY <1>1, <2>1, <2>2 DEF EmulateBegin, Apart, Closed, Alone, Kept
<1>2. ASSUME NEW t \in Threads, ForkBegin(t) PROVE IInv'
  <2>1. TypeOK' /\ Unborn'
    BY <1>2 DEF ForkBegin, Unborn, PCs
  <2>2. \A u \in Threads : home[u] = home[t] => pc[u] = "run"
    BY <1>2 DEF ForkBegin, Closed, Alone, PCs
  <2> QED BY <1>2, <2>1, <2>2 DEF ForkBegin, Apart, Closed, Alone, Kept
<1>3. ASSUME NEW t \in Threads, EmulateEnd(t) PROVE IInv'
  <2>1. TypeOK' /\ Unborn'
    BY <1>3 DEF EmulateEnd, Unborn, PCs
  <2> QED BY <1>3, <2>1 DEF EmulateEnd, Apart, Closed, Alone, Kept
<1>4. ASSUME NEW t \in Threads, ForkEnd(t) PROVE IInv'
  <2>1. TypeOK' /\ Unborn'
    BY <1>4 DEF ForkEnd, Unborn, PCs
  <2> QED BY <1>4, <2>1 DEF ForkEnd, Apart, Closed, Alone, Kept
<1>5. ASSUME NEW t \in Threads, ForkChild(t) PROVE IInv'
  <2>1. TypeOK' /\ Unborn'
    BY <1>5 DEF ForkChild, Unborn, PCs
  <2>2. \A u \in Threads : home[u] = home[t] => u = t
    BY <1>5 DEF ForkChild, Alone
  <2> QED BY <1>5, <2>1, <2>2 DEF ForkChild, Apart, Closed, Alone, Kept
<1>6. ASSUME NEW t \in Threads, RealForkFails(t) PROVE IInv'
  <2>1. TypeOK' /\ Unborn'
    BY <1>6 DEF RealForkFails, Unborn, PCs
  <2> QED BY <1>6, <2>1 DEF RealForkFails, Apart, Closed, Alone, Kept
<1>7. ASSUME NEW t \in Threads, NEW u \in Threads, NEW q \in Procs, RealFork(t, u, q)
      PROVE IInv'
  <2>1. t # u /\ home[t] \in Procs /\ home[t] # q
    BY <1>7 DEF RealFork, Birth
  <2>2. TypeOK' /\ Unborn'
    BY <1>7, <2>1 DEF RealFork, Birth, Unborn, PCs, Kinds
  <2>3. Apart' /\ Alone'
    BY <1>7, <2>1 DEF RealFork, Birth, Apart, Alone, Unborn
  <2>4. Closed'
    BY <1>7, <2>1 DEF RealFork, Birth, Closed, Unborn
  <2>5. Kept'
    BY <1>7, <2>1 DEF RealFork, Birth, Kept, Unborn
  <2> QED BY <2>2, <2>3, <2>4, <2>5
<1>8. ASSUME NEW t \in Threads, NEW u \in Threads, NEW q \in Procs, HiddenFork(t, u, q)
      PROVE IInv'
  <2>1. t # u /\ home[t] \in Procs /\ home[t] # q
    BY <1>8 DEF HiddenFork, Birth
  <2>2. TypeOK' /\ Unborn'
    BY <1>8, <2>1 DEF HiddenFork, Birth, Unborn, PCs, Kinds
  <2>3. Apart' /\ Alone'
    BY <1>8, <2>1 DEF HiddenFork, Birth, Apart, Alone, Unborn
  <2>4. Closed'
    BY <1>8, <2>1 DEF HiddenFork, Birth, Closed, Unborn
  <2>5. Kept'
    BY <1>8, <2>1 DEF HiddenFork, Birth, Kept, Unborn
  <2> QED BY <2>2, <2>3, <2>4, <2>5
<1>9. ASSUME NEW t \in Threads, NEW u \in Threads, NEW q \in Procs, RawClone(t, u, q)
      PROVE IInv'
  <2>1. t # u /\ home[t] \in Procs /\ home[t] # q /\ pc[u] = "run"
    BY <1>9 DEF RawClone, Birth, Unborn
  <2>2. TypeOK' /\ Unborn'
    BY <1>9, <2>1 DEF RawClone, Birth, Unborn, PCs, Kinds
  <2>3. Apart' /\ Alone'
    BY <1>9, <2>1 DEF RawClone, Birth, Apart, Alone, Unborn
  <2>4. Closed'
    BY <1>9, <2>1 DEF RawClone, Birth, Closed, Unborn
  <2>5. Kept'
    BY <1>9, <2>1 DEF RawClone, Birth, Kept, Unborn
  <2> QED BY <2>2, <2>3, <2>4, <2>5
<1>10. ASSUME UNCHANGED vars PROVE IInv'
  BY <1>10 DEF vars, Unborn, Apart, Closed, Alone, Kept
<1> QED
  BY <1>1, <1>2, <1>3, <1>4, <1>5, <1>6, <1>7, <1>8, <1>9, <1>10
  DEF Next, Continue

LEMMA SpecIInv == Spec => []IInv
BY InitIInv, NextIInv, PTL DEF Spec

(* Every gate is 0, 1 or 2 and every thread is where the code has a place
   for it (g_shm_transition, sysvshm.c:1205). *)
THEOREM GateTypeOK == Spec => []TypeOK
<1>1. IInv => TypeOK
  BY DEF IInv
<1> QED BY SpecIInv, <1>1, PTL

LEMMA GateApart == IInv => OneInside
<1> SUFFICES ASSUME IInv, NEW q \in Procs PROVE Cardinality(Inside(q)) <= 1
  BY DEF OneInside
<1>1. CASE Inside(q) = {}
  <2>1. Cardinality({}) = 0
    BY FS_EmptySet
  <2> QED BY <1>1, <2>1
<1>2. CASE Inside(q) # {}
  <2> PICK t \in Threads : home[t] = q /\ pc[t] # "run"
    BY <1>2 DEF Inside
  <2>1. Inside(q) = {t}
    BY DEF IInv, Apart, Inside
  <2>2. Cardinality({t}) = 1
    BY FS_Singleton
  <2> QED BY <2>1, <2>2
<1> QED BY <1>1, <1>2

(* One shared memory call or fork of a process at a time: the exchanges of
   sysvshm.c:1243 and 1299 exclude each other, in children as well. *)
THEOREM GateOneInside == Spec => []OneInside
BY SpecIInv, GateApart, PTL

(* No process that came out of fork(), by the wrapper or inside libc, keeps a
   gate closed by a thread it does not have (sysvshm.c:1265). *)
THEOREM GateGateOwned == Spec => []GateOwned
<1>1. IInv => GateOwned
  BY DEF IInv, Kept, GateOwned, Orphaned, Inside, Newborn
<1> QED BY SpecIInv, <1>1, PTL

LEMMA SoundGate == IInv => GateSound
BY GateApart DEF IInv, Kept, GateOwned, Orphaned, Inside, Newborn, GateSound

(* The gate of a process lets one thread in at a time and, where the process
   came out of fork(), is closed only by a thread it has (sysvshm.c:1205-1310). *)
THEOREM GateIsSound == Spec => []GateSound
BY SpecIInv, SoundGate, PTL
=============================================================================
