--------------------------- MODULE ShmAttachProofs ---------------------------
(* Proofs about ShmAttach, for any segments, any size of the table and any
   number of threads and processes. *)
EXTENDS ShmAttach, ShmGateProofs, WellFoundedInduction

(* The locals of a call. *)
Local == [op : Ops \cup {"none"}, step : Steps, arg : {0} \cup Segs \cup Pages,
          pos : {0} \cup Pages \cup 1 .. MaxAtt, res : {"none", "ok", "failed", "EINVAL"}]

AttType ==
  /\ slots \in [Procs -> [1 .. MaxAtt -> Slot]]
  /\ space \in [Procs -> [Pages -> Contents]]
  /\ loc \in [Threads -> Local]
  /\ spoilt \in [Procs -> SUBSET {"torn", "bypass"}]
  /\ calls \in 0 .. MaxCalls /\ acts \in 0 .. MaxActs
  /\ \A t \in Threads : loc[t].step # "idle" <=> At(t, "shm")

(* Where a call of process q is: what it has mapped and not yet recorded, or
   taken out and not yet unmapped, and that its answer is still true. *)
CallIs(q, t) ==
  /\ loc[t].step # "idle" => loc[t].op \in Ops /\ loc[t].arg \in Args(loc[t].op)
  /\ loc[t].step = "mapped" => loc[t].op = "at" /\ loc[t].pos \in Pages
  /\ loc[t].step \in {"taken", "checked"} =>
       /\ loc[t].op = "dt" /\ loc[t].pos \in 1 .. MaxAtt
       /\ slots[q][loc[t].pos].st = "detaching" /\ slots[q][loc[t].pos].at = loc[t].arg
  /\ loc[t].step = "done" /\ loc[t].op = "dt" /\ loc[t].res # "failed" /\ spoilt[q] = {} =>
       loc[t].arg \notin Attached(q)

CallsAre(q) == \A t \in Threads : home[t] = q => CallIs(q, t)

(* An entry that is half way out has the call that takes it out. *)
Taking(q) ==
  "torn" \notin spoilt[q] =>
    \A k \in 1 .. MaxAtt : slots[q][k].st = "detaching" =>
      \E t \in Threads : home[t] = q /\ loc[t].step \in {"taken", "checked"} /\ loc[t].pos = k

(* What is attached is in the table, or a call is about to record it. *)
Covered(q) ==
  "torn" \notin spoilt[q] =>
    \A p \in Attached(q) :
      \/ \E k \in 1 .. MaxAtt :
           slots[q][k].st # "free" /\ slots[q][k].at = p /\ slots[q][k].seg = space[q][p].what
      \/ \E t \in Threads :
           /\ home[t] = q /\ loc[t].step = "mapped"
           /\ loc[t].pos = p /\ loc[t].arg = space[q][p].what

(* All the pages of segment s, mapped at a. *)
Whole(q, s, a) ==
  \A p \in Span(a, SegLen[s]) : p \in Pages /\ space[q][p] = [what |-> s, base |-> a]

(* Every entry is of a segment that is there, all of it, and has it alone: also in
   a child torn from a call, whose entries and mappings were copied together. *)
Exact(q) ==
  "bypass" \notin spoilt[q] =>
    /\ \A k \in 1 .. MaxAtt : slots[q][k].st # "free" =>
         Whole(q, slots[q][k].seg, slots[q][k].at)
    /\ \A j, k \in 1 .. MaxAtt :
         slots[q][j].st # "free" /\ slots[q][k].st # "free" /\ slots[q][j].at = slots[q][k].at
           => j = k
    /\ \A t \in Threads : home[t] = q /\ loc[t].step = "mapped" =>
         /\ Whole(q, loc[t].arg, loc[t].pos)
         /\ \A k \in 1 .. MaxAtt : slots[q][k].st # "free" => slots[q][k].at # loc[t].pos

Sound(q) == CallsAre(q) /\ Taking(q) /\ Covered(q) /\ Exact(q)

AInv == AttType /\ \A q \in Procs : Sound(q)

-----------------------------------------------------------------------------
(* The calls are calls of the gate. *)

LEMMA AttInitGate == AttInit => Init
BY DEF AttInit

LEMMA AttNextGate == [AttNext]_allVars => [Next]_vars
<1> SUFFICES ASSUME [AttNext]_allVars PROVE Next \/ UNCHANGED vars
  OBVIOUS
<1>1. CASE UNCHANGED allVars
  BY <1>1 DEF allVars
<1>2. ASSUME NEW t \in Threads, NEW op \in Ops, NEW arg \in Args(op), Enter(t, op, arg)
      PROVE  Next
  BY <1>2 DEF Enter, Next
<1>3. ASSUME NEW t \in Threads, CallStep(t) PROVE Next \/ UNCHANGED vars
  <2>1. CASE Leave(t)
    BY <2>1 DEF Leave, Next, Continue
  <2>2. CASE ~Leave(t)
    BY <1>3, <2>2 DEF CallStep, MapSegment, Record, Take, Check, Unmap, InCall
  <2> QED BY <2>1, <2>2
<1>4. ASSUME NEW t \in Threads, ForkStep(t) PROVE Next
  <2>1. CASE ForkBegin(t) \/ RealForkFails(t) \/ ForkChild(t) \/ ForkEnd(t)
    BY <2>1 DEF Next, Continue
  <2>2. CASE \E u \in Threads, q \in Procs : RealFork(t, u, q)
    BY <2>2 DEF Next, Continue
  <2> QED BY <1>4, <2>1, <2>2 DEF ForkStep
<1>5. ASSUME NEW t \in Threads, ForkUnseen(t) PROVE Next
  BY <1>5 DEF ForkUnseen, Next
<1>6. ASSUME NEW t \in Threads, StaticExec(t) \/ GuestActs(t) PROVE UNCHANGED vars
  BY <1>6 DEF StaticExec, GuestActs, GuestUnmap, GuestMap
<1> QED BY <1>1, <1>2, <1>3, <1>4, <1>5, <1>6 DEF AttNext

(* Calls of shmat and shmdt, forks, exec and what the program does by itself are
   steps of the gate or leave it alone: the properties of ShmGate are theirs
   (sysvshm.c:1243-1310). *)
THEOREM AttachImplementsGate == AttSpec => ImplementsGate
BY AttInitGate, AttNextGate, PTL DEF AttSpec, ImplementsGate

LEMMA AttIInv == AttSpec => []IInv
BY AttInitGate, AttNextGate, InitIInv, NextIInv, PTL DEF AttSpec

(* One call or fork of a process at a time, and a gate that is closed by a
   thread the process has, in the whole layer (sysvshm.c:1205-1310). *)
THEOREM AttachGateSound == AttSpec => []GateSound
<1>1. IInv => GateSound
  BY SoundGate
<1> QED BY AttIInv, <1>1, PTL

-----------------------------------------------------------------------------
(* Types. *)

LEMMA IdleLocal == Idle \in Local
BY DEF Idle, Local, Steps

LEMMA UnmappedIs ==
  ASSUME NEW m \in [Pages -> Contents], NEW ps
  PROVE  /\ Unmapped(m, ps) \in [Pages -> Contents]
         /\ \A p \in Pages : Unmapped(m, ps)[p] = IF p \in ps THEN None ELSE m[p]
BY DEF Unmapped, Contents

LEMMA MappedIs ==
  ASSUME NEW m \in [Pages -> Contents], NEW a \in Pages, NEW n,
         NEW what \in Segs \cup {"file", "anon"}
  PROVE  /\ Mapped(m, a, n, what) \in [Pages -> Contents]
         /\ \A p \in Pages : Mapped(m, a, n, what)[p] =
              IF p \in Span(a, n) THEN [what |-> what, base |-> a] ELSE m[p]
BY DEF Mapped, Contents

(* The first page of a segment is one of its pages. *)
LEMMA SpanHasFirst ==
  ASSUME NEW a \in Pages, NEW s \in Segs
  PROVE  a \in Span(a, SegLen[s])
<1>1. a \in Nat /\ SegLen[s] \in Nat \ {0}
  BY AttachAssumption
<1> QED BY <1>1 DEF Span

LEMMA SlotIs ==
  ASSUME NEW r \in Slot
  PROVE  /\ r.st \in {"free", "active", "detaching"}
         /\ r.st = "free" => r = FreeSlot
         /\ r.st # "free" => /\ r.at \in Pages /\ r.seg \in Segs
                             /\ r = [st |-> r.st, at |-> r.at, seg |-> r.seg]
BY DEF Slot, FreeSlot

LEMMA LeastNatural ==
  ASSUME NEW S, S \subseteq Nat, S # {}
  PROVE  \E i \in S : \A j \in S : i <= j
<1> DEFINE R == OpToRel(<, Nat)
<1>1. IsWellFoundedOn(R, Nat)
  BY NatLessThanWellFounded
<1>2. \A x, y \in Nat : <<y, x>> \in R <=> y < x
  BY DEF OpToRel
<1> HIDE DEF R
<1>3. PICK i \in S : \A j \in S : ~(<<j, i>> \in R)
  BY <1>1, WFMin
<1>4. \A j \in S : ~(j < i)
  BY <1>2, <1>3, Zenon
<1>5. i \in Nat /\ S \subseteq Nat
  OBVIOUS
<1> QED BY <1>4, <1>5

LEMMA FirstSlotIs ==
  ASSUME NEW q, NEW ks, ks \subseteq 1 .. MaxAtt, ks # {}
  PROVE  FirstSlot(q, ks) \in ks
<1>1. ks \subseteq Nat
  BY AttachAssumption
<1>2. \E i \in ks : \A j \in ks : i <= j
  BY <1>1, LeastNatural
<1> QED BY <1>2 DEF FirstSlot

-----------------------------------------------------------------------------
(* A process that a step leaves alone. *)

LEMMA Elsewhere ==
  ASSUME NEW q \in Procs, Sound(q),
         slots'[q] = slots[q], space'[q] = space[q], spoilt'[q] = spoilt[q],
         \A t \in Threads : home[t] = q \/ home'[t] = q => home'[t] = home[t] /\ loc'[t] = loc[t]
  PROVE  Sound(q)'
<1>1. Attached(q)' = Attached(q)
  BY DEF Attached
<1>2. CallsAre(q)'
  BY <1>1 DEF Sound, CallsAre, CallIs
<1>3. Taking(q)'
  BY DEF Sound, Taking
<1>4. Covered(q)'
  BY <1>1 DEF Sound, Covered
<1>5. Exact(q)'
  BY DEF Sound, Exact, Whole
<1> QED BY <1>2, <1>3, <1>4, <1>5 DEF Sound

LEMMA OnBoard ==
  ASSUME IInv, NEW t \in Threads, home[t] # NoProc
  PROVE  home[t] \in Procs
BY DEF IInv, TypeOK

(* One thread of a process is in a call, and it is the only one. *)
LEMMA OneCalls ==
  ASSUME IInv, AttType, NEW t \in Threads, loc[t].step # "idle"
  PROVE  /\ home[t] \in Procs
         /\ pc[t] = "shm"
         /\ \A u \in Threads : home[u] = home[t] /\ pc[u] # "run" => u = t
         /\ \A u \in Threads : home[u] = home[t] /\ loc[u].step # "idle" => u = t
<1>1. pc[t] = "shm" /\ home[t] \in Procs
  BY DEF AttType, At, IInv, TypeOK
<1>2. \A u \in Threads : loc[u].step # "idle" => pc[u] = "shm"
  BY DEF AttType, At
<1> QED BY <1>1, <1>2 DEF IInv, Apart

(* A step in a call of t: the gate and the other calls stay. *)
LEMMA StepOfCall ==
  ASSUME IInv, AInv, NEW t \in Threads, NEW q \in Procs, home[t] = q,
         loc[t].step # "idle", UNCHANGED vars,
         NEW l \in Local, loc' = [loc EXCEPT ![t] = l], l.step # "idle",
         slots' \in [Procs -> [1 .. MaxAtt -> Slot]], space' \in [Procs -> [Pages -> Contents]],
         spoilt' = spoilt, calls' = calls, acts' = acts,
         \A r \in Procs \ {q} : slots'[r] = slots[r] /\ space'[r] = space[r],
         Sound(q)'
  PROVE  AInv'
<1>1. AttType'
  <2>1. \A u \in Threads : loc'[u].step # "idle" <=> loc[u].step # "idle"
    BY DEF AInv, AttType
  <2>2. \A u \in Threads : At(u, "shm")' <=> At(u, "shm")
    BY DEF At, vars
  <2> QED BY <2>1, <2>2 DEF AInv, AttType
<1>2. ASSUME NEW r \in Procs, r # q PROVE Sound(r)'
  <2>1. \A u \in Threads : home[u] = r \/ home'[u] = r => home'[u] = home[u] /\ loc'[u] = loc[u]
    BY <1>2 DEF vars, AInv, AttType
  <2>2. Sound(r) /\ slots'[r] = slots[r] /\ space'[r] = space[r] /\ spoilt'[r] = spoilt[r]
    BY <1>2 DEF AInv
  <2> QED BY <2>1, <2>2, Elsewhere
<1> QED BY <1>1, <1>2 DEF AInv

(* Threads of q that are in no call have nothing to say. *)
LEMMA IdleCallIs ==
  ASSUME NEW q \in Procs, NEW t \in Threads, loc'[t].step = "idle"
  PROVE  CallIs(q, t)'
BY DEF CallIs

-----------------------------------------------------------------------------
(* Each step of a call keeps the invariant. *)

LEMMA MapSegmentAInv ==
  ASSUME IInv, AInv, NEW t \in Threads, MapSegment(t),
         NEW q, home[t] = q, NEW s, loc[t].arg = s
  PROVE  AInv'
<1>1. /\ loc[t].step = "in" /\ loc[t].op = "at" /\ UNCHANGED vars
      /\ slots' = slots /\ spoilt' = spoilt /\ calls' = calls /\ acts' = acts
  BY DEF MapSegment, InCall, Step
<1>2. /\ q \in Procs
      /\ \A u \in Threads : home[u] = q /\ u # t => loc[u].step = "idle"
  BY <1>1, OneCalls DEF AInv
<1>3. loc[t] \in Local /\ s \in Segs /\ Sound(q)
  BY <1>1, <1>2 DEF AInv, AttType, Sound, CallsAre, CallIs, Args
<1>4. /\ space \in [Procs -> [Pages -> Contents]] /\ slots \in [Procs -> [1 .. MaxAtt -> Slot]]
      /\ loc \in [Threads -> Local] /\ home' = home
  BY <1>1 DEF AInv, AttType, vars
<1>5. CASE Finish(t, "failed") /\ UNCHANGED space
  <2> DEFINE l == [loc[t] EXCEPT !.step = "done", !.res = "failed"]
  <2>1. /\ l \in Local /\ l.step = "done" /\ l.res = "failed" /\ l.op = "at" /\ l.arg = s
    BY <1>1, <1>3 DEF Local, Steps, Ops
  <2>2. loc' = [loc EXCEPT ![t] = l]
    BY <1>4, <1>5 DEF Finish
  <2> HIDE DEF l
  <2>3. loc'[t] = l /\ \A u \in Threads \ {t} : loc'[u] = loc[u]
    BY <1>4, <2>2
  <2>4. CallsAre(q)'
    BY <1>2, <1>3, <1>4, <2>1, <2>3, IdleCallIs DEF CallsAre, CallIs, Args, Ops
  <2>5. Taking(q)'
    BY <1>1, <1>3, <1>4, <1>5, <2>3 DEF Sound, Taking
  <2>6. Attached(q)' = Attached(q)
    BY <1>5 DEF Attached
  <2>7. Covered(q)'
    BY <1>1, <1>3, <1>4, <1>5, <2>3, <2>6 DEF Sound, Covered
  <2>8. Exact(q)'
    <3>1. \A u \in Threads : home[u] = q => loc'[u].step # "mapped"
      BY <1>2, <2>1, <2>3
    <3> QED BY <1>1, <1>3, <1>4, <1>5, <3>1 DEF Sound, Exact, Whole
  <2>9. Sound(q)'
    BY <2>4, <2>5, <2>7, <2>8 DEF Sound
  <2> QED
    BY <1>1, <1>2, <1>4, <1>5, <2>1, <2>2, <2>9, StepOfCall
<1>6. ASSUME NEW a \in Pages, Fits(space[q], a, SegLen[s]),
             space' = [space EXCEPT ![q] = Mapped(@, a, SegLen[s], s)],
             loc' = [loc EXCEPT ![t].step = "mapped", ![t].pos = a]
      PROVE  AInv'
  <2> DEFINE l == [loc[t] EXCEPT !.step = "mapped", !.pos = a]
  <2>1. /\ l \in Local /\ l.step = "mapped" /\ l.pos = a /\ l.op = "at" /\ l.arg = s
    BY <1>1, <1>3 DEF Local, Steps
  <2>2. loc' = [loc EXCEPT ![t] = l]
    BY <1>4, <1>6
  <2> HIDE DEF l
  <2>3. loc'[t] = l /\ \A u \in Threads \ {t} : loc'[u] = loc[u]
    BY <1>4, <2>2
  <2>4. /\ space'[q] \in [Pages -> Contents]
        /\ \A p \in Pages : space'[q][p] =
             IF p \in Span(a, SegLen[s]) THEN [what |-> s, base |-> a] ELSE space[q][p]
        /\ \A r \in Procs \ {q} : space'[r] = space[r]
    BY <1>2, <1>3, <1>4, <1>6, MappedIs
  <2>5. /\ Span(a, SegLen[s]) \subseteq Pages /\ a \in Span(a, SegLen[s])
        /\ \A p \in Span(a, SegLen[s]) : space[q][p] = None
    BY <1>3, <1>6, SpanHasFirst DEF Fits
  <2>6. space' \in [Procs -> [Pages -> Contents]]
    BY <1>2, <1>4, <1>6, <2>4
  <2>7. CallsAre(q)'
    BY <1>2, <1>3, <1>4, <2>1, <2>3, IdleCallIs DEF CallsAre, CallIs, Args, Ops
  <2>8. Taking(q)'
    BY <1>1, <1>3, <1>4, <2>3 DEF Sound, Taking
  <2>9. \A p \in Attached(q)' : p = a \/ (p \in Attached(q) /\ space'[q][p] = space[q][p])
    BY <2>4 DEF Attached
  <2>10. Covered(q)'
    <3> SUFFICES ASSUME "torn" \notin spoilt[q], NEW p \in Attached(q)'
                 PROVE  \/ \E k \in 1 .. MaxAtt :
                             /\ slots[q][k].st # "free" /\ slots[q][k].at = p
                             /\ slots[q][k].seg = space'[q][p].what
                        \/ \E u \in Threads :
                             /\ home[u] = q /\ loc'[u].step = "mapped"
                             /\ loc'[u].pos = p /\ loc'[u].arg = space'[q][p].what
      BY <1>1, <1>4 DEF Covered
    <3>1. CASE p = a
      <4>1. space'[q][p].what = s
        BY <2>4, <2>5, <3>1
      <4> QED BY <2>1, <2>3, <3>1, <4>1
    <3>2. CASE p \in Attached(q) /\ space'[q][p] = space[q][p]
      <4>1. \A u \in Threads : home[u] = q => loc[u].step # "mapped"
        BY <1>1, <1>2
      <4> QED BY <1>3, <3>2, <4>1 DEF Sound, Covered
    <3> QED BY <2>9, <3>1, <3>2
  <2>11. Exact(q)'
    <3> SUFFICES ASSUME "bypass" \notin spoilt[q]
                 PROVE  /\ \A k \in 1 .. MaxAtt : slots[q][k].st # "free" =>
                             (Whole(q, slots[q][k].seg, slots[q][k].at))'
                        /\ \A j, k \in 1 .. MaxAtt :
                             slots[q][j].st # "free" /\ slots[q][k].st # "free"
                               /\ slots[q][j].at = slots[q][k].at => j = k
                        /\ \A u \in Threads : home[u] = q /\ loc'[u].step = "mapped" =>
                             /\ Whole(q, loc[u].arg, loc[u].pos)'
                             /\ \A k \in 1 .. MaxAtt :
                                  slots[q][k].st # "free" => slots[q][k].at # loc'[u].pos
      BY <1>1, <1>4 DEF Exact, Whole
    <3>1. ASSUME NEW k \in 1 .. MaxAtt, slots[q][k].st # "free"
          PROVE  Whole(q, slots[q][k].seg, slots[q][k].at)' /\ slots[q][k].at # a
      <4> DEFINE r == slots[q][k]
      <4>0. r \in Slot
        BY <1>2, <1>4
      <4>1. r.at \in Pages /\ r.seg \in Segs
        BY <3>1, <4>0, SlotIs
      <4>2. \A p \in Span(r.at, SegLen[r.seg]) : p \in Pages /\ space[q][p] = [what |-> r.seg, base |-> r.at]
        BY <1>3, <3>1 DEF Sound, Exact, Whole
      <4>3. \A p \in Span(r.at, SegLen[r.seg]) : space[q][p] # None
        BY <4>1, <4>2, AttachAssumption DEF None
      <4>4. r.at \in Span(r.at, SegLen[r.seg])
        BY <4>1, SpanHasFirst
      <4>5. \A p \in Span(r.at, SegLen[r.seg]) : p \in Pages /\ space'[q][p] = [what |-> r.seg, base |-> r.at]
        BY <2>4, <2>5, <4>2, <4>3
      <4> QED BY <1>1, <2>5, <4>3, <4>4, <4>5 DEF Whole
    <3>2. ASSUME NEW u \in Threads, home[u] = q, loc'[u].step = "mapped"
          PROVE  u = t
      BY <1>2, <2>3, <3>2
    <3>3. Whole(q, loc[t].arg, loc[t].pos)'
      BY <2>1, <2>3, <2>4, <2>5 DEF Whole
    <3> QED BY <1>3, <2>1, <2>3, <3>1, <3>2, <3>3 DEF Sound, Exact
  <2>12. Sound(q)'
    BY <2>7, <2>8, <2>10, <2>11 DEF Sound
  <2> QED
    BY <1>1, <1>2, <1>4, <2>1, <2>2, <2>4, <2>6, <2>12, StepOfCall
<1> QED BY <1>5, <1>6 DEF MapSegment

(* What a call of t has for operands, and that the process has no other. *)
LEMMA CallOperands ==
  ASSUME IInv, AInv, NEW t \in Threads, loc[t].step # "idle", NEW q, home[t] = q
  PROVE  /\ q \in Procs /\ loc[t] \in Local /\ Sound(q)
         /\ loc[t].op \in Ops /\ loc[t].arg \in Args(loc[t].op)
         /\ slots \in [Procs -> [1 .. MaxAtt -> Slot]]
         /\ space \in [Procs -> [Pages -> Contents]]
         /\ loc \in [Threads -> Local]
         /\ \A u \in Threads : home[u] = q /\ u # t => loc[u].step = "idle"
         /\ CallIs(q, t)
<1>1. q \in Procs /\ \A u \in Threads : home[u] = q /\ u # t => loc[u].step = "idle"
  BY OneCalls DEF AInv
<1>2. Sound(q)
  BY <1>1 DEF AInv
<1>3. CallIs(q, t)
  BY <1>2 DEF Sound, CallsAre
<1> QED BY <1>1, <1>2, <1>3 DEF AInv, AttType, CallIs

(* The end of a call. *)
LEMMA FinishIs ==
  ASSUME NEW t \in Threads, loc \in [Threads -> Local],
         NEW r \in {"none", "ok", "failed", "EINVAL"}, Finish(t, r)
  PROVE  \E l \in Local :
           /\ loc' = [loc EXCEPT ![t] = l]
           /\ l.step = "done" /\ l.op = loc[t].op /\ l.arg = loc[t].arg /\ l.res = r
<1> DEFINE l == [loc[t] EXCEPT !.step = "done", !.res = r]
<1>1. /\ l \in Local
      /\ l.step = "done" /\ l.op = loc[t].op /\ l.arg = loc[t].arg /\ l.res = r
  BY DEF Local, Steps
<1>2. loc' = [loc EXCEPT ![t] = l]
  BY DEF Finish
<1> HIDE DEF l
<1> QED BY <1>1, <1>2

LEMMA RecordAInv ==
  ASSUME IInv, AInv, NEW t \in Threads, Record(t), NEW q, home[t] = q,
         NEW s, loc[t].arg = s, NEW a, loc[t].pos = a
  PROVE  AInv'
<1>1. /\ loc[t].step = "mapped" /\ loc[t].op = "at" /\ UNCHANGED vars /\ home' = home
      /\ spoilt' = spoilt /\ calls' = calls /\ acts' = acts
  BY DEF Record, InCall, Step, vars
<1>2. /\ q \in Procs /\ loc[t] \in Local /\ Sound(q)
      /\ slots \in [Procs -> [1 .. MaxAtt -> Slot]]
      /\ space \in [Procs -> [Pages -> Contents]]
      /\ loc \in [Threads -> Local]
      /\ \A u \in Threads : home[u] = q /\ u # t => loc[u].step = "idle"
      /\ s \in Segs /\ a \in Pages
  BY <1>1, CallOperands DEF CallIs, Args
<1>3. PICK l \in Local, r \in {"ok", "failed"} :
        /\ loc' = [loc EXCEPT ![t] = l]
        /\ l.step = "done" /\ l.op = "at" /\ l.arg = s /\ l.res = r
  <2>1. Finish(t, "ok") \/ Finish(t, "failed")
    BY DEF Record
  <2> QED BY <1>1, <1>2, <2>1, FinishIs
<1>4. loc'[t] = l /\ \A u \in Threads \ {t} : loc'[u] = loc[u]
  BY <1>2, <1>3
<1>5. /\ \A u \in Threads : home[u] = q => loc[u].step \notin {"taken", "checked"} /\ loc'[u].step \notin {"mapped", "taken", "checked"}
      /\ \A u \in Threads : home[u] = q /\ loc[u].step = "mapped" => u = t
  BY <1>1, <1>2, <1>3, <1>4
<1>6. CallsAre(q)'
  BY <1>1, <1>2, <1>3, <1>4, IdleCallIs DEF CallsAre, CallIs, Ops, Args
<1>7. "torn" \notin spoilt[q] => \A k \in 1 .. MaxAtt : slots[q][k].st # "detaching"
  BY <1>2, <1>5 DEF Sound, Taking
<1> DEFINE room == {k \in 1 .. MaxAtt : slots[q][k].st = "free"}
<1>8. CASE room # {}
  <2> DEFINE k0 == FirstSlot(q, room)
             new == [st |-> "active", at |-> a, seg |-> s]
  <2>1. k0 \in room
    BY <1>8, FirstSlotIs
  <2>2. slots' = [slots EXCEPT ![q][k0] = new] /\ space' = space
    BY <1>8 DEF Record
  <2>3. new \in Slot /\ new.st = "active" /\ new.at = a /\ new.seg = s
    BY <1>2 DEF Slot
  <2> HIDE DEF k0, new
  <2>4. /\ k0 \in 1 .. MaxAtt /\ slots[q][k0].st = "free"
        /\ slots'[q][k0] = new
        /\ \A k \in (1 .. MaxAtt) \ {k0} : slots'[q][k] = slots[q][k]
        /\ \A r1 \in Procs \ {q} : slots'[r1] = slots[r1]
        /\ slots' \in [Procs -> [1 .. MaxAtt -> Slot]]
    BY <1>2, <2>1, <2>2, <2>3
  <2>5. Taking(q)'
    BY <1>1, <1>7, <2>3, <2>4 DEF Taking
  <2>6. Attached(q)' = Attached(q)
    BY <2>2 DEF Attached
  <2>7. Covered(q)'
    <3> SUFFICES ASSUME "torn" \notin spoilt[q], NEW p \in Attached(q)
                 PROVE  \E k \in 1 .. MaxAtt :
                          /\ slots'[q][k].st # "free" /\ slots'[q][k].at = p
                          /\ slots'[q][k].seg = space[q][p].what
      BY <1>1, <2>2, <2>6 DEF Covered
    <3>1. \/ \E k \in 1 .. MaxAtt :
               slots[q][k].st # "free" /\ slots[q][k].at = p /\ slots[q][k].seg = space[q][p].what
          \/ a = p /\ s = space[q][p].what
      BY <1>2, <1>5 DEF Sound, Covered
    <3> QED BY <2>3, <2>4, <3>1
  <2>8. Exact(q)'
    <3> SUFFICES ASSUME "bypass" \notin spoilt[q]
                 PROVE  /\ \A k \in 1 .. MaxAtt : slots'[q][k].st # "free" =>
                             Whole(q, slots'[q][k].seg, slots'[q][k].at)
                        /\ \A j, k \in 1 .. MaxAtt :
                             slots'[q][j].st # "free" /\ slots'[q][k].st # "free"
                               /\ slots'[q][j].at = slots'[q][k].at => j = k
      BY <1>1, <1>5, <2>2 DEF Exact, Whole
    <3>1. /\ \A k \in 1 .. MaxAtt : slots[q][k].st # "free" =>
               Whole(q, slots[q][k].seg, slots[q][k].at) /\ slots[q][k].at # a
          /\ \A j, k \in 1 .. MaxAtt :
               slots[q][j].st # "free" /\ slots[q][k].st # "free"
                 /\ slots[q][j].at = slots[q][k].at => j = k
          /\ Whole(q, s, a)
      BY <1>1, <1>2 DEF Sound, Exact
    <3> QED BY <2>3, <2>4, <3>1
  <2>9. Sound(q)'
    BY <1>6, <2>5, <2>7, <2>8 DEF Sound
  <2> QED BY <1>1, <1>2, <1>3, <2>2, <2>4, <2>9, StepOfCall
<1>9. CASE room = {}
  <2>1. slots' = slots /\ space' = [space EXCEPT ![q] = Unmapped(@, Span(a, SegLen[s]))]
    BY <1>9 DEF Record
  <2>2. /\ space' \in [Procs -> [Pages -> Contents]]
        /\ \A p \in Pages : space'[q][p] = IF p \in Span(a, SegLen[s]) THEN None ELSE space[q][p]
        /\ \A r1 \in Procs \ {q} : space'[r1] = space[r1]
    BY <1>2, <2>1, UnmappedIs
  <2>3. a \in Span(a, SegLen[s])
    BY <1>2, SpanHasFirst
  <2>4. Taking(q)'
    BY <1>1, <1>7, <2>1 DEF Taking
  <2>5. \A p \in Attached(q)' : /\ p \in Attached(q) /\ space'[q][p] = space[q][p]
                                /\ p # a
    BY <2>2, <2>3, AttachAssumption DEF Attached, None
  <2>6. Covered(q)'
    <3> SUFFICES ASSUME "torn" \notin spoilt[q], NEW p \in Attached(q)'
                 PROVE  \E k \in 1 .. MaxAtt :
                          /\ slots[q][k].st # "free" /\ slots[q][k].at = p
                          /\ slots[q][k].seg = space'[q][p].what
      BY <1>1, <2>1 DEF Covered
    <3> QED BY <1>2, <1>5, <2>5 DEF Sound, Covered
  <2>7. Exact(q)'
    <3> SUFFICES ASSUME "bypass" \notin spoilt[q]
                 PROVE  /\ \A k \in 1 .. MaxAtt : slots[q][k].st # "free" =>
                             \A p \in Span(slots[q][k].at, SegLen[slots[q][k].seg]) :
                               /\ p \in Pages
                               /\ space'[q][p] = [what |-> slots[q][k].seg, base |-> slots[q][k].at]
                        /\ \A j, k \in 1 .. MaxAtt :
                             slots[q][j].st # "free" /\ slots[q][k].st # "free"
                               /\ slots[q][j].at = slots[q][k].at => j = k
      BY <1>1, <1>5, <2>1 DEF Exact, Whole
    <3>1. /\ \A k \in 1 .. MaxAtt : slots[q][k].st # "free" =>
               /\ \A p \in Span(slots[q][k].at, SegLen[slots[q][k].seg]) :
                    /\ p \in Pages
                    /\ space[q][p] = [what |-> slots[q][k].seg, base |-> slots[q][k].at]
               /\ slots[q][k].at # a
          /\ \A j, k \in 1 .. MaxAtt :
               slots[q][j].st # "free" /\ slots[q][k].st # "free"
                 /\ slots[q][j].at = slots[q][k].at => j = k
          /\ \A p \in Span(a, SegLen[s]) : p \in Pages /\ space[q][p] = [what |-> s, base |-> a]
      BY <1>1, <1>2 DEF Sound, Exact, Whole
    <3> QED BY <2>2, <3>1
  <2>8. Sound(q)'
    BY <1>6, <2>4, <2>6, <2>7 DEF Sound
  <2> QED BY <1>1, <1>2, <1>3, <2>1, <2>2, <2>8, StepOfCall
<1> QED BY <1>8, <1>9

LEMMA TakeAInv ==
  ASSUME IInv, AInv, NEW t \in Threads, Take(t), NEW q, home[t] = q,
         NEW a, loc[t].arg = a
  PROVE  AInv'
<1>1. /\ loc[t].step = "in" /\ loc[t].op = "dt" /\ UNCHANGED vars /\ home' = home
      /\ space' = space /\ spoilt' = spoilt /\ calls' = calls /\ acts' = acts
  BY DEF Take, InCall, Step, vars
<1>2. /\ q \in Procs /\ loc[t] \in Local /\ Sound(q)
      /\ slots \in [Procs -> [1 .. MaxAtt -> Slot]]
      /\ space \in [Procs -> [Pages -> Contents]]
      /\ loc \in [Threads -> Local]
      /\ \A u \in Threads : home[u] = q /\ u # t => loc[u].step = "idle"
      /\ a \in Pages
  BY <1>1, CallOperands DEF CallIs, Args
<1>3. \A u \in Threads : home[u] = q => loc[u].step \notin {"mapped", "taken", "checked"}
  BY <1>1, <1>2
<1>4. Attached(q)' = Attached(q)
  BY <1>1 DEF Attached
<1>5. "torn" \notin spoilt[q] =>
        /\ \A k \in 1 .. MaxAtt : slots[q][k].st # "detaching"
        /\ \A p \in Attached(q) : \E k \in 1 .. MaxAtt :
             slots[q][k].st # "free" /\ slots[q][k].at = p /\ slots[q][k].seg = space[q][p].what
  <2>1. Taking(q) /\ Covered(q)
    BY <1>2 DEF Sound
  <2>2. "torn" \notin spoilt[q] => \A k \in 1 .. MaxAtt : slots[q][k].st # "detaching"
    BY <1>3, <2>1 DEF Taking
  <2>3. "torn" \notin spoilt[q] =>
          \A p \in Attached(q) : \E k \in 1 .. MaxAtt :
            slots[q][k].st # "free" /\ slots[q][k].at = p /\ slots[q][k].seg = space[q][p].what
    BY <1>3, <2>1 DEF Covered
  <2> QED BY <2>2, <2>3
<1> DEFINE ks == {k \in 1 .. MaxAtt : slots[q][k].st = "active" /\ slots[q][k].at = a}
<1>6. CASE ks # {}
  <2> DEFINE k0 == FirstSlot(q, ks)
             l == [loc[t] EXCEPT !.step = "taken", !.pos = k0]
  <2>1. k0 \in ks
    BY <1>6, FirstSlotIs
  <2>2. /\ slots' = [slots EXCEPT ![q][k0].st = "detaching"]
        /\ loc' = [loc EXCEPT ![t].step = "taken", ![t].pos = k0]
    BY <1>6 DEF Take
  <2> HIDE DEF k0
  <2>3. /\ l \in Local /\ l.step = "taken" /\ l.pos = k0 /\ l.op = "dt" /\ l.arg = a
    BY <1>1, <1>2, <2>1 DEF Local, Steps
  <2>4. loc' = [loc EXCEPT ![t] = l]
    BY <1>2, <2>2
  <2> HIDE DEF l
  <2>5. loc'[t] = l /\ \A u \in Threads \ {t} : loc'[u] = loc[u]
    BY <1>2, <2>4
  <2>6. /\ k0 \in 1 .. MaxAtt /\ slots[q][k0].st = "active" /\ slots[q][k0].at = a
        /\ slots[q][k0] = [st |-> "active", at |-> a, seg |-> slots[q][k0].seg]
        /\ slots[q][k0].seg \in Segs
    <3>1. k0 \in 1 .. MaxAtt /\ slots[q][k0].st = "active" /\ slots[q][k0].at = a
      BY <2>1
    <3>2. slots[q][k0] \in Slot
      BY <1>2, <3>1
    <3> QED BY <3>1, <3>2, SlotIs
  <2> DEFINE new == [st |-> "detaching", at |-> a, seg |-> slots[q][k0].seg]
  <2>7. new \in Slot /\ new.st = "detaching" /\ new.at = a /\ new.seg = slots[q][k0].seg
    BY <1>2, <2>6 DEF Slot
  <2>8. [slots[q][k0] EXCEPT !.st = "detaching"] = new
    BY <2>6
  <2>9. slots' = [slots EXCEPT ![q][k0] = new]
    BY <1>2, <2>2, <2>8
  <2> HIDE DEF new
  <2>10. /\ slots'[q][k0] = new
         /\ \A k \in (1 .. MaxAtt) \ {k0} : slots'[q][k] = slots[q][k]
         /\ \A r1 \in Procs \ {q} : slots'[r1] = slots[r1]
         /\ slots' \in [Procs -> [1 .. MaxAtt -> Slot]]
    BY <1>2, <2>6, <2>7, <2>9
  <2>11. CallsAre(q)'
    <3>1. ASSUME NEW u \in Threads, home[u] = q, u # t PROVE CallIs(q, u)'
      BY <1>2, <2>5, <3>1, IdleCallIs
    <3>2. CallIs(q, t)'
      BY <1>2, <2>3, <2>5, <2>6, <2>7, <2>10 DEF CallIs, Ops, Args
    <3> QED BY <1>1, <3>1, <3>2 DEF CallsAre
  <2>12. Taking(q)'
    BY <1>1, <1>5, <2>3, <2>5, <2>6, <2>10 DEF Taking
  <2>13. \A k \in 1 .. MaxAtt :
           /\ slots'[q][k].st # "free" <=> slots[q][k].st # "free"
           /\ slots'[q][k].at = slots[q][k].at /\ slots'[q][k].seg = slots[q][k].seg
    BY <2>6, <2>7, <2>10
  <2>14. Covered(q)'
    BY <1>1, <1>4, <1>5, <2>13 DEF Covered
  <2>15. Exact(q)'
    <3>1. \A u \in Threads : home[u] = q => loc'[u].step # "mapped"
      BY <1>3, <2>3, <2>5
    <3>2. ASSUME "bypass" \notin spoilt[q]
          PROVE  /\ \A k \in 1 .. MaxAtt : slots'[q][k].st # "free" =>
                      Whole(q, slots'[q][k].seg, slots'[q][k].at)
                 /\ \A j, k \in 1 .. MaxAtt :
                      slots'[q][j].st # "free" /\ slots'[q][k].st # "free"
                        /\ slots'[q][j].at = slots'[q][k].at => j = k
      BY <1>2, <2>13, <3>2 DEF Sound, Exact
    <3> QED BY <1>1, <3>1, <3>2 DEF Exact, Whole
  <2>16. Sound(q)'
    BY <2>11, <2>12, <2>14, <2>15 DEF Sound
  <2> QED BY <1>1, <1>2, <2>3, <2>4, <2>10, <2>16, StepOfCall
<1>7. CASE ks = {}
  <2>1. slots' = slots /\ Finish(t, "EINVAL")
    BY <1>7 DEF Take
  <2>2. PICK l \in Local :
          /\ loc' = [loc EXCEPT ![t] = l]
          /\ l.step = "done" /\ l.op = "dt" /\ l.arg = a /\ l.res = "EINVAL"
    BY <1>1, <1>2, <2>1, FinishIs
  <2>3. loc'[t] = l /\ \A u \in Threads \ {t} : loc'[u] = loc[u]
    BY <1>2, <2>2
  <2>4. "torn" \notin spoilt[q] => a \notin Attached(q)
    <3>1. \A k \in 1 .. MaxAtt : slots[q][k].st \in {"free", "active", "detaching"}
      BY <1>2, SlotIs
    <3> QED BY <1>5, <1>7, <3>1
  <2>5. CallsAre(q)'
    BY <1>1, <1>2, <1>4, <2>2, <2>3, <2>4, IdleCallIs DEF CallsAre, CallIs, Ops, Args
  <2>6. Taking(q)'
    BY <1>1, <1>5, <2>1 DEF Taking
  <2>7. Covered(q)'
    BY <1>1, <1>4, <1>5, <2>1 DEF Covered
  <2>8. Exact(q)'
    <3>1. \A u \in Threads : home[u] = q => loc'[u].step # "mapped"
      BY <1>3, <2>2, <2>3
    <3> QED BY <1>1, <1>2, <2>1, <3>1 DEF Sound, Exact, Whole
  <2>9. Sound(q)'
    BY <2>5, <2>6, <2>7, <2>8 DEF Sound
  <2> QED BY <1>1, <1>2, <2>1, <2>2, <2>9, StepOfCall
<1> QED BY <1>6, <1>7

LEMMA CheckAInv ==
  ASSUME IInv, AInv, NEW t \in Threads, Check(t), NEW q, home[t] = q,
         NEW a, loc[t].arg = a, NEW k0, loc[t].pos = k0
  PROVE  AInv'
<1>1. /\ loc[t].step = "taken" /\ loc[t].op = "dt" /\ UNCHANGED vars /\ home' = home
      /\ space' = space /\ spoilt' = spoilt /\ calls' = calls /\ acts' = acts
  BY CallOperands DEF Check, InCall, Step, vars
<1>2. /\ q \in Procs /\ loc[t] \in Local /\ Sound(q)
      /\ slots \in [Procs -> [1 .. MaxAtt -> Slot]]
      /\ space \in [Procs -> [Pages -> Contents]]
      /\ loc \in [Threads -> Local]
      /\ \A u \in Threads : home[u] = q /\ u # t => loc[u].step = "idle"
      /\ a \in Pages /\ k0 \in 1 .. MaxAtt
      /\ slots[q][k0].st = "detaching" /\ slots[q][k0].at = a
  BY <1>1, CallOperands DEF CallIs, Args
<1>3. PICK s \in Segs : slots[q][k0] = [st |-> "detaching", at |-> a, seg |-> s]
  <2>1. slots[q][k0] \in Slot
    BY <1>2
  <2> QED BY <1>2, <2>1, SlotIs
<1>4. a \in Span(a, SegLen[s]) /\ slots[q][k0].seg = s /\ Attached(q)' = Attached(q)
  BY <1>1, <1>2, <1>3, SpanHasFirst DEF Attached
<1>5. "torn" \notin spoilt[q] =>
        /\ \A k \in (1 .. MaxAtt) \ {k0} : slots[q][k].st # "detaching"
        /\ \A p \in Attached(q) : \E k \in 1 .. MaxAtt :
             slots[q][k].st # "free" /\ slots[q][k].at = p /\ slots[q][k].seg = space[q][p].what
  <2>1. \A u \in Threads : home[u] = q /\ loc[u].step # "idle" => u = t
    BY <1>2
  <2>2. Taking(q) /\ Covered(q)
    BY <1>2 DEF Sound
  <2>3. \A u \in Threads : home[u] = q => loc[u].step # "mapped"
    BY <1>1, <2>1
  <2>4. \A u \in Threads : home[u] = q /\ loc[u].step \in {"taken", "checked"} => u = t
    BY <2>1
  <2>5. "torn" \notin spoilt[q] =>
          \A k \in (1 .. MaxAtt) \ {k0} : slots[q][k].st # "detaching"
    BY <2>2, <2>4 DEF Taking
  <2> QED BY <2>2, <2>3, <2>5 DEF Covered
<1>6. CASE KnownForeign(q, slots[q][k0]) /\ Finish(t, "EINVAL")
           /\ slots' = [slots EXCEPT ![q][k0] = FreeSlot]
  <2>1. PICK l \in Local :
          /\ loc' = [loc EXCEPT ![t] = l]
          /\ l.step = "done" /\ l.op = "dt" /\ l.arg = a /\ l.res = "EINVAL"
    BY <1>1, <1>2, <1>6, FinishIs
  <2>2. loc'[t] = l /\ \A u \in Threads \ {t} : loc'[u] = loc[u]
    BY <1>2, <2>1
  <2>3. FreeSlot \in Slot /\ FreeSlot.st = "free"
    BY DEF Slot, FreeSlot
  <2>4. /\ slots'[q][k0] = FreeSlot
        /\ \A k \in (1 .. MaxAtt) \ {k0} : slots'[q][k] = slots[q][k]
        /\ \A r \in Procs \ {q} : slots'[r] = slots[r]
        /\ slots' \in [Procs -> [1 .. MaxAtt -> Slot]]
    BY <1>2, <1>6, <2>3
  <2>5. space[q][a].what # s
    BY <1>2, <1>4, <1>6 DEF KnownForeign
  <2>6. "bypass" \in spoilt[q]
    <3> SUFFICES ASSUME "bypass" \notin spoilt[q] PROVE FALSE
      OBVIOUS
    <3>1. space[q][a] = [what |-> s, base |-> a]
      BY <1>2, <1>4 DEF Sound, Exact, Whole
    <3> QED BY <2>5, <3>1
  <2>7. CallsAre(q)'
    <3>1. ASSUME NEW u \in Threads, home[u] = q, u # t PROVE CallIs(q, u)'
      BY <1>2, <2>2, <3>1, IdleCallIs
    <3>2. CallIs(q, t)'
      BY <1>1, <1>2, <2>1, <2>2, <2>6 DEF CallIs, Ops, Args
    <3> QED BY <1>1, <3>1, <3>2 DEF CallsAre
  <2>8. Taking(q)'
    BY <1>1, <1>5, <2>3, <2>4 DEF Taking
  <2>9. Covered(q)'
    <3> SUFFICES ASSUME "torn" \notin spoilt[q], NEW p \in Attached(q)
                 PROVE  \E k \in 1 .. MaxAtt :
                          /\ slots'[q][k].st # "free" /\ slots'[q][k].at = p
                          /\ slots'[q][k].seg = space[q][p].what
      BY <1>1, <1>4 DEF Covered
    <3> QED BY <1>2, <1>4, <1>5, <2>4, <2>5
  <2>10. Exact(q)'
    BY <1>1, <2>6 DEF Exact
  <2>11. Sound(q)'
    BY <2>7, <2>8, <2>9, <2>10 DEF Sound
  <2> QED BY <1>1, <1>2, <2>1, <2>4, <2>11, StepOfCall
<1>7. CASE slots' = slots /\ loc' = [loc EXCEPT ![t].step = "checked"]
  <2> DEFINE l == [loc[t] EXCEPT !.step = "checked"]
  <2>1. l \in Local /\ l.step = "checked" /\ l.pos = k0 /\ l.op = "dt" /\ l.arg = a
    BY <1>1, <1>2 DEF Local, Steps
  <2>2. loc' = [loc EXCEPT ![t] = l]
    BY <1>2, <1>7
  <2> HIDE DEF l
  <2>3. loc'[t] = l /\ \A u \in Threads \ {t} : loc'[u] = loc[u]
    BY <1>2, <2>2
  <2>4. CallsAre(q)'
    <3>1. ASSUME NEW u \in Threads, home[u] = q, u # t PROVE CallIs(q, u)'
      BY <1>2, <2>3, <3>1, IdleCallIs
    <3>2. CallIs(q, t)'
      <4>1. /\ loc'[t].op = "dt" /\ loc'[t].arg = a /\ loc'[t].pos = k0
            /\ loc'[t].step = "checked" /\ slots'[q][k0] = slots[q][k0]
        BY <1>7, <2>1, <2>3
      <4> QED BY <1>2, <4>1 DEF CallIs, Ops, Args
    <3> QED BY <1>1, <3>1, <3>2 DEF CallsAre
  <2>5. Taking(q)'
    BY <1>1, <1>5, <1>7, <2>1, <2>3 DEF Taking
  <2>6. Covered(q)'
    BY <1>1, <1>4, <1>5, <1>7 DEF Covered
  <2>7. Exact(q)'
    <3>1. \A u \in Threads : home[u] = q => loc'[u].step # "mapped"
      BY <1>2, <2>1, <2>3
    <3> QED BY <1>1, <1>2, <1>7, <3>1 DEF Sound, Exact, Whole
  <2>8. Sound(q)'
    BY <2>4, <2>5, <2>6, <2>7 DEF Sound
  <2> QED BY <1>1, <1>2, <1>7, <2>1, <2>2, <2>8, StepOfCall
<1> QED BY <1>6, <1>7 DEF Check

LEMMA UnmapAInv ==
  ASSUME IInv, AInv, NEW t \in Threads, Unmap(t), NEW q, home[t] = q,
         NEW a, loc[t].arg = a, NEW k0, loc[t].pos = k0
  PROVE  AInv'
<1>1. /\ loc[t].step = "checked" /\ loc[t].op = "dt" /\ UNCHANGED vars /\ home' = home
      /\ spoilt' = spoilt /\ calls' = calls /\ acts' = acts
  BY CallOperands DEF Unmap, InCall, Step, vars
<1>2. /\ q \in Procs /\ loc[t] \in Local /\ Sound(q)
      /\ slots \in [Procs -> [1 .. MaxAtt -> Slot]]
      /\ space \in [Procs -> [Pages -> Contents]]
      /\ loc \in [Threads -> Local]
      /\ \A u \in Threads : home[u] = q /\ u # t => loc[u].step = "idle"
      /\ a \in Pages /\ k0 \in 1 .. MaxAtt
      /\ slots[q][k0].st = "detaching" /\ slots[q][k0].at = a
  BY <1>1, CallOperands DEF CallIs, Args
<1>3. PICK s \in Segs : slots[q][k0] = [st |-> "detaching", at |-> a, seg |-> s]
  <2>1. slots[q][k0] \in Slot
    BY <1>2
  <2> QED BY <1>2, <2>1, SlotIs
<1>4. PICK l \in Local, r \in {"ok", "failed"} :
        /\ loc' = [loc EXCEPT ![t] = l] /\ Finish(t, r)
        /\ l.step = "done" /\ l.op = "dt" /\ l.arg = a /\ l.res = r
  <2>1. Finish(t, "ok") \/ Finish(t, "failed")
    BY DEF Unmap
  <2> QED BY <1>1, <1>2, <2>1, FinishIs
<1>5. loc'[t] = l /\ \A u \in Threads \ {t} : loc'[u] = loc[u]
  BY <1>2, <1>4
<1>6. /\ \A u \in Threads : home[u] = q /\ loc[u].step # "idle" => u = t
      /\ \A u \in Threads : home[u] = q => loc[u].step # "mapped"
                                            /\ loc'[u].step \notin {"mapped", "taken", "checked"}
  BY <1>1, <1>2, <1>4, <1>5
<1>7. "torn" \notin spoilt[q] =>
        /\ \A k \in (1 .. MaxAtt) \ {k0} : slots[q][k].st # "detaching"
        /\ \A p \in Attached(q) : \E k \in 1 .. MaxAtt :
             slots[q][k].st # "free" /\ slots[q][k].at = p /\ slots[q][k].seg = space[q][p].what
  <2>1. Taking(q) /\ Covered(q)
    BY <1>2 DEF Sound
  <2>2. \A u \in Threads : home[u] = q /\ loc[u].step \in {"taken", "checked"} => u = t
    BY <1>6
  <2>3. "torn" \notin spoilt[q] =>
          \A k \in (1 .. MaxAtt) \ {k0} : slots[q][k].st # "detaching"
    BY <2>1, <2>2 DEF Taking
  <2> QED BY <1>6, <2>1, <2>3 DEF Covered
<1>8. "bypass" \notin spoilt[q] =>
        /\ \A k \in 1 .. MaxAtt : slots[q][k].st # "free" =>
             \A p \in Span(slots[q][k].at, SegLen[slots[q][k].seg]) :
               /\ p \in Pages
               /\ space[q][p] = [what |-> slots[q][k].seg, base |-> slots[q][k].at]
        /\ \A j, k \in 1 .. MaxAtt :
             slots[q][j].st # "free" /\ slots[q][k].st # "free"
               /\ slots[q][j].at = slots[q][k].at => j = k
  BY <1>2 DEF Sound, Exact, Whole
<1>9. a \in Span(a, SegLen[s]) /\ slots[q][k0].seg = s
  BY <1>2, <1>3, SpanHasFirst
<1>10. slots' \in [Procs -> [1 .. MaxAtt -> Slot]] =>
         (CallIs(q, t)' => CallsAre(q)')
  BY <1>1, <1>2, <1>5, IdleCallIs DEF CallsAre
<1>11. FreeSlot \in Slot /\ FreeSlot.st = "free"
  BY DEF Slot, FreeSlot
<1>13. CASE space' = [space EXCEPT ![q] = Unmapped(@, Span(a, SegLen[s]))]
            /\ slots' = [slots EXCEPT ![q][k0] = FreeSlot]
  <2>1. /\ space' \in [Procs -> [Pages -> Contents]]
        /\ \A p \in Pages : space'[q][p] = IF p \in Span(a, SegLen[s]) THEN None ELSE space[q][p]
        /\ \A r1 \in Procs \ {q} : space'[r1] = space[r1]
    BY <1>2, <1>13, UnmappedIs
  <2>2. /\ slots'[q][k0] = FreeSlot
        /\ \A k \in (1 .. MaxAtt) \ {k0} : slots'[q][k] = slots[q][k]
        /\ \A r1 \in Procs \ {q} : slots'[r1] = slots[r1]
        /\ slots' \in [Procs -> [1 .. MaxAtt -> Slot]]
    BY <1>2, <1>11, <1>13
  <2>3. \A p \in Attached(q)' : /\ p \in Attached(q) /\ space'[q][p] = space[q][p]
                                /\ p # a
    BY <1>9, <2>1, AttachAssumption DEF Attached, None
  <2>4. CallsAre(q)'
    BY <1>1, <1>2, <1>4, <1>5, <1>10, <2>2, <2>3 DEF CallIs, Ops, Args
  <2>5. Taking(q)'
    BY <1>1, <1>7, <1>11, <2>2 DEF Taking
  <2>6. Covered(q)'
    <3> SUFFICES ASSUME "torn" \notin spoilt[q], NEW p \in Attached(q)'
                 PROVE  \E k \in 1 .. MaxAtt :
                          /\ slots'[q][k].st # "free" /\ slots'[q][k].at = p
                          /\ slots'[q][k].seg = space'[q][p].what
      BY <1>1 DEF Covered
    <3> QED BY <1>2, <1>7, <2>2, <2>3
  <2>7. Exact(q)'
    <3> SUFFICES ASSUME "bypass" \notin spoilt[q]
                 PROVE  /\ \A k \in 1 .. MaxAtt : slots'[q][k].st # "free" =>
                             \A p \in Span(slots'[q][k].at, SegLen[slots'[q][k].seg]) :
                               /\ p \in Pages
                               /\ space'[q][p] =
                                    [what |-> slots'[q][k].seg, base |-> slots'[q][k].at]
                        /\ \A j, k \in 1 .. MaxAtt :
                             slots'[q][j].st # "free" /\ slots'[q][k].st # "free"
                               /\ slots'[q][j].at = slots'[q][k].at => j = k
      BY <1>1, <1>6 DEF Exact, Whole
    <3>1. \A p \in Span(a, SegLen[s]) : space[q][p] = [what |-> s, base |-> a]
      BY <1>2, <1>8, <1>9
    <3>2. ASSUME NEW k \in (1 .. MaxAtt) \ {k0}, slots[q][k].st # "free",
                 NEW p \in Span(slots[q][k].at, SegLen[slots[q][k].seg])
          PROVE  p \in Pages /\ space'[q][p] = [what |-> slots[q][k].seg, base |-> slots[q][k].at]
      <4>1. slots[q][k].at # a
        BY <1>2, <1>8, <3>2
      <4>2. p \in Pages /\ space[q][p] = [what |-> slots[q][k].seg, base |-> slots[q][k].at]
        BY <1>8, <3>2
      <4> QED BY <2>1, <3>1, <4>1, <4>2
    <3> QED BY <1>8, <1>11, <2>2, <3>2
  <2>8. Sound(q)'
    BY <2>4, <2>5, <2>6, <2>7 DEF Sound
  <2> QED BY <1>1, <1>2, <1>4, <2>1, <2>2, <2>8, StepOfCall
<1>14. CASE space' = space /\ r = "failed"
            /\ slots' = [slots EXCEPT ![q][k0].st = "active"]
  <2> DEFINE new == [st |-> "active", at |-> a, seg |-> s]
  <2>1. new \in Slot /\ new.st = "active" /\ new.at = a /\ new.seg = s
    BY <1>2 DEF Slot
  <2>2. [slots[q][k0] EXCEPT !.st = "active"] = new
    BY <1>3
  <2>3. slots' = [slots EXCEPT ![q][k0] = new]
    BY <1>2, <1>14, <2>2
  <2> HIDE DEF new
  <2>4. /\ slots'[q][k0] = new
        /\ \A k \in (1 .. MaxAtt) \ {k0} : slots'[q][k] = slots[q][k]
        /\ \A r1 \in Procs \ {q} : slots'[r1] = slots[r1]
        /\ slots' \in [Procs -> [1 .. MaxAtt -> Slot]]
    BY <1>2, <2>1, <2>3
  <2>5. CallsAre(q)'
    BY <1>1, <1>2, <1>4, <1>5, <1>10, <1>14, <2>4 DEF CallIs, Ops, Args
  <2>6. Taking(q)'
    BY <1>1, <1>7, <2>1, <2>4 DEF Taking
  <2>7. Attached(q)' = Attached(q)
    BY <1>14 DEF Attached
  <2>8. \A k \in 1 .. MaxAtt :
          /\ slots'[q][k].st # "free" <=> slots[q][k].st # "free"
          /\ slots'[q][k].at = slots[q][k].at /\ slots'[q][k].seg = slots[q][k].seg
    BY <1>2, <1>9, <2>1, <2>4
  <2>9. Covered(q)'
    BY <1>1, <1>7, <1>14, <2>7, <2>8 DEF Covered
  <2>10. Exact(q)'
    BY <1>1, <1>2, <1>6, <1>14, <2>8 DEF Sound, Exact, Whole
  <2>11. Sound(q)'
    BY <2>5, <2>6, <2>9, <2>10 DEF Sound
  <2> QED BY <1>1, <1>2, <1>4, <1>14, <2>4, <2>11, StepOfCall
<1>15. ASSUME Finish(t, "failed") PROVE r = "failed"
  <2>1. PICK m \in Local : loc' = [loc EXCEPT ![t] = m] /\ m.res = "failed"
    BY <1>2, <1>15, FinishIs
  <2> QED BY <1>2, <1>4, <1>5, <2>1
<1> QED BY <1>2, <1>3, <1>9, <1>13, <1>14, <1>15 DEF Unmap

-----------------------------------------------------------------------------
(* The steps outside the calls. *)

(* A call begins or ends. *)
LEMMA CallBounds ==
  ASSUME AInv, NEW t \in Threads, home' = home, UNCHANGED <<slots, space, spoilt>>,
         NEW l \in Local, loc' = [loc EXCEPT ![t] = l],
         loc[t].step \in {"idle", "in", "done"}, l.step \in {"idle", "in"},
         l.step = "in" => l.op \in Ops /\ l.arg \in Args(l.op),
         NEW q \in Procs
  PROVE  Sound(q)'
<1>1. Sound(q) /\ loc \in [Threads -> Local]
  BY DEF AInv, AttType
<1>2. loc'[t] = l /\ \A u \in Threads \ {t} : loc'[u] = loc[u]
  BY <1>1
<1>3. Attached(q)' = Attached(q)
  BY DEF Attached
<1>4. CallsAre(q)'
  <2> SUFFICES ASSUME NEW u \in Threads, home[u] = q PROVE CallIs(q, u)'
    BY DEF CallsAre
  <2>1. CASE u = t
    BY <1>2, <2>1 DEF CallIs
  <2>2. CASE u # t
    BY <1>1, <1>2, <1>3, <2>2 DEF Sound, CallsAre, CallIs
  <2> QED BY <2>1, <2>2
<1>5. \A u \in Threads : /\ loc[u].step \in {"mapped", "taken", "checked"} => loc'[u] = loc[u]
                         /\ loc'[u].step \in {"mapped", "taken", "checked"} => loc'[u] = loc[u]
  BY <1>2
<1>6. Taking(q)'
  BY <1>1, <1>5 DEF Sound, Taking
<1>7. Covered(q)'
  BY <1>1, <1>3, <1>5 DEF Sound, Covered
<1>8. Exact(q)'
  BY <1>1, <1>5 DEF Sound, Exact, Whole
<1> QED BY <1>4, <1>6, <1>7, <1>8 DEF Sound

LEMMA EnterAInv ==
  ASSUME IInv, AInv, NEW t \in Threads, NEW op \in Ops, NEW arg \in Args(op), Enter(t, op, arg)
  PROVE  AInv'
<1> DEFINE l == [Idle EXCEPT !.op = op, !.arg = arg, !.step = "in"]
<1>1. /\ l \in Local /\ l.step = "in" /\ l.op = op /\ l.arg = arg
  <2>1. arg \in Segs \cup Pages
    BY DEF Args
  <2> QED BY <2>1, IdleLocal DEF Idle, Local, Steps
<1>2. /\ loc' = [loc EXCEPT ![t] = l] /\ loc[t].step = "idle"
      /\ home' = home /\ UNCHANGED <<slots, space, spoilt, acts>>
      /\ pc' = [pc EXCEPT ![t] = "shm"] /\ home[t] # NoProc
      /\ calls < MaxCalls /\ calls' = calls + 1
  BY DEF Enter, Step, EmulateBegin, Goto, At
<1> HIDE DEF l
<1>3. loc \in [Threads -> Local] /\ pc \in [Threads -> PCs]
  BY DEF AInv, AttType, IInv, TypeOK
<1>4. \A u \in Threads : loc'[u].step # "idle" <=> At(u, "shm")'
  BY <1>1, <1>2, <1>3 DEF AInv, AttType, At
<1>5. AttType'
  <2>1. calls' \in 0 .. MaxCalls
    BY <1>2, AttachAssumption DEF AInv, AttType
  <2> QED BY <1>1, <1>2, <1>3, <1>4, <2>1 DEF AInv, AttType
<1>6. \A q \in Procs : Sound(q)'
  BY <1>1, <1>2, CallBounds
<1> QED BY <1>5, <1>6 DEF AInv

LEMMA LeaveAInv ==
  ASSUME IInv, AInv, NEW t \in Threads, Leave(t)
  PROVE  AInv'
<1>1. /\ loc' = [loc EXCEPT ![t] = Idle] /\ loc[t].step = "done"
      /\ home' = home /\ UNCHANGED <<slots, space, spoilt, acts, calls>>
      /\ pc' = [pc EXCEPT ![t] = "run"]
  BY DEF Leave, Step, EmulateEnd, Goto
<1>2. Idle \in Local /\ Idle.step = "idle"
  BY IdleLocal DEF Idle
<1>3. loc \in [Threads -> Local] /\ pc \in [Threads -> PCs]
  BY DEF AInv, AttType, IInv, TypeOK
<1>4. \A u \in Threads : loc'[u].step # "idle" <=> At(u, "shm")'
  BY <1>1, <1>2, <1>3 DEF AInv, AttType, At
<1>5. AttType'
  BY <1>1, <1>2, <1>3, <1>4 DEF AInv, AttType
<1>6. \A q \in Procs : Sound(q)'
  BY <1>1, <1>2, CallBounds
<1> QED BY <1>5, <1>6 DEF AInv

(* A process is born with a copy of the memory of home[t]. *)
LEMMA Born ==
  ASSUME IInv, AInv, NEW t \in Threads, NEW u \in Threads, NEW q \in Procs,
         NEW kind \in Kinds, Birth(t, u, q, kind), home[t] # NoProc,
         NEW marks \in SUBSET {"torn"}, Copied(t, q, marks),
         marks = {} => \A w \in Threads : home[w] = home[t] => loc[w].step = "idle",
         NEW x \in PCs \ {"shm"}, NEW y \in PCs \ {"shm"},
         pc' = [pc EXCEPT ![t] = x, ![u] = y] \/ (pc' = [pc EXCEPT ![u] = y]), pc[t] # "shm"
  PROVE  AInv'
<1>1. PICK p \in Procs : home[t] = p
  BY DEF IInv, TypeOK
<1>2. /\ home[u] = NoProc /\ (\A w \in Threads : home[w] # q) /\ p # q /\ u # t
      /\ home' = [home EXCEPT ![u] = q]
      /\ slots' = [slots EXCEPT ![q] = slots[p]]
      /\ space' = [space EXCEPT ![q] = space[p]]
      /\ spoilt' = [spoilt EXCEPT ![q] = spoilt[p] \cup marks]
      /\ loc' = loc /\ calls' = calls /\ acts' = acts
  BY <1>1 DEF Birth, Newborn, Copied
<1>3. /\ home \in [Threads -> Procs \cup {NoProc}] /\ pc \in [Threads -> PCs]
      /\ AttType
  BY DEF IInv, TypeOK, AInv
<1>4. /\ slots'[q] = slots[p] /\ space'[q] = space[p] /\ spoilt'[q] = spoilt[p] \cup marks
      /\ \A r \in Procs \ {q} :
           slots'[r] = slots[r] /\ space'[r] = space[r] /\ spoilt'[r] = spoilt[r]
      /\ home'[u] = q /\ \A w \in Threads \ {u} : home'[w] = home[w]
  BY <1>2, <1>3 DEF AttType
<1>5. loc[u].step = "idle"
  BY <1>2, <1>3 DEF AttType, At
<1>6. AttType'
  <2>1. \A w \in Threads : loc'[w].step # "idle" <=> At(w, "shm")'
    <3>1. \A w \in Threads \ {t, u} : pc'[w] = pc[w] /\ home'[w] = home[w]
      BY <1>3, <1>4
    <3>2. pc'[t] # "shm" /\ pc'[u] # "shm" /\ loc[t].step = "idle"
      BY <1>2, <1>3 DEF AttType, At
    <3> QED BY <1>2, <1>3, <1>5, <3>1, <3>2 DEF AttType, At
  <2>2. slots' \in [Procs -> [1 .. MaxAtt -> Slot]] /\ space' \in [Procs -> [Pages -> Contents]]
    BY <1>1, <1>2, <1>3 DEF AttType
  <2>3. spoilt' \in [Procs -> SUBSET {"torn", "bypass"}]
    BY <1>1, <1>2, <1>3 DEF AttType
  <2> QED BY <1>2, <1>3, <2>1, <2>2, <2>3 DEF AttType
<1>7. ASSUME NEW r \in Procs, r # q PROVE Sound(r)'
  <2>1. \A w \in Threads :
          home[w] = r \/ home'[w] = r => home'[w] = home[w] /\ loc'[w] = loc[w]
    BY <1>2, <1>4, <1>7, GateAssumption
  <2>2. Sound(r) /\ slots'[r] = slots[r] /\ space'[r] = space[r] /\ spoilt'[r] = spoilt[r]
    BY <1>4, <1>7 DEF AInv
  <2> QED BY <2>1, <2>2, Elsewhere
<1>8. Sound(q)'
  <2>1. \A w \in Threads : home'[w] = q => w = u
    BY <1>2, <1>4
  <2>2. CallsAre(q)'
    BY <1>2, <1>5, <2>1, IdleCallIs DEF CallsAre
  <2>3. Sound(p)
    BY DEF AInv
  <2>4. "torn" \notin spoilt'[q] =>
          "torn" \notin spoilt[p] /\ \A w \in Threads : home[w] = p => loc[w].step = "idle"
    BY <1>1, <1>4
  <2>5. Attached(q)' = Attached(p)
    BY <1>4 DEF Attached
  <2>6. Taking(q)'
    BY <1>4, <2>3, <2>4 DEF Sound, Taking
  <2>7. Covered(q)'
    BY <1>4, <2>3, <2>4, <2>5 DEF Sound, Covered
  <2>8. Exact(q)'
    BY <1>2, <1>4, <1>5, <2>1, <2>3 DEF Sound, Exact, Whole
  <2> QED BY <2>2, <2>6, <2>7, <2>8 DEF Sound
<1> QED BY <1>6, <1>7, <1>8 DEF AInv

LEMMA ForkAInv ==
  ASSUME IInv, AInv, NEW t \in Threads, ForkStep(t) \/ ForkUnseen(t)
  PROVE  AInv'
<1>1. CASE (ForkBegin(t) \/ RealForkFails(t) \/ ForkChild(t) \/ ForkEnd(t)) /\ UNCHANGED attVars
  <2>1. /\ home' = home /\ UNCHANGED <<slots, space, loc, spoilt, calls, acts>>
        /\ \E x \in PCs \ {"shm"} : pc' = [pc EXCEPT ![t] = x]
        /\ pc[t] # "shm"
    <3>1. UNCHANGED <<slots, space, loc, spoilt, calls, acts>>
      BY <1>1 DEF attVars
    <3>2. CASE ForkBegin(t)
      BY <3>1, <3>2 DEF ForkBegin, At, Goto, PCs
    <3>3. CASE RealForkFails(t)
      BY <3>1, <3>3 DEF RealForkFails, At, Goto, PCs
    <3>4. CASE ForkChild(t)
      <4>1. CASE born[home[t]] = "fork"
        BY <3>1, <3>4, <4>1 DEF ForkChild, At, Goto, PCs
      <4>2. CASE born[home[t]] # "fork"
        BY <3>1, <3>4, <4>2 DEF ForkChild, At, Goto, PCs
      <4> QED BY <4>1, <4>2
    <3>5. CASE ForkEnd(t)
      BY <3>1, <3>5 DEF ForkEnd, At, Goto, PCs
    <3> QED BY <1>1, <3>2, <3>3, <3>4, <3>5
  <2>2. \A u \in Threads : At(u, "shm")' <=> At(u, "shm")
    BY <2>1 DEF At, IInv, TypeOK
  <2>3. AttType'
    BY <2>1, <2>2 DEF AInv, AttType
  <2>4. \A q \in Procs : Sound(q)'
    BY <2>1, Elsewhere DEF AInv
  <2> QED BY <2>3, <2>4 DEF AInv
<1>2. ASSUME NEW u \in Threads, NEW q \in Procs, RealFork(t, u, q), Copied(t, q, {})
      PROVE  AInv'
  <2>1. /\ Birth(t, u, q, "fork") /\ home[t] # NoProc /\ pc[t] = "fork"
        /\ pc' = [pc EXCEPT ![t] = "forked", ![u] = "atfork"]
    BY <1>2 DEF RealFork, At
  <2>2. \A w \in Threads : home[w] = home[t] => loc[w].step = "idle"
    <3> SUFFICES ASSUME NEW w \in Threads, home[w] = home[t], loc[w].step # "idle" PROVE FALSE
      OBVIOUS
    <3>1. pc[w] = "shm"
      BY OneCalls DEF AInv
    <3> QED BY <2>1, <3>1 DEF IInv, Apart
  <2>3. "fork" \in Kinds /\ "forked" \in PCs \ {"shm"} /\ "atfork" \in PCs \ {"shm"}
    BY DEF Kinds, PCs
  <2> QED BY <1>2, <2>1, <2>2, <2>3, Born
<1>3. ASSUME ForkUnseen(t) PROVE AInv'
  <2> DEFINE marks == IF Inside(home[t]) = {} THEN {} ELSE {"torn"}
  <2>1. PICK u \in Threads, q \in Procs :
          (HiddenFork(t, u, q) \/ RawClone(t, u, q)) /\ Copied(t, q, marks)
    BY <1>3 DEF ForkUnseen
  <2>2. marks = {} => \A w \in Threads : home[w] = home[t] => loc[w].step = "idle"
    <3> SUFFICES ASSUME Inside(home[t]) = {}, NEW w \in Threads, home[w] = home[t],
                        loc[w].step # "idle"
                 PROVE  FALSE
      OBVIOUS
    <3>1. pc[w] = "shm"
      BY OneCalls DEF AInv
    <3> QED BY <3>1 DEF Inside
  <2>3. marks \in SUBSET {"torn"}
    OBVIOUS
  <2> HIDE DEF marks
  <2>4. CASE HiddenFork(t, u, q)
    <3>1. /\ Birth(t, u, q, "hidden") /\ home[t] # NoProc /\ pc[t] = "run"
          /\ pc' = [pc EXCEPT ![u] = "atfork"]
      BY <2>4 DEF HiddenFork, At, Goto
    <3>2. "hidden" \in Kinds /\ "atfork" \in PCs \ {"shm"}
      BY DEF Kinds, PCs
    <3> QED BY <2>1, <2>2, <2>3, <3>1, <3>2, Born
  <2>5. CASE RawClone(t, u, q)
    <3>1. Birth(t, u, q, "raw") /\ home[t] # NoProc /\ pc[t] = "run" /\ pc' = pc
      BY <2>5 DEF RawClone, At
    <3>2. pc[u] = "run" /\ pc \in [Threads -> PCs]
      BY <3>1 DEF Birth, IInv, Unborn, TypeOK
    <3>3. pc' = [pc EXCEPT ![u] = "run"]
      BY <3>1, <3>2
    <3>4. "raw" \in Kinds /\ "run" \in PCs \ {"shm"}
      BY DEF Kinds, PCs
    <3> QED BY <2>1, <2>2, <2>3, <3>1, <3>3, <3>4, Born
  <2> QED BY <2>1, <2>4, <2>5
<1> QED BY <1>1, <1>2, <1>3 DEF ForkStep

(* Memory changes in no call of q: mappings of segments are not made, and lost
   only by an act that spoils the process. *)
LEMMA Outside ==
  ASSUME NEW q \in Procs, Sound(q), home' = home, loc' = loc, slots'[q] = slots[q],
         slots \in [Procs -> [1 .. MaxAtt -> Slot]], loc \in [Threads -> Local],
         "torn" \in spoilt'[q] <=> "torn" \in spoilt[q], spoilt'[q] = {} => spoilt[q] = {},
         "bypass" \notin spoilt'[q] => "bypass" \notin spoilt[q],
         \A p \in Pages : space'[q][p].what \in Segs => space'[q][p] = space[q][p],
         "bypass" \notin spoilt'[q] =>
           \A p \in Pages : space[q][p].what \in Segs => space'[q][p] = space[q][p]
  PROVE  Sound(q)'
<1>1. \A p \in Attached(q)' : p \in Attached(q) /\ space'[q][p] = space[q][p]
  BY DEF Attached
<1>2. CallsAre(q)'
  BY <1>1 DEF Sound, CallsAre, CallIs
<1>3. Taking(q)'
  BY DEF Sound, Taking
<1>4. Covered(q)'
  BY <1>1 DEF Sound, Covered
<1>5. ASSUME NEW s \in Segs, NEW a, "bypass" \notin spoilt'[q], Whole(q, s, a) PROVE Whole(q, s, a)'
  BY <1>5 DEF Whole
<1>6. Exact(q)'
  <2> SUFFICES ASSUME "bypass" \notin spoilt'[q]
               PROVE  /\ \A k \in 1 .. MaxAtt : slots[q][k].st # "free" =>
                           Whole(q, slots[q][k].seg, slots[q][k].at)'
                      /\ \A j, k \in 1 .. MaxAtt :
                           slots[q][j].st # "free" /\ slots[q][k].st # "free"
                             /\ slots[q][j].at = slots[q][k].at => j = k
                      /\ \A t \in Threads : home[t] = q /\ loc[t].step = "mapped" =>
                           /\ Whole(q, loc[t].arg, loc[t].pos)'
                           /\ \A k \in 1 .. MaxAtt :
                                slots[q][k].st # "free" => slots[q][k].at # loc[t].pos
    BY DEF Exact, Whole
  <2>1. Exact(q) /\ "bypass" \notin spoilt[q]
    BY DEF Sound
  <2>2. ASSUME NEW k \in 1 .. MaxAtt, slots[q][k].st # "free" PROVE slots[q][k].seg \in Segs
    <3>1. slots[q][k] \in Slot
      OBVIOUS
    <3> QED BY <2>2, <3>1, SlotIs
  <2>3. ASSUME NEW t \in Threads, home[t] = q, loc[t].step = "mapped" PROVE loc[t].arg \in Segs
    BY <2>3 DEF Sound, CallsAre, CallIs, Args
  <2> QED BY <1>5, <2>1, <2>2, <2>3 DEF Exact
<1> QED BY <1>2, <1>3, <1>4, <1>6 DEF Sound

(* What a static program is started with. *)
LEMMA StaticExecIs ==
  ASSUME IInv, AInv, NEW t \in Threads, StaticExec(t), NEW q, home[t] = q
  PROVE  /\ q \in Procs /\ UNCHANGED <<vars, loc, spoilt, calls>>
         /\ acts' \in 0 .. MaxActs
         /\ slots' \in [Procs -> [1 .. MaxAtt -> Slot]]
         /\ space' \in [Procs -> [Pages -> Contents]]
         /\ \A r \in Procs \ {q} : slots'[r] = slots[r] /\ space'[r] = space[r]
         /\ Sound(q)'
         /\ "torn" \notin spoilt[q] /\ acts' = acts =>
              Attached(q)' = {} /\ \A k \in 1 .. MaxAtt : slots'[q][k] = FreeSlot
         /\ \A p \in Pages : space'[q][p] # space[q][p] =>
              \E k \in 1 .. MaxAtt :
                /\ slots[q][k].st # "free" /\ slots'[q][k] # slots[q][k]
                /\ p \in Span(slots[q][k].at, SegLen[slots[q][k].seg])
<1> DEFINE active == {k \in 1 .. MaxAtt : slots[q][k].st = "active"}
<1>0. PICK done \in SUBSET active :
        /\ space' = [space EXCEPT ![q] =
             Unmapped(@, UNION {Span(slots[q][k].at, SegLen[slots[q][k].seg]) : k \in done})]
        /\ slots' = [slots EXCEPT ![q] =
             [k \in 1 .. MaxAtt |-> IF k \in done THEN FreeSlot ELSE slots[q][k]]]
        /\ \/ done = active /\ UNCHANGED acts
           \/ done # active /\ acts < MaxActs /\ acts' = acts + 1
  <2> DEFINE Active(h) == {k \in 1 .. MaxAtt : slots[h][k].st = "active"}
             Chosen(h, done) ==
               /\ space' = [space EXCEPT ![h] =
                    Unmapped(@, UNION {Span(slots[h][k].at, SegLen[slots[h][k].seg]) : k \in done})]
               /\ slots' = [slots EXCEPT ![h] =
                    [k \in 1 .. MaxAtt |-> IF k \in done THEN FreeSlot ELSE slots[h][k]]]
               /\ \/ done = Active(h) /\ UNCHANGED acts
                  \/ done # Active(h) /\ acts < MaxActs /\ acts' = acts + 1
  <2>1. \E done \in SUBSET Active(home[t]) : Chosen(home[t], done)
    BY Zenon DEF StaticExec
  <2> HIDE DEF Chosen, Active
  <2>2. \E done \in SUBSET Active(q) : Chosen(q, done)
    BY <2>1
  <2> USE DEF Chosen, Active
  <2> QED BY <2>2
<1> DEFINE gone == UNION {Span(slots[q][k].at, SegLen[slots[q][k].seg]) : k \in done}
           kept == [k \in 1 .. MaxAtt |-> IF k \in done THEN FreeSlot ELSE slots[q][k]]
<1>1. /\ UNCHANGED <<vars, loc, spoilt, calls>>
      /\ loc[t].step = "idle" /\ home[t] # NoProc
      /\ \A u \in Threads \ {t} : home[u] # q
      /\ space' = [space EXCEPT ![q] = Unmapped(@, gone)]
      /\ slots' = [slots EXCEPT ![q] = kept]
  BY <1>0 DEF StaticExec, Step
<1>2. /\ q \in Procs /\ home' = home
      /\ slots \in [Procs -> [1 .. MaxAtt -> Slot]] /\ space \in [Procs -> [Pages -> Contents]]
      /\ loc \in [Threads -> Local] /\ acts \in 0 .. MaxActs
  BY <1>1, OnBoard DEF AInv, AttType, vars
<1>3. FreeSlot \in Slot /\ FreeSlot.st = "free"
  BY DEF Slot, FreeSlot
<1>4. kept \in [1 .. MaxAtt -> Slot] /\ \A k \in done : k \in active
  BY <1>0, <1>2, <1>3
<1>5. acts' \in 0 .. MaxActs /\ (acts' = acts => done = active)
  BY <1>0, <1>2, AttachAssumption
<1> HIDE DEF gone
<1>6. /\ slots' \in [Procs -> [1 .. MaxAtt -> Slot]]
      /\ space' \in [Procs -> [Pages -> Contents]]
      /\ \A r \in Procs \ {q} : slots'[r] = slots[r] /\ space'[r] = space[r]
      /\ slots'[q] = kept
      /\ \A p \in Pages : space'[q][p] = IF p \in gone THEN None ELSE space[q][p]
  BY <1>1, <1>2, <1>4, UnmappedIs
<1>7. \A k \in 1 .. MaxAtt : /\ k \in done => slots'[q][k] = FreeSlot
                             /\ k \notin done => slots'[q][k] = slots[q][k]
  BY <1>6
<1>8. \A k \in 1 .. MaxAtt : /\ slots[q][k].st \in {"free", "active", "detaching"}
                             /\ slots[q][k].st = "free" => slots[q][k] = FreeSlot
                             /\ slots[q][k].st # "free" =>
                                  slots[q][k].at \in Pages /\ slots[q][k].seg \in Segs
  <2> SUFFICES ASSUME NEW k \in 1 .. MaxAtt
               PROVE  /\ slots[q][k].st \in {"free", "active", "detaching"}
                      /\ slots[q][k].st = "free" => slots[q][k] = FreeSlot
                      /\ slots[q][k].st # "free" =>
                           slots[q][k].at \in Pages /\ slots[q][k].seg \in Segs
    OBVIOUS
  <2>1. slots[q][k] \in Slot
    BY <1>2
  <2> QED BY <2>1, SlotIs
<1>9. Sound(q) /\ \A u \in Threads : home[u] = q => loc[u].step = "idle"
  BY <1>1, <1>2 DEF AInv
<1>10. "torn" \notin spoilt[q] => \A k \in 1 .. MaxAtt : slots[q][k].st # "detaching"
  BY <1>9 DEF Sound, Taking
<1>11. ASSUME "torn" \notin spoilt[q], NEW p \in Attached(q)'
       PROVE  \E k \in active \ done :
                slots'[q][k].st # "free" /\ slots'[q][k].at = p
                  /\ slots'[q][k].seg = space'[q][p].what
  <2>1. p \in Pages /\ p \notin gone /\ space'[q][p] = space[q][p] /\ p \in Attached(q)
    BY <1>6, AttachAssumption DEF Attached, None
  <2>2. PICK k \in 1 .. MaxAtt :
          slots[q][k].st # "free" /\ slots[q][k].at = p /\ slots[q][k].seg = space[q][p].what
    BY <1>9, <1>11, <2>1 DEF Sound, Covered
  <2>3. k \in active /\ slots[q][k].seg \in Segs
    BY <1>8, <1>10, <1>11, <2>2
  <2>4. p \in Span(slots[q][k].at, SegLen[slots[q][k].seg])
    BY <2>1, <2>2, <2>3, SpanHasFirst
  <2>5. k \notin done
    BY <2>1, <2>4 DEF gone
  <2> QED BY <1>7, <2>1, <2>2, <2>3, <2>5
<1>12. ASSUME "torn" \notin spoilt[q], acts' = acts
       PROVE  Attached(q)' = {} /\ \A k \in 1 .. MaxAtt : slots'[q][k] = FreeSlot
  <2>1. \A k \in 1 .. MaxAtt : slots'[q][k] = FreeSlot
    BY <1>5, <1>7, <1>8, <1>10, <1>12
  <2>2. Attached(q)' = {}
    BY <1>5, <1>11, <1>12
  <2> QED BY <2>1, <2>2
<1>13. Sound(q)'
  <2>1. CallsAre(q)'
    BY <1>1, <1>2, <1>9, IdleCallIs DEF CallsAre
  <2>2. Taking(q)'
    BY <1>1, <1>3, <1>7, <1>10 DEF Taking
  <2>3. Covered(q)'
    BY <1>1, <1>11 DEF Covered
  <2>4. Exact(q)'
    <3> SUFFICES ASSUME "bypass" \notin spoilt[q]
                 PROVE  /\ \A k \in 1 .. MaxAtt : slots'[q][k].st # "free" =>
                             \A p \in Span(slots'[q][k].at, SegLen[slots'[q][k].seg]) :
                               /\ p \in Pages
                               /\ space'[q][p] =
                                    [what |-> slots'[q][k].seg, base |-> slots'[q][k].at]
                        /\ \A j, k \in 1 .. MaxAtt :
                             slots'[q][j].st # "free" /\ slots'[q][k].st # "free"
                               /\ slots'[q][j].at = slots'[q][k].at => j = k
      BY <1>1, <1>2, <1>9 DEF Exact, Whole
    <3>1. /\ \A k \in 1 .. MaxAtt : slots[q][k].st # "free" =>
               \A p \in Span(slots[q][k].at, SegLen[slots[q][k].seg]) :
                 /\ p \in Pages
                 /\ space[q][p] = [what |-> slots[q][k].seg, base |-> slots[q][k].at]
          /\ \A j, k \in 1 .. MaxAtt :
               slots[q][j].st # "free" /\ slots[q][k].st # "free"
                 /\ slots[q][j].at = slots[q][k].at => j = k
      BY <1>9 DEF Sound, Exact, Whole
    <3>2. \A k \in 1 .. MaxAtt :
            slots'[q][k].st # "free" => k \notin done /\ slots'[q][k] = slots[q][k]
      BY <1>3, <1>7
    <3>3. ASSUME NEW k \in (1 .. MaxAtt) \ done, slots[q][k].st # "free",
                 NEW p \in Span(slots[q][k].at, SegLen[slots[q][k].seg])
          PROVE  p \notin gone
      <4> SUFFICES ASSUME NEW j \in done, p \in Span(slots[q][j].at, SegLen[slots[q][j].seg])
                   PROVE  FALSE
        BY DEF gone
      <4>1. j \in 1 .. MaxAtt /\ j # k /\ slots[q][j].st # "free"
        BY <1>4, <3>3
      <4>2. /\ space[q][p] = [what |-> slots[q][k].seg, base |-> slots[q][k].at]
            /\ space[q][p] = [what |-> slots[q][j].seg, base |-> slots[q][j].at]
        BY <3>1, <3>3, <4>1
      <4>3. slots[q][j].at = slots[q][k].at
        BY <4>2
      <4> QED BY <3>1, <3>3, <4>1, <4>3
    <3> QED BY <1>6, <3>1, <3>2, <3>3
  <2> QED BY <2>1, <2>2, <2>3, <2>4 DEF Sound
<1>14. ASSUME NEW p \in Pages, space'[q][p] # space[q][p]
       PROVE  \E k \in 1 .. MaxAtt :
                /\ slots[q][k].st # "free" /\ slots'[q][k] # slots[q][k]
                /\ p \in Span(slots[q][k].at, SegLen[slots[q][k].seg])
  <2>1. p \in gone
    BY <1>6, <1>14
  <2>2. PICK k \in done : p \in Span(slots[q][k].at, SegLen[slots[q][k].seg])
    BY <2>1 DEF gone
  <2>3. k \in 1 .. MaxAtt /\ slots[q][k].st = "active" /\ slots'[q][k].st = "free"
    BY <1>3, <1>4, <1>7, <2>2
  <2> QED BY <2>2, <2>3
<1> QED BY <1>1, <1>2, <1>5, <1>6, <1>12, <1>13, <1>14

(* The state of the gate and of the calls stays, and the processes are as the
   invariant says: a step that is no call. *)
LEMMA StepOfGuest ==
  ASSUME AInv, NEW q \in Procs, UNCHANGED <<vars, loc, calls>>, acts' \in 0 .. MaxActs,
         slots' \in [Procs -> [1 .. MaxAtt -> Slot]], space' \in [Procs -> [Pages -> Contents]],
         spoilt' \in [Procs -> SUBSET {"torn", "bypass"}],
         \A r \in Procs \ {q} :
           slots'[r] = slots[r] /\ space'[r] = space[r] /\ spoilt'[r] = spoilt[r],
         Sound(q)'
  PROVE  AInv'
<1>1. AttType'
  BY DEF AInv, AttType, At, vars
<1>2. ASSUME NEW r \in Procs, r # q PROVE Sound(r)'
  <2>1. \A w \in Threads :
          home[w] = r \/ home'[w] = r => home'[w] = home[w] /\ loc'[w] = loc[w]
    BY DEF vars
  <2>2. Sound(r) /\ slots'[r] = slots[r] /\ space'[r] = space[r] /\ spoilt'[r] = spoilt[r]
    BY <1>2 DEF AInv
  <2> QED BY <2>1, <2>2, Elsewhere
<1> QED BY <1>1, <1>2 DEF AInv

LEMMA StaticExecAInv ==
  ASSUME IInv, AInv, NEW t \in Threads, StaticExec(t)
  PROVE  AInv'
<1>1. PICK q \in Procs : home[t] = q
  BY OnBoard DEF StaticExec, Step
<1>2. /\ UNCHANGED <<vars, loc, spoilt, calls>> /\ acts' \in 0 .. MaxActs
      /\ slots' \in [Procs -> [1 .. MaxAtt -> Slot]]
      /\ space' \in [Procs -> [Pages -> Contents]]
      /\ \A r \in Procs \ {q} : slots'[r] = slots[r] /\ space'[r] = space[r]
      /\ Sound(q)'
  BY <1>1, StaticExecIs
<1>3. spoilt' \in [Procs -> SUBSET {"torn", "bypass"}]
  BY <1>2 DEF AInv, AttType
<1> QED BY <1>1, <1>2, <1>3, StepOfGuest

LEMMA ActIs ==
  ASSUME IInv, AInv, NEW t \in Threads, Act(t)
  PROVE  home[t] \in Procs /\ acts' \in 0 .. MaxActs
<1>1. home[t] \in Procs
  BY OnBoard DEF Act, Step
<1>2. acts' \in 0 .. MaxActs
  BY AttachAssumption DEF Act, AInv, AttType
<1> QED BY <1>1, <1>2

LEMMA GuestUnmapAInv ==
  ASSUME IInv, AInv, NEW t \in Threads, NEW a \in Pages, GuestUnmap(t, a)
  PROVE  AInv'
<1>1. PICK q \in Procs : home[t] = q
  BY ActIs DEF GuestUnmap
<1>2. /\ UNCHANGED <<vars, slots, loc, calls>> /\ home' = home
      /\ acts' \in 0 .. MaxActs
      /\ space' = [space EXCEPT ![q] = Unmapped(@, Vma(q, a))]
      /\ spoilt' = [spoilt EXCEPT ![q] =
           IF space[q][a].what \in Segs THEN @ \cup {"bypass"} ELSE @]
  BY <1>1, ActIs DEF GuestUnmap, vars
<1>3. /\ slots \in [Procs -> [1 .. MaxAtt -> Slot]] /\ space \in [Procs -> [Pages -> Contents]]
      /\ loc \in [Threads -> Local] /\ spoilt \in [Procs -> SUBSET {"torn", "bypass"}]
      /\ Sound(q)
  BY DEF AInv, AttType
<1>4. /\ space' \in [Procs -> [Pages -> Contents]]
      /\ \A p \in Pages : space'[q][p] = IF p \in Vma(q, a) THEN None ELSE space[q][p]
      /\ \A r \in Procs \ {q} : space'[r] = space[r]
  BY <1>2, <1>3, UnmappedIs
<1>5. /\ spoilt' \in [Procs -> SUBSET {"torn", "bypass"}]
      /\ spoilt'[q] = IF space[q][a].what \in Segs THEN spoilt[q] \cup {"bypass"} ELSE spoilt[q]
      /\ \A r \in Procs \ {q} : spoilt'[r] = spoilt[r]
  BY <1>2, <1>3
<1>6. /\ "torn" \in spoilt'[q] <=> "torn" \in spoilt[q]
      /\ spoilt'[q] = {} => spoilt[q] = {}
      /\ "bypass" \notin spoilt'[q] =>
           "bypass" \notin spoilt[q] /\ space[q][a].what \notin Segs
  BY <1>5
<1>7. \A p \in Pages : space'[q][p].what \in Segs => space'[q][p] = space[q][p]
  BY <1>4, AttachAssumption DEF None
<1>8. "bypass" \notin spoilt'[q] =>
        \A p \in Pages : space[q][p].what \in Segs => space'[q][p] = space[q][p]
  BY <1>4, <1>6 DEF Vma
<1>9. Sound(q)'
  BY <1>2, <1>3, <1>6, <1>7, <1>8, Outside
<1> QED BY <1>2, <1>3, <1>4, <1>5, <1>9, StepOfGuest

LEMMA GuestMapAInv ==
  ASSUME IInv, AInv, NEW t \in Threads, NEW a \in Pages, NEW n \in 1 .. 2,
         NEW what \in {"file", "anon"}, GuestMap(t, a, n, what)
  PROVE  AInv'
<1>1. PICK q \in Procs : home[t] = q
  BY ActIs DEF GuestMap
<1>2. /\ UNCHANGED <<vars, slots, loc, spoilt, calls>> /\ home' = home
      /\ acts' \in 0 .. MaxActs
      /\ space' = [space EXCEPT ![q] = Mapped(@, a, n, what)]
      /\ \A p \in Span(a, n) : space[q][p] = None
  BY <1>1, ActIs DEF GuestMap, Fits, vars
<1>3. /\ slots \in [Procs -> [1 .. MaxAtt -> Slot]] /\ space \in [Procs -> [Pages -> Contents]]
      /\ loc \in [Threads -> Local] /\ spoilt \in [Procs -> SUBSET {"torn", "bypass"}]
      /\ Sound(q)
  BY DEF AInv, AttType
<1>4. /\ space' \in [Procs -> [Pages -> Contents]]
      /\ \A p \in Pages : space'[q][p] =
           IF p \in Span(a, n) THEN [what |-> what, base |-> a] ELSE space[q][p]
      /\ \A r \in Procs \ {q} : space'[r] = space[r]
  BY <1>2, <1>3, MappedIs
<1>5. what \notin Segs /\ None.what \notin Segs
  BY AttachAssumption DEF None
<1>6. \A p \in Pages : space'[q][p].what \in Segs => space'[q][p] = space[q][p]
  BY <1>4, <1>5
<1>7. \A p \in Pages : space[q][p].what \in Segs => space'[q][p] = space[q][p]
  BY <1>2, <1>4, <1>5
<1>8. Sound(q)'
  BY <1>2, <1>3, <1>6, <1>7, Outside
<1> QED BY <1>2, <1>3, <1>4, <1>8, StepOfGuest

-----------------------------------------------------------------------------
(* The invariant. *)

LEMMA InitAInv == AttInit => AInv
<1> SUFFICES ASSUME AttInit PROVE AInv
  OBVIOUS
<1>1. FreeSlot \in Slot /\ FreeSlot.st = "free" /\ None \in Contents /\ None.what \notin Segs
  BY AttachAssumption DEF FreeSlot, Slot, None, Contents
<1>2. /\ \A q \in Procs : \A k \in 1 .. MaxAtt : slots[q][k] = FreeSlot
      /\ \A q \in Procs : \A p \in Pages : space[q][p] = None
      /\ \A t \in Threads : loc[t].step = "idle"
      /\ \A q \in Procs : spoilt[q] = {}
  BY DEF AttInit, Idle
<1>3. \A t \in Threads : ~At(t, "shm")
  BY DEF AttInit, Init, At
<1>4. AttType
  BY <1>1, <1>2, <1>3, IdleLocal, AttachAssumption DEF AttInit, AttType
<1>5. ASSUME NEW q \in Procs PROVE Sound(q)
  <2>1. Attached(q) = {}
    BY <1>1, <1>2 DEF Attached
  <2> QED BY <1>1, <1>2, <2>1 DEF Sound, CallsAre, CallIs, Taking, Covered, Exact
<1> QED BY <1>4, <1>5 DEF AInv

LEMMA NextAInv == IInv /\ AInv /\ [AttNext]_allVars => AInv'
<1> SUFFICES ASSUME IInv, AInv, [AttNext]_allVars PROVE AInv'
  OBVIOUS
<1>1. CASE UNCHANGED allVars
  <2>1. AttType'
    BY <1>1 DEF AInv, AttType, At, allVars, attVars, vars
  <2>2. ASSUME NEW q \in Procs PROVE Sound(q)'
    <3>1. /\ slots'[q] = slots[q] /\ space'[q] = space[q] /\ spoilt'[q] = spoilt[q]
          /\ home' = home /\ loc' = loc /\ Sound(q)
      BY <1>1 DEF AInv, allVars, attVars, vars
    <3> QED BY <3>1, Elsewhere
  <2> QED BY <2>1, <2>2 DEF AInv
<1>2. ASSUME NEW t \in Threads, CallStep(t) PROVE AInv'
  BY <1>2, MapSegmentAInv, RecordAInv, TakeAInv, CheckAInv, UnmapAInv, LeaveAInv DEF CallStep
<1>3. ASSUME NEW t \in Threads, GuestActs(t) PROVE AInv'
  BY <1>3, GuestUnmapAInv, GuestMapAInv DEF GuestActs
<1> QED BY <1>1, <1>2, <1>3, EnterAInv, ForkAInv, StaticExecAInv DEF AttNext

LEMMA AttAInv == AttSpec => [](IInv /\ AInv)
<1>1. AttInit => IInv
  BY AttInitGate, InitIInv
<1>2. IInv /\ [AttNext]_allVars => IInv'
  BY AttNextGate, NextIInv
<1> QED BY <1>1, <1>2, InitAInv, NextAInv, PTL DEF AttSpec

-----------------------------------------------------------------------------
(* The table and the memory. *)

(* Nobody of q is inside the layer: no call of q is under way. *)
LEMMA NoCall ==
  ASSUME AInv, NEW q \in Procs, Inside(q) = {}
  PROVE  \A t \in Threads : home[t] = q => loc[t].step = "idle"
BY DEF AInv, AttType, At, Inside

LEMMA IsTracked == AInv => Tracked
<1> SUFFICES ASSUME AInv, NEW q \in Procs, Quiet(q), "torn" \notin spoilt[q]
             PROVE  /\ \A k \in 1 .. MaxAtt : slots[q][k].st # "detaching"
                    /\ \A p \in Attached(q) : \E k \in 1 .. MaxAtt :
                         slots[q][k] = [st |-> "active", at |-> p, seg |-> space[q][p].what]
  BY DEF Tracked
<1>1. Sound(q) /\ \A t \in Threads : home[t] = q => loc[t].step = "idle"
  BY NoCall DEF AInv, Quiet
<1>2. \A k \in 1 .. MaxAtt : slots[q][k].st # "detaching"
  BY <1>1 DEF Sound, Taking
<1>3. ASSUME NEW p \in Attached(q)
      PROVE  \E k \in 1 .. MaxAtt :
               slots[q][k] = [st |-> "active", at |-> p, seg |-> space[q][p].what]
  <2>1. PICK k \in 1 .. MaxAtt :
          slots[q][k].st # "free" /\ slots[q][k].at = p /\ slots[q][k].seg = space[q][p].what
    BY <1>1 DEF Sound, Covered
  <2>2. slots[q][k] \in Slot
    BY DEF AInv, AttType
  <2>3. slots[q][k].st = "active" /\
        slots[q][k] = [st |-> slots[q][k].st, at |-> slots[q][k].at, seg |-> slots[q][k].seg]
    BY <1>2, <2>1, <2>2, SlotIs
  <2> QED BY <2>1, <2>3
<1> QED BY <1>2, <1>3

(* Entries and attachments are one to one. *)
LEMMA IsNattchTrue == AInv => NattchTrue
<1> SUFFICES ASSUME AInv, NEW q \in Procs, Quiet(q), spoilt[q] = {}, NEW s \in Segs
             PROVE  Nattch(q, s) = Cardinality({p \in Attached(q) : space[q][p].what = s})
  BY DEF NattchTrue
<1> DEFINE K == {k \in 1 .. MaxAtt : slots[q][k].st = "active" /\ slots[q][k].seg = s}
           P == {p \in Attached(q) : space[q][p].what = s}
           f == [k \in K |-> slots[q][k].at]
<1>1. /\ \A k \in 1 .. MaxAtt : slots[q][k].st # "free" =>
           \A p \in Span(slots[q][k].at, SegLen[slots[q][k].seg]) :
             p \in Pages /\ space[q][p] = [what |-> slots[q][k].seg, base |-> slots[q][k].at]
      /\ \A j, k \in 1 .. MaxAtt :
           slots[q][j].st # "free" /\ slots[q][k].st # "free"
             /\ slots[q][j].at = slots[q][k].at => j = k
  BY DEF AInv, Sound, Exact, Whole
<1>2. \A k \in K : f[k] \in P
  <2> SUFFICES ASSUME NEW k \in K PROVE slots[q][k].at \in P
    OBVIOUS
  <2>1. slots[q][k].st # "free" /\ slots[q][k].seg = s /\ slots[q][k] \in Slot
    BY DEF AInv, AttType
  <2>2. slots[q][k].at \in Pages
    BY <2>1, SlotIs
  <2>3. slots[q][k].at \in Span(slots[q][k].at, SegLen[slots[q][k].seg])
    BY <2>1, <2>2, SpanHasFirst
  <2>4. space[q][slots[q][k].at] = [what |-> s, base |-> slots[q][k].at]
    BY <1>1, <2>1, <2>3
  <2> QED BY <2>2, <2>4 DEF Attached
<1>3. \A j, k \in K : f[j] = f[k] => j = k
  BY <1>1
<1>4. \A p \in P : \E k \in K : f[k] = p
  <2> SUFFICES ASSUME NEW p \in P PROVE \E k \in K : slots[q][k].at = p
    OBVIOUS
  <2>1. "torn" \notin spoilt[q] /\ p \in Attached(q) /\ space[q][p].what = s
    OBVIOUS
  <2>2. PICK k \in 1 .. MaxAtt : slots[q][k] = [st |-> "active", at |-> p, seg |-> s]
    BY <2>1, IsTracked DEF Tracked
  <2> QED BY <2>2
<1>5. f \in Bijection(K, P)
  BY <1>2, <1>3, <1>4 DEF Bijection, Injection, Surjection, IsInjective
<1>6. IsFiniteSet(K)
  <2>1. IsFiniteSet(1 .. MaxAtt)
    BY AttachAssumption, FS_Interval
  <2> QED BY <2>1, FS_Subset
<1> HIDE DEF f, K, P
<1>7. ExistsBijection(K, P)
  BY <1>5 DEF ExistsBijection
<1>8. Cardinality(K) = Cardinality(P)
  BY <1>6, <1>7, FS_Bijection
<1> QED BY <1>8 DEF Nattch, K, P

(* Whenever nobody is inside the layer the table is what the process has: nothing
   attached is missing from it, nothing is stuck half way out, and nattch counts
   the attachments, in every process with any number of threads and children
   (sysvshm.c:827-896, 1075-1148). *)
THEOREM AttachTableTrue == AttSpec => []TableTrue
<1>1. AInv => AttTypeOK
  BY DEF AInv, AttType, AttTypeOK, Local
<1>2. AInv => TableTrue
  BY <1>1, IsTracked, IsNattchTrue DEF TableTrue
<1> QED BY AttAInv, <1>2, PTL

(* After shmdt the address is no longer attached, whatever the answer was, except
   when munmap failed (sysvshm.c:1108-1148). *)
THEOREM AttachDetachRight == AttSpec => []DetachRight
<1>1. IInv /\ AInv => DetachRight
  <2> SUFFICES ASSUME IInv, AInv, NEW t \in Threads, Step(t, "done"), loc[t].op = "dt",
                      loc[t].res # "failed", spoilt[home[t]] = {}
               PROVE  loc[t].arg \notin Attached(home[t])
    BY DEF DetachRight
  <2>1. PICK q \in Procs : home[t] = q
    BY OnBoard DEF Step
  <2>2. CallIs(q, t)
    BY <2>1 DEF AInv, Sound, CallsAre
  <2> QED BY <2>1, <2>2 DEF CallIs, Step
<1> QED BY AttAInv, <1>1, PTL

-----------------------------------------------------------------------------
(* What a step may never do. *)

(* A step of a call changes the locals of its thread and of no other. *)
LEMMA CallChanges ==
  ASSUME AInv, NEW t \in Threads, CallStep(t) \/ \E op \in Ops : \E arg \in Args(op) : Enter(t, op, arg)
  PROVE  /\ \A u \in Threads \ {t} : loc'[u] = loc[u]
         /\ loc'[t].step # loc[t].step
<1>1. loc \in [Threads -> Local]
  BY DEF AInv, AttType
<1>2. loc[t] \in Local
  BY <1>1
<1>3. CASE MapSegment(t)
  BY <1>1, <1>2, <1>3 DEF MapSegment, InCall, Step, Finish, Local
<1>4. CASE Record(t)
  BY <1>1, <1>2, <1>4 DEF Record, InCall, Step, Finish, Local
<1>5. CASE Take(t)
  <2>1. /\ loc[t].step = "in"
        /\ \/ \E k : loc' = [loc EXCEPT ![t].step = "taken", ![t].pos = k]
           \/ \E r : loc' = [loc EXCEPT ![t].step = "done", ![t].res = r]
    BY <1>5 DEF Take, InCall, Step, Finish
  <2> QED BY <1>1, <1>2, <2>1 DEF Local
<1>6. CASE Check(t) \/ Unmap(t)
  BY <1>1, <1>2, <1>6 DEF Check, Unmap, InCall, Step, Finish, Local
<1>7. CASE Leave(t)
  BY <1>1, <1>7 DEF Leave, Step, Idle
<1>8. ASSUME NEW op \in Ops, NEW arg \in Args(op), Enter(t, op, arg)
      PROVE  /\ \A u \in Threads \ {t} : loc'[u] = loc[u]
             /\ loc'[t].step # loc[t].step
  BY <1>1, <1>8 DEF Enter, Step, Idle
<1> QED BY <1>3, <1>4, <1>5, <1>6, <1>7, <1>8 DEF CallStep

(* A birth changes who is where; an act of the program is counted. *)
LEMMA OthersChange ==
  ASSUME IInv, AInv, NEW t \in Threads, ForkStep(t) \/ ForkUnseen(t) \/ GuestActs(t)
  PROVE  /\ loc' = loc
         /\ home' # home \/ acts' # acts \/ UNCHANGED <<slots, space>>
<1>1. CASE (ForkBegin(t) \/ RealForkFails(t) \/ ForkChild(t) \/ ForkEnd(t)) /\ UNCHANGED attVars
  BY <1>1 DEF attVars
<1>2. ASSUME NEW u \in Threads, NEW q \in Procs, NEW marks, Copied(t, q, marks),
             RealFork(t, u, q) \/ HiddenFork(t, u, q) \/ RawClone(t, u, q)
      PROVE  loc' = loc /\ home' # home
  <2>1. PICK kind : Birth(t, u, q, kind)
    BY <1>2 DEF RealFork, HiddenFork, RawClone
  <2>2. home[u] = NoProc /\ home' = [home EXCEPT ![u] = q] /\ q # NoProc
    BY <2>1, GateAssumption DEF Birth
  <2> QED BY <1>2, <2>2 DEF Copied, IInv, TypeOK
<1>3. CASE GuestActs(t)
  BY <1>3 DEF GuestActs, GuestUnmap, GuestMap, Act, AInv, AttType
<1>4. CASE ForkUnseen(t)
  BY <1>2, <1>4 DEF ForkUnseen
<1> QED BY <1>1, <1>2, <1>3, <1>4 DEF ForkStep

(* What a step of a call takes from the memory of its process. *)
LEMMA CallTakesOwn ==
  ASSUME IInv, AInv, NEW t \in Threads, CallStep(t), NEW q \in Procs, NEW p \in Pages,
         Lost(q, p), "bypass" \notin spoilt[q]
  PROVE  \/ \E k \in 1 .. MaxAtt :
              /\ slots[q][k].st # "free" /\ slots'[q][k] # slots[q][k]
              /\ space[q][p] = [what |-> slots[q][k].seg, base |-> slots[q][k].at]
         \/ /\ Step(t, "mapped") /\ home[t] = q
            /\ space[q][p] = [what |-> loc[t].arg, base |-> loc[t].pos]
<1>1. /\ slots \in [Procs -> [1 .. MaxAtt -> Slot]] /\ space \in [Procs -> [Pages -> Contents]]
      /\ Sound(q) /\ space[q][p] # None /\ space'[q][p] = None
  BY DEF AInv, AttType, Lost
<1>2. Exact(q)
  BY <1>1 DEF Sound
<1>3. loc[t].step # "idle" /\ home[t] \in Procs
  BY OnBoard DEF CallStep, MapSegment, Record, Take, Check, Unmap, Leave, InCall, Step
<1>4. PICK r \in Procs : home[t] = r
  BY <1>3
<1>5. CASE MapSegment(t)
  <2>1. PICK s : loc[t].arg = s
    OBVIOUS
  <2>2. s \in Segs
    BY <1>3, <1>4, <1>5, <2>1, CallOperands DEF MapSegment, InCall, Args
  <2>3. PICK a \in Pages : space' = [space EXCEPT ![r] = Mapped(@, a, SegLen[s], s)]
    BY <1>1, <1>4, <1>5, <2>1 DEF MapSegment
  <2>4. space[r] \in [Pages -> Contents] /\ s # "none"
    BY <1>1, <2>2, AttachAssumption
  <2>5. space'[r][p] = None => space[r][p] = None
    <3>1. Mapped(space[r], a, SegLen[s], s)[p] =
            IF p \in Span(a, SegLen[s]) THEN [what |-> s, base |-> a] ELSE space[r][p]
      BY <2>2, <2>3, <2>4, MappedIs
    <3>2. [what |-> s, base |-> a] # None
      BY <2>4 DEF None
    <3> QED BY <1>1, <2>3, <3>1, <3>2
  <2>6. r # q => space'[q] = space[q]
    BY <1>1, <2>3
  <2> QED BY <1>1, <2>5, <2>6
<1>6. CASE Record(t)
  <2>1. PICK a, s : loc[t].pos = a /\ loc[t].arg = s
    OBVIOUS
  <2>2. Step(t, "mapped") /\ space' = [space EXCEPT ![r] = Unmapped(@, Span(a, SegLen[s]))]
    BY <1>1, <1>4, <1>6, <2>1 DEF Record, InCall
  <2>3. q = r /\ p \in Span(a, SegLen[s])
    <3>1. q = r
      BY <1>1, <2>2
    <3> QED BY <1>1, <2>2, <3>1, UnmappedIs
  <2>4. Whole(q, s, a)
    BY <1>2, <1>4, <2>1, <2>2, <2>3 DEF Exact, Step
  <2> QED BY <1>4, <2>1, <2>2, <2>3, <2>4 DEF Whole
<1>7. CASE Unmap(t)
  <2>1. PICK a, k0 : loc[t].arg = a /\ loc[t].pos = k0
    OBVIOUS
  <2>2. loc[t].step = "checked" /\ CallIs(r, t)
    BY <1>3, <1>4, <1>7, CallOperands DEF Unmap, InCall, Step
  <2>3. k0 \in 1 .. MaxAtt /\ slots[r][k0].st = "detaching" /\ slots[r][k0] \in Slot
    BY <1>1, <2>1, <2>2 DEF CallIs
  <2>4. /\ space' = [space EXCEPT ![r] =
               Unmapped(@, Span(slots[r][k0].at, SegLen[slots[r][k0].seg]))]
        /\ slots' = [slots EXCEPT ![r][k0] = FreeSlot]
    BY <1>1, <1>4, <1>7, <2>1 DEF Unmap
  <2>5. q = r
    BY <1>1, <2>4
  <2>6. p \in Span(slots[q][k0].at, SegLen[slots[q][k0].seg])
    BY <1>1, <2>4, <2>5, UnmappedIs
  <2>7. space[q][p] = [what |-> slots[q][k0].seg, base |-> slots[q][k0].at]
    BY <1>2, <2>3, <2>5, <2>6 DEF Exact, Whole
  <2>8. slots'[q][k0].st = "free"
    BY <1>1, <2>3, <2>4, <2>5 DEF FreeSlot
  <2> QED BY <2>3, <2>5, <2>7, <2>8
<1>8. CASE Take(t) \/ Check(t) \/ Leave(t)
  BY <1>1, <1>8 DEF Take, Check, Leave
<1> QED BY <1>5, <1>6, <1>7, <1>8 DEF CallStep

(* Whatever shmdt, a shmat without room and exec unmap belongs to an attachment of
   the process, whoever maps memory or forks between the look at the table, the
   test of the pages and munmap: a stale entry that could take somebody else's
   pages exists only where the program unmapped a segment itself
   (sysvshm.c:1090-1150, 1191-1210). *)
THEOREM AttachUnmapsOwn == AttSpec => UnmapsOwn
<1>1. ASSUME IInv, AInv, [AttNext]_allVars
      PROVE  [\A q \in Procs, p \in Pages :
                ~Newborn(q) /\ Lost(q, p) /\ <<slots, loc>>' # <<slots, loc>>
                  /\ "bypass" \notin spoilt[q] =>
                  \/ \E k \in 1 .. MaxAtt :
                       /\ slots[q][k].st # "free" /\ slots'[q][k] # slots[q][k]
                       /\ space[q][p] = [what |-> slots[q][k].seg, base |-> slots[q][k].at]
                  \/ \E t \in Threads :
                       /\ Step(t, "mapped") /\ home[t] = q
                       /\ space[q][p] = [what |-> loc[t].arg, base |-> loc[t].pos]]_allVars
  <2> SUFFICES ASSUME AttNext, NEW q \in Procs, NEW p \in Pages, ~Newborn(q), Lost(q, p),
                      <<slots, loc>>' # <<slots, loc>>, "bypass" \notin spoilt[q]
               PROVE  \/ \E k \in 1 .. MaxAtt :
                           /\ slots[q][k].st # "free" /\ slots'[q][k] # slots[q][k]
                           /\ space[q][p] = [what |-> slots[q][k].seg, base |-> slots[q][k].at]
                      \/ \E t \in Threads :
                           /\ Step(t, "mapped") /\ home[t] = q
                           /\ space[q][p] = [what |-> loc[t].arg, base |-> loc[t].pos]
    BY <1>1
  <2>1. PICK u \in Threads :
          \/ \E op \in Ops : \E arg \in Args(op) : Enter(u, op, arg)
          \/ CallStep(u)
          \/ ForkStep(u) \/ ForkUnseen(u) \/ StaticExec(u) \/ GuestActs(u)
    BY DEF AttNext
  <2>2. space[q][p] # None /\ space'[q][p] = None
    BY DEF Lost
  <2>3. CASE \E op \in Ops : \E arg \in Args(op) : Enter(u, op, arg)
    BY <2>2, <2>3 DEF Enter
  <2>4. CASE CallStep(u)
    BY <1>1, <2>4, CallTakesOwn
  <2>5. CASE ForkStep(u) \/ ForkUnseen(u)
    <3>1. ASSUME NEW w \in Threads, NEW r \in Procs, NEW marks, Copied(u, r, marks),
                 RealFork(u, w, r) \/ HiddenFork(u, w, r) \/ RawClone(u, w, r)
          PROVE  FALSE
      <4>1. Newborn(r)
        BY <3>1 DEF RealFork, HiddenFork, RawClone, Birth
      <4>2. space'[q] = space[q]
        BY <1>1, <3>1, <4>1 DEF Copied, AInv, AttType
      <4> QED BY <2>2, <4>2
    <3>2. ~UNCHANGED attVars
      BY <2>2 DEF attVars
    <3> QED BY <2>5, <3>1, <3>2 DEF ForkStep, ForkUnseen
  <2>6. CASE StaticExec(u)
    <3>1. PICK r \in Procs : home[u] = r
      BY <1>1, <2>6, OnBoard DEF StaticExec, Step
    <3>2. \A x \in Procs \ {r} : space'[x] = space[x]
      BY <1>1, <2>6, <3>1, StaticExecIs
    <3>3. q = r
      BY <2>2, <3>2
    <3>4. PICK k \in 1 .. MaxAtt :
            /\ slots[q][k].st # "free" /\ slots'[q][k] # slots[q][k]
            /\ p \in Span(slots[q][k].at, SegLen[slots[q][k].seg])
      BY <1>1, <2>2, <2>6, <3>1, <3>3, StaticExecIs
    <3>5. Exact(q)
      BY <1>1 DEF AInv, Sound
    <3> QED BY <3>4, <3>5 DEF Exact, Whole
  <2>7. CASE GuestActs(u)
    BY <2>7 DEF GuestActs, GuestUnmap, GuestMap
  <2> QED BY <2>1, <2>3, <2>4, <2>5, <2>6, <2>7
<1> QED BY AttAInv, <1>1, PTL DEF AttSpec, UnmapsOwn

(* A static program started in place finds no segment attached and an empty table,
   whatever the program before it had, unless munmap refused (sysvshm.c:1191-1210). *)
THEOREM AttachExecDetaches == AttSpec => ExecDetaches
<1>1. ASSUME IInv, AInv, [AttNext]_allVars
      PROVE  [\A q \in Procs :
                /\ UNCHANGED <<vars, loc, acts>>
                /\ <<slots, space>>' # <<slots, space>>
                /\ "torn" \notin spoilt[q] /\ (slots'[q] # slots[q] \/ space'[q] # space[q])
                => Attached(q)' = {} /\ \A k \in 1 .. MaxAtt : slots'[q][k] = FreeSlot]_allVars
  <2> SUFFICES ASSUME AttNext, NEW q \in Procs, UNCHANGED <<vars, loc, acts>>,
                      "torn" \notin spoilt[q], slots'[q] # slots[q] \/ space'[q] # space[q]
               PROVE  Attached(q)' = {} /\ \A k \in 1 .. MaxAtt : slots'[q][k] = FreeSlot
    BY <1>1
  <2>1. PICK u \in Threads :
          \/ \E op \in Ops : \E arg \in Args(op) : Enter(u, op, arg)
          \/ CallStep(u)
          \/ ForkStep(u) \/ ForkUnseen(u) \/ StaticExec(u) \/ GuestActs(u)
    BY DEF AttNext
  <2>2. CASE ForkStep(u) \/ ForkUnseen(u) \/ GuestActs(u)
    BY <1>1, <2>2, OthersChange DEF vars
  <2>3. CASE CallStep(u) \/ \E op \in Ops : \E arg \in Args(op) : Enter(u, op, arg)
    BY <1>1, <2>3, CallChanges
  <2>4. CASE StaticExec(u)
    <3>1. PICK p \in Procs : home[u] = p
      BY <1>1, <2>4, OnBoard DEF StaticExec, Step
    <3>2. \A r \in Procs \ {p} : slots'[r] = slots[r] /\ space'[r] = space[r]
      BY <1>1, <2>4, <3>1, StaticExecIs
    <3>3. p = q
      BY <3>2
    <3>4. "torn" \notin spoilt[q] /\ acts' = acts =>
            Attached(q)' = {} /\ \A k \in 1 .. MaxAtt : slots'[q][k] = FreeSlot
      BY <1>1, <2>4, <3>1, <3>3, StaticExecIs
    <3> QED BY <3>4
  <2> QED BY <2>1, <2>2, <2>3, <2>4
<1> QED BY AttAInv, <1>1, PTL DEF AttSpec, ExecDetaches
=============================================================================
