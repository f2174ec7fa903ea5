----------------------------- MODULE ShmAttach -----------------------------
(***************************************************************************)
(* shmat and shmdt behind the gate of ShmGate: the table of attachments of *)
(* a process (g_att) beside the mappings the process really has.  fork()   *)
(* copies both; the program unmaps and maps memory without telling; a      *)
(* static program started in place inherits the memory.                    *)
(***************************************************************************)
EXTENDS ShmGate

CONSTANTS
  Segs,             (* ids of segments                                     *)
  SegLen,           (* pages of each segment                               *)
  Pages,            (* 1 .. n: the addresses at which segments can go      *)
  MaxAtt,           (* SHM_MAX_ATT                                         *)
  MaxCalls,         (* shared memory calls of all processes together       *)
  Meddlers,         (* processes whose programs act behind the layer       *)
  MaxActs,          (* such acts, and refusals of munmap at exec           *)
  MaxDeeds          (* calls and acts together                             *)

ASSUME AttachAssumption ==
  /\ Pages \subseteq Nat
  /\ SegLen \in [Segs -> Nat \ {0}]
  /\ MaxAtt \in Nat \ {0} /\ MaxActs \in Nat
  /\ MaxCalls \in Nat /\ MaxDeeds \in Nat
  /\ {"file", "anon", "none"} \cap Segs = {}

None == [what |-> "none", base |-> 0]

Contents == [what : Segs \cup {"file", "anon"}, base : Pages] \cup {None}

FreeSlot == [st |-> "free", at |-> 0, seg |-> "none"]

Slot == [st : {"active", "detaching"}, at : Pages, seg : Segs] \cup {FreeSlot}

Idle == [op |-> "none", step |-> "idle", arg |-> 0, pos |-> 0, res |-> "none"]

Steps == {"idle", "in", "mapped", "taken", "checked", "done"}

VARIABLES
  slots,   (* g_att of each process                                        *)
  space,   (* space[q][p]: the mapping that page p of q belongs to         *)
  loc,     (* the call each thread is in: C locals                         *)
  spoilt,  (* ghost: born beside a call, or unmapped a segment by itself   *)
  calls,   (* shared memory calls so far, bounded by MaxCalls              *)
  acts     (* acts so far, bounded by MaxActs                              *)

attVars == <<slots, space, loc, spoilt, calls, acts>>
allVars == <<vars, attVars>>

AttTypeOK ==
  /\ slots \in [Procs -> [1 .. MaxAtt -> Slot]]
  /\ space \in [Procs -> [Pages -> Contents]]
  /\ \A t \in Threads :
       /\ loc[t].step \in Steps
       /\ loc[t].step # "idle" <=> At(t, "shm")
  /\ spoilt \in [Procs -> SUBSET {"torn", "bypass"}]
  /\ calls \in 0 .. MaxCalls /\ acts \in 0 .. MaxActs

AttInit ==
  /\ Init
  /\ slots = [q \in Procs |-> [k \in 1 .. MaxAtt |-> FreeSlot]]
  /\ space = [q \in Procs |-> [p \in Pages |-> None]]
  /\ loc = [t \in Threads |-> Idle]
  /\ spoilt = [q \in Procs |-> {}]
  /\ calls = 0 /\ acts = 0

Step(t, s) == loc[t].step = s /\ home[t] # NoProc

Span(a, n) == a .. a + n - 1

Unmapped(m, ps) == [p \in Pages |-> IF p \in ps THEN None ELSE m[p]]

Mapped(m, a, n, what) ==
  [p \in Pages |-> IF p \in Span(a, n) THEN [what |-> what, base |-> a] ELSE m[p]]

Fits(m, a, n) == Span(a, n) \subseteq Pages /\ \A p \in Span(a, n) : m[p] = None

(* The pages of q that belong to the same mapping as page a. *)
Vma(q, a) == {p \in Pages : space[q][p] = space[q][a]}

(* Where segments begin in q. *)
Attached(q) == {p \in Pages : space[q][p].what \in Segs /\ space[q][p].base = p}

-----------------------------------------------------------------------------
(* bxroot_sysvshm_emulate *)

Ops == {"at", "dt"}

Args(op) == IF op = "at" THEN Segs ELSE Pages

(* A call that finds the gate closed, or the anchor of the directory invalid,
   changes nothing. *)
Enter(t, op, arg) ==
  /\ Step(t, "idle")
  /\ EmulateBegin(t)
  /\ calls < MaxCalls /\ calls + acts < MaxDeeds /\ calls' = calls + 1
  /\ loc' = [loc EXCEPT ![t] = [Idle EXCEPT !.op = op, !.arg = arg, !.step = "in"]]
  /\ UNCHANGED <<slots, space, spoilt, acts>>

Finish(t, r) == loc' = [loc EXCEPT ![t].step = "done", ![t].res = r]

Leave(t) ==
  /\ Step(t, "done")
  /\ EmulateEnd(t)
  /\ loc' = [loc EXCEPT ![t] = Idle]
  /\ UNCHANGED <<slots, space, spoilt, calls, acts>>

InCall(t, op, s) == Step(t, s) /\ loc[t].op = op /\ UNCHANGED vars

-----------------------------------------------------------------------------
(* shmat and shmdt *)

(* shm_do_at up to mmap: the segment is opened and mapped where the kernel
   likes, or one of the calls fails. *)
MapSegment(t) ==
  LET q == home[t]
      s == loc[t].arg
  IN
  /\ InCall(t, "at", "in")
  /\ \/ /\ \E a \in Pages :
             /\ Fits(space[q], a, SegLen[s])
             /\ space' = [space EXCEPT ![q] = Mapped(@, a, SegLen[s], s)]
             /\ loc' = [loc EXCEPT ![t].step = "mapped", ![t].pos = a]
     \/ Finish(t, "failed") /\ UNCHANGED space
  /\ UNCHANGED <<slots, spoilt, calls, acts>>

FirstSlot(q, ks) == CHOOSE k \in ks : \A j \in ks : k <= j

(* shm_att_add; if the table is full the mapping is taken back. *)
Record(t) ==
  LET q == home[t]
      a == loc[t].pos
      s == loc[t].arg
      room == {k \in 1 .. MaxAtt : slots[q][k].st = "free"}
  IN
  /\ InCall(t, "at", "mapped")
  /\ \/ /\ room # {}
        /\ slots' = [slots EXCEPT ![q][FirstSlot(q, room)] =
                       [st |-> "active", at |-> a, seg |-> s]]
        /\ Finish(t, "ok")
        /\ UNCHANGED space
     \/ /\ room = {}
        /\ space' = [space EXCEPT ![q] = Unmapped(@, Span(a, SegLen[s]))]
        /\ Finish(t, "failed")
        /\ UNCHANGED slots
  /\ UNCHANGED <<spoilt, calls, acts>>

(* shm_att_take: the first attachment recorded at the address. *)
Take(t) ==
  LET q == home[t]
      ks == {k \in 1 .. MaxAtt : slots[q][k].st = "active" /\ slots[q][k].at = loc[t].arg}
      k == FirstSlot(q, ks)
  IN
  /\ InCall(t, "dt", "in")
  /\ \/ /\ ks # {}
        /\ slots' = [slots EXCEPT ![q][k].st = "detaching"]
        /\ loc' = [loc EXCEPT ![t].step = "taken", ![t].pos = k]
     \/ ks = {} /\ Finish(t, "EINVAL") /\ UNCHANGED slots
  /\ UNCHANGED <<space, spoilt, calls, acts>>

(* Seeded fault: the answer is read the wrong way round. *)
KnownForeignInverted(q, r) == space[q][r.at].what = r.seg

(* shm_map_is_seg says no: /proc/self/map_files has an entry for exactly these
   pages, of another file.  It has none for anonymous memory, none if the bounds
   differ, and may not be readable at all. *)
KnownForeign(q, r) ==
  LET a == r.at
  IN
  /\ space[q][a].what \in (Segs \cup {"file"}) \ {r.seg}
  /\ Vma(q, a) = Span(a, SegLen[r.seg])

(* shm_do_dt looks whose the pages are: an entry of memory known to be another's
   is dropped. *)
Check(t) ==
  LET q == home[t]
      k == loc[t].pos
  IN
  /\ InCall(t, "dt", "taken")
  /\ \/ /\ KnownForeign(q, slots[q][k])
        /\ slots' = [slots EXCEPT ![q][k] = FreeSlot]
        /\ Finish(t, "EINVAL")
     \/ /\ ~KnownForeign(q, slots[q][k])
        /\ loc' = [loc EXCEPT ![t].step = "checked"]
        /\ UNCHANGED slots
  /\ UNCHANGED <<space, spoilt, calls, acts>>

(* Seeded fault: the entry stays when the mapping is gone. *)
UnmapKeepsSlot(t) ==
  LET q == home[t]
      r == slots[q][loc[t].pos]
  IN
  /\ InCall(t, "dt", "checked")
  /\ space' = [space EXCEPT ![q] = Unmapped(@, Span(r.at, SegLen[r.seg]))]
  /\ slots' = [slots EXCEPT ![q][loc[t].pos].st = "active"]
  /\ Finish(t, "ok")
  /\ UNCHANGED <<spoilt, calls, acts>>

(* The rest of shm_do_dt: whatever is at the address by now is unmapped, or all
   stays attached if munmap fails. *)
Unmap(t) ==
  LET q == home[t]
      k == loc[t].pos
      r == slots[q][k]
  IN
  /\ InCall(t, "dt", "checked")
  /\ \/ /\ space' = [space EXCEPT ![q] = Unmapped(@, Span(r.at, SegLen[r.seg]))]
        /\ slots' = [slots EXCEPT ![q][k] = FreeSlot]
        /\ Finish(t, "ok")
     \/ /\ slots' = [slots EXCEPT ![q][k].st = "active"]
        /\ Finish(t, "failed")
        /\ UNCHANGED space
  /\ UNCHANGED <<spoilt, calls, acts>>

(* shm_att_count, the nattch of IPC_STAT. *)
Nattch(q, s) ==
  Cardinality({k \in 1 .. MaxAtt : slots[q][k].st = "active" /\ slots[q][k].seg = s})

-----------------------------------------------------------------------------
(* fork and exec *)

(* The memory of home[t] is copied to q. *)
Copied(t, q, marks) ==
  LET p == home[t]
  IN
  /\ slots' = [slots EXCEPT ![q] = slots[p]]
  /\ space' = [space EXCEPT ![q] = space[p]]
  /\ spoilt' = [spoilt EXCEPT ![q] = spoilt[p] \cup marks]
  /\ UNCHANGED <<loc, calls, acts>>

(* fork() of the wrapper, which holds the gate, and of its child. *)
ForkStep(t) ==
  /\ Step(t, "idle")
  /\ \/ (ForkBegin(t) \/ RealForkFails(t) \/ ForkChild(t) \/ ForkEnd(t)) /\ UNCHANGED attVars
     \/ \E u \in Threads, q \in Procs : RealFork(t, u, q) /\ Copied(t, q, {})

(* Forks that do not ask the gate. *)
ForkUnseen(t) ==
  LET marks == IF Inside(home[t]) = {} THEN {} ELSE {"torn"}
  IN
  /\ Step(t, "idle")
  /\ \E u \in Threads, q \in Procs :
       (HiddenFork(t, u, q) \/ RawClone(t, u, q)) /\ Copied(t, q, marks)

(* Seeded fault: entries are not freed. *)
StaticExecKeeps(t) ==
  LET q == home[t]
      active == {k \in 1 .. MaxAtt : slots[q][k].st = "active"}
  IN
  /\ At(t, "run") /\ Step(t, "idle")
  /\ \A u \in Threads \ {t} : home[u] # q
  /\ space' = [space EXCEPT ![q] =
       Unmapped(@, UNION {Span(slots[q][k].at, SegLen[slots[q][k].seg]) : k \in active})]
  /\ UNCHANGED <<vars, slots, loc, spoilt, calls, acts>>

(* bxroot_sysvshm_exec_reset, when the only thread of q starts a static program
   in place: active entries are unmapped, whatever is there now.  Where munmap
   refuses, the entry and its pages stay; the refusal counts as an act. *)
StaticExec(t) ==
  LET q == home[t]
      active == {k \in 1 .. MaxAtt : slots[q][k].st = "active"}
  IN
  /\ At(t, "run") /\ Step(t, "idle")
  /\ \A u \in Threads \ {t} : home[u] # q
  /\ \E done \in SUBSET active :
       /\ space' = [space EXCEPT ![q] =
            Unmapped(@, UNION {Span(slots[q][k].at, SegLen[slots[q][k].seg]) : k \in done})]
       /\ slots' = [slots EXCEPT ![q] =
            [k \in 1 .. MaxAtt |-> IF k \in done THEN FreeSlot ELSE slots[q][k]]]
       /\ \/ done = active /\ UNCHANGED acts
          \/ /\ done # active
             /\ acts < MaxActs /\ calls + acts < MaxDeeds /\ acts' = acts + 1
  /\ UNCHANGED <<vars, loc, spoilt, calls>>

-----------------------------------------------------------------------------
(* Behind the layer's back *)

Act(t) ==
  /\ home[t] \in Meddlers /\ At(t, "run") /\ Step(t, "idle")
  /\ acts < MaxActs /\ calls + acts < MaxDeeds /\ acts' = acts + 1

GuestUnmap(t, a) ==
  LET q == home[t]
  IN
  /\ Act(t)
  /\ space[q][a] # None
  /\ space' = [space EXCEPT ![q] = Unmapped(@, Vma(q, a))]
  /\ spoilt' = [spoilt EXCEPT ![q] = IF space[q][a].what \in Segs THEN @ \cup {"bypass"} ELSE @]
  /\ UNCHANGED <<vars, slots, loc, calls>>

GuestMap(t, a, n, what) ==
  /\ Act(t)
  /\ Fits(space[home[t]], a, n)
  /\ space' = [space EXCEPT ![home[t]] = Mapped(@, a, n, what)]
  /\ UNCHANGED <<vars, slots, loc, spoilt, calls>>

GuestActs(t) ==
  \/ \E a \in Pages : GuestUnmap(t, a)
  \/ \E a \in Pages, n \in 1 .. 2, what \in {"file", "anon"} : GuestMap(t, a, n, what)

-----------------------------------------------------------------------------
CallStep(t) ==
  MapSegment(t) \/ Record(t) \/ Take(t) \/ Check(t) \/ Unmap(t) \/ Leave(t)

AttNext ==
  \E t \in Threads :
    \/ \E op \in Ops : \E arg \in Args(op) : Enter(t, op, arg)
    \/ CallStep(t)
    \/ ForkStep(t) \/ ForkUnseen(t) \/ StaticExec(t) \/ GuestActs(t)

CallGoesOn(t) == CallStep(t) \/ (~At(t, "run") /\ ForkStep(t))

(* A thread in a call goes on. *)
AttSpec ==
  AttInit /\ [][AttNext]_allVars
  /\ \A t \in Threads : WF_allVars(CallGoesOn(t))

-----------------------------------------------------------------------------
(* Properties *)

(* Seen from the gate, these calls and forks are those of ShmGate, so what is
   proved of ShmGate holds of them. *)
ImplementsGate == Init /\ [][Next]_vars

(* And the gate opens again, also when the call ends in an error. *)
GateKept == ImplementsGate /\ GateOpens

Quiet(q) == ~Newborn(q) /\ Inside(q) = {}

(* Nothing a process has attached is ever lost from its table, and no entry is
   stuck half way: also in a child, for fork() waits for no call to end but does
   not begin in the midst of one.  (A child made by libc or by clone(2) as such,
   while another thread is in a call, is the exception.) *)
Tracked ==
  \A q \in Procs : Quiet(q) /\ "torn" \notin spoilt[q] =>
    /\ \A k \in 1 .. MaxAtt : slots[q][k].st # "detaching"
    /\ \A p \in Attached(q) : \E k \in 1 .. MaxAtt :
         slots[q][k] = [st |-> "active", at |-> p, seg |-> space[q][p].what]

(* nattch counts the attachments of the process, if the program never unmapped
   one by itself. *)
NattchTrue ==
  \A q \in Procs : Quiet(q) /\ spoilt[q] = {} =>
    \A s \in Segs : Nattch(q, s) = Cardinality({p \in Attached(q) : space[q][p].what = s})

(* Together: whenever nobody is inside, the table is what the process has. *)
TableTrue == AttTypeOK /\ Tracked /\ NattchTrue

(* In such a process shmdt never leaves the segment where it was, except when
   munmap fails: EINVAL means that there was none. *)
DetachRight ==
  \A t \in Threads :
    Step(t, "done") /\ loc[t].op = "dt" /\ loc[t].res # "failed" /\ spoilt[home[t]] = {} =>
      loc[t].arg \notin Attached(home[t])

(* A page of q that was mapped is not any more. *)
Lost(q, p) == space[q][p] # None /\ space'[q][p] = None

(* Whatever shmdt, a shmat without room and exec unmap is a page of an attachment
   that this process's table, or this call, has for it: never memory that somebody
   mapped where an attachment had been, though the address is looked up, checked
   and unmapped in three steps, and other threads map memory and fork meanwhile.
   (A process whose program unmapped a segment itself is the exception.) *)
UnmapsOwn ==
  [][\A q \in Procs, p \in Pages :
       ~Newborn(q) /\ Lost(q, p) /\ <<slots, loc>>' # <<slots, loc>>
         /\ "bypass" \notin spoilt[q] =>
         \/ \E k \in 1 .. MaxAtt :
              /\ slots[q][k].st # "free" /\ slots'[q][k] # slots[q][k]
              /\ space[q][p] = [what |-> slots[q][k].seg, base |-> slots[q][k].at]
         \/ \E t \in Threads :
              /\ Step(t, "mapped") /\ home[t] = q
              /\ space[q][p] = [what |-> loc[t].arg, base |-> loc[t].pos]]_allVars

(* What shm_do_dt promises of a segment that the program unmapped itself: a file
   mapped in its place, as long as the segment was, is never unmapped.  It is, if
   it is mapped there after the check, and no run asserts this. *)
SpareFiles ==
  [][\A t \in Threads :
       Step(t, "checked") /\ loc'[t].step = "done" =>
         LET q == home[t]
             r == slots[q][loc[t].pos]
         IN
         Vma(q, r.at) = Span(r.at, SegLen[r.seg]) /\ space[q][r.at].what = "file"
           => space'[q] = space[q]]_allVars

(* A static program starts with no segment attached and an empty table, unless
   munmap refused: exec is the step that changes memory in no call and by no act. *)
ExecDetaches ==
  [][\A q \in Procs :
       /\ UNCHANGED <<vars, loc, acts>>
       /\ <<slots, space>>' # <<slots, space>>
       /\ "torn" \notin spoilt[q] /\ (slots'[q] # slots[q] \/ space'[q] # space[q])
       => Attached(q)' = {} /\ \A k \in 1 .. MaxAtt : slots'[q][k] = FreeSlot]_allVars
=============================================================================
