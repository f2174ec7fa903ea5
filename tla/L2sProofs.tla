----------------------------- MODULE L2sProofs -----------------------------
(* What holds of L2s for every set of names, processes and refused calls.  *)
EXTENDS L2s, FiniteSetTheorems, TLAPS

IInv == TypeOK /\ Operands

(* The values a chain link is made of. *)
LEMMA MidObjParts ==
  ASSUME NEW o \in Obj
  PROVE  /\ o \in MidObj => o[2] \in Chains
         /\ \A c \in Chains : ToMid(c) \in Obj
  BY DEF Obj, MidObj, ToMid, None, File, FileObj

(* A record of locals with its program point or its chain changed is one. *)
LEMMA LocalsSteps ==
  /\ Idle \in Locals
  /\ \A r \in Locals, l \in PCs : [r EXCEPT !.pc = l] \in Locals
  /\ \A r \in Locals, l \in PCs, c \in Chains :
       [r EXCEPT !.pc = l, !.c = c] \in Locals
  /\ \A r \in Locals, l \in PCs : [r EXCEPT !.pc = l, !.made = TRUE] \in Locals
  /\ \A l \in PCs, a \in Names, b \in Names \cup {NoName}, c \in Chains \cup {NoChain} :
       [Idle EXCEPT !.pc = l, !.old = a, !.new = b, !.c = c] \in Locals
<1>1. "idle" \in PCs
  BY DEF PCs
<1> QED
  BY <1>1 DEF Locals, Idle

LEMMA InitIInv == Init => IInv
  BY L2sAssumption DEF Init, IInv, TypeOK, Operands, Obj, Locals, Idle, PCs, Absent

(* The three ways in which a step changes the locals of its process. *)
LocOK == loc \in [Procs -> Locals] /\ Operands

NoChainAt == {"idle", "pick", "u_plain", "r_svc"}

LEMMA StartStep ==
  ASSUME LocOK, NEW p \in Procs, NEW l \in PCs, NEW a \in Names,
         NEW b \in Names \cup {NoName}, NEW c \in Chains \cup {NoChain},
         l \notin NoChainAt => c \in Chains,
         Start(p, l, a, b, c)
  PROVE  LocOK'
<1>1. [Idle EXCEPT !.pc = l, !.old = a, !.new = b, !.c = c] \in Locals
  BY LocalsSteps
<1>2. loc' \in [Procs -> Locals]
  BY <1>1 DEF LocOK, Start
<1>3. Operands'
  BY DEF LocOK, Operands, Start, Idle, Locals, NoChainAt
<1> QED
  BY <1>2, <1>3 DEF LocOK

LEMMA GotoStep ==
  ASSUME LocOK, NEW p \in Procs, NEW l \in PCs, loc[p].old \in Names,
         l \notin NoChainAt => loc[p].c \in Chains,
         Goto(p, l)
  PROVE  LocOK'
<1>1. [loc[p] EXCEPT !.pc = l] \in Locals
  BY LocalsSteps DEF LocOK
<1>2. loc' \in [Procs -> Locals]
  BY <1>1 DEF LocOK, Goto
<1>3. Operands'
  BY DEF LocOK, Operands, Goto, Locals, NoChainAt
<1> QED
  BY <1>2, <1>3 DEF LocOK

LEMMA ReturnStep ==
  ASSUME LocOK, NEW p \in Procs, Return(p)
  PROVE  LocOK'
<1>1. loc' \in [Procs -> Locals]
  BY LocalsSteps DEF LocOK, Return
<1>2. Operands'
  BY DEF LocOK, Operands, Return, Idle, Locals
<1> QED
  BY <1>1, <1>2 DEF LocOK

(* What a process in a call knows of its operands, whatever it is doing. *)
LEMMA InCallFacts ==
  ASSUME IInv, NEW p \in Procs
  PROVE  /\ LocOK
         /\ loc[p] \in Locals
         /\ loc[p].pc # "idle" => loc[p].old \in Names /\ dir[loc[p].old] \in Obj
         /\ loc[p].pc \notin NoChainAt =>
              loc[p].c \in Chains /\ fin[loc[p].c] \in Obj /\ ToMid(loc[p].c) \in Obj
  BY MidObjParts DEF IInv, LocOK, Operands, NoChainAt, TypeOK, Obj, MidObj

LEMMA FailsType ==
  ASSUME IInv, NEW p, NEW cond, Fails(p, cond)
  PROVE  faults' \in 0 .. MaxFaults
  BY L2sAssumption DEF Fails, IInv, TypeOK

LEMMA NoneIsObj == None \in Obj
  BY DEF Obj

LEMMA LinkBeginIInv ==
  ASSUME IInv, NEW p \in Procs, NEW a \in Names, NEW b \in Names,
         LinkBegin(p, a, b)
  PROVE  IInv'
<1>1. LocOK
  BY InCallFacts
<1>2. IsFake(a) => dir[a][2] \in Chains
  BY MidObjParts DEF IInv, TypeOK, IsFake
<1>3. LocOK'
  <2>1. CASE Start(p, "pick", a, b, NoChain)
    BY <1>1, <2>1, StartStep DEF PCs, NoChainAt
  <2>2. CASE Resolves(a) /\ Start(p, "inc", a, b, dir[a][2])
    BY <1>1, <1>2, <2>2, StartStep DEF PCs, Resolves
  <2> QED
    BY <2>1, <2>2 DEF LinkBegin
<1> QED
  BY <1>3 DEF LinkBegin, IInv, TypeOK, LocOK, fsVars

LEMMA PickIInv ==
  ASSUME IInv, NEW p \in Procs, PickGeneration(p)
  PROVE  IInv'
<1>1. LocOK /\ loc[p] \in Locals /\ loc[p].old \in Names
  BY InCallFacts DEF PickGeneration, At
<1>2. LocOK'
  <2>1. CASE Return(p)
    BY <1>1, <2>1, ReturnStep
  <2>2. ASSUME NEW g \in 1 .. MaxGen,
               loc' = [loc EXCEPT ![p].pc = "ren", ![p].c = <<BaseOf[loc[p].old], g>>]
        PROVE  LocOK'
    <3>1. <<BaseOf[loc[p].old], g>> \in Chains
      BY <1>1, L2sAssumption DEF Chains
    <3>2. [loc[p] EXCEPT !.pc = "ren", !.c = <<BaseOf[loc[p].old], g>>] \in Locals
      BY <1>1, <3>1, LocalsSteps DEF PCs
    <3>3. loc' \in [Procs -> Locals]
      BY <1>1, <2>2, <3>2 DEF LocOK
    <3>4. Operands'
      BY <1>1, <2>2, <3>1 DEF LocOK, Operands, Locals
    <3> QED
      BY <3>3, <3>4 DEF LocOK
  <2> QED
    BY <2>1, <2>2 DEF PickGeneration
<1> QED
  BY <1>2 DEF PickGeneration, IInv, TypeOK, LocOK, fsVars

LEMMA RenameToFinalIInv ==
  ASSUME IInv, NEW p \in Procs, RenameToFinal(p)
  PROVE  IInv'
<1>1. /\ LocOK
      /\ loc[p].old \in Names /\ dir[loc[p].old] \in Obj
      /\ loc[p].c \in Chains
  BY InCallFacts DEF RenameToFinal, At, NoChainAt
<1>2. LocOK'
  BY <1>1, GotoStep, ReturnStep DEF RenameToFinal, PCs
<1>3. faults' \in 0 .. MaxFaults
  BY FailsType DEF RenameToFinal, IInv, TypeOK
<1>4. dir' \in [Names -> Obj] /\ fin' \in [Chains -> Obj]
  BY <1>1, NoneIsObj DEF RenameToFinal, IInv, TypeOK
<1> QED
  BY <1>2, <1>3, <1>4 DEF RenameToFinal, IInv, TypeOK, LocOK

LEMMA SymlinkMidIInv ==
  ASSUME IInv, NEW p \in Procs, SymlinkMid(p)
  PROVE  IInv'
<1>1. LocOK /\ loc[p].old \in Names /\ loc[p].c \in Chains
  BY InCallFacts DEF SymlinkMid, At, NoChainAt
<1>2. LocOK'
  BY <1>1, GotoStep DEF SymlinkMid, PCs
<1>3. faults' \in 0 .. MaxFaults
  BY FailsType DEF SymlinkMid, IInv, TypeOK
<1> QED
  BY <1>1, <1>2, <1>3 DEF SymlinkMid, IInv, TypeOK, LocOK

LEMMA SymlinkOldIInv ==
  ASSUME IInv, NEW p \in Procs, SymlinkOld(p)
  PROVE  IInv'
<1>1. LocOK /\ loc[p].old \in Names /\ loc[p].c \in Chains /\ ToMid(loc[p].c) \in Obj
  BY InCallFacts DEF SymlinkOld, At, NoChainAt
<1>2. LocOK'
  BY <1>1, GotoStep DEF SymlinkOld, PCs
<1>3. faults' \in 0 .. MaxFaults
  BY FailsType DEF SymlinkOld, IInv, TypeOK
<1> QED
  BY <1>1, <1>2, <1>3 DEF SymlinkOld, IInv, TypeOK, LocOK

LEMMA WriteCountIInv ==
  ASSUME IInv, NEW p \in Procs, WriteCount(p)
  PROVE  IInv'
<1>1. /\ LocOK /\ loc[p] \in Locals
      /\ loc[p].old \in Names /\ loc[p].c \in Chains
  BY InCallFacts DEF WriteCount, At, NoChainAt
<1>2. LocOK'
  <2>1. CASE Goto(p, "rb_old")
    BY <1>1, <2>1, GotoStep DEF PCs
  <2>2. CASE loc' = [loc EXCEPT ![p].pc = "sym_new", ![p].made = TRUE]
    <3>1. [loc[p] EXCEPT !.pc = "sym_new", !.made = TRUE] \in Locals
      BY <1>1, LocalsSteps DEF PCs
    <3>2. loc' \in [Procs -> Locals]
      BY <1>1, <2>2, <3>1 DEF LocOK
    <3>3. Operands'
      BY <1>1, <2>2 DEF LocOK, Operands, Locals
    <3> QED
      BY <3>2, <3>3 DEF LocOK
  <2> QED
    BY <2>1, <2>2 DEF WriteCount
<1>3. faults' \in 0 .. MaxFaults
  BY FailsType DEF WriteCount, IInv, TypeOK
<1>4. cnt' \in [Chains -> 0 .. MaxCount \cup {Absent}]
  <2>1. 0 \in 0 .. MaxCount /\ 2 \in 0 .. MaxCount
    BY L2sAssumption
  <2> QED
    BY <2>1 DEF WriteCount, IInv, TypeOK
<1> QED
  BY <1>2, <1>3, <1>4 DEF WriteCount, IInv, TypeOK, LocOK

LEMMA AddLinkIInv ==
  ASSUME IInv, NEW p \in Procs, AddLink(p)
  PROVE  IInv'
<1>1. LocOK /\ loc[p].old \in Names /\ loc[p].c \in Chains
  BY InCallFacts DEF AddLink, At, NoChainAt
<1>2. LocOK'
  BY <1>1, GotoStep, ReturnStep DEF AddLink, PCs
<1>3. faults' \in 0 .. MaxFaults
  BY FailsType DEF AddLink, IInv, TypeOK
<1>4. cnt' \in [Chains -> 0 .. MaxCount \cup {Absent}]
  <2>1. CountOf(loc[p].c) \in 0 .. MaxCount
    BY L2sAssumption, <1>1 DEF IInv, TypeOK, CountOf, Absent
  <2>2. CountOf(loc[p].c) < MaxCount => CountOf(loc[p].c) + 1 \in 0 .. MaxCount
    BY L2sAssumption, <2>1
  <2> QED
    BY <2>2 DEF AddLink, IInv, TypeOK
<1> QED
  BY <1>2, <1>3, <1>4 DEF AddLink, IInv, TypeOK, LocOK

LEMMA SymlinkNewIInv ==
  ASSUME IInv, NEW p \in Procs, SymlinkNew(p)
  PROVE  IInv'
<1>1. LocOK /\ loc[p].old \in Names /\ loc[p].c \in Chains /\ ToMid(loc[p].c) \in Obj
  BY InCallFacts DEF SymlinkNew, At, NoChainAt
<1>2. LocOK'
  BY <1>1, GotoStep, ReturnStep DEF SymlinkNew, PCs
<1>3. faults' \in 0 .. MaxFaults
  BY FailsType DEF SymlinkNew, IInv, TypeOK
<1> QED
  BY <1>1, <1>2, <1>3 DEF SymlinkNew, IInv, TypeOK, LocOK

LEMMA CountType ==
  ASSUME IInv, NEW c \in Chains
  PROVE  Decremented(c) \in [Chains -> 0 .. MaxCount \cup {Absent}]
<1>1. cnt[c] \in 0 .. MaxCount \cup {Absent}
  BY DEF IInv, TypeOK
<1>2. CountOf(c) # 0 => cnt[c] - 1 \in 0 .. MaxCount
  BY <1>1, L2sAssumption DEF CountOf, Absent
<1>3. 0 \in 0 .. MaxCount
  BY L2sAssumption
<1> QED
  BY <1>2, <1>3 DEF Decremented, IInv, TypeOK

LEMMA RollbackIInv ==
  ASSUME IInv, NEW p \in Procs,
         \/ RollbackOld(p) \/ RollbackMid(p) \/ RollbackRename(p)
         \/ RollbackCount(p) \/ RollbackAdd(p)
  PROVE  IInv'
<1>1. LocOK
  BY InCallFacts
<1>2. CASE RollbackOld(p)
  <2>1. loc[p].old \in Names /\ loc[p].c \in Chains
    BY <1>2, InCallFacts DEF RollbackOld, At, NoChainAt
  <2>2. LocOK'
    BY <1>1, <1>2, <2>1, GotoStep DEF RollbackOld, PCs
  <2> QED
    BY <1>2, <2>1, <2>2, NoneIsObj DEF RollbackOld, IInv, TypeOK, LocOK
<1>3. CASE RollbackMid(p)
  <2>1. loc[p].old \in Names /\ loc[p].c \in Chains
    BY <1>3, InCallFacts DEF RollbackMid, At, NoChainAt
  <2>2. LocOK'
    BY <1>1, <1>3, <2>1, GotoStep DEF RollbackMid, PCs
  <2> QED
    BY <1>3, <2>1, <2>2 DEF RollbackMid, IInv, TypeOK, LocOK
<1>4. CASE RollbackRename(p)
  <2>1. loc[p].old \in Names /\ loc[p].c \in Chains /\ fin[loc[p].c] \in Obj
    BY <1>4, InCallFacts DEF RollbackRename, At, NoChainAt
  <2>2. LocOK'
    BY <1>1, <1>4, <2>1, GotoStep, ReturnStep DEF RollbackRename, PCs
  <2>3. dir' \in [Names -> Obj] /\ fin' \in [Chains -> Obj]
    BY <1>4, <2>1, NoneIsObj DEF RollbackRename, IInv, TypeOK
  <2> QED
    BY <1>4, <2>2, <2>3 DEF RollbackRename, IInv, TypeOK, LocOK
<1>5. CASE RollbackCount(p)
  BY <1>1, <1>5, ReturnStep DEF RollbackCount, IInv, TypeOK, LocOK
<1>6. CASE RollbackAdd(p)
  <2>1. loc[p].c \in Chains
    BY <1>6, InCallFacts DEF RollbackAdd, At, NoChainAt
  <2>2. cnt' \in [Chains -> 0 .. MaxCount \cup {Absent}]
    BY <1>6, <2>1, CountType DEF RollbackAdd, IInv, TypeOK
  <2>3. faults' \in 0 .. MaxFaults
    BY <1>6, FailsType DEF RollbackAdd, IInv, TypeOK
  <2> QED
    BY <1>1, <1>6, <2>2, <2>3, ReturnStep DEF RollbackAdd, IInv, TypeOK, LocOK
<1> QED
  BY <1>2, <1>3, <1>4, <1>5, <1>6

LEMMA CutUpdateIInv ==
  ASSUME IInv, NEW p \in Procs, CutUpdate(p)
  PROVE  IInv'
<1>1. LocOK /\ loc[p].c \in Chains
  BY InCallFacts, L2sAssumption DEF CutUpdate, CountPoints, NoChainAt
<1>2. LocOK'
  BY <1>1, ReturnStep DEF CutUpdate
<1>3. cnt' \in [Chains -> 0 .. MaxCount \cup {Absent}]
  BY <1>1, L2sAssumption DEF CutUpdate, IInv, TypeOK
<1>4. faults' \in 0 .. MaxFaults /\ crashes' \in 0 .. MaxCrashes
  BY L2sAssumption DEF CutUpdate, IInv, TypeOK
<1> QED
  BY <1>1, <1>2, <1>3, <1>4 DEF CutUpdate, IInv, TypeOK, LocOK

LEMMA UnlinkBeginIInv ==
  ASSUME IInv, NEW p \in Procs, NEW a \in Names, UnlinkBegin(p, a)
  PROVE  IInv'
<1>1. LocOK
  BY InCallFacts
<1>2. IsFake(a) => dir[a][2] \in Chains
  BY MidObjParts DEF IInv, TypeOK, IsFake
<1>3. LocOK'
  <2>1. CASE Start(p, "u_plain", a, NoName, NoChain)
    BY <1>1, <2>1, StartStep DEF PCs, NoChainAt
  <2>2. CASE Resolves(a) /\ Start(p, "u_dec", a, NoName, dir[a][2])
    BY <1>1, <1>2, <2>2, StartStep DEF PCs, Resolves
  <2> QED
    BY <2>1, <2>2 DEF UnlinkBegin
<1> QED
  BY <1>3 DEF UnlinkBegin, IInv, TypeOK, LocOK, fsVars

LEMMA RemoveNameIInv ==
  ASSUME IInv, NEW p \in Procs, RemoveName(p)
  PROVE  IInv'
<1>1. LocOK'
  BY InCallFacts, ReturnStep DEF RemoveName
<1>2. faults' \in 0 .. MaxFaults
  BY FailsType DEF RemoveName, IInv, TypeOK
<1> QED
  BY <1>1, <1>2, NoneIsObj DEF RemoveName, IInv, TypeOK, LocOK

LEMMA DropLinkIInv ==
  ASSUME IInv, NEW p \in Procs, DropLink(p)
  PROVE  IInv'
<1>1. LocOK /\ loc[p].old \in Names /\ loc[p].c \in Chains
  BY InCallFacts DEF DropLink, At, NoChainAt
<1>2. LocOK'
  BY <1>1, GotoStep, ReturnStep DEF DropLink, PCs
<1>3. faults' \in 0 .. MaxFaults
  BY FailsType DEF DropLink, IInv, TypeOK
<1>4. cnt' \in [Chains -> 0 .. MaxCount \cup {Absent}]
  BY <1>1, CountType DEF DropLink, IInv, TypeOK
<1> QED
  BY <1>2, <1>3, <1>4 DEF DropLink, IInv, TypeOK, LocOK

LEMMA ReclaimIInv ==
  ASSUME IInv, NEW p \in Procs,
         ReclaimMid(p) \/ ReclaimFinal(p) \/ ReclaimCount(p)
  PROVE  IInv'
<1>1. LocOK /\ loc[p].old \in Names /\ loc[p].c \in Chains
  BY InCallFacts DEF ReclaimMid, ReclaimFinal, ReclaimCount, At, NoChainAt
<1>2. LocOK'
  BY <1>1, GotoStep, ReturnStep DEF ReclaimMid, ReclaimFinal, ReclaimCount, PCs
<1>3. faults' \in 0 .. MaxFaults
  BY FailsType DEF ReclaimMid, ReclaimFinal, ReclaimCount, IInv, TypeOK
<1> QED
  BY <1>2, <1>3, NoneIsObj
     DEF ReclaimMid, ReclaimFinal, ReclaimCount, IInv, TypeOK, LocOK

LEMMA RenameBeginIInv ==
  ASSUME IInv, NEW p \in Procs, NEW a \in Names, NEW b \in Names,
         RenameBegin(p, a, b)
  PROVE  IInv'
<1>1. LocOK
  BY InCallFacts
<1>2. IsFake(b) => dir[b][2] \in Chains
  BY MidObjParts DEF IInv, TypeOK, IsFake
<1>3. LocOK'
  <2>1. CASE Resolves(b) /\ Start(p, "r_svc", a, b, dir[b][2])
    BY <1>1, <1>2, <2>1, StartStep DEF PCs, Resolves, NoChainAt
  <2>2. CASE Start(p, "r_svc", a, b, NoChain)
    BY <1>1, <2>2, StartStep DEF PCs, NoChainAt
  <2>3. CASE UNCHANGED loc
    BY <1>1, <2>3 DEF LocOK, Operands
  <2> QED
    BY <2>1, <2>2, <2>3 DEF RenameBegin
<1> QED
  BY <1>3 DEF RenameBegin, IInv, TypeOK, LocOK, fsVars

LEMMA RenameCallIInv ==
  ASSUME IInv, NEW p \in Procs, RenameCall(p)
  PROVE  IInv'
<1>1. /\ LocOK /\ loc[p] \in Locals
      /\ loc[p].old \in Names /\ dir[loc[p].old] \in Obj
  BY InCallFacts DEF RenameCall, At
<1>2. loc[p].c # NoChain => loc[p].c \in Chains
  BY <1>1 DEF Locals
<1>3. LocOK'
  BY <1>1, <1>2, GotoStep, ReturnStep DEF RenameCall, PCs
<1>4. faults' \in 0 .. MaxFaults
  BY FailsType DEF RenameCall, IInv, TypeOK
<1>5. dir' \in [Names -> Obj]
  BY <1>1, NoneIsObj DEF RenameCall, IInv, TypeOK
<1> QED
  BY <1>3, <1>4, <1>5 DEF RenameCall, IInv, TypeOK, LocOK

LEMMA RenameDropIInv ==
  ASSUME IInv, NEW p \in Procs, RenameDrop(p) \/ RenameReclaim(p)
  PROVE  IInv'
<1>1. LocOK /\ loc[p].old \in Names /\ loc[p].c \in Chains
  BY InCallFacts DEF RenameDrop, RenameReclaim, At, NoChainAt
<1>2. LocOK'
  BY <1>1, GotoStep, ReturnStep DEF RenameDrop, RenameReclaim, PCs
<1>3. faults' \in 0 .. MaxFaults
  BY FailsType DEF RenameDrop, RenameReclaim, IInv, TypeOK
<1>4. cnt' \in [Chains -> 0 .. MaxCount \cup {Absent}]
  BY <1>1, CountType DEF RenameDrop, RenameReclaim, IInv, TypeOK
<1> QED
  BY <1>2, <1>3, <1>4, NoneIsObj DEF RenameDrop, RenameReclaim, IInv, TypeOK, LocOK

LEMMA AroundIInv ==
  ASSUME IInv, NEW p \in Procs,
         \/ \E a, b \in Names : RenameFlags(p, a, b)
         \/ \E a \in Names : LazyEnable(p, a)
         \/ \E n \in Names, d \in Data : Create(p, n, d)
         \/ Crash(p)
  PROVE  IInv'
<1>1. CASE \E a, b \in Names : RenameFlags(p, a, b)
  BY <1>1 DEF RenameFlags, IInv, TypeOK, Operands
<1>2. CASE \E a \in Names : LazyEnable(p, a)
  BY <1>2 DEF LazyEnable, fsVars, IInv, TypeOK, Operands
<1>3. CASE \E n \in Names, d \in Data : Create(p, n, d)
  <2>1. \A d \in Data : File(d) \in Obj
    BY DEF Obj, FileObj
  <2> QED
    BY <1>3, <2>1 DEF Create, IInv, TypeOK, Operands
<1>4. CASE Crash(p)
  <2>1. LocOK'
    BY <1>4, InCallFacts, ReturnStep DEF Crash
  <2> QED
    BY <1>4, <2>1, L2sAssumption DEF Crash, fsVars, IInv, TypeOK, LocOK
<1> QED
  BY <1>1, <1>2, <1>3, <1>4

(* Where no update of a count is cut. *)
LEMMA NoCut ==
  ASSUME TornAt = {} \/ torn' = {}, NEW p \in Procs
  PROVE  ~CutUpdate(p)
BY DEF CutUpdate

LEMMA NextIInv == IInv /\ [Next]_vars => IInv'
<1> SUFFICES ASSUME IInv, [Next]_vars PROVE IInv'
  OBVIOUS
<1>1. CASE UNCHANGED vars
  BY <1>1 DEF vars, IInv, TypeOK, Operands
<1>2. ASSUME NEW p \in Procs, Call(p) PROVE IInv'
  BY <1>2, LinkBeginIInv, RenameBeginIInv, UnlinkBeginIInv, AroundIInv DEF Call
<1>3. ASSUME NEW p \in Procs, Continue(p) PROVE IInv'
  BY <1>3, PickIInv, RenameToFinalIInv, SymlinkMidIInv, SymlinkOldIInv,
     WriteCountIInv, AddLinkIInv, SymlinkNewIInv, RollbackIInv, CutUpdateIInv, DropLinkIInv,
     ReclaimIInv, RemoveNameIInv, RenameCallIInv, RenameDropIInv DEF Continue
<1>4. ASSUME NEW p \in Procs, Crash(p) PROVE IInv'
  BY <1>4, AroundIInv
<1> QED
  BY <1>1, <1>2, <1>3, <1>4 DEF Next

(* Whatever the names, processes, refused calls and kills: the entries, the
   counts and the locals of every call stay in their types, and a call never
   uses an operand it does not have. *)
THEOREM L2sTypeOK == Spec => []TypeOK
<1>1. Spec => []IInv
  BY InitIInv, NextIInv, PTL DEF Spec
<1>2. IInv => TypeOK
  BY DEF IInv
<1> QED
  BY <1>1, <1>2, PTL

-----------------------------------------------------------------------------
(* Consistency *)

(* Where it is expected: the guests keep to names of their own, every process
   has the layer on, nobody is killed, and what may be refused is link(), but no
   write of a count after the file has been truncated for it. *)
LinkPoints == {"ren", "sym_mid", "sym_old", "wr_cnt", "sym_new", "inc"}

Expected ==
  /\ IsFiniteSet(Names) /\ IsFiniteSet(Procs)
  /\ Exclusive
  /\ Procs \subseteq InitEnabled
  /\ FaultAt \subseteq LinkPoints
  /\ CrashAt = {}
  /\ TornAt = {}

Uses(p) == {loc[p].old, loc[p].new} \cap Names

Apart == \A p, q \in Procs : p # q => Uses(p) \cap Uses(q) = {}

(* What a call is to its chain: it builds it or takes the building down again,
   it reclaims it, or it relies on it. *)
Builds(p) ==
  \/ loc[p].pc \in {"ren", "sym_mid", "sym_old", "wr_cnt", "rb_old", "rb_mid", "rb_ren", "rb_cnt"}
  \/ loc[p].pc = "sym_new" /\ loc[p].made

Reclaims(p) == loc[p].pc \in {"u_mid", "u_fin", "u_cnt", "r_mid", "r_fin", "r_cnt"}

Member(p) ==
  \/ loc[p].pc \in {"inc", "rb_dec", "u_dec", "r_dec"}
  \/ loc[p].pc = "sym_new" /\ ~loc[p].made
  \/ loc[p].pc = "r_svc" /\ loc[p].c # NoChain

(* The builder of a chain has it for itself; beside the one that reclaims it
   there are only calls that have counted down the name they still remove. *)
Solo ==
  \A p, q \in Procs : p # q /\ loc[p].c = loc[q].c /\ loc[p].c \in Chains =>
     /\ ~Builds(p)
     /\ Reclaims(p) => loc[q].pc = "u_name"

Members == \A p \in Procs : Member(p) => loc[p].c \in mid

(* What a call knows of its names and of its chain. *)
OwnNames(p) ==
  LET l == loc[p]
  IN
  /\ l.pc = "idle" => l = Idle
  /\ l.made => l.pc \in {"sym_new", "rb_old", "rb_mid", "rb_ren", "rb_cnt"}
  /\ l.pc \in {"rb_old", "rb_mid", "rb_ren"} => l.made \/ faults # 0
  /\ l.pc \in {"pick", "u_plain"} => l.c = NoChain
  /\ l.pc \in {"pick", "inc", "ren", "sym_mid", "sym_old", "wr_cnt", "sym_new", "r_svc"}
       => l.new \in Names /\ l.new # l.old
  /\ l.pc \in {"pick", "u_plain", "ren"} => dir[l.old] \in FileObj
  /\ l.pc \in {"sym_mid", "sym_old", "rb_mid", "rb_ren"} => dir[l.old] = None
  /\ l.pc \in {"inc", "rb_dec", "sym_new", "u_dec", "u_mid", "u_fin", "u_cnt", "u_name"}
       => dir[l.old] = ToMid(l.c)
  /\ l.pc = "r_svc" =>
       /\ dir[l.old] # None
       /\ IF l.c = NoChain THEN dir[l.new] \in FileObj \cup {None}
                           ELSE dir[l.new] = ToMid(l.c) /\ dir[l.old] # dir[l.new]

OwnChain(p) ==
  LET l == loc[p]
      c == loc[p].c
  IN
  /\ l.pc = "ren" => c \notin mid /\ fin[c] = None
  /\ l.pc \in {"sym_mid", "rb_ren", "u_fin", "r_fin"} => c \notin mid /\ fin[c] \in FileObj
  /\ l.pc \in {"sym_old", "wr_cnt", "rb_old", "rb_mid"} => c \in mid
  /\ l.pc = "sym_new" /\ l.made => c \in mid /\ cnt[c] = 2
  /\ l.pc \in {"rb_cnt", "u_cnt", "r_cnt"} => c \notin mid /\ fin[c] = None
  /\ l.pc \in {"u_mid", "r_mid"} => c \in mid /\ cnt[c] = 0

(* The names of a chain that is being built. *)
OwnLinks(p) ==
  Builds(p) => NamesOf(loc[p].c) = IF loc[p].pc \in {"wr_cnt", "sym_new", "rb_old"}
                                   THEN {loc[p].old} ELSE {}

Place(p) == OwnNames(p) /\ OwnChain(p) /\ OwnLinks(p)

(* The files of a chain are there with it, or a call is about to add or to
   remove them. *)
On(c, S) == \E p \in Procs : loc[p].c = c /\ loc[p].pc \in S

Files(c) ==
  /\ fin[c] \in FileObj \cup {None}
  /\ c \in mid => fin[c] \in FileObj
  /\ fin[c] # None => c \in mid \/ On(c, {"sym_mid", "rb_ren", "u_fin", "r_fin"})
  /\ cnt[c] # Absent /\ faults = 0 =>
       c \in mid \/ On(c, {"rb_ren", "rb_cnt", "u_fin", "u_cnt", "r_fin", "r_cnt"})
  /\ c \in mid => cnt[c] >= 1 \/ On(c, Building \cup {"u_mid", "r_mid"})

(* A name of the chain whose unlink() is past the count. *)
Leaves(n, c) ==
  \E p \in Procs : /\ loc[p].old = n /\ loc[p].c = c
                   /\ loc[p].pc \in {"u_mid", "u_fin", "u_cnt", "u_name"}

Led(c) ==
  \A n \in NamesOf(c) :
    /\ c \in mid \/ Leaves(n, c)
    /\ \A p \in Procs : loc[p].c = c /\ Reclaims(p) => Leaves(n, c)

Balance(c) ==
  c \in mid /\ InCall(c, Building) = {} =>
    cnt[c] = Cardinality(NamesOf(c))
             + Cardinality(InCall(c, {"sym_new", "rb_dec", "r_dec"}))
             - Cardinality(InCall(c, {"u_name", "u_mid"}))

Chain(c) == Files(c) /\ Led(c) /\ Balance(c)

CInv ==
  /\ IInv
  /\ Procs \subseteq enabled
  /\ Apart
  /\ \A p \in Procs : Place(p)
  /\ Solo
  /\ Members
  /\ \A c \in Chains : Chain(c)

(* The weaker invariant that is left when a process may be killed or have its
   layer off: an unlink() that goes round the layer leaves a count too high, a
   kill leaves a count too high or files that no name leads to. *)
KillPoints ==
  {"pick", "ren", "sym_mid", "sym_old", "inc", "sym_new", "rb_mid", "rb_ren", "rb_cnt", "rb_dec",
   "u_plain", "u_dec", "r_svc", "r_dec", "r_mid", "r_fin", "r_cnt"}

RefusePoints == LinkPoints \cup {"rb_dec", "u_plain", "u_dec", "r_svc", "r_dec"}

(* Where it is kept: outside it are the kills and refusals that leave a name
   whose count is not written yet or is down already. *)
Survivable ==
  /\ IsFiniteSet(Names) /\ IsFiniteSet(Procs)
  /\ Exclusive
  /\ FaultAt \subseteq RefusePoints
  /\ CrashAt \subseteq KillPoints

KOwnNames(p) ==
  LET l == loc[p]
  IN
  /\ l.pc = "idle" => l = Idle
  /\ l.made => l.pc \in {"sym_new", "rb_old", "rb_mid", "rb_ren", "rb_cnt"}
  /\ l.pc \in {"pick", "u_plain"} => l.c = NoChain
  /\ l.pc \in {"pick", "inc", "ren", "sym_mid", "sym_old", "wr_cnt", "sym_new", "r_svc"}
       => l.new \in Names /\ l.new # l.old
  /\ l.pc \in {"pick", "ren"} => dir[l.old] \in FileObj
  /\ l.pc \in {"sym_mid", "sym_old", "rb_mid", "rb_ren"} => dir[l.old] = None
  /\ l.pc \in {"inc", "rb_dec", "sym_new", "u_dec", "u_mid", "u_fin", "u_cnt", "u_name"}
       => dir[l.old] = ToMid(l.c)
  /\ l.pc = "r_svc" =>
       /\ dir[l.old] # None
       /\ IF l.c = NoChain THEN dir[l.new] \in FileObj \cup {None}
                           ELSE dir[l.new] = ToMid(l.c) /\ dir[l.old] # dir[l.new]

KOwnChain(p) ==
  LET l == loc[p]
      c == loc[p].c
  IN
  /\ l.pc \in {"ren", "rb_cnt", "u_cnt", "r_cnt"} => c \notin mid
  /\ l.pc \in {"sym_mid", "rb_ren", "u_fin", "r_fin"} => c \notin mid /\ fin[c] \in FileObj
  /\ l.pc \in {"sym_old", "wr_cnt", "rb_old", "rb_mid", "u_mid", "r_mid"} => c \in mid
  /\ l.pc = "sym_new" /\ l.made => c \in mid /\ cnt[c] = 2

KPlace(p) == KOwnNames(p) /\ KOwnChain(p) /\ OwnLinks(p)

KFiles(c) == fin[c] \in FileObj \cup {None} /\ (c \in mid => fin[c] \in FileObj)

Covers(c) ==
  c \in mid /\ InCall(c, Building) = {} =>
    CountOf(c) + Cardinality(InCall(c, {"u_name", "u_mid"}))
      >= Cardinality(NamesOf(c)) + Cardinality(InCall(c, {"sym_new", "rb_dec", "r_dec"}))

KChain(c) == KFiles(c) /\ Led(c) /\ Covers(c)

KInv ==
  /\ IInv
  /\ Apart
  /\ \A p \in Procs : KPlace(p)
  /\ Solo
  /\ Members
  /\ \A c \in Chains : KChain(c)

(* Entries of different kinds are different. *)
LEMMA Kinds ==
  /\ \A c, d : ToMid(c) = ToMid(d) => c = d
  /\ \A c : ToMid(c) \notin FileObj /\ ToMid(c) # None
  /\ None \notin FileObj
  /\ \A c \in Chains : ToMid(c) \in MidObj /\ ToMid(c)[2] = c /\ ToMid(c)[1] = "mid"
  /\ \A o \in MidObj : o[2] \in Chains /\ o = ToMid(o[2])
  /\ \A o \in FileObj \cup {None} : o[1] # "mid"
  /\ NoChain \notin Chains
<1>1. \A c, d : ToMid(c) = ToMid(d) => c = d
  BY DEF ToMid
<1>2. \A c : ToMid(c) \notin FileObj /\ ToMid(c) # None
  BY DEF ToMid, FileObj, File, None
<1>3. None \notin FileObj
  BY DEF FileObj, File, None
<1>4. \A c \in Chains : ToMid(c) \in MidObj /\ ToMid(c)[2] = c /\ ToMid(c)[1] = "mid"
  BY DEF MidObj, ToMid
<1>5. \A o \in MidObj : o[2] \in Chains /\ o = ToMid(o[2])
  BY DEF MidObj, ToMid
<1>6. \A o \in FileObj \cup {None} : o[1] # "mid"
  BY DEF FileObj, File, None
<1>7. NoChain \notin Chains
  BY DEF NoChain, Chains
<1> QED BY <1>1, <1>2, <1>3, <1>4, <1>5, <1>6, <1>7

(* The invariant at work: what it says is what the runs check. *)
LEMMA ConsistentIs ==
  ASSUME Expected, CInv
  PROVE  Consistent
<1>1. TypeOK
  BY DEF CInv, IInv
<1>2. Accounting
  <2>1. \A c \in mid : c \in Chains
    BY <1>1 DEF TypeOK
  <2> QED BY <2>1 DEF CInv, Chain, Balance, Accounting
<1>3. NoDangling
  <2> SUFFICES ASSUME NEW n \in Names, IsFake(n)
               PROVE  \/ Resolve(dir[n]) \in FileObj
                      \/ \E p \in Procs : loc[p].old = n /\ loc[p].pc \in {"u_mid", "u_fin", "u_cnt", "u_name"}
    BY DEF NoDangling, Reaches
  <2> DEFINE c == dir[n][2]
  <2>1. c \in Chains /\ dir[n] = ToMid(c) /\ dir[n][1] = "mid"
    BY Kinds DEF IsFake
  <2>2. n \in NamesOf(c) /\ Files(c) /\ Led(c)
    BY <2>1 DEF NamesOf, CInv, Chain
  <2>3. CASE c \in mid
    <3>1. Follow(dir[n]) = fin[c] /\ fin[c] \in FileObj
      BY <2>1, <2>2, <2>3 DEF Follow, Files
    <3>2. fin[c][1] # "mid"
      BY <3>1, Kinds
    <3> QED BY <3>1, <3>2 DEF Resolve, Follow
  <2>4. CASE Leaves(n, c)
    BY <2>4 DEF Leaves
  <2> QED BY <2>2, <2>3, <2>4 DEF Led
<1>4. NoLeak
  <2> SUFFICES ASSUME \A p \in Procs : At(p, "idle"), NEW c \in Chains,
                      c \in mid \/ fin[c] # None \/ (cnt[c] # Absent /\ faults = 0)
               PROVE  NamesOf(c) # {}
    BY DEF NoLeak
  <2>1. \A S : "idle" \notin S => ~On(c, S) /\ InCall(c, S) = {}
    BY DEF At, On, InCall
  <2>2. Files(c) /\ Balance(c)
    BY DEF CInv, Chain
  <2>3. c \in mid /\ cnt[c] >= 1
    BY <2>1, <2>2 DEF Files, Building
  <2>4. cnt[c] = Cardinality(NamesOf(c)) + Cardinality({}) - Cardinality({})
    BY <2>1, <2>2, <2>3 DEF Balance, Building
  <2>5. Cardinality({}) = 0
    BY FS_EmptySet
  <2>6. ASSUME NamesOf(c) = {} PROVE FALSE
    <3>1. cnt[c] = 0
      BY <2>4, <2>5, <2>6
    <3> QED BY <2>3, <3>1
  <2> QED BY <2>6
<1>5. OneReclaimer
  <2> SUFFICES ASSUME NEW c \in Chains
               PROVE  Cardinality(InCall(c, {"u_mid", "u_fin", "u_cnt", "r_mid", "r_fin", "r_cnt"})) <= 1
    BY DEF OneReclaimer
  <2> DEFINE R == InCall(c, {"u_mid", "u_fin", "u_cnt", "r_mid", "r_fin", "r_cnt"})
  <2>1. \A p, q \in R : p = q
    BY DEF InCall, CInv, Solo, Reclaims
  <2>2. CASE R = {}
    BY <2>2, FS_EmptySet
  <2>3. ASSUME NEW p \in R PROVE Cardinality(R) = 1
    <3>1. R = {p}
      BY <2>1, <2>3
    <3> QED BY <3>1, FS_Singleton
  <2> QED BY <2>2, <2>3
<1> QED BY <1>1, <1>2, <1>3, <1>4, <1>5 DEF Consistent

LEMMA InitCInv == Expected /\ Init => CInv
<1> SUFFICES ASSUME Expected, Init PROVE CInv
  OBVIOUS
<1>1. \A p \in Procs : loc[p] = Idle
  BY DEF Init
<1>2. \A c \in Chains : NamesOf(c) = {}
  BY Kinds, L2sAssumption DEF Init, NamesOf
<1>3. \A p \in Procs : ~Builds(p) /\ ~Reclaims(p) /\ ~Member(p) /\ Uses(p) = {}
  BY <1>1, L2sAssumption DEF Builds, Reclaims, Member, Uses, Idle
<1>4. \A p \in Procs : Place(p)
  <2> SUFFICES ASSUME NEW p \in Procs PROVE Place(p)
    OBVIOUS
  <2>1. loc[p] = Idle /\ loc[p].pc = "idle" /\ ~loc[p].made
    <3>1. Idle.pc = "idle" /\ ~Idle.made
      BY DEF Idle
    <3> QED BY <1>1, <3>1
  <2>2. OwnNames(p)
    BY <2>1 DEF OwnNames
  <2>3. OwnChain(p) /\ OwnLinks(p)
    BY <2>1, <1>3 DEF OwnChain, OwnLinks
  <2> QED BY <2>2, <2>3 DEF Place
<1>5. \A c \in Chains : Chain(c)
  BY <1>2 DEF Init, Chain, Files, Led, Balance
<1> QED BY <1>3, <1>4, <1>5, InitIInv DEF Init, Expected, CInv, Apart, Solo, Members

(* What a step of p leaves alone: the other calls, the names outside S, the
   chains other than its own. *)
Frame(p, S) ==
  /\ \A q \in Procs : q # p => loc'[q] = loc[q] /\ S \cap Uses(q) = {}
  /\ enabled \subseteq enabled'
  /\ faults' = 0 => faults = 0
  /\ \A n \in Names : n \in S \/ dir'[n] = dir[n]
  /\ \A c \in Chains : c # loc[p].c =>
       (c \in mid' <=> c \in mid) /\ fin'[c] = fin[c] /\ cnt'[c] = cnt[c]

SameFiles == mid' = mid /\ fin' = fin /\ cnt' = cnt

LEMMA OnChain ==
  ASSUME CInv \/ KInv, NEW p \in Procs, Builds(p) \/ Reclaims(p) \/ Member(p) \/ loc[p].pc = "u_name"
  PROVE  loc[p].c \in Chains /\ loc[p].old \in Names
BY InCallFacts DEF CInv, KInv, Builds, Reclaims, Member, NoChainAt, Locals

LEMMA OthersPlace ==
  ASSUME CInv, NEW p \in Procs, NEW S, Frame(p, S),
         loc[p].pc = "u_name" => SameFiles,
         \A q \in Procs : q # p /\ Builds(q) => NamesOf(loc[q].c)' = NamesOf(loc[q].c)
  PROVE  \A q \in Procs : q # p => Place(q)'
<1> SUFFICES ASSUME NEW q \in Procs, q # p PROVE Place(q)'
  OBVIOUS
<1>1. loc'[q] = loc[q] /\ Place(q)
  BY DEF Frame, CInv
<1>2. /\ loc[q].pc # "idle" => loc[q].old \in Names /\ dir'[loc[q].old] = dir[loc[q].old]
      /\ loc[q].new \in Names => dir'[loc[q].new] = dir[loc[q].new]
  BY InCallFacts DEF CInv, Frame, Uses
<1>3. OwnNames(q)'
  BY <1>1, <1>2 DEF Place, OwnNames, Idle, Frame
<1>4. ASSUME Builds(q) \/ Reclaims(q)
      PROVE  LET c == loc[q].c
             IN  (c \in mid' <=> c \in mid) /\ fin'[c] = fin[c] /\ cnt'[c] = cnt[c]
  <2>1. loc[q].c \in Chains
    BY <1>4, OnChain
  <2>2. CASE loc[p].c = loc[q].c
    BY <1>4, <2>1, <2>2 DEF CInv, Solo, SameFiles
  <2> QED BY <2>1, <2>2 DEF Frame
<1>5. OwnChain(q)'
  BY <1>1, <1>4 DEF Place, OwnChain, Builds, Reclaims
<1>6. OwnLinks(q)'
  BY <1>1 DEF Place, OwnLinks, Builds, NamesOf
<1> QED BY <1>3, <1>5, <1>6 DEF Place

LEMMA MembersKept ==
  ASSUME CInv \/ KInv, NEW p \in Procs, NEW S, Frame(p, S),
         \/ Builds(p) \/ Reclaims(p)
         \/ loc[p].c \in mid => loc[p].c \in mid',
         Member(p)' => loc'[p].c \in mid'
  PROVE  Members'
<1> SUFFICES ASSUME NEW q \in Procs, q # p, Member(q)'
             PROVE  loc'[q].c \in mid'
  BY DEF Members, Member
<1>1. loc'[q] = loc[q] /\ Member(q)
  BY DEF Frame, Member
<1>2. loc[q].c \in mid /\ loc[q].c \in Chains
  BY <1>1, OnChain DEF CInv, KInv, Members
<1>3. CASE loc[p].c = loc[q].c
  BY <1>1, <1>2, <1>3 DEF CInv, KInv, Solo, Member
<1> QED BY <1>1, <1>2, <1>3 DEF Frame

LEMMA SoloKept ==
  ASSUME CInv \/ KInv, NEW p \in Procs, NEW S, Frame(p, S),
         loc'[p].c \in Chains =>
           /\ loc'[p].c = loc[p].c /\ loc[p].pc # "u_name"
           /\ Builds(p)' => Builds(p)
           /\ Reclaims(p)' => Reclaims(p)
  PROVE  Solo'
<1>1. ASSUME NEW q \in Procs, NEW r \in Procs, q # r, loc'[q].c = loc'[r].c, loc'[q].c \in Chains
      PROVE  ~Builds(q)' /\ (Reclaims(q)' => loc'[r].pc = "u_name")
  <2>1. loc[q].c = loc[r].c /\ loc[q].c \in Chains
    BY <1>1 DEF Frame
  <2>2. ~Builds(q) /\ (Reclaims(q) => loc[r].pc = "u_name")
        /\ ~Builds(r) /\ (Reclaims(r) => loc[q].pc = "u_name")
    BY <1>1, <2>1 DEF CInv, KInv, Solo
  <2>3. CASE q = p
    <3>1. loc'[r] = loc[r]
      BY <1>1, <2>3 DEF Frame
    <3> QED BY <1>1, <2>2, <2>3, <3>1
  <2>4. CASE r = p
    <3>1. loc'[q] = loc[q]
      BY <1>1, <2>4 DEF Frame
    <3>2. loc[p].pc # "u_name"
      BY <1>1, <2>4
    <3> QED BY <2>2, <2>4, <3>1, <3>2 DEF Builds, Reclaims
  <2>5. CASE q # p /\ r # p
    <3>1. loc'[q] = loc[q] /\ loc'[r] = loc[r]
      BY <2>5 DEF Frame
    <3> QED BY <2>2, <3>1 DEF Builds, Reclaims
  <2> QED BY <2>3, <2>4, <2>5
<1> QED BY <1>1 DEF Solo, Builds, Reclaims

(* The names of a chain that q builds stay, whatever p does with its own. *)
LEMMA BuilderNames ==
  ASSUME CInv \/ KInv, NEW p \in Procs, NEW S, Frame(p, S),
         \A n \in S \cap Names :
           \/ dir'[n] \in FileObj \cup {None, ToMid(loc[p].c)}
           \/ \E m \in S \cap Names : dir'[n] = dir[m]
  PROVE  \A q \in Procs : q # p /\ Builds(q) => NamesOf(loc[q].c)' = NamesOf(loc[q].c)
<1> SUFFICES ASSUME NEW q \in Procs, q # p, Builds(q)
             PROVE  NamesOf(loc[q].c)' = NamesOf(loc[q].c)
  OBVIOUS
<1>1. loc'[q] = loc[q] /\ S \cap Uses(q) = {}
  BY DEF Frame
<1>2. loc[q].c \in Chains /\ loc[q].old \in Uses(q) /\ loc[q].c # loc[p].c
  BY OnChain DEF Uses, CInv, KInv, Solo
<1>3. NamesOf(loc[q].c) \subseteq Uses(q)
  BY <1>2 DEF CInv, KInv, Place, KPlace, OwnLinks
<1>4. ASSUME NEW n \in Names PROVE dir'[n] = ToMid(loc[q].c) <=> dir[n] = ToMid(loc[q].c)
  <2>1. CASE n \notin S
    BY <2>1 DEF Frame
  <2>2. CASE n \in S
    <3>1. \A m \in S \cap Names : dir[m] # ToMid(loc[q].c)
      BY <1>1, <1>3 DEF NamesOf
    <3>2. dir'[n] # ToMid(loc[q].c)
      BY <1>2, <2>2, <3>1, Kinds
    <3> QED BY <2>2, <3>1, <3>2
  <2> QED BY <2>1, <2>2
<1> QED BY <1>1, <1>4 DEF NamesOf

(* A step keeps the whole invariant if it keeps the parts about its own call
   and about the chains. *)
LEMMA StepDone ==
  ASSUME CInv, NEW p \in Procs, NEW S, Frame(p, S),
         \A n \in S \cap Names :
           \/ dir'[n] \in FileObj \cup {None, ToMid(loc[p].c)}
           \/ \E m \in S \cap Names : dir'[n] = dir[m],
         loc[p].pc = "u_name" => SameFiles,
         IInv', Apart', Place(p)', Solo', Members', \A c \in Chains : Chain(c)'
  PROVE  CInv'
<1>1. \A q \in Procs : q # p => Place(q)'
  BY BuilderNames, OthersPlace
<1>2. Procs \subseteq enabled'
  BY DEF Frame, CInv
<1> QED BY <1>1, <1>2 DEF CInv

(* Program points at which a call neither owes its chain anything nor is owed. *)
QuietAt == {"idle", "pick", "ren", "inc", "u_dec", "u_plain", "r_svc"}

Quiet(p, c) == loc[p].c = c => loc[p].pc \in QuietAt

LEMMA QuietSets ==
  ASSUME NEW p \in Procs, NEW S, Frame(p, S), NEW c, Quiet(p, c), Quiet(p, c)',
         NEW T, T \cap QuietAt = {}
  PROVE  InCall(c, T)' = InCall(c, T) /\ (On(c, T)' <=> On(c, T))
<1>1. \A q \in Procs : (loc'[q].c = c /\ loc'[q].pc \in T) <=> (loc[q].c = c /\ loc[q].pc \in T)
  BY DEF Frame, Quiet
<1> QED BY <1>1 DEF InCall, On

LEMMA QuietLeaves ==
  ASSUME NEW p \in Procs, NEW S, Frame(p, S), NEW c, Quiet(p, c), Quiet(p, c)', NEW n
  PROVE  Leaves(n, c)' <=> Leaves(n, c)
BY DEF Frame, Quiet, QuietAt, Leaves

LEMMA QuietFiles ==
  ASSUME NEW p \in Procs, NEW S, Frame(p, S), NEW c \in Chains, Quiet(p, c), Quiet(p, c)',
         c \in mid' <=> c \in mid, fin'[c] = fin[c], cnt'[c] = cnt[c], Files(c)
  PROVE  Files(c)'
<1>1. \A T : T \cap QuietAt = {} => (On(c, T)' <=> On(c, T))
  BY QuietSets
<1>2. /\ On(c, {"sym_mid", "rb_ren", "u_fin", "r_fin"})' <=> On(c, {"sym_mid", "rb_ren", "u_fin", "r_fin"})
      /\ On(c, {"rb_ren", "rb_cnt", "u_fin", "u_cnt", "r_fin", "r_cnt"})'
           <=> On(c, {"rb_ren", "rb_cnt", "u_fin", "u_cnt", "r_fin", "r_cnt"})
      /\ On(c, Building \cup {"u_mid", "r_mid"})' <=> On(c, Building \cup {"u_mid", "r_mid"})
  BY QuietSets DEF QuietAt, Building
<1>3. faults' = 0 => faults = 0
  BY DEF Frame
<1> QED BY <1>2, <1>3 DEF Files

(* A chain whose files and number of names stay. *)
LEMMA QuietBalance ==
  ASSUME NEW p \in Procs, NEW S, Frame(p, S), NEW c \in Chains, Quiet(p, c), Quiet(p, c)',
         c \in mid' <=> c \in mid, cnt'[c] = cnt[c],
         Cardinality(NamesOf(c)') = Cardinality(NamesOf(c)), Balance(c)
  PROVE  Balance(c)'
<1>1. /\ InCall(c, Building)' = InCall(c, Building)
      /\ InCall(c, {"sym_new", "rb_dec", "r_dec"})' = InCall(c, {"sym_new", "rb_dec", "r_dec"})
      /\ InCall(c, {"u_name", "u_mid"})' = InCall(c, {"u_name", "u_mid"})
  BY QuietSets DEF QuietAt, Building
<1> QED BY <1>1 DEF Balance

LEMMA QuietChain ==
  ASSUME NEW p \in Procs, NEW S, Frame(p, S), NEW c \in Chains, Quiet(p, c), Quiet(p, c)',
         c \in mid' <=> c \in mid, fin'[c] = fin[c], cnt'[c] = cnt[c],
         NamesOf(c)' = NamesOf(c), Chain(c)
  PROVE  Chain(c)'
<1>1. Files(c)'
  BY QuietFiles DEF Chain
<1>2. Balance(c)'
  BY QuietBalance DEF Chain
<1>3. Led(c)'
  <2>1. \A n : Leaves(n, c)' <=> Leaves(n, c)
    BY QuietLeaves
  <2>2. \A q \in Procs : (loc'[q].c = c /\ Reclaims(q)') => (loc[q].c = c /\ Reclaims(q))
    BY DEF Frame, Quiet, QuietAt, Reclaims
  <2> QED BY <2>1, <2>2 DEF Led, Chain
<1> QED BY <1>1, <1>2, <1>3 DEF Chain

(* A chain one of whose names moves: rename() of a link. *)
LEMMA MovedChain ==
  ASSUME Expected, CInv, NEW p \in Procs, NEW S, Frame(p, S),
         NEW c \in Chains, Quiet(p, c), Quiet(p, c)',
         c \in mid' <=> c \in mid, fin'[c] = fin[c], cnt'[c] = cnt[c],
         NEW x \in Names, NEW y \in Names, x \in NamesOf(c), y \notin NamesOf(c),
         NamesOf(c)' = (NamesOf(c) \ {x}) \cup {y}, ~Leaves(x, c)
  PROVE  Chain(c)'
<1>0. Chain(c)
  BY DEF CInv
<1>1. Files(c)'
  BY <1>0, QuietFiles DEF Chain
<1>2. Cardinality(NamesOf(c)') = Cardinality(NamesOf(c))
  <2>1. IsFiniteSet(NamesOf(c))
    BY FS_Subset DEF Expected, NamesOf
  <2>2. IsFiniteSet(NamesOf(c) \ {x}) /\ Cardinality(NamesOf(c) \ {x}) = Cardinality(NamesOf(c)) - 1
    BY <2>1, FS_RemoveElement
  <2>3. y \notin NamesOf(c) \ {x}
    OBVIOUS
  <2>4. Cardinality((NamesOf(c) \ {x}) \cup {y}) = Cardinality(NamesOf(c) \ {x}) + 1
    BY <2>2, <2>3, FS_AddElement
  <2>5. Cardinality(NamesOf(c)) \in Nat
    BY <2>1, FS_CardinalityType
  <2> QED BY <2>2, <2>4, <2>5
<1>3. Balance(c)'
  BY <1>0, <1>2, QuietBalance DEF Chain
<1>4. Led(c)'
  <2>1. \A n : Leaves(n, c)' <=> Leaves(n, c)
    BY QuietLeaves
  <2>2. \A q \in Procs : (loc'[q].c = c /\ Reclaims(q)') => (loc[q].c = c /\ Reclaims(q))
    BY DEF Frame, Quiet, QuietAt, Reclaims
  <2>3. c \in mid /\ \A q \in Procs : ~(loc[q].c = c /\ Reclaims(q))
    BY <1>0 DEF Chain, Led
  <2> QED BY <1>0, <2>1, <2>2, <2>3 DEF Led, Chain
<1> QED BY <1>1, <1>3, <1>4 DEF Chain

(* The calls on a chain, counted before and after a step of p. *)
LEMMA Counted ==
  ASSUME Expected \/ Survivable, NEW p \in Procs, NEW S, Frame(p, S), NEW c, NEW T
  PROVE  /\ Cardinality(InCall(c, T)) \in Nat
         /\ Cardinality(InCall(c, T)') \in Nat
         /\ LET is  == loc[p].c = c /\ loc[p].pc \in T
                isN == loc'[p].c = c /\ loc'[p].pc \in T
            IN  /\ is <=> isN => Cardinality(InCall(c, T)') = Cardinality(InCall(c, T))
                /\ ~is /\ isN => Cardinality(InCall(c, T)') = Cardinality(InCall(c, T)) + 1
                /\ is /\ ~isN => Cardinality(InCall(c, T)') = Cardinality(InCall(c, T)) - 1
<1>1. IsFiniteSet(InCall(c, T)) /\ IsFiniteSet(InCall(c, T)')
  <2>1. InCall(c, T) \subseteq Procs /\ InCall(c, T)' \subseteq Procs
    BY DEF InCall
  <2> QED BY <2>1, FS_Subset DEF Expected, Survivable
<1>2. Cardinality(InCall(c, T)) \in Nat /\ Cardinality(InCall(c, T)') \in Nat
  BY <1>1, FS_CardinalityType
<1>3. \A q \in Procs : q # p => (q \in InCall(c, T)' <=> q \in InCall(c, T))
  BY DEF Frame, InCall
<1>4. CASE p \in InCall(c, T)' <=> p \in InCall(c, T)
  <2>1. InCall(c, T)' = InCall(c, T)
    <3>1. InCall(c, T) \subseteq Procs /\ InCall(c, T)' \subseteq Procs
      BY DEF InCall
    <3> QED BY <3>1, <1>3, <1>4
  <2> QED BY <1>2, <1>4, <2>1 DEF InCall
<1>5. CASE p \in InCall(c, T)' /\ p \notin InCall(c, T)
  <2>1. InCall(c, T)' = InCall(c, T) \cup {p}
    BY <1>3, <1>5 DEF InCall
  <2>2. Cardinality(InCall(c, T) \cup {p}) = Cardinality(InCall(c, T)) + 1
    BY <1>1, <1>5, FS_AddElement
  <2> QED BY <1>2, <1>5, <2>1, <2>2 DEF InCall
<1>6. CASE p \notin InCall(c, T)' /\ p \in InCall(c, T)
  <2>1. InCall(c, T)' = InCall(c, T) \ {p}
    BY <1>3, <1>6 DEF InCall
  <2>2. Cardinality(InCall(c, T) \ {p}) = Cardinality(InCall(c, T)) - 1
    BY <1>1, <1>6, FS_RemoveElement
  <2> QED BY <1>2, <1>6, <2>1, <2>2 DEF InCall
<1> QED BY <1>4, <1>5, <1>6

(* The names of a chain, when one entry at most changes. *)
LEMMA NamesCounted ==
  ASSUME Expected \/ Survivable, NEW n, NEW c, \A m \in Names : m = n \/ dir'[m] = dir[m]
  PROVE  /\ Cardinality(NamesOf(c)) \in Nat
         /\ Cardinality(NamesOf(c)') \in Nat
         /\ (n \in NamesOf(c)' <=> n \in NamesOf(c)) => NamesOf(c)' = NamesOf(c)
         /\ n \in NamesOf(c)' /\ n \notin NamesOf(c) =>
              /\ NamesOf(c)' = NamesOf(c) \cup {n}
              /\ Cardinality(NamesOf(c)') = Cardinality(NamesOf(c)) + 1
         /\ n \notin NamesOf(c)' /\ n \in NamesOf(c) =>
              /\ NamesOf(c)' = NamesOf(c) \ {n}
              /\ Cardinality(NamesOf(c)') = Cardinality(NamesOf(c)) - 1
<1>1. IsFiniteSet(NamesOf(c)) /\ IsFiniteSet(NamesOf(c)')
  <2>1. NamesOf(c) \subseteq Names /\ NamesOf(c)' \subseteq Names
    BY DEF NamesOf
  <2> QED BY <2>1, FS_Subset DEF Expected, Survivable
<1>2. Cardinality(NamesOf(c)) \in Nat /\ Cardinality(NamesOf(c)') \in Nat
  BY <1>1, FS_CardinalityType
<1>3. \A m \in Names : m # n => (m \in NamesOf(c)' <=> m \in NamesOf(c))
  BY DEF NamesOf
<1>4. ASSUME n \in NamesOf(c)' <=> n \in NamesOf(c) PROVE NamesOf(c)' = NamesOf(c)
  <2>1. NamesOf(c) \subseteq Names /\ NamesOf(c)' \subseteq Names
    BY DEF NamesOf
  <2> QED BY <1>3, <1>4, <2>1
<1>5. ASSUME n \in NamesOf(c)', n \notin NamesOf(c)
      PROVE  NamesOf(c)' = NamesOf(c) \cup {n} /\ Cardinality(NamesOf(c)') = Cardinality(NamesOf(c)) + 1
  <2>1. NamesOf(c)' = NamesOf(c) \cup {n}
    BY <1>3, <1>5 DEF NamesOf
  <2>2. Cardinality(NamesOf(c) \cup {n}) = Cardinality(NamesOf(c)) + 1
    BY <1>1, <1>5, FS_AddElement
  <2> QED BY <2>1, <2>2
<1>6. ASSUME n \notin NamesOf(c)', n \in NamesOf(c)
      PROVE  NamesOf(c)' = NamesOf(c) \ {n} /\ Cardinality(NamesOf(c)') = Cardinality(NamesOf(c)) - 1
  <2>1. NamesOf(c)' = NamesOf(c) \ {n}
    BY <1>3, <1>6 DEF NamesOf
  <2>2. Cardinality(NamesOf(c) \ {n}) = Cardinality(NamesOf(c)) - 1
    BY <1>1, <1>6, FS_RemoveElement
  <2> QED BY <2>1, <2>2
<1> QED BY <1>2, <1>4, <1>5, <1>6

(* A call that relies on its chain: the chain is there, built and counted. *)
LEMMA MemberChain ==
  ASSUME CInv, NEW p \in Procs, NEW c \in Chains, loc[p].c = c,
         Member(p) \/ (loc[p].pc = "sym_new" /\ loc[p].made)
  PROVE  /\ c \in mid
         /\ \A q \in Procs : q # p /\ loc[q].c = c => ~Builds(q) /\ ~Reclaims(q)
         /\ InCall(c, Building) = {} /\ ~On(c, Building \cup {"u_mid", "r_mid"})
         /\ cnt[c] >= 1
         /\ cnt[c] = Cardinality(NamesOf(c))
                     + Cardinality(InCall(c, {"sym_new", "rb_dec", "r_dec"}))
                     - Cardinality(InCall(c, {"u_name", "u_mid"}))
<1>1. c \in mid
  BY DEF CInv, Members, Place, OwnChain
<1>2. \A q \in Procs : q # p /\ loc[q].c = c => ~Builds(q) /\ ~Reclaims(q)
  BY DEF CInv, Solo, Member
<1>3. \A q \in Procs : loc[q].c = c => loc[q].pc \notin Building \cup {"u_mid", "r_mid"}
  BY <1>2 DEF Builds, Reclaims, Building, Member
<1>4. InCall(c, Building) = {} /\ ~On(c, Building \cup {"u_mid", "r_mid"})
  BY <1>3 DEF InCall, On
<1>5. Files(c) /\ Balance(c)
  BY DEF CInv, Chain
<1> QED BY <1>1, <1>2, <1>4, <1>5 DEF Files, Balance

(* Every call that has counted down a name of the chain has a name of its own:
   they are as many as the names they come from, and when they are as many as
   the names of a set, each of these is one of theirs. *)
LEMMA Droppers ==
  ASSUME Expected \/ Survivable, CInv \/ KInv, NEW c \in Chains, NEW T \in SUBSET Names,
         \A p \in InCall(c, {"u_name", "u_mid"}) : loc[p].old \in T
  PROVE  /\ Cardinality(InCall(c, {"u_name", "u_mid"})) <= Cardinality(T)
         /\ Cardinality(InCall(c, {"u_name", "u_mid"})) = Cardinality(T) =>
              \A n \in T : \E p \in InCall(c, {"u_name", "u_mid"}) : loc[p].old = n
<1> DEFINE D == InCall(c, {"u_name", "u_mid"})
           f == [p \in D |-> loc[p].old]
<1>1. IsFiniteSet(T)
  BY FS_Subset DEF Expected, Survivable
<1>2. \A p, q \in D : loc[p].old = loc[q].old => p = q
  BY DEF CInv, KInv, Apart, Uses, InCall
<1>3. f \in Injection(D, T)
  BY <1>2 DEF Injection, IsInjective
<1>4. /\ Cardinality(D) <= Cardinality(T)
      /\ Cardinality(D) = Cardinality(T) <=> f \in Surjection(D, T)
  BY <1>1, <1>3, FS_Injection
<1>5. f \in Surjection(D, T) => \A n \in T : \E p \in D : loc[p].old = n
  BY DEF Surjection
<1> QED BY <1>4, <1>5

(* ... all of them names of the chain. *)
LEMMA DroppersNames ==
  ASSUME CInv \/ KInv, NEW c \in Chains
  PROVE  \A p \in InCall(c, {"u_name", "u_mid"}) : loc[p].old \in NamesOf(c)
<1> SUFFICES ASSUME NEW p \in InCall(c, {"u_name", "u_mid"}) PROVE loc[p].old \in NamesOf(c)
  OBVIOUS
<1>1. p \in Procs /\ loc[p].c = c /\ loc[p].pc \in {"u_name", "u_mid"}
  BY DEF InCall
<1>2. loc[p].old \in Names
  BY <1>1, InCallFacts DEF CInv, KInv, Locals
<1>3. OwnNames(p) \/ KOwnNames(p)
  BY <1>1 DEF CInv, KInv, Place, KPlace
<1> QED BY <1>1, <1>2, <1>3 DEF NamesOf, OwnNames, KOwnNames

(* The numbers of a chain with a call on it that has not dropped its own name. *)
LEMMA Numbers ==
  ASSUME Expected \/ Survivable, CInv \/ KInv, NEW c \in Chains
  PROVE  /\ Cardinality(NamesOf(c)) \in Nat
         /\ Cardinality(InCall(c, {"sym_new", "rb_dec", "r_dec"})) \in Nat
         /\ Cardinality(InCall(c, {"u_name", "u_mid"})) \in Nat
         /\ \A p \in InCall(c, {"sym_new", "rb_dec", "r_dec"}) :
              /\ Cardinality(InCall(c, {"sym_new", "rb_dec", "r_dec"})) >= 1
              /\ Cardinality(InCall(c, {"sym_new", "rb_dec", "r_dec"})) = 1 =>
                   InCall(c, {"sym_new", "rb_dec", "r_dec"}) = {p}
         /\ Cardinality(InCall(c, {"sym_new", "rb_dec", "r_dec"})) = 0 =>
              InCall(c, {"sym_new", "rb_dec", "r_dec"}) = {}
<1> DEFINE P == InCall(c, {"sym_new", "rb_dec", "r_dec"})
           D == InCall(c, {"u_name", "u_mid"})
<1>1. IsFiniteSet(NamesOf(c)) /\ IsFiniteSet(P) /\ IsFiniteSet(D)
  <2>1. NamesOf(c) \in SUBSET Names /\ P \in SUBSET Procs /\ D \in SUBSET Procs
    BY DEF NamesOf, InCall
  <2> QED BY <2>1, FS_Subset DEF Expected, Survivable
<1>2. Cardinality(NamesOf(c)) \in Nat /\ Cardinality(P) \in Nat /\ Cardinality(D) \in Nat
  BY <1>1, FS_CardinalityType
<1>3. Cardinality(P) = 0 => P = {}
  BY <1>1, FS_EmptySet
<1>4. ASSUME NEW p \in P PROVE Cardinality(P) >= 1 /\ (Cardinality(P) = 1 => P = {p})
  <2>1. Cardinality(P) >= 1
    BY <1>2, <1>3, <1>4
  <2>2. ASSUME Cardinality(P) = 1 PROVE P = {p}
    <3>1. IsFiniteSet(P \ {p}) /\ Cardinality(P \ {p}) = 0
      BY <1>1, <1>4, <2>2, FS_RemoveElement
    <3>2. P \ {p} = {}
      BY <3>1, FS_EmptySet
    <3> QED BY <3>2, <1>4
  <2> QED BY <2>1, <2>2
<1> QED BY <1>2, <1>3, <1>4

(* rb_dec: beside the link it takes back, the chain has the name it was made
   from, so the count stays above zero. *)
LEMMA SpareName ==
  ASSUME Expected, CInv, NEW p \in Procs, NEW c \in Chains, loc[p].c = c, loc[p].pc = "rb_dec"
  PROVE  cnt[c] >= 2
<1> DEFINE P == InCall(c, {"sym_new", "rb_dec", "r_dec"})
           D == InCall(c, {"u_name", "u_mid"})
           T == NamesOf(c) \ {loc[p].old}
<1>1. cnt[c] = Cardinality(NamesOf(c)) + Cardinality(P) - Cardinality(D)
  BY MemberChain DEF Member
<1>2. loc[p].old \in NamesOf(c)
  BY OnChain DEF Member, CInv, Place, OwnNames, NamesOf
<1>3. p \in P /\ \A q \in D : loc[q].old # loc[p].old
  BY <1>2 DEF InCall, CInv, Apart, Uses, NamesOf
<1>4. \A q \in D : loc[q].old \in T
  BY <1>3, DroppersNames
<1>5. T \in SUBSET Names /\ IsFiniteSet(NamesOf(c))
  <2>1. NamesOf(c) \in SUBSET Names
    BY DEF NamesOf
  <2> QED BY <2>1, FS_Subset DEF Expected
<1>6. Cardinality(D) <= Cardinality(T)
  BY <1>4, <1>5, Droppers
<1>7. Cardinality(T) = Cardinality(NamesOf(c)) - 1
  <2>1. \A x \in NamesOf(c) : Cardinality(NamesOf(c) \ {x}) = Cardinality(NamesOf(c)) - 1
    BY <1>5, FS_RemoveElement
  <2> QED BY <1>2, <2>1
<1>8. Cardinality(P) >= 1 /\ Cardinality(P) \in Nat /\ Cardinality(D) \in Nat /\ Cardinality(NamesOf(c)) \in Nat
  BY <1>3, Numbers
<1> QED BY <1>1, <1>6, <1>7, <1>8

(* The countdown that reads 0: every name left, but the one the call itself
   removes, belongs to an unlink() past the count, and no other call is on the
   chain. *)
LEMMA NobodyElse ==
  ASSUME Expected \/ Survivable, CInv \/ KInv, NEW p \in Procs, NEW c \in Chains, loc[p].c = c,
         loc[p].pc \in {"u_dec", "r_dec"},
         \A q \in Procs : q # p /\ loc[q].c = c => ~Builds(q) /\ ~Reclaims(q),
         1 + Cardinality(InCall(c, {"u_name", "u_mid"}))
           >= Cardinality(NamesOf(c)) + Cardinality(InCall(c, {"sym_new", "rb_dec", "r_dec"}))
  PROVE  /\ \A n \in NamesOf(c) : \/ loc[p].pc = "u_dec" /\ n = loc[p].old
                                  \/ \E q \in Procs : /\ q # p /\ loc[q].old = n /\ loc[q].c = c
                                                      /\ loc[q].pc = "u_name"
         /\ \A q \in Procs : q # p /\ loc[q].c = c => loc[q].pc = "u_name"
<1> DEFINE P == InCall(c, {"sym_new", "rb_dec", "r_dec"})
           D == InCall(c, {"u_name", "u_mid"})
           T == IF loc[p].pc = "u_dec" THEN NamesOf(c) \ {loc[p].old} ELSE NamesOf(c)
<1>1. /\ 1 + Cardinality(D) >= Cardinality(NamesOf(c)) + Cardinality(P)
      /\ \A q \in Procs : q # p /\ loc[q].c = c => ~Builds(q) /\ ~Reclaims(q)
  OBVIOUS
<1>2. /\ Cardinality(P) \in Nat /\ Cardinality(D) \in Nat /\ Cardinality(NamesOf(c)) \in Nat
      /\ loc[p].pc = "r_dec" => Cardinality(P) >= 1 /\ (Cardinality(P) = 1 => P = {p})
      /\ Cardinality(P) = 0 => P = {}
  BY Numbers DEF InCall
<1>3. T \in SUBSET Names /\ IsFiniteSet(NamesOf(c))
  <2>1. NamesOf(c) \in SUBSET Names
    BY DEF NamesOf
  <2> QED BY <2>1, FS_Subset DEF Expected, Survivable
<1>4. loc[p].pc = "u_dec" => loc[p].old \in NamesOf(c) /\ \A q \in D : loc[q].old # loc[p].old
  <2> SUFFICES ASSUME loc[p].pc = "u_dec"
               PROVE  loc[p].old \in NamesOf(c) /\ \A q \in D : loc[q].old # loc[p].old
    OBVIOUS
  <2>1. loc[p].old \in NamesOf(c)
    BY OnChain DEF Member, CInv, KInv, Place, KPlace, OwnNames, KOwnNames, NamesOf
  <2> QED BY <2>1 DEF InCall, CInv, KInv, Apart, Uses, NamesOf
<1>5. \A q \in D : loc[q].old \in T
  BY <1>4, DroppersNames
<1>6. /\ Cardinality(D) <= Cardinality(T)
      /\ Cardinality(D) = Cardinality(T) => \A n \in T : \E q \in D : loc[q].old = n
  BY <1>3, <1>5, Droppers
<1>7. loc[p].pc = "u_dec" => Cardinality(T) = Cardinality(NamesOf(c)) - 1
  <2>1. \A x \in NamesOf(c) : Cardinality(NamesOf(c) \ {x}) = Cardinality(NamesOf(c)) - 1
    BY <1>3, FS_RemoveElement
  <2> QED BY <1>4, <2>1
<1>8. P \subseteq {p} /\ Cardinality(D) = Cardinality(T)
  <2>1. CASE loc[p].pc = "u_dec"
    BY <1>1, <1>2, <1>6, <1>7, <2>1
  <2>2. CASE loc[p].pc = "r_dec"
    BY <1>1, <1>2, <1>6, <2>2
  <2> QED BY <2>1, <2>2
<1>9. \A n \in T : \E q \in Procs : loc[q].old = n /\ loc[q].c = c /\ loc[q].pc \in {"u_name", "u_mid"}
  BY <1>6, <1>8 DEF InCall
<1>10. \A n \in T : \E q \in Procs : q # p /\ loc[q].old = n /\ loc[q].c = c /\ loc[q].pc = "u_name"
  BY <1>1, <1>9 DEF Reclaims
<1>11. ASSUME NEW q \in Procs, q # p, loc[q].c = c PROVE loc[q].pc = "u_name"
  <2>1. ~Builds(q) /\ ~Reclaims(q) /\ q \notin P
    BY <1>1, <1>8, <1>11
  <2>2. (OwnNames(q) \/ KOwnNames(q)) /\ loc[q].pc \in PCs /\ loc[q].made \in BOOLEAN
    BY InCallFacts DEF CInv, KInv, Place, KPlace, Locals
  <2>3. loc[q].pc \in {"idle", "pick", "u_plain", "inc", "u_dec", "r_svc", "u_name"}
    BY <2>1, <2>2, <1>11 DEF Builds, Reclaims, InCall, PCs
  <2>4. loc[q].pc \notin {"idle", "pick", "u_plain"}
    BY <2>2, <1>11, Kinds DEF OwnNames, KOwnNames, Idle
  <2>5. ASSUME NEW n \in Uses(q), dir[n] = ToMid(c) PROVE loc[q].pc = "u_name"
    <3>1. n \notin Uses(p) /\ n \in T
      BY <2>5, <1>11 DEF CInv, KInv, Apart, Uses, NamesOf
    <3>2. PICK r \in Procs : loc[r].old = n /\ loc[r].pc = "u_name"
      BY <1>10, <3>1
    <3>3. r = q
      BY <3>1, <3>2, <2>5 DEF CInv, KInv, Apart, Uses
    <3> QED BY <3>2, <3>3
  <2>6. loc[q].pc # "idle" => loc[q].old \in Names
    BY InCallFacts DEF CInv, KInv
  <2>7. CASE loc[q].pc \in {"inc", "u_dec"}
    BY <2>2, <2>5, <2>6, <2>7, <1>11 DEF OwnNames, KOwnNames, Uses
  <2>8. CASE loc[q].pc = "r_svc"
    BY <2>2, <2>5, <2>8, <1>11, Kinds DEF OwnNames, KOwnNames, Uses
  <2> QED BY <2>3, <2>4, <2>7, <2>8
<1> QED BY <1>10, <1>11 DEF Uses

LEMMA LastOne ==
  ASSUME Expected, CInv, NEW p \in Procs, NEW c \in Chains, loc[p].c = c,
         loc[p].pc \in {"u_dec", "r_dec"}, cnt[c] = 1
  PROVE  /\ \A n \in NamesOf(c) : \/ loc[p].pc = "u_dec" /\ n = loc[p].old
                                  \/ \E q \in Procs : /\ q # p /\ loc[q].old = n /\ loc[q].c = c
                                                      /\ loc[q].pc = "u_name"
         /\ \A q \in Procs : q # p /\ loc[q].c = c => loc[q].pc = "u_name"
<1>1. /\ \A q \in Procs : q # p /\ loc[q].c = c => ~Builds(q) /\ ~Reclaims(q)
      /\ 1 = Cardinality(NamesOf(c)) + Cardinality(InCall(c, {"sym_new", "rb_dec", "r_dec"}))
              - Cardinality(InCall(c, {"u_name", "u_mid"}))
  BY MemberChain DEF Member
<1>2. 1 + Cardinality(InCall(c, {"u_name", "u_mid"}))
        >= Cardinality(NamesOf(c)) + Cardinality(InCall(c, {"sym_new", "rb_dec", "r_dec"}))
  BY <1>1, Numbers
<1> QED BY <1>1, <1>2, NobodyElse

(* The locals after a step. *)
LEMMA GotoIs ==
  ASSUME CInv \/ KInv, NEW p \in Procs, NEW l, Goto(p, l)
  PROVE  /\ \A q \in Procs : q # p => loc'[q] = loc[q]
         /\ loc'[p].pc = l /\ loc'[p].old = loc[p].old /\ loc'[p].new = loc[p].new
         /\ loc'[p].c = loc[p].c /\ loc'[p].made = loc[p].made
         /\ Uses(p)' = Uses(p)
<1>1. loc \in [Procs -> Locals]
  BY DEF CInv, KInv, IInv, TypeOK
<1>2. loc' = [loc EXCEPT ![p] = [loc[p] EXCEPT !.pc = l]]
  BY <1>1 DEF Goto
<1>3. loc'[p] = [loc[p] EXCEPT !.pc = l] /\ loc[p] \in Locals
  BY <1>1, <1>2
<1> QED BY <1>1, <1>2, <1>3 DEF Uses, Locals

LEMMA ReturnIs ==
  ASSUME CInv \/ KInv, NEW p \in Procs, Return(p)
  PROVE  /\ \A q \in Procs : q # p => loc'[q] = loc[q]
         /\ loc'[p].pc = "idle" /\ loc'[p].c = NoChain
         /\ Uses(p)' = {} /\ Place(p)' /\ KPlace(p)'
         /\ ~Builds(p)' /\ ~Reclaims(p)' /\ ~Member(p)'
<1>1. loc \in [Procs -> Locals]
  BY DEF CInv, KInv, IInv, TypeOK
<1>2. loc'[p] = Idle
  BY <1>1 DEF Return
<1>3. Idle.pc = "idle" /\ ~Idle.made /\ Idle.c = NoChain /\ Idle.old = NoName /\ Idle.new = NoName
  BY DEF Idle
<1>4. ~Builds(p)' /\ ~Reclaims(p)' /\ ~Member(p)'
  BY <1>2, <1>3 DEF Builds, Reclaims, Member
<1>5. Place(p)' /\ KPlace(p)'
  <2>1. OwnNames(p)' /\ KOwnNames(p)'
    BY <1>2, <1>3 DEF OwnNames, KOwnNames
  <2>2. OwnChain(p)' /\ KOwnChain(p)' /\ OwnLinks(p)'
    BY <1>2, <1>3, <1>4 DEF OwnChain, KOwnChain, OwnLinks
  <2> QED BY <2>1, <2>2 DEF Place, KPlace
<1>6. Uses(p)' = {}
  BY <1>2, <1>3, L2sAssumption DEF Uses
<1> QED BY <1>1, <1>2, <1>3, <1>4, <1>5, <1>6 DEF Return

LEMMA FaultsGrow ==
  ASSUME CInv \/ KInv, NEW p, NEW cond, Fails(p, cond) \/ UNCHANGED faults
  PROVE  faults' = 0 => faults = 0
BY DEF Fails, CInv, KInv, IInv, TypeOK

LEMMA NoFault ==
  ASSUME Expected, NEW p, NEW cond, Fails(p, cond)
  PROVE  /\ loc[p].pc \notin LinkPoints => cond
         /\ ~cond => faults' = faults + 1
BY DEF Fails, Expected

(* The frame of a step of p on its own names and chain. *)
LEMMA OwnFrame ==
  ASSUME CInv \/ KInv, NEW p \in Procs, NEW S, S \subseteq Uses(p),
         \A q \in Procs : q # p => loc'[q] = loc[q],
         UNCHANGED enabled, faults' = 0 => faults = 0,
         \A n \in Names : n \in S \/ dir'[n] = dir[n],
         \A d \in Chains : d # loc[p].c =>
           (d \in mid' <=> d \in mid) /\ fin'[d] = fin[d] /\ cnt'[d] = cnt[d]
  PROVE  Frame(p, S)
BY DEF Frame, CInv, KInv, Apart

(* A step of p on its own chain. *)
LEMMA OwnStep ==
  ASSUME CInv, IInv', NEW p \in Procs, NEW c \in Chains, loc[p].c = c,
         NEW S, Frame(p, S), loc'[p].c \in {c, NoChain}, Uses(p)' \subseteq Uses(p),
         \A n \in S \cap Names : {dir[n], dir'[n]} \subseteq FileObj \cup {None, ToMid(c)},
         loc[p].pc = "u_name" => SameFiles,
         Place(p)', Solo', Members', Chain(c)'
  PROVE  CInv'
<1>1. ASSUME NEW d \in Chains, d # c PROVE Chain(d)'
  <2>1. \A n \in Names : dir'[n] = ToMid(d) <=> dir[n] = ToMid(d)
    BY <1>1, Kinds DEF Frame
  <2>2. NamesOf(d)' = NamesOf(d)
    BY <2>1 DEF NamesOf
  <2>3. Quiet(p, d) /\ Quiet(p, d)'
    BY <1>1, Kinds DEF Quiet
  <2> QED BY <1>1, <2>2, <2>3, QuietChain DEF Frame, CInv
<1>2. Apart'
  <2> SUFFICES ASSUME NEW q \in Procs, NEW r \in Procs, q # r PROVE (Uses(q) \cap Uses(r) = {})'
    BY DEF Apart
  <2>1. \A s \in Procs : Uses(s)' \subseteq Uses(s)
    BY DEF Frame, Uses
  <2> QED BY <2>1 DEF CInv, Apart
<1> QED BY <1>1, <1>2, StepDone

(* ... that does not change what the call is to its chain. *)
LEMMA SameRole ==
  ASSUME CInv \/ KInv, NEW p \in Procs, NEW c \in Chains, loc[p].c = c, NEW S, Frame(p, S),
         loc'[p].c \in {c, NoChain}, loc[p].pc # "u_name" \/ loc'[p].c = NoChain,
         Builds(p)' => Builds(p), Reclaims(p)' => Reclaims(p),
         Member(p)' => loc'[p].c = c /\ c \in mid',
         Builds(p) \/ Reclaims(p) \/ c \in mid' \/ c \notin mid
  PROVE  Solo' /\ Members'
<1>1. Solo'
  BY SoloKept, Kinds
<1>2. Members'
  BY MembersKept
<1> QED BY <1>1, <1>2

(* A builder is alone on its chain. *)
LEMMA Alone ==
  ASSUME CInv \/ KInv, NEW p \in Procs, NEW c \in Chains, loc[p].c = c, NEW S, Frame(p, S), Builds(p)
  PROVE  /\ \A q \in Procs : q # p => loc[q].c # c /\ loc'[q].c # c
         /\ \A T : On(c, T) <=> loc[p].pc \in T
         /\ \A T : On(c, T)' <=> loc'[p].c = c /\ loc'[p].pc \in T
<1>1. \A q \in Procs : q # p => loc[q].c # c /\ loc'[q].c # c
  BY DEF CInv, KInv, Solo, Frame
<1>2. \A T : On(c, T) <=> loc[p].pc \in T
  BY <1>1 DEF On
<1>3. \A T : On(c, T)' <=> loc'[p].c = c /\ loc'[p].pc \in T
  BY <1>1 DEF On
<1> QED BY <1>1, <1>2, <1>3

(* ... and one that goes on building leaves only the files to be looked at. *)
LEMMA BuilderChain ==
  ASSUME CInv, NEW p \in Procs, NEW c \in Chains, loc[p].c = c, NEW S, Frame(p, S), Builds(p),
         loc'[p].c = c, Builds(p)', c \in mid' => loc'[p].pc \in Building,
         NamesOf(c)' = {} \/ c \in mid',
         fin'[c] \in FileObj \cup {None}, c \in mid' => fin'[c] \in FileObj,
         fin'[c] # None => c \in mid' \/ loc'[p].pc \in {"sym_mid", "rb_ren"},
         cnt'[c] # Absent /\ faults' = 0 => c \in mid' \/ loc'[p].pc \in {"rb_ren", "rb_cnt"}
  PROVE  Chain(c)'
<1>1. \A q \in Procs : q # p => loc'[q].c # c
  BY Alone
<1>2. \A T : On(c, T)' <=> loc'[p].pc \in T
  BY Alone
<1>3. Files(c)'
  BY <1>2 DEF Files
<1>4. Led(c)'
  BY <1>1 DEF Led, Builds, Reclaims
<1>5. Balance(c)'
  BY DEF Balance, InCall
<1> QED BY <1>3, <1>4, <1>5 DEF Chain

LEMMA RenameToFinalCInv ==
  ASSUME Expected, CInv, IInv', NEW p \in Procs, RenameToFinal(p)
  PROVE  CInv'
<1>1. PICK c \in Chains : loc[p].c = c
  BY OnChain DEF RenameToFinal, At, Builds
<1>2. PICK a \in Names : loc[p].old = a
  BY OnChain DEF RenameToFinal, At, Builds
<1>3. Builds(p) /\ loc[p].pc = "ren" /\ OwnNames(p) /\ OwnChain(p) /\ OwnLinks(p) /\ Chain(c)
  BY <1>1 DEF RenameToFinal, At, Builds, CInv, Place
<1>4. fin \in [Chains -> Obj] /\ dir \in [Names -> Obj]
  BY DEF CInv, IInv, TypeOK
<1>5. dir[a] \in FileObj /\ dir[a] # None /\ NamesOf(c) = {} /\ ~loc[p].made /\ c \notin mid
  BY <1>1, <1>2, <1>3, Kinds DEF OwnNames, OwnLinks, OwnChain
<1>6. CASE Goto(p, "sym_mid") /\ dir' = [dir EXCEPT ![a] = None]
           /\ fin' = [fin EXCEPT ![c] = dir[a]] /\ UNCHANGED faults
  <2>1. /\ \A q \in Procs : q # p => loc'[q] = loc[q]
        /\ loc'[p].pc = "sym_mid" /\ loc'[p].c = c /\ loc'[p].old = a /\ loc'[p].new = loc[p].new
        /\ loc'[p].made = loc[p].made /\ Uses(p)' = Uses(p)
    BY <1>1, <1>2, <1>6, GotoIs
  <2>2. Frame(p, {a})
    BY <1>1, <1>2, <1>4, <1>6, <2>1, OwnFrame DEF RenameToFinal, Uses
  <2>3. NamesOf(c)' = {}
    BY <1>4, <1>5, <1>6, Kinds DEF NamesOf
  <2>4. Builds(p)' /\ ~Reclaims(p)' /\ ~Member(p)'
    BY <2>1 DEF Builds, Reclaims, Member
  <2>5. fin'[c] \in FileObj /\ c \notin mid' /\ cnt' = cnt
    BY <1>4, <1>5, <1>6 DEF RenameToFinal
  <2>6. Place(p)'
    <3>1. OwnNames(p)'
      BY <1>2, <1>3, <1>4, <1>5, <1>6, <2>1 DEF OwnNames
    <3>2. OwnChain(p)' /\ OwnLinks(p)'
      BY <2>1, <2>3, <2>5 DEF OwnChain, OwnLinks
    <3> QED BY <3>1, <3>2 DEF Place
  <2>7. Solo' /\ Members'
    BY <1>1, <1>3, <2>1, <2>2, <2>4, SameRole
  <2>8. ~(cnt[c] # Absent /\ faults = 0)
    <3>1. ~On(c, {"rb_ren", "rb_cnt", "u_fin", "u_cnt", "r_fin", "r_cnt"})
      BY <1>1, <1>3, <2>2, Alone
    <3> QED BY <1>3, <1>5, <3>1 DEF Chain, Files
  <2>9. Chain(c)'
    BY <1>1, <1>3, <1>6, <2>1, <2>2, <2>3, <2>4, <2>5, <2>8, BuilderChain
  <2> QED
    BY <1>1, <1>3, <1>4, <1>5, <1>6, <2>1, <2>2, <2>6, <2>7, <2>9, OwnStep
<1>7. CASE Return(p) /\ UNCHANGED <<dir, fin>> /\ Fails(p, dir[a] = None)
  <2>1. Frame(p, {})
    BY <1>7, ReturnIs, OwnFrame, FaultsGrow DEF RenameToFinal
  <2>2. Solo' /\ Members'
    BY <1>1, <1>3, <1>7, <2>1, ReturnIs, SameRole
  <2>3. NamesOf(c)' = NamesOf(c) /\ Quiet(p, c) /\ Quiet(p, c)'
    BY <1>1, <1>3, <1>7, ReturnIs, Kinds DEF NamesOf, Quiet, QuietAt
  <2>4. Chain(c)'
    BY <1>3, <1>7, <2>1, <2>3, QuietChain DEF RenameToFinal
  <2> QED
    BY <1>1, <1>3, <1>7, <2>1, <2>2, <2>4, ReturnIs, OwnStep
<1> QED BY <1>1, <1>2, <1>6, <1>7 DEF RenameToFinal

(* What a builder starts its step from. *)
LEMMA BuilderIs ==
  ASSUME CInv, NEW p \in Procs, Builds(p)
  PROVE  \E c \in Chains, a \in Names :
           /\ loc[p].c = c /\ loc[p].old = a
           /\ OwnNames(p) /\ OwnChain(p) /\ OwnLinks(p) /\ Chain(c)
           /\ fin \in [Chains -> Obj] /\ dir \in [Names -> Obj] /\ mid \subseteq Chains
           /\ cnt \in [Chains -> 0 .. MaxCount \cup {Absent}] /\ faults \in Nat
           /\ loc[p].made \in BOOLEAN
BY OnChain, InCallFacts DEF CInv, Place, IInv, TypeOK, Locals

LEMMA SymlinkMidCInv ==
  ASSUME Expected, CInv, IInv', NEW p \in Procs, SymlinkMid(p)
  PROVE  CInv'
<1>1. Builds(p) /\ loc[p].pc = "sym_mid"
  BY DEF SymlinkMid, At, Builds
<1>2. PICK c \in Chains, a \in Names :
        /\ loc[p].c = c /\ loc[p].old = a
        /\ OwnNames(p) /\ OwnChain(p) /\ OwnLinks(p) /\ Chain(c)
        /\ fin \in [Chains -> Obj] /\ dir \in [Names -> Obj] /\ mid \subseteq Chains
        /\ cnt \in [Chains -> 0 .. MaxCount \cup {Absent}] /\ faults \in Nat
        /\ loc[p].made \in BOOLEAN
  BY <1>1, BuilderIs
<1>3. /\ c \notin mid /\ fin[c] \in FileObj /\ dir[a] = None /\ NamesOf(c) = {} /\ ~loc[p].made
      /\ loc[p].new \in Names /\ loc[p].new # a
  BY <1>1, <1>2 DEF OwnNames, OwnLinks, OwnChain
<1>4. NamesOf(c)' = {} /\ UNCHANGED <<dir, fin, cnt, enabled>>
  BY <1>3 DEF SymlinkMid, NamesOf
<1>5. CASE Goto(p, "sym_old") /\ mid' = mid \cup {c} /\ UNCHANGED faults
  <2>1. /\ \A q \in Procs : q # p => loc'[q] = loc[q]
        /\ loc'[p].pc = "sym_old" /\ loc'[p].c = c /\ loc'[p].old = a /\ loc'[p].new = loc[p].new
        /\ loc'[p].made = loc[p].made /\ Uses(p)' = Uses(p)
    BY <1>2, <1>5, GotoIs
  <2>2. Frame(p, {})
    BY <1>2, <1>4, <1>5, <2>1, OwnFrame
  <2>3. Builds(p)' /\ ~Reclaims(p)' /\ ~Member(p)'
    BY <2>1 DEF Builds, Reclaims, Member
  <2>4. Place(p)'
    <3>1. OwnNames(p)'
      BY <1>3, <1>4, <2>1 DEF OwnNames
    <3>2. OwnChain(p)' /\ OwnLinks(p)'
      BY <1>4, <1>5, <2>1 DEF OwnChain, OwnLinks
    <3> QED BY <3>1, <3>2 DEF Place
  <2>5. Solo' /\ Members'
    BY <1>1, <1>2, <2>1, <2>2, <2>3, SameRole
  <2>6. Chain(c)'
    BY <1>1, <1>2, <1>3, <1>4, <1>5, <2>1, <2>2, <2>3, BuilderChain DEF Building
  <2> QED
    BY <1>1, <1>2, <2>1, <2>2, <2>4, <2>5, <2>6, OwnStep
<1>6. CASE Goto(p, "rb_ren") /\ UNCHANGED mid /\ Fails(p, c \in mid)
  <2>1. /\ \A q \in Procs : q # p => loc'[q] = loc[q]
        /\ loc'[p].pc = "rb_ren" /\ loc'[p].c = c /\ loc'[p].old = a /\ loc'[p].new = loc[p].new
        /\ loc'[p].made = loc[p].made /\ Uses(p)' = Uses(p)
    BY <1>2, <1>6, GotoIs
  <2>2. Frame(p, {}) /\ faults' # 0
    BY <1>2, <1>3, <1>4, <1>6, <2>1, OwnFrame, NoFault
  <2>3. Builds(p)' /\ ~Reclaims(p)' /\ ~Member(p)'
    BY <2>1 DEF Builds, Reclaims, Member
  <2>4. Place(p)'
    <3>1. OwnNames(p)'
      BY <1>3, <1>4, <2>1, <2>2 DEF OwnNames
    <3>2. OwnChain(p)' /\ OwnLinks(p)'
      BY <1>3, <1>4, <1>6, <2>1 DEF OwnChain, OwnLinks
    <3> QED BY <3>1, <3>2 DEF Place
  <2>5. Solo' /\ Members'
    BY <1>1, <1>2, <2>1, <2>2, <2>3, SameRole
  <2>6. Chain(c)'
    BY <1>1, <1>2, <1>3, <1>4, <1>6, <2>1, <2>2, <2>3, BuilderChain
  <2> QED
    BY <1>1, <1>2, <2>1, <2>2, <2>4, <2>5, <2>6, OwnStep
<1> QED BY <1>2, <1>5, <1>6 DEF SymlinkMid

LEMMA SymlinkOldCInv ==
  ASSUME Expected, CInv, IInv', NEW p \in Procs, SymlinkOld(p)
  PROVE  CInv'
<1>1. Builds(p) /\ loc[p].pc = "sym_old"
  BY DEF SymlinkOld, At, Builds
<1>2. PICK c \in Chains, a \in Names :
        /\ loc[p].c = c /\ loc[p].old = a
        /\ OwnNames(p) /\ OwnChain(p) /\ OwnLinks(p) /\ Chain(c)
        /\ fin \in [Chains -> Obj] /\ dir \in [Names -> Obj] /\ mid \subseteq Chains
        /\ cnt \in [Chains -> 0 .. MaxCount \cup {Absent}] /\ faults \in Nat
        /\ loc[p].made \in BOOLEAN
  BY <1>1, BuilderIs
<1>3. /\ c \in mid /\ fin[c] \in FileObj /\ dir[a] = None /\ NamesOf(c) = {} /\ ~loc[p].made
      /\ loc[p].new \in Names /\ loc[p].new # a
  BY <1>1, <1>2 DEF OwnNames, OwnLinks, OwnChain, Chain, Files
<1>4. UNCHANGED <<mid, fin, cnt, enabled>>
  BY DEF SymlinkOld
<1>5. CASE Goto(p, "wr_cnt") /\ dir' = [dir EXCEPT ![a] = ToMid(c)] /\ UNCHANGED faults
  <2>1. /\ \A q \in Procs : q # p => loc'[q] = loc[q]
        /\ loc'[p].pc = "wr_cnt" /\ loc'[p].c = c /\ loc'[p].old = a /\ loc'[p].new = loc[p].new
        /\ loc'[p].made = loc[p].made /\ Uses(p)' = Uses(p)
    BY <1>2, <1>5, GotoIs
  <2>2. Frame(p, {a})
    BY <1>2, <1>4, <1>5, <2>1, OwnFrame DEF Uses
  <2>3. Builds(p)' /\ ~Reclaims(p)' /\ ~Member(p)'
    BY <2>1 DEF Builds, Reclaims, Member
  <2>4. NamesOf(c)' = {a}
    BY <1>2, <1>3, <1>5 DEF NamesOf
  <2>5. Place(p)'
    <3>1. OwnNames(p)'
      BY <1>3, <2>1 DEF OwnNames
    <3>2. OwnChain(p)' /\ OwnLinks(p)'
      BY <1>3, <1>4, <2>1, <2>4 DEF OwnChain, OwnLinks
    <3> QED BY <3>1, <3>2 DEF Place
  <2>6. Solo' /\ Members'
    BY <1>1, <1>2, <2>1, <2>2, <2>3, SameRole
  <2>7. Chain(c)'
    BY <1>1, <1>2, <1>3, <1>4, <2>1, <2>2, <2>3, BuilderChain DEF Building
  <2>8. \A n \in {a} \cap Names : {dir[n], dir'[n]} \subseteq FileObj \cup {None, ToMid(c)}
    BY <1>2, <1>3, <1>5
  <2> QED
    BY <1>1, <1>2, <2>1, <2>2, <2>5, <2>6, <2>7, <2>8, OwnStep
<1>6. CASE Goto(p, "rb_mid") /\ UNCHANGED dir /\ Fails(p, dir[a] # None)
  <2>1. /\ \A q \in Procs : q # p => loc'[q] = loc[q]
        /\ loc'[p].pc = "rb_mid" /\ loc'[p].c = c /\ loc'[p].old = a /\ loc'[p].new = loc[p].new
        /\ loc'[p].made = loc[p].made /\ Uses(p)' = Uses(p)
    BY <1>2, <1>6, GotoIs
  <2>2. Frame(p, {}) /\ faults' # 0
    BY <1>2, <1>3, <1>4, <1>6, <2>1, OwnFrame, NoFault
  <2>3. Builds(p)' /\ ~Reclaims(p)' /\ ~Member(p)'
    BY <2>1 DEF Builds, Reclaims, Member
  <2>4. NamesOf(c)' = {}
    BY <1>3, <1>6 DEF NamesOf
  <2>5. Place(p)'
    <3>1. OwnNames(p)'
      BY <1>3, <1>6, <2>1, <2>2 DEF OwnNames
    <3>2. OwnChain(p)' /\ OwnLinks(p)'
      BY <1>3, <1>4, <2>4, <2>1 DEF OwnChain, OwnLinks
    <3> QED BY <3>1, <3>2 DEF Place
  <2>6. Solo' /\ Members'
    BY <1>1, <1>2, <2>1, <2>2, <2>3, SameRole
  <2>7. Chain(c)'
    BY <1>1, <1>2, <1>3, <1>4, <2>1, <2>2, <2>3, BuilderChain DEF Building
  <2> QED
    BY <1>1, <1>2, <2>1, <2>2, <2>5, <2>6, <2>7, OwnStep
<1> QED BY <1>2, <1>5, <1>6 DEF SymlinkOld

(* A builder that goes on: what is left to show of each step. *)
LEMMA BuilderStep ==
  ASSUME CInv, IInv', NEW p \in Procs, NEW c \in Chains, NEW a \in Names, NEW l,
         loc[p].c = c, loc[p].old = a, Builds(p), Goto(p, l), Builds(p)',
         UNCHANGED enabled, faults' = 0 => faults = 0,
         \A n \in Names : n # a => dir'[n] = dir[n],
         {dir[a], dir'[a]} \subseteq FileObj \cup {None, ToMid(c)},
         \A d \in Chains : d # c =>
           (d \in mid' <=> d \in mid) /\ fin'[d] = fin[d] /\ cnt'[d] = cnt[d],
         OwnNames(p)', OwnChain(p)', OwnLinks(p)',
         c \in mid' => l \in Building, NamesOf(c)' = {} \/ c \in mid',
         fin'[c] \in FileObj \cup {None}, c \in mid' => fin'[c] \in FileObj,
         fin'[c] # None => c \in mid' \/ l \in {"sym_mid", "rb_ren"},
         cnt'[c] # Absent /\ faults' = 0 => c \in mid' \/ l \in {"rb_ren", "rb_cnt"}
  PROVE  CInv'
<1>1. /\ \A q \in Procs : q # p => loc'[q] = loc[q]
      /\ loc'[p].pc = l /\ loc'[p].c = c /\ Uses(p)' = Uses(p)
  BY GotoIs
<1>2. Frame(p, {a})
  BY <1>1, OwnFrame DEF Uses
<1>3. ~Reclaims(p)' /\ (Member(p)' => c \in mid') /\ loc[p].pc # "u_name"
  BY <1>1 DEF Builds, Reclaims, Member, OwnChain
<1>4. Solo' /\ Members'
  BY <1>1, <1>2, <1>3, SameRole
<1>5. Chain(c)'
  BY <1>1, <1>2, BuilderChain
<1> QED BY <1>1, <1>2, <1>3, <1>4, <1>5, OwnStep DEF Place

LEMMA WriteCountCInv ==
  ASSUME Expected, CInv, IInv', NEW p \in Procs, WriteCount(p)
  PROVE  CInv'
<1>1. Builds(p) /\ loc[p].pc = "wr_cnt"
  BY DEF WriteCount, At, Builds
<1>2. PICK c \in Chains, a \in Names :
        /\ loc[p].c = c /\ loc[p].old = a
        /\ OwnNames(p) /\ OwnChain(p) /\ OwnLinks(p) /\ Chain(c)
        /\ fin \in [Chains -> Obj] /\ dir \in [Names -> Obj] /\ mid \subseteq Chains
        /\ cnt \in [Chains -> 0 .. MaxCount \cup {Absent}] /\ faults \in Nat
        /\ loc[p].made \in BOOLEAN
  BY <1>1, BuilderIs
<1>3. /\ c \in mid /\ fin[c] \in FileObj /\ dir[a] = ToMid(c) /\ NamesOf(c) = {a} /\ ~loc[p].made
      /\ loc[p].new \in Names /\ loc[p].new # a
  BY <1>1, <1>2 DEF OwnNames, OwnLinks, OwnChain, Chain, Files, NamesOf
<1>4. UNCHANGED <<dir, mid, fin, enabled>> /\ NamesOf(c)' = {a}
  BY <1>3 DEF WriteCount, NamesOf
<1>5. CASE loc' = [loc EXCEPT ![p].pc = "sym_new", ![p].made = TRUE]
           /\ cnt' = [cnt EXCEPT ![c] = 2] /\ UNCHANGED faults
  <2>1. /\ \A q \in Procs : q # p => loc'[q] = loc[q]
        /\ loc'[p].pc = "sym_new" /\ loc'[p].c = c /\ loc'[p].old = a /\ loc'[p].new = loc[p].new
        /\ loc'[p].made /\ Uses(p)' = Uses(p)
    <3>1. loc \in [Procs -> Locals]
      BY DEF CInv, IInv, TypeOK
    <3>2. loc'[p] = [loc[p] EXCEPT !.pc = "sym_new", !.made = TRUE] /\ loc[p] \in Locals
      BY <3>1, <1>5
    <3>3. [loc[p] EXCEPT !.pc = "sym_new", !.made = TRUE].made
      BY <3>2 DEF Locals
    <3> QED BY <1>2, <1>5, <3>1, <3>2, <3>3 DEF Locals, Uses
  <2>2. Frame(p, {})
    <3>1. \A d \in Chains : d # c => cnt'[d] = cnt[d]
      BY <1>2, <1>5
    <3>2. UNCHANGED <<dir, mid, fin, enabled, faults>>
      BY <1>4, <1>5
    <3>3. {} \subseteq Uses(p) /\ \A q \in Procs : q # p => loc'[q] = loc[q]
      BY <2>1
    <3> QED BY <1>2, <3>1, <3>2, <3>3, OwnFrame
  <2>3. Builds(p)' /\ ~Reclaims(p)' /\ ~Member(p)'
    BY <2>1 DEF Builds, Reclaims, Member
  <2>4. cnt'[c] = 2
    BY <1>2, <1>5
  <2>5. Place(p)'
    <3>1. OwnNames(p)'
      BY <1>3, <1>4, <2>1 DEF OwnNames
    <3>2. OwnChain(p)' /\ OwnLinks(p)'
      BY <1>3, <1>4, <2>1, <2>4 DEF OwnChain, OwnLinks
    <3> QED BY <3>1, <3>2 DEF Place
  <2>6. Solo' /\ Members'
    BY <1>1, <1>2, <2>1, <2>2, <2>3, SameRole
  <2>7. \A q \in Procs : q # p => loc'[q].c # c
    BY <1>1, <1>2, <2>2, Alone
  <2>8. Balance(c)'
    <3>1. InCall(c, {"sym_new", "rb_dec", "r_dec"})' = {p} /\ InCall(c, {"u_name", "u_mid"})' = {}
      BY <2>1, <2>7 DEF InCall
    <3>2. Cardinality({p}) = 1 /\ Cardinality({a}) = 1 /\ Cardinality({}) = 0
      BY FS_Singleton, FS_EmptySet
    <3>3. Cardinality(NamesOf(c)') = 1 /\ Cardinality(InCall(c, {"sym_new", "rb_dec", "r_dec"})') = 1
          /\ Cardinality(InCall(c, {"u_name", "u_mid"})') = 0
      BY <1>4, <3>1, <3>2
    <3> QED BY <2>4, <3>3 DEF Balance
  <2>9. Files(c)'
    BY <1>3, <1>4, <2>4 DEF Files
  <2>10. Led(c)'
    BY <1>3, <1>4, <2>3, <2>7 DEF Led, Reclaims
  <2> QED
    BY <1>1, <1>2, <2>1, <2>2, <2>5, <2>6, <2>8, <2>9, <2>10, OwnStep DEF Chain
<1>6. CASE Goto(p, "rb_old") /\ Fails(p, FALSE)
           /\ (UNCHANGED cnt \/ cnt' = [cnt EXCEPT ![c] = 0])
  <2>1. /\ loc'[p].pc = "rb_old" /\ loc'[p].c = c /\ loc'[p].old = a /\ loc'[p].new = loc[p].new
        /\ loc'[p].made = loc[p].made
    BY <1>2, <1>6, GotoIs
  <2>2. faults' # 0
    BY <1>2, <1>6 DEF Fails
  <2>3. OwnNames(p)' /\ Builds(p)'
    BY <1>3, <1>4, <2>1, <2>2 DEF OwnNames, Builds
  <2>4. OwnChain(p)' /\ OwnLinks(p)'
    BY <1>3, <1>4, <2>1 DEF OwnChain, OwnLinks
  <2>5. \A d \in Chains : d # c => cnt'[d] = cnt[d]
    BY <1>2, <1>6
  <2> QED
    BY <1>1, <1>2, <1>3, <1>4, <1>6, <2>2, <2>3, <2>4, <2>5, BuilderStep DEF Building
<1> QED BY <1>2, <1>5, <1>6 DEF WriteCount

(* A builder that ends by taking everything down again. *)
LEMMA BuilderEnd ==
  ASSUME CInv, IInv', NEW p \in Procs, NEW c \in Chains, NEW a \in Names,
         loc[p].c = c, loc[p].old = a, Builds(p), Return(p),
         UNCHANGED enabled, faults' = 0 => faults = 0,
         \A n \in Names : n # a => dir'[n] = dir[n],
         {dir[a], dir'[a]} \subseteq FileObj \cup {None, ToMid(c)},
         \A d \in Chains : d # c =>
           (d \in mid' <=> d \in mid) /\ fin'[d] = fin[d] /\ cnt'[d] = cnt[d],
         c \notin mid', NamesOf(c)' = {}, fin'[c] = None, cnt'[c] = Absent \/ faults' # 0
  PROVE  CInv'
<1>1. /\ \A q \in Procs : q # p => loc'[q] = loc[q]
      /\ loc'[p].c = NoChain /\ Uses(p)' \subseteq Uses(p) /\ Place(p)'
      /\ ~Builds(p)' /\ ~Reclaims(p)' /\ ~Member(p)'
  BY ReturnIs
<1>2. Frame(p, {a})
  BY <1>1, OwnFrame DEF Uses
<1>3. loc[p].pc # "u_name"
  BY DEF Builds
<1>4. Solo' /\ Members'
  BY <1>1, <1>2, <1>3, SameRole
<1>5. Chain(c)'
  BY DEF Chain, Files, Led, Balance
<1> QED BY <1>1, <1>2, <1>3, <1>4, <1>5, OwnStep

LEMMA RollbackOldCInv ==
  ASSUME Expected, CInv, IInv', NEW p \in Procs, RollbackOld(p)
  PROVE  CInv'
<1>1. Builds(p) /\ loc[p].pc = "rb_old"
  BY DEF RollbackOld, At, Builds
<1>2. PICK c \in Chains, a \in Names :
        /\ loc[p].c = c /\ loc[p].old = a
        /\ OwnNames(p) /\ OwnChain(p) /\ OwnLinks(p) /\ Chain(c)
        /\ fin \in [Chains -> Obj] /\ dir \in [Names -> Obj] /\ mid \subseteq Chains
        /\ cnt \in [Chains -> 0 .. MaxCount \cup {Absent}] /\ faults \in Nat
        /\ loc[p].made \in BOOLEAN
  BY <1>1, BuilderIs
<1>3. /\ c \in mid /\ fin[c] \in FileObj /\ NamesOf(c) = {a} /\ dir[a] = ToMid(c)
      /\ loc[p].made \/ faults # 0
  BY <1>1, <1>2 DEF OwnNames, OwnLinks, OwnChain, Chain, Files, NamesOf
<1>4. /\ Goto(p, "rb_mid") /\ dir' = [dir EXCEPT ![a] = None]
      /\ UNCHANGED <<mid, fin, cnt, enabled, faults>>
  BY <1>2 DEF RollbackOld
<1>5. NamesOf(c)' = {} /\ dir'[a] = None /\ \A n \in Names : n # a => dir'[n] = dir[n]
  BY <1>2, <1>3, <1>4, Kinds DEF NamesOf
<1>6. /\ loc'[p].pc = "rb_mid" /\ loc'[p].c = c /\ loc'[p].old = a /\ loc'[p].new = loc[p].new
      /\ loc'[p].made = loc[p].made
  BY <1>2, <1>4, GotoIs
<1>7. OwnNames(p)' /\ Builds(p)'
  BY <1>3, <1>4, <1>5, <1>6 DEF OwnNames, Builds
<1>8. OwnChain(p)' /\ OwnLinks(p)'
  BY <1>3, <1>4, <1>5, <1>6 DEF OwnChain, OwnLinks
<1> QED
  BY <1>1, <1>2, <1>3, <1>4, <1>5, <1>7, <1>8, BuilderStep DEF Building

LEMMA RollbackMidCInv ==
  ASSUME Expected, CInv, IInv', NEW p \in Procs, RollbackMid(p)
  PROVE  CInv'
<1>1. Builds(p) /\ loc[p].pc = "rb_mid"
  BY DEF RollbackMid, At, Builds
<1>2. PICK c \in Chains, a \in Names :
        /\ loc[p].c = c /\ loc[p].old = a
        /\ OwnNames(p) /\ OwnChain(p) /\ OwnLinks(p) /\ Chain(c)
        /\ fin \in [Chains -> Obj] /\ dir \in [Names -> Obj] /\ mid \subseteq Chains
        /\ cnt \in [Chains -> 0 .. MaxCount \cup {Absent}] /\ faults \in Nat
        /\ loc[p].made \in BOOLEAN
  BY <1>1, BuilderIs
<1>3. /\ c \in mid /\ fin[c] \in FileObj /\ NamesOf(c) = {} /\ dir[a] = None
      /\ loc[p].made \/ faults # 0
  BY <1>1, <1>2 DEF OwnNames, OwnLinks, OwnChain, Chain, Files
<1>4. /\ Goto(p, "rb_ren") /\ mid' = mid \ {c}
      /\ UNCHANGED <<dir, fin, cnt, enabled, faults>>
  BY <1>2 DEF RollbackMid
<1>5. NamesOf(c)' = {}
  BY <1>3, <1>4 DEF NamesOf
<1>6. /\ loc'[p].pc = "rb_ren" /\ loc'[p].c = c /\ loc'[p].old = a /\ loc'[p].new = loc[p].new
      /\ loc'[p].made = loc[p].made
  BY <1>2, <1>4, GotoIs
<1>7. OwnNames(p)' /\ Builds(p)'
  BY <1>3, <1>4, <1>6 DEF OwnNames, Builds
<1>8. OwnChain(p)' /\ OwnLinks(p)'
  BY <1>3, <1>4, <1>5, <1>6 DEF OwnChain, OwnLinks
<1> QED
  BY <1>1, <1>2, <1>3, <1>4, <1>5, <1>7, <1>8, BuilderStep

LEMMA RollbackRenameCInv ==
  ASSUME Expected, CInv, IInv', NEW p \in Procs, RollbackRename(p)
  PROVE  CInv'
<1>1. Builds(p) /\ loc[p].pc = "rb_ren"
  BY DEF RollbackRename, At, Builds
<1>2. PICK c \in Chains, a \in Names :
        /\ loc[p].c = c /\ loc[p].old = a
        /\ OwnNames(p) /\ OwnChain(p) /\ OwnLinks(p) /\ Chain(c)
        /\ fin \in [Chains -> Obj] /\ dir \in [Names -> Obj] /\ mid \subseteq Chains
        /\ cnt \in [Chains -> 0 .. MaxCount \cup {Absent}] /\ faults \in Nat
        /\ loc[p].made \in BOOLEAN
  BY <1>1, BuilderIs
<1>3. /\ c \notin mid /\ fin[c] \in FileObj /\ fin[c] # None /\ NamesOf(c) = {} /\ dir[a] = None
      /\ loc[p].made \/ faults # 0
  BY <1>1, <1>2, Kinds DEF OwnNames, OwnLinks, OwnChain
<1>4. /\ dir' = [dir EXCEPT ![a] = fin[c]] /\ fin' = [fin EXCEPT ![c] = None]
      /\ UNCHANGED <<mid, cnt, enabled, faults>>
  BY <1>2, <1>3 DEF RollbackRename
<1>5. /\ dir'[a] = fin[c] /\ \A n \in Names : n # a => dir'[n] = dir[n]
      /\ fin'[c] = None /\ \A d \in Chains : d # c => fin'[d] = fin[d]
  BY <1>2, <1>4
<1>6. NamesOf(c)' = {}
  BY <1>3, <1>5, Kinds DEF NamesOf
<1>7. CASE loc[p].made
  <2>1. Goto(p, "rb_cnt")
    BY <1>7 DEF RollbackRename
  <2>2. /\ loc'[p].pc = "rb_cnt" /\ loc'[p].c = c /\ loc'[p].old = a /\ loc'[p].new = loc[p].new
    BY <1>2, <2>1, GotoIs
  <2>3. OwnNames(p)' /\ Builds(p)'
    BY <2>2 DEF OwnNames, Builds
  <2>4. OwnChain(p)' /\ OwnLinks(p)'
    BY <1>3, <1>4, <1>5, <1>6, <2>2 DEF OwnChain, OwnLinks
  <2> QED
    BY <1>1, <1>2, <1>3, <1>4, <1>5, <1>6, <2>1, <2>3, <2>4, BuilderStep
<1>8. CASE ~loc[p].made
  <2>1. Return(p)
    BY <1>8 DEF RollbackRename
  <2> QED
    BY <1>1, <1>2, <1>3, <1>4, <1>5, <1>6, <1>8, <2>1, BuilderEnd
<1> QED BY <1>7, <1>8

LEMMA RollbackCountCInv ==
  ASSUME Expected, CInv, IInv', NEW p \in Procs, RollbackCount(p)
  PROVE  CInv'
<1>1. Builds(p) /\ loc[p].pc = "rb_cnt"
  BY DEF RollbackCount, At, Builds
<1>2. PICK c \in Chains, a \in Names :
        /\ loc[p].c = c /\ loc[p].old = a
        /\ OwnNames(p) /\ OwnChain(p) /\ OwnLinks(p) /\ Chain(c)
        /\ fin \in [Chains -> Obj] /\ dir \in [Names -> Obj] /\ mid \subseteq Chains
        /\ cnt \in [Chains -> 0 .. MaxCount \cup {Absent}] /\ faults \in Nat
        /\ loc[p].made \in BOOLEAN
  BY <1>1, BuilderIs
<1>3. /\ c \notin mid /\ fin[c] = None /\ NamesOf(c) = {}
  BY <1>1, <1>2 DEF OwnLinks, OwnChain
<1>4. /\ cnt' = [cnt EXCEPT ![c] = Absent] /\ Return(p)
      /\ UNCHANGED <<dir, mid, fin, enabled, faults>>
  BY <1>2 DEF RollbackCount
<1>5. cnt'[c] = Absent /\ \A d \in Chains : d # c => cnt'[d] = cnt[d]
  BY <1>2, <1>4
<1>6. NamesOf(c)' = {}
  BY <1>3, <1>4 DEF NamesOf
<1>7. Frame(p, {})
  BY <1>2, <1>4, <1>5, ReturnIs, OwnFrame
<1>8. Solo' /\ Members'
  BY <1>1, <1>2, <1>4, <1>7, ReturnIs, SameRole
<1>9. Chain(c)'
  BY <1>3, <1>4, <1>5, <1>6 DEF Chain, Files, Led, Balance
<1> QED
  BY <1>1, <1>2, <1>4, <1>7, <1>8, <1>9, ReturnIs, OwnStep

(* A chain that stays in use after a step of a call that relies on it. *)
LEMMA MemberChainKept ==
  ASSUME CInv, NEW p \in Procs, NEW c \in Chains, loc[p].c = c, NEW S, Frame(p, S),
         Member(p) \/ (loc[p].pc = "sym_new" /\ loc[p].made),
         mid' = mid, fin' = fin, cnt'[c] >= 1,
         loc'[p].c = c => ~Reclaims(p)',
         cnt'[c] = Cardinality(NamesOf(c)')
                   + Cardinality(InCall(c, {"sym_new", "rb_dec", "r_dec"})')
                   - Cardinality(InCall(c, {"u_name", "u_mid"})')
  PROVE  Chain(c)'
<1>1. c \in mid /\ \A q \in Procs : q # p /\ loc[q].c = c => ~Builds(q) /\ ~Reclaims(q)
  BY MemberChain
<1>2. fin[c] \in FileObj
  BY <1>1 DEF CInv, Chain, Files
<1>3. Files(c)'
  BY <1>1, <1>2 DEF Files
<1>4. \A q \in Procs : loc'[q].c = c => ~Reclaims(q)'
  <2> SUFFICES ASSUME NEW q \in Procs, loc'[q].c = c PROVE ~Reclaims(q)'
    OBVIOUS
  <2>1. CASE q = p
    BY <2>1
  <2>2. CASE q # p
    BY <1>1, <2>2 DEF Frame, Reclaims
  <2> QED BY <2>1, <2>2
<1>5. Led(c)'
  BY <1>1, <1>4 DEF Led
<1>6. Balance(c)'
  BY DEF Balance
<1> QED BY <1>3, <1>5, <1>6 DEF Chain

LEMMA AddLinkCInv ==
  ASSUME Expected, CInv, IInv', NEW p \in Procs, AddLink(p)
  PROVE  CInv'
<1>1. Member(p) /\ loc[p].pc = "inc" /\ OwnNames(p) /\ ~Builds(p)
  BY DEF AddLink, At, Member, Builds, CInv, Place
<1>2. PICK c \in Chains : loc[p].c = c
  BY <1>1, OnChain
<1>3. cnt \in [Chains -> 0 .. MaxCount \cup {Absent}] /\ faults \in Nat
  BY DEF CInv, IInv, TypeOK
<1>4. c \in mid /\ cnt[c] >= 1 /\ CountOf(c) = cnt[c]
  BY <1>1, <1>2, <1>3, MemberChain DEF CountOf, Absent
<1>5. UNCHANGED <<dir, mid, fin, enabled>> /\ NamesOf(c)' = NamesOf(c)
  BY DEF AddLink, NamesOf
<1>6. CASE cnt' = [cnt EXCEPT ![c] = CountOf(c) + 1] /\ Goto(p, "sym_new") /\ UNCHANGED faults
  <2>1. /\ \A q \in Procs : q # p => loc'[q] = loc[q]
        /\ loc'[p].pc = "sym_new" /\ loc'[p].c = c /\ loc'[p].old = loc[p].old
        /\ loc'[p].new = loc[p].new /\ loc'[p].made = loc[p].made /\ Uses(p)' = Uses(p)
    BY <1>2, <1>6, GotoIs
  <2>2. cnt'[c] = cnt[c] + 1 /\ \A d \in Chains : d # c => cnt'[d] = cnt[d]
    BY <1>3, <1>4, <1>6
  <2>3. Frame(p, {})
    BY <1>2, <1>5, <1>6, <2>1, <2>2, OwnFrame
  <2>4. ~loc[p].made
    BY <1>1 DEF OwnNames
  <2>5. ~Builds(p)' /\ ~Reclaims(p)'
    BY <2>1, <2>4 DEF Builds, Reclaims
  <2>6. Place(p)'
    <3>1. OwnNames(p)'
      <4>1. /\ loc[p].new \in Names /\ loc[p].new # loc[p].old /\ dir[loc[p].old] = ToMid(c)
            /\ ~loc'[p].made
        BY <1>1, <1>2, <2>1, <2>4 DEF OwnNames
      <4> QED BY <1>5, <2>1, <4>1 DEF OwnNames
    <3>2. OwnChain(p)' /\ OwnLinks(p)'
      BY <2>1, <2>4, <2>5 DEF OwnChain, OwnLinks
    <3> QED BY <3>1, <3>2 DEF Place
  <2>7. Solo' /\ Members'
    BY <1>1, <1>2, <1>4, <1>5, <2>1, <2>3, <2>5, SameRole
  <2>8. Chain(c)'
    <3>1. /\ Cardinality(InCall(c, {"sym_new", "rb_dec", "r_dec"})')
               = Cardinality(InCall(c, {"sym_new", "rb_dec", "r_dec"})) + 1
          /\ Cardinality(InCall(c, {"u_name", "u_mid"})') = Cardinality(InCall(c, {"u_name", "u_mid"}))
      BY <1>1, <1>2, <2>1, <2>3, Counted
    <3>2. cnt[c] = Cardinality(NamesOf(c)) + Cardinality(InCall(c, {"sym_new", "rb_dec", "r_dec"}))
                   - Cardinality(InCall(c, {"u_name", "u_mid"}))
      BY <1>1, <1>2, MemberChain
    <3>3. /\ Cardinality(NamesOf(c)) \in Nat
          /\ Cardinality(InCall(c, {"sym_new", "rb_dec", "r_dec"})) \in Nat
          /\ Cardinality(InCall(c, {"u_name", "u_mid"})) \in Nat
      BY Numbers
    <3>4. /\ cnt'[c] = Cardinality(NamesOf(c)') + Cardinality(InCall(c, {"sym_new", "rb_dec", "r_dec"})')
                       - Cardinality(InCall(c, {"u_name", "u_mid"})')
          /\ cnt'[c] >= 1
      BY <1>3, <1>4, <1>5, <2>2, <3>1, <3>2, <3>3
    <3> QED BY <1>1, <1>2, <1>5, <2>3, <2>5, <3>4, MemberChainKept
  <2> QED
    BY <1>1, <1>2, <2>1, <2>3, <2>6, <2>7, <2>8, OwnStep
<1>7. CASE Fails(p, CountOf(c) = MaxCount) /\ Return(p) /\ UNCHANGED cnt
  <2>1. Frame(p, {})
    BY <1>5, <1>7, ReturnIs, OwnFrame, FaultsGrow
  <2>2. Solo' /\ Members'
    BY <1>1, <1>2, <1>5, <1>7, <2>1, ReturnIs, SameRole
  <2>3. Quiet(p, c) /\ Quiet(p, c)'
    BY <1>1, <1>2, <1>7, ReturnIs, Kinds DEF Quiet, QuietAt
  <2>4. Chain(c)'
    BY <1>5, <1>7, <2>1, <2>3, QuietChain DEF CInv
  <2> QED
    BY <1>1, <1>2, <1>7, <2>1, <2>2, <2>4, ReturnIs, OwnStep
<1> QED BY <1>2, <1>6, <1>7 DEF AddLink

LEMMA RollbackAddCInv ==
  ASSUME Expected, CInv, IInv', NEW p \in Procs, RollbackAdd(p)
  PROVE  CInv'
<1>1. Member(p) /\ loc[p].pc = "rb_dec" /\ ~Builds(p)
  BY DEF RollbackAdd, At, Member, Builds
<1>2. PICK c \in Chains : loc[p].c = c
  BY <1>1, OnChain
<1>3. cnt \in [Chains -> 0 .. MaxCount \cup {Absent}]
  BY DEF CInv, IInv, TypeOK
<1>4. c \in mid /\ cnt[c] >= 2 /\ cnt[c] \in Int /\ CountOf(c) = cnt[c]
  BY <1>1, <1>2, <1>3, MemberChain, SpareName DEF CountOf, Absent
<1>5. /\ UNCHANGED <<dir, mid, fin, enabled, faults>> /\ NamesOf(c)' = NamesOf(c) /\ Return(p)
      /\ cnt' = Decremented(c)
  BY <1>1, <1>2 DEF RollbackAdd, NamesOf, Fails, Expected, LinkPoints
<1>6. cnt'[c] = cnt[c] - 1 /\ \A d \in Chains : d # c => cnt'[d] = cnt[d]
  BY <1>2, <1>3, <1>4, <1>5 DEF Decremented
<1>7. Frame(p, {})
  BY <1>2, <1>5, <1>6, ReturnIs, OwnFrame
<1>8. Solo' /\ Members'
  BY <1>1, <1>2, <1>5, <1>7, ReturnIs, SameRole
<1>9. Chain(c)'
  <2>1. /\ Cardinality(InCall(c, {"sym_new", "rb_dec", "r_dec"})')
             = Cardinality(InCall(c, {"sym_new", "rb_dec", "r_dec"})) - 1
        /\ Cardinality(InCall(c, {"u_name", "u_mid"})') = Cardinality(InCall(c, {"u_name", "u_mid"}))
    <3>1. loc'[p].pc = "idle"
      BY <1>5, ReturnIs
    <3> QED BY <1>1, <1>2, <1>7, <3>1, Counted
  <2>2. cnt[c] = Cardinality(NamesOf(c)) + Cardinality(InCall(c, {"sym_new", "rb_dec", "r_dec"}))
                 - Cardinality(InCall(c, {"u_name", "u_mid"}))
    BY <1>1, <1>2, MemberChain
  <2>3. /\ Cardinality(NamesOf(c)) \in Nat
        /\ Cardinality(InCall(c, {"sym_new", "rb_dec", "r_dec"})) \in Nat
        /\ Cardinality(InCall(c, {"u_name", "u_mid"})) \in Nat
    BY Numbers
  <2>4. /\ cnt'[c] = Cardinality(NamesOf(c)') + Cardinality(InCall(c, {"sym_new", "rb_dec", "r_dec"})')
                     - Cardinality(InCall(c, {"u_name", "u_mid"})')
        /\ cnt'[c] >= 1
    BY <1>4, <1>5, <1>6, <2>1, <2>2, <2>3
  <2> QED BY <1>1, <1>2, <1>5, <1>7, <2>4, ReturnIs, MemberChainKept
<1> QED
  BY <1>1, <1>2, <1>5, <1>7, <1>8, <1>9, ReturnIs, OwnStep

LEMMA SymlinkNewCInv ==
  ASSUME Expected, CInv, IInv', NEW p \in Procs, SymlinkNew(p)
  PROVE  CInv'
<1>1. loc[p].pc = "sym_new" /\ loc[p].made \in BOOLEAN /\ OwnNames(p) /\ OwnChain(p) /\ OwnLinks(p)
  BY InCallFacts DEF SymlinkNew, At, CInv, Place, Locals
<1>2. Member(p) \/ (loc[p].pc = "sym_new" /\ loc[p].made)
  BY <1>1 DEF Member
<1>3. PICK c \in Chains, a \in Names : loc[p].c = c /\ loc[p].old = a
  BY <1>1, <1>2, OnChain DEF Builds
<1>4. PICK b \in Names : loc[p].new = b /\ b # a /\ dir[a] = ToMid(c)
  BY <1>1, <1>3 DEF OwnNames
<1>5. /\ c \in mid /\ cnt[c] >= 1 /\ dir \in [Names -> Obj] /\ fin[c] \in FileObj
      /\ cnt[c] = Cardinality(NamesOf(c)) + Cardinality(InCall(c, {"sym_new", "rb_dec", "r_dec"}))
                  - Cardinality(InCall(c, {"u_name", "u_mid"}))
  BY <1>2, <1>3, MemberChain DEF CInv, IInv, TypeOK, Chain, Files
<1>6. UNCHANGED <<mid, fin, cnt, enabled>>
  BY DEF SymlinkNew
<1>7. /\ Cardinality(NamesOf(c)) \in Nat
      /\ Cardinality(InCall(c, {"sym_new", "rb_dec", "r_dec"})) \in Nat
      /\ Cardinality(InCall(c, {"u_name", "u_mid"})) \in Nat
  BY Numbers
<1>8. CASE dir[b] = None /\ dir' = [dir EXCEPT ![b] = ToMid(c)] /\ Return(p) /\ UNCHANGED faults
  <2>1. dir'[b] = ToMid(c) /\ \A n \in Names : n # b => dir'[n] = dir[n]
    BY <1>5, <1>8
  <2>2. Frame(p, {b})
    BY <1>3, <1>4, <1>6, <1>8, <2>1, ReturnIs, OwnFrame DEF Uses
  <2>3. Cardinality(NamesOf(c)') = Cardinality(NamesOf(c)) + 1
    <3>1. b \in NamesOf(c)' /\ b \notin NamesOf(c)
      BY <1>8, <2>1, Kinds DEF NamesOf
    <3> QED BY <2>1, <3>1, NamesCounted
  <2>4. /\ Cardinality(InCall(c, {"sym_new", "rb_dec", "r_dec"})')
             = Cardinality(InCall(c, {"sym_new", "rb_dec", "r_dec"})) - 1
        /\ Cardinality(InCall(c, {"u_name", "u_mid"})') = Cardinality(InCall(c, {"u_name", "u_mid"}))
    <3>1. loc'[p].pc = "idle"
      BY <1>8, ReturnIs
    <3> QED BY <1>1, <1>3, <2>2, <3>1, Counted
  <2>5. cnt'[c] = Cardinality(NamesOf(c)') + Cardinality(InCall(c, {"sym_new", "rb_dec", "r_dec"})')
                  - Cardinality(InCall(c, {"u_name", "u_mid"})')
    BY <1>5, <1>6, <1>7, <2>3, <2>4
  <2>6. Chain(c)'
    BY <1>2, <1>3, <1>5, <1>6, <1>8, <2>2, <2>5, ReturnIs, MemberChainKept
  <2>7. Solo' /\ Members'
    BY <1>1, <1>3, <1>5, <1>6, <1>8, <2>2, ReturnIs, SameRole
  <2>8. \A n \in {b} \cap Names : {dir[n], dir'[n]} \subseteq FileObj \cup {None, ToMid(c)}
    BY <1>8, <2>1
  <2> QED
    BY <1>1, <1>3, <1>8, <2>2, <2>6, <2>7, <2>8, ReturnIs, OwnStep
<1>9. CASE loc[p].made /\ Goto(p, "rb_old") /\ UNCHANGED dir /\ Fails(p, dir[b] # None)
  <2>1. /\ loc'[p].pc = "rb_old" /\ loc'[p].c = c /\ loc'[p].old = a /\ loc'[p].new = b
        /\ loc'[p].made = loc[p].made
    BY <1>3, <1>4, <1>9, GotoIs
  <2>2. Builds(p) /\ Builds(p)'
    BY <1>1, <1>9, <2>1 DEF Builds
  <2>3. NamesOf(c)' = {a}
    BY <1>1, <1>3, <1>9, <2>2 DEF OwnLinks, NamesOf
  <2>4. OwnNames(p)'
    BY <1>9, <2>1 DEF OwnNames
  <2>5. OwnChain(p)' /\ OwnLinks(p)'
    BY <1>5, <1>6, <2>1, <2>3 DEF OwnChain, OwnLinks
  <2>6. faults' = 0 => faults = 0
    BY <1>9, FaultsGrow
  <2> QED
    BY <1>3, <1>4, <1>5, <1>6, <1>9, <2>2, <2>4, <2>5, <2>6, BuilderStep DEF Building
<1>10. CASE ~loc[p].made /\ Goto(p, "rb_dec") /\ UNCHANGED dir /\ Fails(p, dir[b] # None)
  <2>1. /\ \A q \in Procs : q # p => loc'[q] = loc[q]
        /\ loc'[p].pc = "rb_dec" /\ loc'[p].c = c /\ loc'[p].old = a /\ loc'[p].new = b
        /\ loc'[p].made = loc[p].made /\ Uses(p)' = Uses(p)
    BY <1>3, <1>4, <1>10, GotoIs
  <2>2. Frame(p, {})
    BY <1>3, <1>6, <1>10, <2>1, FaultsGrow, OwnFrame
  <2>3. ~Builds(p)' /\ ~Reclaims(p)'
    BY <2>1 DEF Builds, Reclaims
  <2>4. Place(p)'
    <3>1. OwnNames(p)'
      BY <1>4, <1>10, <2>1 DEF OwnNames
    <3>2. OwnChain(p)' /\ OwnLinks(p)'
      BY <1>10, <2>1, <2>3 DEF OwnChain, OwnLinks
    <3> QED BY <3>1, <3>2 DEF Place
  <2>5. Solo' /\ Members'
    BY <1>1, <1>3, <1>5, <1>6, <2>1, <2>2, <2>3, SameRole
  <2>6. /\ Cardinality(InCall(c, {"sym_new", "rb_dec", "r_dec"})')
             = Cardinality(InCall(c, {"sym_new", "rb_dec", "r_dec"}))
        /\ Cardinality(InCall(c, {"u_name", "u_mid"})') = Cardinality(InCall(c, {"u_name", "u_mid"}))
    BY <1>1, <1>3, <2>1, <2>2, Counted
  <2>7. NamesOf(c)' = NamesOf(c)
    BY <1>10 DEF NamesOf
  <2>8. Chain(c)'
    BY <1>2, <1>3, <1>5, <1>6, <2>2, <2>3, <2>6, <2>7, MemberChainKept
  <2> QED
    BY <1>1, <1>3, <2>1, <2>2, <2>4, <2>5, <2>8, OwnStep
<1> QED BY <1>1, <1>3, <1>4, <1>8, <1>9, <1>10 DEF SymlinkNew

-----------------------------------------------------------------------------

LEMMA DropLinkCInv ==
  ASSUME Expected, CInv, IInv', NEW p \in Procs, DropLink(p)
  PROVE  CInv'
<1>1. Member(p) /\ loc[p].pc = "u_dec" /\ ~Builds(p) /\ ~Reclaims(p) /\ OwnNames(p)
  BY DEF DropLink, At, Member, Builds, Reclaims, CInv, Place
<1>2. PICK c \in Chains, a \in Names : loc[p].c = c /\ loc[p].old = a
  BY <1>1, OnChain
<1>3. cnt \in [Chains -> 0 .. MaxCount \cup {Absent}]
  BY DEF CInv, IInv, TypeOK
<1>4. /\ c \in mid /\ fin[c] \in FileObj /\ cnt[c] >= 1 /\ cnt[c] \in Int /\ CountOf(c) = cnt[c]
      /\ \A q \in Procs : q # p /\ loc[q].c = c => ~Builds(q) /\ ~Reclaims(q)
      /\ cnt[c] = Cardinality(NamesOf(c)) + Cardinality(InCall(c, {"sym_new", "rb_dec", "r_dec"}))
                  - Cardinality(InCall(c, {"u_name", "u_mid"}))
  <2>1. /\ c \in mid /\ cnt[c] >= 1
        /\ \A q \in Procs : q # p /\ loc[q].c = c => ~Builds(q) /\ ~Reclaims(q)
        /\ cnt[c] = Cardinality(NamesOf(c)) + Cardinality(InCall(c, {"sym_new", "rb_dec", "r_dec"}))
                    - Cardinality(InCall(c, {"u_name", "u_mid"}))
    BY <1>1, <1>2, MemberChain
  <2>2. fin[c] \in FileObj
    BY <2>1 DEF CInv, Chain, Files
  <2>3. cnt[c] \in Int /\ CountOf(c) = cnt[c]
    BY <1>3, <2>1 DEF CountOf, Absent
  <2> QED BY <2>1, <2>2, <2>3
<1>5. ~Fails(p, CountOf(c) = 0)
  <2>1. loc[p].pc \notin FaultAt
    BY <1>1 DEF Expected, LinkPoints
  <2> QED BY <1>4, <2>1 DEF Fails
<1>6. /\ cnt' = Decremented(c) /\ UNCHANGED <<dir, mid, fin, enabled, faults>>
      /\ Goto(p, IF cnt[c] = 1 THEN "u_mid" ELSE "u_name")
  BY <1>2, <1>4, <1>5 DEF DropLink
<1>7. cnt'[c] = cnt[c] - 1 /\ \A d \in Chains : d # c => cnt'[d] = cnt[d]
  BY <1>3, <1>4, <1>6 DEF Decremented
<1>8. /\ \A q \in Procs : q # p => loc'[q] = loc[q]
      /\ loc'[p].pc = (IF cnt[c] = 1 THEN "u_mid" ELSE "u_name")
      /\ loc'[p].c = c /\ loc'[p].old = a /\ loc'[p].new = loc[p].new
      /\ loc'[p].made = loc[p].made /\ Uses(p)' = Uses(p)
  BY <1>2, <1>6, GotoIs
<1>9. Frame(p, {})
  BY <1>2, <1>6, <1>7, <1>8, OwnFrame
<1>10. dir[a] = ToMid(c) /\ ~loc[p].made
  BY <1>1, <1>2 DEF OwnNames
<1>11. ~Builds(p)' /\ ~Member(p)' /\ NamesOf(c)' = NamesOf(c)
  BY <1>6, <1>8 DEF Builds, Member, NamesOf
<1>12. Place(p)'
  <2>1. OwnNames(p)'
    BY <1>6, <1>8, <1>10 DEF OwnNames
  <2>2. OwnChain(p)' /\ OwnLinks(p)'
    BY <1>4, <1>6, <1>7, <1>8, <1>11 DEF OwnChain, OwnLinks
  <2> QED BY <2>1, <2>2 DEF Place
<1>13. Members'
  BY <1>2, <1>6, <1>9, <1>11, MembersKept
<1>14. cnt'[c] = Cardinality(NamesOf(c)') + Cardinality(InCall(c, {"sym_new", "rb_dec", "r_dec"})')
                 - Cardinality(InCall(c, {"u_name", "u_mid"})')
  <2>1. /\ Cardinality(InCall(c, {"sym_new", "rb_dec", "r_dec"})')
             = Cardinality(InCall(c, {"sym_new", "rb_dec", "r_dec"}))
        /\ Cardinality(InCall(c, {"u_name", "u_mid"})') = Cardinality(InCall(c, {"u_name", "u_mid"})) + 1
    BY <1>1, <1>2, <1>8, <1>9, Counted
  <2>2. /\ Cardinality(NamesOf(c)) \in Nat
        /\ Cardinality(InCall(c, {"sym_new", "rb_dec", "r_dec"})) \in Nat
        /\ Cardinality(InCall(c, {"u_name", "u_mid"})) \in Nat
    BY Numbers
  <2> QED BY <1>4, <1>7, <1>11, <2>1, <2>2
<1>15. CASE cnt[c] # 1
  <2>1. ~Reclaims(p)'
    BY <1>8, <1>15 DEF Reclaims
  <2>2. Solo'
    BY <1>1, <1>2, <1>8, <1>9, <1>11, <2>1, SoloKept
  <2>3. Chain(c)'
    BY <1>1, <1>2, <1>4, <1>6, <1>7, <1>9, <1>14, <1>15, <2>1, MemberChainKept
  <2> QED
    BY <1>1, <1>2, <1>8, <1>9, <1>12, <1>13, <2>2, <2>3, OwnStep
<1>16. CASE cnt[c] = 1
  <2>1. loc'[p].pc = "u_mid"
    BY <1>8, <1>16
  <2>2. /\ \A n \in NamesOf(c) : \/ n = a
                                 \/ \E q \in Procs : /\ q # p /\ loc[q].old = n /\ loc[q].c = c
                                                     /\ loc[q].pc = "u_name"
        /\ \A q \in Procs : q # p /\ loc[q].c = c => loc[q].pc = "u_name"
    BY <1>1, <1>2, <1>16, LastOne
  <2>3. Solo'
    <3> SUFFICES ASSUME NEW q \in Procs, NEW r \in Procs, q # r, loc'[q].c = loc'[r].c, loc'[q].c \in Chains
                 PROVE  ~Builds(q)' /\ (Reclaims(q)' => loc'[r].pc = "u_name")
      BY DEF Solo
    <3>1. CASE q = p
      BY <1>8, <1>11, <2>2, <3>1
    <3>2. CASE r = p
      <4>1. loc'[q] = loc[q] /\ loc[q].pc = "u_name"
        BY <1>8, <2>2, <3>2
      <4> QED BY <4>1 DEF Builds, Reclaims
    <3>3. CASE q # p /\ r # p
      <4>1. loc'[q] = loc[q] /\ loc'[r] = loc[r]
        BY <1>8, <3>3
      <4> QED BY <4>1 DEF CInv, Solo, Builds, Reclaims
    <3> QED BY <3>1, <3>2, <3>3
  <2>4. \A n \in NamesOf(c)' : Leaves(n, c)'
    BY <1>8, <1>11, <2>1, <2>2 DEF Leaves
  <2>5. Led(c)'
    BY <2>4 DEF Led
  <2>6. On(c, Building \cup {"u_mid", "r_mid"})'
    BY <1>8, <2>1 DEF On
  <2>7. Files(c)'
    BY <1>4, <1>6, <2>6 DEF Files
  <2>8. Balance(c)'
    BY <1>14 DEF Balance
  <2> QED
    BY <1>1, <1>2, <1>8, <1>9, <1>12, <1>13, <2>3, <2>5, <2>7, <2>8, OwnStep DEF Chain
<1> QED BY <1>15, <1>16

(* A step of the call that reclaims the chain, once the mid is gone. *)
LEMMA ReclaimStep ==
  ASSUME CInv, IInv', NEW p \in Procs, NEW c \in Chains, loc[p].c = c, Reclaims(p),
         UNCHANGED <<dir, enabled, faults>>,
         \A q \in Procs : q # p => loc'[q] = loc[q],
         Uses(p)' \subseteq Uses(p), loc'[p].c \in {c, NoChain}, ~Builds(p)', ~Member(p)',
         loc[p].pc \in {"u_mid", "u_fin", "u_cnt"} =>
           loc'[p].c = c /\ loc'[p].old = loc[p].old /\ loc'[p].pc \in {"u_fin", "u_cnt", "u_name"},
         \A d \in Chains : d # c =>
           (d \in mid' <=> d \in mid) /\ fin'[d] = fin[d] /\ cnt'[d] = cnt[d],
         Place(p)', c \notin mid', fin'[c] \in FileObj \cup {None},
         fin'[c] # None => loc'[p].c = c /\ loc'[p].pc \in {"u_fin", "r_fin"},
         cnt'[c] # Absent => loc'[p].c = c /\ loc'[p].pc \in {"u_fin", "u_cnt", "r_fin", "r_cnt"}
  PROVE  CInv'
<1>1. Frame(p, {})
  BY OwnFrame
<1>2. loc[p].pc # "u_name"
  BY DEF Reclaims
<1>3. Solo' /\ Members'
  BY <1>1, <1>2, SameRole
<1>4. \A n \in NamesOf(c) : Leaves(n, c)
  BY DEF CInv, Chain, Led
<1>5. \A n \in NamesOf(c)' : Leaves(n, c)'
  <2> SUFFICES ASSUME NEW n \in NamesOf(c)' PROVE Leaves(n, c)'
    OBVIOUS
  <2>1. n \in NamesOf(c)
    BY DEF NamesOf
  <2>2. PICK q \in Procs : /\ loc[q].old = n /\ loc[q].c = c
                           /\ loc[q].pc \in {"u_mid", "u_fin", "u_cnt", "u_name"}
    BY <1>4, <2>1 DEF Leaves
  <2>3. CASE q = p
    BY <1>2, <2>2, <2>3 DEF Leaves
  <2>4. CASE q # p
    BY <2>2, <2>4 DEF Leaves
  <2> QED BY <2>3, <2>4
<1>6. Led(c)' /\ Balance(c)'
  BY <1>5 DEF Led, Balance
<1>7. Files(c)'
  BY DEF Files, On
<1> QED BY <1>1, <1>2, <1>3, <1>6, <1>7, OwnStep DEF Chain

(* What a reclaimer starts its step from. *)
LEMMA ReclaimerIs ==
  ASSUME CInv, NEW p \in Procs, Reclaims(p)
  PROVE  \E c \in Chains, a \in Names :
           /\ loc[p].c = c /\ loc[p].old = a
           /\ OwnChain(p) /\ Files(c) /\ ~loc[p].made
           /\ loc[p].pc \in {"u_mid", "u_fin", "u_cnt"} => dir[a] = ToMid(c)
           /\ fin \in [Chains -> Obj] /\ mid \subseteq Chains
           /\ cnt \in [Chains -> 0 .. MaxCount \cup {Absent}]
<1>1. PICK c \in Chains, a \in Names : loc[p].c = c /\ loc[p].old = a
  BY OnChain
<1>2. OwnNames(p) /\ OwnChain(p) /\ Files(c)
  BY DEF CInv, Place, Chain
<1>3. ~loc[p].made /\ (loc[p].pc \in {"u_mid", "u_fin", "u_cnt"} => dir[a] = ToMid(c))
  BY <1>1, <1>2 DEF OwnNames, Reclaims
<1> QED BY <1>1, <1>2, <1>3 DEF CInv, IInv, TypeOK

LEMMA ReclaimMidCInv ==
  ASSUME Expected, CInv, IInv', NEW p \in Procs, ReclaimMid(p)
  PROVE  CInv'
<1>1. Reclaims(p) /\ loc[p].pc = "u_mid"
  BY DEF ReclaimMid, At, Reclaims
<1>2. PICK c \in Chains, a \in Names :
        /\ loc[p].c = c /\ loc[p].old = a
        /\ OwnChain(p) /\ Files(c) /\ ~loc[p].made
        /\ loc[p].pc \in {"u_mid", "u_fin", "u_cnt"} => dir[a] = ToMid(c)
        /\ fin \in [Chains -> Obj] /\ mid \subseteq Chains
        /\ cnt \in [Chains -> 0 .. MaxCount \cup {Absent}]
  BY <1>1, ReclaimerIs
<1>3. c \in mid /\ fin[c] \in FileObj /\ dir[a] = ToMid(c)
  BY <1>1, <1>2 DEF OwnChain, Files
<1>4. ~Fails(p, c \notin mid)
  <2>1. loc[p].pc \notin FaultAt
    BY <1>1 DEF Expected, LinkPoints
  <2> QED BY <1>3, <2>1 DEF Fails
<1>5. mid' = mid \ {c} /\ Goto(p, "u_fin") /\ UNCHANGED <<dir, fin, cnt, enabled, faults>>
  BY <1>2, <1>4 DEF ReclaimMid
<1>6. /\ \A q \in Procs : q # p => loc'[q] = loc[q]
      /\ loc'[p].pc = "u_fin" /\ loc'[p].c = c /\ loc'[p].old = a
      /\ loc'[p].made = loc[p].made /\ Uses(p)' = Uses(p)
  BY <1>2, <1>5, GotoIs
<1>7. ~Builds(p)' /\ ~Member(p)'
  BY <1>6 DEF Builds, Member
<1>8. OwnNames(p)' /\ OwnChain(p)' /\ OwnLinks(p)'
  BY <1>2, <1>3, <1>5, <1>6, <1>7 DEF OwnNames, OwnChain, OwnLinks
<1> QED
  BY <1>1, <1>2, <1>3, <1>5, <1>6, <1>7, <1>8, ReclaimStep DEF Place

LEMMA ReclaimFinalCInv ==
  ASSUME Expected, CInv, IInv', NEW p \in Procs, ReclaimFinal(p)
  PROVE  CInv'
<1>1. Reclaims(p) /\ loc[p].pc = "u_fin"
  BY DEF ReclaimFinal, At, Reclaims
<1>2. PICK c \in Chains, a \in Names :
        /\ loc[p].c = c /\ loc[p].old = a
        /\ OwnChain(p) /\ Files(c) /\ ~loc[p].made
        /\ loc[p].pc \in {"u_mid", "u_fin", "u_cnt"} => dir[a] = ToMid(c)
        /\ fin \in [Chains -> Obj] /\ mid \subseteq Chains
        /\ cnt \in [Chains -> 0 .. MaxCount \cup {Absent}]
  BY <1>1, ReclaimerIs
<1>3. c \notin mid /\ fin[c] \in FileObj /\ fin[c] # None /\ dir[a] = ToMid(c)
  BY <1>1, <1>2, Kinds DEF OwnChain
<1>4. ~Fails(p, fin[c] = None)
  <2>1. loc[p].pc \notin FaultAt
    BY <1>1 DEF Expected, LinkPoints
  <2> QED BY <1>3, <2>1 DEF Fails
<1>5. /\ fin' = [fin EXCEPT ![c] = None] /\ Goto(p, "u_cnt")
      /\ UNCHANGED <<dir, mid, cnt, enabled, faults>>
  BY <1>2, <1>4 DEF ReclaimFinal
<1>6. /\ \A q \in Procs : q # p => loc'[q] = loc[q]
      /\ loc'[p].pc = "u_cnt" /\ loc'[p].c = c /\ loc'[p].old = a
      /\ loc'[p].made = loc[p].made /\ Uses(p)' = Uses(p)
  BY <1>2, <1>5, GotoIs
<1>7. ~Builds(p)' /\ ~Member(p)'
  BY <1>6 DEF Builds, Member
<1>8. fin'[c] = None /\ \A d \in Chains : d # c => fin'[d] = fin[d]
  BY <1>2, <1>5
<1>9. OwnNames(p)' /\ OwnChain(p)' /\ OwnLinks(p)'
  BY <1>2, <1>3, <1>5, <1>6, <1>7, <1>8 DEF OwnNames, OwnChain, OwnLinks
<1> QED
  BY <1>1, <1>2, <1>3, <1>5, <1>6, <1>7, <1>8, <1>9, ReclaimStep DEF Place

LEMMA ReclaimCountCInv ==
  ASSUME Expected, CInv, IInv', NEW p \in Procs, ReclaimCount(p)
  PROVE  CInv'
<1>1. Reclaims(p) /\ loc[p].pc = "u_cnt"
  BY DEF ReclaimCount, At, Reclaims
<1>2. PICK c \in Chains, a \in Names :
        /\ loc[p].c = c /\ loc[p].old = a
        /\ OwnChain(p) /\ Files(c) /\ ~loc[p].made
        /\ loc[p].pc \in {"u_mid", "u_fin", "u_cnt"} => dir[a] = ToMid(c)
        /\ fin \in [Chains -> Obj] /\ mid \subseteq Chains
        /\ cnt \in [Chains -> 0 .. MaxCount \cup {Absent}]
  BY <1>1, ReclaimerIs
<1>3. c \notin mid /\ fin[c] = None /\ dir[a] = ToMid(c)
  BY <1>1, <1>2 DEF OwnChain
<1>4. /\ cnt' = [cnt EXCEPT ![c] = Absent] /\ Goto(p, "u_name")
      /\ UNCHANGED <<dir, mid, fin, enabled, faults>>
  BY <1>2 DEF ReclaimCount
<1>5. /\ \A q \in Procs : q # p => loc'[q] = loc[q]
      /\ loc'[p].pc = "u_name" /\ loc'[p].c = c /\ loc'[p].old = a
      /\ loc'[p].made = loc[p].made /\ Uses(p)' = Uses(p)
  BY <1>2, <1>4, GotoIs
<1>6. ~Builds(p)' /\ ~Member(p)'
  BY <1>5 DEF Builds, Member
<1>7. cnt'[c] = Absent /\ \A d \in Chains : d # c => cnt'[d] = cnt[d]
  BY <1>2, <1>4
<1>8. OwnNames(p)' /\ OwnChain(p)' /\ OwnLinks(p)'
  BY <1>2, <1>3, <1>4, <1>5, <1>6 DEF OwnNames, OwnChain, OwnLinks
<1> QED
  BY <1>1, <1>2, <1>3, <1>4, <1>5, <1>6, <1>7, <1>8, ReclaimStep DEF Place

(* A step that leaves every chain its names and its files. *)
LEMMA QuietAll ==
  ASSUME CInv, NEW p \in Procs, NEW S, Frame(p, S), SameFiles,
         \A n \in Names, d \in Chains : dir'[n] = ToMid(d) <=> dir[n] = ToMid(d),
         \A d \in Chains : Quiet(p, d) /\ Quiet(p, d)'
  PROVE  \A d \in Chains : Chain(d)'
<1> SUFFICES ASSUME NEW d \in Chains PROVE Chain(d)'
  OBVIOUS
<1>1. NamesOf(d)' = NamesOf(d)
  BY DEF NamesOf
<1> QED BY <1>1, QuietChain DEF SameFiles, CInv

LEMMA ApartKept ==
  ASSUME CInv \/ KInv, NEW p \in Procs, \A q \in Procs : q # p => loc'[q] = loc[q],
         \A q \in Procs : q # p => Uses(p)' \cap Uses(q) = {}
  PROVE  Apart'
<1>1. \A q \in Procs : q # p => Uses(q)' = Uses(q)
  BY DEF Uses
<1> QED BY <1>1 DEF CInv, KInv, Apart

LEMMA RemoveNameCInv ==
  ASSUME Expected, CInv, IInv', NEW p \in Procs, RemoveName(p)
  PROVE  CInv'
<1>1. /\ loc[p].pc \in {"u_plain", "u_name"} /\ OwnNames(p) /\ dir \in [Names -> Obj]
      /\ ~Builds(p) /\ ~Reclaims(p) /\ ~Member(p)
  BY DEF RemoveName, CInv, Place, IInv, TypeOK, Builds, Reclaims, Member
<1>2. PICK a \in Names : loc[p].old = a
  BY <1>1, InCallFacts DEF CInv
<1>3. ~Fails(p, FALSE)
  <2>1. loc[p].pc \notin FaultAt
    BY <1>1 DEF Expected, LinkPoints
  <2> QED BY <2>1 DEF Fails
<1>4. /\ dir' = [dir EXCEPT ![a] = None] /\ Return(p)
      /\ UNCHANGED <<mid, fin, cnt, enabled, faults>>
  BY <1>2, <1>3 DEF RemoveName
<1>5. dir'[a] = None /\ \A n \in Names : n # a => dir'[n] = dir[n]
  BY <1>1, <1>2, <1>4
<1>6. Frame(p, {a}) /\ SameFiles
  BY <1>2, <1>4, <1>5, ReturnIs, OwnFrame DEF Uses, SameFiles
<1>7. Solo' /\ Members'
  <2>1. Solo'
    BY <1>4, <1>6, ReturnIs, SoloKept, Kinds
  <2>2. Members'
    BY <1>4, <1>6, ReturnIs, MembersKept
  <2> QED BY <2>1, <2>2
<1>8. CASE loc[p].pc = "u_plain"
  <2>1. dir[a] \in FileObj /\ loc[p].c = NoChain
    BY <1>1, <1>2, <1>8 DEF OwnNames
  <2>2. \A n \in Names, d \in Chains : dir'[n] = ToMid(d) <=> dir[n] = ToMid(d)
    BY <1>5, <2>1, Kinds
  <2>3. \A d \in Chains : Quiet(p, d) /\ Quiet(p, d)'
    BY <1>4, <2>1, ReturnIs, Kinds DEF Quiet
  <2>4. \A d \in Chains : Chain(d)'
    BY <1>6, <2>2, <2>3, QuietAll
  <2>5. Apart'
    BY <1>4, ReturnIs, ApartKept
  <2> QED
    BY <1>2, <1>4, <1>5, <1>6, <1>7, <2>4, <2>5, ReturnIs, StepDone
<1>9. CASE loc[p].pc = "u_name"
  <2>1. PICK c \in Chains : loc[p].c = c
    BY <1>9, OnChain
  <2>2. dir[a] = ToMid(c) /\ Chain(c)
    BY <1>1, <1>2, <1>9, <2>1 DEF OwnNames, CInv
  <2>3. /\ NamesOf(c)' = NamesOf(c) \ {a}
        /\ Cardinality(NamesOf(c)') = Cardinality(NamesOf(c)) - 1
        /\ Cardinality(NamesOf(c)) \in Nat
    <3>1. a \in NamesOf(c) /\ a \notin NamesOf(c)'
      BY <1>5, <2>2, Kinds DEF NamesOf
    <3> QED BY <1>5, <3>1, NamesCounted
  <2>4. loc'[p].pc = "idle" /\ loc'[p].c = NoChain /\ \A q \in Procs : q # p => loc'[q] = loc[q]
    BY <1>4, ReturnIs
  <2>5. /\ InCall(c, Building)' = InCall(c, Building)
        /\ \A T : "u_name" \notin T /\ "idle" \notin T => (On(c, T)' <=> On(c, T))
    BY <1>9, <2>4 DEF InCall, On, Building
  <2>6. Balance(c)'
    <3>1. /\ Cardinality(InCall(c, {"sym_new", "rb_dec", "r_dec"})')
               = Cardinality(InCall(c, {"sym_new", "rb_dec", "r_dec"}))
          /\ Cardinality(InCall(c, {"u_name", "u_mid"})') = Cardinality(InCall(c, {"u_name", "u_mid"})) - 1
          /\ Cardinality(InCall(c, {"sym_new", "rb_dec", "r_dec"})) \in Nat
          /\ Cardinality(InCall(c, {"u_name", "u_mid"})) \in Nat
      BY <1>6, <1>9, <2>1, <2>4, Counted
    <3> QED BY <1>4, <2>2, <2>3, <2>5, <3>1 DEF Chain, Balance
  <2>7. Files(c)'
    <3>1. /\ On(c, {"sym_mid", "rb_ren", "u_fin", "r_fin"})' <=> On(c, {"sym_mid", "rb_ren", "u_fin", "r_fin"})
          /\ On(c, {"rb_ren", "rb_cnt", "u_fin", "u_cnt", "r_fin", "r_cnt"})'
               <=> On(c, {"rb_ren", "rb_cnt", "u_fin", "u_cnt", "r_fin", "r_cnt"})
          /\ On(c, Building \cup {"u_mid", "r_mid"})' <=> On(c, Building \cup {"u_mid", "r_mid"})
      BY <2>5 DEF Building
    <3> QED BY <1>4, <2>2, <3>1 DEF Chain, Files
  <2>8. Led(c)'
    <3>1. \A n \in NamesOf(c)' : Leaves(n, c) => Leaves(n, c)'
      BY <1>2, <2>3, <2>4 DEF Leaves
    <3>2. \A q \in Procs : loc'[q].c = c /\ Reclaims(q)' => loc[q].c = c /\ Reclaims(q)
      BY <2>4 DEF Reclaims
    <3> QED BY <1>4, <2>2, <2>3, <3>1, <3>2 DEF Chain, Led
  <2>9. \A n \in {a} \cap Names : {dir[n], dir'[n]} \subseteq FileObj \cup {None, ToMid(c)}
    BY <1>5, <2>2
  <2> QED
    BY <1>4, <1>6, <1>7, <2>1, <2>4, <2>6, <2>7, <2>8, <2>9, ReturnIs, OwnStep DEF Chain
<1> QED BY <1>1, <1>8, <1>9

-----------------------------------------------------------------------------

LEMMA RenameDropCInv ==
  ASSUME Expected, CInv, IInv', NEW p \in Procs, RenameDrop(p)
  PROVE  CInv'
<1>1. Member(p) /\ loc[p].pc = "r_dec" /\ ~Builds(p) /\ ~Reclaims(p) /\ OwnNames(p)
  BY DEF RenameDrop, At, Member, Builds, Reclaims, CInv, Place
<1>2. PICK c \in Chains, a \in Names : loc[p].c = c /\ loc[p].old = a
  BY <1>1, OnChain
<1>3. cnt \in [Chains -> 0 .. MaxCount \cup {Absent}] /\ ~loc[p].made
  BY <1>1 DEF CInv, IInv, TypeOK, OwnNames
<1>4. /\ c \in mid /\ fin[c] \in FileObj /\ cnt[c] >= 1 /\ cnt[c] \in Int /\ CountOf(c) = cnt[c]
      /\ \A q \in Procs : q # p /\ loc[q].c = c => ~Builds(q) /\ ~Reclaims(q)
      /\ cnt[c] = Cardinality(NamesOf(c)) + Cardinality(InCall(c, {"sym_new", "rb_dec", "r_dec"}))
                  - Cardinality(InCall(c, {"u_name", "u_mid"}))
  <2>1. /\ c \in mid /\ cnt[c] >= 1
        /\ \A q \in Procs : q # p /\ loc[q].c = c => ~Builds(q) /\ ~Reclaims(q)
        /\ cnt[c] = Cardinality(NamesOf(c)) + Cardinality(InCall(c, {"sym_new", "rb_dec", "r_dec"}))
                    - Cardinality(InCall(c, {"u_name", "u_mid"}))
    BY <1>1, <1>2, MemberChain
  <2>2. fin[c] \in FileObj
    BY <2>1 DEF CInv, Chain, Files
  <2>3. cnt[c] \in Int /\ CountOf(c) = cnt[c]
    BY <1>3, <2>1 DEF CountOf, Absent
  <2> QED BY <2>1, <2>2, <2>3
<1>5. ~Fails(p, FALSE)
  <2>1. loc[p].pc \notin FaultAt
    BY <1>1 DEF Expected, LinkPoints
  <2> QED BY <2>1 DEF Fails
<1>6. /\ cnt' = Decremented(c) /\ UNCHANGED <<dir, mid, fin, enabled, faults>>
      /\ IF cnt[c] = 1 THEN Goto(p, "r_mid") ELSE Return(p)
  BY <1>2, <1>4, <1>5 DEF RenameDrop
<1>7. cnt'[c] = cnt[c] - 1 /\ (\A d \in Chains : d # c => cnt'[d] = cnt[d])
      /\ NamesOf(c)' = NamesOf(c)
  BY <1>3, <1>4, <1>6 DEF Decremented, NamesOf
<1>8. \A q \in Procs : q # p => loc'[q] = loc[q]
  BY <1>6, GotoIs, ReturnIs
<1>9. Frame(p, {})
  BY <1>2, <1>6, <1>7, <1>8, OwnFrame
<1>10. loc'[p].pc \in {"idle", "r_mid"}
  BY <1>6, GotoIs, ReturnIs
<1>11. cnt'[c] = Cardinality(NamesOf(c)') + Cardinality(InCall(c, {"sym_new", "rb_dec", "r_dec"})')
                 - Cardinality(InCall(c, {"u_name", "u_mid"})')
  <2>1. /\ Cardinality(InCall(c, {"sym_new", "rb_dec", "r_dec"})')
             = Cardinality(InCall(c, {"sym_new", "rb_dec", "r_dec"})) - 1
        /\ Cardinality(InCall(c, {"u_name", "u_mid"})') = Cardinality(InCall(c, {"u_name", "u_mid"}))
    BY <1>1, <1>2, <1>9, <1>10, Counted
  <2>2. /\ Cardinality(NamesOf(c)) \in Nat
        /\ Cardinality(InCall(c, {"sym_new", "rb_dec", "r_dec"})) \in Nat
        /\ Cardinality(InCall(c, {"u_name", "u_mid"})) \in Nat
    BY Numbers
  <2> QED BY <1>4, <1>7, <2>1, <2>2
<1>12. CASE cnt[c] # 1
  <2>1. Return(p) /\ cnt'[c] >= 1
    BY <1>4, <1>6, <1>7, <1>12
  <2>2. Solo' /\ Members'
    BY <1>1, <1>2, <1>4, <1>6, <1>9, <2>1, ReturnIs, SameRole
  <2>3. Chain(c)'
    BY <1>1, <1>2, <1>6, <1>9, <1>11, <2>1, ReturnIs, MemberChainKept
  <2> QED
    BY <1>1, <1>2, <1>9, <2>1, <2>2, <2>3, ReturnIs, OwnStep
<1>13. CASE cnt[c] = 1
  <2>1. /\ loc'[p].pc = "r_mid" /\ loc'[p].c = c /\ loc'[p].old = a /\ loc'[p].new = loc[p].new
        /\ loc'[p].made = loc[p].made /\ Uses(p)' = Uses(p)
    BY <1>2, <1>6, <1>13, GotoIs
  <2>2. /\ \A n \in NamesOf(c) : \E q \in Procs : /\ q # p /\ loc[q].old = n /\ loc[q].c = c
                                                  /\ loc[q].pc = "u_name"
        /\ \A q \in Procs : q # p /\ loc[q].c = c => loc[q].pc = "u_name"
    BY <1>1, <1>2, <1>13, LastOne
  <2>3. ~Builds(p)' /\ ~Member(p)'
    BY <2>1 DEF Builds, Member
  <2>4. Solo'
    <3> SUFFICES ASSUME NEW q \in Procs, NEW r \in Procs, q # r, loc'[q].c = loc'[r].c, loc'[q].c \in Chains
                 PROVE  ~Builds(q)' /\ (Reclaims(q)' => loc'[r].pc = "u_name")
      BY DEF Solo
    <3>1. CASE q = p
      BY <1>8, <2>1, <2>2, <2>3, <3>1
    <3>2. CASE r = p
      <4>1. loc'[q] = loc[q] /\ loc[q].pc = "u_name"
        BY <1>8, <2>1, <2>2, <3>2
      <4> QED BY <4>1 DEF Builds, Reclaims
    <3>3. CASE q # p /\ r # p
      <4>1. loc'[q] = loc[q] /\ loc'[r] = loc[r]
        BY <1>8, <3>3
      <4> QED BY <4>1 DEF CInv, Solo, Builds, Reclaims
    <3> QED BY <3>1, <3>2, <3>3
  <2>5. Members'
    BY <1>2, <1>6, <1>9, <2>3, MembersKept
  <2>6. Place(p)'
    <3>1. OwnNames(p)'
      BY <1>3, <2>1 DEF OwnNames
    <3>2. OwnChain(p)' /\ OwnLinks(p)'
      BY <1>4, <1>6, <1>7, <1>13, <2>1, <2>3 DEF OwnChain, OwnLinks
    <3> QED BY <3>1, <3>2 DEF Place
  <2>7. \A n \in NamesOf(c)' : Leaves(n, c)'
    BY <1>7, <1>8, <2>2 DEF Leaves
  <2>8. Led(c)' /\ Balance(c)'
    BY <1>11, <2>7 DEF Led, Balance
  <2>9. On(c, Building \cup {"u_mid", "r_mid"})'
    BY <2>1 DEF On
  <2>10. Files(c)'
    BY <1>4, <1>6, <2>9 DEF Files
  <2> QED
    BY <1>1, <1>2, <1>9, <2>1, <2>4, <2>5, <2>6, <2>8, <2>10, OwnStep DEF Chain
<1> QED BY <1>12, <1>13

LEMMA RenameReclaimCInv ==
  ASSUME Expected, CInv, IInv', NEW p \in Procs, RenameReclaim(p)
  PROVE  CInv'
<1>1. Reclaims(p) /\ loc[p].pc \in {"r_mid", "r_fin", "r_cnt"}
  BY DEF RenameReclaim, At, Reclaims
<1>2. PICK c \in Chains, a \in Names :
        /\ loc[p].c = c /\ loc[p].old = a
        /\ OwnChain(p) /\ Files(c) /\ ~loc[p].made
        /\ loc[p].pc \in {"u_mid", "u_fin", "u_cnt"} => dir[a] = ToMid(c)
        /\ fin \in [Chains -> Obj] /\ mid \subseteq Chains
        /\ cnt \in [Chains -> 0 .. MaxCount \cup {Absent}]
  BY <1>1, ReclaimerIs
<1>3. UNCHANGED <<dir, enabled, faults>>
  BY DEF RenameReclaim
<1>4. CASE At(p, "r_mid") /\ mid' = mid \ {c} /\ Goto(p, "r_fin") /\ UNCHANGED <<fin, cnt>>
  <2>1. /\ \A q \in Procs : q # p => loc'[q] = loc[q]
        /\ loc'[p].pc = "r_fin" /\ loc'[p].c = c /\ loc'[p].made = loc[p].made /\ Uses(p)' = Uses(p)
    BY <1>2, <1>4, GotoIs
  <2>2. fin[c] \in FileObj /\ loc[p].pc = "r_mid"
    BY <1>2, <1>4 DEF OwnChain, Files, At
  <2>3. ~Builds(p)' /\ ~Member(p)'
    BY <2>1 DEF Builds, Member
  <2>4. OwnNames(p)' /\ OwnChain(p)' /\ OwnLinks(p)'
    BY <1>2, <1>4, <2>1, <2>2, <2>3 DEF OwnNames, OwnChain, OwnLinks
  <2> QED
    BY <1>1, <1>2, <1>3, <1>4, <2>1, <2>2, <2>3, <2>4, ReclaimStep DEF Place
<1>5. CASE At(p, "r_fin") /\ fin' = [fin EXCEPT ![c] = None] /\ Goto(p, "r_cnt") /\ UNCHANGED <<mid, cnt>>
  <2>1. /\ \A q \in Procs : q # p => loc'[q] = loc[q]
        /\ loc'[p].pc = "r_cnt" /\ loc'[p].c = c /\ loc'[p].made = loc[p].made /\ Uses(p)' = Uses(p)
    BY <1>2, <1>5, GotoIs
  <2>2. c \notin mid /\ loc[p].pc = "r_fin" /\ fin'[c] = None
        /\ \A d \in Chains : d # c => fin'[d] = fin[d]
    BY <1>2, <1>5 DEF OwnChain, At
  <2>3. ~Builds(p)' /\ ~Member(p)'
    BY <2>1 DEF Builds, Member
  <2>4. OwnNames(p)' /\ OwnChain(p)' /\ OwnLinks(p)'
    BY <1>2, <1>5, <2>1, <2>2, <2>3 DEF OwnNames, OwnChain, OwnLinks
  <2> QED
    BY <1>1, <1>2, <1>3, <1>5, <2>1, <2>2, <2>3, <2>4, ReclaimStep DEF Place
<1>6. CASE At(p, "r_cnt") /\ cnt' = [cnt EXCEPT ![c] = Absent] /\ Return(p) /\ UNCHANGED <<mid, fin>>
  <2>1. c \notin mid /\ fin[c] = None /\ loc[p].pc = "r_cnt" /\ cnt'[c] = Absent
        /\ \A d \in Chains : d # c => cnt'[d] = cnt[d]
    BY <1>2, <1>6 DEF OwnChain, At
  <2> QED
    BY <1>1, <1>2, <1>3, <1>6, <2>1, ReturnIs, ReclaimStep
<1> QED BY <1>2, <1>4, <1>5, <1>6 DEF RenameReclaim

LEMMA RenameCallCInv ==
  ASSUME Expected, CInv, IInv', NEW p \in Procs, RenameCall(p)
  PROVE  CInv'
<1>1. /\ loc[p].pc = "r_svc" /\ OwnNames(p) /\ dir \in [Names -> Obj]
      /\ loc[p].c \in Chains \cup {NoChain} /\ loc[p].old \in Names
  BY InCallFacts DEF RenameCall, At, CInv, Place, IInv, TypeOK, Locals
<1>2. PICK a \in Names, b \in Names : loc[p].old = a /\ loc[p].new = b /\ b # a
  BY <1>1 DEF OwnNames
<1>3. /\ dir[a] # None /\ ~loc[p].made
      /\ loc[p].c = NoChain => dir[b] \in FileObj \cup {None}
      /\ loc[p].c # NoChain => dir[b] = ToMid(loc[p].c) /\ dir[a] # dir[b]
  BY <1>1, <1>2 DEF OwnNames
<1>4. /\ dir' = [dir EXCEPT ![b] = dir[a], ![a] = None]
      /\ IF loc[p].c = NoChain THEN Return(p) ELSE Goto(p, "r_dec")
      /\ UNCHANGED <<mid, fin, cnt, enabled, faults>>
  <2>1. ~Fails(p, dir[a] = None)
    <3>1. loc[p].pc \notin FaultAt
      BY <1>1 DEF Expected, LinkPoints
    <3> QED BY <1>3, <3>1 DEF Fails
  <2> QED BY <1>2, <2>1 DEF RenameCall
<1>5. dir'[b] = dir[a] /\ dir'[a] = None /\ \A n \in Names : n \notin {a, b} => dir'[n] = dir[n]
  BY <1>1, <1>2, <1>4
<1>6. /\ \A q \in Procs : q # p => loc'[q] = loc[q]
      /\ loc'[p].pc = (IF loc[p].c = NoChain THEN "idle" ELSE "r_dec")
      /\ loc'[p].c = loc[p].c /\ Uses(p)' \subseteq Uses(p)
  BY <1>4, GotoIs, ReturnIs
<1>7. Frame(p, {a, b}) /\ SameFiles
  BY <1>2, <1>4, <1>5, <1>6, OwnFrame DEF Uses, SameFiles
<1>8. ~Builds(p)' /\ ~Reclaims(p)' /\ (Member(p)' => Member(p))
  BY <1>1, <1>6 DEF Builds, Reclaims, Member
<1>9. Solo' /\ Members'
  <2>1. Solo'
    BY <1>1, <1>6, <1>7, <1>8, SoloKept
  <2>2. Member(p)' => loc'[p].c \in mid'
    BY <1>4, <1>6, <1>8 DEF CInv, Members
  <2>3. Members'
    BY <1>4, <1>7, <2>2, MembersKept
  <2> QED BY <2>1, <2>3
<1>10. Place(p)'
  <2>1. CASE loc[p].c = NoChain
    BY <1>4, <2>1, ReturnIs
  <2>2. CASE loc[p].c # NoChain
    <3>1. loc'[p].pc = "r_dec" /\ ~loc'[p].made
      BY <1>3, <1>4, <2>2, GotoIs
    <3>2. OwnNames(p)'
      BY <3>1 DEF OwnNames
    <3>3. OwnChain(p)' /\ OwnLinks(p)'
      BY <1>8, <3>1 DEF OwnChain, OwnLinks
    <3> QED BY <3>2, <3>3 DEF Place
  <2> QED BY <2>1, <2>2
<1>11. Apart'
  BY <1>6, ApartKept DEF CInv, Apart
<1>12. ASSUME NEW d \in Chains, d = loc[p].c PROVE Chain(d)'
  <2>1. /\ Member(p) /\ dir[b] = ToMid(d) /\ dir[a] # ToMid(d) /\ loc'[p].pc = "r_dec" /\ loc'[p].c = d
    BY <1>1, <1>3, <1>6, <1>12, Kinds DEF Member
  <2>2. NamesOf(d)' = NamesOf(d) \ {b} /\ b \in NamesOf(d)
    BY <1>5, <2>1, Kinds DEF NamesOf
  <2>3. /\ Cardinality(NamesOf(d)') = Cardinality(NamesOf(d)) - 1
        /\ Cardinality(NamesOf(d)) \in Nat
    <3>1. IsFiniteSet(NamesOf(d))
      <4>1. NamesOf(d) \in SUBSET Names
        BY DEF NamesOf
      <4> QED BY <4>1, FS_Subset DEF Expected
    <3> QED BY <2>2, <3>1, FS_RemoveElement, FS_CardinalityType
  <2>4. /\ Cardinality(InCall(d, {"sym_new", "rb_dec", "r_dec"})')
             = Cardinality(InCall(d, {"sym_new", "rb_dec", "r_dec"})) + 1
        /\ Cardinality(InCall(d, {"u_name", "u_mid"})') = Cardinality(InCall(d, {"u_name", "u_mid"}))
        /\ Cardinality(InCall(d, {"sym_new", "rb_dec", "r_dec"})) \in Nat
        /\ Cardinality(InCall(d, {"u_name", "u_mid"})) \in Nat
    BY <1>1, <1>7, <1>12, <2>1, Counted
  <2>5. /\ cnt[d] >= 1
        /\ cnt[d] = Cardinality(NamesOf(d)) + Cardinality(InCall(d, {"sym_new", "rb_dec", "r_dec"}))
                    - Cardinality(InCall(d, {"u_name", "u_mid"}))
    BY <1>12, <2>1, MemberChain
  <2>6. /\ cnt'[d] = Cardinality(NamesOf(d)') + Cardinality(InCall(d, {"sym_new", "rb_dec", "r_dec"})')
                     - Cardinality(InCall(d, {"u_name", "u_mid"})')
        /\ cnt'[d] >= 1
    BY <1>4, <2>3, <2>4, <2>5
  <2> QED BY <1>4, <1>7, <1>8, <1>12, <2>1, <2>6, MemberChainKept
<1>13. ASSUME NEW d \in Chains, d # loc[p].c PROVE Chain(d)'
  <2>1. Quiet(p, d) /\ Quiet(p, d)' /\ dir[b] # ToMid(d)
    BY <1>3, <1>6, <1>13, Kinds DEF Quiet
  <2>2. CASE dir[a] = ToMid(d)
    <3>1. a \in NamesOf(d) /\ b \notin NamesOf(d) /\ NamesOf(d)' = (NamesOf(d) \ {a}) \cup {b}
      BY <1>2, <1>5, <2>1, <2>2, Kinds DEF NamesOf
    <3>2. ~Leaves(a, d)
      <4> SUFFICES ASSUME NEW q \in Procs, loc[q].old = a,
                          loc[q].pc \in {"u_mid", "u_fin", "u_cnt", "u_name"}
                   PROVE  FALSE
        BY DEF Leaves
      <4>1. q = p
        BY <1>2 DEF CInv, Apart, Uses
      <4> QED BY <1>1, <4>1
    <3> QED BY <1>4, <1>7, <2>1, <3>1, <3>2, MovedChain
  <2>3. CASE dir[a] # ToMid(d)
    <3>1. NamesOf(d)' = NamesOf(d)
      BY <1>5, <2>1, <2>3, Kinds DEF NamesOf
    <3> QED BY <1>4, <1>7, <2>1, <3>1, QuietChain DEF CInv
  <2> QED BY <2>2, <2>3
<1>14. \A n \in {a, b} \cap Names :
         \/ dir'[n] \in FileObj \cup {None, ToMid(loc[p].c)}
         \/ \E m \in {a, b} \cap Names : dir'[n] = dir[m]
  BY <1>5
<1> QED
  BY <1>7, <1>9, <1>10, <1>11, <1>12, <1>13, <1>14, StepDone

-----------------------------------------------------------------------------

LEMMA IdleIs ==
  ASSUME CInv \/ KInv, NEW p \in Procs, At(p, "idle")
  PROVE  /\ loc[p] = Idle /\ loc[p].pc = "idle" /\ loc[p].c = NoChain /\ Uses(p) = {}
         /\ ~Builds(p) /\ ~Reclaims(p) /\ ~Member(p)
<1>1. loc[p] = Idle /\ loc[p].pc = "idle"
  BY DEF CInv, KInv, Place, KPlace, OwnNames, KOwnNames, At
<1>2. Idle.c = NoChain /\ Idle.old = NoName /\ Idle.new = NoName
  BY DEF Idle
<1> QED BY <1>1, <1>2, L2sAssumption DEF Uses, Builds, Reclaims, Member

LEMMA StartIs ==
  ASSUME CInv \/ KInv, NEW p \in Procs, NEW l, NEW a, NEW b, NEW c, Start(p, l, a, b, c)
  PROVE  /\ \A q \in Procs : q # p => loc'[q] = loc[q]
         /\ loc'[p].pc = l /\ loc'[p].old = a /\ loc'[p].new = b /\ loc'[p].c = c
         /\ ~loc'[p].made
         /\ Uses(p)' = {a, b} \cap Names
<1>1. loc \in [Procs -> Locals]
  BY DEF CInv, KInv, IInv, TypeOK
<1>2. loc'[p] = [Idle EXCEPT !.pc = l, !.old = a, !.new = b, !.c = c]
  BY <1>1 DEF Start
<1>3. LET r == [Idle EXCEPT !.pc = l, !.old = a, !.new = b, !.c = c]
      IN  r.pc = l /\ r.old = a /\ r.new = b /\ r.c = c /\ ~r.made
  BY DEF Idle
<1> QED BY <1>1, <1>2, <1>3 DEF Start, Uses

(* A link nobody works on: its chain is there, and nobody builds or reclaims
   it. *)
LEMMA FreeLink ==
  ASSUME CInv \/ KInv, NEW n \in Names, n \notin InUse, NEW c \in Chains, dir[n] = ToMid(c)
  PROVE  c \in mid /\ \A q \in Procs : loc[q].c = c => ~Builds(q) /\ ~Reclaims(q)
<1>1. n \in NamesOf(c) /\ Led(c) /\ \A q \in Procs : loc[q].old # n
  BY DEF NamesOf, CInv, KInv, Chain, KChain, InUse
<1>2. ~Leaves(n, c)
  BY <1>1 DEF Leaves
<1>3. \A q \in Procs : loc[q].c = c => ~Builds(q)
  BY <1>1 DEF CInv, KInv, Place, KPlace, OwnLinks
<1> QED BY <1>1, <1>2, <1>3 DEF Led

(* A call begins. *)
LEMMA BeginStep ==
  ASSUME Expected, CInv, IInv', NEW p \in Procs, At(p, "idle"),
         NEW l \in {"pick", "inc", "u_dec", "u_plain", "r_svc"},
         NEW a \in Names, NEW b, a \notin InUse, b \in Names => b \notin InUse,
         NEW c \in Chains \cup {NoChain}, Start(p, l, a, b, c),
         UNCHANGED <<fsVars, faults>>, enabled \subseteq enabled',
         c \in Chains => dir[a] = ToMid(c) \/ (b \in Names /\ dir[b] = ToMid(c)),
         OwnNames(p)', l \in {"inc", "u_dec"} => c \in Chains
  PROVE  CInv'
<1> DEFINE S == {a, b} \cap Names
<1>1. /\ \A q \in Procs : q # p => loc'[q] = loc[q]
      /\ loc'[p].pc = l /\ loc'[p].c = c /\ Uses(p)' \subseteq S /\ ~loc'[p].made
  BY StartIs
<1>2. UNCHANGED <<dir, mid, fin, cnt, faults>>
  BY DEF fsVars
<1>3. \A q \in Procs : q # p => S \cap Uses(q) = {}
  BY DEF InUse, Uses
<1>4. Frame(p, {}) /\ SameFiles
  BY <1>1, <1>2 DEF Frame, SameFiles
<1>5. ~Builds(p)' /\ ~Reclaims(p)'
  BY <1>1 DEF Builds, Reclaims
<1>6. c \in Chains => c \in mid /\ \A q \in Procs : loc[q].c = c => ~Builds(q) /\ ~Reclaims(q)
  BY FreeLink
<1>7. Members'
  <2>1. Member(p)' => c \in mid
    BY <1>1, <1>6 DEF Member
  <2> QED BY <1>1, <1>2, <1>4, <2>1, MembersKept
<1>8. Solo'
  <2> SUFFICES ASSUME NEW q \in Procs, NEW r \in Procs, q # r, loc'[q].c = loc'[r].c, loc'[q].c \in Chains
               PROVE  ~Builds(q)' /\ (Reclaims(q)' => loc'[r].pc = "u_name")
    BY DEF Solo
  <2>1. CASE q = p
    BY <1>5, <2>1
  <2>2. CASE r = p
    <3>1. loc'[q] = loc[q] /\ ~Builds(q) /\ ~Reclaims(q)
      BY <1>1, <1>6, <2>2
    <3> QED BY <3>1 DEF Builds, Reclaims
  <2>3. CASE q # p /\ r # p
    <3>1. loc'[q] = loc[q] /\ loc'[r] = loc[r]
      BY <1>1, <2>3
    <3> QED BY <3>1 DEF CInv, Solo, Builds, Reclaims
  <2> QED BY <2>1, <2>2, <2>3
<1>9. Place(p)'
  BY <1>1, <1>5 DEF Place, OwnChain, OwnLinks
<1>10. Apart'
  BY <1>1, <1>3, ApartKept
<1>11. \A d \in Chains : Quiet(p, d) /\ Quiet(p, d)'
  BY <1>1, IdleIs DEF Quiet, QuietAt
<1>12. \A d \in Chains : Chain(d)'
  BY <1>2, <1>4, <1>11, QuietAll
<1> QED
  BY <1>4, <1>7, <1>8, <1>9, <1>10, <1>12, StepDone

(* A step outside every call: one of an idle process. *)
LEMMA IdleStep ==
  ASSUME Expected, CInv, IInv', NEW p \in Procs, At(p, "idle"), NEW S, S \cap InUse = {},
         UNCHANGED <<loc, mid, fin, cnt, faults>>, enabled \subseteq enabled',
         \A n \in Names : n \in S \/ dir'[n] = dir[n],
         \A n \in S \cap Names :
           \/ dir'[n] \in FileObj \cup {None}
           \/ \E m \in S \cap Names : dir'[n] = dir[m],
         \A d \in Chains : Chain(d)'
  PROVE  CInv'
<1>1. \A q \in Procs : q # p => S \cap Uses(q) = {}
  BY DEF InUse, Uses
<1>2. Frame(p, S) /\ SameFiles
  BY <1>1 DEF Frame, SameFiles
<1>3. Solo' /\ Members' /\ Apart'
  BY DEF CInv, Solo, Members, Apart, Builds, Reclaims, Member, Uses
<1>4. Place(p)'
  <2>1. loc'[p].pc = "idle" /\ loc'[p] = Idle /\ ~loc'[p].made /\ ~Builds(p)'
    <3>1. ~Idle.made
      BY DEF Idle
    <3> QED BY <3>1, IdleIs DEF Builds
  <2>2. OwnNames(p)'
    BY <2>1 DEF OwnNames
  <2>3. OwnChain(p)' /\ OwnLinks(p)'
    BY <2>1 DEF OwnChain, OwnLinks
  <2> QED BY <2>2, <2>3 DEF Place
<1> QED BY <1>2, <1>3, <1>4, IdleIs, StepDone

(* What an entry that a call looks up may be. *)
LEMMA EntryIs ==
  ASSUME CInv \/ KInv, NEW n \in Names
  PROVE  /\ dir[n] \in FileObj \cup {None} \cup MidObj
         /\ IsFake(n) => dir[n][2] \in Chains /\ dir[n] = ToMid(dir[n][2])
         /\ n \notin InUse => (Resolves(n) <=> IsFake(n))
<1>1. dir[n] \in FileObj \cup {None} \cup MidObj
  BY DEF CInv, KInv, IInv, TypeOK, Obj
<1>2. IsFake(n) => dir[n][2] \in Chains /\ dir[n] = ToMid(dir[n][2])
  BY Kinds DEF IsFake
<1>3. n \notin InUse => (Resolves(n) <=> IsFake(n))
  BY <1>2, FreeLink DEF Resolves
<1> QED BY <1>1, <1>2, <1>3

LEMMA LinkBeginCInv ==
  ASSUME Expected, CInv, IInv', NEW p \in Procs, NEW a \in Names, NEW b \in Names, LinkBegin(p, a, b)
  PROVE  CInv'
<1>1. /\ At(p, "idle") /\ a \notin InUse /\ b \notin InUse /\ a # b /\ dir[a] # None
      /\ enabled \subseteq enabled' /\ UNCHANGED <<fsVars, faults>> /\ dir' = dir
  BY DEF LinkBegin, MayCall, Expected, fsVars
<1>2. CASE ~IsFake(a) /\ Start(p, "pick", a, b, NoChain)
  <2>1. dir[a] \in FileObj
    BY <1>1, <1>2, EntryIs DEF IsFake
  <2>2. /\ loc'[p].pc = "pick" /\ loc'[p].old = a /\ loc'[p].new = b /\ loc'[p].c = NoChain
        /\ ~loc'[p].made
    BY <1>2, StartIs
  <2>3. OwnNames(p)'
    BY <1>1, <2>1, <2>2 DEF OwnNames
  <2> QED BY <1>1, <1>2, <2>3, Kinds, BeginStep
<1>3. CASE Resolves(a) /\ Start(p, "inc", a, b, dir[a][2])
  <2>1. PICK c \in Chains : c = dir[a][2] /\ dir[a] = ToMid(c)
    BY <1>3, EntryIs DEF Resolves
  <2>2. /\ loc'[p].pc = "inc" /\ loc'[p].old = a /\ loc'[p].new = b /\ loc'[p].c = c
        /\ ~loc'[p].made
    BY <1>3, <2>1, StartIs
  <2>3. OwnNames(p)'
    BY <1>1, <2>1, <2>2 DEF OwnNames
  <2> QED BY <1>1, <1>3, <2>1, <2>3, BeginStep
<1> QED BY <1>2, <1>3 DEF LinkBegin

LEMMA UnlinkBeginCInv ==
  ASSUME Expected, CInv, IInv', NEW p \in Procs, NEW a \in Names, UnlinkBegin(p, a)
  PROVE  CInv'
<1>1. /\ At(p, "idle") /\ a \notin InUse /\ dir[a] # None /\ p \in enabled
      /\ enabled \subseteq enabled' /\ UNCHANGED <<fsVars, faults>> /\ dir' = dir
  BY DEF UnlinkBegin, MayCall, Expected, CInv, fsVars
<1>2. NoName \notin Names
  BY L2sAssumption
<1>3. CASE Resolves(a)
  <2>1. Start(p, "u_dec", a, NoName, dir[a][2])
    BY <1>1, <1>3 DEF UnlinkBegin
  <2>2. PICK c \in Chains : c = dir[a][2] /\ dir[a] = ToMid(c)
    BY <1>3, EntryIs DEF Resolves
  <2>3. /\ loc'[p].pc = "u_dec" /\ loc'[p].old = a /\ loc'[p].c = c /\ ~loc'[p].made
    BY <2>1, <2>2, StartIs
  <2>4. OwnNames(p)'
    BY <1>1, <2>2, <2>3 DEF OwnNames
  <2> QED BY <1>1, <1>2, <2>1, <2>2, <2>4, BeginStep
<1>4. CASE ~Resolves(a)
  <2>1. Start(p, "u_plain", a, NoName, NoChain)
    BY <1>4 DEF UnlinkBegin
  <2>2. dir[a] \in FileObj
    BY <1>1, <1>4, EntryIs DEF IsFake
  <2>3. /\ loc'[p].pc = "u_plain" /\ loc'[p].old = a /\ loc'[p].c = NoChain /\ ~loc'[p].made
    BY <2>1, StartIs
  <2>4. OwnNames(p)'
    BY <1>1, <2>2, <2>3 DEF OwnNames
  <2> QED BY <1>1, <1>2, <2>1, <2>4, Kinds, BeginStep
<1> QED BY <1>3, <1>4

(* A step that touches no entry and no file. *)
LEMMA NothingMoves ==
  ASSUME Expected, CInv, IInv', NEW p \in Procs, At(p, "idle"),
         UNCHANGED <<fsVars, loc, faults>>, enabled \subseteq enabled'
  PROVE  CInv'
<1>1. UNCHANGED <<dir, mid, fin, cnt, loc, faults>>
  BY DEF fsVars
<1>2. Frame(p, {}) /\ SameFiles
  BY <1>1 DEF Frame, SameFiles
<1>3. \A d \in Chains : Quiet(p, d) /\ Quiet(p, d)'
  BY <1>1, IdleIs DEF Quiet, QuietAt
<1>4. \A d \in Chains : Chain(d)'
  BY <1>1, <1>2, <1>3, QuietAll
<1>5. {} \cap InUse = {}
  OBVIOUS
<1> QED BY <1>1, <1>4, <1>5, IdleStep

LEMMA RenameBeginCInv ==
  ASSUME Expected, CInv, IInv', NEW p \in Procs, NEW a \in Names, NEW b \in Names, RenameBegin(p, a, b)
  PROVE  CInv'
<1>1. /\ At(p, "idle") /\ a \notin InUse /\ b \notin InUse /\ a # b /\ dir[a] # None /\ p \in enabled
      /\ enabled \subseteq enabled' /\ UNCHANGED <<fsVars, faults>> /\ dir' = dir
  BY DEF RenameBegin, MayCall, Expected, CInv, fsVars
<1>2. CASE Resolves(b) /\ dir[a] # dir[b] /\ Start(p, "r_svc", a, b, dir[b][2])
  <2>1. PICK c \in Chains : c = dir[b][2] /\ dir[b] = ToMid(c)
    BY <1>2, EntryIs DEF Resolves
  <2>2. /\ loc'[p].pc = "r_svc" /\ loc'[p].old = a /\ loc'[p].new = b /\ loc'[p].c = c
        /\ ~loc'[p].made
    BY <1>2, <2>1, StartIs
  <2>3. OwnNames(p)'
    <3>1. dir'[b] = ToMid(c) /\ dir'[a] # dir'[b] /\ dir'[a] # None /\ c # NoChain
      BY <1>1, <1>2, <2>1, Kinds
    <3> QED BY <1>1, <2>2, <3>1 DEF OwnNames
  <2> QED BY <1>1, <1>2, <2>1, <2>3, BeginStep
<1>3. CASE UNCHANGED loc
  BY <1>1, <1>3, NothingMoves
<1>4. CASE ~Resolves(b) /\ Start(p, "r_svc", a, b, NoChain)
  <2>1. dir[b] \in FileObj \cup {None}
    BY <1>1, <1>4, EntryIs DEF IsFake
  <2>2. /\ loc'[p].pc = "r_svc" /\ loc'[p].old = a /\ loc'[p].new = b /\ loc'[p].c = NoChain
        /\ ~loc'[p].made
    BY <1>4, StartIs
  <2>3. OwnNames(p)'
    BY <1>1, <2>1, <2>2 DEF OwnNames
  <2> QED BY <1>1, <1>4, <2>3, Kinds, BeginStep
<1> QED BY <1>1, <1>2, <1>3, <1>4 DEF RenameBegin

LEMMA RenameFlagsCInv ==
  ASSUME Expected, CInv, IInv', NEW p \in Procs, NEW a \in Names, NEW b \in Names, RenameFlags(p, a, b)
  PROVE  CInv'
<1>1. /\ At(p, "idle") /\ a \notin InUse /\ b \notin InUse /\ a # b /\ dir[a] # None
      /\ UNCHANGED <<mid, fin, cnt, enabled, loc, faults>>
      /\ dir' = [dir EXCEPT ![a] = dir[b], ![b] = dir[a]] /\ dir \in [Names -> Obj]
  BY DEF RenameFlags, MayCall, Expected, CInv, IInv, TypeOK
<1>2. dir'[a] = dir[b] /\ dir'[b] = dir[a] /\ \A n \in Names : n \notin {a, b} => dir'[n] = dir[n]
  BY <1>1
<1>3. Frame(p, {a, b})
  BY <1>1, <1>2 DEF Frame, InUse, Uses
<1>4. ASSUME NEW d \in Chains PROVE Chain(d)'
  <2>1. Quiet(p, d) /\ Quiet(p, d)' /\ Chain(d)
    BY <1>1, IdleIs DEF Quiet, QuietAt, CInv
  <2>2. ~Leaves(a, d) /\ ~Leaves(b, d)
    BY <1>1 DEF Leaves, InUse
  <2>3. CASE dir[a] = ToMid(d) /\ dir[b] # ToMid(d)
    <3>1. a \in NamesOf(d) /\ b \notin NamesOf(d) /\ NamesOf(d)' = (NamesOf(d) \ {a}) \cup {b}
      BY <1>1, <1>2, <2>3 DEF NamesOf
    <3> QED BY <1>1, <1>3, <2>1, <2>2, <3>1, MovedChain
  <2>4. CASE dir[b] = ToMid(d) /\ dir[a] # ToMid(d)
    <3>1. b \in NamesOf(d) /\ a \notin NamesOf(d) /\ NamesOf(d)' = (NamesOf(d) \ {b}) \cup {a}
      BY <1>1, <1>2, <2>4 DEF NamesOf
    <3> QED BY <1>1, <1>3, <2>1, <2>2, <3>1, MovedChain
  <2>5. CASE dir[a] = ToMid(d) <=> dir[b] = ToMid(d)
    <3>1. NamesOf(d)' = NamesOf(d)
      BY <1>2, <2>5 DEF NamesOf
    <3> QED BY <1>1, <1>3, <2>1, <3>1, QuietChain
  <2> QED BY <2>3, <2>4, <2>5
<1> QED BY <1>1, <1>2, <1>4, IdleStep

LEMMA CreateCInv ==
  ASSUME Expected, CInv, IInv', NEW p \in Procs, NEW n \in Names, NEW x \in Data, Create(p, n, x)
  PROVE  CInv'
<1>1. /\ At(p, "idle") /\ {n} \cap InUse = {} /\ dir[n] = None
      /\ UNCHANGED <<mid, fin, cnt, enabled, loc, faults>>
      /\ dir' = [dir EXCEPT ![n] = File(x)] /\ dir \in [Names -> Obj]
  BY DEF Create, MayCall, Expected, CInv, IInv, TypeOK
<1>2. dir'[n] \in FileObj /\ \A m \in Names : m # n => dir'[m] = dir[m]
  BY <1>1 DEF FileObj
<1>3. Frame(p, {n}) /\ SameFiles
  BY <1>1, <1>2 DEF Frame, InUse, Uses, SameFiles
<1>4. \A m \in Names, d \in Chains : dir'[m] = ToMid(d) <=> dir[m] = ToMid(d)
  BY <1>1, <1>2, Kinds
<1>5. \A d \in Chains : Quiet(p, d) /\ Quiet(p, d)'
  BY <1>1, IdleIs DEF Quiet, QuietAt
<1>6. \A d \in Chains : Chain(d)'
  BY <1>3, <1>4, <1>5, QuietAll
<1> QED BY <1>1, <1>2, <1>6, IdleStep

(* l2s_pick_generation looks only at the mid, so a generation can be free while
   another call is still on the chain that had it (L2sReuse is such a run).
   Here it takes none that a call is on. *)
PicksFresh ==
  \A p \in Procs : At(p, "pick") /\ loc'[p].pc = "ren" =>
    \A q \in Procs : q # p => loc[q].c # loc'[p].c

FreshPick == [][PicksFresh]_vars

LEMMA PickCInv ==
  ASSUME Expected, CInv, IInv', NEW p \in Procs, PickGeneration(p), PicksFresh
  PROVE  CInv'
<1>1. loc[p].pc = "pick" /\ OwnNames(p) /\ loc \in [Procs -> Locals]
  BY DEF PickGeneration, At, CInv, Place, IInv, TypeOK
<1>2. UNCHANGED <<dir, mid, fin, cnt, enabled, faults>>
  BY DEF PickGeneration, fsVars
<1>3. PICK a \in Names : loc[p].old = a
  BY <1>1, InCallFacts DEF CInv
<1>4. PICK b \in Names : /\ loc[p].new = b /\ b # a /\ loc[p].c = NoChain /\ ~loc[p].made
                         /\ dir[a] \in FileObj
  BY <1>1, <1>3 DEF OwnNames
<1>5. CASE Return(p)
  <2>1. Frame(p, {}) /\ SameFiles
    BY <1>2, <1>5, ReturnIs, OwnFrame DEF SameFiles
  <2>2. Solo' /\ Members'
    <3>1. Solo'
      BY <1>5, <2>1, ReturnIs, SoloKept, Kinds
    <3>2. Members'
      BY <1>2, <1>5, <2>1, ReturnIs, MembersKept
    <3> QED BY <3>1, <3>2
  <2>3. \A d \in Chains : Quiet(p, d) /\ Quiet(p, d)'
    BY <1>4, <1>5, ReturnIs, Kinds DEF Quiet
  <2>4. \A d \in Chains : Chain(d)'
    BY <1>2, <2>1, <2>3, QuietAll
  <2>5. Apart'
    BY <1>5, ReturnIs, ApartKept
  <2> QED BY <1>5, <2>1, <2>2, <2>4, <2>5, ReturnIs, StepDone
<1>6. ASSUME NEW g \in 1 .. MaxGen, ~Taken(<<BaseOf[a], g>>),
             loc' = [loc EXCEPT ![p].pc = "ren", ![p].c = <<BaseOf[a], g>>]
      PROVE  CInv'
  <2>1. PICK c \in Chains : c = <<BaseOf[a], g>>
    BY L2sAssumption DEF Chains
  <2>2. /\ \A q \in Procs : q # p => loc'[q] = loc[q]
        /\ loc'[p].pc = "ren" /\ loc'[p].c = c /\ loc'[p].old = a /\ loc'[p].new = b
        /\ ~loc'[p].made /\ Uses(p)' = Uses(p)
    <3>1. loc'[p] = [loc[p] EXCEPT !.pc = "ren", !.c = c] /\ loc[p] \in Locals
      BY <1>1, <1>6, <2>1
    <3>2. [loc[p] EXCEPT !.pc = "ren", !.c = c].made = loc[p].made
      BY <3>1 DEF Locals
    <3> QED BY <1>1, <1>3, <1>4, <1>6, <3>1, <3>2 DEF Locals, Uses
  <2>3. \A q \in Procs : loc[q].c # c
    BY <1>1, <1>4, <2>1, <2>2, Kinds DEF PicksFresh, At
  <2>4. c \notin mid /\ Files(c) /\ Led(c)
    <3>1. Files(c) /\ Led(c)
      BY DEF CInv, Chain
    <3>2. ASSUME c \in mid PROVE FALSE
      <4>1. fin[c] \in FileObj /\ fin[c][1] # "mid"
        BY <3>1, <3>2, Kinds DEF Files
      <4>2. Follow(ToMid(c)) = fin[c]
        BY <3>2, Kinds DEF Follow
      <4>3. Resolve(ToMid(c)) = fin[c]
        BY <4>1, <4>2 DEF Resolve, Follow
      <4> QED BY <1>6, <2>1, <4>1, <4>3 DEF Taken
    <3> QED BY <3>1, <3>2
  <2>5. fin[c] = None /\ NamesOf(c) = {}
    BY <2>3, <2>4 DEF Files, Led, On, Leaves
  <2>6. Frame(p, {}) /\ SameFiles
    <3>1. {} \subseteq Uses(p) /\ SameFiles
      BY <1>2 DEF SameFiles
    <3> QED BY <1>2, <2>2, <3>1, OwnFrame
  <2>7. Place(p)'
    <3>1. OwnNames(p)'
      BY <1>2, <1>4, <2>2 DEF OwnNames
    <3>2. OwnChain(p)' /\ OwnLinks(p)'
      BY <1>2, <2>2, <2>4, <2>5 DEF OwnChain, OwnLinks, NamesOf
    <3> QED BY <3>1, <3>2 DEF Place
  <2>8. Members'
    <3>1. ~Member(p)'
      BY <2>2 DEF Member
    <3> QED BY <1>2, <2>6, <3>1, MembersKept
  <2>9. Solo'
    <3> SUFFICES ASSUME NEW q \in Procs, NEW r \in Procs, q # r, loc'[q].c = loc'[r].c, loc'[q].c \in Chains
                 PROVE  ~Builds(q)' /\ (Reclaims(q)' => loc'[r].pc = "u_name")
      BY DEF Solo
    <3>1. q # p /\ r # p
      BY <2>2, <2>3
    <3>2. loc'[q] = loc[q] /\ loc'[r] = loc[r]
      BY <2>2, <3>1
    <3> QED BY <3>2 DEF CInv, Solo, Builds, Reclaims
  <2>10. Apart'
    BY <2>2, ApartKept DEF CInv, Apart
  <2>11. \A d \in Chains : Quiet(p, d) /\ Quiet(p, d)'
    BY <1>1, <2>2 DEF Quiet, QuietAt
  <2>12. \A d \in Chains : Chain(d)'
    BY <1>2, <2>6, <2>11, QuietAll
  <2> QED BY <2>6, <2>7, <2>8, <2>9, <2>10, <2>12, StepDone
<1> QED BY <1>3, <1>5, <1>6 DEF PickGeneration

LEMMA StepCInv ==
  ASSUME Expected
  PROVE  CInv /\ [Next]_vars /\ (PicksFresh \/ UNCHANGED vars) => CInv'
<1> SUFFICES ASSUME CInv, [Next]_vars, PicksFresh \/ UNCHANGED vars PROVE CInv'
  OBVIOUS
<1>1. IInv'
  BY NextIInv DEF CInv
<1>2. CASE UNCHANGED vars
  <2>1. UNCHANGED <<dir, mid, fin, cnt, enabled, loc, faults>>
    BY <1>2 DEF vars
  <2>2. Apart' /\ Solo' /\ Members' /\ Procs \subseteq enabled'
    BY <2>1 DEF CInv, Apart, Uses, Solo, Members, Member, Builds, Reclaims
  <2>3. \A p \in Procs : Place(p)'
    <3>1. \A p \in Procs : OwnNames(p)'
      BY <2>1 DEF CInv, Place, OwnNames
    <3>2. \A p \in Procs : OwnChain(p)' /\ OwnLinks(p)'
      BY <2>1 DEF CInv, Place, OwnChain, OwnLinks, Builds, NamesOf
    <3> QED BY <3>1, <3>2 DEF Place
  <2>4. \A c \in Chains : Chain(c)'
    <3>1. \A c \in Chains : Files(c)' /\ Led(c)'
      BY <2>1 DEF CInv, Chain, Files, On, Led, Leaves, Reclaims, NamesOf
    <3>2. \A c \in Chains : Balance(c)'
      BY <2>1 DEF CInv, Chain, Balance, NamesOf, InCall
    <3> QED BY <3>1, <3>2 DEF Chain
  <2> QED BY <1>1, <2>2, <2>3, <2>4 DEF CInv
<1>3. CASE PicksFresh /\ Next
  <2>1. ASSUME NEW p \in Procs, Call(p) PROVE CInv'
    <3>1. ASSUME NEW n \in Names, LazyEnable(p, n) PROVE CInv'
      BY <1>1, <3>1, NothingMoves DEF LazyEnable, MayCall
    <3> QED
      BY <1>1, <2>1, <3>1, LinkBeginCInv, RenameBeginCInv, RenameFlagsCInv, UnlinkBeginCInv,
         CreateCInv DEF Call
  <2>2. ASSUME NEW p \in Procs, Continue(p) PROVE CInv'
    BY <1>1, <1>3, <2>2, PickCInv, RenameToFinalCInv, SymlinkMidCInv, SymlinkOldCInv, WriteCountCInv,
       AddLinkCInv, SymlinkNewCInv, RollbackOldCInv, RollbackMidCInv, RollbackRenameCInv,
       RollbackCountCInv, RollbackAddCInv, DropLinkCInv, ReclaimMidCInv, ReclaimFinalCInv,
       ReclaimCountCInv, RemoveNameCInv, RenameCallCInv, RenameDropCInv, RenameReclaimCInv, NoCut
       DEF Continue, Expected
  <2>3. ASSUME NEW p \in Procs, Crash(p) PROVE CInv'
    BY <2>3 DEF Crash, Expected
  <2> QED BY <1>3, <2>1, <2>2, <2>3 DEF Next
<1> QED BY <1>2, <1>3

(* Between any two system calls of any number of processes the number in each
   .cnt is the number of names of its chain but for the calls in progress, every
   link leads to a file, nothing is left of a chain without names and one process
   at a time reclaims it (l2s_rt_link, l2s_rt_unlink, l2s_rt_rename_replace_commit),
   whatever call of link() is refused, as long as that is never the write of a count
   that is truncated already, the processes keep to names of their own and no
   generation is taken while a call is still on it. *)
THEOREM L2sConsistent ==
  ASSUME Expected
  PROVE  Spec /\ FreshPick => []Consistent
<1>1. Init => CInv
  BY InitCInv
<1>2. CInv /\ [Next]_vars /\ [PicksFresh]_vars => CInv'
  BY StepCInv
<1>3. CInv => Consistent
  BY ConsistentIs
<1> QED BY <1>1, <1>2, <1>3, PTL DEF Spec, FreshPick

(* A process alone: link(), unlink() and rename() one after another, link()
   refused wherever it may be but at the write of a truncated count, keep every
   chain, count and name together. *)
THEOREM L2sAlone ==
  ASSUME Expected, \A p, q \in Procs : p = q
  PROVE  Spec => []Consistent
<1>1. [Next]_vars => [PicksFresh]_vars
  BY DEF PicksFresh
<1>2. Spec => FreshPick
  BY <1>1, PTL DEF Spec, FreshPick
<1> QED BY <1>2, L2sConsistent, PTL

(* A step that changes the entry at a final: a first link() fills it when it is
   free, and its rollback or the one reclaimer of the chain empties it. *)
LEMMA FinalStep ==
  ASSUME Expected, CInv, [Next]_vars, NEW c \in Chains, fin[c] \in FileObj
  PROVE  /\ fin'[c] \in {None, fin[c]}
         /\ fin'[c] = None => InCall(c, {"sym_mid", "sym_old", "wr_cnt"}) = {}
<1>1. fin[c] # None /\ fin \in [Chains -> Obj]
  BY Kinds DEF CInv, IInv, TypeOK
<1>2. CASE UNCHANGED fin
  BY <1>1, <1>2
<1>3. ASSUME NEW p \in Procs, Continue(p), fin' # fin
      PROVE  /\ fin'[c] \in {None, fin[c]}
             /\ fin'[c] = None => InCall(c, {"sym_mid", "sym_old", "wr_cnt"}) = {}
  <2>1. RenameToFinal(p) \/ RollbackRename(p) \/ ReclaimFinal(p) \/ RenameReclaim(p)
    BY <1>3 DEF Continue, PickGeneration, SymlinkMid, SymlinkOld, WriteCount, AddLink, SymlinkNew,
       RollbackOld, RollbackMid, RollbackCount, RollbackAdd, CutUpdate, DropLink, ReclaimMid, ReclaimCount,
       RemoveName, RenameCall, RenameDrop, fsVars
  <2>2. CASE RenameToFinal(p)
    <3>1. Builds(p) /\ loc[p].pc = "ren" /\ OwnChain(p)
      BY <2>2 DEF RenameToFinal, At, Builds, CInv, Place
    <3>2. loc[p].c # c
      BY <1>1, <3>1 DEF OwnChain
    <3>3. fin'[c] = fin[c]
      BY <1>1, <2>2, <3>2 DEF RenameToFinal
    <3> QED BY <1>1, <3>3
  <2>3. CASE RollbackRename(p) \/ ReclaimFinal(p) \/ RenameReclaim(p)
    <3>1. /\ loc[p].pc \in {"rb_ren", "u_fin", "r_fin"}
          /\ fin' = [fin EXCEPT ![loc[p].c] = None]
      BY <1>3, <2>3 DEF RollbackRename, ReclaimFinal, RenameReclaim, At
    <3>2. Builds(p) \/ Reclaims(p)
      BY <3>1 DEF Builds, Reclaims
    <3>3. loc[p].c = c => InCall(c, {"sym_mid", "sym_old", "wr_cnt"}) = {}
      <4> SUFFICES ASSUME loc[p].c = c, NEW q \in Procs, loc[q].c = c,
                          loc[q].pc \in {"sym_mid", "sym_old", "wr_cnt"}
                   PROVE  FALSE
        BY DEF InCall
      <4>1. Builds(q) /\ q # p
        BY <3>1 DEF Builds
      <4> QED BY <4>1 DEF CInv, Solo
    <3> QED BY <1>1, <3>1, <3>3
  <2> QED BY <2>1, <2>2, <2>3
<1>4. ASSUME NEW p \in Procs, Call(p) \/ Crash(p) PROVE UNCHANGED fin
  BY <1>4 DEF Call, Crash, LinkBegin, RenameBegin, RenameFlags, UnlinkBegin, LazyEnable, Create, fsVars
<1>5. CASE UNCHANGED vars
  BY <1>2, <1>5 DEF vars
<1> QED BY <1>2, <1>3, <1>4, <1>5 DEF Next

(* A first link() never moves its file over the data of another chain
   (l2s_pick_generation, rename(old, final) in l2s_rt_link), as long as no update
   of a count is cut. *)
THEOREM L2sNothingOverwritten ==
  ASSUME Expected
  PROVE  Spec /\ FreshPick => NothingOverwritten
<1>1. Init => CInv
  BY InitCInv
<1>2. CInv /\ [Next]_vars /\ [PicksFresh]_vars => CInv'
  BY StepCInv
<1>3. CInv /\ [Next]_vars => [\A c \in Chains : fin[c] \in FileObj => fin'[c] \in {None, fin[c]}]_fin
  BY FinalStep
<1> QED BY <1>1, <1>2, <1>3, PTL DEF Spec, FreshPick, NothingOverwritten

(* No reclaim takes the content of a chain that a first link() is building
   (l2s_rt_unlink: no side deletes another's new chain), as long as no update of a
   count is cut: a count left at 0 brings the reclaim on too early. *)
THEOREM L2sNewChainSafe ==
  ASSUME Expected
  PROVE  Spec /\ FreshPick => NewChainSafe
<1>1. Init => CInv
  BY InitCInv
<1>2. CInv /\ [Next]_vars /\ [PicksFresh]_vars => CInv'
  BY StepCInv
<1>3. CInv /\ [Next]_vars =>
        [\A c \in Chains : fin[c] \in FileObj /\ fin'[c] = None =>
           InCall(c, {"sym_mid", "sym_old", "wr_cnt"}) = {}]_vars
  BY FinalStep
<1> QED BY <1>1, <1>2, <1>3, PTL DEF Spec, FreshPick, NewChainSafe

-----------------------------------------------------------------------------
(* What a name stands for, told by the entries: nothing once its unlink() has
   counted it down, the final while a first link() has moved the content there,
   and otherwise what its own entry leads to. *)
DropPoints == {"u_mid", "u_fin", "u_cnt", "u_name"}
MovePoints == {"sym_mid", "sym_old", "rb_mid", "rb_ren"}

Plain(n) == \A p \in Procs : loc[p].old = n => loc[p].pc \notin DropPoints \cup MovePoints

Leads(e, o) == \/ e \in FileObj \cup {None} /\ o = e
               \/ \E c \in Chains : e = ToMid(c) /\ o = fin[c]

Holds(n, o) ==
  \/ \E p \in Procs : loc[p].old = n /\ loc[p].pc \in DropPoints /\ o = None
  \/ \E p \in Procs : loc[p].old = n /\ loc[p].pc \in MovePoints /\ o = fin[loc[p].c]
  \/ Plain(n) /\ Leads(dir[n], o)

DataOf(o) == IF o = None THEN NoData ELSE o[2]

(* The calls on a name: one. *)
LEMMA OneCall ==
  ASSUME CInv, NEW p \in Procs, NEW q \in Procs, NEW n \in Names,
         loc[p].old = n, loc[q].old = n
  PROVE  p = q
BY DEF CInv, Apart, Uses

LEMMA OnePlain ==
  ASSUME CInv, NEW p \in Procs, NEW n \in Names, loc[p].old = n,
         loc[p].pc \notin DropPoints \cup MovePoints
  PROVE  Plain(n)
BY OneCall DEF Plain

LEMMA MoverIs ==
  ASSUME CInv, NEW p \in Procs, loc[p].pc \in MovePoints
  PROVE  loc[p].c \in Chains /\ fin[loc[p].c] \in FileObj /\ Builds(p)
<1>1. Builds(p)
  BY DEF MovePoints, Builds
<1>2. loc[p].c \in Chains /\ OwnChain(p)
  BY <1>1, OnChain DEF CInv, Place
<1>3. Files(loc[p].c)
  BY <1>2 DEF CInv, Chain
<1> QED BY <1>1, <1>2, <1>3 DEF MovePoints, OwnChain, Files

(* A link that no unlink() is about to remove leads to a file. *)
LEMMA LeadsIs ==
  ASSUME CInv, NEW n \in Names, Plain(n)
  PROVE  /\ \E o : Leads(dir[n], o)
         /\ \A o : Leads(dir[n], o) => o \in FileObj \cup {None} /\ DataIn(dir[n]) = DataOf(o)
         /\ \A o : Leads(dir[n], o) /\ dir[n] # None => o \in FileObj
<1>1. CASE dir[n] \in FileObj \cup {None}
  <2>1. dir[n][1] # "mid" /\ \A c : dir[n] # ToMid(c)
    BY <1>1, Kinds
  <2>2. Resolve(dir[n]) = dir[n]
    BY <2>1 DEF Resolve, Follow
  <2>3. \A o : Leads(dir[n], o) <=> o = dir[n]
    BY <1>1, <2>1 DEF Leads
  <2> QED BY <1>1, <2>2, <2>3, Kinds DEF DataIn, DataOf
<1>2. CASE dir[n] \in MidObj
  <2>1. PICK c \in Chains : dir[n] = ToMid(c)
    BY <1>2, Kinds
  <2>2. ~Leaves(n, c) /\ Led(c) /\ Files(c) /\ n \in NamesOf(c)
    BY <2>1 DEF Leaves, Plain, DropPoints, CInv, Chain, NamesOf
  <2>3. c \in mid /\ fin[c] \in FileObj
    BY <2>2 DEF Led, Files
  <2>4. \A o : Leads(dir[n], o) <=> o = fin[c]
    BY <2>1, Kinds DEF Leads
  <2>5. Follow(dir[n]) = fin[c]
    BY <2>1, <2>3, Kinds DEF Follow
  <2>6. Resolve(dir[n]) = fin[c]
    BY <2>3, <2>5, Kinds DEF Resolve, Follow
  <2>7. fin[c] # None
    BY <2>3, Kinds
  <2> QED BY <2>3, <2>4, <2>6, <2>7 DEF DataIn, DataOf
<1> QED BY <1>1, <1>2, EntryIs

LEMMA HoldsOne ==
  ASSUME CInv, NEW n \in Names
  PROVE  /\ \E o : Holds(n, o)
         /\ \A o : Holds(n, o) => o \in FileObj \cup {None} /\ View[n] = DataOf(o)
<1>1. View[n] = IF Dropped(n) # {} THEN NoData
                ELSE IF Moved(n) = {} THEN DataIn(dir[n])
                ELSE DataIn(fin[loc[CHOOSE p \in Moved(n) : TRUE].c])
  BY DEF View
<1>2. ASSUME NEW p \in Procs, loc[p].old = n, loc[p].pc \in DropPoints
      PROVE  View[n] = NoData /\ \A o : Holds(n, o) <=> o = None
  <2>1. p \in Dropped(n)
    BY <1>2 DEF Dropped, CallsOn, DropPoints
  <2>2. \A q \in Procs : loc[q].old = n => q = p
    BY <1>2, OneCall
  <2>3. loc[p].pc \notin MovePoints /\ ~Plain(n)
    BY <1>2 DEF DropPoints, MovePoints, Plain
  <2> QED BY <1>1, <1>2, <2>1, <2>2, <2>3 DEF Holds
<1>3. ASSUME NEW p \in Procs, loc[p].old = n, loc[p].pc \in MovePoints
      PROVE  /\ View[n] = DataOf(fin[loc[p].c]) /\ fin[loc[p].c] \in FileObj
             /\ \A o : Holds(n, o) <=> o = fin[loc[p].c]
  <2>1. fin[loc[p].c] \in FileObj
    BY <1>3, MoverIs
  <2>2. \A q \in Procs : loc[q].old = n => q = p
    BY <1>3, OneCall
  <2>3. loc[p].pc \notin DropPoints /\ ~Plain(n)
    BY <1>3 DEF DropPoints, MovePoints, Plain
  <2>4. Dropped(n) = {} /\ Moved(n) = {p}
    BY <1>3, <2>2, <2>3 DEF Dropped, Moved, CallsOn, DropPoints, MovePoints
  <2>5. (CHOOSE q \in Moved(n) : TRUE) = p
    BY <2>4
  <2>6. DataIn(fin[loc[p].c]) = fin[loc[p].c][2]
    <3>1. fin[loc[p].c][1] # "mid"
      BY <2>1, Kinds
    <3> QED BY <2>1, <3>1 DEF DataIn, Resolve, Follow
  <2>7. DataOf(fin[loc[p].c]) = fin[loc[p].c][2]
    BY <2>1, Kinds DEF DataOf
  <2> QED BY <1>1, <1>3, <2>1, <2>2, <2>3, <2>4, <2>5, <2>6, <2>7 DEF Holds
<1>4. CASE Plain(n)
  <2>1. Dropped(n) = {} /\ Moved(n) = {}
    BY <1>4 DEF Plain, Dropped, Moved, CallsOn, DropPoints, MovePoints
  <2>2. \A o : Holds(n, o) <=> Leads(dir[n], o)
    BY <1>4 DEF Holds, Plain
  <2> QED BY <1>1, <1>4, <2>1, <2>2, LeadsIs
<1> QED BY <1>2, <1>3, <1>4 DEF Plain, DataOf

(* The same as one formula, to be used of the state after a step too. *)
LEMMA HoldsIs ==
  CInv => \A n \in Names :
    /\ \E o : Holds(n, o)
    /\ \A o : Holds(n, o) => o \in FileObj \cup {None} /\ View[n] = DataOf(o)
BY HoldsOne

LEMMA ViewFun == View = [n \in Names |-> View[n]]
BY DEF View

LEMMA HoldsThen ==
  (CInv => \A n \in Names :
     /\ \E o : Holds(n, o)
     /\ \A o : Holds(n, o) => o \in FileObj \cup {None} /\ View[n] = DataOf(o))'
BY HoldsIs, PTL

LEMMA HoldsNext ==
  ASSUME CInv', NEW n \in Names, NEW o, Holds(n, o)'
  PROVE  o \in FileObj \cup {None} /\ View'[n] = DataOf(o)
BY HoldsThen DEF DataOf

LEMMA ViewFunNext == (View = [n \in Names |-> View[n]])'
BY ViewFun, PTL

(* What a step of p leaves of a name: the name as the call sees it, and the
   final it stands for. *)
Calm(p, n) ==
  /\ \A T \in {DropPoints, MovePoints} :
       loc[p].old = n /\ loc[p].pc \in T <=> loc'[p].old = n /\ loc'[p].pc \in T
  /\ loc[p].old = n /\ loc[p].pc \in MovePoints => loc'[p].c = loc[p].c

Unused(n, c) ==
  /\ dir[n] = ToMid(c) => Leaves(n, c)
  /\ \A q \in Procs : loc[q].old = n /\ loc[q].pc \in MovePoints => loc[q].c # c

LEMMA SameView ==
  ASSUME CInv, CInv', NEW p \in Procs, \A q \in Procs : q # p => loc'[q] = loc[q],
         NEW n \in Names, dir'[n] = dir[n], Calm(p, n),
         \A c \in Chains : fin'[c] = fin[c] \/ Unused(n, c)
  PROVE  View'[n] = View[n]
<1>1. PICK o : Holds(n, o)
  BY HoldsOne
<1>2. Holds(n, o)'
  <2>1. CASE \E q \in Procs : loc[q].old = n /\ loc[q].pc \in DropPoints /\ o = None
    <3>1. PICK q \in Procs : loc[q].old = n /\ loc[q].pc \in DropPoints /\ o = None
      BY <2>1
    <3>2. loc'[q].old = n /\ loc'[q].pc \in DropPoints
      BY <3>1 DEF Calm
    <3> QED BY <3>1, <3>2 DEF Holds
  <2>2. CASE \E q \in Procs : loc[q].old = n /\ loc[q].pc \in MovePoints /\ o = fin[loc[q].c]
    <3>1. PICK q \in Procs : loc[q].old = n /\ loc[q].pc \in MovePoints /\ o = fin[loc[q].c]
      BY <2>2
    <3>2. loc'[q].old = n /\ loc'[q].pc \in MovePoints /\ loc'[q].c = loc[q].c
      BY <3>1 DEF Calm
    <3>3. fin'[loc[q].c] = fin[loc[q].c]
      BY <3>1, MoverIs DEF Unused
    <3> QED BY <3>1, <3>2, <3>3 DEF Holds
  <2>3. CASE Plain(n) /\ Leads(dir[n], o)
    <3>1. Plain(n)'
      BY <2>3 DEF Plain, Calm
    <3>2. Leads(dir[n], o)'
      <4>1. \A c \in Chains : dir[n] = ToMid(c) => fin'[c] = fin[c]
        BY <2>3 DEF Unused, Leaves, Plain, DropPoints
      <4> QED BY <2>3, <4>1 DEF Leads
    <3> QED BY <3>1, <3>2 DEF Holds
  <2> QED BY <1>1, <2>1, <2>2, <2>3 DEF Holds
<1>3. View[n] = DataOf(o)
  BY <1>1, HoldsOne
<1> QED BY <1>2, <1>3, HoldsNext

LEMMA AllSame ==
  ASSUME \A n \in Names : View'[n] = View[n]
  PROVE  View' = View
BY ViewFun, ViewFunNext

(* A step that moves no entry and no content. *)
LEMMA Stutter ==
  ASSUME CInv, CInv', NEW p \in Procs, \A q \in Procs : q # p => loc'[q] = loc[q],
         UNCHANGED <<dir, fin>>,
         /\ loc[p].pc \in DropPoints <=> loc'[p].pc \in DropPoints
         /\ loc[p].pc \in MovePoints <=> loc'[p].pc \in MovePoints,
         loc[p].pc \in DropPoints \cup MovePoints =>
           loc'[p].old = loc[p].old /\ loc'[p].c = loc[p].c
  PROVE  View' = View
<1>1. \A n \in Names : Calm(p, n)
  BY DEF Calm
<1> QED BY <1>1, SameView, AllSame

-----------------------------------------------------------------------------
(* A content is in one place: it is the entry of one name or of one final. *)
OnePlace ==
  /\ \A n, m \in Names : dir[n] \in FileObj /\ dir[n] = dir[m] => n = m
  /\ \A n \in Names, c \in Chains : dir[n] \in FileObj => fin[c] # dir[n]
  /\ \A c, d \in Chains : fin[c] \in FileObj /\ fin[c] = fin[d] => c = d

(* Entries and finals lose what they have, or get what none has. *)
LEMMA PlaceLost ==
  ASSUME CInv, OnePlace,
         \A n \in Names : dir'[n] = dir[n] \/ dir'[n] \notin FileObj,
         \A c \in Chains : fin'[c] = fin[c] \/ fin'[c] \notin FileObj
  PROVE  OnePlace'
BY DEF OnePlace

LEMMA PlaceNew ==
  ASSUME OnePlace, NEW b \in Names, \A n \in Names : n # b => dir'[n] = dir[n],
         fin' = fin, \A n \in Names : dir[n] # dir'[b], \A c \in Chains : fin[c] # dir'[b]
  PROVE  OnePlace'
BY DEF OnePlace

(* ... or one gives to another what it has. *)
LEMMA PlaceIn ==
  ASSUME OnePlace, NEW a \in Names, NEW c \in Chains, dir[a] \in FileObj,
         fin'[c] = dir[a], dir'[a] \notin FileObj,
         \A n \in Names : n # a => dir'[n] = dir[n],
         \A d \in Chains : d # c => fin'[d] = fin[d]
  PROVE  OnePlace'
BY DEF OnePlace

LEMMA PlaceOut ==
  ASSUME OnePlace, NEW a \in Names, NEW c \in Chains, fin[c] \in FileObj,
         dir'[a] = fin[c], fin'[c] \notin FileObj,
         \A n \in Names : n # a => dir'[n] = dir[n],
         \A d \in Chains : d # c => fin'[d] = fin[d]
  PROVE  OnePlace'
BY DEF OnePlace

LEMMA PlaceMoved ==
  ASSUME OnePlace, NEW a \in Names, NEW b \in Names, a # b, fin' = fin,
         dir'[b] = dir[a], dir'[a] \notin FileObj \/ dir'[a] = dir[b],
         \A n \in Names : n \notin {a, b} => dir'[n] = dir[n]
  PROVE  OnePlace'
BY DEF OnePlace

Distinct == \A n, m \in Names : n # m /\ InitDir[n] = InitDir[m] => InitDir[n] = None

LEMMA InitPlace == Distinct /\ Init => OnePlace
BY Kinds, L2sAssumption DEF Init, Distinct, OnePlace

LEMMA StepPlace ==
  ASSUME Expected, CInv, OnePlace, [Next]_vars
  PROVE  OnePlace'
<1>1. dir \in [Names -> Obj] /\ fin \in [Chains -> Obj]
  BY DEF CInv, IInv, TypeOK
<1>2. CASE UNCHANGED <<dir, fin>>
  BY <1>2 DEF OnePlace
<1>3. ASSUME NEW p \in Procs, Continue(p), ~UNCHANGED <<dir, fin>> PROVE OnePlace'
  <2>1. \/ RenameToFinal(p) \/ SymlinkOld(p) \/ SymlinkNew(p) \/ RollbackOld(p) \/ RollbackRename(p)
        \/ ReclaimFinal(p) \/ RemoveName(p) \/ RenameCall(p) \/ RenameReclaim(p)
    BY <1>3 DEF Continue, PickGeneration, SymlinkMid, WriteCount, AddLink, RollbackMid,
       RollbackCount, RollbackAdd, CutUpdate, DropLink, ReclaimMid, ReclaimCount, RenameDrop, fsVars
  <2>2. CASE RenameToFinal(p)
    <3>1. /\ Builds(p) /\ loc[p].pc = "ren" /\ OwnNames(p)
          /\ loc[p].c \in Chains /\ loc[p].old \in Names
      BY <2>2, OnChain DEF RenameToFinal, At, Builds, CInv, Place
    <3>2. /\ dir[loc[p].old] \in FileObj
          /\ fin' = [fin EXCEPT ![loc[p].c] = dir[loc[p].old]]
          /\ dir' = [dir EXCEPT ![loc[p].old] = None]
      BY <1>3, <2>2, <3>1 DEF RenameToFinal, OwnNames
    <3> QED BY <1>1, <3>1, <3>2, PlaceIn, Kinds
  <2>3. CASE SymlinkOld(p) \/ SymlinkNew(p) \/ RollbackOld(p) \/ RemoveName(p)
    <3>1. \E n, c : dir' = [dir EXCEPT ![n] = ToMid(c)] \/ dir' = [dir EXCEPT ![n] = None]
      BY <1>3, <2>3 DEF SymlinkOld, SymlinkNew, RollbackOld, RemoveName
    <3>2. fin' = fin
      BY <2>3 DEF SymlinkOld, SymlinkNew, RollbackOld, RemoveName
    <3> QED BY <1>1, <3>1, <3>2, PlaceLost, Kinds
  <2>4. CASE RollbackRename(p)
    <3>1. /\ loc[p].pc \in MovePoints /\ loc[p].old \in Names
      BY <2>4, InCallFacts DEF RollbackRename, At, MovePoints, CInv
    <3>2. loc[p].c \in Chains /\ fin[loc[p].c] \in FileObj
      BY <3>1, MoverIs
    <3>3. /\ dir' = [dir EXCEPT ![loc[p].old] = fin[loc[p].c]]
          /\ fin' = [fin EXCEPT ![loc[p].c] = None]
      BY <2>4, <1>3 DEF RollbackRename
    <3> QED BY <1>1, <3>1, <3>2, <3>3, PlaceOut, Kinds
  <2>5. CASE ReclaimFinal(p) \/ RenameReclaim(p)
    <3>1. fin' = [fin EXCEPT ![loc[p].c] = None] /\ dir' = dir
      BY <1>3, <2>5 DEF ReclaimFinal, RenameReclaim
    <3> QED BY <1>1, <3>1, PlaceLost, Kinds
  <2>6. CASE RenameCall(p)
    <3>1. OwnNames(p) /\ loc[p].old \in Names /\ loc[p].pc = "r_svc"
      BY <2>6, InCallFacts DEF RenameCall, At, CInv, Place
    <3>2. loc[p].new \in Names /\ loc[p].new # loc[p].old
      BY <3>1 DEF OwnNames
    <3>3. /\ dir' = [dir EXCEPT ![loc[p].new] = dir[loc[p].old], ![loc[p].old] = None]
          /\ fin' = fin
      BY <1>3, <2>6 DEF RenameCall
    <3> QED BY <1>1, <3>1, <3>2, <3>3, PlaceMoved, Kinds
  <2> QED BY <2>1, <2>2, <2>3, <2>4, <2>5, <2>6
<1>4. ASSUME NEW p \in Procs, NEW a \in Names, NEW b \in Names, RenameFlags(p, a, b) PROVE OnePlace'
  <2>1. a # b /\ fin' = fin /\ dir' = [dir EXCEPT ![a] = dir[b], ![b] = dir[a]]
    BY <1>4 DEF RenameFlags
  <2> QED BY <1>1, <2>1, PlaceMoved
<1>5. ASSUME NEW p \in Procs, NEW n \in Names, NEW x \in Data, Create(p, n, x) PROVE OnePlace'
  <2>1. fin' = fin /\ dir' = [dir EXCEPT ![n] = File(x)]
    BY <1>5 DEF Create
  <2>2. dir'[n] = File(x) /\ \A m \in Names : m # n => dir'[m] = dir[m]
    BY <1>1, <2>1
  <2>3. (\A m \in Names : dir[m] # File(x)) /\ (\A c \in Chains : fin[c] # File(x))
    BY <1>5 DEF Create
  <2> QED BY <2>1, <2>2, <2>3, PlaceNew
<1>6. ASSUME NEW p \in Procs, Call(p), ~UNCHANGED <<dir, fin>> PROVE OnePlace'
  <2>1. \A a, b \in Names : (LinkBegin(p, a, b) \/ RenameBegin(p, a, b)) => UNCHANGED <<dir, fin>>
    BY DEF LinkBegin, RenameBegin, fsVars
  <2>2. \A a \in Names : (UnlinkBegin(p, a) \/ LazyEnable(p, a)) => UNCHANGED <<dir, fin>>
    BY DEF UnlinkBegin, LazyEnable, fsVars
  <2> QED BY <1>4, <1>5, <1>6, <2>1, <2>2 DEF Call
<1>7. ASSUME NEW p \in Procs, Crash(p) PROVE UNCHANGED <<dir, fin>>
  BY <1>7 DEF Crash, fsVars
<1>8. UNCHANGED vars => UNCHANGED <<dir, fin>>
  BY DEF vars
<1> QED BY <1>2, <1>3, <1>6, <1>7, <1>8 DEF Next

-----------------------------------------------------------------------------
(* The steps of a call, seen on the POSIX directory. *)
LEMMA DataIs ==
  ASSUME NoData \notin Data
  PROVE  /\ DataOf(None) = NoData
         /\ \A o \in FileObj : DataOf(o) \in Data /\ DataOf(o) # NoData /\ o = File(DataOf(o))
BY Kinds DEF DataOf, FileObj, File

LEMMA PlainView ==
  ASSUME NoData \notin Data, CInv, NEW n \in Names, Plain(n)
  PROVE  /\ dir[n] = None => View[n] = NoData
         /\ dir[n] \in FileObj => View[n] = DataOf(dir[n])
         /\ \A c \in Chains : dir[n] = ToMid(c) => View[n] = DataOf(fin[c]) /\ fin[c] \in FileObj
         /\ dir[n] # None => View[n] \in Data /\ View[n] # NoData
<1>1. \A o : Leads(dir[n], o) => View[n] = DataOf(o)
  BY HoldsOne DEF Holds
<1>2. \A c \in Chains : dir[n] = ToMid(c) => View[n] = DataOf(fin[c]) /\ fin[c] \in FileObj
  <2> SUFFICES ASSUME NEW c \in Chains, dir[n] = ToMid(c)
               PROVE  View[n] = DataOf(fin[c]) /\ fin[c] \in FileObj
    OBVIOUS
  <2>1. Leads(dir[n], fin[c]) /\ dir[n] # None
    BY Kinds DEF Leads
  <2> QED BY <1>1, <2>1, LeadsIs
<1>3. dir[n] \in FileObj \cup {None} => View[n] = DataOf(dir[n])
  BY <1>1 DEF Leads
<1>4. dir[n] # None => View[n] \in Data /\ View[n] # NoData
  BY <1>2, <1>3, EntryIs, Kinds, DataIs
<1> QED BY <1>2, <1>3, <1>4, DataIs

(* What the name of a call is after the step. *)
LEMMA PlainNext ==
  ASSUME CInv, CInv', NEW p \in Procs, \A q \in Procs : q # p => loc'[q] = loc[q],
         NEW n \in Names, n \in Uses(p),
         loc'[p].old = n => loc'[p].pc \notin DropPoints \cup MovePoints
  PROVE  /\ dir'[n] = None => View'[n] = DataOf(None)
         /\ dir'[n] \in FileObj => View'[n] = DataOf(dir'[n])
         /\ \A c \in Chains : dir'[n] = ToMid(c) => View'[n] = DataOf(fin'[c])
<1>1. \A q \in Procs : q # p => loc[q].old # n
  BY DEF CInv, Apart, Uses
<1>2. Plain(n)'
  BY <1>1 DEF Plain
<1>3. \A o : Leads(dir[n], o)' => View'[n] = DataOf(o)
  BY <1>2, HoldsNext DEF Holds
<1> QED BY <1>3 DEF Leads

LEMMA MovedNext ==
  ASSUME CInv', NEW p \in Procs, NEW n \in Names, loc'[p].old = n, loc'[p].pc \in MovePoints
  PROVE  View'[n] = DataOf(fin'[loc'[p].c])
BY HoldsNext DEF Holds

LEMMA DroppedNext ==
  ASSUME CInv', NEW p \in Procs, NEW n \in Names, loc'[p].old = n, loc'[p].pc \in DropPoints
  PROVE  View'[n] = DataOf(None)
BY HoldsNext DEF Holds

LEMMA MovedView ==
  ASSUME CInv, NEW p \in Procs, NEW n \in Names, loc[p].old = n, loc[p].pc \in MovePoints
  PROVE  View[n] = DataOf(fin[loc[p].c])
BY HoldsOne DEF Holds

LEMMA DroppedView ==
  ASSUME CInv, NEW p \in Procs, NEW n \in Names, loc[p].old = n, loc[p].pc \in DropPoints
  PROVE  View[n] = DataOf(None)
BY HoldsOne DEF Holds

(* ... and the other names. *)
LEMMA OthersView ==
  ASSUME CInv, CInv', NEW p \in Procs, \A q \in Procs : q # p => loc'[q] = loc[q],
         loc'[p].old \in {loc[p].old, NoName},
         NEW n \in Names, n # loc[p].old, dir'[n] = dir[n],
         \A c \in Chains : fin'[c] = fin[c] \/ Unused(n, c)
  PROVE  View'[n] = View[n]
<1>1. loc'[p].old # n
  BY L2sAssumption
<1>2. Calm(p, n)
  BY <1>1 DEF Calm
<1> QED BY <1>2, SameView

LEMMA Went ==
  ASSUME CInv, NEW p \in Procs, NEW l, Goto(p, l)
  PROVE  /\ \A q \in Procs : q # p => loc'[q] = loc[q]
         /\ loc'[p].pc = l /\ loc'[p].old = loc[p].old /\ loc'[p].c = loc[p].c
BY GotoIs

LEMMA Came ==
  ASSUME CInv, NEW p \in Procs, Return(p)
  PROVE  /\ \A q \in Procs : q # p => loc'[q] = loc[q]
         /\ loc'[p].pc = "idle" /\ loc'[p].old = NoName
<1>1. loc'[p] = Idle /\ Idle.old = NoName
  BY DEF CInv, IInv, TypeOK, Return, Idle
<1> QED BY <1>1, ReturnIs

LEMMA Whole ==
  ASSUME NEW a \in Names, NEW x, View'[a] = x, \A n \in Names : n # a => View'[n] = View[n]
  PROVE  View' = [View EXCEPT ![a] = x]
BY ViewFun, ViewFunNext

LEMMA WholeTwo ==
  ASSUME NEW a \in Names, NEW b \in Names, a # b, NEW x, NEW y, View'[a] = x, View'[b] = y,
         \A n \in Names : n \notin {a, b} => View'[n] = View[n]
  PROVE  View' = [View EXCEPT ![a] = x, ![b] = y]
<1>1. View' = [n \in Names |-> View'[n]] /\ View = [n \in Names |-> View[n]]
  BY ViewFun, ViewFunNext
<1>2. [View EXCEPT ![a] = x, ![b] = y] = [n \in Names |-> IF n = b THEN y ELSE IF n = a THEN x ELSE View[n]]
  BY <1>1
<1>3. \A n \in Names : View'[n] = IF n = b THEN y ELSE IF n = a THEN x ELSE View[n]
  OBVIOUS
<1> QED BY <1>1, <1>2, <1>3

(* The steps that move nothing. *)
LEMMA QuietSees ==
  ASSUME Expected, CInv, CInv', NEW p \in Procs,
         \/ PickGeneration(p) \/ SymlinkMid(p) \/ WriteCount(p) \/ AddLink(p) \/ RollbackMid(p)
         \/ RollbackCount(p) \/ RollbackAdd(p) \/ ReclaimMid(p) \/ ReclaimCount(p) \/ RenameDrop(p)
  PROVE  View' = View
<1>1. UNCHANGED <<dir, fin>>
  BY DEF PickGeneration, SymlinkMid, WriteCount, AddLink, RollbackMid, RollbackCount, RollbackAdd,
     ReclaimMid, ReclaimCount, RenameDrop, fsVars
<1>2. CASE PickGeneration(p)
  <2>1. loc[p].pc = "pick" /\ loc \in [Procs -> Locals]
    BY <1>2 DEF PickGeneration, At, CInv, IInv, TypeOK
  <2>2. /\ \A q \in Procs : q # p => loc'[q] = loc[q]
        /\ loc'[p].pc \in {"idle", "ren"}
    <3>1. Return(p) \/ \E x : loc' = [loc EXCEPT ![p].pc = "ren", ![p].c = x]
      BY <1>2 DEF PickGeneration
    <3>2. ASSUME NEW x, loc' = [loc EXCEPT ![p].pc = "ren", ![p].c = x]
          PROVE  loc'[p].pc = "ren" /\ \A q \in Procs : q # p => loc'[q] = loc[q]
      <4>1. loc' = [loc EXCEPT ![p] = [loc[p] EXCEPT !.pc = "ren", !.c = x]]
        BY <2>1, <3>2
      <4>2. loc'[p] = [loc[p] EXCEPT !.pc = "ren", !.c = x] /\ loc[p] \in Locals
        BY <2>1, <4>1
      <4> QED BY <2>1, <4>1, <4>2 DEF Locals
    <3> QED BY <3>1, <3>2, Came
  <2> QED BY <1>1, <2>1, <2>2, Stutter DEF DropPoints, MovePoints
<1>3. CASE WriteCount(p)
  <2>1. loc[p].pc = "wr_cnt" /\ loc \in [Procs -> Locals]
    BY <1>3 DEF WriteCount, At, CInv, IInv, TypeOK
  <2>2. /\ \A q \in Procs : q # p => loc'[q] = loc[q]
        /\ loc'[p].pc \in {"sym_new", "rb_old"}
    <3>1. Goto(p, "rb_old") \/ loc' = [loc EXCEPT ![p].pc = "sym_new", ![p].made = TRUE]
      BY <1>3 DEF WriteCount
    <3>2. CASE loc' = [loc EXCEPT ![p].pc = "sym_new", ![p].made = TRUE]
      <4>1. loc' = [loc EXCEPT ![p] = [loc[p] EXCEPT !.pc = "sym_new", !.made = TRUE]]
        BY <2>1, <3>2
      <4>2. loc'[p] = [loc[p] EXCEPT !.pc = "sym_new", !.made = TRUE] /\ loc[p] \in Locals
        BY <2>1, <4>1
      <4> QED BY <2>1, <4>1, <4>2 DEF Locals
    <3> QED BY <3>1, <3>2, Went
  <2> QED BY <1>1, <2>1, <2>2, Stutter DEF DropPoints, MovePoints
<1>4. CASE AddLink(p) \/ RollbackCount(p) \/ RollbackAdd(p) \/ RenameDrop(p)
  <2>1. /\ loc[p].pc \in {"inc", "rb_cnt", "rb_dec", "r_dec"}
        /\ Return(p) \/ \E l \in {"sym_new", "r_mid"} : Goto(p, l)
    BY <1>4 DEF AddLink, RollbackCount, RollbackAdd, RenameDrop, At
  <2>2. /\ \A q \in Procs : q # p => loc'[q] = loc[q]
        /\ loc'[p].pc \in {"idle", "sym_new", "r_mid"}
    BY <2>1, Came, Went
  <2> QED BY <1>1, <2>1, <2>2, Stutter DEF DropPoints, MovePoints
<1>5. CASE SymlinkMid(p) \/ RollbackMid(p)
  <2>1. /\ loc[p].pc \in {"sym_mid", "rb_mid"}
        /\ \E l \in {"sym_old", "rb_ren"} : Goto(p, l)
    BY <1>5 DEF SymlinkMid, RollbackMid, At
  <2>2. /\ \A q \in Procs : q # p => loc'[q] = loc[q]
        /\ loc'[p].pc \in {"sym_old", "rb_ren"}
        /\ loc'[p].old = loc[p].old /\ loc'[p].c = loc[p].c
    BY <2>1, Went
  <2> QED BY <1>1, <2>1, <2>2, Stutter DEF DropPoints, MovePoints
<1>6. CASE ReclaimMid(p) \/ ReclaimCount(p)
  <2>1. /\ loc[p].pc \in {"u_mid", "u_cnt"}
        /\ \E l \in {"u_fin", "u_name"} : Goto(p, l)
    <3>1. CASE ReclaimMid(p)
      <4>1. loc[p].pc = "u_mid" /\ OwnChain(p)
        BY <3>1 DEF ReclaimMid, At, CInv, Place
      <4>2. ~Fails(p, loc[p].c \notin mid)
        BY <4>1 DEF Expected, LinkPoints, Fails, OwnChain
      <4> QED BY <3>1, <4>1, <4>2 DEF ReclaimMid
    <3> QED BY <1>6, <3>1 DEF ReclaimCount, At
  <2>2. /\ \A q \in Procs : q # p => loc'[q] = loc[q]
        /\ loc'[p].pc \in {"u_fin", "u_name"}
        /\ loc'[p].old = loc[p].old /\ loc'[p].c = loc[p].c
    BY <2>1, Went
  <2> QED BY <1>1, <2>1, <2>2, Stutter DEF DropPoints, MovePoints
<1> QED BY <1>2, <1>3, <1>4, <1>5, <1>6

(* The first link() and its rollback carry the content to final and back. *)
LEMMA BuilderUnused ==
  ASSUME CInv, NEW p \in Procs, loc[p].pc \in {"ren", "rb_ren"}, NEW n \in Names, n # loc[p].old
  PROVE  Unused(n, loc[p].c)
<1>1. Builds(p) /\ OwnLinks(p) /\ loc[p].c \in Chains
  BY OnChain DEF Builds, CInv, Place
<1>2. NamesOf(loc[p].c) = {}
  BY <1>1 DEF OwnLinks
<1>3. \A q \in Procs : q # p => loc[q].c # loc[p].c
  BY <1>1 DEF CInv, Solo
<1> QED BY <1>2, <1>3 DEF Unused, NamesOf

LEMMA RenameToFinalSees ==
  ASSUME NoData \notin Data, CInv, CInv', NEW p \in Procs, RenameToFinal(p)
  PROVE  View' = View
<1>1. /\ loc[p].pc = "ren" /\ loc[p].old \in Names /\ loc[p].c \in Chains /\ OwnNames(p)
      /\ dir \in [Names -> Obj] /\ fin \in [Chains -> Obj]
  BY OnChain DEF RenameToFinal, At, Builds, CInv, Place, IInv, TypeOK
<1> DEFINE a == loc[p].old
           c == loc[p].c
<1>2. dir[a] \in FileObj /\ Plain(a)
  BY <1>1, OnePlain DEF OwnNames, DropPoints, MovePoints
<1>3. CASE Goto(p, "sym_mid") /\ fin' = [fin EXCEPT ![c] = dir[a]] /\ dir' = [dir EXCEPT ![a] = None]
  <2>1. /\ \A q \in Procs : q # p => loc'[q] = loc[q]
        /\ loc'[p].pc = "sym_mid" /\ loc'[p].old = a /\ loc'[p].c = c
    BY <1>3, Went
  <2>2. View'[a] = View[a]
    <3>1. fin'[c] = dir[a]
      BY <1>1, <1>3
    <3>2. View'[a] = DataOf(dir[a])
      BY <1>1, <2>1, <3>1, MovedNext DEF MovePoints
    <3> QED BY <1>1, <1>2, <3>2, PlainView
  <2>3. \A n \in Names : n # a => View'[n] = View[n]
    BY <1>1, <1>3, <2>1, BuilderUnused, OthersView
  <2> QED BY <2>2, <2>3, AllSame
<1>4. CASE Return(p) /\ UNCHANGED <<dir, fin>>
  BY <1>1, <1>4, Came, Stutter DEF DropPoints, MovePoints
<1> QED BY <1>3, <1>4 DEF RenameToFinal

LEMMA SymlinkOldSees ==
  ASSUME CInv, CInv', NEW p \in Procs, SymlinkOld(p)
  PROVE  View' = View
<1>1. /\ loc[p].pc = "sym_old" /\ loc[p].old \in Names /\ loc[p].c \in Chains
      /\ dir \in [Names -> Obj] /\ fin' = fin
  BY OnChain DEF SymlinkOld, At, Builds, CInv, IInv, TypeOK
<1> DEFINE a == loc[p].old
           c == loc[p].c
<1>2. CASE Goto(p, "wr_cnt") /\ dir' = [dir EXCEPT ![a] = ToMid(c)]
  <2>1. /\ \A q \in Procs : q # p => loc'[q] = loc[q]
        /\ loc'[p].pc = "wr_cnt" /\ loc'[p].old = a /\ loc'[p].c = c
    BY <1>2, Went
  <2>2. View'[a] = View[a]
    <3>1. dir'[a] = ToMid(c) /\ a \in Uses(p)
      BY <1>1, <1>2 DEF Uses
    <3>2. View'[a] = DataOf(fin[c])
      BY <1>1, <2>1, <3>1, PlainNext DEF DropPoints, MovePoints
    <3> QED BY <1>1, <3>2, MovedView DEF MovePoints
  <2>3. \A n \in Names : n # a => View'[n] = View[n]
    BY <1>1, <1>2, <2>1, OthersView
  <2> QED BY <2>2, <2>3, AllSame
<1>3. CASE Goto(p, "rb_mid") /\ UNCHANGED dir
  BY <1>1, <1>3, Went, Stutter DEF DropPoints, MovePoints
<1> QED BY <1>2, <1>3 DEF SymlinkOld

LEMMA RollbackOldSees ==
  ASSUME NoData \notin Data, CInv, CInv', NEW p \in Procs, RollbackOld(p)
  PROVE  View' = View
<1>1. /\ loc[p].pc = "rb_old" /\ loc[p].old \in Names /\ loc[p].c \in Chains
      /\ OwnLinks(p) /\ Builds(p) /\ dir \in [Names -> Obj] /\ fin' = fin
  BY OnChain DEF RollbackOld, At, Builds, CInv, Place, IInv, TypeOK
<1> DEFINE a == loc[p].old
           c == loc[p].c
<1>2. dir[a] = ToMid(c) /\ Plain(a)
  <2>1. NamesOf(c) = {a}
    BY <1>1 DEF OwnLinks
  <2> QED BY <1>1, <2>1, OnePlain DEF NamesOf, DropPoints, MovePoints
<1>3. dir' = [dir EXCEPT ![a] = None] /\ Goto(p, "rb_mid")
  BY DEF RollbackOld
<1>4. /\ \A q \in Procs : q # p => loc'[q] = loc[q]
      /\ loc'[p].pc = "rb_mid" /\ loc'[p].old = a /\ loc'[p].c = c
  BY <1>3, Went
<1>5. View'[a] = DataOf(fin[c])
  BY <1>1, <1>4, MovedNext DEF MovePoints
<1>6. View[a] = DataOf(fin[c])
  BY <1>1, <1>2, PlainView
<1>7. \A n \in Names : n # a => View'[n] = View[n]
  BY <1>1, <1>3, <1>4, OthersView
<1> QED BY <1>5, <1>6, <1>7, AllSame

LEMMA RollbackRenameSees ==
  ASSUME CInv, CInv', NEW p \in Procs, RollbackRename(p)
  PROVE  View' = View
<1>1. /\ loc[p].pc = "rb_ren" /\ loc[p].old \in Names
      /\ loc[p].c \in Chains /\ fin[loc[p].c] \in FileObj
      /\ dir \in [Names -> Obj] /\ fin \in [Chains -> Obj]
  BY OnChain, MoverIs DEF RollbackRename, At, Builds, MovePoints, CInv, IInv, TypeOK
<1> DEFINE a == loc[p].old
           c == loc[p].c
<1>2. dir' = [dir EXCEPT ![a] = fin[c]] /\ fin' = [fin EXCEPT ![c] = None]
  BY <1>1, Kinds DEF RollbackRename
<1>3. /\ \A q \in Procs : q # p => loc'[q] = loc[q]
      /\ loc'[p].pc \in {"rb_cnt", "idle"} /\ loc'[p].old \in {a, NoName}
  BY Went, Came DEF RollbackRename
<1>4. View'[a] = DataOf(fin[c])
  <2>1. dir'[a] = fin[c] /\ a \in Uses(p)
    BY <1>1, <1>2 DEF Uses
  <2> QED BY <1>1, <1>3, <2>1, PlainNext DEF DropPoints, MovePoints
<1>5. View[a] = DataOf(fin[c])
  BY <1>1, MovedView DEF MovePoints
<1>6. \A n \in Names : n # a => View'[n] = View[n]
  BY <1>1, <1>2, <1>3, BuilderUnused, OthersView
<1> QED BY <1>4, <1>5, <1>6, AllSame

(* The reclaim takes a content that no name stands for any more. *)
LEMMA ReclaimSees ==
  ASSUME Expected, CInv, CInv', NEW p \in Procs, ReclaimFinal(p) \/ RenameReclaim(p)
  PROVE  View' = View
<1>1. /\ loc[p].pc \in {"u_fin", "r_mid", "r_fin", "r_cnt"} /\ Reclaims(p) /\ dir' = dir
  BY DEF ReclaimFinal, RenameReclaim, At, Reclaims
<1>2. loc[p].c \in Chains /\ loc[p].old \in Names /\ OwnChain(p) /\ Led(loc[p].c)
  BY <1>1, OnChain DEF CInv, Place, Chain
<1> DEFINE c == loc[p].c
<1>3. \A n \in Names : Unused(n, c)
  <2>1. \A n \in NamesOf(c) : Leaves(n, c)
    BY <1>1, <1>2 DEF Led
  <2>2. \A q \in Procs : loc[q].pc \in MovePoints => loc[q].c # c
    <3> SUFFICES ASSUME NEW q \in Procs, loc[q].pc \in MovePoints, loc[q].c = c PROVE FALSE
      OBVIOUS
    <3>1. q # p /\ Builds(q)
      BY <1>1 DEF MovePoints, Builds
    <3> QED BY <1>2, <3>1 DEF CInv, Solo
  <2> QED BY <2>1, <2>2 DEF Unused, NamesOf
<1>4. fin' = fin \/ fin' = [fin EXCEPT ![c] = None]
  BY DEF ReclaimFinal, RenameReclaim
<1>5. /\ \A q \in Procs : q # p => loc'[q] = loc[q]
      /\ \/ loc[p].pc = "u_fin" /\ loc'[p].pc = "u_cnt" /\ loc'[p].old = loc[p].old
         \/ /\ loc[p].pc \in {"r_mid", "r_fin", "r_cnt"}
            /\ loc'[p].pc \in {"r_fin", "r_cnt", "idle"}
  <2>1. CASE ReclaimFinal(p)
    <3>1. loc[p].pc = "u_fin" /\ fin[c] # None
      BY <1>2, <2>1, Kinds DEF ReclaimFinal, At, OwnChain
    <3>2. ~Fails(p, fin[c] = None)
      BY <3>1 DEF Expected, LinkPoints, Fails
    <3>3. Goto(p, "u_cnt")
      BY <2>1, <3>2 DEF ReclaimFinal
    <3> QED BY <3>1, <3>3, Went
  <2>2. CASE RenameReclaim(p)
    <3>1. /\ loc[p].pc \in {"r_mid", "r_fin", "r_cnt"}
          /\ Return(p) \/ \E l \in {"r_fin", "r_cnt"} : Goto(p, l)
      BY <2>2 DEF RenameReclaim, At
    <3> QED BY <3>1, Went, Came
  <2> QED BY <2>1, <2>2
<1>6. \A n \in Names : Calm(p, n)
  BY <1>5 DEF Calm, DropPoints, MovePoints
<1>7. \A d \in Chains : fin'[d] = fin[d] \/ d = c
  BY <1>4 DEF CInv, IInv, TypeOK
<1> QED BY <1>1, <1>3, <1>5, <1>6, <1>7, SameView, AllSame

(* link(): the name appears at its last step. *)
LEMMA SymlinkNewSees ==
  ASSUME NoData \notin Data, CInv, CInv', NEW p \in Procs, SymlinkNew(p)
  PROVE  View' = View \/ HL!Next
<1>1. /\ loc[p].pc = "sym_new" /\ loc[p].old \in Names /\ loc[p].c \in Chains
      /\ OwnNames(p) /\ OwnChain(p)
      /\ dir \in [Names -> Obj] /\ fin' = fin
  BY InCallFacts DEF SymlinkNew, At, NoChainAt, CInv, Place, IInv, TypeOK
<1> DEFINE a == loc[p].old
           b == loc[p].new
           c == loc[p].c
<1>2. b \in Names /\ b # a /\ dir[a] = ToMid(c) /\ Plain(a) /\ b \in Uses(p)
  BY <1>1, OnePlain DEF OwnNames, DropPoints, MovePoints, Uses
<1>3. Plain(b)
  BY <1>2 DEF CInv, Apart, Uses, Plain
<1>4. CASE dir[b] = None /\ dir' = [dir EXCEPT ![b] = ToMid(c)] /\ Return(p)
  <2>1. /\ \A q \in Procs : q # p => loc'[q] = loc[q]
        /\ loc'[p].pc = "idle" /\ loc'[p].old = NoName
    BY <1>4, Came
  <2>2. View[a] = DataOf(fin[c]) /\ View[a] # NoData /\ View[b] = NoData
    BY <1>1, <1>2, <1>3, <1>4, PlainView, Kinds
  <2>3. View'[b] = DataOf(fin[c])
    <3>1. dir'[b] = ToMid(c)
      BY <1>1, <1>2, <1>4
    <3> QED BY <1>1, <1>2, <2>1, <3>1, PlainNext DEF DropPoints, MovePoints
  <2>4. View'[a] = View[a]
    <3>1. dir'[a] = ToMid(c) /\ a \in Uses(p)
      BY <1>1, <1>2, <1>4 DEF Uses
    <3> QED BY <1>1, <2>1, <2>2, <3>1, PlainNext DEF DropPoints, MovePoints
  <2>5. \A n \in Names : n \notin {a, b} => View'[n] = View[n]
    BY <1>1, <1>4, <2>1, OthersView
  <2>6. View' = [View EXCEPT ![b] = View[a]]
    BY <1>2, <2>2, <2>3, <2>4, <2>5, Whole
  <2>7. <<a, b>> \in Pairs({"ren", "sym_mid", "sym_old", "wr_cnt", "inc", "sym_new"})
    BY <1>1 DEF Pairs
  <2>8. HL!Link(a, b)
    BY <2>2, <2>6, <2>7 DEF HL!Link
  <2> QED BY <1>1, <1>2, <2>8 DEF HL!Next
<1>5. CASE UNCHANGED dir /\ \E l \in {"rb_old", "rb_dec"} : Goto(p, l)
  BY <1>1, <1>5, Went, Stutter DEF DropPoints, MovePoints
<1> QED BY <1>4, <1>5 DEF SymlinkNew

(* unlink(): the name is gone once it is counted down; a file that never had a
   second name, once its entry is removed. *)
LEMMA DropLinkSees ==
  ASSUME NoData \notin Data, CInv, CInv', NEW p \in Procs, DropLink(p)
  PROVE  View' = View \/ HL!Next
<1>1. /\ loc[p].pc = "u_dec" /\ loc[p].old \in Names /\ loc[p].c \in Chains
      /\ OwnNames(p) /\ UNCHANGED <<dir, fin>>
  BY InCallFacts DEF DropLink, At, NoChainAt, CInv, Place
<1> DEFINE a == loc[p].old
           c == loc[p].c
<1>2. dir[a] # None /\ Plain(a)
  BY <1>1, OnePlain, Kinds DEF OwnNames, DropPoints, MovePoints
<1>3. CASE \E l \in {"u_mid", "u_name"} : Goto(p, l)
  <2>1. /\ \A q \in Procs : q # p => loc'[q] = loc[q]
        /\ loc'[p].pc \in {"u_mid", "u_name"} /\ loc'[p].old = a
    BY <1>3, Went
  <2>2. View[a] # NoData
    BY <1>1, <1>2, PlainView
  <2>3. View'[a] = NoData
    BY <1>1, <2>1, DroppedNext DEF DropPoints, DataOf
  <2>4. \A n \in Names : n # a => View'[n] = View[n]
    BY <1>1, <2>1, OthersView
  <2>5. View' = [View EXCEPT ![a] = NoData]
    BY <1>1, <2>3, <2>4, Whole
  <2>6. a \in {pair[1] : pair \in Pairs({"u_plain", "u_dec"})}
    <3>1. <<a, loc[p].new>> \in Pairs({"u_plain", "u_dec"})
      BY <1>1 DEF Pairs
    <3>2. <<a, loc[p].new>>[1] = a
      OBVIOUS
    <3> QED BY <3>1, <3>2
  <2>7. HL!Unlink(a)
    BY <2>2, <2>5, <2>6 DEF HL!Unlink
  <2> QED BY <1>1, <2>7 DEF HL!Next
<1>4. CASE Return(p)
  BY <1>1, <1>4, Came, Stutter DEF DropPoints, MovePoints
<1> QED BY <1>3, <1>4 DEF DropLink

LEMMA RemoveNameSees ==
  ASSUME Expected, NoData \notin Data, CInv, CInv', NEW p \in Procs, RemoveName(p)
  PROVE  View' = View \/ HL!Next
<1>1. /\ loc[p].pc \in {"u_plain", "u_name"} /\ loc[p].old \in Names
      /\ OwnNames(p) /\ dir \in [Names -> Obj] /\ fin' = fin /\ Return(p)
  BY InCallFacts DEF RemoveName, CInv, Place, IInv, TypeOK
<1> DEFINE a == loc[p].old
<1>2. dir' = [dir EXCEPT ![a] = None]
  <2>1. ~Fails(p, FALSE)
    BY <1>1 DEF Expected, LinkPoints, Fails
  <2> QED BY <2>1 DEF RemoveName
<1>3. /\ \A q \in Procs : q # p => loc'[q] = loc[q]
      /\ loc'[p].pc = "idle" /\ loc'[p].old = NoName
  BY <1>1, Came
<1>4. View'[a] = DataOf(None)
  <2>1. dir'[a] = None /\ a \in Uses(p)
    BY <1>1, <1>2 DEF Uses
  <2> QED BY <1>1, <1>3, <2>1, PlainNext DEF DropPoints, MovePoints
<1>5. \A n \in Names : n # a => View'[n] = View[n]
  BY <1>1, <1>2, <1>3, OthersView
<1>6. CASE loc[p].pc = "u_name"
  <2>1. View[a] = DataOf(None)
    BY <1>1, <1>6, DroppedView DEF DropPoints
  <2> QED BY <1>4, <1>5, <2>1, AllSame
<1>7. CASE loc[p].pc = "u_plain"
  <2>1. dir[a] # None /\ Plain(a)
    BY <1>1, <1>7, OnePlain, Kinds DEF OwnNames, DropPoints, MovePoints
  <2>2. View[a] # NoData
    BY <1>1, <2>1, PlainView
  <2>3. View' = [View EXCEPT ![a] = NoData]
    BY <1>1, <1>4, <1>5, Whole DEF DataOf
  <2>4. a \in {pair[1] : pair \in Pairs({"u_plain", "u_dec"})}
    <3>1. <<a, loc[p].new>> \in Pairs({"u_plain", "u_dec"})
      BY <1>7 DEF Pairs
    <3>2. <<a, loc[p].new>>[1] = a
      OBVIOUS
    <3> QED BY <3>1, <3>2
  <2>5. HL!Unlink(a)
    BY <2>2, <2>3, <2>4 DEF HL!Unlink
  <2> QED BY <1>1, <2>5 DEF HL!Next
<1> QED BY <1>1, <1>6, <1>7

(* rename(): the entry moves with what it leads to.  Two names of one content
   never get this far, for the content is in one place. *)
LEMMA RenameCallSees ==
  ASSUME NoData \notin Data, CInv, CInv', OnePlace, NEW p \in Procs, RenameCall(p)
  PROVE  View' = View \/ HL!Next
<1>1. /\ loc[p].pc = "r_svc" /\ loc[p].old \in Names /\ OwnNames(p)
      /\ dir \in [Names -> Obj] /\ fin' = fin
  BY InCallFacts DEF RenameCall, At, CInv, Place, IInv, TypeOK
<1> DEFINE a == loc[p].old
           b == loc[p].new
<1>2. /\ b \in Names /\ b # a /\ dir[a] # None /\ Plain(a) /\ a \in Uses(p) /\ b \in Uses(p)
      /\ loc[p].c # NoChain => loc[p].c \in Chains
  BY <1>1, OnePlain DEF OwnNames, DropPoints, MovePoints, Uses, CInv, IInv, TypeOK, Locals
<1>3. Plain(b)
  BY <1>2 DEF CInv, Apart, Uses, Plain
<1>4. CASE dir' = [dir EXCEPT ![b] = dir[a], ![a] = None]
           /\ (Return(p) \/ Goto(p, "r_dec"))
  <2>1. /\ \A q \in Procs : q # p => loc'[q] = loc[q]
        /\ loc'[p].pc \in {"idle", "r_dec"} /\ loc'[p].old \in {a, NoName}
    BY <1>4, Came, Went
  <2>2. dir'[a] = None /\ dir'[b] = dir[a] /\ \A n \in Names : n \notin {a, b} => dir'[n] = dir[n]
    BY <1>1, <1>2, <1>4
  <2>3. View[a] # NoData /\ View'[a] = NoData
    BY <1>1, <1>2, <2>1, <2>2, PlainView, PlainNext DEF DropPoints, MovePoints, DataOf
  <2>4. View'[b] = View[a]
    <3>1. dir[a] \in FileObj \/ \E c \in Chains : dir[a] = ToMid(c)
      BY <1>1, <1>2, EntryIs, Kinds
    <3>2. dir[a] \in FileObj => View[a] = DataOf(dir[a]) /\ View'[b] = DataOf(dir[a])
      BY <1>1, <1>2, <2>1, <2>2, PlainView, PlainNext DEF DropPoints, MovePoints
    <3>3. \A c \in Chains : dir[a] = ToMid(c) => View[a] = DataOf(fin[c]) /\ View'[b] = DataOf(fin[c])
      BY <1>1, <1>2, <2>1, <2>2, PlainView, PlainNext DEF DropPoints, MovePoints
    <3> QED BY <3>1, <3>2, <3>3
  <2>5. View[a] # View[b]
    <3>1. \E o \in FileObj : View[a] = DataOf(o) /\
             (o = dir[a] \/ \E c \in Chains : dir[a] = ToMid(c) /\ o = fin[c])
      BY <1>1, <1>2, PlainView, EntryIs, Kinds
    <3>2. PICK o \in FileObj : View[a] = DataOf(o) /\
             (o = dir[a] \/ \E c \in Chains : dir[a] = ToMid(c) /\ o = fin[c])
      BY <3>1
    <3>3. CASE dir[b] = None
      BY <1>2, <1>3, <2>3, <3>3, PlainView
    <3>4. CASE dir[b] \in FileObj
      <4>1. View[b] = DataOf(dir[b])
        BY <1>2, <1>3, <3>4, PlainView
      <4>2. dir[b] # o
        BY <1>1, <1>2, <3>2, <3>4 DEF OnePlace
      <4> QED BY <3>2, <3>4, <4>1, <4>2, DataIs
    <3>5. ASSUME NEW c \in Chains, dir[b] = ToMid(c) PROVE View[a] # View[b]
      <4>1. View[b] = DataOf(fin[c]) /\ fin[c] \in FileObj
        BY <1>2, <1>3, <3>5, PlainView
      <4>2. dir[a] # ToMid(c)
        <5>1. loc[p].c # NoChain
          BY <1>1, <3>5, Kinds DEF OwnNames
        <5> QED BY <1>1, <3>5, <5>1 DEF OwnNames
      <4>3. fin[c] # o
        BY <1>1, <3>2, <4>1, <4>2 DEF OnePlace
      <4> QED BY <3>2, <4>1, <4>3, DataIs
    <3> QED BY <1>2, <3>3, <3>4, <3>5, EntryIs, Kinds
  <2>6. \A n \in Names : n \notin {a, b} => View'[n] = View[n]
    BY <1>1, <2>1, <2>2, OthersView
  <2>7. View' = [View EXCEPT ![a] = NoData, ![b] = View[a]]
    BY <1>1, <1>2, <2>3, <2>4, <2>6, WholeTwo
  <2>8. <<a, b>> \in Pairs({"r_svc"})
    BY <1>1 DEF Pairs
  <2>9. HL!Rename(a, b)
    BY <2>3, <2>5, <2>7, <2>8 DEF HL!Rename
  <2> QED BY <1>1, <1>2, <2>9 DEF HL!Next
<1>5. CASE UNCHANGED dir /\ Return(p)
  BY <1>1, <1>5, Came, Stutter DEF DropPoints, MovePoints
<1> QED BY <1>4, <1>5 DEF RenameCall

(* A call begins, or is over at once: no name that another call is on. *)
LEMMA BeginSees ==
  ASSUME Expected, CInv, CInv', NEW p \in Procs,
         \/ \E a, b \in Names : LinkBegin(p, a, b) \/ RenameBegin(p, a, b)
         \/ \E a \in Names : UnlinkBegin(p, a) \/ LazyEnable(p, a)
  PROVE  View' = View
<1>1. UNCHANGED <<dir, fin>> /\ loc[p].pc = "idle"
  BY DEF LinkBegin, RenameBegin, UnlinkBegin, LazyEnable, MayCall, At, fsVars
<1>2. \/ UNCHANGED loc
      \/ \E l \in {"pick", "inc", "r_svc", "u_dec", "u_plain"} : \E a, b, c : Start(p, l, a, b, c)
  BY DEF LinkBegin, RenameBegin, UnlinkBegin, LazyEnable
<1>3. /\ \A q \in Procs : q # p => loc'[q] = loc[q]
      /\ loc'[p].pc \in {"idle", "pick", "inc", "r_svc", "u_dec", "u_plain"}
  BY <1>1, <1>2, StartIs
<1> QED BY <1>1, <1>3, Stutter DEF DropPoints, MovePoints

(* What a name nobody works on is after a step that begins no call. *)
LEMMA FreeNext ==
  ASSUME CInv, CInv', UNCHANGED <<loc, fin>>, NEW n \in Names, n \notin InUse
  PROVE  /\ Plain(n)
         /\ dir'[n] = None => View'[n] = DataOf(None)
         /\ dir'[n] \in FileObj => View'[n] = DataOf(dir'[n])
         /\ \A c \in Chains : dir'[n] = ToMid(c) => View'[n] = DataOf(fin[c])
<1>1. \A q \in Procs : loc[q].old # n
  BY DEF InUse
<1>2. Plain(n) /\ Plain(n)'
  BY <1>1 DEF Plain
<1>3. \A o : Leads(dir[n], o)' => View'[n] = DataOf(o)
  BY <1>2, HoldsNext DEF Holds
<1> QED BY <1>2, <1>3 DEF Leads

LEMMA RenameFlagsSees ==
  ASSUME Expected, NoData \notin Data, CInv, CInv', NEW p \in Procs,
         NEW a \in Names, NEW b \in Names, RenameFlags(p, a, b)
  PROVE  HL!Next
<1>1. /\ a # b /\ dir[a] # None /\ a \notin InUse /\ b \notin InUse
      /\ UNCHANGED <<loc, fin>> /\ dir \in [Names -> Obj]
      /\ dir' = [dir EXCEPT ![a] = dir[b], ![b] = dir[a]]
  BY DEF RenameFlags, MayCall, Expected, CInv, IInv, TypeOK
<1>2. dir'[a] = dir[b] /\ dir'[b] = dir[a] /\ \A n \in Names : n \notin {a, b} => dir'[n] = dir[n]
  BY <1>1
<1>3. ASSUME NEW n \in Names, NEW m \in Names, n \notin InUse, m \notin InUse, dir'[m] = dir[n]
      PROVE  View'[m] = View[n]
  <2>1. dir[n] \in FileObj \/ dir[n] = None \/ \E c \in Chains : dir[n] = ToMid(c)
    BY EntryIs, Kinds
  <2>2. dir[n] \in FileObj => View'[m] = View[n]
    BY <1>1, <1>3, FreeNext, PlainView
  <2>3. dir[n] = None => View'[m] = View[n]
    BY <1>1, <1>3, FreeNext, PlainView DEF DataOf
  <2>4. \A c \in Chains : dir[n] = ToMid(c) => View'[m] = View[n]
    BY <1>1, <1>3, FreeNext, PlainView
  <2> QED BY <2>1, <2>2, <2>3, <2>4
<1>4. View'[a] = View[b] /\ View'[b] = View[a]
  BY <1>1, <1>2, <1>3
<1>5. \A n \in Names : n \notin {a, b} => View'[n] = View[n]
  BY <1>1, <1>2, SameView DEF Calm
<1>6. View[a] # NoData
  BY <1>1, FreeNext, PlainView
<1>7. CASE dir[b] = None
  <2>1. View[b] = NoData
    BY <1>1, <1>7, FreeNext, PlainView
  <2>2. View' = [View EXCEPT ![a] = NoData, ![b] = View[a]]
    BY <1>1, <1>4, <1>5, <2>1, WholeTwo
  <2> QED BY <1>6, <2>1, <2>2 DEF HL!Move, HL!Next
<1>8. CASE dir[b] # None
  <2>1. View[b] # NoData
    BY <1>1, <1>8, FreeNext, PlainView
  <2>2. View' = [View EXCEPT ![a] = View[b], ![b] = View[a]]
    BY <1>1, <1>4, <1>5, WholeTwo
  <2> QED BY <1>6, <2>1, <2>2 DEF HL!Exchange, HL!Next
<1> QED BY <1>7, <1>8

LEMMA CreateSees ==
  ASSUME Expected, NoData \notin Data, CInv, CInv', NEW p \in Procs,
         NEW n \in Names, NEW d \in Data, Create(p, n, d)
  PROVE  HL!Next
<1>1. /\ dir[n] = None /\ n \notin InUse /\ UNCHANGED <<loc, fin>> /\ dir \in [Names -> Obj]
      /\ dir' = [dir EXCEPT ![n] = File(d)]
      /\ \A m \in Names : dir[m] # File(d)
      /\ \A c \in Chains : fin[c] # File(d)
  BY DEF Create, MayCall, Expected, CInv, IInv, TypeOK
<1>2. View[n] = NoData
  BY <1>1, FreeNext, PlainView
<1>3. File(d) \in FileObj /\ DataOf(File(d)) = d
  BY Kinds DEF FileObj, File, DataOf, None
<1>4. ASSUME NEW m \in Names PROVE View[m] # d
  <2>1. PICK o : Holds(m, o) /\ o \in FileObj \cup {None} /\ View[m] = DataOf(o)
    BY HoldsOne
  <2>2. o # File(d)
    <3>1. \A q \in Procs : loc[q].pc \in MovePoints => loc[q].c \in Chains
      BY MoverIs
    <3> QED BY <1>1, <1>3, <2>1, <3>1, Kinds DEF Holds, Leads
  <2>3. o = None => DataOf(o) = NoData
    BY DEF DataOf
  <2> QED BY <2>1, <2>2, <2>3, DataIs
<1>5. View'[n] = d
  BY <1>1, <1>3, FreeNext
<1>6. \A m \in Names : m # n => View'[m] = View[m]
  BY <1>1, SameView DEF Calm
<1>7. View' = [View EXCEPT ![n] = d]
  BY <1>5, <1>6, Whole
<1> QED BY <1>2, <1>4, <1>7 DEF HL!Create, HL!Next

LEMMA InitSees ==
  ASSUME CInv
  PROVE  HL!Init
<1>1. \A n \in Names : View[n] \in Data \cup {NoData}
  BY HoldsOne DEF DataOf, FileObj, File
<1> QED BY <1>1, ViewFun DEF HL!Init

LEMMA StepSees ==
  ASSUME Expected, NoData \notin Data, CInv, CInv', OnePlace, [Next]_vars
  PROVE  [HL!Next]_View
<1>1. ASSUME NEW p \in Procs, Call(p) PROVE View' = View \/ HL!Next
  <2>1. \A a, b \in Names : LinkBegin(p, a, b) \/ RenameBegin(p, a, b) => View' = View
    BY BeginSees
  <2>2. \A a \in Names : UnlinkBegin(p, a) \/ LazyEnable(p, a) => View' = View
    BY BeginSees
  <2> QED BY <1>1, <2>1, <2>2, RenameFlagsSees, CreateSees DEF Call
<1>2. ASSUME NEW p \in Procs, Continue(p) PROVE View' = View \/ HL!Next
  BY <1>2, QuietSees, RenameToFinalSees, SymlinkOldSees, RollbackOldSees, RollbackRenameSees,
     ReclaimSees, SymlinkNewSees, DropLinkSees, RemoveNameSees, RenameCallSees, NoCut
     DEF Continue, Expected
<1>3. ASSUME NEW p \in Procs, Crash(p) PROVE FALSE
  BY <1>3 DEF Crash, Expected
<1>4. CASE UNCHANGED vars
  <2>1. UNCHANGED <<dir, fin, loc>>
    BY <1>4 DEF vars
  <2>2. ASSUME NEW n \in Names PROVE View'[n] = View[n]
    <3>1. PICK o : Holds(n, o)
      BY HoldsOne
    <3>2. Holds(n, o)'
      BY <2>1, <3>1 DEF Holds, Plain, Leads
    <3> QED BY <3>1, <3>2, HoldsOne, HoldsNext
  <2> QED BY <2>2, AllSame
<1> QED BY <1>1, <1>2, <1>3, <1>4 DEF Next

(* Every call is one step of the POSIX directory, at its last write for link(),
   at the count for unlink(), at the system call for rename(), and none when it
   is refused and rolled back (l2s_rt_link, l2s_rt_unlink, the rename hooks): for
   processes that keep to names of their own, on a tree that starts with one
   name for each file, as the file system that refuses link(2) has it, and as long
   as no update of a count is cut. *)
THEOREM L2sRefinement ==
  ASSUME Expected, NoData \notin Data, Distinct
  PROVE  Spec /\ FreshPick => Refinement
<1>1. Init => CInv /\ OnePlace
  BY InitCInv, InitPlace
<1>2. CInv /\ OnePlace /\ [Next]_vars /\ [PicksFresh]_vars => CInv' /\ OnePlace'
  BY StepCInv, StepPlace
<1>3. CInv => HL!Init
  BY InitSees
<1>4. CInv /\ CInv' /\ OnePlace /\ [Next]_vars => [HL!Next]_View
  BY StepSees
<1> QED BY <1>1, <1>2, <1>3, <1>4, PTL DEF Spec, FreshPick, Refinement, HL!Spec

(* ... and of a process alone without a condition on the generations. *)
THEOREM L2sRefinementAlone ==
  ASSUME Expected, NoData \notin Data, Distinct, \A p, q \in Procs : p = q
  PROVE  Spec => Refinement
<1>1. [Next]_vars => [PicksFresh]_vars
  BY DEF PicksFresh
<1>2. Spec => FreshPick
  BY <1>1, PTL DEF Spec, FreshPick
<1> QED BY <1>2, L2sRefinement, PTL
-----------------------------------------------------------------------------
(* What a kill leaves.  The lemmas above whose hypothesis is CInv \/ KInv need
   only what the two invariants share; here are those of KInv alone.  Where CInv
   keeps the balance of a count, KInv keeps an inequality (Covers), and of the
   files of a chain only what a link to it needs (KFiles). *)

LEMMA InitKInv == Init => KInv
<1> SUFFICES ASSUME Init PROVE KInv
  OBVIOUS
<1>1. \A p \in Procs : loc[p] = Idle /\ loc[p].pc = "idle" /\ ~loc[p].made
  <2>1. Idle.pc = "idle" /\ ~Idle.made
    BY DEF Idle
  <2> QED BY <2>1 DEF Init
<1>2. \A c \in Chains : NamesOf(c) = {}
  BY Kinds, L2sAssumption DEF Init, NamesOf
<1>3. \A p \in Procs : ~Builds(p) /\ ~Reclaims(p) /\ ~Member(p) /\ Uses(p) = {}
  BY <1>1, L2sAssumption DEF Builds, Reclaims, Member, Uses, Idle
<1>4. ASSUME NEW p \in Procs PROVE KPlace(p)
  <2>1. KOwnNames(p)
    BY <1>1 DEF KOwnNames
  <2> QED BY <2>1, <1>1, <1>3 DEF KPlace, KOwnChain, OwnLinks
<1>5. \A c \in Chains : KChain(c)
  BY <1>2 DEF Init, KChain, KFiles, Led, Covers
<1> QED BY <1>3, <1>4, <1>5, InitIInv DEF KInv, Apart, Solo, Members

LEMMA CrashSafeIs == Survivable /\ KInv => CrashSafe
<1> SUFFICES ASSUME Survivable, KInv PROVE CrashSafe
  OBVIOUS
<1>1. CountCovers
  <2> SUFFICES ASSUME NEW c \in mid, InCall(c, Building) = {}
               PROVE  CountOf(c) + Cardinality(InCall(c, {"u_name", "u_mid"}))
                        >= Cardinality(NamesOf(c))
    BY DEF CountCovers
  <2>1. c \in Chains /\ cnt[c] \in Int
    BY L2sAssumption DEF KInv, IInv, TypeOK, Absent
  <2>2. /\ Cardinality(NamesOf(c)) \in Nat
        /\ Cardinality(InCall(c, {"sym_new", "rb_dec", "r_dec"})) \in Nat
        /\ Cardinality(InCall(c, {"u_name", "u_mid"})) \in Nat
    BY <2>1, Numbers
  <2>3. Covers(c)
    BY <2>1 DEF KInv, KChain
  <2> QED BY <2>1, <2>2, <2>3 DEF Covers, CountOf
<1>2. \A n \in Names : IsFake(n) => Reaches(n)
  <2> SUFFICES ASSUME NEW n \in Names, IsFake(n)
               PROVE  \/ Resolve(dir[n]) \in FileObj
                      \/ \E p \in Procs : loc[p].old = n /\ loc[p].pc \in {"u_mid", "u_fin", "u_cnt", "u_name"}
    BY DEF Reaches
  <2>1. PICK c \in Chains : dir[n] = ToMid(c) /\ dir[n][1] = "mid" /\ dir[n][2] = c
    BY Kinds DEF IsFake
  <2>2. n \in NamesOf(c) /\ KFiles(c) /\ Led(c)
    BY <2>1 DEF NamesOf, KInv, KChain
  <2>3. CASE c \in mid
    <3>1. Follow(dir[n]) = fin[c] /\ fin[c] \in FileObj
      BY <2>1, <2>2, <2>3 DEF Follow, KFiles
    <3>2. fin[c][1] # "mid"
      BY <3>1, Kinds
    <3> QED BY <3>1, <3>2 DEF Resolve, Follow
  <2>4. CASE Leaves(n, c)
    BY <2>4 DEF Leaves
  <2> QED BY <2>2, <2>3, <2>4 DEF Led
<1> QED BY <1>1, <1>2 DEF CrashSafe

LEMMA KOthersPlace ==
  ASSUME KInv, NEW p \in Procs, NEW S, Frame(p, S),
         loc[p].pc = "u_name" => SameFiles,
         \A q \in Procs : q # p /\ Builds(q) => NamesOf(loc[q].c)' = NamesOf(loc[q].c)
  PROVE  \A q \in Procs : q # p => KPlace(q)'
<1> SUFFICES ASSUME NEW q \in Procs, q # p PROVE KPlace(q)'
  OBVIOUS
<1>1. loc'[q] = loc[q] /\ KPlace(q)
  BY DEF Frame, KInv
<1>2. /\ loc[q].pc # "idle" => loc[q].old \in Names /\ dir'[loc[q].old] = dir[loc[q].old]
      /\ loc[q].new \in Names => dir'[loc[q].new] = dir[loc[q].new]
  BY InCallFacts DEF KInv, Frame, Uses
<1>3. KOwnNames(q)'
  BY <1>1, <1>2 DEF KPlace, KOwnNames, Idle
<1>4. ASSUME Builds(q) \/ Reclaims(q)
      PROVE  LET c == loc[q].c
             IN  (c \in mid' <=> c \in mid) /\ fin'[c] = fin[c] /\ cnt'[c] = cnt[c]
  <2>1. loc[q].c \in Chains
    BY <1>4, OnChain
  <2>2. CASE loc[p].c = loc[q].c
    BY <1>4, <2>1, <2>2 DEF KInv, Solo, SameFiles
  <2> QED BY <2>1, <2>2 DEF Frame
<1>5. KOwnChain(q)'
  BY <1>1, <1>4 DEF KPlace, KOwnChain, Builds, Reclaims
<1>6. OwnLinks(q)'
  BY <1>1 DEF KPlace, OwnLinks, Builds, NamesOf
<1> QED BY <1>3, <1>5, <1>6 DEF KPlace

LEMMA KStepDone ==
  ASSUME KInv, NEW p \in Procs, NEW S, Frame(p, S),
         \A n \in S \cap Names :
           \/ dir'[n] \in FileObj \cup {None, ToMid(loc[p].c)}
           \/ \E m \in S \cap Names : dir'[n] = dir[m],
         loc[p].pc = "u_name" => SameFiles,
         IInv', Apart', KPlace(p)', Solo', Members', \A c \in Chains : KChain(c)'
  PROVE  KInv'
<1>1. \A q \in Procs : q # p => KPlace(q)'
  BY BuilderNames, KOthersPlace
<1> QED BY <1>1 DEF KInv

LEMMA KQuietChain ==
  ASSUME NEW p \in Procs, NEW S, Frame(p, S), NEW c \in Chains, Quiet(p, c), Quiet(p, c)',
         c \in mid' <=> c \in mid, fin'[c] = fin[c], cnt'[c] = cnt[c],
         NamesOf(c)' = NamesOf(c), KChain(c)
  PROVE  KChain(c)'
<1>1. /\ InCall(c, Building)' = InCall(c, Building)
      /\ InCall(c, {"sym_new", "rb_dec", "r_dec"})' = InCall(c, {"sym_new", "rb_dec", "r_dec"})
      /\ InCall(c, {"u_name", "u_mid"})' = InCall(c, {"u_name", "u_mid"})
  BY QuietSets DEF QuietAt, Building
<1>2. Covers(c)'
  BY <1>1 DEF KChain, Covers, CountOf
<1>3. Led(c)'
  <2>1. \A n : Leaves(n, c)' <=> Leaves(n, c)
    BY QuietLeaves
  <2>2. \A q \in Procs : (loc'[q].c = c /\ Reclaims(q)') => (loc[q].c = c /\ Reclaims(q))
    BY DEF Frame, Quiet, QuietAt, Reclaims
  <2> QED BY <2>1, <2>2 DEF Led, KChain
<1> QED BY <1>2, <1>3 DEF KChain, KFiles

(* A step of p on its own names and chain, if it has one. *)
LEMMA KOwnStep ==
  ASSUME KInv, IInv', NEW p \in Procs, NEW c, loc[p].c = c,
         NEW S, Frame(p, S), loc'[p].c \in {c, NoChain}, Uses(p)' \subseteq Uses(p),
         \A n \in S \cap Names : {dir[n], dir'[n]} \subseteq FileObj \cup {None, ToMid(c)},
         loc[p].pc = "u_name" => SameFiles,
         KPlace(p)', Solo', Members', c \in Chains => KChain(c)'
  PROVE  KInv'
<1>1. ASSUME NEW d \in Chains, d # c PROVE KChain(d)'
  <2>1. \A n \in Names : dir'[n] = ToMid(d) <=> dir[n] = ToMid(d)
    BY <1>1, Kinds DEF Frame
  <2>2. NamesOf(d)' = NamesOf(d)
    BY <2>1 DEF NamesOf
  <2>3. Quiet(p, d) /\ Quiet(p, d)'
    BY <1>1, Kinds DEF Quiet
  <2> QED BY <1>1, <2>2, <2>3, KQuietChain DEF Frame, KInv
<1>2. Apart'
  <2>1. \A q \in Procs : q # p => loc'[q] = loc[q] /\ Uses(p)' \cap Uses(q) = {}
    BY DEF Frame, KInv, Apart
  <2> QED BY <2>1, ApartKept
<1> QED BY <1>1, <1>2, KStepDone

(* A call that ends without a further change: it gives up, or it is killed. *)
LEMMA KLeave ==
  ASSUME Survivable, KInv, IInv', NEW p \in Procs, Return(p),
         UNCHANGED <<dir, mid, fin, cnt, enabled>>, faults' = 0 => faults = 0,
         loc[p].pc \in KillPoints
  PROVE  KInv'
<1>0. PICK c : loc[p].c = c
  OBVIOUS
<1>1. /\ \A q \in Procs : q # p => loc'[q] = loc[q]
      /\ loc'[p].pc = "idle" /\ loc'[p].c = NoChain /\ Uses(p)' = {} /\ KPlace(p)'
      /\ ~Builds(p)' /\ ~Reclaims(p)' /\ ~Member(p)'
  BY ReturnIs
<1>2. Frame(p, {}) /\ NoChain \notin Chains /\ loc[p].pc # "u_name"
  BY <1>1, OwnFrame, Kinds DEF KillPoints
<1>3. Solo' /\ Members'
  <2>1. Solo'
    BY <1>1, <1>2, SoloKept
  <2>2. Members'
    BY <1>1, <1>2, MembersKept
  <2> QED BY <2>1, <2>2
<1>4. ASSUME c \in Chains PROVE KChain(c)'
  <2>1. KChain(c) /\ NamesOf(c)' = NamesOf(c)
    BY <1>4 DEF KInv, NamesOf
  <2>2. KFiles(c)'
    BY <2>1 DEF KChain, KFiles
  <2>3. Led(c)'
    <3>1. \A n : Leaves(n, c) => Leaves(n, c)'
      BY <1>0, <1>1 DEF Leaves, KillPoints
    <3>2. \A q \in Procs : loc'[q].c = c /\ Reclaims(q)' => loc[q].c = c /\ Reclaims(q)
      BY <1>0, <1>1, <1>2, <1>4 DEF Reclaims
    <3> QED BY <2>1, <3>1, <3>2 DEF KChain, Led
  <2>4. Covers(c)'
    <3>1. CASE loc[p].pc \in Building
      <4>1. Builds(p) /\ KPlace(p)
        BY <3>1 DEF Building, Builds, KInv
      <4>2. NamesOf(c)' = {}
        BY <1>0, <4>1, <3>1, <2>1 DEF KPlace, OwnLinks, KillPoints, Building
      <4>3. \A q \in Procs : loc'[q].c # c
        BY <1>0, <1>1, <1>2, <1>4, <4>1, Alone
      <4>4. \A T : InCall(c, T)' = {}
        BY <4>3 DEF InCall
      <4>5. Cardinality({}) = 0
        BY FS_EmptySet
      <4>6. CountOf(c)' \in Nat
        BY <1>4, L2sAssumption DEF CountOf, IInv, TypeOK, Absent
      <4> QED BY <4>2, <4>4, <4>5, <4>6 DEF Covers
    <3>2. CASE loc[p].pc \notin Building
      <4>1. InCall(c, Building)' = InCall(c, Building) /\ CountOf(c)' = CountOf(c)
        BY <1>0, <1>1, <1>2, <1>4, <3>2 DEF InCall, CountOf
      <4> DEFINE P == {"sym_new", "rb_dec", "r_dec"}
                 D == {"u_name", "u_mid"}
      <4>2. /\ Cardinality(InCall(c, D)') = Cardinality(InCall(c, D))
            /\ Cardinality(InCall(c, P)') <= Cardinality(InCall(c, P))
            /\ Cardinality(InCall(c, D)) \in Nat /\ Cardinality(InCall(c, P)) \in Nat
            /\ Cardinality(InCall(c, P)') \in Nat
        BY <1>1, <1>0, <1>1, <1>2, <1>4, Counted DEF KillPoints
      <4>3. CountOf(c) \in Int /\ Cardinality(NamesOf(c)) \in Int
        BY <1>4, L2sAssumption, NamesCounted DEF CountOf, KInv, IInv, TypeOK, Absent
      <4> HIDE DEF P, D
      <4>4. CountOf(c) + Cardinality(InCall(c, D)) >= Cardinality(NamesOf(c)) + Cardinality(InCall(c, P))
            => CountOf(c)' + Cardinality(InCall(c, D)') >= Cardinality(NamesOf(c)') + Cardinality(InCall(c, P)')
        BY <2>1, <4>1, <4>2, <4>3
      <4> QED BY <2>1, <4>1, <4>4 DEF KChain, Covers, P, D
    <3> QED BY <3>1, <3>2
  <2> QED BY <2>2, <2>3, <2>4 DEF KChain
<1> QED BY <1>0, <1>1, <1>2, <1>3, <1>4, KOwnStep

(* A builder: what it starts its step from, what is left to show of a step
   after which it goes on, and of one that ends it. *)
LEMMA KBuilderIs ==
  ASSUME KInv, NEW p \in Procs, Builds(p)
  PROVE  \E c \in Chains, a \in Names :
           /\ loc[p].c = c /\ loc[p].old = a
           /\ KOwnNames(p) /\ KOwnChain(p) /\ OwnLinks(p) /\ KFiles(c)
           /\ fin \in [Chains -> Obj] /\ dir \in [Names -> Obj] /\ mid \subseteq Chains
           /\ cnt \in [Chains -> 0 .. MaxCount \cup {Absent}] /\ faults \in Nat
           /\ loc[p].made \in BOOLEAN
BY OnChain, InCallFacts DEF KInv, KPlace, KChain, IInv, TypeOK, Locals

LEMMA KBuilderStep ==
  ASSUME KInv, IInv', NEW p \in Procs, NEW c \in Chains, NEW a \in Names, NEW l,
         loc[p].c = c, loc[p].old = a, Builds(p), Goto(p, l), Builds(p)',
         UNCHANGED enabled, faults' = 0 => faults = 0,
         \A n \in Names : n # a => dir'[n] = dir[n],
         {dir[a], dir'[a]} \subseteq FileObj \cup {None, ToMid(c)},
         \A d \in Chains : d # c =>
           (d \in mid' <=> d \in mid) /\ fin'[d] = fin[d] /\ cnt'[d] = cnt[d],
         KPlace(p)', KFiles(c)',
         c \in mid' => l \in Building, NamesOf(c)' = {} \/ c \in mid'
  PROVE  KInv'
<1>1. /\ \A q \in Procs : q # p => loc'[q] = loc[q]
      /\ loc'[p].pc = l /\ loc'[p].c = c /\ Uses(p)' = Uses(p)
  BY GotoIs
<1>2. Frame(p, {a})
  BY <1>1, OwnFrame DEF Uses
<1>3. ~Reclaims(p)' /\ (Member(p)' => c \in mid') /\ loc[p].pc # "u_name"
  BY <1>1 DEF Builds, Reclaims, Member
<1>4. Solo' /\ Members'
  BY <1>1, <1>2, <1>3, SameRole
<1>5. \A q \in Procs : q # p => loc'[q].c # c
  BY <1>2, Alone
<1>6. Led(c)'
  BY <1>3, <1>5 DEF Led
<1>7. Covers(c)'
  BY <1>1 DEF Covers, InCall
<1> QED BY <1>1, <1>2, <1>3, <1>4, <1>6, <1>7, KOwnStep DEF KChain

LEMMA KBuilderEnd ==
  ASSUME KInv, IInv', NEW p \in Procs, NEW c \in Chains, NEW a \in Names,
         loc[p].c = c, loc[p].old = a, Builds(p), Return(p),
         UNCHANGED enabled, faults' = 0 => faults = 0,
         \A n \in Names : n # a => dir'[n] = dir[n],
         {dir[a], dir'[a]} \subseteq FileObj \cup {None, ToMid(c)},
         \A d \in Chains : d # c =>
           (d \in mid' <=> d \in mid) /\ fin'[d] = fin[d] /\ cnt'[d] = cnt[d],
         c \notin mid', NamesOf(c)' = {}, KFiles(c)'
  PROVE  KInv'
<1>1. /\ \A q \in Procs : q # p => loc'[q] = loc[q]
      /\ loc'[p].c = NoChain /\ Uses(p)' \subseteq Uses(p) /\ KPlace(p)'
      /\ ~Builds(p)' /\ ~Reclaims(p)' /\ ~Member(p)'
  BY ReturnIs
<1>2. Frame(p, {a})
  BY <1>1, OwnFrame DEF Uses
<1>3. loc[p].pc # "u_name"
  BY DEF Builds
<1>4. Solo' /\ Members'
  BY <1>1, <1>2, <1>3, SameRole
<1>5. KChain(c)'
  BY DEF KChain, Led, Covers
<1> QED BY <1>1, <1>2, <1>3, <1>4, <1>5, KOwnStep

LEMMA RenameToFinalKInv ==
  ASSUME Survivable, KInv, IInv', NEW p \in Procs, RenameToFinal(p)
  PROVE  KInv'
<1>1. Builds(p) /\ loc[p].pc = "ren" /\ loc[p].pc \in KillPoints
  BY DEF RenameToFinal, At, Builds, KillPoints
<1>2. PICK c \in Chains, a \in Names :
        /\ loc[p].c = c /\ loc[p].old = a
        /\ KOwnNames(p) /\ KOwnChain(p) /\ OwnLinks(p) /\ KFiles(c)
        /\ fin \in [Chains -> Obj] /\ dir \in [Names -> Obj] /\ mid \subseteq Chains
        /\ cnt \in [Chains -> 0 .. MaxCount \cup {Absent}] /\ faults \in Nat
        /\ loc[p].made \in BOOLEAN
  BY <1>1, KBuilderIs
<1>3. dir[a] \in FileObj /\ dir[a] # None /\ NamesOf(c) = {} /\ ~loc[p].made /\ c \notin mid
      /\ loc[p].new \in Names /\ loc[p].new # a
  BY <1>1, <1>2, Kinds DEF KOwnNames, OwnLinks, KOwnChain
<1>4. CASE /\ Goto(p, "sym_mid") /\ dir' = [dir EXCEPT ![a] = None]
           /\ fin' = [fin EXCEPT ![c] = dir[a]] /\ UNCHANGED <<mid, cnt, enabled, faults>>
  <2>1. /\ loc'[p].pc = "sym_mid" /\ loc'[p].c = c /\ loc'[p].old = a /\ loc'[p].new = loc[p].new
        /\ loc'[p].made = loc[p].made
    BY <1>2, <1>4, GotoIs
  <2>2. /\ dir'[a] = None /\ \A n \in Names : n # a => dir'[n] = dir[n]
        /\ fin'[c] \in FileObj /\ \A d \in Chains : d # c => fin'[d] = fin[d]
    BY <1>2, <1>3, <1>4
  <2>3. NamesOf(c)' = {}
    BY <1>3, <2>2, Kinds DEF NamesOf
  <2>4. KPlace(p)' /\ Builds(p)'
    BY <1>3, <1>4, <2>1, <2>2, <2>3 DEF KPlace, KOwnNames, KOwnChain, OwnLinks, Builds
  <2> QED
    BY <1>1, <1>2, <1>3, <1>4, <2>2, <2>3, <2>4, KBuilderStep DEF KFiles
<1>5. CASE Return(p) /\ UNCHANGED <<dir, fin>> /\ Fails(p, dir[a] = None)
  BY <1>1, <1>5, FaultsGrow, KLeave DEF RenameToFinal
<1> QED BY <1>2, <1>4, <1>5 DEF RenameToFinal

LEMMA SymlinkMidKInv ==
  ASSUME Survivable, KInv, IInv', NEW p \in Procs, SymlinkMid(p)
  PROVE  KInv'
<1>1. Builds(p) /\ loc[p].pc = "sym_mid"
  BY DEF SymlinkMid, At, Builds
<1>2. PICK c \in Chains, a \in Names :
        /\ loc[p].c = c /\ loc[p].old = a
        /\ KOwnNames(p) /\ KOwnChain(p) /\ OwnLinks(p) /\ KFiles(c)
        /\ fin \in [Chains -> Obj] /\ dir \in [Names -> Obj] /\ mid \subseteq Chains
        /\ cnt \in [Chains -> 0 .. MaxCount \cup {Absent}] /\ faults \in Nat
        /\ loc[p].made \in BOOLEAN
  BY <1>1, KBuilderIs
<1>3. /\ c \notin mid /\ fin[c] \in FileObj /\ dir[a] = None /\ NamesOf(c) = {} /\ ~loc[p].made
      /\ loc[p].new \in Names /\ loc[p].new # a
  BY <1>1, <1>2 DEF KOwnNames, OwnLinks, KOwnChain
<1>4. NamesOf(c)' = {} /\ UNCHANGED <<dir, fin, cnt, enabled>> /\ (faults' = 0 => faults = 0)
  BY <1>3, FaultsGrow DEF SymlinkMid, NamesOf
<1>5. \/ Goto(p, "sym_old") /\ mid' = mid \cup {c}
      \/ Goto(p, "rb_ren") /\ mid' = mid
  BY <1>2 DEF SymlinkMid
<1>6. PICK l \in {"sym_old", "rb_ren"} :
        Goto(p, l) /\ (l = "sym_old" => mid' = mid \cup {c}) /\ (l = "rb_ren" => mid' = mid)
  BY <1>5
<1>7. /\ loc'[p].pc = l /\ loc'[p].c = c /\ loc'[p].old = a /\ loc'[p].new = loc[p].new
      /\ loc'[p].made = loc[p].made
  BY <1>2, <1>6, GotoIs
<1>8. KPlace(p)' /\ Builds(p)'
  BY <1>3, <1>4, <1>6, <1>7 DEF KPlace, KOwnNames, KOwnChain, OwnLinks, Builds
<1> QED
  BY <1>1, <1>2, <1>3, <1>4, <1>6, <1>8, KBuilderStep DEF KFiles, Building

LEMMA SymlinkOldKInv ==
  ASSUME Survivable, KInv, IInv', NEW p \in Procs, SymlinkOld(p)
  PROVE  KInv'
<1>1. Builds(p) /\ loc[p].pc = "sym_old"
  BY DEF SymlinkOld, At, Builds
<1>2. PICK c \in Chains, a \in Names :
        /\ loc[p].c = c /\ loc[p].old = a
        /\ KOwnNames(p) /\ KOwnChain(p) /\ OwnLinks(p) /\ KFiles(c)
        /\ fin \in [Chains -> Obj] /\ dir \in [Names -> Obj] /\ mid \subseteq Chains
        /\ cnt \in [Chains -> 0 .. MaxCount \cup {Absent}] /\ faults \in Nat
        /\ loc[p].made \in BOOLEAN
  BY <1>1, KBuilderIs
<1>3. /\ c \in mid /\ fin[c] \in FileObj /\ dir[a] = None /\ NamesOf(c) = {} /\ ~loc[p].made
      /\ loc[p].new \in Names /\ loc[p].new # a
  BY <1>1, <1>2 DEF KOwnNames, OwnLinks, KOwnChain, KFiles
<1>4. UNCHANGED <<mid, fin, cnt, enabled>> /\ (faults' = 0 => faults = 0)
  BY FaultsGrow DEF SymlinkOld
<1>5. CASE Goto(p, "wr_cnt") /\ dir' = [dir EXCEPT ![a] = ToMid(c)]
  <2>1. /\ loc'[p].pc = "wr_cnt" /\ loc'[p].c = c /\ loc'[p].old = a /\ loc'[p].new = loc[p].new
        /\ loc'[p].made = loc[p].made
    BY <1>2, <1>5, GotoIs
  <2>2. dir'[a] = ToMid(c) /\ \A n \in Names : n # a => dir'[n] = dir[n]
    BY <1>2, <1>5
  <2>3. NamesOf(c)' = {a}
    BY <1>3, <2>2 DEF NamesOf
  <2>4. KPlace(p)' /\ Builds(p)'
    BY <1>3, <1>4, <2>1, <2>2, <2>3 DEF KPlace, KOwnNames, KOwnChain, OwnLinks, Builds
  <2> QED
    BY <1>1, <1>2, <1>3, <1>4, <1>5, <2>2, <2>4, KBuilderStep DEF KFiles, Building
<1>6. CASE Goto(p, "rb_mid") /\ UNCHANGED dir
  <2>1. /\ loc'[p].pc = "rb_mid" /\ loc'[p].c = c /\ loc'[p].old = a /\ loc'[p].new = loc[p].new
        /\ loc'[p].made = loc[p].made
    BY <1>2, <1>6, GotoIs
  <2>2. KPlace(p)' /\ Builds(p)' /\ NamesOf(c)' = {}
    BY <1>3, <1>4, <1>6, <2>1 DEF KPlace, KOwnNames, KOwnChain, OwnLinks, Builds, NamesOf
  <2> QED
    BY <1>1, <1>2, <1>3, <1>4, <1>6, <2>2, KBuilderStep DEF KFiles, Building
<1> QED BY <1>2, <1>5, <1>6 DEF SymlinkOld

LEMMA WriteCountKInv ==
  ASSUME Survivable, KInv, IInv', NEW p \in Procs, WriteCount(p)
  PROVE  KInv'
<1>1. Builds(p) /\ loc[p].pc = "wr_cnt"
  BY DEF WriteCount, At, Builds
<1>2. PICK c \in Chains, a \in Names :
        /\ loc[p].c = c /\ loc[p].old = a
        /\ KOwnNames(p) /\ KOwnChain(p) /\ OwnLinks(p) /\ KFiles(c)
        /\ fin \in [Chains -> Obj] /\ dir \in [Names -> Obj] /\ mid \subseteq Chains
        /\ cnt \in [Chains -> 0 .. MaxCount \cup {Absent}] /\ faults \in Nat
        /\ loc[p].made \in BOOLEAN
  BY <1>1, KBuilderIs
<1>3. /\ c \in mid /\ fin[c] \in FileObj /\ dir[a] = ToMid(c) /\ NamesOf(c) = {a} /\ ~loc[p].made
      /\ loc[p].new \in Names /\ loc[p].new # a
  BY <1>1, <1>2 DEF KOwnNames, OwnLinks, KOwnChain, KFiles, NamesOf
<1>4. UNCHANGED <<dir, mid, fin, enabled>> /\ NamesOf(c)' = {a} /\ (faults' = 0 => faults = 0)
  BY <1>3, FaultsGrow DEF WriteCount, NamesOf
<1>5. CASE loc' = [loc EXCEPT ![p].pc = "sym_new", ![p].made = TRUE]
           /\ cnt' = [cnt EXCEPT ![c] = 2]
  <2>1. /\ \A q \in Procs : q # p => loc'[q] = loc[q]
        /\ loc'[p].pc = "sym_new" /\ loc'[p].c = c /\ loc'[p].old = a /\ loc'[p].new = loc[p].new
        /\ loc'[p].made /\ Uses(p)' = Uses(p)
    <3>1. loc \in [Procs -> Locals]
      BY DEF KInv, IInv, TypeOK
    <3>2. loc'[p] = [loc[p] EXCEPT !.pc = "sym_new", !.made = TRUE] /\ loc[p] \in Locals
      BY <3>1, <1>5
    <3>3. [loc[p] EXCEPT !.pc = "sym_new", !.made = TRUE].made
      BY <3>2 DEF Locals
    <3> QED BY <1>2, <1>5, <3>1, <3>2, <3>3 DEF Locals, Uses
  <2>2. cnt'[c] = 2 /\ \A d \in Chains : d # c => cnt'[d] = cnt[d]
    BY <1>2, <1>5
  <2>3. {} \subseteq Uses(p) /\ UNCHANGED <<dir, mid, fin, enabled>>
    BY <1>4
  <2>4. Frame(p, {})
    BY <1>2, <1>4, <2>1, <2>2, <2>3, OwnFrame
  <2>5. Builds(p)' /\ ~Reclaims(p)' /\ ~Member(p)'
    BY <2>1 DEF Builds, Reclaims, Member
  <2>6. KPlace(p)'
    BY <1>3, <1>4, <2>1, <2>2 DEF KPlace, KOwnNames, KOwnChain, OwnLinks
  <2>7. Solo' /\ Members'
    BY <1>1, <1>2, <2>1, <2>4, <2>5, SameRole
  <2>8. \A q \in Procs : q # p => loc'[q].c # c
    BY <1>1, <1>2, <2>4, Alone
  <2>9. Covers(c)'
    <3>1. InCall(c, {"sym_new", "rb_dec", "r_dec"})' = {p} /\ InCall(c, {"u_name", "u_mid"})' = {}
      BY <2>1, <2>8 DEF InCall
    <3>2. Cardinality({p}) = 1 /\ Cardinality({a}) = 1 /\ Cardinality({}) = 0
      BY FS_Singleton, FS_EmptySet
    <3>3. Cardinality(NamesOf(c)') = 1 /\ Cardinality(InCall(c, {"sym_new", "rb_dec", "r_dec"})') = 1
          /\ Cardinality(InCall(c, {"u_name", "u_mid"})') = 0 /\ CountOf(c)' = 2
      BY <1>4, <2>2, <3>1, <3>2 DEF CountOf, Absent
    <3> QED BY <3>3 DEF Covers
  <2>10. KFiles(c)' /\ Led(c)'
    BY <1>3, <1>4, <2>5, <2>8 DEF KFiles, Led
  <2> QED
    BY <1>1, <1>2, <2>1, <2>4, <2>6, <2>7, <2>9, <2>10, KOwnStep DEF KChain
<1>6. CASE Goto(p, "rb_old") /\ (UNCHANGED cnt \/ cnt' = [cnt EXCEPT ![c] = 0])
  <2>1. /\ loc'[p].pc = "rb_old" /\ loc'[p].c = c /\ loc'[p].old = a /\ loc'[p].new = loc[p].new
        /\ loc'[p].made = loc[p].made
    BY <1>2, <1>6, GotoIs
  <2>2. KPlace(p)' /\ Builds(p)'
    BY <1>3, <1>4, <2>1 DEF KPlace, KOwnNames, KOwnChain, OwnLinks, Builds
  <2>3. \A d \in Chains : d # c => cnt'[d] = cnt[d]
    BY <1>2, <1>6
  <2> QED
    BY <1>1, <1>2, <1>3, <1>4, <1>6, <2>2, <2>3, KBuilderStep DEF KFiles, Building
<1> QED BY <1>2, <1>5, <1>6 DEF WriteCount

LEMMA RollbackKInv ==
  ASSUME Survivable, KInv, IInv', NEW p \in Procs,
         RollbackOld(p) \/ RollbackMid(p) \/ RollbackRename(p) \/ RollbackCount(p)
  PROVE  KInv'
<1>1. Builds(p) /\ loc[p].pc \in {"rb_old", "rb_mid", "rb_ren", "rb_cnt"}
  BY DEF RollbackOld, RollbackMid, RollbackRename, RollbackCount, At, Builds
<1>2. PICK c \in Chains, a \in Names :
        /\ loc[p].c = c /\ loc[p].old = a
        /\ KOwnNames(p) /\ KOwnChain(p) /\ OwnLinks(p) /\ KFiles(c)
        /\ fin \in [Chains -> Obj] /\ dir \in [Names -> Obj] /\ mid \subseteq Chains
        /\ cnt \in [Chains -> 0 .. MaxCount \cup {Absent}] /\ faults \in Nat
        /\ loc[p].made \in BOOLEAN
  BY <1>1, KBuilderIs
<1>3. /\ \A n \in NamesOf(c) : n = a
      /\ loc[p].pc # "rb_old" => NamesOf(c) = {}
  BY <1>1, <1>2 DEF OwnLinks
<1>4. CASE RollbackOld(p)
  <2>1. loc[p].pc = "rb_old" /\ c \in mid /\ fin[c] \in FileObj /\ dir[a] = ToMid(c)
    <3>1. loc[p].pc = "rb_old"
      BY <1>4 DEF RollbackOld, At
    <3>2. a \in NamesOf(c)
      BY <1>1, <1>2, <3>1 DEF OwnLinks
    <3> QED BY <1>2, <3>1, <3>2 DEF KOwnChain, KFiles, NamesOf
  <2>2. /\ Goto(p, "rb_mid") /\ UNCHANGED <<mid, fin, cnt, enabled, faults>>
        /\ dir'[a] = None /\ \A n \in Names : n # a => dir'[n] = dir[n]
    BY <1>2, <1>4 DEF RollbackOld
  <2>3. NamesOf(c)' = {}
    BY <1>3, <2>2, Kinds DEF NamesOf
  <2>4. /\ loc'[p].pc = "rb_mid" /\ loc'[p].c = c /\ loc'[p].old = a /\ loc'[p].new = loc[p].new
        /\ loc'[p].made = loc[p].made
    BY <1>2, <2>2, GotoIs
  <2>5. KPlace(p)' /\ Builds(p)'
    BY <2>1, <2>2, <2>3, <2>4 DEF KPlace, KOwnNames, KOwnChain, OwnLinks, Builds
  <2> QED
    BY <1>1, <1>2, <2>1, <2>2, <2>3, <2>5, KBuilderStep DEF KFiles, Building
<1>5. CASE RollbackMid(p)
  <2>1. loc[p].pc = "rb_mid" /\ fin[c] \in FileObj /\ dir[a] = None /\ NamesOf(c) = {}
    BY <1>2, <1>3, <1>5 DEF RollbackMid, At, KOwnNames, KOwnChain, KFiles
  <2>2. Goto(p, "rb_ren") /\ mid' = mid \ {c} /\ UNCHANGED <<dir, fin, cnt, enabled, faults>>
    BY <1>2, <1>5 DEF RollbackMid
  <2>3. /\ loc'[p].pc = "rb_ren" /\ loc'[p].c = c /\ loc'[p].old = a /\ loc'[p].new = loc[p].new
        /\ loc'[p].made = loc[p].made
    BY <1>2, <2>2, GotoIs
  <2>4. KPlace(p)' /\ Builds(p)' /\ NamesOf(c)' = {}
    BY <2>1, <2>2, <2>3 DEF KPlace, KOwnNames, KOwnChain, OwnLinks, Builds, NamesOf
  <2> QED
    BY <1>1, <1>2, <2>1, <2>2, <2>4, KBuilderStep DEF KFiles
<1>6. CASE RollbackRename(p)
  <2>1. /\ loc[p].pc = "rb_ren" /\ c \notin mid /\ fin[c] \in FileObj /\ fin[c] # None
        /\ dir[a] = None /\ NamesOf(c) = {}
    BY <1>2, <1>3, <1>6, Kinds DEF RollbackRename, At, KOwnNames, KOwnChain
  <2>2. /\ dir'[a] = fin[c] /\ \A n \in Names : n # a => dir'[n] = dir[n]
        /\ fin'[c] = None /\ \A d \in Chains : d # c => fin'[d] = fin[d]
        /\ UNCHANGED <<mid, cnt, enabled, faults>>
    BY <1>2, <1>6, <2>1 DEF RollbackRename
  <2>3. NamesOf(c)' = {}
    BY <2>1, <2>2, Kinds DEF NamesOf
  <2>4. CASE loc[p].made
    <3>1. Goto(p, "rb_cnt")
      BY <1>6, <2>4 DEF RollbackRename
    <3>2. /\ loc'[p].pc = "rb_cnt" /\ loc'[p].c = c /\ loc'[p].old = a
      BY <1>2, <3>1, GotoIs
    <3>3. KPlace(p)' /\ Builds(p)'
      BY <2>1, <2>2, <2>3, <3>2 DEF KPlace, KOwnNames, KOwnChain, OwnLinks, Builds
    <3> QED
      BY <1>1, <1>2, <2>1, <2>2, <2>3, <3>1, <3>3, KBuilderStep DEF KFiles
  <2>5. CASE ~loc[p].made
    <3>1. Return(p)
      BY <1>6, <2>5 DEF RollbackRename
    <3> QED
      BY <1>1, <1>2, <2>1, <2>2, <2>3, <3>1, KBuilderEnd DEF KFiles
  <2> QED BY <2>4, <2>5
<1>7. CASE RollbackCount(p)
  <2>1. c \notin mid /\ NamesOf(c) = {}
    BY <1>2, <1>3, <1>7 DEF RollbackCount, At, KOwnChain
  <2>2. Return(p) /\ UNCHANGED <<dir, mid, fin, enabled, faults>>
        /\ \A d \in Chains : d # c => cnt'[d] = cnt[d]
    BY <1>2, <1>7 DEF RollbackCount
  <2>3. NamesOf(c)' = {} /\ KFiles(c)'
    BY <1>2, <2>1, <2>2 DEF NamesOf, KFiles
  <2>4. Frame(p, {})
    BY <1>2, <2>2, ReturnIs, OwnFrame
  <2>5. Solo' /\ Members'
    BY <1>1, <1>2, <2>2, <2>4, ReturnIs, SameRole
  <2>6. KChain(c)'
    BY <2>1, <2>2, <2>3 DEF KChain, Led, Covers
  <2> QED
    BY <1>1, <1>2, <2>2, <2>4, <2>5, <2>6, ReturnIs, KOwnStep
<1> QED BY <1>4, <1>5, <1>6, <1>7

(* A call that relies on its chain, and the count of it. *)
LEMMA KMemberChain ==
  ASSUME Survivable, KInv, NEW p \in Procs, NEW c \in Chains, loc[p].c = c,
         Member(p) \/ (loc[p].pc = "sym_new" /\ loc[p].made)
  PROVE  /\ c \in mid /\ fin[c] \in FileObj /\ CountOf(c) \in Nat
         /\ \A q \in Procs : q # p /\ loc[q].c = c => ~Builds(q) /\ ~Reclaims(q)
         /\ CountOf(c) + Cardinality(InCall(c, {"u_name", "u_mid"}))
              >= Cardinality(NamesOf(c)) + Cardinality(InCall(c, {"sym_new", "rb_dec", "r_dec"}))
<1>1. c \in mid
  BY DEF KInv, Members, KPlace, KOwnChain
<1>2. \A q \in Procs : q # p /\ loc[q].c = c => ~Builds(q) /\ ~Reclaims(q)
  BY DEF KInv, Solo, Member
<1>3. \A q \in Procs : loc[q].c = c => loc[q].pc \notin Building
  BY <1>2 DEF Builds, Building, Member
<1>4. InCall(c, Building) = {}
  BY <1>3 DEF InCall
<1>5. KFiles(c) /\ Covers(c)
  BY DEF KInv, KChain
<1>6. CountOf(c) \in Nat
  BY L2sAssumption DEF KInv, IInv, TypeOK, CountOf, Absent
<1> QED BY <1>1, <1>2, <1>4, <1>5, <1>6 DEF KFiles, Covers

LEMMA KMemberKept ==
  ASSUME Survivable, KInv, NEW p \in Procs, NEW c \in Chains, loc[p].c = c, NEW S, Frame(p, S),
         Member(p) \/ (loc[p].pc = "sym_new" /\ loc[p].made),
         mid' = mid, fin' = fin,
         loc'[p].c = c => ~Reclaims(p)',
         CountOf(c)' + Cardinality(InCall(c, {"u_name", "u_mid"})')
           >= Cardinality(NamesOf(c)') + Cardinality(InCall(c, {"sym_new", "rb_dec", "r_dec"})')
  PROVE  KChain(c)'
<1>1. c \in mid /\ fin[c] \in FileObj
      /\ \A q \in Procs : q # p /\ loc[q].c = c => ~Builds(q) /\ ~Reclaims(q)
  BY KMemberChain
<1>2. \A q \in Procs : loc'[q].c = c => ~Reclaims(q)'
  BY <1>1 DEF Frame, Reclaims
<1>3. Led(c)'
  BY <1>1, <1>2 DEF Led
<1> QED BY <1>1, <1>3 DEF KChain, KFiles, Covers

(* cnt_add(c, -1) takes one off a count that is not zero. *)
LEMMA Down ==
  ASSUME IInv, NEW c \in Chains, cnt' = Decremented(c)
  PROVE  /\ CountOf(c)' = IF CountOf(c) = 0 THEN 0 ELSE CountOf(c) - 1
         /\ \A d \in Chains : d # c => cnt'[d] = cnt[d]
<1>1. cnt \in [Chains -> 0 .. MaxCount \cup {Absent}] /\ MaxCount \in Nat
  BY L2sAssumption DEF IInv, TypeOK
<1>2. cnt'[c] = IF CountOf(c) = 0 THEN 0 ELSE cnt[c] - 1
  BY <1>1 DEF Decremented
<1>3. cnt[c] \in 0 .. MaxCount \cup {Absent}
  BY <1>1
<1>4. CountOf(c)' = IF CountOf(c) = 0 THEN 0 ELSE CountOf(c) - 1
  BY <1>1, <1>2, <1>3 DEF CountOf, Absent
<1>5. \A d \in Chains : d # c => cnt'[d] = cnt[d]
  BY <1>1 DEF Decremented
<1> QED BY <1>4, <1>5

LEMMA AddLinkKInv ==
  ASSUME Survivable, KInv, IInv', NEW p \in Procs, AddLink(p)
  PROVE  KInv'
<1>1. Member(p) /\ loc[p].pc = "inc" /\ KOwnNames(p) /\ ~Builds(p) /\ loc[p].pc \in KillPoints
  BY DEF AddLink, At, Member, Builds, KInv, KPlace, KillPoints
<1>2. PICK c \in Chains : loc[p].c = c
  BY <1>1, OnChain
<1>3. UNCHANGED <<dir, mid, fin, enabled>> /\ NamesOf(c)' = NamesOf(c)
  BY DEF AddLink, NamesOf
<1>4. CASE Goto(p, "sym_new") /\ cnt' = [cnt EXCEPT ![c] = CountOf(c) + 1] /\ UNCHANGED faults
  <2>1. /\ \A q \in Procs : q # p => loc'[q] = loc[q]
        /\ loc'[p].pc = "sym_new" /\ loc'[p].c = c /\ loc'[p].old = loc[p].old
        /\ loc'[p].new = loc[p].new /\ loc'[p].made = loc[p].made /\ Uses(p)' = Uses(p)
    BY <1>2, <1>4, GotoIs
  <2>2. cnt'[c] = CountOf(c) + 1 /\ \A d \in Chains : d # c => cnt'[d] = cnt[d]
    BY <1>4 DEF KInv, IInv, TypeOK
  <2>3. Frame(p, {})
    BY <1>2, <1>3, <1>4, <2>1, <2>2, OwnFrame
  <2>4. ~loc[p].made
    BY <1>1 DEF KOwnNames
  <2>5. Member(p)' /\ ~Builds(p)' /\ ~Reclaims(p)' /\ c \in mid
    BY <1>1, <1>2, <2>1, <2>4, KMemberChain DEF Member, Builds, Reclaims
  <2>6. KPlace(p)'
    BY <1>1, <1>2, <1>3, <2>1, <2>4, <2>5 DEF KPlace, KOwnNames, KOwnChain, OwnLinks
  <2>7. Solo' /\ Members'
    BY <1>1, <1>2, <1>3, <2>1, <2>3, <2>5, SameRole
  <2>8. KChain(c)'
    <3> DEFINE P == {"sym_new", "rb_dec", "r_dec"}
               D == {"u_name", "u_mid"}
    <3>1. /\ Cardinality(InCall(c, P)) \in Nat /\ Cardinality(InCall(c, D)) \in Nat
          /\ Cardinality(InCall(c, P)') = Cardinality(InCall(c, P)) + 1
          /\ Cardinality(InCall(c, D)') = Cardinality(InCall(c, D))
      BY <1>1, <1>2, <2>1, <2>3, Counted
    <3>2. /\ CountOf(c) + Cardinality(InCall(c, D)) >= Cardinality(NamesOf(c)) + Cardinality(InCall(c, P))
          /\ Cardinality(NamesOf(c)) \in Nat /\ CountOf(c) \in Nat
      BY <1>1, <1>2, KMemberChain, Numbers
    <3>3. CountOf(c)' = CountOf(c) + 1
      BY <2>2, <3>2 DEF CountOf, Absent
    <3>4. Cardinality(NamesOf(c)') = Cardinality(NamesOf(c))
      BY <1>3
    <3> HIDE DEF P, D
    <3>5. CountOf(c)' + Cardinality(InCall(c, D)') >= Cardinality(NamesOf(c)') + Cardinality(InCall(c, P)')
      BY <3>1, <3>2, <3>3, <3>4
    <3> QED BY <1>1, <1>2, <1>3, <2>3, <2>5, <3>5, KMemberKept DEF P, D
  <2> QED
    BY <1>1, <1>2, <2>1, <2>3, <2>6, <2>7, <2>8, KOwnStep
<1>5. CASE Return(p) /\ UNCHANGED cnt /\ Fails(p, CountOf(c) = MaxCount)
  BY <1>1, <1>3, <1>5, FaultsGrow, KLeave
<1> QED BY <1>2, <1>4, <1>5 DEF AddLink

LEMMA RollbackAddKInv ==
  ASSUME Survivable, KInv, IInv', NEW p \in Procs, RollbackAdd(p)
  PROVE  KInv'
<1>1. Member(p) /\ loc[p].pc = "rb_dec" /\ ~Builds(p)
  BY DEF RollbackAdd, At, Member, Builds
<1>2. PICK c \in Chains : loc[p].c = c
  BY <1>1, OnChain
<1>9. CASE UNCHANGED cnt /\ Fails(p, FALSE)
  <2>1. UNCHANGED <<dir, mid, fin, cnt, enabled>> /\ Return(p) /\ loc[p].pc \in KillPoints
    BY <1>1, <1>9 DEF RollbackAdd, KillPoints
  <2> QED BY <1>9, <2>1, FaultsGrow, KLeave
<1> SUFFICES ASSUME cnt' = Decremented(c), UNCHANGED faults PROVE KInv'
  BY <1>2, <1>9 DEF RollbackAdd
<1>3. /\ UNCHANGED <<dir, mid, fin, enabled, faults>> /\ NamesOf(c)' = NamesOf(c)
      /\ Return(p) /\ cnt' = Decremented(c)
  BY <1>2 DEF RollbackAdd, NamesOf
<1>4. /\ CountOf(c)' = IF CountOf(c) = 0 THEN 0 ELSE CountOf(c) - 1
      /\ \A d \in Chains : d # c => cnt'[d] = cnt[d]
  BY <1>3, Down DEF KInv
<1>5. Frame(p, {})
  BY <1>2, <1>3, <1>4, ReturnIs, OwnFrame
<1>6. c \in mid /\ c \in mid'
  BY <1>1, <1>2, <1>3, KMemberChain
<1>7. Solo' /\ Members'
  BY <1>1, <1>2, <1>3, <1>5, <1>6, ReturnIs, SameRole
<1>8. KChain(c)'
  <2> DEFINE P == {"sym_new", "rb_dec", "r_dec"}
             D == {"u_name", "u_mid"}
  <2>1. /\ Cardinality(InCall(c, P)) \in Nat /\ Cardinality(InCall(c, D)) \in Nat
        /\ Cardinality(InCall(c, P)') = Cardinality(InCall(c, P)) - 1
        /\ Cardinality(InCall(c, P)') \in Nat
        /\ Cardinality(InCall(c, D)') = Cardinality(InCall(c, D))
    BY <1>1, <1>2, <1>3, <1>5, ReturnIs, Counted
  <2>2. /\ CountOf(c) + Cardinality(InCall(c, D)) >= Cardinality(NamesOf(c)) + Cardinality(InCall(c, P))
        /\ Cardinality(NamesOf(c)) \in Nat /\ CountOf(c) \in Nat
    BY <1>1, <1>2, KMemberChain, Numbers
  <2>3. Cardinality(NamesOf(c)') = Cardinality(NamesOf(c))
    BY <1>3
  <2> HIDE DEF P, D
  <2>4. CountOf(c)' + Cardinality(InCall(c, D)') >= Cardinality(NamesOf(c)') + Cardinality(InCall(c, P)')
    BY <1>4, <2>1, <2>2, <2>3
  <2>5. loc'[p].c = c => ~Reclaims(p)'
    BY <1>3, ReturnIs
  <2> QED BY <1>1, <1>2, <1>3, <1>5, <2>4, <2>5, KMemberKept DEF P, D
<1> QED BY <1>1, <1>2, <1>3, <1>5, <1>7, <1>8, ReturnIs, KOwnStep

LEMMA SymlinkNewKInv ==
  ASSUME Survivable, KInv, IInv', NEW p \in Procs, SymlinkNew(p)
  PROVE  KInv'
<1>1. loc[p].pc = "sym_new" /\ (Member(p) \/ (loc[p].pc = "sym_new" /\ loc[p].made))
      /\ (Member(p) \/ Builds(p)) /\ KPlace(p)
  BY DEF SymlinkNew, At, Member, Builds, KInv
<1>2. PICK c \in Chains, a \in Names : loc[p].c = c /\ loc[p].old = a
  BY <1>1, OnChain
<1>3. PICK b \in Names : loc[p].new = b /\ b # a /\ dir[a] = ToMid(c)
  BY <1>1, <1>2 DEF KPlace, KOwnNames
<1>4. UNCHANGED <<mid, fin, cnt, enabled>> /\ (faults' = 0 => faults = 0)
  BY FaultsGrow DEF SymlinkNew
<1>5. /\ c \in mid /\ c \in mid' /\ fin[c] \in FileObj /\ CountOf(c) \in Nat
      /\ CountOf(c)' = CountOf(c)
      /\ \A q \in Procs : q # p /\ loc[q].c = c => ~Builds(q) /\ ~Reclaims(q)
      /\ CountOf(c) + Cardinality(InCall(c, {"u_name", "u_mid"}))
           >= Cardinality(NamesOf(c)) + Cardinality(InCall(c, {"sym_new", "rb_dec", "r_dec"}))
  BY <1>1, <1>2, <1>4, KMemberChain DEF CountOf
<1>6. dir \in [Names -> Obj]
  BY DEF KInv, IInv, TypeOK
<1>7. CASE Return(p) /\ dir[b] = None /\ dir' = [dir EXCEPT ![b] = ToMid(c)]
  <2>1. dir'[b] = ToMid(c) /\ \A n \in Names : n = b \/ dir'[n] = dir[n]
    BY <1>3, <1>6, <1>7
  <2>2. Frame(p, {b})
    BY <1>2, <1>3, <1>4, <1>7, <2>1, ReturnIs, OwnFrame DEF Uses
  <2>3. Solo' /\ Members'
    BY <1>1, <1>2, <1>5, <1>7, <2>2, ReturnIs, SameRole
  <2>4. KChain(c)'
    <3> DEFINE P == {"sym_new", "rb_dec", "r_dec"}
               D == {"u_name", "u_mid"}
    <3>1. /\ Cardinality(InCall(c, P)) \in Nat /\ Cardinality(InCall(c, D)) \in Nat
          /\ Cardinality(InCall(c, P)') = Cardinality(InCall(c, P)) - 1
          /\ Cardinality(InCall(c, D)') = Cardinality(InCall(c, D))
      BY <1>1, <1>2, <1>7, <2>2, ReturnIs, Counted
    <3>2. b \in NamesOf(c)' /\ b \notin NamesOf(c)
      BY <1>7, <2>1, Kinds DEF NamesOf
    <3>3. Cardinality(NamesOf(c)') = Cardinality(NamesOf(c)) + 1 /\ Cardinality(NamesOf(c)) \in Nat
      BY <2>1, <3>2, NamesCounted
    <3>4. CountOf(c) + Cardinality(InCall(c, D)) >= Cardinality(NamesOf(c)) + Cardinality(InCall(c, P))
      BY <1>5
    <3> HIDE DEF P, D
    <3>5. CountOf(c)' + Cardinality(InCall(c, D)') >= Cardinality(NamesOf(c)') + Cardinality(InCall(c, P)')
      BY <1>5, <3>1, <3>3, <3>4
    <3>6. loc'[p].c = c => ~Reclaims(p)'
      BY <1>7, ReturnIs
    <3> QED BY <1>1, <1>2, <1>4, <2>2, <3>5, <3>6, KMemberKept DEF P, D
  <2>5. \A n \in {b} \cap Names : {dir[n], dir'[n]} \subseteq FileObj \cup {None, ToMid(c)}
    BY <1>7, <2>1
  <2> QED BY <1>1, <1>2, <1>7, <2>2, <2>3, <2>4, <2>5, ReturnIs, KOwnStep
<1>8. CASE Goto(p, "rb_old") /\ loc[p].made /\ UNCHANGED dir
  <2>1. /\ loc'[p].pc = "rb_old" /\ loc'[p].c = c /\ loc'[p].old = a /\ loc'[p].new = b
        /\ loc'[p].made = loc[p].made
    BY <1>2, <1>3, <1>8, GotoIs
  <2>2. Builds(p) /\ NamesOf(c) = {a} /\ KFiles(c)
    BY <1>1, <1>2, <1>8 DEF Builds, KPlace, OwnLinks, KInv, KChain
  <2>3. KPlace(p)' /\ Builds(p)' /\ KFiles(c)'
    BY <1>3, <1>4, <1>5, <1>8, <2>1, <2>2
       DEF KPlace, KOwnNames, KOwnChain, OwnLinks, Builds, KFiles, NamesOf
  <2> QED
    BY <1>2, <1>3, <1>4, <1>5, <1>8, <2>2, <2>3, KBuilderStep DEF Building
<1>9. CASE Goto(p, "rb_dec") /\ ~loc[p].made /\ UNCHANGED dir
  <2>1. /\ \A q \in Procs : q # p => loc'[q] = loc[q]
        /\ loc'[p].pc = "rb_dec" /\ loc'[p].c = c /\ loc'[p].old = a /\ loc'[p].new = b
        /\ loc'[p].made = loc[p].made /\ Uses(p)' = Uses(p)
    BY <1>2, <1>3, <1>9, GotoIs
  <2>2. Frame(p, {})
    BY <1>2, <1>4, <1>9, <2>1, OwnFrame
  <2>3. Member(p)' /\ ~Builds(p)' /\ ~Reclaims(p)'
    BY <1>9, <2>1 DEF Member, Builds, Reclaims
  <2>4. KPlace(p)'
    BY <1>3, <1>9, <2>1, <2>3 DEF KPlace, KOwnNames, KOwnChain, OwnLinks
  <2>5. Solo' /\ Members'
    BY <1>1, <1>2, <1>5, <2>1, <2>2, <2>3, SameRole
  <2>6. KChain(c)'
    <3>1. /\ Cardinality(InCall(c, {"sym_new", "rb_dec", "r_dec"})')
               = Cardinality(InCall(c, {"sym_new", "rb_dec", "r_dec"}))
          /\ Cardinality(InCall(c, {"u_name", "u_mid"})') = Cardinality(InCall(c, {"u_name", "u_mid"}))
          /\ NamesOf(c)' = NamesOf(c)
      BY <1>1, <1>2, <1>9, <2>1, <2>2, Counted DEF NamesOf
    <3> QED BY <1>1, <1>2, <1>4, <1>5, <2>2, <2>3, <3>1, KMemberKept
  <2> QED BY <1>1, <1>2, <2>1, <2>2, <2>4, <2>5, <2>6, KOwnStep
<1> QED BY <1>2, <1>3, <1>7, <1>8, <1>9 DEF SymlinkNew

(* The countdown that reads 0 in a chain whose count may be too high. *)
LEMMA KLastOne ==
  ASSUME Survivable, KInv, NEW p \in Procs, NEW c \in Chains, loc[p].c = c,
         loc[p].pc \in {"u_dec", "r_dec"}, CountOf(c) = 1
  PROVE  /\ \A n \in NamesOf(c) : \/ loc[p].pc = "u_dec" /\ n = loc[p].old
                                  \/ \E q \in Procs : /\ q # p /\ loc[q].old = n /\ loc[q].c = c
                                                      /\ loc[q].pc = "u_name"
         /\ \A q \in Procs : q # p /\ loc[q].c = c => loc[q].pc = "u_name"
<1>1. /\ \A q \in Procs : q # p /\ loc[q].c = c => ~Builds(q) /\ ~Reclaims(q)
      /\ 1 + Cardinality(InCall(c, {"u_name", "u_mid"}))
           >= Cardinality(NamesOf(c)) + Cardinality(InCall(c, {"sym_new", "rb_dec", "r_dec"}))
  BY KMemberChain DEF Member
<1> QED BY <1>1, NobodyElse

(* A call that becomes the reclaimer of its chain. *)
LEMMA KReclaims ==
  ASSUME KInv, NEW p \in Procs, NEW c \in Chains, loc[p].c = c, NEW S, Frame(p, S),
         \A q \in Procs : q # p /\ loc[q].c = c => loc[q].pc = "u_name",
         loc'[p].c = c, Reclaims(p)'
  PROVE  Solo'
<1>1. ~Builds(p)'
  BY DEF Builds, Reclaims
<1> SUFFICES ASSUME NEW q \in Procs, NEW r \in Procs, q # r, loc'[q].c = loc'[r].c, loc'[q].c \in Chains
             PROVE  ~Builds(q)' /\ (Reclaims(q)' => loc'[r].pc = "u_name")
  BY DEF Solo
<1>2. CASE q = p
  BY <1>1, <1>2 DEF Frame
<1>3. CASE r = p
  <2>1. loc'[q].pc = "u_name"
    BY <1>3 DEF Frame
  <2> QED BY <2>1 DEF Builds, Reclaims
<1>4. CASE q # p /\ r # p
  BY <1>4 DEF Frame, KInv, Solo, Builds, Reclaims
<1> QED BY <1>2, <1>3, <1>4

LEMMA DropLinkKInv ==
  ASSUME Survivable, KInv, IInv', NEW p \in Procs, DropLink(p)
  PROVE  KInv'
<1>1. Member(p) /\ loc[p].pc = "u_dec" /\ ~Builds(p) /\ KPlace(p) /\ loc[p].pc \in KillPoints
  BY DEF DropLink, At, Member, Builds, KInv, KillPoints
<1>2. PICK c \in Chains, a \in Names : loc[p].c = c /\ loc[p].old = a
  BY <1>1, OnChain
<1>3. /\ UNCHANGED <<dir, mid, fin, enabled>> /\ NamesOf(c)' = NamesOf(c)
      /\ (faults' = 0 => faults = 0) /\ dir[a] = ToMid(c) /\ a \in NamesOf(c)
  BY <1>1, <1>2, FaultsGrow DEF DropLink, NamesOf, KPlace, KOwnNames
<1>4. /\ c \in mid /\ fin[c] \in FileObj /\ CountOf(c) \in Nat
      /\ CountOf(c) + Cardinality(InCall(c, {"u_name", "u_mid"}))
           >= Cardinality(NamesOf(c)) + Cardinality(InCall(c, {"sym_new", "rb_dec", "r_dec"}))
      /\ Cardinality(NamesOf(c)) \in Nat
      /\ Cardinality(InCall(c, {"sym_new", "rb_dec", "r_dec"})) \in Nat
      /\ Cardinality(InCall(c, {"u_name", "u_mid"})) \in Nat
  BY <1>1, <1>2, KMemberChain, Numbers
<1>5. CASE CountOf(c) > 0 /\ cnt' = Decremented(c)
           /\ Goto(p, IF CountOf(c) = 1 THEN "u_mid" ELSE "u_name")
  <2>1. PICK l \in {"u_mid", "u_name"} : Goto(p, l) /\ (l = "u_mid" <=> CountOf(c) = 1)
    BY <1>5
  <2>2. /\ \A q \in Procs : q # p => loc'[q] = loc[q]
        /\ loc'[p].pc = l /\ loc'[p].c = c /\ loc'[p].old = a /\ loc'[p].new = loc[p].new
        /\ loc'[p].made = loc[p].made /\ Uses(p)' = Uses(p)
    BY <1>2, <2>1, GotoIs
  <2>3. CountOf(c)' = CountOf(c) - 1 /\ \A d \in Chains : d # c => cnt'[d] = cnt[d]
    BY <1>4, <1>5, Down DEF KInv
  <2>4. Frame(p, {})
    BY <1>2, <1>3, <2>2, <2>3, OwnFrame
  <2>5. ~Builds(p)' /\ ~Member(p)' /\ (Reclaims(p)' <=> l = "u_mid")
    BY <2>2 DEF Builds, Member, Reclaims
  <2>6. KPlace(p)'
    BY <1>1, <1>3, <1>4, <2>2, <2>5 DEF KPlace, KOwnNames, KOwnChain, OwnLinks
  <2>7. Members'
    BY <1>2, <1>3, <2>4, <2>5, MembersKept
  <2>8. CountOf(c)' + Cardinality(InCall(c, {"u_name", "u_mid"})')
          >= Cardinality(NamesOf(c)') + Cardinality(InCall(c, {"sym_new", "rb_dec", "r_dec"})')
    <3>1. /\ Cardinality(InCall(c, {"sym_new", "rb_dec", "r_dec"})')
               = Cardinality(InCall(c, {"sym_new", "rb_dec", "r_dec"}))
          /\ Cardinality(InCall(c, {"u_name", "u_mid"})') = Cardinality(InCall(c, {"u_name", "u_mid"})) + 1
      BY <1>1, <1>2, <2>2, <2>4, Counted
    <3> QED BY <1>3, <1>4, <2>3, <3>1
  <2>9. CASE l = "u_name"
    <3>1. Solo'
      BY <1>1, <1>2, <2>2, <2>4, <2>5, <2>9, SoloKept
    <3>2. KChain(c)'
      BY <1>1, <1>2, <1>3, <2>4, <2>5, <2>8, <2>9, KMemberKept
    <3> QED BY <1>1, <1>2, <2>2, <2>4, <2>6, <2>7, <3>1, <3>2, KOwnStep
  <2>10. CASE l = "u_mid"
    <3>1. /\ \A n \in NamesOf(c) : \/ n = a
                                   \/ \E q \in Procs : /\ q # p /\ loc[q].old = n /\ loc[q].c = c
                                                       /\ loc[q].pc = "u_name"
          /\ \A q \in Procs : q # p /\ loc[q].c = c => loc[q].pc = "u_name"
      BY <1>1, <1>2, <2>1, <2>10, KLastOne
    <3>2. Solo'
      BY <1>2, <2>2, <2>4, <2>5, <2>10, <3>1, KReclaims
    <3>3. Led(c)'
      BY <1>3, <2>2, <2>10, <3>1 DEF Led, Leaves
    <3>4. KFiles(c)' /\ Covers(c)'
      BY <1>3, <1>4, <2>8 DEF KFiles, Covers
    <3> QED BY <1>1, <1>2, <2>2, <2>4, <2>6, <2>7, <3>2, <3>3, <3>4, KOwnStep DEF KChain
  <2> QED BY <2>9, <2>10
<1>6. CASE CountOf(c) = 0 /\ cnt' = Decremented(c) /\ Return(p)
  <2>1. CountOf(c)' = CountOf(c) /\ \A d \in Chains : d # c => cnt'[d] = cnt[d]
    BY <1>6, Down DEF KInv
  <2>2. Frame(p, {})
    BY <1>2, <1>3, <1>6, <2>1, ReturnIs, OwnFrame
  <2>3. Solo' /\ Members'
    BY <1>1, <1>2, <1>3, <1>4, <1>6, <2>2, ReturnIs, SameRole
  <2>4. /\ Cardinality(InCall(c, {"sym_new", "rb_dec", "r_dec"})')
             = Cardinality(InCall(c, {"sym_new", "rb_dec", "r_dec"}))
        /\ Cardinality(InCall(c, {"u_name", "u_mid"})') = Cardinality(InCall(c, {"u_name", "u_mid"}))
    BY <1>1, <1>2, <1>6, <2>2, ReturnIs, Counted
  <2>5. KChain(c)'
    BY <1>1, <1>2, <1>3, <1>4, <1>6, <2>1, <2>2, <2>4, ReturnIs, KMemberKept
  <2> QED BY <1>1, <1>2, <1>6, <2>2, <2>3, <2>5, ReturnIs, KOwnStep
<1>7. CASE Return(p) /\ cnt' = cnt
  BY <1>1, <1>3, <1>7, KLeave
<1> QED BY <1>2, <1>5, <1>6, <1>7 DEF DropLink

(* A step of a reclaimer: the chain loses its mid, or has lost it. *)
LEMMA KReclaimStep ==
  ASSUME KInv, IInv', NEW p \in Procs, NEW c \in Chains, NEW a \in Names,
         loc[p].c = c, loc[p].old = a, Reclaims(p),
         \A q \in Procs : q # p => loc'[q] = loc[q],
         loc'[p].c \in {c, NoChain}, Uses(p)' \subseteq Uses(p),
         loc[p].pc \in {"u_mid", "u_fin", "u_cnt"} =>
           loc'[p].pc \in {"u_fin", "u_cnt", "u_name"} /\ loc'[p].old = a /\ loc'[p].c = c,
         UNCHANGED <<dir, enabled, faults>>,
         \A d \in Chains : d # c =>
           (d \in mid' <=> d \in mid) /\ fin'[d] = fin[d] /\ cnt'[d] = cnt[d],
         ~Builds(p)', ~Member(p)', KPlace(p)', KFiles(c)', c \notin mid'
  PROVE  KInv'
<1>1. Frame(p, {}) /\ loc[p].pc # "u_name"
  BY OwnFrame DEF Reclaims
<1>2. Solo' /\ Members'
  BY <1>1, SameRole
<1>3. NamesOf(c)' = NamesOf(c) /\ \A n \in NamesOf(c) : Leaves(n, c)
  BY DEF NamesOf, KInv, KChain, Led
<1>4. \A n : Leaves(n, c) => Leaves(n, c)'
  BY DEF Leaves, Reclaims
<1>5. KChain(c)'
  BY <1>3, <1>4 DEF KChain, Led, Covers
<1> QED BY <1>1, <1>2, <1>5, KOwnStep

LEMMA ReclaimKInv ==
  ASSUME Survivable, KInv, IInv', NEW p \in Procs,
         ReclaimMid(p) \/ ReclaimFinal(p) \/ ReclaimCount(p)
  PROVE  KInv'
<1>1. Reclaims(p) /\ loc[p].pc \in {"u_mid", "u_fin", "u_cnt"} /\ KPlace(p)
  BY DEF ReclaimMid, ReclaimFinal, ReclaimCount, At, Reclaims, KInv
<1>2. PICK c \in Chains, a \in Names : loc[p].c = c /\ loc[p].old = a
  BY <1>1, OnChain
<1>3. /\ KFiles(c) /\ dir[a] = ToMid(c) /\ ~loc[p].made
      /\ fin \in [Chains -> Obj] /\ cnt \in [Chains -> 0 .. MaxCount \cup {Absent}]
  BY <1>1, <1>2 DEF KPlace, KOwnNames, KInv, KChain, IInv, TypeOK
<1>4. ~\E cond : Fails(p, cond) /\ ~cond
  BY <1>1 DEF Fails, Survivable, RefusePoints, LinkPoints
<1>5. /\ \E l \in {"u_fin", "u_cnt", "u_name"} :
           /\ Goto(p, l)
           /\ l = "u_fin" => c \notin mid' /\ fin'[c] \in FileObj
           /\ l \in {"u_cnt", "u_name"} => c \notin mid'
      /\ UNCHANGED <<dir, enabled, faults>> /\ KFiles(c)'
      /\ \A d \in Chains : d # c =>
           (d \in mid' <=> d \in mid) /\ fin'[d] = fin[d] /\ cnt'[d] = cnt[d]
  <2>1. CASE ReclaimMid(p)
    <3>1. c \in mid /\ fin[c] \in FileObj
      BY <1>1, <1>2, <1>3, <2>1 DEF ReclaimMid, At, KPlace, KOwnChain, KFiles
    <3>2. ~Fails(p, c \notin mid)
      BY <1>4, <3>1
    <3>3. Goto(p, "u_fin") /\ mid' = mid \ {c} /\ UNCHANGED <<dir, fin, cnt, enabled, faults>>
      BY <1>2, <2>1, <3>2 DEF ReclaimMid
    <3> QED BY <3>1, <3>3 DEF KFiles
  <2>2. CASE ReclaimFinal(p)
    <3>1. c \notin mid /\ fin[c] # None
      BY <1>1, <1>2, <2>2, Kinds DEF ReclaimFinal, At, KPlace, KOwnChain
    <3>2. ~Fails(p, fin[c] = None)
      BY <1>4, <3>1
    <3>3. Goto(p, "u_cnt") /\ fin' = [fin EXCEPT ![c] = None] /\ UNCHANGED <<dir, mid, cnt, enabled, faults>>
      BY <1>2, <2>2, <3>2 DEF ReclaimFinal
    <3> QED BY <1>3, <3>1, <3>3 DEF KFiles
  <2>3. CASE ReclaimCount(p)
    <3>1. c \notin mid
      BY <1>1, <1>2, <2>3 DEF ReclaimCount, At, KPlace, KOwnChain
    <3>2. Goto(p, "u_name") /\ cnt' = [cnt EXCEPT ![c] = Absent] /\ UNCHANGED <<dir, mid, fin, enabled, faults>>
      BY <1>2, <2>3 DEF ReclaimCount
    <3> QED BY <1>3, <3>1, <3>2 DEF KFiles
  <2> QED BY <2>1, <2>2, <2>3
<1>6. PICK l \in {"u_fin", "u_cnt", "u_name"} :
           /\ Goto(p, l)
           /\ l = "u_fin" => c \notin mid' /\ fin'[c] \in FileObj
           /\ l \in {"u_cnt", "u_name"} => c \notin mid'
  BY <1>5
<1>7. /\ \A q \in Procs : q # p => loc'[q] = loc[q]
      /\ loc'[p].pc = l /\ loc'[p].c = c /\ loc'[p].old = a /\ loc'[p].made = loc[p].made
      /\ Uses(p)' = Uses(p)
  BY <1>2, <1>6, GotoIs
<1>8. ~Builds(p)' /\ ~Member(p)'
  BY <1>7 DEF Builds, Member
<1>9. KPlace(p)'
  BY <1>3, <1>5, <1>6, <1>7, <1>8 DEF KPlace, KOwnNames, KOwnChain, OwnLinks
<1> QED BY <1>1, <1>2, <1>5, <1>6, <1>7, <1>8, <1>9, KReclaimStep

LEMMA RenameReclaimKInv ==
  ASSUME Survivable, KInv, IInv', NEW p \in Procs, RenameReclaim(p)
  PROVE  KInv'
<1>1. Reclaims(p) /\ loc[p].pc \in {"r_mid", "r_fin", "r_cnt"} /\ KPlace(p)
  BY DEF RenameReclaim, At, Reclaims, KInv
<1>2. PICK c \in Chains, a \in Names : loc[p].c = c /\ loc[p].old = a
  BY <1>1, OnChain
<1>3. /\ KFiles(c) /\ ~loc[p].made
      /\ fin \in [Chains -> Obj] /\ cnt \in [Chains -> 0 .. MaxCount \cup {Absent}]
  BY <1>1 DEF KPlace, KOwnNames, KInv, KChain, IInv, TypeOK
<1>4. /\ loc[p].pc = "r_mid" => c \in mid /\ fin[c] \in FileObj
      /\ loc[p].pc \in {"r_fin", "r_cnt"} => c \notin mid
  BY <1>1, <1>2, <1>3 DEF KPlace, KOwnChain, KFiles
<1>5. /\ UNCHANGED <<dir, enabled, faults>> /\ KFiles(c)' /\ c \notin mid'
      /\ \A d \in Chains : d # c =>
           (d \in mid' <=> d \in mid) /\ fin'[d] = fin[d] /\ cnt'[d] = cnt[d]
      /\ \/ loc[p].pc = "r_mid" /\ Goto(p, "r_fin") /\ fin'[c] \in FileObj
         \/ loc[p].pc = "r_fin" /\ Goto(p, "r_cnt")
         \/ loc[p].pc = "r_cnt" /\ Return(p)
  BY <1>2, <1>3, <1>4 DEF RenameReclaim, At, KFiles
<1>6. CASE Return(p)
  BY <1>1, <1>2, <1>5, <1>6, ReturnIs, KReclaimStep
<1>7. ASSUME NEW l \in {"r_fin", "r_cnt"}, Goto(p, l), l = "r_fin" => fin'[c] \in FileObj
      PROVE  KInv'
  <2>1. /\ \A q \in Procs : q # p => loc'[q] = loc[q]
        /\ loc'[p].pc = l /\ loc'[p].c = c /\ loc'[p].old = a /\ loc'[p].made = loc[p].made
        /\ Uses(p)' = Uses(p)
    BY <1>2, <1>7, GotoIs
  <2>2. ~Builds(p)' /\ ~Member(p)'
    BY <2>1 DEF Builds, Member
  <2>3. KPlace(p)'
    BY <1>3, <1>5, <1>7, <2>1, <2>2 DEF KPlace, KOwnNames, KOwnChain, OwnLinks
  <2> QED BY <1>1, <1>2, <1>5, <2>1, <2>2, <2>3, KReclaimStep
<1> QED BY <1>5, <1>6, <1>7

LEMMA RenameDropKInv ==
  ASSUME Survivable, KInv, IInv', NEW p \in Procs, RenameDrop(p)
  PROVE  KInv'
<1>1. Member(p) /\ loc[p].pc = "r_dec" /\ ~Builds(p) /\ KPlace(p) /\ loc[p].pc \in KillPoints
  BY DEF RenameDrop, At, Member, Builds, KInv, KillPoints
<1>2. PICK c \in Chains, a \in Names : loc[p].c = c /\ loc[p].old = a
  BY <1>1, OnChain
<1>3. /\ UNCHANGED <<dir, mid, fin, enabled>> /\ NamesOf(c)' = NamesOf(c)
      /\ (faults' = 0 => faults = 0) /\ ~loc[p].made
  BY <1>1, FaultsGrow DEF RenameDrop, NamesOf, KPlace, KOwnNames
<1>4. /\ c \in mid /\ fin[c] \in FileObj /\ CountOf(c) \in Nat
      /\ CountOf(c) + Cardinality(InCall(c, {"u_name", "u_mid"}))
           >= Cardinality(NamesOf(c)) + Cardinality(InCall(c, {"sym_new", "rb_dec", "r_dec"}))
      /\ Cardinality(NamesOf(c)) \in Nat
      /\ Cardinality(InCall(c, {"sym_new", "rb_dec", "r_dec"})) \in Nat
      /\ Cardinality(InCall(c, {"u_name", "u_mid"})) \in Nat
  BY <1>1, <1>2, KMemberChain, Numbers
<1>5. CASE cnt' = Decremented(c) /\ IF CountOf(c) = 1 THEN Goto(p, "r_mid") ELSE Return(p)
  <2>1. /\ \A q \in Procs : q # p => loc'[q] = loc[q]
        /\ loc'[p].pc \notin {"sym_new", "rb_dec", "r_dec", "u_name", "u_mid"}
        /\ loc'[p].c \in {c, NoChain} /\ Uses(p)' \subseteq Uses(p)
    BY <1>2, <1>5, GotoIs, ReturnIs
  <2>2. /\ CountOf(c)' = IF CountOf(c) = 0 THEN 0 ELSE CountOf(c) - 1
        /\ \A d \in Chains : d # c => cnt'[d] = cnt[d]
    BY <1>5, Down DEF KInv
  <2>3. Frame(p, {})
    BY <1>2, <1>3, <2>1, <2>2, OwnFrame
  <2>4. CountOf(c)' + Cardinality(InCall(c, {"u_name", "u_mid"})')
          >= Cardinality(NamesOf(c)') + Cardinality(InCall(c, {"sym_new", "rb_dec", "r_dec"})')
    <3>1. /\ Cardinality(InCall(c, {"sym_new", "rb_dec", "r_dec"})')
               = Cardinality(InCall(c, {"sym_new", "rb_dec", "r_dec"})) - 1
          /\ Cardinality(InCall(c, {"sym_new", "rb_dec", "r_dec"})') \in Nat
          /\ Cardinality(InCall(c, {"u_name", "u_mid"})') = Cardinality(InCall(c, {"u_name", "u_mid"}))
      BY <1>1, <1>2, <2>1, <2>3, Counted
    <3> QED BY <1>3, <1>4, <2>2, <3>1
  <2>5. CASE CountOf(c) # 1
    <3>1. Return(p)
      BY <1>5, <2>5
    <3>2. Solo' /\ Members'
      BY <1>1, <1>2, <1>3, <1>4, <2>3, <3>1, ReturnIs, SameRole
    <3>3. KChain(c)'
      BY <1>1, <1>2, <1>3, <2>3, <2>4, <3>1, ReturnIs, KMemberKept
    <3> QED BY <1>1, <1>2, <2>1, <2>3, <3>1, <3>2, <3>3, ReturnIs, KOwnStep
  <2>6. CASE CountOf(c) = 1
    <3>1. /\ loc'[p].pc = "r_mid" /\ loc'[p].c = c /\ loc'[p].made = loc[p].made
      BY <1>2, <1>5, <2>6, GotoIs
    <3>2. ~Builds(p)' /\ Reclaims(p)' /\ ~Member(p)'
      BY <3>1 DEF Builds, Reclaims, Member
    <3>3. KPlace(p)'
      BY <1>3, <1>4, <3>1, <3>2 DEF KPlace, KOwnNames, KOwnChain, OwnLinks
    <3>4. Members'
      BY <1>2, <1>3, <2>3, <3>2, MembersKept
    <3>5. /\ \A n \in NamesOf(c) : \E q \in Procs : /\ q # p /\ loc[q].old = n /\ loc[q].c = c
                                                    /\ loc[q].pc = "u_name"
          /\ \A q \in Procs : q # p /\ loc[q].c = c => loc[q].pc = "u_name"
      BY <1>1, <1>2, <2>6, KLastOne
    <3>6. Solo'
      BY <1>2, <2>3, <3>1, <3>2, <3>5, KReclaims
    <3>7. Led(c)'
      BY <1>3, <2>1, <3>5 DEF Led, Leaves
    <3>8. KFiles(c)' /\ Covers(c)'
      BY <1>3, <1>4, <2>4 DEF KFiles, Covers
    <3> QED BY <1>1, <1>2, <2>1, <2>3, <3>3, <3>4, <3>6, <3>7, <3>8, KOwnStep DEF KChain
  <2> QED BY <2>5, <2>6
<1>6. CASE Return(p) /\ UNCHANGED cnt
  BY <1>1, <1>3, <1>6, KLeave
<1> QED BY <1>2, <1>5, <1>6 DEF RenameDrop

(* A chain that a step leaves its files and at most as many names, new ones
   only while it is in use. *)
LEMMA KNames ==
  ASSUME Survivable, KInv, NEW p \in Procs, NEW S, Frame(p, S), NEW c \in Chains, Quiet(p, c), Quiet(p, c)',
         c \in mid' <=> c \in mid, fin'[c] = fin[c], cnt'[c] = cnt[c],
         Cardinality(NamesOf(c)) \in Nat, Cardinality(NamesOf(c)') \in Nat,
         Cardinality(NamesOf(c)') <= Cardinality(NamesOf(c)),
         \A n \in NamesOf(c)' : \/ n \in NamesOf(c)
                                \/ c \in mid /\ \A q \in Procs : loc[q].c = c => ~Reclaims(q)
  PROVE  KChain(c)'
<1>1. KChain(c)
  BY DEF KInv
<1>2. Covers(c)'
  <2> DEFINE P == {"sym_new", "rb_dec", "r_dec"}
             D == {"u_name", "u_mid"}
  <2>1. /\ InCall(c, Building)' = InCall(c, Building)
        /\ InCall(c, P)' = InCall(c, P) /\ InCall(c, D)' = InCall(c, D)
    BY QuietSets DEF QuietAt, Building
  <2>2. CountOf(c)' = CountOf(c) /\ CountOf(c) \in Nat
    BY L2sAssumption DEF KInv, IInv, TypeOK, CountOf, Absent
  <2>4. Cardinality(InCall(c, P)) \in Nat /\ Cardinality(InCall(c, D)) \in Nat
    BY Numbers
  <2> HIDE DEF P, D
  <2>3. ASSUME CountOf(c) + Cardinality(InCall(c, D)) >= Cardinality(NamesOf(c)) + Cardinality(InCall(c, P))
        PROVE  CountOf(c)' + Cardinality(InCall(c, D)') >= Cardinality(NamesOf(c)') + Cardinality(InCall(c, P)')
    BY <2>1, <2>2, <2>3, <2>4
  <2> QED BY <1>1, <2>1, <2>3 DEF KChain, Covers, P, D
<1>3. Led(c)'
  <2>1. \A n : Leaves(n, c)' <=> Leaves(n, c)
    BY QuietLeaves
  <2>2. \A q \in Procs : (loc'[q].c = c /\ Reclaims(q)') => (loc[q].c = c /\ Reclaims(q))
    BY DEF Frame, Quiet, QuietAt, Reclaims
  <2> QED BY <1>1, <2>1, <2>2 DEF Led, KChain
<1> QED BY <1>1, <1>2, <1>3 DEF KChain, KFiles

LEMMA RemoveNameKInv ==
  ASSUME Survivable, KInv, IInv', NEW p \in Procs, RemoveName(p)
  PROVE  KInv'
<1>1. /\ loc[p].pc \in {"u_plain", "u_name"} /\ KOwnNames(p) /\ dir \in [Names -> Obj]
      /\ ~Builds(p) /\ ~Reclaims(p) /\ ~Member(p) /\ Return(p)
      /\ UNCHANGED <<mid, fin, cnt, enabled>>
  BY DEF RemoveName, KInv, KPlace, IInv, TypeOK, Builds, Reclaims, Member
<1>2. PICK a \in Names : loc[p].old = a
  BY <1>1, InCallFacts DEF KInv
<1>3. faults' = 0 => faults = 0
  BY FaultsGrow DEF RemoveName
<1>4. /\ \A q \in Procs : q # p => loc'[q] = loc[q]
      /\ loc'[p].pc = "idle" /\ loc'[p].c = NoChain /\ Uses(p)' = {} /\ KPlace(p)'
      /\ ~Builds(p)' /\ ~Reclaims(p)' /\ ~Member(p)'
  BY <1>1, ReturnIs
<1>5. CASE dir' = dir
  <2>1. loc[p].pc = "u_plain"
    <3>1. CASE dir[a] = None
      BY <1>1, <1>2, <3>1, Kinds DEF KOwnNames
    <3>2. CASE dir[a] # None
      <4>1. Fails(p, FALSE)
        BY <1>1, <1>2, <1>5, <3>2 DEF RemoveName
      <4>2. loc[p].pc \in RefusePoints
        BY <4>1 DEF Fails, Survivable
      <4> QED BY <1>1, <4>2 DEF RefusePoints, LinkPoints
    <3> QED BY <3>1, <3>2
  <2> QED BY <1>1, <1>3, <1>5, <2>1, KLeave DEF KillPoints
<1>6. CASE dir' = [dir EXCEPT ![a] = None]
  <2>1. dir'[a] = None /\ \A n \in Names : n = a \/ dir'[n] = dir[n]
    BY <1>1, <1>6
  <2>2. Frame(p, {a}) /\ SameFiles
    BY <1>1, <1>2, <1>3, <1>4, <2>1, OwnFrame DEF Uses, SameFiles
  <2>3. Solo' /\ Members' /\ Apart'
    <3>1. Solo'
      BY <1>4, <2>2, SoloKept, Kinds
    <3>2. Members'
      BY <1>1, <1>4, <2>2, MembersKept
    <3> QED BY <1>4, <3>1, <3>2, ApartKept
  <2>4. ASSUME NEW d \in Chains
        PROVE  /\ a \notin NamesOf(d)' /\ NamesOf(d)' \subseteq NamesOf(d)
               /\ Cardinality(NamesOf(d)) \in Nat /\ Cardinality(NamesOf(d)') \in Nat
               /\ Cardinality(NamesOf(d)')
                    = IF a \in NamesOf(d) THEN Cardinality(NamesOf(d)) - 1 ELSE Cardinality(NamesOf(d))
    <3>1. a \notin NamesOf(d)'
      BY <2>1, Kinds DEF NamesOf
    <3> QED BY <2>1, <3>1, NamesCounted
  <2>5. ASSUME NEW d \in Chains, d # loc[p].c PROVE KChain(d)'
    <3>1. Quiet(p, d) /\ Quiet(p, d)'
      BY <1>4, <2>5, Kinds DEF Quiet
    <3>2. Cardinality(NamesOf(d)') <= Cardinality(NamesOf(d))
      BY <2>4
    <3> QED BY <1>1, <2>2, <2>4, <3>1, <3>2, KNames
  <2>6. ASSUME NEW c \in Chains, c = loc[p].c PROVE KChain(c)'
    <3>1. loc[p].pc = "u_name" /\ a \in NamesOf(c) /\ KChain(c)
      BY <1>1, <1>2, <2>6, Kinds DEF KOwnNames, NamesOf, KInv
    <3>2. Covers(c)'
      <4> DEFINE P == {"sym_new", "rb_dec", "r_dec"}
                 D == {"u_name", "u_mid"}
      <4>1. /\ Cardinality(InCall(c, P)') = Cardinality(InCall(c, P))
            /\ Cardinality(InCall(c, D)') = Cardinality(InCall(c, D)) - 1
            /\ Cardinality(InCall(c, P)) \in Nat /\ Cardinality(InCall(c, D)) \in Nat
        BY <1>4, <2>2, <2>6, <3>1, Counted
      <4>2. InCall(c, Building)' = InCall(c, Building)
        BY <1>4, <3>1 DEF InCall, Building
      <4>3. CountOf(c)' = CountOf(c) /\ CountOf(c) \in Nat
        BY <1>1, L2sAssumption DEF KInv, IInv, TypeOK, CountOf, Absent
      <4>4. /\ Cardinality(NamesOf(c)') = Cardinality(NamesOf(c)) - 1
            /\ Cardinality(NamesOf(c)) \in Nat
        BY <2>4, <3>1
      <4> HIDE DEF P, D
      <4>5. CountOf(c) + Cardinality(InCall(c, D)) >= Cardinality(NamesOf(c)) + Cardinality(InCall(c, P))
            => CountOf(c)' + Cardinality(InCall(c, D)') >= Cardinality(NamesOf(c)') + Cardinality(InCall(c, P)')
        BY <4>1, <4>3, <4>4
      <4> QED BY <1>1, <3>1, <4>2, <4>5 DEF KChain, Covers, P, D
    <3>3. Led(c)'
      <4>1. \A n \in NamesOf(c)' : Leaves(n, c) => Leaves(n, c)'
        BY <1>2, <1>4, <2>4 DEF Leaves
      <4>2. \A q \in Procs : loc'[q].c = c /\ Reclaims(q)' => loc[q].c = c /\ Reclaims(q)
        BY <1>4 DEF Reclaims
      <4> QED BY <1>1, <2>4, <3>1, <4>1, <4>2 DEF KChain, Led
    <3> QED BY <1>1, <3>1, <3>2, <3>3 DEF KChain, KFiles
  <2> QED BY <1>2, <1>4, <2>1, <2>2, <2>3, <2>5, <2>6, KStepDone
<1> QED BY <1>1, <1>2, <1>5, <1>6 DEF RemoveName

(* One name of a chain becomes another. *)
LEMMA NameMoves ==
  ASSUME Survivable, NEW c, NEW x \in NamesOf(c), NEW y, y \notin NamesOf(c),
         NamesOf(c)' = (NamesOf(c) \ {x}) \cup {y}
  PROVE  Cardinality(NamesOf(c)) \in Nat /\ Cardinality(NamesOf(c)') = Cardinality(NamesOf(c))
<1>1. IsFiniteSet(NamesOf(c))
  BY FS_Subset DEF Survivable, NamesOf
<1>2. IsFiniteSet(NamesOf(c) \ {x}) /\ Cardinality(NamesOf(c) \ {x}) = Cardinality(NamesOf(c)) - 1
  BY <1>1, FS_RemoveElement
<1>3. Cardinality((NamesOf(c) \ {x}) \cup {y}) = Cardinality(NamesOf(c) \ {x}) + 1
  BY <1>2, FS_AddElement
<1>4. Cardinality(NamesOf(c)) \in Nat
  BY <1>1, FS_CardinalityType
<1> QED BY <1>2, <1>3, <1>4

LEMMA KMoved ==
  ASSUME Survivable, KInv, NEW p \in Procs, NEW S, Frame(p, S), SameFiles,
         NEW c \in Chains, Quiet(p, c), Quiet(p, c)',
         NEW x \in Names, NEW y \in Names, x \in NamesOf(c), y \notin NamesOf(c),
         NamesOf(c)' = (NamesOf(c) \ {x}) \cup {y}, ~Leaves(x, c)
  PROVE  KChain(c)'
<1>1. c \in mid /\ \A q \in Procs : loc[q].c = c => ~Reclaims(q)
  BY DEF KInv, KChain, Led
<1>2. Cardinality(NamesOf(c)) \in Nat /\ Cardinality(NamesOf(c)') = Cardinality(NamesOf(c))
  BY NameMoves
<1>3. Cardinality(NamesOf(c)') <= Cardinality(NamesOf(c)) /\ Cardinality(NamesOf(c)') \in Nat
  BY <1>2
<1> QED BY <1>1, <1>2, <1>3, KNames DEF SameFiles

LEMMA RenameCallKInv ==
  ASSUME Survivable, KInv, IInv', NEW p \in Procs, RenameCall(p)
  PROVE  KInv'
<1>1. /\ loc[p].pc = "r_svc" /\ KOwnNames(p) /\ dir \in [Names -> Obj]
      /\ loc[p].c \in Chains \cup {NoChain} /\ loc[p].old \in Names
      /\ UNCHANGED <<mid, fin, cnt, enabled>> /\ (faults' = 0 => faults = 0)
  BY InCallFacts, FaultsGrow DEF RenameCall, At, KInv, KPlace, IInv, TypeOK, Locals
<1>2. PICK a \in Names, b \in Names : loc[p].old = a /\ loc[p].new = b /\ b # a
  BY <1>1 DEF KOwnNames
<1>3. /\ dir[a] # None /\ ~loc[p].made
      /\ loc[p].c = NoChain => dir[b] \in FileObj \cup {None}
      /\ loc[p].c # NoChain => dir[b] = ToMid(loc[p].c) /\ dir[a] # dir[b]
  BY <1>1, <1>2 DEF KOwnNames
<1>4. CASE Return(p) /\ UNCHANGED dir
  BY <1>1, <1>4, KLeave DEF KillPoints
<1>5. CASE /\ dir' = [dir EXCEPT ![b] = dir[a], ![a] = None]
           /\ IF loc[p].c = NoChain THEN Return(p) ELSE Goto(p, "r_dec")
  <2>1. dir'[b] = dir[a] /\ dir'[a] = None /\ \A n \in Names : n \notin {a, b} => dir'[n] = dir[n]
    BY <1>1, <1>2, <1>5
  <2>2. /\ \A q \in Procs : q # p => loc'[q] = loc[q]
        /\ loc'[p].pc = (IF loc[p].c = NoChain THEN "idle" ELSE "r_dec")
        /\ loc'[p].c = loc[p].c /\ Uses(p)' \subseteq Uses(p)
    BY <1>5, GotoIs, ReturnIs
  <2>3. Frame(p, {a, b}) /\ SameFiles
    BY <1>1, <1>2, <2>1, <2>2, OwnFrame DEF Uses, SameFiles
  <2>4. ~Builds(p)' /\ ~Reclaims(p)' /\ (Member(p)' => Member(p))
    BY <1>1, <2>2 DEF Builds, Reclaims, Member
  <2>5. Solo' /\ Members'
    <3>1. Solo'
      BY <1>1, <2>2, <2>3, <2>4, SoloKept
    <3>2. Member(p)' => loc'[p].c \in mid'
      BY <1>1, <2>2, <2>4 DEF KInv, Members
    <3>3. Members'
      BY <1>1, <2>3, <3>2, MembersKept
    <3> QED BY <3>1, <3>3
  <2>6. KPlace(p)'
    <3>1. CASE loc[p].c = NoChain
      BY <1>5, <3>1, ReturnIs
    <3>2. CASE loc[p].c # NoChain
      <4>1. loc'[p].pc = "r_dec" /\ ~loc'[p].made
        BY <1>3, <1>5, <3>2, GotoIs
      <4> QED BY <2>4, <4>1 DEF KPlace, KOwnNames, KOwnChain, OwnLinks
    <3> QED BY <3>1, <3>2
  <2>7. Apart'
    BY <2>2, ApartKept DEF KInv, Apart
  <2>8. ASSUME NEW d \in Chains, d = loc[p].c PROVE KChain(d)'
    <3>1. /\ Member(p) /\ dir[b] = ToMid(d) /\ dir[a] # ToMid(d) /\ loc'[p].pc = "r_dec" /\ loc'[p].c = d
      BY <1>1, <1>3, <2>2, <2>8, Kinds DEF Member
    <3>2. NamesOf(d)' = NamesOf(d) \ {b} /\ b \in NamesOf(d)
      BY <2>1, <3>1, Kinds DEF NamesOf
    <3>3. Cardinality(NamesOf(d)') = Cardinality(NamesOf(d)) - 1 /\ Cardinality(NamesOf(d)) \in Nat
      <4>1. IsFiniteSet(NamesOf(d))
        BY FS_Subset DEF Survivable, NamesOf
      <4> QED BY <3>2, <4>1, FS_RemoveElement, FS_CardinalityType
    <3> DEFINE P == {"sym_new", "rb_dec", "r_dec"}
               D == {"u_name", "u_mid"}
    <3>4. /\ Cardinality(InCall(d, P)') = Cardinality(InCall(d, P)) + 1
          /\ Cardinality(InCall(d, D)') = Cardinality(InCall(d, D))
          /\ Cardinality(InCall(d, P)) \in Nat /\ Cardinality(InCall(d, D)) \in Nat
      BY <1>1, <2>3, <2>8, <3>1, Counted
    <3>5. /\ CountOf(d) \in Nat /\ CountOf(d)' = CountOf(d)
          /\ CountOf(d) + Cardinality(InCall(d, D)) >= Cardinality(NamesOf(d)) + Cardinality(InCall(d, P))
      BY <1>1, <2>8, <3>1, KMemberChain DEF CountOf
    <3> HIDE DEF P, D
    <3>6. CountOf(d)' + Cardinality(InCall(d, D)') >= Cardinality(NamesOf(d)') + Cardinality(InCall(d, P)')
      BY <3>3, <3>4, <3>5
    <3> QED BY <1>1, <2>3, <2>4, <2>8, <3>1, <3>6, KMemberKept DEF P, D
  <2>9. ASSUME NEW d \in Chains, d # loc[p].c PROVE KChain(d)'
    <3>1. Quiet(p, d) /\ Quiet(p, d)' /\ dir[b] # ToMid(d)
      BY <1>3, <2>2, <2>9, Kinds DEF Quiet
    <3>2. CASE dir[a] = ToMid(d)
      <4>1. a \in NamesOf(d) /\ b \notin NamesOf(d) /\ NamesOf(d)' = (NamesOf(d) \ {a}) \cup {b}
        BY <1>2, <2>1, <3>1, <3>2, Kinds DEF NamesOf
      <4>2. ~Leaves(a, d)
        <5> SUFFICES ASSUME NEW q \in Procs, loc[q].old = a,
                            loc[q].pc \in {"u_mid", "u_fin", "u_cnt", "u_name"}
                     PROVE  FALSE
          BY DEF Leaves
        <5>1. q = p
          BY <1>2 DEF KInv, Apart, Uses
        <5> QED BY <1>1, <5>1
      <4> QED BY <2>3, <3>1, <4>1, <4>2, KMoved
    <3>3. CASE dir[a] # ToMid(d)
      <4>1. NamesOf(d)' = NamesOf(d)
        BY <2>1, <3>1, <3>3, Kinds DEF NamesOf
      <4> QED BY <1>1, <2>3, <3>1, <4>1, KQuietChain DEF KInv
    <3> QED BY <3>2, <3>3
  <2>10. \A n \in {a, b} \cap Names :
           \/ dir'[n] \in FileObj \cup {None, ToMid(loc[p].c)}
           \/ \E m \in {a, b} \cap Names : dir'[n] = dir[m]
    BY <2>1
  <2> QED
    BY <1>1, <2>3, <2>5, <2>6, <2>7, <2>8, <2>9, <2>10, KStepDone
<1> QED BY <1>2, <1>4, <1>5 DEF RenameCall

(* The calls begin. *)
LEMMA KQuietAll ==
  ASSUME KInv, NEW p \in Procs, NEW S, Frame(p, S), SameFiles,
         \A n \in Names, d \in Chains : dir'[n] = ToMid(d) <=> dir[n] = ToMid(d),
         \A d \in Chains : Quiet(p, d) /\ Quiet(p, d)'
  PROVE  \A d \in Chains : KChain(d)'
<1> SUFFICES ASSUME NEW d \in Chains PROVE KChain(d)'
  OBVIOUS
<1>1. NamesOf(d)' = NamesOf(d)
  BY DEF NamesOf
<1> QED BY <1>1, KQuietChain DEF SameFiles, KInv

LEMMA KBeginStep ==
  ASSUME KInv, IInv', NEW p \in Procs, At(p, "idle"),
         NEW l \in {"pick", "inc", "u_dec", "u_plain", "r_svc"},
         NEW a \in Names, NEW b, a \notin InUse, b \in Names => b \notin InUse,
         NEW c \in Chains \cup {NoChain}, Start(p, l, a, b, c),
         UNCHANGED <<fsVars, faults>>, enabled \subseteq enabled',
         c \in Chains => dir[a] = ToMid(c) \/ (b \in Names /\ dir[b] = ToMid(c)),
         KOwnNames(p)', l \in {"inc", "u_dec"} => c \in Chains
  PROVE  KInv'
<1> DEFINE S == {a, b} \cap Names
<1>1. /\ \A q \in Procs : q # p => loc'[q] = loc[q]
      /\ loc'[p].pc = l /\ loc'[p].c = c /\ Uses(p)' \subseteq S /\ ~loc'[p].made
  BY StartIs
<1>2. UNCHANGED <<dir, mid, fin, cnt, faults>>
  BY DEF fsVars
<1>3. \A q \in Procs : q # p => S \cap Uses(q) = {}
  BY DEF InUse, Uses
<1>4. Frame(p, {}) /\ SameFiles
  BY <1>1, <1>2 DEF Frame, SameFiles
<1>5. ~Builds(p)' /\ ~Reclaims(p)'
  BY <1>1 DEF Builds, Reclaims
<1>6. c \in Chains => c \in mid /\ \A q \in Procs : loc[q].c = c => ~Builds(q) /\ ~Reclaims(q)
  BY FreeLink
<1>7. Members'
  <2>1. Member(p)' => c \in mid
    BY <1>1, <1>6 DEF Member
  <2> QED BY <1>1, <1>2, <1>4, <2>1, MembersKept
<1>8. Solo'
  <2> SUFFICES ASSUME NEW q \in Procs, NEW r \in Procs, q # r, loc'[q].c = loc'[r].c, loc'[q].c \in Chains
               PROVE  ~Builds(q)' /\ (Reclaims(q)' => loc'[r].pc = "u_name")
    BY DEF Solo
  <2>1. CASE q = p
    BY <1>5, <2>1
  <2>2. CASE r = p
    <3>1. loc'[q] = loc[q] /\ ~Builds(q) /\ ~Reclaims(q)
      BY <1>1, <1>6, <2>2
    <3> QED BY <3>1 DEF Builds, Reclaims
  <2>3. CASE q # p /\ r # p
    <3>1. loc'[q] = loc[q] /\ loc'[r] = loc[r]
      BY <1>1, <2>3
    <3> QED BY <3>1 DEF KInv, Solo, Builds, Reclaims
  <2> QED BY <2>1, <2>2, <2>3
<1>9. KPlace(p)'
  BY <1>1, <1>5 DEF KPlace, KOwnChain, OwnLinks
<1>10. Apart'
  BY <1>1, <1>3, ApartKept
<1>11. \A d \in Chains : Quiet(p, d) /\ Quiet(p, d)'
  BY <1>1, IdleIs DEF Quiet, QuietAt
<1>12. \A d \in Chains : KChain(d)'
  BY <1>2, <1>4, <1>11, KQuietAll
<1> QED
  BY <1>4, <1>7, <1>8, <1>9, <1>10, <1>12, KStepDone

LEMMA KIdleStep ==
  ASSUME KInv, IInv', NEW p \in Procs, At(p, "idle"), NEW S, S \cap InUse = {},
         UNCHANGED <<loc, mid, fin, cnt, faults>>, enabled \subseteq enabled',
         \A n \in Names : n \in S \/ dir'[n] = dir[n],
         \A n \in S \cap Names :
           \/ dir'[n] \in FileObj \cup {None}
           \/ \E m \in S \cap Names : dir'[n] = dir[m],
         \A d \in Chains : KChain(d)'
  PROVE  KInv'
<1>1. \A q \in Procs : q # p => S \cap Uses(q) = {}
  BY DEF InUse, Uses
<1>2. Frame(p, S) /\ SameFiles
  BY <1>1 DEF Frame, SameFiles
<1>3. Solo' /\ Members' /\ Apart'
  BY DEF KInv, Solo, Members, Apart, Builds, Reclaims, Member, Uses
<1>4. KPlace(p)'
  <2>1. loc'[p].pc = "idle" /\ loc'[p] = Idle /\ ~loc'[p].made /\ ~Builds(p)'
    <3>1. ~Idle.made
      BY DEF Idle
    <3> QED BY <3>1, IdleIs DEF Builds
  <2> QED BY <2>1 DEF KPlace, KOwnNames, KOwnChain, OwnLinks
<1> QED BY <1>2, <1>3, <1>4, IdleIs, KStepDone

LEMMA KNothingMoves ==
  ASSUME KInv, IInv', NEW p \in Procs, At(p, "idle"),
         UNCHANGED <<fsVars, loc, faults>>, enabled \subseteq enabled'
  PROVE  KInv'
<1>1. UNCHANGED <<dir, mid, fin, cnt, loc, faults>>
  BY DEF fsVars
<1>2. Frame(p, {}) /\ SameFiles
  BY <1>1 DEF Frame, SameFiles
<1>3. \A d \in Chains : Quiet(p, d) /\ Quiet(p, d)'
  BY <1>1, IdleIs DEF Quiet, QuietAt
<1>4. \A d \in Chains : KChain(d)'
  BY <1>1, <1>2, <1>3, KQuietAll
<1>5. {} \cap InUse = {}
  OBVIOUS
<1> QED BY <1>1, <1>4, <1>5, KIdleStep

LEMMA LinkBeginKInv ==
  ASSUME Survivable, KInv, IInv', NEW p \in Procs, NEW a \in Names, NEW b \in Names, LinkBegin(p, a, b)
  PROVE  KInv'
<1>1. /\ At(p, "idle") /\ a \notin InUse /\ b \notin InUse /\ a # b /\ dir[a] # None
      /\ enabled \subseteq enabled' /\ UNCHANGED <<fsVars, faults>> /\ dir' = dir
  BY DEF LinkBegin, MayCall, Survivable, fsVars
<1>2. CASE ~IsFake(a) /\ Start(p, "pick", a, b, NoChain)
  <2>1. dir[a] \in FileObj
    BY <1>1, <1>2, EntryIs DEF IsFake
  <2>2. /\ loc'[p].pc = "pick" /\ loc'[p].old = a /\ loc'[p].new = b /\ loc'[p].c = NoChain
        /\ ~loc'[p].made
    BY <1>2, StartIs
  <2>3. KOwnNames(p)'
    BY <1>1, <2>1, <2>2 DEF KOwnNames
  <2> QED BY <1>1, <1>2, <2>3, Kinds, KBeginStep
<1>3. CASE Resolves(a) /\ Start(p, "inc", a, b, dir[a][2])
  <2>1. PICK c \in Chains : c = dir[a][2] /\ dir[a] = ToMid(c)
    BY <1>3, EntryIs DEF Resolves
  <2>2. /\ loc'[p].pc = "inc" /\ loc'[p].old = a /\ loc'[p].new = b /\ loc'[p].c = c
        /\ ~loc'[p].made
    BY <1>3, <2>1, StartIs
  <2>3. KOwnNames(p)'
    BY <1>1, <2>1, <2>2 DEF KOwnNames
  <2> QED BY <1>1, <1>3, <2>1, <2>3, KBeginStep
<1> QED BY <1>2, <1>3 DEF LinkBegin

LEMMA UnlinkBeginKInv ==
  ASSUME Survivable, KInv, IInv', NEW p \in Procs, NEW a \in Names, UnlinkBegin(p, a)
  PROVE  KInv'
<1>1. /\ At(p, "idle") /\ a \notin InUse /\ dir[a] # None
      /\ enabled \subseteq enabled' /\ UNCHANGED <<fsVars, faults>> /\ dir' = dir
  BY DEF UnlinkBegin, MayCall, Survivable, fsVars
<1>2. NoName \notin Names
  BY L2sAssumption
<1>3. CASE Resolves(a) /\ Start(p, "u_dec", a, NoName, dir[a][2])
  <2>1. PICK c \in Chains : c = dir[a][2] /\ dir[a] = ToMid(c)
    BY <1>3, EntryIs DEF Resolves
  <2>2. /\ loc'[p].pc = "u_dec" /\ loc'[p].old = a /\ loc'[p].c = c /\ ~loc'[p].made
    BY <1>3, <2>1, StartIs
  <2>3. KOwnNames(p)'
    BY <1>1, <2>1, <2>2 DEF KOwnNames
  <2> QED BY <1>1, <1>2, <1>3, <2>1, <2>3, KBeginStep
<1>4. CASE Start(p, "u_plain", a, NoName, NoChain)
  <2>1. /\ loc'[p].pc = "u_plain" /\ loc'[p].old = a /\ loc'[p].c = NoChain /\ ~loc'[p].made
    BY <1>4, StartIs
  <2>2. KOwnNames(p)'
    BY <2>1 DEF KOwnNames
  <2> QED BY <1>1, <1>2, <1>4, <2>2, Kinds, KBeginStep
<1> QED BY <1>3, <1>4 DEF UnlinkBegin

LEMMA RenameBeginKInv ==
  ASSUME Survivable, KInv, IInv', NEW p \in Procs, NEW a \in Names, NEW b \in Names, RenameBegin(p, a, b)
  PROVE  KInv'
<1>1. /\ At(p, "idle") /\ a \notin InUse /\ b \notin InUse /\ a # b /\ dir[a] # None
      /\ enabled \subseteq enabled' /\ UNCHANGED <<fsVars, faults>> /\ dir' = dir
  BY DEF RenameBegin, MayCall, Survivable, fsVars
<1>2. CASE Resolves(b) /\ dir[a] # dir[b] /\ Start(p, "r_svc", a, b, dir[b][2])
  <2>1. PICK c \in Chains : c = dir[b][2] /\ dir[b] = ToMid(c)
    BY <1>2, EntryIs DEF Resolves
  <2>2. /\ loc'[p].pc = "r_svc" /\ loc'[p].old = a /\ loc'[p].new = b /\ loc'[p].c = c
        /\ ~loc'[p].made
    BY <1>2, <2>1, StartIs
  <2>3. KOwnNames(p)'
    <3>1. dir'[b] = ToMid(c) /\ dir'[a] # dir'[b] /\ dir'[a] # None /\ c # NoChain
      BY <1>1, <1>2, <2>1, Kinds
    <3> QED BY <1>1, <2>2, <3>1 DEF KOwnNames
  <2> QED BY <1>1, <1>2, <2>1, <2>3, KBeginStep
<1>3. CASE UNCHANGED loc
  BY <1>1, <1>3, KNothingMoves
<1>4. CASE ~((p \in enabled \/ IsFake(b)) /\ Resolves(b)) /\ Start(p, "r_svc", a, b, NoChain)
  <2>1. dir[b] \in FileObj \cup {None}
    BY <1>1, <1>4, EntryIs DEF IsFake
  <2>2. /\ loc'[p].pc = "r_svc" /\ loc'[p].old = a /\ loc'[p].new = b /\ loc'[p].c = NoChain
        /\ ~loc'[p].made
    BY <1>4, StartIs
  <2>3. KOwnNames(p)'
    BY <1>1, <2>1, <2>2 DEF KOwnNames
  <2> QED BY <1>1, <1>4, <2>3, Kinds, KBeginStep
<1> QED BY <1>2, <1>3, <1>4 DEF RenameBegin

LEMMA RenameFlagsKInv ==
  ASSUME Survivable, KInv, IInv', NEW p \in Procs, NEW a \in Names, NEW b \in Names, RenameFlags(p, a, b)
  PROVE  KInv'
<1>1. /\ At(p, "idle") /\ a \notin InUse /\ b \notin InUse /\ a # b /\ dir[a] # None
      /\ UNCHANGED <<mid, fin, cnt, enabled, loc, faults>>
      /\ dir' = [dir EXCEPT ![a] = dir[b], ![b] = dir[a]] /\ dir \in [Names -> Obj]
  BY DEF RenameFlags, MayCall, Survivable, KInv, IInv, TypeOK
<1>2. dir'[a] = dir[b] /\ dir'[b] = dir[a] /\ \A n \in Names : n \notin {a, b} => dir'[n] = dir[n]
  BY <1>1
<1>3. Frame(p, {a, b}) /\ SameFiles
  BY <1>1, <1>2 DEF Frame, InUse, Uses, SameFiles
<1>4. ASSUME NEW d \in Chains PROVE KChain(d)'
  <2>1. Quiet(p, d) /\ Quiet(p, d)' /\ KChain(d)
    BY <1>1, IdleIs DEF Quiet, QuietAt, KInv
  <2>2. ~Leaves(a, d) /\ ~Leaves(b, d)
    BY <1>1 DEF Leaves, InUse
  <2>3. CASE dir[a] = ToMid(d) /\ dir[b] # ToMid(d)
    <3>1. a \in NamesOf(d) /\ b \notin NamesOf(d) /\ NamesOf(d)' = (NamesOf(d) \ {a}) \cup {b}
      BY <1>1, <1>2, <2>3 DEF NamesOf
    <3> QED BY <1>3, <2>1, <2>2, <3>1, KMoved
  <2>4. CASE dir[b] = ToMid(d) /\ dir[a] # ToMid(d)
    <3>1. b \in NamesOf(d) /\ a \notin NamesOf(d) /\ NamesOf(d)' = (NamesOf(d) \ {b}) \cup {a}
      BY <1>1, <1>2, <2>4 DEF NamesOf
    <3> QED BY <1>3, <2>1, <2>2, <3>1, KMoved
  <2>5. CASE dir[a] = ToMid(d) <=> dir[b] = ToMid(d)
    <3>1. NamesOf(d)' = NamesOf(d)
      BY <1>2, <2>5 DEF NamesOf
    <3> QED BY <1>1, <1>3, <2>1, <3>1, KQuietChain
  <2> QED BY <2>3, <2>4, <2>5
<1> QED BY <1>1, <1>2, <1>4, KIdleStep

LEMMA CreateKInv ==
  ASSUME Survivable, KInv, IInv', NEW p \in Procs, NEW n \in Names, NEW x \in Data, Create(p, n, x)
  PROVE  KInv'
<1>1. /\ At(p, "idle") /\ {n} \cap InUse = {} /\ dir[n] = None
      /\ UNCHANGED <<mid, fin, cnt, enabled, loc, faults>>
      /\ dir' = [dir EXCEPT ![n] = File(x)] /\ dir \in [Names -> Obj]
  BY DEF Create, MayCall, Survivable, KInv, IInv, TypeOK
<1>2. dir'[n] \in FileObj /\ \A m \in Names : m # n => dir'[m] = dir[m]
  BY <1>1 DEF FileObj
<1>3. Frame(p, {n}) /\ SameFiles
  BY <1>1, <1>2 DEF Frame, InUse, Uses, SameFiles
<1>4. \A m \in Names, d \in Chains : dir'[m] = ToMid(d) <=> dir[m] = ToMid(d)
  BY <1>1, <1>2, Kinds
<1>5. \A d \in Chains : Quiet(p, d) /\ Quiet(p, d)'
  BY <1>1, IdleIs DEF Quiet, QuietAt
<1>6. \A d \in Chains : KChain(d)'
  BY <1>3, <1>4, <1>5, KQuietAll
<1> QED BY <1>1, <1>2, <1>6, KIdleStep

(* The generation that is taken may have a final that a killed call has left,
   which RenameToFinal replaces, but no mid, no name and no call on it. *)
LEMMA PickKInv ==
  ASSUME Survivable, KInv, IInv', NEW p \in Procs, PickGeneration(p), PicksFresh
  PROVE  KInv'
<1>1. loc[p].pc = "pick" /\ KOwnNames(p) /\ loc \in [Procs -> Locals]
  BY DEF PickGeneration, At, KInv, KPlace, IInv, TypeOK
<1>2. UNCHANGED <<dir, mid, fin, cnt, enabled, faults>>
  BY DEF PickGeneration, fsVars
<1>3. PICK a \in Names : loc[p].old = a
  BY <1>1, InCallFacts DEF KInv
<1>4. PICK b \in Names : /\ loc[p].new = b /\ b # a /\ loc[p].c = NoChain /\ ~loc[p].made
                         /\ dir[a] \in FileObj
  BY <1>1, <1>3 DEF KOwnNames
<1>5. CASE Return(p)
  BY <1>1, <1>2, <1>5, KLeave DEF KillPoints
<1>6. ASSUME NEW g \in 1 .. MaxGen, ~Taken(<<BaseOf[a], g>>),
             loc' = [loc EXCEPT ![p].pc = "ren", ![p].c = <<BaseOf[a], g>>]
      PROVE  KInv'
  <2>1. PICK c \in Chains : c = <<BaseOf[a], g>>
    BY L2sAssumption DEF Chains
  <2>2. /\ \A q \in Procs : q # p => loc'[q] = loc[q]
        /\ loc'[p].pc = "ren" /\ loc'[p].c = c /\ loc'[p].old = a /\ loc'[p].new = b
        /\ ~loc'[p].made /\ Uses(p)' = Uses(p)
    <3>1. loc'[p] = [loc[p] EXCEPT !.pc = "ren", !.c = c] /\ loc[p] \in Locals
      BY <1>1, <1>6, <2>1
    <3>2. [loc[p] EXCEPT !.pc = "ren", !.c = c].made = loc[p].made
      BY <3>1 DEF Locals
    <3> QED BY <1>1, <1>3, <1>4, <1>6, <3>1, <3>2 DEF Locals, Uses
  <2>3. \A q \in Procs : loc[q].c # c
    BY <1>1, <1>4, <2>1, <2>2, Kinds DEF PicksFresh, At
  <2>4. c \notin mid /\ Led(c)
    <3>1. KFiles(c) /\ Led(c)
      BY DEF KInv, KChain
    <3>2. ASSUME c \in mid PROVE FALSE
      <4>1. fin[c] \in FileObj /\ fin[c][1] # "mid"
        BY <3>1, <3>2, Kinds DEF KFiles
      <4>2. Follow(ToMid(c)) = fin[c]
        BY <3>2, Kinds DEF Follow
      <4>3. Resolve(ToMid(c)) = fin[c]
        BY <4>1, <4>2 DEF Resolve, Follow
      <4> QED BY <1>6, <2>1, <4>1, <4>3 DEF Taken
    <3> QED BY <3>1, <3>2
  <2>5. NamesOf(c) = {}
    BY <2>3, <2>4 DEF Led, Leaves
  <2>6. Frame(p, {}) /\ SameFiles
    <3>1. {} \subseteq Uses(p) /\ SameFiles
      BY <1>2 DEF SameFiles
    <3> QED BY <1>2, <2>2, <3>1, OwnFrame
  <2>7. KPlace(p)'
    <3>1. KOwnNames(p)'
      BY <1>2, <1>4, <2>2 DEF KOwnNames
    <3>2. KOwnChain(p)' /\ OwnLinks(p)'
      BY <1>2, <2>2, <2>4, <2>5 DEF KOwnChain, OwnLinks, NamesOf
    <3> QED BY <3>1, <3>2 DEF KPlace
  <2>8. Members'
    <3>1. ~Member(p)'
      BY <2>2 DEF Member
    <3> QED BY <1>2, <2>6, <3>1, MembersKept
  <2>9. Solo'
    <3> SUFFICES ASSUME NEW q \in Procs, NEW r \in Procs, q # r, loc'[q].c = loc'[r].c, loc'[q].c \in Chains
                 PROVE  ~Builds(q)' /\ (Reclaims(q)' => loc'[r].pc = "u_name")
      BY DEF Solo
    <3>1. q # p /\ r # p
      BY <2>2, <2>3
    <3>2. loc'[q] = loc[q] /\ loc'[r] = loc[r]
      BY <2>2, <3>1
    <3> QED BY <3>2 DEF KInv, Solo, Builds, Reclaims
  <2>10. Apart'
    BY <2>2, ApartKept DEF KInv, Apart
  <2>11. \A d \in Chains : Quiet(p, d) /\ Quiet(p, d)'
    BY <1>1, <2>2 DEF Quiet, QuietAt
  <2>12. \A d \in Chains : KChain(d)'
    BY <1>2, <2>6, <2>11, KQuietAll
  <2> QED BY <2>6, <2>7, <2>8, <2>9, <2>10, <2>12, KStepDone
<1> QED BY <1>3, <1>5, <1>6 DEF PickGeneration

LEMMA CrashKInv ==
  ASSUME Survivable, KInv, IInv', NEW p \in Procs, Crash(p)
  PROVE  KInv'
<1>1. UNCHANGED <<dir, mid, fin, cnt, enabled>> /\ faults' = faults
  BY DEF Crash, fsVars
<1>2. Return(p) /\ loc[p].pc \in KillPoints
  BY DEF Crash, Survivable
<1> QED BY <1>1, <1>2, KLeave

LEMMA StepKInv ==
  ASSUME Survivable
  PROVE  KInv /\ [Next]_vars /\ (PicksFresh \/ UNCHANGED vars) /\ torn' = {} => KInv'
<1> SUFFICES ASSUME KInv, [Next]_vars, PicksFresh \/ UNCHANGED vars, torn' = {} PROVE KInv'
  OBVIOUS
<1>1. IInv'
  BY NextIInv DEF KInv
<1>2. CASE UNCHANGED vars
  <2>1. UNCHANGED <<dir, mid, fin, cnt, enabled, loc, faults>>
    BY <1>2 DEF vars
  <2>2. Apart' /\ Solo' /\ Members'
    BY <2>1 DEF KInv, Apart, Uses, Solo, Members, Member, Builds, Reclaims
  <2>3. \A p \in Procs : KPlace(p)'
    <3>1. \A p \in Procs : KOwnNames(p)'
      BY <2>1 DEF KInv, KPlace, KOwnNames
    <3>2. \A p \in Procs : KOwnChain(p)' /\ OwnLinks(p)'
      BY <2>1 DEF KInv, KPlace, KOwnChain, OwnLinks, Builds, NamesOf
    <3> QED BY <3>1, <3>2 DEF KPlace
  <2>4. \A c \in Chains : KChain(c)'
    <3>1. \A c \in Chains : KFiles(c)' /\ Led(c)'
      BY <2>1 DEF KInv, KChain, KFiles, Led, Leaves, Reclaims, NamesOf
    <3>2. \A c \in Chains : Covers(c)'
      BY <2>1 DEF KInv, KChain, Covers, CountOf, NamesOf, InCall
    <3> QED BY <3>1, <3>2 DEF KChain
  <2> QED BY <1>1, <2>2, <2>3, <2>4 DEF KInv
<1>3. CASE PicksFresh /\ Next
  <2>1. ASSUME NEW p \in Procs, Call(p) PROVE KInv'
    <3>1. ASSUME NEW n \in Names, LazyEnable(p, n) PROVE KInv'
      BY <1>1, <3>1, KNothingMoves DEF LazyEnable, MayCall
    <3> QED
      BY <1>1, <2>1, <3>1, LinkBeginKInv, RenameBeginKInv, RenameFlagsKInv, UnlinkBeginKInv,
         CreateKInv DEF Call
  <2>2. ASSUME NEW p \in Procs, Continue(p) PROVE KInv'
    BY <1>1, <1>3, <2>2, PickKInv, RenameToFinalKInv, SymlinkMidKInv, SymlinkOldKInv, WriteCountKInv,
       AddLinkKInv, SymlinkNewKInv, RollbackKInv, RollbackAddKInv, DropLinkKInv, ReclaimKInv,
       RemoveNameKInv, RenameCallKInv, RenameDropKInv, RenameReclaimKInv, NoCut DEF Continue
  <2>3. ASSUME NEW p \in Procs, Crash(p) PROVE KInv'
    BY <1>1, <2>3, CrashKInv
  <2> QED BY <1>3, <2>1, <2>2, <2>3 DEF Next
<1> QED BY <1>2, <1>3

(* A cut is never undone. *)
LEMMA TornGrows == [Next]_vars => torn \subseteq torn'
<1> SUFFICES ASSUME [Next]_vars PROVE torn \subseteq torn'
  OBVIOUS
<1>1. ASSUME NEW p \in Procs, Continue(p) PROVE torn \subseteq torn'
  BY <1>1 DEF Continue, PickGeneration, RenameToFinal, SymlinkMid, SymlinkOld, WriteCount, AddLink,
     SymlinkNew, RollbackOld, RollbackMid, RollbackRename, RollbackCount, RollbackAdd, CutUpdate,
     DropLink, ReclaimMid, ReclaimFinal, ReclaimCount, RemoveName, RenameCall, RenameDrop, RenameReclaim
<1>2. ASSUME NEW p \in Procs, Call(p) \/ Crash(p) PROVE torn \subseteq torn'
  BY <1>2 DEF Call, Crash, LinkBegin, RenameBegin, RenameFlags, UnlinkBegin, LazyEnable, Create
<1> QED BY <1>1, <1>2 DEF Next, vars

(* Processes are killed between two system calls, have link(), unlink() and
   rename() refused, and have the layer off: the count of a chain is never
   below its names, so that no unlink() reclaims the content another name
   stands for, and no name is left that leads nowhere (l2s_rt_link,
   l2s_rt_unlink, l2s_rt_rename_replace_commit), up to the first time that the
   update of a count is cut between its truncation and its write.  It needs that
   the processes keep to names of their own, that no generation is taken while a
   call is still on it, and that nobody is killed where a name is bound before
   its count is written or counted down before it is removed. *)
THEOREM L2sCrashSafe ==
  ASSUME Survivable
  PROVE  Spec /\ FreshPick => [](torn = {} => CrashSafe)
<1> DEFINE Inv == torn = {} => KInv
<1>1. Init => Inv
  BY InitKInv
<1>2. Inv /\ [Next]_vars /\ [PicksFresh]_vars => Inv'
  BY StepKInv, TornGrows
<1>3. Inv => (torn = {} => CrashSafe)
  BY CrashSafeIs
<1> HIDE DEF Inv
<1> QED BY <1>1, <1>2, <1>3, PTL DEF Spec, FreshPick

(* One process after another, each killed or refused in that way: whatever they
   leave, the calls of the next one are as safe, without any repair of counts
   and for every generation it takes. *)
THEOREM L2sCrashSafeAlone ==
  ASSUME Survivable, \A p, q \in Procs : p = q
  PROVE  Spec => [](torn = {} => CrashSafe)
<1>1. [Next]_vars => [PicksFresh]_vars
  BY DEF PicksFresh
<1>2. Spec => FreshPick
  BY <1>1, PTL DEF Spec, FreshPick
<1> QED BY <1>2, L2sCrashSafe, PTL

(* A step that changes the entry at a final: the chain has no mid, and only one
   call works on it. *)
LEMMA KFinalStep ==
  ASSUME KInv, [Next]_vars, NEW c \in Chains
  PROVE  /\ c \in mid => fin'[c] = fin[c]
         /\ fin[c] \in FileObj /\ fin'[c] = None => InCall(c, {"sym_mid", "sym_old", "wr_cnt"}) = {}
<1>1. fin \in [Chains -> Obj]
  BY DEF KInv, IInv, TypeOK
<1>2. CASE UNCHANGED fin
  BY <1>2, Kinds
<1>3. ASSUME NEW p \in Procs, Continue(p), fin' # fin
      PROVE  /\ c \in mid => fin'[c] = fin[c]
             /\ fin[c] \in FileObj /\ fin'[c] = None => InCall(c, {"sym_mid", "sym_old", "wr_cnt"}) = {}
  <2>1. RenameToFinal(p) \/ RollbackRename(p) \/ ReclaimFinal(p) \/ RenameReclaim(p)
    BY <1>3 DEF Continue, PickGeneration, SymlinkMid, SymlinkOld, WriteCount, AddLink, SymlinkNew,
       RollbackOld, RollbackMid, RollbackCount, RollbackAdd, CutUpdate, DropLink, ReclaimMid, ReclaimCount,
       RemoveName, RenameCall, RenameDrop, fsVars
  <2>2. /\ loc[p].pc \in {"ren", "rb_ren", "u_fin", "r_fin"}
        /\ \A d \in Chains : d # loc[p].c => fin'[d] = fin[d]
    BY <1>1, <1>3, <2>1 DEF RenameToFinal, RollbackRename, ReclaimFinal, RenameReclaim, At
  <2>3. (Builds(p) \/ Reclaims(p)) /\ loc[p].c \notin mid
    BY <2>2 DEF Builds, Reclaims, KInv, KPlace, KOwnChain
  <2>4. loc[p].c = c => InCall(c, {"sym_mid", "sym_old", "wr_cnt"}) = {}
    <3> SUFFICES ASSUME loc[p].c = c, NEW q \in Procs, loc[q].c = c,
                        loc[q].pc \in {"sym_mid", "sym_old", "wr_cnt"}
                 PROVE  FALSE
      BY DEF InCall
    <3>1. Builds(q) /\ q # p
      BY <2>2 DEF Builds
    <3> QED BY <2>3, <3>1 DEF KInv, Solo
  <2> QED BY <2>2, <2>3, <2>4, Kinds
<1>4. ASSUME NEW p \in Procs, Call(p) \/ Crash(p) PROVE UNCHANGED fin
  BY <1>4 DEF Call, Crash, LinkBegin, RenameBegin, RenameFlags, UnlinkBegin, LazyEnable, Create, fsVars
<1>5. CASE UNCHANGED vars
  BY <1>2, <1>5 DEF vars
<1> QED BY <1>2, <1>3, <1>4, <1>5 DEF Next

(* The content that the names of a chain stand for is never exchanged or taken
   away while the chain has its mid. *)
ContentStays == [][\A c \in mid : fin'[c] = fin[c]]_vars

LEMMA NeverTorn ==
  ASSUME TornAt = {}
  PROVE  [Next]_vars /\ torn = {} => torn' = {}
<1> SUFFICES ASSUME [Next]_vars, torn = {} PROVE torn' = {}
  OBVIOUS
<1>1. ASSUME NEW p \in Procs, Continue(p) PROVE torn' = {}
  BY <1>1, NoCut DEF Continue, PickGeneration, RenameToFinal, SymlinkMid, SymlinkOld, WriteCount,
     AddLink, SymlinkNew, RollbackOld, RollbackMid, RollbackRename, RollbackCount, RollbackAdd,
     DropLink, ReclaimMid, ReclaimFinal, ReclaimCount, RemoveName, RenameCall, RenameDrop, RenameReclaim
<1>2. ASSUME NEW p \in Procs, Call(p) \/ Crash(p) PROVE torn' = {}
  BY <1>2 DEF Call, Crash, LinkBegin, RenameBegin, RenameFlags, UnlinkBegin, LazyEnable, Create
<1> QED BY <1>1, <1>2 DEF Next, vars

(* Whoever is killed or refused as above, but within no update of a count: the
   file that the names of a chain lead to is never exchanged for another one
   (ContentStays; NoDangling keeps the mid while a name needs it), and no reclaim
   or rollback empties the final of a chain that a link() is building
   (l2s_rt_link, l2s_rt_unlink). *)
THEOREM L2sKilledContent ==
  ASSUME Survivable, TornAt = {}
  PROVE  Spec /\ FreshPick => ContentStays /\ NewChainSafe
<1> DEFINE Inv == KInv /\ torn = {}
<1>1. Init => Inv
  BY InitKInv DEF Init
<1>2. [Next]_vars /\ torn = {} => torn' = {}
  BY NeverTorn
<1>3. Inv /\ [Next]_vars /\ [PicksFresh]_vars => Inv'
  BY <1>2, StepKInv
<1>4. KInv => mid \subseteq Chains
  BY DEF KInv, IInv, TypeOK
<1>5. Inv /\ [Next]_vars => [\A c \in mid : fin'[c] = fin[c]]_vars
  BY <1>4, KFinalStep
<1>6. Inv /\ [Next]_vars =>
        [\A c \in Chains : fin[c] \in FileObj /\ fin'[c] = None =>
           InCall(c, {"sym_mid", "sym_old", "wr_cnt"}) = {}]_vars
  BY KFinalStep
<1> HIDE DEF Inv
<1> QED BY <1>1, <1>3, <1>5, <1>6, PTL DEF Spec, FreshPick, ContentStays, NewChainSafe
=============================================================================
