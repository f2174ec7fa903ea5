--------------------------- MODULE SysVShmProofs ---------------------------
(* What holds of SysVShm for every set of processes, keys and ids, every    *)
(* number of refused calls and of killed processes.                         *)
EXTENDS SysVShm, TLAPS

(* Whoever is between taking and releasing the claim is its holder. *)
ClaimHeld == \A p \in Procs : Claimed(p) => claim = p

(* The program points at which a call has an id of its own in hand. *)
Owning(p) == loc[p].pc \in {"seg", "trunc", "pub", "undo", "drop"}

(* Such an id is reserved, and by nobody else. *)
Owned ==
  /\ \A p \in Procs : Owning(p) => loc[p].id \in token
  /\ \A p, q \in Procs : Owning(p) /\ Owning(q) /\ loc[p].id = loc[q].id => p = q

IInv == TypeOK /\ ClaimHeld /\ Owned

Ended == {"rel", "idle"}

LEMMA PCsKnown == Ended \subseteq PCs /\ Results \cup Ids \subseteq Ids \cup Results
  BY DEF Ended, PCs

(* The three ways in which a step changes the locals of its process. *)
LEMMA FinishStep ==
  ASSUME TypeOK, NEW p \in Procs, NEW r \in Ids \cup Results, Finish(p, r)
  PROVE  /\ loc' \in [Procs -> Locals]
         /\ loc'[p].pc = IF claim = p THEN "rel" ELSE "idle"
         /\ \A q \in Procs : q # p => loc'[q] = loc[q]
<1>1. Idle \in Locals
  BY DEF Idle, Locals, PCs, Results
<1>2. [Idle EXCEPT !.pc = IF claim = p THEN "rel" ELSE "idle", !.res = r] \in Locals
  BY <1>1 DEF Locals, PCs, Idle
<1> QED
  BY <1>2 DEF Finish, TypeOK, Idle

LEMMA GotoStep ==
  ASSUME TypeOK, NEW p \in Procs, NEW l \in PCs, Goto(p, l)
  PROVE  /\ loc' \in [Procs -> Locals]
         /\ loc'[p].pc = l /\ loc'[p].id = loc[p].id /\ loc'[p].key = loc[p].key
         /\ \A q \in Procs : q # p => loc'[q] = loc[q]
<1>1. loc[p] \in Locals
  BY DEF TypeOK
<1>2. [loc[p] EXCEPT !.pc = l] \in Locals
  BY <1>1 DEF Locals
<1> QED
  BY <1>1, <1>2 DEF Goto, TypeOK, Locals

LEMMA StartStep ==
  ASSUME TypeOK, NEW p \in Procs, NEW l \in PCs, NEW k \in Keys \cup {NoKey},
         NEW creat \in BOOLEAN, NEW excl \in BOOLEAN, NEW i \in Ids \cup {NoId},
         Start(p, l, k, creat, excl, i)
  PROVE  /\ loc' \in [Procs -> Locals]
         /\ loc'[p].pc = l /\ loc'[p].key = k
         /\ \A q \in Procs : q # p => loc'[q] = loc[q]
<1>1. Idle \in Locals
  BY DEF Idle, Locals, PCs, Results
<1>2. [Idle EXCEPT !.pc = l, !.key = k, !.creat = creat, !.excl = excl, !.id = i] \in Locals
  BY <1>1 DEF Locals, Idle
<1> QED
  BY <1>2 DEF Start, TypeOK, Idle

LEMMA HoldStep ==
  ASSUME TypeOK, NEW p \in Procs, NEW l \in PCs, NEW i \in Ids \cup {NoId}, Hold(p, l, i)
  PROVE  /\ loc' \in [Procs -> Locals]
         /\ loc'[p].pc = l /\ loc'[p].id = i
         /\ loc'[p].key = loc[p].key /\ loc'[p].res = loc[p].res
         /\ \A q \in Procs : q # p => loc'[q] = loc[q]
<1>1. loc[p] \in Locals
  BY DEF TypeOK
<1>2. /\ [loc[p] EXCEPT !.pc = l, !.id = i] \in Locals
      /\ loc' = [loc EXCEPT ![p] = [loc[p] EXCEPT !.pc = l, !.id = i]]
  BY <1>1 DEF Locals, Hold, TypeOK
<1> QED
  BY <1>1, <1>2 DEF TypeOK, Locals

(* What such a step owes to the two other invariants. *)
LEMMA KeepsInv ==
  ASSUME IInv, NEW p \in Procs,
         loc' \in [Procs -> Locals],
         \A q \in Procs : q # p => loc'[q] = loc[q],
         \A q \in Procs : q # p /\ claim = q => claim' = q,
         Claimed(p)' => claim' = p,
         token \subseteq token',
         Owning(p)' => /\ loc'[p].id \in token'
                       /\ (Owning(p) /\ loc'[p].id = loc[p].id) \/ loc'[p].id \notin token
  PROVE  ClaimHeld' /\ Owned'
<1>1. ClaimHeld'
  BY DEF IInv, ClaimHeld, Claimed
<1>2. Owned'
  BY DEF IInv, Owned, Owning
<1> QED
  BY <1>1, <1>2

LEMMA FaultsType == TypeOK /\ Refused => faults' \in 0 .. MaxFaults
  BY ShmAssumption DEF TypeOK, Refused

LEMMA InitIInv == Init => IInv
  BY ShmAssumption
     DEF Init, IInv, TypeOK, ClaimHeld, Claimed, Owned, Owning, Idle, Locals, PCs, Results

(* No begin of a call takes a claim or an id. *)
LEMMA CallStep ==
  ASSUME IInv, NEW p \in Procs, Call(p)
  PROVE  IInv'
<1> USE DEF IInv
<1>1. ASSUME NEW k \in Keys, NEW creat \in BOOLEAN, NEW excl \in BOOLEAN,
             GetBegin(p, k, creat, excl)
      PROVE  IInv'
  <2>1. "claim" \in PCs /\ Start(p, "claim", k, creat, excl, NoId)
    BY <1>1 DEF GetBegin, PCs
  <2>2. TypeOK'
    BY <1>1, <2>1, StartStep DEF GetBegin, dirVars, TypeOK
  <2>3. /\ loc' \in [Procs -> Locals] /\ \A q \in Procs : q # p => loc'[q] = loc[q]
        /\ claim' = claim /\ token' = token
        /\ ~Claimed(p)' /\ ~Owning(p)'
    BY <1>1, <2>1, StartStep DEF GetBegin, dirVars, Claimed, Owning, At, TypeOK
  <2>4. ClaimHeld' /\ Owned'
    BY <2>3, KeepsInv
  <2> QED
    BY <2>2, <2>4
<1>2. CASE PrivateBegin(p)
  <2>1. "token" \in PCs /\ Start(p, "token", NoKey, TRUE, FALSE, NoId)
    BY <1>2 DEF PrivateBegin, PCs
  <2>2. TypeOK'
    BY <1>2, <2>1, StartStep DEF PrivateBegin, dirVars, TypeOK
  <2>3. /\ loc' \in [Procs -> Locals] /\ \A q \in Procs : q # p => loc'[q] = loc[q]
        /\ claim' = claim /\ token' = token
        /\ ~Claimed(p)' /\ ~Owning(p)'
    BY <1>2, <2>1, StartStep DEF PrivateBegin, dirVars, Claimed, Owning, At, TypeOK
  <2>4. ClaimHeld' /\ Owned'
    BY <2>3, KeepsInv
  <2> QED
    BY <2>2, <2>4
<1>3. ASSUME NEW i \in Ids, RmidBegin(p, i)
      PROVE  IInv'
  <2>1. "rm_claim" \in PCs /\ Start(p, "rm_claim", NoKey, FALSE, FALSE, i)
    BY <1>3 DEF RmidBegin, PCs
  <2>2. TypeOK'
    BY <1>3, <2>1, StartStep DEF RmidBegin, dirVars, TypeOK
  <2>3. ClaimHeld' /\ Owned'
    BY <1>3, <2>1, StartStep, KeepsInv DEF RmidBegin, dirVars, Claimed, Owning, At, ClaimHeld
  <2> QED
    BY <2>2, <2>3
<1> QED
  BY <1>1, <1>2, <1>3 DEF Call

(* Taking the claim and reading the key; no id is in hand yet. *)
LEMMA ClaimStep ==
  ASSUME IInv, NEW p \in Procs, Claim(p) \/ ReadKey(p) \/ OpenKeyed(p) \/ DropStaleKey(p)
  PROVE  IInv'
<1> USE DEF IInv
<1>1. CASE Claim(p)
  <2>1. CASE /\ claim = NoProc /\ claim' = p
             /\ Goto(p, IF At(p, "claim") THEN "read" ELSE "rm_seg")
             /\ UNCHANGED <<dirVars, faults, crashes>>
    <3>1. (IF At(p, "claim") THEN "read" ELSE "rm_seg") \in PCs
      BY DEF PCs
    <3>2. TypeOK'
      BY <2>1, <3>1, GotoStep DEF dirVars, TypeOK
    <3>3. ClaimHeld' /\ Owned'
      BY <2>1, <3>1, GotoStep, KeepsInv, ShmAssumption DEF dirVars, Owning, Claimed, TypeOK
    <3> QED
      BY <3>2, <3>3
  <2>2. CASE /\ Finish(p, Failed) /\ UNCHANGED <<dirVars, claim, crashes>>
             /\ faults' \in 0 .. MaxFaults
    <3>1. Failed \in Results
      BY DEF Results
    <3>2. TypeOK'
      BY <2>2, <3>1, FinishStep DEF dirVars, TypeOK
    <3>3. ClaimHeld' /\ Owned'
      BY <2>2, <3>1, FinishStep, KeepsInv DEF dirVars, Owning, Claimed, TypeOK
    <3> QED
      BY <3>2, <3>3
  <2> QED
    BY <1>1, <2>1, <2>2, FaultsType DEF Claim, dirVars, TypeOK
<1>2. CASE ReadKey(p) \/ OpenKeyed(p)
  <2>1. OpenKeyed(p) /\ loc[p].id \in seg => loc[p].id \in Ids
    BY DEF TypeOK
  <2>2. claim = p /\ faults' \in 0 .. MaxFaults
    BY <1>2, FaultsType DEF ReadKey, OpenKeyed, ClaimHeld, Claimed, At, TypeOK
  <2>3. \/ \E r \in Ids \cup Results : Finish(p, r)
        \/ Goto(p, "token")
        \/ \E l \in {"open", "stale"}, i \in Ids \cup {NoId} : Hold(p, l, i)
    BY <1>2, <2>1 DEF ReadKey, OpenKeyed, Results
  <2>4. {"open", "stale", "token"} \subseteq PCs
    BY DEF PCs
  <2>5. UNCHANGED <<token, seg, key, claim, crashes>>
    BY <1>2 DEF ReadKey, OpenKeyed, dirVars
  <2>6. TypeOK'
    BY <2>2, <2>3, <2>4, <2>5, GotoStep, FinishStep, HoldStep DEF TypeOK
  <2>7. ClaimHeld' /\ Owned'
    BY <2>2, <2>3, <2>4, <2>5, GotoStep, FinishStep, HoldStep, KeepsInv DEF Owning, Claimed, TypeOK
  <2> QED
    BY <2>6, <2>7
<1>3. CASE DropStaleKey(p)
  <2>1. claim = p /\ faults' \in 0 .. MaxFaults /\ key' \in [Keys -> Ids \cup {NoId}]
    BY <1>3, FaultsType DEF DropStaleKey, ClaimHeld, Claimed, At, TypeOK
  <2>2. (\E r \in Results : Finish(p, r)) \/ Goto(p, "token")
    BY <1>3 DEF DropStaleKey, Results
  <2>3. "token" \in PCs /\ UNCHANGED <<token, seg, claim, crashes>>
    BY <1>3 DEF DropStaleKey, PCs
  <2>4. TypeOK'
    BY <2>1, <2>2, <2>3, GotoStep, FinishStep DEF TypeOK
  <2>5. ClaimHeld' /\ Owned'
    BY <2>1, <2>2, <2>3, GotoStep, FinishStep, KeepsInv DEF Owning, Claimed, TypeOK
  <2> QED
    BY <2>4, <2>5
<1> QED
  BY <1>1, <1>2, <1>3

(* Making a segment: the id in hand is one that was not reserved before. *)
LEMMA MakeStep ==
  ASSUME IInv, NEW p \in Procs, ReserveId(p) \/ MakeSegment(p) \/ SizeSegment(p)
  PROVE  IInv'
<1> USE DEF IInv
<1>1. loc[p] \in Locals /\ loc[p].id \in Ids \cup {NoId} /\ Failed \in Results
  BY DEF TypeOK, Locals, Results
<1>2. CASE ReserveId(p)
  <2>1. ASSUME NEW i \in Ids \ token, token' = token \cup {i},
               loc' = [loc EXCEPT ![p].pc = "seg", ![p].id = i], UNCHANGED faults
        PROVE  IInv'
    <3>1. "seg" \in PCs
      BY DEF PCs
    <3>2. /\ loc' \in [Procs -> Locals]
          /\ loc'[p].pc = "seg" /\ loc'[p].id = i /\ loc'[p].key = loc[p].key
          /\ \A q \in Procs : q # p => loc'[q] = loc[q]
      BY <1>1, <2>1, <3>1 DEF TypeOK, Locals
    <3>3. TypeOK'
      BY <1>2, <2>1, <3>2 DEF ReserveId, TypeOK
    <3>4. Claimed(p)' => claim' = p
      BY <1>2, <3>2 DEF ReserveId, Claimed, At, ClaimHeld
    <3>5. i \in token' /\ i \notin token /\ token \subseteq token' /\ UNCHANGED claim
      BY <1>2, <2>1 DEF ReserveId
    <3>6. ClaimHeld' /\ Owned'
      BY <3>2, <3>4, <3>5, KeepsInv
    <3> QED
      BY <3>3, <3>6
  <2>2. CASE Finish(p, Failed) /\ UNCHANGED token /\ faults' \in 0 .. MaxFaults
    <3>1. TypeOK'
      BY <1>1, <1>2, <2>2, FinishStep DEF ReserveId, TypeOK
    <3>2. ClaimHeld' /\ Owned'
      BY <1>1, <1>2, <2>2, FinishStep, KeepsInv DEF ReserveId, Owning, Claimed, TypeOK
    <3> QED
      BY <3>1, <3>2
  <2> QED
    BY <1>2, <2>1, <2>2, FaultsType DEF ReserveId, TypeOK
<1>3. CASE MakeSegment(p)
  <2>1. loc[p].id \in token /\ loc[p].id \in Ids
    BY <1>3 DEF MakeSegment, Owned, Owning, At, TypeOK
  <2>2. Goto(p, "trunc") \/ Goto(p, "token") \/ Finish(p, Failed)
    BY <1>3 DEF MakeSegment
  <2>3. seg' \subseteq Ids /\ faults' \in 0 .. MaxFaults
    BY <1>3, <2>1, FaultsType DEF MakeSegment, TypeOK
  <2>4. "trunc" \in PCs /\ "token" \in PCs /\ UNCHANGED <<token, key, claim, crashes>>
    BY <1>3 DEF MakeSegment, PCs
  <2>5. TypeOK'
    BY <1>1, <2>2, <2>3, <2>4, GotoStep, FinishStep DEF TypeOK
  <2>6. loc[p].key # NoKey => claim = p
    BY <1>3 DEF MakeSegment, At, ClaimHeld, Claimed
  <2>7. ClaimHeld' /\ Owned'
    BY <1>1, <1>3, <2>1, <2>2, <2>4, <2>6, GotoStep, FinishStep, KeepsInv
       DEF MakeSegment, Owning, Claimed, At
  <2> QED
    BY <2>5, <2>7
<1>4. CASE SizeSegment(p)
  <2>1. loc[p].id \in token /\ loc[p].id \in Ids
    BY <1>4 DEF SizeSegment, Owned, Owning, At, TypeOK
  <2>2. \/ loc[p].key = NoKey /\ Finish(p, loc[p].id)
        \/ loc[p].key # NoKey /\ Goto(p, "pub")
        \/ Goto(p, "drop")
    BY <1>4 DEF SizeSegment
  <2>3. faults' \in 0 .. MaxFaults /\ UNCHANGED <<token, seg, key, claim, crashes>>
    BY <1>4, FaultsType DEF SizeSegment, TypeOK, dirVars
  <2>4. "pub" \in PCs /\ "drop" \in PCs
    BY DEF PCs
  <2>5. TypeOK'
    BY <2>1, <2>2, <2>3, <2>4, GotoStep, FinishStep DEF TypeOK
  <2>6. loc[p].key # NoKey => claim = p
    BY <1>4 DEF SizeSegment, At, ClaimHeld, Claimed
  <2>7. ClaimHeld' /\ Owned'
    BY <1>4, <2>1, <2>2, <2>3, <2>4, <2>6, GotoStep, FinishStep, KeepsInv
       DEF SizeSegment, Owning, Claimed, At
  <2> QED
    BY <2>5, <2>7
<1> QED
  BY <1>2, <1>3, <1>4

(* Publishing the segment, or getting rid of it. *)
LEMMA PublishStep ==
  ASSUME IInv, NEW p \in Procs,
         PublishKey(p) \/ DropSegment(p) \/ UndoSegment(p) \/ ReadWinner(p) \/ OpenWinner(p)
  PROVE  IInv'
<1> USE DEF IInv
<1>1. /\ Failed \in Results /\ EEXIST \in Results /\ ENOENT \in Results
      /\ {"undo", "drop", "winner"} \subseteq PCs
  BY DEF Results, PCs
<1>2. CASE PublishKey(p)
  <2>1. loc[p].id \in token /\ loc[p].id \in Ids /\ claim = p
    BY <1>2 DEF PublishKey, Owned, Owning, ClaimHeld, Claimed, At, TypeOK
  <2>2. Finish(p, loc[p].id) \/ Goto(p, "undo") \/ Goto(p, "drop")
    BY <1>2 DEF PublishKey
  <2>3. key' \in [Keys -> Ids \cup {NoId}] /\ faults' \in 0 .. MaxFaults
    BY <1>2, <2>1, FaultsType DEF PublishKey, TypeOK
  <2>4. UNCHANGED <<token, seg, claim, crashes>>
    BY <1>2 DEF PublishKey
  <2>5. TypeOK'
    BY <1>1, <2>1, <2>2, <2>3, <2>4, GotoStep, FinishStep DEF TypeOK
  <2>6. ClaimHeld' /\ Owned'
    BY <1>1, <1>2, <2>1, <2>2, <2>4, GotoStep, FinishStep, KeepsInv
       DEF PublishKey, Owning, Claimed, At
  <2> QED
    BY <2>5, <2>6
<1>3. CASE DropSegment(p)
  <2>1. seg' \subseteq Ids /\ faults' \in 0 .. MaxFaults
    BY <1>3, FaultsType DEF DropSegment, UnlinkOwn, TypeOK
  <2>2. Finish(p, Failed) /\ UNCHANGED <<token, key, claim, crashes>>
    BY <1>3 DEF DropSegment
  <2>3. TypeOK'
    BY <1>1, <2>1, <2>2, FinishStep DEF TypeOK
  <2>4. ClaimHeld' /\ Owned'
    BY <1>1, <2>2, FinishStep, KeepsInv DEF Owning, Claimed
  <2> QED
    BY <2>3, <2>4
<1>4. CASE UndoSegment(p)
  <2>1. seg' \subseteq Ids /\ faults' \in 0 .. MaxFaults
    BY <1>4, FaultsType DEF UndoSegment, UnlinkOwn, TypeOK
  <2>2. Goto(p, "winner") /\ claim = p /\ UNCHANGED <<token, key, claim, crashes>>
    BY <1>4 DEF UndoSegment, ClaimHeld, Claimed, At
  <2>3. TypeOK'
    BY <1>1, <2>1, <2>2, GotoStep DEF TypeOK
  <2>4. ClaimHeld' /\ Owned'
    BY <1>1, <2>2, GotoStep, KeepsInv DEF Owning, Claimed
  <2> QED
    BY <2>3, <2>4
<1>5. CASE ReadWinner(p) \/ OpenWinner(p)
  <2>1. loc[p].id \in seg => loc[p].id \in Ids
    BY DEF TypeOK
  <2>2. (\E r \in Ids \cup Results : Finish(p, r)) \/ \E i \in Ids : Hold(p, "winopen", i)
    BY <1>1, <1>5, <2>1 DEF ReadWinner, OpenWinner
  <2>3. /\ faults' \in 0 .. MaxFaults /\ UNCHANGED <<token, seg, key, claim, crashes>>
        /\ claim = p /\ "winopen" \in PCs
    BY <1>5, FaultsType
       DEF ReadWinner, OpenWinner, dirVars, TypeOK, PCs, ClaimHeld, Claimed, At
  <2>4. TypeOK'
    BY <2>2, <2>3, FinishStep, HoldStep DEF TypeOK
  <2>5. ClaimHeld' /\ Owned'
    BY <2>2, <2>3, FinishStep, HoldStep, KeepsInv DEF Owning, Claimed
  <2> QED
    BY <2>4, <2>5
<1> QED
  BY <1>2, <1>3, <1>4, <1>5

(* IPC_RMID and the end of a call. *)
LEMMA RmidStep ==
  ASSUME IInv, NEW p \in Procs, RemoveSegment(p) \/ RemoveKeys(p) \/ Release(p)
  PROVE  IInv'
<1> USE DEF IInv
<1>1. /\ Failed \in Results /\ Nothing \in Results
      /\ "rm_keys" \in PCs /\ "idle" \in PCs
  BY DEF Results, PCs
<1>2. CASE RemoveSegment(p)
  <2>1. seg' \subseteq Ids /\ faults' \in 0 .. MaxFaults
    BY <1>2, FaultsType DEF RemoveSegment, TypeOK
  <2>2. claim = p /\ UNCHANGED <<token, key, claim, crashes>>
    BY <1>2 DEF RemoveSegment, ClaimHeld, Claimed, At
  <2>3. Goto(p, "rm_keys") \/ Finish(p, Failed)
    BY <1>2 DEF RemoveSegment
  <2>4. TypeOK'
    BY <1>1, <2>1, <2>2, <2>3, GotoStep, FinishStep DEF TypeOK
  <2>5. ClaimHeld' /\ Owned'
    BY <1>1, <2>2, <2>3, GotoStep, FinishStep, KeepsInv DEF Owning, Claimed
  <2> QED
    BY <2>4, <2>5
<1>3. CASE RemoveKeys(p)
  <2>1. key' \in [Keys -> Ids \cup {NoId}] /\ faults' \in 0 .. MaxFaults
    BY <1>3, FaultsType DEF RemoveKeys, TypeOK
  <2>2. UNCHANGED <<token, seg, claim, crashes>>
    BY <1>3 DEF RemoveKeys
  <2>3. (\E r \in Results : Finish(p, r)) \/ UNCHANGED loc
    BY <1>1, <1>3 DEF RemoveKeys
  <2>4. TypeOK'
    BY <2>1, <2>2, <2>3, FinishStep DEF TypeOK
  <2>5. ClaimHeld' /\ Owned'
    <3>1. CASE UNCHANGED loc
      BY <2>2, <3>1 DEF ClaimHeld, Claimed, Owned, Owning
    <3>2. CASE \E r \in Results : Finish(p, r)
      BY <2>2, <3>2, FinishStep, KeepsInv DEF Owning, Claimed
    <3> QED
      BY <2>3, <3>1, <3>2
  <2> QED
    BY <2>4, <2>5
<1>4. CASE Release(p)
  <2>1. /\ Goto(p, "idle") /\ claim = p /\ claim' = NoProc
        /\ UNCHANGED <<token, seg, key, faults, crashes>>
    BY <1>4 DEF Release, dirVars, ClaimHeld, Claimed, At
  <2>2. TypeOK'
    BY <1>1, <2>1, GotoStep DEF TypeOK
  <2>3. ClaimHeld' /\ Owned'
    BY <1>1, <2>1, GotoStep, KeepsInv DEF Owning, Claimed
  <2> QED
    BY <2>2, <2>3
<1> QED
  BY <1>2, <1>3, <1>4

(* A killed process leaves no trace in the locals; the official runtime
   changes nothing these invariants speak of but segments and keys. *)
LEMMA OutsideStep ==
  ASSUME IInv
  PROVE  /\ \A p \in Procs : Crash(p) => IInv'
         /\ \A k \in Keys, i \in Ids : OfficialGet(k, i) => IInv'
         /\ \A k \in Keys : OfficialRmid(k) => IInv'
<1> USE DEF IInv
<1>1. ASSUME NEW p \in Procs, Crash(p)
      PROVE  IInv'
  <2>1. Idle \in Locals
    BY DEF Idle, Locals, PCs, Results
  <2>2. /\ loc' \in [Procs -> Locals] /\ loc'[p].pc = "idle"
        /\ \A q \in Procs : q # p => loc'[q] = loc[q]
    BY <1>1, <2>1 DEF Crash, Idle, TypeOK
  <2>3. crashes' \in 0 .. MaxCrashes
    BY <1>1, ShmAssumption DEF Crash, TypeOK
  <2>4. TypeOK'
    BY <1>1, <2>2, <2>3 DEF Crash, dirVars, TypeOK
  <2>5. ClaimHeld' /\ Owned'
    BY <1>1, <2>2, KeepsInv DEF Crash, dirVars, Owning, Claimed
  <2> QED
    BY <2>4, <2>5
<1>2. ASSUME NEW k \in Keys, OfficialRmid(k) \/ \E i \in Ids : OfficialGet(k, i)
      PROVE  IInv'
  <2>1. TypeOK'
    BY <1>2 DEF OfficialGet, OfficialRmid, TypeOK
  <2>2. ClaimHeld' /\ Owned'
    BY <1>2 DEF OfficialGet, OfficialRmid, ClaimHeld, Claimed, Owned, Owning
  <2> QED
    BY <2>1, <2>2
<1> QED
  BY <1>1, <1>2

LEMMA StepIInv == IInv /\ [Next]_vars => IInv'
<1> SUFFICES ASSUME IInv, [Next]_vars
             PROVE  IInv'
  OBVIOUS
<1>1. CASE UNCHANGED vars
  BY <1>1 DEF vars, dirVars, IInv, TypeOK, ClaimHeld, Claimed, Owned, Owning
<1>2. ASSUME NEW p \in Procs, Continue(p)
      PROVE  IInv'
  BY <1>2, ClaimStep, MakeStep, PublishStep, RmidStep DEF Continue
<1>3. CASE Next
  BY <1>2, <1>3, CallStep, OutsideStep DEF Next
<1> QED
  BY <1>1, <1>3

(* Every variable keeps its type, whatever is refused or killed. *)
THEOREM ShmTypeOK == Spec => []TypeOK
<1>1. IInv => TypeOK
  BY DEF IInv
<1> QED
  BY InitIInv, StepIInv, <1>1, PTL DEF Spec

(* At most one process at a time reads, makes or removes a key: the holder of
   the lock on .claim-lock is the one that is in such a call. *)
THEOREM ShmClaimExclusive == Spec => []ClaimExclusive
<1>1. IInv => ClaimExclusive
  BY DEF IInv, ClaimHeld, ClaimExclusive
<1> QED
  BY InitIInv, StepIInv, <1>1, PTL DEF Spec

-----------------------------------------------------------------------------
(* Ids are used once *)

(* The points at which a call has an id it has not yet published. *)
Early(p) == loc[p].pc \in {"seg", "trunc", "pub"}

(* Only a call that made or advanced a segment of its own is early later. *)
StaysEarly(p) == Early(p)' => Early(p) /\ loc'[p].id = loc[p].id

(* Every step but that of ReserveId leaves the early calls what they were, and
   only a call at "seg" goes from there. *)
LEMMA OthersStay ==
  ASSUME IInv, Next
  PROVE  \/ \E p \in Procs : ReserveId(p)
         \/ /\ \A p \in Procs : StaysEarly(p)
            /\ \A p \in Procs : At(p, "seg")' => At(p, "seg")
            /\ token' = token
<1> USE DEF IInv
<1>1. ASSUME NEW p \in Procs, NEW r \in Ids \cup Results, Finish(p, r)
      PROVE  \A q \in Procs : StaysEarly(q) /\ (At(q, "seg")' => At(q, "seg"))
  BY <1>1, FinishStep DEF StaysEarly, Early, At
<1>2. ASSUME NEW p \in Procs, NEW l \in PCs \ {"seg", "trunc", "pub"}, Goto(p, l)
      PROVE  \A q \in Procs : StaysEarly(q) /\ (At(q, "seg")' => At(q, "seg"))
  BY <1>2, GotoStep DEF StaysEarly, Early, At
<1>11. ASSUME NEW p \in Procs, NEW l \in PCs \ {"seg", "trunc", "pub"}, NEW i \in Ids \cup {NoId},
              Hold(p, l, i)
       PROVE  \A q \in Procs : StaysEarly(q) /\ (At(q, "seg")' => At(q, "seg"))
  BY <1>11, HoldStep DEF StaysEarly, Early, At
<1>3. ASSUME NEW p \in Procs, NEW l \in {"trunc", "pub"}, Early(p), Goto(p, l)
      PROVE  \A q \in Procs : StaysEarly(q) /\ (At(q, "seg")' => At(q, "seg"))
  <2>1. l \in PCs
    BY DEF PCs
  <2> QED
    BY <1>3, <2>1, GotoStep DEF StaysEarly, Early, At
<1>4. ASSUME UNCHANGED loc
      PROVE  \A q \in Procs : StaysEarly(q) /\ (At(q, "seg")' => At(q, "seg"))
  BY <1>4 DEF StaysEarly, Early, At
<1>5. {"claim", "token", "rm_claim", "read", "open", "rm_seg", "stale", "undo", "drop", "winner",
       "winopen", "rm_keys", "idle"} \subseteq PCs \ {"seg", "trunc", "pub"}
  BY DEF PCs
<1>6. {Failed, EEXIST, ENOENT, Nothing} \subseteq Results
  BY DEF Results
<1>7. ASSUME NEW p \in Procs, Call(p)
      PROVE  /\ \A q \in Procs : StaysEarly(q) /\ (At(q, "seg")' => At(q, "seg"))
             /\ token' = token
  <2>1. token' = token /\ \A q \in Procs : q # p => loc'[q] = loc[q]
    BY <1>7 DEF Call, GetBegin, PrivateBegin, RmidBegin, Start, dirVars, TypeOK
  <2>2. loc'[p].pc \in {"claim", "token", "rm_claim"}
    BY <1>7 DEF Call, GetBegin, PrivateBegin, RmidBegin, Start, Idle, TypeOK
  <2> QED
    BY <2>1, <2>2 DEF StaysEarly, Early, At
<1>8. ASSUME NEW p \in Procs, Continue(p), ~ReserveId(p)
      PROVE  /\ \A q \in Procs : StaysEarly(q) /\ (At(q, "seg")' => At(q, "seg"))
             /\ token' = token
  <2>1. token' = token
    BY <1>8 DEF Continue, Claim, ReadKey, OpenKeyed, DropStaleKey, MakeSegment, SizeSegment,
         PublishKey, DropSegment, UndoSegment, ReadWinner, OpenWinner, RemoveSegment, RemoveKeys,
         Release, dirVars
  <2>2. \A i \in seg : i \in Ids \cup Results
    BY DEF TypeOK
  <2>3. Early(p) => loc[p].id \in Ids \cup Results
    BY DEF Early, Owned, Owning, TypeOK
  <2>4. \/ \E r \in Ids \cup Results : Finish(p, r)
        \/ \E l \in PCs \ {"seg", "trunc", "pub"} : Goto(p, l)
        \/ \E l \in PCs \ {"seg", "trunc", "pub"}, i \in Ids \cup {NoId} : Hold(p, l, i)
        \/ Early(p) /\ \E l \in {"trunc", "pub"} : Goto(p, l)
        \/ UNCHANGED loc
    <3>1. CASE Claim(p) \/ DropStaleKey(p)
      BY <3>1, <1>5, <1>6 DEF Claim, DropStaleKey
    <3>7. CASE ReadKey(p) \/ OpenKeyed(p)
      BY <3>7, <2>2, <1>5, <1>6 DEF ReadKey, OpenKeyed
    <3>2. CASE MakeSegment(p)
      BY <3>2, <1>5, <1>6 DEF MakeSegment, Early, At
    <3>3. CASE SizeSegment(p)
      BY <3>3, <2>3, <1>5, <1>6 DEF SizeSegment, Early, At
    <3>4. CASE PublishKey(p)
      BY <3>4, <2>3, <1>5, <1>6 DEF PublishKey, Early, At
    <3>5. CASE DropSegment(p) \/ UndoSegment(p) \/ ReadWinner(p) \/ OpenWinner(p)
      BY <3>5, <2>2, <1>5, <1>6 DEF DropSegment, UndoSegment, ReadWinner, OpenWinner
    <3>6. CASE RemoveSegment(p) \/ RemoveKeys(p) \/ Release(p)
      BY <3>6, <1>5, <1>6 DEF RemoveSegment, RemoveKeys, Release
    <3> QED
      BY <1>8, <3>1, <3>2, <3>3, <3>4, <3>5, <3>6, <3>7 DEF Continue
  <2> QED
    BY <2>1, <2>4, <1>1, <1>2, <1>3, <1>4, <1>11
<1>9. ASSUME NEW p \in Procs, Crash(p)
      PROVE  /\ \A q \in Procs : StaysEarly(q) /\ (At(q, "seg")' => At(q, "seg"))
             /\ token' = token
  BY <1>9 DEF Crash, Idle, dirVars, StaysEarly, Early, At, TypeOK
<1>10. ASSUME NEW k \in Keys, OfficialRmid(k) \/ \E i \in Ids : OfficialGet(k, i)
       PROVE  /\ \A q \in Procs : StaysEarly(q) /\ (At(q, "seg")' => At(q, "seg"))
              /\ token' = token
  BY <1>10, <1>4 DEF OfficialGet, OfficialRmid
<1> QED
  BY <1>7, <1>8, <1>9, <1>10 DEF Next

(* The one step that makes an early call takes an id nobody ever had. *)
LEMMA ReserveFresh ==
  ASSUME IInv, NEW p \in Procs, ReserveId(p)
  PROVE  /\ UNCHANGED <<seg, key>> /\ token \subseteq token'
         /\ \A q \in Procs : StaysEarly(q) \/ (Early(q)' /\ loc'[q].id \in Ids \ token)
<1> USE DEF IInv
<1>1. UNCHANGED <<seg, key>> /\ token \subseteq token'
  BY DEF ReserveId
<1>2. CASE Finish(p, Failed)
  <2>1. Failed \in Ids \cup Results
    BY DEF Results
  <2> QED
    BY <1>1, <1>2, <2>1, FinishStep DEF StaysEarly, Early
<1>3. ASSUME NEW i \in Ids \ token, loc' = [loc EXCEPT ![p].pc = "seg", ![p].id = i]
      PROVE  \A q \in Procs : StaysEarly(q) \/ (Early(q)' /\ loc'[q].id \in Ids \ token)
  <2>1. loc[p] \in Locals /\ loc \in [Procs -> Locals]
    BY DEF TypeOK
  <2>2. /\ loc'[p].pc = "seg" /\ loc'[p].id = i
        /\ \A q \in Procs : q # p => loc'[q] = loc[q]
    BY <1>3, <2>1 DEF Locals
  <2> QED
    BY <2>2 DEF StaysEarly, Early
<1> QED
  BY <1>1, <1>2, <1>3 DEF ReserveId

(* Where all creators reserve their ids, an id whose segment is gone never
   names a segment again. *)
THEOREM ShmNeverReborn ==
  ASSUME "official" \notin Ops
  PROVE  Spec => NeverReborn
<1>1. ASSUME IInv, [Next]_vars, NEW i \in Ids, Dead(i)
      PROVE  Dead(i)'
  <2>1. CASE UNCHANGED vars
    BY <1>1, <2>1 DEF vars, dirVars, Dead, At
  <2>2. ASSUME NEW p \in Procs, ReserveId(p)
        PROVE  Dead(i)'
    BY <1>1, <2>2, ReserveFresh DEF Dead, StaysEarly, Early, At, ReserveId, Finish, IInv, TypeOK
  <2>3. CASE Next /\ ~\E p \in Procs : ReserveId(p)
    <3>1. /\ \A p \in Procs : StaysEarly(p)
          /\ \A p \in Procs : At(p, "seg")' => At(p, "seg")
          /\ token' = token
      BY <1>1, <2>3, OthersStay
    <3>2. \A p \in Procs : ~(At(p, "seg") /\ loc[p].id = i)'
      BY <1>1, <3>1 DEF Dead, StaysEarly, Early, At
    <3>3. i \notin seg'
      <4>1. ASSUME NEW p \in Procs, Continue(p)
            PROVE  i \notin seg'
        BY <1>1, <4>1, <2>3 DEF Dead, At, Continue, Claim, ReadKey, OpenKeyed, DropStaleKey, MakeSegment,
             SizeSegment, PublishKey, DropSegment, UndoSegment, UnlinkOwn, ReadWinner, OpenWinner,
             RemoveSegment, RemoveKeys, Release, dirVars
      <4>2. ASSUME NEW p \in Procs, Call(p) \/ Crash(p)
            PROVE  i \notin seg'
        BY <1>1, <4>2 DEF Dead, Call, GetBegin, PrivateBegin, RmidBegin, Crash, dirVars
      <4> QED
        BY <2>3, <4>1, <4>2 DEF Next, OfficialGet, OfficialRmid
    <3> QED
      BY <1>1, <3>1, <3>2, <3>3 DEF Dead
  <2> QED
    BY <1>1, <2>1, <2>2, <2>3
<1>2. IInv /\ [Next]_vars => [\A i \in Ids : Dead(i) => Dead(i)']_vars
  BY <1>1
<1> QED
  BY InitIInv, StepIInv, <1>2, PTL DEF Spec, NeverReborn

(* With every segment made under a reservation, a published id is reserved,
   and it is not the id of a call that has still to publish its own. *)
KeysInv ==
  /\ \A k \in Keys : key[k] # NoId => key[k] \in token
  /\ \A k \in Keys, p \in Procs : Early(p) => key[k] # loc[p].id
  /\ OneKeyPerId

LEMMA InitKeysInv == Init => KeysInv
  BY ShmAssumption DEF Init, KeysInv, Early, Idle, OneKeyPerId

LEMMA StepKeysInv ==
  ASSUME "official" \notin Ops, IInv, KeysInv, [Next]_vars
  PROVE  KeysInv'
<1> USE DEF IInv
<1>1. CASE UNCHANGED vars
  BY <1>1 DEF vars, dirVars, KeysInv, Early, OneKeyPerId
<1>2. ASSUME NEW p \in Procs, ReserveId(p)
      PROVE  KeysInv'
  <2>1. key' = key /\ token \subseteq token'
    BY <1>2, ReserveFresh
  <2>2. ASSUME NEW k \in Keys, NEW q \in Procs, Early(q)'
        PROVE  key[k] # loc'[q].id
    <3>1. CASE Early(q) /\ loc'[q].id = loc[q].id
      BY <3>1 DEF KeysInv
    <3>2. CASE loc'[q].id \in Ids \ token
      BY <3>2, ShmAssumption DEF KeysInv
    <3> QED
      BY <1>2, <2>2, <3>1, <3>2, ReserveFresh DEF StaysEarly
  <2> QED
    BY <2>1, <2>2 DEF KeysInv, OneKeyPerId, Early
<1>3. CASE Next /\ ~\E p \in Procs : ReserveId(p)
  <2>1. (\A p \in Procs : StaysEarly(p)) /\ token' = token
    BY <1>3, OthersStay
  <2>2. \A p \in Procs : Early(p) => loc[p].id \in token /\ loc[p].id # NoId
    BY ShmAssumption DEF Early, Owned, Owning, TypeOK
  <2>3. CASE \A k \in Keys : key'[k] \in {key[k], NoId}
    BY <2>1, <2>2, <2>3 DEF KeysInv, StaysEarly, OneKeyPerId
  <2>4. ASSUME NEW p \in Procs, At(p, "pub"), key' = [key EXCEPT ![loc[p].key] = loc[p].id],
               Finish(p, loc[p].id)
        PROVE  KeysInv'
    <3>1. loc[p].id \in token /\ Early(p) /\ Owning(p)
      BY <2>4 DEF At, Early, Owned, Owning
    <3>2. loc[p].id \in Ids \cup Results
      BY <3>1 DEF TypeOK
    <3>3. loc'[p].pc \in {"rel", "idle"} /\ \A q \in Procs : q # p => loc'[q] = loc[q]
      BY <2>4, <3>2, FinishStep
    <3>4. ASSUME NEW k \in Keys
          PROVE  key'[k] = key[k] \/ (k = loc[p].key /\ key'[k] = loc[p].id)
      BY <2>4 DEF TypeOK
    <3>5. \A q \in Procs : Early(q)' => q # p /\ Early(q) /\ loc'[q].id = loc[q].id
                                        /\ loc[q].id # loc[p].id
      BY <3>1, <3>3 DEF Early, Owned, Owning
    <3>6. \A k \in Keys : key'[k] # NoId => key'[k] \in token'
      BY <2>1, <3>1, <3>4 DEF KeysInv
    <3>7. \A k \in Keys, q \in Procs : Early(q)' => key'[k] # loc'[q].id
      BY <3>4, <3>5 DEF KeysInv
    <3>8. OneKeyPerId'
      BY <3>1, <3>4 DEF KeysInv, OneKeyPerId
    <3> QED
      BY <3>6, <3>7, <3>8 DEF KeysInv, Early
  <2>5. \/ \A k \in Keys : key'[k] \in {key[k], NoId}
        \/ \E p \in Procs : /\ At(p, "pub") /\ Finish(p, loc[p].id)
                            /\ key' = [key EXCEPT ![loc[p].key] = loc[p].id]
    <3>1. ASSUME NEW p \in Procs, Call(p) \/ Crash(p)
          PROVE  \A k \in Keys : key'[k] \in {key[k], NoId}
      BY <3>1 DEF Call, GetBegin, PrivateBegin, RmidBegin, Crash, dirVars
    <3>2. ASSUME NEW p \in Procs, Continue(p), ~PublishKey(p)
          PROVE  \A k \in Keys : key'[k] \in {key[k], NoId}
      BY <1>3, <3>2 DEF Continue, Claim, ReadKey, OpenKeyed, DropStaleKey, MakeSegment, SizeSegment,
         DropSegment, UndoSegment, ReadWinner, OpenWinner, RemoveSegment, RemoveKeys, Release,
         dirVars, TypeOK
    <3>3. ASSUME NEW p \in Procs, PublishKey(p)
          PROVE  \/ \A k \in Keys : key'[k] \in {key[k], NoId}
                 \/ /\ At(p, "pub") /\ Finish(p, loc[p].id)
                    /\ key' = [key EXCEPT ![loc[p].key] = loc[p].id]
      BY <3>3 DEF PublishKey
    <3> QED
      BY <1>3, <3>1, <3>2, <3>3 DEF Next, OfficialGet, OfficialRmid
  <2> QED
    BY <2>3, <2>4, <2>5
<1> QED
  BY <1>1, <1>2, <1>3

(* Where all creators reserve their ids, no two keys ever name one segment:
   IPC_RMID of a segment never takes one that another key stands for. *)
THEOREM ShmOneKeyPerId ==
  ASSUME "official" \notin Ops
  PROVE  Spec => []OneKeyPerId
<1>1. Init => IInv /\ KeysInv
  BY InitIInv, InitKeysInv
<1>2. (IInv /\ KeysInv) /\ [Next]_vars => (IInv /\ KeysInv)'
  BY StepIInv, StepKeysInv
<1>3. IInv /\ KeysInv => OneKeyPerId
  BY DEF KeysInv
<1> QED
  BY <1>1, <1>2, <1>3, PTL DEF Spec

(* One call at a time is at the keys and no two keys name one segment, where
   all creators reserve their ids. *)
THEOREM ShmIdsSound ==
  ASSUME "official" \notin Ops
  PROVE  Spec => []IdsSound
<1>1. TypeOK /\ ClaimExclusive /\ OneKeyPerId => IdsSound
  BY DEF IdsSound
<1> QED
  BY ShmTypeOK, ShmClaimExclusive, ShmOneKeyPerId, <1>1, PTL

-----------------------------------------------------------------------------
(* What a call knows at each of its points. *)

LEMMA FinishIs ==
  ASSUME TypeOK, NEW p \in Procs, NEW r \in Ids \cup Results, Finish(p, r)
  PROVE  /\ loc' \in [Procs -> Locals]
         /\ loc'[p].pc \in Ended /\ loc'[p].res = r
         /\ \A q \in Procs : q # p => loc'[q] = loc[q]
<1>1. loc'[p].res = r
  BY DEF Finish, TypeOK, Idle
<1> QED BY <1>1, FinishStep DEF Ended

LEMMA GotoIs ==
  ASSUME TypeOK, NEW p \in Procs, NEW l \in PCs, Goto(p, l)
  PROVE  /\ loc' \in [Procs -> Locals]
         /\ loc'[p].pc = l /\ loc'[p].id = loc[p].id /\ loc'[p].key = loc[p].key
         /\ loc'[p].res = loc[p].res
         /\ \A q \in Procs : q # p => loc'[q] = loc[q]
<1>1. loc[p] \in Locals
  BY DEF TypeOK
<1>2. loc'[p].res = loc[p].res
  BY <1>1 DEF Goto, TypeOK, Locals
<1> QED BY <1>2, GotoStep

LEMMA StartIs ==
  ASSUME TypeOK, NEW p \in Procs, NEW l \in PCs, NEW k \in Keys \cup {NoKey},
         NEW creat \in BOOLEAN, NEW excl \in BOOLEAN, NEW i \in Ids \cup {NoId},
         Start(p, l, k, creat, excl, i)
  PROVE  /\ loc' \in [Procs -> Locals]
         /\ loc'[p].pc = l /\ loc'[p].key = k /\ loc'[p].res = Nothing
         /\ \A q \in Procs : q # p => loc'[q] = loc[q]
<1>1. loc'[p].res = Nothing
  BY DEF Start, TypeOK, Idle
<1> QED BY <1>1, StartStep

(* Before the end there is no result.  The id a call has read from a key is still
   the one in it.  The key of a call that is to make a segment is free, and its segment is there until it is published; what a call
   takes away, a stale key or the keys of a segment, leads nowhere, and the
   segment it gives up has no key. *)
Place(p) ==
  LET l == loc[p]
  IN
  /\ l.pc \notin {"undo", "winner", "winopen"}
  /\ l.pc \notin Ended => l.res = Nothing
  /\ l.pc \in {"claim", "read", "open", "stale", "pub"} => l.key \in Keys
  /\ l.pc \in {"token", "seg", "trunc", "pub"} /\ l.key # NoKey => key[l.key] = NoId
  /\ l.pc \in {"trunc", "pub"} /\ l.key # NoKey => l.id \in seg
  /\ l.pc = "open" => key[l.key] = l.id
  /\ l.pc = "stale" => key[l.key] \notin seg
  /\ l.pc = "drop" => \A k \in Keys : key[k] # l.id
  /\ l.pc = "rm_keys" => l.id \notin seg \/ \A k \in Keys : key[k] # l.id

Places == \A p \in Procs : Place(p)

(* A step of p that touches keys only with the claim in hand, and of segments
   without it only its own, leaves the others what they know. *)
LEMMA OthersPlace ==
  ASSUME IInv, KeysInv, Places, NEW p \in Procs,
         \A q \in Procs : q # p => loc'[q] = loc[q],
         \A k \in Keys : \/ key'[k] = key[k]
                         \/ Claimed(p) /\ key'[k] = NoId
                         \/ Claimed(p) /\ Owning(p) /\ key'[k] = loc[p].id,
         \A i \in seg : i \in seg' \/ Claimed(p) \/ (Owning(p) /\ i = loc[p].id),
         \A i \in seg' : i \in seg \/ (Early(p) /\ i = loc[p].id)
  PROVE  \A q \in Procs : q # p => Place(q)'
<1> SUFFICES ASSUME NEW q \in Procs, q # p PROVE Place(q)'
  OBVIOUS
<1>1. loc'[q] = loc[q] /\ Place(q)
  BY DEF Places
<1>2. /\ Claimed(q) => ~Claimed(p)
      /\ Owning(p) /\ Owning(q) => loc[p].id # loc[q].id
      /\ Owning(q) => loc[q].id # NoId
  BY ShmAssumption DEF IInv, ClaimHeld, Owned, TypeOK
<1>3. \A k \in Keys : key[k] \notin seg => key[k] \notin seg'
  BY DEF KeysInv
<1>4. CASE Claimed(q)
  <2>1. \A k \in Keys : key'[k] = key[k]
    BY <1>2, <1>4
  <2>2. loc[q].pc \in {"open", "stale", "pub", "claim", "read"} => loc[q].key \in Keys
    BY <1>1 DEF Place
  <2>3. loc[q].pc \in {"token", "seg", "trunc", "pub"} /\ loc[q].key # NoKey => loc[q].key \in Keys
    BY DEF IInv, TypeOK, Locals
  <2>4. loc[q].pc \in {"trunc", "pub"} /\ loc[q].key # NoKey => loc[q].id \in seg'
    BY <1>1, <1>2, <1>4 DEF Place, Owning
  <2>5. loc[q].pc = "rm_keys" => loc[q].id \notin seg' \/ \A k \in Keys : key'[k] # loc[q].id
    BY <1>1, <1>3, <2>1 DEF Place
  <2> QED BY <1>1, <1>3, <2>1, <2>2, <2>3, <2>4, <2>5 DEF Place
<1>5. CASE ~Claimed(q)
  <2>1. /\ loc[q].pc \notin {"read", "open", "stale", "pub", "rm_keys"}
        /\ loc[q].pc \in {"token", "seg", "trunc", "drop"} => loc[q].key = NoKey
    BY <1>5 DEF Claimed
  <2>2. loc[q].pc = "drop" => \A k \in Keys : key'[k] # loc[q].id
    BY <1>1, <1>2 DEF Place, Owning
  <2> QED BY <1>1, <2>1, <2>2 DEF Place
<1> QED BY <1>4, <1>5

LEMMA EndedPlace ==
  ASSUME NEW p \in Procs, loc'[p].pc \in Ended PROVE Place(p)'
BY DEF Place, Ended

LEMMA QuietPlaces ==
  ASSUME IInv, KeysInv, Places, NEW p \in Procs, key' = key, seg' = seg,
         \A q \in Procs : q # p => loc'[q] = loc[q],
         Place(p)'
  PROVE  Places'
BY OthersPlace DEF Places

LEMMA ResultsKnown ==
  /\ {Nothing, Failed, EEXIST, ENOENT} \subseteq Ids \cup Results
  /\ {"claim", "read", "open", "stale", "token", "seg", "trunc", "pub", "drop", "rm_claim", "rm_seg",
      "rm_keys", "rel", "idle"} \subseteq PCs
BY DEF Results, PCs

LEMMA BeginPlaces ==
  ASSUME IInv, KeysInv, Places, NEW p \in Procs, Call(p)
  PROVE  Places' /\ loc'[p].res = Nothing /\ loc'[p].pc \in {"claim", "token", "rm_claim"}
<1> USE DEF IInv
<1>1. ASSUME NEW k \in Keys, NEW creat \in BOOLEAN, NEW excl \in BOOLEAN,
             GetBegin(p, k, creat, excl)
      PROVE  loc'[p].res = Nothing /\ loc'[p].pc = "claim" /\ Places'
  <2>1. Start(p, "claim", k, creat, excl, NoId) /\ key' = key /\ seg' = seg
    BY <1>1 DEF GetBegin, dirVars
  <2>2. /\ loc'[p].pc = "claim" /\ loc'[p].key = k /\ loc'[p].res = Nothing
        /\ \A q \in Procs : q # p => loc'[q] = loc[q]
    BY <2>1, StartIs, ResultsKnown
  <2>3. Place(p)'
    BY <2>2 DEF Place, Ended
  <2> QED BY <2>1, <2>2, <2>3, QuietPlaces
<1>2. CASE PrivateBegin(p)
  <2>1. Start(p, "token", NoKey, TRUE, FALSE, NoId) /\ key' = key /\ seg' = seg
    BY <1>2 DEF PrivateBegin, dirVars
  <2>2. /\ loc'[p].pc = "token" /\ loc'[p].key = NoKey /\ loc'[p].res = Nothing
        /\ \A q \in Procs : q # p => loc'[q] = loc[q]
    BY <2>1, StartIs, ResultsKnown
  <2>3. Place(p)'
    BY <2>2 DEF Place, Ended
  <2> QED BY <2>1, <2>2, <2>3, QuietPlaces
<1>3. ASSUME NEW i \in Ids, RmidBegin(p, i)
      PROVE  loc'[p].res = Nothing /\ loc'[p].pc = "rm_claim" /\ Places'
  <2>1. Start(p, "rm_claim", NoKey, FALSE, FALSE, i) /\ key' = key /\ seg' = seg
    BY <1>3 DEF RmidBegin, dirVars
  <2>2. /\ loc'[p].pc = "rm_claim" /\ loc'[p].res = Nothing
        /\ \A q \in Procs : q # p => loc'[q] = loc[q]
    BY <2>1, StartIs, ResultsKnown
  <2>3. Place(p)'
    BY <2>2 DEF Place, Ended
  <2> QED BY <2>1, <2>2, <2>3, QuietPlaces
<1> QED BY <1>1, <1>2, <1>3 DEF Call

LEMMA CrashIs ==
  ASSUME IInv, NEW p \in Procs, Crash(p)
  PROVE  /\ loc'[p] = Idle /\ UNCHANGED dirVars /\ crashes' > 0
         /\ \A q \in Procs : q # p => loc'[q] = loc[q]
BY DEF Crash, IInv, TypeOK

(* Taking the claim and reading the key. *)
LEMMA ReadPlaces ==
  ASSUME IInv, KeysInv, Places, NEW p \in Procs,
         Claim(p) \/ ReadKey(p) \/ OpenKeyed(p) \/ DropStaleKey(p) \/ ReserveId(p)
  PROVE  Places'
<1> USE DEF IInv
<1>1. Place(p) /\ loc[p] \in Locals
  BY DEF Places, TypeOK
<1>2. CASE \E r \in Ids \cup Results : Finish(p, r) /\ key' = key /\ seg' = seg
  BY <1>2, FinishIs, EndedPlace, QuietPlaces
<1>3. CASE Claim(p) /\ ~\E r \in Ids \cup Results : Finish(p, r)
  <2>1. \E l \in {"read", "rm_seg"} : Goto(p, l) /\ (l = "read" => At(p, "claim"))
    BY <1>3, ResultsKnown DEF Claim
  <2>2. key' = key /\ seg' = seg
    BY <1>3 DEF Claim, dirVars
  <2>3. /\ loc'[p].res = loc[p].res /\ loc'[p].key = loc[p].key
        /\ loc'[p].pc = "rm_seg" \/ (loc'[p].pc = "read" /\ At(p, "claim"))
        /\ \A q \in Procs : q # p => loc'[q] = loc[q]
    BY <2>1, GotoIs, ResultsKnown
  <2>4. loc[p].pc \in {"claim", "rm_claim"}
    BY <1>3 DEF Claim
  <2>5. Place(p)'
    BY <1>1, <2>3, <2>4 DEF Place, At, Ended
  <2> QED BY <2>2, <2>3, <2>5, QuietPlaces
<1>4. CASE ReadKey(p) /\ ~\E r \in Ids \cup Results : Finish(p, r)
  <2>1. /\ At(p, "read") /\ key' = key /\ seg' = seg
        /\ \/ key[loc[p].key] \in Ids /\ Hold(p, "open", key[loc[p].key])
           \/ key[loc[p].key] = NoId /\ Goto(p, "token")
    BY <1>4, ResultsKnown DEF ReadKey, dirVars
  <2>2. /\ loc'[p].res = loc[p].res /\ loc'[p].key = loc[p].key
        /\ \/ loc'[p].pc = "open" /\ loc'[p].id = key[loc[p].key]
           \/ loc'[p].pc = "token" /\ key[loc[p].key] = NoId
        /\ \A q \in Procs : q # p => loc'[q] = loc[q]
    BY <2>1, GotoIs, HoldStep, ResultsKnown
  <2>3. Place(p)'
    BY <1>1, <2>1, <2>2 DEF Place, At, Ended
  <2> QED BY <2>1, <2>2, <2>3, QuietPlaces
<1>10. CASE OpenKeyed(p) /\ ~\E r \in Ids \cup Results : Finish(p, r)
  <2>1. At(p, "open") /\ key' = key /\ seg' = seg /\ loc[p].id \notin seg /\ Hold(p, "stale", NoId)
    <3>1. loc[p].id \in seg => loc[p].id \in Ids \cup Results
      BY DEF TypeOK
    <3> QED BY <1>10, <3>1, ResultsKnown DEF OpenKeyed, dirVars
  <2>2. /\ loc'[p].res = loc[p].res /\ loc'[p].key = loc[p].key /\ loc'[p].pc = "stale"
        /\ \A q \in Procs : q # p => loc'[q] = loc[q]
    BY <2>1, HoldStep, ResultsKnown
  <2>3. Place(p)'
    BY <1>1, <2>1, <2>2 DEF Place, At, Ended
  <2> QED BY <2>1, <2>2, <2>3, QuietPlaces
<1>5. CASE DropStaleKey(p) /\ key' # key
  <2>1. /\ At(p, "stale") /\ seg' = seg /\ key' = [key EXCEPT ![loc[p].key] = NoId]
        /\ (\E r \in Ids \cup Results : Finish(p, r)) \/ Goto(p, "token")
    BY <1>5, ResultsKnown DEF DropStaleKey
  <2>2. /\ loc[p].key \in Keys /\ loc[p].res = Nothing /\ Claimed(p)
    BY <1>1, <2>1 DEF Place, At, Ended, Claimed
  <2>3. /\ \A q \in Procs : q # p => loc'[q] = loc[q]
        /\ \/ loc'[p].pc \in Ended
           \/ loc'[p].pc = "token" /\ loc'[p].res = loc[p].res /\ loc'[p].key = loc[p].key
    BY <2>1, FinishIs, GotoIs, ResultsKnown
  <2>4. \A k \in Keys : key'[k] = key[k] \/ key'[k] = NoId
    BY <2>1 DEF TypeOK
  <2>5. key'[loc[p].key] = NoId
    BY <2>1, <2>2 DEF TypeOK
  <2>6. Place(p)'
    BY <2>2, <2>3, <2>5, EndedPlace DEF Place, Ended
  <2> QED BY <2>1, <2>2, <2>3, <2>4, <2>6, OthersPlace DEF Places
<1>6. ASSUME NEW i \in Ids, loc' = [loc EXCEPT ![p].pc = "seg", ![p].id = i], ReserveId(p)
      PROVE  Places'
  <2>1. /\ loc'[p].pc = "seg" /\ loc'[p].key = loc[p].key /\ loc'[p].res = loc[p].res
        /\ \A q \in Procs : q # p => loc'[q] = loc[q]
    BY <1>1, <1>6 DEF TypeOK, Locals
  <2>2. At(p, "token") /\ key' = key /\ seg' = seg
    BY <1>6 DEF ReserveId
  <2>3. Place(p)'
    BY <1>1, <2>1, <2>2 DEF Place, At, Ended
  <2> QED BY <2>1, <2>2, <2>3, QuietPlaces
<1>7. ASSUME Claim(p) \/ ReadKey(p) \/ OpenKeyed(p) PROVE key' = key /\ seg' = seg
  BY <1>7 DEF Claim, ReadKey, OpenKeyed, dirVars
<1>8. CASE DropStaleKey(p) /\ key' = key
  <2>1. Finish(p, Failed) \/ Finish(p, ENOENT) \/ Goto(p, "token")
    BY <1>8 DEF DropStaleKey
  <2>2. Finish(p, Failed) \/ key[loc[p].key] = NoId
    BY <1>1, <1>8 DEF DropStaleKey, TypeOK, Place, At
  <2>3. CASE Goto(p, "token") /\ key[loc[p].key] = NoId
    <3>1. Place(p)' /\ \A q \in Procs : q # p => loc'[q] = loc[q]
      BY <1>1, <1>8, <2>3, GotoIs, ResultsKnown DEF Place, At, DropStaleKey, Ended
    <3> QED BY <1>8, <3>1, QuietPlaces DEF DropStaleKey
  <2> QED BY <1>2, <1>8, <2>1, <2>2, <2>3, ResultsKnown DEF DropStaleKey
<1>9. CASE ReserveId(p) /\ Finish(p, Failed)
  BY <1>2, <1>9, ResultsKnown DEF ReserveId
<1> QED BY <1>2, <1>3, <1>4, <1>5, <1>6, <1>7, <1>8, <1>9, <1>10 DEF ReserveId

(* Making, publishing and giving up a segment. *)
LEMMA MakePlaces ==
  ASSUME IInv, KeysInv, Places, NEW p \in Procs,
         MakeSegment(p) \/ SizeSegment(p) \/ PublishKey(p) \/ DropSegment(p)
  PROVE  Places'
<1> USE DEF IInv
<1>1. Place(p) /\ loc[p] \in Locals
  BY DEF Places, TypeOK
<1>2. CASE (\E r \in Ids \cup Results : Finish(p, r)) /\ key' = key /\ seg' = seg
  BY <1>2, FinishIs, EndedPlace, QuietPlaces
<1>3. ASSUME Early(p) PROVE loc[p].id \in Ids /\ \A k \in Keys : key[k] # loc[p].id
  BY <1>3 DEF KeysInv, Owned, Owning, Early, TypeOK
<1>4. ASSUME NEW l \in {"token", "trunc", "pub", "drop"}, Goto(p, l)
      PROVE  /\ loc'[p].pc = l /\ loc'[p].id = loc[p].id /\ loc'[p].key = loc[p].key
             /\ loc'[p].res = loc[p].res
             /\ \A q \in Procs : q # p => loc'[q] = loc[q]
  BY <1>4, GotoIs, ResultsKnown
<1>5. CASE MakeSegment(p)
  <2>1. At(p, "seg") /\ Early(p) /\ key' = key
    BY <1>5 DEF MakeSegment, At, Early
  <2>2. CASE seg' = seg \cup {loc[p].id} /\ Goto(p, "trunc")
    <3>1. Place(p)'
      BY <1>1, <1>4, <2>1, <2>2 DEF Place, At, Ended
    <3> QED BY <1>4, <2>1, <2>2, <3>1, OthersPlace DEF Places
  <2>3. CASE seg' = seg /\ Goto(p, "token")
    <3>1. Place(p)'
      BY <1>1, <1>4, <2>1, <2>3 DEF Place, At, Ended
    <3> QED BY <1>4, <2>1, <2>3, <3>1, QuietPlaces
  <2> QED BY <1>2, <1>5, <2>1, <2>2, <2>3, ResultsKnown DEF MakeSegment
<1>6. CASE SizeSegment(p)
  <2>1. At(p, "trunc") /\ Early(p) /\ key' = key /\ seg' = seg
    BY <1>6 DEF SizeSegment, At, Early, dirVars
  <2>2. CASE Goto(p, "pub") /\ loc[p].key # NoKey
    <3>1. Place(p)'
      BY <1>1, <1>4, <2>1, <2>2 DEF Place, At, Ended, Locals
    <3> QED BY <1>4, <2>1, <2>2, <3>1, QuietPlaces
  <2>3. CASE Goto(p, "drop")
    <3>1. Place(p)'
      BY <1>1, <1>3, <1>4, <2>1, <2>3 DEF Place, At, Ended
    <3> QED BY <1>4, <2>1, <2>3, <3>1, QuietPlaces
  <2> QED BY <1>2, <1>3, <1>6, <2>1, <2>2, <2>3, ResultsKnown DEF SizeSegment
<1>7. CASE PublishKey(p)
  <2>1. /\ At(p, "pub") /\ Early(p) /\ Owning(p) /\ Claimed(p) /\ seg' = seg
        /\ loc[p].key \in Keys /\ key[loc[p].key] = NoId
    BY <1>1, <1>7, ShmAssumption DEF PublishKey, At, Early, Owning, Claimed, Place
  <2>2. CASE key' = [key EXCEPT ![loc[p].key] = loc[p].id] /\ Finish(p, loc[p].id)
    <3>1. \A k \in Keys : key'[k] = key[k] \/ key'[k] = loc[p].id
      BY <2>2 DEF TypeOK
    <3>2. Place(p)' /\ \A q \in Procs : q # p => loc'[q] = loc[q]
      BY <1>3, <2>1, <2>2, FinishIs, EndedPlace
    <3> QED BY <2>1, <3>1, <3>2, OthersPlace DEF Places
  <2>3. CASE key' = key /\ Goto(p, "drop")
    <3>1. Place(p)'
      BY <1>1, <1>3, <1>4, <2>1, <2>3 DEF Place, At, Ended
    <3> QED BY <1>4, <2>1, <2>3, <3>1, QuietPlaces
  <2> QED BY <1>7, <2>1, <2>2, <2>3 DEF PublishKey
<1>8. CASE DropSegment(p)
  <2>1. /\ Owning(p) /\ key' = key /\ Finish(p, Failed)
        /\ seg' = seg \ {loc[p].id} \/ seg' = seg
    BY <1>8 DEF DropSegment, UnlinkOwn, At, Owning
  <2>2. Place(p)' /\ \A q \in Procs : q # p => loc'[q] = loc[q]
    BY <2>1, FinishIs, ResultsKnown, EndedPlace
  <2> QED BY <2>1, <2>2, OthersPlace DEF Places
<1> QED BY <1>5, <1>6, <1>7, <1>8

LEMMA EndPlaces ==
  ASSUME IInv, KeysInv, Places, NEW p \in Procs,
         RemoveSegment(p) \/ RemoveKeys(p) \/ Release(p)
  PROVE  Places'
<1> USE DEF IInv
<1>1. Place(p) /\ loc[p] \in Locals
  BY DEF Places, TypeOK
<1>2. CASE (\E r \in Ids \cup Results : Finish(p, r)) /\ key' = key /\ seg' = seg
  BY <1>2, FinishIs, EndedPlace, QuietPlaces
<1>3. CASE RemoveSegment(p) /\ ~Finish(p, Failed)
  <2>1. /\ At(p, "rm_seg") /\ Claimed(p) /\ key' = key /\ Goto(p, "rm_keys")
        /\ seg' = seg \ {loc[p].id}
    BY <1>3 DEF RemoveSegment, At, Claimed
  <2>2. /\ loc'[p].pc = "rm_keys" /\ loc'[p].id = loc[p].id /\ loc'[p].res = loc[p].res
        /\ \A q \in Procs : q # p => loc'[q] = loc[q]
    BY <2>1, GotoIs, ResultsKnown
  <2>3. Place(p)'
    BY <1>1, <2>1, <2>2 DEF Place, At, Ended
  <2> QED BY <2>1, <2>2, <2>3, OthersPlace DEF Places
<1>4. ASSUME NEW k \in Keys, RemoveKeys(p), key[k] = loc[p].id,
             key' = [key EXCEPT ![k] = NoId], loc' = loc
      PROVE  Places'
  <2>1. At(p, "rm_keys") /\ Claimed(p) /\ seg' = seg
    BY <1>4 DEF RemoveKeys, At, Claimed
  <2>2. \A j \in Keys : key'[j] = key[j] \/ key'[j] = NoId
    BY <1>4 DEF TypeOK
  <2>3. Place(p)'
    BY <1>1, <1>4, <2>1 DEF Place, At, Ended
  <2> QED BY <1>4, <2>1, <2>2, <2>3, OthersPlace DEF Places
<1>5. CASE Release(p)
  <2>1. Goto(p, "idle") /\ key' = key /\ seg' = seg
    BY <1>5 DEF Release, dirVars
  <2>2. loc'[p].pc \in Ended /\ \A q \in Procs : q # p => loc'[q] = loc[q]
    BY <2>1, GotoIs, ResultsKnown DEF Ended
  <2> QED BY <2>1, <2>2, EndedPlace, QuietPlaces
<1>6. CASE RemoveKeys(p)
  <2>1. \/ \E k \in Keys : key[k] = loc[p].id /\ key' = [key EXCEPT ![k] = NoId] /\ loc' = loc
        \/ (Finish(p, Nothing) \/ Finish(p, Failed)) /\ key' = key /\ seg' = seg
    BY <1>6 DEF RemoveKeys
  <2> QED BY <1>2, <1>4, <1>6, <2>1, ResultsKnown
<1>7. CASE RemoveSegment(p) /\ Finish(p, Failed)
  <2>1. seg' = seg /\ key' = key
    BY <1>7, GotoIs, FinishIs, ResultsKnown DEF RemoveSegment, Ended
  <2> QED BY <1>2, <1>7, <2>1, ResultsKnown
<1> QED BY <1>3, <1>5, <1>6, <1>7

LEMMA StepPlaces ==
  ASSUME "official" \notin Ops, IInv, KeysInv, Places, [Next]_vars
  PROVE  Places'
<1>1. CASE UNCHANGED vars
  BY <1>1 DEF vars, dirVars, Places, Place
<1>2. ASSUME NEW p \in Procs, Continue(p)
      PROVE  Places'
  <2>1. ~UndoSegment(p) /\ ~ReadWinner(p) /\ ~OpenWinner(p)
    BY DEF Places, Place, UndoSegment, ReadWinner, OpenWinner, At
  <2> QED BY <1>2, <2>1, ReadPlaces, MakePlaces, EndPlaces DEF Continue
<1>3. ASSUME NEW p \in Procs, Crash(p)
      PROVE  Places'
  <2>1. loc'[p].pc \in Ended
    BY <1>3, CrashIs DEF Idle, Ended
  <2> QED BY <1>3, <2>1, CrashIs, EndedPlace, QuietPlaces DEF dirVars
<1> QED BY <1>1, <1>2, <1>3, BeginPlaces DEF Next, OfficialGet, OfficialRmid

(* All three together, which the theorems below start from. *)
PInv == IInv /\ KeysInv /\ Places

LEMMA ShmPInv ==
  ASSUME "official" \notin Ops
  PROVE  Spec => []PInv
<1>1. Init => PInv
  <2>1. Init => Places
    BY DEF Init, Places, Place, Idle, Ended
  <2> QED BY <2>1, InitIInv, InitKeysInv DEF PInv
<1>2. PInv /\ [Next]_vars => PInv'
  BY StepIInv, StepKeysInv, StepPlaces DEF PInv
<1> QED BY <1>1, <1>2, PTL DEF Spec

-----------------------------------------------------------------------------
(* Every segment has somebody or a key that leads to it. *)

Making(p) == loc[p].pc \in {"trunc", "pub", "drop"}

(* Where no segment is private, whoever makes one has a key for it, and gives
   it up only after a call that was refused. *)
Keyed(p) ==
  /\ loc[p].pc \in {"token", "seg", "trunc", "pub", "drop"} => loc[p].key # NoKey
  /\ loc[p].pc = "drop" => faults > 0

Led ==
  crashes = 0 =>
    \A i \in seg : \/ \E k \in Keys : key[k] = i
                   \/ \E p \in Procs : Making(p) /\ loc[p].id = i

LInv == (\A p \in Procs : Keyed(p)) /\ Led

FaultsGrow == faults' = faults \/ faults' = faults + 1

(* A step of p that takes no key from a segment that stays, and leaves the one
   it was making only with a key or without the file. *)
LEMMA KeepsLed ==
  ASSUME IInv, LInv, NEW p \in Procs, crashes' = crashes, FaultsGrow,
         \A q \in Procs : q # p => loc'[q] = loc[q],
         Keyed(p)',
         \A i \in seg' : i \in seg \/ (Making(p)' /\ loc'[p].id = i),
         \A k \in Keys : key'[k] = key[k] \/ key[k] \notin seg',
         Making(p) /\ loc[p].id \in seg' =>
            \/ Making(p)' /\ loc'[p].id = loc[p].id
            \/ \E k \in Keys : key'[k] = loc[p].id
  PROVE  LInv'
<1>1. ASSUME NEW q \in Procs PROVE Keyed(q)'
  <2>1. CASE q # p
    <3>1. Keyed(q) /\ loc'[q] = loc[q] /\ faults \in Nat
      BY <2>1, ShmAssumption DEF LInv, IInv, TypeOK
    <3> QED BY <3>1 DEF Keyed, FaultsGrow
  <2> QED BY <2>1
<1>2. ASSUME crashes = 0, NEW i \in seg'
      PROVE  \/ \E k \in Keys : key'[k] = i
             \/ \E q \in Procs : Making(q)' /\ loc'[q].id = i
  <2>1. CASE i \notin seg
    BY <2>1
  <2>2. CASE \E k \in Keys : key[k] = i
    BY <1>2, <2>2
  <2>3. ASSUME NEW q \in Procs, Making(q), loc[q].id = i
        PROVE  \/ \E k \in Keys : key'[k] = i
               \/ \E r \in Procs : Making(r)' /\ loc'[r].id = i
    <3>1. CASE q = p
      BY <1>2, <2>3, <3>1
    <3>2. CASE q # p
      BY <2>3, <3>2 DEF Making
    <3> QED BY <3>1, <3>2
  <2> QED BY <1>2, <2>1, <2>2, <2>3 DEF LInv, Led
<1>3. Led'
  BY <1>2 DEF Led, Making
<1> QED BY <1>1, <1>3 DEF LInv

LEMMA EndKeyed ==
  ASSUME NEW p \in Procs, loc'[p].pc \in Ended PROVE Keyed(p)' /\ ~Making(p)'
BY DEF Keyed, Making, Ended

(* A step that changes no file. *)
LEMMA QuietLed ==
  ASSUME IInv, LInv, NEW p \in Procs, crashes' = crashes, FaultsGrow,
         key' = key, seg' = seg,
         \A q \in Procs : q # p => loc'[q] = loc[q],
         Keyed(p)', Making(p) => Making(p)' /\ loc'[p].id = loc[p].id
  PROVE  LInv'
BY KeepsLed

LEMMA FaultsGrowIs ==
  /\ Refused => FaultsGrow
  /\ faults' = faults => FaultsGrow
BY DEF Refused, FaultsGrow

(* Reading the key and reserving an id. *)
LEMMA ReadLed ==
  ASSUME PInv, LInv, NEW p \in Procs,
         Claim(p) \/ ReadKey(p) \/ OpenKeyed(p) \/ DropStaleKey(p) \/ ReserveId(p)
  PROVE  LInv'
<1> USE DEF PInv, IInv
<1>1. Place(p) /\ Keyed(p) /\ loc[p] \in Locals
  BY DEF Places, TypeOK, LInv
<1>2. FaultsGrow /\ crashes' = crashes /\ seg' = seg /\ ~Making(p)
  BY FaultsGrowIs DEF Claim, ReadKey, OpenKeyed, DropStaleKey, ReserveId, dirVars, At, Making
<1>3. \A k \in Keys : key'[k] = key[k] \/ key[k] \notin seg
  <2>1. DropStaleKey(p) => key[loc[p].key] \notin seg
    BY <1>1 DEF DropStaleKey, Place, At
  <2> QED BY <2>1 DEF Claim, ReadKey, OpenKeyed, DropStaleKey, ReserveId, dirVars, TypeOK
<1>4. loc[p].pc \in {"read", "stale"} => loc[p].key # NoKey
  BY <1>1, ShmAssumption DEF Place
<1>5. \A q \in Procs : q # p => loc'[q] = loc[q]
  <2>1. \A i \in seg : i \in Ids \cup Results
    BY DEF TypeOK
  <2>2. \/ \E r \in Ids \cup Results : Finish(p, r)
        \/ \E l \in PCs : Goto(p, l)
        \/ \E l \in PCs, i \in Ids \cup {NoId} : Hold(p, l, i)
        \/ \E i \in Ids : loc' = [loc EXCEPT ![p].pc = "seg", ![p].id = i]
    BY <2>1, ResultsKnown DEF Claim, ReadKey, OpenKeyed, DropStaleKey, ReserveId
  <2> QED BY <2>2, FinishIs, GotoIs, HoldStep DEF TypeOK
<1>6. Keyed(p)'
  <2>1. CASE \E r \in Ids \cup Results : Finish(p, r)
    BY <2>1, FinishIs, EndKeyed
  <2>2. CASE \E l \in {"read", "rm_seg"} : Goto(p, l)
    BY <2>2, GotoIs, ResultsKnown DEF Keyed
  <2>6. CASE \E l \in {"open", "stale"}, i \in Ids \cup {NoId} : Hold(p, l, i)
    BY <2>6, HoldStep, ResultsKnown DEF Keyed
  <2>3. CASE Goto(p, "token") /\ loc[p].pc \in {"read", "stale"}
    BY <1>4, <2>3, GotoIs, ResultsKnown DEF Keyed
  <2>4. ASSUME NEW i \in Ids, loc' = [loc EXCEPT ![p].pc = "seg", ![p].id = i], At(p, "token")
        PROVE  Keyed(p)'
    <3>1. loc'[p].pc = "seg" /\ loc'[p].key = loc[p].key
      BY <1>1, <2>4 DEF TypeOK, Locals
    <3> QED BY <1>1, <2>4, <3>1 DEF Keyed, At
  <2>5. \A i \in seg : i \in Ids \cup Results
    BY DEF TypeOK
  <2> QED BY <2>1, <2>2, <2>3, <2>4, <2>5, <2>6, ResultsKnown
             DEF Claim, ReadKey, OpenKeyed, DropStaleKey, ReserveId, At
<1> QED BY <1>2, <1>3, <1>5, <1>6, KeepsLed

(* Making, publishing and giving up a segment: with one refusal in all, the
   one that stopped the call, the unlink is not refused. *)
LEMMA MakeLed ==
  ASSUME MaxFaults <= 1, PInv, LInv, NEW p \in Procs,
         MakeSegment(p) \/ SizeSegment(p) \/ PublishKey(p) \/ DropSegment(p)
  PROVE  LInv'
<1> USE DEF PInv, IInv
<1>1. Place(p) /\ Keyed(p) /\ loc[p] \in Locals
  BY DEF Places, TypeOK, LInv
<1>2. FaultsGrow /\ crashes' = crashes
  BY FaultsGrowIs DEF MakeSegment, SizeSegment, PublishKey, DropSegment, UnlinkOwn, dirVars
<1>3. ASSUME NEW l \in {"token", "trunc", "pub", "drop"}, Goto(p, l)
      PROVE  /\ loc'[p].pc = l /\ loc'[p].id = loc[p].id /\ loc'[p].key = loc[p].key
             /\ \A q \in Procs : q # p => loc'[q] = loc[q]
  BY <1>3, GotoIs, ResultsKnown
<1>4. ASSUME NEW r \in Ids \cup Results, Finish(p, r)
      PROVE  /\ Keyed(p)' /\ ~Making(p)'
             /\ \A q \in Procs : q # p => loc'[q] = loc[q]
  BY <1>4, FinishIs, EndKeyed
<1>5. Refused => faults' > 0
  BY ShmAssumption DEF Refused, TypeOK
<1>6. CASE MakeSegment(p)
  <2>1. At(p, "seg") /\ ~Making(p) /\ key' = key
    BY <1>6 DEF MakeSegment, At, Making
  <2>2. CASE Goto(p, "trunc") /\ seg' = seg \cup {loc[p].id}
    <3>1. Keyed(p)' /\ Making(p)'
      BY <1>1, <1>3, <2>1, <2>2 DEF Keyed, At, Making
    <3> QED BY <1>2, <1>3, <2>1, <2>2, <3>1, KeepsLed
  <2>3. CASE Goto(p, "token") /\ seg' = seg
    <3>1. Keyed(p)'
      BY <1>1, <1>3, <2>1, <2>3 DEF Keyed, At
    <3> QED BY <1>2, <1>3, <2>1, <2>3, <3>1, QuietLed
  <2>4. CASE Finish(p, Failed) /\ seg' = seg
    BY <1>2, <1>4, <2>1, <2>4, QuietLed, ResultsKnown
  <2> QED BY <1>6, <2>2, <2>3, <2>4 DEF MakeSegment
<1>7. CASE SizeSegment(p)
  <2>1. At(p, "trunc") /\ key' = key /\ seg' = seg
    BY <1>7 DEF SizeSegment, dirVars
  <2>2. Goto(p, "pub") \/ (Goto(p, "drop") /\ Refused)
    BY <1>1, <1>7 DEF SizeSegment, Keyed, At
  <2>3. /\ Keyed(p)' /\ Making(p)' /\ loc'[p].id = loc[p].id
        /\ \A q \in Procs : q # p => loc'[q] = loc[q]
    BY <1>1, <1>3, <1>5, <2>1, <2>2 DEF Keyed, At, Making
  <2> QED BY <1>2, <2>1, <2>3, QuietLed
<1>8. CASE PublishKey(p)
  <2>1. /\ At(p, "pub") /\ seg' = seg /\ loc[p].key \in Keys /\ key[loc[p].key] = NoId
        /\ loc[p].id \in Ids
    BY <1>1, <1>8, ShmAssumption DEF PublishKey, At, Place, Owned, Owning, TypeOK
  <2>2. CASE key' = [key EXCEPT ![loc[p].key] = loc[p].id] /\ Finish(p, loc[p].id)
    <3>1. /\ \A k \in Keys : key'[k] = key[k] \/ key[k] \notin seg
          /\ key'[loc[p].key] = loc[p].id
      BY <2>1, <2>2, ShmAssumption DEF TypeOK
    <3> QED BY <1>2, <1>4, <2>1, <2>2, <3>1, KeepsLed
  <2>3. CASE key' = key /\ Goto(p, "drop") /\ Refused
    <3>1. Keyed(p)' /\ Making(p)'
      BY <1>1, <1>3, <1>5, <2>1, <2>3 DEF Keyed, At, Making
    <3> QED BY <1>2, <1>3, <2>1, <2>3, <3>1, QuietLed
  <2> QED BY <1>8, <2>1, <2>2, <2>3 DEF PublishKey
<1>9. CASE DropSegment(p)
  <2>1. ~Refused
    BY <1>1, <1>9, ShmAssumption DEF DropSegment, Refused, Keyed, At, TypeOK
  <2>2. key' = key /\ seg' = seg \ {loc[p].id} /\ Finish(p, Failed)
    BY <1>9, <2>1 DEF DropSegment, UnlinkOwn
  <2> QED BY <1>2, <1>4, <2>2, KeepsLed, ResultsKnown
<1> QED BY <1>6, <1>7, <1>8, <1>9

(* Removing a segment and its keys, and the end of a call. *)
LEMMA EndLed ==
  ASSUME PInv, LInv, NEW p \in Procs,
         RemoveSegment(p) \/ RemoveKeys(p) \/ Release(p)
  PROVE  LInv'
<1> USE DEF PInv, IInv
<1>1. Place(p) /\ Keyed(p)
  BY DEF Places, LInv
<1>2. /\ FaultsGrow /\ crashes' = crashes /\ ~Making(p)
      /\ \A i \in seg' : i \in seg
  BY FaultsGrowIs DEF RemoveSegment, RemoveKeys, Release, dirVars, At, Making
<1>3. \A k \in Keys : key'[k] = key[k] \/ key[k] \notin seg'
  BY <1>1 DEF RemoveSegment, RemoveKeys, Release, dirVars, TypeOK, Place, At
<1>4. \/ \E r \in Ids \cup Results : Finish(p, r)
      \/ \E l \in {"rm_keys", "idle"} : Goto(p, l)
      \/ loc' = loc
  BY ResultsKnown DEF RemoveSegment, RemoveKeys, Release
<1>5. Keyed(p)' /\ \A q \in Procs : q # p => loc'[q] = loc[q]
  <2>1. CASE \E r \in Ids \cup Results : Finish(p, r)
    BY <2>1, FinishIs, EndKeyed
  <2>2. CASE \E l \in {"rm_keys", "idle"} : Goto(p, l)
    BY <2>2, GotoIs, ResultsKnown DEF Keyed
  <2>3. CASE loc' = loc
    BY <1>1, <1>2, <2>3, ShmAssumption DEF Keyed, FaultsGrow, TypeOK
  <2> QED BY <1>4, <2>1, <2>2, <2>3
<1> QED BY <1>2, <1>3, <1>5, KeepsLed

LEMMA StepLed ==
  ASSUME "official" \notin Ops, "private" \notin Ops, MaxFaults <= 1,
         PInv, LInv, [Next]_vars
  PROVE  LInv'
<1> USE DEF PInv, IInv
<1>1. CASE UNCHANGED vars
  BY <1>1 DEF vars, dirVars, LInv, Led, Keyed, Making
<1>2. ASSUME NEW p \in Procs, Continue(p)
      PROVE  LInv'
  <2>1. ~UndoSegment(p) /\ ~ReadWinner(p) /\ ~OpenWinner(p)
    BY DEF Places, Place, UndoSegment, ReadWinner, OpenWinner, At
  <2> QED BY <1>2, <2>1, ReadLed, MakeLed, EndLed DEF Continue
<1>3. ASSUME NEW p \in Procs, Crash(p)
      PROVE  LInv'
  <2>1. Led'
    BY <1>3, CrashIs, ShmAssumption DEF Led, TypeOK
  <2>2. ASSUME NEW q \in Procs PROVE Keyed(q)'
    <3>1. Keyed(q) /\ faults' = faults /\ (loc'[q] = Idle \/ loc'[q] = loc[q])
      BY <1>3, CrashIs DEF Crash, LInv
    <3> QED BY <3>1 DEF Keyed, Idle
  <2> QED BY <2>1, <2>2 DEF LInv
<1>4. ASSUME NEW p \in Procs, Call(p)
      PROVE  LInv'
  <2>1. /\ crashes' = crashes /\ faults' = faults /\ key' = key /\ seg' = seg
        /\ ~Making(p)
    BY <1>4 DEF Call, GetBegin, PrivateBegin, RmidBegin, dirVars, At, Making
  <2>2. \A q \in Procs : q # p => loc'[q] = loc[q]
    BY <1>4 DEF Call, GetBegin, PrivateBegin, RmidBegin, Start, TypeOK
  <2>3. loc'[p].pc \in {"claim", "rm_claim"}
    BY <1>4 DEF Call, GetBegin, PrivateBegin, RmidBegin, Start, TypeOK, Idle
  <2>4. Keyed(p)'
    BY <2>3 DEF Keyed
  <2> QED BY <2>1, <2>2, <2>4, FaultsGrowIs, QuietLed
<1> QED BY <1>1, <1>2, <1>3, <1>4 DEF Next, OfficialGet, OfficialRmid

(* Whatever one system call is refused, shmget(key) and IPC_RMID leave no
   segment that no key leads to: shm_new_segment and the paths behind it unlink
   the file of a segment that cannot be sized or published.  A private segment
   has no key, and the official runtime is not there. *)
THEOREM ShmNoOrphan ==
  ASSUME "official" \notin Ops, "private" \notin Ops, MaxFaults <= 1
  PROVE  Spec => []NoOrphan
<1>1. Init => LInv
  BY DEF Init, LInv, Led, Keyed, Idle
<1>2. PInv /\ LInv /\ [Next]_vars => LInv'
  BY StepLed
<1>3. LInv => NoOrphan
  BY DEF LInv, Led, Making, NoOrphan, At
<1> QED BY ShmPInv, <1>1, <1>2, <1>3, PTL DEF Spec

-----------------------------------------------------------------------------
(* Every call is one step on the table of keys and segments. *)

(* The table the directory stands for. *)
Map  == [k \in Keys |-> IF key[k] \in seg THEN key[k] ELSE NoId]
Live == seg \ Unanswered
Ret  == [p \in Procs |-> loc[p].res]

Holding(p) == loc[p].pc \in {"trunc", "pub", "undo", "drop"}

(* The steps of the table in which a call of p answers r ... *)
LEMMA AnswerNext ==
  ASSUME NEW p \in Procs, NEW r, Ret' = [Ret EXCEPT ![p] = r],
         \/ /\ Map' = Map /\ Live' = Live
            /\ \/ r \in {Nothing, Failed} \cup Ids
               \/ \E k \in Keys : \/ Map[k] # NoId /\ r \in {Map[k], EEXIST}
                                  \/ Map[k] = NoId /\ r = ENOENT
         \/ \E k \in Keys : /\ Map[k] = NoId /\ r \in Ids \ Live
                            /\ Map' = [Map EXCEPT ![k] = r] /\ Live' = Live \cup {r}
         \/ \E i \in Ids \ Live : /\ r \in {i, Failed}
                                  /\ Map' = Map /\ Live' = Live \cup {i}
  PROVE  Registry!Next
<1> USE DEF Map, Live, Ret
<1>1. CASE Map' = Map /\ Live' = Live
  <2>1. CASE r = Nothing
    <3>1. Registry!Begin(p)
      BY <1>1, <2>1 DEF Registry!Begin, Registry!Answer
    <3> QED BY <3>1 DEF Registry!Next
  <2>2. CASE r = Failed
    <3>1. Registry!Fail(p)
      BY <1>1, <2>2 DEF Registry!Fail, Registry!Answer
    <3> QED BY <3>1 DEF Registry!Next
  <2>3. CASE r \in Ids
    <3>1. Registry!AnswerPrivate(p, r)
      BY <1>1 DEF Registry!AnswerPrivate, Registry!Answer
    <3> QED BY <2>3, <3>1 DEF Registry!Next
  <2>4. ASSUME NEW k \in Keys, Map[k] # NoId, r \in {Map[k], EEXIST}
        PROVE  Registry!Next
    <3>1. Registry!Find(p, k)
      BY <1>1, <2>4 DEF Registry!Find, Registry!Answer
    <3> QED BY <3>1 DEF Registry!Next
  <2>5. ASSUME NEW k \in Keys, Map[k] = NoId, r = ENOENT
        PROVE  Registry!Next
    <3>1. Registry!Miss(p, k)
      BY <1>1, <2>5 DEF Registry!Miss, Registry!Answer
    <3> QED BY <3>1 DEF Registry!Next
  <2>6. CASE \E i \in Ids \ Live : Live' = Live \cup {i}
    BY <1>1, <2>6
  <2>7. CASE \E k \in Keys : r \in Ids \ Live /\ Live' = Live \cup {r}
    BY <1>1, <2>7
  <2> QED BY <2>1, <2>2, <2>3, <2>4, <2>5, <2>6, <2>7
<1>2. ASSUME NEW k \in Keys, Map[k] = NoId, r \in Ids \ Live,
             Map' = [Map EXCEPT ![k] = r], Live' = Live \cup {r}
      PROVE  Registry!Next
  <2>1. Registry!CreateKeyed(p, k, r)
    BY <1>2 DEF Registry!CreateKeyed, Registry!Publish, Registry!Answer
  <2> QED BY <1>2, <2>1 DEF Registry!Next
<1>3. ASSUME NEW i \in Ids \ Live, r \in {i, Failed}, Map' = Map, Live' = Live \cup {i}
      PROVE  Registry!Next
  <2>1. Registry!CreatePrivate(i) /\ (Registry!Answer(p, i) \/ Registry!Answer(p, Failed))
    BY <1>3 DEF Registry!CreatePrivate, Registry!Answer
  <2> QED BY <1>3, <2>1 DEF Registry!Next
<1> QED BY <1>1, <1>2, <1>3

(* ... and those in which no call answers. *)
LEMMA SilentNext ==
  ASSUME Ret' = Ret,
         \/ Map' = Map /\ Live' = Live
         \/ Map' = Map /\ \E i \in Ids \ Live : Live' = Live \cup {i}
         \/ \E i \in Ids \cap Live :
              /\ Live' = Live \ {i}
              /\ Map' = [k \in Keys |-> IF Map[k] = i THEN NoId ELSE Map[k]]
  PROVE  [Registry!Next]_Registry!vars
<1> USE DEF Map, Live, Ret
<1>1. CASE Map' = Map /\ Live' = Live
  BY <1>1 DEF Registry!vars
<1>2. ASSUME NEW i \in Ids \ Live, Map' = Map, Live' = Live \cup {i}
      PROVE  Registry!Next
  <2>1. Registry!CreatePrivate(i) /\ Ret' = Ret
    BY <1>2 DEF Registry!CreatePrivate
  <2> QED BY <2>1 DEF Registry!Next
<1>3. ASSUME NEW i \in Ids \cap Live, Live' = Live \ {i},
             Map' = [k \in Keys |-> IF Map[k] = i THEN NoId ELSE Map[k]]
      PROVE  Registry!Next
  <2>1. Registry!Remove(i)
    BY <1>3 DEF Registry!Remove
  <2> QED BY <2>1 DEF Registry!Next
<1> QED BY <1>1, <1>2, <1>3

LEMMA LiveIs ==
  /\ \A i : i \in Live <=> i \in seg /\ \A q \in Procs : Holding(q) => loc[q].id # i
  /\ \A i : i \in Live' <=> i \in seg' /\ \A q \in Procs : Holding(q)' => loc'[q].id # i
BY DEF Live, Unanswered, Holding

LEMMA RetIs ==
  ASSUME NEW p \in Procs, \A q \in Procs : q # p => loc'[q] = loc[q]
  PROVE  /\ Ret' = [Ret EXCEPT ![p] = loc'[p].res]
         /\ loc'[p].res = loc[p].res => Ret' = Ret
BY DEF Ret

LEMMA MapSame ==
  ASSUME \A k \in Keys : \/ key'[k] = key[k] /\ (key[k] \in seg' <=> key[k] \in seg)
                         \/ key[k] \notin seg /\ key'[k] = NoId /\ NoId \notin seg'
  PROVE  Map' = Map
<1> SUFFICES ASSUME NEW k \in Keys
             PROVE  (IF key'[k] \in seg' THEN key'[k] ELSE NoId)
                    = (IF key[k] \in seg THEN key[k] ELSE NoId)
  BY DEF Map
<1> QED OBVIOUS

(* What is live where p changes what it holds, and no file. *)
LEMMA LiveSame ==
  ASSUME NEW p \in Procs, seg' = seg, \A q \in Procs : q # p => loc'[q] = loc[q],
         Holding(p)' <=> Holding(p), Holding(p) => loc'[p].id = loc[p].id
  PROVE  Live' = Live
<1>1. \A q \in Procs : Holding(q)' <=> Holding(q)
  BY DEF Holding
<1>2. \A q \in Procs : Holding(q) => loc'[q].id = loc[q].id
  OBVIOUS
<1>3. \A i : i \in Live' <=> i \in Live
  BY <1>1, <1>2, LiveIs
<1> QED BY <1>3

LEMMA LiveLetGo ==
  ASSUME IInv, NEW p \in Procs, seg' = seg, \A q \in Procs : q # p => loc'[q] = loc[q],
         Holding(p), ~Holding(p)'
  PROVE  IF loc[p].id \in seg
         THEN loc[p].id \in Ids \ Live /\ Live' = Live \cup {loc[p].id}
         ELSE Live' = Live
<1>1. \A q \in Procs : q # p => (Holding(q)' <=> Holding(q)) /\ loc'[q].id = loc[q].id
  BY DEF Holding
<1>2. \A q \in Procs : Holding(q) /\ loc[q].id = loc[p].id => q = p
  BY DEF IInv, Owned, Owning, Holding
<1>3. \A i : i \in Live' <=> i \in Live \/ (i = loc[p].id /\ i \in seg)
  BY <1>1, <1>2, LiveIs
<1>4. loc[p].id \notin Live /\ loc[p].id \in Ids
  BY LiveIs DEF IInv, TypeOK, Owned, Owning, Holding
<1> QED BY <1>3, <1>4

(* A step that changes no file and is not about a segment in the making. *)
LEMMA QuietAnswer ==
  ASSUME NEW p \in Procs, key' = key, seg' = seg,
         \A q \in Procs : q # p => loc'[q] = loc[q],
         ~Holding(p), ~Holding(p)',
         LET r == loc'[p].res
         IN  \/ r \in {Nothing, Failed} \cup Ids
             \/ \E k \in Keys : \/ Map[k] # NoId /\ r \in {Map[k], EEXIST}
                                \/ Map[k] = NoId /\ r = ENOENT
  PROVE  Registry!Next
<1>1. Map' = Map
  BY MapSame
<1>2. Live' = Live
  BY LiveSame
<1> QED BY <1>1, <1>2, RetIs, AnswerNext

LEMMA QuietSilent ==
  ASSUME NEW p \in Procs, key' = key, seg' = seg,
         \A q \in Procs : q # p => loc'[q] = loc[q],
         loc'[p].res = loc[p].res,
         Holding(p)' <=> Holding(p), Holding(p) => loc'[p].id = loc[p].id
  PROVE  [Registry!Next]_Registry!vars
<1>1. Map' = Map
  BY MapSame
<1>2. Live' = Live
  BY LiveSame
<1> QED BY <1>1, <1>2, RetIs, SilentNext

LEMMA EndNotHolding ==
  ASSUME NEW p \in Procs, loc'[p].pc \in Ended PROVE ~Holding(p)'
BY DEF Holding, Ended

LEMMA MapAt ==
  ASSUME TypeOK, NEW k \in Keys
  PROVE  /\ key[k] \in seg => Map[k] = key[k] /\ Map[k] # NoId
         /\ key[k] \notin seg => Map[k] = NoId
BY ShmAssumption DEF Map, TypeOK

(* Taking the claim, reading the key, reserving an id. *)
LEMMA ReadTable ==
  ASSUME PInv, NEW p \in Procs,
         Claim(p) \/ ReadKey(p) \/ OpenKeyed(p) \/ DropStaleKey(p) \/ ReserveId(p)
  PROVE  [Registry!Next]_Registry!vars
<1> USE DEF PInv, IInv
<1>1. Place(p) /\ loc[p] \in Locals /\ ~Holding(p) /\ seg' = seg
  BY DEF Places, TypeOK, Claim, ReadKey, OpenKeyed, DropStaleKey, ReserveId, At, Holding, dirVars
<1>2. ASSUME Finish(p, Failed), key' = key
      PROVE  Registry!Next
  BY <1>1, <1>2, FinishIs, ResultsKnown, EndNotHolding, QuietAnswer
<1>3. ASSUME NEW l \in {"read", "rm_seg", "token"}, Goto(p, l)
      PROVE  /\ ~Holding(p)' /\ loc'[p].res = loc[p].res
             /\ \A q \in Procs : q # p => loc'[q] = loc[q]
  BY <1>3, GotoIs, ResultsKnown DEF Holding
<1>4. ASSUME NEW l \in {"read", "rm_seg", "token"}, Goto(p, l), key' = key
      PROVE  [Registry!Next]_Registry!vars
  BY <1>1, <1>3, <1>4, QuietSilent
<1>9. ASSUME NEW l \in {"open", "stale"}, NEW i \in Ids \cup {NoId}, Hold(p, l, i), key' = key
      PROVE  [Registry!Next]_Registry!vars
  <2>1. /\ ~Holding(p)' /\ loc'[p].res = loc[p].res
        /\ \A q \in Procs : q # p => loc'[q] = loc[q]
    BY <1>9, HoldStep, ResultsKnown DEF Holding
  <2> QED BY <1>1, <1>9, <2>1, QuietSilent
<1>5. CASE Claim(p)
  BY <1>2, <1>4, <1>5 DEF Claim, dirVars
<1>6. CASE ReadKey(p)
  <2>1. key' = key /\ loc[p].key \in Keys
    BY <1>1, <1>6 DEF ReadKey, Place, At, dirVars
  <2>3. ASSUME key[loc[p].key] = NoId, Finish(p, ENOENT)
        PROVE  Registry!Next
    <3>1. loc'[p].res = ENOENT /\ ~Holding(p)' /\ \A q \in Procs : q # p => loc'[q] = loc[q]
      BY <2>3, FinishIs, EndNotHolding, ResultsKnown
    <3>2. Map[loc[p].key] = NoId
      BY <2>1, <2>3, MapAt, ShmAssumption DEF TypeOK
    <3> QED BY <1>1, <2>1, <3>1, <3>2, QuietAnswer
  <2> QED BY <1>2, <1>4, <1>6, <1>9, <2>1, <2>3 DEF ReadKey
<1>10. CASE OpenKeyed(p)
  <2>1. key' = key /\ loc[p].key \in Keys /\ key[loc[p].key] = loc[p].id
    BY <1>1, <1>10 DEF OpenKeyed, Place, At, dirVars
  <2>2. ASSUME key[loc[p].key] \in seg, NEW r \in {key[loc[p].key], EEXIST}, Finish(p, r)
        PROVE  Registry!Next
    <3>1. r \in Ids \cup Results
      BY <2>1, <2>2, ResultsKnown DEF TypeOK
    <3>2. loc'[p].res = r /\ ~Holding(p)' /\ \A q \in Procs : q # p => loc'[q] = loc[q]
      BY <2>2, <3>1, FinishIs, EndNotHolding
    <3>3. Map[loc[p].key] # NoId /\ r \in {Map[loc[p].key], EEXIST}
      BY <2>1, <2>2, MapAt
    <3> QED BY <1>1, <2>1, <3>2, <3>3, QuietAnswer
  <2> QED BY <1>2, <1>9, <1>10, <2>1, <2>2 DEF OpenKeyed
<1>7. CASE DropStaleKey(p)
  <2>1. loc[p].key \in Keys /\ key[loc[p].key] \notin seg
    BY <1>1, <1>7 DEF DropStaleKey, Place, At
  <2>2. CASE key' = [key EXCEPT ![loc[p].key] = NoId]
    <3>1. Map' = Map
      BY <1>1, <2>1, <2>2, MapSame, ShmAssumption DEF TypeOK
    <3>2. ASSUME NEW r \in {ENOENT, Failed}, Finish(p, r)
          PROVE  Registry!Next
      <4>1. loc'[p].res = r /\ ~Holding(p)' /\ \A q \in Procs : q # p => loc'[q] = loc[q]
        BY <3>2, FinishIs, EndNotHolding, ResultsKnown
      <4>2. Live' = Live
        BY <1>1, <4>1, LiveSame
      <4>3. Ret' = [Ret EXCEPT ![p] = r]
        BY <4>1, RetIs
      <4>4. Map[loc[p].key] = NoId
        BY <2>1, MapAt
      <4> QED BY <2>1, <3>1, <4>2, <4>3, <4>4, AnswerNext
    <3>3. ASSUME Goto(p, "token")
          PROVE  [Registry!Next]_Registry!vars
      BY <1>1, <1>3, <3>1, <3>3, LiveSame, RetIs, SilentNext
    <3> QED BY <1>7, <3>2, <3>3 DEF DropStaleKey
  <2>3. CASE Finish(p, Failed) /\ key' = key
    BY <1>2, <2>3
  <2> QED BY <1>7, <2>2, <2>3 DEF DropStaleKey
<1>8. CASE ReserveId(p)
  <2>1. ASSUME NEW i \in Ids, loc' = [loc EXCEPT ![p].pc = "seg", ![p].id = i]
        PROVE  [Registry!Next]_Registry!vars
    <3>1. /\ loc'[p].pc = "seg" /\ loc'[p].res = loc[p].res
          /\ \A q \in Procs : q # p => loc'[q] = loc[q]
      BY <1>1, <2>1 DEF TypeOK, Locals
    <3>2. ~Holding(p)'
      BY <3>1 DEF Holding
    <3> QED BY <1>1, <1>8, <3>1, <3>2, QuietSilent DEF ReserveId
  <2> QED BY <1>2, <1>8, <2>1 DEF ReserveId
<1> QED BY <1>5, <1>6, <1>7, <1>8, <1>10

(* A call that lets go of its segment and leaves the file: from then on it is a
   segment without a key. *)
LEMMA LetGoTable ==
  ASSUME IInv, NEW p \in Procs, key' = key, seg' = seg,
         \A q \in Procs : q # p => loc'[q] = loc[q],
         Holding(p), ~Holding(p)',
         loc'[p].res \in {loc[p].id, Failed}
  PROVE  Registry!Next
<1>1. Map' = Map
  BY MapSame
<1>2. loc[p].id \in Ids
  BY DEF IInv, TypeOK, Owned, Owning, Holding
<1> QED BY <1>1, <1>2, LiveLetGo, RetIs, AnswerNext

(* Making, publishing and giving up a segment. *)
LEMMA MakeTable ==
  ASSUME PInv, NEW p \in Procs,
         MakeSegment(p) \/ SizeSegment(p) \/ PublishKey(p) \/ DropSegment(p)
  PROVE  [Registry!Next]_Registry!vars
<1> USE DEF PInv, IInv
<1>1. Place(p) /\ loc[p] \in Locals
  BY DEF Places, TypeOK
<1>2. ASSUME NEW r \in Ids \cup {Failed}, Finish(p, r)
      PROVE  /\ ~Holding(p)' /\ loc'[p].res = r
             /\ \A q \in Procs : q # p => loc'[q] = loc[q]
  BY <1>2, FinishIs, ResultsKnown, EndNotHolding
<1>3. ASSUME NEW l \in {"token", "trunc", "pub", "drop"}, Goto(p, l)
      PROVE  /\ loc'[p].pc = l /\ loc'[p].id = loc[p].id /\ loc'[p].res = loc[p].res
             /\ \A q \in Procs : q # p => loc'[q] = loc[q]
  BY <1>3, GotoIs, ResultsKnown
<1>4. Owning(p) /\ loc[p].id \in Ids
  BY DEF MakeSegment, SizeSegment, PublishKey, DropSegment, At, Owned, Owning, TypeOK
<1>5. CASE MakeSegment(p)
  <2>1. ~Holding(p) /\ Early(p) /\ key' = key
    BY <1>5 DEF MakeSegment, At, Holding, Early
  <2>2. CASE seg' = seg \cup {loc[p].id} /\ loc[p].id \notin seg /\ Goto(p, "trunc")
    <3>1. Map' = Map
      BY <2>1, <2>2, MapSame DEF KeysInv
    <3>2. /\ Holding(p)' /\ loc'[p].id = loc[p].id
          /\ \A q \in Procs : q # p => (Holding(q)' <=> Holding(q)) /\ loc'[q].id = loc[q].id
      BY <1>3, <2>2 DEF Holding
    <3>3. \A i : i \in Live' <=> i \in Live
      BY <2>1, <2>2, <3>2, LiveIs
    <3>4. Live' = Live
      BY <3>3
    <3> QED BY <1>3, <2>2, <3>1, <3>4, RetIs, SilentNext
  <2>3. CASE seg' = seg /\ Goto(p, "token")
    <3>1. ~Holding(p)'
      BY <1>3, <2>3 DEF Holding
    <3> QED BY <1>3, <2>1, <2>3, <3>1, QuietSilent
  <2>4. CASE seg' = seg /\ Finish(p, Failed)
    BY <1>2, <2>1, <2>4, QuietAnswer
  <2> QED BY <1>5, <2>2, <2>3, <2>4 DEF MakeSegment
<1>6. CASE SizeSegment(p)
  <2>1. Holding(p) /\ key' = key /\ seg' = seg
    BY <1>6 DEF SizeSegment, At, Holding, dirVars
  <2>2. CASE Finish(p, loc[p].id)
    BY <1>2, <1>4, <2>1, <2>2, LetGoTable
  <2>3. ASSUME NEW l \in {"pub", "drop"}, Goto(p, l)
        PROVE  [Registry!Next]_Registry!vars
    <3>1. Holding(p)'
      BY <1>3, <2>3 DEF Holding
    <3> QED BY <1>3, <2>1, <2>3, <3>1, QuietSilent
  <2> QED BY <1>6, <2>2, <2>3 DEF SizeSegment
<1>7. CASE PublishKey(p)
  <2>1. /\ Holding(p) /\ Early(p) /\ seg' = seg /\ loc[p].key \in Keys
        /\ key[loc[p].key] = NoId /\ loc[p].id \in seg
    BY <1>1, <1>7, ShmAssumption DEF PublishKey, At, Place, Holding, Early
  <2>2. CASE key' = [key EXCEPT ![loc[p].key] = loc[p].id] /\ Finish(p, loc[p].id)
    <3>1. Map' = [Map EXCEPT ![loc[p].key] = loc[p].id]
      BY <2>1, <2>2 DEF Map, TypeOK
    <3>2. Map[loc[p].key] = NoId
      BY <2>1, MapAt, ShmAssumption DEF TypeOK
    <3>3. loc[p].id \in Ids \ Live /\ Live' = Live \cup {loc[p].id}
      BY <1>2, <1>4, <2>1, <2>2, LiveLetGo
    <3>4. Ret' = [Ret EXCEPT ![p] = loc[p].id]
      BY <1>2, <1>4, <2>2, RetIs
    <3> QED BY <2>1, <3>1, <3>2, <3>3, <3>4, AnswerNext
  <2>3. CASE key' = key /\ Goto(p, "drop")
    <3>1. Holding(p)'
      BY <1>3, <2>3 DEF Holding
    <3> QED BY <1>3, <2>1, <2>3, <3>1, QuietSilent
  <2> QED BY <1>7, <2>1, <2>2, <2>3 DEF PublishKey
<1>8. CASE DropSegment(p)
  <2>1. Holding(p) /\ key' = key /\ Finish(p, Failed) /\ \A k \in Keys : key[k] # loc[p].id
    BY <1>1, <1>8 DEF DropSegment, At, Holding, Place
  <2>2. CASE seg' = seg
    BY <1>2, <2>1, <2>2, LetGoTable
  <2>3. CASE seg' = seg \ {loc[p].id}
    <3>1. Map' = Map
      BY <2>1, <2>3, MapSame
    <3>2. /\ ~Holding(p)'
          /\ \A q \in Procs : q # p => (Holding(q)' <=> Holding(q)) /\ loc'[q].id = loc[q].id
      BY <1>2, <2>1 DEF Holding
    <3>3. \A i : i \in Live' <=> i \in Live
      BY <2>1, <2>3, <3>2, LiveIs
    <3>4. Ret' = [Ret EXCEPT ![p] = Failed]
      BY <1>2, <2>1, RetIs
    <3>5. Live' = Live
      BY <3>3
    <3> QED BY <3>1, <3>4, <3>5, AnswerNext
  <2> QED BY <1>8, <2>2, <2>3 DEF DropSegment, UnlinkOwn
<1> QED BY <1>5, <1>6, <1>7, <1>8

(* Removing a segment, then its keys, and the end of a call. *)
LEMMA EndTable ==
  ASSUME PInv, NEW p \in Procs,
         RemoveSegment(p) \/ RemoveKeys(p) \/ Release(p)
  PROVE  [Registry!Next]_Registry!vars
<1> USE DEF PInv, IInv
<1>1. Place(p) /\ loc[p] \in Locals /\ ~Holding(p)
  BY DEF Places, TypeOK, RemoveSegment, RemoveKeys, Release, At, Holding
<1>2. ASSUME NEW r \in {Nothing, Failed}, Finish(p, r), key' = key, seg' = seg
      PROVE  Registry!Next
  BY <1>1, <1>2, FinishIs, ResultsKnown, EndNotHolding, QuietAnswer
<1>3. ASSUME NEW l \in {"rm_keys", "idle"}, Goto(p, l)
      PROVE  /\ ~Holding(p)' /\ loc'[p].res = loc[p].res
             /\ \A q \in Procs : q # p => loc'[q] = loc[q]
  BY <1>3, GotoIs, ResultsKnown DEF Holding
<1>4. CASE RemoveSegment(p) /\ ~(Finish(p, Failed) /\ seg' = seg)
  <2> DEFINE i == loc[p].id
  <2>1. key' = key /\ seg' = seg \ {i} /\ Goto(p, "rm_keys")
    BY <1>4 DEF RemoveSegment
  <2>2. Ret' = Ret
    BY <1>3, <2>1, RetIs
  <2>3. \A q \in Procs : (Holding(q)' <=> Holding(q)) /\ (Holding(q) => loc'[q].id = loc[q].id)
    BY <1>1, <1>3, <2>1 DEF Holding
  <2>4. \A j : j \in Live' <=> j \in Live /\ j # i
    BY <2>1, <2>3, LiveIs
  <2>5. CASE i \in Live
    <3>1. Live' = Live \ {i} /\ i \in Ids
      BY <2>4, <2>5 DEF Live, TypeOK
    <3>2. Map' = [k \in Keys |-> IF Map[k] = i THEN NoId ELSE Map[k]]
      <4>1. i # NoId
        BY <3>1, ShmAssumption
      <4> QED BY <2>1, <4>1 DEF Map
    <3> QED BY <2>2, <2>5, <3>1, <3>2, SilentNext
  <2>6. CASE i \notin Live
    <3>1. i \notin seg \/ \A k \in Keys : key[k] # i
      <4>1. ASSUME NEW q \in Procs, Holding(q), loc[q].id = i
            PROVE  \A k \in Keys : key[k] # i
        <5>1. Place(q)
          BY DEF Places
        <5> QED BY <4>1, <5>1 DEF Holding, Place, KeysInv, Early
      <4> QED BY <2>6, <4>1, LiveIs
    <3>2. Map' = Map
      BY <2>1, <3>1, MapSame
    <3>3. Live' = Live
      BY <2>4, <2>6
    <3> QED BY <2>2, <3>2, <3>3, SilentNext
  <2> QED BY <2>5, <2>6
<1>5. CASE RemoveSegment(p) /\ Finish(p, Failed) /\ seg' = seg
  BY <1>2, <1>5 DEF RemoveSegment
<1>6. CASE RemoveKeys(p)
  <2>1. seg' = seg /\ At(p, "rm_keys")
    BY <1>6 DEF RemoveKeys
  <2>2. ASSUME NEW k \in Keys, key[k] = loc[p].id, key' = [key EXCEPT ![k] = NoId], loc' = loc
        PROVE  [Registry!Next]_Registry!vars
    <3>1. key[k] \notin seg
      BY <1>1, <2>1, <2>2 DEF Place, At
    <3>2. Map' = Map
      BY <2>1, <2>2, <3>1, MapSame, ShmAssumption DEF TypeOK
    <3>3. Live' = Live
      BY <2>1, <2>2, LiveSame DEF Holding
    <3> QED BY <2>2, <3>2, <3>3, SilentNext DEF Ret
  <2> QED BY <1>2, <1>6, <2>1, <2>2 DEF RemoveKeys
<1>7. CASE Release(p)
  BY <1>1, <1>3, <1>7, QuietSilent DEF Release, dirVars
<1> QED BY <1>4, <1>5, <1>6, <1>7

(* The begin of a call, and the kill of a process, which leaves what it had in
   hand as a segment without a key. *)
LEMMA BeginTable ==
  ASSUME PInv, NEW p \in Procs, Call(p) \/ Crash(p)
  PROVE  [Registry!Next]_Registry!vars
<1> USE DEF PInv, IInv
<1>1. CASE Call(p)
  <2>1. /\ key' = key /\ seg' = seg /\ ~Holding(p)
        /\ \A q \in Procs : q # p => loc'[q] = loc[q]
    BY <1>1 DEF Call, GetBegin, PrivateBegin, RmidBegin, Start, At, Holding, dirVars, TypeOK
  <2>2. ~Holding(p)' /\ loc'[p].res = Nothing
    BY <1>1, BeginPlaces DEF Holding
  <2> QED BY <2>1, <2>2, QuietAnswer
<1>2. CASE Crash(p)
  <2>1. /\ key' = key /\ seg' = seg /\ ~Holding(p)' /\ loc'[p].res = Nothing
        /\ \A q \in Procs : q # p => loc'[q] = loc[q]
    BY <1>2, CrashIs DEF Idle, Holding, dirVars
  <2>2. CASE ~Holding(p)
    BY <2>1, <2>2, QuietAnswer
  <2>3. CASE Holding(p)
    <3>1. loc[p].res = Nothing
      BY <2>3 DEF Holding, Places, Place, Ended
    <3>2. Ret' = Ret
      BY <2>1, <3>1, RetIs
    <3>3. Map' = Map
      BY <2>1, MapSame
    <3>4. Live' = Live \/ \E i \in Ids \ Live : Live' = Live \cup {i}
      BY <2>1, <2>3, LiveLetGo
    <3> QED BY <3>2, <3>3, <3>4, SilentNext
  <2> QED BY <2>2, <2>3
<1> QED BY <1>1, <1>2

LEMMA StepTable ==
  ASSUME "official" \notin Ops, PInv, [Next]_vars
  PROVE  [Registry!Next]_Registry!vars
<1>1. CASE UNCHANGED vars
  <2>1. Map' = Map /\ Live' = Live /\ Ret' = Ret
    BY <1>1 DEF vars, dirVars, Map, Live, Unanswered, Ret
  <2> QED BY <2>1, SilentNext
<1>2. ASSUME NEW p \in Procs, Continue(p)
      PROVE  [Registry!Next]_Registry!vars
  <2>1. ~UndoSegment(p) /\ ~ReadWinner(p) /\ ~OpenWinner(p)
    BY DEF PInv, Places, Place, UndoSegment, ReadWinner, OpenWinner, At
  <2> QED BY <1>2, <2>1, ReadTable, MakeTable, EndTable DEF Continue
<1> QED BY <1>1, <1>2, BeginTable DEF Next, OfficialGet, OfficialRmid

(* shmget(2) and shmctl(IPC_RMID), each a series of calls on the directory that
   may be refused or cut short by a kill, implement one table from keys to
   segments on which every call is one step (where the official runtime does not
   share the directory). *)
THEOREM ShmRefinement ==
  ASSUME "official" \notin Ops
  PROVE  Spec => Refinement
<1>1. Init => Registry!Init
  BY ShmAssumption DEF Init, Registry!Init, Unanswered, Idle
<1>2. PInv /\ [Next]_vars => [Registry!Next]_Registry!vars
  BY StepTable
<1> QED BY ShmPInv, <1>1, <1>2, PTL DEF Spec, Refinement, Registry!Spec
=============================================================================
