-------------------------- MODULE PidLedgerProofs --------------------------
(* Proofs about PidLedger, for any number of threads and pids and any size of
   the table. *)
EXTENDS PidLedger, FiniteSetTheorems, TLAPS

(* A call that is about a pid has one, and knows which call it is. *)
Shape ==
  \A t \in Threads :
    /\ pc[t] \in {"register", "again", "evict", "abort", "await", "note", "twice",
                  "mark", "deliver", "exitnote", "inner"} => on[t] \in Pids
    /\ pc[t] = "register" => op[t] \in Creations
    /\ pc[t] = "mark" => op[t] = "KILL"
    /\ pc[t] = "run" => ran[t] = 0
    /\ pc[t] # "inner" => ran[t] <= 1

(* Nobody takes the pid of a child whose end is being noted. *)
Ended ==
  \A t \in Threads :
    /\ pc[t] = "note" => proc[on[t]] = "free"
    /\ pc[t] \in {"twice", "exitnote"} => proc[on[t]] # "run"

Slots == cap >= 4 /\ EmptySlot

IInv ==
  TypeOK /\ Shape /\ Ended /\ LiveIsOurs /\ NoStranger /\ OwnKillable /\ Slots

(* Marking an entry takes no slot and gives none back. *)
LEMMA ReapSlots ==
  ASSUME NEW q \in Pids, TypeOK, Slots, Reap(q)
  PROVE  Slots'
<1>1. Entries' = Entries
  BY DEF TypeOK, Reap, Entries
<1> QED
  BY <1>1 DEF Reap, Slots, EmptySlot, Count

(* px_ledger_put leaves an empty slot: a table that is full, to three quarters
   with its tombstones, is compacted or grows first. *)
LEMMA PutSlots ==
  ASSUME NEW q \in Pids, NEW tag, TypeOK, Slots, Put(q, tag)
  PROVE  Slots' /\ cap' \in Nat /\ tombs' \in 0 .. 1
<1> DEFINE n == Cardinality(Entries)
           m == Cardinality(Entries')
<1>1. IsFiniteSet(Entries) /\ n \in Nat
  BY LedgerAssumption, FS_Subset, FS_CardinalityType DEF Entries
<1>2. Entries' = Entries \cup {q}
  BY DEF TypeOK, Put, Insert, Entries
<1>3. m = IF q \in Entries THEN n ELSE n + 1
  BY <1>1, <1>2, FS_AddElement
<1>4. PICK c \in {cap, 2 * cap}, b \in {0, tombs} :
        RoomFor(c, b) /\ cap' = c /\ Insert(q, tag, b)
  BY DEF Put
<1>5. rest' = rest /\ rest \in Nat /\ cap \in Nat /\ tombs \in 0 .. 1 /\ cap >= 4
  BY LedgerAssumption DEF Put, TypeOK, Slots
<1>6. b \in 0 .. 1 /\ tombs' \in 0 .. b /\ (q \in Entries => tombs' = b)
  BY <1>4, <1>5 DEF Insert, Entries
<1>7. c \in Nat /\ c >= 4
  BY <1>5
<1>8. 4 * (rest + n + b) < 3 * c
  <2>1. CASE ~Full /\ c = cap /\ b = tombs
    BY <2>1, <1>1, <1>5 DEF Full, Overloaded, Count
  <2>2. CASE Full /\ ~Overloaded(Count, cap) /\ c = cap /\ b = 0
    BY <2>2, <1>1, <1>5 DEF Overloaded, Count
  <2>3. CASE Full /\ Overloaded(Count, cap) /\ cap < MaxCap /\ c = 2 * cap /\ b = 0
    BY <2>3, <1>1, <1>5 DEF Slots, EmptySlot, Count
  <2> QED
    BY <1>4, <2>1, <2>2, <2>3 DEF RoomFor
<1>9. rest + m + tombs' < c
  BY <1>1, <1>3, <1>5, <1>6, <1>7, <1>8
<1> QED
  BY <1>4, <1>5, <1>6, <1>7, <1>9 DEF Slots, EmptySlot, Count


(* Create: A new child is about to be registered, so it need not be killable
   yet. *)
LEMMA CreateKeeps ==
  ASSUME NEW t \in Threads, NEW p \in Pids, NEW o \in Calls,
         IInv, Create(t, p, o)
  PROVE  IInv'
<1>1. TypeOK'
  BY DEF IInv, TypeOK, Shape, Create, Call, At, table, PCs, Busy
<1>2. Shape'
  BY DEF IInv, TypeOK, Shape, Create, Call, At, table, Busy
<1>3. Ended'
  BY DEF IInv, Ended, Create, Call, At, table, Busy
<1>4. LiveIsOurs'
  BY DEF IInv, TypeOK, LiveIsOurs, Create, Call, At, table, Busy, Ours, Noting
<1>5. NoStranger'
  BY DEF IInv, NoStranger, Create, Call, At, table, Busy, Aims
<1>6. OwnKillable'
  BY DEF IInv, TypeOK, OwnKillable, Create, Call, At, table, Busy, Settling
<1>7. Slots'
  BY DEF IInv, Slots, Create, Call, At, table, Busy, EmptySlot, Count, Entries
<1> QED
  BY <1>1, <1>2, <1>3, <1>4, <1>5, <1>6, <1>7 DEF IInv

(* Register: The entry of the child is LIVE; if the child is gone by now the
   pid is noted as stale. *)
LEMMA RegisterKeeps ==
  ASSUME NEW t \in Threads,
         IInv, Register(t)
  PROVE  IInv'
<1>a. on[t] \in Pids /\ op[t] \in Creations
  BY DEF IInv, Shape, Register, At
<1>b. /\ At(t, "register") /\ UNCHANGED <<proc, todo>>
      /\ Put(on[t], Tag(op[t]))
      /\ piped' \in {piped, piped \cup {on[t]}}
  BY DEF Register
<1>c. \/ op[t] \in {"fork", "spawn"} /\ Return(t)
      \/ op[t] = "system" /\ Goto(t, "await")
      \/ op[t] = "popen" /\ Goto(t, "again")
  BY <1>a DEF Register, Creations
<1>d. Slots' /\ cap' \in Nat /\ tombs' \in 0 .. 1
  BY <1>a, <1>b, PutSlots DEF IInv
<1>e. /\ rest' = rest /\ lock' = lock
      /\ life' \in {life, [life EXCEPT ![on[t]] = "live"]}
      /\ stale' = IF life'[on[t]] = "live" /\ ~Ours(on[t]) THEN stale \cup {on[t]} ELSE stale
      /\ lost' = IF op[t] = "system" /\ life'[on[t]] = "reaped" THEN lost \cup {on[t]} ELSE lost
      /\ life'[on[t]] # "live" => op[t] = "system" /\ life'[on[t]] = "reaped"
  BY <1>a, <1>b DEF Put, Insert, Tag, IInv, TypeOK, Creations
<1>1. TypeOK'
  BY <1>a, <1>b, <1>c, <1>d, <1>e DEF IInv, TypeOK, Return, Goto, At, table,
     PCs
<1>2. Shape'
  BY <1>a, <1>b, <1>c, <1>d, <1>e DEF IInv, TypeOK, Shape, Return, Goto, At,
     table
<1>3. Ended'
  BY <1>a, <1>b, <1>c, <1>d, <1>e DEF IInv, TypeOK, Ended, Return, Goto, At,
     table
<1>4. LiveIsOurs'
  BY <1>a, <1>b, <1>c, <1>d, <1>e DEF IInv, TypeOK, LiveIsOurs, Return, Goto,
     At, table, Ours, Noting
<1>5. NoStranger'
  BY <1>a, <1>b, <1>c, <1>d, <1>e DEF IInv, TypeOK, NoStranger, Return, Goto,
     At, table, Aims
<1>6. OwnKillable'
  BY <1>a, <1>b, <1>c, <1>d, <1>e DEF IInv, TypeOK, OwnKillable, Return, Goto,
     At, table, Settling
<1>7. Slots'
  BY <1>d
<1> QED
  BY <1>1, <1>2, <1>3, <1>4, <1>5, <1>6, <1>7 DEF IInv

(* RegisterRefused: A child without an entry is given up by fork, or counted as
   lost. *)
LEMMA RegisterRefusedKeeps ==
  ASSUME NEW t \in Threads,
         IInv, RegisterRefused(t)
  PROVE  IInv'
<1>a. on[t] \in Pids /\ op[t] \in Creations
  BY DEF IInv, Shape, RegisterRefused, At
<1>b. /\ At(t, "register") /\ UNCHANGED <<proc, todo, piped>>
      /\ UNCHANGED <<table, stale>>
      /\ lost' = IF life[on[t]] = "live" THEN lost ELSE lost \cup {on[t]}
  BY DEF RegisterRefused, PutRefused
<1>c. \/ op[t] = "spawn" /\ Return(t)
      \/ op[t] = "system" /\ Goto(t, "await")
      \/ op[t] \in {"fork", "popen"} /\ Goto(t, "abort")
  BY <1>a DEF RegisterRefused, Creations
<1>1. TypeOK'
  BY <1>a, <1>b, <1>c DEF IInv, TypeOK, Shape, Return, Goto, At, table,
     Creations, Calls, PCs, Ours
<1>2. Shape'
  BY <1>a, <1>b, <1>c DEF IInv, TypeOK, Shape, Return, Goto, At, table
<1>3. Ended'
  BY <1>a, <1>b, <1>c DEF IInv, TypeOK, Ended, Return, Goto, At, table
<1>4. LiveIsOurs'
  BY <1>a, <1>b, <1>c DEF IInv, TypeOK, LiveIsOurs, Return, Goto, At, table,
     Ours, Noting
<1>5. NoStranger'
  BY <1>a, <1>b, <1>c DEF IInv, TypeOK, NoStranger, Return, Goto, At, table,
     Aims
<1>6. OwnKillable'
  BY <1>a, <1>b, <1>c DEF IInv, TypeOK, OwnKillable, Return, Goto, At, table,
     Settling
<1>7. Slots'
  BY <1>a, <1>b, <1>c DEF IInv, Slots, Return, Goto, At, table, EmptySlot,
     Count, Entries
<1> QED
  BY <1>1, <1>2, <1>3, <1>4, <1>5, <1>6, <1>7 DEF IInv

(* Again: popen registers its child once more, which a full table may refuse. *)
LEMMA AgainKeeps ==
  ASSUME NEW t \in Threads,
         IInv, Again(t)
  PROVE  IInv'
<1>1. TypeOK'
  BY DEF IInv, TypeOK, Shape, Again, Return, At, table, Put, PutRefused,
     Insert, PCs
<1>2. Shape'
  BY DEF IInv, TypeOK, Shape, Again, Return, At, table, Put, PutRefused, Insert
<1>3. Ended'
  BY DEF IInv, Ended, Again, Return, At, table, Put, PutRefused, Insert
<1>4. LiveIsOurs'
  BY DEF IInv, TypeOK, LiveIsOurs, Again, Return, At, table, Put, PutRefused,
     Insert, Ours, Noting
<1>5. NoStranger'
  BY DEF IInv, NoStranger, Again, Return, At, table, Put, PutRefused, Insert,
     Aims
<1>6. OwnKillable'
  BY DEF IInv, TypeOK, OwnKillable, Again, Return, At, table, Put, PutRefused,
     Insert, Settling
<1>7. Slots'
  <2>1. CASE Put(on[t], "SYSTEM")
    BY <2>1, PutSlots DEF IInv, Shape, Again, At
  <2>2. CASE PutRefused(on[t])
    BY <2>2 DEF IInv, PutRefused, table, Slots, EmptySlot, Count, Entries
  <2> QED
    BY <2>1, <2>2 DEF Again
<1> QED
  BY <1>1, <1>2, <1>3, <1>4, <1>5, <1>6, <1>7 DEF IInv

(* PutEvicts: Eviction drops tombstones only, before it blocks. *)
LEMMA PutEvictsKeeps ==
  ASSUME NEW t \in Threads,
         IInv, PutEvicts(t)
  PROVE  IInv'
<1>1. TypeOK'
  BY DEF IInv, TypeOK, PutEvicts, Goto, At, ghosts, PCs
<1>2. Shape'
  BY DEF IInv, Shape, PutEvicts, Goto, At, ghosts
<1>3. Ended'
  BY DEF IInv, Ended, PutEvicts, Goto, At, ghosts
<1>4. LiveIsOurs'
  BY DEF IInv, LiveIsOurs, PutEvicts, Goto, At, ghosts, Ours, Noting
<1>5. NoStranger'
  BY DEF IInv, NoStranger, PutEvicts, Goto, At, ghosts, Aims
<1>6. OwnKillable'
  BY DEF IInv, OwnKillable, PutEvicts, Goto, At, ghosts, Settling
<1>7. Slots'
  <2>1. Count \in Nat /\ Count' = Count
    <3>1. IsFiniteSet(Entries)
      BY LedgerAssumption, FS_Subset DEF Entries
    <3> QED
      BY <3>1, LedgerAssumption, FS_CardinalityType DEF IInv, TypeOK,
         PutEvicts, Count, Entries
  <2> QED
    BY <2>1 DEF IInv, TypeOK, PutEvicts, Slots, EmptySlot
<1> QED
  BY <1>1, <1>2, <1>3, <1>4, <1>5, <1>6, <1>7 DEF IInv

(* Abort: The child that fork gives up is killed through the kernel. *)
LEMMA AbortKeeps ==
  ASSUME NEW t \in Threads,
         IInv, Abort(t)
  PROVE  IInv'
<1>1. TypeOK'
  BY DEF IInv, TypeOK, Abort, Goto, At, table, ghosts, PCs
<1>2. Shape'
  BY DEF IInv, Shape, Abort, Goto, At, table, ghosts
<1>3. Ended'
  BY DEF IInv, Ended, Abort, Goto, At, table, ghosts
<1>4. LiveIsOurs'
  BY DEF IInv, LiveIsOurs, Abort, Goto, At, table, ghosts, Ours, Noting
<1>5. NoStranger'
  BY DEF IInv, NoStranger, Abort, Goto, At, table, ghosts, Aims
<1>6. OwnKillable'
  BY DEF IInv, TypeOK, OwnKillable, Abort, Goto, At, table, ghosts, Settling
<1>7. Slots'
  BY DEF IInv, Slots, Abort, Goto, At, table, ghosts, EmptySlot, Count, Entries
<1> QED
  BY <1>1, <1>2, <1>3, <1>4, <1>5, <1>6, <1>7 DEF IInv

(* Wait: The pid becomes free with its end still to be noted, or stale. *)
LEMMA WaitKeeps ==
  ASSUME NEW t \in Threads, NEW p \in Pids, NEW o \in Calls,
         IInv, Wait(t, p, o)
  PROVE  IInv'
<1>1. TypeOK'
  BY DEF IInv, TypeOK, Wait, Call, At, table, PCs
<1>2. Shape'
  BY DEF IInv, TypeOK, Shape, Wait, Call, At, table
<1>3. Ended'
  BY DEF IInv, TypeOK, Ended, Wait, Call, At, table
<1>4. LiveIsOurs'
  BY DEF IInv, TypeOK, LiveIsOurs, Wait, Call, At, table, Ours, Noting
<1>5. NoStranger'
  BY DEF IInv, TypeOK, NoStranger, Wait, Call, At, table, Aims
<1>6. OwnKillable'
  BY DEF IInv, TypeOK, OwnKillable, Wait, Call, At, table, Settling
<1>7. Slots'
  BY DEF IInv, Slots, Wait, Call, At, table, EmptySlot, Count, Entries
<1> QED
  BY <1>1, <1>2, <1>3, <1>4, <1>5, <1>6, <1>7 DEF IInv

(* Pclose: The stream is gone, the child is waited for by name. *)
LEMMA PcloseKeeps ==
  ASSUME NEW t \in Threads, NEW p \in Pids,
         IInv, Pclose(t, p)
  PROVE  IInv'
<1>1. TypeOK'
  BY LedgerAssumption DEF IInv, TypeOK, Pclose, Call, At, table, ghosts, PCs
<1>2. Shape'
  BY DEF IInv, TypeOK, Shape, Pclose, Call, At, table, ghosts
<1>3. Ended'
  BY DEF IInv, Ended, Pclose, Call, At, table, ghosts
<1>4. LiveIsOurs'
  BY DEF IInv, LiveIsOurs, Pclose, Call, At, table, ghosts, Ours, Noting
<1>5. NoStranger'
  BY DEF IInv, NoStranger, Pclose, Call, At, table, ghosts, Aims
<1>6. OwnKillable'
  BY DEF IInv, OwnKillable, Pclose, Call, At, table, ghosts, Settling
<1>7. Slots'
  BY DEF IInv, Slots, Pclose, Call, At, table, ghosts, EmptySlot, Count,
     Entries
<1> QED
  BY <1>1, <1>2, <1>3, <1>4, <1>5, <1>6, <1>7 DEF IInv

(* Await: A child that another thread has collected is nobody's to note. *)
LEMMA AwaitKeeps ==
  ASSUME NEW t \in Threads,
         IInv, Await(t)
  PROVE  IInv'
<1>1. TypeOK'
  BY DEF IInv, TypeOK, Await, Call, Return, Goto, At, table, ghosts, PCs
<1>2. Shape'
  BY DEF IInv, TypeOK, Shape, Await, Call, Return, Goto, At, table, ghosts
<1>3. Ended'
  BY DEF IInv, TypeOK, Shape, Ended, Await, Call, Return, Goto, At, table,
     ghosts, Ours
<1>4. LiveIsOurs'
  BY DEF IInv, TypeOK, LiveIsOurs, Await, Call, Return, Goto, At, table,
     ghosts, Ours, Noting
<1>5. NoStranger'
  BY DEF IInv, TypeOK, NoStranger, Await, Call, Return, Goto, At, table,
     ghosts, Aims
<1>6. OwnKillable'
  BY DEF IInv, TypeOK, OwnKillable, Await, Call, Return, Goto, At, table,
     ghosts, Settling
<1>7. Slots'
  BY DEF IInv, Slots, Await, Call, Return, Goto, At, table, ghosts, EmptySlot,
     Count, Entries
<1> QED
  BY <1>1, <1>2, <1>3, <1>4, <1>5, <1>6, <1>7 DEF IInv

(* Fallback: No shell in the guest: nothing is touched. *)
LEMMA FallbackKeeps ==
  ASSUME NEW t \in Threads,
         IInv, Fallback(t)
  PROVE  IInv'
<1>1. TypeOK'
  BY DEF IInv, TypeOK, Fallback, Call, At, table, ghosts, Creations, Calls, PCs
<1>2. Shape'
  BY DEF IInv, Shape, Fallback, Call, At, table, ghosts
<1>3. Ended'
  BY DEF IInv, Ended, Fallback, Call, At, table, ghosts
<1>4. LiveIsOurs'
  BY DEF IInv, LiveIsOurs, Fallback, Call, At, table, ghosts, Ours, Noting
<1>5. NoStranger'
  BY DEF IInv, NoStranger, Fallback, Call, At, table, ghosts, Aims
<1>6. OwnKillable'
  BY DEF IInv, OwnKillable, Fallback, Call, At, table, ghosts, Settling
<1>7. Slots'
  BY DEF IInv, Slots, Fallback, Call, At, table, ghosts, EmptySlot, Count,
     Entries
<1> QED
  BY <1>1, <1>2, <1>3, <1>4, <1>5, <1>6, <1>7 DEF IInv

(* RealSystem: The child of libc is unknown to the table unless its pid had a
   LIVE entry. *)
LEMMA RealSystemKeeps ==
  ASSUME NEW t \in Threads, NEW p \in Pids,
         IInv, RealSystem(t, p)
  PROVE  IInv'
<1>1. TypeOK'
  BY DEF IInv, TypeOK, Shape, RealSystem, Call, At, table, Creations, Calls,
     PCs, Busy
<1>2. Shape'
  BY DEF IInv, TypeOK, Shape, RealSystem, Call, At, table, Busy
<1>3. Ended'
  BY DEF IInv, Ended, RealSystem, Call, At, table, Busy
<1>4. LiveIsOurs'
  BY DEF IInv, TypeOK, LiveIsOurs, RealSystem, Call, At, table, Busy, Ours,
     Noting
<1>5. NoStranger'
  BY DEF IInv, NoStranger, RealSystem, Call, At, table, Busy, Aims
<1>6. OwnKillable'
  BY DEF IInv, OwnKillable, RealSystem, Call, At, table, Busy, Settling
<1>7. Slots'
  BY DEF IInv, Slots, RealSystem, Call, At, table, Busy, EmptySlot, Count,
     Entries
<1> QED
  BY <1>1, <1>2, <1>3, <1>4, <1>5, <1>6, <1>7 DEF IInv

(* InnerWait: The end of the child of libc is not noted. *)
LEMMA InnerWaitKeeps ==
  ASSUME NEW t \in Threads,
         IInv, InnerWait(t)
  PROVE  IInv'
<1>1. TypeOK'
  BY DEF IInv, TypeOK, Shape, InnerWait, Return, At, table, PCs
<1>2. Shape'
  BY DEF IInv, TypeOK, Shape, InnerWait, Return, At, table
<1>3. Ended'
  BY DEF IInv, TypeOK, Shape, Ended, InnerWait, Return, At, table
<1>4. LiveIsOurs'
  BY DEF IInv, TypeOK, LiveIsOurs, InnerWait, Return, At, table, Ours, Noting
<1>5. NoStranger'
  BY DEF IInv, TypeOK, NoStranger, InnerWait, Return, At, table, Aims
<1>6. OwnKillable'
  BY DEF IInv, TypeOK, OwnKillable, InnerWait, Return, At, table, Settling
<1>7. Slots'
  BY DEF IInv, Slots, InnerWait, Return, At, table, EmptySlot, Count, Entries
<1> QED
  BY <1>1, <1>2, <1>3, <1>4, <1>5, <1>6, <1>7 DEF IInv

(* Note: The pid is still free when its entry is marked. *)
LEMMA NoteKeeps ==
  ASSUME NEW t \in Threads,
         IInv, Note(t)
  PROVE  IInv'
<1>1. TypeOK'
  BY DEF IInv, TypeOK, Shape, Note, Return, Goto, At, ghosts, Reap, PCs
<1>2. Shape'
  BY DEF IInv, TypeOK, Shape, Note, Return, Goto, At, ghosts, Reap
<1>3. Ended'
  BY DEF IInv, TypeOK, Ended, Note, Return, Goto, At, ghosts, Reap
<1>4. LiveIsOurs'
  BY DEF IInv, TypeOK, LiveIsOurs, Note, Return, Goto, At, ghosts, Reap, Ours,
     Noting
<1>5. NoStranger'
  BY DEF IInv, TypeOK, NoStranger, Note, Return, Goto, At, ghosts, Reap, Aims
<1>6. OwnKillable'
  BY DEF IInv, TypeOK, Ended, OwnKillable, Note, Return, Goto, At, ghosts,
     Reap, Settling
<1>7. Slots'
  BY ReapSlots DEF IInv, Note, Shape, At
<1> QED
  BY <1>1, <1>2, <1>3, <1>4, <1>5, <1>6, <1>7 DEF IInv

(* Twice: Marking once more harms no running child, for the call is about the
   pid. *)
LEMMA TwiceKeeps ==
  ASSUME NEW t \in Threads,
         IInv, Twice(t)
  PROVE  IInv'
<1>1. TypeOK'
  BY DEF IInv, TypeOK, Shape, Twice, Return, At, ghosts, Reap, PCs
<1>2. Shape'
  BY DEF IInv, TypeOK, Shape, Twice, Return, At, ghosts, Reap
<1>3. Ended'
  BY DEF IInv, TypeOK, Ended, Twice, Return, At, ghosts, Reap
<1>4. LiveIsOurs'
  BY DEF IInv, LiveIsOurs, Twice, Return, At, ghosts, Reap, Ours, Noting
<1>5. NoStranger'
  BY DEF IInv, NoStranger, Twice, Return, At, ghosts, Reap, Aims
<1>6. OwnKillable'
  BY DEF IInv, Ended, OwnKillable, Twice, Return, At, ghosts, Reap, Settling
<1>7. Slots'
  BY ReapSlots DEF IInv, Twice, Shape, At
<1> QED
  BY <1>1, <1>2, <1>3, <1>4, <1>5, <1>6, <1>7 DEF IInv

(* KillBegin: A LIVE entry is about a child or is stale: the signal is not for
   a stranger. *)
LEMMA KillBeginKeeps ==
  ASSUME NEW t \in Threads, NEW p \in Pids, NEW o \in Calls,
         IInv, KillBegin(t, p, o)
  PROVE  IInv'
<1>1. TypeOK'
  BY DEF IInv, TypeOK, KillBegin, Call, At, table, ghosts, PCs, MayKill
<1>2. Shape'
  BY DEF IInv, TypeOK, Shape, KillBegin, Call, At, table, ghosts, MayKill
<1>3. Ended'
  BY DEF IInv, Ended, KillBegin, Call, At, table, ghosts, MayKill
<1>4. LiveIsOurs'
  BY DEF IInv, LiveIsOurs, KillBegin, Call, At, table, ghosts, Ours, MayKill,
     Noting
<1>5. NoStranger'
  BY DEF IInv, TypeOK, NoStranger, KillBegin, Call, At, table, ghosts, MayKill,
     Aims, LiveIsOurs, Noting, Ended, Ours
<1>6. OwnKillable'
  BY DEF IInv, OwnKillable, KillBegin, Call, At, table, ghosts, MayKill,
     Settling
<1>7. Slots'
  BY DEF IInv, Slots, KillBegin, Call, At, table, ghosts, MayKill, EmptySlot,
     Count, Entries
<1> QED
  BY <1>1, <1>2, <1>3, <1>4, <1>5, <1>6, <1>7 DEF IInv

(* Mark: The child loses its entry only while the signal is on its way. *)
LEMMA MarkKeeps ==
  ASSUME NEW t \in Threads,
         IInv, Mark(t)
  PROVE  IInv'
<1>1. TypeOK'
  BY DEF IInv, TypeOK, Mark, Goto, At, ghosts, Reap, PCs
<1>2. Shape'
  BY DEF IInv, Shape, Mark, Goto, At, ghosts, Reap
<1>3. Ended'
  BY DEF IInv, Ended, Mark, Goto, At, ghosts, Reap
<1>4. LiveIsOurs'
  BY DEF IInv, LiveIsOurs, Mark, Goto, At, ghosts, Reap, Ours, Noting
<1>5. NoStranger'
  BY DEF IInv, NoStranger, Mark, Goto, At, ghosts, Reap, Aims
<1>6. OwnKillable'
  BY DEF IInv, TypeOK, Shape, OwnKillable, Mark, Goto, At, ghosts, Reap,
     Settling
<1>7. Slots'
  BY ReapSlots DEF IInv, Mark, Shape, At
<1> QED
  BY <1>1, <1>2, <1>3, <1>4, <1>5, <1>6, <1>7 DEF IInv

(* Deliver: The signal ends the child or does nothing. *)
LEMMA DeliverKeeps ==
  ASSUME NEW t \in Threads,
         IInv, Deliver(t)
  PROVE  IInv'
<1>1. TypeOK'
  BY DEF IInv, TypeOK, Deliver, Return, At, table, ghosts, PCs
<1>2. Shape'
  BY DEF IInv, TypeOK, Shape, Deliver, Return, At, table, ghosts
<1>3. Ended'
  BY DEF IInv, TypeOK, Shape, Ended, Deliver, Return, At, table, ghosts
<1>4. LiveIsOurs'
  BY DEF IInv, TypeOK, LiveIsOurs, Deliver, Return, At, table, ghosts, Ours,
     Noting
<1>5. NoStranger'
  BY DEF IInv, TypeOK, NoStranger, Deliver, Return, At, table, ghosts, Aims
<1>6. OwnKillable'
  BY DEF IInv, TypeOK, OwnKillable, Deliver, Return, At, table, ghosts,
     Settling
<1>7. Slots'
  BY DEF IInv, Slots, Deliver, Return, At, table, ghosts, EmptySlot, Count,
     Entries
<1> QED
  BY <1>1, <1>2, <1>3, <1>4, <1>5, <1>6, <1>7 DEF IInv

(* ExitBegin: What is copied is LIVE, hence a child or stale. *)
LEMMA ExitBeginKeeps ==
  ASSUME NEW t \in Threads,
         IInv, ExitBegin(t)
  PROVE  IInv'
<1>1. TypeOK'
  BY DEF IInv, TypeOK, ExitBegin, Call, At, table, ghosts, Calls, PCs
<1>2. Shape'
  BY DEF IInv, Shape, ExitBegin, Call, At, table, ghosts
<1>3. Ended'
  BY DEF IInv, Ended, ExitBegin, Call, At, table, ghosts
<1>4. LiveIsOurs'
  BY DEF IInv, LiveIsOurs, ExitBegin, Call, At, table, ghosts, Ours, Noting
<1>5. NoStranger'
  BY DEF IInv, NoStranger, ExitBegin, Call, At, table, ghosts, Aims,
     LiveIsOurs, Noting, Ended, Ours
<1>6. OwnKillable'
  BY DEF IInv, OwnKillable, ExitBegin, Call, At, table, ghosts, Settling
<1>7. Slots'
  BY DEF IInv, Slots, ExitBegin, Call, At, table, ghosts, EmptySlot, Count,
     Entries
<1> QED
  BY <1>1, <1>2, <1>3, <1>4, <1>5, <1>6, <1>7 DEF IInv

(* ExitKill: One pid after the other leaves the copy. *)
LEMMA ExitKillKeeps ==
  ASSUME NEW t \in Threads, NEW p \in Pids,
         IInv, ExitKill(t, p)
  PROVE  IInv'
<1>1. TypeOK'
  BY DEF IInv, TypeOK, ExitKill, Call, At, table, ghosts, Calls, PCs
<1>2. Shape'
  BY DEF IInv, TypeOK, Shape, ExitKill, Call, At, table, ghosts
<1>3. Ended'
  BY DEF IInv, TypeOK, Shape, Ended, ExitKill, Call, At, table, ghosts
<1>4. LiveIsOurs'
  BY DEF IInv, TypeOK, LiveIsOurs, ExitKill, Call, At, table, ghosts, Ours,
     Noting
<1>5. NoStranger'
  BY DEF IInv, TypeOK, NoStranger, ExitKill, Call, At, table, ghosts, Aims
<1>6. OwnKillable'
  BY DEF IInv, TypeOK, OwnKillable, ExitKill, Call, At, table, ghosts, Settling
<1>7. Slots'
  BY DEF IInv, Slots, ExitKill, Call, At, table, ghosts, EmptySlot, Count,
     Entries
<1> QED
  BY <1>1, <1>2, <1>3, <1>4, <1>5, <1>6, <1>7 DEF IInv

(* ExitNote: The pid is marked after the kill. *)
LEMMA ExitNoteKeeps ==
  ASSUME NEW t \in Threads,
         IInv, ExitNote(t)
  PROVE  IInv'
<1>1. TypeOK'
  BY DEF IInv, TypeOK, ExitNote, Call, At, ghosts, Reap, Calls, PCs
<1>2. Shape'
  BY DEF IInv, TypeOK, Shape, ExitNote, Call, At, ghosts, Reap
<1>3. Ended'
  BY DEF IInv, TypeOK, Ended, ExitNote, Call, At, ghosts, Reap
<1>4. LiveIsOurs'
  BY DEF IInv, LiveIsOurs, ExitNote, Call, At, ghosts, Reap, Ours, Noting
<1>5. NoStranger'
  BY DEF IInv, NoStranger, ExitNote, Call, At, ghosts, Reap, Aims
<1>6. OwnKillable'
  BY DEF IInv, Ended, OwnKillable, ExitNote, Call, At, ghosts, Reap, Settling
<1>7. Slots'
  BY ReapSlots DEF IInv, ExitNote, Shape, At
<1> QED
  BY <1>1, <1>2, <1>3, <1>4, <1>5, <1>6, <1>7 DEF IInv

(* ExitEnd: The process is gone. *)
LEMMA ExitEndKeeps ==
  ASSUME NEW t \in Threads,
         IInv, ExitEnd(t)
  PROVE  IInv'
<1>1. TypeOK'
  BY DEF IInv, TypeOK, ExitEnd, Goto, At, table, ghosts, PCs
<1>2. Shape'
  BY DEF IInv, Shape, ExitEnd, Goto, At, table, ghosts
<1>3. Ended'
  BY DEF IInv, Ended, ExitEnd, Goto, At, table, ghosts
<1>4. LiveIsOurs'
  BY DEF IInv, LiveIsOurs, ExitEnd, Goto, At, table, ghosts, Ours, Noting
<1>5. NoStranger'
  BY DEF IInv, NoStranger, ExitEnd, Goto, At, table, ghosts, Aims
<1>6. OwnKillable'
  BY DEF IInv, OwnKillable, ExitEnd, Goto, At, table, ghosts, Settling
<1>7. Slots'
  BY DEF IInv, Slots, ExitEnd, Goto, At, table, ghosts, EmptySlot, Count,
     Entries
<1> QED
  BY <1>1, <1>2, <1>3, <1>4, <1>5, <1>6, <1>7 DEF IInv

(* ChildExits: A zombie is still a child of this process. *)
LEMMA ChildExitsKeeps ==
  ASSUME NEW p \in Pids,
         IInv, ChildExits(p)
  PROVE  IInv'
<1>1. TypeOK'
  BY DEF IInv, TypeOK, ChildExits, table, ghosts
<1>2. Shape'
  BY DEF IInv, Shape, ChildExits, table, ghosts
<1>3. Ended'
  BY DEF IInv, Ended, ChildExits, table, ghosts
<1>4. LiveIsOurs'
  BY DEF IInv, LiveIsOurs, ChildExits, table, ghosts, Ours, Noting
<1>5. NoStranger'
  BY DEF IInv, NoStranger, ChildExits, table, ghosts, Aims
<1>6. OwnKillable'
  BY DEF IInv, OwnKillable, ChildExits, table, ghosts, Settling
<1>7. Slots'
  BY DEF IInv, Slots, ChildExits, table, ghosts, EmptySlot, Count, Entries
<1> QED
  BY <1>1, <1>2, <1>3, <1>4, <1>5, <1>6, <1>7 DEF IInv

(* StrangerComes: The kernel takes only pids that no call is about. *)
LEMMA StrangerComesKeeps ==
  ASSUME NEW p \in Pids,
         IInv, StrangerComes(p)
  PROVE  IInv'
<1>1. TypeOK'
  BY DEF IInv, TypeOK, StrangerComes, table, ghosts, Busy
<1>2. Shape'
  BY DEF IInv, Shape, StrangerComes, table, ghosts, Busy
<1>3. Ended'
  BY DEF IInv, Ended, StrangerComes, table, ghosts, Busy
<1>4. LiveIsOurs'
  BY DEF IInv, LiveIsOurs, StrangerComes, table, ghosts, Busy, Ours, Noting
<1>5. NoStranger'
  BY DEF IInv, NoStranger, StrangerComes, table, ghosts, Busy, Aims
<1>6. OwnKillable'
  BY DEF IInv, OwnKillable, StrangerComes, table, ghosts, Busy, Settling
<1>7. Slots'
  BY DEF IInv, Slots, StrangerComes, table, ghosts, Busy, EmptySlot, Count,
     Entries
<1> QED
  BY <1>1, <1>2, <1>3, <1>4, <1>5, <1>6, <1>7 DEF IInv

(* StrangerGoes: A stranger that ends leaves nothing behind. *)
LEMMA StrangerGoesKeeps ==
  ASSUME NEW p \in Pids,
         IInv, StrangerGoes(p)
  PROVE  IInv'
<1>1. TypeOK'
  BY DEF IInv, TypeOK, StrangerGoes, table, ghosts
<1>2. Shape'
  BY DEF IInv, Shape, StrangerGoes, table, ghosts
<1>3. Ended'
  BY DEF IInv, Ended, StrangerGoes, table, ghosts
<1>4. LiveIsOurs'
  BY DEF IInv, LiveIsOurs, StrangerGoes, table, ghosts, Ours, Noting
<1>5. NoStranger'
  BY DEF IInv, NoStranger, StrangerGoes, table, ghosts, Aims
<1>6. OwnKillable'
  BY DEF IInv, OwnKillable, StrangerGoes, table, ghosts, Settling
<1>7. Slots'
  BY DEF IInv, Slots, StrangerGoes, table, ghosts, EmptySlot, Count, Entries
<1> QED
  BY <1>1, <1>2, <1>3, <1>4, <1>5, <1>6, <1>7 DEF IInv

(* Every step keeps the inductive invariant. *)
LEMMA NextKeeps == IInv /\ [Next]_vars => IInv'
<1> SUFFICES ASSUME IInv, [Next]_vars PROVE IInv'
  OBVIOUS
<1>1. ASSUME NEW t \in Threads, NEW p \in Pids, Begin(t, p) PROVE IInv'
  BY <1>1, CreateKeeps, WaitKeeps, KillBeginKeeps, PcloseKeeps DEF Begin
<1>2. ASSUME NEW t \in Threads, NEW p \in Pids, RealSystem(t, p) PROVE IInv'
  BY <1>2, RealSystemKeeps
<1>3. ASSUME NEW t \in Threads, Continue(t) PROVE IInv'
  BY <1>3, RegisterKeeps, RegisterRefusedKeeps, AgainKeeps, PutEvictsKeeps,
     AbortKeeps, NoteKeeps, TwiceKeeps, MarkKeeps, DeliverKeeps, ExitKillKeeps,
     ExitNoteKeeps, ExitEndKeeps DEF Continue
<1>4. ASSUME NEW t \in Threads,
             Await(t) \/ InnerWait(t) \/ Fallback(t) \/ ExitBegin(t)
      PROVE  IInv'
  BY <1>4, AwaitKeeps, InnerWaitKeeps, FallbackKeeps, ExitBeginKeeps
<1>5. ASSUME NEW p \in Pids, ChildExits(p) \/ StrangerComes(p) \/ StrangerGoes(p)
      PROVE  IInv'
  BY <1>5, ChildExitsKeeps, StrangerComesKeeps, StrangerGoesKeeps
<1>6. CASE UNCHANGED vars
  BY <1>6 DEF vars, table, ghosts, IInv, TypeOK, Shape, Ended, LiveIsOurs, Noting,
     Ours, NoStranger, Aims, OwnKillable, Settling, Slots, EmptySlot, Count, Entries
<1> QED
  BY <1>1, <1>2, <1>3, <1>4, <1>5, <1>6 DEF Next

(* A new image has its own entry only; a forked child has its parent's table,
   whose LIVE pids are stale from the start. *)
LEMMA InitKeeps == Init => IInv
<1> SUFFICES ASSUME Init PROVE IInv
  OBVIOUS
<1>1. TypeOK
  BY LedgerAssumption DEF Init, TypeOK, PCs
<1>2. Shape /\ Ended /\ LiveIsOurs /\ NoStranger /\ OwnKillable
  BY <1>1, LedgerAssumption DEF Init, TypeOK, Shape, Ended, LiveIsOurs, NoStranger,
     Aims, OwnKillable
<1>3. Slots
  BY LedgerAssumption DEF Init, Slots, EmptySlot
<1> QED
  BY <1>1, <1>2, <1>3 DEF IInv

(* The inductive invariant holds in every behaviour. *)
THEOREM LedgerInvariant == Spec => []IInv
  BY InitKeeps, NextKeeps, PTL DEF Spec

(* The table and the threads keep their types; tombstones are never counted
   below
   zero (px_ledger_put). *)
THEOREM LedgerTypeOK == Spec => []TypeOK
<1>1. IInv => TypeOK
  BY DEF IInv
<1> QED
  BY <1>1, LedgerInvariant, PTL

(* The table always has an empty slot, so px_probe ends. *)
THEOREM LedgerEmptySlot == Spec => []EmptySlot
<1>1. IInv => EmptySlot
  BY DEF IInv, Slots
<1> QED
  BY <1>1, LedgerInvariant, PTL

(* A LIVE entry is about a child of this process, or about one whose end no wait
   has noted (px_note_reaped). *)
THEOREM LedgerLiveIsOurs == Spec => []LiveIsOurs
<1>1. IInv => LiveIsOurs
  BY DEF IInv
<1> QED
  BY <1>1, LedgerInvariant, PTL

(* px_check_kill lets no signal through to a stranger, but for those entries. *)
THEOREM LedgerNoStranger == Spec => []NoStranger
<1>1. IInv => NoStranger
  BY DEF IInv
<1> QED
  BY <1>1, LedgerInvariant, PTL

(* A child that has been registered and runs is LIVE in the table until it is
   killed, also when its pid had a REAPED entry. *)
THEOREM LedgerOwnKillable == Spec => []OwnKillable
<1>1. IInv => OwnKillable
  BY DEF IInv
<1> QED
  BY <1>1, LedgerInvariant, PTL

(* The table has its type and an empty slot, and a LIVE entry is about a child
   of this process or about one whose end no wait has noted. *)
THEOREM LedgerIsSound == Spec => []LedgerSound
<1>1. TypeOK /\ EmptySlot /\ LiveIsOurs => LedgerSound
  BY DEF LedgerSound
<1> QED
  BY LedgerTypeOK, LedgerEmptySlot, LedgerLiveIsOurs, <1>1, PTL
=============================================================================
