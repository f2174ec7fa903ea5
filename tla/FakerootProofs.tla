--------------------------- MODULE FakerootProofs ---------------------------
(* Proofs about Fakeroot, for any table, any files and any number of threads. *)
EXTENDS Fakeroot, FiniteSetTheorems, SequenceTheorems,
  WellFoundedInduction, TLAPS

LocksType ==
  /\ lock \in [Tables -> 0 .. 1]
  /\ depth \in [Threads -> Nat]
  /\ loc \in [Threads -> [pc : PCs, map : Tables, key : Keys \cup {NoKey},
                          req : Ownerships]]

(* A thread that is inside the table of its operand. *)
In(t) == loc[t].pc \notin {"idle", "lock", "gone"}

(* The counter of a thread is the number of locks it will still release. *)
Depths ==
  \A t \in Threads :
    depth[t] = IF ~In(t) THEN 0 ELSE IF At(t, "evicted") THEN 2 ELSE 1

(* The lock of a table that a thread is inside is taken ... *)
Taken == \A t \in Threads : In(t) => lock[loc[t].map] = 1

(* ... and no other thread is. *)
Apart ==
  \A t, u \in Threads :
    In(t) /\ In(u) /\ loc[t].map = loc[u].map => t = u

IInv == LocksType /\ Depths /\ Taken /\ Apart

-----------------------------------------------------------------------------

LEMMA InitIInv == Init => IInv
BY FakerootAssumption DEF Init, IInv, LocksType, Depths, Taken, Apart, In, At,
  Idle, Unknown, PCs, Tables, Ownerships

(* A step inside a table that keeps the locks, and the thread inside. *)
LEMMA StepInside ==
  ASSUME IInv, NEW t \in Threads, NEW l \in PCs \ {"idle", "lock", "gone", "evicted"},
         In(t), ~At(t, "evicted"), UNCHANGED locks, Goto(t, l) \/ UNCHANGED loc
  PROVE  IInv'
<1> USE DEF IInv, LocksType, In, At, Goto, locks
<1>1. LocksType'
  OBVIOUS
<1>2. /\ \A u \in Threads : In(u)' = In(u) /\ At(u, "evicted")' = At(u, "evicted")
      /\ \A u \in Threads : loc'[u].map = loc[u].map
  OBVIOUS
<1>3. Depths'
  BY <1>2 DEF Depths
<1>4. Taken'
  BY <1>2 DEF Taken
<1>5. Apart'
  BY <1>2 DEF Apart
<1> QED BY <1>1, <1>3, <1>4, <1>5

LEMMA NextIInv == IInv /\ [Next]_vars => IInv'
<1> SUFFICES ASSUME IInv, [Next]_vars PROVE IInv'
  OBVIOUS
<1> USE FakerootAssumption
<1>1. ASSUME NEW t \in Threads, NEW c \in Calls[t], Chown(t, c[1], c[2])
      PROVE  IInv'
  <2>1. c[1] \in Keys /\ c[2] \in Ownerships
    OBVIOUS
  <2> QED
    BY <1>1, <2>1 DEF Chown, IInv, LocksType, Depths, Taken, Apart, In, At, locks,
      PCs, Tables
<1>2. ASSUME NEW t \in Threads, NEW k \in Keys, Stat(t, k) PROVE IInv'
  <2> DEFINE e == [Idle EXCEPT !.pc = "lock", !.key = k]
  <2>1. /\ e \in [pc : PCs, map : Tables, key : Keys \cup {NoKey}, req : Ownerships]
        /\ e.pc = "lock"
    BY DEF Idle, Unknown, Ownerships, PCs, Tables
  <2>2. /\ LocksType /\ Depths /\ Taken /\ Apart /\ UNCHANGED locks /\ ~In(t)
        /\ loc' = [loc EXCEPT ![t] = e]
    BY <1>2 DEF Stat, IInv, In, At
  <2> HIDE DEF e
  <2>3. ~In(t)' /\ \A u \in Threads \ {t} : loc'[u] = loc[u] /\ (In(u)' <=> In(u))
    BY <2>1, <2>2 DEF In, LocksType
  <2>4. LocksType'
    BY <2>1, <2>2 DEF LocksType, locks
  <2>5. Depths' /\ Taken' /\ Apart'
    BY <2>1, <2>2, <2>3 DEF Depths, Taken, Apart, LocksType, locks, At, In
  <2> QED BY <2>4, <2>5 DEF IInv
<1>3. ASSUME NEW t \in Threads, Lock(t) PROVE IInv'
  <2> USE DEF IInv, LocksType, In, At
  <2>1. depth[t] = 0 /\ lock[loc[t].map] = 0
    BY <1>3 DEF Lock, Acquire, Depths
  <2>2. \A u \in Threads : In(u) => loc[u].map # loc[t].map
    BY <2>1 DEF Taken
  <2>3. /\ lock' = [lock EXCEPT ![loc[t].map] = 1]
        /\ depth' = [depth EXCEPT ![t] = 1]
    BY <1>3, <2>1 DEF Lock, Acquire
  <2>4. \E l \in {"unlock", "get", "update"} : loc' = [loc EXCEPT ![t].pc = l]
    BY <1>3 DEF Lock, Goto
  <2>5. LocksType'
    BY <2>3, <2>4 DEF PCs
  <2>6. Depths'
    BY <2>3, <2>4 DEF Depths
  <2>7. Taken'
    BY <2>3, <2>4 DEF Taken
  <2>8. Apart'
    BY <2>2, <2>4 DEF Apart
  <2> QED BY <2>5, <2>6, <2>7, <2>8
<1>4. ASSUME NEW t \in Threads, Inside(t) PROVE IInv'
  <2>1. CASE Unlock(t)
    <3> USE DEF IInv, LocksType, In, At
    <3>1. depth[t] = 1
      BY <2>1 DEF Unlock, Depths
    <3>2. /\ lock' = [lock EXCEPT ![loc[t].map] = 0]
          /\ depth' = [depth EXCEPT ![t] = 0]
      BY <2>1, <3>1 DEF Unlock, Release
    <3> DEFINE next == IF loc[t].map = "by_path"
                       THEN [loc[t] EXCEPT !.pc = "lock", !.map = "by_inode"]
                       ELSE Idle
    <3>3. Idle \in [pc : PCs, map : Tables, key : Keys \cup {NoKey}, req : Ownerships]
      BY DEF Idle, Unknown, Ownerships, PCs, Tables
    <3>4. /\ next \in [pc : PCs, map : Tables, key : Keys \cup {NoKey}, req : Ownerships]
          /\ next.pc \in {"lock", "idle"}
      <4>1. CASE loc[t].map = "by_path"
        BY <4>1 DEF PCs, Tables
      <4>2. CASE loc[t].map # "by_path"
        BY <4>2, <3>3 DEF Idle
      <4> QED BY <4>1, <4>2
    <3>5. loc' = [loc EXCEPT ![t] = next]
      BY <2>1 DEF Unlock
    <3> HIDE DEF next
    <3>6. /\ loc'[t].pc \in {"lock", "idle"}
          /\ \A u \in Threads \ {t} : loc'[u] = loc[u]
      BY <3>4, <3>5
    <3>7. LocksType'
      BY <3>2, <3>4, <3>5
    <3>8. Depths'
      BY <3>2, <3>6 DEF Depths
    <3>9. \A u \in Threads \ {t} : In(u) => loc[u].map # loc[t].map
      BY <2>1 DEF Unlock, Apart
    <3>10. Taken'
      BY <3>2, <3>6, <3>9 DEF Taken
    <3>11. Apart'
      BY <3>6 DEF Apart
    <3> QED BY <3>7, <3>8, <3>10, <3>11
  <2>2. CASE EvictLru(t)
    <3> USE DEF IInv, LocksType, In, At
    <3>1. depth[t] = 1
      BY <2>2 DEF EvictLru, Depths
    <3>2. lock' = lock /\ depth' = [depth EXCEPT ![t] = 2]
      BY <2>2, <3>1 DEF EvictLru, Acquire
    <3>3. loc' = [loc EXCEPT ![t].pc = "evicted"] /\ loc[t].pc = "evict"
      BY <2>2 DEF EvictLru, Goto
    <3>4. LocksType'
      BY <3>2, <3>3 DEF PCs
    <3> QED BY <3>2, <3>3, <3>4 DEF Depths, Taken, Apart
  <2>3. CASE Evicted(t)
    <3> USE DEF IInv, LocksType, In, At
    <3>1. depth[t] = 2
      BY <2>3 DEF Evicted, Depths
    <3>2. lock' = lock /\ depth' = [depth EXCEPT ![t] = 1]
      BY <2>3, <3>1 DEF Evicted, Release
    <3>3. loc' = [loc EXCEPT ![t].pc = "insert"] /\ loc[t].pc = "evicted"
      BY <2>3 DEF Evicted, Goto
    <3>4. LocksType'
      BY <3>2, <3>3 DEF PCs
    <3> QED BY <3>2, <3>3, <3>4 DEF Depths, Taken, Apart
  <2>4. CASE Get(t)
    BY <2>4, StepInside DEF Get, At, In, PCs
  <2>5. CASE Update(t)
    BY <2>5, StepInside DEF Update, At, In, PCs
  <2>6. CASE Put(t)
    BY <2>6, StepInside DEF Put, At, In, PCs
  <2>7. CASE PutFails(t)
    BY <2>7, StepInside DEF PutFails, At, In, PCs
  <2>8. CASE Compact(t)
    BY <2>8, StepInside DEF Compact, At, In, PCs
  <2>9. CASE Load(t)
    BY <2>9, StepInside DEF Load, At, In, PCs
  <2>10. CASE Insert(t)
    BY <2>10, StepInside DEF Insert, At, In, PCs
  <2> QED
    BY <1>4, <2>1, <2>2, <2>3, <2>4, <2>5, <2>6, <2>7, <2>8, <2>9, <2>10 DEF Inside
<1>5. ASSUME NEW t \in Threads, Fork(t) PROVE IInv'
  BY <1>5 DEF Fork, IInv, LocksType, Depths, Taken, Apart, In, At, PCs, Tables,
    Idle, Unknown, Ownerships
<1>6. CASE UNCHANGED vars
  BY <1>6 DEF vars, locks, IInv, LocksType, Depths, Taken, Apart, In, At
<1> QED BY <1>1, <1>2, <1>3, <1>4, <1>5, <1>6 DEF Next

LEMMA SpecIInv == Spec => []IInv
BY InitIInv, NextIInv, PTL DEF Spec

(* One thread at a time reads or changes a table, and its lock is taken the
   while, through re-entrant calls and fork (fakeroot.c:245-285, 1036). *)
THEOREM FakerootOneInside == Spec => []OneInside
<1>1. IInv => OneInside
  <2> SUFFICES ASSUME IInv, NEW m \in Tables
               PROVE  /\ Cardinality(Holders(m)) <= 1
                      /\ Holders(m) # {} => lock[m] = 1
    BY DEF OneInside
  <2>1. CASE Holders(m) = {}
    <3>1. Cardinality({}) = 0
      BY FS_EmptySet
    <3> QED BY <2>1, <3>1
  <2>2. CASE Holders(m) # {}
    <3> PICK t \in Threads : loc[t].map = m /\ In(t)
      BY <2>2 DEF Holders, In
    <3>1. Holders(m) = {t}
      BY DEF IInv, Apart, Holders, In
    <3>2. Cardinality({t}) = 1
      BY FS_Singleton
    <3>3. lock[m] = 1
      BY DEF IInv, Taken
    <3> QED BY <3>1, <3>2, <3>3
  <2> QED BY <2>1, <2>2
<1> QED BY SpecIInv, <1>1, PTL

-----------------------------------------------------------------------------
(* The invariant of the inode table. *)

Stored(k) == \E i \in Slots : slot[i] = k
Left(k) == \E i \in DOMAIN old : old[i] = k
Aged(k) == \E p \in 1 .. Len(age) : age[p] = k

Full == {i \in Slots : slot[i] \in Keys}
Graves == {i \in Slots : slot[i] = Tomb}

TableType ==
  /\ slot \in [Slots -> Keys \cup {Empty, Tomb}]
  /\ rec \in [Keys -> Ownerships]
  /\ age \in Seq(Keys)
  /\ count \in Int /\ tombs \in Int
  /\ DOMAIN old \subseteq Slots /\ \A i \in DOMAIN old : old[i] \in Keys
  /\ old = [i \in DOMAIN old |-> old[i]]
  /\ refused \in 0 .. MaxRefused

Inner == {"get", "update", "put", "compact", "load", "evict", "evicted", "insert"}
Adding == {"put", "compact", "load", "evict", "evicted", "insert"}

(* What a call works on: inside the path table it only has the lock.       *)
Operands ==
  \A t \in Threads :
    /\ loc[t].pc \notin {"idle", "gone"} => loc[t].key \in Keys
    /\ loc[t].pc \notin {"idle", "gone"} /\ loc[t].req # Unknown
         => <<loc[t].key, loc[t].req>> \in Calls[t]
    /\ loc[t].pc \in Adding \cup {"update"} => loc[t].req # Unknown
    /\ loc[t].pc \in Inner => loc[t].map = "by_inode"

(* A search for k that has come to slot i passes it neither by an empty    *)
(* slot nor by another entry of k.                                         *)
Reached(k, i) ==
  \E n \in Slots :
    Visit(k, n) = i /\ \A m \in 0 .. n - 1 : slot[Visit(k, m)] \notin {Empty, k}

Searches ==
  /\ \A i \in Full : Reached(slot[i], i)
  /\ \A i, j \in Full : slot[i] = slot[j] => i = j

Counters ==
  /\ count = Cardinality(Full) /\ tombs = Cardinality(Graves)
  /\ count + Cardinality(DOMAIN old) <= Cap

(* The order of age is of the entries, in the table or about to be.        *)
Ages ==
  /\ \A p, q \in 1 .. Len(age) : age[p] = age[q] => p = q
  /\ \A k \in Keys : Aged(k) <=> Stored(k) \/ Left(k)

(* A compaction is by the thread that has the lock - or by one that a fork *)
(* left behind, and then nobody gets in again.                             *)
Compaction ==
  /\ \A i, j \in DOMAIN old : old[i] = old[j] => i = j
  /\ \A k \in Keys : Left(k) => ~Stored(k)
  /\ DOMAIN old # {} =>
       /\ lock["by_inode"] = 1
       /\ \A t \in Threads : loc[t].pc \in Inner \cup {"unlock"} /\ loc[t].map = "by_inode"
                               => At(t, "compact")
  /\ \A t \in Threads : At(t, "compact") => tombs = 0

(* Who adds an entry has found none, and comes to the last step with room. *)
Absent == \A t \in Threads : loc[t].pc \in Adding => ~Aged(loc[t].key)
Room ==
  /\ \A t \in Threads : At(t, "evict") => Overloaded
  /\ \A t \in Threads : loc[t].pc \in {"evicted", "insert"} => \E i \in Slots : slot[i] \notin Keys

TInv == /\ TableType /\ Operands /\ Searches /\ Counters /\ Ages
        /\ Compaction /\ Absent /\ Room

-----------------------------------------------------------------------------
(* Searches. *)

LEMMA LeastNatural ==
  ASSUME NEW S, S \subseteq Nat, S # {}
  PROVE  \E i \in S : \A j \in S : i <= j
<1> DEFINE R == OpToRel(<, Nat)
<1>1. IsWellFoundedOn(R, Nat)
  BY NatLessThanWellFounded
<1>2. \A x, y \in Nat : <<y, x>> \in R <=> y < x
  BY DEF OpToRel
<1> HIDE DEF R
<1>3. PICK i \in S : \A j \in S : ~(<<j, i>> \in R)
  BY <1>1, WFMin
<1>4. \A j \in S : ~(j < i)
  BY <1>2, <1>3, Zenon
<1>5. i \in Nat /\ S \subseteq Nat
  OBVIOUS
<1> QED BY <1>4, <1>5

LEMMA FirstIs ==
  ASSUME NEW S, S \subseteq Nat, S # {}
  PROVE  First(S) \in S /\ \A j \in S : First(S) <= j
<1>1. \E i \in S : \A j \in S : i <= j
  BY LeastNatural
<1> QED BY <1>1 DEF First

LEMMA WrapOnce ==
  ASSUME NEW c \in Nat, c > 0, NEW a \in Nat, a < c + c
  PROVE  a % c = IF a < c THEN a ELSE a - c
<1>1. PICK q \in Int, r \in 0 .. c - 1 : a = c * q + r /\ r = a % c
  OBVIOUS
<1>2. ASSUME q >= 2 PROVE FALSE
  <2>1. c * q >= c * 2
    BY <1>2
  <2> QED BY <1>1, <2>1
<1>3. ASSUME q < 0 PROVE FALSE
  <2>1. c * q <= c * (-1)
    BY <1>3
  <2> QED BY <1>1, <2>1
<1>4. q = 0 \/ q = 1
  BY <1>2, <1>3
<1> QED BY <1>1, <1>4

LEMMA VisitIs ==
  ASSUME NEW k \in Keys, NEW n \in Slots
  PROVE  Visit(k, n) = IF Home[k] + n < Cap THEN Home[k] + n ELSE Home[k] + n - Cap
<1>1. /\ Cap \in Nat \ {0} /\ Home[k] \in 0 .. Cap - 1 /\ n \in 0 .. Cap - 1
  BY FakerootAssumption DEF Slots
<1>2. Home[k] + n \in Nat /\ Home[k] + n < Cap + Cap
  BY <1>1
<1> QED BY <1>1, <1>2, WrapOnce DEF Visit

(* A search visits every slot once. *)
LEMMA VisitAll ==
  ASSUME NEW k \in Keys
  PROVE  /\ \A n \in Slots : Visit(k, n) \in Slots
         /\ \A m, n \in Slots : Visit(k, m) = Visit(k, n) => m = n
         /\ \A i \in Slots : \E n \in Slots : Visit(k, n) = i
<1>1. Cap \in Nat \ {0} /\ Home[k] \in 0 .. Cap - 1
  BY FakerootAssumption DEF Slots
<1>2. \A n \in Slots : Visit(k, n) \in Slots
  BY <1>1, VisitIs DEF Slots
<1>3. \A m, n \in Slots : Visit(k, m) = Visit(k, n) => m = n
  BY <1>1, VisitIs DEF Slots
<1>4. ASSUME NEW i \in Slots PROVE \E n \in Slots : Visit(k, n) = i
  <2> DEFINE n == IF i >= Home[k] THEN i - Home[k] ELSE i - Home[k] + Cap
  <2>1. n \in Slots
    BY <1>1 DEF Slots
  <2>2. Visit(k, n) = i
    BY <1>1, <2>1, VisitIs DEF Slots
  <2> QED BY <2>1, <2>2
<1> QED BY <1>2, <1>3, <1>4

(* Where a search ends ... *)
LEMMA SearchEnds ==
  ASSUME NEW k \in Keys, NEW i \in Slots, Reached(k, i), slot[i] \in {Empty, k}
  PROVE  Probe(k) = i
<1> DEFINE stops == {n \in Slots : slot[Visit(k, n)] \in {Empty, k}}
<1>1. PICK n \in Slots :
        Visit(k, n) = i /\ \A m \in 0 .. n - 1 : slot[Visit(k, m)] \notin {Empty, k}
  BY DEF Reached
<1>2. n \in stops /\ stops \subseteq Slots
  BY <1>1
<1>3. \A m \in stops : m >= n
  BY <1>1, FakerootAssumption DEF Slots
<1>4. stops \subseteq Nat /\ stops # {}
  BY <1>2, FakerootAssumption DEF Slots
<1>5. First(stops) = n
  <2> HIDE DEF stops
  <2>1. First(stops) \in stops /\ First(stops) <= n
    BY <1>2, <1>4, FirstIs
  <2>2. First(stops) \in Nat /\ n \in Nat /\ First(stops) >= n
    BY <1>2, <1>3, <1>4, <2>1
  <2> QED BY <2>1, <2>2
<1> QED BY <1>1, <1>2, <1>5 DEF Probe, stops

(* ... if there is an empty slot, or the key, *)
LEMMA SearchStops ==
  ASSUME NEW k \in Keys, NEW j \in Slots, slot[j] \in {Empty, k}
  PROVE  Probe(k) \in Slots /\ slot[Probe(k)] \in {Empty, k} /\ Reached(k, Probe(k))
<1> DEFINE stops == {n \in Slots : slot[Visit(k, n)] \in {Empty, k}}
           f == First(stops)
<1>1. stops # {} /\ stops \subseteq Slots
  BY VisitAll
<1>2. f \in stops /\ \A m \in stops : f <= m
  <2>1. stops \subseteq Nat
    BY <1>1, FakerootAssumption DEF Slots
  <2> HIDE DEF stops
  <2> QED BY <1>1, <2>1, FirstIs
<1>3. Probe(k) = Visit(k, f)
  BY <1>1 DEF Probe
<1>4. \A m \in 0 .. f - 1 : m \in Slots /\ ~(f <= m)
  BY <1>1, <1>2, FakerootAssumption DEF Slots
<1>5. f \in Slots /\ slot[Visit(k, f)] \in {Empty, k}
  BY <1>2
<1>6. \A m \in 0 .. f - 1 : slot[Visit(k, m)] \notin {Empty, k}
  BY <1>2, <1>4
<1> HIDE DEF f
<1>7. Visit(k, f) \in Slots
  BY <1>5, VisitAll
<1> QED BY <1>3, <1>5, <1>6, <1>7 DEF Reached

(* and if there is none. *)
LEMMA SearchGraves ==
  ASSUME NEW k \in Keys, \A j \in Slots : slot[j] \notin {Empty, k}
  PROVE  /\ (\E j \in Slots : slot[j] = Tomb) => Probe(k) \in Slots /\ slot[Probe(k)] = Tomb
         /\ (\A j \in Slots : slot[j] # Tomb) => Probe(k) = Nowhere
<1> DEFINE stops == {n \in Slots : slot[Visit(k, n)] \in {Empty, k}}
           graves == {n \in Slots : slot[Visit(k, n)] = Tomb}
<1>1. stops = {}
  BY VisitAll
<1>2. CASE \E j \in Slots : slot[j] = Tomb
  <2>1. graves # {} /\ graves \subseteq Nat
    BY <1>2, VisitAll, FakerootAssumption DEF Slots
  <2>2. First(graves) \in graves
    BY <2>1, FirstIs
  <2>3. Probe(k) = Visit(k, First(graves))
    BY <1>1, <2>1 DEF Probe
  <2> QED BY <1>2, <2>2, <2>3, VisitAll
<1>3. CASE \A j \in Slots : slot[j] # Tomb
  <2>1. graves = {}
    BY <1>3, VisitAll
  <2> QED BY <1>1, <1>3, <2>1 DEF Probe
<1> QED BY <1>2, <1>3

(* So a search finds what is stored.                                       *)
LEMMA FindsStored ==
  ASSUME TableType, Searches, NEW k \in Keys
  PROVE  Finds(k) <=> Stored(k)
<1>1. ASSUME NEW i \in Slots, slot[i] = k PROVE Probe(k) = i
  BY <1>1, SearchEnds DEF Searches, Full
<1>2. Stored(k) => Finds(k)
  BY <1>1, FakerootAssumption DEF Stored, Finds
<1>3. ASSUME Finds(k) PROVE Stored(k)
  <2>1. CASE \E j \in Slots : slot[j] \in {Empty, k}
    BY <1>3, <2>1, SearchStops DEF Finds, Stored
  <2>2. CASE \A j \in Slots : slot[j] \notin {Empty, k}
    BY <1>3, <2>2, SearchGraves, FakerootAssumption DEF Finds, TableType
  <2> QED BY <2>1, <2>2
<1> QED BY <1>2, <1>3

-----------------------------------------------------------------------------
(* What the steps do to the slots. *)

(* An entry that is not there goes where the search for it ends, and all the
   others are found as before. *)
LEMMA Place ==
  ASSUME TableType, Searches, NEW k \in Keys, ~Stored(k), Probe(k) # Nowhere,
         slot' = [slot EXCEPT ![Probe(k)] = k]
  PROVE  /\ Probe(k) \in Slots \ Full
         /\ Searches'
         /\ Full' = Full \cup {Probe(k)}
         /\ Graves' = Graves \ {Probe(k)}
<1> DEFINE at == Probe(k)
<1>0. k # Empty /\ k # Tomb /\ Empty \notin Keys /\ Tomb \notin Keys
  BY FakerootAssumption
<1>1. /\ at \in Slots /\ slot[at] \in {Empty, Tomb}
      /\ \E n \in Slots : Visit(k, n) = at
                          /\ \A m \in 0 .. n - 1 : slot[Visit(k, m)] \notin {Empty, k}
  <2>1. CASE \E j \in Slots : slot[j] \in {Empty, k}
    BY <2>1, SearchStops DEF Reached, Stored
  <2>2. CASE \A j \in Slots : slot[j] \notin {Empty, k}
    <3>1. at \in Slots /\ slot[at] = Tomb
      BY <2>2, SearchGraves
    <3>2. PICK n \in Slots : Visit(k, n) = at
      BY <3>1, VisitAll
    <3>3. \A m \in 0 .. n - 1 : m \in Slots
      BY FakerootAssumption DEF Slots
    <3>4. \A m \in 0 .. n - 1 : slot[Visit(k, m)] \notin {Empty, k}
      BY <2>2, <3>3, VisitAll
    <3> QED BY <3>1, <3>2, <3>4
  <2> QED BY <2>1, <2>2
<1> HIDE DEF at
<1>2. slot' = [slot EXCEPT ![at] = k] /\ slot \in [Slots -> Keys \cup {Empty, Tomb}]
  BY DEF at, TableType
<1>3. /\ slot'[at] = k
      /\ \A j \in Slots \ {at} : slot'[j] = slot[j]
  BY <1>1, <1>2
<1>4. Full' = Full \cup {at} /\ Graves' = Graves \ {at} /\ at \notin Full
  BY <1>0, <1>1, <1>3 DEF Full, Graves
<1>5. \A j \in Full : slot[j] # k /\ slot[j] \in Keys
  BY DEF Full, Stored
<1>6. \A n \in Slots : \A m \in 0 .. n - 1 : m \in Slots /\ m # n
  BY FakerootAssumption DEF Slots
<1>7. \E n \in Slots :
        Visit(k, n) = at /\ \A m \in 0 .. n - 1 : slot'[Visit(k, m)] \notin {Empty, k}
  <2>1. PICK n \in Slots :
          Visit(k, n) = at /\ \A m \in 0 .. n - 1 : slot[Visit(k, m)] \notin {Empty, k}
    BY <1>1
  <2>2. \A m \in 0 .. n - 1 : Visit(k, m) \in Slots \ {at}
    BY <1>6, <2>1, VisitAll
  <2>3. \A m \in 0 .. n - 1 : slot'[Visit(k, m)] \notin {Empty, k}
    BY <1>3, <2>1, <2>2
  <2> QED BY <2>1, <2>3
<1>8. ASSUME NEW j \in Full
      PROVE  \E n \in Slots :
               /\ Visit(slot[j], n) = j
               /\ \A m \in 0 .. n - 1 : slot'[Visit(slot[j], m)] \notin {Empty, slot[j]}
  <2> DEFINE q == slot[j]
  <2>1. q \in Keys /\ q # k
    BY <1>5
  <2>2. PICK n \in Slots :
          Visit(q, n) = j /\ \A m \in 0 .. n - 1 : slot[Visit(q, m)] \notin {Empty, q}
    BY DEF Searches, Reached
  <2> HIDE DEF q
  <2>3. \A m \in 0 .. n - 1 : Visit(q, m) \in Slots
    BY <1>6, <2>1, VisitAll
  <2>4. \A m \in 0 .. n - 1 : slot'[Visit(q, m)] \notin {Empty, q}
    BY <1>0, <1>3, <2>1, <2>2, <2>3
  <2> QED BY <2>2, <2>4 DEF q
<1>9. \A j \in Full : j # at /\ j \in Slots /\ slot'[j] = slot[j]
  BY <1>3, <1>4 DEF Full
<1>10. \A j \in Full' : Reached(slot[j], j)'
  <2> SUFFICES ASSUME NEW j \in Full \cup {at}
               PROVE  \E n \in Slots :
                        /\ Visit(slot'[j], n) = j
                        /\ \A m \in 0 .. n - 1 :
                             slot'[Visit(slot'[j], m)] \notin {Empty, slot'[j]}
    BY <1>4 DEF Reached, Visit
  <2>1. CASE j = at
    BY <1>3, <1>7, <2>1
  <2>2. CASE j \in Full
    BY <1>8, <1>9, <2>2
  <2> QED BY <2>1, <2>2
<1>11. \A i, j \in Full' : slot'[i] = slot'[j] => i = j
  BY <1>3, <1>4, <1>5, <1>9 DEF Searches
<1> QED BY <1>1, <1>4, <1>10, <1>11 DEF Searches, at

(* A tombstone stops no search. *)
LEMMA Bury ==
  ASSUME TableType, Searches, NEW V,
         slot' = [i \in Slots |-> IF slot[i] \in V THEN Tomb ELSE slot[i]], V \subseteq Keys
  PROVE  /\ Searches'
         /\ Full' = Full \ {i \in Slots : slot[i] \in V}
         /\ Graves' = Graves \cup {i \in Slots : slot[i] \in V}
         /\ Graves \cap {i \in Slots : slot[i] \in V} = {}
<1>0. Empty \notin Keys /\ Tomb \notin Keys /\ Empty # Tomb
  BY FakerootAssumption
<1>1. /\ Full' = Full \ {i \in Slots : slot[i] \in V}
      /\ Graves' = Graves \cup {i \in Slots : slot[i] \in V}
      /\ Graves \cap {i \in Slots : slot[i] \in V} = {}
  BY <1>0 DEF Full, Graves
<1>2. \A j \in Slots : slot'[j] \in {slot[j], Tomb}
  OBVIOUS
<1>3. \A j \in Full' : j \in Full /\ slot'[j] = slot[j] /\ slot[j] \in Keys
  BY <1>0 DEF Full
<1>4. ASSUME NEW j \in Full'
      PROVE  \E n \in Slots :
               /\ Visit(slot'[j], n) = j
               /\ \A m \in 0 .. n - 1 : slot'[Visit(slot'[j], m)] \notin {Empty, slot'[j]}
  <2> DEFINE q == slot[j]
  <2>1. q \in Keys /\ slot'[j] = q /\ j \in Full
    BY <1>3
  <2>2. PICK n \in Slots :
          Visit(q, n) = j /\ \A m \in 0 .. n - 1 : slot[Visit(q, m)] \notin {Empty, q}
    BY <2>1 DEF Searches, Reached
  <2> HIDE DEF q
  <2>3. \A m \in 0 .. n - 1 : m \in Slots
    BY FakerootAssumption DEF Slots
  <2>4. \A m \in 0 .. n - 1 : Visit(q, m) \in Slots
    BY <2>1, <2>3, VisitAll
  <2>5. \A m \in 0 .. n - 1 : slot'[Visit(q, m)] \notin {Empty, q}
    BY <1>0, <1>2, <2>1, <2>2, <2>4
  <2> QED BY <2>1, <2>2, <2>5
<1>5. \A j \in Full' : Reached(slot[j], j)'
  BY <1>4 DEF Reached, Visit
<1>6. \A i, j \in Full' : slot'[i] = slot'[j] => i = j
  BY <1>3 DEF Searches
<1> QED BY <1>1, <1>5, <1>6 DEF Searches

(* The order of the entries with k at its end. *)
LEMMA TouchedIs ==
  ASSUME age \in Seq(Keys), NEW k \in Keys,
         \A p, q \in 1 .. Len(age) : age[p] = age[q] => p = q
  PROVE  /\ Touched(k) \in Seq(Keys)
         /\ \A p, q \in 1 .. Len(Touched(k)) : Touched(k)[p] = Touched(k)[q] => p = q
         /\ \A j \in Keys : (\E p \in 1 .. Len(Touched(k)) : Touched(k)[p] = j)
                              <=> j = k \/ Aged(j)
<1>1. Len(age) \in Nat /\ DOMAIN age = 1 .. Len(age) /\ \A p \in 1 .. Len(age) : age[p] \in Keys
  OBVIOUS
<1>2. CASE ~Aged(k)
  <2>1. Touched(k) = Append(age, k)
    BY <1>1, <1>2 DEF Touched, Aged
  <2>2. /\ Append(age, k) \in Seq(Keys)
        /\ Len(Append(age, k)) = Len(age) + 1
        /\ \A p \in 1 .. Len(age) : Append(age, k)[p] = age[p]
        /\ Append(age, k)[Len(age) + 1] = k
    OBVIOUS
  <2> QED BY <1>1, <1>2, <2>1, <2>2 DEF Aged
<1>3. CASE Aged(k)
  <2>1. PICK at \in 1 .. Len(age) : age[at] = k
    BY <1>3 DEF Aged
  <2>2. (CHOOSE p \in DOMAIN age : age[p] = k) = at
    BY <1>1, <2>1
  <2> DEFINE b == [p \in 1 .. Len(age) |->
                    IF p < at THEN age[p] ELSE IF p < Len(age) THEN age[p + 1] ELSE k]
  <2>3. Touched(k) = b
    BY <1>1, <2>1, <2>2 DEF Touched
  <2>4. b \in [1 .. Len(age) -> Keys]
    BY <1>1, <2>1
  <2>5. b \in Seq(Keys) /\ Len(b) = Len(age)
    BY <1>1, <2>4
  <2>6. \A p \in 1 .. Len(age) :
          b[p] = IF p < at THEN age[p] ELSE IF p < Len(age) THEN age[p + 1] ELSE k
    OBVIOUS
  <2> HIDE DEF b
  <2>7. \A p, q \in 1 .. Len(age) : b[p] = b[q] => p = q
    BY <1>1, <2>1, <2>6
  <2>8. ASSUME NEW j \in Keys PROVE (\E p \in 1 .. Len(age) : b[p] = j) <=> j = k \/ Aged(j)
    <3>1. ASSUME NEW p \in 1 .. Len(age) PROVE Aged(b[p])
      BY <1>1, <2>1, <2>6 DEF Aged
    <3>2. ASSUME NEW p \in 1 .. Len(age) PROVE \E q \in 1 .. Len(age) : b[q] = age[p]
      <4>1. CASE p < at
        BY <2>6, <4>1
      <4>2. CASE p = at
        BY <1>1, <2>1, <2>6, <4>2
      <4>3. CASE p > at
        <5>1. p - 1 \in 1 .. Len(age) /\ ~(p - 1 < at) /\ p - 1 < Len(age) /\ p - 1 + 1 = p
          BY <1>1, <2>1, <4>3
        <5> QED BY <2>6, <5>1
      <4> QED BY <1>1, <2>1, <4>1, <4>2, <4>3
    <3> QED BY <2>1, <3>1, <3>2 DEF Aged
  <2> QED BY <2>3, <2>5, <2>7, <2>8
<1> QED BY <1>2, <1>3

(* Who is inside the inode table is alone there, and it is locked. *)
LEMMA Alone ==
  ASSUME IInv, Operands, NEW t \in Threads,
         loc[t].pc \in Inner \cup {"unlock"}, loc[t].map = "by_inode"
  PROVE  /\ lock["by_inode"] = 1
         /\ \A u \in Threads \ {t} :
              loc[u].pc \notin Inner /\ ~(loc[u].pc = "unlock" /\ loc[u].map = "by_inode")
BY DEF IInv, Taken, Apart, In, Operands, Inner

LEMMA NothingLeft ==
  ASSUME TInv, NEW t \in Threads, ~At(t, "compact"),
         loc[t].pc \in Inner \cup {"unlock"}, loc[t].map = "by_inode"
  PROVE  DOMAIN old = {} /\ \A k \in Keys : ~Left(k)
BY DEF TInv, Compaction, Left

(* A step inside the inode table: the other threads are elsewhere. *)
LEMMA Within ==
  ASSUME IInv, TInv, NEW t \in Threads, loc[t].pc \in Inner,
         NEW l \in Inner \cup {"unlock"}, Goto(t, l), lock' = lock,
         l \in Adding \cup {"update"} => loc[t].pc \in Adding \cup {"update"}
  PROVE  /\ Operands'
         /\ (l \in Adding => ~\E p \in 1 .. Len(age') : age'[p] = loc[t].key) => Absent'
         /\ (/\ l = "evict" => Overloaded'
             /\ l \in {"evicted", "insert"} => \E i \in Slots : slot'[i] \notin Keys) => Room'
         /\ (DOMAIN old' # {} => l = "compact") =>
              /\ DOMAIN old' # {} =>
                   /\ lock["by_inode"]' = 1
                   /\ \A u \in Threads :
                        loc'[u].pc \in Inner \cup {"unlock"} /\ loc'[u].map = "by_inode"
                          => At(u, "compact")'
              /\ (l = "compact" => tombs' = 0) => \A u \in Threads : At(u, "compact")' => tombs' = 0
<1>1. Operands
  BY DEF TInv
<1>2. loc[t].map = "by_inode"
  BY <1>1 DEF Operands
<1>3. /\ lock["by_inode"] = 1
      /\ \A u \in Threads \ {t} :
           loc[u].pc \notin Inner /\ ~(loc[u].pc = "unlock" /\ loc[u].map = "by_inode")
  BY <1>1, <1>2, Alone
<1>4. /\ loc'[t].pc = l /\ loc'[t].map = "by_inode"
      /\ loc'[t].key = loc[t].key /\ loc'[t].req = loc[t].req
      /\ \A u \in Threads \ {t} : loc'[u] = loc[u]
  BY <1>2 DEF Goto, IInv, LocksType
<1>5. Operands'
  BY <1>1, <1>4 DEF Operands, Inner, Adding
<1>6. ASSUME l \in Adding => ~\E p \in 1 .. Len(age') : age'[p] = loc[t].key PROVE Absent'
  BY <1>3, <1>4, <1>6 DEF Absent, Aged, Adding, Inner
<1>7. ASSUME l = "evict" => Overloaded',
             l \in {"evicted", "insert"} => \E i \in Slots : slot'[i] \notin Keys
      PROVE  Room'
  BY <1>3, <1>4, <1>7 DEF Room, At, Inner
<1>8. ASSUME DOMAIN old' # {} => l = "compact"
      PROVE  DOMAIN old' # {} =>
               /\ lock["by_inode"]' = 1
               /\ \A u \in Threads :
                    loc'[u].pc \in Inner \cup {"unlock"} /\ loc'[u].map = "by_inode"
                      => At(u, "compact")'
  BY <1>3, <1>4, <1>8 DEF At
<1>9. ASSUME l = "compact" => tombs' = 0
      PROVE  \A u \in Threads : At(u, "compact")' => tombs' = 0
  BY <1>3, <1>4, <1>9 DEF At, Inner
<1> QED BY <1>5, <1>6, <1>7, <1>8, <1>9

-----------------------------------------------------------------------------
(* Each step keeps the invariant of the table. *)

LEMMA FiniteSlots == IsFiniteSet(Slots) /\ Cardinality(Slots) = Cap
BY FakerootAssumption, FS_Interval DEF Slots

LEMMA InitTInv == Init => TInv
<1> SUFFICES ASSUME Init PROVE TInv
  OBVIOUS
<1> USE FakerootAssumption DEF Init
<1>1. Full = {} /\ Graves = {} /\ DOMAIN old = {} /\ Len(age) = 0
  BY DEF Full, Graves
<1>2. TableType
  BY DEF TableType, Unknown, Ownerships
<1>3. Operands
  BY DEF Operands, Idle, Adding, Inner
<1>4. Searches
  BY <1>1 DEF Searches
<1>5. Counters
  BY <1>1, FS_EmptySet DEF Counters
<1>6. \A k \in Keys : ~Stored(k) /\ ~Left(k) /\ ~Aged(k)
  BY <1>1 DEF Stored, Left, Aged
<1>7. Ages
  BY <1>1, <1>6 DEF Ages
<1>8. Compaction
  BY <1>1, <1>6 DEF Compaction, At, Idle
<1>9. Absent /\ Room
  BY DEF Absent, Room, At, Idle, Adding
<1> QED BY <1>2, <1>3, <1>4, <1>5, <1>7, <1>8, <1>9 DEF TInv

(* What is true of the table alone stays true while the table stays. *)
LEMMA SameTable ==
  ASSUME TInv, UNCHANGED table, refused' \in 0 .. MaxRefused
  PROVE  /\ TableType' /\ Searches' /\ Counters' /\ Ages'
         /\ (\A i, j \in DOMAIN old : old[i] = old[j] => i = j)'
         /\ (\A k \in Keys : Left(k) => ~Stored(k))'
<1>1. slot' = slot /\ rec' = rec /\ age' = age /\ count' = count /\ tombs' = tombs /\ old' = old
  BY DEF table
<1>2. Full' = Full /\ Graves' = Graves
  BY <1>1 DEF Full, Graves
<1>3. /\ \A k \in Keys : /\ Stored(k)' = Stored(k) /\ Left(k)' = Left(k)
                         /\ Aged(k)' = Aged(k)
  BY <1>1 DEF Stored, Left, Aged
<1>4. TableType'
  BY <1>1 DEF TInv, TableType
<1>5. Searches'
  BY <1>1, <1>2 DEF TInv, Searches, Reached, Visit
<1>6. Counters'
  BY <1>1, <1>2 DEF TInv, Counters
<1>7. Ages'
  BY <1>1, <1>3 DEF TInv, Ages
<1> QED BY <1>1, <1>3, <1>4, <1>5, <1>6, <1>7 DEF TInv, Compaction

LEMMA CallTInv ==
  ASSUME IInv, TInv, NEW t \in Threads, At(t, "idle"), UNCHANGED <<table, locks, refused>>,
         NEW e, e.pc = "lock", e.key \in Keys, e.req # Unknown => <<e.key, e.req>> \in Calls[t],
         loc' = [loc EXCEPT ![t] = e]
  PROVE  TInv'
<1>1. /\ loc'[t] = e /\ \A u \in Threads \ {t} : loc'[u] = loc[u]
      /\ refused' \in 0 .. MaxRefused
  BY DEF IInv, LocksType, TInv, TableType
<1>2. Operands'
  BY <1>1 DEF TInv, Operands, Adding, Inner
<1>3. old' = old /\ lock' = lock /\ slot' = slot /\ tombs' = tombs /\ count' = count /\ age' = age
  BY DEF table, locks
<1>4. Compaction'
  BY <1>1, <1>3, SameTable DEF TInv, Compaction, At, Inner
<1>5. Absent'
  BY <1>1, <1>3 DEF TInv, Absent, Aged, Adding
<1>6. Room'
  BY <1>1, <1>3 DEF TInv, Room, At, Overloaded
<1> QED BY <1>1, <1>2, <1>4, <1>5, <1>6, SameTable DEF TInv

LEMMA LockTInv ==
  ASSUME IInv, TInv, NEW t \in Threads, Lock(t)
  PROVE  TInv'
<1>1. depth[t] = 0 /\ lock[loc[t].map] = 0
  BY DEF Lock, Acquire, IInv, Depths, In, At
<1>2. /\ lock' = [lock EXCEPT ![loc[t].map] = 1]
      /\ UNCHANGED table /\ refused' \in 0 .. MaxRefused
  BY <1>1 DEF Lock, Acquire, TInv, TableType
<1>3. old' = old /\ slot' = slot /\ tombs' = tombs /\ count' = count /\ age' = age
  BY <1>2 DEF table
<1>4. PICK l \in {"unlock", "get", "update"} :
        /\ loc' = [loc EXCEPT ![t].pc = l] /\ loc[t].pc = "lock"
        /\ l = "unlock" <=> loc[t].map = "by_path"
        /\ l = "update" => loc[t].req # Unknown
  BY DEF Lock, Goto, At
<1>5. /\ loc'[t].pc = l /\ loc'[t].map = loc[t].map /\ loc[t].map \in Tables
      /\ loc'[t].key = loc[t].key /\ loc'[t].req = loc[t].req
      /\ \A u \in Threads \ {t} : loc'[u] = loc[u]
  BY <1>4 DEF IInv, LocksType
<1>6. Operands'
  BY <1>4, <1>5 DEF TInv, Operands, Adding, Inner, Tables
<1>7. lock' \in [Tables -> 0 .. 1] /\ lock["by_inode"] = 1 => lock'["by_inode"] = 1
  BY <1>2 DEF IInv, LocksType, Tables
<1>8. DOMAIN old # {} => loc[t].map # "by_inode"
  BY <1>1 DEF TInv, Compaction
<1>9. Compaction'
  BY <1>2, <1>3, <1>4, <1>5, <1>7, <1>8, SameTable DEF TInv, Compaction, At, Inner, Tables
<1>10. Absent'
  BY <1>3, <1>4, <1>5 DEF TInv, Absent, Aged, Adding
<1>11. Room'
  BY <1>3, <1>4, <1>5 DEF TInv, Room, At, Overloaded
<1> QED BY <1>2, <1>6, <1>9, <1>10, <1>11, SameTable DEF TInv

LEMMA UnlockTInv ==
  ASSUME IInv, TInv, NEW t \in Threads, Unlock(t)
  PROVE  TInv'
<1>1. depth[t] = 1
  BY DEF Unlock, IInv, Depths, In, At
<1>2. /\ lock' = [lock EXCEPT ![loc[t].map] = 0]
      /\ UNCHANGED table /\ refused' \in 0 .. MaxRefused
  BY <1>1 DEF Unlock, Release, TInv, TableType
<1>3. old' = old /\ slot' = slot /\ tombs' = tombs /\ count' = count /\ age' = age
  BY <1>2 DEF table
<1>4. /\ loc[t].pc = "unlock" /\ loc[t].map \in Tables
      /\ loc'[t].pc \in {"lock", "idle"}
      /\ loc'[t].pc = "lock" => loc'[t].key = loc[t].key /\ loc'[t].req = loc[t].req
      /\ \A u \in Threads \ {t} : loc'[u] = loc[u]
  BY DEF Unlock, At, IInv, LocksType, Idle
<1>5. Operands'
  BY <1>4 DEF TInv, Operands, Adding, Inner
<1>6. DOMAIN old # {} => lock'["by_inode"] = lock["by_inode"]
  BY <1>2, <1>4 DEF TInv, Compaction, At, IInv, LocksType, Tables
<1>7. Compaction'
  BY <1>2, <1>3, <1>4, <1>6, SameTable DEF TInv, Compaction, At, Inner
<1>8. Absent'
  BY <1>3, <1>4 DEF TInv, Absent, Aged, Adding
<1>9. Room'
  BY <1>3, <1>4 DEF TInv, Room, At, Overloaded
<1> QED BY <1>2, <1>5, <1>7, <1>8, <1>9, SameTable DEF TInv

LEMMA ForkTInv ==
  ASSUME IInv, TInv, NEW t \in Threads, Fork(t)
  PROVE  TInv'
<1>1. /\ UNCHANGED table /\ lock' = lock /\ refused' \in 0 .. MaxRefused
      /\ \A u \in Threads : loc'[u].pc \in {"idle", "gone"}
  BY DEF Fork, TInv, TableType, Idle
<1>2. old' = old /\ slot' = slot /\ tombs' = tombs /\ count' = count /\ age' = age
  BY <1>1 DEF table
<1>3. Operands' /\ Absent' /\ Room'
  BY <1>1 DEF Operands, Absent, Room, At, Adding, Inner
<1>4. Compaction'
  BY <1>1, <1>2, SameTable DEF TInv, Compaction, At, Inner
<1> QED BY <1>1, <1>3, <1>4, SameTable DEF TInv

(* Nothing is done to the table. *)
LEMMA PassTInv ==
  ASSUME IInv, TInv, NEW t \in Threads, PutFails(t) \/ Load(t) \/ Evicted(t)
  PROVE  TInv'
<1>1. PICK l \in {"unlock", "evict", "insert"} :
        /\ Goto(t, l) /\ UNCHANGED table /\ refused' \in 0 .. MaxRefused
        /\ loc[t].pc \in {"put", "load", "evicted"}
        /\ l \in {"evict", "insert"} => loc[t].pc \in {"load", "evicted"}
        /\ l = "evict" => Overloaded
        /\ l = "insert" => ~Overloaded \/ loc[t].pc = "evicted"
  <2>1. CASE PutFails(t)
    BY <2>1, FakerootAssumption DEF PutFails, At, TInv, TableType
  <2>2. CASE Load(t)
    <3> WITNESS (IF Overloaded THEN "evict" ELSE "insert") \in {"unlock", "evict", "insert"}
    <3> QED BY <2>2 DEF Load, At, TInv, TableType
  <2>3. CASE Evicted(t)
    BY <2>3 DEF Evicted, At, TInv, TableType
  <2> QED BY <2>1, <2>2, <2>3
<1>2. lock' = lock
  BY DEF PutFails, Load, Evicted, Release, At, locks, IInv, Depths, In
<1>3. old' = old /\ slot' = slot /\ tombs' = tombs /\ count' = count /\ age' = age
  BY <1>1 DEF table
<1>4. Overloaded' = Overloaded
  BY <1>3 DEF Overloaded
<1>5. loc[t].pc \in Adding /\ loc[t].pc \in Inner /\ loc[t].map = "by_inode"
  BY <1>1 DEF Adding, Inner, TInv, Operands
<1>6. DOMAIN old' = {}
  BY <1>1, <1>3, <1>5, NothingLeft DEF At
<1>7. ~\E p \in 1 .. Len(age') : age'[p] = loc[t].key
  BY <1>3, <1>5 DEF TInv, Absent, Aged
<1>8. ~Overloaded => \E i \in Slots : slot[i] \notin Keys
  <2> SUFFICES ASSUME \A i \in Slots : slot[i] \in Keys PROVE Overloaded
    OBVIOUS
  <2>1. Full = 0 .. Cap - 1
    BY DEF Full, Slots
  <2>2. Cap \in Nat \ {0} /\ LoadPercent \in 1 .. 100
    BY FakerootAssumption
  <2>3. count = Cap
    BY <2>1, <2>2, FS_Interval DEF TInv, Counters
  <2>4. IsFiniteSet(Graves)
    BY FiniteSlots, FS_Subset, Graves \in SUBSET Slots DEF Graves
  <2>5. tombs \in Nat
    BY <2>4, FS_CardinalityType DEF TInv, Counters
  <2>6. Cap * 100 >= Cap * LoadPercent
    BY <2>2
  <2>7. (count + tombs) * 100 >= Cap * 100
    BY <2>2, <2>3, <2>5
  <2>8. Cap * 100 \in Int /\ Cap * LoadPercent \in Int /\ (count + tombs) * 100 \in Int
    BY <2>2, <2>3, <2>5
  <2> QED BY <2>6, <2>7, <2>8 DEF Overloaded
<1>9. l \in {"evicted", "insert"} => \E i \in Slots : slot'[i] \notin Keys
  BY <1>1, <1>3, <1>8 DEF TInv, Room
<1>10. l \in Inner \cup {"unlock"} /\ l # "compact"
  BY <1>1 DEF Inner
<1>11. /\ Operands' /\ Absent' /\ Room'
       /\ DOMAIN old' # {} =>
            /\ lock["by_inode"]' = 1
            /\ \A u \in Threads :
                 loc'[u].pc \in Inner \cup {"unlock"} /\ loc'[u].map = "by_inode"
                   => At(u, "compact")'
       /\ \A u \in Threads : At(u, "compact")' => tombs' = 0
  BY <1>1, <1>2, <1>4, <1>5, <1>6, <1>7, <1>9, <1>10, Within
<1> QED BY <1>1, <1>11, SameTable DEF TInv, Compaction

(* The slots stay: an entry is asked about, or given an ownership. *)
LEMMA SeenTInv ==
  ASSUME IInv, TInv, NEW t \in Threads, Get(t) \/ Update(t)
  PROVE  TInv'
<1> DEFINE k == loc[t].key
<1>1. PICK l \in {"unlock", "put"} :
        /\ Goto(t, l) /\ loc[t].pc \in {"get", "update"}
        /\ l = "put" => loc[t].pc = "update" /\ ~Finds(k) /\ age' = age
        /\ (age' = age \/ (Finds(k) /\ age' = Touched(k)))
        /\ (rec' = rec \/ rec' = [rec EXCEPT ![k] = Merge(@, loc[t].req)])
  <2>1. CASE Get(t)
    <3>1. /\ Goto(t, "unlock") /\ loc[t].pc = "get" /\ rec' = rec
          /\ (age' = age \/ (Finds(k) /\ age' = Touched(k)))
      BY <2>1 DEF Get, At
    <3> QED BY <3>1
  <2>2. CASE Update(t) /\ Finds(k)
    <3> WITNESS "unlock" \in {"unlock", "put"}
    <3> QED BY <2>2 DEF Update, At
  <2>3. CASE Update(t) /\ ~Finds(k)
    <3>1. Goto(t, "put") /\ loc[t].pc = "update" /\ rec' = rec /\ age' = age
      BY <2>3 DEF Update, At
    <3> QED BY <2>3, <3>1
  <2> QED BY <2>1, <2>2, <2>3
<1>2. /\ slot' = slot /\ count' = count /\ tombs' = tombs /\ old' = old /\ lock' = lock
      /\ refused' = refused
  BY DEF Get, Update, locks
<1>3. loc[t].pc \in Inner /\ loc[t].map = "by_inode" /\ k \in Keys /\ loc[t].req \in Ownerships
  BY <1>1 DEF Inner, TInv, Operands, IInv, LocksType
<1>4. DOMAIN old = {} /\ \A j \in Keys : ~Left(j)
  BY <1>1, <1>3, NothingLeft DEF At
<1>5. Aged(k) <=> Finds(k)
  BY <1>3, <1>4, FindsStored DEF TInv, Ages
<1> HIDE DEF k
<1>6. /\ age' \in Seq(Keys)
      /\ \A p, q \in 1 .. Len(age') : age'[p] = age'[q] => p = q
      /\ \A j \in Keys : (\E p \in 1 .. Len(age') : age'[p] = j) <=> Aged(j)
  <2>1. CASE age' = age
    BY <2>1 DEF TInv, TableType, Ages, Aged
  <2>2. CASE Finds(k) /\ age' = Touched(k)
    <3>1. /\ Touched(k) \in Seq(Keys)
          /\ \A p, q \in 1 .. Len(Touched(k)) : Touched(k)[p] = Touched(k)[q] => p = q
          /\ \A j \in Keys : (\E p \in 1 .. Len(Touched(k)) : Touched(k)[p] = j)
                               <=> j = k \/ Aged(j)
      BY <1>3, TouchedIs DEF TInv, TableType, Ages
    <3> QED BY <1>5, <2>2, <3>1
  <2> QED BY <1>1, <2>1, <2>2
<1>7. rec' \in [Keys -> Ownerships]
  BY <1>1, <1>3 DEF TInv, TableType, Merge, Ownerships
<1>8. TableType'
  BY <1>2, <1>6, <1>7 DEF TInv, TableType
<1>9. Full' = Full /\ Graves' = Graves
  BY <1>2 DEF Full, Graves
<1>10. Searches'
  BY <1>2, <1>9 DEF TInv, Searches, Reached, Visit
<1>11. Counters'
  BY <1>2, <1>9 DEF TInv, Counters
<1>12. \A j \in Keys : /\ Stored(j)' <=> Stored(j)
                       /\ Left(j)' <=> Left(j)
                       /\ Aged(j)' <=> Aged(j)
  BY <1>2, <1>6 DEF Stored, Left, Aged
<1>13. Ages'
  BY <1>6, <1>12 DEF TInv, Ages
<1>14. l = "put" => ~\E p \in 1 .. Len(age') : age'[p] = loc[t].key
  BY <1>1, <1>3, <1>5, <1>6 DEF k
<1>15. DOMAIN old' = {}
  BY <1>2, <1>4
<1>16. /\ l \in Inner \cup {"unlock"} /\ l \notin {"compact", "evict", "evicted", "insert"}
       /\ l \in Adding \cup {"update"} => loc[t].pc \in Adding \cup {"update"}
  BY <1>1 DEF Inner, Adding
<1>17. /\ Operands' /\ Absent' /\ Room'
       /\ DOMAIN old' # {} =>
            /\ lock["by_inode"]' = 1
            /\ \A u \in Threads :
                 loc'[u].pc \in Inner \cup {"unlock"} /\ loc'[u].map = "by_inode"
                   => At(u, "compact")'
       /\ \A u \in Threads : At(u, "compact")' => tombs' = 0
  BY <1>1, <1>2, <1>3, <1>14, <1>15, <1>16, Within DEF Adding
<1>18. /\ (\A i, j \in DOMAIN old : old[i] = old[j] => i = j)'
       /\ (\A j \in Keys : Left(j) => ~Stored(j))'
  BY <1>2, <1>4, <1>12
<1> QED BY <1>8, <1>10, <1>11, <1>13, <1>17, <1>18 DEF TInv, Compaction

LEMMA FinitePart ==
  ASSUME NEW S \in SUBSET Slots
  PROVE  IsFiniteSet(S) /\ Cardinality(S) \in 0 .. Cap
<1>1. IsFiniteSet(S) /\ Cardinality(S) <= Cap
  BY FiniteSlots, FS_Subset
<1>2. Cardinality(S) \in Nat /\ Cap \in Nat
  BY <1>1, FS_CardinalityType, FakerootAssumption
<1> QED BY <1>1, <1>2

LEMMA FiniteParts ==
  ASSUME TableType
  PROVE  /\ IsFiniteSet(Full) /\ Cardinality(Full) \in 0 .. Cap
         /\ IsFiniteSet(Graves) /\ Cardinality(Graves) \in 0 .. Cap
         /\ IsFiniteSet(DOMAIN old) /\ Cardinality(DOMAIN old) \in 0 .. Cap
<1>1. Full \in SUBSET Slots /\ Graves \in SUBSET Slots /\ DOMAIN old \in SUBSET Slots
  BY DEF Full, Graves, TableType
<1> QED BY <1>1, FinitePart

LEMMA PutTInv ==
  ASSUME IInv, TInv, NEW t \in Threads, Put(t)
  PROVE  TInv'
<1>1. /\ loc[t].pc = "put" /\ loc[t].pc \in Inner /\ loc[t].pc \in Adding
      /\ loc[t].map = "by_inode" /\ loc[t].key \in Keys
  BY DEF Put, At, Inner, Adding, TInv, Operands
<1>2. DOMAIN old = {} /\ \A j \in Keys : ~Left(j)
  BY <1>1, NothingLeft DEF At
<1>3. rec' = rec /\ age' = age /\ lock' = lock /\ refused' = refused
  BY DEF Put, locks
<1>4. ~\E p \in 1 .. Len(age') : age'[p] = loc[t].key
  BY <1>1, <1>3 DEF TInv, Absent, Aged
<1>5. CASE ~(tombs > Cap \div 4)
  <2>1. Goto(t, "load") /\ UNCHANGED table
    BY <1>3, <1>5 DEF Put, table
  <2>2. DOMAIN old' = {}
    BY <1>2, <2>1 DEF table
  <2>3. "load" \in Inner /\ refused' \in 0 .. MaxRefused
    BY <1>3 DEF Inner, TInv, TableType
  <2>4. /\ Operands' /\ Absent' /\ Room'
        /\ DOMAIN old' # {} =>
             /\ lock["by_inode"]' = 1
             /\ \A u \in Threads :
                  loc'[u].pc \in Inner \cup {"unlock"} /\ loc'[u].map = "by_inode"
                    => At(u, "compact")'
        /\ \A u \in Threads : At(u, "compact")' => tombs' = 0
    BY <1>1, <1>3, <1>4, <2>1, <2>2, <2>3, Within
  <2> QED BY <2>1, <2>3, <2>4, SameTable DEF TInv, Compaction
<1>6. CASE tombs > Cap \div 4
  <2>1. /\ Goto(t, "compact") /\ count' = 0 /\ tombs' = 0
        /\ slot' = [i \in Slots |-> Empty]
        /\ old' = [i \in Full |-> slot[i]]
    BY <1>6 DEF Put, CountersReset, Full
  <2>2. Full' = {} /\ Graves' = {} /\ DOMAIN old' = Full
    BY <2>1, FakerootAssumption DEF Full, Graves
  <2>3. TableType'
    BY <1>3, <2>1, <2>2 DEF TInv, TableType, Full
  <2>4. Searches'
    BY <2>2 DEF Searches
  <2>5. Counters'
    <3>1. Cardinality(Full) \in 0 .. Cap /\ Cap \in Nat
      BY FiniteParts, FakerootAssumption DEF TInv
    <3>2. Cardinality(DOMAIN old') = Cardinality(Full)
      BY <2>2
    <3> HIDE DEF Full
    <3> QED BY <2>1, <2>2, <3>1, <3>2, FS_EmptySet DEF Counters
  <2>6. \A j \in Keys : ~Stored(j)' /\ (Left(j)' <=> Stored(j)) /\ Aged(j)' = Aged(j)
    BY <1>3, <2>1, FakerootAssumption DEF Stored, Left, Aged, Full
  <2>7. Ages'
    BY <1>2, <1>3, <2>6 DEF TInv, Ages
  <2>8. "compact" \in Inner
    BY DEF Inner
  <2>9. /\ Operands' /\ Absent' /\ Room'
        /\ DOMAIN old' # {} =>
             /\ lock["by_inode"]' = 1
             /\ \A u \in Threads :
                  loc'[u].pc \in Inner \cup {"unlock"} /\ loc'[u].map = "by_inode"
                    => At(u, "compact")'
        /\ \A u \in Threads : At(u, "compact")' => tombs' = 0
    BY <1>1, <1>3, <1>4, <2>1, <2>8, Within
  <2>10. (\A i, j \in DOMAIN old : old[i] = old[j] => i = j)'
    BY <2>1 DEF TInv, Searches
  <2>11. (\A j \in Keys : Left(j) => ~Stored(j))'
    BY <2>6
  <2> QED BY <2>3, <2>4, <2>5, <2>7, <2>9, <2>10, <2>11 DEF TInv, Compaction
<1> QED BY <1>5, <1>6

(* A slot without an entry ends a search for what is not there. *)
LEMMA RoomFound ==
  ASSUME TableType, NEW k \in Keys, ~Stored(k), \E i \in Slots : slot[i] \notin Keys
  PROVE  Probe(k) # Nowhere
<1>1. CASE \E j \in Slots : slot[j] \in {Empty, k}
  BY <1>1, SearchStops, FakerootAssumption
<1>2. CASE \A j \in Slots : slot[j] \notin {Empty, k}
  <2>1. \E j \in Slots : slot[j] = Tomb
    BY <1>2 DEF TableType
  <2> QED BY <1>2, <2>1, SearchGraves, FakerootAssumption
<1> QED BY <1>1, <1>2

LEMMA CompactTInv ==
  ASSUME IInv, TInv, NEW t \in Threads, Compact(t)
  PROVE  TInv'
<1>1. /\ loc[t].pc = "compact" /\ loc[t].pc \in Inner /\ loc[t].pc \in Adding
      /\ loc[t].map = "by_inode" /\ loc[t].key \in Keys
      /\ tombs = 0 /\ tombs' = 0
  BY DEF Compact, At, Inner, Adding, TInv, Operands, Compaction
<1>2. rec' = rec /\ age' = age /\ lock' = lock /\ refused' = refused
  BY DEF Compact, locks
<1>3. ~\E p \in 1 .. Len(age') : age'[p] = loc[t].key
  BY <1>1, <1>2 DEF TInv, Absent, Aged
<1>4. CASE DOMAIN old = {}
  <2>1. Goto(t, "load") /\ UNCHANGED table
    BY <1>1, <1>2, <1>4 DEF Compact, table
  <2>2. DOMAIN old' = {}
    BY <1>4, <2>1 DEF table
  <2>3. "load" \in Inner /\ refused' \in 0 .. MaxRefused
    BY <1>2 DEF Inner, TInv, TableType
  <2>4. /\ Operands' /\ Absent' /\ Room'
        /\ DOMAIN old' # {} =>
             /\ lock["by_inode"]' = 1
             /\ \A u \in Threads :
                  loc'[u].pc \in Inner \cup {"unlock"} /\ loc'[u].map = "by_inode"
                    => At(u, "compact")'
        /\ \A u \in Threads : At(u, "compact")' => tombs' = 0
    BY <1>1, <1>2, <1>3, <2>1, <2>2, <2>3, Within
  <2> QED BY <2>1, <2>3, <2>4, SameTable DEF TInv, Compaction
<1>5. CASE DOMAIN old # {}
  <2> DEFINE i == First(DOMAIN old)
             k == old[i]
  <2>1. i \in DOMAIN old
    <3>1. DOMAIN old \subseteq Nat
      BY FakerootAssumption DEF TInv, TableType, Slots
    <3> QED BY <1>5, <3>1, FirstIs
  <2>2. /\ slot' = [slot EXCEPT ![Probe(k)] = k]
        /\ count' = count + 1
        /\ old' = [j \in DOMAIN old \ {i} |-> old[j]]
        /\ loc' = loc
    BY <1>5 DEF Compact
  <2> HIDE DEF i
  <2>3. k \in Keys /\ Left(k) /\ ~Stored(k)
    BY <2>1 DEF TInv, TableType, Left, Compaction
  <2>4. IsFiniteSet(DOMAIN old) /\ IsFiniteSet(Full) /\ TableType
    BY FiniteParts DEF TInv
  <2>5. Cardinality(DOMAIN old) \in Nat \ {0} /\ Cardinality(Full) \in Nat
    BY <2>1, <2>4, FS_CardinalityType, FS_EmptySet
  <2>6. \E j \in Slots : slot[j] \notin Keys
    <3> SUFFICES ASSUME Full = Slots PROVE FALSE
      BY DEF Full
    <3>1. Cap \in Nat /\ Cardinality(Full) = Cap
      BY FiniteSlots, FakerootAssumption
    <3>2. Cardinality(Full) + Cardinality(DOMAIN old) <= Cap
      BY DEF TInv, Counters
    <3> QED BY <2>5, <3>1, <3>2
  <2> HIDE DEF k
  <2>7. Probe(k) # Nowhere
    BY <2>3, <2>4, <2>6, RoomFound
  <2>8. /\ Probe(k) \in Slots \ Full
        /\ Searches'
        /\ Full' = Full \cup {Probe(k)}
        /\ Graves' = Graves \ {Probe(k)}
    BY <2>2, <2>3, <2>4, <2>7, Place DEF TInv
  <2>9. DOMAIN old' = DOMAIN old \ {i} /\ \A j \in DOMAIN old' : old'[j] = old[j]
    BY <2>2
  <2>10. TableType'
    BY <1>1, <1>2, <2>2, <2>3, <2>8, <2>9 DEF TInv, TableType
  <2>11. Counters'
    <3>1. /\ Cardinality(Full') = Cardinality(Full) + 1
          /\ Cardinality(DOMAIN old') = Cardinality(DOMAIN old) - 1
      BY <2>1, <2>4, <2>8, <2>9, FS_AddElement, FS_RemoveElement
    <3>2. Graves = {}
      <4>1. IsFiniteSet(Graves)
        BY <2>4, FiniteParts
      <4> QED BY <1>1, <4>1, FS_EmptySet DEF TInv, Counters
    <3>3. Graves' = {}
      BY <2>8, <3>2
    <3>4. Cardinality(Graves') = 0
      BY <3>3, FS_EmptySet
    <3>5. Cap \in Nat /\ count = Cardinality(Full)
          /\ count + Cardinality(DOMAIN old) <= Cap
      BY FakerootAssumption DEF TInv, Counters
    <3> HIDE DEF Full, Graves
    <3> QED BY <1>1, <2>2, <2>5, <3>1, <3>4, <3>5 DEF Counters
  <2>12. ASSUME NEW q \in Keys
         PROVE  /\ Stored(q)' <=> Stored(q) \/ q = k
                /\ Left(q)' <=> Left(q) /\ q # k
                /\ Aged(q)' <=> Aged(q)
    <3>1. Stored(q)' <=> Stored(q) \/ q = k
      <4>1. slot[Probe(k)] \notin Keys
        BY <2>8 DEF Full
      <4> QED BY <2>2, <2>8, <4>1 DEF Stored, TInv, TableType
    <3>2. Left(q)' <=> Left(q) /\ q # k
      BY <2>1, <2>9 DEF Left, TInv, Compaction, k
    <3>3. Aged(q)' <=> Aged(q)
      BY <1>2 DEF Aged
    <3> QED BY <3>1, <3>2, <3>3
  <2>13. Ages'
    <3>1. \A p, q \in 1 .. Len(age') : age'[p] = age'[q] => p = q
      BY <1>2 DEF TInv, Ages
    <3>2. ASSUME NEW q \in Keys PROVE Aged(q)' <=> Stored(q)' \/ Left(q)'
      BY <2>3, <2>12 DEF TInv, Ages
    <3> QED BY <3>1, <3>2 DEF Ages
  <2>14. Operands' /\ Absent' /\ Room'
    BY <1>1, <1>2, <2>2, Alone DEF TInv, Operands, Absent, Room, Aged, At, Inner
  <2>15. (\A a, b \in DOMAIN old : old[a] = old[b] => a = b)'
    BY <2>9 DEF TInv, Compaction
  <2>16. (\A q \in Keys : Left(q) => ~Stored(q))'
    BY <2>12 DEF TInv, Compaction
  <2>17. /\ DOMAIN old' # {} =>
              /\ lock["by_inode"]' = 1
              /\ \A u \in Threads :
                   loc'[u].pc \in Inner \cup {"unlock"} /\ loc'[u].map = "by_inode"
                     => At(u, "compact")'
         /\ \A u \in Threads : At(u, "compact")' => tombs' = 0
    BY <1>1, <1>2, <1>5, <2>2 DEF TInv, Compaction, At
  <2> QED BY <2>8, <2>10, <2>11, <2>13, <2>14, <2>15, <2>16, <2>17 DEF TInv, Compaction
<1> QED BY <1>4, <1>5

LEMMA InsertTInv ==
  ASSUME IInv, TInv, NEW t \in Threads, Insert(t)
  PROVE  TInv'
<1> DEFINE k == loc[t].key
           i == Probe(k)
<1>1. /\ loc[t].pc = "insert" /\ loc[t].pc \in Inner /\ loc[t].pc \in Adding
      /\ loc[t].map = "by_inode" /\ k \in Keys /\ loc[t].req \in Ownerships
  BY DEF Insert, At, Inner, Adding, TInv, Operands, IInv, LocksType
<1>2. old' = old /\ lock' = lock /\ refused' = refused /\ Goto(t, "unlock")
  BY DEF Insert, locks
<1>3. DOMAIN old = {} /\ \A q \in Keys : ~Left(q)
  BY <1>1, NothingLeft DEF At
<1>4. ~Aged(k) /\ ~Stored(k)
  BY <1>1 DEF TInv, Absent, Ages
<1>5. \E j \in Slots : slot[j] \notin Keys
  BY <1>1 DEF TInv, Room
<1>6. TableType /\ Searches
  BY DEF TInv
<1>7. Probe(k) # Nowhere
  BY <1>1, <1>4, <1>5, <1>6, RoomFound
<1>8. /\ slot' = [slot EXCEPT ![i] = k]
      /\ rec' = [rec EXCEPT ![k] = loc[t].req]
      /\ age' = Touched(k)
      /\ count' = count + 1
      /\ tombs' = IF slot[i] = Tomb THEN tombs - 1 ELSE tombs
  BY <1>7 DEF Insert
<1> HIDE DEF k
<1>9. /\ i \in Slots \ Full
      /\ Searches'
      /\ Full' = Full \cup {i}
      /\ Graves' = Graves \ {i}
  BY <1>1, <1>4, <1>6, <1>7, <1>8, Place
<1> HIDE DEF i
<1>10. /\ age' \in Seq(Keys)
       /\ \A p, q \in 1 .. Len(age') : age'[p] = age'[q] => p = q
       /\ \A j \in Keys : (\E p \in 1 .. Len(age') : age'[p] = j) <=> j = k \/ Aged(j)
  <2>1. /\ Touched(k) \in Seq(Keys)
        /\ \A p, q \in 1 .. Len(Touched(k)) : Touched(k)[p] = Touched(k)[q] => p = q
        /\ \A j \in Keys : (\E p \in 1 .. Len(Touched(k)) : Touched(k)[p] = j)
                             <=> j = k \/ Aged(j)
    BY <1>1, TouchedIs DEF TInv, TableType, Ages
  <2> QED BY <1>8, <2>1
<1>11. TableType'
  <2>1. slot' \in [Slots -> Keys \cup {Empty, Tomb}] /\ rec' \in [Keys -> Ownerships]
    BY <1>1, <1>6, <1>8 DEF TableType
  <2> QED BY <1>2, <1>6, <1>8, <1>10, <2>1 DEF TableType
<1>12. Counters'
  <2>1. IsFiniteSet(Full) /\ IsFiniteSet(Graves)
    BY <1>6, FiniteParts
  <2>2. Cardinality(Full') = Cardinality(Full) + 1
    BY <1>9, <2>1, FS_AddElement
  <2>3. Cardinality(Graves') = IF slot[i] = Tomb THEN Cardinality(Graves) - 1 ELSE Cardinality(Graves)
    <3>1. i \in Graves <=> slot[i] = Tomb
      BY <1>9 DEF Graves
    <3>2. Cardinality(Graves \ {i}) =
            IF i \in Graves THEN Cardinality(Graves) - 1 ELSE Cardinality(Graves)
      <4> HIDE DEF Graves
      <4> QED BY <2>1, FS_RemoveElement
    <3> QED BY <1>9, <3>1, <3>2
  <2>4. Cardinality(Full') \in 0 .. Cap
    <3>1. Full' \in SUBSET Slots
      BY <1>9 DEF Full
    <3> QED BY <3>1, FinitePart
  <2>5. Cardinality(DOMAIN old') = 0
    BY <1>2, <1>3, FS_EmptySet
  <2>6. count = Cardinality(Full) /\ tombs = Cardinality(Graves) /\ Cap \in Nat
    BY FakerootAssumption DEF TInv, Counters
  <2> HIDE DEF Full, Graves
  <2> QED BY <1>8, <2>2, <2>3, <2>4, <2>5, <2>6 DEF Counters
<1>13. ASSUME NEW q \in Keys
       PROVE  /\ Stored(q)' <=> Stored(q) \/ q = k
              /\ ~Left(q)'
              /\ Aged(q)' <=> Aged(q) \/ q = k
  <2>1. Stored(q)' <=> Stored(q) \/ q = k
    <3>1. slot[i] \notin Keys
      BY <1>9 DEF Full
    <3> QED BY <1>6, <1>8, <1>9, <3>1 DEF Stored, TableType
  <2>2. ~Left(q)'
    BY <1>2, <1>3 DEF Left
  <2>3. Aged(q)' <=> Aged(q) \/ q = k
    BY <1>10 DEF Aged
  <2> QED BY <2>1, <2>2, <2>3
<1>14. Ages'
  <2>1. ASSUME NEW q \in Keys PROVE Aged(q)' <=> Stored(q)' \/ Left(q)'
    BY <1>3, <1>13 DEF TInv, Ages
  <2> QED BY <1>10, <2>1 DEF Ages
<1>15. "unlock" \notin Adding
  BY DEF Adding
<1>16. /\ Operands' /\ Absent' /\ Room'
       /\ DOMAIN old' # {} =>
            /\ lock["by_inode"]' = 1
            /\ \A u \in Threads :
                 loc'[u].pc \in Inner \cup {"unlock"} /\ loc'[u].map = "by_inode"
                   => At(u, "compact")'
       /\ \A u \in Threads : At(u, "compact")' => tombs' = 0
  BY <1>1, <1>2, <1>3, <1>15, Within
<1>17. /\ (\A a, b \in DOMAIN old : old[a] = old[b] => a = b)'
       /\ (\A q \in Keys : Left(q) => ~Stored(q))'
  BY <1>2, <1>3, <1>13
<1> QED BY <1>9, <1>11, <1>12, <1>14, <1>16, <1>17 DEF TInv, Compaction

(* The keys that are evicted are in as many slots. *)
LEMMA VictimSlots ==
  ASSUME TableType, Searches, \A v \in Victims : Stored(v), Victims \subseteq Keys
  PROVE  /\ IsFiniteSet({i \in Slots : slot[i] \in Victims})
         /\ Cardinality({i \in Slots : slot[i] \in Victims}) = Cardinality(Victims)
<1> DEFINE S == {i \in Slots : slot[i] \in Victims}
           f == [i \in S |-> slot[i]]
<1>1. IsFiniteSet(S)
  BY FinitePart, S \in SUBSET Slots
<1>2. f \in [S -> Victims]
  OBVIOUS
<1>3. IsInjective(f)
  BY DEF IsInjective, Searches, Full
<1>4. \A v \in Victims : \E i \in S : f[i] = v
  BY DEF Stored
<1>5. f \in Bijection(S, Victims)
  BY <1>2, <1>3, <1>4 DEF Bijection, Injection, Surjection
<1> HIDE DEF S, f
<1>6. Cardinality(Victims) = Cardinality(S)
  BY <1>1, <1>5, FS_Bijection DEF ExistsBijection
<1> QED BY <1>1, <1>6 DEF S

(* The order of the entries without the evicted ones. *)
LEMMA AgeAfter ==
  ASSUME TableType, Ages, age' = SubSeq(age, Evictable + 1, Len(age))
  PROVE  /\ age' \in Seq(Keys)
         /\ \A p, q \in 1 .. Len(age') : age'[p] = age'[q] => p = q
         /\ \A q \in Keys : (\E p \in 1 .. Len(age') : age'[p] = q)
                              <=> Aged(q) /\ q \notin Victims
         /\ Evictable \in 0 .. Len(age) /\ (Len(age) > 0 => Evictable > 0)
<1> DEFINE n == Evictable
<1>1. /\ age \in Seq(Keys) /\ Len(age) \in Nat
      /\ \A p \in 1 .. Len(age) : age[p] \in Keys
  BY DEF TableType
<1>2. n \in 0 .. Len(age) /\ (Len(age) > 0 => n > 0)
  BY <1>1, FakerootAssumption DEF Evictable, Least
<1>3. Victims = {age[p] : p \in 1 .. n}
  BY DEF Victims
<1> HIDE DEF n
<1>4. /\ age' \in Seq(Keys) /\ Len(age') = Len(age) - n
      /\ \A p \in 1 .. Len(age) - n : age'[p] = age[p + n]
  <2>1. \A p \in n + 1 .. Len(age) : age[p] \in Keys
    BY <1>1, <1>2
  <2>2. n + 1 \in Int /\ Len(age) \in Int
    BY <1>1, <1>2
  <2>3. /\ age' \in Seq(Keys)
        /\ Len(age') = IF n + 1 <= Len(age) THEN Len(age) - (n + 1) + 1 ELSE 0
        /\ \A p \in 1 .. Len(age) - (n + 1) + 1 : age'[p] = age[(n + 1) + p - 1]
    BY <2>1, <2>2, SubSeqProperties DEF n
  <2>4. Len(age) - (n + 1) + 1 = Len(age) - n /\ \A p \in Nat : (n + 1) + p - 1 = p + n
    BY <1>1, <1>2
  <2>5. n + 1 <= Len(age) \/ Len(age) - n = 0
    BY <1>1, <1>2
  <2>6. Len(age') = Len(age) - n
    BY <2>3, <2>4, <2>5
  <2>7. \A p \in 1 .. Len(age) - n : p \in Nat
    BY <1>1, <1>2
  <2>8. \A p \in 1 .. Len(age) - n : age'[p] = age[p + n]
    BY <2>3, <2>4, <2>7
  <2> QED BY <2>3, <2>6, <2>8
<1>5. \A p, q \in 1 .. Len(age') : age'[p] = age'[q] => p = q
  <2> SUFFICES ASSUME NEW p \in 1 .. Len(age) - n, NEW q \in 1 .. Len(age) - n,
                      age[p + n] = age[q + n]
               PROVE  p = q
    BY <1>4
  <2>1. p + n \in 1 .. Len(age) /\ q + n \in 1 .. Len(age)
    BY <1>1, <1>2
  <2>2. p + n = q + n
    BY <2>1 DEF Ages
  <2> QED BY <1>1, <1>2, <2>2
<1>6. ASSUME NEW q \in Keys
      PROVE  (\E p \in 1 .. Len(age') : age'[p] = q) <=> Aged(q) /\ q \notin Victims
  <2>1. ASSUME NEW p \in 1 .. Len(age'), age'[p] = q PROVE Aged(q) /\ q \notin Victims
    <3>1. p \in 1 .. Len(age) - n
      BY <1>4
    <3>2. p + n \in 1 .. Len(age) /\ age[p + n] = q
      <4>1. p + n \in 1 .. Len(age)
        BY <1>1, <1>2, <3>1
      <4> QED BY <1>4, <2>1, <3>1, <4>1
    <3>3. \A r \in 1 .. n : r \in 1 .. Len(age) /\ r # p + n
      BY <1>1, <1>2, <3>1
    <3>4. \A r \in 1 .. n : age[r] # q
      BY <3>2, <3>3 DEF Ages
    <3> QED BY <1>3, <3>2, <3>4 DEF Aged
  <2>2. ASSUME NEW p \in 1 .. Len(age), age[p] = q, q \notin Victims
        PROVE  \E r \in 1 .. Len(age') : age'[r] = q
    <3>1. p > n
      BY <1>2, <1>3, <2>2
    <3>2. p - n \in 1 .. Len(age) - n /\ (p - n) + n = p
      BY <1>1, <1>2, <3>1
    <3> QED BY <1>4, <2>2, <3>2
  <2> QED BY <2>1, <2>2 DEF Aged
<1> QED BY <1>2, <1>4, <1>5, <1>6 DEF n

LEMMA EvictTInv ==
  ASSUME IInv, TInv, NEW t \in Threads, EvictLru(t)
  PROVE  TInv'
<1> DEFINE V == Victims
           S == {i \in Slots : slot[i] \in V}
           n == Evictable
<1>1. /\ loc[t].pc = "evict" /\ loc[t].pc \in Inner /\ loc[t].pc \in Adding
      /\ loc[t].map = "by_inode" /\ loc[t].key \in Keys /\ Overloaded
  BY DEF EvictLru, At, Inner, Adding, TInv, Operands, Room
<1>2. /\ old' = old /\ refused' = refused /\ Goto(t, "evicted")
      /\ slot' = [i \in Slots |-> IF slot[i] \in V THEN Tomb ELSE slot[i]]
      /\ rec' = [k \in Keys |-> IF k \in V THEN Unknown ELSE rec[k]]
      /\ age' = SubSeq(age, n + 1, Len(age))
      /\ count' = count - Cardinality(V)
      /\ tombs' = tombs + Cardinality(V)
  BY DEF EvictLru, Vacated
<1>3. lock' = lock
  BY DEF EvictLru, Acquire, At, IInv, Depths, In
<1>4. DOMAIN old = {} /\ \A q \in Keys : ~Left(q)
  BY <1>1, NothingLeft DEF At
<1>5. TableType /\ Searches /\ Counters /\ Ages
  BY DEF TInv
<1>6. /\ age \in Seq(Keys) /\ Len(age) \in Nat
      /\ \A p \in 1 .. Len(age) : age[p] \in Keys
  BY <1>5 DEF TableType
<1>7. /\ age' \in Seq(Keys)
      /\ \A p, q \in 1 .. Len(age') : age'[p] = age'[q] => p = q
      /\ \A q \in Keys : (\E p \in 1 .. Len(age') : age'[p] = q) <=> Aged(q) /\ q \notin V
      /\ n \in 0 .. Len(age) /\ (Len(age) > 0 => n > 0)
  BY <1>2, <1>5, AgeAfter
<1>8. n \in 0 .. Len(age) /\ (Len(age) > 0 => n > 0)
  BY <1>7
<1>9. V = {age[p] : p \in 1 .. n}
  BY DEF Victims
<1> HIDE DEF n, V
<1>10. V \subseteq Keys /\ \A v \in V : Stored(v)
  <2>1. \A v \in V : v \in Keys /\ Aged(v)
    BY <1>6, <1>8, <1>9 DEF Aged
  <2> QED BY <1>4, <1>5, <2>1 DEF Ages
<1>11. IsFiniteSet(S) /\ Cardinality(S) = Cardinality(V)
  BY <1>5, <1>10, VictimSlots DEF V
<1>12. /\ Searches'
       /\ Full' = Full \ S
       /\ Graves' = Graves \cup S
       /\ Graves \cap S = {}
  BY <1>2, <1>5, <1>10, Bury
<1>13. Full \cap S = S
  BY <1>10 DEF Full
<1> HIDE DEF S
<1>14. ASSUME NEW q \in Keys PROVE Aged(q)' <=> Aged(q) /\ q \notin V
  BY <1>7 DEF Aged
<1>15. ASSUME NEW q \in Keys PROVE Stored(q)' <=> Stored(q) /\ q \notin V
  BY <1>2, FakerootAssumption DEF Stored
<1>16. ASSUME NEW q \in Keys PROVE ~Left(q)'
  BY <1>2, <1>4 DEF Left
<1>17. Ages'
  <2>1. ASSUME NEW q \in Keys PROVE Aged(q)' <=> Stored(q)' \/ Left(q)'
    BY <1>4, <1>5, <1>14, <1>15, <1>16 DEF Ages
  <2> QED BY <1>7, <2>1 DEF Ages
<1>18. IsFiniteSet(Full) /\ IsFiniteSet(Graves)
       /\ Cardinality(Full) \in 0 .. Cap /\ Cardinality(Graves) \in 0 .. Cap
       /\ Cardinality(V) \in Nat
  BY <1>5, <1>11, FiniteParts, FS_CardinalityType
<1>19. /\ Cardinality(Full') = Cardinality(Full) - Cardinality(V)
       /\ Cardinality(Graves') = Cardinality(Graves) + Cardinality(V)
  <2>1. Cardinality(Full') = Cardinality(Full) - Cardinality(V)
    <3>1. Cardinality(Full \ S) = Cardinality(Full) - Cardinality(Full \cap S)
      BY <1>18, FS_Difference
    <3> QED BY <1>11, <1>12, <1>13, <3>1
  <2>2. Cardinality(Graves') = Cardinality(Graves) + Cardinality(S) - Cardinality({})
    BY <1>11, <1>12, <1>18, FS_Union
  <2>3. Cardinality({}) = 0
    BY FS_EmptySet
  <2> QED BY <1>11, <1>18, <2>1, <2>2, <2>3
<1>20. Counters'
  <2>1. count = Cardinality(Full) /\ tombs = Cardinality(Graves) /\ Cap \in Nat
    BY <1>5, FakerootAssumption DEF Counters
  <2>2. Cardinality(DOMAIN old') = 0
    BY <1>2, <1>4, FS_EmptySet
  <2> QED BY <1>2, <1>18, <1>19, <2>1, <2>2 DEF Counters
<1>21. TableType'
  <2>1. slot' \in [Slots -> Keys \cup {Empty, Tomb}]
    BY <1>2, <1>5 DEF TableType
  <2>2. rec' \in [Keys -> Ownerships]
    BY <1>2, <1>5 DEF TableType, Unknown, Ownerships
  <2>3. count' \in Int /\ tombs' \in Int
    BY <1>2, <1>5, <1>18 DEF TableType
  <2> QED BY <1>2, <1>5, <1>7, <2>1, <2>2, <2>3 DEF TableType
<1>22. \E i \in Slots : slot'[i] \notin Keys
  <2>1. CASE Graves # {}
    <3> PICK i \in Graves : TRUE
      BY <2>1
    <3>1. i \in Slots /\ slot'[i] = Tomb
      BY <1>2 DEF Graves
    <3> QED BY <3>1, FakerootAssumption
  <2>2. CASE Graves = {}
    <3>1. tombs = 0 /\ count \in Nat
      BY <1>5, <1>18, <2>2, FS_EmptySet DEF Counters
    <3>2. count # 0
      <4> SUFFICES ASSUME count = 0 PROVE FALSE
        OBVIOUS
      <4>1. Cap \in Nat \ {0} /\ LoadPercent \in 1 .. 100
        BY FakerootAssumption
      <4>2. Cap * LoadPercent >= 1
        BY <4>1
      <4>3. (0 + 0) * 100 >= Cap * LoadPercent
        BY <1>1, <3>1 DEF Overloaded
      <4>4. Cap * LoadPercent \in Int
        BY <4>1
      <4> QED BY <4>2, <4>3, <4>4
    <3>3. Full # {}
      BY <1>5, <3>2, FS_EmptySet DEF Counters
    <3>4. PICK i \in Slots : slot[i] \in Keys
      BY <3>3 DEF Full
    <3>5. Aged(slot[i])
      BY <1>5, <3>4 DEF Ages, Stored
    <3>6. Len(age) > 0
      BY <1>6, <3>5 DEF Aged
    <3>7. age[1] \in V /\ Stored(age[1])
      BY <1>6, <1>8, <1>9, <1>10, <3>6
    <3>8. PICK j \in Slots : slot[j] = age[1]
      BY <3>7 DEF Stored
    <3>9. slot'[j] = Tomb
      BY <1>2, <3>7, <3>8
    <3> QED BY <3>9, FakerootAssumption
  <2> QED BY <2>1, <2>2
<1>23. ~\E p \in 1 .. Len(age') : age'[p] = loc[t].key
  <2>1. ~Aged(loc[t].key)
    BY <1>1 DEF TInv, Absent
  <2>2. ~Aged(loc[t].key) => ~\E p \in 1 .. Len(age') : age'[p] = loc[t].key
    BY <1>1, <1>14 DEF Aged
  <2> QED BY <2>1, <2>2
<1>24. "evicted" \in Inner
  BY DEF Inner
<1>25. DOMAIN old' = {}
  BY <1>2, <1>4
<1>26. /\ Operands' /\ Absent' /\ Room'
       /\ DOMAIN old' # {} =>
            /\ lock["by_inode"]' = 1
            /\ \A u \in Threads :
                 loc'[u].pc \in Inner \cup {"unlock"} /\ loc'[u].map = "by_inode"
                   => At(u, "compact")'
       /\ \A u \in Threads : At(u, "compact")' => tombs' = 0
  <2>1. /\ Operands'
        /\ (~\E p \in 1 .. Len(age') : age'[p] = loc[t].key) => Absent'
    BY <1>1, <1>2, <1>3, <1>24, Within
  <2>3. (/\ "evicted" = "evict" => Overloaded'
         /\ "evicted" \in {"evicted", "insert"} => \E i \in Slots : slot'[i] \notin Keys)
           => Room'
    BY <1>1, <1>2, <1>3, <1>24, Within
  <2>2. /\ DOMAIN old' # {} =>
             /\ lock["by_inode"]' = 1
             /\ \A u \in Threads :
                  loc'[u].pc \in Inner \cup {"unlock"} /\ loc'[u].map = "by_inode"
                    => At(u, "compact")'
        /\ \A u \in Threads : At(u, "compact")' => tombs' = 0
    BY <1>1, <1>2, <1>3, <1>24, <1>25, Within
  <2> QED BY <1>22, <1>23, <2>1, <2>2, <2>3
<1>27. /\ (\A a, b \in DOMAIN old : old[a] = old[b] => a = b)'
       /\ (\A q \in Keys : Left(q) => ~Stored(q))'
  BY <1>25, <1>16
<1> QED BY <1>12, <1>17, <1>20, <1>21, <1>26, <1>27 DEF TInv, Compaction

LEMMA NextTInv == IInv /\ TInv /\ [Next]_vars => TInv'
<1> SUFFICES ASSUME IInv, TInv, [Next]_vars PROVE TInv'
  OBVIOUS
<1>1. ASSUME NEW t \in Threads, NEW c \in Calls[t], Chown(t, c[1], c[2]) PROVE TInv'
  <2>1. c = <<c[1], c[2]>> /\ c[1] \in Keys
    BY FakerootAssumption
  <2> DEFINE e == [pc |-> "lock", map |-> "by_path", key |-> c[1], req |-> c[2]]
  <2>2. /\ e.pc = "lock" /\ e.key \in Keys
        /\ e.req # Unknown => <<e.key, e.req>> \in Calls[t]
    BY <2>1
  <2>3. /\ At(t, "idle") /\ UNCHANGED <<table, locks, refused>>
        /\ loc' = [loc EXCEPT ![t] = e]
    BY <1>1 DEF Chown
  <2> HIDE DEF e
  <2> QED BY <2>2, <2>3, CallTInv
<1>2. ASSUME NEW t \in Threads, NEW k \in Keys, Stat(t, k) PROVE TInv'
  <2> DEFINE e == [Idle EXCEPT !.pc = "lock", !.key = k]
  <2>1. e.pc = "lock" /\ e.key \in Keys /\ (e.req # Unknown => <<e.key, e.req>> \in Calls[t])
    BY DEF Idle
  <2>2. /\ At(t, "idle") /\ UNCHANGED <<table, locks, refused>>
        /\ loc' = [loc EXCEPT ![t] = e]
    BY <1>2 DEF Stat
  <2> HIDE DEF e
  <2> QED BY <2>1, <2>2, CallTInv
<1>3. ASSUME NEW t \in Threads, Inside(t) PROVE TInv'
  BY <1>3, SeenTInv, PutTInv, CompactTInv, PassTInv, EvictTInv, InsertTInv, UnlockTInv
    DEF Inside
<1>4. CASE UNCHANGED vars
  <2>1. UNCHANGED table /\ lock' = lock /\ loc' = loc /\ refused' \in 0 .. MaxRefused
    BY <1>4 DEF vars, locks, TInv, TableType
  <2>2. /\ slot' = slot /\ old' = old /\ tombs' = tombs /\ count' = count /\ age' = age
    BY <2>1 DEF table
  <2>3. Operands'
    BY <2>1 DEF TInv, Operands
  <2>4. Compaction'
    BY <2>1, <2>2, SameTable DEF TInv, Compaction, At
  <2>5. Absent'
    BY <2>1, <2>2 DEF TInv, Absent, Aged
  <2>6. Room'
    BY <2>1, <2>2 DEF TInv, Room, At, Overloaded
  <2> QED BY <2>1, <2>3, <2>4, <2>5, <2>6, SameTable DEF TInv
<1> QED BY <1>1, <1>2, <1>3, <1>4, LockTInv, ForkTInv DEF Next

LEMMA SpecTInv == Spec => []TInv
BY InitTInv, NextTInv, SpecIInv, PTL DEF Spec

(* Between any two steps of any number of threads, also half way through a
   compaction or an eviction, every entry is found by the search for it and by
   no other way, the counters are those of the slots, and who adds an entry has
   a place for it (fakeroot.c:538-760, 983-1060). *)
THEOREM FakerootTableSound == Spec => []TableSound
<1>1. IInv /\ TInv => TableSound
  <2> SUFFICES ASSUME IInv, TInv PROVE TableSound
    OBVIOUS
  <2>1. TypeOK
    <3>1. count \in 0 .. Cap /\ tombs \in 0 .. Cap
      BY FiniteParts DEF TInv, Counters
    <3>2. depth \in [Threads -> 0 .. 2]
      BY DEF IInv, LocksType, Depths
    <3> QED BY <3>1, <3>2 DEF IInv, LocksType, TInv, TableType, TypeOK
  <2>2. Findable
    BY SearchEnds DEF TInv, Searches, Full, Findable
  <2>3. CountersAgree
    BY DEF TInv, Counters, Full, Graves, CountersAgree
  <2>4. AlwaysRoom
    <3> SUFFICES ASSUME NEW t \in Threads, At(t, "insert")
                 PROVE  Probe(loc[t].key) # Nowhere
      BY DEF AlwaysRoom
    <3>1. loc[t].key \in Keys /\ ~Stored(loc[t].key)
      BY DEF TInv, Operands, Absent, Ages, At, Adding
    <3>2. \E i \in Slots : slot[i] \notin Keys
      BY DEF TInv, Room, At
    <3> QED BY <3>1, <3>2, RoomFound DEF TInv
  <2> QED BY <2>1, <2>2, <2>3, <2>4 DEF TableSound
<1> QED BY <1>1, SpecIInv, SpecTInv, PTL

-----------------------------------------------------------------------------
(* The table is the cache that OwnerCache describes.                       *)

(* What the cache knows, as the invariant lets one say it. *)
Recorded == [k \in Keys |-> IF Aged(k) THEN rec[k] ELSE Unknown]

LEMMA KnownIs == TInv => Known = Recorded
<1> SUFFICES ASSUME TInv PROVE Known = Recorded
  OBVIOUS
<1>1. ASSUME NEW k \in Keys PROVE (Finds(k) \/ \E i \in DOMAIN old : old[i] = k) <=> Aged(k)
  BY FindsStored DEF TInv, Ages, Left
<1> QED BY <1>1 DEF Known, Recorded

LEMMA KnownThen == (TInv => Known = Recorded)'
BY KnownIs, PTL

(* A step that leaves the records and their order is none of the cache's. *)
LEMMA SameCache ==
  ASSUME TInv, TInv', UNCHANGED <<rec, age>>
  PROVE  UNCHANGED <<Known, age>>
<1>1. Recorded' = Recorded
  BY DEF Recorded, Aged
<1> QED BY <1>1, KnownIs, KnownThen

LEMMA InitCache == Init => Cache!Init
<1> SUFFICES ASSUME Init PROVE Cache!Init
  OBVIOUS
<1>1. Known = Recorded
  BY InitTInv, KnownIs
<1>2. \A k \in Keys : ~Aged(k)
  BY DEF Init, Aged
<1>3. Known = [k \in Keys |-> Unknown] /\ age = <<>>
  BY <1>1, <1>2 DEF Recorded, Init
<1> QED BY <1>3 DEF Cache!Init, Cache!Unknown, Unknown

(* An ownership is given to k: what is set of it is known from then on. *)
LEMMA NoteCache ==
  ASSUME TInv, TInv', NEW k \in Keys, NEW d \in Requests,
         age' = Touched(k),
         rec' = [rec EXCEPT ![k] = Merge(Recorded[k], d)]
  PROVE  Cache!Note(k, d)
<1>1. age' = Cache!Latest(k)
  BY DEF Touched, Cache!Latest, Cache!Remembered
<1>2. \A j \in Keys : Aged(j)' <=> j = k \/ Aged(j)
  <2>1. \A j \in Keys : (\E p \in 1 .. Len(Touched(k)) : Touched(k)[p] = j)
                           <=> j = k \/ Aged(j)
    BY TouchedIs DEF TInv, TableType, Ages
  <2>2. \A j \in Keys : (\E p \in 1 .. Len(age') : age'[p] = j) <=> j = k \/ Aged(j)
    BY <2>1
  <2> QED BY <2>2 DEF Aged
<1>3. rec \in [Keys -> Ownerships]
  BY DEF TInv, TableType
<1>4. Recorded' = [Recorded EXCEPT ![k] = Merge(@, d)]
  BY <1>2, <1>3 DEF Recorded
<1>5. Known' = [Known EXCEPT ![k] = Merge(@, d)]
  BY <1>4, KnownIs, KnownThen
<1> QED BY <1>1, <1>5 DEF Cache!Note, Cache!Merge, Merge

LEMMA NextCache ==
  IInv /\ TInv /\ TInv' /\ [Next]_vars => [Cache!Next]_<<Known, age>>
<1> SUFFICES ASSUME IInv, TInv, TInv', [Next]_vars
             PROVE  Cache!Next \/ UNCHANGED <<Known, age>>
  OBVIOUS
<1>1. CASE UNCHANGED <<rec, age>>
  BY <1>1, SameCache
<1>2. ASSUME NEW t \in Threads, Get(t) PROVE Cache!Next \/ UNCHANGED <<rec, age>>
  <2> DEFINE k == loc[t].key
  <2>1. k \in Keys /\ rec' = rec /\ age' = IF Finds(k) THEN Touched(k) ELSE age
    BY <1>2 DEF Get, At, TInv, Operands
  <2>2. CASE ~Finds(k)
    BY <2>1, <2>2
  <2>3. CASE Finds(k)
    <3> HIDE DEF k
    <3>1. Aged(k)
      BY <2>1, <2>3, FindsStored DEF TInv, Ages
    <3>2. Cache!Remembered(k) /\ age' = Cache!Latest(k)
      BY <2>1, <2>3, <3>1 DEF Aged, Touched, Cache!Latest, Cache!Remembered, TInv, TableType
    <3>3. \A j \in Keys : Aged(j)' <=> Aged(j)
      <4>1. \A j \in Keys : (\E p \in 1 .. Len(Touched(k)) : Touched(k)[p] = j)
                               <=> j = k \/ Aged(j)
        BY <2>1, TouchedIs DEF TInv, TableType, Ages
      <4>2. \A j \in Keys : (\E p \in 1 .. Len(age') : age'[p] = j) <=> j = k \/ Aged(j)
        BY <2>1, <2>3, <4>1
      <4> QED BY <3>1, <4>2 DEF Aged
    <3>4. Recorded' = Recorded
      BY <2>1, <3>3 DEF Recorded
    <3>5. Known' = Known
      BY <3>4, KnownIs, KnownThen
    <3> QED BY <2>1, <3>2, <3>5 DEF Cache!Next, Cache!Ask
  <2> QED BY <2>2, <2>3
<1>3. ASSUME NEW t \in Threads, loc[t].pc \in Adding \cup {"update"}
      PROVE  loc[t].key \in Keys /\ loc[t].req \in Requests
  <2>1. loc[t].key \in Keys /\ <<loc[t].key, loc[t].req>> \in Calls[t] /\ loc[t].req # Unknown
    BY <1>3 DEF TInv, Operands, Adding
  <2> QED BY <2>1 DEF Requests, IInv, LocksType
<1>4. ASSUME NEW t \in Threads, Update(t) PROVE Cache!Next \/ UNCHANGED <<rec, age>>
  <2> DEFINE k == loc[t].key
             d == loc[t].req
  <2>1. k \in Keys /\ d \in Requests
    BY <1>3, <1>4 DEF Update, At
  <2>2. CASE ~Finds(k)
    BY <1>4, <2>2 DEF Update
  <2>3. CASE Finds(k)
    <3>1. rec' = [rec EXCEPT ![k] = Merge(@, d)] /\ age' = Touched(k)
      BY <1>4, <2>3 DEF Update
    <3> HIDE DEF k, d
    <3>2. Recorded[k] = rec[k]
      BY <2>1, <2>3, FindsStored DEF TInv, Ages, Recorded
    <3>3. rec' = [rec EXCEPT ![k] = Merge(Recorded[k], d)]
      BY <2>1, <3>1, <3>2 DEF TInv, TableType
    <3>4. Cache!Note(k, d)
      BY <2>1, <3>1, <3>3, NoteCache
    <3> QED BY <2>1, <3>4 DEF Cache!Next
  <2> QED BY <2>2, <2>3
<1>5. ASSUME NEW t \in Threads, Insert(t) PROVE Cache!Next \/ UNCHANGED <<rec, age>>
  <2> DEFINE k == loc[t].key
             d == loc[t].req
  <2>1. k \in Keys /\ d \in Requests
    BY <1>3, <1>5 DEF Insert, At, Adding
  <2>2. CASE Probe(k) = Nowhere
    BY <1>5, <2>2 DEF Insert
  <2>3. CASE Probe(k) # Nowhere
    <3>1. rec' = [rec EXCEPT ![k] = d] /\ age' = Touched(k)
      BY <1>5, <2>3 DEF Insert
    <3>2. ~Aged(k)
      BY <1>5 DEF TInv, Absent, Insert, At, Adding
    <3> HIDE DEF k, d
    <3>3. Recorded[k] = Unknown /\ d \in Ownerships
      BY <2>1, <3>2 DEF Recorded, Requests
    <3>4. Merge(Unknown, d) = d
      BY <3>3 DEF Merge, Unknown, Ownerships
    <3>5. Cache!Note(k, d)
      BY <2>1, <3>1, <3>3, <3>4, NoteCache
    <3> QED BY <2>1, <3>5 DEF Cache!Next
  <2> QED BY <2>2, <2>3
<1>6. ASSUME NEW t \in Threads, EvictLru(t) PROVE Cache!Next \/ UNCHANGED <<rec, age>>
  <2> DEFINE n == Evictable
  <2>1. /\ rec' = [k \in Keys |-> IF k \in Victims THEN Unknown ELSE rec[k]]
        /\ age' = SubSeq(age, n + 1, Len(age))
    BY <1>6 DEF EvictLru
  <2>2. /\ n \in 0 .. Len(age)
        /\ \A q \in Keys : (\E p \in 1 .. Len(age') : age'[p] = q) <=> Aged(q) /\ q \notin Victims
    BY <2>1, AgeAfter DEF TInv
  <2>3. Victims = {age[i] : i \in 1 .. n} /\ age \in Seq(Keys) /\ rec \in [Keys -> Ownerships]
    BY DEF Victims, TInv, TableType
  <2> HIDE DEF n
  <2>4. CASE n = 0
    <3>1. Victims = {}
      BY <2>3, <2>4
    <3>2. rec' = rec
      BY <2>1, <2>3, <3>1
    <3>3. age' = age
      BY <2>1, <2>3, <2>4, SubSeqFull
    <3> QED BY <3>2, <3>3
  <2>5. CASE n # 0
    <3>1. \A k \in Keys : Aged(k)' <=> Aged(k) /\ k \notin Victims
      BY <2>2 DEF Aged
    <3>2. Recorded' = [k \in Keys |-> IF k \in Victims THEN Unknown ELSE Recorded[k]]
      BY <2>1, <3>1 DEF Recorded
    <3>3. \A k \in Keys : k \in Victims <=> \E i \in 1 .. n : age[i] = k
      BY <2>3
    <3>4. Known' = [k \in Keys |-> IF \E i \in 1 .. n : age[i] = k THEN Unknown ELSE Known[k]]
      BY <3>2, <3>3, KnownIs, KnownThen
    <3>5. Cache!ForgetOldest(n)
      BY <2>1, <3>4 DEF Cache!ForgetOldest, Cache!Unknown, Unknown
    <3>6. n \in 1 .. Len(age)
      BY <2>2, <2>3, <2>5
    <3> QED BY <3>5, <3>6 DEF Cache!Next
  <2> QED BY <2>4, <2>5
<1>7. ASSUME NEW t \in Threads, Inside(t) PROVE Cache!Next \/ UNCHANGED <<rec, age>>
  BY <1>2, <1>4, <1>5, <1>6, <1>7
    DEF Inside, Put, PutFails, Compact, Load, Evicted, Unlock, table
<1>8. ASSUME NEW t \in Threads, Lock(t) \/ Fork(t) PROVE UNCHANGED <<rec, age>>
  BY <1>8 DEF Lock, Fork, table
<1>9. CASE Next
  BY <1>1, <1>7, <1>8, <1>9 DEF Next, Chown, Stat, table
<1>10. CASE UNCHANGED vars
  BY <1>1, <1>10 DEF vars, table
<1> QED BY <1>9, <1>10

(* Whatever the threads do and in whatever order, the table of slots with
   tombstones answers as a cache that forgets the least recently used files
   and nothing else, and keeps the fields that a later call leaves alone. *)
THEOREM FakerootRefinement == Spec => Refinement
BY InitCache, NextCache, SpecIInv, SpecTInv, PTL DEF Spec, Refinement, Cache!Spec
=============================================================================
