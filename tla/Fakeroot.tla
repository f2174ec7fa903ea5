------------------------------ MODULE Fakeroot ------------------------------
(***************************************************************************)
(* The ownership ledger of fakeroot in one process: chown() that the       *)
(* kernel refuses is recorded by path and by inode, stat() shows what is   *)
(* recorded by inode.  The inode table is an open hash table with          *)
(* tombstones that evicts its least recently used entries; each table has  *)
(* a spin lock that is re-entrant by a counter of the thread.  What        *)
(* follows a fork() is the life of the child.                              *)
(*                                                                         *)
(* The path table has the same code and nothing reads it; only its lock is *)
(* here.  The clock of the entries is used to compare them alone, so their *)
(* order stands for it.                                                    *)
(***************************************************************************)
EXTENDS Integers, Sequences, FiniteSets

CONSTANTS
  Threads,
  Keys,         (* inodes                                                  *)
  Ids, Unset,   (* user and group ids; "leave this one alone", (uid_t)-1    *)
  Calls,        (* Calls[t]: the pairs of a file and an ownership thread t
                   chowns; a pair with Unknown is a file it stats          *)
  Cap,          (* slots of the table                                      *)
  Home,         (* the slot where the search for a key begins              *)
  LoadPercent,  (* FR_MAP_LOAD_PERCENT                                     *)
  EvictBatch,   (* FR_MAP_EVICT_BATCH                                      *)
  Empty, Tomb, Nowhere, NoKey,
  MaxRefused    (* allocations that may fail                               *)

Slots == 0 .. Cap - 1

Tables == {"by_path", "by_inode"}

PCs == {"idle", "lock", "get", "update", "put", "compact", "load",
        "evict", "evicted", "insert", "unlock", "gone"}

Ownerships == [uid : Ids \cup {Unset}, gid : Ids \cup {Unset}]

Unknown == [uid |-> Unset, gid |-> Unset]

ASSUME FakerootAssumption ==
  /\ Cap \in Nat \ {0} /\ EvictBatch \in Nat \ {0} /\ LoadPercent \in 1 .. 100
  /\ Home \in [Keys -> Slots]
  /\ Calls \in [Threads -> SUBSET (Keys \X Ownerships)]
  /\ Unset \notin Ids
  /\ NoKey \notin Keys /\ Keys \cap {Empty, Tomb} = {} /\ Empty # Tomb
  /\ Nowhere \notin Slots
  /\ MaxRefused \in Nat

VARIABLES
  slot,     (* slot[i]: Empty, Tomb, or the key of the live entry there    *)
  rec,      (* the record of each key; Unknown if there is no entry        *)
  age,      (* the keys of the entries, the smallest last_used first       *)
  count, tombs,
  old,      (* while compacting: what is left in the slots of before       *)
  lock,     (* lock[m]: the lock word of table m                           *)
  depth,    (* fr_lock_depth_of_thread                                     *)
  loc,      (* where each thread is, and its operands                      *)
  refused   (* allocations that have failed                                *)

table == <<slot, rec, age, count, tombs, old>>
locks == <<lock, depth>>
vars  == <<table, locks, loc, refused>>

Idle == [pc |-> "idle", map |-> "by_inode", key |-> NoKey, req |-> Unknown]

TypeOK ==
  /\ slot \in [Slots -> Keys \cup {Empty, Tomb}]
  /\ rec \in [Keys -> Ownerships]
  /\ age \in Seq(Keys)
  /\ count \in 0 .. Cap /\ tombs \in 0 .. Cap
  /\ DOMAIN old \subseteq Slots /\ \A i \in DOMAIN old : old[i] \in Keys
  /\ lock \in [Tables -> 0 .. 1]
  /\ depth \in [Threads -> 0 .. 2]
  /\ loc \in [Threads -> [pc : PCs, map : Tables, key : Keys \cup {NoKey},
                          req : Ownerships]]
  /\ refused \in 0 .. MaxRefused

Init ==
  /\ slot = [i \in Slots |-> Empty]
  /\ rec = [k \in Keys |-> Unknown]
  /\ age = <<>>
  /\ count = 0 /\ tombs = 0
  /\ old = <<>>
  /\ lock = [m \in Tables |-> 0]
  /\ depth = [t \in Threads |-> 0]
  /\ loc = [t \in Threads |-> Idle]
  /\ refused = 0

At(t, l) == loc[t].pc = l

Goto(t, l) == loc' = [loc EXCEPT ![t].pc = l]

-----------------------------------------------------------------------------
(* fr_map_probe *)

(* The i-th slot of the search for k. *)
Visit(k, i) == (Home[k] + i) % Cap

First(S) == CHOOSE i \in S : \A j \in S : i <= j

(* Where the search for k ends: the first slot that is empty or holds k; if
   there is none, the first tombstone. *)
Probe(k) ==
  LET stops == {i \in Slots : slot[Visit(k, i)] \in {Empty, k}}
      graves == {i \in Slots : slot[Visit(k, i)] = Tomb}
  IN IF stops # {} THEN Visit(k, First(stops))
     ELSE IF graves # {} THEN Visit(k, First(graves))
     ELSE Nowhere

Finds(k) == Probe(k) # Nowhere /\ slot[Probe(k)] = k

(* The entry of k becomes the most recently used one, or a new one is. *)
Touched(k) ==
  IF \E p \in DOMAIN age : age[p] = k
  THEN LET at == CHOOSE p \in DOMAIN age : age[p] = k
       IN [p \in DOMAIN age |-> IF p < at THEN age[p]
                                ELSE IF p < Len(age) THEN age[p + 1] ELSE k]
  ELSE Append(age, k)

(* Seeded fault: the new record replaces the old one. *)
MergeReplaces(r, d) == d

(* fr_record_merge *)
Merge(r, d) == [uid |-> IF d.uid = Unset THEN r.uid ELSE d.uid,
                gid |-> IF d.gid = Unset THEN r.gid ELSE d.gid]

-----------------------------------------------------------------------------
(* fr_lock, fr_unlock *)

(* Seeded fault: the lock is read and then stored, not exchanged. *)
AcquireUnchecked(t) ==
  /\ lock' = [lock EXCEPT ![loc[t].map] = 1]
  /\ depth' = [depth EXCEPT ![t] = @ + 1]

(* Seeded fault: the lock is not re-entrant. *)
AcquireOnce(t) ==
  /\ lock[loc[t].map] = 0
  /\ lock' = [lock EXCEPT ![loc[t].map] = 1]
  /\ depth' = [depth EXCEPT ![t] = @ + 1]

(* A thread that has a lock goes through; any other spins until it is free. *)
Acquire(t) ==
  /\ depth[t] > 0 \/ lock[loc[t].map] = 0
  /\ lock' = IF depth[t] > 0 THEN lock ELSE [lock EXCEPT ![loc[t].map] = 1]
  /\ depth' = [depth EXCEPT ![t] = @ + 1]

Release(t) ==
  /\ lock' = IF depth[t] > 1 THEN lock ELSE [lock EXCEPT ![loc[t].map] = 0]
  /\ depth' = [depth EXCEPT ![t] = IF @ > 1 THEN @ - 1 ELSE 0]

-----------------------------------------------------------------------------
(* The calls of the guest *)

(* chown, lchown, fchown, fchownat of a guest whose identity is root: the
   kernel did it, or refused it with EPERM, which is hidden; both are recorded. *)
Chown(t, k, d) ==
  /\ At(t, "idle")
  /\ d # Unknown
  /\ loc' = [loc EXCEPT ![t] = [pc |-> "lock", map |-> "by_path", key |-> k, req |-> d]]
  /\ UNCHANGED <<table, locks, refused>>

(* stat and its family. *)
Stat(t, k) ==
  /\ At(t, "idle")
  /\ loc' = [loc EXCEPT ![t] = [Idle EXCEPT !.pc = "lock", !.key = k]]
  /\ UNCHANGED <<table, locks, refused>>

(* What is done inside the path table has no action: nothing reads it. *)
Lock(t) ==
  /\ At(t, "lock")
  /\ Acquire(t)
  /\ Goto(t, IF loc[t].map = "by_path" THEN "unlock"
             ELSE IF loc[t].req = Unknown THEN "get" ELSE "update")
  /\ UNCHANGED <<table, refused>>

(* The end of the call, or of its part on the path table. *)
Unlock(t) ==
  /\ At(t, "unlock")
  /\ Release(t)
  /\ loc' = [loc EXCEPT ![t] = IF @.map = "by_path"
                               THEN [@ EXCEPT !.pc = "lock", !.map = "by_inode"]
                               ELSE Idle]
  /\ UNCHANGED <<table, refused>>

-----------------------------------------------------------------------------
(* The inode table: fakeroot_map_get, fr_map_update *)

Get(t) ==
  /\ At(t, "get")
  /\ age' = IF Finds(loc[t].key) THEN Touched(loc[t].key) ELSE age
  /\ Goto(t, "unlock")
  /\ UNCHANGED <<slot, rec, count, tombs, old, locks, refused>>

(* An entry there is takes the fields that are set; otherwise put goes on. *)
Update(t) ==
  LET k == loc[t].key IN
  /\ At(t, "update")
  /\ IF Finds(k)
     THEN /\ rec' = [rec EXCEPT ![k] = Merge(@, loc[t].req)]
          /\ age' = Touched(k)
          /\ Goto(t, "unlock")
     ELSE /\ Goto(t, "put")
          /\ UNCHANGED <<rec, age>>
  /\ UNCHANGED <<slot, count, tombs, old, locks, refused>>

(* An emptied table; what is put back is counted again. *)
CountersReset == count' = 0 /\ tombs' = 0

(* fr_map_compact begins if a quarter of the table is tombstones. *)
Put(t) ==
  /\ At(t, "put")
  /\ IF tombs > Cap \div 4
     THEN /\ old' = [i \in {j \in Slots : slot[j] \in Keys} |-> slot[i]]
          /\ slot' = [i \in Slots |-> Empty]
          /\ CountersReset
          /\ Goto(t, "compact")
     ELSE /\ Goto(t, "load")
          /\ UNCHANGED <<slot, count, tombs, old>>
  /\ UNCHANGED <<rec, age, locks, refused>>

(* No memory for the new table: the entry is not recorded. *)
PutFails(t) ==
  /\ At(t, "put")
  /\ tombs > Cap \div 4
  /\ refused < MaxRefused
  /\ refused' = refused + 1
  /\ Goto(t, "unlock")
  /\ UNCHANGED <<table, locks>>

(* One round of its loop. *)
Compact(t) ==
  /\ At(t, "compact")
  /\ IF DOMAIN old = {}
     THEN /\ Goto(t, "load")
          /\ UNCHANGED <<slot, count, old>>
     ELSE LET i == First(DOMAIN old) IN
          /\ slot' = [slot EXCEPT ![Probe(old[i])] = old[i]]
          /\ count' = count + 1
          /\ old' = [j \in DOMAIN old \ {i} |-> old[j]]
          /\ UNCHANGED loc
  /\ UNCHANGED <<rec, age, tombs, locks, refused>>

Overloaded == (count + tombs) * 100 >= Cap * LoadPercent

Load(t) ==
  /\ At(t, "load")
  /\ Goto(t, IF Overloaded THEN "evict" ELSE "insert")
  /\ UNCHANGED <<table, locks, refused>>

Least(i, j) == IF i <= j THEN i ELSE j

(* Seeded fault: an evicted entry leaves an empty slot. *)
VacatedEmpty == Empty

(* fr_slot_release *)
Vacated == Tomb

(* The keys evicted: the oldest ones, EvictBatch or as many as there are. *)
Evictable == Least(EvictBatch, Len(age))
Victims == {age[i] : i \in 1 .. Evictable}

(* fakeroot_map_evict_lru, called with the lock held. *)
EvictLru(t) ==
  /\ At(t, "evict")
  /\ Acquire(t)
  /\ slot' = [i \in Slots |-> IF slot[i] \in Victims THEN Vacated ELSE slot[i]]
  /\ rec' = [k \in Keys |-> IF k \in Victims THEN Unknown ELSE rec[k]]
  /\ age' = SubSeq(age, Evictable + 1, Len(age))
  /\ count' = count - Cardinality(Victims)
  /\ tombs' = tombs + Cardinality(Victims)
  /\ Goto(t, "evicted")
  /\ UNCHANGED <<old, refused>>

Evicted(t) ==
  /\ At(t, "evicted")
  /\ Release(t)
  /\ Goto(t, "insert")
  /\ UNCHANGED <<table, refused>>

(* The rest of put; FR_EFULL if there is no room. *)
Insert(t) ==
  LET k == loc[t].key
      i == Probe(k)
  IN
  /\ At(t, "insert")
  /\ IF i = Nowhere
     THEN UNCHANGED <<slot, rec, age, count, tombs>>
     ELSE /\ slot' = [slot EXCEPT ![i] = k]
          /\ rec' = [rec EXCEPT ![k] = loc[t].req]
          /\ age' = Touched(k)
          /\ count' = count + 1
          /\ tombs' = IF slot[i] = Tomb THEN tombs - 1 ELSE tombs
  /\ Goto(t, "unlock")
  /\ UNCHANGED <<old, locks, refused>>

-----------------------------------------------------------------------------
(* fork(): the child has the memory and one thread of its parent.  Its
   handler, bxroot_fakeroot_atfork_child, resets the counter of the thread;
   the tables it does not find, since their owner g_fakeroot is a weak symbol
   that nothing defines in the runtime built with FAKEROOT_PURE_LOGIC. *)
Fork(t) ==
  /\ At(t, "idle")
  /\ \E u \in Threads \ {t} : ~At(u, "gone")
  /\ loc' = [u \in Threads |-> IF u = t THEN Idle ELSE [Idle EXCEPT !.pc = "gone"]]
  /\ depth' = [u \in Threads |-> 0]
  /\ UNCHANGED <<table, lock, refused>>

(* A thread inside: none of its steps waits for another thread. *)
Inside(t) ==
  \/ Get(t) \/ Update(t) \/ Put(t) \/ PutFails(t) \/ Compact(t)
  \/ Load(t) \/ EvictLru(t) \/ Evicted(t) \/ Insert(t) \/ Unlock(t)

Next ==
  \E t \in Threads :
    \/ \E c \in Calls[t] : Chown(t, c[1], c[2])
    \/ \E k \in Keys : <<k, Unknown>> \in Calls[t] /\ Stat(t, k)
    \/ Lock(t) \/ Inside(t) \/ Fork(t)

(* A thread that holds a lock goes on. *)
Spec == Init /\ [][Next]_vars /\ \A t \in Threads : WF_vars(Inside(t))

-----------------------------------------------------------------------------
(* Properties *)

(* The threads between taking and releasing the lock of table m. *)
Holders(m) == {t \in Threads : loc[t].map = m /\ loc[t].pc \notin {"idle", "lock", "gone"}}

(* One thread at a time works on a table, and its lock is taken. *)
OneInside ==
  \A m \in Tables :
    /\ Cardinality(Holders(m)) <= 1
    /\ Holders(m) # {} => lock[m] = 1

(* Every entry is where the search for it ends, and only there: tombstones,
   reuse and compaction hide none and make no second one (fakeroot.c:629-633). *)
Findable ==
  \A i \in Slots : slot[i] \in Keys => Probe(slot[i]) = i

(* fakeroot_map_check_invariants: the counters are those of the slots. *)
CountersAgree ==
  /\ count = Cardinality({i \in Slots : slot[i] \in Keys})
  /\ tombs = Cardinality({i \in Slots : slot[i] = Tomb})

(* With eviction on, put never answers FR_EFULL. *)
AlwaysRoom == \A t \in Threads : At(t, "insert") => Probe(loc[t].key) # Nowhere

(* Together: at every moment, also half way through an eviction, the slots,
   their counters and the searches agree, and a new entry finds a place. *)
TableSound == TypeOK /\ Findable /\ CountersAgree /\ AlwaysRoom

(* What a search would find (or compaction is about to put back). *)
Known == [k \in Keys |-> IF Finds(k) \/ \E i \in DOMAIN old : old[i] = k
                         THEN rec[k] ELSE Unknown]

Requests == {d \in Ownerships \ {Unknown} :
               \E t \in Threads, k \in Keys : <<k, d>> \in Calls[t]}

Cache == INSTANCE OwnerCache WITH known <- Known, recent <- age

(* The table is a cache that forgets the least recently used entries, and
   only them: nothing else is lost, and no field that was not set changes. *)
Refinement == Cache!Spec

(* Whoever holds a lock lets go of it, also where put calls a public entry
   that takes the lock again (fakeroot.c:231-234). *)
CriticalEnds ==
  \A t \in Threads : []<>(depth[t] = 0)

(* No lock is taken by a thread that is not there, so no thread spins for
   ever: what bxroot_fakeroot_atfork_child is for (preload.c:97-117).
   The code breaks this, so no run asserts it. *)
NoneOrphaned == \A m \in Tables : lock[m] = 1 => Holders(m) # {}
=============================================================================
