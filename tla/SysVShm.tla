------------------------------ MODULE SysVShm ------------------------------
(***************************************************************************)
(* System V shared memory over a directory of files (the profile in which  *)
(* creation is on): `seg-<id>' is a segment, `key-<key>' holds the id of a *)
(* key, `.id-<id>' reserves an id for ever, and an OFD lock on             *)
(* `.claim-lock' serialises shmget(key) and shmctl(IPC_RMID) of all        *)
(* processes.  One action per call that changes the directory or the lock; *)
(* a call may be refused and a process may be killed between two of them.  *)
(***************************************************************************)
EXTENDS Integers, FiniteSets

CONSTANTS
  Procs,       (* processes; each makes one call at a time (the gate)      *)
  Keys,        (* keys other than IPC_PRIVATE                              *)
  Ids,         (* candidate ids (30 random bits)                           *)
  NoProc, NoKey, NoId,
  Nothing, Failed, EEXIST, ENOENT,   (* results other than an id           *)
  Ops,         (* calls the guests use in this instance                    *)
  MaxFaults,   (* system calls that may be refused                         *)
  MaxCrashes   (* processes that may be killed                             *)

Results == {Nothing, Failed, EEXIST, ENOENT}

PCs == {"idle", "claim", "read", "open", "stale", "token", "seg", "trunc", "pub",
        "undo", "winner", "winopen", "drop", "rm_claim", "rm_seg", "rm_keys", "rel"}

ASSUME ShmAssumption ==
  /\ NoProc \notin Procs /\ NoKey \notin Keys /\ NoId \notin Ids
  /\ Results \cap (Ids \cup {NoId}) = {}
  /\ Ops \subseteq {"get", "private", "rmid", "official", "reuse"}
  /\ MaxFaults \in Nat /\ MaxCrashes \in Nat

VARIABLES
  token,    (* ids with a .id-<id> file                                    *)
  seg,      (* ids with a seg-<id> file                                    *)
  key,      (* key[k]: the id in key-<k>, or NoId: no such file            *)
  claim,    (* who holds the lock on .claim-lock                           *)
  loc,      (* the call each process is in: program point and C locals     *)
  faults,
  crashes

dirVars == <<token, seg, key>>
vars    == <<token, seg, key, claim, loc, faults, crashes>>

Idle == [pc |-> "idle", key |-> NoKey, creat |-> FALSE, excl |-> FALSE,
         id |-> NoId, res |-> Nothing]

Locals == [pc : PCs, key : Keys \cup {NoKey}, creat : BOOLEAN, excl : BOOLEAN,
           id : Ids \cup {NoId}, res : Ids \cup Results]

TypeOK ==
  /\ token \subseteq Ids
  /\ seg \subseteq Ids
  /\ key \in [Keys -> Ids \cup {NoId}]
  /\ claim \in Procs \cup {NoProc}
  /\ loc \in [Procs -> Locals]
  /\ faults \in 0 .. MaxFaults
  /\ crashes \in 0 .. MaxCrashes

Init ==
  /\ token = {}
  /\ seg = {}
  /\ key = [k \in Keys |-> NoId]
  /\ claim = NoProc
  /\ loc = [p \in Procs |-> Idle]
  /\ faults = 0
  /\ crashes = 0

At(p, l) == loc[p].pc = l

Goto(p, l) == loc' = [loc EXCEPT ![p].pc = l]

Hold(p, l, i) == loc' = [loc EXCEPT ![p].pc = l, ![p].id = i]

(* The result is known; the claim, if the call has one, is released next. *)
Finish(p, r) ==
  loc' = [loc EXCEPT ![p] = [Idle EXCEPT !.pc = IF claim = p THEN "rel" ELSE "idle",
                                         !.res = r]]

Refused == faults < MaxFaults /\ faults' = faults + 1

(* A call has read an id from a key file and not yet opened its segment. *)
Found(p) == loc[p].pc \in {"open", "winopen"}

(* The official runtime may remove that segment in between.  That the same key,
   or by chance the same id, is then made anew is left out, unless `reuse': the
   unlink in DropStaleKey would take it. *)
KeySpared(k) == "reuse" \in Ops \/ \A p \in Procs : Found(p) \/ At(p, "stale") => loc[p].key # k
IdSpared(i)  == "reuse" \in Ops \/ \A p \in Procs : Found(p) => loc[p].id # i

Start(p, l, k, creat, excl, i) ==
  loc' = [loc EXCEPT ![p] = [Idle EXCEPT !.pc = l, !.key = k, !.creat = creat,
                                         !.excl = excl, !.id = i]]

-----------------------------------------------------------------------------
(* shmget(2) *)

GetBegin(p, k, creat, excl) ==
  /\ "get" \in Ops /\ At(p, "idle")
  /\ Start(p, "claim", k, creat, excl, NoId)
  /\ UNCHANGED <<dirVars, claim, faults, crashes>>

(* IPC_PRIVATE takes no claim. *)
PrivateBegin(p) ==
  /\ "private" \in Ops /\ At(p, "idle")
  /\ Start(p, "token", NoKey, TRUE, FALSE, NoId)
  /\ UNCHANGED <<dirVars, claim, faults, crashes>>

(* Seeded faults: the lock is waited for; its refusal is overlooked. *)
ClaimWaits(p) ==
  /\ loc[p].pc \in {"claim", "rm_claim"}
  /\ claim = NoProc
  /\ claim' = p
  /\ Goto(p, IF At(p, "claim") THEN "read" ELSE "rm_seg")
  /\ UNCHANGED <<dirVars, faults, crashes>>

ClaimOverlooked(p) ==
  /\ loc[p].pc \in {"claim", "rm_claim"}
  /\ claim' = IF claim = NoProc THEN p ELSE claim
  /\ Goto(p, IF At(p, "claim") THEN "read" ELSE "rm_seg")
  /\ UNCHANGED <<dirVars, faults, crashes>>

(* shm_claim_key: a hundred tries for the lock, then EAGAIN. *)
Claim(p) ==
  /\ loc[p].pc \in {"claim", "rm_claim"}
  /\ \/ /\ claim = NoProc
        /\ claim' = p
        /\ Goto(p, IF At(p, "claim") THEN "read" ELSE "rm_seg")
        /\ UNCHANGED faults
     \/ claim # NoProc /\ Finish(p, Failed) /\ UNCHANGED <<claim, faults>>
     \/ Refused /\ Finish(p, Failed) /\ UNCHANGED claim
  /\ UNCHANGED <<dirVars, crashes>>

(* shm_read_key: the id in the key file. *)
ReadKey(p) ==
  LET i == key[loc[p].key]
  IN
  /\ At(p, "read")
  /\ \/ /\ \/ i \in Ids /\ Hold(p, "open", i)
           \/ i = NoId /\ ~loc[p].creat /\ Finish(p, ENOENT)
           \/ i = NoId /\ loc[p].creat /\ Goto(p, "token")
        /\ UNCHANGED faults
     \/ Refused /\ Finish(p, Failed)
  /\ UNCHANGED <<dirVars, claim, crashes>>

(* shm_open_seg of that id. *)
OpenKeyed(p) ==
  LET i == loc[p].id
  IN
  /\ At(p, "open")
  /\ \/ /\ \/ i \in seg /\ Finish(p, IF loc[p].creat /\ loc[p].excl THEN EEXIST ELSE i)
           \/ i \notin seg /\ Hold(p, "stale", NoId)
        /\ UNCHANGED faults
     \/ Refused /\ Finish(p, Failed)
  /\ UNCHANGED <<dirVars, claim, crashes>>

(* The key of a removed segment is unlinked under the lock, whatever it names
   by now. *)
DropStaleKey(p) ==
  /\ At(p, "stale")
  /\ \/ /\ key' = [key EXCEPT ![loc[p].key] = NoId]
        /\ IF loc[p].creat THEN Goto(p, "token") ELSE Finish(p, ENOENT)
        /\ UNCHANGED faults
     \/ Refused /\ Finish(p, Failed) /\ UNCHANGED key
  /\ UNCHANGED <<token, seg, claim, crashes>>

(* Seeded fault: any id without a segment is taken. *)
ReserveAgain(p) ==
  /\ At(p, "token")
  /\ \E i \in Ids \ seg :
       /\ token' = token \cup {i}
       /\ loc' = [loc EXCEPT ![p].pc = "seg", ![p].id = i]
  /\ UNCHANGED <<seg, key, claim, faults, crashes>>

(* shm_new_segment: the first of 64 random candidates whose .id-<id> can be
   created; ENOSPC if none can, which any id already reserved makes possible. *)
ReserveId(p) ==
  /\ At(p, "token")
  /\ \/ \E i \in Ids \ token :
          /\ IdSpared(i)
          /\ token' = token \cup {i}
          /\ loc' = [loc EXCEPT ![p].pc = "seg", ![p].id = i]
          /\ UNCHANGED faults
     \/ token # {} /\ Finish(p, Failed) /\ UNCHANGED <<token, faults>>
     \/ Refused /\ Finish(p, Failed) /\ UNCHANGED token
  /\ UNCHANGED <<seg, key, claim, crashes>>

(* open(seg-<id>, O_CREAT | O_EXCL); a file already there costs a candidate. *)
MakeSegment(p) ==
  LET i == loc[p].id
  IN
  /\ At(p, "seg")
  /\ \/ /\ i \notin seg
        /\ seg' = seg \cup {i}
        /\ Goto(p, "trunc")
        /\ UNCHANGED faults
     \/ i \in seg /\ Goto(p, "token") /\ UNCHANGED <<seg, faults>>
     \/ Refused /\ Finish(p, Failed) /\ UNCHANGED seg
  /\ UNCHANGED <<token, key, claim, crashes>>

(* ftruncate to the size. *)
SizeSegment(p) ==
  /\ At(p, "trunc")
  /\ \/ /\ IF loc[p].key = NoKey THEN Finish(p, loc[p].id) ELSE Goto(p, "pub")
        /\ UNCHANGED faults
     \/ Refused /\ Goto(p, "drop")
  /\ UNCHANGED <<dirVars, claim, crashes>>

(* Seeded faults: the segment of a refused publication is kept; rename() may
   replace. *)
PublishKeepsSegment(p) ==
  /\ At(p, "pub")
  /\ \/ /\ key[loc[p].key] = NoId
        /\ key' = [key EXCEPT ![loc[p].key] = loc[p].id]
        /\ Finish(p, loc[p].id)
        /\ UNCHANGED faults
     \/ Refused /\ Finish(p, Failed) /\ UNCHANGED key
  /\ UNCHANGED <<token, seg, claim, crashes>>

PublishReplacing(p) ==
  /\ At(p, "pub")
  /\ key' = [key EXCEPT ![loc[p].key] = loc[p].id]
  /\ Finish(p, loc[p].id)
  /\ UNCHANGED <<token, seg, claim, faults, crashes>>

(* shm_publish_key: renameat2(tmp, key-<key>, RENAME_NOREPLACE). *)
PublishKey(p) ==
  LET k == loc[p].key
  IN
  /\ At(p, "pub")
  /\ \/ /\ key[k] = NoId
        /\ key' = [key EXCEPT ![k] = loc[p].id]
        /\ Finish(p, loc[p].id)
        /\ UNCHANGED faults
     \/ key[k] # NoId /\ Goto(p, "undo") /\ UNCHANGED <<key, faults>>
     \/ Refused /\ Goto(p, "drop") /\ UNCHANGED key
  /\ UNCHANGED <<token, seg, claim, crashes>>

(* Nobody looks at the result of this unlink. *)
UnlinkOwn(p) ==
  \/ seg' = seg \ {loc[p].id} /\ UNCHANGED faults
  \/ Refused /\ UNCHANGED seg

(* A segment that cannot be sized or published is unlinked. *)
DropSegment(p) ==
  /\ At(p, "drop")
  /\ UnlinkOwn(p)
  /\ Finish(p, Failed)
  /\ UNCHANGED <<token, key, claim, crashes>>

(* The same if another key file was first; then that one is read. *)
UndoSegment(p) ==
  /\ At(p, "undo")
  /\ UnlinkOwn(p)
  /\ Goto(p, "winner")
  /\ UNCHANGED <<token, key, claim, crashes>>

ReadWinner(p) ==
  LET i == key[loc[p].key]
  IN
  /\ At(p, "winner")
  /\ \/ /\ \/ i \in Ids /\ Hold(p, "winopen", i)
           \/ i = NoId /\ Finish(p, ENOENT)
        /\ UNCHANGED faults
     \/ Refused /\ Finish(p, Failed)
  /\ UNCHANGED <<dirVars, claim, crashes>>

OpenWinner(p) ==
  LET i == loc[p].id
  IN
  /\ At(p, "winopen")
  /\ \/ /\ \/ i \in seg /\ Finish(p, IF loc[p].excl THEN EEXIST ELSE i)
           \/ i \notin seg /\ Finish(p, ENOENT)
        /\ UNCHANGED faults
     \/ Refused /\ Finish(p, Failed)
  /\ UNCHANGED <<dirVars, claim, crashes>>

(* shm_release_claim, then the call returns its result. *)
Release(p) ==
  /\ At(p, "rel")
  /\ claim' = NoProc
  /\ Goto(p, "idle")
  /\ UNCHANGED <<dirVars, faults, crashes>>

-----------------------------------------------------------------------------
(* shmctl(id, IPC_RMID) *)

RmidBegin(p, i) ==
  /\ "rmid" \in Ops /\ At(p, "idle")
  /\ Start(p, "rm_claim", NoKey, FALSE, FALSE, i)
  /\ UNCHANGED <<dirVars, claim, faults, crashes>>

(* A segment that is not there is no error. *)
RemoveSegment(p) ==
  /\ At(p, "rm_seg")
  /\ \/ seg' = seg \ {loc[p].id} /\ Goto(p, "rm_keys") /\ UNCHANGED faults
     \/ Refused /\ Finish(p, Failed) /\ UNCHANGED seg
  /\ UNCHANGED <<token, key, claim, crashes>>

(* shm_unlink_keys_of: one key file after another, in directory order. *)
RemoveKeys(p) ==
  LET old == {k \in Keys : key[k] = loc[p].id}
  IN
  /\ At(p, "rm_keys")
  /\ \/ \E k \in old : key' = [key EXCEPT ![k] = NoId] /\ UNCHANGED <<loc, faults>>
     \/ old = {} /\ Finish(p, Nothing) /\ UNCHANGED <<key, faults>>
     \/ Refused /\ Finish(p, Failed) /\ UNCHANGED key
  /\ UNCHANGED <<token, seg, claim, crashes>>

-----------------------------------------------------------------------------
(* Around the processes *)

(* The kernel closes the descriptors of a killed process and with them its
   lock; the files stay as they are. *)
Crash(p) ==
  /\ ~At(p, "idle")
  /\ crashes < MaxCrashes
  /\ crashes' = crashes + 1
  /\ claim' = IF claim = p THEN NoProc ELSE claim
  /\ loc' = [loc EXCEPT ![p] = Idle]
  /\ UNCHANGED <<dirVars, faults>>

(* The official runtime shares the directory: it makes and removes keyed
   segments and knows neither the claim nor the reservations.  That its random
   id is one a call is working on at this moment is left out. *)
OfficialGet(k, i) ==
  /\ "official" \in Ops
  /\ key[k] = NoId
  /\ i \notin seg
  /\ \A l \in Keys : key[l] # i
  /\ \A p \in Procs : loc[p].id # i
  /\ KeySpared(k)
  /\ seg' = seg \cup {i}
  /\ key' = [key EXCEPT ![k] = i]
  /\ UNCHANGED <<token, claim, loc, faults, crashes>>

OfficialRmid(k) ==
  /\ "official" \in Ops
  /\ key[k] \in seg
  /\ \A p \in Procs : Found(p) \/ loc[p].id # key[k]
  /\ seg' = seg \ {key[k]}
  /\ key' = [key EXCEPT ![k] = NoId]
  /\ UNCHANGED <<token, claim, loc, faults, crashes>>

Continue(p) ==
  \/ Claim(p) \/ ReadKey(p) \/ OpenKeyed(p) \/ DropStaleKey(p) \/ ReserveId(p) \/ MakeSegment(p)
  \/ SizeSegment(p) \/ PublishKey(p) \/ DropSegment(p) \/ UndoSegment(p)
  \/ ReadWinner(p) \/ OpenWinner(p)
  \/ RemoveSegment(p) \/ RemoveKeys(p) \/ Release(p)

Call(p) ==
  \/ \E k \in Keys, creat, excl \in BOOLEAN : GetBegin(p, k, creat, excl)
  \/ PrivateBegin(p)
  \/ \E i \in Ids : RmidBegin(p, i)

Next ==
  \/ \E p \in Procs : Call(p) \/ Continue(p) \/ Crash(p)
  \/ \E k \in Keys : OfficialRmid(k) \/ \E i \in Ids : OfficialGet(k, i)

Spec == Init /\ [][Next]_vars

-----------------------------------------------------------------------------
(* Properties *)

(* The program points between taking and releasing the claim; an IPC_PRIVATE
   call passes some of them without it. *)
Claimed(p) ==
  \/ loc[p].pc \in {"read", "open", "stale", "pub", "undo", "winner", "winopen",
                     "rm_seg", "rm_keys", "rel"}
  \/ loc[p].pc \in {"token", "seg", "trunc", "drop"} /\ loc[p].key # NoKey

(* shmget(key) and IPC_RMID exclude each other in all processes: whoever
   reads, makes or removes a key holds the one claim. *)
ClaimExclusive == \A p, q \in Procs : Claimed(p) /\ Claimed(q) => p = q

(* An id is published at most once, so no two keys share a segment and
   IPC_RMID of one never takes the segment of another. *)
OneKeyPerId == \A k, l \in Keys : key[k] = key[l] /\ key[k] # NoId => k = l

(* Together: one call at a time is at the keys, and what it leaves there has
   ids of its own. *)
IdsSound == TypeOK /\ ClaimExclusive /\ OneKeyPerId

(* No call of shmget(key) or IPC_RMID leaves a segment that no key leads to,
   whichever one system call was refused; only a killed creator does. *)
NoOrphan ==
  crashes = 0 /\ (\A p \in Procs : At(p, "idle")) =>
    \A i \in seg : \E k \in Keys : key[k] = i

(* An id whose segment is gone never names a segment again (README-id-aba.md):
   a process that still holds it cannot reach, or remove, another's segment. *)
Dead(i) == i \in token \ seg /\ \A p \in Procs : ~(At(p, "seg") /\ loc[p].id = i)

NeverReborn == [][\A i \in Ids : Dead(i) => Dead(i)']_vars

(* The table the directory stands for: a key whose segment is gone is no
   entry, and neither is a segment its creator has not yet answered with. *)
Unanswered == {loc[p].id : p \in {q \in Procs : loc[q].pc \in {"trunc", "pub", "undo", "drop"}}}

Registry == INSTANCE ShmRegistry WITH
  map  <- [k \in Keys |-> IF key[k] \in seg THEN key[k] ELSE NoId],
  live <- seg \ Unanswered,
  ret  <- [p \in Procs |-> loc[p].res]

(* Every call is one step on the table of keys and segments. *)
Refinement == Registry!Spec
=============================================================================
