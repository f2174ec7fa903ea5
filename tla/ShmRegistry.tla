---------------------------- MODULE ShmRegistry ----------------------------
(***************************************************************************)
(* What shmget(2) and shmctl(IPC_RMID) promise: one table from keys to     *)
(* segments, every call one step on it.                                    *)
(***************************************************************************)
CONSTANTS Procs, Keys, Ids, NoId, Nothing, Failed, EEXIST, ENOENT

VARIABLES
  map,    (* map[k]: the segment key k stands for, or NoId                 *)
  live,   (* the segments that exist                                       *)
  ret     (* what the latest call of each process has found, Nothing while *)
          (* the call is still looking                                     *)

vars == <<map, live, ret>>

Init ==
  /\ map = [k \in Keys |-> NoId]
  /\ live = {}
  /\ ret \in [Procs -> {Nothing}]

Answer(p, r) == ret' = [ret EXCEPT ![p] = r]

Begin(p) == Answer(p, Nothing) /\ UNCHANGED <<map, live>>

Find(p, k) ==
  /\ map[k] # NoId
  /\ Answer(p, map[k]) \/ Answer(p, EEXIST)
  /\ UNCHANGED <<map, live>>

Miss(p, k) ==
  /\ map[k] = NoId
  /\ Answer(p, ENOENT)
  /\ UNCHANGED <<map, live>>

Fail(p) == Answer(p, Failed) /\ UNCHANGED <<map, live>>

Publish(k, i) ==
  /\ map[k] = NoId
  /\ i \notin live
  /\ map' = [map EXCEPT ![k] = i]
  /\ live' = live \cup {i}

CreateKeyed(p, k, i) == Publish(k, i) /\ Answer(p, i)

(* A segment without a key: IPC_PRIVATE, or what is left of the call of a
   killed process or of one that could not be undone. *)
CreatePrivate(i) ==
  /\ i \notin live
  /\ live' = live \cup {i}
  /\ UNCHANGED map

AnswerPrivate(p, i) == Answer(p, i) /\ UNCHANGED <<map, live>>

Remove(i) ==
  /\ i \in live
  /\ live' = live \ {i}
  /\ map' = [k \in Keys |-> IF map[k] = i THEN NoId ELSE map[k]]
  /\ UNCHANGED ret

Next ==
  \/ \E p \in Procs : Begin(p) \/ Fail(p)
  \/ \E p \in Procs, k \in Keys : Find(p, k) \/ Miss(p, k)
  \/ \E p \in Procs, i \in Ids : AnswerPrivate(p, i)
  \/ \E k \in Keys, i \in Ids :
       \/ Publish(k, i) /\ UNCHANGED ret
       \/ \E p \in Procs : CreateKeyed(p, k, i)
  \/ \E i \in Ids :
       \/ CreatePrivate(i) /\ UNCHANGED ret
       \/ \E p \in Procs : CreatePrivate(i) /\ (Answer(p, i) \/ Answer(p, Failed))
       \/ Remove(i)

Spec == Init /\ [][Next]_vars
=============================================================================
