---------------------------- MODULE OwnerCache ----------------------------
(***************************************************************************)
(* What the ownership ledger of fakeroot promises: it remembers what was   *)
(* last given to each file, field by field, and when it has to make room   *)
(* it forgets the files that nobody has asked about for the longest time.  *)
(***************************************************************************)
EXTENDS Integers, Sequences

CONSTANTS
  Keys,     (* files                                                       *)
  Unset,    (* "leave this one alone", (uid_t)-1                           *)
  Requests  (* the ownerships that are given to files                      *)

(* Neither the owner nor the group. *)
Unknown == [uid |-> Unset, gid |-> Unset]

(* fr_record_merge: only what d sets is overwritten. *)
Merge(r, d) == [uid |-> IF d.uid = Unset THEN r.uid ELSE d.uid,
                gid |-> IF d.gid = Unset THEN r.gid ELSE d.gid]

VARIABLES
  known,    (* the ownership of each file                                  *)
  recent    (* the files remembered, the least recently used first         *)

Remembered(k) == \E i \in DOMAIN recent : recent[i] = k

(* k comes to the end: those after it move up, or the list grows. *)
Latest(k) ==
  IF Remembered(k)
  THEN LET at == CHOOSE p \in DOMAIN recent : recent[p] = k
       IN [p \in DOMAIN recent |-> IF p < at THEN recent[p]
                                   ELSE IF p < Len(recent) THEN recent[p + 1] ELSE k]
  ELSE Append(recent, k)

Init ==
  /\ known = [k \in Keys |-> Unknown]
  /\ recent = <<>>

Note(k, d) ==
  /\ recent' = Latest(k)
  /\ known' = [known EXCEPT ![k] = Merge(@, d)]

Ask(k) ==
  /\ Remembered(k)
  /\ recent' = Latest(k)
  /\ UNCHANGED known

(* The n least recently used files. *)
ForgetOldest(n) ==
  /\ recent' = SubSeq(recent, n + 1, Len(recent))
  /\ known' = [k \in Keys |-> IF \E i \in 1 .. n : recent[i] = k
                              THEN Unknown ELSE known[k]]

Next ==
  \/ \E k \in Keys, d \in Requests : Note(k, d)
  \/ \E k \in Keys : Ask(k)
  \/ \E n \in 1 .. Len(recent) : ForgetOldest(n)

Spec == Init /\ [][Next]_<<known, recent>>
=============================================================================
