---------------------------- MODULE MCShmAttach ----------------------------
(* Instances of ShmAttach for TLC. *)
EXTENDS ShmAttach, TLC

CONSTANTS s1, s2

(* One segment of a page, one of two. *)
MCLen == [s \in Segs |-> IF s = s1 THEN 1 ELSE 2]
MCPages == 1 .. 2

(* The threads the first process begins with are alike. *)
MCSymmetry == Permutations(RootThreads)
=============================================================================
