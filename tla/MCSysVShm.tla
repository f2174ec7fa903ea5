----------------------------- MODULE MCSysVShm -----------------------------
(* Instances of SysVShm for TLC. *)
EXTENDS SysVShm

CONSTANTS p1

(* Only p1 is sure to run on. *)
OneRuns == Init /\ [][Next]_vars /\ WF_vars(Continue(p1))

(* A call of p1 returns even if another process stops with the claim held. *)
OneReturns == []<>At(p1, "idle")
=============================================================================
