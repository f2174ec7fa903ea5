------------------------------- MODULE MCL2s -------------------------------
(* Instances of L2s for TLC. *)
EXTENDS L2s

CONSTANTS n1, n2, n3, d1, d2

(* every path has a basename of its own *)
OwnBase == [n \in Names |-> n]

OneFile  == [n \in Names |-> IF n = n1 THEN File(d1) ELSE None]
TwoFiles == [OneFile EXCEPT ![n2] = File(d2)]

LinkSteps  == {"ren", "sym_mid", "sym_old", "wr_cnt", "sym_new", "inc"}
CallSteps  == LinkSteps \cup {"rb_dec", "u_plain", "u_dec", "r_svc", "r_dec"}
CrashSteps == {"pick", "ren", "sym_mid", "sym_old", "inc", "sym_new",
               "rb_mid", "rb_ren", "rb_cnt", "rb_dec", "u_plain", "u_dec",
               "r_svc", "r_dec", "r_mid", "r_fin", "r_cnt"}
AllCounts  == CountPoints
=============================================================================
