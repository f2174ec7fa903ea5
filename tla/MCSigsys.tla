------------------------------ MODULE MCSigsys ------------------------------
(* An instance of IdBaseline for TLC: three ranges of static images, two   *)
(* of them in each other's way, none on the border of a word.              *)
EXTENDS IdBaseline

Range(lo, hi) == [lo |-> lo, hi |-> hi]
ImageRanges == {Range(5, 9), Range(7, 10), Range(10, 11)}
Elsewhere == Range(13, 14)
HostTraps == {"access2", "shm", "setid", "accept", "other"}
=============================================================================
