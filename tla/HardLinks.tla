----------------------------- MODULE HardLinks -----------------------------
(***************************************************************************)
(* What POSIX promises a guest about names and contents, and what the      *)
(* link2symlink layer emulates: a name is bound to a content, link(2) binds*)
(* a second name to it, unlink(2) removes one name, a content lives while  *)
(* some name is bound to it.                                               *)
(***************************************************************************)
CONSTANTS Names, Data, NoData

VARIABLES
  dir,       (* dir[n]: the content n is bound to, or NoData               *)
  linking,   (* the pairs of names for which a link(2) is in progress      *)
  unlinking, (* the names for which an unlink(2) is                        *)
  renaming   (* the pairs of names for which a rename(2) is                *)

Init == dir \in [Names -> Data \cup {NoData}]

Create(n, d) ==
  /\ dir[n] = NoData
  /\ \A m \in Names : dir[m] # d
  /\ dir' = [dir EXCEPT ![n] = d]

Link(a, b) ==
  /\ <<a, b>> \in linking
  /\ dir[a] # NoData
  /\ dir[b] = NoData
  /\ dir' = [dir EXCEPT ![b] = dir[a]]

Unlink(a) ==
  /\ a \in unlinking
  /\ dir[a] # NoData
  /\ dir' = [dir EXCEPT ![a] = NoData]

(* Renaming one name of a content over another name of it does nothing. *)
Rename(a, b) ==
  /\ <<a, b>> \in renaming
  /\ dir[a] # NoData
  /\ dir[a] # dir[b]
  /\ dir' = [dir EXCEPT ![a] = NoData, ![b] = dir[a]]

(* renameat2(2) with a flag: over nothing, or both names at once. *)
Move(a, b) ==
  /\ dir[a] # NoData /\ dir[b] = NoData
  /\ dir' = [dir EXCEPT ![a] = NoData, ![b] = dir[a]]

Exchange(a, b) ==
  /\ dir[a] # NoData /\ dir[b] # NoData
  /\ dir' = [dir EXCEPT ![a] = dir[b], ![b] = dir[a]]

Next ==
  \/ \E n \in Names, d \in Data : Create(n, d)
  \/ \E a, b \in Names : Link(a, b) \/ Rename(a, b) \/ Move(a, b) \/ Exchange(a, b)
  \/ \E a \in Names : Unlink(a)

(* Calls begin and end as they like; what they may do to dir is Next. *)
Spec == Init /\ [][Next]_dir
=============================================================================
