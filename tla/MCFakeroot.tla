----------------------------- MODULE MCFakeroot -----------------------------
(* Instances of Fakeroot for TLC. *)
EXTENDS Fakeroot, TLC

CONSTANTS k1, k2, k3, k4, k5, u1, g1, t1, t2

(* Two searches begin at one slot, the others one each. *)
Collisions == (k1 :> 0) @@ (k2 :> 0) @@ (k3 :> 1) @@ (k4 :> 3) @@ (k5 :> 2)

Owner(u) == [Unknown EXCEPT !.uid = u]

Group(g) == [Unknown EXCEPT !.gid = g]

(* One thread gives every file an owner; another one gives one of them a group,
   and looks at a file in its way. *)
TwoGuests ==
  (t1 :> Keys \X {Owner(u1)}) @@
  (t2 :> {<<k2, Group(g1)>>, <<k1, Unknown>>})
=============================================================================
