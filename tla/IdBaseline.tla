----------------------------- MODULE IdBaseline -----------------------------
(***************************************************************************)
(* The identity calls as fakeroot means them (the rules above              *)
(* fakeroot_setuid): root's privilege is permanent, so every setter        *)
(* succeeds, each argument goes to the fields of its own and -1 leaves a   *)
(* field alone.  The routes of Sigsys are compared with it.                *)
(***************************************************************************)
EXTENDS Sigsys

(* Which argument a field takes; 0: none.                                  *)
To(r, e, s, f) == [r |-> r, e |-> e, s |-> s, f |-> f]
Takes ==
  [setuid |-> To(1, 1, 1, 1), setgid |-> To(1, 1, 1, 1),
   seteuid |-> To(0, 1, 0, 1), setegid |-> To(0, 1, 0, 1),
   setreuid |-> To(1, 2, 0, 2), setregid |-> To(1, 2, 0, 2),
   setresuid |-> To(1, 2, 3, 2), setresgid |-> To(1, 2, 3, 2),
   setfsuid |-> To(0, 0, 0, 1), setfsgid |-> To(0, 0, 0, 1)]

OfUsers == {"setuid", "seteuid", "setreuid", "setresuid", "setfsuid"}

Moved(q, op, a) ==
  [k \in {"r", "e", "s", "f"} |->
     LET n == Takes[op][k]
     IN IF n = 0 THEN q[k] ELSE IF Given(a[n]) THEN a[n] ELSE q[k]]

Meant(i, call) ==
  CASE call.op = "setgroups" ->
         IF call.args[1] > MaxGroups \/ (call.args[1] > 0 /\ call.args[2] = <<>>)
         THEN Refused(i, "EINVAL")
         ELSE Done([i EXCEPT !.groups = SubSeq(call.args[2], 1, call.args[1])], 0)
    [] call.op \in OfUsers ->
         Done([i EXCEPT !.uid = Moved(@, call.op, call.args)],
              IF call.op = "setfsuid" THEN i.uid.f ELSE 0)
    [] OTHER ->
         Done([i EXCEPT !.gid = Moved(@, call.op, call.args)],
              IF call.op = "setfsgid" THEN i.gid.f ELSE 0)

TellsOld(call) == call.op \in {"setfsuid", "setfsgid"}

(* Whichever way a setter comes - a hook of libc, syscall(), a trapped svc *)
(* that is emulated, or both of the last - the identity afterwards is the  *)
(* one meant, and so is the answer.  Only setfsuid and setfsgid by         *)
(* syscall() on a host that traps them are answered with the new id, for   *)
(* they are carried out twice (syscall_guard.c:2956).                      *)
EveryRouteSets ==
  Dynamic /\ Up /\ ids.on => \A call \in IdCalls :
    LET meant == Meant(ids, call)
        guard == ByGuard(ids, call, SvcIds(call))
    IN /\ ByLibc(ids, call) = meant
       /\ call.op \in KernelSetters =>
            /\ guard.ids = meant.ids /\ guard.err = meant.err
            /\ guard.ret = meant.ret \/ (TellsOld(call) /\ "setid" \in OuterTraps)
            /\ Svc(Traps, "setid", RuntimeIp) = "emulated" => SvcIds(call) = meant

(* The getters of libc and of syscall() show the same identity, and it is  *)
(* the one of the setters; with no pointer at all only libc succeeds       *)
(* (syscall_guard.c:2563).                                                 *)
EveryRouteShows ==
  ids.on =>
    /\ \A what \in {"uid", "euid", "gid", "egid"} :
         LibcGet(ids, what, 0) = GuardGet(ids, what, 0)
    /\ \A what \in {"resuid", "resgid"}, ptrs \in (SUBSET {"r", "e", "s"}) \ {{}} :
         LibcGet(ids, what, ptrs) = GuardGet(ids, what, ptrs)
    /\ \A size \in 0 .. MaxGroups :
         LibcGet(ids, "groups", size) = GuardGet(ids, "groups", size)

(* Together: there is one identity, however it is set and shown.           *)
OneIdentity == EveryRouteSets /\ EveryRouteShows
=============================================================================
