------------------------------- MODULE FakeIds -------------------------------
(***************************************************************************)
(* The identity that fakeroot shows the guest: the fields of g_fakeroot    *)
(* (fakeroot.c), the setters, and the four ways a call reaches them: the   *)
(* libc hooks, the guard of syscall(), an svc that the kernel traps, and   *)
(* the bridge that all of them share (preload.c).  Operators only; who     *)
(* holds the identity and when is in Sigsys.                               *)
(***************************************************************************)
EXTENDS Integers, Sequences, FiniteSets, TLC

CONSTANTS
  Ids,         (* user and group numbers, 0 is root                         *)
  MaxGroups,   (* FR_NGROUPS_MAX                                            *)
  FakeUid, FakeGid   (* BXROOT_FAKE_UID and _GID, 0 when not set            *)

ASSUME IdAssumption ==
  /\ {0, FakeUid, FakeGid} \subseteq Ids /\ Ids \subseteq Nat
  /\ MaxGroups \in Nat \ {0}

Unset == -1
Given(x) == x # Unset

(* One kind of id: real, effective, saved and the one for files.           *)
Same(u) == [r |-> u, e |-> u, s |-> u, f |-> u]

-----------------------------------------------------------------------------
(* The setters, the same for users and groups.                             *)

SetId(q, u) == Same(u)
SetEid(q, u) == [q EXCEPT !.e = u, !.f = u]
(* Seeded fault: the saved id follows, as in a kernel. *)
SetReidSaved(q, r, e) ==
  [r |-> IF Given(r) THEN r ELSE q.r, e |-> IF Given(e) THEN e ELSE q.e,
   s |-> IF Given(e) THEN e ELSE q.s, f |-> IF Given(e) THEN e ELSE q.f]
SetReid(q, r, e) ==
  [r |-> IF Given(r) THEN r ELSE q.r, e |-> IF Given(e) THEN e ELSE q.e,
   s |-> q.s, f |-> IF Given(e) THEN e ELSE q.f]
SetResid(q, r, e, s) ==
  [r |-> IF Given(r) THEN r ELSE q.r, e |-> IF Given(e) THEN e ELSE q.e,
   s |-> IF Given(s) THEN s ELSE q.s, f |-> IF Given(e) THEN e ELSE q.f]
SetFsid(q, caps, u) ==
  IF q.e = 0 \/ caps \/ u \in {q.r, q.e, q.s, q.f} THEN [q EXCEPT !.f = u] ELSE q

(* init_fakeroot, in every new image: what the environment says.           *)
Fresh(on) ==
  [on |-> on, caps |-> on, uid |-> Same(FakeUid), gid |-> Same(FakeGid),
   groups |-> <<FakeGid>>]

-----------------------------------------------------------------------------
(* The bridge: a numbered operation and its arguments.  The answer has the *)
(* identity after it, what the caller gets and the error.                  *)

Done(i, ret) == [ids |-> i, ret |-> ret, err |-> "OK"]
Refused(i, err) == [ids |-> i, ret |-> -1, err |-> err]

SetGroups(i, n, list) ==
  IF n > MaxGroups \/ (n > 0 /\ list = <<>>) THEN Refused(i, "EINVAL")
  ELSE Done([i EXCEPT !.groups = SubSeq(list, 1, n)], 0)

Setter(i, op, a) ==
  CASE op = 1 -> Done([i EXCEPT !.uid = SetId(@, a[1])], 0)
    [] op = 2 -> Done([i EXCEPT !.gid = SetId(@, a[1])], 0)
    [] op = 3 -> Done([i EXCEPT !.uid = SetReid(@, a[1], a[2])], 0)
    [] op = 4 -> Done([i EXCEPT !.gid = SetReid(@, a[1], a[2])], 0)
    [] op = 5 -> Done([i EXCEPT !.uid = SetResid(@, a[1], a[2], a[3])], 0)
    [] op = 6 -> Done([i EXCEPT !.gid = SetResid(@, a[1], a[2], a[3])], 0)
    [] op = 7 -> SetGroups(i, a[1], a[2])
    [] op = 8 -> Done([i EXCEPT !.uid = SetFsid(@, i.caps, a[1])], i.uid.f)
    [] op = 9 -> Done([i EXCEPT !.gid = SetFsid(@, i.caps, a[1])], i.gid.f)
    [] op = 10 -> Done([i EXCEPT !.uid = SetEid(@, a[1])], 0)
    [] op = 11 -> Done([i EXCEPT !.gid = SetEid(@, a[1])], 0)

-----------------------------------------------------------------------------
(* The routes.  seteuid and setegid are libc's alone.                      *)

KernelSetters == {"setuid", "setgid", "setreuid", "setregid", "setresuid",
                  "setresgid", "setgroups", "setfsuid", "setfsgid"}

LibcOp ==
  [setuid |-> 1, setgid |-> 2, setreuid |-> 3, setregid |-> 4, setresuid |-> 5,
   setresgid |-> 6, setgroups |-> 7, setfsuid |-> 8, setfsgid |-> 9,
   seteuid |-> 10, setegid |-> 11]

GuardOp ==
  [setregid |-> 4, setgid |-> 2, setreuid |-> 3, setuid |-> 1, setresuid |-> 5,
   setresgid |-> 6, setfsuid |-> 8, setfsgid |-> 9, setgroups |-> 7]

TrapOp ==
  [setuid |-> 1, setgid |-> 2, setreuid |-> 3, setregid |-> 4, setresuid |-> 5,
   setresgid |-> 6, setgroups |-> 7, setfsuid |-> 8, setfsgid |-> 9]

(* The host's kernel sees the call; the guest's identity is not its own.   *)
ByKernel(i) == [ids |-> i, ret |-> 0, err |-> "KERNEL"]

(* emulate_identity; without fakeroot the handler knows no answer.         *)
Emulated(i, call) ==
  IF i.on THEN Setter(i, TrapOp[call.op], call.args) ELSE Refused(i, "ENOSYS")

ByLibc(i, call) ==
  IF i.on THEN Setter(i, LibcOp[call.op], call.args) ELSE ByKernel(i)

(* syscall(): the kernel first, trapped or not, and then the bridge again. *)
ByGuard(i, call, first) ==
  IF i.on THEN Setter(first.ids, GuardOp[call.op], call.args) ELSE first

-----------------------------------------------------------------------------
(* What the guest is shown.  A getter's answer: values, or an error.       *)

Shown(v) == [err |-> "OK", v |-> v]
NotShown(err) == [err |-> err, v |-> <<>>]

(* getresuid and getresgid fill the pointers that are not NULL.            *)
Filled(q, ptrs) == [k \in ptrs |-> q[k]]

IdsShown(i, what) ==
  CASE what = "uid" -> Shown(i.uid.r)
    [] what = "euid" -> Shown(i.uid.e)
    [] what = "gid" -> Shown(i.gid.r)
    [] what = "egid" -> Shown(i.gid.e)

LibcGet(i, what, arg) ==
  CASE what = "resuid" -> Shown(Filled(i.uid, arg))
    [] what = "resgid" -> Shown(Filled(i.gid, arg))
    [] what = "groups" ->
         IF arg = 0 THEN Shown(Len(i.groups))
         ELSE IF arg < Len(i.groups) THEN NotShown("EINVAL")
         ELSE Shown(i.groups)
    [] OTHER -> IdsShown(i, what)

(* The guard of syscall() writes over the kernel's own answer, which is    *)
(* never a refusal unless every pointer is NULL.                           *)
GuardIds(i, what) ==
  CASE what = "uid" -> Shown(i.uid.r)
    [] what = "euid" -> Shown(i.uid.e)
    [] what = "gid" -> Shown(i.gid.r)
    [] what = "egid" -> Shown(i.gid.e)
GuardRes(q, ptrs) == IF ptrs = {} THEN NotShown("EFAULT") ELSE Shown(Filled(q, ptrs))
GuardGroups(list, size) ==
  CASE size = 0 -> Shown(Len(list))
    [] size # 0 /\ Len(list) > size -> NotShown("EINVAL")
    [] OTHER -> Shown(list)
GuardGet(i, what, arg) ==
  CASE what = "resuid" -> GuardRes(i.uid, arg)
    [] what = "resgid" -> GuardRes(i.gid, arg)
    [] what = "groups" -> GuardGroups(i.groups, arg)
    [] OTHER -> GuardIds(i, what)
=============================================================================
