------------------------------ MODULE RawPaths ------------------------------
(***************************************************************************)
(* Paths in system calls that no libc hook sees: by syscall(), whose guard *)
(* translates the arguments (syscall_guard.c), and by the svc of a static  *)
(* image (px_static_dispatch).  Neither asks whether a bind is read-only,  *)
(* neither looks for links of /proc in a path that is not translated, and  *)
(* the second leaves all links to the kernel.                              *)
(***************************************************************************)
EXTENDS PathMap

(* The kernel's answer for a path, relative ones from the directory.       *)
From(v, base) == IF base = "fd" THEN v.fd ELSE v.cwd
Kernel(v, p, follow) == Walk(v.tree, v.cwd, p, follow)
KernelAt(v, base, p, follow) == Walk(v.tree, From(v, base), p, follow)
(* The same view for a call relative to base.                              *)
AtBase(v, base) == [v EXCEPT !.cwd = From(v, base)]

WriteIntent(flags) == flags \cap {"write", "creat"} # {}

KernelOpen(v, p, flags) ==
  LET Opened(r) ==
        CASE r.err = "ABSENT" ->
               IF "creat" \in flags THEN r ELSE Failed("ENOENT")
          [] r.err # "OK" -> r
          [] v.tree[r.at].kind = "link" -> Failed("ELOOP")
          [] v.tree[r.at].kind = "dir" /\ WriteIntent(flags) -> Failed("EISDIR")
          [] OTHER -> r
  IN Opened(Kernel(v, p, "nofollow" \notin flags))

-----------------------------------------------------------------------------
(* syscall().                                                              *)

(* bxroot_absolutize_at: only a directory that the guest can name.         *)
Nameable(h) ==
  GuestName(h) # h \/ \E i \in DOMAIN Binds : Under(h, Binds[i].src)

GuardSource(v, base, p) ==
  CASE p = <<>> \/ IsAbs(p) -> p
    [] base = "cwd" -> Absolute(v, p)
    [] Nameable(v.fd) -> GuestName(v.fd) \o p
    [] OTHER -> p

(* On a loop the path stays as it was.                                     *)
OrSame(r, q) == IF r.err = "OK" THEN r.path ELSE q

TranslateGuarded(v, source) ==
  IF IsAbs(source) THEN Translate(v, source) ELSE Kept(source)
MiddleGuarded(v, p, t) ==
  IF t.moved THEN Moved(OrSame(Middle(v, t.path), t.path)) ELSE Kept(p)

GuardMoved(v, base, p) ==
  MiddleGuarded(v, p, TranslateGuarded(v, GuardSource(v, base, p)))

(* The svc of a static image.                                              *)
SvcPath(v, p) == IF IsAbs(p) THEN Host(v, p) ELSE p

(* What becomes of an argument: by the guard with links in the middle gone *)
(* and with all gone, and by the svc of a static image.                    *)
RawArgOf(v, base, p, t) ==
  [arg |-> p, base |-> base, guard |-> t.path,
   leaf |-> IF t.moved THEN OrSame(Leaf(v, t.path), t.path) ELSE p,
   svc |-> SvcPath(v, p)]
RawArg(v, base, p) == RawArgOf(v, base, p, GuardMoved(v, base, p))

-----------------------------------------------------------------------------
(* statx and newfstatat resolve the link at the end if they have no flags, *)
(* openat if it has no O_NOFOLLOW; the other calls leave it to the kernel. *)
GuardStat(v, c, follow) ==
  KernelAt(v, c.base, IF follow THEN c.leaf ELSE c.guard, follow)
GuardOpen(v, c, flags) ==
  KernelOpen(AtBase(v, c.base),
             IF "nofollow" \in flags THEN c.guard ELSE c.leaf, flags)
GuardOther(v, c, follow) == KernelAt(v, c.base, c.guard, follow)

(* By the table of path arguments; which calls follow a link at the end is *)
(* the kernel's rule.  faccessat, faccessat2, statfs, getxattr, chdir:     *)
GuardLooks(v, c) == {GuardOther(v, c, TRUE)}
(* readlinkat, mkdirat, symlinkat, mknodat, unlinkat, the ends of renameat. *)
GuardNamed(v, c) == {GuardOther(v, c, FALSE)}
(* fchmodat, fchownat, utimensat, truncate, setxattr, removexattr, openat. *)
GuardEdits(v, c) ==
  {GuardOther(v, c, TRUE), GuardOther(v, c, FALSE), GuardOpen(v, c, {"write"})}
GuardMade(v, c) == {GuardOpen(v, c, {"creat"})}

-----------------------------------------------------------------------------
SvcCall(v, c, follow) == KernelAt(v, c.base, c.svc, follow)

(* openat tries once more with the last links resolved.                    *)
SvcOpen(v, c, flags) ==
  LET Again(r, q) == IF r.err = "ENOENT" /\ c.svc # c.arg /\ q # c.svc
                     THEN KernelOpen(v, q, flags) ELSE r
  IN Again(KernelOpen(AtBase(v, c.base), c.svc, flags), Retry(v, c.svc))

SvcNamed(v, c) == {SvcCall(v, c, FALSE)}
SvcMade(v, c) == {SvcOpen(v, c, {"creat"})}
SvcEdits(v, c) ==
  {SvcCall(v, c, TRUE), SvcCall(v, c, FALSE), SvcOpen(v, c, {"write"})}

(* Either way, by what the calls do.                                       *)
RawNamed(v, c) == GuardNamed(v, c) \cup SvcNamed(v, c)
RawMade(v, c) == RawNamed(v, c) \cup GuardMade(v, c) \cup SvcMade(v, c)
RawEdits(v, c) == GuardEdits(v, c) \cup SvcEdits(v, c)

(* What readlinkat and getcwd give it: the rootfs taken off, no bind.      *)
SvcText(raw) == StripRootfs(raw)
=============================================================================
