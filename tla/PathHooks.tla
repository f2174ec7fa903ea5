------------------------------ MODULE PathHooks ------------------------------
(***************************************************************************)
(* The hooks of the libc calls that take a path or a directory descriptor  *)
(* (preload.c), for one process: what each hands to the kernel, and what   *)
(* the kernel then does to the tree.  The calls differ in which resolver   *)
(* they use and in whether the read-only guard comes first; that is what   *)
(* the definitions below keep.  Owners are in Fakeroot, the names of       *)
(* link2symlink in L2s.                                                    *)
(***************************************************************************)
EXTENDS RawPaths

CONSTANTS
  Tree0,       (* the host tree at the start                                *)
  Cwd0,        (* the working directory at the start, a host path           *)
  HostExe,     (* what the kernel says the process runs                     *)
  Paths,       (* the arguments of calls                                    *)
  Texts,       (* the texts of links made                                   *)
  ShmNames,    (* the names that shm_open is given                          *)
  MaxOps       (* bound: the calls that change something                    *)

VARIABLES
  fs,          (* the host tree without /proc                               *)
  cwd, fd,     (* the working directory and the open one, host paths        *)
  ops          (* the calls made so far                                     *)

vars == <<fs, cwd, fd, ops>>

Proc ==
  (<<Root, "proc">> :> Dir) @@ (Self :> Dir)
  @@ (Self \o <<"fd">> :> Dir)
  @@ (Self \o <<"root">> :> Link(Top))
  @@ (Self \o <<"exe">> :> Link(HostExe))
  @@ (Self \o <<"cwd">> :> Link(cwd))
  @@ (IF fd = NoFd THEN <<>> ELSE Self \o <<"fd", "3">> :> Link(fd))

View == [tree |-> fs @@ Proc, cwd |-> cwd, fd |-> fd, name |-> GuestName(cwd)]

Bases == IF fd = NoFd THEN {"cwd"} ELSE {"cwd", "fd"}

-----------------------------------------------------------------------------
(* Parts that the hooks share.                                             *)

(* resolve_host_path and resolve_dirfd_path: an argument relative to the   *)
(* open directory is joined to the host path of that directory.            *)
JoinedToCwd(v, base, p) == Absolute(v, p)   (* Seeded fault: forgets the descriptor *)
Joined(v, base, p) ==
  IF IsAbs(p) \/ base = "cwd" THEN Absolute(v, p) ELSE v.fd \o p

(* Seeded fault: only the mount point itself is read-only. *)
RoPathExact(v, p) ==
  \E i \in DOMAIN Binds : Binds[i].ro /\ Binds[i].tgt = Absolute(v, p)
RoPath(v, p) ==
  LET a == Absolute(v, p) IN BindsAt(a) # {} /\ Binds[BindAt(a)].ro
RoAt(v, base, p) ==
  IF IsAbs(p) \/ base = "cwd" THEN RoPath(v, p) ELSE RoPath(v, v.fd \o p)
(* ro_guard_fd: by the binds as it is, and only else without the rootfs.    *)
RoFd(v, h) == RoPath(v, IF IsBound(h) THEN Detranslate(h) ELSE GuestName(h))

ReadOnly == Failed("EROFS")

(* What the resolvers make of an argument: the name it stands for, its     *)
(* host path (resolve_host_path), that with the links in the middle gone,  *)
(* with all of them, and with those at the end alone.                      *)
ArgOf(v, base, p, full, t) ==
  LET host == HostOf(t, full)
  IN [arg |-> p, base |-> base, full |-> full, moved |-> t.moved,
      host |-> host, plain |-> Host(v, p), mid |-> Middle(v, host),
      both |-> Both(v, host), leaf |-> Leaf(v, host),
      ro |-> RoAt(v, base, p)]
ArgNamed(v, base, p, full) == ArgOf(v, base, p, full, Translate(v, full))
Arg(v, base, p) == ArgNamed(v, base, p, Joined(v, base, p))

(* translate_follow: what the hook hands to the kernel.  On a loop it      *)
(* reports failure, which its callers take for "not translated".           *)
FollowOr(c, r, p) == IF c.moved /\ r.err = "OK" THEN r.path ELSE p
Follow(c) == FollowOr(c, c.both, c.arg)
FollowMiddle(c) == FollowOr(c, c.mid, c.arg)

(* A failed call is tried again on the path with its last links resolved.  *)
OrRetry(v, p, follow, r) ==
  LET Better(s) == IF s.err = "OK" THEN s ELSE r
      Again(q) == IF q = p THEN r ELSE Better(Kernel(v, q, follow))
  IN IF r.err = "OK" THEN r ELSE Again(Retry(v, p))

(* After the middle, after both; a loop ends the call.                     *)
Via(v, r, follow) ==
  IF r.err = "ELOOP" THEN Failed("ELOOP") ELSE Kernel(v, r.path, follow)
ViaRetry(v, r, follow) ==
  IF r.err = "ELOOP" THEN Failed("ELOOP")
  ELSE OrRetry(v, r.path, follow, Kernel(v, r.path, follow))
(* The same, but a loop that the kernel finds is the answer too.           *)
ViaRetryNoLoop(v, r, follow) ==
  LET Unless(k) == IF k.err = "ELOOP" THEN k ELSE OrRetry(v, r.path, follow, k)
  IN Unless(Via(v, r, follow))

-----------------------------------------------------------------------------
(* open and its kin.                                                       *)

OpenRetry(v, q, flags) ==
  LET Better(r, s) == IF s.err \in {"OK", "ABSENT"} THEN s ELSE r
      Again(r, l) == IF r.err = "ENOENT" /\ l # q
                     THEN Better(r, KernelOpen(v, l, flags)) ELSE r
  IN Again(KernelOpen(v, q, flags), Retry(v, q))

(* A path with a link in the middle is opened as soon as that is gone; one *)
(* without is tried with O_NOFOLLOW first, unless it may have to be made.  *)
OpenLeaf(v, c, flags, first) ==
  CASE first.err = "OK" -> first
    [] first.err # "ELOOP" -> OpenRetry(v, c.host, flags)
    [] c.leaf.err = "ELOOP" -> Failed("ELOOP")
    [] OTHER -> KernelOpen(v, c.leaf.path, flags)

OpenHost(v, c, flags) ==
  CASE "nofollow" \in flags -> OpenRetry(v, c.host, flags)
    [] c.mid.err = "ELOOP" -> Failed("ELOOP")
    [] c.mid.path # c.host -> KernelOpen(v, c.mid.path, flags)
    [] "creat" \in flags -> OpenRetry(v, c.host, flags)
    [] OTHER -> OpenLeaf(v, c, flags,
                         KernelOpen(v, c.host, flags \cup {"nofollow"}))

(* A path of /proc is not moved: the links in it that bxroot knows.        *)
OpenProc(v, c, flags) ==
  FirstOf(MagicMiddle(v, c.full),
    FirstOf(IF "nofollow" \in flags THEN NoPath ELSE MagicLeaf(v, c.full),
            c.full))

Open(v, c, flags) ==
  CASE WriteIntent(flags) /\ c.ro -> ReadOnly
    [] c.moved -> OpenHost(v, c, flags)
    [] OTHER -> KernelOpen(v, OpenProc(v, c, flags), flags)

OpenAt(v, c, flags) ==
  IF WriteIntent(flags) /\ c.ro THEN ReadOnly ELSE OpenHost(v, c, flags)

OpenNoCancel(v, c, flags) ==
  IF WriteIntent(flags) /\ c.ro THEN ReadOnly
  ELSE KernelOpen(v, IF flags \cap {"nofollow", "creat"} = {}
                     THEN Follow(c) ELSE FollowMiddle(c), flags)

Creat(v, c) ==
  IF c.ro THEN ReadOnly ELSE KernelOpen(v, Follow(c), {"creat", "write"})

Fopen(v, c, flags) ==
  IF WriteIntent(flags) /\ c.ro THEN ReadOnly ELSE KernelOpen(v, Follow(c), flags)

-----------------------------------------------------------------------------
(* Calls that only look.                                                   *)

Stat(v, c) == ViaRetry(v, c.both, TRUE)
Lstat(v, c) == ViaRetry(v, c.mid, FALSE)

NewFstatat(v, c, follow) ==
  IF follow THEN ViaRetryNoLoop(v, c.both, TRUE) ELSE Kernel(v, c.host, FALSE)
Fstatat(v, c, follow) == Via(v, IF follow THEN c.both ELSE c.mid, follow)
Fstatat64(v, c, follow) ==
  IF follow THEN ViaRetryNoLoop(v, c.both, TRUE) ELSE Via(v, c.mid, FALSE)
Statx(v, c, follow) == Via(v, IF follow THEN c.both ELSE c.mid, follow)

Xstat(v, c) == Kernel(v, c.plain, TRUE)
Lxstat(v, c) == Kernel(v, c.plain, FALSE)

Access(v, c) == ViaRetry(v, Middle(v, Follow(c)), TRUE)
Faccessat(v, c) == ViaRetry(v, c.mid, TRUE)
Eaccess(v, c) == OrRetry(v, c.plain, TRUE, Kernel(v, c.plain, TRUE))

Readlink(v, c) == Via(v, c.mid, FALSE)
ReadlinkAt(v, c) ==
  Via(v, IF c.base = "fd" THEN c.mid ELSE Middle(v, c.plain), FALSE)
(* The text that the guest is given.                                       *)
ReadlinkText(v, r) == ReadlinkFixup(v.tree[r.at].to)

Statfs(v, c) == Kernel(v, Follow(c), TRUE)
Getxattr(v, c) == Kernel(v, Follow(c), TRUE)
Lgetxattr(v, c) == Kernel(v, FollowMiddle(c), FALSE)
InotifyAddWatch(v, c) == Kernel(v, Follow(c), TRUE)
Opendir(v, c) == Kernel(v, Follow(c), TRUE)
Scandir(v, c) == Kernel(v, c.plain, TRUE)
Connect(v, c) == Kernel(v, c.plain, TRUE)

(* A path of /proc that was not translated.                                *)
MagicPreOf(v, p, m) == IF m = NoPath THEN p ELSE OrSame(Both(v, m), m)
MagicPre(v, p) == MagicPreOf(v, p, FirstOf(MagicMiddle(v, p), MagicLeaf(v, p)))

Realpath(v, c) ==
  LET Onto(q) == Kernel(v, IF q # c.full THEN q ELSE c.arg, TRUE)
  IN IF c.moved THEN Via(v, c.both, TRUE) ELSE Onto(MagicPre(v, c.full))

CanonicalizeFileName(v, c) ==
  LET q == Follow(c)
  IN Kernel(v, IF q = c.arg THEN MagicPre(v, q) ELSE q, TRUE)

-----------------------------------------------------------------------------
(* Calls that change the object a path leads to.                           *)

Chmod(v, c) == IF c.ro THEN ReadOnly ELSE Kernel(v, Follow(c), TRUE)
Fchmodat(v, c) == IF c.ro THEN ReadOnly ELSE Kernel(v, c.host, TRUE)
Chown(v, c) == IF c.ro THEN ReadOnly ELSE Kernel(v, Follow(c), TRUE)
Lchown(v, c) == IF c.ro THEN ReadOnly ELSE Kernel(v, FollowMiddle(c), FALSE)
Fchownat(v, c, follow) ==
  LET r == IF follow THEN c.both ELSE c.mid
  IN IF c.ro THEN ReadOnly
     ELSE KernelAt(v, c.base, FollowOr(c, r, c.full), follow)
Truncate(v, c) == IF c.ro THEN ReadOnly ELSE Kernel(v, Follow(c), TRUE)
Utimes(v, c) == IF c.ro THEN ReadOnly ELSE Kernel(v, Follow(c), TRUE)
Lutimes(v, c) == IF c.ro THEN ReadOnly ELSE Kernel(v, FollowMiddle(c), FALSE)
Utimensat(v, c) == IF c.ro THEN ReadOnly ELSE Kernel(v, c.host, TRUE)
Setxattr(v, c) == IF c.ro THEN ReadOnly ELSE Kernel(v, Follow(c), TRUE)
Removexattr(v, c) == IF c.ro THEN ReadOnly ELSE Kernel(v, Follow(c), TRUE)

(* Calls on a descriptor: fchmod, fchown, ftruncate, futimens.             *)
FdEdit(v, h) == IF RoFd(v, h) THEN ReadOnly ELSE Found(h)

Edits(v, c) ==
  {Fchmodat(v, c), Fchownat(v, c, TRUE), Fchownat(v, c, FALSE),
   Utimensat(v, c), OpenAt(v, c, {"write"})}
  \cup IF c.base = "fd" THEN {FdEdit(v, fd)}
       ELSE {Chmod(v, c), Chown(v, c), Lchown(v, c), Truncate(v, c),
             Utimes(v, c), Lutimes(v, c), Setxattr(v, c), Removexattr(v, c),
             Open(v, c, {"write"}), OpenNoCancel(v, c, {"write"}),
             Fopen(v, c, {"write"})}

-----------------------------------------------------------------------------
(* Calls that make a name.                                                 *)

Mkdir(v, c) == IF c.ro THEN ReadOnly ELSE Kernel(v, FollowMiddle(c), FALSE)
Mkdirat(v, c) == IF c.ro THEN ReadOnly ELSE Kernel(v, c.host, FALSE)
Symlink(v, c) == IF c.ro THEN ReadOnly ELSE Kernel(v, c.plain, FALSE)
Symlinkat(v, c) == IF c.ro THEN ReadOnly ELSE Kernel(v, c.host, FALSE)
Mkfifo(v, c) == IF c.ro THEN ReadOnly ELSE Kernel(v, Follow(c), FALSE)
Mkfifoat(v, c) ==
  IF c.ro THEN ReadOnly
  ELSE Kernel(v, IF c.base = "fd" \/ IsAbs(c.arg) THEN c.host ELSE c.arg, FALSE)
Mknod(v, c) == IF c.ro THEN ReadOnly ELSE Kernel(v, Follow(c), FALSE)
Bind(v, c) == Kernel(v, c.plain, FALSE)

(* mkstemp, mkostemp, mkstemps, mkdtemp, for a name that is not taken.     *)
Mkstemp(v, c) == Kernel(v, c.plain, FALSE)

NewDirs(v, c) ==
  {Mkdirat(v, c)} \cup IF c.base = "cwd" THEN {Mkdir(v, c), Mkstemp(v, c)} ELSE {}
NewLinks(v, c) ==
  {Symlinkat(v, c)} \cup IF c.base = "cwd" THEN {Symlink(v, c)} ELSE {}
NewFiles(v, c) ==
  {OpenAt(v, c, {"creat"}), Mkfifoat(v, c)}
  \cup IF c.base = "fd" THEN {}
       ELSE {Creat(v, c), Open(v, c, {"creat"}), OpenNoCancel(v, c, {"creat"}),
             Fopen(v, c, {"creat"}), Mkfifo(v, c), Mknod(v, c), Bind(v, c),
             Mkstemp(v, c)}

(* shm_open, in the directory that stands for /dev/shm.                    *)
ShmArg(v, name) == Arg(v, "cwd", ShmDir \o <<name>>)
ShmOpen(v, name, flags) == Open(v, ShmArg(v, name), flags)

-----------------------------------------------------------------------------
(* Calls that take a name away.                                            *)

Unlink(v, c) == IF c.ro THEN ReadOnly ELSE Kernel(v, c.plain, FALSE)
Unlinkat(v, c) == IF c.ro THEN ReadOnly ELSE Kernel(v, c.host, FALSE)
Rmdir(v, c) == IF c.ro THEN ReadOnly ELSE Kernel(v, FollowMiddle(c), FALSE)

ShmUnlink(v, name) == Unlink(v, ShmArg(v, name))

Removals(v, c) ==
  {Unlinkat(v, c)} \cup IF c.base = "cwd" THEN {Unlink(v, c)} ELSE {}
DirRemovals(v, c) ==
  {Unlinkat(v, c)} \cup IF c.base = "cwd" THEN {Rmdir(v, c)} ELSE {}

(* rename and renameat: the two names, each as one call hands it over.     *)
RenameEnd(v, c) == IF c.ro THEN ReadOnly ELSE Kernel(v, c.plain, FALSE)
RenameatEnd(v, c) == IF c.ro THEN ReadOnly ELSE Kernel(v, c.host, FALSE)

RenameEnds(v, c) ==
  {RenameatEnd(v, c)} \cup IF c.base = "cwd" THEN {RenameEnd(v, c)} ELSE {}

-----------------------------------------------------------------------------
(* What the kernel does.                                                   *)

Init == fs = Tree0 /\ cwd = Cwd0 /\ fd = NoFd /\ ops = 0

(* What the calls of a kind can lead to, whatever their arguments.         *)
Results(calls(_, _), raw(_, _)) ==
  UNION {calls(View, Arg(View, b, p)) \cup raw(View, RawArg(View, b, p)) :
           b \in Bases, p \in Paths}

Count == ops < MaxOps /\ ops' = ops + 1
InFs(r) == r.err = "OK" /\ r.at \in DOMAIN fs

Edit ==
  /\ Count
  /\ \E r \in Results(Edits, RawEdits) :
       /\ InFs(r)
       /\ fs' = [fs EXCEPT ![r.at].rev = 1 - @]
  /\ UNCHANGED <<cwd, fd>>

Make(results, node) ==
  /\ Count
  /\ \E r \in results : r.err = "ABSENT" /\ fs' = fs @@ (r.at :> node)
  /\ UNCHANGED <<cwd, fd>>

MakeDir == Make(Results(NewDirs, RawNamed), Dir)
MakeLink ==
  LET Of(results) == \E text \in Texts : Make(results, Link(text))
  IN Of(Results(NewLinks, RawNamed))
MakeFile ==
  Make(Results(NewFiles, RawMade)
         \cup {ShmOpen(View, n, {"creat"}) : n \in ShmNames}, File)

Without(at) == [h \in DOMAIN fs \ {at} |-> fs[h]]

Unname ==
  /\ Count
  /\ \E r \in Results(Removals, RawNamed)
            \cup {ShmUnlink(View, n) : n \in ShmNames} :
       InFs(r) /\ fs[r.at].kind # "dir" /\ fs' = Without(r.at)
  /\ UNCHANGED <<cwd, fd>>

(* Only a directory that nobody is in, has open or has filled goes away.   *)
UnnameDir ==
  /\ Count
  /\ \E r \in Results(DirRemovals, RawNamed) :
       /\ InFs(r)
       /\ fs[r.at].kind = "dir"
       /\ ~\E h \in (DOMAIN fs \ {r.at}) \cup {cwd, fd} : Under(h, r.at)
       /\ fs' = Without(r.at)
  /\ UNCHANGED <<cwd, fd>>

(* Files and links change their names.                                     *)
Rename ==
  /\ Count
  /\ \E ends \in {Results(RenameEnds, RawNamed)} : \E old, new \in ends :
       /\ InFs(old) /\ fs[old.at].kind # "dir"
       /\ \/ new.err = "ABSENT"
          \/ InFs(new) /\ fs[new.at].kind # "dir" /\ new.at # old.at
       /\ fs' = (new.at :> fs[old.at]) @@ Without(old.at)
  /\ UNCHANGED <<cwd, fd>>

(* chdir resolves the links at the end and none in the middle.             *)
Chdir(v, c) == IF c.moved THEN Via(v, c.leaf, TRUE) ELSE Kernel(v, c.full, TRUE)

ChangeDir ==
  /\ \E p \in Paths : \E r \in {Chdir(View, Arg(View, "cwd", p))} :
       InFs(r) /\ fs[r.at].kind = "dir" /\ cwd' = r.at
  /\ UNCHANGED <<fs, fd, ops>>

Fchdir == fd # NoFd /\ cwd' = fd /\ UNCHANGED <<fs, fd, ops>>

OpenDir ==
  /\ fd = NoFd
  /\ \E p \in Paths : \E c \in {Arg(View, "cwd", p)} :
     \E r \in {Opendir(View, c), Open(View, c, {})} :
       InFs(r) /\ fs[r.at].kind = "dir" /\ fd' = r.at
  /\ UNCHANGED <<fs, cwd, ops>>

CloseDir == fd # NoFd /\ fd' = NoFd /\ UNCHANGED <<fs, cwd, ops>>

Next ==
  \/ Edit \/ MakeDir \/ MakeLink \/ MakeFile \/ Unname \/ UnnameDir \/ Rename
  \/ ChangeDir \/ Fchdir \/ OpenDir \/ CloseDir

Spec == Init /\ [][Next]_vars
=============================================================================
