----------------------------- MODULE GuestNames -----------------------------
(***************************************************************************)
(* What the guest means by a path: the rootfs with the binds mounted over  *)
(* it, walked as a kernel walks, links read in the guest's names.  The     *)
(* properties compare it with what the hooks of PathHooks reach.           *)
(***************************************************************************)
EXTENDS PathHooks

CONSTANT Probes   (* the arguments that the properties try                *)

(* The host path of a guest path that has no link and no ".." in it.       *)
Means(g) ==
  LET Of(p) == CASE BindsAt(p) # {} -> Bound(p)
                 [] IsSpecial(p) -> p
                 [] OTHER -> Rootfs \o Tail(p)
  IN Of(IF BindsAt(g) # {} THEN g ELSE Redirected(g))

(* The guest paths that a host path may have.                              *)
NamesOf(h) ==
  LET mounts == {<<Binds[i].src, Binds[i].tgt>> : i \in DOMAIN Binds}
                  \cup {<<Rootfs, Top>>, <<Means(DevShm), DevShm>>,
                        <<Top \o <<"proc">>, Top \o <<"proc">>>>,
                        <<Top \o <<"dev">>, Top \o <<"dev">>>>}
      names == {m[2] \o After(h, m[1]) : m \in {x \in mounts : Under(h, x[1])}}
  IN {g \in names : Means(g) = h}

GuestTree(v) ==
  LET text(h) == IF h \in Magic THEN MagicTarget(v, h) ELSE v.tree[h].to
      pairs == UNION {{<<g, h>> : g \in NamesOf(h)} : h \in DOMAIN v.tree}
      Of(names) == [g \in {x[1] : x \in names} |->
        LET h == (CHOOSE x \in names : x[1] = g)[2]
        IN [v.tree[h] EXCEPT !.to = text(h)]]
  IN Of(pairs)

(* The object that the guest means.                                        *)
Meant(v, gtree, base, p, follow) ==
  LET Of(r) == [r EXCEPT !.at = Means(@)]
  IN Of(Walk(gtree, GuestName(From(v, base)), p, follow))
-----------------------------------------------------------------------------
(* What restricts the comparisons below; the README says what happens      *)
(* outside of them.                                                        *)

Inside(h) == NamesOf(h) # {} /\ ~IsSpecial(h)
Settled ==
  /\ Inside(cwd) /\ (fd = NoFd \/ Inside(fd))
  /\ \A i \in DOMAIN Binds : Binds[i].src \in DOMAIN fs

(* The text of a relative link is joined to the directory that it is in on *)
(* the host (preload.c:3588, 3805).  There it means what the guest means   *)
(* as long as it neither climbs past the rootfs or the mount that it is in *)
(* nor goes down through another.                                          *)
Onto(dir, text) ==
  FoldLeft(LAMBDA at, name : IF name = Up THEN Parent(at) ELSE Append(at, name),
           dir, text)
Portable(h) ==
  \A g \in NamesOf(h) :
    Means(Onto(Parent(g), fs[h].to)) = Onto(Parent(h), fs[h].to)
IsRelative(h) == fs[h].kind = "link" /\ ~IsAbs(fs[h].to)
AtHome == Settled /\ \A h \in DOMAIN fs : IsRelative(h) => Portable(h)

(* No "..", and not spelled like the source of a bind.                     *)
Clear(p) == ~HasUp(p) /\ ~IsBindSource(p)
ByProc(p) == Under(p, Top \o <<"proc">>)

(* No name in the middle is a link.                                        *)
Straight(v, gtree, base, p) ==
  LET Of(from) ==
        \A k \in 1 .. Len(p) - 1 : \A g \in {from \o SubSeq(p, 1, k)} :
          g \in DOMAIN gtree => gtree[g].kind # "link"
  IN Of(IF IsAbs(p) THEN <<>> ELSE GuestName(From(v, base)))

Agrees(r, meant) == IF meant.err = "OK" THEN r = meant ELSE r.err # "OK"
AgreesOrRefused(r, meant) == r = ReadOnly \/ Agrees(r, meant)

(* A call and what it means: the object if a link at the end is followed,  *)
(* the name itself, whether no link is in the middle, whether the name is  *)
(* one.                                                                    *)
Case(v, gtree, base, p) ==
  [c |-> Arg(v, base, p),
   flat |-> Meant(v, gtree, base, p, FALSE),
   deep |-> Meant(v, gtree, base, p, TRUE),
   straight |-> Straight(v, gtree, base, p)]
Linked(v, x) == x.flat.err = "OK" /\ v.tree[x.flat.at].kind = "link"

Cases(v, gtree) ==
  {Case(v, gtree, x[1], x[2]) :
     x \in {y \in Bases \X {p \in Probes : Clear(p)} :
             y[1] = "cwd" \/ ~IsAbs(y[2])}}

AllCases(v) == UNION {Cases(v, gtree) : gtree \in {GuestTree(v)}}
(* Without the paths through /proc.                                        *)
PlainCases(v) == {x \in AllCases(v) : ~ByProc(x.c.arg)}
Raw(v, x) == RawArg(v, x.c.base, x.c.arg)

-----------------------------------------------------------------------------
TypeOK ==
  /\ {Top, Rootfs} \subseteq DOMAIN fs
  /\ \A h \in DOMAIN fs :
       /\ IsAbs(h) /\ Parent(h) \in DOMAIN fs
       /\ fs[h].kind \in {"dir", "file", "link"} /\ fs[h].rev \in 0 .. 1
       /\ fs[h].to \in Texts \cup {<<>>}
       /\ h # Top => fs[Parent(h)].kind = "dir"
  /\ cwd \in DOMAIN fs /\ fs[cwd].kind = "dir"
  /\ fd # NoFd => fd \in DOMAIN fs /\ fs[fd].kind = "dir"
  /\ ops \in 0 .. MaxOps

(* The calls that resolve every link themselves reach the very object that *)
(* the guest means, whatever absolute links lead there, and fail when it   *)
(* means none: preload.c:4073.                                             *)
DeepLooks(v, c) ==
  {Fstatat(v, c, TRUE), Fstatat64(v, c, TRUE), NewFstatat(v, c, TRUE),
   Statx(v, c, TRUE)}
  \cup IF c.base = "cwd" THEN {Stat(v, c), Realpath(v, c)} ELSE {}
FlatLooks(v, c) ==
  {Fstatat(v, c, FALSE), Fstatat64(v, c, FALSE), Statx(v, c, FALSE)}
  \cup IF c.base = "cwd" THEN {Lstat(v, c), Readlink(v, c)}
       ELSE {ReadlinkAt(v, c)}
LooksRight(v, x) ==
  /\ \A r \in DeepLooks(v, x.c) : Agrees(r, x.deep)
  /\ \A r \in FlatLooks(v, x.c) : Agrees(r, x.flat)

(* The calls that leave one kind of link to the kernel still reach what    *)
(* the guest means where there is no such link: open and access never meet *)
(* a link at the end after one in the middle (preload.c:4274), chdir none  *)
(* in the middle (13230), the *at checks none at all.                      *)
OpensRight(v, x) ==
  LET c == x.c
      named == c.base = "cwd"
      linked == Linked(v, x)
      ends == x.deep.err # "ELOOP"
  IN /\ x.straight \/ ~linked =>
          /\ Agrees(OpenAt(v, c, {}), x.deep)
          /\ named => Agrees(Open(v, c, {}), x.deep)
          /\ named /\ ends => Agrees(Access(v, c), x.deep)
     /\ ~linked => Agrees(Faccessat(v, c), x.deep)
     /\ named /\ ends =>
          \A r \in {OpenNoCancel(v, c, {}), Fopen(v, c, {}), Opendir(v, c),
                    CanonicalizeFileName(v, c), Statfs(v, c), Getxattr(v, c),
                    InotifyAddWatch(v, c)} : Agrees(r, x.deep)
     /\ named /\ x.flat.err # "ELOOP" => Agrees(Lgetxattr(v, c), x.flat)
     /\ named /\ x.straight => Agrees(Lxstat(v, c), x.flat)
     /\ named /\ x.straight /\ ends => Agrees(Chdir(v, c), x.deep)
     /\ named /\ x.straight /\ ~linked =>
          \A r \in {Xstat(v, c), Eaccess(v, c), Scandir(v, c), Connect(v, c)} :
            Agrees(r, x.deep)

(* The same of syscall(), for a path outside of /proc: its guard hands a    *)
(* loop to the kernel, which may get out of it on the host                 *)
(* (syscall_guard.c:1897, 2022), and leaves the link at the end to it in   *)
(* all calls but three.  A static image is right where there is no link;   *)
(* its openat also at a link at the end whose name the host has not        *)
(* (static_exec.c:417).                                                    *)
RawRight(v, x, c) ==
  LET linked == Linked(v, x)
  IN /\ x.deep.err # "ELOOP" =>
          /\ Agrees(GuardStat(v, c, TRUE), x.deep)
          /\ Agrees(GuardOpen(v, c, {}), x.deep)
          /\ ~linked => \A r \in GuardLooks(v, c) : Agrees(r, x.deep)
     /\ x.flat.err # "ELOOP" =>
          \A r \in {GuardStat(v, c, FALSE)} \cup GuardNamed(v, c) :
            r = x.flat \/ Agrees(r, x.flat)
     /\ x.straight => Agrees(SvcCall(v, c, FALSE), x.flat)
     /\ x.straight /\ ~linked =>
          /\ Agrees(SvcCall(v, c, TRUE), x.deep)
          /\ Agrees(SvcOpen(v, c, {}), x.deep)

(* Together: whichever way a program looks at a path, it sees what it means. *)
CallsReachTheMeant ==
  /\ TypeOK
  /\ AtHome => \A v \in {View} : \A x \in AllCases(v) :
       /\ LooksRight(v, x)
       /\ ~ByProc(x.c.arg) => OpensRight(v, x) /\ RawRight(v, x, Raw(v, x))

NameChanges(v, c) ==
  NewDirs(v, c) \cup NewLinks(v, c) \cup Removals(v, c)
    \cup DirRemovals(v, c) \cup RenameEnds(v, c)

(* A call that changes an object, or makes or takes away a name, does it   *)
(* to what the guest means or is refused: links nowhere on the way.        *)
ChangesRight(v, x, raw) ==
  LET c == x.c
      m == x.flat
  IN /\ \A r \in NameChanges(v, c) \cup RawNamed(v, raw) :
          r = ReadOnly \/ IF m.err = "ABSENT" THEN r = m ELSE Agrees(r, m)
     /\ m.err = "OK" /\ v.tree[m.at].kind = "file" =>
          /\ c.base = "cwd" => \A r \in Edits(v, c) : AgreesOrRefused(r, m)
          /\ \A r \in RawEdits(v, raw) : r = m
     /\ m.err = "ABSENT" =>
          \A r \in NewFiles(v, c) \cup RawMade(v, raw) : r \in {ReadOnly, m}

ChangesHitTheMeant ==
  AtHome => \A v \in {View} : \A x \in PlainCases(v) :
              x.straight => ChangesRight(v, x, Raw(v, x))

(* ".." never leads out: where every link is relative and stays below its  *)
(* mount, no change lands outside of the guest, however the argument       *)
(* climbs (guest_resolve_dotdot, preload.c:1264), unless it is a loop of   *)
(* links.  mkfifoat and mknodat pass a relative argument on as it is: they *)
(* are left out where it climbs, and the svc of a static image, which does *)
(* so in every call, altogether.                                           *)
Changes(v, c, raw) ==
  Edits(v, c) \cup NameChanges(v, c)
    \cup (IF HasUp(c.arg) /\ ~IsAbs(c.arg) THEN {} ELSE NewFiles(v, c))
    \cup GuardNamed(v, raw) \cup GuardEdits(v, raw) \cup GuardMade(v, raw)

Touches(v, b, p) ==
  {r.at : r \in {s \in Changes(v, Arg(v, b, p), RawArg(v, b, p)) :
                   s.err \in {"OK", "ABSENT"}}}
Loops(v, gtree, b, p) == Meant(v, gtree, b, p, TRUE).err = "ELOOP"
(* For the arguments that are loops, or for those that are none.           *)
NoneOutside(loops) ==
  LET probes == {x \in Probes : ~ByProc(x) /\ ~IsBindSource(x)}
  IN \A v \in {View} : \A gtree \in {GuestTree(v)} :
       \A b \in Bases, p \in probes :
         Loops(v, gtree, b, p) = loops => \A h \in Touches(v, b, p) : Inside(h)
OnlyRelative == \A h \in DOMAIN fs : ~IsAbs(fs[h].to)
ChangesStayInside == AtHome /\ OnlyRelative => NoneOutside(FALSE)

(* preload.c:1236: the guest's root is the root, "/.." is "/".  Not for a  *)
(* relative link: its ".." are the host's.  No run asserts this, nor the    *)
(* next one, nor ReadOnlyByDescriptor: the code does otherwise.            *)
LinksStayInside == Settled /\ OnlyRelative => NoneOutside(FALSE)

(* preload.c:4014: on a loop of links translate_follow returns -1, with    *)
(* ELOOP.  Its callers take that for a path that was not translated and    *)
(* give the kernel the guest's name.                                       *)
LoopsStayInside == AtHome /\ OnlyRelative => NoneOutside(TRUE)

UnderRo(h) == \E i \in DOMAIN Binds :
  /\ Binds[i].ro /\ Under(h, Binds[i].src)
  /\ \E n \in NamesOf(h) : Under(n, Binds[i].tgt)

GuardedAt(v, c) ==
  {Fchmodat(v, c), OpenAt(v, c, {"creat"}), Symlinkat(v, c)}
Guarded(v, c) ==
  GuardedAt(v, c)
  \cup {Chmod(v, c), Truncate(v, c), Open(v, c, {"write"}), Mkdir(v, c),
        Unlink(v, c), RenameEnd(v, c)}
GuardHolds(base, calls(_, _)) ==
  AtHome => \A v \in {View} : \A x \in PlainCases(v) :
    x.c.base = base /\ x.straight /\ x.flat.err \in {"OK", "ABSENT"} =>
      \A r \in calls(v, x.c) : (r = ReadOnly) <=> UnderRo(x.flat.at)

(* A read-only bind holds for a name without links and "..", absolute or   *)
(* relative to the working directory: every guarded call refuses it, and   *)
(* refuses nothing else (preload.c:1875).  Not for one that is relative to *)
(* a descriptor: see the next.                                             *)
ReadOnlyByName == GuardHolds("cwd", Guarded)

(* preload.c:1939-1948: the at calls have a guard of their own, so that a  *)
(* name relative to a descriptor is tested as an absolute guest path.  It  *)
(* is tested as a host path, which no read-only bind is recognised by.     *)
ReadOnlyByDescriptor == GuardHolds("fd", GuardedAt)

(* A path that a hook has translated may go through translate_path again,  *)
(* as it does when hooks call each other: preload.c:4613 counts on it.     *)
TranslatedTwice ==
  \A v \in {View} : \A h \in {HostAbs(v, p) : p \in Probes} :
    HasUp(h) \/ Host(v, h) = h

(* The names that the guest is given lead back: getcwd's to the working    *)
(* directory, also the one of a static image, realpath's to the object,    *)
(* those in /proc to where the kernel would go, and what shm_open makes    *)
(* is the file of that name in /dev/shm (preload.c:1546).                  *)
NamesLeadBack ==
  AtHome => \A v \in {View} :
    /\ \A h \in {cwd, fd} \cup
                {r.at : r \in {s \in {Realpath(v, Arg(v, "cwd", p)) :
                                        p \in {x \in Probes : Clear(x)}} :
                               s.err = "OK"}} :
         h # NoFd => Host(v, GuestName(h)) = h
    /\ Under(cwd, Rootfs) => SvcPath(v, SvcText(cwd)) = cwd
    /\ \A n \in ShmNames :
         \A r \in {ShmOpen(v, n, {"creat", "nofollow"}), ShmUnlink(v, n)} :
           r.err \in {"OK", "ABSENT"} => r.at = Means(DevShm \o <<n>>)
    /\ fd # NoFd => Host(v, ReadlinkText(v, Found(Self \o <<"fd", "3">>))) = fd
    /\ Host(v, ReadlinkText(v, Found(Self \o <<"cwd">>))) = cwd

(* Together: names survive translation, and translation back.              *)
NamesHold == TranslatedTwice /\ NamesLeadBack
=============================================================================
