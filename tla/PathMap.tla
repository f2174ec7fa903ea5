------------------------------ MODULE PathMap ------------------------------
(***************************************************************************)
(* How the runtime turns the guest's paths into host paths and back        *)
(* (translate_path, detranslate_binds and the link resolvers of            *)
(* preload.c).  The kernel would follow an absolute link from the host's   *)
(* root, so the runtime resolves links itself, on host paths, before it    *)
(* calls the kernel.                                                       *)
(*                                                                         *)
(* A view v is what a call sees: the host tree with /proc (v.tree), the    *)
(* working directory (v.cwd) and the open directory (v.fd), host paths,    *)
(* and the name the guest has for the working directory (v.name).          *)
(***************************************************************************)
EXTENDS PathWalk

CONSTANTS
  Rootfs,      (* the host path of the guest's root                         *)
  Binds,       (* sequence of [src, tgt, ro]: host path, guest path, flag   *)
  TmpBase,     (* the guest directory that holds .bxroot-shm                *)
  Compat,      (* sequence of <<from, to>>: Termux paths, their places here *)
  GuestExe,    (* the guest path of the running program                     *)
  NoFd         (* no directory is open                                      *)

ASSUME PathAssumption ==
  /\ IsAbs(Rootfs) /\ Len(Rootfs) > 1
  /\ \A i \in DOMAIN Binds : IsAbs(Binds[i].src) /\ IsAbs(Binds[i].tgt)
  /\ IsAbs(TmpBase) /\ IsAbs(GuestExe)

-----------------------------------------------------------------------------
(* Names: the guest's to the host's.                                       *)

Kept(p) == [moved |-> FALSE, path |-> p]
Moved(p) == [moved |-> TRUE, path |-> p]
NoPath == <<>>
FirstOf(p, q) == IF p # NoPath THEN p ELSE q

StripRootfs(p) == IF Under(p, Rootfs) THEN Top \o After(p, Rootfs) ELSE p

BindsAt(p) == {i \in DOMAIN Binds : Under(p, Binds[i].tgt)}

(* The longest; of two equal ones the first.                               *)
Longest(hits, len) ==
  CHOOSE i \in hits : \A j \in hits :
    len[j] < len[i] \/ (len[j] = len[i] /\ i <= j)
TargetLen == [i \in DOMAIN Binds |-> Len(Binds[i].tgt)]
SourceLen == [i \in DOMAIN Binds |-> Len(Binds[i].src)]

BindAt(p) == Longest(BindsAt(p), TargetLen)

IsBindSource(p) ==
  \E i \in DOMAIN Binds :
    Binds[i].src # Binds[i].tgt /\ Under(p, Binds[i].src)

DevShm == <<Root, "dev", "shm">>
ShmDir == TmpBase \o <<".bxroot-shm">>

(* Guest paths that live elsewhere in the guest.                           *)
FirstCompat(p, hits) ==
  IF hits = {} THEN p
  ELSE LET c == Compat[CHOOSE i \in hits : \A j \in hits : i <= j]
       IN c[2] \o After(p, c[1])
Redirected(p) ==
  IF Under(p, DevShm) THEN ShmDir \o After(p, DevShm)
  ELSE FirstCompat(p, {i \in DOMAIN Compat : Under(p, Compat[i][1])})

IsSpecial(p) == \E s \in {"proc", "sys", "dev"} : Under(p, <<Root, s>>)

BoundBy(p, bind) == bind.src \o After(p, bind.tgt)
Bound(p) == BoundBy(p, Binds[BindAt(p)])

TranslateKnown(p) ==
  CASE Under(p, Rootfs) \/ IsBindSource(p) -> Kept(p)
    [] BindsAt(p) # {} -> Moved(Bound(p))
    [] IsSpecial(p) -> Kept(p)
    [] OTHER -> Moved(Rootfs \o Tail(p))

(* translate_path for a path without "..".                                 *)
TranslatePlain(p) ==
  IF ~IsAbs(p) THEN Kept(p)
  ELSE TranslateKnown(
         IF Under(p, Rootfs) \/ IsBindSource(p) \/ BindsAt(p) # {}
         THEN p ELSE Redirected(p))

Absolute(v, p) == IF IsAbs(p) THEN p ELSE StripRootfs(v.name) \o p

-----------------------------------------------------------------------------
(* Names: the host's to the guest's.                                       *)

(* The loop passes over a bind to the same name once it has one.           *)
Candidates(hits) ==
  {i \in hits : Binds[i].src = Binds[i].tgt => \A j \in hits : i <= j}
NamedBy(p, bind) == bind.tgt \o After(p, bind.src)
DetranslateBy(p, hits) ==
  IF hits = {} THEN p
  ELSE NamedBy(p, Binds[Longest(Candidates(hits), SourceLen)])
Detranslate(p) ==
  DetranslateBy(p, {i \in DOMAIN Binds : Under(p, Binds[i].src)})
IsBound(p) == \E i \in DOMAIN Binds : Under(p, Binds[i].src)

GuestNameStripped(p) == StripRootfs(p)      (* Seeded fault: the binds forgotten *)
GuestName(p) == Detranslate(StripRootfs(p))

Self == <<Root, "proc", "self">>
ProcRoot == Self \o <<"root">>

(* The text of a link of /proc as the guest is to see it.                  *)
ReadlinkFixup(raw) ==
  LET above == Under(Rootfs, raw) /\ raw # Rootfs   (* the rootfs is below *)
  IN CASE ~IsAbs(raw) -> raw
       [] above /\ ~IsBound(raw) -> Top
       [] OTHER -> GuestName(IF Under(raw, ProcRoot)
                             THEN Top \o After(raw, ProcRoot) ELSE raw)

-----------------------------------------------------------------------------
(* readlink of the kernel: the text of the link, <<>> if there is none.    *)
LinkText(v, p) ==
  LET Text(r) == IF r.err = "OK" THEN v.tree[r.at].to ELSE <<>>
  IN Text(Walk(v.tree, v.cwd, p, FALSE))

(* The links of /proc that the kernel would answer with host objects.      *)

Magic == {ProcRoot, Self \o <<"exe">>, Self \o <<"cwd">>,
          Self \o <<"fd", "3">>}
FdLink(p) == p = Self \o <<"fd", "3">>

MagicTarget(v, p) ==
  CASE p = ProcRoot -> Top
    [] p = Self \o <<"exe">> -> GuestExe
    [] p \in Magic -> ReadlinkFixup(LinkText(v, p))
    [] OTHER -> NoPath

-----------------------------------------------------------------------------
(* translate_path.  A path with ".." is first resolved in the guest's      *)
(* names: ".." takes the last name off, a link in the middle is read.      *)

MiddleText(v, p) ==
  FirstOf(MagicTarget(v, p), LinkText(v, TranslatePlain(p).path))

RECURSIVE WithoutUp(_, _, _, _)
WithoutUp(v, at, rest, links) ==
  LET name == Head(rest)
      more == Tail(rest)
      next == Append(at, name)
      Past(text) == CASE text = <<>> -> WithoutUp(v, next, more, links)
                      [] links = 40 -> NoPath
                      [] OTHER -> WithoutUp(v, at, text \o more, links + 1)
  IN CASE rest = <<>> -> at
       [] name = Root -> WithoutUp(v, Top, more, links)
       [] name = Up -> WithoutUp(v, Parent(at), more, links)
       [] more = <<>> -> next
       [] OTHER -> Past(MiddleText(v, next))

HasUp(p) == Contains(p, Up)
Unresolvable == Rootfs \o <<".bxroot-unresolvable-path">>

TranslateResolved(g) ==
  IF g = NoPath THEN Moved(Unresolvable) ELSE TranslatePlain(g)

TranslateAsIs(v, p) == TranslatePlain(p)    (* Seeded fault: ".." left in *)
Translate(v, p) ==
  IF ~HasUp(p) THEN TranslatePlain(p)
  ELSE TranslateResolved(WithoutUp(v, Top, StripRootfs(Absolute(v, p)), 0))

(* What the hooks make of it: a path that did not move is passed as it is. *)
HostOf(r, p) == IF r.moved THEN r.path ELSE p
Host(v, p) == HostOf(Translate(v, p), p)
HostAbs(v, p) == Host(v, Absolute(v, p))

-----------------------------------------------------------------------------
(* The resolvers, on host paths.                                           *)

Resolved(p) == [err |-> "OK", path |-> p]
Loop == [err |-> "ELOOP", path |-> NoPath]

(* Where the link at the end of p leads, in one step.                      *)
HopTo(v, p, text) ==
  IF IsAbs(text) THEN Translate(v, text).path
  ELSE (IF Len(p) = 1 THEN Top ELSE Front(p)) \o text
Hop(v, p) == HopTo(v, p, LinkText(v, p))

(* The host's path of a target that is there.                              *)
HostTarget(v, p) == IF p = NoPath THEN NoPath ELSE Translate(v, p).path

(* The links do not nest: a path goes through one of them at most.          *)
MagicMiddle(v, p) ==
  LET Through(k, target) == IF target = NoPath THEN NoPath
                            ELSE target \o SubSeq(p, k + 1, Len(p))
      ways == {Through(k, MagicTarget(v, SubSeq(p, 1, k))) :
                 k \in 1 .. Len(p) - 1} \ {NoPath}
  IN HostTarget(v, IF ways = {} THEN NoPath ELSE CHOOSE way \in ways : TRUE)

MagicLeaf(v, p) == HostTarget(v, MagicTarget(v, p))

HopAtFirst(v, p, links) ==
  IF links = {} THEN NoPath
  ELSE LET k == CHOOSE i \in links : \A j \in links : i <= j
       IN HopTo(v, SubSeq(p, 1, k), LinkText(v, SubSeq(p, 1, k)))
            \o SubSeq(p, k + 1, Len(p))

(* resolve_intermediate_symlinks: the first link in the middle is replaced *)
(* and the walk starts again, at most 8 times; a path that was there       *)
(* before, the one it started with among them, is a loop.                  *)
MiddleStep(v, p) ==
  LET first == IF Under(p, Rootfs) THEN Len(Rootfs) + 1 ELSE 2
  IN FirstOf(MagicMiddle(v, p),
             HopAtFirst(v, p, {k \in first .. Len(p) - 1 :
                                 LinkText(v, SubSeq(p, 1, k)) # <<>>}))

RECURSIVE MiddleRounds(_, _, _, _)
MiddleRounds(v, p, seen, rounds) ==
  LET Past(next) ==
        CASE next = NoPath -> Resolved(p)
          [] next \in seen -> Loop
          [] OTHER -> MiddleRounds(v, next, seen \cup {next}, rounds - 1)
  IN IF rounds = 0 THEN Resolved(p) ELSE Past(MiddleStep(v, p))

Middle(v, p) == IF IsAbs(p) THEN MiddleRounds(v, p, {p}, 8) ELSE Resolved(p)

(* resolve_symlink_full: the links at the end, at most 12.                 *)
RECURSIVE LeafHops(_, _, _, _)
LeafHops(v, p, seen, hops) ==
  LET Past(next) == IF next \in seen THEN Loop
                    ELSE LeafHops(v, next, seen \cup {next}, hops - 1)
  IN CASE hops = 0 \/ FdLink(p) -> Resolved(p)
       [] MagicTarget(v, p) # NoPath ->
            LeafHops(v, MagicLeaf(v, p), seen, hops - 1)
       [] LinkText(v, p) = <<>> -> Resolved(p)
       [] OTHER -> Past(Hop(v, p))

Leaf(v, p) == LeafHops(v, p, {p}, 12)

(* resolve_abs_symlink, the retry after a failed call: at most 8 links and *)
(* no loop is noticed.                                                     *)
RECURSIVE RetryHops(_, _, _)
RetryHops(v, p, hops) ==
  IF hops = 0 \/ FdLink(p) \/ LinkText(v, p) = <<>> THEN p
  ELSE RetryHops(v, Hop(v, p), hops - 1)

Retry(v, p) == RetryHops(v, p, 8)

(* stat_pre_resolve.                                                       *)
LeafAfter(v, m) == IF m.err = "ELOOP" THEN m ELSE Leaf(v, m.path)

BothMiddleOnly(v, p) == Middle(v, p)        (* Seeded fault: the last link stays *)
Both(v, p) == LeafAfter(v, Middle(v, p))
=============================================================================
