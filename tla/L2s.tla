-------------------------------- MODULE L2s --------------------------------
(***************************************************************************)
(* The link2symlink layer: link(2), unlink(2) and rename(2) emulated on a  *)
(* file system that refuses hard links.  A guest name that has been linked *)
(* is a symbolic link to an intermediate `.l2s.<base>GGGG' ("mid"), which  *)
(* is a symbolic link to the data file `.l2s.<base>GGGG.0002' ("final"),   *)
(* beside which `<final>.cnt' holds the number of guest names.             *)
(*                                                                         *)
(* One action per system call the layer makes (reads that follow each      *)
(* other without a write between them are one action), so the steps of     *)
(* several processes interleave, a call may be refused (MaxFaults) and a   *)
(* process may be killed between two calls (MaxCrashes).                   *)
(***************************************************************************)
EXTENDS Integers, FiniteSets

CONSTANTS
  Names,        (* guest paths                                             *)
  Bases,        (* the basenames those paths may have                      *)
  BaseOf,       (* the basename of each path                               *)
  Data,         (* file contents, one value per inode                      *)
  Procs,        (* processes that run the layer                            *)
  NoName,       (* "no path": an operand a call does not have              *)
  MaxGen,       (* L2S_GEN_LAST: generations a basename has (999)          *)
  MaxCount,     (* the largest count update_small writes (0xFFFFFFFF)      *)
  InitDir,      (* what each name is at the start                          *)
  InitEnabled,  (* processes started with BXROOT_LINK2SYMLINK              *)
  Ops,          (* operations the guests use in this instance              *)
  Exclusive,    (* TRUE: guests never work on one name at the same time    *)
  FaultAt,      (* program points at which a system call may be refused    *)
  MaxFaults,    (* how many may be                                         *)
  CrashAt,      (* program points at which a process may be killed         *)
  MaxCrashes,   (* how many may be                                         *)
  TornAt        (* program points at which the update of a count may be    *)
                (* cut short between its truncation and its write          *)

Chains == Bases \X (1 .. MaxGen)

None      == <<"none">>
File(d)   == <<"file", d>>
ToMid(c)  == <<"mid", c>>
FileObj   == {File(d) : d \in Data}
MidObj    == {ToMid(c) : c \in Chains}
Obj       == {None} \cup FileObj \cup MidObj

Absent == -1    (* no .cnt file; a file that is empty reads as 0           *)
NoChain == <<"nochain">>

PCs == {"idle", "pick", "ren", "sym_mid", "sym_old", "wr_cnt", "sym_new", "inc",
        "rb_old", "rb_mid", "rb_ren", "rb_cnt", "rb_dec",
        "u_plain", "u_dec", "u_mid", "u_fin", "u_cnt", "u_name",
        "r_svc", "r_dec", "r_mid", "r_fin", "r_cnt"}

(* Where a count that other names rely on is updated. *)
CountPoints == {"inc", "rb_dec", "u_dec", "r_dec"}

AllOps == {"create", "link", "unlink", "rename", "noreplace", "exchange", "stat"}

ASSUME L2sAssumption ==
  /\ BaseOf \in [Names -> Bases]
  /\ NoName \notin Names
  /\ MaxGen \in Nat \ {0}
  /\ MaxCount \in Nat /\ MaxCount >= 2
  /\ InitDir \in [Names -> {None} \cup FileObj]
  /\ InitEnabled \subseteq Procs
  /\ Ops \subseteq AllOps
  /\ Exclusive \in BOOLEAN
  /\ MaxFaults \in Nat /\ MaxCrashes \in Nat
  /\ FaultAt \subseteq PCs /\ CrashAt \subseteq PCs
  /\ TornAt \subseteq CountPoints

VARIABLES
  dir,      (* dir[n]: the directory entry of guest path n                 *)
  mid,      (* chains whose mid exists (it always points to their final)   *)
  fin,      (* fin[c]: the entry at the path of c's final                  *)
  cnt,      (* cnt[c]: the number in c's .cnt file, or Absent              *)
  enabled,  (* g_enabled of each process                                   *)
  loc,      (* the call each process is in: program point and C locals     *)
  faults,   (* refused system calls so far                                 *)
  crashes,  (* processes killed so far                                     *)
  torn      (* ghost: chains of which an update of the count was cut       *)

fsVars == <<dir, mid, fin, cnt>>
vars   == <<dir, mid, fin, cnt, enabled, loc, faults, crashes, torn>>

Idle == [pc |-> "idle", old |-> NoName, new |-> NoName, c |-> NoChain,
         made |-> FALSE]

Locals == [pc : PCs, old : Names \cup {NoName}, new : Names \cup {NoName},
           c : Chains \cup {NoChain}, made : BOOLEAN]

TypeOK ==
  /\ dir \in [Names -> Obj]
  /\ mid \subseteq Chains
  /\ fin \in [Chains -> Obj]
  /\ cnt \in [Chains -> 0 .. MaxCount \cup {Absent}]
  /\ enabled \subseteq Procs
  /\ loc \in [Procs -> Locals]
  /\ faults \in 0 .. MaxFaults
  /\ crashes \in 0 .. MaxCrashes
  /\ torn \subseteq Chains

(* A call keeps the operands that its next steps need. *)
Operands ==
  \A p \in Procs :
    /\ loc[p].pc # "idle" => loc[p].old \in Names
    /\ loc[p].pc \notin {"idle", "pick", "u_plain", "r_svc"} => loc[p].c \in Chains

Init ==
  /\ dir = InitDir
  /\ mid = {}
  /\ fin = [c \in Chains |-> None]
  /\ cnt = [c \in Chains |-> Absent]
  /\ enabled = InitEnabled
  /\ loc = [p \in Procs |-> Idle]
  /\ faults = 0
  /\ crashes = 0
  /\ torn = {}

-----------------------------------------------------------------------------
(* Reading the file system *)

(* One symbolic link followed; a link to a missing mid leads nowhere. *)
Follow(o) == IF o[1] # "mid" THEN o
             ELSE IF o[2] \in mid THEN fin[o[2]] ELSE None

(* What open(2) reaches.  A final is a link itself only after two first
   links of one file raced; three hops cover every chain of the instances,
   and a longer path is a loop (ELOOP), which stays a link here. *)
Resolve(o) == Follow(Follow(Follow(o)))

(* access(mid, F_OK) = 0: follows the link, so a dangling mid is free. *)
Taken(c) == Resolve(ToMid(c)) \in FileObj

(* probe_fake_link: the path is a symbolic link to a mid. *)
IsFake(n) == dir[n] \in MidObj

(* ... and resolve_final of that mid succeeds. *)
Resolves(n) == IsFake(n) /\ dir[n][2] \in mid

CountOf(c) == IF cnt[c] = Absent THEN 0 ELSE cnt[c]

-----------------------------------------------------------------------------
(* Steps of a process *)

At(p, l)   == loc[p].pc = l
Goto(p, l) == loc' = [loc EXCEPT ![p].pc = l]
Return(p)  == loc' = [loc EXCEPT ![p] = Idle]

(* The system call that p is at fails: because `cond' holds, or because the
   kernel refuses it for a reason outside the model (EACCES, ENOSPC, EIO). *)
Fails(p, cond) ==
  \/ cond /\ UNCHANGED faults
  \/ loc[p].pc \in FaultAt /\ faults < MaxFaults /\ faults' = faults + 1

InUse == UNION {{loc[p].old, loc[p].new} : p \in Procs}

(* A guest calls into the layer with the names S. *)
MayCall(p, op, S) ==
  /\ op \in Ops
  /\ At(p, "idle")
  /\ Exclusive => S \cap InUse = {}

Start(p, l, a, b, c) ==
  loc' = [loc EXCEPT ![p] = [Idle EXCEPT !.pc = l, !.old = a, !.new = b, !.c = c]]

-----------------------------------------------------------------------------
(* link(old, new) *)

(* The hook up to the first write: the real link(2) is refused, which enables
   the layer (EEXIST, when new exists, does not), then lstat(old),
   probe_fake_link and resolve_final. *)
LinkBegin(p, a, b) ==
  /\ MayCall(p, "link", {a, b})
  /\ a # b
  /\ dir[a] # None
  /\ p \in enabled \/ dir[b] = None
  /\ enabled' = enabled \cup {p}
  /\ \/ ~IsFake(a) /\ Start(p, "pick", a, b, NoChain)
     \/ Resolves(a) /\ Start(p, "inc", a, b, dir[a][2])
  /\ UNCHANGED <<fsVars, faults, crashes, torn>>

(* Seeded faults, one before the definition it spoils, show that a property
   is able to fail; no specification uses them.  Here: a generation is taken
   without probing for it. *)
PickWithoutProbe(p) ==
  /\ At(p, "pick")
  /\ loc' = [loc EXCEPT ![p].pc = "ren", ![p].c = <<BaseOf[loc[p].old], 1>>]
  /\ UNCHANGED <<fsVars, enabled, faults, crashes, torn>>

(* l2s_pick_generation: the first generation whose mid is free, else ENOSPC. *)
PickGeneration(p) ==
  LET base == BaseOf[loc[p].old]
      free == {g \in 1 .. MaxGen : ~Taken(<<base, g>>)}
  IN
  /\ At(p, "pick")
  /\ \/ /\ free = {}
        /\ Return(p)
     \/ \E g \in free :
          /\ \A h \in free : g <= h
          /\ loc' = [loc EXCEPT ![p].pc = "ren", ![p].c = <<base, g>>]
  /\ UNCHANGED <<fsVars, enabled, faults, crashes, torn>>

(* rename(old, final): the content moves, replacing what final names. *)
RenameToFinal(p) ==
  LET a == loc[p].old
      c == loc[p].c
  IN
  /\ At(p, "ren")
  /\ \/ /\ dir[a] # None
        /\ fin' = [fin EXCEPT ![c] = dir[a]]
        /\ dir' = [dir EXCEPT ![a] = None]
        /\ Goto(p, "sym_mid")
        /\ UNCHANGED faults
     \/ /\ Fails(p, dir[a] = None)
        /\ Return(p)
        /\ UNCHANGED <<dir, fin>>
  /\ UNCHANGED <<mid, cnt, enabled, crashes, torn>>

(* symlink(final, mid), rolled back by renaming final to old. *)
SymlinkMid(p) ==
  LET c == loc[p].c
  IN
  /\ At(p, "sym_mid")
  /\ \/ /\ c \notin mid
        /\ mid' = mid \cup {c}
        /\ Goto(p, "sym_old")
        /\ UNCHANGED faults
     \/ /\ Fails(p, c \in mid)
        /\ Goto(p, "rb_ren")
        /\ UNCHANGED mid
  /\ UNCHANGED <<dir, fin, cnt, enabled, crashes, torn>>

(* symlink(mid, old), rolled back by unlinking mid and renaming. *)
SymlinkOld(p) ==
  LET a == loc[p].old
  IN
  /\ At(p, "sym_old")
  /\ \/ /\ dir[a] = None
        /\ dir' = [dir EXCEPT ![a] = ToMid(loc[p].c)]
        /\ Goto(p, "wr_cnt")
        /\ UNCHANGED faults
     \/ /\ Fails(p, dir[a] # None)
        /\ Goto(p, "rb_mid")
        /\ UNCHANGED dir
  /\ UNCHANGED <<mid, fin, cnt, enabled, crashes, torn>>

(* write_nlink(final, 2); it may fail before or after the truncation. *)
WriteCount(p) ==
  LET c == loc[p].c
  IN
  /\ At(p, "wr_cnt")
  /\ \/ /\ cnt' = [cnt EXCEPT ![c] = 2]
        /\ loc' = [loc EXCEPT ![p].pc = "sym_new", ![p].made = TRUE]
        /\ UNCHANGED faults
     \/ /\ Fails(p, FALSE)
        /\ \/ UNCHANGED cnt
           \/ cnt' = [cnt EXCEPT ![c] = 0]
        /\ Goto(p, "rb_old")
  /\ UNCHANGED <<dir, mid, fin, enabled, crashes, torn>>

(* Seeded fault: the new name is not counted. *)
AddLinkUncounted(p) ==
  /\ At(p, "inc")
  /\ Goto(p, "sym_new")
  /\ UNCHANGED <<fsVars, enabled, faults, crashes, torn>>

(* A further link: cnt_add(final, +1), read, truncated and written under the
   lock on .cnt; EMLINK at the largest count.  A refusal here comes before the
   truncation; CutUpdate is the one after it. *)
AddLink(p) ==
  LET c == loc[p].c
  IN
  /\ At(p, "inc")
  /\ \/ /\ CountOf(c) < MaxCount
        /\ cnt' = [cnt EXCEPT ![c] = CountOf(c) + 1]
        /\ Goto(p, "sym_new")
        /\ UNCHANGED faults
     \/ /\ Fails(p, CountOf(c) = MaxCount)
        /\ Return(p)
        /\ UNCHANGED cnt
  /\ UNCHANGED <<dir, mid, fin, enabled, crashes, torn>>

(* Seeded faults: no rollback (the defect of 2026-10-20), and a rollback of
   the whole chain when the call has only added a name to it. *)
SymlinkNewNoRollback(p) ==
  LET b == loc[p].new
  IN
  /\ At(p, "sym_new")
  /\ \/ /\ dir[b] = None
        /\ dir' = [dir EXCEPT ![b] = ToMid(loc[p].c)]
        /\ UNCHANGED faults
     \/ Fails(p, dir[b] # None) /\ UNCHANGED dir
  /\ Return(p)
  /\ UNCHANGED <<mid, fin, cnt, enabled, crashes, torn>>

SymlinkNewUndoesChain(p) ==
  LET b == loc[p].new
  IN
  /\ At(p, "sym_new")
  /\ \/ /\ dir[b] = None
        /\ dir' = [dir EXCEPT ![b] = ToMid(loc[p].c)]
        /\ Return(p)
        /\ UNCHANGED faults
     \/ Fails(p, dir[b] # None) /\ Goto(p, "rb_old") /\ UNCHANGED dir
  /\ UNCHANGED <<mid, fin, cnt, enabled, crashes, torn>>

(* symlink(mid, new): the hard link appears, or the call is rolled back. *)
SymlinkNew(p) ==
  LET b == loc[p].new
  IN
  /\ At(p, "sym_new")
  /\ \/ /\ dir[b] = None
        /\ dir' = [dir EXCEPT ![b] = ToMid(loc[p].c)]
        /\ Return(p)
        /\ UNCHANGED faults
     \/ /\ Fails(p, dir[b] # None)
        /\ Goto(p, IF loc[p].made THEN "rb_old" ELSE "rb_dec")
        /\ UNCHANGED dir
  /\ UNCHANGED <<mid, fin, cnt, enabled, crashes, torn>>

(* The rollbacks.  The calls of the first four are taken to succeed; the code
   looks at no result of theirs. *)
RollbackOld(p) ==
  /\ At(p, "rb_old")
  /\ dir' = [dir EXCEPT ![loc[p].old] = None]
  /\ Goto(p, "rb_mid")
  /\ UNCHANGED <<mid, fin, cnt, enabled, faults, crashes, torn>>

RollbackMid(p) ==
  /\ At(p, "rb_mid")
  /\ mid' = mid \ {loc[p].c}
  /\ Goto(p, "rb_ren")
  /\ UNCHANGED <<dir, fin, cnt, enabled, faults, crashes, torn>>

RollbackRename(p) ==
  LET c == loc[p].c
  IN
  /\ At(p, "rb_ren")
  /\ IF fin[c] = None
       THEN UNCHANGED <<dir, fin>>
       ELSE /\ dir' = [dir EXCEPT ![loc[p].old] = fin[c]]
            /\ fin' = [fin EXCEPT ![c] = None]
  /\ IF loc[p].made THEN Goto(p, "rb_cnt") ELSE Return(p)
  /\ UNCHANGED <<mid, cnt, enabled, faults, crashes, torn>>

RollbackCount(p) ==
  /\ At(p, "rb_cnt")
  /\ cnt' = [cnt EXCEPT ![loc[p].c] = Absent]
  /\ Return(p)
  /\ UNCHANGED <<dir, mid, fin, enabled, faults, crashes, torn>>

(* cnt_add(c, -1): opens or creates the .cnt, and leaves a zero alone. *)
Decremented(c) ==
  [cnt EXCEPT ![c] = IF CountOf(c) = 0 THEN 0 ELSE @ - 1]

RollbackAdd(p) ==
  /\ At(p, "rb_dec")
  /\ \/ cnt' = Decremented(loc[p].c) /\ UNCHANGED faults
     \/ Fails(p, FALSE) /\ UNCHANGED cnt
  /\ Return(p)
  /\ UNCHANGED <<dir, mid, fin, enabled, crashes, torn>>

(* l2s_real_update_small truncates .cnt and then writes the new number: if the
   write is refused, or the process is killed in between, an empty file is left,
   which the next update reads as 0.  All callers of cnt_add end their call. *)
CutUpdate(p) ==
  /\ loc[p].pc \in TornAt
  /\ IF At(p, "inc") THEN CountOf(loc[p].c) < MaxCount ELSE CountOf(loc[p].c) > 0
  /\ cnt' = [cnt EXCEPT ![loc[p].c] = 0]
  /\ torn' = torn \cup {loc[p].c}
  /\ \/ faults < MaxFaults /\ faults' = faults + 1 /\ UNCHANGED crashes
     \/ crashes < MaxCrashes /\ crashes' = crashes + 1 /\ UNCHANGED faults
  /\ Return(p)
  /\ UNCHANGED <<dir, mid, fin, enabled>>

-----------------------------------------------------------------------------
(* unlink(path) *)

(* A process in which the layer is off passes the call through; so does one
   whose path is no link of the layer, or a broken one. *)
UnlinkBegin(p, a) ==
  /\ MayCall(p, "unlink", {a})
  /\ dir[a] # None
  /\ IF p \in enabled /\ Resolves(a)
       THEN Start(p, "u_dec", a, NoName, dir[a][2])
       ELSE Start(p, "u_plain", a, NoName, NoChain)
  /\ UNCHANGED <<fsVars, enabled, faults, crashes, torn>>

(* The last unlink(2) of the guest's own path. *)
RemoveName(p) ==
  LET a == loc[p].old
  IN
  /\ loc[p].pc \in {"u_plain", "u_name"}
  /\ \/ /\ dir' = [dir EXCEPT ![a] = None]
        /\ UNCHANGED faults
     \/ /\ Fails(p, FALSE)
        /\ UNCHANGED dir
  /\ Return(p)
  /\ UNCHANGED <<mid, fin, cnt, enabled, crashes, torn>>

(* Seeded fault: the chain is reclaimed one name too early. *)
DropLinkEarly(p) ==
  LET c == loc[p].c
  IN
  /\ At(p, "u_dec")
  /\ cnt' = Decremented(c)
  /\ Goto(p, IF CountOf(c) <= 2 THEN "u_mid" ELSE "u_name")
  /\ UNCHANGED <<dir, mid, fin, enabled, faults, crashes, torn>>

(* cnt_add(final, -1); the process that reads 0 reclaims the chain. *)
DropLink(p) ==
  LET c == loc[p].c
  IN
  /\ At(p, "u_dec")
  /\ \/ /\ CountOf(c) > 0
        /\ cnt' = Decremented(c)
        /\ Goto(p, IF CountOf(c) = 1 THEN "u_mid" ELSE "u_name")
        /\ UNCHANGED faults
     \/ /\ Fails(p, CountOf(c) = 0)
        /\ cnt' = IF CountOf(c) = 0 THEN Decremented(c) ELSE cnt
        /\ Return(p)
  /\ UNCHANGED <<dir, mid, fin, enabled, crashes, torn>>

(* The reclaim: a refused unlink of mid or final ends the call at once. *)
ReclaimMid(p) ==
  LET c == loc[p].c
  IN
  /\ At(p, "u_mid")
  /\ \/ /\ c \in mid
        /\ mid' = mid \ {c}
        /\ Goto(p, "u_fin")
        /\ UNCHANGED faults
     \/ /\ Fails(p, c \notin mid)
        /\ Return(p)
        /\ UNCHANGED mid
  /\ UNCHANGED <<dir, fin, cnt, enabled, crashes, torn>>

ReclaimFinal(p) ==
  LET c == loc[p].c
  IN
  /\ At(p, "u_fin")
  /\ \/ /\ fin[c] # None
        /\ fin' = [fin EXCEPT ![c] = None]
        /\ Goto(p, "u_cnt")
        /\ UNCHANGED faults
     \/ /\ Fails(p, fin[c] = None)
        /\ Return(p)
        /\ UNCHANGED fin
  /\ UNCHANGED <<dir, mid, cnt, enabled, crashes, torn>>

ReclaimCount(p) ==
  /\ At(p, "u_cnt")
  /\ cnt' = [cnt EXCEPT ![loc[p].c] = Absent]
  /\ Goto(p, "u_name")
  /\ UNCHANGED <<dir, mid, fin, enabled, faults, crashes, torn>>

-----------------------------------------------------------------------------
(* rename(old, new), renameat2(old, new, NOREPLACE | EXCHANGE) *)

(* Seeded fault: two names of one chain are not recognised. *)
RenameBeginAlways(p, a, b) ==
  /\ MayCall(p, "rename", {a, b})
  /\ a # b
  /\ dir[a] # None
  /\ Start(p, "r_svc", a, b, IF Resolves(b) THEN dir[b][2] ELSE NoChain)
  /\ UNCHANGED <<fsVars, enabled, faults, crashes, torn>>

(* l2s_rename_replace_pre: enables the layer if new is a link of it, then
   decides whether the name that is replaced has to be counted down.  Two
   names of one chain: the call does nothing and succeeds. *)
RenameBegin(p, a, b) ==
  LET on == p \in enabled \/ IsFake(b)
  IN
  /\ MayCall(p, "rename", {a, b})
  /\ a # b
  /\ dir[a] # None
  /\ enabled' = IF IsFake(b) THEN enabled \cup {p} ELSE enabled
  /\ \/ on /\ Resolves(b) /\ dir[a] # dir[b] /\ Start(p, "r_svc", a, b, dir[b][2])
     \/ on /\ Resolves(b) /\ dir[a] = dir[b] /\ UNCHANGED loc
     \/ ~(on /\ Resolves(b)) /\ Start(p, "r_svc", a, b, NoChain)
  /\ UNCHANGED <<fsVars, faults, crashes, torn>>

(* rename(2) itself: the entry moves as it is, link or file. *)
RenameCall(p) ==
  LET a == loc[p].old
      b == loc[p].new
  IN
  /\ At(p, "r_svc")
  /\ \/ /\ dir[a] # None
        /\ dir' = [dir EXCEPT ![b] = dir[a], ![a] = None]
        /\ IF loc[p].c = NoChain THEN Return(p) ELSE Goto(p, "r_dec")
        /\ UNCHANGED faults
     \/ /\ Fails(p, dir[a] = None)
        /\ Return(p)
        /\ UNCHANGED dir
  /\ UNCHANGED <<mid, fin, cnt, enabled, crashes, torn>>

(* l2s_rt_rename_replace_commit: the same countdown, failures ignored. *)
RenameDrop(p) ==
  LET c == loc[p].c
  IN
  /\ At(p, "r_dec")
  /\ \/ /\ cnt' = Decremented(c)
        /\ IF CountOf(c) = 1 THEN Goto(p, "r_mid") ELSE Return(p)
        /\ UNCHANGED faults
     \/ /\ Fails(p, FALSE)
        /\ Return(p)
        /\ UNCHANGED cnt
  /\ UNCHANGED <<dir, mid, fin, enabled, crashes, torn>>

RenameReclaim(p) ==
  LET c == loc[p].c
  IN
  /\ \/ At(p, "r_mid") /\ mid' = mid \ {c} /\ Goto(p, "r_fin") /\ UNCHANGED <<fin, cnt>>
     \/ /\ At(p, "r_fin")
        /\ fin' = [fin EXCEPT ![c] = None]
        /\ Goto(p, "r_cnt")
        /\ UNCHANGED <<mid, cnt>>
     \/ At(p, "r_cnt") /\ cnt' = [cnt EXCEPT ![c] = Absent] /\ Return(p) /\ UNCHANGED <<mid, fin>>
  /\ UNCHANGED <<dir, enabled, faults, crashes, torn>>

(* With RENAME_NOREPLACE or RENAME_EXCHANGE nothing is replaced: one call. *)
RenameFlags(p, a, b) ==
  /\ a # b /\ dir[a] # None
  /\ \/ /\ MayCall(p, "noreplace", {a, b})
        /\ dir[b] = None
     \/ /\ MayCall(p, "exchange", {a, b})
        /\ dir[b] # None
  /\ dir' = [dir EXCEPT ![a] = dir[b], ![b] = dir[a]]
  /\ UNCHANGED <<mid, fin, cnt, enabled, loc, faults, crashes, torn>>

-----------------------------------------------------------------------------
(* Around the layer *)

(* bxroot_l2s_lazy_enable: a stat-like call on a link of the layer. *)
LazyEnable(p, n) ==
  /\ MayCall(p, "stat", {n})
  /\ p \notin enabled
  /\ IsFake(n)
  /\ enabled' = enabled \cup {p}
  /\ UNCHANGED <<fsVars, loc, faults, crashes, torn>>

(* A guest creates a regular file. *)
Create(p, n, d) ==
  /\ MayCall(p, "create", {n})
  /\ dir[n] = None
  /\ \A m \in Names : dir[m] # File(d)
  /\ \A c \in Chains : fin[c] # File(d)
  /\ dir' = [dir EXCEPT ![n] = File(d)]
  /\ UNCHANGED <<mid, fin, cnt, enabled, loc, faults, crashes, torn>>

(* A process is killed inside a call; the locks it holds go with it. *)
Crash(p) ==
  /\ loc[p].pc \in CrashAt
  /\ crashes < MaxCrashes
  /\ crashes' = crashes + 1
  /\ Return(p)
  /\ UNCHANGED <<fsVars, enabled, faults, torn>>

Call(p) ==
  \/ \E a, b \in Names : LinkBegin(p, a, b) \/ RenameBegin(p, a, b) \/ RenameFlags(p, a, b)
  \/ \E a \in Names : UnlinkBegin(p, a) \/ LazyEnable(p, a)
  \/ \E n \in Names, d \in Data : Create(p, n, d)

Continue(p) ==
  \/ PickGeneration(p) \/ RenameToFinal(p) \/ SymlinkMid(p) \/ SymlinkOld(p)
  \/ WriteCount(p) \/ AddLink(p) \/ SymlinkNew(p)
  \/ RollbackOld(p) \/ RollbackMid(p) \/ RollbackRename(p) \/ RollbackCount(p)
  \/ RollbackAdd(p) \/ CutUpdate(p)
  \/ DropLink(p) \/ ReclaimMid(p) \/ ReclaimFinal(p) \/ ReclaimCount(p) \/ RemoveName(p)
  \/ RenameCall(p) \/ RenameDrop(p) \/ RenameReclaim(p)

Next == \E p \in Procs : Call(p) \/ Continue(p) \/ Crash(p)

Spec == Init /\ [][Next]_vars

-----------------------------------------------------------------------------
(* Properties *)

NamesOf(c)   == {n \in Names : dir[n] = ToMid(c)}
InCall(c, S) == {p \in Procs : loc[p].c = c /\ loc[p].pc \in S}

(* Chains that a first link() has not finished building or is tearing down. *)
Building == {"sym_old", "wr_cnt", "rb_old", "rb_mid", "rb_ren", "rb_cnt"}

(* The number in .cnt is the number of guest names of the chain, off by one
   for each call that has counted a name it has not yet bound (or not counted
   down one it has replaced), and for each that has counted down the name it
   has not yet removed: l2s_rt_link, l2s_rt_unlink and the rename hooks agree
   on who owns which part of the count, whatever the interleaving. *)
Accounting ==
  \A c \in mid : InCall(c, Building) = {} =>
    cnt[c] = Cardinality(NamesOf(c))
             + Cardinality(InCall(c, {"sym_new", "rb_dec", "r_dec"}))
             - Cardinality(InCall(c, {"u_name", "u_mid"}))

(* The count never falls behind the names, so that no unlink() takes a chain
   for unused while a name still needs it; crashes may leave it too high, as
   long as none has cut an update of this very count. *)
CountCovers ==
  \A c \in mid \ torn : InCall(c, Building) = {} =>
    CountOf(c) + Cardinality(InCall(c, {"u_name", "u_mid"}))
      >= Cardinality(NamesOf(c))

(* A guest name of a chain reaches a regular file, except the name whose own
   unlink() is past the reclaim: nobody reclaims a chain that is still used,
   also after a call that failed (l2s-runtime.c:1014: else "the data file is
   deleted while there is still a reference"). *)
Reaches(n) ==
  \/ Resolve(dir[n]) \in FileObj
  \/ \E p \in Procs : loc[p].old = n /\ loc[p].pc \in {"u_mid", "u_fin", "u_cnt", "u_name"}

NoDangling == \A n \in Names : IsFake(n) => Reaches(n)

(* When no call is in progress no mid, final or .cnt outlives the last guest
   name of its chain: the reclaim and the rollbacks forget no artifact, but for
   the .cnt file that a refused write may have made. *)
NoLeak ==
  (\A p \in Procs : At(p, "idle")) =>
    \A c \in Chains :
      c \in mid \/ fin[c] # None \/ (cnt[c] # Absent /\ faults = 0) => NamesOf(c) # {}

(* A first link() moves its file to a final nobody else has data in
   (l2s_pick_generation: "pick a free generation"). *)
NothingOverwritten ==
  [][\A c \in Chains : fin[c] \in FileObj => fin'[c] \in {None, fin[c]}]_fin

(* A reclaim never takes the content that a first link() is just building a
   chain of (l2s_rt_unlink: no side "deletes another's new chain"). *)
NewChainSafe ==
  [][\A c \in Chains : fin[c] \in FileObj /\ fin'[c] = None =>
       InCall(c, {"sym_mid", "sym_old", "wr_cnt"}) = {}]_vars

(* A chain has one reclaimer at a time (l2s_rt_unlink: after the atomic
   decrement "only one side gets 0"). *)
OneReclaimer ==
  \A c \in Chains :
    Cardinality(InCall(c, {"u_mid", "u_fin", "u_cnt", "r_mid", "r_fin", "r_cnt"})) <= 1

(* Together: between any two system calls of any processes the chains, their
   counts and their names belong together. *)
Consistent == TypeOK /\ Accounting /\ NoDangling /\ NoLeak /\ OneReclaimer

(* What is left of it when a process may be killed, or unlink with its layer
   off: a count too high, never too low, and no name that leads nowhere.  Only
   a kill or a refusal between the truncation of a .cnt and its write
   (CutUpdate) undoes that, and only for the chain whose count it was. *)
CrashSafe ==
  /\ CountCovers
  /\ \A n \in Names : IsFake(n) /\ dir[n][2] \notin torn => Reaches(n)

(* The content a name stands for.  While a first link() has moved the content
   to final and not yet put the link in its place, no entry holds the name:
   the layer owes it the content.  A name whose unlink() has been counted down
   is gone, although its entry is the last thing the call removes. *)
NoData == "nodata"

DataIn(o) == IF Resolve(o) \in FileObj THEN Resolve(o)[2] ELSE NoData

CallsOn(n, S) == {p \in Procs : loc[p].old = n /\ loc[p].pc \in S}

Moved(n)   == CallsOn(n, {"sym_mid", "sym_old", "rb_mid", "rb_ren"})
Dropped(n) == CallsOn(n, {"u_mid", "u_fin", "u_cnt", "u_name"})

View ==
  [n \in Names |-> IF Dropped(n) # {} THEN NoData
                   ELSE IF Moved(n) = {} THEN DataIn(dir[n])
                   ELSE DataIn(fin[loc[CHOOSE p \in Moved(n) : TRUE].c])]

Pairs(S) == {<<loc[p].old, loc[p].new>> : p \in {q \in Procs : loc[q].pc \in S}}

HL == INSTANCE HardLinks WITH
  dir       <- View,
  linking   <- Pairs({"ren", "sym_mid", "sym_old", "wr_cnt", "inc", "sym_new"}),
  unlinking <- {pair[1] : pair \in Pairs({"u_plain", "u_dec"})},
  renaming  <- Pairs({"r_svc"})

(* Every call is one step of the POSIX directory or, when it fails, none: a
   failed link() leaves names and contents as they were, an unlink() takes its
   own name and no content another name is bound to. *)
Refinement == HL!Spec

=============================================================================
