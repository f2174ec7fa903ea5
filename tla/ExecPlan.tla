------------------------------ MODULE ExecPlan ------------------------------
(***************************************************************************)
(* What an exec or spawn hook (proc.c) makes of the name it is given: the  *)
(* file to run, the operands a chain of interpreters adds, and the two     *)
(* names under which the new image will know itself.                       *)
(*                                                                         *)
(* A name is a sequence: <<f>> the absolute path of f, <<"./", f>> a       *)
(* relative one, <<"?", f>> a bare one that is searched for.  A link is a  *)
(* symbolic link with an absolute target: the kernel, which knows no       *)
(* rootfs, follows it to the host's file of that name.                     *)
(***************************************************************************)
EXTENDS ExecEnv

CONSTANTS
  Files,       (* the files of the container that calls name                *)
  Kind,        (* dyn, static, script, bad, data, link or none, of each     *)
  Interp,      (* the interpreter a script names, the target of a link      *)
  Shell,       (* what system() runs                                        *)
  Loader,      (* the trampoline's own file, behind /proc/self/exe          *)
  HostFiles    (* names that mean a program on the host as well             *)

ASSUME PlanAssumption ==
  /\ Kind \in [Files -> {"dyn", "static", "script", "bad", "data", "link", "none"}]
  /\ \A f \in Files : Kind[f] \in {"link", "script"} => Interp[f] \in Files
  /\ Shell \in Files /\ Kind[Shell] = "dyn"
  /\ {Loader, "?", "/proc/self/exe"} \cap Files = {}

Runnable == {"dyn", "static", "script", "bad"}
Abs(f) == <<f>>
IsAbsolute(name) == Len(name) = 1
File(name) == Last(name)
KindOf(f) == IF f = Loader THEN "loader" ELSE Kind[f]

(* px_resolve_abs_symlink: up to eight links with absolute targets.        *)
Follow(f) == IF KindOf(f) = "link" THEN Interp[f] ELSE f
FollowTwice(f) == Follow(Follow(f))
Landing(f) == FollowTwice(FollowTwice(FollowTwice(FollowTwice(f))))

(* px_rewrite_shebang: the interpreter takes the script's place, under the *)
(* name the script gives it, and gets the script's name as an operand.     *)
Shebang(p) ==
  IF KindOf(p.file) # "script" THEN p
  ELSE [file |-> Interp[p.file], name |-> Abs(Interp[p.file]),
        args |-> <<p.name>> \o p.args]

(* px_rewrite_shebang_chain: four interpreters deep, a fifth is ELOOP.     *)
Chain(p) == Shebang(Shebang(Shebang(Shebang(p))))
ChainError(p) ==
  CASE KindOf(p.file) = "script" -> "ELOOP"
    [] KindOf(p.file) = "bad"    -> "ENOEXEC"
    [] OTHER                     -> "OK"

(* px_exec_proc_exe_alias                                                  *)
SelfExe == <<"/proc/self/exe">>
Alias(e) ==
  IF IsAbsolute(e["BXROOT_GUEST_EXE"]) THEN e["BXROOT_GUEST_EXE"] ELSE SelfExe

(* What is left a link is the host's program of that name, if it has one.  *)
Astray(f) == KindOf(f) = "link" /\ Interp[f] \in HostFiles

(* px_resolve_exec_path: the directories of PATH, by access(X_OK).         *)
Found(f) == Kind[Landing(f)] \in Runnable \/ Astray(Landing(f))

-----------------------------------------------------------------------------
(* px_do_execve.  The caller's name, then the file it leads to, then the   *)
(* interpreter: the last is what the image will call itself, the first     *)
(* what the kernel will call it.                                           *)
Named(name) == [file |-> File(name), name |-> name]
NotFollowed(p) == p                            (* Seeded fault: links are left *)
Resolved(p) ==
  IF Landing(p.file) = p.file THEN p
  ELSE [file |-> Landing(p.file), name |-> Abs(Landing(p.file))]

StaleExec(name) ==                             (* Seeded fault: before the links *)
  LET raw  == IF name = SelfExe THEN [file |-> Loader, name |-> name] ELSE Named(name)
      to   == Resolved(raw)
      last == Chain([file |-> to.file, name |-> raw.name, args |-> <<>>])
  IN [err |-> ChainError(last), file |-> last.file, args |-> last.args,
      exe |-> last.name, comm |-> raw.name]
ExecPlan(name) ==
  LET raw  == IF name = SelfExe THEN [file |-> Loader, name |-> name] ELSE Named(name)
      to   == Resolved(raw)
      last == Chain([file |-> to.file, name |-> to.name, args |-> <<>>])
  IN [err |-> ChainError(last), file |-> last.file, args |-> last.args,
      exe |-> last.name, comm |-> raw.name]

(* The name with which execvp and execve start.                            *)
ExecName(form, f, e) ==
  CASE form = "abs"  -> Abs(f)
    [] form = "rel"  -> <<"./", f>>
    [] form = "bare" -> Abs(f)
    [] form = "fd"   -> Abs(Landing(f))
    [] form = "exe"  -> Alias(e)

(* px_do_spawn: links are followed for the file and never for a name, and  *)
(* the image is named as the caller named it.                              *)
SpawnName(form, f, e) == IF form = "bare" THEN <<"?", f>> ELSE ExecName(form, f, e)
SpawnPlan(name) ==
  LET f    == IF name = SelfExe THEN Loader ELSE Landing(File(name))
      last == Chain([file |-> f, name |-> name, args |-> <<>>])
  IN [err |-> ChainError(last), file |-> last.file, args |-> last.args,
      exe |-> IF IsAbsolute(name) THEN name ELSE Unset, comm |-> name]

(* px_system_via_guest: neither name is given.                             *)
SystemPlan ==
  [err |-> "OK", file |-> Shell, args |-> <<>>, exe |-> Unset, comm |-> Unset]
=============================================================================
