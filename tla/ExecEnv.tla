------------------------------- MODULE ExecEnv -------------------------------
(***************************************************************************)
(* The environment that carries the runtime from one process image to the  *)
(* next: what the libc hooks let a program change (preload.c), what every  *)
(* exec writes into the new environment, and what the new image reads out  *)
(* of it (proc.c).  A value is the sequence of the words in it; unset and  *)
(* empty are the same here.  Names that travel alike are one name:         *)
(* BXROOT_ROOTFS stands for PROROOT_ROOTFS too, and BXROOT_BINDS for       *)
(* BXROOT_FAKEROOT, BXROOT_LINK2SYMLINK and BXROOT_L2S_DIR.                *)
(***************************************************************************)
EXTENDS Naturals, Sequences, SequencesExt

CONSTANTS
  Runtime,     (* the runtime library                                       *)
  Root,        (* the container's rootfs, as the launcher was given it      *)
  Ulx, Ldso    (* the trampoline, and the dynamic linker in that rootfs     *)

Unset == <<>>

Critical ==
  {"LD_PRELOAD", "BXROOT_ROOTFS", "BXROOT_BINDS", "BXROOT_KILL_ON_EXIT"}
Tramp == {"BXROOT_ULX_PATH", "BXROOT_ULX_LDSO"}
Names ==
  Critical \cup Tramp \cup
  {"BXROOT_LD_PRELOAD", "BXROOT_GUEST_EXE", "BXROOT_ORIG_COMM",
   "BXROOT_NO_AUTORUN"}

Nothing == [n \in Names |-> Unset]

-----------------------------------------------------------------------------
(* The hooks of setenv, unsetenv, putenv and clearenv.                     *)

Kept(saved) == {n \in DOMAIN saved : saved[n] # Unset}
Reinjected(saved, e) == [n \in Names |-> IF n \in Kept(saved) THEN saved[n] ELSE e[n]]

AfterSetenv(saved, e, n, v) ==
  [e EXCEPT ![n] = IF n \in Kept(saved) THEN saved[n] ELSE v]
AfterUnsetenv(saved, e, n) ==
  LET f == [e EXCEPT ![n] = Unset]
  IN IF n \in Critical THEN Reinjected(saved, f) ELSE f
AfterPutenv(saved, e, n, v) == Reinjected(saved, [e EXCEPT ![n] = v])
AfterClearenv(saved) == Reinjected(saved, Nothing)

-----------------------------------------------------------------------------
(* The words of a list but one. *)
Without(words, w) ==
  LET Rest[n \in 0 .. Len(words)] ==
        IF n = 0 THEN <<>>
        ELSE IF words[n] = w THEN Rest[n - 1] ELSE Append(Rest[n - 1], words[n])
  IN Rest[Len(words)]

(* px_merge_preload: the base first, then the words of the other list that *)
(* are not its last one.  (The code compares a word with the whole base    *)
(* and with what follows its last slash.)                                  *)
MergedKept(existing, base) ==                  (* Seeded fault: only a default *)
  IF existing = <<>> THEN base ELSE existing
Merged(existing, base) ==
  IF existing = <<>> \/ base = <<>> THEN base
  ELSE base \o Without(existing, Last(base))

(* px_build_forced: what this image knows overrides what the caller gives. *)
TrampValue(cfg, e, n) == IF e[n] # Unset THEN e[n] ELSE cfg.cache[n]
PassedNone(exe) == Unset                       (* Seeded fault: no name passed on *)
Passed(exe) == IF Len(exe) = 1 THEN exe ELSE Unset
Forced(cfg, e, given, exe, comm) ==
  [n \in Names |->
     CASE n \in Tramp               -> TrampValue(cfg, e, n)
       [] n = "LD_PRELOAD"          -> Merged(given[n], cfg.preload)
       [] n = "BXROOT_LD_PRELOAD"   -> cfg.preload
       [] n = "BXROOT_ROOTFS"       -> cfg.rootfs
       [] n = "BXROOT_KILL_ON_EXIT" -> IF cfg.armed THEN <<"1">> ELSE Unset
       [] n = "BXROOT_GUEST_EXE"    -> Passed(exe)
       [] n = "BXROOT_ORIG_COMM"    -> comm
       [] OTHER                     -> Unset]

(* A caller's entry of a forced name is left out; the forced ones follow.  *)
Over(f, g) == [n \in Names |-> IF f[n] # Unset THEN f[n] ELSE g[n]]
CallersWin(cfg, e, given, exe, comm) ==        (* Seeded fault: the caller's wins *)
  Over(given, Forced(cfg, e, given, exe, comm))
Built(cfg, e, given, exe, comm) == Over(Forced(cfg, e, given, exe, comm), given)

(* Only the cache knew it: the caller's own environment gets it back.      *)
WrittenBack(cfg, e) ==
  [n \in Names |-> IF n \in Tramp THEN TrampValue(cfg, e, n) ELSE e[n]]

-----------------------------------------------------------------------------
(* What a new image reads: px_tramp_cfg_cache, px_runtime_init,            *)
(* px_cfg_merge_preload and the arming of kill-on-exit.                    *)
CacheFrom(e) ==
  [n \in Tramp |->
     IF e[n] # Unset THEN e[n]
     ELSE IF n = "BXROOT_ULX_PATH" THEN <<Ulx>>
     ELSE IF e["BXROOT_ROOTFS"] = <<Root>> THEN <<Ldso>> ELSE Unset]

ConfigFrom(e) ==
  [preload |-> Merged(e["LD_PRELOAD"], <<Runtime>>),
   rootfs  |-> e["BXROOT_ROOTFS"],
   cache   |-> CacheFrom(e),
   armed   |-> e["BXROOT_KILL_ON_EXIT"] # Unset]
Announced(e) == [e EXCEPT !["BXROOT_LD_PRELOAD"] = <<Runtime>>]
Captured(e) == [n \in Critical |-> e[n]]

(* Both halves of the trampoline, from the cache or still to be found.     *)
Cache(cfg, e) ==
  [n \in Tramp |-> IF cfg.cache[n] # Unset THEN cfg.cache[n] ELSE CacheFrom(e)[n]]
HasTramp(cfg, e) == \A n \in Tramp : Cache(cfg, e)[n] # Unset

(* Where absolute names lead: to the host's files when the constructor of  *)
(* preload.c returned at once, to the rootfs compiled in when none is set. *)
Sight(e) ==
  IF e["BXROOT_NO_AUTORUN"] # Unset THEN "host"
  ELSE IF e["BXROOT_ROOTFS"] = Unset THEN "default" ELSE "guest"
=============================================================================
