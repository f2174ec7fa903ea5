------------------------------ MODULE SvcTraps ------------------------------
(***************************************************************************)
(* What becomes of a system call that no libc hook sees, in a given image  *)
(* and a given state of SIGSYS: the guard of syscall() (syscall_guard.c),  *)
(* the rewritten and the unwritten svc instructions of an image            *)
(* (static_exec.c), the filter of the seccomp fallback                     *)
(* (seccomp_fallback.c), the host's own filter, and the handlers that      *)
(* answer what a filter traps (sigsys.c, early_sigsys.h).                  *)
(*                                                                         *)
(* A state t of the traps: the image [kind, fallback, at], the filters     *)
(* that the process carries (address ranges), what SIGSYS leads to         *)
(* (t.disp), whether it is blocked, and whether fakeroot is on.            *)
(***************************************************************************)
EXTENDS FakeIds

CONSTANTS
  Word,        (* addresses are compared as two words of this base          *)
  OuterTraps   (* the calls that the host's filter traps                    *)

(* Calls about files are the host's own: its filter lets them pass.        *)
ASSUME TrapAssumption == Word \in Nat \ {0} /\ "path" \notin OuterTraps

-----------------------------------------------------------------------------
(* The program that sfb_build writes: words are compared, high one first.  *)

HiWord(a) == a \div Word
LoWord(a) == a % Word

FromLow(ip, lo) ==
  HiWord(ip) > HiWord(lo) \/ (HiWord(ip) = HiWord(lo) /\ LoWord(ip) >= LoWord(lo))
(* Seeded fault: the low words alone decide. *)
BelowHighLoose(ip, hi) == LoWord(ip) < LoWord(hi)
BelowHigh(ip, hi) ==
  /\ HiWord(ip) <= HiWord(hi)
  /\ HiWord(ip) # HiWord(hi) \/ LoWord(ip) < LoWord(hi)
InFilter(r, ip) == FromLow(ip, r.lo) /\ BelowHigh(ip, r.hi)

(* sfb_nrs, by kind of call.                                               *)
FilterCalls == {"path", "access2", "sigaction", "sigmask", "shm"}

(* Kinds of calls, and the ones whose svc the load-time scan rewrites      *)
(* (sx_wants_site).                                                        *)
Calls == {"path", "access2", "sigaction", "sigmask", "shm", "setid", "accept",
          "other"}
Rewritten == {"path", "access2", "shm"}

RuntimeIp == 0   (* code of the runtime is outside of every filter's range  *)

Caught(t, call, ip) == call \in FilterCalls /\ \E r \in t.filters : InFilter(r, ip)
Trapped(t, call, ip) == Caught(t, call, ip) \/ call \in OuterTraps

-----------------------------------------------------------------------------
(* The handlers' answers.                                                  *)

(* sigsys_handler.                                                         *)
ByLayer(t, call) ==
  CASE call \in {"access2", "accept"} -> "replayed"
    [] call = "setid" /\ t.on -> "emulated"
    [] call = "shm" -> "emulated"
    [] OTHER -> "ENOSYS"

(* bx_early_sigsys, and sx_early_sigsys of static images.                  *)
ByEarly(t, call) ==
  IF t.image.kind = "static" /\ call = "shm" THEN "emulated" ELSE "ENOSYS"

Deadly(t, masked) == t.blocked \/ masked \/ t.disp \in {"dfl", "ign"}

(* A call of the runtime itself; masked: inside of a handler that has      *)
(* SIGSYS in its mask.                                                     *)
Own(t, call, masked) ==
  IF call \notin OuterTraps THEN "kernel"
  ELSE IF Deadly(t, masked) THEN "killed"
  ELSE CASE t.disp = "layer" -> ByLayer(t, call)
         [] t.disp = "guest" -> "guest"
         [] OTHER -> ByEarly(t, call)

(* px_static_dispatch.                                                     *)
Dispatch(t, call, masked) ==
  LET own == Own(t, call, masked)
  IN CASE call = "shm" -> "emulated"
       [] call \in {"path", "access2"} /\ own = "kernel" -> "translated"
       [] OTHER -> own

(* sfb_handler on a trap of its own filter; SA_NODEFER leaves SIGSYS open. *)
NoDefer == TRUE
ByFallback(t, call) ==
  CASE call = "sigaction" -> "shadow"
    [] call = "sigmask" -> "masked"
    [] OTHER -> Dispatch(t, call, ~NoDefer)

(* The kernel takes a svc at ip.                                           *)
Svc(t, call, ip) ==
  IF ~Trapped(t, call, ip) THEN "kernel"
  ELSE IF Deadly(t, FALSE) THEN "killed"
  ELSE CASE t.disp = "layer" -> ByLayer(t, call)
         [] t.disp = "guest" -> "guest"
         [] t.disp = "fallback" /\ Caught(t, call, ip) -> ByFallback(t, call)
         [] OTHER -> ByEarly(t, call)

(* An instruction whose number the scan could read goes to the trampoline. *)
SeenSvc(t, call, ip) ==
  IF call \in Rewritten THEN Dispatch(t, call, FALSE) ELSE Svc(t, call, ip)

(* libc's syscall().                                                       *)
GuardCall(t, call) ==
  LET own == Own(t, call, FALSE)
  IN IF call \in {"path", "access2"} /\ own = "kernel" THEN "translated" ELSE own

(* All that a call of this kind can come to in the image.                  *)
Addresses(t) == t.image.at.lo .. t.image.at.hi - 1

Outcomes(t, call) ==
  (UNION {{Svc(t, call, ip), SeenSvc(t, call, ip)} : ip \in Addresses(t)})
  \cup IF t.image.kind = "dynamic" THEN {GuardCall(t, call)} ELSE {}
=============================================================================
