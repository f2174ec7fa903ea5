------------------------------- MODULE Sigsys -------------------------------
(***************************************************************************)
(* SIGSYS and the guest's identity in one process, from image to image.    *)
(* The runtime needs SIGSYS for itself: a call that a filter traps while   *)
(* the signal is blocked, ignored or in other hands kills the process or   *)
(* reaches the wrong handler.  So it keeps the guest's own handler aside   *)
(* and takes SIGSYS out of the masks the guest sets, as far as it sees     *)
(* them.  A new image starts over: after a real exec with an early handler *)
(* (early_sigsys.h) and then the layer (sigsys.c), after an exec of a      *)
(* static image in place with the early handler or with the fallback.      *)
(***************************************************************************)
EXTENDS SvcTraps

CONSTANTS
  Ranges,      (* where static images are loaded, [lo, hi]                  *)
  Away,        (* where other images are                                    *)
  Hosts,       (* fakeroot on or off: subset of BOOLEAN                     *)
  Handlers,    (* what the guest sets: subset of {"dfl", "ign", "fn"}       *)
  Args,        (* numbers that the guest passes to setters                  *)
  MaxFrames,   (* bound: handlers of the guest inside one another           *)
  MaxChanges   (* bound: images after the first and changes of identity     *)

ASSUME SigsysAssumption ==
  /\ \A r \in Ranges \cup {Away} : r \in [lo : Nat, hi : Nat] /\ r.lo < r.hi
  /\ Hosts \subseteq BOOLEAN /\ Handlers \subseteq {"dfl", "ign", "fn"}
  /\ Args \subseteq Ids
  /\ MaxFrames \in Nat /\ MaxChanges \in Nat

VARIABLES
  image,       (* [kind, fallback, at]                                      *)
  mapped,      (* ranges of static images that were not unmapped            *)
  filters,     (* ranges whose filter was installed: never taken off        *)
  disp,        (* what SIGSYS leads to                                      *)
  blocked,     (* SIGSYS is in the mask                                     *)
  own,         (* g_guest_sa: the guest's handler, kept by the layer        *)
  shadow,      (* sfb_guest_sa: the same, kept by the fallback              *)
  asked,       (* history: the handler that this image asked for            *)
  usr,         (* the guest's handler of another signal                     *)
  frames,      (* the guest's handlers that run, innermost last             *)
  raw,         (* history: SIGSYS was changed behind the runtime's back     *)
  fate,        (* "up", "died" by the guest's wish, "killed", "misled"      *)
  ids,         (* the identity that fakeroot shows                          *)
  changes      (* history: images and identities so far                     *)

sigVars == <<disp, blocked, own, shadow, asked, usr, frames, raw>>
imageVars == <<image, mapped, filters>>
vars == <<imageVars, sigVars, fate, ids, changes>>

Traps == [image |-> image, filters |-> filters, disp |-> disp,
          blocked |-> blocked, on |-> ids.on]

Up == fate = "up"
Dynamic == image.kind = "dynamic"
Static == image.kind = "static"
Unhandled == <<>>

InitialImage == [kind |-> "starting", fallback |-> FALSE, at |-> Away]
Init ==
  /\ image = InitialImage /\ mapped = {} /\ filters = {}
  /\ disp = "early" /\ blocked = FALSE /\ raw = FALSE
  /\ own = "unset" /\ shadow = "unset" /\ asked = "unset"
  /\ usr = "none" /\ frames = Unhandled
  /\ fate = "up"
  /\ ids \in {Fresh(on) : on \in Hosts} /\ changes = 0

-----------------------------------------------------------------------------
(* Images.                                                                 *)

(* A real exec.  The kernel keeps the mask and the filters; the loader's   *)
(* entry installs the early handler.                                       *)
Exec ==
  /\ Up /\ image.kind # "starting" /\ changes < MaxChanges
  /\ \E at \in Ranges \cup {Away} :
       image' = [kind |-> "starting", fallback |-> FALSE, at |-> at]
  /\ changes' = changes + 1
  /\ mapped' = {} /\ disp' = "early"
  /\ raw' = blocked
  /\ own' = "unset" /\ shadow' = "unset" /\ asked' = "unset"
  /\ usr' = "none" /\ frames' = Unhandled
  /\ ids' = Fresh(ids.on)
  /\ UNCHANGED <<filters, blocked, fate>>

(* bxroot_sigsys_install, in the constructor of the runtime.               *)
Install ==
  /\ Up /\ image.kind = "starting"
  /\ image' = [image EXCEPT !.kind = "dynamic"]
  /\ disp' = "layer" /\ blocked' = FALSE /\ raw' = FALSE
  /\ UNCHANGED <<mapped, filters, own, shadow, asked, usr, frames, fate,
                 ids, changes>>

Overlap(r, s) == r.lo < s.hi /\ s.lo < r.hi

(* Only the image that runs may be torn down for the next one.             *)
Loadable(r) ==
  \A m \in mapped : Overlap(m, r) => Static /\ m = image.at
Mapped(r) == {m \in mapped : ~Overlap(m, r)} \cup {r}

(* Seeded fault: the handler of the image before is kept. *)
ShadowKept(fallback) == shadow
ShadowAfter(fallback) == IF fallback THEN "unset" ELSE shadow

(* px_static_exec and sx_reset_process_state.  The filter may be refused:  *)
(* the image runs all the same.                                            *)
StaticExec(r, fallback) ==
  /\ Up /\ (Dynamic \/ Static) /\ changes < MaxChanges /\ Loadable(r)
  /\ changes' = changes + 1
  /\ image' = [kind |-> "static", fallback |-> fallback, at |-> r]
  /\ mapped' = Mapped(r)
  /\ IF fallback THEN filters' \in {filters, filters \cup {r}}
     ELSE filters' = filters
  /\ disp' = IF fallback THEN "fallback" ELSE "early"
  /\ blocked' = FALSE /\ raw' = FALSE
  /\ shadow' = ShadowAfter(fallback) /\ asked' = "unset"
  /\ usr' = "none" /\ frames' = Unhandled
  /\ UNCHANGED <<own, fate, ids>>

-----------------------------------------------------------------------------
(* The guest asks for a handler of SIGSYS.                                 *)

(* sigaction and signal of libc.                                           *)
AskByLibc(h) ==
  /\ Up /\ Dynamic
  /\ own' = h /\ asked' = h
  /\ UNCHANGED <<imageVars, disp, blocked, shadow, usr, frames, raw, fate, ids, changes>>

RealDisp(h) == IF h = "fn" THEN "guest" ELSE h

(* rt_sigaction by a svc: the kernel's, the fallback's or refused.         *)
AskBySvc(h) ==
  /\ Up /\ (Dynamic \/ Static)
  /\ \E ip \in Addresses(Traps) :
       LET out == Svc(Traps, "sigaction", ip) IN
       /\ out \in {"kernel", "shadow"}
       /\ asked' = h
       /\ IF out = "shadow" THEN shadow' = h /\ UNCHANGED <<disp, raw>>
          ELSE disp' = RealDisp(h) /\ raw' = TRUE /\ UNCHANGED shadow
  /\ UNCHANGED <<imageVars, blocked, own, usr, frames, fate, ids, changes>>

(* syscall(SYS_rt_sigaction): the guard has nothing to say about it.       *)
AskByGuard(h) ==
  /\ Up /\ Dynamic
  /\ asked' = h /\ disp' = RealDisp(h) /\ raw' = TRUE
  /\ UNCHANGED <<imageVars, blocked, own, shadow, usr, frames, fate, ids, changes>>

-----------------------------------------------------------------------------
(* The guest sets a mask, with SIGSYS in the set or not.                   *)

MaskAfter(how, has) ==
  CASE how = "setmask" -> has
    [] how = "block" -> blocked \/ has
    [] how = "unblock" -> blocked /\ ~has

(* Seeded fault: only SIG_BLOCK is looked at. *)
StrippedBlockOnly(how, has) == has /\ how # "block"
(* sigsys_strip and sigsys_strip_raw.                                      *)
Stripped(how, has) == has /\ how = "unblock"

(* sigprocmask and pthread_sigmask of libc, rt_sigprocmask by syscall().   *)
MaskByLibc(how, has) ==
  /\ Up /\ Dynamic
  /\ blocked' = MaskAfter(how, Stripped(how, has))
  /\ UNCHANGED <<imageVars, disp, own, shadow, asked, usr, frames, raw, fate, ids, changes>>

MaskBySvc(how, has) ==
  /\ Up /\ (Dynamic \/ Static)
  /\ \E ip \in Addresses(Traps) :
       LET out == Svc(Traps, "sigmask", ip) IN
       /\ out \in {"kernel", "masked"}
       /\ blocked' = (out = "kernel" /\ MaskAfter(how, has))
       /\ raw' = (raw \/ (out = "kernel" /\ has /\ how # "unblock"))
  /\ UNCHANGED <<imageVars, disp, own, shadow, asked, usr, frames, fate, ids, changes>>

-----------------------------------------------------------------------------
(* Handlers of the guest.                                                  *)

(* A handler of another signal; full: SIGSYS is in its sa_mask.            *)
UsrMask(out, full) == IF full /\ out # "shadow" THEN "full" ELSE "plain"

Handle(full) ==
  /\ Up /\ (Dynamic \/ Static)
  /\ \/ Dynamic /\ usr' = UsrMask("libc", full)
     \/ \E ip \in Addresses(Traps) :
          LET out == Svc(Traps, "sigaction", ip) IN
          out \in {"kernel", "shadow"} /\ usr' = UsrMask(out, full)
  /\ UNCHANGED <<imageVars, disp, blocked, own, shadow, asked, frames, raw, fate, ids, changes>>

Frame(what, masks) == [what |-> what, saved |-> blocked, masks |-> masks]

Enter(what, masks) ==
  /\ Len(frames) < MaxFrames
  /\ frames' = Append(frames, Frame(what, masks))
  /\ blocked' = (blocked \/ masks)

Interrupted ==
  /\ Up /\ usr # "none" /\ ~\E i \in DOMAIN frames : frames[i].what = "usr"
  /\ Enter("usr", usr = "full")
  /\ UNCHANGED <<imageVars, disp, own, shadow, asked, usr, raw, fate, ids, changes>>

(* SIGSYS from another process: guest_sigsys_dispatch, sfb_forward_guest.  *)
(* The layer's handler runs with SIGSYS blocked, the fallback's does not.  *)
SentSigsys ==
  /\ Up /\ ~blocked
  /\ \/ disp = "layer" /\ own = "fn" /\ Enter("own", TRUE) /\ fate' = fate
     \/ disp = "fallback" /\ shadow = "fn" /\ Enter("own", FALSE) /\ fate' = fate
     \/ disp = "guest" /\ Enter("own", TRUE) /\ fate' = fate
     \/ /\ disp = "dfl" \/ (disp = "layer" /\ own = "dfl")
        /\ fate' = "died" /\ UNCHANGED <<frames, blocked>>
  /\ UNCHANGED <<imageVars, disp, own, shadow, asked, usr, raw, ids, changes>>

Return ==
  /\ Up /\ frames # Unhandled
  /\ blocked' = frames[Len(frames)].saved
  /\ frames' = SubSeq(frames, 1, Len(frames) - 1)
  /\ UNCHANGED <<imageVars, disp, own, shadow, asked, usr, raw, fate, ids, changes>>

-----------------------------------------------------------------------------
(* Calls.                                                                  *)

(* A call that ends badly.                                                 *)
Call(call) ==
  /\ Up
  /\ \E out \in Outcomes(Traps, call) :
       \/ out = "killed" /\ fate' = "killed"
       \/ out = "guest" /\ fate' = "misled"
  /\ UNCHANGED <<imageVars, sigVars, ids, changes>>

(* The identity after a setter that the kernel is given.                   *)
SvcIds(call) ==
  LET out == Svc(Traps, "setid", RuntimeIp)
  IN CASE out = "emulated" -> Emulated(ids, call)
       [] out = "kernel" -> ByKernel(ids)
       [] OTHER -> Refused(ids, out)

Answers(call) ==
  (IF Dynamic THEN {ByLibc(ids, call)} ELSE {})
  \cup IF call.op \notin KernelSetters THEN {}
       ELSE {SvcIds(call)}
            \cup IF Dynamic THEN {ByGuard(ids, call, SvcIds(call))} ELSE {}

IdCalls ==
  LET Made(ops, args) == {[op |-> o, args |-> a] : o \in ops, a \in args}
      Or == Args \cup {Unset}
  IN Made({"setuid", "setgid", "setfsuid", "setfsgid", "seteuid", "setegid"},
          {<<u>> : u \in Args})
     \cup Made({"setreuid", "setregid"}, Or \X Or)
     \cup Made({"setresuid", "setresgid"}, Or \X Or \X Or)
     \cup Made({"setgroups"},
               {<<n, g>> : n \in {0, MaxGroups + 1}, g \in {<<>>, [k \in 1 .. MaxGroups + 1 |-> 0]}}
               \cup {<<1, <<u>>>> : u \in Args} \cup {<<1, <<>>>>}
               \cup {<<MaxGroups, [k \in 1 .. MaxGroups |-> u]>> : u \in Args})

SetIds ==
  /\ Up /\ (Dynamic \/ Static) /\ changes < MaxChanges
  /\ \E call \in IdCalls : \E a \in Answers(call) :
       a.ids # ids /\ ids' = a.ids
  /\ changes' = changes + 1
  /\ UNCHANGED <<imageVars, sigVars, fate>>

Next ==
  \/ Exec \/ Install
  \/ \E r \in Ranges, fallback \in BOOLEAN : StaticExec(r, fallback)
  \/ \E h \in Handlers : AskByLibc(h) \/ AskBySvc(h) \/ AskByGuard(h)
  \/ \E how \in {"block", "unblock", "setmask"}, has \in BOOLEAN :
       MaskByLibc(how, has) \/ MaskBySvc(how, has)
  \/ \E full \in BOOLEAN : Handle(full)
  \/ Interrupted \/ SentSigsys \/ Return
  \/ \E call \in Calls : Call(call)
  \/ SetIds

Spec == Init /\ [][Next]_vars

-----------------------------------------------------------------------------
TypeOK ==
  /\ image.kind \in {"starting", "dynamic", "static"}
  /\ image.fallback \in BOOLEAN /\ image.at \in Ranges \cup {Away}
  /\ mapped \cup filters \subseteq Ranges
  /\ \A r, s \in mapped : r # s => ~Overlap(r, s)
  /\ Static => image.at \in mapped
  /\ disp \in {"early", "layer", "fallback", "guest", "dfl", "ign"}
  /\ {own, shadow, asked} \subseteq Handlers \cup {"unset"}
  /\ usr \in {"none", "plain", "full"} /\ Len(frames) <= MaxFrames
  /\ fate \in {"up", "died", "killed", "misled"}
  /\ blocked \in BOOLEAN /\ raw \in BOOLEAN
  /\ changes \in 0 .. MaxChanges
  /\ \A q \in {ids.uid, ids.gid} : {q.r, q.e, q.s, q.f} \subseteq Ids
  /\ Len(ids.groups) <= MaxGroups

(* The image was made under a filter of its own that holds.                *)
Protected == Static /\ image.fallback /\ image.at \in filters

(* SIGSYS stays open and in the runtime's hands, so that no trapped call   *)
(* kills the process or ends in a handler of the guest - unless the guest  *)
(* went to the kernel behind the runtime's back, or it is in a handler     *)
(* whose own mask has SIGSYS (sigsys.c:813 does not look at sa_mask).  In  *)
(* an image under the fallback neither excuses it (seccomp_fallback.c:190).*)
TrapsAnswered ==
  LET safe == /\ fate \notin {"killed", "misled"} /\ ~blocked
              /\ disp \in {"early", "layer", "fallback"}
  IN \/ safe
     \/ ~Protected /\ (raw \/ \E i \in DOMAIN frames : frames[i].masks)

(* Together with the types, and with the ranges of images that are still   *)
(* mapped: no two overlap, so the next image tears down only the last one. *)
TrapsSound == TypeOK /\ TrapsAnswered

(* The guest is shown the SIGSYS handler that this image asked for, and    *)
(* no other: not the runtime's, not one of an image before                 *)
(* (sigsys.c:787, seccomp_fallback.c:296).                                 *)
OwnHandler ==
  /\ Dynamic /\ ~raw => own = asked
  /\ Protected => shadow = asked

(* Under the fallback no call of the image slips by: every svc of it that  *)
(* takes a path is translated or refused, wherever in the range it is, the *)
(* calls about signals are seen, and code outside of the ranges is never   *)
(* trapped, the runtime's least of all (seccomp_fallback.c:100).           *)
NothingSlipsBy ==
  /\ Protected /\ Up => \A ip \in Addresses(Traps) :
       /\ Svc(Traps, "path", ip) = "translated"
       /\ Svc(Traps, "access2", ip) \in {"translated", "ENOSYS"}
       /\ Svc(Traps, "shm", ip) = "emulated"
       /\ Svc(Traps, "sigaction", ip) = "shadow"
       /\ Svc(Traps, "sigmask", ip) = "masked"
       /\ \A call \in Rewritten : SeenSvc(Traps, call, ip) = Svc(Traps, call, ip)
  /\ \A ip \in RuntimeIp .. Away.hi :
       (\A r \in filters : ip \notin r.lo .. r.hi - 1) => ~Caught(Traps, "path", ip)
=============================================================================
