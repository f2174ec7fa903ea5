----------------------------- MODULE MCExecChain -----------------------------
(* An instance of ExecChain for TLC: two programs, a static one, a link to *)
(* each program, scripts one and two interpreters deep, two that name a    *)
(* link and one that names itself.  The host has one program of that name. *)
EXTENDS ExecChain

CONSTANTS sh, app, st, ln, lns, scr, scr2, scrl, scrs, loop, ldr, lib, mounts, away

AllFiles == {sh, app, st, ln, lns, scr, scr2, scrl, scrs, loop}
Kinds ==
  (sh :> "dyn") @@ (app :> "dyn") @@ (st :> "static") @@ (ln :> "link") @@ (lns :> "link")
  @@ (scr :> "script") @@ (scr2 :> "script") @@ (scrl :> "script")
  @@ (scrs :> "script") @@ (loop :> "script")
Interps ==
  (ln :> app) @@ (scr :> sh) @@ (scr2 :> scr) @@ (scrl :> ln) @@ (lns :> sh) @@ (scrs :> lns) @@ (loop :> loop)
Shared == {sh}
Commands == {scrl}
ByCalls == AllFiles \ {scr, lns}
Mounts == <<mounts>>
Assigned ==
  {<<"LD_PRELOAD", <<lib>>>>, <<"BXROOT_ROOTFS", <<away>>>>,
   <<"BXROOT_NO_AUTORUN", <<"1">>>>}
=============================================================================
