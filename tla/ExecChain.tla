------------------------------ MODULE ExecChain ------------------------------
(***************************************************************************)
(* A line of process images: the one the launcher starts, then what each   *)
(* starts by exec, or by spawn when it is the child that is followed.      *)
(* Everything an image knows it has read from its environment, except a    *)
(* static one: that is put into the process of the image that started it,  *)
(* whose runtime, configuration and environment stay (static_exec.c).      *)
(***************************************************************************)
EXTENDS ExecPlan, FiniteSets

CONSTANTS
  First,       (* what the launcher may be asked to start                   *)
  Called,      (* bound: what calls name                                    *)
  Binds,       (* the value of BXROOT_BINDS at the start                    *)
  Given,       (* what programs assign: pairs of a name and a value         *)
  MaxStarts,   (* bound: images started after the first                     *)
  MaxEdits     (* bound: environments changed by a program, given to a call *)
               (* in place of the program's own, or refused an allocation   *)

(* The launcher's trampoline and kill-on-exit are no program's to set:     *)
(* setenv does not defend what the launcher left unset.                    *)
ASSUME ChainAssumption ==
  /\ First \subseteq Files /\ Called \subseteq Files /\ MaxStarts \in Nat /\ MaxEdits \in Nat
  /\ Binds \in Seq(ToSet(Binds)) /\ Binds # Unset
  /\ \A g \in Given :
       /\ g[1] \in Names \ (Tramp \cup {"BXROOT_KILL_ON_EXIT"})
       /\ g[2] \in Seq(ToSet(g[2]))
       /\ g[1] = "BXROOT_GUEST_EXE" /\ IsAbsolute(g[2]) => File(g[2]) \in Files

VARIABLES
  start,       (* what never changes: does the kernel run files of the      *)
               (* container itself, and was --kill-on-exit given            *)
  img,         (* the image, with the configuration of its runtime          *)
  env,         (* the environment the runtime's getenv sees                 *)
  own,         (* the environment the program sees; another one if static   *)
  last,        (* the call that started this image                          *)
  refused,     (* programs it asked for and did not get                     *)
  lapses,      (* what went wrong or was asked for on the way here          *)
  starts, edits

vars == <<start, img, env, own, last, refused, lapses, starts, edits>>

Launched(f, kill, ulx) ==
  [n \in Names |->
     CASE n = "LD_PRELOAD"                       -> <<Runtime>>
       [] n = "BXROOT_ROOTFS"                    -> <<Root>>
       [] n = "BXROOT_BINDS"                     -> Binds
       [] n = "BXROOT_KILL_ON_EXIT" /\ kill      -> <<"1">>
       [] n = "BXROOT_ULX_PATH" /\ ulx           -> <<Ulx>>
       [] n = "BXROOT_ULX_LDSO" /\ ulx           -> <<Ldso>>
       [] n \in {"BXROOT_GUEST_EXE", "BXROOT_ORIG_COMM"} -> Abs(f)
       [] OTHER                                  -> Unset]

(* The constructors of preload.c and proc.c in a new image.                *)
Image(file, args, e) ==
  LET c == ConfigFrom(e)
  IN [world |-> "guest", file |-> file, args |-> args, static |-> FALSE,
      preload |-> c.preload, rootfs |-> c.rootfs, cache |-> c.cache, armed |-> c.armed,
      sight |-> Sight(e), saved |-> Captured(e),
      exe |-> IF e["BXROOT_NO_AUTORUN"] # Unset THEN Unset ELSE e["BXROOT_GUEST_EXE"]]

(* try_exec_via_ulx: the launcher follows links for an interpreter too.    *)
FirstFile(f) ==
  IF Kind[Landing(f)] = "script" THEN Landing(Interp[Landing(f)]) ELSE Landing(f)
FirstArgs(f) == IF Kind[Landing(f)] = "script" THEN <<Abs(f)>> ELSE <<>>

Init ==
  \E direct, kill, ulx \in BOOLEAN, f \in First :
    /\ Kind[FirstFile(f)] = "dyn"
    /\ direct \/ ulx
    /\ start = [direct |-> direct, kill |-> kill]
    /\ LET e == Launched(f, kill, ulx) IN
         /\ img = Image(FirstFile(f), FirstArgs(f), e)
         /\ env = Announced(e)
         /\ own = Announced(e)
    /\ last = [call |-> "launch", form |-> "abs", file |-> f, libs |-> {}]
    /\ refused = {} /\ lapses = {} /\ starts = 0 /\ edits = 0

-----------------------------------------------------------------------------
(* What a program does to its environment through libc.                    *)
Edit(e, touched) ==
  /\ img.world = "guest" /\ ~img.static /\ edits < MaxEdits
  /\ env' = e /\ own' = e /\ edits' = edits + 1
  /\ lapses' = lapses \cup (IF touched THEN {"named"} ELSE {})
  /\ UNCHANGED <<start, img, last, refused, starts>>

Setenv == \E g \in Given :
  Edit(AfterSetenv(img.saved, env, g[1], g[2]), g[1] = "BXROOT_GUEST_EXE")
Unsetenv == \E n \in Names :
  Edit(AfterUnsetenv(img.saved, env, n), n = "BXROOT_GUEST_EXE")
Putenv == \E g \in Given :
  Edit(AfterPutenv(img.saved, env, g[1], g[2]), g[1] = "BXROOT_GUEST_EXE")
Clearenv == Edit(AfterClearenv(img.saved), TRUE)

(* What a kernel inside the container would run for f, twelve links and    *)
(* interpreters away at most.                                              *)
Leads(f) == IF KindOf(f) \in {"link", "script"} THEN Interp[f] ELSE f
LeadsFar(f) == Leads(Leads(Leads(Leads(f))))
Real(f) == LeadsFar(LeadsFar(LeadsFar(f)))
Startable(f) == KindOf(Real(f)) \in {"dyn", "static"}

-----------------------------------------------------------------------------
(* The end of an exec or spawn.                                            *)

(* The environment of the new image: the caller's own if the allocation    *)
(* for a better one is refused.                                            *)
Final(given, p, fault) ==
  IF fault THEN given ELSE Built(img, env, given, p.exe, p.comm)

(* The library comes by --preload or by the environment.                   *)
Preload == IF env["BXROOT_LD_PRELOAD"] # Unset THEN env["BXROOT_LD_PRELOAD"] ELSE <<Runtime>>
Loads(e, tramp) ==
  Runtime \in ToSet(e["LD_PRELOAD"]) \cup (IF tramp THEN ToSet(Preload) ELSE {})

NewLapses(given, e, fault) ==
  lapses \cup (IF fault THEN {"fault"} ELSE {})
         \cup (IF given # own THEN {"envp"} ELSE {})
         \cup (IF Sight(e) # "guest" THEN {"blind"} ELSE {})

Starts(call, form, f, given, fault) ==
  /\ last' = [call |-> call, form |-> form, file |-> f,
              libs |-> ToSet(given["LD_PRELOAD"])]
  /\ refused' = {}
  /\ starts' = starts + 1
  /\ edits' = edits + (IF given = own /\ ~fault THEN 0 ELSE 1)
  /\ UNCHANGED start

(* A dynamic program: by the trampoline, else by the kernel.               *)
Becomes(p, e, tramp) ==
  IF Loads(e, tramp)
  THEN /\ img' = Image(p.file, p.args, e)
       /\ env' = Announced(e) /\ own' = Announced(e)
  ELSE /\ img' = [img EXCEPT !.world = "outside", !.file = p.file]
       /\ env' = e /\ own' = e

(* A static one: the runtime and its environment stay.                     *)
Enters(p, e) ==
  /\ img' = [img EXCEPT !.file = p.file, !.args = p.args, !.static = TRUE,
                        !.exe = IF IsAbsolute(e["BXROOT_GUEST_EXE"])
                                THEN e["BXROOT_GUEST_EXE"] ELSE Unset]
  /\ env' = WrittenBack(img, env) /\ own' = e

Leaves(world, f, e) ==
  /\ img' = [img EXCEPT !.world = world, !.file = f]
  /\ env' = e /\ own' = e

Refuse(form, f, e) ==
  /\ refused' = IF form # "exe" /\ Startable(f) THEN refused \cup {f} ELSE refused
  /\ env' = e /\ own' = IF img.static THEN own ELSE e
  /\ UNCHANGED <<start, img, last, lapses, starts, edits>>

CanStart(p, alone, e) ==
  \/ KindOf(p.file) = "loader"
  \/ KindOf(p.file) = "dyn" /\ (HasTramp(img, e) \/ start.direct)
  \/ Astray(p.file) /\ (HasTramp(img, e) \/ start.direct)
  \/ KindOf(p.file) = "static" /\ (alone \/ HasTramp(img, e) \/ start.direct)

(* px_do_execve tries a static program in the process first; px_do_spawn   *)
(* does so only when it has a trampoline.                                  *)
Goes(call, form, f, p, given, fault, alone) ==
  LET e     == Final(given, p, fault)
      tramp == HasTramp(img, env)
  IN /\ CanStart(p, alone, env)
     /\ \/ KindOf(p.file) = "dyn" /\ Becomes(p, e, tramp)
        \/ /\ KindOf(p.file) = "static" /\ alone /\ (tramp \/ call = "exec")
           /\ Enters(p, e)
        \/ /\ KindOf(p.file) = "static" /\ ~(alone /\ (tramp \/ call = "exec"))
           /\ Leaves(IF tramp THEN "lost" ELSE "outside", p.file, e)
        \/ KindOf(p.file) = "loader" /\ Leaves("lost", p.file, e)
        \/ Astray(p.file) /\ Leaves("outside", p.file, e)
     /\ lapses' = NewLapses(given, e, fault)
     /\ Starts(call, form, f, given, fault)

Run(call, form, f, p, given, fault, alone) ==
  IF p.err # "OK" THEN Refuse(form, f, env)
  ELSE \/ Goes(call, form, f, p, given, fault, alone)
       \/ ~CanStart(p, alone, env) /\ Refuse(form, f, WrittenBack(img, env))

(* Translation is off: an absolute name is a name of the host, or of the   *)
(* rootfs compiled in, where there is nothing.                             *)
HostName(form, f) ==
  IF form \in {"rel", "fd"} /\ Kind[f] \in {"link", "script"} THEN Interp[f] ELSE f
Strays(form, f) ==
  img.sight # "guest" /\ (form \notin {"rel", "fd"} \/ Kind[f] \in {"link", "script"})
ToHost(call, form, f, given, fault) ==
  IF HostName(form, f) \in HostFiles /\ (img.sight = "host" \/ call = "system")
  THEN /\ Leaves("outside", f, given)
       /\ lapses' = lapses \cup (IF fault THEN {"fault"} ELSE {})
       /\ Starts(call, form, f, given, fault)
  ELSE /\ env' = WrittenBack(img, env) /\ own' = IF img.static THEN own ELSE env'
       /\ UNCHANGED <<start, img, last, refused, lapses, starts, edits>>

-----------------------------------------------------------------------------
(* The calls.                                                              *)
Envps ==
  {own} \cup (IF edits = MaxEdits THEN {}
              ELSE {Nothing} \cup {[own EXCEPT ![g[1]] = g[2]] : g \in Given})
MayStart == img.world = "guest" /\ starts < MaxStarts
Forms == IF img.static THEN {"abs", "rel", "fd"} ELSE {"abs", "rel", "bare", "fd"}
Opened == {f \in Called : KindOf(Landing(f)) # "link"}
Asks ==
  ((Forms \ {"fd"}) \X Called) \cup ({"fd"} \X Opened) \cup {<<"exe", img.file>>}
Alone(p) == IF KindOf(p.file) = "static" THEN BOOLEAN ELSE {TRUE}
Faults == IF edits = MaxEdits THEN {FALSE} ELSE BOOLEAN

Exec(form, f, given, fault) ==
  /\ MayStart
  /\ IF Strays(form, f) THEN ToHost("exec", form, f, given, FALSE)
     ELSE IF form = "bare" /\ ~Found(f) THEN Refuse(form, f, env)
     ELSE LET p == ExecPlan(ExecName(form, f, env))
          IN \E alone \in Alone(p) : Run("exec", form, f, p, given, fault, alone)

Spawn(form, f, given, fault) ==
  /\ MayStart /\ ~img.static
  /\ IF Strays(form, f) THEN ToHost("spawn", form, f, given, FALSE)
     ELSE IF form = "bare" /\ ~Found(f) THEN Refuse(form, f, env)
     ELSE LET p == SpawnPlan(SpawnName(form, f, env))
          IN \E alone \in Alone(p) : Run("spawn", form, f, p, given, fault, alone)

(* system and popen: the guest's shell, or libc's own system, which knows  *)
(* only the host's, when there is none or no environment for it.           *)
System(fault) ==
  /\ MayStart /\ ~img.static
  /\ IF img.sight # "guest" \/ fault
     THEN ToHost("system", "abs", Shell, env, fault)
     ELSE Run("system", "abs", Shell, SystemPlan, env, FALSE, TRUE)

(* A file that has no name: the kernel runs it, with the environment made  *)
(* for it but without a name in it.                                        *)
ExecUnnamed(f, given) ==
  /\ MayStart /\ start.direct /\ Kind[f] = "dyn"
  /\ LET p == [err |-> "OK", file |-> f, args |-> <<>>, exe |-> Unset, comm |-> Unset]
         e == Final(given, p, FALSE)
     IN /\ Becomes(p, e, FALSE)
        /\ lapses' = NewLapses(given, e, FALSE)
  /\ Starts("unnamed", "fd", f, given, FALSE)

Next ==
  \/ Setenv \/ Unsetenv \/ Putenv \/ Clearenv
  \/ \E ask \in Asks, given \in Envps, fault \in Faults :
       /\ given = own \/ ~fault
       /\ Exec(ask[1], ask[2], given, fault) \/ Spawn(ask[1], ask[2], given, fault)
  \/ \E fault \in Faults : System(fault)
  \/ \E f \in Files, given \in Envps : ExecUnnamed(f, given)

Spec == Init /\ [][Next]_vars

-----------------------------------------------------------------------------
(* Properties.                                                             *)

(* Types: an image is in the container, outside, or started with nothing   *)
(* to run; a configuration is made of words.                               *)
TypeOK ==
  /\ img.world \in {"guest", "outside", "lost"}
  /\ img.file \in Files \cup {Loader}
  /\ img.static \in BOOLEAN /\ img.armed \in BOOLEAN
  /\ img.sight \in {"guest", "host", "default"}
  /\ DOMAIN img.cache = Tramp /\ DOMAIN img.saved = Critical
  /\ DOMAIN env = Names /\ DOMAIN own = Names
  /\ starts \in 0..MaxStarts /\ edits \in 0..MaxEdits

Reliable == img.world = "guest" /\ "fault" \notin lapses

(* Whatever programs assign, unset or leave out of the environments they   *)
(* pass, each image has the launcher's rootfs, trampoline and kill-on-exit *)
(* and loads the runtime before every other library.                       *)
SettingsSurvive ==
  Reliable =>
    /\ img.rootfs = <<Root>> /\ img.armed = start.kill
    /\ img.cache = [n \in Tramp |-> IF n = "BXROOT_ULX_PATH" THEN <<Ulx>> ELSE <<Ldso>>]
    /\ Head(img.preload) = Runtime
    /\ own["LD_PRELOAD"] # Unset => Head(own["LD_PRELOAD"]) = Runtime

(* As long as programs pass on the environment they have, no call to libc  *)
(* takes or changes the launcher's rootfs, binds and kill-on-exit.         *)
CriticalKept ==
  img.world = "guest" /\ "envp" \notin lapses =>
    /\ own["BXROOT_ROOTFS"] = <<Root>> /\ own["BXROOT_BINDS"] = Binds
    /\ (own["BXROOT_KILL_ON_EXIT"] # Unset) = start.kill

(* A library a program asks for is preloaded in what it starts.            *)
LibrariesReach ==
  Reliable => last.libs \subseteq ToSet(own["LD_PRELOAD"]) \/ img.static

(* Together: what the environment has to carry arrives.                    *)
EnvironmentKept == TypeOK /\ SettingsSurvive /\ CriticalKept /\ LibrariesReach

-----------------------------------------------------------------------------
(* Which program, and under what name.                                     *)

(* px_rewrite_shebang translates an interpreter but does not follow it, and *)
(* neither links nor interpreters are followed for ever.                   *)
Interpreter(f) == IF KindOf(f) = "script" THEN Interp[f] ELSE f
OutOfReach(f) ==
  KindOf(Interpreter(Interpreter(Interpreter(Interpreter(Landing(f)))))) \in {"link", "script"}

Clean == img.world = "guest" /\ lapses \cap {"fault", "blind"} = {}
Direct == last.call \in {"exec", "spawn"} /\ last.form \in {"abs", "rel", "bare", "fd"}

(* No line of calls leads out of the container, unless an allocation for   *)
(* the environment was refused, the runtime was switched off by            *)
(* BXROOT_NO_AUTORUN, or the call ends at a link the hooks do not follow:  *)
(* the interpreter of a script, or a ninth one.  The kernel then runs what *)
(* the host has under the link's target.                                   *)
Contained ==
  img.world = "outside" =>
    \/ lapses \cap {"fault", "blind"} # {}
    \/ Astray(img.file) /\ (last.form # "exe" => OutOfReach(last.file))

(* A call starts the program the container's files say, through links and  *)
(* interpreters, and refuses only what is no program; but a script is      *)
(* refused if one of its interpreters is a link with an absolute target or *)
(* they are more than four, and so is a file behind more than eight links: *)
(* or, by Contained's exception, the host's program is started instead.    *)
RightProgram ==
  Clean =>
    /\ Direct => img.file = Real(last.file)
    /\ \A f \in refused : OutOfReach(f)

(* The image says by readlink of /proc/self/exe what runs, and by its      *)
(* kernel name what was called, whatever its ancestors were called: for    *)
(* every exec by an absolute path, a search or a descriptor, and for a     *)
(* spawn of a program by its own path.                                     *)
OwnName ==
  \/ last.call = "exec" /\ last.form \in {"abs", "bare", "fd", "exe"}
  \/ last.call = "spawn" /\ last.form = "abs" /\ Kind[last.file] \in {"dyn", "static"}
NamedRight ==
  Clean /\ OwnName =>
    /\ img.exe = Abs(img.file)
    /\ edits = 0 /\ last.form # "exe" =>
         File(own["BXROOT_ORIG_COMM"]) =
           IF last.form = "fd" THEN Landing(last.file) ELSE last.file

(* A script's interpreter is given names it can open: the last is the      *)
(* script's own; but posix_spawnp gives the bare name.                     *)
ScriptNamed ==
  Clean /\ Direct /\ img.args # <<>> /\ ~(last.call = "spawn" /\ last.form = "bare") =>
    /\ \A i \in 1..Len(img.args) : img.args[i][1] # "?"
    /\ Landing(File(Last(img.args))) = Landing(last.file)

(* Together: a program and its interpreter are told the right names.       *)
NamesKept == NamedRight /\ ScriptNamed

(* proc.c:5893-5912: the kernel takes a link's absolute target from the    *)
(* real root, so the hooks expand links for exec as well.  Not those they  *)
(* meet as interpreters: a script can lead out of the container although   *)
(* nothing was refused or switched off, and no run asserts this.           *)
NeverAstray == img.world = "outside" => lapses \cap {"fault", "blind"} # {}

(* exec of /proc/self/exe starts the program that runs, if it was started  *)
(* under its own name, is dynamic, and left BXROOT_GUEST_EXE alone.        *)
ReexecSame ==
  [][/\ starts' = starts + 1 /\ last'.form = "exe"
     /\ Clean /\ OwnName /\ ~img.static /\ "named" \notin lapses
     => img'.world = "guest" /\ img'.file = img.file]_vars

(* proc.c:5988: "in the guest's eyes /proc/<who>/exe is BXROOT_GUEST_EXE,  *)
(* the same answer that the runtime's readlink hook gives".  Not so in a   *)
(* static image: readlink answers from the new environment, exec from the  *)
(* one of the program that was there before, and no run asserts this.      *)
SameAnswer == Clean /\ "named" \notin lapses => Alias(env) = img.exe
=============================================================================
