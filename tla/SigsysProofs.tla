---------------------------- MODULE SigsysProofs ----------------------------
(* Proofs about SIGSYS and the guest's identity, for any host filter, any   *)
(* ranges of images, and any number of images, handlers and ids.            *)
EXTENDS IdBaseline, SequenceTheorems, TLAPS

-----------------------------------------------------------------------------
(* The program of the filter. *)

(* The two words of addresses are ordered like the addresses, *)
LEMMA Words ==
  ASSUME NEW a \in Nat, NEW b \in Nat
  PROVE  a < b <=> \/ HiWord(a) < HiWord(b)
                   \/ HiWord(a) = HiWord(b) /\ LoWord(a) < LoWord(b)
<1> DEFINE q == a \div Word
           r == a % Word
           p == b \div Word
           s == b % Word
<1>1. /\ q \in Nat /\ r \in 0 .. Word - 1 /\ a = Word * q + r
      /\ p \in Nat /\ s \in 0 .. Word - 1 /\ b = Word * p + s
  BY TrapAssumption
<1> HIDE DEF q, r, p, s
<1>2. ASSUME q < p PROVE a < b
  <2>1. p = q + (p - q) /\ p - q >= 1
    BY <1>1, <1>2
  <2>2. Word * p = Word * q + Word * (p - q)
    BY <1>1, <2>1, TrapAssumption
  <2>3. Word * (p - q) >= Word
    BY <1>1, <2>1, TrapAssumption
  <2> QED BY <1>1, <2>2, <2>3, TrapAssumption
<1>3. ASSUME p < q PROVE b < a
  <2>1. q = p + (q - p) /\ q - p >= 1
    BY <1>1, <1>3
  <2>2. Word * q = Word * p + Word * (q - p)
    BY <1>1, <2>1, TrapAssumption
  <2>3. Word * (q - p) >= Word
    BY <1>1, <2>1, TrapAssumption
  <2> QED BY <1>1, <2>2, <2>3, TrapAssumption
<1>4. ASSUME p = q PROVE a < b <=> r < s
  BY <1>1, <1>4, TrapAssumption
<1>5. a < b <=> q < p \/ (q = p /\ r < s)
  BY <1>1, <1>2, <1>3, <1>4
<1> QED BY <1>5 DEF q, r, p, s, HiWord, LoWord

(* so the filter traps the addresses of its range and no other.            *)
LEMMA FilterExact ==
  ASSUME NEW r \in [lo : Nat, hi : Nat], NEW ip \in Nat
  PROVE  InFilter(r, ip) <=> r.lo <= ip /\ ip < r.hi
<1>1. /\ HiWord(ip) \in Nat /\ HiWord(r.lo) \in Nat /\ HiWord(r.hi) \in Nat
      /\ LoWord(ip) \in Nat /\ LoWord(r.lo) \in Nat /\ LoWord(r.hi) \in Nat
  BY TrapAssumption DEF HiWord, LoWord
<1>2. FromLow(ip, r.lo) <=> ~(ip < r.lo)
  BY <1>1, Words DEF FromLow
<1>3. BelowHigh(ip, r.hi) <=> ip < r.hi
  BY <1>1, Words DEF BelowHigh
<1> QED BY <1>2, <1>3 DEF InFilter

-----------------------------------------------------------------------------
(* The invariant. *)

Frames == [what : {"usr", "own"}, saved : BOOLEAN, masks : BOOLEAN]

Types ==
  /\ image \in [kind : {"starting", "dynamic", "static"}, fallback : BOOLEAN,
                at : Ranges \cup {Away}]
  /\ mapped \subseteq Ranges /\ filters \subseteq Ranges
  /\ disp \in {"early", "layer", "fallback", "guest", "dfl", "ign"}
  /\ blocked \in BOOLEAN /\ raw \in BOOLEAN
  /\ {own, shadow, asked} \subseteq Handlers \cup {"unset"}
  /\ usr \in {"none", "plain", "full"}
  /\ frames \in Seq(Frames) /\ Len(frames) <= MaxFrames
  /\ fate \in {"up", "died", "killed", "misled"}
  /\ changes \in 0 .. MaxChanges

(* Only the image that runs is mapped where the next one may come.         *)
Apart ==
  /\ \A r, s \in mapped : r # s => ~Overlap(r, s)
  /\ Static => image.at \in mapped

Masking(n) == \E i \in 1 .. n : frames[i].masks
Excused(n) == raw \/ Masking(n)

(* SIGSYS is blocked, in other hands or fatal only with an excuse, and so  *)
(* is each mask that a handler will bring back: by a frame under it.       *)
Excuses ==
  /\ blocked => Excused(Len(frames))
  /\ disp \in {"guest", "dfl", "ign"} => raw
  /\ fate \in {"killed", "misled"} => Excused(Len(frames))
  /\ \A i \in 1 .. Len(frames) : frames[i].saved => Excused(i - 1)

(* There is no excuse in an image under its own filter.                    *)
Sealed ==
  Protected => /\ disp = "fallback" /\ ~blocked /\ ~raw /\ usr # "full"
               /\ fate \notin {"killed", "misled"}
               /\ \A i \in 1 .. Len(frames) : ~frames[i].masks /\ ~frames[i].saved
               /\ shadow = asked

(* A new image has asked for nothing, and the fallback is for static ones. *)
Begun ==
  /\ image.kind = "starting" =>
       /\ frames = <<>> /\ usr = "none" /\ disp = "early"
       /\ own = "unset" /\ shadow = "unset" /\ asked = "unset"
  /\ Dynamic => disp # "fallback"
  /\ Dynamic /\ ~raw => own = asked

Identities ==
  [on : BOOLEAN, caps : BOOLEAN, uid : [r : Ids, e : Ids, s : Ids, f : Ids],
   gid : [r : Ids, e : Ids, s : Ids, f : Ids], groups : Seq(Ids)]

(* Under fakeroot the guest never loses the right to any identity.         *)
Rooted == ids \in Identities /\ ids.caps = ids.on /\ Len(ids.groups) <= MaxGroups

IInv == Types /\ Apart /\ Excuses /\ Sealed /\ Begun /\ Rooted

-----------------------------------------------------------------------------
(* What becomes of a call. *)

LEMMA Caughts ==
  ASSUME Types, Protected, NEW call \in FilterCalls, NEW ip \in Addresses(Traps)
  PROVE  Caught(Traps, call, ip)
<1>1. image.at \in [lo : Nat, hi : Nat] /\ image.at.lo < image.at.hi
  BY SigsysAssumption DEF Types
<1>2. ip \in Nat /\ image.at.lo <= ip /\ ip < image.at.hi
  BY <1>1 DEF Addresses, Traps
<1>3. InFilter(image.at, ip)
  BY <1>1, <1>2, FilterExact
<1> QED BY <1>3 DEF Caught, Protected, Traps

(* A call of an image under its own filter, wherever in its range it is.   *)
LEMMA SealedSvc ==
  ASSUME Types, Sealed, Protected, NEW ip \in Addresses(Traps)
  PROVE  /\ Svc(Traps, "path", ip) = "translated"
         /\ Svc(Traps, "access2", ip) \in {"translated", "ENOSYS"}
         /\ Svc(Traps, "shm", ip) = "emulated"
         /\ Svc(Traps, "sigaction", ip) = "shadow"
         /\ Svc(Traps, "sigmask", ip) = "masked"
         /\ \A call \in Rewritten : SeenSvc(Traps, call, ip) = Svc(Traps, call, ip)
<1>1. \A call \in FilterCalls : Caught(Traps, call, ip)
  BY Caughts
<1>2. /\ Traps.image.kind = "static" /\ Traps.disp = "fallback"
      /\ Traps.blocked = FALSE
  BY DEF Types, Sealed, Protected, Static, Traps
<1> HIDE DEF Traps
<1>3. ~Deadly(Traps, FALSE)
  BY <1>2 DEF Deadly
<1>4. \A call \in FilterCalls : Svc(Traps, call, ip) = ByFallback(Traps, call)
  BY <1>1, <1>2, <1>3 DEF Svc, Trapped
<1>5. Svc(Traps, "sigaction", ip) = "shadow" /\ Svc(Traps, "sigmask", ip) = "masked"
  BY <1>4 DEF ByFallback, FilterCalls
<1>6. \A call \in Rewritten :
        /\ Svc(Traps, call, ip) = Dispatch(Traps, call, FALSE)
        /\ SeenSvc(Traps, call, ip) = Dispatch(Traps, call, FALSE)
  BY <1>4 DEF ByFallback, FilterCalls, Rewritten, SeenSvc, NoDefer
<1>7. \A call \in Rewritten :
        Own(Traps, call, FALSE) = IF call \notin OuterTraps THEN "kernel"
                                  ELSE ByEarly(Traps, call)
  BY <1>2, <1>3 DEF Own
<1>8. Dispatch(Traps, "path", FALSE) = "translated"
  BY <1>7, TrapAssumption DEF Dispatch, Rewritten
<1>9. Dispatch(Traps, "access2", FALSE) \in {"translated", "ENOSYS"}
  BY <1>7 DEF Dispatch, Rewritten, ByEarly
<1>10. Dispatch(Traps, "shm", FALSE) = "emulated"
  BY DEF Dispatch
<1> QED BY <1>5, <1>6, <1>8, <1>9, <1>10 DEF Rewritten

(* A call ends badly only where SIGSYS is blocked or in other hands.       *)
LEMMA BadEnds ==
  ASSUME Types, NEW call \in Calls
  PROVE  /\ "killed" \in Outcomes(Traps, call) => blocked \/ disp \in {"dfl", "ign"}
         /\ "guest" \in Outcomes(Traps, call) => disp = "guest"
<1> DEFINE Calm(out) == /\ out = "killed" => blocked \/ disp \in {"dfl", "ign"}
                        /\ out = "guest" => disp = "guest"
<1>1. Traps.blocked = blocked /\ Traps.disp = disp
  BY DEF Traps
<1> HIDE DEF Traps
<1>2. Calm(ByLayer(Traps, call)) /\ Calm(ByEarly(Traps, call))
  BY DEF ByLayer, ByEarly
<1>3. Deadly(Traps, FALSE) => blocked \/ disp \in {"dfl", "ign"}
  BY <1>1 DEF Deadly
<1>4. Calm(Own(Traps, call, FALSE))
  BY <1>1, <1>2, <1>3 DEF Own
<1>5. Calm(Dispatch(Traps, call, FALSE))
  BY <1>4 DEF Dispatch
<1>6. Calm(ByFallback(Traps, call))
  BY <1>5 DEF ByFallback, NoDefer
<1>7. \A ip : Calm(Svc(Traps, call, ip))
  BY <1>1, <1>2, <1>3, <1>6 DEF Svc
<1>8. \A ip : Calm(SeenSvc(Traps, call, ip))
  BY <1>5, <1>7 DEF SeenSvc
<1>9. Calm(GuardCall(Traps, call))
  BY <1>4 DEF GuardCall
<1> HIDE DEF Calm
<1>10. ASSUME NEW out \in Outcomes(Traps, call) PROVE Calm(out)
  <2> DEFINE S(ip) == {Svc(Traps, call, ip), SeenSvc(Traps, call, ip)}
             G == IF Traps.image.kind = "dynamic" THEN {GuardCall(Traps, call)} ELSE {}
  <2>1. out \in UNION {S(ip) : ip \in Addresses(Traps)} \/ out \in G
    BY DEF Outcomes
  <2>2. CASE out \in UNION {S(ip) : ip \in Addresses(Traps)}
    <3>1. PICK ip \in Addresses(Traps) : out \in S(ip)
      BY <2>2
    <3> QED BY <3>1, <1>7, <1>8
  <2>3. CASE out \in G
    BY <2>3, <1>9
  <2> QED BY <2>1, <2>2, <2>3
<1> QED BY <1>10 DEF Calm

-----------------------------------------------------------------------------
(* Images. *)

LEMMA FreshRooted ==
  ASSUME NEW on \in BOOLEAN
  PROVE  /\ Fresh(on) \in Identities /\ Fresh(on).caps = Fresh(on).on
         /\ Len(Fresh(on).groups) <= MaxGroups
<1>1. <<FakeGid>> \in Seq(Ids) /\ Len(<<FakeGid>>) = 1
  BY IdAssumption
<1> QED BY <1>1, IdAssumption DEF Fresh, Same, Identities

LEMMA InitIInv == Init => IInv
<1> SUFFICES ASSUME Init PROVE IInv
  OBVIOUS
<1> USE DEF Init, InitialImage, Unhandled
<1>1. frames \in Seq(Frames) /\ Len(frames) = 0
  OBVIOUS
<1>2. Types
  <2>1. frames \in Seq(Frames) /\ Len(frames) <= MaxFrames
    BY <1>1, SigsysAssumption
  <2>2. image \in [kind : {"starting", "dynamic", "static"}, fallback : BOOLEAN,
                   at : Ranges \cup {Away}]
    OBVIOUS
  <2>3. changes \in 0 .. MaxChanges
    BY SigsysAssumption
  <2> QED BY <2>1, <2>2, <2>3 DEF Types
<1>3. Apart
  BY DEF Apart, Static
<1>4. Excuses
  BY <1>1 DEF Excuses
<1>5. Sealed
  BY DEF Sealed, Protected
<1>6. Begun
  BY DEF Begun, Dynamic
<1>7. Rooted
  BY FreshRooted, SigsysAssumption DEF Rooted
<1> QED BY <1>2, <1>3, <1>4, <1>5, <1>6, <1>7 DEF IInv

LEMMA ExecIInv ==
  ASSUME IInv, Exec
  PROVE  IInv'
<1> USE DEF Exec, Unhandled, IInv
<1>1. /\ frames' = <<>> /\ frames' \in Seq(Frames) /\ Len(frames') = 0
      /\ image'.kind = "starting"
  OBVIOUS
<1>2. Types'
  BY <1>1, SigsysAssumption DEF Types
<1>3. Apart'
  BY <1>1 DEF Apart, Static
<1>4. Excuses'
  BY <1>1 DEF Excuses, Excused, Up
<1>5. Sealed'
  BY <1>1 DEF Sealed, Protected, Static
<1>6. Begun'
  BY <1>1 DEF Begun, Dynamic
<1>7. Rooted'
  BY FreshRooted DEF Rooted, Identities
<1> QED BY <1>2, <1>3, <1>4, <1>5, <1>6, <1>7

LEMMA InstallIInv ==
  ASSUME IInv, Install
  PROVE  IInv'
<1> USE DEF Install, IInv
<1>1. /\ frames' = <<>> /\ frames' \in Seq(Frames) /\ Len(frames') = 0
      /\ image'.kind = "dynamic"
  BY DEF Begun, Types
<1>2. Types'
  BY <1>1 DEF Types
<1>3. Apart'
  BY <1>1 DEF Apart, Static
<1>4. Excuses'
  BY <1>1 DEF Excuses, Up
<1>5. Sealed'
  BY <1>1 DEF Sealed, Protected, Static
<1>6. Begun'
  BY <1>1 DEF Begun, Dynamic
<1>7. Rooted'
  BY DEF Rooted
<1> QED BY <1>2, <1>3, <1>4, <1>5, <1>6, <1>7

LEMMA StaticExecIInv ==
  ASSUME IInv, NEW r \in Ranges, NEW fallback \in BOOLEAN, StaticExec(r, fallback)
  PROVE  IInv'
<1> USE DEF StaticExec, Unhandled, IInv
<1>1. /\ frames' = <<>> /\ frames' \in Seq(Frames) /\ Len(frames') = 0
      /\ image'.kind = "static" /\ image'.at = r
      /\ image'.fallback = fallback
  OBVIOUS
<1>2. Types'
  <2>1. image' \in [kind : {"starting", "dynamic", "static"}, fallback : BOOLEAN,
                    at : Ranges \cup {Away}]
    OBVIOUS
  <2>2. mapped' \subseteq Ranges /\ filters' \subseteq Ranges
    BY DEF Types, Mapped
  <2>3. {own', shadow', asked'} \subseteq Handlers \cup {"unset"}
    BY DEF Types, ShadowAfter
  <2>4. changes' \in 0 .. MaxChanges /\ Len(frames') <= MaxFrames
    BY <1>1, SigsysAssumption DEF Types
  <2> QED BY <1>1, <2>1, <2>2, <2>3, <2>4 DEF Types
<1>3. Apart'
  BY <1>1 DEF Apart, Static, Mapped, Overlap, Types
<1>4. Excuses'
  BY <1>1 DEF Excuses, Up
<1>5. Sealed'
  BY <1>1 DEF Sealed, Protected, Static, ShadowAfter, Up
<1>6. Begun'
  BY <1>1 DEF Begun, Dynamic
<1>7. Rooted'
  BY DEF Rooted
<1> QED BY <1>2, <1>3, <1>4, <1>5, <1>6, <1>7

-----------------------------------------------------------------------------
(* Handlers and masks. *)

LEMMA AskByLibcIInv ==
  ASSUME IInv, NEW h \in Handlers, AskByLibc(h)
  PROVE  IInv'
<1> USE DEF AskByLibc, IInv, imageVars
<1>1. Types'
  BY DEF Types
<1>2. Apart'
  BY DEF Apart, Static
<1>3. Excuses'
  BY DEF Excuses, Excused, Masking
<1>4. Sealed'
  BY DEF Sealed, Protected, Static, Dynamic
<1>5. Begun'
  BY DEF Begun, Dynamic
<1>6. Rooted'
  BY DEF Rooted
<1> QED BY <1>1, <1>2, <1>3, <1>4, <1>5, <1>6

LEMMA AskBySvcIInv ==
  ASSUME IInv, NEW h \in Handlers, AskBySvc(h)
  PROVE  IInv'
<1> USE DEF AskBySvc, IInv, imageVars
<1>1. PICK ip \in Addresses(Traps) :
        LET out == Svc(Traps, "sigaction", ip) IN
        /\ out \in {"kernel", "shadow"}
        /\ asked' = h
        /\ IF out = "shadow" THEN shadow' = h /\ UNCHANGED <<disp, raw>>
           ELSE disp' = RealDisp(h) /\ raw' = TRUE /\ UNCHANGED shadow
  BY Zenon
<1>2. Protected => Svc(Traps, "sigaction", ip) = "shadow"
  BY SealedSvc
<1>3. Svc(Traps, "sigaction", ip) = "shadow" => disp = "fallback"
  BY DEF Svc, ByLayer, ByEarly, ByFallback, Traps
<1>4. RealDisp(h) \in {"guest", "dfl", "ign"}
  BY SigsysAssumption DEF RealDisp
<1>5. Types'
  <2>1. /\ {own', shadow', asked'} \subseteq Handlers \cup {"unset"}
        /\ disp' \in {"early", "layer", "fallback", "guest", "dfl", "ign"}
        /\ raw' \in BOOLEAN
    <3>1. CASE Svc(Traps, "sigaction", ip) = "shadow"
      BY <1>1, <3>1 DEF Types
    <3>2. CASE Svc(Traps, "sigaction", ip) # "shadow"
      BY <1>1, <1>4, <3>2 DEF Types
    <3> QED BY <3>1, <3>2
  <2> QED BY <2>1 DEF Types
<1>6. Apart'
  BY DEF Apart, Static
<1>7. Excuses'
  BY <1>1 DEF Excuses, Excused, Masking
<1>8. Sealed'
  BY <1>1, <1>2 DEF Sealed, Protected, Static
<1>9. Begun'
  BY <1>1, <1>3, <1>4 DEF Begun, Dynamic, Static
<1>10. Rooted'
  BY DEF Rooted
<1> QED BY <1>5, <1>6, <1>7, <1>8, <1>9, <1>10

LEMMA AskByGuardIInv ==
  ASSUME IInv, NEW h \in Handlers, AskByGuard(h)
  PROVE  IInv'
<1> USE DEF AskByGuard, IInv, imageVars
<1>1. RealDisp(h) \in {"guest", "dfl", "ign"}
  BY SigsysAssumption DEF RealDisp
<1>2. Types'
  BY <1>1 DEF Types
<1>3. Apart'
  BY DEF Apart, Static
<1>4. Excuses'
  BY DEF Excuses, Excused, Masking
<1>5. Sealed'
  BY DEF Sealed, Protected, Static, Dynamic
<1>6. Begun'
  BY <1>1 DEF Begun, Dynamic
<1>7. Rooted'
  BY DEF Rooted
<1> QED BY <1>2, <1>3, <1>4, <1>5, <1>6, <1>7

LEMMA MaskByLibcIInv ==
  ASSUME IInv, NEW how \in {"block", "unblock", "setmask"}, NEW has \in BOOLEAN,
         MaskByLibc(how, has)
  PROVE  IInv'
<1> USE DEF MaskByLibc, IInv, imageVars
<1>1. blocked' \in BOOLEAN /\ (blocked' => blocked)
  BY DEF MaskAfter, Stripped, Types
<1>2. Types'
  BY <1>1 DEF Types
<1>3. Apart'
  BY DEF Apart, Static
<1>4. Excuses'
  BY <1>1 DEF Excuses, Excused, Masking
<1>5. Sealed'
  BY DEF Sealed, Protected, Static, Dynamic
<1>6. Begun'
  BY DEF Begun, Dynamic
<1>7. Rooted'
  BY DEF Rooted
<1> QED BY <1>2, <1>3, <1>4, <1>5, <1>6, <1>7

LEMMA MaskBySvcIInv ==
  ASSUME IInv, NEW how \in {"block", "unblock", "setmask"}, NEW has \in BOOLEAN,
         MaskBySvc(how, has)
  PROVE  IInv'
<1> USE DEF MaskBySvc, IInv, imageVars
<1>1. PICK ip \in Addresses(Traps) :
        LET out == Svc(Traps, "sigmask", ip) IN
        /\ out \in {"kernel", "masked"}
        /\ blocked' = (out = "kernel" /\ MaskAfter(how, has))
        /\ raw' = (raw \/ (out = "kernel" /\ has /\ how # "unblock"))
  BY Zenon
<1>2. Protected => Svc(Traps, "sigmask", ip) = "masked"
  BY SealedSvc
<1>3. MaskAfter(how, has) => blocked \/ (has /\ how # "unblock")
  BY DEF MaskAfter
<1>4. /\ blocked' \in BOOLEAN /\ raw' \in BOOLEAN /\ (raw => raw')
      /\ blocked' => blocked \/ raw'
      /\ Protected => ~blocked' /\ (raw' => raw)
  BY <1>1, <1>2, <1>3 DEF Types
<1>5. Types'
  BY <1>4 DEF Types
<1>6. Apart'
  BY DEF Apart, Static
<1>7. Excuses'
  BY <1>4 DEF Excuses, Excused, Masking
<1>8. Sealed'
  BY <1>4 DEF Sealed, Protected, Static
<1>9. Begun'
  BY <1>4 DEF Begun, Dynamic
<1>10. Rooted'
  BY DEF Rooted
<1> QED BY <1>5, <1>6, <1>7, <1>8, <1>9, <1>10

LEMMA HandleIInv ==
  ASSUME IInv, NEW full \in BOOLEAN, Handle(full)
  PROVE  IInv'
<1> USE DEF Handle, IInv, imageVars
<1>1. usr' \in {"plain", "full"} /\ (Protected => usr' # "full")
  <2>1. CASE Dynamic /\ usr' = UsrMask("libc", full)
    BY <2>1 DEF UsrMask, Protected, Static, Dynamic
  <2>2. CASE \E ip \in Addresses(Traps) :
               LET out == Svc(Traps, "sigaction", ip) IN
               out \in {"kernel", "shadow"} /\ usr' = UsrMask(out, full)
    <3>1. PICK ip \in Addresses(Traps) :
                 usr' = UsrMask(Svc(Traps, "sigaction", ip), full)
      BY <2>2
    <3>2. Protected => Svc(Traps, "sigaction", ip) = "shadow"
      BY SealedSvc
    <3> QED BY <3>1, <3>2 DEF UsrMask
  <2> QED BY <2>1, <2>2
<1>2. Types'
  BY <1>1 DEF Types
<1>3. Apart'
  BY DEF Apart, Static
<1>4. Excuses'
  BY DEF Excuses, Excused, Masking
<1>5. Sealed'
  BY <1>1 DEF Sealed, Protected, Static
<1>6. Begun'
  BY DEF Begun, Dynamic, Static
<1>7. Rooted'
  BY DEF Rooted
<1> QED BY <1>2, <1>3, <1>4, <1>5, <1>6, <1>7

-----------------------------------------------------------------------------
(* Handlers that run. *)

LEMMA EnterFrames ==
  ASSUME Types, NEW what \in {"usr", "own"}, NEW masks \in BOOLEAN, Enter(what, masks)
  PROVE  /\ frames' \in Seq(Frames) /\ Len(frames') = Len(frames) + 1
         /\ Len(frames') <= MaxFrames
         /\ \A i \in 1 .. Len(frames) : frames'[i] = frames[i]
         /\ frames'[Len(frames) + 1].saved = blocked
         /\ frames'[Len(frames) + 1].masks = masks
         /\ blocked' = (blocked \/ masks)
<1>1. Frame(what, masks) \in Frames
  BY DEF Frame, Frames, Types
<1>2. frames' = Append(frames, Frame(what, masks)) /\ frames \in Seq(Frames)
  BY DEF Enter, Types
<1>3. /\ frames' \in Seq(Frames) /\ Len(frames') = Len(frames) + 1
      /\ \A i \in 1 .. Len(frames) : frames'[i] = frames[i]
      /\ frames'[Len(frames) + 1] = Frame(what, masks)
  BY <1>1, <1>2, AppendProperties
<1>4. Len(frames') <= MaxFrames
  BY <1>2, <1>3, SigsysAssumption, LenProperties DEF Enter
<1> QED BY <1>3, <1>4 DEF Frame, Enter

(* One more frame: its excuses are those of the moment it is entered.      *)
LEMMA EnterExcuses ==
  ASSUME IInv, NEW what \in {"usr", "own"}, NEW masks \in BOOLEAN, Enter(what, masks),
         UNCHANGED <<disp, raw>>, fate' \in {"up", "died"}
  PROVE  Excuses'
<1> DEFINE n == Len(frames)
           Later(k) == raw' \/ \E i \in 1 .. k : frames'[i].masks
<1>1. n \in Nat
  BY LenProperties DEF IInv, Types
<1>2. /\ Len(frames') = n + 1 /\ \A i \in 1 .. n : frames'[i] = frames[i]
      /\ frames'[n + 1].saved = blocked /\ frames'[n + 1].masks = masks
      /\ blocked' = (blocked \/ masks)
  BY EnterFrames DEF IInv
<1> HIDE DEF n
<1>3. \A k \in 0 .. n : Excused(k) => Later(k)
  BY <1>1, <1>2 DEF Excused, Masking
<1>4. blocked' => Later(n + 1)
  <2>1. CASE blocked
    <3>1. Excused(n)
      BY <2>1 DEF IInv, Excuses, n
    <3>2. Later(n)
      BY <1>1, <1>3, <3>1
    <3> QED BY <1>1, <3>2
  <2>2. CASE masks
    <3>1. n + 1 \in 1 .. n + 1
      BY <1>1
    <3>2. frames'[n + 1].masks
      BY <1>2, <2>2, Zenon
    <3> QED BY <3>1, <3>2, Zenon
  <2> QED BY <1>2, <2>1, <2>2
<1>5. ASSUME NEW i \in 1 .. n + 1, frames'[i].saved
      PROVE  Later(i - 1)
  <2>1. CASE i = n + 1
    <3>1. blocked /\ i - 1 = n
      BY <1>1, <1>2, <1>5, <2>1
    <3>2. Excused(n)
      BY <3>1 DEF IInv, Excuses, n
    <3> QED BY <1>1, <1>3, <3>1, <3>2
  <2>2. CASE i # n + 1
    <3>1. i \in 1 .. n /\ frames[i].saved
      BY <1>1, <1>2, <1>5, <2>2
    <3>2. Excused(i - 1) /\ i - 1 \in 0 .. n
      BY <1>1, <3>1 DEF IInv, Excuses, n
    <3> QED BY <1>3, <3>2
  <2> QED BY <2>1, <2>2
<1>6. disp' \in {"guest", "dfl", "ign"} => raw'
  BY DEF IInv, Excuses
<1> QED BY <1>2, <1>4, <1>5, <1>6 DEF Excuses, Excused, Masking

LEMMA EnterIInv ==
  ASSUME IInv, NEW what \in {"usr", "own"}, NEW masks \in BOOLEAN, Enter(what, masks),
         image.kind # "starting", Protected => ~masks,
         fate' \in {"up", "died"},
         UNCHANGED <<imageVars, disp, own, shadow, asked, usr, raw, ids, changes>>
  PROVE  IInv'
<1> USE DEF IInv, imageVars
<1>1. blocked' \in BOOLEAN
  BY DEF Enter, Types
<1>2. Types'
  BY <1>1, EnterFrames DEF Types
<1>3. Apart'
  BY DEF Apart, Static
<1>4. Excuses'
  BY EnterExcuses
<1>5. Sealed'
  <2> SUFFICES ASSUME Protected
               PROVE  /\ ~blocked'
                      /\ \A i \in 1 .. Len(frames') : ~frames'[i].masks /\ ~frames'[i].saved
    BY DEF Sealed, Protected, Static
  <2>1. ~blocked /\ ~masks
    BY DEF Sealed
  <2>2. Len(frames) \in Nat
    BY LenProperties DEF Types
  <2>3. ASSUME NEW i \in 1 .. Len(frames')
        PROVE  ~frames'[i].masks /\ ~frames'[i].saved
    <3>1. CASE i = Len(frames) + 1
      BY <2>1, <3>1, EnterFrames
    <3>2. CASE i \in 1 .. Len(frames)
      BY <2>1, <3>2, EnterFrames DEF Sealed
    <3> QED BY <2>2, <3>1, <3>2, EnterFrames
  <2> QED BY <2>1, <2>3 DEF Enter
<1>6. Begun'
  BY DEF Begun, Dynamic
<1>7. Rooted'
  BY DEF Rooted
<1> QED BY <1>2, <1>3, <1>4, <1>5, <1>6, <1>7

LEMMA InterruptedIInv ==
  ASSUME IInv, Interrupted
  PROVE  IInv'
<1>1. image.kind # "starting"
  BY DEF IInv, Begun, Interrupted
<1>2. Protected => usr # "full"
  BY DEF IInv, Sealed
<1> QED BY <1>1, <1>2, EnterIInv DEF Interrupted, Up

LEMMA SentSigsysIInv ==
  ASSUME IInv, SentSigsys
  PROVE  IInv'
<1> USE DEF IInv
<1>1. CASE fate' = fate /\ Enter("own", FALSE) /\ disp = "fallback"
  <2>1. image.kind # "starting"
    BY <1>1 DEF Begun
  <2> QED BY <1>1, <2>1, EnterIInv DEF SentSigsys, Up
<1>2. CASE fate' = fate /\ Enter("own", TRUE) /\ disp \in {"layer", "guest"}
  <2>1. image.kind # "starting"
    BY <1>2 DEF Begun
  <2>2. ~Protected
    BY <1>2 DEF Sealed
  <2> QED BY <1>2, <2>1, <2>2, EnterIInv DEF SentSigsys, Up
<1>3. CASE fate' = "died" /\ UNCHANGED <<frames, blocked>>
  <2> USE <1>3 DEF SentSigsys, imageVars
  <2>1. Types'
    BY DEF Types
  <2>2. Apart'
    BY DEF Apart, Static
  <2>3. Excuses'
    BY DEF Excuses, Excused, Masking
  <2>4. Sealed'
    BY DEF Sealed, Protected, Static
  <2>5. Begun'
    BY DEF Begun, Dynamic
  <2>6. Rooted'
    BY DEF Rooted
  <2> QED BY <2>1, <2>2, <2>3, <2>4, <2>5, <2>6
<1> QED BY <1>1, <1>2, <1>3 DEF SentSigsys

LEMMA ReturnIInv ==
  ASSUME IInv, Return
  PROVE  IInv'
<1> USE DEF IInv, imageVars, Unhandled
<1> DEFINE n == Len(frames)
           Later(k) == raw' \/ \E i \in 1 .. k : frames'[i].masks
<1>1. n \in Nat \ {0} /\ frames \in Seq(Frames) /\ \A i \in 1 .. n : frames[i] \in Frames
  BY EmptySeq, ElementOfSeq DEF Types, Return
<1>2. /\ frames' \in Seq(Frames) /\ Len(frames') = n - 1
      /\ \A i \in 1 .. n - 1 : frames'[i] = frames[i]
  <2>1. \A i \in 1 .. n - 1 : frames[i] \in Frames
    BY <1>1
  <2>2. n - 1 \in Int /\ 1 \in Int /\ frames' = SubSeq(frames, 1, n - 1)
    BY <1>1 DEF Return
  <2> HIDE DEF n
  <2>3. /\ frames' \in Seq(Frames) /\ Len(frames') = IF 1 <= n - 1 THEN n - 1 - 1 + 1 ELSE 0
        /\ \A i \in 1 .. n - 1 - 1 + 1 : frames'[i] = frames[1 + i - 1]
    BY <2>1, <2>2, SubSeqProperties
  <2> QED BY <1>1, <2>3
<1>3. blocked' = frames[n].saved /\ blocked' \in BOOLEAN
  BY <1>1 DEF Return, Frames
<1>4. \A k \in 0 .. n - 1 : Excused(k) => Later(k)
  BY <1>1, <1>2 DEF Return, Excused, Masking
<1>5. Types'
  <2>1. Len(frames') <= MaxFrames
    BY <1>1, <1>2, SigsysAssumption DEF Types
  <2> QED BY <1>2, <1>3, <2>1 DEF Return, Types
<1>6. Apart'
  BY DEF Return, Apart, Static
<1>7. Excuses'
  <2>1. blocked' => Later(n - 1)
    <3>1. n \in 1 .. n /\ n - 1 \in 0 .. n - 1
      BY <1>1
    <3>2. frames[n].saved => Excused(n - 1)
      BY <3>1 DEF Excuses
    <3> HIDE DEF n, Later
    <3> QED BY <1>3, <1>4, <3>1, <3>2
  <2>2. \A i \in 1 .. n - 1 : frames'[i].saved => Later(i - 1)
    BY <1>1, <1>2, <1>4 DEF Excuses
  <2>3. Len(frames') = n - 1
    BY <1>2
  <2>4. /\ fate' \notin {"killed", "misled"}
        /\ disp' \in {"guest", "dfl", "ign"} => raw'
    BY DEF Return, Up, Excuses
  <2> HIDE DEF n
  <2> QED BY <2>1, <2>2, <2>3, <2>4 DEF Excuses, Excused, Masking
<1>8. Sealed'
  BY <1>1, <1>2, <1>3 DEF Return, Sealed, Protected, Static
<1>9. Begun'
  BY <1>1 DEF Return, Begun, Dynamic
<1>10. Rooted'
  BY DEF Return, Rooted
<1> QED BY <1>5, <1>6, <1>7, <1>8, <1>9, <1>10

LEMMA CallIInv ==
  ASSUME IInv, NEW call \in Calls, Call(call)
  PROVE  IInv'
<1> USE DEF Call, IInv, imageVars, sigVars
<1>1. \/ fate' = "killed" /\ (blocked \/ disp \in {"dfl", "ign"})
      \/ fate' = "misled" /\ disp = "guest"
  BY BadEnds
<1>2. Types'
  BY <1>1 DEF Types
<1>3. Apart'
  BY DEF Apart, Static
<1>4. Excuses'
  BY <1>1 DEF Excuses, Excused, Masking
<1>5. Sealed'
  BY <1>1 DEF Sealed, Protected, Static
<1>6. Begun'
  BY DEF Begun, Dynamic
<1>7. Rooted'
  BY DEF Rooted
<1> QED BY <1>2, <1>3, <1>4, <1>5, <1>6, <1>7

-----------------------------------------------------------------------------
(* Identities. *)

One == {"setuid", "setgid", "setfsuid", "setfsgid", "seteuid", "setegid"}
Two == {"setreuid", "setregid"}
Three == {"setresuid", "setresgid"}

(* A list of groups is as long as it is said to be, or it is refused.      *)
GroupsCall(a) ==
  /\ a[1] \in Nat
  /\ a[1] > MaxGroups \/ (a[1] > 0 /\ a[2] = <<>>)
     \/ (a[1] <= MaxGroups /\ a[2] \in Seq(Ids) /\ a[1] <= Len(a[2]))

LEMMA CallShape ==
  ASSUME NEW call \in IdCalls
  PROVE  \/ call.op \in One /\ call.args[1] \in Ids
         \/ call.op \in Two /\ \A k \in 1 .. 2 : call.args[k] \in Ids \cup {Unset}
         \/ call.op \in Three /\ \A k \in 1 .. 3 : call.args[k] \in Ids \cup {Unset}
         \/ call.op = "setgroups" /\ GroupsCall(call.args)
<1> DEFINE Or == Args \cup {Unset}
           Lists == {<<>>, [k \in 1 .. MaxGroups + 1 |-> 0]}
           G == {<<n, g>> : n \in {0, MaxGroups + 1}, g \in Lists}
           H == {<<1, <<u>>>> : u \in Args}
           L == {<<MaxGroups, [k \in 1 .. MaxGroups |-> u]>> : u \in Args}
<1>1. \/ call.op \in One /\ call.args \in {<<u>> : u \in Args}
      \/ call.op \in Two /\ call.args \in Or \X Or
      \/ call.op \in Three /\ call.args \in Or \X Or \X Or
      \/ call.op = "setgroups" /\ call.args \in G \cup H \cup {<<1, <<>>>>} \cup L
  BY DEF IdCalls, One, Two, Three
<1>2. Or \subseteq Ids \cup {Unset}
  BY SigsysAssumption
<1>3. ASSUME call.args \in {<<u>> : u \in Args} PROVE call.args[1] \in Ids
  BY <1>3, SigsysAssumption
<1>4. ASSUME call.args \in Or \X Or
      PROVE  \A k \in 1 .. 2 : call.args[k] \in Ids \cup {Unset}
  BY <1>2, <1>4
<1>5. ASSUME call.args \in Or \X Or \X Or
      PROVE  \A k \in 1 .. 3 : call.args[k] \in Ids \cup {Unset}
  BY <1>2, <1>5
<1>6. ASSUME call.args \in G PROVE GroupsCall(call.args)
  <2>1. Lists \subseteq Seq(Ids)
    <3>1. MaxGroups + 1 \in Nat /\ [k \in 1 .. MaxGroups + 1 |-> 0] \in Seq(Ids)
      BY IdAssumption, IsASeq
    <3>2. <<>> \in Seq(Ids)
      OBVIOUS
    <3> QED BY <3>1, <3>2
  <2> HIDE DEF Lists
  <2>2. PICK n \in {0, MaxGroups + 1}, g \in Lists : call.args = <<n, g>>
    BY <1>6
  <2>3. call.args[1] = n /\ call.args[2] \in Seq(Ids)
    BY <2>1, <2>2
  <2>4. n \in Nat /\ (n > MaxGroups \/ (n = 0 /\ n <= MaxGroups))
    BY IdAssumption
  <2>5. Len(call.args[2]) \in Nat
    BY <2>3, LenProperties
  <2> QED BY <2>3, <2>4, <2>5 DEF GroupsCall
<1>7. ASSUME call.args \in H PROVE GroupsCall(call.args)
  <2>1. PICK u \in Args : call.args = <<1, <<u>>>>
    BY <1>7
  <2>2. <<u>> \in Seq(Ids) /\ Len(<<u>>) = 1
    BY SigsysAssumption
  <2> QED BY <2>1, <2>2, IdAssumption DEF GroupsCall
<1>8. ASSUME call.args = <<1, <<>>>> PROVE GroupsCall(call.args)
  BY <1>8 DEF GroupsCall
<1>9. ASSUME call.args \in L PROVE GroupsCall(call.args)
  <2>1. PICK u \in Args : call.args = <<MaxGroups, [k \in 1 .. MaxGroups |-> u]>>
    BY <1>9
  <2>2. [k \in 1 .. MaxGroups |-> u] \in Seq(Ids) /\ Len([k \in 1 .. MaxGroups |-> u]) = MaxGroups
    BY IdAssumption, SigsysAssumption
  <2> QED BY <2>1, <2>2, IdAssumption DEF GroupsCall
<1> HIDE DEF G, H, L, Or
<1> QED BY <1>1, <1>3, <1>4, <1>5, <1>6, <1>7, <1>8, <1>9

(* A list cut to a length that it has. *)
LEMMA Cut ==
  ASSUME NEW list \in Seq(Ids), NEW n \in Nat, n <= Len(list)
  PROVE  SubSeq(list, 1, n) \in Seq(Ids) /\ Len(SubSeq(list, 1, n)) = n
<1>1. \A i \in 1 .. n : list[i] \in Ids
  BY ElementOfSeq, LenProperties
<1>2. /\ SubSeq(list, 1, n) \in Seq(Ids)
      /\ Len(SubSeq(list, 1, n)) = IF 1 <= n THEN n - 1 + 1 ELSE 0
  BY <1>1, SubSeqProperties
<1> QED BY <1>2

(* The setter of a call, whichever table its number comes from.            *)
LEMMA Tables ==
  ASSUME NEW call \in IdCalls
  PROVE  /\ call.op \in KernelSetters =>
              GuardOp[call.op] = LibcOp[call.op] /\ TrapOp[call.op] = LibcOp[call.op]
         /\ call.op \in DOMAIN LibcOp
<1>1. call.op \in One \cup Two \cup Three \cup {"setgroups"}
  BY CallShape
<1> QED BY <1>1 DEF KernelSetters, GuardOp, TrapOp, LibcOp, One, Two, Three

Root(i) == i \in Identities /\ i.caps /\ Len(i.groups) <= MaxGroups
Kinds == [r : Ids, e : Ids, s : Ids, f : Ids]

(* Each setter moves an id as the call means it. *)
LEMMA Moves ==
  ASSUME NEW q \in Kinds, NEW a
  PROVE  /\ \A op \in {"setuid", "setgid"} : Given(a[1]) => Moved(q, op, a) = SetId(q, a[1])
         /\ \A op \in {"setfsuid", "setfsgid"} : Moved(q, op, a) = [q EXCEPT !.f = IF Given(a[1]) THEN a[1] ELSE q.f]
         /\ \A op \in {"seteuid", "setegid"} : Given(a[1]) => Moved(q, op, a) = SetEid(q, a[1])
         /\ \A op \in Two : Moved(q, op, a) = SetReid(q, a[1], a[2])
         /\ \A op \in Three : Moved(q, op, a) = SetResid(q, a[1], a[2], a[3])
<1> USE DEF Kinds, Moved, To, Takes, SetId, Same, SetEid, SetReid, SetResid, Two, Three
<1>1. \A op \in {"setuid", "setgid"} : Given(a[1]) => Moved(q, op, a) = SetId(q, a[1])
  OBVIOUS
<1>2. \A op \in {"setfsuid", "setfsgid"} : Moved(q, op, a) = [q EXCEPT !.f = IF Given(a[1]) THEN a[1] ELSE q.f]
  OBVIOUS
<1>3. \A op \in {"seteuid", "setegid"} : Given(a[1]) => Moved(q, op, a) = SetEid(q, a[1])
  <2> SUFFICES ASSUME NEW op \in {"seteuid", "setegid"}, Given(a[1])
               PROVE  Moved(q, op, a) = SetEid(q, a[1])
    OBVIOUS
  <2>1. SetEid(q, a[1]) = [r |-> q.r, e |-> a[1], s |-> q.s, f |-> a[1]]
    <3>1. [q EXCEPT !.e = a[1]] = [r |-> q.r, e |-> a[1], s |-> q.s, f |-> q.f]
      OBVIOUS
    <3>2. [[r |-> q.r, e |-> a[1], s |-> q.s, f |-> q.f] EXCEPT !.f = a[1]]
            = [r |-> q.r, e |-> a[1], s |-> q.s, f |-> a[1]]
      OBVIOUS
    <3>3. SetEid(q, a[1]) = [[q EXCEPT !.e = a[1]] EXCEPT !.f = a[1]]
      OBVIOUS
    <3> QED BY <3>1, <3>2, <3>3
  <2>2. Moved(q, op, a) = [r |-> q.r, e |-> a[1], s |-> q.s, f |-> a[1]]
    OBVIOUS
  <2> QED BY <2>1, <2>2
<1>4. \A op \in Two : Moved(q, op, a) = SetReid(q, a[1], a[2])
  OBVIOUS
<1>5. \A op \in Three : Moved(q, op, a) = SetResid(q, a[1], a[2], a[3])
  OBVIOUS
<1> QED BY <1>1, <1>2, <1>3, <1>4, <1>5

LEMMA Meanings ==
  ASSUME NEW i, NEW call
  PROVE  /\ call.op \in OfUsers =>
              Meant(i, call) = Done([i EXCEPT !.uid = Moved(@, call.op, call.args)],
                                    IF call.op = "setfsuid" THEN i.uid.f ELSE 0)
         /\ call.op \notin OfUsers /\ call.op # "setgroups" =>
              Meant(i, call) = Done([i EXCEPT !.gid = Moved(@, call.op, call.args)],
                                    IF call.op = "setfsgid" THEN i.gid.f ELSE 0)
         /\ call.op = "setgroups" =>
              Meant(i, call) = SetGroups(i, call.args[1], call.args[2])
BY DEF Meant, OfUsers, SetGroups

LEMMA Groups ==
  ASSUME NEW i, NEW call, call.op = "setgroups"
  PROVE  Meant(i, call) =
           IF call.args[1] > MaxGroups \/ (call.args[1] > 0 /\ call.args[2] = <<>>)
           THEN Refused(i, "EINVAL")
           ELSE Done([i EXCEPT !.groups = SubSeq(call.args[2], 1, call.args[1])], 0)
BY DEF Meant, OfUsers

(* For a guest with root's rights the setters do what is meant.            *)
LEMMA SetterMeant ==
  ASSUME NEW i, Root(i), NEW call \in IdCalls
  PROVE  Setter(i, LibcOp[call.op], call.args) = Meant(i, call)
<1> DEFINE a == call.args
<1>1. i.uid \in Kinds /\ i.gid \in Kinds /\ i.caps
  BY DEF Root, Identities, Kinds
<1>2. call.op \in One => Given(a[1])
  BY CallShape, IdAssumption DEF Given, Unset, One, Two, Three
<1>3. call.op \in One \cup Two \cup Three \cup {"setgroups"}
  BY CallShape
<1>4. \A u : SetFsid(u, i.caps, a[1]) = [u EXCEPT !.f = a[1]]
  BY <1>1 DEF SetFsid
<1> HIDE DEF a
<1>5. /\ Setter(i, 1, a) = Done([i EXCEPT !.uid = SetId(@, a[1])], 0)
      /\ Setter(i, 2, a) = Done([i EXCEPT !.gid = SetId(@, a[1])], 0)
      /\ Setter(i, 3, a) = Done([i EXCEPT !.uid = SetReid(@, a[1], a[2])], 0)
      /\ Setter(i, 4, a) = Done([i EXCEPT !.gid = SetReid(@, a[1], a[2])], 0)
      /\ Setter(i, 5, a) = Done([i EXCEPT !.uid = SetResid(@, a[1], a[2], a[3])], 0)
      /\ Setter(i, 6, a) = Done([i EXCEPT !.gid = SetResid(@, a[1], a[2], a[3])], 0)
      /\ Setter(i, 7, a) = SetGroups(i, a[1], a[2])
      /\ Setter(i, 8, a) = Done([i EXCEPT !.uid = SetFsid(@, i.caps, a[1])], i.uid.f)
      /\ Setter(i, 9, a) = Done([i EXCEPT !.gid = SetFsid(@, i.caps, a[1])], i.gid.f)
      /\ Setter(i, 10, a) = Done([i EXCEPT !.uid = SetEid(@, a[1])], 0)
      /\ Setter(i, 11, a) = Done([i EXCEPT !.gid = SetEid(@, a[1])], 0)
  BY DEF Setter
<1>6. CASE call.op = "setuid"
  <2>1. Moved(i.uid, call.op, a) = SetId(i.uid, a[1])
    BY <1>1, <1>2, <1>4, <1>6, Moves DEF One, Two, Three
  <2>2. Setter(i, LibcOp[call.op], a) = Done([i EXCEPT !.uid = SetId(@, a[1])], 0)
    BY <1>5, <1>6 DEF LibcOp
  <2>3. Meant(i, call) = Done([i EXCEPT !.uid = Moved(@, call.op, a)], 0)
    BY <1>6, Meanings DEF OfUsers, a
  <2> QED BY <2>1, <2>2, <2>3 DEF a
<1>7. CASE call.op = "setgid"
  <2>1. Moved(i.gid, call.op, a) = SetId(i.gid, a[1])
    BY <1>1, <1>2, <1>4, <1>7, Moves DEF One, Two, Three
  <2>2. Setter(i, LibcOp[call.op], a) = Done([i EXCEPT !.gid = SetId(@, a[1])], 0)
    BY <1>5, <1>7 DEF LibcOp
  <2>3. Meant(i, call) = Done([i EXCEPT !.gid = Moved(@, call.op, a)], 0)
    BY <1>7, Meanings DEF OfUsers, a
  <2> QED BY <2>1, <2>2, <2>3 DEF a
<1>8. CASE call.op = "setreuid"
  <2>1. Moved(i.uid, call.op, a) = SetReid(i.uid, a[1], a[2])
    BY <1>1, <1>2, <1>4, <1>8, Moves DEF One, Two, Three
  <2>2. Setter(i, LibcOp[call.op], a) = Done([i EXCEPT !.uid = SetReid(@, a[1], a[2])], 0)
    BY <1>5, <1>8 DEF LibcOp
  <2>3. Meant(i, call) = Done([i EXCEPT !.uid = Moved(@, call.op, a)], 0)
    BY <1>8, Meanings DEF OfUsers, a
  <2> QED BY <2>1, <2>2, <2>3 DEF a
<1>9. CASE call.op = "setregid"
  <2>1. Moved(i.gid, call.op, a) = SetReid(i.gid, a[1], a[2])
    BY <1>1, <1>2, <1>4, <1>9, Moves DEF One, Two, Three
  <2>2. Setter(i, LibcOp[call.op], a) = Done([i EXCEPT !.gid = SetReid(@, a[1], a[2])], 0)
    BY <1>5, <1>9 DEF LibcOp
  <2>3. Meant(i, call) = Done([i EXCEPT !.gid = Moved(@, call.op, a)], 0)
    BY <1>9, Meanings DEF OfUsers, a
  <2> QED BY <2>1, <2>2, <2>3 DEF a
<1>10. CASE call.op = "setresuid"
  <2>1. Moved(i.uid, call.op, a) = SetResid(i.uid, a[1], a[2], a[3])
    BY <1>1, <1>2, <1>4, <1>10, Moves DEF One, Two, Three
  <2>2. Setter(i, LibcOp[call.op], a) = Done([i EXCEPT !.uid = SetResid(@, a[1], a[2], a[3])], 0)
    BY <1>5, <1>10 DEF LibcOp
  <2>3. Meant(i, call) = Done([i EXCEPT !.uid = Moved(@, call.op, a)], 0)
    BY <1>10, Meanings DEF OfUsers, a
  <2> QED BY <2>1, <2>2, <2>3 DEF a
<1>11. CASE call.op = "setresgid"
  <2>1. Moved(i.gid, call.op, a) = SetResid(i.gid, a[1], a[2], a[3])
    BY <1>1, <1>2, <1>4, <1>11, Moves DEF One, Two, Three
  <2>2. Setter(i, LibcOp[call.op], a) = Done([i EXCEPT !.gid = SetResid(@, a[1], a[2], a[3])], 0)
    BY <1>5, <1>11 DEF LibcOp
  <2>3. Meant(i, call) = Done([i EXCEPT !.gid = Moved(@, call.op, a)], 0)
    BY <1>11, Meanings DEF OfUsers, a
  <2> QED BY <2>1, <2>2, <2>3 DEF a
<1>12. CASE call.op = "setfsuid"
  <2>1. Moved(i.uid, call.op, a) = SetFsid(i.uid, i.caps, a[1])
    BY <1>1, <1>2, <1>4, <1>12, Moves DEF One, Two, Three
  <2>2. Setter(i, LibcOp[call.op], a) = Done([i EXCEPT !.uid = SetFsid(@, i.caps, a[1])], i.uid.f)
    BY <1>5, <1>12 DEF LibcOp
  <2>3. Meant(i, call) = Done([i EXCEPT !.uid = Moved(@, call.op, a)], i.uid.f)
    BY <1>12, Meanings DEF OfUsers, a
  <2> QED BY <2>1, <2>2, <2>3 DEF a
<1>13. CASE call.op = "setfsgid"
  <2>1. Moved(i.gid, call.op, a) = SetFsid(i.gid, i.caps, a[1])
    BY <1>1, <1>2, <1>4, <1>13, Moves DEF One, Two, Three
  <2>2. Setter(i, LibcOp[call.op], a) = Done([i EXCEPT !.gid = SetFsid(@, i.caps, a[1])], i.gid.f)
    BY <1>5, <1>13 DEF LibcOp
  <2>3. Meant(i, call) = Done([i EXCEPT !.gid = Moved(@, call.op, a)], i.gid.f)
    BY <1>13, Meanings DEF OfUsers, a
  <2> QED BY <2>1, <2>2, <2>3 DEF a
<1>14. CASE call.op = "seteuid"
  <2>1. Moved(i.uid, call.op, a) = SetEid(i.uid, a[1])
    BY <1>1, <1>2, <1>4, <1>14, Moves DEF One, Two, Three
  <2>2. Setter(i, LibcOp[call.op], a) = Done([i EXCEPT !.uid = SetEid(@, a[1])], 0)
    BY <1>5, <1>14 DEF LibcOp
  <2>3. Meant(i, call) = Done([i EXCEPT !.uid = Moved(@, call.op, a)], 0)
    BY <1>14, Meanings DEF OfUsers, a
  <2> QED BY <2>1, <2>2, <2>3 DEF a
<1>15. CASE call.op = "setegid"
  <2>1. Moved(i.gid, call.op, a) = SetEid(i.gid, a[1])
    BY <1>1, <1>2, <1>4, <1>15, Moves DEF One, Two, Three
  <2>2. Setter(i, LibcOp[call.op], a) = Done([i EXCEPT !.gid = SetEid(@, a[1])], 0)
    BY <1>5, <1>15 DEF LibcOp
  <2>3. Meant(i, call) = Done([i EXCEPT !.gid = Moved(@, call.op, a)], 0)
    BY <1>15, Meanings DEF OfUsers, a
  <2> QED BY <2>1, <2>2, <2>3 DEF a
<1>16. CASE call.op = "setgroups"
  <2>1. LibcOp[call.op] = 7
    BY <1>16 DEF LibcOp
  <2>2. Setter(i, 7, a) = SetGroups(i, a[1], a[2])
    BY <1>5
  <2>3. Meant(i, call) = SetGroups(i, a[1], a[2])
    BY <1>16, Meanings DEF a
  <2> QED BY <2>1, <2>2, <2>3 DEF a
<1> QED
  BY <1>3, <1>6, <1>7, <1>8, <1>9, <1>10, <1>11, <1>12,
     <1>13, <1>14, <1>15, <1>16 DEF One, Two, Three

(* What is meant leaves the guest an identity, with root's rights.         *)
LEMMA MeantRoot ==
  ASSUME NEW i, Root(i), NEW call \in IdCalls
  PROVE  Root(Meant(i, call).ids) /\ Meant(i, call).ids.on = i.on
<1> DEFINE a == call.args
<1>1. i \in Identities /\ i.uid \in Kinds /\ i.gid \in Kinds /\ i.caps
  BY DEF Root, Identities, Kinds
<1>2. CASE call.op = "setgroups"
  <2>1. GroupsCall(a)
    BY <1>2, CallShape DEF One, Two, Three
  <2>2. CASE a[1] > MaxGroups \/ (a[1] > 0 /\ a[2] = <<>>)
    <3>1. Meant(i, call) = Refused(i, "EINVAL")
      BY <1>2, <2>2, Groups
    <3>2. Meant(i, call).ids = i
      BY <3>1 DEF Refused
    <3> QED BY <3>2
  <2>3. CASE ~(a[1] > MaxGroups \/ (a[1] > 0 /\ a[2] = <<>>))
    <3>1. a[1] \in Nat /\ a[1] <= MaxGroups /\ a[2] \in Seq(Ids) /\ a[1] <= Len(a[2])
      BY <2>1, <2>3 DEF GroupsCall
    <3> DEFINE g == SubSeq(a[2], 1, a[1])
    <3>2. g \in Seq(Ids) /\ Len(g) = a[1]
      BY <3>1, Cut
    <3>3. Meant(i, call).ids = [i EXCEPT !.groups = g]
      <4>1. Meant(i, call) = Done([i EXCEPT !.groups = g], 0)
        BY <1>2, <2>3, Groups
      <4> QED BY <4>1 DEF Done
    <3> HIDE DEF g
    <3> QED BY <1>1, <3>1, <3>2, <3>3 DEF Root, Identities
  <2> QED BY <2>2, <2>3
<1>3. CASE call.op # "setgroups"
  <2>1. call.op \in One \cup Two \cup Three
    BY <1>3, CallShape
  <2>2. \A k \in {"r", "e", "s", "f"} :
          LET n == Takes[call.op][k] IN n = 0 \/ ~Given(a[n]) \/ a[n] \in Ids
    <3>1. \A n \in 1 .. 3 : n = 1 \/ (n = 2 /\ call.op \notin One) \/ call.op \in Three
                            => ~Given(a[n]) \/ a[n] \in Ids
      BY <1>3, <2>1, CallShape DEF One, Two, Three, Given
    <3>2. \A k \in {"r", "e", "s", "f"} :
            LET n == Takes[call.op][k]
            IN n = 0 \/ n = 1 \/ (n = 2 /\ call.op \notin One) \/ (n = 3 /\ call.op \in Three)
      BY <2>1 DEF Takes, To, One, Two, Three
    <3> QED BY <3>1, <3>2
  <2>3. \A q \in Kinds : Moved(q, call.op, a) \in Kinds
    <3> SUFFICES ASSUME NEW q \in Kinds PROVE Moved(q, call.op, a) \in Kinds
      OBVIOUS
    <3>1. \A k \in {"r", "e", "s", "f"} : Moved(q, call.op, a)[k] \in Ids
      BY <2>2 DEF Moved, Kinds
    <3>2. Moved(q, call.op, a) = [k \in {"r", "e", "s", "f"} |-> Moved(q, call.op, a)[k]]
      BY DEF Moved
    <3> QED BY <3>1, <3>2 DEF Kinds
  <2>4. PICK q \in Kinds : \/ Meant(i, call).ids = [i EXCEPT !.uid = q]
                           \/ Meant(i, call).ids = [i EXCEPT !.gid = q]
    <3>1. CASE call.op \in OfUsers
      BY <1>1, <1>3, <2>3, <3>1, Meanings DEF Done
    <3>2. CASE call.op \notin OfUsers
      BY <1>1, <1>3, <2>3, <3>2, Meanings DEF Done
    <3> QED BY <3>1, <3>2
  <2> QED BY <1>1, <2>4 DEF Root, Identities, Kinds
<1> QED BY <1>2, <1>3

(* A setter that is carried out twice sets nothing else the second time.   *)
LEMMA MeantTwice ==
  ASSUME NEW i, Root(i), NEW call \in IdCalls
  PROVE  LET one == Meant(i, call)
             two == Meant(one.ids, call)
         IN two.ids = one.ids /\ two.err = one.err /\ (TellsOld(call) \/ two.ret = one.ret)
<1> DEFINE a == call.args
           j == Meant(i, call).ids
<1>1. i \in Identities /\ i.uid \in Kinds /\ i.gid \in Kinds
  BY DEF Root, Identities, Kinds
<1>2. \A q \in Kinds : Moved(Moved(q, call.op, a), call.op, a) = Moved(q, call.op, a)
  BY DEF Moved
<1>3. CASE call.op = "setgroups"
  <2>1. CASE a[1] > MaxGroups \/ (a[1] > 0 /\ a[2] = <<>>)
    <3>1. Meant(i, call) = Refused(i, "EINVAL")
      BY <1>3, <2>1, Groups
    <3>2. j = i
      BY <3>1 DEF Refused
    <3> QED BY <3>2
  <2>2. CASE ~(a[1] > MaxGroups \/ (a[1] > 0 /\ a[2] = <<>>))
    <3> DEFINE g == SubSeq(a[2], 1, a[1])
    <3>1. Meant(i, call) = Done([i EXCEPT !.groups = g], 0)
      BY <1>3, <2>2, Groups
    <3>2. j = [i EXCEPT !.groups = g]
      BY <3>1 DEF Done
    <3>3. Meant(j, call) = Done([j EXCEPT !.groups = g], 0)
      BY <1>3, <2>2, Groups
    <3> HIDE DEF g
    <3>4. [j EXCEPT !.groups = g] = j
      BY <1>1, <3>2 DEF Identities
    <3> HIDE DEF j
    <3> QED BY <3>1, <3>2, <3>3, <3>4 DEF Done, j
  <2> QED BY <2>1, <2>2
<1>4. CASE call.op # "setgroups" /\ call.op \in OfUsers
  <2> DEFINE q == Moved(i.uid, call.op, a)
  <2>1. Meant(i, call) = Done([i EXCEPT !.uid = q], IF call.op = "setfsuid" THEN i.uid.f ELSE 0)
    BY <1>4, Meanings
  <2>2. j = [i EXCEPT !.uid = q]
    BY <2>1 DEF Done
  <2>3. Meant(j, call) = Done([j EXCEPT !.uid = Moved(j.uid, call.op, a)],
                              IF call.op = "setfsuid" THEN j.uid.f ELSE 0)
    BY <1>4, Meanings
  <2>4. Moved(j.uid, call.op, a) = q
    BY <1>1, <1>2, <2>2 DEF Identities
  <2> HIDE DEF q
  <2>5. [j EXCEPT !.uid = q] = j
    BY <1>1, <2>2 DEF Identities
  <2>6. /\ Meant(j, call).ids = j /\ Meant(j, call).err = "OK"
        /\ ~TellsOld(call) => Meant(j, call).ret = 0
    BY <2>3, <2>4, <2>5 DEF Done, TellsOld
  <2>7. /\ Meant(i, call).err = "OK"
        /\ ~TellsOld(call) => Meant(i, call).ret = 0
    BY <2>1 DEF Done, TellsOld
  <2> HIDE DEF j
  <2> QED BY <2>6, <2>7 DEF j
<1>5. CASE call.op # "setgroups" /\ call.op \notin OfUsers
  <2> DEFINE q == Moved(i.gid, call.op, a)
  <2>1. Meant(i, call) = Done([i EXCEPT !.gid = q], IF call.op = "setfsgid" THEN i.gid.f ELSE 0)
    BY <1>5, Meanings
  <2>2. j = [i EXCEPT !.gid = q]
    BY <2>1 DEF Done
  <2>3. Meant(j, call) = Done([j EXCEPT !.gid = Moved(j.gid, call.op, a)],
                              IF call.op = "setfsgid" THEN j.gid.f ELSE 0)
    BY <1>5, Meanings
  <2>4. Moved(j.gid, call.op, a) = q
    BY <1>1, <1>2, <2>2 DEF Identities
  <2> HIDE DEF q
  <2>5. [j EXCEPT !.gid = q] = j
    BY <1>1, <2>2 DEF Identities
  <2>6. /\ Meant(j, call).ids = j /\ Meant(j, call).err = "OK"
        /\ ~TellsOld(call) => Meant(j, call).ret = 0
    BY <2>3, <2>4, <2>5 DEF Done, TellsOld
  <2>7. /\ Meant(i, call).err = "OK"
        /\ ~TellsOld(call) => Meant(i, call).ret = 0
    BY <2>1 DEF Done, TellsOld
  <2> HIDE DEF j
  <2> QED BY <2>6, <2>7 DEF j
<1> QED BY <1>3, <1>4, <1>5

(* What the kernel, or the handler of its trap, does first.                *)
LEMMA SvcFirst ==
  ASSUME Rooted, Types, ids.on, NEW call \in IdCalls, call.op \in KernelSetters
  PROVE  /\ \/ SvcIds(call) = Meant(ids, call) /\ "setid" \in OuterTraps
            \/ SvcIds(call).ids = ids
         /\ Svc(Traps, "setid", RuntimeIp) = "emulated" =>
              SvcIds(call) = Meant(ids, call) /\ "setid" \in OuterTraps
<1>1. Root(ids)
  BY DEF Rooted, Root
<1>2. Emulated(ids, call) = Meant(ids, call)
  BY <1>1, SetterMeant, Tables DEF Emulated
<1> DEFINE out == Svc(Traps, "setid", RuntimeIp)
<1>3. out = "emulated" => "setid" \in OuterTraps
  BY DEF Svc, Trapped, Caught, FilterCalls
<1> HIDE DEF out
<1>4. SvcIds(call) = CASE out = "emulated" -> Emulated(ids, call)
                       [] out = "kernel" -> ByKernel(ids)
                       [] OTHER -> Refused(ids, out)
  BY DEF SvcIds, out
<1>5. ByKernel(ids).ids = ids /\ Refused(ids, out).ids = ids
  BY DEF ByKernel, Refused
<1> QED BY <1>2, <1>3, <1>4, <1>5 DEF out

(* Every answer leaves the guest an identity.                              *)
LEMMA AnswersRoot ==
  ASSUME Rooted, Types, NEW call \in IdCalls, NEW ans \in Answers(call)
  PROVE  ans.ids = ids \/ (ids.on /\ Root(ans.ids) /\ ans.ids.on = ids.on)
<1>1. CASE ~ids.on
  <2>1. ByLibc(ids, call).ids = ids
    BY <1>1 DEF ByLibc, ByKernel
  <2>2. SvcIds(call).ids = ids
    <3>1. Emulated(ids, call).ids = ids /\ ByKernel(ids).ids = ids
      BY <1>1 DEF Emulated, Refused, ByKernel
    <3>2. Refused(ids, Svc(Traps, "setid", RuntimeIp)).ids = ids
      BY DEF Refused
    <3> QED BY <3>1, <3>2 DEF SvcIds
  <2>3. ByGuard(ids, call, SvcIds(call)) = SvcIds(call)
    BY <1>1 DEF ByGuard
  <2>4. ans \in {ByLibc(ids, call), SvcIds(call), ByGuard(ids, call, SvcIds(call))}
    BY DEF Answers
  <2> QED BY <2>1, <2>2, <2>3, <2>4
<1>2. CASE ids.on
  <2>1. Root(ids)
    BY <1>2 DEF Rooted, Root
  <2>2. ByLibc(ids, call) = Meant(ids, call)
    BY <1>2, <2>1, SetterMeant DEF ByLibc
  <2>3. ASSUME call.op \in KernelSetters
        PROVE  /\ SvcIds(call).ids \in {ids, Meant(ids, call).ids}
               /\ ByGuard(ids, call, SvcIds(call)).ids
                    \in {Meant(ids, call).ids, Meant(Meant(ids, call).ids, call).ids}
    <3>1. SvcIds(call).ids \in {ids, Meant(ids, call).ids}
      BY <1>2, <2>3, SvcFirst
    <3>2. Root(SvcIds(call).ids)
      BY <2>1, <3>1, MeantRoot
    <3>3. ByGuard(ids, call, SvcIds(call)) = Meant(SvcIds(call).ids, call)
      BY <1>2, <2>3, <3>2, SetterMeant, Tables DEF ByGuard
    <3> QED BY <3>1, <3>3
  <2>4. \/ ans = ByLibc(ids, call)
        \/ call.op \in KernelSetters
           /\ ans \in {SvcIds(call), ByGuard(ids, call, SvcIds(call))}
    BY DEF Answers
  <2>5. ans.ids \in {ids, Meant(ids, call).ids, Meant(Meant(ids, call).ids, call).ids}
    BY <2>2, <2>3, <2>4
  <2>6. Root(Meant(ids, call).ids) /\ Meant(ids, call).ids.on = ids.on
    BY <2>1, MeantRoot
  <2>7. LET twice == Meant(Meant(ids, call).ids, call).ids
        IN Root(twice) /\ twice.on = ids.on
    BY <2>6, MeantRoot
  <2> QED BY <1>2, <2>5, <2>6, <2>7
<1> QED BY <1>1, <1>2 DEF Rooted, Identities

LEMMA SetIdsIInv ==
  ASSUME IInv, SetIds
  PROVE  IInv'
<1> USE DEF SetIds, IInv, imageVars, sigVars
<1>1. Types'
  BY SigsysAssumption DEF Types
<1>2. Apart'
  BY DEF Apart, Static
<1>3. Excuses'
  BY DEF Excuses, Excused, Masking
<1>4. Sealed'
  BY DEF Sealed, Protected, Static
<1>5. Begun'
  BY DEF Begun, Dynamic
<1>6. Rooted'
  <2>1. PICK call \in IdCalls : \E ans \in Answers(call) : ids' = ans.ids
    BY Zenon
  <2>2. PICK ans \in Answers(call) : ids' = ans.ids
    BY <2>1, Zenon
  <2>3. ids' = ids \/ (ids.on /\ Root(ids') /\ ids'.on = ids.on)
    BY <2>2, AnswersRoot
  <2> QED BY <2>3 DEF Rooted, Root, Identities
<1> QED BY <1>1, <1>2, <1>3, <1>4, <1>5, <1>6

-----------------------------------------------------------------------------
(* The theorems. *)

LEMMA StutterIInv ==
  ASSUME IInv, UNCHANGED vars
  PROVE  IInv'
<1> USE DEF vars, IInv, imageVars, sigVars
<1>1. Types'
  BY DEF Types
<1>2. Apart'
  BY DEF Apart, Static
<1>3. Excuses'
  BY DEF Excuses, Excused, Masking
<1>4. Sealed'
  BY DEF Sealed, Protected, Static
<1>5. Begun'
  BY DEF Begun, Dynamic
<1>6. Rooted'
  BY DEF Rooted
<1> QED BY <1>1, <1>2, <1>3, <1>4, <1>5, <1>6

LEMMA NextIInv == IInv /\ [Next]_vars => IInv'
BY ExecIInv, InstallIInv, StaticExecIInv, AskByLibcIInv, AskBySvcIInv, AskByGuardIInv,
  MaskByLibcIInv, MaskBySvcIInv, HandleIInv, InterruptedIInv, SentSigsysIInv,
  ReturnIInv, CallIInv, SetIdsIInv, StutterIInv DEF Next

LEMMA SpecIInv == Spec => []IInv
BY InitIInv, NextIInv, PTL DEF Spec

LEMMA IInvTypeOK == IInv => TypeOK
<1> SUFFICES ASSUME IInv PROVE TypeOK
  OBVIOUS
<1>1. /\ ids.uid \in [r : Ids, e : Ids, s : Ids, f : Ids]
      /\ ids.gid \in [r : Ids, e : Ids, s : Ids, f : Ids]
  BY DEF IInv, Rooted, Identities
<1>2. \A q \in {ids.uid, ids.gid} : {q.r, q.e, q.s, q.f} \subseteq Ids
  BY <1>1
<1>3. /\ image.kind \in {"starting", "dynamic", "static"}
      /\ image.fallback \in BOOLEAN /\ image.at \in Ranges \cup {Away}
  BY DEF IInv, Types
<1> QED BY <1>2, <1>3 DEF IInv, Types, Apart, Rooted, TypeOK

LEMMA IInvTrapsAnswered == IInv => TrapsAnswered
<1> SUFFICES ASSUME IInv PROVE TrapsAnswered
  OBVIOUS
<1> DEFINE safe == /\ fate \notin {"killed", "misled"} /\ ~blocked
                   /\ disp \in {"early", "layer", "fallback"}
<1>1. Protected => safe
  BY DEF IInv, Sealed
<1>2. ~safe => Excused(Len(frames))
  BY DEF IInv, Types, Excuses, Excused
<1>3. Masking(Len(frames)) => \E i \in DOMAIN frames : frames[i].masks
  BY LenProperties DEF IInv, Types, Masking
<1> QED BY <1>1, <1>2, <1>3 DEF Excused, TrapsAnswered

(* In every image, whatever the guest does to SIGSYS and whatever the      *)
(* host's filter traps, a trapped call is answered by the runtime unless   *)
(* the guest went behind its back (sigsys.c:787, seccomp_fallback.c:190).  *)
THEOREM SigsysTrapsSound == Spec => []TrapsSound
<1>1. IInv => TrapsSound
  BY IInvTypeOK, IInvTrapsAnswered DEF TrapsSound
<1> QED BY <1>1, SpecIInv, PTL

(* The guest is shown the handler of SIGSYS that its image asked for       *)
(* (sigsys.c:787, seccomp_fallback.c:296).                                 *)
THEOREM SigsysOwnHandler == Spec => []OwnHandler
<1>1. IInv => OwnHandler
  BY DEF IInv, Begun, Sealed, OwnHandler
<1> QED BY <1>1, SpecIInv, PTL

(* For any ranges, any width of a word and any address, no call of an      *)
(* image under its filter slips by, and no other code is trapped           *)
(* (seccomp_fallback.c:100).                                               *)
THEOREM SigsysNothingSlipsBy == Spec => []NothingSlipsBy
<1>1. IInv => NothingSlipsBy
  <2> SUFFICES ASSUME IInv PROVE NothingSlipsBy
    OBVIOUS
  <2>1. ASSUME NEW ip \in RuntimeIp .. Away.hi,
               \A r \in filters : ip \notin r.lo .. r.hi - 1
        PROVE  ~Caught(Traps, "path", ip)
    <3>1. ip \in Nat
      BY SigsysAssumption DEF RuntimeIp
    <3>2. \A r \in filters : r \in [lo : Nat, hi : Nat]
      BY SigsysAssumption DEF IInv, Types
    <3>3. \A r \in filters : ~InFilter(r, ip)
      BY <2>1, <3>1, <3>2, FilterExact
    <3>4. Traps.filters = filters
      BY DEF Traps
    <3> QED BY <3>3, <3>4 DEF Caught
  <2> QED BY <2>1, SealedSvc DEF IInv, NothingSlipsBy
<1> QED BY <1>1, SpecIInv, PTL

(* Whichever way an identity is set or shown, in every image, it is one    *)
(* (syscall_guard.c:2956, :2563).                                          *)
THEOREM SigsysOneIdentity == Spec => []OneIdentity
<1>1. IInv => EveryRouteSets
  <2> SUFFICES ASSUME IInv, ids.on, NEW call \in IdCalls
               PROVE  /\ ByLibc(ids, call) = Meant(ids, call)
                      /\ call.op \in KernelSetters =>
                           LET meant == Meant(ids, call)
                               guard == ByGuard(ids, call, SvcIds(call))
                           IN /\ guard.ids = meant.ids /\ guard.err = meant.err
                              /\ guard.ret = meant.ret
                                 \/ (TellsOld(call) /\ "setid" \in OuterTraps)
                              /\ Svc(Traps, "setid", RuntimeIp) = "emulated"
                                   => SvcIds(call) = meant
    BY Zenon DEF EveryRouteSets
  <2>1. Root(ids) /\ Rooted /\ Types
    BY DEF IInv, Rooted, Root
  <2>2. ByLibc(ids, call) = Meant(ids, call)
    BY <2>1, SetterMeant DEF ByLibc
  <2>3. ASSUME call.op \in KernelSetters
        PROVE  LET meant == Meant(ids, call)
                   guard == ByGuard(ids, call, SvcIds(call))
               IN /\ guard.ids = meant.ids /\ guard.err = meant.err
                  /\ guard.ret = meant.ret \/ (TellsOld(call) /\ "setid" \in OuterTraps)
                  /\ Svc(Traps, "setid", RuntimeIp) = "emulated" => SvcIds(call) = meant
    <3>1. Root(SvcIds(call).ids)
      BY <2>1, <2>3, SvcFirst, MeantRoot
    <3>2. ByGuard(ids, call, SvcIds(call)) = Meant(SvcIds(call).ids, call)
      BY <2>3, <3>1, SetterMeant, Tables DEF ByGuard
    <3>3. CASE SvcIds(call).ids = ids
      BY <2>1, <2>3, <3>2, <3>3, SvcFirst
    <3>4. CASE SvcIds(call).ids # ids
      <4>1. SvcIds(call) = Meant(ids, call) /\ "setid" \in OuterTraps
        BY <2>1, <2>3, <3>4, SvcFirst
      <4>2. ByGuard(ids, call, SvcIds(call)) = Meant(Meant(ids, call).ids, call)
        BY <3>2, <4>1
      <4> QED BY <2>1, <4>1, <4>2, MeantTwice
    <3> QED BY <3>3, <3>4
  <2> QED BY <2>2, <2>3
<1>2. IInv => EveryRouteShows
  <2> SUFFICES ASSUME IInv PROVE EveryRouteShows
    OBVIOUS
  <2>1. \A what \in {"uid", "euid", "gid", "egid"} :
          LibcGet(ids, what, 0) = GuardGet(ids, what, 0)
    BY DEF LibcGet, GuardGet, IdsShown, GuardIds
  <2>2. \A what \in {"resuid", "resgid"}, ptrs \in (SUBSET {"r", "e", "s"}) \ {{}} :
          LibcGet(ids, what, ptrs) = GuardGet(ids, what, ptrs)
    BY DEF LibcGet, GuardGet, GuardRes
  <2>3. \A size \in 0 .. MaxGroups :
          LibcGet(ids, "groups", size) = GuardGet(ids, "groups", size)
    BY IdAssumption, LenProperties DEF IInv, Rooted, Identities, LibcGet, GuardGet, GuardGroups
  <2> QED BY <2>1, <2>2, <2>3 DEF EveryRouteShows
<1>3. IInv => OneIdentity
  BY <1>1, <1>2 DEF OneIdentity
<1> QED BY <1>3, SpecIInv, PTL
=============================================================================
