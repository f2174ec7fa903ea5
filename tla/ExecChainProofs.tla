--------------------------- MODULE ExecChainProofs ---------------------------
(* Proofs about ExecChain, for any files, any kinds of them and any links and
   interpreters between them, any environments that programs make, and any
   number of starts. *)
EXTENDS ExecChain, NaturalsInduction, WellFoundedInduction, TLAPS

LEMMA LeastNatural ==
  ASSUME NEW S, S \subseteq Nat, S # {}
  PROVE  \E i \in S : \A j \in S : i <= j
<1> DEFINE R == OpToRel(<, Nat)
<1>1. IsWellFoundedOn(R, Nat)
  BY NatLessThanWellFounded
<1>2. \A x, y \in Nat : <<y, x>> \in R <=> y < x
  BY DEF OpToRel
<1> HIDE DEF R
<1>3. PICK i \in S : \A j \in S : ~(<<j, i>> \in R)
  BY <1>1, WFMin
<1>4. \A j \in S : ~(j < i)
  BY <1>2, <1>3, Zenon
<1>5. i \in Nat /\ S \subseteq Nat
  OBVIOUS
<1> QED BY <1>4, <1>5

-----------------------------------------------------------------------------
(* Lists of libraries. *)

(* What Without computes, word by word: the recursion has a solution. *)
Sieved(s, w, g, m) ==
  [n \in 0 .. m |->
     IF n = 0 THEN <<>>
     ELSE IF s[n] = w THEN g[n - 1] ELSE Append(g[n - 1], s[n])]

LEMMA WithoutRecursion ==
  ASSUME NEW s, NEW N \in Nat, NEW w
  PROVE  \E g : g = Sieved(s, w, g, N)
<1> DEFINE Missing == {m \in Nat : ~\E g : g = Sieved(s, w, g, m)}
<1> SUFFICES ASSUME Missing # {} PROVE FALSE
  OBVIOUS
<1>1. PICK m \in Missing : \A j \in Missing : m <= j
  <2>1. Missing \subseteq Nat
    OBVIOUS
  <2> HIDE DEF Missing
  <2> QED BY <2>1, LeastNatural
<1>2. m \in Nat /\ ~\E g : g = Sieved(s, w, g, m)
  OBVIOUS
<1>3. CASE m = 0
  <2> DEFINE g == [n \in 0 .. 0 |-> <<>>]
  <2>1. g = Sieved(s, w, g, 0)
    BY DEF Sieved
  <2> QED BY <1>2, <1>3, <2>1
<1>4. CASE m # 0
  <2>1. m - 1 \in Nat /\ m - 1 \notin Missing
    <3> HIDE DEF Missing
    <3> QED BY <1>1, <1>2, <1>4
  <2>2. PICK h : h = Sieved(s, w, h, m - 1)
    BY <2>1
  <2> DEFINE g == [n \in 0 .. m |->
                     IF n < m THEN h[n]
                     ELSE IF s[n] = w THEN h[n - 1] ELSE Append(h[n - 1], s[n])]
  <2>3. ASSUME NEW n \in 0 .. m
        PROVE  g[n] = IF n = 0 THEN <<>>
                      ELSE IF s[n] = w THEN g[n - 1] ELSE Append(g[n - 1], s[n])
    <3>1. CASE n = m
      BY <1>2, <1>4, <3>1
    <3>2. CASE n < m
      <4>1. n \in 0 .. m - 1 /\ g[n] = h[n]
        BY <1>2, <3>2
      <4>2. h[n] = IF n = 0 THEN <<>>
                   ELSE IF s[n] = w THEN h[n - 1] ELSE Append(h[n - 1], s[n])
        BY <2>2, <4>1 DEF Sieved
      <4>3. n # 0 => g[n - 1] = h[n - 1]
        BY <1>2, <4>1
      <4> QED BY <4>1, <4>2, <4>3
    <3> QED BY <1>2, <3>1, <3>2
  <2>4. g = Sieved(s, w, g, m)
    BY <2>3 DEF Sieved
  <2> QED BY <1>2, <2>4
<1> QED BY <1>3, <1>4

(* Nothing is lost but the word itself. *)
LEMMA WithoutKeeps ==
  ASSUME NEW S, NEW s \in Seq(S), NEW w
  PROVE  /\ Without(s, w) \in Seq(S)
         /\ \A x \in ToSet(s) : x # w => x \in ToSet(Without(s, w))
<1> DEFINE Rest[n \in 0 .. Len(s)] ==
             IF n = 0 THEN <<>>
             ELSE IF s[n] = w THEN Rest[n - 1] ELSE Append(Rest[n - 1], s[n])
<1>1. Without(s, w) = Rest[Len(s)]
  BY DEF Without
<1>2. Rest = [n \in 0 .. Len(s) |->
                IF n = 0 THEN <<>>
                ELSE IF s[n] = w THEN Rest[n - 1] ELSE Append(Rest[n - 1], s[n])]
  <2> HIDE DEF Rest
  <2>1. Len(s) \in Nat
    OBVIOUS
  <2>2. \E g : g = Sieved(s, w, g, Len(s))
    BY <2>1, WithoutRecursion
  <2> QED BY <2>2 DEF Rest, Sieved
<1> HIDE DEF Rest
<1> DEFINE Good(n) == /\ Rest[n] \in Seq(S)
                      /\ \A i \in 1 .. n : s[i] # w =>
                           \E j \in 1 .. Len(Rest[n]) : Rest[n][j] = s[i]
           Bad == {n \in 0 .. Len(s) : ~Good(n)}
<1>3. Bad = {}
  <2> SUFFICES ASSUME Bad # {} PROVE FALSE
    OBVIOUS
  <2>1. PICK n \in Bad : \A j \in Bad : n <= j
    <3>1. Bad \subseteq Nat
      OBVIOUS
    <3> HIDE DEF Bad
    <3> QED BY <3>1, LeastNatural
  <2>2. n \in 0 .. Len(s) /\ ~Good(n) /\ n # 0
    <3>1. n \in 0 .. Len(s) /\ ~Good(n)
      OBVIOUS
    <3>2. Good(0)
      BY <1>2
    <3> QED BY <3>1, <3>2
  <2>3. Good(n - 1) /\ n - 1 \in 0 .. Len(s) /\ n \in 1 .. Len(s) /\ s[n] \in S
    BY <2>1, <2>2
  <2>4. Rest[n] = IF s[n] = w THEN Rest[n - 1] ELSE Append(Rest[n - 1], s[n])
    BY <1>2, <2>2
  <2>5. CASE s[n] = w
    BY <2>2, <2>3, <2>4, <2>5
  <2>6. CASE s[n] # w
    <3> DEFINE r == Rest[n - 1]
    <3>1. r \in Seq(S) /\ Rest[n] = Append(r, s[n])
      BY <2>3, <2>4, <2>6
    <3> HIDE DEF r
    <3>2. /\ Rest[n] \in Seq(S) /\ Len(Rest[n]) = Len(r) + 1 /\ Len(r) \in Nat
          /\ Rest[n][Len(r) + 1] = s[n]
          /\ \A j \in 1 .. Len(r) : Rest[n][j] = r[j]
      BY <2>3, <3>1
    <3>3. ASSUME NEW i \in 1 .. n, s[i] # w
          PROVE  \E j \in 1 .. Len(Rest[n]) : Rest[n][j] = s[i]
      <4>1. CASE i = n
        BY <3>2, <4>1
      <4>2. CASE i # n
        <5>1. i \in 1 .. n - 1
          BY <2>2, <4>2
        <5>2. PICK j \in 1 .. Len(r) : r[j] = s[i]
          BY <2>3, <3>3, <5>1 DEF r
        <5> QED BY <3>2, <5>2
      <4> QED BY <4>1, <4>2
    <3> QED BY <2>2, <3>2, <3>3
  <2> QED BY <2>5, <2>6
<1>4. Good(Len(s))
  BY <1>3
<1> QED BY <1>1, <1>4 DEF ToSet

-----------------------------------------------------------------------------
(* Types. *)

KnownWord == {Loader, Runtime, Root, Ulx, Ldso, "1", "./", "?", "/proc/self/exe"}
GivenWord == UNION {ToSet(g[2]) : g \in Given}
Word == KnownWord \cup Files \cup ToSet(Binds) \cup GivenWord

Words == Seq(Word)
EnvType == [Names -> Words]

ImgType ==
  [world : {"guest", "outside", "lost"}, file : Files \cup {Loader}, args : Seq(Words),
   static : BOOLEAN, preload : Words \ {Unset}, rootfs : Words, cache : [Tramp -> Words],
   armed : BOOLEAN, sight : {"guest", "host", "default"}, saved : [Critical -> Words],
   exe : Words]

LastType ==
  [call : {"launch", "exec", "spawn", "system", "unnamed"},
   form : {"abs", "rel", "bare", "fd", "exe"}, file : Files, libs : SUBSET Word]

Types ==
  /\ start \in [direct : BOOLEAN, kill : BOOLEAN]
  /\ img \in ImgType /\ env \in EnvType /\ own \in EnvType /\ last \in LastType
  /\ refused \subseteq Files /\ lapses \subseteq {"fault", "envp", "blind", "named"}
  /\ starts \in 0..MaxStarts /\ edits \in 0..MaxEdits

LEMMA NamesAre ==
  /\ Names = {"LD_PRELOAD", "BXROOT_ROOTFS", "BXROOT_BINDS", "BXROOT_KILL_ON_EXIT",
              "BXROOT_ULX_PATH", "BXROOT_ULX_LDSO", "BXROOT_LD_PRELOAD",
              "BXROOT_GUEST_EXE", "BXROOT_ORIG_COMM", "BXROOT_NO_AUTORUN"}
  /\ Critical \subseteq Names /\ Tramp \subseteq Names /\ Critical \cap Tramp = {}
BY DEF Names, Critical, Tramp

LEMMA UnsetIs == Unset \in Words /\ ToSet(Unset) = {}
BY DEF Unset, Words, ToSet

LEMMA OneWord ==
  ASSUME NEW w \in Word
  PROVE  /\ <<w>> \in Words /\ <<w>> # Unset /\ Len(<<w>>) = 1 /\ Head(<<w>>) = w
         /\ Last(<<w>>) = w /\ ToSet(<<w>>) = {w}
BY DEF Words, Unset, ToSet, Last

LEMMA KnownWords ==
  /\ KnownWord \subseteq Word
  /\ Files \subseteq Word /\ Binds \in Words
<1>1. Binds \in Seq(ToSet(Binds))
  BY ChainAssumption
<1>2. ToSet(Binds) \subseteq Word /\ Files \subseteq Word
  BY Zenon DEF Word
<1>3. Binds \in Words
  BY <1>1, <1>2 DEF Words
<1>4. KnownWord \subseteq Word
  BY Zenon DEF Word
<1> QED BY <1>2, <1>3, <1>4

LEMMA GivenIs ==
  ASSUME NEW g \in Given
  PROVE  /\ g[1] \in Names /\ g[1] \notin Tramp
         /\ g[1] # "BXROOT_KILL_ON_EXIT"
         /\ g[2] \in Words
         /\ g[1] = "BXROOT_GUEST_EXE" /\ IsAbsolute(g[2]) => File(g[2]) \in Files
<1>1. g[2] \in Seq(ToSet(g[2]))
  BY ChainAssumption
<1>3. ToSet(g[2]) \subseteq Word
  BY Zenon DEF Word, GivenWord
<1>2. g[2] \in Words
  BY <1>1, <1>3 DEF Words
<1> QED BY <1>2, ChainAssumption

(* The base comes first and nothing of the rest is lost. *)
LEMMA MergedIs ==
  ASSUME NEW existing \in Words, NEW base \in Words \ {Unset}
  PROVE  /\ Merged(existing, base) \in Words \ {Unset}
         /\ Head(Merged(existing, base)) = Head(base)
         /\ Head(base) \in ToSet(Merged(existing, base))
         /\ ToSet(existing) \subseteq ToSet(Merged(existing, base))
<1>1. base \in Seq(Word) /\ Len(base) \in Nat \ {0} /\ Head(base) = base[1]
  BY DEF Words, Unset
<1>2. CASE existing = <<>>
  BY <1>1, <1>2, UnsetIs DEF Merged, ToSet, Unset
<1>3. CASE existing # <<>>
  <2> DEFINE rest == Without(existing, Last(base))
             m == Merged(existing, base)
  <2>1. rest \in Seq(Word) /\ \A x \in ToSet(existing) : x # Last(base) => x \in ToSet(rest)
    BY WithoutKeeps DEF Words
  <2>2. m = base \o rest
    BY <1>3 DEF Merged, Unset
  <2> HIDE DEF rest, m
  <2>3. /\ m \in Seq(Word) /\ Len(m) = Len(base) + Len(rest) /\ Len(rest) \in Nat
        /\ \A i \in 1..Len(base) : m[i] = base[i]
        /\ \A i \in 1..Len(rest) : m[Len(base) + i] = rest[i]
    BY <1>1, <2>1, <2>2
  <2>4. m # Unset /\ m[1] = base[1] /\ Head(m) = base[1]
    BY <1>1, <2>3 DEF Unset
  <2>5. base[1] \in ToSet(m)
    BY <1>1, <2>3, <2>4 DEF ToSet
  <2>6. ASSUME NEW x \in ToSet(existing) PROVE x \in ToSet(m)
    <3>1. CASE x = Last(base)
      BY <1>1, <2>3, <3>1 DEF ToSet, Last
    <3>2. CASE x # Last(base)
      <4>1. PICK i \in 1..Len(rest) : rest[i] = x
        <5>1. x \in ToSet(rest) /\ DOMAIN rest = 1..Len(rest)
          BY <2>1, <3>2
        <5> QED BY <5>1 DEF ToSet
      <4>2. Len(base) + i \in DOMAIN m /\ m[Len(base) + i] = x
        BY <1>1, <2>3, <4>1
      <4> QED BY <4>2 DEF ToSet
    <3> QED BY <3>1, <3>2
  <2> QED BY <1>1, <2>3, <2>4, <2>5, <2>6 DEF m, Words
<1> QED BY <1>2, <1>3

(* What an exec writes: b, of the configuration and environment of the     *)
(* image, the environment given and the two names. *)
BuiltFrom(b, cfg, e, given, exe, comm) ==
  /\ b \in EnvType
  /\ b["LD_PRELOAD"] = Merged(given["LD_PRELOAD"], cfg.preload)
  /\ b["BXROOT_LD_PRELOAD"] = cfg.preload
  /\ b["BXROOT_ROOTFS"] = IF cfg.rootfs # Unset THEN cfg.rootfs ELSE given["BXROOT_ROOTFS"]
  /\ b["BXROOT_KILL_ON_EXIT"] =
       IF cfg.armed THEN <<"1">> ELSE given["BXROOT_KILL_ON_EXIT"]
  /\ b["BXROOT_GUEST_EXE"] = IF IsAbsolute(exe) THEN exe ELSE given["BXROOT_GUEST_EXE"]
  /\ b["BXROOT_ORIG_COMM"] = IF comm # Unset THEN comm ELSE given["BXROOT_ORIG_COMM"]
  /\ b["BXROOT_BINDS"] = given["BXROOT_BINDS"]
  /\ b["BXROOT_NO_AUTORUN"] = given["BXROOT_NO_AUTORUN"]
  /\ \A n \in Tramp : b[n] =
       IF TrampValue(cfg, e, n) # Unset THEN TrampValue(cfg, e, n) ELSE given[n]

LEMMA BuiltIs ==
  ASSUME NEW cfg \in ImgType, NEW e \in EnvType, NEW given \in EnvType,
         NEW exe \in Words, NEW comm \in Words
  PROVE  BuiltFrom(Built(cfg, e, given, exe, comm), cfg, e, given, exe, comm)
<1> DEFINE f == Forced(cfg, e, given, exe, comm)
           b == Built(cfg, e, given, exe, comm)
<1>1. /\ cfg.preload \in Words /\ cfg.preload # Unset /\ cfg.rootfs \in Words
      /\ cfg.cache \in [Tramp -> Words] /\ cfg.armed \in BOOLEAN
  BY DEF ImgType
<1>2. /\ Merged(given["LD_PRELOAD"], cfg.preload) \in Words
      /\ Merged(given["LD_PRELOAD"], cfg.preload) # Unset
  BY <1>1, MergedIs, NamesAre DEF EnvType
<1>3. \A n \in Tramp : TrampValue(cfg, e, n) \in Words
  BY <1>1, NamesAre DEF TrampValue, EnvType
<1>4. <<"1">> \in Words /\ <<"1">> # Unset /\ Unset \in Words
  BY KnownWords, OneWord, UnsetIs DEF KnownWord
<1>5. Passed(exe) \in Words /\ (Passed(exe) # Unset <=> IsAbsolute(exe))
        /\ (IsAbsolute(exe) => Passed(exe) = exe)
  BY <1>4 DEF Passed, IsAbsolute, Unset, Words
<1>6. /\ f["LD_PRELOAD"] = Merged(given["LD_PRELOAD"], cfg.preload)
      /\ f["BXROOT_LD_PRELOAD"] = cfg.preload
      /\ f["BXROOT_ROOTFS"] = cfg.rootfs
      /\ f["BXROOT_KILL_ON_EXIT"] = IF cfg.armed THEN <<"1">> ELSE Unset
      /\ f["BXROOT_GUEST_EXE"] = Passed(exe)
      /\ f["BXROOT_ORIG_COMM"] = comm
      /\ f["BXROOT_BINDS"] = Unset /\ f["BXROOT_NO_AUTORUN"] = Unset
  BY DEF Forced, Names, Critical, Tramp
<1>7. \A n \in Tramp : f[n] = TrampValue(cfg, e, n)
  <2>1. ASSUME NEW n \in Tramp PROVE f[n] = TrampValue(cfg, e, n)
    <3>1. n \in Names
      BY NamesAre
    <3>2. f[n] = CASE n \in Tramp           -> TrampValue(cfg, e, n)
                   [] n = "LD_PRELOAD"          -> Merged(given[n], cfg.preload)
                   [] n = "BXROOT_LD_PRELOAD"   -> cfg.preload
                   [] n = "BXROOT_ROOTFS"       -> cfg.rootfs
                   [] n = "BXROOT_KILL_ON_EXIT" -> IF cfg.armed THEN <<"1">> ELSE Unset
                   [] n = "BXROOT_GUEST_EXE"    -> Passed(exe)
                   [] n = "BXROOT_ORIG_COMM"    -> comm
                   [] OTHER                     -> Unset
      BY <3>1 DEF Forced
    <3>3. n \notin {"LD_PRELOAD", "BXROOT_LD_PRELOAD", "BXROOT_ROOTFS",
                    "BXROOT_KILL_ON_EXIT", "BXROOT_GUEST_EXE", "BXROOT_ORIG_COMM"}
      BY DEF Tramp
    <3> QED BY <3>2, <3>3
  <2> QED BY <2>1
<1>8. f \in EnvType
  <2>1. ASSUME NEW n \in Names PROVE f[n] \in Words
    BY <1>1, <1>2, <1>3, <1>4, <1>5, <1>6, <1>7 DEF Names, Critical, Tramp
  <2>2. f = [n \in Names |-> f[n]]
    BY DEF Forced
  <2> QED BY <2>1, <2>2 DEF EnvType
<1> HIDE DEF f
<1>9. b \in EnvType /\ \A n \in Names : b[n] = IF f[n] # Unset THEN f[n] ELSE given[n]
  BY <1>8 DEF Built, Over, EnvType, f
<1> HIDE DEF b
<1> QED BY <1>1, <1>2, <1>4, <1>5, <1>6, <1>7, <1>9, NamesAre DEF BuiltFrom, b

-----------------------------------------------------------------------------
(* Names, links and interpreters. *)

AnyFile == Files \cup {Loader}
Interpreted(f) == Interpreter(Interpreter(Interpreter(Interpreter(f))))
Operand == [file : AnyFile, name : Words, args : Seq(Words)]

LEMMA FilesAre ==
  /\ Loader \notin Files /\ "?" \notin Files /\ "/proc/self/exe" \notin Files
  /\ KindOf(Loader) = "loader"
  /\ \A f \in Files : /\ KindOf(f) = Kind[f]
                      /\ KindOf(f) \in {"dyn", "static", "script", "bad", "data", "link", "none"}
                      /\ KindOf(f) \in {"link", "script"} => Interp[f] \in Files
BY PlanAssumption DEF KindOf

LEMMA FollowIs ==
  ASSUME NEW f \in AnyFile
  PROVE  /\ Follow(f) \in AnyFile /\ (f \in Files => Follow(f) \in Files)
         /\ KindOf(f) # "link" => Follow(f) = f
BY FilesAre DEF Follow, AnyFile

LEMMA LandingIs ==
  ASSUME NEW f \in AnyFile
  PROVE  /\ Landing(f) \in AnyFile /\ (f \in Files => Landing(f) \in Files)
         /\ KindOf(f) # "link" => Landing(f) = f
<1>1. ASSUME NEW g \in AnyFile
      PROVE  /\ FollowTwice(g) \in AnyFile /\ (g \in Files => FollowTwice(g) \in Files)
             /\ KindOf(g) # "link" => FollowTwice(g) = g
  BY FollowIs DEF FollowTwice
<1> QED BY <1>1 DEF Landing

LEMMA InterpreterIs ==
  ASSUME NEW f \in AnyFile
  PROVE  Interpreter(f) \in AnyFile /\ (f \in Files => Interpreter(f) \in Files)
BY FilesAre DEF Interpreter, AnyFile

(* Four steps along links and interpreters go at least as far as any four  *)
(* of which some stay where they are. *)
LEMMA FourSteps ==
  ASSUME NEW a, NEW b, NEW c, NEW d, NEW z,
         b \in {a, Leads(a)}, c \in {b, Leads(b)}, d \in {c, Leads(c)}, z \in {d, Leads(d)}
  PROVE  LeadsFar(a) \in
           {z, Leads(z), Leads(Leads(z)), Leads(Leads(Leads(z))), LeadsFar(z)}
BY DEF LeadsFar

LEMMA StillThere ==
  ASSUME NEW q, Leads(q) = q, NEW y, LeadsFar(y) = q, NEW x,
         LeadsFar(x) \in
           {y, Leads(y), Leads(Leads(y)), Leads(Leads(Leads(y))), LeadsFar(y)}
  PROVE  LeadsFar(LeadsFar(x)) = q
BY DEF LeadsFar

LEMMA StillFarther ==
  ASSUME NEW q, Leads(q) = q, NEW y, LeadsFar(LeadsFar(y)) = q, NEW x,
         LeadsFar(x) \in
           {y, Leads(y), Leads(Leads(y)), Leads(Leads(Leads(y))), LeadsFar(y)}
  PROVE  LeadsFar(LeadsFar(LeadsFar(x))) = q
BY DEF LeadsFar

(* What is found within the reach of the code is what is really there. *)
LEMMA RealIs ==
  ASSUME NEW f \in Files,
         KindOf(Interpreted(Landing(f))) \notin {"link", "script"}
  PROVE  Real(f) = Interpreted(Landing(f))
<1> DEFINE y == FollowTwice(FollowTwice(f))
           z == Landing(f)
           q == Interpreted(z)
           Near(a, b) == LeadsFar(a) \in
             {b, Leads(b), Leads(Leads(b)), Leads(Leads(Leads(b))), LeadsFar(b)}
<1>1. Leads(q) = q
  BY DEF Leads
<1>2. \A a : Follow(a) \in {a, Leads(a)} /\ Interpreter(a) \in {a, Leads(a)}
  BY DEF Follow, Interpreter, Leads
<1>3. Near(f, y) /\ Near(y, z)
  <2>1. ASSUME NEW a PROVE Near(a, FollowTwice(FollowTwice(a)))
    BY <1>2, FourSteps DEF FollowTwice
  <2> QED BY <2>1 DEF Landing
<1>4. Near(z, q)
  BY <1>2, FourSteps DEF Interpreted
<1>5. LeadsFar(z) = q
  BY <1>1, <1>4 DEF LeadsFar
<1>6. LeadsFar(LeadsFar(y)) = q
  BY <1>1, <1>3, <1>5, StillThere
<1> QED BY <1>1, <1>3, <1>6, StillFarther DEF Real

(* One interpreter more, and what a chain of them comes to. *)
Wraps(p, q) ==
  /\ q \in Operand
  /\ p.file \in Files => q.file \in Files
  /\ p.name = Abs(p.file) => q.name = Abs(q.file)
  /\ (IsAbsolute(p.name) => File(p.name) \in Files)
       => (IsAbsolute(q.name) => File(q.name) \in Files)
  /\ q.args # <<>> => Last(q.args) = p.name /\ KindOf(p.file) = "script"
  /\ q.args = <<>> => q = p
  /\ p.name[1] # "?" => /\ q.name[1] # "?"
                        /\ \A i \in 1..Len(q.args) : q.args[i][1] # "?"

LEMMA AbsIs ==
  ASSUME NEW f \in AnyFile
  PROVE  /\ Abs(f) \in Words /\ Abs(f) # Unset /\ IsAbsolute(Abs(f)) /\ File(Abs(f)) = f
         /\ Abs(f)[1] = f
<1>1. f \in Word
  BY KnownWords DEF AnyFile, KnownWord
<1>2. /\ <<f>> \in Words /\ <<f>> # Unset /\ Len(<<f>>) = 1 /\ Last(<<f>>) = f
  BY <1>1, OneWord
<1> QED BY <1>2 DEF Abs, IsAbsolute, File

LEMMA ShebangWraps ==
  ASSUME NEW p \in Operand, p.args = <<>>, NEW q, Wraps(p, q)
  PROVE  Wraps(p, Shebang(q)) /\ Shebang(q).file = Interpreter(q.file)
<1> DEFINE r == Shebang(q)
<1>1. q \in Operand
  BY DEF Wraps
<1>2. CASE KindOf(q.file) # "script"
  <2>1. r = q
    BY <1>2 DEF Shebang
  <2> QED BY <1>2, <2>1 DEF Interpreter
<1>3. CASE KindOf(q.file) = "script"
  <2>1. q.file \in Files
    BY <1>1, <1>3, FilesAre DEF Operand, AnyFile
  <2> DEFINE g == Interp[q.file]
             args == <<q.name>> \o q.args
  <2>2. g \in Files
    BY <1>3, <2>1, FilesAre
  <2>3. r = [file |-> g, name |-> Abs(g), args |-> args]
    BY <1>3 DEF Shebang
  <2>4. q.name \in Words /\ q.args \in Seq(Words)
    BY <1>1 DEF Operand
  <2>5. /\ args \in Seq(Words) /\ args # <<>> /\ Len(args) = 1 + Len(q.args)
        /\ args[1] = q.name /\ \A i \in 1..Len(q.args) : args[1 + i] = q.args[i]
    BY <2>4
  <2>6. Last(args) = p.name /\ KindOf(p.file) = "script"
    <3>1. CASE q.args = <<>>
      BY <1>3, <2>5, <3>1 DEF Last, Wraps
    <3>2. CASE q.args # <<>>
      <4>1. Len(q.args) \in Nat \ {0}
        BY <2>4, <3>2
      <4> QED BY <2>5, <3>2, <4>1 DEF Last, Wraps
    <3> QED BY <3>1, <3>2
  <2>7. p.name[1] # "?" => \A i \in 1..Len(args) : args[i][1] # "?"
    <3> SUFFICES ASSUME p.name[1] # "?", NEW i \in 1..Len(args) PROVE args[i][1] # "?"
      OBVIOUS
    <3>1. CASE i = 1
      BY <2>5, <3>1 DEF Wraps
    <3>2. CASE i # 1
      <4>1. i - 1 \in 1..Len(q.args) /\ i = 1 + (i - 1)
        BY <2>4, <2>5, <3>2
      <4>2. args[i] = q.args[i - 1]
        BY <2>5, <4>1
      <4> QED BY <4>1, <4>2 DEF Wraps
    <3> QED BY <3>1, <3>2
  <2>8. /\ Abs(g) \in Words /\ IsAbsolute(Abs(g)) /\ File(Abs(g)) = g /\ Abs(g)[1] # "?"
    BY <2>2, AbsIs, FilesAre DEF AnyFile
  <2> HIDE DEF args, g
  <2>9. r \in Operand
    BY <2>2, <2>3, <2>5, <2>8 DEF Operand, AnyFile
  <2>10. r.file = g /\ r.name = Abs(g) /\ r.args = args
    BY <2>3
  <2> HIDE DEF r
  <2>11. Wraps(p, r)
    BY <2>2, <2>5, <2>6, <2>7, <2>8, <2>9, <2>10 DEF Wraps
  <2> QED BY <1>3, <2>10, <2>11 DEF Interpreter, r, g
<1> QED BY <1>2, <1>3

LEMMA ChainIs ==
  ASSUME NEW p \in Operand, p.args = <<>>
  PROVE  Wraps(p, Chain(p)) /\ Chain(p).file = Interpreted(p.file)
<1> DEFINE a == Shebang(p)
           b == Shebang(a)
           c == Shebang(b)
<1>1. Wraps(p, p)
  BY DEF Wraps, Operand
<1>2. Wraps(p, a) /\ a.file = Interpreter(p.file)
  BY <1>1, ShebangWraps
<1> HIDE DEF a
<1>3. Wraps(p, b) /\ b.file = Interpreter(a.file)
  BY <1>2, ShebangWraps
<1> HIDE DEF b
<1>4. Wraps(p, c) /\ c.file = Interpreter(b.file)
  BY <1>3, ShebangWraps
<1> HIDE DEF c
<1>5. Wraps(p, Shebang(c)) /\ Shebang(c).file = Interpreter(c.file)
  BY <1>4, ShebangWraps
<1> QED BY <1>2, <1>3, <1>4, <1>5 DEF a, b, c, Chain, Interpreted

-----------------------------------------------------------------------------
(* What the calls make of a name. *)

PlanType ==
  [err : {"OK", "ELOOP", "ENOEXEC"}, file : AnyFile, args : Seq(Words), exe : Words,
   comm : Words]
NameOf(f) == {Abs(f), <<"./", f>>, <<"?", f>>}
NamesFile(name) == IsAbsolute(name) => File(name) \in Files

(* A plan whose error tells what was found, and whose name is a file's. *)
GoodPlan(p) ==
  /\ p \in PlanType
  /\ p.file \in Files => NamesFile(p.exe)
  /\ p.err = "OK" <=> KindOf(p.file) \notin {"script", "bad"}

(* A plan for the file x, called by a name of it. *)
PlanFor(p, x, name) ==
  /\ p.file = Interpreted(Landing(x)) /\ p.file \in Files
  /\ p.comm = name
  /\ p.args # <<>> => /\ KindOf(Landing(x)) = "script"
                      /\ File(Last(p.args)) \in {x, Landing(x)}
  /\ name[1] # "?" => \A i \in 1..Len(p.args) : p.args[i][1] # "?"

LEMMA NameOfIs ==
  ASSUME NEW f \in Files, NEW name \in NameOf(f)
  PROVE  /\ name \in Words /\ name # Unset /\ File(name) = f /\ name # SelfExe
         /\ IsAbsolute(name) => name = Abs(f)
         /\ NamesFile(name)
<1>1. f \in Word /\ "./" \in Word /\ "?" \in Word
  BY KnownWords DEF KnownWord
<1>2. CASE name = Abs(f)
  <2>1. name # SelfExe
    BY <1>2, FilesAre DEF SelfExe, Abs
  <2> QED BY <1>2, <2>1, AbsIs DEF AnyFile, NamesFile
<1>3. CASE name \in {<<"./", f>>, <<"?", f>>}
  <2>1. name \in Seq(Word) /\ Len(name) = 2 /\ name[2] = f
    BY <1>1, <1>3
  <2>2. name # SelfExe /\ name # Unset
    BY <2>1 DEF SelfExe, Unset
  <2> QED BY <2>1, <2>2 DEF Words, File, Last, IsAbsolute, NamesFile
<1> QED BY <1>2, <1>3 DEF NameOf

LEMMA SelfExeIs == SelfExe \in Words /\ Landing(Loader) = Loader
<1>1. SelfExe \in Words
  BY KnownWords, OneWord DEF KnownWord, SelfExe
<1>2. Landing(Loader) = Loader
  BY LandingIs, FilesAre DEF AnyFile
<1> QED BY <1>1, <1>2

LEMMA ErrorIs ==
  ASSUME NEW p
  PROVE  /\ ChainError(p) \in {"OK", "ELOOP", "ENOEXEC"}
         /\ ChainError(p) = "OK" <=> KindOf(p.file) \notin {"script", "bad"}
BY DEF ChainError

LEMMA ExecPlanIs ==
  ASSUME NEW f \in Files, NEW name \in NameOf(f)
  PROVE  LET p == ExecPlan(name)
         IN GoodPlan(p) /\ PlanFor(p, f, name) /\ (IsAbsolute(name) => p.exe = Abs(p.file))
<1> DEFINE to == Resolved(Named(name))
           o  == [file |-> to.file, name |-> to.name, args |-> <<>>]
           l  == Chain(o)
           p  == [err |-> ChainError(l), file |-> l.file, args |-> l.args,
                  exe |-> l.name, comm |-> name]
<1>1. ExecPlan(name) = p
  BY NameOfIs DEF ExecPlan, Named
<1>2. name \in Words /\ File(name) = f /\ NamesFile(name) /\ (IsAbsolute(name) => name = Abs(f))
  BY NameOfIs
<1>3. Landing(f) \in Files
  BY LandingIs DEF AnyFile
<1>4. /\ to.file = Landing(f) /\ to.name \in Words
      /\ to.name = name \/ to.name = Abs(Landing(f))
      /\ IsAbsolute(name) => to.name = Abs(Landing(f))
  BY <1>2, <1>3, AbsIs DEF Resolved, Named, AnyFile
<1>5. NamesFile(to.name) /\ File(to.name) \in {f, Landing(f)}
        /\ (name[1] # "?" => to.name[1] # "?")
  BY <1>2, <1>3, <1>4, AbsIs, FilesAre DEF AnyFile, NamesFile
<1> HIDE DEF to
<1>6. /\ o \in Operand /\ o.args = <<>> /\ o.file = Landing(f) /\ o.name = to.name
      /\ o.file \in Files
  BY <1>3, <1>4 DEF Operand, AnyFile
<1> HIDE DEF o
<1>7. Wraps(o, l) /\ l.file = Interpreted(o.file)
  BY <1>6, ChainIs
<1> HIDE DEF l
<1>8. /\ l \in Operand /\ l.file \in Files
      /\ IsAbsolute(name) => l.name = Abs(l.file)
      /\ NamesFile(l.name)
      /\ l.args # <<>> => Last(l.args) = to.name /\ KindOf(Landing(f)) = "script"
      /\ name[1] # "?" => \A i \in 1..Len(l.args) : l.args[i][1] # "?"
  BY <1>4, <1>5, <1>6, <1>7 DEF Wraps, NamesFile
<1>9. GoodPlan(p)
  BY <1>2, <1>8, ErrorIs DEF GoodPlan, PlanType, Operand
<1>10. PlanFor(p, f, name)
  BY <1>5, <1>6, <1>7, <1>8 DEF PlanFor
<1>11. IsAbsolute(name) => p.exe = Abs(p.file)
  BY <1>8
<1> QED BY <1>1, <1>9, <1>10, <1>11

LEMMA SpawnPlanIs ==
  ASSUME NEW f \in Files, NEW name \in NameOf(f)
  PROVE  LET p == SpawnPlan(name)
         IN /\ GoodPlan(p) /\ PlanFor(p, f, name)
            /\ IsAbsolute(name) => p.exe = Abs(f)
<1> DEFINE o  == [file |-> Landing(f), name |-> name, args |-> <<>>]
           l  == Chain(o)
           exe == IF IsAbsolute(name) THEN name ELSE Unset
           p  == [err |-> ChainError(l), file |-> l.file, args |-> l.args,
                  exe |-> exe, comm |-> name]
<1>1. SpawnPlan(name) = p
  BY NameOfIs DEF SpawnPlan
<1>2. name \in Words /\ File(name) = f /\ NamesFile(name) /\ (IsAbsolute(name) => name = Abs(f))
  BY NameOfIs
<1>3. Landing(f) \in Files
  BY LandingIs DEF AnyFile
<1>5. exe \in Words /\ NamesFile(exe) /\ (IsAbsolute(name) => exe = Abs(f))
  <2>1. ~IsAbsolute(Unset)
    BY DEF IsAbsolute, Unset
  <2> QED BY <1>2, <2>1, UnsetIs DEF NamesFile
<1> HIDE DEF exe
<1>6. /\ o \in Operand /\ o.args = <<>> /\ o.file = Landing(f) /\ o.name = name
      /\ o.file \in Files
  BY <1>2, <1>3 DEF Operand, AnyFile
<1> HIDE DEF o
<1>7. Wraps(o, l) /\ l.file = Interpreted(o.file)
  BY <1>6, ChainIs
<1> HIDE DEF l
<1>8. /\ l \in Operand /\ l.file \in Files
      /\ l.args # <<>> => Last(l.args) = name /\ KindOf(Landing(f)) = "script"
      /\ name[1] # "?" => \A i \in 1..Len(l.args) : l.args[i][1] # "?"
  BY <1>6, <1>7 DEF Wraps
<1>9. GoodPlan(p)
  BY <1>2, <1>5, <1>8, ErrorIs DEF GoodPlan, PlanType, Operand
<1>10. PlanFor(p, f, name)
  BY <1>2, <1>6, <1>7, <1>8 DEF PlanFor
<1>11. IsAbsolute(name) => p.exe = Abs(f)
  BY <1>5
<1> QED BY <1>1, <1>9, <1>10, <1>11

(* Under /proc/self/exe itself there is only the trampoline. *)
LEMMA SelfPlanIs ==
  LET p == ExecPlan(SelfExe)
      s == SpawnPlan(SelfExe)
  IN GoodPlan(p) /\ p.file = Loader /\ GoodPlan(s) /\ s.file = Loader
<1> DEFINE o == [file |-> Loader, name |-> SelfExe, args |-> <<>>]
<1>1. o \in Operand /\ o.args = <<>> /\ o.file = Loader /\ o.name = SelfExe
  BY SelfExeIs DEF Operand, AnyFile
<1>2. Resolved([file |-> Loader, name |-> SelfExe]) = [file |-> Loader, name |-> SelfExe]
  BY SelfExeIs DEF Resolved
<1>3. Shebang(o) = o /\ Chain(o) = o
  BY <1>1, FilesAre DEF Shebang, Chain
<1>4. ChainError(o) = "OK"
  BY <1>1, FilesAre DEF ChainError
<1>5. IsAbsolute(SelfExe)
  BY DEF IsAbsolute, SelfExe
<1>6. /\ ExecPlan(SelfExe) =
           [err |-> "OK", file |-> Loader, args |-> <<>>, exe |-> SelfExe, comm |-> SelfExe]
      /\ SpawnPlan(SelfExe) =
           [err |-> "OK", file |-> Loader, args |-> <<>>, exe |-> SelfExe, comm |-> SelfExe]
  BY <1>1, <1>2, <1>3, <1>4, <1>5 DEF ExecPlan, SpawnPlan
<1> QED BY <1>6, FilesAre, SelfExeIs DEF GoodPlan, PlanType, AnyFile

(* The file that is meant, and what it is called. *)
Meant(p, form, f) ==
  /\ GoodPlan(p)
  /\ form # "exe" => /\ p.file = Interpreted(Landing(f)) /\ p.file \in Files
                     /\ p.comm # Unset
                     /\ File(p.comm) = IF form = "fd" THEN Landing(f) ELSE f
ArgsRight(p, f) ==
  p.args # <<>> => /\ \A i \in 1..Len(p.args) : p.args[i][1] # "?"
                   /\ Landing(File(Last(p.args))) = Landing(f)
(* The name an image has been told leads back to it. *)
SelfMeant(p, form, e) ==
  form = "exe" =>
    \A x \in Files : e["BXROOT_GUEST_EXE"] = Abs(x) /\ Kind[x] = "dyn" =>
      p.file = x /\ p.err = "OK"

AllForms == {"abs", "rel", "bare", "fd", "exe"}

LEMMA AliasIs ==
  ASSUME NEW e \in EnvType, NamesFile(e["BXROOT_GUEST_EXE"])
  PROVE  Alias(e) = SelfExe
           \/ \E x \in Files : Alias(e) = Abs(x) /\ e["BXROOT_GUEST_EXE"] = Abs(x)
<1> DEFINE v == e["BXROOT_GUEST_EXE"]
<1>1. v \in Seq(Word)
  BY NamesAre DEF EnvType, Words
<1>2. CASE IsAbsolute(v)
  <2>1. v = Abs(File(v))
    <3> HIDE DEF v
    <3> QED BY <1>1, <1>2 DEF IsAbsolute, Abs, File, Last
  <2>2. File(v) \in Files /\ Alias(e) = v
    BY <1>2 DEF NamesFile, Alias
  <2> QED BY <2>1, <2>2
<1>3. CASE ~IsAbsolute(v)
  BY <1>3 DEF Alias
<1> QED BY <1>2, <1>3

LEMMA SameFile ==
  ASSUME NEW x \in Files, Kind[x] \in {"dyn", "static"}
  PROVE  Interpreted(Landing(x)) = x
<1>1. Landing(x) = x /\ KindOf(x) # "script"
  BY LandingIs, FilesAre DEF AnyFile
<1> QED BY <1>1 DEF Interpreted, Interpreter

LEMMA ArgsOf ==
  ASSUME NEW p, NEW name, name[1] # "?", NEW f \in Files, NEW x \in {f, Landing(f)},
         PlanFor(p, x, name), x = f \/ KindOf(Landing(f)) # "link"
  PROVE  ArgsRight(p, f)
<1>1. Landing(f) \in Files
  BY LandingIs DEF AnyFile
<1>2. KindOf(Landing(f)) # "link" => Landing(Landing(f)) = Landing(f)
  BY <1>1, LandingIs DEF AnyFile
<1>3. Landing(x) = Landing(f)
  BY <1>2
<1> QED BY <1>2, <1>3 DEF PlanFor, ArgsRight

LEMMA ExecAsks ==
  ASSUME NEW form \in AllForms, NEW f \in Files, NEW e \in EnvType,
         NamesFile(e["BXROOT_GUEST_EXE"]), form = "fd" => KindOf(Landing(f)) # "link"
  PROVE  LET p == ExecPlan(ExecName(form, f, e))
         IN /\ Meant(p, form, f) /\ SelfMeant(p, form, e)
            /\ form # "rel" /\ p.file \in Files => p.exe = Abs(p.file)
            /\ form # "exe" => ArgsRight(p, f)
<1> DEFINE name == ExecName(form, f, e)
           p    == ExecPlan(name)
<1>1. Landing(f) \in Files /\ (form = "fd" => Landing(Landing(f)) = Landing(f))
  BY LandingIs DEF AnyFile
<1>2. CASE form \in {"abs", "bare", "rel", "fd"}
  <2> DEFINE x == IF form = "fd" THEN Landing(f) ELSE f
  <2>1. x \in Files /\ name \in NameOf(x) /\ name[1] # "?"
        /\ (form # "rel" => IsAbsolute(name))
    BY <1>1, <1>2, AbsIs, FilesAre DEF ExecName, NameOf, AnyFile
  <2>2. x \in {f, Landing(f)} /\ (x = f \/ KindOf(Landing(f)) # "link")
        /\ Landing(x) = Landing(f)
    BY <1>1
  <2> HIDE DEF x, name
  <2>3. GoodPlan(p) /\ PlanFor(p, x, name) /\ (IsAbsolute(name) => p.exe = Abs(p.file))
    BY <2>1, ExecPlanIs
  <2>4. name # Unset /\ File(name) = x
    BY <2>1, NameOfIs
  <2> HIDE DEF p
  <2>5. ArgsRight(p, f)
    BY <2>1, <2>2, <2>3, ArgsOf
  <2>6. Meant(p, form, f)
    BY <2>2, <2>3, <2>4 DEF Meant, PlanFor, x
  <2> QED BY <1>2, <2>1, <2>3, <2>5, <2>6 DEF SelfMeant, p, name
<1>3. CASE form = "exe"
  <2>1. name = Alias(e)
    BY <1>3 DEF ExecName
  <2> HIDE DEF name
  <2>2. CASE name = SelfExe
    <3>1. GoodPlan(p) /\ p.file = Loader
      BY <2>2, SelfPlanIs
    <3>2. ~\E x \in Files : e["BXROOT_GUEST_EXE"] = Abs(x)
      BY <2>1, <2>2, AbsIs, NameOfIs DEF Alias, NameOf, AnyFile
    <3> QED BY <1>3, <3>1, <3>2, FilesAre DEF Meant, SelfMeant, name
  <2>3. ASSUME NEW x \in Files, name = Abs(x), e["BXROOT_GUEST_EXE"] = Abs(x)
        PROVE  /\ GoodPlan(p) /\ p.exe = Abs(p.file)
               /\ SelfMeant(p, form, e)
    <3>1. Abs(x) \in NameOf(x) /\ IsAbsolute(Abs(x))
      BY AbsIs DEF NameOf, AnyFile
    <3>2. GoodPlan(p) /\ PlanFor(p, x, name) /\ p.exe = Abs(p.file)
      BY <2>3, <3>1, ExecPlanIs
    <3> HIDE DEF p
    <3>3. Kind[x] = "dyn" => p.file = x /\ p.err = "OK"
      BY <3>2, SameFile, FilesAre DEF PlanFor, GoodPlan
    <3>4. \A y \in Files : Abs(y) = Abs(x) => y = x
      BY DEF Abs
    <3> QED BY <2>3, <3>2, <3>3, <3>4 DEF SelfMeant
  <2>4. CASE \E x \in Files : name = Abs(x) /\ e["BXROOT_GUEST_EXE"] = Abs(x)
    <3> HIDE DEF p
    <3>1. GoodPlan(p) /\ p.exe = Abs(p.file) /\ SelfMeant(p, form, e)
      BY <2>3, <2>4
    <3> QED BY <1>3, <3>1 DEF Meant, p, name
  <2> QED BY <2>1, <2>2, <2>4, AliasIs
<1> QED BY <1>2, <1>3 DEF AllForms

LEMMA SpawnAsks ==
  ASSUME NEW form \in AllForms, NEW f \in Files, NEW e \in EnvType,
         NamesFile(e["BXROOT_GUEST_EXE"]), form = "fd" => KindOf(Landing(f)) # "link"
  PROVE  LET p == SpawnPlan(SpawnName(form, f, e))
         IN /\ Meant(p, form, f) /\ SelfMeant(p, form, e)
            /\ form = "abs" /\ Kind[f] \in {"dyn", "static"} => p.exe = Abs(p.file)
            /\ form \notin {"bare", "exe"} => ArgsRight(p, f)
<1> DEFINE name == SpawnName(form, f, e)
           p    == SpawnPlan(name)
<1>1. Landing(f) \in Files /\ (form = "fd" => Landing(Landing(f)) = Landing(f))
  BY LandingIs DEF AnyFile
<1>2. CASE form \in {"abs", "bare", "rel", "fd"}
  <2> DEFINE x == IF form = "fd" THEN Landing(f) ELSE f
  <2>1. x \in Files /\ name \in NameOf(x) /\ (form # "bare" => name[1] # "?")
        /\ (form = "abs" => IsAbsolute(name))
    BY <1>1, <1>2, AbsIs, FilesAre DEF SpawnName, ExecName, NameOf, AnyFile
  <2>2. x \in {f, Landing(f)} /\ (x = f \/ KindOf(Landing(f)) # "link")
        /\ Landing(x) = Landing(f) /\ (form = "abs" => x = f)
    BY <1>1
  <2> HIDE DEF x, name
  <2>3. GoodPlan(p) /\ PlanFor(p, x, name) /\ (IsAbsolute(name) => p.exe = Abs(x))
    BY <2>1, SpawnPlanIs
  <2>4. name # Unset /\ File(name) = x
    BY <2>1, NameOfIs
  <2> HIDE DEF p
  <2>5. form # "bare" => ArgsRight(p, f)
    BY <2>1, <2>2, <2>3, ArgsOf
  <2>6. Meant(p, form, f)
    BY <2>2, <2>3, <2>4 DEF Meant, PlanFor, x
  <2>7. form = "abs" /\ Kind[f] \in {"dyn", "static"} => p.exe = Abs(p.file)
    BY <2>1, <2>2, <2>3, SameFile DEF PlanFor
  <2> QED BY <1>2, <2>5, <2>6, <2>7 DEF SelfMeant, p, name
<1>3. CASE form = "exe"
  <2>1. name = Alias(e)
    BY <1>3 DEF SpawnName, ExecName
  <2> HIDE DEF name
  <2>2. CASE name = SelfExe
    <3>1. GoodPlan(p) /\ p.file = Loader
      BY <2>2, SelfPlanIs
    <3>2. ~\E x \in Files : e["BXROOT_GUEST_EXE"] = Abs(x)
      BY <2>1, <2>2, AbsIs, NameOfIs DEF Alias, NameOf, AnyFile
    <3> QED BY <1>3, <3>1, <3>2 DEF Meant, SelfMeant, name
  <2>3. ASSUME NEW x \in Files, name = Abs(x), e["BXROOT_GUEST_EXE"] = Abs(x)
        PROVE  GoodPlan(p) /\ SelfMeant(p, form, e)
    <3>1. Abs(x) \in NameOf(x)
      BY DEF NameOf
    <3>2. GoodPlan(p) /\ PlanFor(p, x, name)
      BY <2>3, <3>1, SpawnPlanIs
    <3> HIDE DEF p
    <3>3. Kind[x] = "dyn" => p.file = x /\ p.err = "OK"
      BY <3>2, SameFile, FilesAre DEF PlanFor, GoodPlan
    <3>4. \A y \in Files : Abs(y) = Abs(x) => y = x
      BY DEF Abs
    <3> QED BY <2>3, <3>2, <3>3, <3>4 DEF SelfMeant
  <2>4. CASE \E x \in Files : name = Abs(x) /\ e["BXROOT_GUEST_EXE"] = Abs(x)
    <3> HIDE DEF p
    <3>1. GoodPlan(p) /\ SelfMeant(p, form, e)
      BY <2>3, <2>4
    <3> QED BY <1>3, <3>1 DEF Meant, p, name
  <2> QED BY <2>1, <2>2, <2>4, AliasIs
<1> QED BY <1>2, <1>3 DEF AllForms

-----------------------------------------------------------------------------
(* What holds of every image: the inductive invariant of the environment. *)

(* What a guest image is, whatever went wrong. *)
Images ==
  img.world = "guest" =>
    /\ img.file \in Files
    /\ Head(img.preload) = Runtime
    /\ ~img.static => own = env /\ Kind[img.file] = "dyn"
    /\ img.sight # "guest" => "blind" \in lapses
    /\ NamesFile(env["BXROOT_GUEST_EXE"]) /\ NamesFile(own["BXROOT_GUEST_EXE"])

(* What it has as long as no allocation was refused. *)
Half(n) == IF n = "BXROOT_ULX_PATH" THEN <<Ulx>> ELSE <<Ldso>>
Settings ==
  Reliable =>
    /\ img.rootfs = <<Root>> /\ img.armed = start.kill
    /\ \A n \in Tramp : img.cache[n] = Half(n) /\ env[n] \in {Unset, Half(n)}
    /\ img.saved["LD_PRELOAD"] # Unset /\ Head(img.saved["LD_PRELOAD"]) = Runtime
    /\ own["LD_PRELOAD"] # Unset /\ Head(own["LD_PRELOAD"]) = Runtime
    /\ ~img.static => /\ own["LD_PRELOAD"] = img.saved["LD_PRELOAD"]
                      /\ last.libs \subseteq ToSet(own["LD_PRELOAD"])
    /\ own["BXROOT_KILL_ON_EXIT"] # Unset => start.kill
    /\ img.saved["BXROOT_KILL_ON_EXIT"] # Unset => start.kill

(* What it has as long as every program passed on its environment. *)
Launchers(e) ==
  /\ e["BXROOT_ROOTFS"] = <<Root>> /\ e["BXROOT_BINDS"] = Binds
  /\ e["BXROOT_KILL_ON_EXIT"] # Unset <=> start.kill
PassedOn ==
  img.world = "guest" /\ "envp" \notin lapses =>
    /\ img.rootfs = <<Root>> /\ img.armed = start.kill
    /\ Launchers(own) /\ Launchers(img.saved)

EnvInv == Types /\ Images /\ Settings /\ PassedOn /\ Contained

(* What a new image makes of its environment. *)
LEMMA HalfIs ==
  ASSUME NEW n \in Tramp
  PROVE  Half(n) \in Words /\ Half(n) # Unset
BY KnownWords, OneWord DEF Half, KnownWord

LEMMA AnnouncedIs ==
  ASSUME NEW e \in EnvType
  PROVE  /\ Announced(e) \in EnvType
         /\ \A n \in Names : n # "BXROOT_LD_PRELOAD" => Announced(e)[n] = e[n]
<1>1. <<Runtime>> \in Words
  BY KnownWords, OneWord DEF KnownWord
<1> QED BY <1>1 DEF Announced, EnvType

LEMMA CacheIs ==
  ASSUME NEW e \in EnvType
  PROVE  /\ CacheFrom(e) \in [Tramp -> Words]
         /\ \A n \in Tramp : e["BXROOT_ROOTFS"] = <<Root>> /\ e[n] \in {Unset, Half(n)}
              => CacheFrom(e)[n] = Half(n)
<1>1. \A n \in Tramp : e[n] \in Words
  BY NamesAre DEF EnvType
<1>2. <<Ulx>> \in Words /\ <<Ldso>> \in Words /\ Unset \in Words
  BY KnownWords, OneWord, UnsetIs DEF KnownWord
<1>3. CacheFrom(e) \in [Tramp -> Words]
  BY <1>1, <1>2 DEF CacheFrom
<1>4. \A n \in Tramp : e["BXROOT_ROOTFS"] = <<Root>> /\ e[n] \in {Unset, Half(n)}
        => CacheFrom(e)[n] = Half(n)
  BY DEF CacheFrom, Half
<1> QED BY <1>3, <1>4

ImageFrom(i, f, args, e) ==
  /\ i \in ImgType /\ i.world = "guest" /\ i.file = f /\ i.args = args
  /\ i.static = FALSE /\ Head(i.preload) = Runtime
  /\ i.rootfs = e["BXROOT_ROOTFS"] /\ i.sight = Sight(e)
  /\ i.armed <=> e["BXROOT_KILL_ON_EXIT"] # Unset
  /\ i.cache = CacheFrom(e)
  /\ \A n \in Critical : i.saved[n] = e[n]
  /\ Sight(e) = "guest" => i.exe = e["BXROOT_GUEST_EXE"]

LEMMA ImageIs ==
  ASSUME NEW f \in Files, NEW args \in Seq(Words), NEW e \in EnvType
  PROVE  ImageFrom(Image(f, args, e), f, args, e)
<1> DEFINE i == Image(f, args, e)
           m == Merged(e["LD_PRELOAD"], <<Runtime>>)
           exe == IF e["BXROOT_NO_AUTORUN"] # Unset THEN Unset ELSE e["BXROOT_GUEST_EXE"]
           armed == e["BXROOT_KILL_ON_EXIT"] # Unset
<1>1. <<Runtime>> \in Words /\ <<Runtime>> # Unset /\ Head(<<Runtime>>) = Runtime
  BY KnownWords, OneWord DEF KnownWord
<1>2. \A n \in Names : e[n] \in Words
  BY DEF EnvType
<1>3. m \in Words \ {Unset} /\ Head(m) = Runtime
  <2>1. e["LD_PRELOAD"] \in Words
    BY <1>2, NamesAre
  <2> QED BY <1>1, <2>1, MergedIs
<1>4. Captured(e) \in [Critical -> Words] /\ \A n \in Critical : Captured(e)[n] = e[n]
  BY <1>2, NamesAre DEF Captured
<1>5. CacheFrom(e) \in [Tramp -> Words]
  BY CacheIs
<1>6. exe \in Words /\ (Sight(e) = "guest" => exe = e["BXROOT_GUEST_EXE"])
  BY <1>2, NamesAre, UnsetIs DEF Sight
<1>7. Sight(e) \in {"guest", "host", "default"} /\ armed \in BOOLEAN
        /\ e["BXROOT_ROOTFS"] \in Words
  BY <1>2, NamesAre DEF Sight
<1>8. i = [world |-> "guest", file |-> f, args |-> args, static |-> FALSE,
           preload |-> m, rootfs |-> e["BXROOT_ROOTFS"], cache |-> CacheFrom(e),
           armed |-> armed, sight |-> Sight(e), saved |-> Captured(e), exe |-> exe]
  BY DEF Image, ConfigFrom
<1> HIDE DEF i, m, exe, armed
<1>9. i \in ImgType
  BY <1>3, <1>4, <1>5, <1>6, <1>7, <1>8 DEF ImgType, AnyFile
<1>10. i.armed <=> e["BXROOT_KILL_ON_EXIT"] # Unset
  BY <1>8 DEF armed
<1>11. /\ i.world = "guest" /\ i.file = f /\ i.args = args
       /\ i.static = FALSE /\ Head(i.preload) = Runtime
       /\ i.rootfs = e["BXROOT_ROOTFS"] /\ i.sight = Sight(e)
       /\ i.cache = CacheFrom(e)
       /\ i.saved = Captured(e)
       /\ i.exe = exe
  BY <1>3, <1>8
<1> QED BY <1>4, <1>6, <1>9, <1>10, <1>11 DEF i, ImageFrom

(* What a program's own changes to its environment can and cannot do. *)
Edited(e, touched) ==
  /\ e \in EnvType
  /\ \A n \in Tramp : e[n] \in {Unset, env[n]}
  /\ \A n \in Critical : img.saved[n] # Unset => e[n] \in {img.saved[n], env[n]}
  /\ img.saved["BXROOT_KILL_ON_EXIT"] = Unset =>
       e["BXROOT_KILL_ON_EXIT"] \in {Unset, env["BXROOT_KILL_ON_EXIT"]}
  /\ NamesFile(env["BXROOT_GUEST_EXE"]) => NamesFile(e["BXROOT_GUEST_EXE"])
  /\ ~touched => e["BXROOT_GUEST_EXE"] = env["BXROOT_GUEST_EXE"]

LEMMA UnsetNames == NamesFile(Unset)
BY DEF NamesFile, IsAbsolute, Unset

LEMMA ReinjectedIs ==
  ASSUME NEW saved \in [Critical -> Words], NEW e \in EnvType
  PROVE  /\ Reinjected(saved, e) \in EnvType
         /\ \A n \in Names : Reinjected(saved, e)[n] =
              IF n \in Critical /\ saved[n] # Unset THEN saved[n] ELSE e[n]
<1>1. \A n \in Names : n \in Kept(saved) <=> n \in Critical /\ saved[n] # Unset
  BY DEF Kept
<1>2. \A n \in Names : e[n] \in Words
  BY DEF EnvType
<1> QED BY <1>1, <1>2 DEF Reinjected, EnvType

LEMMA SetenvEdits ==
  ASSUME Types, NEW g \in Given
  PROVE  Edited(AfterSetenv(img.saved, env, g[1], g[2]), g[1] = "BXROOT_GUEST_EXE")
<1> DEFINE e == AfterSetenv(img.saved, env, g[1], g[2])
           kept == g[1] \in Critical /\ img.saved[g[1]] # Unset
<1>1. img.saved \in [Critical -> Words] /\ env \in [Names -> Words]
  BY DEF Types, ImgType, EnvType
<1>2. g[1] \in Kept(img.saved) <=> kept
  BY <1>1 DEF Kept
<1>3. e = [env EXCEPT ![g[1]] = IF kept THEN img.saved[g[1]] ELSE g[2]]
  BY <1>2 DEF AfterSetenv
<1>4. /\ g[1] \in Names /\ g[1] \notin Tramp
      /\ g[1] # "BXROOT_KILL_ON_EXIT"
      /\ g[2] \in Words
      /\ g[1] = "BXROOT_GUEST_EXE" => NamesFile(g[2]) /\ ~kept
  BY GivenIs, NamesAre DEF Critical, NamesFile
<1> HIDE DEF e
<1>5. /\ e \in [Names -> Words]
      /\ e[g[1]] = IF kept THEN img.saved[g[1]] ELSE g[2]
      /\ \A n \in Names \ {g[1]} : e[n] = env[n]
  BY <1>1, <1>3, <1>4
<1>6. \A n \in Tramp : e[n] \in {Unset, env[n]}
  BY <1>4, <1>5, NamesAre
<1>7. \A n \in Critical : img.saved[n] # Unset => e[n] \in {img.saved[n], env[n]}
  BY <1>4, <1>5, NamesAre
<1>8. e["BXROOT_KILL_ON_EXIT"] = env["BXROOT_KILL_ON_EXIT"]
  BY <1>4, <1>5, NamesAre
<1>9. /\ NamesFile(env["BXROOT_GUEST_EXE"]) => NamesFile(e["BXROOT_GUEST_EXE"])
      /\ g[1] # "BXROOT_GUEST_EXE" => e["BXROOT_GUEST_EXE"] = env["BXROOT_GUEST_EXE"]
  BY <1>4, <1>5, NamesAre
<1> QED BY <1>5, <1>6, <1>7, <1>8, <1>9 DEF Edited, EnvType, e

(* A change that is followed by putting back what must be kept. *)
LEMMA ReinjectedEdits ==
  ASSUME Types, NEW f \in EnvType, NEW touched \in BOOLEAN,
         \A n \in Tramp : f[n] \in {Unset, env[n]},
         f["BXROOT_KILL_ON_EXIT"] \in {Unset, env["BXROOT_KILL_ON_EXIT"]},
         NamesFile(env["BXROOT_GUEST_EXE"]) => NamesFile(f["BXROOT_GUEST_EXE"]),
         ~touched => f["BXROOT_GUEST_EXE"] = env["BXROOT_GUEST_EXE"]
  PROVE  Edited(Reinjected(img.saved, f), touched)
<1> DEFINE e == Reinjected(img.saved, f)
<1>1. img.saved \in [Critical -> Words]
  BY DEF Types, ImgType
<1>2. /\ e \in EnvType
      /\ \A n \in Names : e[n] = IF n \in Critical /\ img.saved[n] # Unset
                                 THEN img.saved[n] ELSE f[n]
  BY <1>1, ReinjectedIs
<1> HIDE DEF e
<1>3. \A n \in Tramp : e[n] \in {Unset, env[n]}
  BY <1>2, NamesAre
<1>4. \A n \in Critical : img.saved[n] # Unset => e[n] = img.saved[n]
  BY <1>2, NamesAre
<1>5. img.saved["BXROOT_KILL_ON_EXIT"] = Unset =>
        e["BXROOT_KILL_ON_EXIT"] = f["BXROOT_KILL_ON_EXIT"]
  BY <1>2, NamesAre
<1>6. e["BXROOT_GUEST_EXE"] = f["BXROOT_GUEST_EXE"]
  BY <1>2, NamesAre DEF Critical
<1> QED BY <1>2, <1>3, <1>4, <1>5, <1>6 DEF Edited, e

LEMMA UnsetenvEdits ==
  ASSUME Types, NEW n \in Names
  PROVE  Edited(AfterUnsetenv(img.saved, env, n), n = "BXROOT_GUEST_EXE")
<1> DEFINE f == [env EXCEPT ![n] = Unset]
<1>1. env \in [Names -> Words] /\ Unset \in Words
  BY UnsetIs DEF Types, EnvType
<1>2. /\ f \in [Names -> Words] /\ f[n] = Unset
      /\ \A m \in Names \ {n} : f[m] = env[m]
  BY <1>1
<1> HIDE DEF f
<1>3. \A m \in Names : f[m] \in {Unset, env[m]}
  BY <1>2
<1>4. /\ NamesFile(env["BXROOT_GUEST_EXE"]) => NamesFile(f["BXROOT_GUEST_EXE"])
      /\ n # "BXROOT_GUEST_EXE" => f["BXROOT_GUEST_EXE"] = env["BXROOT_GUEST_EXE"]
  BY <1>2, <1>3, UnsetNames, NamesAre
<1>5. CASE n \in Critical
  <2>1. AfterUnsetenv(img.saved, env, n) = Reinjected(img.saved, f)
    BY <1>5 DEF AfterUnsetenv, f
  <2>2. f \in EnvType /\ \A m \in Tramp : f[m] \in {Unset, env[m]}
    BY <1>2, <1>3, NamesAre DEF EnvType
  <2>3. f["BXROOT_KILL_ON_EXIT"] \in {Unset, env["BXROOT_KILL_ON_EXIT"]}
    BY <1>3, NamesAre
  <2> QED BY <1>4, <2>1, <2>2, <2>3, ReinjectedEdits
<1>6. CASE n \notin Critical
  <2>1. AfterUnsetenv(img.saved, env, n) = f
    BY <1>6 DEF AfterUnsetenv, f
  <2>2. \A m \in Critical : f[m] = env[m]
    BY <1>2, <1>6, NamesAre
  <2>3. \A m \in Tramp : f[m] \in {Unset, env[m]}
    BY <1>3, NamesAre
  <2>4. f["BXROOT_KILL_ON_EXIT"] = env["BXROOT_KILL_ON_EXIT"]
    BY <2>2 DEF Critical
  <2> QED BY <1>2, <1>4, <2>1, <2>2, <2>3, <2>4 DEF Edited, EnvType
<1> QED BY <1>5, <1>6

LEMMA PutenvEdits ==
  ASSUME Types, NEW g \in Given
  PROVE  Edited(AfterPutenv(img.saved, env, g[1], g[2]), g[1] = "BXROOT_GUEST_EXE")
<1> DEFINE f == [env EXCEPT ![g[1]] = g[2]]
<1>1. env \in [Names -> Words]
  BY DEF Types, EnvType
<1>2. /\ g[1] \in Names /\ g[1] \notin Tramp
      /\ g[1] # "BXROOT_KILL_ON_EXIT"
      /\ g[2] \in Words
      /\ g[1] = "BXROOT_GUEST_EXE" => NamesFile(g[2])
  BY GivenIs DEF NamesFile
<1>3. /\ f \in [Names -> Words] /\ f[g[1]] = g[2]
      /\ \A n \in Names \ {g[1]} : f[n] = env[n]
  BY <1>1, <1>2
<1> HIDE DEF f
<1>4. \A n \in Tramp : f[n] = env[n]
  BY <1>2, <1>3, NamesAre
<1>5. f["BXROOT_KILL_ON_EXIT"] = env["BXROOT_KILL_ON_EXIT"]
  BY <1>2, <1>3, NamesAre
<1>6. /\ NamesFile(env["BXROOT_GUEST_EXE"]) => NamesFile(f["BXROOT_GUEST_EXE"])
      /\ g[1] # "BXROOT_GUEST_EXE" => f["BXROOT_GUEST_EXE"] = env["BXROOT_GUEST_EXE"]
  BY <1>2, <1>3, NamesAre
<1>7. Edited(Reinjected(img.saved, f), g[1] = "BXROOT_GUEST_EXE")
  BY <1>3, <1>4, <1>5, <1>6, ReinjectedEdits DEF EnvType
<1> QED BY <1>7 DEF AfterPutenv, f

LEMMA ClearenvEdits ==
  ASSUME Types
  PROVE  Edited(AfterClearenv(img.saved), TRUE)
<1>1. Nothing \in EnvType /\ \A n \in Names : Nothing[n] = Unset
  BY UnsetIs DEF Nothing, EnvType
<1>2. Edited(Reinjected(img.saved, Nothing), TRUE)
  BY <1>1, UnsetNames, NamesAre, ReinjectedEdits
<1> QED BY <1>2 DEF AfterClearenv

LEMMA EditKeeps ==
  ASSUME EnvInv, NEW e, NEW touched \in BOOLEAN, Edited(e, touched), Edit(e, touched)
  PROVE  EnvInv'
<1>1. /\ img.world = "guest" /\ ~img.static /\ edits < MaxEdits
      /\ env' = e /\ own' = e /\ edits' = edits + 1
      /\ lapses' = lapses \cup (IF touched THEN {"named"} ELSE {})
      /\ start' = start /\ img' = img /\ last' = last /\ refused' = refused
      /\ starts' = starts
  BY DEF Edit
<1>2. Types /\ Images /\ Settings /\ PassedOn /\ own = env /\ e \in EnvType
  BY <1>1 DEF EnvInv, Images, Edited
<1>3. \A l \in {"fault", "envp", "blind"} : l \in lapses' <=> l \in lapses
  BY <1>1
<1>4. Types'
  <2>1. edits' \in 0..MaxEdits
    BY <1>1, <1>2, ChainAssumption DEF Types
  <2>2. lapses' \subseteq {"fault", "envp", "blind", "named"}
    BY <1>1, <1>2 DEF Types
  <2> QED BY <1>1, <1>2, <2>1, <2>2 DEF Types
<1>5. Images'
  BY <1>1, <1>2, <1>3 DEF Images, Edited
<1>6. Settings'
  <2> SUFFICES ASSUME Reliable' PROVE Settings'
    BY DEF Settings
  <2>1. Reliable
    BY <1>1, <1>3 DEF Reliable
  <2>2. /\ img.saved["LD_PRELOAD"] # Unset /\ own["LD_PRELOAD"] = img.saved["LD_PRELOAD"]
        /\ e["LD_PRELOAD"] = own["LD_PRELOAD"]
    BY <1>1, <1>2, <2>1 DEF Settings, Edited, Critical
  <2>3. \A n \in Tramp : e[n] \in {Unset, Half(n)}
    BY <1>2, <2>1 DEF Settings, Edited
  <2>4. e["BXROOT_KILL_ON_EXIT"] # Unset => start.kill
    BY <1>2, <2>1 DEF Settings, Edited, Critical
  <2> QED BY <1>1, <1>2, <2>1, <2>2, <2>3, <2>4 DEF Settings
<1>7. PassedOn'
  <2> SUFFICES ASSUME "envp" \notin lapses PROVE PassedOn'
    BY <1>3 DEF PassedOn
  <2>1. /\ img.rootfs = <<Root>> /\ img.armed = start.kill
        /\ Launchers(own) /\ Launchers(img.saved)
    BY <1>1, <1>2 DEF PassedOn
  <2>2. <<Root>> # Unset /\ Binds # Unset
    BY ChainAssumption DEF Unset
  <2>3. e["BXROOT_ROOTFS"] = <<Root>> /\ e["BXROOT_BINDS"] = Binds
    BY <1>2, <2>1, <2>2 DEF Launchers, Edited, Critical
  <2>4. e["BXROOT_KILL_ON_EXIT"] # Unset <=> start.kill
    BY <1>2, <2>1 DEF Launchers, Edited, Critical
  <2> QED BY <1>1, <2>1, <2>3, <2>4 DEF PassedOn, Launchers
<1>8. Contained'
  BY <1>1 DEF Contained
<1> QED BY <1>4, <1>5, <1>6, <1>7, <1>8 DEF EnvInv

(* A call that starts nothing. *)
LEMMA WrittenIs ==
  ASSUME Types
  PROVE  /\ WrittenBack(img, env) \in EnvType
         /\ \A n \in Names \ Tramp : WrittenBack(img, env)[n] = env[n]
         /\ \A n \in Tramp : WrittenBack(img, env)[n] = TrampValue(img, env, n)
<1>1. /\ \A n \in Names : env[n] \in Words
      /\ \A n \in Tramp : img.cache[n] \in Words
  BY DEF Types, EnvType, ImgType
<1>2. \A n \in Tramp : TrampValue(img, env, n) \in Words
  BY <1>1, NamesAre DEF TrampValue
<1> QED BY <1>1, <1>2, NamesAre DEF WrittenBack, EnvType

LEMMA StaysKeeps ==
  ASSUME EnvInv, img.world = "guest", NEW e, e \in {env, WrittenBack(img, env)},
         env' = e, own' = IF img.static THEN own ELSE e, refused' \subseteq Files,
         UNCHANGED <<start, img, last, lapses, starts, edits>>
  PROVE  EnvInv'
<1>1. Types /\ Images /\ Settings /\ PassedOn /\ Contained
  BY DEF EnvInv
<1>2. /\ start' = start /\ img' = img /\ last' = last /\ lapses' = lapses
      /\ starts' = starts /\ edits' = edits
  OBVIOUS
<1>3. /\ e \in EnvType /\ \A n \in Names \ Tramp : e[n] = env[n]
      /\ \A n \in Tramp : e[n] \in {env[n], TrampValue(img, env, n)}
  BY <1>1, WrittenIs DEF Types
<1>4. ~img.static => own = env
  BY <1>1 DEF Images
<1>5. own' \in EnvType /\ \A n \in Names \ Tramp : own'[n] = own[n]
  BY <1>1, <1>3, <1>4 DEF Types
<1>6. /\ e["BXROOT_GUEST_EXE"] = env["BXROOT_GUEST_EXE"]
      /\ \A n \in Critical \cup {"BXROOT_GUEST_EXE"} : own'[n] = own[n]
  BY <1>3, <1>5, NamesAre DEF Tramp
<1>7. Types'
  BY <1>1, <1>2, <1>3, <1>5 DEF Types
<1>8. Images'
  BY <1>1, <1>2, <1>6 DEF Images
<1>9. Settings'
  <2> SUFFICES ASSUME Reliable PROVE Settings'
    BY <1>2 DEF Settings, Reliable
  <2>1. \A n \in Tramp : e[n] \in {Unset, Half(n)}
    BY <1>1, <1>3 DEF Settings, TrampValue
  <2>2. own'["LD_PRELOAD"] = own["LD_PRELOAD"]
        /\ own'["BXROOT_KILL_ON_EXIT"] = own["BXROOT_KILL_ON_EXIT"]
    BY <1>6 DEF Critical
  <2> QED BY <1>1, <1>2, <2>1, <2>2 DEF Settings
<1>10. PassedOn'
  BY <1>1, <1>2, <1>6 DEF PassedOn, Launchers, Critical
<1>11. Contained'
  BY <1>1, <1>2 DEF Contained
<1> QED BY <1>7, <1>8, <1>9, <1>10, <1>11 DEF EnvInv

-----------------------------------------------------------------------------
(* A call that starts something. *)

Gives(given) ==
  /\ given \in EnvType
  /\ given["BXROOT_KILL_ON_EXIT"] \in {Unset, own["BXROOT_KILL_ON_EXIT"]}
  /\ NamesFile(own["BXROOT_GUEST_EXE"]) => NamesFile(given["BXROOT_GUEST_EXE"])
  /\ edits = MaxEdits => given = own

Asked(call, form, f, given, fault) ==
  /\ MayStart
  /\ call \in {"exec", "spawn", "system", "unnamed"} /\ form \in AllForms /\ f \in Files
  /\ Gives(given) /\ fault \in BOOLEAN
  /\ fault => edits # MaxEdits /\ given = own

LEMMA EnvpsAre ==
  ASSUME Types, NEW given \in Envps
  PROVE  Gives(given)
<1>1. own \in [Names -> Words]
  BY DEF Types, EnvType
<1>2. CASE given = own
  BY <1>1, <1>2 DEF Gives, EnvType
<1>3. CASE given = Nothing
  <2>1. Nothing \in EnvType /\ \A n \in Names : Nothing[n] = Unset
    BY UnsetIs DEF Nothing, EnvType
  <2>2. edits # MaxEdits \/ given = own
    BY DEF Envps
  <2> QED BY <1>3, <2>1, <2>2, UnsetNames, NamesAre DEF Gives
<1>4. ASSUME NEW g \in Given, given = [own EXCEPT ![g[1]] = g[2]] PROVE Gives(given)
  <2>1. /\ g[1] \in Names /\ g[1] # "BXROOT_KILL_ON_EXIT" /\ g[2] \in Words
        /\ g[1] = "BXROOT_GUEST_EXE" => NamesFile(g[2])
    BY GivenIs DEF NamesFile
  <2>2. edits # MaxEdits \/ given = own
    BY DEF Envps
  <2>3. /\ given \in [Names -> Words]
        /\ given[g[1]] = g[2]
        /\ \A n \in Names \ {g[1]} : given[n] = own[n]
    BY <1>1, <1>4, <2>1
  <2>4. given["BXROOT_KILL_ON_EXIT"] = own["BXROOT_KILL_ON_EXIT"]
    BY <2>1, <2>3, NamesAre
  <2>5. NamesFile(own["BXROOT_GUEST_EXE"]) => NamesFile(given["BXROOT_GUEST_EXE"])
    BY <2>1, <2>3, NamesAre
  <2> QED BY <2>2, <2>3, <2>4, <2>5 DEF Gives, EnvType
<1> QED BY <1>2, <1>3, <1>4 DEF Envps

LEMMA StartsTypes ==
  ASSUME Types, NEW call, NEW form, NEW f, NEW given, NEW fault,
         Asked(call, form, f, given, fault), Starts(call, form, f, given, fault)
  PROVE  /\ last' \in LastType /\ last'.call = call /\ last'.form = form /\ last'.file = f
         /\ last'.libs = ToSet(given["LD_PRELOAD"])
         /\ refused' = {} /\ start' = start
         /\ starts' \in 0..MaxStarts /\ edits' \in 0..MaxEdits /\ starts' = starts + 1
         /\ edits' = 0 => edits = 0 /\ given = own /\ ~fault
<1>1. given["LD_PRELOAD"] \in Seq(Word)
  BY NamesAre DEF Asked, Gives, EnvType, Words
<1>2. ToSet(given["LD_PRELOAD"]) \subseteq Word
  BY <1>1 DEF ToSet
<1>3. last' = [call |-> call, form |-> form, file |-> f, libs |-> ToSet(given["LD_PRELOAD"])]
  BY DEF Starts
<1>4. last' \in LastType
  BY <1>2, <1>3 DEF LastType, Asked, AllForms
<1>5. starts' \in 0..MaxStarts /\ starts' = starts + 1
  BY ChainAssumption DEF Types, Starts, Asked, MayStart
<1>6. edits' \in 0..MaxEdits /\ (edits' = 0 => edits = 0 /\ given = own /\ ~fault)
  BY ChainAssumption DEF Types, Starts, Asked, Gives
<1> QED BY <1>3, <1>4, <1>5, <1>6 DEF Starts

(* The environment that a call writes. *)
Written(e, given, p, fault) ==
  /\ e \in EnvType
  /\ p.file \in Files => NamesFile(e["BXROOT_GUEST_EXE"])
  /\ fault => e = given
  /\ ~fault =>
       /\ e["LD_PRELOAD"] # Unset /\ Head(e["LD_PRELOAD"]) = Runtime
       /\ Runtime \in ToSet(e["LD_PRELOAD"])
       /\ ToSet(given["LD_PRELOAD"]) \subseteq ToSet(e["LD_PRELOAD"])
       /\ e["BXROOT_ROOTFS"] =
            IF img.rootfs # Unset THEN img.rootfs ELSE given["BXROOT_ROOTFS"]
       /\ e["BXROOT_KILL_ON_EXIT"] =
            IF img.armed THEN <<"1">> ELSE given["BXROOT_KILL_ON_EXIT"]
       /\ e["BXROOT_GUEST_EXE"] =
            IF IsAbsolute(p.exe) THEN p.exe ELSE given["BXROOT_GUEST_EXE"]
       /\ e["BXROOT_ORIG_COMM"] =
            IF p.comm # Unset THEN p.comm ELSE given["BXROOT_ORIG_COMM"]
       /\ e["BXROOT_BINDS"] = given["BXROOT_BINDS"]
       /\ \A n \in Tramp : e[n] = IF TrampValue(img, env, n) # Unset
                                  THEN TrampValue(img, env, n) ELSE given[n]

LEMMA FinalIs ==
  ASSUME Types, Images, NEW call, NEW form, NEW f, NEW given, NEW fault, NEW p,
         Asked(call, form, f, given, fault), GoodPlan(p)
  PROVE  Written(Final(given, p, fault), given, p, fault)
<1> DEFINE e == Final(given, p, fault)
<1>1. /\ img.world = "guest" /\ given \in EnvType /\ fault \in BOOLEAN
      /\ NamesFile(given["BXROOT_GUEST_EXE"])
      /\ Head(img.preload) = Runtime
  BY DEF Asked, MayStart, Gives, Images
<1>2. /\ p.exe \in Words /\ p.comm \in Words
      /\ p.file \in Files => NamesFile(p.exe)
  BY DEF GoodPlan, PlanType
<1>3. CASE fault
  BY <1>1, <1>3 DEF Final, Written
<1>4. CASE ~fault
  <2>1. e = Built(img, env, given, p.exe, p.comm)
    BY <1>4 DEF Final
  <2>2. img \in ImgType /\ env \in EnvType
    BY DEF Types
  <2>3. img.preload \in Words \ {Unset} /\ given["LD_PRELOAD"] \in Words
    BY <1>1, <2>2, NamesAre DEF ImgType, EnvType
  <2>4. /\ Merged(given["LD_PRELOAD"], img.preload) \in Words \ {Unset}
        /\ Head(Merged(given["LD_PRELOAD"], img.preload)) = Runtime
        /\ Runtime \in ToSet(Merged(given["LD_PRELOAD"], img.preload))
        /\ ToSet(given["LD_PRELOAD"])
             \subseteq ToSet(Merged(given["LD_PRELOAD"], img.preload))
    BY <1>1, <2>3, MergedIs
  <2> HIDE DEF e
  <2>7. BuiltFrom(Built(img, env, given, p.exe, p.comm), img, env, given, p.exe, p.comm)
    BY <1>1, <1>2, <2>2, BuiltIs
  <2>5. /\ e \in EnvType
        /\ e["LD_PRELOAD"] = Merged(given["LD_PRELOAD"], img.preload)
        /\ e["BXROOT_ROOTFS"] =
             IF img.rootfs # Unset THEN img.rootfs ELSE given["BXROOT_ROOTFS"]
        /\ e["BXROOT_KILL_ON_EXIT"] =
             IF img.armed THEN <<"1">> ELSE given["BXROOT_KILL_ON_EXIT"]
        /\ e["BXROOT_GUEST_EXE"] =
             IF IsAbsolute(p.exe) THEN p.exe ELSE given["BXROOT_GUEST_EXE"]
        /\ e["BXROOT_ORIG_COMM"] =
             IF p.comm # Unset THEN p.comm ELSE given["BXROOT_ORIG_COMM"]
        /\ e["BXROOT_BINDS"] = given["BXROOT_BINDS"]
        /\ \A n \in Tramp : e[n] = IF TrampValue(img, env, n) # Unset
                                   THEN TrampValue(img, env, n) ELSE given[n]
    BY <2>1, <2>7 DEF BuiltFrom
  <2>6. p.file \in Files => NamesFile(e["BXROOT_GUEST_EXE"])
    BY <1>1, <1>2, <2>5
  <2> QED BY <1>4, <2>4, <2>5, <2>6 DEF e, Written
<1> QED BY <1>1, <1>3, <1>4

(* A dynamic program that loads the runtime. *)
Arrives(p, e) ==
  /\ img' = Image(p.file, p.args, e)
  /\ env' = Announced(e) /\ own' = Announced(e)

LEMMA ArrivesKeeps ==
  ASSUME EnvInv, NEW call, NEW form, NEW f, NEW given, NEW fault, NEW p, NEW e,
         Asked(call, form, f, given, fault), GoodPlan(p), KindOf(p.file) = "dyn",
         Written(e, given, p, fault), Arrives(p, e), Starts(call, form, f, given, fault),
         lapses' = NewLapses(given, e, fault)
  PROVE  EnvInv'
<1>1. Types /\ Images /\ Settings /\ PassedOn /\ img.world = "guest"
  BY DEF EnvInv, Asked, MayStart
<1>2. /\ p.file \in Files /\ Kind[p.file] = "dyn" /\ p.args \in Seq(Words)
      /\ e \in EnvType /\ given \in EnvType /\ fault \in BOOLEAN
      /\ NamesFile(e["BXROOT_GUEST_EXE"])
  BY FilesAre DEF GoodPlan, PlanType, AnyFile, Written, Asked, Gives
<1>13. ImageFrom(img', p.file, p.args, e)
  BY <1>2, ImageIs DEF Arrives
<1>3. /\ img' \in ImgType /\ img'.world = "guest" /\ img'.file = p.file
      /\ img'.static = FALSE /\ Head(img'.preload) = Runtime
      /\ img'.rootfs = e["BXROOT_ROOTFS"] /\ img'.sight = Sight(e)
      /\ img'.armed <=> e["BXROOT_KILL_ON_EXIT"] # Unset
      /\ img'.cache = CacheFrom(e)
      /\ \A n \in Critical : img'.saved[n] = e[n]
  BY <1>13 DEF ImageFrom
<1>4. /\ env' \in EnvType /\ own' = env'
      /\ \A n \in Names : n # "BXROOT_LD_PRELOAD" => env'[n] = e[n]
  BY <1>2, AnnouncedIs DEF Arrives
<1>5. /\ env'["BXROOT_GUEST_EXE"] = e["BXROOT_GUEST_EXE"]
      /\ \A n \in Critical \cup Tramp : env'[n] = e[n]
  BY <1>4 DEF Names, Critical, Tramp
<1>6. /\ last' \in LastType /\ last'.libs = ToSet(given["LD_PRELOAD"])
      /\ refused' = {} /\ start' = start
      /\ starts' \in 0..MaxStarts /\ edits' \in 0..MaxEdits
  BY <1>1, StartsTypes
<1>7. /\ lapses' \subseteq {"fault", "envp", "blind", "named"}
      /\ "fault" \in lapses' <=> "fault" \in lapses \/ fault
      /\ "envp" \in lapses' <=> "envp" \in lapses \/ given # own
      /\ Sight(e) # "guest" => "blind" \in lapses'
  BY <1>1, <1>2 DEF NewLapses, Types
<1>8. Types'
  BY <1>1, <1>3, <1>4, <1>6, <1>7 DEF Types
<1>9. Images'
  BY <1>2, <1>3, <1>4, <1>5, <1>7 DEF Images
<1>10. Settings'
  <2> SUFFICES ASSUME Reliable' PROVE Settings'
    BY DEF Settings
  <2>1. Reliable /\ ~fault
    BY <1>1, <1>7 DEF Reliable
  <2>2. <<Root>> # Unset
    BY DEF Unset
  <2>3. e["BXROOT_ROOTFS"] = <<Root>>
    BY <1>1, <2>1, <2>2 DEF Settings, Written
  <2>4. e["BXROOT_KILL_ON_EXIT"] # Unset <=> start.kill
    <3>1. (img.armed <=> start.kill) /\ <<"1">> # Unset
      BY <1>1, <2>1 DEF Settings, Unset
    <3>2. given["BXROOT_KILL_ON_EXIT"] # Unset => start.kill
      BY <1>1, <2>1 DEF Settings, Asked, Gives
    <3> QED BY <2>1, <3>1, <3>2 DEF Written
  <2>5. \A n \in Tramp : e[n] = Half(n)
    BY <1>1, <2>1, HalfIs DEF Settings, Written, TrampValue
  <2>6. \A n \in Tramp : img'.cache[n] = Half(n)
    BY <1>2, <1>3, <2>3, <2>5, CacheIs
  <2>7. img'.armed = start.kill
    <3>1. img'.armed <=> start.kill
      BY <1>3, <2>4
    <3>2. img'.armed \in BOOLEAN /\ start.kill \in BOOLEAN
      BY <1>1, <1>3 DEF ImgType, Types
    <3> QED BY <3>1, <3>2
  <2>8. /\ img'.saved["LD_PRELOAD"] = e["LD_PRELOAD"]
        /\ img'.saved["BXROOT_KILL_ON_EXIT"] = e["BXROOT_KILL_ON_EXIT"]
        /\ own'["LD_PRELOAD"] = e["LD_PRELOAD"]
        /\ own'["BXROOT_KILL_ON_EXIT"] = e["BXROOT_KILL_ON_EXIT"]
    BY <1>3, <1>4, <1>5 DEF Critical
  <2>9. /\ e["LD_PRELOAD"] # Unset /\ Head(e["LD_PRELOAD"]) = Runtime
        /\ last'.libs \subseteq ToSet(e["LD_PRELOAD"])
    BY <1>6, <2>1 DEF Written
  <2>10. \A n \in Tramp : env'[n] = Half(n)
    BY <1>5, <2>5
  <2> QED BY <1>3, <1>6, <2>3, <2>4, <2>6, <2>7, <2>8, <2>9, <2>10 DEF Settings
<1>11. PassedOn'
  <2> SUFFICES ASSUME "envp" \notin lapses' PROVE PassedOn'
    BY DEF PassedOn
  <2>1. given = own /\ "envp" \notin lapses
    BY <1>7
  <2>2. /\ img.rootfs = <<Root>> /\ img.armed = start.kill /\ Launchers(own)
    BY <1>1, <2>1 DEF PassedOn
  <2>3. <<Root>> # Unset /\ <<"1">> # Unset
    BY DEF Unset
  <2>4. Launchers(e)
    <3>1. CASE fault
      BY <2>1, <2>2, <3>1 DEF Written
    <3>2. CASE ~fault
      BY <2>1, <2>2, <2>3, <3>2 DEF Written, Launchers
    <3> QED BY <1>2, <3>1, <3>2
  <2>5. img'.armed = start.kill
    <3>1. img'.armed <=> start.kill
      BY <1>3, <2>4 DEF Launchers
    <3>2. img'.armed \in BOOLEAN /\ start.kill \in BOOLEAN
      BY <1>1, <1>3 DEF ImgType, Types
    <3> QED BY <3>1, <3>2
  <2>6. \A n \in Critical : own'[n] = e[n] /\ img'.saved[n] = e[n]
    BY <1>3, <1>4, <1>5
  <2> QED BY <1>3, <1>6, <2>4, <2>5, <2>6 DEF PassedOn, Launchers, Critical
<1>12. Contained'
  BY <1>3 DEF Contained
<1> QED BY <1>8, <1>9, <1>10, <1>11, <1>12 DEF EnvInv

(* A static one: the runtime stays. *)
LEMMA EntersKeeps ==
  ASSUME EnvInv, NEW call, NEW form, NEW f, NEW given, NEW fault, NEW p, NEW e,
         Asked(call, form, f, given, fault), GoodPlan(p), KindOf(p.file) = "static",
         Written(e, given, p, fault), Enters(p, e), Starts(call, form, f, given, fault),
         lapses' = NewLapses(given, e, fault)
  PROVE  EnvInv'
<1>1. Types /\ Images /\ Settings /\ PassedOn /\ img.world = "guest"
  BY DEF EnvInv, Asked, MayStart
<1>2. /\ p.file \in Files /\ p.args \in Seq(Words)
      /\ e \in EnvType /\ given \in EnvType /\ fault \in BOOLEAN
      /\ NamesFile(e["BXROOT_GUEST_EXE"])
  BY FilesAre DEF GoodPlan, PlanType, AnyFile, Written, Asked, Gives
<1> DEFINE exe == IF IsAbsolute(e["BXROOT_GUEST_EXE"]) THEN e["BXROOT_GUEST_EXE"] ELSE Unset
<1>3. exe \in Words
  BY <1>2, UnsetIs, NamesAre DEF EnvType
<1>4. /\ img' = [img EXCEPT !.file = p.file, !.args = p.args, !.static = TRUE, !.exe = exe]
      /\ env' = WrittenBack(img, env) /\ own' = e
  BY DEF Enters
<1> HIDE DEF exe
<1>5. /\ img' \in ImgType /\ img'.world = "guest" /\ img'.file = p.file
      /\ img'.static = TRUE /\ img'.preload = img.preload /\ img'.rootfs = img.rootfs
      /\ img'.sight = img.sight /\ img'.armed = img.armed /\ img'.cache = img.cache
      /\ img'.saved = img.saved
  BY <1>1, <1>2, <1>3, <1>4 DEF Types, ImgType, AnyFile
<1>6. /\ env' \in EnvType /\ env'["BXROOT_GUEST_EXE"] = env["BXROOT_GUEST_EXE"]
      /\ \A n \in Tramp : env'[n] = TrampValue(img, env, n)
  BY <1>1, <1>4, WrittenIs, NamesAre DEF Tramp
<1>7. /\ last' \in LastType /\ refused' = {} /\ start' = start
      /\ starts' \in 0..MaxStarts /\ edits' \in 0..MaxEdits
  BY <1>1, StartsTypes
<1>8. /\ lapses' \subseteq {"fault", "envp", "blind", "named"}
      /\ "fault" \in lapses' <=> "fault" \in lapses \/ fault
      /\ "envp" \in lapses' <=> "envp" \in lapses \/ given # own
      /\ "blind" \in lapses => "blind" \in lapses'
  BY <1>1, <1>2 DEF NewLapses, Types
<1>9. Types'
  BY <1>1, <1>2, <1>4, <1>5, <1>6, <1>7, <1>8 DEF Types
<1>10. Images'
  BY <1>1, <1>2, <1>4, <1>5, <1>6, <1>8 DEF Images
<1>11. Settings'
  <2> SUFFICES ASSUME Reliable' PROVE Settings'
    BY DEF Settings
  <2>1. Reliable /\ ~fault
    BY <1>1, <1>8 DEF Reliable
  <2>2. e["BXROOT_KILL_ON_EXIT"] # Unset => start.kill
    <3>1. img.armed => start.kill
      BY <1>1, <2>1 DEF Settings
    <3>2. given["BXROOT_KILL_ON_EXIT"] # Unset => start.kill
      BY <1>1, <2>1 DEF Settings, Asked, Gives
    <3> QED BY <2>1, <3>1, <3>2 DEF Written
  <2>3. \A n \in Tramp : env'[n] = Half(n)
    BY <1>1, <1>6, <2>1, HalfIs DEF Settings, TrampValue
  <2>4. e["LD_PRELOAD"] # Unset /\ Head(e["LD_PRELOAD"]) = Runtime
    BY <2>1 DEF Written
  <2> QED BY <1>1, <1>4, <1>5, <1>7, <2>1, <2>2, <2>3, <2>4 DEF Settings
<1>12. PassedOn'
  <2> SUFFICES ASSUME "envp" \notin lapses' PROVE PassedOn'
    BY DEF PassedOn
  <2>1. given = own /\ "envp" \notin lapses
    BY <1>8
  <2>2. /\ img.rootfs = <<Root>> /\ img.armed = start.kill /\ Launchers(own)
        /\ Launchers(img.saved)
    BY <1>1, <2>1 DEF PassedOn
  <2>3. <<Root>> # Unset /\ <<"1">> # Unset
    BY DEF Unset
  <2>4. Launchers(e)
    <3>1. CASE fault
      BY <2>1, <2>2, <3>1 DEF Written
    <3>2. CASE ~fault
      BY <2>1, <2>2, <2>3, <3>2 DEF Written, Launchers
    <3> QED BY <1>2, <3>1, <3>2
  <2> QED BY <1>4, <1>5, <1>7, <2>2, <2>4 DEF PassedOn, Launchers
<1>13. Contained'
  BY <1>5 DEF Contained
<1> QED BY <1>9, <1>10, <1>11, <1>12, <1>13 DEF EnvInv

(* Whatever leaves the container. *)
LEMMA LeavesKeeps ==
  ASSUME EnvInv, NEW call, NEW form, NEW f, NEW given, NEW fault,
         NEW world \in {"outside", "lost"}, NEW g \in AnyFile, NEW e \in EnvType,
         Asked(call, form, f, given, fault), Starts(call, form, f, given, fault),
         Leaves(world, g, e), lapses' \subseteq {"fault", "envp", "blind", "named"},
         world = "outside" => \/ lapses' \cap {"fault", "blind"} # {}
                              \/ Astray(g) /\ (form # "exe" => OutOfReach(f))
  PROVE  EnvInv'
<1>1. Types
  BY DEF EnvInv
<1>2. /\ img' = [img EXCEPT !.world = world, !.file = g]
      /\ env' = e /\ own' = e
  BY DEF Leaves
<1>3. img' \in ImgType /\ img'.world = world /\ img'.file = g
  <2>1. img \in ImgType /\ world \in {"guest", "outside", "lost"}
    BY <1>1 DEF Types
  <2> QED BY <1>2, <2>1 DEF ImgType, AnyFile
<1>4. /\ last' \in LastType /\ refused' = {} /\ start' = start
      /\ starts' \in 0..MaxStarts /\ edits' \in 0..MaxEdits
  BY <1>1, StartsTypes
<1>5. Types'
  BY <1>1, <1>2, <1>3, <1>4 DEF Types
<1>6. last'.form = form /\ last'.file = f
  BY DEF Starts
<1>7. Contained'
  BY <1>3, <1>6 DEF Contained
<1> QED BY <1>3, <1>5, <1>7 DEF EnvInv, Images, Settings, PassedOn, Reliable

-----------------------------------------------------------------------------
(* What a step can be. *)

(* The plan of a call, and what is true of it. *)
Ready(call, form, f, p) ==
  /\ GoodPlan(p)
  /\ form = "exe" => call \in {"exec", "spawn"}
  /\ call \in {"exec", "spawn"} => /\ Meant(p, form, f) /\ SelfMeant(p, form, env)
                                   /\ ~(call = "spawn" /\ form = "bare") /\ form # "exe"
                                        => ArgsRight(p, f)
  /\ call = "exec" /\ form # "rel" /\ p.file \in Files => p.exe = Abs(p.file)
  /\ call = "spawn" /\ form = "abs" /\ Kind[f] \in {"dyn", "static"} => p.exe = Abs(p.file)

Stay(e) ==
  /\ img.world = "guest" /\ e \in {env, WrittenBack(img, env)}
  /\ env' = e /\ own' = IF img.static THEN own ELSE e
  /\ refused' \subseteq Files
  /\ Clean => \A f \in refused' : f \in refused \/ OutOfReach(f)
  /\ UNCHANGED <<start, img, last, lapses, starts, edits>>

Start(call, form, f, given, fault, p, e) ==
  /\ Asked(call, form, f, given, fault) /\ Starts(call, form, f, given, fault)
  /\ Ready(call, form, f, p) /\ p.err = "OK" /\ Written(e, given, p, fault)
  /\ lapses' = NewLapses(given, e, fault)
  /\ \/ KindOf(p.file) = "dyn" /\ Arrives(p, e)
     \/ KindOf(p.file) = "static" /\ Enters(p, e)

Leave(call, form, f, given, fault, world, g, e) ==
  /\ Asked(call, form, f, given, fault) /\ Starts(call, form, f, given, fault)
  /\ world \in {"outside", "lost"} /\ g \in AnyFile /\ e \in EnvType /\ Leaves(world, g, e)
  /\ lapses' \subseteq {"fault", "envp", "blind", "named"}
  /\ world = "outside" => \/ lapses' \cap {"fault", "blind"} # {}
                          \/ Astray(g) /\ (form # "exe" => OutOfReach(f))
  /\ form = "exe" /\ Clean =>
       \A x \in Files : env["BXROOT_GUEST_EXE"] = Abs(x) => Kind[x] # "dyn"

Outcome ==
  \/ \E e : Stay(e)
  \/ \E call, form, f, given, fault, p, e : Start(call, form, f, given, fault, p, e)
  \/ \E call, form, f, given, fault, world, g, e :
       Leave(call, form, f, given, fault, world, g, e)

(* With the launcher's trampoline every program can be started. *)
LEMMA TrampThere ==
  ASSUME EnvInv, Reliable
  PROVE  HasTramp(img, env)
BY HalfIs DEF EnvInv, Settings, HasTramp, Cache

LEMMA Unreached ==
  ASSUME NEW f \in Files, Startable(f),
         KindOf(Interpreted(Landing(f))) \notin {"dyn", "static"}
  PROVE  OutOfReach(f)
<1>1. Interpreted(Landing(f)) =
        Interpreter(Interpreter(Interpreter(Interpreter(Landing(f)))))
  BY DEF Interpreted
<1>2. KindOf(Interpreted(Landing(f))) \in {"link", "script"}
  BY RealIs DEF Startable
<1> QED BY <1>1, <1>2 DEF OutOfReach

LEMMA RefuseStays ==
  ASSUME EnvInv, img.world = "guest", NEW form, NEW f \in Files,
         NEW e, e \in {env, WrittenBack(img, env)}, Refuse(form, f, e),
         form # "exe" /\ Clean /\ Startable(f) => OutOfReach(f)
  PROVE  Outcome
<1>1. Stay(e)
  BY DEF Refuse, Stay, EnvInv, Types
<1> QED BY <1>1 DEF Outcome

LEMMA HostIs ==
  ASSUME EnvInv, NEW call, NEW form, NEW f, NEW given, NEW fault,
         Asked(call, form, f, given, fault),
         img.sight # "guest" \/ (fault /\ form = "abs"),
         ToHost(call, form, f, given, fault)
  PROVE  Outcome
<1>1. Types /\ Images /\ img.world = "guest"
  BY DEF EnvInv, Asked, MayStart
<1>2. CASE HostName(form, f) \in HostFiles /\ (img.sight = "host" \/ call = "system")
  <2>1. /\ Leaves("outside", f, given)
        /\ lapses' = lapses \cup (IF fault THEN {"fault"} ELSE {})
        /\ Starts(call, form, f, given, fault)
    BY <1>2 DEF ToHost
  <2>2. lapses' \subseteq {"fault", "envp", "blind", "named"}
    BY <1>1, <2>1 DEF Types
  <2>3. img.sight # "guest" => "blind" \in lapses
    BY <1>1 DEF Images
  <2>4. lapses' \cap {"fault", "blind"} # {}
    BY <2>1, <2>3
  <2>5. ~(form = "exe" /\ Clean)
    BY <2>3 DEF Clean
  <2>6. f \in AnyFile /\ given \in EnvType
    BY DEF Asked, Gives, AnyFile
  <2>7. Leave(call, form, f, given, fault, "outside", f, given)
    BY <2>1, <2>2, <2>4, <2>5, <2>6 DEF Leave
  <2> QED BY <2>7 DEF Outcome
<1>3. CASE ~(HostName(form, f) \in HostFiles /\ (img.sight = "host" \/ call = "system"))
  <2>1. Stay(WrittenBack(img, env))
    BY <1>1, <1>3 DEF ToHost, Stay, Types
  <2> QED BY <2>1 DEF Outcome
<1> QED BY <1>2, <1>3

(* A dynamic program that does not load the runtime was given no           *)
(* environment of ours. *)
LEMMA BecomesIs ==
  ASSUME EnvInv, NEW call, NEW form, NEW f, NEW given, NEW fault, NEW p, NEW e, NEW tramp,
         Asked(call, form, f, given, fault), Starts(call, form, f, given, fault),
         Ready(call, form, f, p), p.err = "OK", Written(e, given, p, fault),
         KindOf(p.file) = "dyn", Becomes(p, e, tramp), lapses' = NewLapses(given, e, fault)
  PROVE  Outcome
<1>1. CASE Loads(e, tramp)
  <2>1. Start(call, form, f, given, fault, p, e)
    BY <1>1 DEF Becomes, Arrives, Start
  <2> QED BY <2>1 DEF Outcome
<1>2. CASE ~Loads(e, tramp)
  <2>1. Runtime \notin ToSet(e["LD_PRELOAD"])
    BY <1>2 DEF Loads
  <2>2. fault /\ e = given /\ given = own /\ e \in EnvType
    BY <2>1 DEF Written, Asked
  <2>3. Leaves("outside", p.file, e)
    BY <1>2 DEF Becomes, Leaves
  <2>4. p.file \in AnyFile
    BY DEF Ready, GoodPlan, PlanType
  <2>5. lapses' \subseteq {"fault", "envp", "blind", "named"} /\ "fault" \in lapses'
    BY <2>2 DEF NewLapses, EnvInv, Types
  <2>6. ~Clean
    <3> SUFFICES ASSUME Clean PROVE FALSE
      OBVIOUS
    <3>1. Reliable
      BY DEF Clean, Reliable
    <3>2. own["LD_PRELOAD"] # Unset /\ Head(own["LD_PRELOAD"]) = Runtime
      BY <3>1 DEF EnvInv, Settings
    <3>3. own["LD_PRELOAD"] \in Seq(Word)
      BY NamesAre DEF EnvInv, Types, EnvType, Words
    <3>4. Runtime \in ToSet(own["LD_PRELOAD"])
      <4> DEFINE s == own["LD_PRELOAD"]
      <4>1. 1 \in DOMAIN s /\ s[1] = Runtime
        BY <3>2, <3>3 DEF Unset
      <4> QED BY <4>1 DEF ToSet
    <3> QED BY <2>1, <2>2, <3>4
  <2>7. Leave(call, form, f, given, fault, "outside", p.file, e)
    BY <2>2, <2>3, <2>4, <2>5, <2>6 DEF Leave
  <2> QED BY <2>7 DEF Outcome
<1> QED BY <1>1, <1>2

LEMMA GoesIs ==
  ASSUME EnvInv, NEW call, NEW form, NEW f, NEW given, NEW fault, NEW p, NEW alone,
         Asked(call, form, f, given, fault), Ready(call, form, f, p), p.err = "OK",
         call \notin {"exec", "spawn"} => KindOf(p.file) \in {"dyn", "static"},
         Goes(call, form, f, p, given, fault, alone)
  PROVE  Outcome
<1> DEFINE e == Final(given, p, fault)
           tramp == HasTramp(img, env)
           here == alone /\ (tramp \/ call = "exec")
<1>1. Types /\ Images /\ img.world = "guest" /\ GoodPlan(p) /\ p.file \in AnyFile
  BY DEF EnvInv, Asked, MayStart, Ready, GoodPlan, PlanType
<1>2. Written(e, given, p, fault)
  BY <1>1, FinalIs
<1>3. e \in EnvType
  BY <1>2 DEF Written
<1>4. /\ lapses' = NewLapses(given, e, fault) /\ Starts(call, form, f, given, fault)
      /\ \/ KindOf(p.file) = "dyn" /\ Becomes(p, e, tramp)
         \/ KindOf(p.file) = "static" /\ here /\ Enters(p, e)
         \/ KindOf(p.file) = "static" /\ ~here
              /\ Leaves(IF tramp THEN "lost" ELSE "outside", p.file, e)
         \/ KindOf(p.file) = "loader" /\ Leaves("lost", p.file, e)
         \/ Astray(p.file) /\ Leaves("outside", p.file, e)
  BY Zenon DEF Goes
<1>5. tramp \/ "fault" \in lapses
  BY <1>1, TrampThere DEF Reliable
<1> HIDE DEF e, tramp, here
<1>6. lapses' \subseteq {"fault", "envp", "blind", "named"} /\ lapses \subseteq lapses'
  BY <1>1, <1>4 DEF NewLapses, Types
<1>7. CASE KindOf(p.file) = "dyn" /\ Becomes(p, e, tramp)
  BY <1>2, <1>4, <1>7, BecomesIs
<1>8. CASE KindOf(p.file) = "static" /\ Enters(p, e)
  <2>1. Start(call, form, f, given, fault, p, e)
    BY <1>2, <1>4, <1>8 DEF Start
  <2> QED BY <2>1 DEF Outcome
<1>9. ASSUME NEW world \in {"outside", "lost"}, Leaves(world, p.file, e),
             KindOf(p.file) \in {"static", "loader", "link"},
             world = "outside" => \/ "fault" \in lapses
                                  \/ Astray(p.file) /\ (form # "exe" => OutOfReach(f))
      PROVE  Outcome
  <2>1. form = "exe" =>
          \A x \in Files : env["BXROOT_GUEST_EXE"] = Abs(x) => Kind[x] # "dyn"
    <3> SUFFICES ASSUME form = "exe", NEW x \in Files, env["BXROOT_GUEST_EXE"] = Abs(x),
                        Kind[x] = "dyn"
                 PROVE  FALSE
      OBVIOUS
    <3>1. p.file = x
      BY DEF Ready, SelfMeant
    <3> QED BY <1>9, <3>1, FilesAre
  <2>2. Leave(call, form, f, given, fault, world, p.file, e)
    BY <1>1, <1>3, <1>4, <1>6, <1>9, <2>1 DEF Leave
  <2> QED BY <2>2 DEF Outcome
<1>10. CASE KindOf(p.file) = "static" /\ Leaves(IF tramp THEN "lost" ELSE "outside", p.file, e)
  <2>1. CASE tramp
    BY <1>9, <1>10, <2>1
  <2>2. CASE ~tramp
    BY <1>5, <1>9, <1>10, <2>2
  <2> QED BY <2>1, <2>2
<1>11. CASE KindOf(p.file) = "loader" /\ Leaves("lost", p.file, e)
  BY <1>9, <1>11
<1>12. CASE Astray(p.file) /\ Leaves("outside", p.file, e)
  <2>1. KindOf(p.file) = "link"
    BY <1>12 DEF Astray
  <2>2. form # "exe" => OutOfReach(f)
    BY <2>1 DEF Ready, Meant, OutOfReach, Interpreted
  <2> QED BY <1>9, <1>12, <2>1, <2>2
<1> QED BY <1>4, <1>7, <1>8, <1>10, <1>11, <1>12

LEMMA RunIs ==
  ASSUME EnvInv, NEW call, NEW form, NEW f, NEW given, NEW fault, NEW p, NEW alone,
         Asked(call, form, f, given, fault), Ready(call, form, f, p),
         call \notin {"exec", "spawn"} => KindOf(p.file) \in {"dyn", "static"},
         Run(call, form, f, p, given, fault, alone)
  PROVE  Outcome
<1>1. img.world = "guest" /\ f \in Files /\ form \in AllForms
  BY DEF Asked, MayStart
<1>2. ASSUME form # "exe", Startable(f), KindOf(p.file) \notin {"dyn", "static"}
      PROVE  OutOfReach(f)
  BY <1>1, <1>2, Unreached DEF Ready, Meant
<1>3. CASE p.err # "OK"
  <2>1. Refuse(form, f, env)
    BY <1>3 DEF Run
  <2>2. KindOf(p.file) \in {"script", "bad"}
    BY <1>3 DEF Ready, GoodPlan
  <2> QED BY <1>1, <1>2, <2>1, <2>2, RefuseStays
<1>4. CASE p.err = "OK" /\ Goes(call, form, f, p, given, fault, alone)
  BY <1>4, GoesIs
<1>5. CASE ~CanStart(p, alone, env) /\ Refuse(form, f, WrittenBack(img, env))
  <2>1. Clean => KindOf(p.file) \notin {"dyn", "static"}
    <3>1. Clean => HasTramp(img, env)
      BY TrampThere DEF Clean, Reliable
    <3> QED BY <1>5, <3>1 DEF CanStart
  <2> QED BY <1>1, <1>2, <1>5, <2>1, RefuseStays
<1> QED BY <1>3, <1>4, <1>5 DEF Run

(* The calls. *)
LEMMA AsksAre ==
  ASSUME EnvInv, MayStart, NEW ask \in Asks, NEW given \in Envps, NEW fault \in Faults,
         given = own \/ ~fault, NEW call \in {"exec", "spawn"}
  PROVE  /\ Asked(call, ask[1], ask[2], given, fault)
         /\ ask[1] = "fd" => KindOf(Landing(ask[2])) # "link"
<1>1. img.file \in Files
  BY DEF EnvInv, Images, MayStart
<1>2. /\ ask[1] \in AllForms /\ ask[2] \in Files
      /\ ask[1] = "fd" => KindOf(Landing(ask[2])) # "link"
  <2>1. CASE ask \in (Forms \ {"fd"}) \X Called
    BY <2>1, ChainAssumption DEF Forms, AllForms
  <2>2. CASE ask \in {"fd"} \X Opened
    BY <2>2, ChainAssumption DEF Opened, AllForms
  <2>3. CASE ask = <<"exe", img.file>>
    BY <1>1, <2>3 DEF AllForms
  <2> QED BY <2>1, <2>2, <2>3 DEF Asks
<1>3. Gives(given)
  BY EnvpsAre DEF EnvInv
<1>4. fault \in BOOLEAN /\ (fault => edits # MaxEdits)
  BY DEF Faults
<1> QED BY <1>2, <1>3, <1>4 DEF Asked

LEMMA NotFound ==
  ASSUME NEW f \in Files, ~Found(f), Startable(f)
  PROVE  OutOfReach(f)
<1>1. Landing(f) \in Files
  BY LandingIs DEF AnyFile
<1>2. KindOf(Landing(f)) \notin Runnable
  BY <1>1, FilesAre DEF Found
<1>3. Interpreted(Landing(f)) = Landing(f)
  BY <1>2 DEF Interpreted, Interpreter, Runnable
<1> QED BY <1>2, <1>3, Unreached DEF Runnable

LEMMA ExecIs ==
  ASSUME EnvInv, NEW ask \in Asks, NEW given \in Envps, NEW fault \in Faults,
         given = own \/ ~fault, Exec(ask[1], ask[2], given, fault)
  PROVE  Outcome
<1> DEFINE form == ask[1]
           f    == ask[2]
           p    == ExecPlan(ExecName(form, f, env))
<1>1. MayStart /\ img.world = "guest"
  BY DEF Exec, MayStart
<1>2. Asked("exec", form, f, given, fault) /\ (form = "fd" => KindOf(Landing(f)) # "link")
  BY <1>1, AsksAre
<1>3. form \in AllForms /\ f \in Files
  BY <1>2 DEF Asked
<1>4. CASE Strays(form, f)
  <2>1. ToHost("exec", form, f, given, FALSE)
    BY <1>4 DEF Exec
  <2>2. img.sight # "guest"
    BY <1>4 DEF Strays
  <2>3. Asked("exec", form, f, given, FALSE)
    BY <1>2 DEF Asked
  <2> QED BY <2>1, <2>2, <2>3, HostIs
<1>5. CASE ~Strays(form, f) /\ form = "bare" /\ ~Found(f)
  <2>1. Refuse(form, f, env)
    BY <1>5 DEF Exec
  <2> QED BY <1>1, <1>3, <1>5, <2>1, NotFound, RefuseStays
<1>6. CASE ~Strays(form, f) /\ ~(form = "bare" /\ ~Found(f))
  <2>1. \E alone \in Alone(p) : Run("exec", form, f, p, given, fault, alone)
    BY <1>6, Zenon DEF Exec
  <2>2. env \in EnvType /\ NamesFile(env["BXROOT_GUEST_EXE"])
    BY <1>1 DEF EnvInv, Types, Images
  <2>3. /\ Meant(p, form, f) /\ SelfMeant(p, form, env)
        /\ form # "rel" /\ p.file \in Files => p.exe = Abs(p.file)
        /\ form # "exe" => ArgsRight(p, f)
    BY <1>2, <1>3, <2>2, ExecAsks
  <2> HIDE DEF p, form, f
  <2>4. Ready("exec", form, f, p)
    BY <2>3 DEF Ready, Meant
  <2> QED BY <1>2, <2>1, <2>4, RunIs
<1> QED BY <1>4, <1>5, <1>6

LEMMA SpawnIs ==
  ASSUME EnvInv, NEW ask \in Asks, NEW given \in Envps, NEW fault \in Faults,
         given = own \/ ~fault, Spawn(ask[1], ask[2], given, fault)
  PROVE  Outcome
<1> DEFINE form == ask[1]
           f    == ask[2]
           p    == SpawnPlan(SpawnName(form, f, env))
<1>1. MayStart /\ img.world = "guest"
  BY DEF Spawn, MayStart
<1>2. Asked("spawn", form, f, given, fault) /\ (form = "fd" => KindOf(Landing(f)) # "link")
  BY <1>1, AsksAre
<1>3. form \in AllForms /\ f \in Files
  BY <1>2 DEF Asked
<1>4. CASE Strays(form, f)
  <2>1. ToHost("spawn", form, f, given, FALSE)
    BY <1>4 DEF Spawn
  <2>2. img.sight # "guest"
    BY <1>4 DEF Strays
  <2>3. Asked("spawn", form, f, given, FALSE)
    BY <1>2 DEF Asked
  <2> QED BY <2>1, <2>2, <2>3, HostIs
<1>5. CASE ~Strays(form, f) /\ form = "bare" /\ ~Found(f)
  <2>1. Refuse(form, f, env)
    BY <1>5 DEF Spawn
  <2> QED BY <1>1, <1>3, <1>5, <2>1, NotFound, RefuseStays
<1>6. CASE ~Strays(form, f) /\ ~(form = "bare" /\ ~Found(f))
  <2>1. \E alone \in Alone(p) : Run("spawn", form, f, p, given, fault, alone)
    BY <1>6, Zenon DEF Spawn
  <2>2. env \in EnvType /\ NamesFile(env["BXROOT_GUEST_EXE"])
    BY <1>1 DEF EnvInv, Types, Images
  <2>3. /\ Meant(p, form, f) /\ SelfMeant(p, form, env)
        /\ form = "abs" /\ Kind[f] \in {"dyn", "static"} => p.exe = Abs(p.file)
        /\ form \notin {"bare", "exe"} => ArgsRight(p, f)
    BY <1>2, <1>3, <2>2, SpawnAsks
  <2> HIDE DEF p, form, f
  <2>4. Ready("spawn", form, f, p)
    BY <2>3 DEF Ready, Meant
  <2> QED BY <1>2, <2>1, <2>4, RunIs
<1> QED BY <1>4, <1>5, <1>6

(* A plan of a program that is not named. *)
LEMMA UnnamedPlan ==
  ASSUME NEW f \in Files, Kind[f] = "dyn", NEW form \in AllForms \ {"exe"},
         NEW call \in {"system", "unnamed"}, NEW p,
         p = [err |-> "OK", file |-> f, args |-> <<>>, exe |-> Unset, comm |-> Unset]
  PROVE  Ready(call, form, f, p) /\ p.err = "OK" /\ KindOf(p.file) = "dyn"
<1>1. p \in PlanType
  BY UnsetIs DEF PlanType, AnyFile
<1> QED BY <1>1, UnsetNames, FilesAre DEF Ready, GoodPlan

LEMMA SystemIs ==
  ASSUME EnvInv, NEW fault \in Faults, System(fault)
  PROVE  Outcome
<1>1. MayStart /\ img.world = "guest" /\ ~img.static
  BY DEF System, MayStart
<1>2. Shell \in Files /\ Kind[Shell] = "dyn"
  BY PlanAssumption
<1>3. own = env /\ env \in EnvType
  BY <1>1 DEF EnvInv, Images, Types
<1>4. fault \in BOOLEAN /\ (fault => edits # MaxEdits)
  BY DEF Faults
<1>5. Gives(env)
  BY <1>3 DEF Gives
<1>8. Asked("system", "abs", Shell, env, fault) /\ Asked("system", "abs", Shell, env, FALSE)
  BY <1>1, <1>2, <1>3, <1>4, <1>5 DEF Asked, AllForms
<1>6. CASE img.sight # "guest" \/ fault
  <2>1. ToHost("system", "abs", Shell, env, fault)
    BY <1>6 DEF System
  <2> QED BY <1>6, <1>8, <2>1, HostIs
<1>7. CASE ~(img.sight # "guest" \/ fault)
  <2>1. Run("system", "abs", Shell, SystemPlan, env, FALSE, TRUE)
    BY <1>7 DEF System
  <2>2. Ready("system", "abs", Shell, SystemPlan) /\ KindOf(SystemPlan.file) = "dyn"
    BY <1>2, UnnamedPlan DEF SystemPlan, AllForms
  <2> QED BY <1>8, <2>1, <2>2, RunIs
<1> QED BY <1>6, <1>7

LEMMA UnnamedIs ==
  ASSUME EnvInv, NEW f \in Files, NEW given \in Envps, ExecUnnamed(f, given)
  PROVE  Outcome
<1> DEFINE p == [err |-> "OK", file |-> f, args |-> <<>>, exe |-> Unset, comm |-> Unset]
           e == Final(given, p, FALSE)
<1>1. /\ MayStart /\ Kind[f] = "dyn" /\ Becomes(p, e, FALSE)
      /\ lapses' = NewLapses(given, e, FALSE) /\ Starts("unnamed", "fd", f, given, FALSE)
  BY DEF ExecUnnamed
<1> HIDE DEF e
<1>2. Ready("unnamed", "fd", f, p) /\ p.err = "OK" /\ KindOf(p.file) = "dyn"
  BY <1>1, UnnamedPlan DEF AllForms
<1> HIDE DEF p
<1>3. Asked("unnamed", "fd", f, given, FALSE)
  BY <1>1, EnvpsAre DEF Asked, AllForms, EnvInv
<1>4. Written(e, given, p, FALSE)
  BY <1>2, <1>3, FinalIs DEF EnvInv, Ready, e
<1> QED BY <1>1, <1>2, <1>3, <1>4, BecomesIs

(* A step changes the environment, comes to nothing, starts or leaves. *)
LEMMA NextIs ==
  ASSUME EnvInv, Next
  PROVE  \/ \E e : \E touched \in BOOLEAN : Edited(e, touched) /\ Edit(e, touched)
         \/ Outcome
<1>1. Types
  BY DEF EnvInv
<1>2. CASE Setenv \/ Putenv
  <2>1. PICK g \in Given :
          \/ Edit(AfterSetenv(img.saved, env, g[1], g[2]), g[1] = "BXROOT_GUEST_EXE")
          \/ Edit(AfterPutenv(img.saved, env, g[1], g[2]), g[1] = "BXROOT_GUEST_EXE")
    BY <1>2 DEF Setenv, Putenv
  <2>2. /\ Edited(AfterSetenv(img.saved, env, g[1], g[2]), g[1] = "BXROOT_GUEST_EXE")
        /\ Edited(AfterPutenv(img.saved, env, g[1], g[2]), g[1] = "BXROOT_GUEST_EXE")
    BY <1>1, SetenvEdits, PutenvEdits
  <2>3. (g[1] = "BXROOT_GUEST_EXE") \in BOOLEAN
    OBVIOUS
  <2> QED BY <2>1, <2>2, <2>3, Zenon
<1>3. CASE Unsetenv
  <2>1. PICK n \in Names :
          Edit(AfterUnsetenv(img.saved, env, n), n = "BXROOT_GUEST_EXE")
    BY <1>3 DEF Unsetenv
  <2>2. Edited(AfterUnsetenv(img.saved, env, n), n = "BXROOT_GUEST_EXE")
    BY <1>1, UnsetenvEdits
  <2>3. (n = "BXROOT_GUEST_EXE") \in BOOLEAN
    OBVIOUS
  <2> QED BY <2>1, <2>2, <2>3, Zenon
<1>4. CASE Clearenv
  <2>1. Edited(AfterClearenv(img.saved), TRUE) /\ Edit(AfterClearenv(img.saved), TRUE)
    BY <1>1, <1>4, ClearenvEdits DEF Clearenv
  <2>2. TRUE \in BOOLEAN
    OBVIOUS
  <2> QED BY <2>1, <2>2, Zenon
<1>5. CASE \E ask \in Asks, given \in Envps, fault \in Faults :
             /\ given = own \/ ~fault
             /\ Exec(ask[1], ask[2], given, fault) \/ Spawn(ask[1], ask[2], given, fault)
  BY <1>5, ExecIs, SpawnIs
<1>6. CASE \E fault \in Faults : System(fault)
  BY <1>6, SystemIs
<1>7. CASE \E f \in Files, given \in Envps : ExecUnnamed(f, given)
  BY <1>7, UnnamedIs
<1> QED BY <1>2, <1>3, <1>4, <1>5, <1>6, <1>7 DEF Next

-----------------------------------------------------------------------------
(* The environment arrives. *)

LEMMA FirstIs ==
  ASSUME NEW f \in First
  PROVE  /\ f \in Files /\ FirstFile(f) \in Files /\ FirstArgs(f) \in Seq(Words)
         /\ Len(FirstArgs(f)) \in {0, 1}
<1>1. f \in Files /\ Landing(f) \in Files
  BY ChainAssumption, LandingIs DEF AnyFile
<1>2. Kind[Landing(f)] = "script" => Interp[Landing(f)] \in Files
  BY <1>1, FilesAre
<1>3. FirstFile(f) \in Files
  BY <1>1, <1>2, LandingIs DEF FirstFile, AnyFile
<1>4. Abs(f) \in Words
  BY <1>1, AbsIs DEF AnyFile
<1>5. FirstArgs(f) \in Seq(Words) /\ Len(FirstArgs(f)) \in {0, 1}
  BY <1>4 DEF FirstArgs
<1> QED BY <1>1, <1>3, <1>5

LEMMA LaunchedIs ==
  ASSUME NEW f \in Files, NEW kill \in BOOLEAN, NEW ulx \in BOOLEAN
  PROVE  LET e == Launched(f, kill, ulx)
         IN /\ e \in EnvType
            /\ e["LD_PRELOAD"] = <<Runtime>> /\ e["BXROOT_ROOTFS"] = <<Root>>
            /\ e["BXROOT_BINDS"] = Binds /\ e["BXROOT_NO_AUTORUN"] = Unset
            /\ e["BXROOT_KILL_ON_EXIT"] # Unset <=> kill
            /\ e["BXROOT_GUEST_EXE"] = Abs(f)
            /\ \A n \in Tramp : e[n] \in {Unset, Half(n)}
<1> DEFINE e == Launched(f, kill, ulx)
<1>1. /\ <<Runtime>> \in Words /\ <<Root>> \in Words /\ <<"1">> \in Words
      /\ <<Ulx>> \in Words /\ <<Ldso>> \in Words /\ Abs(f) \in Words /\ Binds \in Words
      /\ Unset \in Words /\ <<"1">> # Unset
  BY KnownWords, OneWord, AbsIs, UnsetIs DEF KnownWord, AnyFile
<1>2. /\ e["LD_PRELOAD"] = <<Runtime>> /\ e["BXROOT_ROOTFS"] = <<Root>>
      /\ e["BXROOT_BINDS"] = Binds /\ e["BXROOT_NO_AUTORUN"] = Unset
      /\ e["BXROOT_LD_PRELOAD"] = Unset
      /\ e["BXROOT_KILL_ON_EXIT"] = IF kill THEN <<"1">> ELSE Unset
      /\ e["BXROOT_GUEST_EXE"] = Abs(f) /\ e["BXROOT_ORIG_COMM"] = Abs(f)
      /\ e["BXROOT_ULX_PATH"] = IF ulx THEN <<Ulx>> ELSE Unset
      /\ e["BXROOT_ULX_LDSO"] = IF ulx THEN <<Ldso>> ELSE Unset
  BY NamesAre DEF Launched
<1>3. e = [n \in Names |-> e[n]]
  BY DEF Launched
<1> HIDE DEF e
<1>4. \A n \in Names : e[n] \in Words
  BY <1>1, <1>2, NamesAre
<1>5. e \in EnvType
  BY <1>3, <1>4 DEF EnvType
<1>6. \A n \in Tramp : e[n] \in {Unset, Half(n)}
  BY <1>2 DEF Tramp, Half
<1> QED BY <1>1, <1>2, <1>5, <1>6 DEF e

LEMMA EnvInit ==
  Init => EnvInv
<1> SUFFICES ASSUME Init PROVE EnvInv
  OBVIOUS
<1>1. PICK direct \in BOOLEAN, kill \in BOOLEAN, ulx \in BOOLEAN, f \in First :
        /\ Kind[FirstFile(f)] = "dyn"
        /\ start = [direct |-> direct, kill |-> kill]
        /\ img = Image(FirstFile(f), FirstArgs(f), Launched(f, kill, ulx))
        /\ env = Announced(Launched(f, kill, ulx))
        /\ own = Announced(Launched(f, kill, ulx))
        /\ last = [call |-> "launch", form |-> "abs", file |-> f, libs |-> {}]
        /\ refused = {} /\ lapses = {} /\ starts = 0 /\ edits = 0
  BY ZenonT(40) DEF Init
<1> DEFINE e == Launched(f, kill, ulx)
<1>2. f \in Files /\ FirstFile(f) \in Files /\ FirstArgs(f) \in Seq(Words)
  BY FirstIs
<1>3. /\ e \in EnvType
      /\ e["LD_PRELOAD"] = <<Runtime>> /\ e["BXROOT_ROOTFS"] = <<Root>>
      /\ e["BXROOT_BINDS"] = Binds /\ e["BXROOT_NO_AUTORUN"] = Unset
      /\ e["BXROOT_KILL_ON_EXIT"] # Unset <=> kill
      /\ e["BXROOT_GUEST_EXE"] = Abs(f)
      /\ \A n \in Tramp : e[n] \in {Unset, Half(n)}
  BY <1>2, LaunchedIs
<1> HIDE DEF e
<1>4. ImageFrom(img, FirstFile(f), FirstArgs(f), e)
  BY <1>1, <1>2, <1>3, ImageIs DEF e
<1>5. /\ env \in EnvType /\ own = env
      /\ \A n \in Names : n # "BXROOT_LD_PRELOAD" => env[n] = e[n]
  BY <1>1, <1>3, AnnouncedIs DEF e
<1>6. /\ env["BXROOT_GUEST_EXE"] = Abs(f)
      /\ \A n \in Critical \cup Tramp : env[n] = e[n]
  BY <1>3, <1>5 DEF Names, Critical, Tramp
<1>7. <<Root>> # Unset /\ <<Runtime>> # Unset /\ Head(<<Runtime>>) = Runtime
  BY KnownWords, OneWord DEF KnownWord
<1>8. Sight(e) = "guest"
  BY <1>3, <1>7 DEF Sight
<1>9. Types
  <2>1. last \in LastType
    BY <1>1, <1>2 DEF LastType
  <2>2. start \in [direct : BOOLEAN, kill : BOOLEAN]
    BY <1>1
  <2>3. 0 \in 0..MaxStarts /\ 0 \in 0..MaxEdits
    BY ChainAssumption
  <2> QED BY <1>1, <1>4, <1>5, <2>1, <2>2, <2>3 DEF Types, ImageFrom
<1>10. NamesFile(env["BXROOT_GUEST_EXE"])
  BY <1>2, <1>6, AbsIs DEF NamesFile, AnyFile
<1>11. Images
  BY <1>1, <1>2, <1>4, <1>5, <1>8, <1>10 DEF Images, ImageFrom
<1>12. (img.armed <=> start.kill) /\ img.armed \in BOOLEAN /\ start.kill \in BOOLEAN
  BY <1>1, <1>3, <1>4, <1>9 DEF ImageFrom, Types, ImgType
<1>13. img.armed = start.kill
  BY <1>12
<1>14. \A n \in Critical : own[n] = e[n] /\ img.saved[n] = e[n]
  BY <1>4, <1>5, <1>6 DEF ImageFrom
<1>15. start.kill <=> kill
  BY <1>1
<1>16. Settings
  <2>1. \A n \in Tramp : img.cache[n] = Half(n) /\ env[n] \in {Unset, Half(n)}
    BY <1>3, <1>4, <1>6, CacheIs DEF ImageFrom
  <2>2. /\ own["LD_PRELOAD"] = <<Runtime>> /\ img.saved["LD_PRELOAD"] = <<Runtime>>
        /\ own["BXROOT_KILL_ON_EXIT"] = e["BXROOT_KILL_ON_EXIT"]
        /\ img.saved["BXROOT_KILL_ON_EXIT"] = e["BXROOT_KILL_ON_EXIT"]
    BY <1>3, <1>14 DEF Critical
  <2>3. img.rootfs = <<Root>> /\ last.libs = {}
    BY <1>1, <1>3, <1>4 DEF ImageFrom
  <2> QED BY <1>3, <1>7, <1>13, <1>15, <2>1, <2>2, <2>3 DEF Settings
<1>17. PassedOn
  <2>1. Launchers(own) /\ Launchers(img.saved)
    BY <1>3, <1>14, <1>15 DEF Launchers, Critical
  <2>2. img.rootfs = <<Root>>
    BY <1>3, <1>4 DEF ImageFrom
  <2> QED BY <1>13, <2>1, <2>2 DEF PassedOn
<1>18. Contained
  BY <1>4 DEF Contained, ImageFrom
<1> QED BY <1>9, <1>11, <1>16, <1>17, <1>18 DEF EnvInv

LEMMA StartKeeps ==
  ASSUME EnvInv, NEW call, NEW form, NEW f, NEW given, NEW fault, NEW p, NEW e,
         Start(call, form, f, given, fault, p, e)
  PROVE  EnvInv'
<1>1. /\ Asked(call, form, f, given, fault) /\ Starts(call, form, f, given, fault)
      /\ GoodPlan(p) /\ Written(e, given, p, fault) /\ lapses' = NewLapses(given, e, fault)
  BY DEF Start, Ready
<1>2. CASE KindOf(p.file) = "dyn" /\ Arrives(p, e)
  BY <1>1, <1>2, ArrivesKeeps
<1>3. CASE KindOf(p.file) = "static" /\ Enters(p, e)
  BY <1>1, <1>3, EntersKeeps
<1> QED BY <1>2, <1>3 DEF Start

LEMMA EnvStep ==
  EnvInv /\ [Next]_vars => EnvInv'
<1> SUFFICES ASSUME EnvInv, [Next]_vars PROVE EnvInv'
  OBVIOUS
<1>1. CASE UNCHANGED vars
  BY <1>1 DEF vars, EnvInv, Types, Images, Settings, PassedOn, Contained, Launchers, Reliable
<1>2. CASE \E e : \E touched \in BOOLEAN : Edited(e, touched) /\ Edit(e, touched)
  BY <1>2, EditKeeps
<1>3. ASSUME NEW e, Stay(e) PROVE EnvInv'
  <2>1. /\ img.world = "guest" /\ e \in {env, WrittenBack(img, env)} /\ env' = e
        /\ own' = (IF img.static THEN own ELSE e) /\ refused' \subseteq Files
        /\ UNCHANGED <<start, img, last, lapses, starts, edits>>
    BY <1>3 DEF Stay
  <2> QED BY <2>1, StaysKeeps
<1>4. ASSUME NEW call, NEW form, NEW f, NEW given, NEW fault, NEW p, NEW e,
             Start(call, form, f, given, fault, p, e)
      PROVE  EnvInv'
  BY <1>4, StartKeeps
<1>5. ASSUME NEW call, NEW form, NEW f, NEW given, NEW fault, NEW world, NEW g, NEW e,
             Leave(call, form, f, given, fault, world, g, e)
      PROVE  EnvInv'
  BY <1>5, LeavesKeeps DEF Leave
<1>6. CASE Outcome
  BY <1>3, <1>4, <1>5, <1>6 DEF Outcome
<1> QED BY <1>1, <1>2, <1>6, NextIs

LEMMA EnvAlways ==
  Spec => []EnvInv
BY EnvInit, EnvStep, PTL DEF Spec

(* No line of calls leads out of the container, whatever programs are      *)
(* called in whatever way with whatever environments, unless an allocation *)
(* for the environment was refused, the runtime was switched off, or the   *)
(* file called is behind an interpreter that is a link or more links than  *)
(* are followed, and the host has a program of the name where it ends. *)
THEOREM ExecContained ==
  Spec => []Contained
<1>1. EnvInv => Contained
  BY DEF EnvInv
<1> QED BY <1>1, EnvAlways, PTL

LEMMA EnvKept ==
  EnvInv => EnvironmentKept
<1> SUFFICES ASSUME EnvInv PROVE EnvironmentKept
  OBVIOUS
<1>1. Types /\ Images /\ Settings /\ PassedOn
  BY DEF EnvInv
<1>2. TypeOK
  BY <1>1 DEF Types, TypeOK, ImgType, EnvType
<1>3. SettingsSurvive
  <2> SUFFICES ASSUME Reliable PROVE SettingsSurvive
    BY DEF SettingsSurvive
  <2>1. /\ img.rootfs = <<Root>> /\ img.armed = start.kill
        /\ \A n \in Tramp : img.cache[n] = Half(n)
        /\ Head(own["LD_PRELOAD"]) = Runtime
    BY <1>1 DEF Settings
  <2>2. img.cache \in [Tramp -> Words] /\ Head(img.preload) = Runtime
    BY <1>1 DEF Types, ImgType, Images, Reliable
  <2>3. img.cache = [n \in Tramp |-> IF n = "BXROOT_ULX_PATH" THEN <<Ulx>> ELSE <<Ldso>>]
    BY <2>1, <2>2 DEF Half
  <2> QED BY <2>1, <2>2, <2>3 DEF SettingsSurvive
<1>4. CriticalKept
  <2> SUFFICES ASSUME img.world = "guest", "envp" \notin lapses PROVE CriticalKept
    BY DEF CriticalKept
  <2>1. Launchers(own) /\ start.kill \in BOOLEAN
    BY <1>1 DEF PassedOn, Types
  <2> QED BY <2>1 DEF CriticalKept, Launchers
<1>5. LibrariesReach
  BY <1>1 DEF Settings, LibrariesReach
<1> QED BY <1>2, <1>3, <1>4, <1>5 DEF EnvironmentKept

(* The launcher's settings, the runtime and the libraries a program asks   *)
(* for arrive in every image. *)
THEOREM ExecEnvironmentKept ==
  Spec => []EnvironmentKept
BY EnvKept, EnvAlways, PTL

-----------------------------------------------------------------------------
(* The right program under the right name. *)

(* What an image was told about itself is still in its environment. *)
Told ==
  Clean /\ ~img.static /\ "named" \notin lapses => env["BXROOT_GUEST_EXE"] = img.exe

NameInv == EnvInv /\ RightProgram /\ NamedRight /\ ScriptNamed /\ Told

LEMMA NameInit ==
  Init => NameInv
<1> SUFFICES ASSUME Init PROVE NameInv
  OBVIOUS
<1>1. EnvInv
  BY EnvInit
<1>2. PICK direct \in BOOLEAN, kill \in BOOLEAN, ulx \in BOOLEAN, f \in First :
        /\ img = Image(FirstFile(f), FirstArgs(f), Launched(f, kill, ulx))
        /\ env = Announced(Launched(f, kill, ulx))
        /\ last = [call |-> "launch", form |-> "abs", file |-> f, libs |-> {}]
        /\ refused = {}
  BY ZenonT(40) DEF Init
<1>3. Launched(f, kill, ulx) \in EnvType /\ Launched(f, kill, ulx)["BXROOT_NO_AUTORUN"] = Unset
  BY FirstIs, LaunchedIs
<1>4. env["BXROOT_GUEST_EXE"] = Launched(f, kill, ulx)["BXROOT_GUEST_EXE"]
  BY <1>2, <1>3, AnnouncedIs, NamesAre
<1>5. img.exe = Launched(f, kill, ulx)["BXROOT_GUEST_EXE"]
  BY <1>2, <1>3 DEF Image
<1>6. last.call = "launch"
  BY <1>2
<1> QED BY <1>1, <1>2, <1>4, <1>5, <1>6
        DEF NameInv, RightProgram, Direct, NamedRight, OwnName, ScriptNamed, Told

LEMMA NameEdit ==
  ASSUME NameInv, NEW e, NEW touched \in BOOLEAN, Edited(e, touched), Edit(e, touched)
  PROVE  RightProgram' /\ NamedRight' /\ ScriptNamed' /\ Told'
<1>1. /\ img' = img /\ last' = last /\ refused' = refused /\ env' = e
      /\ edits' = edits + 1
      /\ lapses' = lapses \cup (IF touched THEN {"named"} ELSE {})
  BY DEF Edit
<1>2. Clean' <=> Clean
  BY <1>1 DEF Clean
<1>3. edits' # 0
  BY <1>1, ChainAssumption DEF NameInv, EnvInv, Types
<1>4. RightProgram' /\ ScriptNamed'
  BY <1>1, <1>2 DEF NameInv, RightProgram, ScriptNamed, Direct
<1>5. NamedRight'
  BY <1>1, <1>2, <1>3 DEF NameInv, NamedRight, OwnName
<1>6. Told'
  BY <1>1, <1>2 DEF NameInv, Told, Edited
<1> QED BY <1>4, <1>5, <1>6

LEMMA NameStay ==
  ASSUME NameInv, NEW e, Stay(e)
  PROVE  RightProgram' /\ NamedRight' /\ ScriptNamed' /\ Told'
<1>1. /\ img' = img /\ last' = last /\ lapses' = lapses /\ edits' = edits
      /\ e \in {env, WrittenBack(img, env)} /\ env' = e
      /\ own' = IF img.static THEN own ELSE e
      /\ img.world = "guest"
      /\ Clean => \A f \in refused' : f \in refused \/ OutOfReach(f)
  BY DEF Stay
<1>2. Types /\ Images
  BY DEF NameInv, EnvInv
<1>3. \A n \in {"BXROOT_GUEST_EXE", "BXROOT_ORIG_COMM"} : e[n] = env[n]
  BY <1>1, <1>2, WrittenIs, NamesAre DEF Tramp
<1>4. own'["BXROOT_ORIG_COMM"] = own["BXROOT_ORIG_COMM"]
  BY <1>1, <1>2, <1>3 DEF Images
<1>5. Clean' <=> Clean
  BY <1>1 DEF Clean
<1>6. RightProgram' /\ ScriptNamed'
  BY <1>1, <1>5 DEF NameInv, RightProgram, ScriptNamed, Direct
<1>7. NamedRight'
  BY <1>1, <1>4, <1>5 DEF NameInv, NamedRight, OwnName
<1>8. Told'
  BY <1>1, <1>3, <1>5 DEF NameInv, Told
<1> QED BY <1>6, <1>7, <1>8

(* The new image as far as names go. *)
LEMMA StartImage ==
  ASSUME EnvInv, NEW call, NEW form, NEW f, NEW given, NEW fault, NEW p, NEW e,
         Start(call, form, f, given, fault, p, e)
  PROVE  /\ img'.world = "guest" /\ img'.file = p.file /\ img'.args = p.args
         /\ own'["BXROOT_ORIG_COMM"] = e["BXROOT_ORIG_COMM"]
         /\ Sight(e) = "guest" /\ IsAbsolute(e["BXROOT_GUEST_EXE"])
              => img'.exe = e["BXROOT_GUEST_EXE"]
         /\ Sight(e) = "guest" => img'.static \/ env'["BXROOT_GUEST_EXE"] = img'.exe
         /\ p.file \in Files /\ KindOf(p.file) \in {"dyn", "static"}
<1>1. e \in EnvType /\ p.args \in Seq(Words) /\ p.file \in AnyFile
  BY DEF Start, Written, Ready, GoodPlan, PlanType
<1>2. KindOf(p.file) \in {"dyn", "static"} /\ p.file \in Files
  BY <1>1, FilesAre DEF Start, AnyFile
<1>3. CASE Arrives(p, e)
  <2>1. ImageFrom(img', p.file, p.args, e)
    BY <1>1, <1>2, <1>3, ImageIs DEF Arrives
  <2>2. env' = Announced(e) /\ own' = Announced(e)
    BY <1>3 DEF Arrives
  <2>3. /\ Announced(e)["BXROOT_GUEST_EXE"] = e["BXROOT_GUEST_EXE"]
        /\ Announced(e)["BXROOT_ORIG_COMM"] = e["BXROOT_ORIG_COMM"]
    BY <1>1, AnnouncedIs, NamesAre
  <2> QED BY <1>2, <2>1, <2>2, <2>3 DEF ImageFrom
<1>4. CASE Enters(p, e)
  <2>1. img \in ImgType /\ img.world = "guest"
    BY DEF EnvInv, Types, Start, Asked, MayStart
  <2> QED BY <1>2, <1>4, <2>1 DEF Enters, ImgType
<1> QED BY <1>3, <1>4 DEF Start

LEMMA NameStart ==
  ASSUME NameInv, NEW call, NEW form, NEW f, NEW given, NEW fault, NEW p, NEW e,
         Start(call, form, f, given, fault, p, e)
  PROVE  RightProgram' /\ NamedRight' /\ ScriptNamed' /\ Told'
<1>1. Types /\ EnvInv
  BY DEF NameInv, EnvInv
<1>2. /\ img'.world = "guest" /\ img'.file = p.file /\ img'.args = p.args
      /\ own'["BXROOT_ORIG_COMM"] = e["BXROOT_ORIG_COMM"]
      /\ Sight(e) = "guest" /\ IsAbsolute(e["BXROOT_GUEST_EXE"])
           => img'.exe = e["BXROOT_GUEST_EXE"]
      /\ Sight(e) = "guest" => img'.static \/ env'["BXROOT_GUEST_EXE"] = img'.exe
      /\ p.file \in Files /\ KindOf(p.file) \in {"dyn", "static"}
  BY <1>1, StartImage
<1>3. /\ Asked(call, form, f, given, fault) /\ Starts(call, form, f, given, fault)
      /\ Ready(call, form, f, p) /\ Written(e, given, p, fault)
      /\ lapses' = NewLapses(given, e, fault)
  BY DEF Start
<1>4. /\ last'.call = call /\ last'.form = form /\ last'.file = f /\ refused' = {}
      /\ edits' = 0 => edits = 0 /\ given = own /\ ~fault
  BY <1>1, <1>3, StartsTypes
<1>5. call \in {"exec", "spawn", "system", "unnamed"} /\ f \in Files /\ fault \in BOOLEAN
  BY <1>3 DEF Asked
<1>6. Clean' => ~fault /\ Sight(e) = "guest"
  BY <1>3, <1>5 DEF Clean, NewLapses
<1>7. RightProgram'
  <2>1. ASSUME call \in {"exec", "spawn"}, form # "exe" PROVE p.file = Real(f)
    BY <1>2, <1>3, <1>5, <2>1, RealIs DEF Ready, Meant
  <2>2. Direct' => call \in {"exec", "spawn"} /\ form # "exe"
    BY <1>4 DEF Direct
  <2> QED BY <1>2, <1>4, <2>1, <2>2 DEF RightProgram
<1>8. NamedRight'
  <2> SUFFICES ASSUME Clean', OwnName'
               PROVE  /\ img'.exe = Abs(img'.file)
                      /\ edits' = 0 /\ form # "exe" =>
                           File(own'["BXROOT_ORIG_COMM"]) =
                             IF form = "fd" THEN Landing(f) ELSE f
    BY <1>4 DEF NamedRight
  <2>1. \/ call = "exec" /\ form # "rel"
        \/ call = "spawn" /\ form = "abs" /\ Kind[f] \in {"dyn", "static"}
    BY <1>4 DEF OwnName
  <2>2. p.exe = Abs(p.file)
    BY <1>2, <1>3, <2>1 DEF Ready
  <2>3. IsAbsolute(p.exe)
    BY <1>2, <2>2, AbsIs DEF AnyFile
  <2>4. e["BXROOT_GUEST_EXE"] = p.exe
    BY <1>3, <1>6, <2>3 DEF Written
  <2>5. img'.exe = Abs(img'.file)
    BY <1>2, <1>6, <2>2, <2>3, <2>4
  <2>6. ASSUME form # "exe"
        PROVE  File(own'["BXROOT_ORIG_COMM"]) = IF form = "fd" THEN Landing(f) ELSE f
    <3>1. p.comm # Unset /\ File(p.comm) = IF form = "fd" THEN Landing(f) ELSE f
      BY <1>3, <2>1, <2>6 DEF Ready, Meant
    <3>2. e["BXROOT_ORIG_COMM"] = p.comm
      BY <1>3, <1>6, <3>1 DEF Written
    <3> QED BY <1>2, <3>1, <3>2
  <2> QED BY <2>5, <2>6
<1>9. ScriptNamed'
  <2> SUFFICES ASSUME Direct', p.args # <<>>, ~(call = "spawn" /\ form = "bare")
               PROVE  ArgsRight(p, f)
    BY <1>2, <1>4 DEF ScriptNamed, ArgsRight
  <2>1. call \in {"exec", "spawn"} /\ form # "exe"
    BY <1>4 DEF Direct
  <2> QED BY <1>3, <2>1 DEF Ready
<1>10. Told'
  BY <1>2, <1>6 DEF Told
<1> QED BY <1>7, <1>8, <1>9, <1>10

LEMMA NameStep ==
  NameInv /\ [Next]_vars => NameInv'
<1> SUFFICES ASSUME NameInv, [Next]_vars PROVE NameInv'
  OBVIOUS
<1>1. EnvInv /\ EnvInv'
  BY EnvStep DEF NameInv
<1> DEFINE Known == RightProgram /\ NamedRight /\ ScriptNamed /\ Told
<1>2. CASE UNCHANGED vars
  BY <1>1, <1>2 DEF vars, NameInv, RightProgram, NamedRight, ScriptNamed, Told, Clean,
                    Direct, OwnName
<1>3. CASE \E e : \E touched \in BOOLEAN : Edited(e, touched) /\ Edit(e, touched)
  BY <1>1, <1>3, NameEdit DEF NameInv
<1>4. ASSUME NEW call, NEW form, NEW f, NEW given, NEW fault, NEW world, NEW g, NEW e,
             Leave(call, form, f, given, fault, world, g, e)
      PROVE  Known'
  <2>1. img \in ImgType /\ world # "guest" /\ img' = [img EXCEPT !.world = world, !.file = g]
    BY <1>1, <1>4 DEF Leave, Leaves, EnvInv, Types
  <2>2. img'.world # "guest"
    BY <2>1 DEF ImgType
  <2> QED BY <2>2 DEF RightProgram, NamedRight, ScriptNamed, Told, Clean
<1>5. CASE Outcome
  <2>1. Known'
    <3> HIDE DEF Known
    <3>1. CASE \E e : Stay(e)
      BY <3>1, NameStay DEF Known
    <3>2. CASE \E call, form, f, given, fault, p, e : Start(call, form, f, given, fault, p, e)
      BY <3>2, NameStart DEF Known
    <3>3. CASE \E call, form, f, given, fault, world, g, e :
                 Leave(call, form, f, given, fault, world, g, e)
      BY <1>4, <3>3
    <3> QED BY <1>5, <3>1, <3>2, <3>3 DEF Outcome
  <2> QED BY <1>1, <2>1 DEF NameInv
<1> QED BY <1>1, <1>2, <1>3, <1>5, NextIs

LEMMA NameAlways ==
  Spec => []NameInv
BY NameInit, NameStep, PTL DEF Spec

(* A call starts the program that the container's files mean, through any  *)
(* links and interpreters within the reach of the code, and refuses only   *)
(* what is no program or out of that reach.  What is out of reach may, by  *)
(* ExecContained's exception, be the host's program instead. *)
THEOREM ExecRightProgram ==
  Spec => []RightProgram
<1>1. NameInv => RightProgram
  BY DEF NameInv
<1> QED BY <1>1, NameAlways, PTL

(* Each image and the interpreter of each script are told the right names. *)
THEOREM ExecNamesKept ==
  Spec => []NamesKept
<1>1. NameInv => NamesKept
  BY DEF NameInv, NamesKept
<1> QED BY <1>1, NameAlways, PTL

(* exec of /proc/self/exe starts the program that runs, even when the      *)
(* environment for it could not be made. *)
LEMMA ReexecStep ==
  ASSUME NameInv, Next, starts' = starts + 1, last'.form = "exe",
         Clean, OwnName, ~img.static, "named" \notin lapses
  PROVE  img'.world = "guest" /\ img'.file = img.file
<1>1. /\ EnvInv /\ img.file \in Files /\ Kind[img.file] = "dyn"
      /\ env["BXROOT_GUEST_EXE"] = Abs(img.file)
  BY DEF NameInv, EnvInv, Images, Told, NamedRight, Clean
<1>2. starts' # starts
  BY ChainAssumption DEF NameInv, EnvInv, Types
<1>3. ~\E e : \E touched \in BOOLEAN : Edited(e, touched) /\ Edit(e, touched)
  BY <1>2 DEF Edit
<1>4. ~\E e : Stay(e)
  BY <1>2 DEF Stay
<1>5. ASSUME NEW call, NEW form, NEW f, NEW given, NEW fault, NEW world, NEW g, NEW e,
             Leave(call, form, f, given, fault, world, g, e)
      PROVE  FALSE
  <2>1. form = "exe"
    BY <1>1, <1>5, StartsTypes DEF Leave, EnvInv
  <2> QED BY <1>1, <1>5, <2>1 DEF Leave
<1>6. ASSUME NEW call, NEW form, NEW f, NEW given, NEW fault, NEW p, NEW e,
             Start(call, form, f, given, fault, p, e)
      PROVE  img'.world = "guest" /\ img'.file = img.file
  <2>1. form = "exe" /\ call \in {"exec", "spawn"}
    <3>1. form = "exe"
      BY <1>1, <1>6, StartsTypes DEF Start, EnvInv
    <3> QED BY <1>6, <3>1 DEF Start, Ready
  <2>2. p.file = img.file
    BY <1>1, <1>6, <2>1 DEF Start, Ready, SelfMeant
  <2> QED BY <1>1, <1>6, <2>2, StartImage
<1> QED BY <1>1, <1>3, <1>4, <1>5, <1>6, NextIs DEF Outcome

(* exec of /proc/self/exe in a dynamic program that was started under its  *)
(* own name and has left BXROOT_GUEST_EXE alone starts that program again, *)
(* also where the environment for it is refused (proc.c:5988-6018).        *)
THEOREM ExecReexecSame ==
  Spec => ReexecSame
<1>1. NameInv /\ [Next]_vars =>
        [/\ starts' = starts + 1 /\ last'.form = "exe"
         /\ Clean /\ OwnName /\ ~img.static /\ "named" \notin lapses
         => img'.world = "guest" /\ img'.file = img.file]_vars
  BY ReexecStep
<1> QED BY <1>1, NameAlways, PTL DEF Spec, ReexecSame
=============================================================================
