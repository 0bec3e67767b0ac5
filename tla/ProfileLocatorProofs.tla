------------------------ MODULE ProfileLocatorProofs ------------------------
(***************************************************************************)
(* Proofs about ProfileLocator, for any kinds, directories, links and any  *)
(* number of changes by others: a custom directory is searched only in the *)
(* sandbox, and an answer is justified by what was seen.                   *)
(*                                                                         *)
(* The search resolves a path by its name, link by link, in many steps;    *)
(* the kernel goes from place to place, and where it comes to is defined   *)
(* by recursion. The two are tied in two parts: as long as no ".." stands  *)
(* behind a link, name and place go the same way (StraightIsReal), and the *)
(* path under way leads, by the links that may still be followed, to where *)
(* the first one does (OnTheWay, in the invariant).                        *)
(***************************************************************************)
EXTENDS ProfileLocator, NaturalsInduction, WellFoundedInduction, SequenceTheorems, TLAPS

Limits == 0 .. MaximumSymbolicLinks

\* Where a path leads in the program's resolution, through so many links at most.
End[n \in Limits] ==
    [p \in Paths |->
        IF Linked(p) = {} THEN p ELSE IF n = 0 THEN NoPath ELSE End[n - 1][Stepped(p)]]

Preferences == Customs[kind] \cup {NoPath, Garbled}
Customized == Paths \cup {NoPath}

LocatorTypes ==
    /\ kind \in Kinds
    /\ links \in Selections(Targets[kind]) /\ status \in Selections(Directories[kind])
    /\ preference \in Preferences /\ custom \in Customized
    /\ pc \in {"root", "home", "common", "preference", "custom", "check", "candidates", "done"}
    /\ Resolving => kind # "native" /\ path \in Paths /\ followed \in Limits
    /\ pc \in {"home", "common"} => kind = "snap"
    /\ pc \in {"custom", "check"} => custom # NoPath
    /\ candidate \in 1 .. Len(CandidatesOf[kind]) + 1
    /\ DOMAIN resolved = {"root", "home"}

\* The history has what is there, and what has been read.
Remembered ==
    /\ status \in hadStatus /\ hadStatus \subseteq Selections(Directories[kind])
    /\ Read(preference) \in hadCustom /\ hadCustom \subseteq Customized
    /\ pc \in {"custom", "check"} => custom \in hadCustom

\* Where the resolution began.
Begun ==
    CASE pc = "root" -> RootOf[kind] [] pc = "home" -> Home(kind)
      [] pc = "common" -> Common(kind) [] OTHER -> custom

\* The way from where a resolution is leads where the one from its beginning does.
OnTheWay == Resolving => Real(Begun) = End[MaximumSymbolicLinks - followed][path]

\* What the resolutions have found so far.
RootsFound ==
    /\ pc \in {"root", "home", "common"} => roots = {}
    /\ pc \in {"home", "common"} => resolved.root = Real(RootOf[kind]) /\ resolved.root # NoPath
    /\ pc = "common" => /\ resolved.home = Real(Home(kind)) /\ resolved.home # NoPath
                        /\ IsRevision(resolved.root, resolved.home)
    /\ pc \in {"preference", "custom", "check"} /\ kind # "native" => roots = TrueRoots

\* What the order of the search owes to those who look at the answer.
Precedence ==
    /\ pc = "check" => Allowed(custom)
    /\ pc = "candidates" => AbsentBefore(candidate)
    /\ pc \notin {"candidates", "done"} => candidate = 1

\* Nobody has changed a link, and no ".." stands behind a link in what one points to.
Steady == ~linksChanged /\ Straight

LocatorInvariant ==
    /\ LocatorTypes /\ Remembered
    /\ Steady => OnTheWay /\ RootsFound /\ Precedence /\ AnswerIsJustified

-----------------------------------------------------------------------------
(* Numbers and sequences.                                                   *)

\* A set of numbers has a least one.
LEMMA LeastNumber ==
    ASSUME NEW S \in SUBSET Nat, S # {}
    PROVE  \E e \in S : \A f \in S : ~(f < e)
  <1>. DEFINE R == {ss \in Nat \X Nat : ss[1] < ss[2]}
  <1>1. IsWellFoundedOn(R, Nat)
    BY NatLessThanWellFounded DEF OpToRel
  <1>. HIDE DEF R
  <1>2. PICK e \in S : \A f \in S : ~(<<f, e>> \in R)
    BY <1>1, WFMin
  <1>3. \A f \in S : ~(f < e)
    BY <1>2 DEF R
  <1> QED BY <1>3

\* An element appended to the last part of a path.
LEMMA AppendToRest ==
    ASSUME NEW c \in Seq(Names), NEW s \in Seq(Names), NEW e \in Names
    PROVE  Append(c \o s, e) = c \o Append(s, e)
  <1>1. <<e>> \in Seq(Names) /\ c \o s \in Seq(Names)
    OBVIOUS
  <1>2. Append(s, e) = s \o <<e>> /\ Append(c \o s, e) = (c \o s) \o <<e>>
    BY <1>1, AppendIsConcat
  <1>3. (c \o s) \o <<e>> = c \o (s \o <<e>>)
    BY <1>1, ConcatAssociative
  <1> QED BY <1>2, <1>3

-----------------------------------------------------------------------------
(* Clean names.                                                             *)

\* What the recursion of Clean asks of a function.
Cleans(f, p, n) ==
    f = [i \in 0 .. n |->
            IF i = 0 THEN <<>>
            ELSE IF p[i] = ".." THEN Front(f[i - 1]) ELSE Append(f[i - 1], p[i])]

LEMMA CleansExist ==
    ASSUME NEW p, NEW n \in Nat
    PROVE  \E f : Cleans(f, p, n)
  <1>. DEFINE T == {k \in Nat : ~\E f : Cleans(f, p, k)}
  <1>1. SUFFICES T = {}
    OBVIOUS
  <1>2. SUFFICES ASSUME NEW k \in T, \A j \in T : ~(j < k) PROVE FALSE
    BY LeastNumber
  <1>3. CASE k = 0
    <2>. DEFINE f == [i \in 0 .. 0 |-> <<>>]
    <2>1. \A i \in 0 .. 0 : i = 0
      OBVIOUS
    <2>2. Cleans(f, p, 0)
      BY <2>1 DEF Cleans
    <2> QED BY <1>3, <2>2
  <1>4. CASE k # 0
    <2>1. k \in Nat /\ k - 1 \in Nat /\ k - 1 < k /\ k - 1 \notin T
      BY <1>2, <1>4
    <2>2. PICK g : Cleans(g, p, k - 1)
      BY <2>1
    <2>. DEFINE Row(i, h) == IF i = 0 THEN <<>>
                             ELSE IF p[i] = ".." THEN Front(h[i - 1]) ELSE Append(h[i - 1], p[i])
                f == [i \in 0 .. k |-> Row(i, g)]
    <2>3. ASSUME NEW i \in 0 .. k - 1 PROVE f[i] = g[i]
      <3>1. i \in 0 .. k
        BY <2>1
      <3>2. g[i] = Row(i, g)
        BY <2>2 DEF Cleans
      <3> QED BY <3>1, <3>2
    <2>. HIDE DEF f
    <2>4. ASSUME NEW i \in 0 .. k PROVE Row(i, g) = Row(i, f)
      <3>1. CASE i = 0
        BY <3>1
      <3>2. CASE i # 0
        <4>1. i - 1 \in 0 .. k - 1
          BY <2>1, <3>2
        <4>2. f[i - 1] = g[i - 1]
          BY <2>3, <4>1
        <4> QED BY <4>2
      <3> QED BY <3>1, <3>2
    <2>5. f = [i \in 0 .. k |-> Row(i, f)]
      BY <2>4 DEF f
    <2>6. Cleans(f, p, k)
      BY <2>5 DEF Cleans
    <2> QED BY <2>6
  <1> QED BY <1>3, <1>4

\* How a name is made clean depends on what it begins with only.
LEMMA CleansAlike ==
    ASSUME NEW p \in RawPaths, NEW q \in RawPaths, NEW n \in Nat, NEW m \in Nat, n <= m,
           \A i \in 1 .. n : p[i] = q[i]
    PROVE  \A f, g : Cleans(f, p, n) /\ Cleans(g, q, m) => f[n] = g[n]
  <1>. SUFFICES ASSUME NEW f, NEW g, Cleans(f, p, n), Cleans(g, q, m) PROVE f[n] = g[n]
    OBVIOUS
  <1>. DEFINE T == {k \in 0 .. n : f[k] # g[k]}
  <1>1. SUFFICES T = {}
    OBVIOUS
  <1>2. SUFFICES ASSUME NEW k \in T, \A j \in T : ~(j < k) PROVE FALSE
    <2>1. T \in SUBSET Nat
      OBVIOUS
    <2> QED BY <2>1, LeastNumber
  <1>3. k \in Nat /\ k <= n /\ k \in 0 .. n /\ k \in 0 .. m
    OBVIOUS
  <1>4. f[k] = IF k = 0 THEN <<>> ELSE IF p[k] = ".." THEN Front(f[k - 1]) ELSE Append(f[k - 1], p[k])
    BY <1>3 DEF Cleans
  <1>5. g[k] = IF k = 0 THEN <<>> ELSE IF q[k] = ".." THEN Front(g[k - 1]) ELSE Append(g[k - 1], q[k])
    BY <1>3 DEF Cleans
  <1>6. k # 0 => p[k] = q[k] /\ f[k - 1] = g[k - 1]
    <2>1. k # 0 => k \in 1 .. n /\ k - 1 \in 0 .. n /\ k - 1 < k
      BY <1>3
    <2> QED BY <1>2, <2>1
  <1>7. f[k] = g[k]
    BY <1>4, <1>5, <1>6
  <1> QED BY <1>7

LEMMA CleanIsDefined ==
    ASSUME NEW p, Len(p) \in Nat
    PROVE  \E f : Cleans(f, p, Len(p)) /\ Clean(p) = f[Len(p)]
  <1>1. PICK g : Cleans(g, p, Len(p))
    BY CleansExist
  <1>. DEFINE f == CHOOSE h : h = [i \in 0 .. Len(p) |->
                          IF i = 0 THEN <<>>
                          ELSE IF p[i] = ".." THEN Front(h[i - 1]) ELSE Append(h[i - 1], p[i])]
  <1>2. Cleans(f, p, Len(p))
    BY <1>1, Zenon DEF Cleans
  <1>3. Clean(p) = f[Len(p)]
    BY Zenon DEF Clean
  <1> QED BY <1>2, <1>3

\* The clean form of what a name begins with, one name further.
LEMMA CleanPrefixes ==
    ASSUME NEW p \in RawPaths
    PROVE  /\ Clean(<<>>) = <<>> /\ Clean(SubSeq(p, 1, 0)) = <<>>
           /\ Clean(SubSeq(p, 1, Len(p))) = Clean(p)
           /\ \A n \in 1 .. Len(p) :
                 Clean(SubSeq(p, 1, n)) =
                     IF p[n] = ".." THEN Front(Clean(SubSeq(p, 1, n - 1)))
                     ELSE Append(Clean(SubSeq(p, 1, n - 1)), p[n])
  <1>0. Len(p) \in Nat /\ p \in Seq(Names \cup {".."})
    BY DEF RawPaths
  <1>1. PICK f : Cleans(f, p, Len(p)) /\ Clean(p) = f[Len(p)]
    BY <1>0, CleanIsDefined
  <1>2. ASSUME NEW n \in 0 .. Len(p) PROVE Clean(SubSeq(p, 1, n)) = f[n]
    <2>. DEFINE q == SubSeq(p, 1, n)
    <2>1. Len(q) = n /\ n \in Nat /\ n <= Len(p) /\ Len(p) \in Nat
      BY <1>0
    <2>a. \A i \in 1 .. n : q[i] = p[i]
      BY <1>0
    <2>b. q \in RawPaths
      BY DEF RawPaths
    <2>. HIDE DEF q
    <2>2. PICK g : Cleans(g, q, n) /\ Clean(q) = g[n]
      BY <2>1, CleanIsDefined
    <2>3. g[n] = f[n]
      <3>1. Cleans(g, q, n) /\ Cleans(f, p, Len(p))
        BY <1>1, <2>2
      <3> QED BY <2>1, <2>a, <2>b, <3>1, CleansAlike
    <2> QED BY <2>2, <2>3 DEF q
  <1>3. f[0] = <<>>
    <2>1. 0 \in 0 .. Len(p)
      BY <1>0
    <2> QED BY <1>1, <2>1 DEF Cleans
  <1>4. Clean(SubSeq(p, 1, 0)) = <<>>
    BY <1>0, <1>2, <1>3
  <1>5. SubSeq(p, 1, 0) = <<>> /\ SubSeq(p, 1, Len(p)) = p
    BY <1>0, SubSeqFull, SubSeqEmpty
  <1>6. ASSUME NEW n \in 1 .. Len(p)
        PROVE  Clean(SubSeq(p, 1, n)) =
                   IF p[n] = ".." THEN Front(Clean(SubSeq(p, 1, n - 1)))
                   ELSE Append(Clean(SubSeq(p, 1, n - 1)), p[n])
    <2>1. n \in 0 .. Len(p) /\ n - 1 \in 0 .. Len(p) /\ n # 0
      BY <1>0
    <2>2. f[n] = IF p[n] = ".." THEN Front(f[n - 1]) ELSE Append(f[n - 1], p[n])
      BY <1>1, <2>1 DEF Cleans
    <2> QED BY <1>2, <2>1, <2>2
  <1> QED BY <1>4, <1>5, <1>6

LEMMA CleanIsPath ==
    ASSUME NEW p \in RawPaths
    PROVE  /\ Clean(p) \in Paths
           /\ \A n \in 0 .. Len(p) : Clean(SubSeq(p, 1, n)) \in Paths
  <1>0. Len(p) \in Nat /\ \A n \in 1 .. Len(p) : p[n] \in Names \cup {".."}
    BY DEF RawPaths
  <1>. DEFINE T == {n \in 0 .. Len(p) : Clean(SubSeq(p, 1, n)) \notin Paths}
  <1>1. T = {}
    <2>1. SUFFICES ASSUME NEW n \in T, \A k \in T : ~(k < n) PROVE FALSE
      <3>1. T \in SUBSET Nat
        BY <1>0
      <3> QED BY <3>1, LeastNumber
    <2>2. n # 0
      <3>1. <<>> \in Paths
        BY DEF Paths
      <3> QED BY <3>1, CleanPrefixes
    <2>3. n \in 1 .. Len(p) /\ n - 1 \in 0 .. Len(p) /\ n - 1 < n
      BY <1>0, <2>2
    <2>4. Clean(SubSeq(p, 1, n - 1)) \in Paths
      BY <2>1, <2>3
    <2>. DEFINE c == Clean(SubSeq(p, 1, n - 1))
    <2>5. Front(c) \in Paths
      <3>. HIDE DEF c
      <3>1. Len(c) - 1 \in Int /\ \A i \in 1 .. Len(c) - 1 : c[i] \in Names
        BY <2>4 DEF Paths, c
      <3> QED BY <3>1, SubSeqProperties DEF Front, Paths
    <2>6. p[n] # ".." => Append(c, p[n]) \in Paths
      BY <1>0, <2>3, <2>4 DEF Paths
    <2> QED BY <2>3, <2>5, <2>6, CleanPrefixes
  <1>2. \A n \in 0 .. Len(p) : Clean(SubSeq(p, 1, n)) \in Paths
    BY <1>1
  <1>3. Len(p) \in 0 .. Len(p)
    BY <1>0
  <1> QED BY <1>2, <1>3, CleanPrefixes

\* A clean rest stays as it is.
LEMMA CleanRest ==
    ASSUME NEW p \in RawPaths, NEW n \in 0 .. Len(p), \A k \in n + 1 .. Len(p) : p[k] # ".."
    PROVE  Clean(p) = Clean(SubSeq(p, 1, n)) \o SubSeq(p, n + 1, Len(p))
  <1>0. Len(p) \in Nat /\ n \in Nat /\ n <= Len(p) /\ p \in Seq(Names \cup {".."})
        /\ \A k \in 1 .. Len(p) : p[k] \in Names \cup {".."}
    BY DEF RawPaths
  <1>. DEFINE c == Clean(SubSeq(p, 1, n))
  <1>a. c \in Seq(Names)
    BY CleanIsPath DEF Paths
  <1>. DEFINE T == {k \in n .. Len(p) : Clean(SubSeq(p, 1, k)) # c \o SubSeq(p, n + 1, k)}
  <1>1. T = {}
    <2>1. SUFFICES ASSUME NEW k \in T, \A j \in T : ~(j < k) PROVE FALSE
      <3>1. T \in SUBSET Nat
        BY <1>0
      <3> QED BY <3>1, LeastNumber
    <2>2. k # n
      <3>1. SubSeq(p, n + 1, n) = <<>>
        BY <1>0, SubSeqEmpty
      <3> QED BY <1>a, <3>1
    <2>3. k \in 1 .. Len(p) /\ k - 1 \in n .. Len(p) /\ k - 1 < k /\ k \in n + 1 .. Len(p)
      BY <1>0, <2>2
    <2>4. Clean(SubSeq(p, 1, k - 1)) = c \o SubSeq(p, n + 1, k - 1)
      BY <2>1, <2>3
    <2>5. Clean(SubSeq(p, 1, k)) = Append(c \o SubSeq(p, n + 1, k - 1), p[k])
      BY <2>3, <2>4, CleanPrefixes
    <2>6. p[k] \in Names
      BY <1>0, <2>3
    <2>7. SubSeq(p, n + 1, k - 1) \in Seq(Names)
      <3>1. \A i \in n + 1 .. k - 1 : p[i] \in Names
        BY <1>0, <2>3
      <3> QED BY <1>0, <2>3, <3>1, SubSeqProperties
    <2>8. SubSeq(p, n + 1, k) = Append(SubSeq(p, n + 1, k - 1), p[k])
      <3>1. n + 1 \in 1 .. Len(p) /\ k \in n + 1 .. Len(p)
        BY <1>0, <2>3
      <3>2. SubSeq(p, n + 1, k) = SubSeq(p, n + 1, k - 1) \o <<p[k]>>
        BY <1>0, <3>1, SubSeqRecursiveSecond
      <3> QED BY <2>6, <2>7, <3>2, AppendIsConcat
    <2>9. Append(c \o SubSeq(p, n + 1, k - 1), p[k]) = c \o Append(SubSeq(p, n + 1, k - 1), p[k])
      <3>1. PICK d \in Seq(Names) : d = c
        BY <1>a
      <3>2. PICK s \in Seq(Names) : s = SubSeq(p, n + 1, k - 1)
        BY <2>7
      <3>3. PICK e \in Names : e = p[k]
        BY <2>6
      <3>4. Append(d \o s, e) = d \o Append(s, e)
        BY AppendToRest
      <3> QED BY <3>1, <3>2, <3>3, <3>4
    <2> QED BY <2>5, <2>8, <2>9
  <1>2. Len(p) \in n .. Len(p)
    BY <1>0
  <1> QED BY <1>1, <1>2, CleanPrefixes

\* A clean path is its own name.
LEMMA CleanOfPath ==
    ASSUME NEW p \in Paths
    PROVE  p \in RawPaths /\ Clean(p) = p /\ \A n \in DOMAIN p : p[n] # ".." /\ Clean(SubSeq(p, 1, n)) = SubSeq(p, 1, n)
  <1>1. ASSUME NEW q \in Paths PROVE q \in RawPaths /\ Clean(q) = q /\ \A n \in 1 .. Len(q) : q[n] # ".."
    <2>1. q \in RawPaths
      BY DEF Paths, RawPaths
    <2>2. q \in Seq(Names) /\ Len(q) \in Nat /\ 0 \in 0 .. Len(q)
      BY LocatorAssumption DEF LocatorAssumption, Paths
    <2>a. \A n \in 1 .. Len(q) : q[n] # ".."
      BY LocatorAssumption DEF LocatorAssumption, Paths
    <2>b. \A n \in 0 + 1 .. Len(q) : q[n] # ".."
      BY <2>a
    <2>3. Clean(q) = Clean(SubSeq(q, 1, 0)) \o SubSeq(q, 0 + 1, Len(q))
      BY <2>1, <2>2, <2>b, CleanRest, Zenon
    <2>4. SubSeq(q, 0 + 1, Len(q)) = q
      BY <2>2, SubSeqFull
    <2>5. Clean(q) = <<>> \o q
      BY <2>1, <2>3, <2>4, CleanPrefixes
    <2> QED BY <2>1, <2>2, <2>5, <2>a, ConcatEmptySeq
  <1>2. ASSUME NEW n \in DOMAIN p PROVE SubSeq(p, 1, n) \in Paths
    BY DEF Paths
  <1>3. DOMAIN p = 1 .. Len(p)
    BY DEF Paths
  <1> QED BY <1>1, <1>2, <1>3

\* What the clean form begins with is the clean form of something the name begins with.
LEMMA CleanBegins ==
    ASSUME NEW p \in RawPaths
    PROVE  \A n \in 0 .. Len(p) : \A i \in 1 .. Len(Clean(SubSeq(p, 1, n))) :
               \E j \in 1 .. n : SubSeq(Clean(SubSeq(p, 1, n)), 1, i) = Clean(SubSeq(p, 1, j))
  <1>0. Len(p) \in Nat /\ \A k \in 1 .. Len(p) : p[k] \in Names \cup {".."}
    BY DEF RawPaths
  <1>. DEFINE c(n) == Clean(SubSeq(p, 1, n))
              Fine(n) == \A i \in 1 .. Len(c(n)) : \E j \in 1 .. n : SubSeq(c(n), 1, i) = c(j)
              T == {n \in 0 .. Len(p) : ~Fine(n)}
  <1>a. \A n \in 0 .. Len(p) : c(n) \in Seq(Names) /\ Len(c(n)) \in Nat
    BY CleanIsPath DEF Paths
  <1>b. c(0) = <<>> /\ \A n \in 1 .. Len(p) : c(n) = IF p[n] = ".." THEN Front(c(n - 1)) ELSE Append(c(n - 1), p[n])
    BY CleanPrefixes
  <1>. HIDE DEF c
  <1>1. T = {}
    <2>1. SUFFICES ASSUME NEW n \in T, \A k \in T : ~(k < n) PROVE FALSE
      <3>1. T \in SUBSET Nat
        BY <1>0
      <3> QED BY <3>1, LeastNumber
    <2>2. n # 0
      BY <1>b
    <2>3. n \in 1 .. Len(p) /\ n - 1 \in 0 .. Len(p) /\ n - 1 < n
      BY <1>0, <2>2
    <2>4. Fine(n - 1)
      BY <2>1, <2>3
    <2>. DEFINE s == c(n - 1)
    <2>5. s \in Seq(Names) /\ Len(s) \in Nat
      BY <1>a, <2>3
    <2>6. PICK i \in 1 .. Len(c(n)) : ~\E j \in 1 .. n : SubSeq(c(n), 1, i) = c(j)
      BY <2>1
    <2>7. \A j \in 1 .. n - 1 : j \in 1 .. n
      BY <2>3
    <2>8. CASE p[n] = ".."
      <3>1. c(n) = SubSeq(s, 1, Len(s) - 1)
        BY <1>b, <2>3, <2>8 DEF Front
      <3>2. i \in 1 .. Len(s) - 1 /\ i \in 1 .. Len(s)
        BY <2>5, <2>6, <3>1, SubSeqProperties
      <3>3. SubSeq(c(n), 1, i) = SubSeq(s, 1, i)
        BY <2>5, <3>1, <3>2
      <3> QED BY <2>4, <2>6, <2>7, <3>2, <3>3
    <2>9. CASE p[n] # ".."
      <3>1. c(n) = Append(s, p[n]) /\ p[n] \in Names
        BY <1>0, <1>b, <2>3, <2>9
      <3>2. Len(c(n)) = Len(s) + 1
        BY <2>5, <3>1
      <3>3. CASE i = Len(c(n))
        <4>1. c(n) \in Seq(Names)
          BY <1>a, <2>3
        <4>2. SubSeq(c(n), 1, i) = c(n)
          BY <3>3, <4>1, SubSeqFull
        <4> QED BY <2>3, <2>6, <4>2
      <3>4. CASE i # Len(c(n))
        <4>1. i \in 1 .. Len(s)
          BY <2>5, <2>6, <3>2, <3>4
        <4>2. SubSeq(c(n), 1, i) = SubSeq(s, 1, i)
          BY <2>5, <3>1, <4>1
        <4> QED BY <2>4, <2>6, <2>7, <4>1, <4>2
      <3> QED BY <3>3, <3>4
    <2> QED BY <2>8, <2>9
  <1> QED BY <1>1 DEF c

-----------------------------------------------------------------------------
(* Going from place to place.                                               *)

\* What a recursion asks of a function that goes on so many times at most: from p to next[p],
\* until it is among those where it is over, at there[p].
Goes(f, n, D, over, there, next) ==
    f = [i \in 0 .. n |->
            [p \in D |-> IF p \in over THEN there[p] ELSE IF i = 0 THEN NoPath ELSE f[i - 1][next[p]]]]

LEMMA GoesExists ==
    ASSUME NEW D, NEW over, NEW there, NEW next
    PROVE  \A n \in Nat : \E f : Goes(f, n, D, over, there, next)
  <1>. DEFINE T == {n \in Nat : ~\E f : Goes(f, n, D, over, there, next)}
  <1>1. SUFFICES T = {}
    OBVIOUS
  <1>2. SUFFICES ASSUME NEW n \in T, \A k \in T : ~(k < n) PROVE FALSE
    BY LeastNumber
  <1>. DEFINE Row(i, h) == [p \in D |-> IF p \in over THEN there[p]
                                        ELSE IF i = 0 THEN NoPath ELSE h[i - 1][next[p]]]
  <1>3. CASE n = 0
    <2>. DEFINE f == [i \in 0 .. 0 |-> [p \in D |-> IF p \in over THEN there[p] ELSE NoPath]]
    <2>1. \A i \in 0 .. 0 : i = 0
      OBVIOUS
    <2>2. Goes(f, 0, D, over, there, next)
      BY <2>1 DEF Goes
    <2> QED BY <1>3, <2>2
  <1>4. CASE n # 0
    <2>1. n \in Nat /\ n - 1 \in Nat /\ n - 1 < n /\ n - 1 \notin T
      BY <1>2, <1>4
    <2>2. PICK g : Goes(g, n - 1, D, over, there, next)
      BY <2>1
    <2>. DEFINE f == [i \in 0 .. n |-> Row(i, g)]
    <2>3. ASSUME NEW i \in 0 .. n - 1 PROVE f[i] = g[i]
      <3>1. i \in 0 .. n
        BY <2>1
      <3>2. g[i] = Row(i, g)
        BY <2>2 DEF Goes
      <3> QED BY <3>1, <3>2
    <2>. HIDE DEF f
    <2>4. ASSUME NEW i \in 0 .. n PROVE Row(i, g) = Row(i, f)
      <3>1. CASE i = 0
        BY <3>1
      <3>2. CASE i # 0
        <4>1. i - 1 \in 0 .. n - 1
          BY <2>1, <3>2
        <4>2. f[i - 1] = g[i - 1]
          BY <2>3, <4>1
        <4> QED BY <4>2
      <3> QED BY <3>1, <3>2
    <2>5. f = [i \in 0 .. n |-> Row(i, f)]
      BY <2>4 DEF f
    <2>6. Goes(f, n, D, over, there, next)
      BY <2>5 DEF Goes
    <2> QED BY <2>6
  <1> QED BY <1>3, <1>4

LEMMA GoesAlike ==
    ASSUME NEW D, NEW over, NEW there, NEW next, NEW n \in Nat
    PROVE  \A f, g : Goes(f, n, D, over, there, next) /\ Goes(g, n, D, over, there, next)
                       => \A k \in 0 .. n : f[k] = g[k]
  <1>. SUFFICES ASSUME NEW f, NEW g, Goes(f, n, D, over, there, next), Goes(g, n, D, over, there, next)
                PROVE  \A k \in 0 .. n : f[k] = g[k]
    OBVIOUS
  <1>. DEFINE T == {k \in 0 .. n : f[k] # g[k]}
  <1>1. SUFFICES T = {}
    OBVIOUS
  <1>2. SUFFICES ASSUME NEW k \in T, \A j \in T : ~(j < k) PROVE FALSE
    <2>1. T \in SUBSET Nat
      OBVIOUS
    <2> QED BY <2>1, LeastNumber
  <1>3. k \in Nat /\ k \in 0 .. n
    OBVIOUS
  <1>. DEFINE Row(h) == [p \in D |-> IF p \in over THEN there[p]
                                     ELSE IF k = 0 THEN NoPath ELSE h[k - 1][next[p]]]
  <1>4. f[k] = Row(f) /\ g[k] = Row(g)
    BY <1>3 DEF Goes
  <1>5. k # 0 => f[k - 1] = g[k - 1]
    <2>1. k # 0 => k - 1 \in 0 .. n /\ k - 1 < k
      BY <1>3
    <2> QED BY <1>2, <2>1
  <1>6. Row(f) = Row(g)
    BY <1>5
  <1> QED BY <1>4, <1>6

-----------------------------------------------------------------------------
(* Where a name leads, by its names and in truth.                           *)

Free == {p \in Paths : Linked(p) = {}}
Itself == [p \in Paths |-> p]
NextName == [p \in Paths |-> Stepped(p)]

Arrived == {p \in RawPaths : Met(p) = {}}
CleanForm == [p \in RawPaths |-> Clean(p)]
NextPlace == [p \in RawPaths |-> Opened(p)]

LEMMA EndGoes == Goes(End, MaximumSymbolicLinks, Paths, Free, Itself, NextName)
  <1>. DEFINE Row(h) == [i \in Limits |-> [p \in Paths |->
                             IF Linked(p) = {} THEN p ELSE IF i = 0 THEN NoPath ELSE h[i - 1][Stepped(p)]]]
  <1>1. MaximumSymbolicLinks \in Nat
    BY LocatorAssumption DEF LocatorAssumption
  <1>2. ASSUME NEW f PROVE Goes(f, MaximumSymbolicLinks, Paths, Free, Itself, NextName) <=> f = Row(f)
    BY DEF Goes, Limits, Free, Itself, NextName
  <1>. HIDE DEF Row
  <1>3. \E f : f = Row(f)
    <2>1. PICK g : Goes(g, MaximumSymbolicLinks, Paths, Free, Itself, NextName)
      BY <1>1, GoesExists
    <2> QED BY <1>2, <2>1
  <1>4. End = Row(End)
    BY <1>3, Zenon DEF End, Row
  <1> QED BY <1>2, <1>4

LEMMA ReachedGoes == Goes(Reached, MaximumSymbolicLinks, RawPaths, Arrived, CleanForm, NextPlace)
  <1>. DEFINE Row(h) == [i \in 0 .. MaximumSymbolicLinks |-> [p \in RawPaths |->
                             IF Met(p) = {} THEN Clean(p) ELSE IF i = 0 THEN NoPath ELSE h[i - 1][Opened(p)]]]
  <1>1. MaximumSymbolicLinks \in Nat
    BY LocatorAssumption DEF LocatorAssumption
  <1>2. ASSUME NEW f PROVE Goes(f, MaximumSymbolicLinks, RawPaths, Arrived, CleanForm, NextPlace) <=> f = Row(f)
    BY DEF Goes, Arrived, CleanForm, NextPlace
  <1>. HIDE DEF Row
  <1>3. \E f : f = Row(f)
    <2>1. PICK g : Goes(g, MaximumSymbolicLinks, RawPaths, Arrived, CleanForm, NextPlace)
      BY <1>1, GoesExists
    <2> QED BY <1>2, <2>1
  <1>4. Reached = Row(Reached)
    BY <1>3, Zenon DEF Reached, Row
  <1> QED BY <1>2, <1>4

LEMMA BothGoNext ==
    /\ Goes(End, MaximumSymbolicLinks, Paths, Free, Itself, NextName)'
    /\ Goes(Reached, MaximumSymbolicLinks, RawPaths, Arrived, CleanForm, NextPlace)'
  BY EndGoes, ReachedGoes, PTL

\* One link further.
\* One link at a time.
LEMMA OneOn ==
    /\ \A n \in Limits : \A p \in Paths :
           End[n][p] = IF Linked(p) = {} THEN p ELSE IF n = 0 THEN NoPath ELSE End[n - 1][Stepped(p)]
    /\ \A n \in Limits : \A p \in RawPaths :
           Reached[n][p] = IF Met(p) = {} THEN Clean(p) ELSE IF n = 0 THEN NoPath ELSE Reached[n - 1][Opened(p)]
  <1>1. ASSUME NEW n \in Limits, NEW p \in Paths
        PROVE  End[n][p] = IF Linked(p) = {} THEN p ELSE IF n = 0 THEN NoPath ELSE End[n - 1][Stepped(p)]
    <2>1. End[n] = [q \in Paths |-> IF q \in Free THEN Itself[q]
                                    ELSE IF n = 0 THEN NoPath ELSE End[n - 1][NextName[q]]]
      BY EndGoes DEF Goes, Limits
    <2>2. (p \in Free <=> Linked(p) = {}) /\ Itself[p] = p /\ NextName[p] = Stepped(p)
      BY DEF Free, Itself, NextName
    <2> QED BY <2>1, <2>2
  <1>2. ASSUME NEW n \in Limits, NEW p \in RawPaths
        PROVE  Reached[n][p] = IF Met(p) = {} THEN Clean(p) ELSE IF n = 0 THEN NoPath ELSE Reached[n - 1][Opened(p)]
    <2>1. Reached[n] = [q \in RawPaths |-> IF q \in Arrived THEN CleanForm[q]
                                    ELSE IF n = 0 THEN NoPath ELSE Reached[n - 1][NextPlace[q]]]
      BY ReachedGoes DEF Goes, Limits
    <2>2. (p \in Arrived <=> Met(p) = {}) /\ CleanForm[p] = Clean(p) /\ NextPlace[p] = Opened(p)
      BY DEF Arrived, CleanForm, NextPlace
    <2> QED BY <2>1, <2>2
  <1> QED BY <1>1, <1>2

\* Nowhere else as long as the links are the same.
LEMMA EndUnchanged ==
    ASSUME UNCHANGED links
    PROVE  /\ \A n \in Limits : End'[n] = End[n]
           /\ \A p : Real(p)' = Real(p)
           /\ Straight' <=> Straight
  <1>1. MaximumSymbolicLinks \in Nat /\ MaximumSymbolicLinks \in Limits
    BY LocatorAssumption DEF LocatorAssumption, Limits
  <1>2. \A q : IsLink(q)' = IsLink(q)
    BY DEF IsLink
  <1>3. ASSUME NEW p PROVE Linked(p)' = Linked(p) /\ Stepped(p)' = Stepped(p)
    <2>1. Linked(p)' = Linked(p)
      BY <1>2 DEF Linked
    <2> QED BY <2>1 DEF Stepped
  <1>4. ASSUME NEW p PROVE Met(p)' = Met(p) /\ Opened(p)' = Opened(p)
    <2>1. Met(p)' = Met(p)
      BY <1>2 DEF Met
    <2> QED BY <2>1 DEF Opened
  <1>5. UNCHANGED <<Free, NextName, Itself>>
    BY <1>3 DEF Free, NextName, Itself
  <1>6. UNCHANGED <<Arrived, NextPlace, CleanForm>>
    BY <1>4 DEF Arrived, NextPlace, CleanForm
  <1>7. \A n \in Limits : End'[n] = End[n]
    <2>1. Goes(End', MaximumSymbolicLinks, Paths, Free, Itself, NextName)
      BY <1>5, BothGoNext DEF Goes
    <2> QED BY <1>1, <2>1, EndGoes, GoesAlike DEF Limits
  <1>8. \A n \in Limits : Reached'[n] = Reached[n]
    <2>1. Goes(Reached', MaximumSymbolicLinks, RawPaths, Arrived, CleanForm, NextPlace)
      BY <1>6, BothGoNext DEF Goes
    <2> QED BY <1>1, <2>1, ReachedGoes, GoesAlike DEF Limits
  <1>9. \A p : Real(p)' = Real(p)
    BY <1>1, <1>8 DEF Real
  <1>10. Straight' <=> Straight
    BY <1>4 DEF Straight
  <1> QED BY <1>7, <1>9, <1>10

-----------------------------------------------------------------------------
(* The name and the place are one as long as no ".." stands behind a link.  *)

\* What a place links to is a path, perhaps with a "..".
LinksAreRaw == \A q \in DOMAIN links : links[q] \in RawPaths \cup {NoPath}

\* No ".." of the path stands behind a link.
Plain(p) == \A n \in DOMAIN p : p[n] = ".." => \A m \in Met(p) : m > n

\* The first of some places in a path is one of them.
LEMMA LeastOf ==
    ASSUME NEW S \in SUBSET Nat, S # {}
    PROVE  Min(S) \in S /\ \A k \in S : Min(S) <= k
  <1>1. PICK e \in S : \A f \in S : ~(f < e)
    BY LeastNumber
  <1>2. \E least \in S : \A f \in S : least <= f
    <2>1. \A f \in S : f \in Nat /\ e \in Nat
      OBVIOUS
    <2> QED BY <1>1, <2>1
  <1> QED BY <1>2, Zenon DEF Min

\* The two parts of a name that has been put together.
LEMMA Parts ==
    ASSUME NEW s \in RawPaths, NEW t \in RawPaths
    PROVE  /\ s \o t \in RawPaths /\ Len(s \o t) = Len(s) + Len(t)
           /\ SubSeq(s \o t, 1, Len(s)) = s
           /\ SubSeq(s \o t, Len(s) + 1, Len(s \o t)) = t
           /\ \A n \in 1 .. Len(s) : (s \o t)[n] = s[n] /\ SubSeq(s \o t, 1, n) = SubSeq(s, 1, n)
           /\ \A n \in Len(s) + 1 .. Len(s) + Len(t) : (s \o t)[n] = t[n - Len(s)]
  <1>. DEFINE D == Names \cup {".."}
              u == s \o t
  <1>1. s \in Seq(D) /\ t \in Seq(D) /\ Len(s) \in Nat /\ Len(t) \in Nat
    BY DEF RawPaths
  <1>2. u \in Seq(D) /\ Len(u) = Len(s) + Len(t)
    BY <1>1
  <1>3. /\ \A n \in 1 .. Len(s) : u[n] = s[n]
        /\ \A n \in Len(s) + 1 .. Len(s) + Len(t) : u[n] = t[n - Len(s)]
    BY <1>1
  <1>. HIDE DEF u, D
  <1>4. SubSeq(u, 1, Len(s)) = s
    <2>1. \A i \in 1 .. Len(s) : u[i] \in D
      BY <1>1, <1>2, ElementOfSeq
    <2>2. /\ SubSeq(u, 1, Len(s)) \in Seq(D) /\ Len(SubSeq(u, 1, Len(s))) = Len(s)
          /\ \A i \in 1 .. Len(s) : SubSeq(u, 1, Len(s))[i] = s[i]
      BY <1>1, <1>2, <1>3, <2>1, SubSeqProperties
    <2> QED BY <1>1, <2>2, SeqEqual
  <1>5. SubSeq(u, Len(s) + 1, Len(u)) = t
    <2>. DEFINE w == SubSeq(u, Len(s) + 1, Len(u))
    <2>1. \A i \in Len(s) + 1 .. Len(u) : u[i] \in D
      BY <1>1, <1>2, ElementOfSeq
    <2>2. /\ w \in Seq(D) /\ Len(w) = Len(t)
          /\ \A i \in 1 .. Len(t) : w[i] = u[Len(s) + i]
      BY <1>1, <1>2, <2>1, SubSeqProperties
    <2>. HIDE DEF w
    <2>3. ASSUME NEW i \in 1 .. Len(t) PROVE w[i] = t[i]
      <3>1. Len(s) + i \in Len(s) + 1 .. Len(s) + Len(t) /\ (Len(s) + i) - Len(s) = i
        BY <1>1
      <3> QED BY <1>3, <2>2, <3>1
    <2>4. w = t
      BY <1>1, <2>2, <2>3, SeqEqual
    <2> QED BY <2>4 DEF w
  <1>6. ASSUME NEW n \in 1 .. Len(s) PROVE SubSeq(u, 1, n) = SubSeq(s, 1, n)
    <2>1. n \in Nat /\ n <= Len(u) /\ n <= Len(s) /\ 1 \in 1 .. Len(s)
      BY <1>1, <1>2
    <2> QED BY <1>1, <2>1, SubSeqOfConcat1 DEF u
  <1> QED BY <1>1, <1>2, <1>3, <1>4, <1>5, <1>6 DEF u, D, RawPaths

LEMMA PathsAreRaw == Paths \subseteq RawPaths
  BY DEF Paths, RawPaths

\* The kernel and the program meet the same first link, and go on to the same name.
LEMMA SameLink ==
    ASSUME LinksAreRaw, Straight, NEW p \in RawPaths, Plain(p)
    PROVE  /\ Met(p) = {} => Linked(Clean(p)) = {}
           /\ Met(p) # {} => /\ Linked(Clean(p)) # {} /\ Opened(p) \in RawPaths /\ Plain(Opened(p))
                             /\ Clean(Opened(p)) = Stepped(Clean(p))
  <1>. DEFINE q == Clean(p)
              c(n) == Clean(SubSeq(p, 1, n))
  <1>1. /\ Len(p) \in Nat /\ DOMAIN p = 1 .. Len(p) /\ \A n \in 1 .. Len(p) : p[n] \in Names \cup {".."}
        /\ q \in Paths /\ Len(q) \in Nat /\ DOMAIN q = 1 .. Len(q)
        /\ \A n \in 0 .. Len(p) : c(n) \in Paths
    BY CleanIsPath DEF RawPaths, Paths
  <1>2. Met(p) \subseteq 1 .. Len(p) /\ \A n \in 1 .. Len(p) : n \in Met(p) <=> IsLink(c(n))
    BY <1>1 DEF Met
  <1>3. \A n \in 0 .. Len(p) : \A i \in 1 .. Len(c(n)) : \E j \in 1 .. n : SubSeq(c(n), 1, i) = c(j)
    BY CleanBegins
  <1>4. ASSUME Met(p) = {} PROVE Linked(q) = {}
    <2>1. SUFFICES ASSUME NEW i \in 1 .. Len(q), IsLink(SubSeq(q, 1, i)) PROVE FALSE
      BY <1>1 DEF Linked
    <2>2. Len(p) \in 0 .. Len(p) /\ c(Len(p)) = q
      BY <1>1, CleanPrefixes
    <2>3. PICK j \in 1 .. Len(p) : SubSeq(q, 1, i) = c(j)
      BY <1>3, <2>1, <2>2
    <2>4. IsLink(c(j))
      BY <2>1, <2>3
    <2> QED BY <1>2, <1>4, <2>3, <2>4
  <1>5. ASSUME Met(p) # {}
        PROVE  /\ Linked(q) # {} /\ Opened(p) \in RawPaths /\ Plain(Opened(p))
               /\ Clean(Opened(p)) = Stepped(q)
    <2>. DEFINE m == Min(Met(p))
                t == links[c(m)]
                rest == SubSeq(p, m + 1, Len(p))
    <2>1. m \in Met(p) /\ \A k \in Met(p) : m <= k
      <3>1. Met(p) \in SUBSET Nat
        BY <1>1, <1>2
      <3> QED BY <1>5, <3>1, LeastOf
    <2>. HIDE DEF m
    <2>2. m \in 1 .. Len(p) /\ m \in 0 .. Len(p) /\ m - 1 \in 0 .. Len(p) /\ IsLink(c(m))
      BY <1>1, <1>2, <2>1
    <2>3. \A k \in m .. Len(p) : p[k] # ".."
      <3>1. SUFFICES ASSUME NEW k \in m .. Len(p), p[k] = ".." PROVE FALSE
        OBVIOUS
      <3>2. k \in 1 .. Len(p)
        BY <1>1, <2>2
      <3>3. m > k
        BY <1>1, <2>1, <3>1, <3>2 DEF Plain
      <3> QED BY <2>2, <3>3
    <2>4. rest \in Paths /\ rest \in RawPaths
      <3>1. \A k \in m + 1 .. Len(p) : p[k] \in Names
        <4>1. ASSUME NEW k \in m + 1 .. Len(p) PROVE p[k] \in Names
          <5>1. k \in 1 .. Len(p) /\ k \in m .. Len(p)
            BY <1>1, <2>2
          <5> QED BY <1>1, <2>3, <5>1
        <4> QED BY <4>1
      <3>2. m + 1 \in Int /\ Len(p) \in Int
        BY <1>1, <2>2
      <3> QED BY <3>1, <3>2, SubSeqProperties, PathsAreRaw DEF Paths
    <2>5. t \in RawPaths /\ Plain(t)
      BY <2>2 DEF LinksAreRaw, IsLink, Straight, Plain
    <2>. DEFINE b == c(m - 1)
                l == c(m)
    <2>6. q = l \o rest
      <3>1. \A k \in m + 1 .. Len(p) : p[k] # ".."
        BY <1>1, <2>2, <2>3
      <3> QED BY <2>2, <3>1, CleanRest
    <2>7. l = Append(b, p[m]) /\ b \in Seq(Names) /\ l \in Paths /\ l \in RawPaths /\ p[m] \in Names
      <3>1. m \in m .. Len(p)
        BY <1>1, <2>2
      <3>2. p[m] # ".."
        BY <2>3, <3>1
      <3>3. l = Append(b, p[m])
        BY <2>2, <3>2, CleanPrefixes
      <3>4. b \in Paths /\ l \in Paths /\ p[m] \in Names \cup {".."}
        BY <1>1, <2>2
      <3> QED BY <3>2, <3>3, <3>4, PathsAreRaw DEF Paths
    <2>8. \A i \in 1 .. Len(b) : \E j \in 1 .. m - 1 : SubSeq(b, 1, i) = c(j)
      BY <1>3, <2>2
    <2>9. IsLink(l)
      BY <2>2
    <2>. HIDE DEF rest, t, b, l, q
    <2>10. Len(b) \in Nat /\ Len(l) = Len(b) + 1
      BY <2>7
    <2>11. /\ SubSeq(q, 1, Len(l)) = l /\ SubSeq(q, Len(l) + 1, Len(q)) = rest
           /\ Len(q) = Len(l) + Len(rest) /\ Len(rest) \in Nat
           /\ \A n \in 1 .. Len(l) : SubSeq(q, 1, n) = SubSeq(l, 1, n)
      <3>1. Len(rest) \in Nat
        BY <2>4 DEF Paths
      <3>2. /\ Len(l \o rest) = Len(l) + Len(rest)
            /\ SubSeq(l \o rest, 1, Len(l)) = l /\ SubSeq(l \o rest, Len(l) + 1, Len(l \o rest)) = rest
            /\ \A n \in 1 .. Len(l) : SubSeq(l \o rest, 1, n) = SubSeq(l, 1, n)
        <4>1. PICK x \in RawPaths : x = l
          BY <2>7
        <4>2. PICK y \in RawPaths : y = rest
          BY <2>4
        <4>3. /\ Len(x \o y) = Len(x) + Len(y)
              /\ SubSeq(x \o y, 1, Len(x)) = x /\ SubSeq(x \o y, Len(x) + 1, Len(x \o y)) = y
              /\ \A n \in 1 .. Len(x) : SubSeq(x \o y, 1, n) = SubSeq(x, 1, n)
          BY Parts
        <4> QED BY <4>1, <4>2, <4>3, Zenon
      <3> QED BY <2>6, <3>1, <3>2, Zenon
    <2>12. Len(l) \in Linked(q)
      <3>1. Len(l) \in DOMAIN q
        BY <1>1, <2>10, <2>11
      <3> QED BY <2>9, <2>11, <3>1 DEF Linked
    <2>13. ASSUME NEW i \in Linked(q) PROVE ~(i < Len(l))
      <3>1. SUFFICES ASSUME i < Len(l) PROVE FALSE
        OBVIOUS
      <3>2. i \in 1 .. Len(q) /\ IsLink(SubSeq(q, 1, i))
        BY <1>1 DEF Linked
      <3>3. i \in 1 .. Len(l) /\ i \in 1 .. Len(b)
        BY <1>1, <2>10, <3>1, <3>2
      <3>4. SubSeq(q, 1, i) = SubSeq(b, 1, i)
        <4>1. SubSeq(l, 1, i) = SubSeq(b, 1, i)
          BY <2>7, <2>10, <3>3
        <4> QED BY <2>11, <3>3, <4>1
      <3>5. PICK j \in 1 .. m - 1 : SubSeq(b, 1, i) = c(j)
        BY <2>8, <3>3
      <3>6. IsLink(c(j)) /\ j \in 1 .. Len(p) /\ j < m
        <4>1. IsLink(c(j))
          BY <3>2, <3>4, <3>5
        <4>2. j \in 1 .. Len(p) /\ j < m
          BY <1>1, <2>2
        <4> QED BY <4>1, <4>2
      <3>7. j \in Met(p)
        BY <1>2, <3>6
      <3> QED BY <2>1, <2>2, <3>6, <3>7
    <2>14. Min(Linked(q)) = Len(l)
      <3>1. Linked(q) \in SUBSET Nat
        BY <1>1 DEF Linked
      <3>2. Min(Linked(q)) \in Linked(q) /\ Min(Linked(q)) <= Len(l)
        BY <2>12, <3>1, LeastOf
      <3> QED BY <2>10, <2>12, <2>13, <3>1, <3>2
    <2>15. Stepped(q) = Clean(t) \o rest
      <3>1. Linked(q) # {}
        BY <2>12
      <3>2. Stepped(q) = Clean(links[SubSeq(q, 1, Len(l))]) \o SubSeq(q, Len(l) + 1, Len(q))
        BY <2>14, <3>1, Zenon DEF Stepped
      <3> QED BY <2>11, <3>2 DEF t, l
    <2>16. Opened(p) = t \o rest
      BY DEF Opened, t, rest, m
    <2>. DEFINE o == t \o rest
    <2>17. /\ o \in RawPaths /\ Len(o) = Len(t) + Len(rest) /\ Len(t) \in Nat
           /\ SubSeq(o, 1, Len(t)) = t /\ SubSeq(o, Len(t) + 1, Len(o)) = rest
           /\ \A n \in 1 .. Len(t) : o[n] = t[n] /\ SubSeq(o, 1, n) = SubSeq(t, 1, n)
           /\ \A n \in Len(t) + 1 .. Len(t) + Len(rest) : o[n] = rest[n - Len(t)]
      BY <2>4, <2>5, Parts DEF RawPaths
    <2>. HIDE DEF o
    <2>18. \A n \in Len(t) + 1 .. Len(o) : o[n] # ".."
      <3>1. SUFFICES ASSUME NEW n \in Len(t) + 1 .. Len(o) PROVE o[n] # ".."
        OBVIOUS
      <3>2. n - Len(t) \in DOMAIN rest /\ o[n] = rest[n - Len(t)]
        BY <2>4, <2>11, <2>17 DEF Paths
      <3> QED BY <2>4, <3>2, CleanOfPath
    <2>19. Clean(o) = Clean(t) \o rest
      <3>1. Len(t) \in 0 .. Len(o)
        BY <2>11, <2>17
      <3>2. Clean(o) = Clean(SubSeq(o, 1, Len(t))) \o SubSeq(o, Len(t) + 1, Len(o))
        BY <2>17, <2>18, <3>1, CleanRest
      <3> QED BY <2>17, <3>2
    <2>20. Plain(o)
      <3>1. SUFFICES ASSUME NEW n \in DOMAIN o, o[n] = "..", NEW k \in Met(o) PROVE k > n
        BY DEF Plain
      <3>2. /\ n \in 1 .. Len(o) /\ k \in 1 .. Len(o) /\ IsLink(Clean(SubSeq(o, 1, k))) /\ Len(o) \in Nat
            /\ n \in 1 .. Len(t)
        <4>1. DOMAIN o = 1 .. Len(o) /\ Len(o) \in Nat
          BY <2>17 DEF RawPaths
        <4>2. n \in Len(t) + 1 .. Len(o) \/ n \in 1 .. Len(t)
          BY <2>17, <4>1
        <4> QED BY <2>18, <3>1, <4>1, <4>2 DEF Met
      <3>3. SUFFICES ASSUME ~(k > n) PROVE FALSE
        OBVIOUS
      <3>4. k \in 1 .. Len(t) /\ DOMAIN t = 1 .. Len(t)
        BY <2>5, <2>17, <3>2, <3>3 DEF RawPaths
      <3>5. k \in Met(t)
        BY <2>17, <3>2, <3>4 DEF Met
      <3>6. t[n] = ".."
        BY <2>17, <3>1, <3>2
      <3>7. k > n
        BY <2>5, <3>2, <3>4, <3>5, <3>6 DEF Plain
      <3> QED BY <3>3, <3>7
    <2> QED BY <2>12, <2>15, <2>16, <2>17, <2>19, <2>20 DEF o
  <1> QED BY <1>4, <1>5

\* They come to the same end through as many links.
LEMMA StraightEnds ==
    ASSUME LinksAreRaw, Straight
    PROVE  \A n \in Limits : \A p \in RawPaths : Plain(p) => Reached[n][p] = End[n][Clean(p)]
  <1>. DEFINE T == {n \in Limits : \E p \in RawPaths : Plain(p) /\ Reached[n][p] # End[n][Clean(p)]}
  <1>1. SUFFICES T = {}
    OBVIOUS
  <1>2. SUFFICES ASSUME NEW n \in T, \A k \in T : ~(k < n) PROVE FALSE
    <2>1. T \in SUBSET Nat
      BY DEF Limits
    <2> QED BY <2>1, LeastNumber
  <1>3. PICK p \in RawPaths : Plain(p) /\ Reached[n][p] # End[n][Clean(p)]
    OBVIOUS
  <1>4. n \in Limits /\ n \in Nat /\ Clean(p) \in Paths
    BY CleanIsPath DEF Limits
  <1>5. Reached[n][p] = IF Met(p) = {} THEN Clean(p) ELSE IF n = 0 THEN NoPath ELSE Reached[n - 1][Opened(p)]
    BY <1>4, OneOn
  <1>6. End[n][Clean(p)] = IF Linked(Clean(p)) = {} THEN Clean(p)
                           ELSE IF n = 0 THEN NoPath ELSE End[n - 1][Stepped(Clean(p))]
    BY <1>4, OneOn
  <1>7. CASE Met(p) = {}
    BY <1>3, <1>5, <1>6, <1>7, SameLink
  <1>8. CASE Met(p) # {} /\ n = 0
    BY <1>3, <1>5, <1>6, <1>8, SameLink
  <1>9. CASE Met(p) # {} /\ n # 0
    <2>1. /\ Linked(Clean(p)) # {} /\ Opened(p) \in RawPaths /\ Plain(Opened(p))
          /\ Clean(Opened(p)) = Stepped(Clean(p))
      BY <1>3, <1>9, SameLink
    <2>2. n - 1 \in Limits /\ n - 1 < n
      BY <1>4, <1>9, LocatorAssumption DEF Limits, LocatorAssumption
    <2>a. n - 1 \notin T
      BY <1>2, <2>2
    <2>3. Reached[n - 1][Opened(p)] = End[n - 1][Clean(Opened(p))]
      BY <2>1, <2>2, <2>a
    <2> QED BY <1>3, <1>5, <1>6, <1>9, <2>1, <2>3
  <1> QED BY <1>7, <1>8, <1>9

\* The program's resolution of a path finds the place the kernel takes it to.
LEMMA StraightIsReal ==
    ASSUME LinksAreRaw, Straight, NEW p \in Paths
    PROVE  Real(p) = End[MaximumSymbolicLinks][p]
  <1>1. MaximumSymbolicLinks \in Limits
    BY LocatorAssumption DEF LocatorAssumption, Limits
  <1>2. p \in RawPaths /\ Clean(p) = p /\ Plain(p)
    BY CleanOfPath DEF Plain
  <1> QED BY <1>1, <1>2, StraightEnds DEF Real

\* A path with a link that has been followed is a path.
LEMMA SteppedIsPath ==
    ASSUME LinksAreRaw, NEW p \in Paths
    PROVE  Stepped(p) \in Paths
  <1>1. CASE Linked(p) = {}
    BY <1>1 DEF Stepped
  <1>2. CASE Linked(p) # {}
    <2>. DEFINE m == Min(Linked(p))
    <2>1. Linked(p) \in SUBSET Nat /\ Linked(p) \subseteq 1 .. Len(p) /\ Len(p) \in Nat
      BY DEF Linked, Paths
    <2>2. m \in Linked(p)
      BY <1>2, <2>1, LeastOf
    <2>3. m \in 1 .. Len(p) /\ IsLink(SubSeq(p, 1, m))
      BY <2>1, <2>2 DEF Linked
    <2>. HIDE DEF m
    <2>4. Clean(links[SubSeq(p, 1, m)]) \in Paths
      BY <2>3, CleanIsPath DEF IsLink, LinksAreRaw
    <2>5. SubSeq(p, m + 1, Len(p)) \in Paths
      BY <2>1, <2>3 DEF Paths
    <2>6. Stepped(p) = Clean(links[SubSeq(p, 1, m)]) \o SubSeq(p, m + 1, Len(p))
      BY <1>2 DEF Stepped, m
    <2> QED BY <2>4, <2>5, <2>6 DEF Paths
  <1> QED BY <1>1, <1>2

\* One link at a time, to a path or nowhere.
LEMMA EndOfPath ==
    ASSUME LinksAreRaw
    PROVE  \A n \in Limits, p \in Paths :
               /\ End[n][p] \in Paths \cup {NoPath}
               /\ Linked(p) = {} => End[n][p] = p
               /\ Linked(p) # {} /\ n = 0 => End[n][p] = NoPath
               /\ Linked(p) # {} /\ n # 0 => End[n][p] = End[n - 1][Stepped(p)]
  <1>. MaximumSymbolicLinks \in Nat
    BY LocatorAssumption DEF LocatorAssumption
  <1>. DEFINE T == {n \in Limits : \E p \in Paths : End[n][p] \notin Paths \cup {NoPath}}
  <1>1. T = {}
    <2>1. SUFFICES ASSUME NEW n \in T, \A k \in T : ~(k < n) PROVE FALSE
      <3>1. T \in SUBSET Nat
        BY DEF Limits
      <3> QED BY <3>1, LeastNumber
    <2>2. n \in Limits /\ n \in Nat
      BY DEF Limits
    <2>3. PICK p \in Paths : End[n][p] \notin Paths \cup {NoPath}
      OBVIOUS
    <2>4. Linked(p) # {} /\ n # 0 /\ End[n][p] = End[n - 1][Stepped(p)]
      BY <2>2, <2>3, OneOn
    <2>5. n - 1 \in Limits /\ n - 1 < n
      BY <2>2, <2>4 DEF Limits
    <2>6. \A q \in Paths : End[n - 1][q] \in Paths \cup {NoPath}
      BY <2>1, <2>5
    <2> QED BY <2>3, <2>4, <2>6, SteppedIsPath
  <1> QED BY <1>1, OneOn

-----------------------------------------------------------------------------
(* What the state says about places.                                        *)

LEMMA LinksLead ==
    ASSUME LocatorTypes
    PROVE  LinksAreRaw
  BY LocatorAssumption DEF LocatorAssumption, LocatorTypes, Selections, LinksAreRaw

LEMMA SandboxPaths ==
    ASSUME NEW k \in Kinds, k # "native"
    PROVE  RootOf[k] \in Paths /\ Home(k) \in Paths /\ Common(k) \in Paths
  <1>1. RootOf[k] \in Paths \ {<<>>}
    BY LocatorAssumption DEF LocatorAssumption
  <1>2. Len(RootOf[k]) - 1 \in Nat /\ Len(RootOf[k]) - 1 <= Len(RootOf[k])
    BY <1>1 DEF Paths
  <1>3. Home(k) \in Paths
    BY <1>1, <1>2 DEF Home, Front, Paths
  <1>4. Common(k) \in Paths
    <2>1. "common" \in Names
      BY LocatorAssumption DEF LocatorAssumption
    <2> QED BY <1>3, <2>1 DEF Common, Paths
  <1> QED BY <1>1, <1>3, <1>4

LEMMA CustomPaths ==
    ASSUME LocatorTypes
    PROVE  /\ \A p \in Customized : p # NoPath => p \in Paths
           /\ \A i \in DOMAIN CandidatesOf[kind] : CandidatesOf[kind][i] \in Paths
           /\ Len(CandidatesOf[kind]) \in Nat
           /\ DOMAIN CandidatesOf[kind] = 1 .. Len(CandidatesOf[kind])
  <1>1. kind \in Kinds /\ CandidatesOf[kind] \in Seq(Paths)
    BY LocatorAssumption DEF LocatorAssumption, LocatorTypes
  <1> QED BY <1>1 DEF Customized

LEMMA ReadIsPath ==
    ASSUME LocatorTypes, NEW p \in Preferences
    PROVE  Read(p) \in Customized
  <1>1. Customs[kind] \subseteq RawPaths
    BY LocatorAssumption DEF LocatorAssumption, LocatorTypes
  <1> QED BY <1>1, CleanIsPath DEF Read, Preferences, Customized

\* The links have been as they are for as long as nobody has changed one.
LEMMA SteadyBefore == ASSUME UNCHANGED <<links, linksChanged>>, Steady' PROVE Steady
  BY EndUnchanged DEF Steady

LEMMA StatusIsKnown ==
    ASSUME LocatorTypes, NEW p \in Paths
    PROVE  DirectoryStatus(p) \in {"invalid", "unreadable", "readable"}
  <1>1. kind \in Kinds /\ DOMAIN status = DOMAIN Directories[kind]
    BY DEF LocatorTypes, Selections
  <1>2. \A q \in DOMAIN status : status[q] \in Directories[kind][q]
    BY <1>1 DEF LocatorTypes, Selections
  <1>3. \A q \in DOMAIN status : status[q] \in {"invalid", "unreadable", "readable"}
    BY <1>1, <1>2, LocatorAssumption DEF LocatorAssumption
  <1> QED BY <1>3 DEF DirectoryStatus, StatusAt

\* As long as no link changes, every place is where it was.
LEMMA SamePlaces ==
    ASSUME LocatorTypes, UNCHANGED <<kind, links>>
    PROVE  /\ \A p \in Paths : Real(p)' = Real(p)
           /\ \A s : \A p \in Paths : StatusAt(p, s)' = StatusAt(p, s)
           /\ kind # "native" => TrueRoots' = TrueRoots
           /\ \A p \in Customized : Allowed(p)' <=> Allowed(p)
  <1>1. \A p \in Paths : Real(p)' = Real(p)
    BY EndUnchanged
  <1>2. \A s : \A p \in Paths : StatusAt(p, s)' = StatusAt(p, s)
    BY <1>1 DEF StatusAt
  <1>3. ASSUME kind # "native" PROVE TrueRoots' = TrueRoots
    <2>1. RootOf[kind] \in Paths /\ Home(kind) \in Paths /\ Common(kind) \in Paths
      BY <1>3, SandboxPaths DEF LocatorTypes
    <2>2. /\ Real(RootOf[kind])' = Real(RootOf[kind]) /\ Real(Home(kind))' = Real(Home(kind))
          /\ Real(Common(kind))' = Real(Common(kind))
      BY <2>1, EndUnchanged, LocatorAssumption DEF Real, Limits, LocatorAssumption
    <2>3. Home(kind)' = Home(kind) /\ Common(kind)' = Common(kind)
      OBVIOUS
    <2> QED BY <2>2, <2>3 DEF TrueRoots
  <1>4. ASSUME NEW p \in Customized PROVE Allowed(p)' <=> Allowed(p)
    <2>1. CASE p = NoPath
      BY <2>1 DEF Allowed
    <2>2. CASE p # NoPath
      <3>1. Real(p)' = Real(p)
        BY <1>1, <2>2, CustomPaths
      <3> QED BY <1>3, <3>1 DEF Allowed
    <2> QED BY <2>1, <2>2
  <1> QED BY <1>1, <1>2, <1>3, <1>4

\* What was seen has been seen for ever.
LEMMA SeenBefore ==
    ASSUME LocatorTypes, Remembered, UNCHANGED <<kind, links>>,
           hadStatus \subseteq hadStatus', hadCustom \subseteq hadCustom'
    PROVE  /\ \A s : \A p \in Paths : Had(p, s) => Had(p, s)'
           /\ \A n \in 1 .. Len(CandidatesOf[kind]) + 1 : AbsentBefore(n) => AbsentBefore(n)'
  <1>1. ASSUME NEW p \in Paths, NEW s, Had(p, s) PROVE Had(p, s)'
    <2>1. PICK old \in hadStatus : StatusAt(p, old) = s
      BY <1>1 DEF Had
    <2>2. old \in hadStatus' /\ StatusAt(p, old)' = s
      BY <2>1, SamePlaces
    <2> QED BY <2>2 DEF Had
  <1>2. SkipsCustom => SkipsCustom'
    <2>1. ASSUME NEW p \in hadCustom, Allowed(p) => Absent(p) PROVE SkipsCustom'
      <3>1. p \in Customized /\ p \in hadCustom'
        BY DEF Remembered
      <3>2. Allowed(p)' => Absent(p)'
        <4>1. SUFFICES ASSUME Allowed(p)' PROVE Absent(p)'
          OBVIOUS
        <4>2. Allowed(p) /\ p # NoPath
          BY <3>1, <4>1, SamePlaces DEF Allowed
        <4> QED BY <1>1, <2>1, <3>1, <4>2, CustomPaths DEF Absent
      <3> QED BY <3>1, <3>2 DEF SkipsCustom
    <2> QED BY <2>1 DEF SkipsCustom
  <1>3. ASSUME NEW n \in 1 .. Len(CandidatesOf[kind]) + 1, AbsentBefore(n) PROVE AbsentBefore(n)'
    <2>1. ASSUME NEW i \in 1 .. n - 1 PROVE Absent(CandidatesOf[kind][i])'
      <3>1. i \in DOMAIN CandidatesOf[kind]
        BY CustomPaths
      <3>. DEFINE c == CandidatesOf[kind][i]
      <3>2. c \in Paths /\ Absent(c)
        BY <1>3, <3>1, CustomPaths DEF AbsentBefore
      <3> QED BY <1>1, <3>2 DEF Absent, Had, StatusAt, Real
    <2> QED BY <1>2, <1>3, <2>1 DEF AbsentBefore
  <1> QED BY <1>1, <1>3

\* A resolution that is over has found where the path it began with leads.
LEMMA ResolutionIsReal ==
    ASSUME LocatorTypes, OnTheWay, NEW goal \in {"root", "home", "common", "custom"}, Resolved(goal)
    PROVE  Resolution = Real(Begun)
  <1>1. Resolving /\ path \in Paths /\ followed \in Limits
    BY DEF Resolved, Resolving, LocatorTypes
  <1>2. MaximumSymbolicLinks \in Nat
    BY LocatorAssumption DEF LocatorAssumption
  <1>3. MaximumSymbolicLinks - followed \in Limits
    BY <1>1, <1>2 DEF Limits
  <1>4. CASE Linked(path) = {}
    <2>1. End[MaximumSymbolicLinks - followed][path] = path
      BY <1>1, <1>3, <1>4, LinksLead, EndOfPath
    <2> QED BY <1>1, <1>4, <2>1 DEF OnTheWay, Resolution
  <1>5. CASE Linked(path) # {}
    <2>1. MaximumSymbolicLinks - followed = 0
      BY <1>2, <1>5 DEF Resolved
    <2>2. End[MaximumSymbolicLinks - followed][path] = NoPath
      BY <1>1, <1>3, <1>5, <2>1, LinksLead, EndOfPath
    <2> QED BY <1>1, <1>5, <2>2 DEF OnTheWay, Resolution
  <1> QED BY <1>4, <1>5

\* A resolution that begins is on its way.
LEMMA ResolutionBegins ==
    ASSUME LocatorTypes, Steady, UNCHANGED links, path' \in Paths, followed' = 0, Begun' = path'
    PROVE  OnTheWay'
  <1>1. MaximumSymbolicLinks \in Nat /\ MaximumSymbolicLinks - 0 = MaximumSymbolicLinks
    BY LocatorAssumption DEF LocatorAssumption
  <1>2. PICK p \in Paths : p = path'
    OBVIOUS
  <1>3. Real(p) = End[MaximumSymbolicLinks][p]
    BY LinksLead, StraightIsReal DEF Steady
  <1>4. Real(p)' = End'[MaximumSymbolicLinks][p]
    BY <1>1, <1>3, EndUnchanged DEF Limits
  <1> QED BY <1>1, <1>2, <1>4 DEF OnTheWay, Real

LEMMA NextLink ==
    ASSUME LocatorTypes, Resolving, UNCHANGED <<links, pc, kind, custom>>, OnTheWay,
           Linked(path) # {}, followed < MaximumSymbolicLinks,
           path' = Stepped(path), followed' = followed + 1
    PROVE  OnTheWay'
  <1>1. path \in Paths /\ followed \in Limits
    BY DEF LocatorTypes
  <1>2. MaximumSymbolicLinks \in Nat
    BY LocatorAssumption DEF LocatorAssumption
  <1>. DEFINE left == MaximumSymbolicLinks - followed
  <1>3. left \in Limits /\ left # 0 /\ left - 1 \in Limits /\ followed' \in Limits
        /\ MaximumSymbolicLinks - followed' = left - 1 /\ MaximumSymbolicLinks \in Limits
    BY <1>1, <1>2 DEF Limits
  <1>. HIDE DEF left
  <1>4. path' \in Paths
    BY <1>1, LinksLead, SteppedIsPath
  <1>5. End[left][path] = End[left - 1][path']
    BY <1>1, <1>3, LinksLead, EndOfPath
  <1>6. Begun' = Begun
    BY SMT DEF Begun, Resolving, Home, Common
  <1>7. Real(Begun)' = Real(Begun)
    BY <1>3, <1>6, EndUnchanged DEF Real
  <1>8. End'[left - 1] = End[left - 1]
    BY <1>3, EndUnchanged
  <1>9. Real(Begun) = End[left][path]
    BY DEF OnTheWay, left
  <1>10. Real(Begun)' = End'[MaximumSymbolicLinks - followed'][path']
    BY <1>3, <1>5, <1>7, <1>8, <1>9
  <1> QED BY <1>3, <1>4, <1>10 DEF OnTheWay

-----------------------------------------------------------------------------
(* The steps.                                                               *)

LEMMA FollowStep ==
    ASSUME LocatorInvariant, Follow
    PROVE  LocatorInvariant'
  <1>. USE DEF LocatorInvariant
  <1>1. /\ Resolving /\ Linked(path) # {} /\ followed < MaximumSymbolicLinks
        /\ path' = Stepped(path) /\ followed' = followed + 1
        /\ UNCHANGED <<world, pc, resolved, roots, custom, candidate, answer>>
    BY DEF Follow, FollowedNow
  <1>2. UNCHANGED <<kind, links, status, preference, hadStatus, hadCustom, linksChanged>>
    BY <1>1 DEF world
  <1>3. path \in Paths /\ followed \in Limits
    BY <1>1 DEF LocatorTypes
  <1>4. path' \in Paths /\ followed' \in Limits
    <2>1. followed' \in Limits
      BY <1>1, <1>3, LocatorAssumption DEF Limits, LocatorAssumption
    <2> QED BY <1>1, <1>3, <2>1, LinksLead, SteppedIsPath
  <1>5. LocatorTypes'
    BY <1>1, <1>2, <1>4 DEF LocatorTypes, Customized, Preferences, Resolving
  <1>6. Remembered'
    BY <1>1, <1>2 DEF Remembered, Customized
  <1>7. ASSUME Steady' PROVE OnTheWay' /\ RootsFound' /\ Precedence' /\ AnswerIsJustified'
    <2>1. OnTheWay /\ RootsFound /\ Precedence
      BY <1>2, <1>7, SteadyBefore
    <2>2. OnTheWay'
      BY <1>1, <1>2, <2>1, NextLink
    <2>3. kind # "native" /\ TrueRoots' = TrueRoots
      BY <1>1, <1>2, SamePlaces DEF LocatorTypes
    <2>4. /\ Real(RootOf[kind])' = Real(RootOf[kind]) /\ Real(Home(kind))' = Real(Home(kind))
          /\ Real(Common(kind))' = Real(Common(kind))
      BY <1>2, EndUnchanged, LocatorAssumption DEF Real, Limits, LocatorAssumption, Home, Common
    <2>5. RootsFound'
      BY <1>1, <1>2, <2>1, <2>3, <2>4 DEF RootsFound
    <2>6. Precedence'
      BY <1>1, <2>1 DEF Precedence, Resolving
    <2>7. AnswerIsJustified'
      BY <1>1 DEF AnswerIsJustified, Resolving
    <2> QED BY <2>2, <2>5, <2>6, <2>7
  <1> QED BY <1>5, <1>6, <1>7

\* What stays where it is as long as nobody changes a link.
LEMMA SameRoots ==
    ASSUME LocatorTypes, UNCHANGED <<kind, links>>, kind # "native"
    PROVE  /\ TrueRoots' = TrueRoots
           /\ Real(RootOf[kind])' = Real(RootOf[kind])
           /\ Real(Home(kind))' = Real(Home(kind))
           /\ Real(Common(kind))' = Real(Common(kind))
  BY SamePlaces, EndUnchanged, LocatorAssumption DEF Real, Limits, LocatorAssumption, Home, Common

LEMMA ResolveRootStep ==
    ASSUME LocatorInvariant, ResolveRoot
    PROVE  LocatorInvariant'
  <1>. USE DEF LocatorInvariant
  <1>1. /\ Resolved("root") /\ pc = "root" /\ resolved' = [resolved EXCEPT !.root = Resolution]
        /\ UNCHANGED <<world, custom, candidate, answer>>
    BY DEF ResolveRoot, Resolved
  <1>2. UNCHANGED <<kind, links, status, preference, hadStatus, hadCustom, linksChanged>>
    BY <1>1 DEF world
  <1>3. kind \in Kinds /\ kind # "native" /\ kind \in {"flatpak", "snap"} /\ 0 \in Limits
    BY <1>1, LocatorAssumption DEF LocatorTypes, Resolving, LocatorAssumption, Limits
  <1>4. Home(kind) \in Paths
    BY <1>3, SandboxPaths
  <1>5. \/ pc' = "preference"
        \/ /\ pc' = "home" /\ path' = Home(kind) /\ followed' = 0 /\ kind = "snap"
           /\ roots' = roots /\ Resolution # NoPath
    BY <1>3 DEF ResolveRoot, GoOn, Resolve
  <1>6. LocatorTypes'
    <2>1. pc' \in {"preference", "home"} /\ (Resolving' => pc' = "home")
      BY <1>5 DEF Resolving
    <2>2. Resolving' => kind' # "native" /\ path' \in Paths /\ followed' \in Limits
      BY <1>2, <1>3, <1>4, <1>5 DEF Resolving
    <2>3. pc' \in {"home", "common"} => kind' = "snap"
      BY <1>2, <1>5
    <2> QED BY <1>1, <1>2, <2>1, <2>2, <2>3 DEF LocatorTypes, Preferences, Customized
  <1>7. Remembered'
    BY <1>1, <1>2, <1>5 DEF Remembered, Customized
  <1>8. ASSUME Steady' PROVE OnTheWay' /\ RootsFound' /\ Precedence' /\ AnswerIsJustified'
    <2>1. Steady /\ OnTheWay /\ RootsFound /\ Precedence
      BY <1>2, <1>8, SteadyBefore
    <2>2. Resolution = Real(RootOf[kind])
      BY <1>1, <2>1, ResolutionIsReal DEF Begun
    <2>3. OnTheWay'
      <3>1. CASE pc' = "home"
        BY <1>2, <1>4, <1>5, <2>1, <3>1, ResolutionBegins DEF Begun
      <3>2. CASE pc' = "preference"
        BY <3>2 DEF OnTheWay, Resolving
      <3> QED BY <1>5, <3>1, <3>2
    <2>4. roots = {}
      BY <1>1, <2>1 DEF RootsFound
    <2>5. /\ TrueRoots' = TrueRoots /\ Real(RootOf[kind])' = Real(RootOf[kind])
      BY <1>2, <1>3, SameRoots
    <2>6. RootsFound'
      <3>1. CASE pc' = "home"
        <4>1. pc' = "home" /\ roots' = {} /\ Resolution # NoPath
          BY <1>5, <2>4, <3>1
        <4>2. resolved'.root = Real(RootOf[kind])'
          <5>1. DOMAIN resolved = {"root", "home"}
            BY DEF LocatorTypes
          <5> QED BY <1>1, <2>2, <2>5, <5>1
        <4> QED BY <1>2, <2>2, <2>5, <4>1, <4>2 DEF RootsFound
      <3>2. CASE pc' = "preference"
        <4>1. roots' = TrueRoots
          BY <1>3, <2>2, <2>4, <3>2 DEF ResolveRoot, GoOn, Resolve, TrueRoots
        <4> QED BY <2>5, <3>2, <4>1 DEF RootsFound
      <3> QED BY <1>5, <3>1, <3>2
    <2>7. Precedence'
      BY <1>1, <1>5, <2>1 DEF Precedence
    <2>8. AnswerIsJustified'
      BY <1>5 DEF AnswerIsJustified
    <2> QED BY <2>3, <2>6, <2>7, <2>8
  <1> QED BY <1>6, <1>7, <1>8

LEMMA ResolveHomeStep ==
    ASSUME LocatorInvariant, ResolveHome
    PROVE  LocatorInvariant'
  <1>. USE DEF LocatorInvariant
  <1>1. /\ Resolved("home") /\ pc = "home" /\ resolved' = [resolved EXCEPT !.home = Resolution]
        /\ UNCHANGED <<world, roots, custom, candidate, answer>>
    BY DEF ResolveHome, Resolved
  <1>2. UNCHANGED <<kind, links, status, preference, hadStatus, hadCustom, linksChanged>>
    BY <1>1 DEF world
  <1>3. kind \in Kinds /\ kind # "native" /\ kind = "snap" /\ 0 \in Limits
    BY <1>1, LocatorAssumption DEF LocatorTypes, Resolving, LocatorAssumption, Limits
  <1>4. Common(kind) \in Paths
    BY <1>3, SandboxPaths
  <1>5. \/ pc' = "preference" /\ (Resolution = NoPath \/ ~IsRevision(resolved.root, Resolution))
        \/ /\ pc' = "common" /\ path' = Common(kind) /\ followed' = 0
           /\ Resolution # NoPath /\ IsRevision(resolved.root, Resolution)
    BY DEF ResolveHome, GoOn, Resolve
  <1>6. LocatorTypes'
    <2>1. pc' \in {"preference", "common"} /\ (Resolving' => pc' = "common")
      BY <1>5 DEF Resolving
    <2>2. Resolving' => kind' # "native" /\ path' \in Paths /\ followed' \in Limits
      BY <1>2, <1>3, <1>4, <1>5, <2>1
    <2> QED BY <1>1, <1>2, <1>3, <2>1, <2>2 DEF LocatorTypes, Preferences, Customized
  <1>7. Remembered'
    BY <1>1, <1>2, <1>5 DEF Remembered, Customized
  <1>8. ASSUME Steady' PROVE OnTheWay' /\ RootsFound' /\ Precedence' /\ AnswerIsJustified'
    <2>1. Steady /\ OnTheWay /\ RootsFound /\ Precedence
      BY <1>2, <1>8, SteadyBefore
    <2>2. Resolution = Real(Home(kind))
      BY <1>1, <2>1, ResolutionIsReal DEF Begun
    <2>3. OnTheWay'
      <3>1. CASE pc' = "common"
        BY <1>2, <1>4, <1>5, <2>1, <3>1, ResolutionBegins DEF Begun
      <3>2. CASE pc' = "preference"
        BY <3>2 DEF OnTheWay, Resolving
      <3> QED BY <1>5, <3>1, <3>2
    <2>4. roots = {} /\ resolved.root = Real(RootOf[kind]) /\ resolved.root # NoPath
      BY <1>1, <2>1 DEF RootsFound
    <2>5. /\ TrueRoots' = TrueRoots /\ Real(RootOf[kind])' = Real(RootOf[kind])
          /\ Real(Home(kind))' = Real(Home(kind))
      BY <1>2, <1>3, SameRoots
    <2>6. resolved'.root = resolved.root /\ resolved'.home = Resolution
      BY <1>1 DEF LocatorTypes
    <2>7. RootsFound'
      <3>1. CASE pc' = "common"
        <4>1. IsRevision(resolved'.root, resolved'.home) /\ Resolution # NoPath
          BY <1>5, <2>6, <3>1
        <4> QED BY <1>1, <1>2, <2>2, <2>4, <2>5, <2>6, <3>1, <4>1 DEF RootsFound, IsRevision
      <3>2. CASE pc' = "preference"
        <4>1. TrueRoots = {}
          BY <1>3, <1>5, <2>2, <2>4, <3>2 DEF TrueRoots
        <4> QED BY <1>1, <2>4, <2>5, <3>2, <4>1 DEF RootsFound
      <3> QED BY <1>5, <3>1, <3>2
    <2>8. Precedence'
      BY <1>1, <1>5, <2>1 DEF Precedence
    <2>9. AnswerIsJustified'
      BY <1>5 DEF AnswerIsJustified
    <2> QED BY <2>3, <2>7, <2>8, <2>9
  <1> QED BY <1>6, <1>7, <1>8

LEMMA ResolveCommonStep ==
    ASSUME LocatorInvariant, ResolveCommon
    PROVE  LocatorInvariant'
  <1>. USE DEF LocatorInvariant
  <1>1. /\ Resolved("common") /\ pc = "common" /\ pc' = "preference"
        /\ UNCHANGED <<world, resolved, custom, candidate, answer>>
    BY DEF ResolveCommon, Resolved, GoOn, Resolve
  <1>2. UNCHANGED <<kind, links, status, preference, hadStatus, hadCustom, linksChanged>>
    BY <1>1 DEF world
  <1>3. kind \in Kinds /\ kind # "native" /\ kind = "snap"
    BY <1>1 DEF LocatorTypes, Resolving
  <1>4. Home(kind) \in Paths /\ Common(kind) \in Paths
    BY <1>3, SandboxPaths
  <1>5. LocatorTypes'
    BY <1>1, <1>2 DEF LocatorTypes, Customized, Preferences, Resolving
  <1>6. Remembered'
    BY <1>1, <1>2 DEF Remembered, Customized
  <1>7. ASSUME Steady' PROVE OnTheWay' /\ RootsFound' /\ Precedence' /\ AnswerIsJustified'
    <2>1. Steady /\ OnTheWay /\ RootsFound /\ Precedence
      BY <1>2, <1>7, SteadyBefore
    <2>2. Resolution = Real(Common(kind))
      BY <1>1, <2>1, ResolutionIsReal DEF Begun
    <2>3. /\ resolved.root = Real(RootOf[kind]) /\ resolved.root # NoPath
          /\ resolved.home = Real(Home(kind)) /\ resolved.home # NoPath
          /\ IsRevision(resolved.root, resolved.home)
      BY <1>1, <2>1 DEF RootsFound
    <2>4. TrueRoots' = TrueRoots
      BY <1>2, <1>3, SameRoots
    <2>5. roots' = TrueRoots
      BY <1>3, <2>2, <2>3 DEF ResolveCommon, TrueRoots
    <2>6. RootsFound'
      BY <1>1, <2>4, <2>5 DEF RootsFound
    <2>7. Precedence'
      BY <1>1, <2>1 DEF Precedence
    <2>8. OnTheWay' /\ AnswerIsJustified'
      BY <1>1 DEF OnTheWay, Resolving, AnswerIsJustified
    <2> QED BY <2>6, <2>7, <2>8
  <1> QED BY <1>5, <1>6, <1>7

\* The candidates come when nothing that the preferences name may be searched.
LEMMA CandidatesBegin ==
    ASSUME LocatorTypes, Remembered, UNCHANGED <<kind, links, hadStatus, hadCustom>>,
           NEW p \in hadCustom, Allowed(p) => Absent(p)
    PROVE  AbsentBefore(1)'
  <1>1. AbsentBefore(1)
    BY DEF AbsentBefore, SkipsCustom
  <1>2. 1 \in 1 .. Len(CandidatesOf[kind]) + 1
    BY CustomPaths
  <1> QED BY <1>1, <1>2, SeenBefore

LEMMA ReadPreferenceStep ==
    ASSUME LocatorInvariant, ReadPreference
    PROVE  LocatorInvariant'
  <1>. USE DEF LocatorInvariant
  <1>1. /\ pc = "preference" /\ custom' = Read(preference)
        /\ UNCHANGED <<world, resolved, roots, candidate, answer>>
    BY DEF ReadPreference
  <1>2. UNCHANGED <<kind, links, status, preference, hadStatus, hadCustom, linksChanged>>
    BY <1>1 DEF world
  <1>3. \/ pc' = "candidates" /\ (Read(preference) = NoPath \/ (kind # "native" /\ roots = {}))
        \/ pc' = "check" /\ kind = "native" /\ Read(preference) # NoPath
        \/ pc' = "custom" /\ kind # "native" /\ Read(preference) # NoPath /\ path' = Read(preference) /\ followed' = 0
    BY <1>1 DEF ReadPreference, GoOn, Resolve
  <1>4. Read(preference) \in Customized /\ Read(preference) \in hadCustom
        /\ (Read(preference) # NoPath => Read(preference) \in Paths)
    BY ReadIsPath, CustomPaths DEF LocatorTypes, Remembered
  <1>5. 0 \in Limits
    BY LocatorAssumption DEF LocatorAssumption, Limits
  <1>6. LocatorTypes'
    <2>1. Resolving' => kind' # "native" /\ path' \in Paths /\ followed' \in Limits
      BY <1>2, <1>3, <1>4, <1>5 DEF Resolving
    <2>2. /\ pc' \in {"candidates", "check", "custom"} /\ custom' \in Customized
          /\ pc' \in {"custom", "check"} => custom' # NoPath
      BY <1>1, <1>3, <1>4
    <2> QED BY <1>1, <1>2, <2>1, <2>2 DEF LocatorTypes, Preferences, Customized
  <1>7. Remembered'
    BY <1>1, <1>2, <1>4 DEF Remembered, Customized
  <1>8. ASSUME Steady' PROVE OnTheWay' /\ RootsFound' /\ Precedence' /\ AnswerIsJustified'
    <2>1. Steady /\ OnTheWay /\ RootsFound /\ Precedence
      BY <1>2, <1>8, SteadyBefore
    <2>2. OnTheWay'
      <3>1. CASE pc' = "custom"
        BY <1>1, <1>2, <1>3, <1>4, <2>1, <3>1, ResolutionBegins DEF Begun
      <3>2. CASE pc' # "custom"
        BY <1>3, <3>2 DEF OnTheWay, Resolving
      <3> QED BY <3>1, <3>2
    <2>3. kind # "native" => roots = TrueRoots /\ TrueRoots' = TrueRoots
      BY <1>1, <1>2, <2>1, SameRoots DEF RootsFound
    <2>4. RootsFound'
      BY <1>1, <1>2, <1>3, <2>3 DEF RootsFound
    <2>5. candidate = 1
      BY <1>1, <2>1 DEF Precedence
    <2>6. Precedence'
      <3>1. CASE pc' = "candidates"
        <4>1. ~Allowed(Read(preference))
          BY <1>3, <2>3, <3>1 DEF Allowed
        <4>2. AbsentBefore(1)'
          BY <1>2, <1>4, <4>1, CandidatesBegin
        <4>3. candidate' = 1
          BY <1>1, <2>5
        <4>4. AbsentBefore(candidate)'
          BY <4>2, <4>3 DEF AbsentBefore
        <4> QED BY <3>1, <4>4 DEF Precedence
      <3>2. CASE pc' = "check"
        <4>1. Allowed(Read(preference))
          BY <1>3, <3>2 DEF Allowed
        <4>2. Allowed(custom)'
          BY <1>1, <1>2, <1>3, <3>2 DEF Allowed
        <4> QED BY <1>1, <2>5, <3>2, <4>2 DEF Precedence
      <3>3. CASE pc' = "custom"
        BY <1>1, <2>5, <3>3 DEF Precedence
      <3> QED BY <1>3, <3>1, <3>2, <3>3
    <2>7. AnswerIsJustified'
      BY <1>3 DEF AnswerIsJustified
    <2> QED BY <2>2, <2>4, <2>6, <2>7
  <1> QED BY <1>6, <1>7, <1>8

LEMMA ResolveCustomStep ==
    ASSUME LocatorInvariant, ResolveCustom
    PROVE  LocatorInvariant'
  <1>. USE DEF LocatorInvariant
  <1>1. /\ Resolved("custom") /\ pc = "custom"
        /\ UNCHANGED <<world, resolved, roots, custom, candidate, answer>>
    BY DEF ResolveCustom, Resolved
  <1>2. UNCHANGED <<kind, links, status, preference, hadStatus, hadCustom, linksChanged>>
    BY <1>1 DEF world
  <1>3. \/ pc' = "check" /\ \E root \in roots : InRoot(root)
        \/ pc' = "candidates" /\ ~\E root \in roots : InRoot(root)
    BY DEF ResolveCustom, GoOn, Resolve
  <1>4. kind # "native" /\ custom \in Customized /\ custom \in hadCustom /\ custom # NoPath
    BY <1>1 DEF LocatorTypes, Remembered, Resolving
  <1>5. LocatorTypes'
    BY <1>1, <1>2, <1>3, <1>4 DEF LocatorTypes, Customized, Preferences, Resolving
  <1>6. Remembered'
    BY <1>1, <1>2, <1>4 DEF Remembered, Customized
  <1>7. ASSUME Steady' PROVE OnTheWay' /\ RootsFound' /\ Precedence' /\ AnswerIsJustified'
    <2>1. OnTheWay /\ RootsFound /\ Precedence
      BY <1>2, <1>7, SteadyBefore
    <2>2. Resolution = Real(custom)
      BY <1>1, <2>1, ResolutionIsReal DEF Begun
    <2>3. roots = TrueRoots /\ TrueRoots' = TrueRoots
      BY <1>1, <1>2, <1>4, <2>1, SameRoots DEF RootsFound
    <2>4. (\E root \in roots : InRoot(root)) <=> Allowed(custom)
      BY <1>4, <2>2, <2>3 DEF InRoot, Allowed
    <2>5. RootsFound'
      BY <1>1, <1>3, <2>3 DEF RootsFound
    <2>6. candidate = 1
      BY <1>1, <2>1 DEF Precedence
    <2>7. Precedence'
      <3>1. CASE pc' = "candidates"
        <4>1. AbsentBefore(1)'
          BY <1>2, <1>3, <1>4, <2>4, <3>1, CandidatesBegin
        <4>2. AbsentBefore(candidate)'
          BY <1>1, <2>6, <4>1 DEF AbsentBefore
        <4> QED BY <3>1, <4>2 DEF Precedence
      <3>2. CASE pc' = "check"
        <4>1. Allowed(custom)
          BY <1>3, <2>4, <3>2
        <4>2. Real(custom)' = Real(custom)
          BY <1>1, <1>2, <1>4, EndUnchanged, LocatorAssumption DEF Real, Limits, LocatorAssumption
        <4>3. Allowed(custom)'
          BY <1>1, <1>2, <2>3, <4>1, <4>2 DEF Allowed
        <4> QED BY <1>1, <2>6, <3>2, <4>3 DEF Precedence
      <3> QED BY <1>3, <3>1, <3>2
    <2>8. OnTheWay' /\ AnswerIsJustified'
      BY <1>3 DEF OnTheWay, Resolving, AnswerIsJustified
    <2> QED BY <2>5, <2>7, <2>8
  <1> QED BY <1>5, <1>6, <1>7

\* What is answered of a directory that is there has been seen there.
LEMMA AnswerIsSeen ==
    ASSUME LocatorTypes, Remembered, UNCHANGED <<kind, links, hadStatus>>, NEW p \in Paths,
           DirectoryStatus(p) # "invalid",
           answer' = IF DirectoryStatus(p) = "readable" THEN p ELSE Unreadable,
           NEW s, s = IF answer' = Unreadable THEN "unreadable" ELSE "readable"
    PROVE  Had(p, s)' /\ answer' \in {p, Unreadable}
  <1>1. DirectoryStatus(p) \in {"unreadable", "readable"}
    BY StatusIsKnown
  <1>2. p # Unreadable
    BY PathsAreRaw, LocatorAssumption DEF LocatorAssumption
  <1>3. s = DirectoryStatus(p)
    BY <1>1, <1>2
  <1>4. StatusAt(p, status) = s /\ status \in hadStatus
    BY <1>3 DEF DirectoryStatus, Remembered
  <1>5. \A old : StatusAt(p, old)' = StatusAt(p, old)
    BY SamePlaces
  <1>6. Had(p, s)'
    BY <1>4, <1>5 DEF Had
  <1> QED BY <1>6

LEMMA CheckCustomStep ==
    ASSUME LocatorInvariant, CheckCustom
    PROVE  LocatorInvariant'
  <1>. USE DEF LocatorInvariant
  <1>1. /\ pc = "check" /\ pc' = "done" /\ DirectoryStatus(custom) # "invalid"
        /\ answer' = IF DirectoryStatus(custom) = "readable" THEN custom ELSE Unreadable
        /\ UNCHANGED <<world, walk, resolved, roots, custom, candidate>>
    BY DEF CheckCustom, AnswerWith, Answer, Settles
  <1>2. UNCHANGED <<kind, links, status, preference, hadStatus, hadCustom, linksChanged>>
    BY <1>1 DEF world
  <1>3. custom \in Customized /\ custom \in hadCustom /\ custom # NoPath /\ custom \in Paths
    BY <1>1, CustomPaths DEF LocatorTypes, Remembered
  <1>4. LocatorTypes'
    BY <1>1, <1>2 DEF LocatorTypes, Customized, Preferences, Resolving
  <1>5. Remembered'
    BY <1>1, <1>2 DEF Remembered, Customized
  <1>6. ASSUME Steady' PROVE OnTheWay' /\ RootsFound' /\ Precedence' /\ AnswerIsJustified'
    <2>1. Allowed(custom)
      BY <1>1, <1>2, <1>6, SteadyBefore DEF Precedence
    <2>2. PICK s \in {"unreadable", "readable"} :
              s = IF answer' = Unreadable THEN "unreadable" ELSE "readable"
      OBVIOUS
    <2>3. AnswerIsJustified'
      <3>1. PICK p \in hadCustom' : p = custom /\ p \in Customized
        BY <1>2, <1>3
      <3>2. Allowed(p)'
        BY <1>2, <2>1, <3>1, SamePlaces
      <3>3. Had(p, s)' /\ answer' \in {p, Unreadable}
        BY <1>1, <1>2, <1>3, <2>2, <3>1, AnswerIsSeen
      <3> QED BY <2>2, <3>1, <3>2, <3>3 DEF AnswerIsJustified
    <2>4. OnTheWay' /\ RootsFound' /\ Precedence'
      BY <1>1 DEF OnTheWay, Resolving, RootsFound, Precedence
    <2> QED BY <2>3, <2>4
  <1> QED BY <1>4, <1>5, <1>6

LEMMA PassCustomStep ==
    ASSUME LocatorInvariant, PassCustom
    PROVE  LocatorInvariant'
  <1>. USE DEF LocatorInvariant
  <1>1. /\ pc = "check" /\ pc' = "candidates" /\ DirectoryStatus(custom) = "invalid"
        /\ UNCHANGED <<world, resolved, roots, custom, candidate, answer>>
    BY DEF PassCustom, Settles, GoOn, Resolve
  <1>2. UNCHANGED <<kind, links, status, preference, hadStatus, hadCustom, linksChanged>>
    BY <1>1 DEF world
  <1>3. custom \in hadCustom
    BY <1>1 DEF Remembered
  <1>4. LocatorTypes'
    BY <1>1, <1>2 DEF LocatorTypes, Customized, Preferences, Resolving
  <1>5. Remembered'
    BY <1>1, <1>2 DEF Remembered, Customized
  <1>6. ASSUME Steady' PROVE OnTheWay' /\ RootsFound' /\ Precedence' /\ AnswerIsJustified'
    <2>1. Absent(custom)
      BY <1>1 DEF Remembered, Absent, Had, DirectoryStatus
    <2>2. AbsentBefore(1)'
      BY <1>2, <1>3, <2>1, CandidatesBegin
    <2>3. candidate = 1
      BY <1>1, <1>2, <1>6, SteadyBefore DEF Precedence
    <2>4. AbsentBefore(candidate)'
      BY <1>1, <2>2, <2>3 DEF AbsentBefore
    <2>5. Precedence'
      BY <1>1, <2>4 DEF Precedence
    <2>6. OnTheWay' /\ RootsFound' /\ AnswerIsJustified'
      BY <1>1 DEF OnTheWay, Resolving, RootsFound, AnswerIsJustified
    <2> QED BY <2>5, <2>6
  <1> QED BY <1>4, <1>5, <1>6

LEMMA CheckCandidateStep ==
    ASSUME LocatorInvariant, CheckCandidate
    PROVE  LocatorInvariant'
  <1>. USE DEF LocatorInvariant
  <1>1. /\ pc = "candidates" /\ pc' = "done" /\ candidate <= Len(CandidatesOf[kind])
        /\ DirectoryStatus(Candidate) # "invalid"
        /\ answer' = IF DirectoryStatus(Candidate) = "readable" THEN Candidate ELSE Unreadable
        /\ UNCHANGED <<world, walk, resolved, roots, custom, candidate>>
    BY DEF CheckCandidate, AnswerWith, Answer, Settles
  <1>2. UNCHANGED <<kind, links, status, preference, hadStatus, hadCustom, linksChanged>>
    BY <1>1 DEF world
  <1>3. candidate \in DOMAIN CandidatesOf[kind] /\ Candidate \in Paths
    <2>1. candidate \in 1 .. Len(CandidatesOf[kind]) + 1
      BY DEF LocatorTypes
    <2> QED BY <1>1, <2>1, CustomPaths DEF Candidate
  <1>4. LocatorTypes'
    BY <1>1, <1>2 DEF LocatorTypes, Customized, Preferences, Resolving
  <1>5. Remembered'
    BY <1>1, <1>2 DEF Remembered, Customized
  <1>6. ASSUME Steady' PROVE OnTheWay' /\ RootsFound' /\ Precedence' /\ AnswerIsJustified'
    <2>1. AbsentBefore(candidate)
      BY <1>1, <1>2, <1>6, SteadyBefore DEF Precedence
    <2>2. PICK s \in {"unreadable", "readable"} :
              s = IF answer' = Unreadable THEN "unreadable" ELSE "readable"
      OBVIOUS
    <2>3. AnswerIsJustified'
      <3>1. PICK n \in DOMAIN CandidatesOf[kind] : n = candidate
        BY <1>3
      <3>2. PICK c \in Paths : c = CandidatesOf[kind][n]
        BY CustomPaths
      <3>3. c = Candidate
        BY <3>1, <3>2 DEF Candidate
      <3>4. Had(c, s)' /\ answer' \in {c, Unreadable}
        BY <1>1, <1>2, <2>2, <3>3, AnswerIsSeen
      <3>5. n \in 1 .. Len(CandidatesOf[kind]) + 1 /\ AbsentBefore(n)
        BY <2>1, <3>1 DEF AbsentBefore, LocatorTypes
      <3>6. AbsentBefore(n)'
        BY <1>2, <3>5, SeenBefore
      <3>7. Had(CandidatesOf[kind][n], s)'
        BY <1>2, <3>2, <3>4 DEF Had, StatusAt, Real
      <3> QED BY <1>2, <2>2, <3>2, <3>4, <3>6, <3>7 DEF AnswerIsJustified
    <2>4. OnTheWay' /\ RootsFound' /\ Precedence'
      BY <1>1 DEF OnTheWay, Resolving, RootsFound, Precedence
    <2> QED BY <2>3, <2>4
  <1> QED BY <1>4, <1>5, <1>6

LEMMA PassCandidateStep ==
    ASSUME LocatorInvariant, PassCandidate
    PROVE  LocatorInvariant'
  <1>. USE DEF LocatorInvariant
  <1>1. /\ pc = "candidates" /\ candidate <= Len(CandidatesOf[kind])
        /\ DirectoryStatus(Candidate) = "invalid" /\ candidate' = candidate + 1
        /\ UNCHANGED <<world, walk, pc, resolved, roots, custom, answer>>
    BY DEF PassCandidate, Settles
  <1>2. UNCHANGED <<kind, links, status, preference, hadStatus, hadCustom, linksChanged>>
    BY <1>1 DEF world
  <1>3. candidate \in 1 .. Len(CandidatesOf[kind]) /\ candidate' \in 1 .. Len(CandidatesOf[kind]) + 1
    <2>1. candidate \in 1 .. Len(CandidatesOf[kind]) + 1 /\ Len(CandidatesOf[kind]) \in Nat
      BY CustomPaths DEF LocatorTypes
    <2> QED BY <1>1, <2>1
  <1>4. LocatorTypes'
    BY <1>1, <1>2, <1>3 DEF LocatorTypes, Customized, Preferences, Resolving
  <1>5. Remembered'
    BY <1>1, <1>2 DEF Remembered, Customized
  <1>6. ASSUME Steady' PROVE OnTheWay' /\ RootsFound' /\ Precedence' /\ AnswerIsJustified'
    <2>1. AbsentBefore(candidate)
      BY <1>1, <1>2, <1>6, SteadyBefore DEF Precedence
    <2>2. Absent(Candidate)
      BY <1>1 DEF Remembered, Absent, Had, DirectoryStatus
    <2>3. PICK n \in 1 .. Len(CandidatesOf[kind]) + 1 : n = candidate + 1
      BY <1>1, <1>3
    <2>4. AbsentBefore(n)
      <3>1. \A i \in 1 .. n - 1 : i \in 1 .. candidate - 1 \/ i = candidate
        BY <1>3, <2>3
      <3> QED BY <2>1, <2>2, <3>1 DEF AbsentBefore, Candidate
    <2>5. AbsentBefore(n)'
      BY <1>2, <2>4, SeenBefore
    <2>6. AbsentBefore(candidate)'
      BY <1>1, <2>3, <2>5 DEF AbsentBefore
    <2>7. Precedence'
      BY <1>1, <2>6 DEF Precedence
    <2>8. OnTheWay' /\ RootsFound' /\ AnswerIsJustified'
      BY <1>1 DEF OnTheWay, Resolving, RootsFound, AnswerIsJustified
    <2> QED BY <2>7, <2>8
  <1> QED BY <1>4, <1>5, <1>6

LEMMA NotFoundStep ==
    ASSUME LocatorInvariant, NotFound
    PROVE  LocatorInvariant'
  <1>. USE DEF LocatorInvariant
  <1>1. /\ pc = "candidates" /\ pc' = "done" /\ candidate > Len(CandidatesOf[kind])
        /\ answer' = Nowhere /\ UNCHANGED <<world, walk, resolved, roots, custom, candidate>>
    BY DEF NotFound, Answer
  <1>2. UNCHANGED <<kind, links, status, preference, hadStatus, hadCustom, linksChanged>>
    BY <1>1 DEF world
  <1>3. LocatorTypes'
    BY <1>1, <1>2 DEF LocatorTypes, Customized, Preferences, Resolving
  <1>4. Remembered'
    BY <1>1, <1>2 DEF Remembered, Customized
  <1>5. ASSUME Steady' PROVE OnTheWay' /\ RootsFound' /\ Precedence' /\ AnswerIsJustified'
    <2>1. AbsentBefore(candidate)
      BY <1>1, <1>2, <1>5, SteadyBefore DEF Precedence
    <2>2. PICK n \in 1 .. Len(CandidatesOf[kind]) + 1 : n = candidate /\ n = Len(CandidatesOf[kind]) + 1
      <3>1. candidate \in 1 .. Len(CandidatesOf[kind]) + 1 /\ Len(CandidatesOf[kind]) \in Nat
        BY CustomPaths DEF LocatorTypes
      <3> QED BY <1>1, <3>1
    <2>3. AbsentBefore(n)'
      BY <1>2, <2>1, <2>2, SeenBefore DEF AbsentBefore
    <2>4. AbsentBefore(Len(CandidatesOf[kind]) + 1)'
      BY <1>2, <2>2, <2>3 DEF AbsentBefore
    <2>5. AnswerIsJustified'
      BY <1>1, <2>4 DEF AnswerIsJustified
    <2>6. OnTheWay' /\ RootsFound' /\ Precedence'
      BY <1>1 DEF OnTheWay, Resolving, RootsFound, Precedence
    <2> QED BY <2>5, <2>6
  <1> QED BY <1>3, <1>4, <1>5

\* Preferences and directories may change under the search: it goes on as it was.
LEMMA OthersStep ==
    ASSUME LocatorInvariant, pc # "done",
           UNCHANGED <<kind, links, linksChanged, walk, pc, resolved, roots, custom, candidate>>,
           status' \in Selections(Directories[kind]), preference' \in Preferences,
           hadStatus' = hadStatus \cup {status'}, hadCustom' = hadCustom \cup {Read(preference')}
    PROVE  LocatorInvariant'
  <1>. USE DEF LocatorInvariant
  <1>1. UNCHANGED <<path, followed>>
    BY DEF walk
  <1>2. LocatorTypes'
    BY <1>1 DEF LocatorTypes, Customized, Preferences, Resolving
  <1>3. Remembered'
    <2>1. PICK p \in Preferences : p = preference'
      OBVIOUS
    <2>2. Read(p) \in Customized /\ Read(preference)' = Read(p)
      BY <2>1, ReadIsPath DEF Read
    <2> QED BY <2>1, <2>2 DEF Remembered, Customized
  <1>4. ASSUME Steady' PROVE OnTheWay' /\ RootsFound' /\ Precedence' /\ AnswerIsJustified'
    <2>1. OnTheWay /\ RootsFound /\ Precedence
      BY <1>4, SteadyBefore
    <2>2. OnTheWay'
      <3>1. Resolving => /\ Begun' = Begun /\ MaximumSymbolicLinks - followed \in Limits
                         /\ MaximumSymbolicLinks \in Limits
        BY LocatorAssumption DEF LocatorAssumption, Begun, Home, Common, LocatorTypes, Limits
      <3>2. Resolving => Real(Begun)' = Real(Begun)
        BY <3>1, EndUnchanged DEF Real
      <3>3. Resolving => End'[MaximumSymbolicLinks - followed] = End[MaximumSymbolicLinks - followed]
        BY <3>1, EndUnchanged
      <3>4. Resolving' <=> Resolving
        BY DEF Resolving
      <3> QED BY <1>1, <2>1, <3>2, <3>3, <3>4 DEF OnTheWay
    <2>3. kind # "native" => /\ TrueRoots' = TrueRoots /\ Real(RootOf[kind])' = Real(RootOf[kind])
                             /\ Real(Home(kind))' = Real(Home(kind))
      BY SameRoots
    <2>4. pc \in {"home", "common"} => kind # "native"
      BY DEF LocatorTypes
    <2>5. RootsFound'
      BY <2>1, <2>3, <2>4 DEF RootsFound, IsRevision
    <2>6. Precedence'
      <3>1. ASSUME pc = "check" PROVE Allowed(custom)'
        <4>1. PICK p \in Customized : p = custom
          BY DEF LocatorTypes
        <4>2. Allowed(p)
          BY <2>1, <3>1, <4>1 DEF Precedence
        <4>3. Allowed(p)'
          BY <4>2, SamePlaces
        <4> QED BY <4>1, <4>3 DEF Allowed, Real
      <3>2. ASSUME pc = "candidates" PROVE AbsentBefore(candidate)'
        <4>1. PICK n \in 1 .. Len(CandidatesOf[kind]) + 1 : n = candidate
          BY DEF LocatorTypes
        <4>2. AbsentBefore(n)
          BY <2>1, <3>2, <4>1 DEF Precedence
        <4>3. AbsentBefore(n)'
          BY <4>2, SeenBefore
        <4> QED BY <4>1, <4>3 DEF AbsentBefore
      <3> QED BY <2>1, <3>1, <3>2 DEF Precedence
    <2>7. AnswerIsJustified'
      BY DEF AnswerIsJustified
    <2> QED BY <2>2, <2>5, <2>6, <2>7
  <1> QED BY <1>2, <1>3, <1>4

LEMMA SetPreferenceStep ==
    ASSUME LocatorInvariant, NEW p \in Customs[kind] \cup {NoPath, Garbled}, SetPreference(p)
    PROVE  LocatorInvariant'
  <1>1. hadStatus' = hadStatus \cup {status'}
    BY DEF SetPreference, LocatorInvariant, Remembered
  <1> QED BY <1>1, OthersStep DEF SetPreference, Change, LocatorInvariant, LocatorTypes, Preferences

LEMMA SetStatusStep ==
    ASSUME LocatorInvariant, NEW d \in DOMAIN status, NEW s \in Directories[kind][d], SetStatus(d, s)
    PROVE  LocatorInvariant'
  <1>1. hadCustom' = hadCustom \cup {Read(preference')} /\ preference' \in Preferences
    BY DEF SetStatus, LocatorInvariant, Remembered, LocatorTypes
  <1>2. status' \in Selections(Directories[kind])
    <2>1. DOMAIN status = DOMAIN Directories[kind] /\ status \in [DOMAIN status -> UNION Range(Directories[kind])]
      BY DEF LocatorInvariant, LocatorTypes, Selections
    <2>2. s \in UNION Range(Directories[kind])
      BY <2>1 DEF Range
    <2>3. status' \in [DOMAIN status -> UNION Range(Directories[kind])]
      BY <2>1, <2>2 DEF SetStatus
    <2>4. \A q \in DOMAIN status : status'[q] \in Directories[kind][q]
      BY <2>1 DEF SetStatus, LocatorInvariant, LocatorTypes, Selections
    <2> QED BY <2>1, <2>3, <2>4 DEF Selections
  <1> QED BY <1>1, <1>2, OthersStep DEF SetStatus, Change

LEMMA SetLinkStep ==
    ASSUME LocatorInvariant, NEW q \in DOMAIN links, NEW target \in Targets[kind][q], SetLink(q, target)
    PROVE  LocatorInvariant'
  <1>. USE DEF LocatorInvariant
  <1>1. /\ UNCHANGED <<kind, walk, pc, resolved, roots, custom, candidate, status, preference, hadStatus, hadCustom>>
        /\ linksChanged' = TRUE
    BY DEF SetLink, Change
  <1>2. links' \in Selections(Targets[kind])
    <2>1. DOMAIN links = DOMAIN Targets[kind] /\ links \in [DOMAIN links -> UNION Range(Targets[kind])]
      BY DEF LocatorTypes, Selections
    <2>2. target \in UNION Range(Targets[kind])
      BY <2>1 DEF Range
    <2>3. links' \in [DOMAIN links -> UNION Range(Targets[kind])]
      BY <2>1, <2>2 DEF SetLink
    <2>4. \A p \in DOMAIN links : links'[p] \in Targets[kind][p]
      BY <2>1 DEF SetLink, LocatorTypes, Selections
    <2> QED BY <2>1, <2>3, <2>4 DEF Selections
  <1>3. LocatorTypes'
    BY <1>1, <1>2 DEF LocatorTypes, Customized, Preferences, Resolving, walk
  <1>4. Remembered'
    BY <1>1 DEF Remembered, Read, Customized
  <1> QED BY <1>1, <1>3, <1>4 DEF Steady

\* An answer stays justified when nothing happens.
LEMMA StutteringStep ==
    ASSUME LocatorInvariant, UNCHANGED vars
    PROVE  LocatorInvariant'
  <1>. USE DEF LocatorInvariant
  <1>1. /\ UNCHANGED <<kind, links, status, preference, hadStatus, hadCustom, linksChanged>>
        /\ UNCHANGED <<walk, pc, resolved, roots, custom, candidate, answer>>
    BY DEF vars, world
  <1>2. CASE pc # "done"
    BY <1>1, <1>2, OthersStep DEF Remembered, LocatorTypes
  <1>3. CASE pc = "done"
    <2>1. LocatorTypes' /\ Remembered'
      BY <1>1, <1>3 DEF LocatorTypes, Remembered, Preferences, Customized, Resolving, Read
    <2>2. ASSUME Steady' PROVE OnTheWay' /\ RootsFound' /\ Precedence' /\ AnswerIsJustified'
      <3>1. OnTheWay' /\ RootsFound' /\ Precedence'
        BY <1>1, <1>3 DEF OnTheWay, Resolving, RootsFound, Precedence
      <3>2. Steady /\ AnswerIsJustified
        BY <1>1, <2>2, SteadyBefore
      <3>3. AnswerIsJustified'
        <4>1. CASE answer = Nowhere /\ AbsentBefore(Len(CandidatesOf[kind]) + 1)
          <5>1. PICK n \in 1 .. Len(CandidatesOf[kind]) + 1 : n = Len(CandidatesOf[kind]) + 1
            <6>1. Len(CandidatesOf[kind]) \in Nat
              BY CustomPaths
            <6> QED BY <6>1
          <5>2. AbsentBefore(n)'
            BY <1>1, <4>1, <5>1, SeenBefore DEF AbsentBefore
          <5>3. AbsentBefore(Len(CandidatesOf[kind]) + 1)'
            BY <1>1, <5>1, <5>2 DEF AbsentBefore
          <5> QED BY <1>1, <4>1, <5>3 DEF AnswerIsJustified
        <4>. DEFINE s == IF answer = Unreadable THEN "unreadable" ELSE "readable"
        <4>2. ASSUME NEW p \in hadCustom, Allowed(p), Had(p, s), answer \in {p, Unreadable}
              PROVE  AnswerIsJustified'
          <5>1. p \in Customized /\ p \in Paths
            BY <4>2, CustomPaths DEF Remembered, Allowed
          <5>2. Allowed(p)'
            BY <1>1, <4>2, <5>1, SamePlaces
          <5>3. \A t : Had(p, t) => Had(p, t)'
            BY <1>1, <5>1, SeenBefore
          <5>4. PICK t \in {"unreadable", "readable"} : t = s
            OBVIOUS
          <5>5. Had(p, t)'
            BY <4>2, <5>3, <5>4
          <5> QED BY <1>1, <4>2, <5>2, <5>4, <5>5 DEF AnswerIsJustified
        <4>3. ASSUME NEW n \in DOMAIN CandidatesOf[kind], Had(CandidatesOf[kind][n], s),
                     answer \in {CandidatesOf[kind][n], Unreadable}, AbsentBefore(n)
              PROVE  AnswerIsJustified'
          <5>1. PICK c \in Paths : c = CandidatesOf[kind][n]
            BY CustomPaths
          <5>2. \A t : Had(c, t) => Had(c, t)'
            BY <1>1, SeenBefore
          <5>3. PICK t \in {"unreadable", "readable"} : t = s
            OBVIOUS
          <5>4. Had(c, t)'
            BY <4>3, <5>1, <5>2, <5>3
          <5>5. Had(CandidatesOf[kind][n], t)'
            BY <1>1, <5>1, <5>4 DEF Had, StatusAt, Real
          <5>6. n \in 1 .. Len(CandidatesOf[kind]) + 1
            BY CustomPaths
          <5>7. AbsentBefore(n)'
            BY <1>1, <4>3, <5>6, SeenBefore
          <5> QED BY <1>1, <4>3, <5>3, <5>5, <5>7 DEF AnswerIsJustified
        <4> QED BY <1>1, <1>3, <2>2, <3>2, <4>1, <4>2, <4>3 DEF AnswerIsJustified, Steady
      <3> QED BY <3>1, <3>3
    <2> QED BY <2>1, <2>2
  <1> QED BY <1>2, <1>3

LEMMA LocatorInit ==
    ASSUME Init
    PROVE  LocatorInvariant
  <1>1. kind \in Kinds /\ MaximumSymbolicLinks \in Nat
    BY LocatorAssumption DEF Init, LocatorAssumption
  <1>2. CandidatesOf[kind] \in Seq(Paths)
    BY <1>1, LocatorAssumption DEF LocatorAssumption
  <1>3. /\ links \in Selections(Targets[kind]) /\ status \in Selections(Directories[kind])
        /\ preference \in Preferences /\ custom = NoPath /\ candidate = 1 /\ 1 \in 1 .. Len(CandidatesOf[kind]) + 1
    BY <1>2 DEF Init, Preferences
  <1>4. /\ hadStatus = {status} /\ hadCustom = {Read(preference)}
        /\ DOMAIN resolved = {"root", "home"}
    BY DEF Init
  <1>5. CASE kind = "native"
    <2>1. pc = "preference"
      BY <1>5 DEF Init
    <2>2. LocatorTypes
      BY <1>1, <1>3, <1>4, <2>1 DEF LocatorTypes, Resolving, Customized
    <2>. Remembered
      BY <1>3, <1>4, <2>1, <2>2, ReadIsPath DEF Remembered
    <2>3. OnTheWay /\ RootsFound /\ Precedence /\ AnswerIsJustified
      BY <1>3, <1>5, <2>1 DEF OnTheWay, Resolving, RootsFound, Precedence, AnswerIsJustified
    <2> QED BY <2>2, <2>3 DEF LocatorInvariant
  <1>6. CASE kind # "native"
    <2>1. pc = "root" /\ path = RootOf[kind] /\ followed = 0 /\ roots = {}
      BY <1>6 DEF Init
    <2>2. path \in Paths /\ 0 \in Limits /\ MaximumSymbolicLinks - 0 = MaximumSymbolicLinks
      BY <1>1, <1>6, <2>1, SandboxPaths DEF Limits
    <2>3. LocatorTypes
      BY <1>1, <1>3, <1>4, <1>6, <2>1, <2>2 DEF LocatorTypes, Resolving, Customized
    <2>. Remembered
      BY <1>3, <1>4, <2>1, <2>3, ReadIsPath DEF Remembered
    <2>4. Steady => OnTheWay
      BY <2>1, <2>2, <2>3, LinksLead, StraightIsReal DEF Steady, OnTheWay, Begun
    <2>5. RootsFound /\ Precedence /\ AnswerIsJustified
      BY <1>3, <2>1 DEF RootsFound, Precedence, AnswerIsJustified
    <2> QED BY <2>3, <2>4, <2>5 DEF LocatorInvariant
  <1> QED BY <1>5, <1>6

LEMMA LocatorStep ==
    ASSUME LocatorInvariant, [Next]_vars
    PROVE  LocatorInvariant'
  <1>1. CASE Search
    BY <1>1, FollowStep, ResolveRootStep, ResolveHomeStep, ResolveCommonStep, ReadPreferenceStep,
       ResolveCustomStep, CheckCustomStep, PassCustomStep, CheckCandidateStep, PassCandidateStep,
       NotFoundStep DEF Search
  <1>2. ASSUME NEW p \in Customs[kind] \cup {NoPath, Garbled}, SetPreference(p) PROVE LocatorInvariant'
    BY <1>2, SetPreferenceStep
  <1>3. ASSUME NEW d \in DOMAIN status, NEW s \in Directories[kind][d], SetStatus(d, s) PROVE LocatorInvariant'
    BY <1>3, SetStatusStep
  <1>4. ASSUME NEW p \in DOMAIN links, NEW t \in Targets[kind][p], SetLink(p, t) PROVE LocatorInvariant'
    BY <1>4, SetLinkStep
  <1>5. CASE UNCHANGED vars
    BY <1>5, StutteringStep
  <1> QED BY <1>1, <1>2, <1>3, <1>4, <1>5 DEF Next

-----------------------------------------------------------------------------
(* Theorems                                                                 *)

\* The invariant holds throughout every search for the profiles of an instance
\* (locateProfileDirectoryDetailed).
THEOREM LocatorKeepsInvariant == Spec => []LocatorInvariant
  <1>1. Init => LocatorInvariant
    BY LocatorInit
  <1>2. LocatorInvariant /\ [Next]_vars => LocatorInvariant'
    BY LocatorStep
  <1> QED BY <1>1, <1>2, PTL DEF Spec

\* The custom directory of a sandboxed instance is searched only if the place the kernel takes
\* its name to is in the sandbox, whatever links there are on the way, as long as no ".."
\* stands behind a link in the target of one (verifiedSandboxRoots, sandboxCustomLocation).
THEOREM LocatorKeepsToTheSandbox == Spec => []SandboxHolds
  <1>1. LocatorInvariant => SandboxHolds
    <2>. SUFFICES ASSUME LocatorInvariant, pc = "check", kind # "native", Steady
                  PROVE  \E r \in Sandbox : IsPrefix(r, Real(custom))
      BY DEF SandboxHolds, Steady
    <2>1. LocatorTypes /\ Allowed(custom)
      BY DEF LocatorInvariant, Precedence
    <2>2. kind \in {"flatpak", "snap"} /\ kind \in Kinds
      BY <2>1, LocatorAssumption DEF LocatorTypes, LocatorAssumption
    <2>3. PICK r \in TrueRoots : IsPrefix(r.resolved, Real(custom))
      BY <2>1 DEF Allowed, PathBelow
    <2>4. r.resolved \in Sandbox
      <3>1. Real(RootOf[kind]) # NoPath
        BY <2>3 DEF TrueRoots
      <3>2. CASE kind = "flatpak"
        BY <2>3, <3>1, <3>2 DEF TrueRoots, Root, Sandbox
      <3>3. CASE kind = "snap"
        <4>. DEFINE root == Real(RootOf[kind])
                    home == Real(Home(kind))
        <4>1. /\ home # NoPath /\ IsRevision(root, home) /\ Real(Common(kind)) = Append(home, "common")
              /\ r.resolved \in {root, Append(home, "common")}
          BY <2>3, <3>1, <3>3 DEF TrueRoots, Root
        <4>2. /\ root \in Paths \cup {NoPath} /\ home \in Paths \cup {NoPath}
          <5>1. RootOf[kind] \in Paths /\ Home(kind) \in Paths
            BY <2>2, <3>3, SandboxPaths
          <5>2. \A p \in Paths : Real(p) = End[MaximumSymbolicLinks][p]
            BY <2>1, LinksLead, StraightIsReal DEF Steady
          <5>3. MaximumSymbolicLinks \in Limits
            BY LocatorAssumption DEF Limits, LocatorAssumption
          <5> QED BY <2>1, <5>1, <5>2, <5>3, LinksLead, EndOfPath
        <4>. HIDE DEF root, home
        <4>3. IsStrictPrefix(home, root)
          <5>1. IsPrefix(home, root) /\ Len(root) = Len(home) + 1 /\ Len(home) \in Nat
            BY <4>1, <4>2 DEF IsRevision, PathBelow, Paths
          <5> QED BY <5>1 DEF IsStrictPrefix
        <4>4. IsStrictPrefix(home, Append(home, "common")) /\ Append(home, "common") # NoPath
          <5>1. home \in Seq(Names) /\ "common" \in Names
            BY <4>1, <4>2, LocatorAssumption DEF Paths, LocatorAssumption
          <5>2. Append(home, "common") \in Paths
            BY <5>1 DEF Paths
          <5>3. Len(Append(home, "common")) = Len(home) + 1 /\ Len(home) \in Nat
            BY <5>1
          <5>4. SubSeq(home, 1, Len(home)) = SubSeq(Append(home, "common"), 1, Len(home))
            BY <5>1
          <5>5. IsStrictPrefix(home, Append(home, "common"))
            BY <5>3, <5>4 DEF IsStrictPrefix, IsPrefix
          <5> QED BY <5>2, <5>5, PathsAreRaw, LocatorAssumption DEF LocatorAssumption
        <4> QED BY <3>1, <3>3, <4>1, <4>3, <4>4 DEF Sandbox, root, home
      <3> QED BY <2>2, <3>2, <3>3
    <2> QED BY <2>3, <2>4
  <1> QED BY <1>1, LocatorKeepsInvariant, PTL

\* A directory is answered only if everything that precedes it was seen absent during the
\* search, and its own state was seen, with links as above (existingLocation,
\* locateProfileDirectoryDetailed).
THEOREM LocatorAnswersInOrder == Spec => []AnswerIsJustified
  <1>1. LocatorInvariant => AnswerIsJustified
    BY DEF LocatorInvariant, Steady, AnswerIsJustified
  <1> QED BY <1>1, LocatorKeepsInvariant, PTL
=============================================================================
