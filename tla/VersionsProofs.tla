--------------------------- MODULE VersionsProofs ---------------------------
(***************************************************************************)
(* What the version algebra promises, for versions of any length: the      *)
(* known versions are totally preordered by Version::compare, and          *)
(* is_upgrade_to is a strict order on them.  From that, the invariants of  *)
(* UpgradeChain, for any set of offers and any length of a history.        *)
(***************************************************************************)
EXTENDS MCUpgradeChain, CliSession, WellFoundedInduction, TLAPS

\* Every non-empty set of naturals has a least element.
LEMMA LeastNatural ==
    ASSUME NEW S \in SUBSET Nat, S # {}
    PROVE  \E m \in S : \A k \in S : m <= k
<1>1. PICK m \in S : \A k \in S : ~(<<k, m>> \in OpToRel(<, Nat))
  BY NatLessThanWellFounded, WFMin, Zenon
<1>2. \A k \in S : ~(k < m)
  BY <1>1, Zenon DEF OpToRel
<1>3. m \in Nat /\ \A k \in S : k \in Nat
  OBVIOUS
<1> QED
  BY <1>2, <1>3

-----------------------------------------------------------------------------
(* Segments and releases.                                                  *)

LEMMA SegmentOrder ==
    ASSUME NEW a \in Segment, NEW b \in Segment, NEW c \in Segment
    PROVE  /\ ~SegmentLess(a, a)
           /\ SegmentLess(a, b) /\ SegmentLess(b, c) => SegmentLess(a, c)
           /\ SegmentLess(a, b) \/ a = b \/ SegmentLess(b, a)
  BY DEF Segment, SegmentLess

LEMMA ReleaseAtType ==
    ASSUME NEW v \in Version, NEW i \in Nat \ {0}
    PROVE  /\ ReleaseAt(v, i) \in Segment
           /\ i > Len(v.release) => ReleaseAt(v, i) = Num(0)
<1>1. v.release \in Seq(Segment)
  BY DEF Version
<1>2. Num(0) \in Segment
  BY DEF Num, Segment
<1> QED
  BY <1>1, <1>2 DEF ReleaseAt

\* The first difference of two releases, without the bound on its position.
DiffersAt(a, b, i) ==
    /\ \A j \in 1..(i - 1) : ReleaseAt(a, j) = ReleaseAt(b, j)
    /\ SegmentLess(ReleaseAt(a, i), ReleaseAt(b, i))

\* Beyond both releases everything is padding, so the bound loses nothing.
LEMMA PaddingIsNeutral ==
    ASSUME NEW a \in Version, NEW b \in Version
    PROVE  /\ ReleaseLess(a, b) <=> \E i \in Nat \ {0} : DiffersAt(a, b, i)
           /\ SameRelease(a, b) <=> \A i \in Nat \ {0} : ReleaseAt(a, i) = ReleaseAt(b, i)
<1>1. /\ Len(a.release) \in Nat /\ Len(b.release) \in Nat
      /\ Longer(a.release, b.release) \in Nat
      /\ Longer(a.release, b.release) >= Len(a.release)
      /\ Longer(a.release, b.release) >= Len(b.release)
  BY DEF Version, Longer
<1>2. \A i \in Nat \ {0} : i > Longer(a.release, b.release)
                              => ReleaseAt(a, i) = Num(0) /\ ReleaseAt(b, i) = Num(0)
  BY <1>1, ReleaseAtType
<1>3. ~SegmentLess(Num(0), Num(0))
  BY DEF SegmentLess, Num
<1>4. \A i \in Nat \ {0} : DiffersAt(a, b, i) => i \in 1..Longer(a.release, b.release)
  BY <1>1, <1>2, <1>3 DEF DiffersAt
<1>5. ReleaseLess(a, b) <=> \E i \in Nat \ {0} : DiffersAt(a, b, i)
  BY <1>1, <1>4 DEF ReleaseLess, DiffersAt
<1>6. SameRelease(a, b) <=> \A i \in Nat \ {0} : ReleaseAt(a, i) = ReleaseAt(b, i)
  BY <1>1, <1>2 DEF SameRelease
<1> QED
  BY <1>5, <1>6

LEMMA ReleaseLessTransitive ==
    ASSUME NEW a \in Version, NEW b \in Version, NEW c \in Version,
           ReleaseLess(a, b) \/ SameRelease(a, b),
           ReleaseLess(b, c) \/ SameRelease(b, c),
           ReleaseLess(a, b) \/ ReleaseLess(b, c)
    PROVE  ReleaseLess(a, c)
<1>1. CASE ReleaseLess(a, b) /\ ReleaseLess(b, c)
  <2>1. PICK i \in Nat \ {0} : DiffersAt(a, b, i)
    BY <1>1, PaddingIsNeutral
  <2>2. PICK k \in Nat \ {0} : DiffersAt(b, c, k)
    BY <1>1, PaddingIsNeutral
  <2>3. /\ ReleaseAt(a, i) \in Segment /\ ReleaseAt(b, i) \in Segment
        /\ ReleaseAt(c, i) \in Segment
    BY ReleaseAtType
  <2>4. CASE i < k
    BY <2>1, <2>2, <2>4, PaddingIsNeutral DEF DiffersAt
  <2>5. CASE i = k
    BY <2>1, <2>2, <2>3, <2>5, SegmentOrder, PaddingIsNeutral DEF DiffersAt
  <2>6. CASE i > k
    BY <2>1, <2>2, <2>6, PaddingIsNeutral DEF DiffersAt
  <2> QED
    BY <2>4, <2>5, <2>6
<1>2. CASE ReleaseLess(a, b) /\ SameRelease(b, c)
  BY <1>2, PaddingIsNeutral DEF DiffersAt
<1>3. CASE SameRelease(a, b) /\ ReleaseLess(b, c)
  BY <1>3, PaddingIsNeutral DEF DiffersAt
<1> QED
  BY <1>1, <1>2, <1>3

LEMMA ReleaseTotal ==
    ASSUME NEW a \in Version, NEW b \in Version
    PROVE  ReleaseLess(a, b) \/ SameRelease(a, b) \/ ReleaseLess(b, a)
<1> DEFINE D == {i \in Nat \ {0} : ReleaseAt(a, i) # ReleaseAt(b, i)}
<1>1. CASE D = {}
  BY <1>1, PaddingIsNeutral
<1>2. CASE D # {}
  <2>1. PICK m \in D : \A k \in D : m <= k
    BY <1>2, LeastNatural
  <2>2. \A j \in 1..(m - 1) : ReleaseAt(a, j) = ReleaseAt(b, j)
    BY <2>1
  <2>3. DiffersAt(a, b, m) \/ DiffersAt(b, a, m)
    BY <2>1, <2>2, SegmentOrder, ReleaseAtType DEF DiffersAt
  <2> QED
    BY <2>3, PaddingIsNeutral
<1> QED
  BY <1>1, <1>2

LEMMA ReleaseLessIrreflexive ==
    ASSUME NEW a \in Version, NEW b \in Version, SameRelease(a, b)
    PROVE  ~ReleaseLess(a, b)
  BY PaddingIsNeutral, SegmentOrder, ReleaseAtType DEF DiffersAt

-----------------------------------------------------------------------------
(* Pre-release chains.                                                     *)

LEMMA StepOrder ==
    ASSUME NEW a \in Segment \union {End}, NEW b \in Segment \union {End},
           NEW c \in Segment \union {End}
    PROVE  /\ ~StepLess(a, a)
           /\ StepLess(a, b) /\ StepLess(b, c) => StepLess(a, c)
           /\ StepLess(a, b) \/ a = b \/ StepLess(b, a)
  BY SegmentOrder DEF StepLess

LEMMA ChainAtType ==
    ASSUME NEW p \in Seq(Segment), NEW i \in Nat \ {0}
    PROVE  /\ ChainAt(p, i) \in Segment \union {End}
           /\ i > Len(p) <=> ChainAt(p, i) = End
<1>1. End \notin Segment
  BY DEF End, Segment
<1> QED
  BY <1>1 DEF ChainAt

\* The first difference of two chains, without the bound on its position.
ForksAt(p, q, i) ==
    /\ \A j \in 1..(i - 1) : ChainAt(p, j) = ChainAt(q, j)
    /\ StepLess(ChainAt(p, i), ChainAt(q, i))

LEMMA ChainForks ==
    ASSUME NEW p \in Seq(Segment), NEW q \in Seq(Segment)
    PROVE  /\ ChainLess(p, q) <=> \E i \in Nat \ {0} : ForksAt(p, q, i)
           /\ p = q <=> \A i \in Nat \ {0} : ChainAt(p, i) = ChainAt(q, i)
<1>1. /\ Len(p) \in Nat /\ Len(q) \in Nat /\ Longer(p, q) \in Nat
      /\ Longer(p, q) >= Len(p) /\ Longer(p, q) >= Len(q)
  BY DEF Longer
<1>2. \A i \in Nat \ {0} : i > Longer(p, q) => ChainAt(p, i) = End /\ ChainAt(q, i) = End
  BY <1>1, ChainAtType
<1>3. \A i \in Nat \ {0} : ForksAt(p, q, i) => i \in 1..Longer(p, q)
  BY <1>1, <1>2 DEF ForksAt, StepLess
<1>4. ChainLess(p, q) <=> \E i \in Nat \ {0} : ForksAt(p, q, i)
  BY <1>1, <1>3 DEF ChainLess, ForksAt
<1>5. ASSUME \A i \in Nat \ {0} : ChainAt(p, i) = ChainAt(q, i)
      PROVE  p = q
  <2>1. ~(Len(p) < Len(q)) /\ ~(Len(q) < Len(p))
    <3>1. Len(p) + 1 \in Nat \ {0} /\ Len(q) + 1 \in Nat \ {0}
      BY <1>1
    <3>2. (Len(p) + 1 > Len(q) <=> Len(p) + 1 > Len(p)) /\ (Len(q) + 1 > Len(p) <=> Len(q) + 1 > Len(q))
      BY <1>5, <3>1, ChainAtType
    <3> QED
      BY <1>1, <3>2
  <2>2. Len(p) = Len(q)
    BY <1>1, <2>1
  <2>3. \A i \in 1..Len(p) : p[i] = q[i]
    BY <1>1, <1>5, <2>2 DEF ChainAt
  <2> QED
    BY <2>2, <2>3
<1> QED
  BY <1>4, <1>5

LEMMA ChainLessTransitive ==
    ASSUME NEW p \in Seq(Segment), NEW q \in Seq(Segment), NEW r \in Seq(Segment),
           ChainLess(p, q), ChainLess(q, r)
    PROVE  ChainLess(p, r)
<1>1. PICK i \in Nat \ {0} : ForksAt(p, q, i)
  BY ChainForks
<1>2. PICK k \in Nat \ {0} : ForksAt(q, r, k)
  BY ChainForks
<1>3. /\ ChainAt(p, i) \in Segment \union {End} /\ ChainAt(q, i) \in Segment \union {End}
      /\ ChainAt(r, i) \in Segment \union {End}
  BY ChainAtType
<1>4. CASE i < k
  BY <1>1, <1>2, <1>4, ChainForks DEF ForksAt
<1>5. CASE i = k
  BY <1>1, <1>2, <1>3, <1>5, StepOrder, ChainForks DEF ForksAt
<1>6. CASE i > k
  BY <1>1, <1>2, <1>6, ChainForks DEF ForksAt
<1> QED
  BY <1>4, <1>5, <1>6

LEMMA ChainLessIrreflexive ==
    ASSUME NEW p \in Seq(Segment)
    PROVE  ~ChainLess(p, p)
  BY ChainForks, ChainAtType, StepOrder DEF ForksAt

LEMMA ChainTotal ==
    ASSUME NEW p \in Seq(Segment), NEW q \in Seq(Segment)
    PROVE  ChainLess(p, q) \/ p = q \/ ChainLess(q, p)
<1> DEFINE D == {i \in Nat \ {0} : ChainAt(p, i) # ChainAt(q, i)}
<1>1. CASE D = {}
  BY <1>1, ChainForks
<1>2. CASE D # {}
  <2>1. PICK m \in D : \A k \in D : m <= k
    BY <1>2, LeastNatural
  <2>2. \A j \in 1..(m - 1) : ChainAt(p, j) = ChainAt(q, j)
    BY <2>1
  <2>3. ForksAt(p, q, m) \/ ForksAt(q, p, m)
    BY <2>1, <2>2, StepOrder, ChainAtType DEF ForksAt
  <2> QED
    BY <2>3, ChainForks
<1> QED
  BY <1>1, <1>2

-----------------------------------------------------------------------------
(* The order itself.                                                       *)

LEMMA SameReleaseEquivalence ==
    ASSUME NEW a \in Version, NEW b \in Version, NEW c \in Version
    PROVE  /\ SameRelease(a, a)
           /\ SameRelease(a, b) => SameRelease(b, a)
           /\ SameRelease(a, b) /\ SameRelease(b, c) => SameRelease(a, c)
  BY PaddingIsNeutral

LEMMA VersionFields ==
    ASSUME NEW v \in Version
    PROVE  v.pre \in Seq(Segment) /\ v.release \in Seq(Segment) /\ v.known \in BOOLEAN
  BY DEF Version

LEMMA PreLessOrder ==
    ASSUME NEW a \in Version, NEW b \in Version, NEW c \in Version
    PROVE  /\ ~PreLess(a, a)
           /\ PreLess(a, b) /\ PreLess(b, c) => PreLess(a, c)
           /\ PreLess(a, b) \/ a.pre = b.pre \/ PreLess(b, a)
  BY VersionFields, ChainLessIrreflexive, ChainLessTransitive, ChainTotal DEF PreLess

\* Of two versions, one is the earlier or they are the same: the three ways
\* out of Version::compare cover everything and exclude one another.
LEMMA LessTrichotomy ==
    ASSUME NEW a \in Version, NEW b \in Version
    PROVE  /\ Less(a, b) \/ Same(a, b) \/ Less(b, a)
           /\ ~(Less(a, b) /\ Same(a, b))
           /\ ~(Less(a, b) /\ Less(b, a))
<1>1. Less(a, b) \/ Same(a, b) \/ Less(b, a)
  BY ReleaseTotal, PreLessOrder, SameReleaseEquivalence DEF Less, Same
<1>2. ~(Less(a, b) /\ Same(a, b))
  BY ReleaseLessIrreflexive, PreLessOrder DEF Less, Same, PreLess
<1>3. ~(Less(a, b) /\ Less(b, a))
  BY ReleaseLessTransitive, ReleaseLessIrreflexive, SameReleaseEquivalence, PreLessOrder DEF Less
<1> QED
  BY <1>1, <1>2, <1>3

LEMMA LessTransitive ==
    ASSUME NEW a \in Version, NEW b \in Version, NEW c \in Version,
           Less(a, b) \/ Same(a, b),
           Less(b, c) \/ Same(b, c),
           Less(a, b) \/ Less(b, c)
    PROVE  Less(a, c)
<1>1. CASE ReleaseLess(a, b) \/ ReleaseLess(b, c)
  BY <1>1, ReleaseLessTransitive DEF Less, Same
<1>2. CASE SameRelease(a, b) /\ SameRelease(b, c) /\ ~ReleaseLess(a, b) /\ ~ReleaseLess(b, c)
  <2>1. SameRelease(a, c)
    BY <1>2, SameReleaseEquivalence
  <2>2. PreLess(a, c)
    BY <1>2, PreLessOrder DEF Less, Same, PreLess
  <2> QED
    BY <2>1, <2>2 DEF Less
<1> QED
  BY <1>1, <1>2 DEF Less, Same

-----------------------------------------------------------------------------
(* The results.                                                            *)

\* Version::compare is total on known versions and answers "None" exactly when
\* one side is unknown; swapping the arguments swaps Less and Greater, so the
\* fall-through answer "Greater" is never a guess.
THEOREM CompareIsTotal ==
    ASSUME NEW a \in Version, NEW b \in Version
    PROVE  /\ Compare(a, b) = "None" <=> ~(a.known /\ b.known)
           /\ Compare(a, b) = "Greater" <=> Compare(b, a) = "Less"
           /\ Compare(a, b) = "Equal" <=> Compare(b, a) = "Equal"
<1>1. a.known \in BOOLEAN /\ b.known \in BOOLEAN
  BY VersionFields
<1>2. /\ Less(a, b) \/ Same(a, b) \/ Less(b, a)
      /\ ~(Less(a, b) /\ Same(a, b)) /\ ~(Less(b, a) /\ Same(b, a))
      /\ ~(Less(a, b) /\ Less(b, a))
  BY LessTrichotomy
<1>3. Same(a, b) <=> Same(b, a)
  BY SameReleaseEquivalence DEF Same
<1> QED
  BY <1>1, <1>2, <1>3 DEF Compare

\* is_upgrade_to is a strict order: no version is an upgrade of itself, and an
\* upgrade of an upgrade is an upgrade, so no chain of updates closes a circle.
THEOREM UpgradeIsAStrictOrder ==
    ASSUME NEW a \in Version, NEW b \in Version, NEW c \in Version
    PROVE  /\ ~IsUpgradeTo(a, a)
           /\ IsUpgradeTo(a, b) => ~IsUpgradeTo(b, a)
           /\ IsUpgradeTo(a, b) /\ IsUpgradeTo(b, c) => IsUpgradeTo(a, c)
<1>1. /\ ~Less(a, a)
      /\ Less(a, b) => ~Less(b, a)
      /\ Less(a, b) /\ Less(b, c) => Less(a, c)
  BY LessTrichotomy, LessTransitive, SameReleaseEquivalence DEF Same
<1> QED
  BY <1>1 DEF IsUpgradeTo, Compare

\* Runner::confirm accepts a version read back that compares Equal to the
\* approved one or beyond it.  Either way it is an upgrade of the version the
\* policy compared the approved one with.
THEOREM AcceptedReadbackIsAnUpgrade ==
    ASSUME NEW before \in Version, NEW approved \in Version, NEW actual \in Version,
           IsUpgradeTo(before, approved),
           Compare(approved, actual) \in {"Equal", "Less"}
    PROVE  IsUpgradeTo(before, actual)
<1>1. before.known /\ approved.known /\ Less(before, approved)
  BY DEF IsUpgradeTo, Compare
<1>2. actual.known /\ (Same(approved, actual) \/ Less(approved, actual))
  BY DEF Compare
<1>3. Less(before, actual)
  BY <1>1, <1>2, LessTransitive
<1> QED
  BY <1>1, <1>2, <1>3 DEF IsUpgradeTo, Compare

-----------------------------------------------------------------------------
(* One package through a history of upgrades.                              *)

\* The package always runs a version some source offered.
THEOREM ChainTypeOK == ChainSpec => []ChainTypes
<1>1. ChainInit => ChainTypes
  BY DEF ChainInit, ChainTypes
<1>2. ChainTypes /\ [ChainNext]_chainVars => ChainTypes'
  BY DEF ChainTypes, ChainNext, Upgrade, chainVars
<1> QED
  BY <1>1, <1>2, PTL DEF ChainSpec

\* Versions a package was upgraded from stay behind it: by transitivity of
\* is_upgrade_to along the chain, and not only against the last one.
THEOREM ChainNeverReturns == ChainSpec => []NeverReturns
<1>1. ChainInit => NeverReturns
  BY DEF ChainInit, NeverReturns
<1>2. ChainTypes /\ NeverReturns /\ [ChainNext]_chainVars => NeverReturns'
  <2> SUFFICES ASSUME ChainTypes, NeverReturns, [ChainNext]_chainVars
               PROVE  NeverReturns'
    OBVIOUS
  <2>1. ASSUME NEW available \in Offers, Upgrade(available)
        PROVE  NeverReturns'
    <3>1. available \in Version /\ version \in Version /\ passed \subseteq Version
      BY OffersAssumption DEF ChainTypes
    <3>2. \A v \in passed : IsUpgradeTo(v, version) /\ IsUpgradeTo(version, available)
                            => IsUpgradeTo(v, available)
      BY <3>1, UpgradeIsAStrictOrder
    <3> QED
      BY <2>1, <3>2 DEF NeverReturns, Upgrade
  <2>2. CASE UNCHANGED chainVars
    BY <2>2 DEF chainVars, NeverReturns
  <2> QED
    BY <2>1, <2>2 DEF ChainNext
<1> QED
  BY <1>1, <1>2, ChainTypeOK, PTL DEF ChainSpec

-----------------------------------------------------------------------------
(* The list of holds.  Without is a loop over the list: what it has kept   *)
(* after n of them is what it had after one less, and perhaps one more.    *)

\* No two holds differ only in case.
Apart(holds) ==
    \A i, j \in DOMAIN holds : LowerOf[holds[i].package] = LowerOf[holds[j].package] => i = j

\* One turn of the loop, after which n holds have been looked at.
Turn(holds, pattern, kept, n) ==
    IF n = 0 THEN <<>>
    ELSE IF LowerOf[holds[n].package] = LowerOf[pattern] THEN kept[n - 1]
    ELSE Append(kept[n - 1], holds[n])

LEMMA TheLoopRuns ==
    ASSUME NEW holds \in Seq(Hold), NEW pattern
    PROVE  \E kept \in [0 .. Len(holds) -> Seq(Hold)] :
               \A n \in 0 .. Len(holds) : kept[n] = Turn(holds, pattern, kept, n)
<1> DEFINE Runs(m) == \E kept \in [0 .. m -> Seq(Hold)] :
                          \A n \in 0 .. m : kept[n] = Turn(holds, pattern, kept, n)
           Fails   == {m \in 0 .. Len(holds) : ~Runs(m)}
<1>1. Len(holds) \in Nat
  OBVIOUS
<1>2. <<>> \in Seq(Hold)
  OBVIOUS
<1>3. Runs(0)
  <2>1. [n \in 0 .. 0 |-> <<>>] \in [0 .. 0 -> Seq(Hold)]
    BY <1>2
  <2>2. \A n \in 0 .. 0 : [k \in 0 .. 0 |-> <<>>][n] = Turn(holds, pattern, [k \in 0 .. 0 |-> <<>>], n)
    BY DEF Turn
  <2> QED
    BY <2>1, <2>2
<1>4. ASSUME NEW m \in 1 .. Len(holds), Runs(m - 1) PROVE Runs(m)
  <2>1. PICK kept \in [0 .. m - 1 -> Seq(Hold)] :
            \A n \in 0 .. m - 1 : kept[n] = Turn(holds, pattern, kept, n)
    BY <1>4
  <2> DEFINE more == [n \in 0 .. m |-> IF n = m THEN Turn(holds, pattern, kept, m) ELSE kept[n]]
  <2>2. holds[m] \in Hold /\ m - 1 \in 0 .. m - 1 /\ kept[m - 1] \in Seq(Hold)
    OBVIOUS
  <2>3. Turn(holds, pattern, kept, m) \in Seq(Hold)
    BY <1>2, <2>2 DEF Turn
  <2>4. more \in [0 .. m -> Seq(Hold)]
    BY <2>3
  <2>5. ASSUME NEW n \in 0 .. m PROVE more[n] = Turn(holds, pattern, more, n)
    <3>1. n # 0 => more[n - 1] = kept[n - 1]
      OBVIOUS
    <3>2. Turn(holds, pattern, more, n) = Turn(holds, pattern, kept, n)
      BY <3>1 DEF Turn
    <3>3. more[n] = Turn(holds, pattern, kept, n)
      BY <2>1
    <3> QED
      BY <3>2, <3>3
  <2> HIDE DEF more
  <2> QED
    BY <2>4, <2>5
<1> HIDE DEF Runs
<1>5. Fails = {}
  <2> SUFFICES ASSUME Fails # {} PROVE FALSE
    OBVIOUS
  <2>1. Fails \in SUBSET Nat
    BY <1>1
  <2> HIDE DEF Fails
  <2>2. PICK m \in Fails : \A k \in Fails : m <= k
    BY <2>1, LeastNatural
  <2> USE DEF Fails
  <2>3. m # 0 /\ m \in 1 .. Len(holds) /\ m - 1 \notin Fails /\ m - 1 \in 0 .. Len(holds)
    BY <1>1, <1>3, <2>2
  <2> QED
    BY <1>4, <2>2, <2>3
<1>6. Runs(Len(holds))
  BY <1>1, <1>5
<1> QED
  BY <1>6 DEF Runs

\* What is kept are holds of the list that are about something else, still no two alike.
LEMMA WithoutKeeps ==
    ASSUME NEW holds \in Seq(Hold), NEW pattern, Apart(holds)
    PROVE  /\ Without(holds, pattern) \in Seq(Hold)
           /\ Apart(Without(holds, pattern))
           /\ \A j \in DOMAIN Without(holds, pattern) :
                  LowerOf[Without(holds, pattern)[j].package] # LowerOf[pattern]
<1> DEFINE Loop(f) == [n \in 0 .. Len(holds) |-> Turn(holds, pattern, f, n)]
           kept == CHOOSE f : f = Loop(f)
           Other(s, n) == \A j \in DOMAIN s :
                              \E k \in 1 .. n : /\ s[j] = holds[k]
                                                /\ LowerOf[holds[k].package] # LowerOf[pattern]
           Good(n) == kept[n] \in Seq(Hold) /\ Apart(kept[n]) /\ Other(kept[n], n)
           Bad == {n \in 0 .. Len(holds) : ~Good(n)}
<1>1. Len(holds) \in Nat
  OBVIOUS
<1>2. Without(holds, pattern) = kept[Len(holds)]
  BY DEF Without, Turn
<1>3. \E f : f = Loop(f)
  BY TheLoopRuns
<1>4. kept = Loop(kept)
  BY <1>3
<1> HIDE DEF kept
<1>5. \A n \in 0 .. Len(holds) : kept[n] = Turn(holds, pattern, kept, n)
  BY <1>4
<1>6. Good(0)
  <2>1. kept[0] = <<>>
    BY <1>1, <1>5 DEF Turn
  <2>2. <<>> \in Seq(Hold) /\ \A j \in DOMAIN <<>> : FALSE
    OBVIOUS
  <2> QED
    BY <2>1, <2>2 DEF Apart
<1>7. ASSUME NEW n \in 1 .. Len(holds), Good(n - 1) PROVE Good(n)
  <2> DEFINE old == kept[n - 1]
  <2>1. old \in Seq(Hold) /\ Apart(old) /\ Other(old, n - 1)
    BY <1>7
  <2>2. holds[n] \in Hold /\ n \in 0 .. Len(holds) /\ n # 0
    OBVIOUS
  <2>3. CASE LowerOf[holds[n].package] = LowerOf[pattern]
    <3>1. kept[n] = old
      BY <1>5, <2>2, <2>3 DEF Turn
    <3>2. 1 .. n - 1 \subseteq 1 .. n
      OBVIOUS
    <3>3. Other(old, n)
      <4> HIDE DEF old
      <4> QED
        BY <2>1, <3>2
    <3> QED
      BY <2>1, <3>1, <3>3
  <2>4. CASE LowerOf[holds[n].package] # LowerOf[pattern]
    <3> DEFINE new == Append(old, holds[n])
    <3>1. kept[n] = new
      BY <1>5, <2>2, <2>4 DEF Turn
    <3>2. /\ new \in Seq(Hold) /\ DOMAIN new = 1 .. Len(old) + 1 /\ new[Len(old) + 1] = holds[n]
          /\ \A j \in DOMAIN old : new[j] = old[j] /\ j # Len(old) + 1
          /\ DOMAIN old = 1 .. Len(old) /\ Len(old) \in Nat
      BY <2>2, <2>1
    <3> HIDE DEF new, old
    <3>3. Other(new, n)
      <4> SUFFICES ASSUME NEW j \in DOMAIN new
                   PROVE  \E k \in 1 .. n : /\ new[j] = holds[k]
                                            /\ LowerOf[holds[k].package] # LowerOf[pattern]
        OBVIOUS
      <4>1. CASE j = Len(old) + 1
        BY <2>4, <3>2, <4>1
      <4>2. CASE j \in DOMAIN old
        <5>1. PICK k \in 1 .. n - 1 : /\ old[j] = holds[k]
                                      /\ LowerOf[holds[k].package] # LowerOf[pattern]
          BY <2>1, <4>2
        <5> QED
          BY <3>2, <4>2, <5>1
      <4> QED
        BY <3>2, <4>1, <4>2
    <3>4. \A j \in DOMAIN old : LowerOf[new[j].package] # LowerOf[holds[n].package]
      <4> SUFFICES ASSUME NEW j \in DOMAIN old
                   PROVE  LowerOf[new[j].package] # LowerOf[holds[n].package]
        OBVIOUS
      <4>1. PICK k \in 1 .. n - 1 : old[j] = holds[k]
        BY <2>1
      <4>2. k \in DOMAIN holds /\ n \in DOMAIN holds /\ k # n
        OBVIOUS
      <4> QED
        BY <3>2, <4>1, <4>2 DEF Apart
    <3>5. Apart(new)
      BY <2>1, <3>2, <3>4 DEF Apart
    <3> QED
      BY <3>1, <3>2, <3>3, <3>5
  <2> QED
    BY <2>3, <2>4
<1> HIDE DEF Good
<1>8. Bad = {}
  <2> SUFFICES ASSUME Bad # {} PROVE FALSE
    OBVIOUS
  <2>1. Bad \in SUBSET Nat
    BY <1>1
  <2> HIDE DEF Bad
  <2>2. PICK m \in Bad : \A k \in Bad : m <= k
    BY <2>1, LeastNatural
  <2> USE DEF Bad
  <2>3. m # 0 /\ m \in 1 .. Len(holds) /\ m - 1 \notin Bad /\ m - 1 \in 0 .. Len(holds)
    BY <1>1, <1>6, <2>2
  <2> QED
    BY <1>7, <2>2, <2>3
<1>9. Good(Len(holds))
  BY <1>1, <1>8
<1> QED
  BY <1>2, <1>9 DEF Good

-----------------------------------------------------------------------------
(* The command line.                                                       *)

\* What the policy lets through has passed every rule that blocks.
LEMMA WhatIsLetThrough ==
    ASSUME NEW rules, NEW c, Actionable(rules, c)
    PROVE  /\ ~Excluded(rules, c) /\ ~Held(rules, c)
           /\ c.forbids => ~rules.elevated
           /\ c.requires => rules.elevated
           /\ IsUpgradeTo(ParseOf[c.installed], ParseOf[c.available])
  BY DEF Actionable, Evaluate

\* Of the holds that speak of a candidate one comes first, and it decides.
LEMMA OneHoldDecides ==
    ASSUME NEW holds \in Seq(Hold), NEW c, NEW i \in DOMAIN holds, Matches(holds[i].package, c)
    PROVE  \E k \in Deciding(holds, c) : TRUE
<1> DEFINE Matching == {k \in DOMAIN holds : Matches(holds[k].package, c)}
<1>1. Matching \in SUBSET Nat /\ Matching # {}
  OBVIOUS
<1> HIDE DEF Matching
<1>2. PICK k \in Matching : \A j \in Matching : k <= j
  BY <1>1, LeastNatural
<1> USE DEF Matching
<1>3. \A j \in 1 .. k - 1 : j \in DOMAIN holds /\ ~(k <= j)
  OBVIOUS
<1>4. k \in Deciding(holds, c)
  BY <1>2, <1>3 DEF Deciding
<1> QED
  BY <1>4

Policies == [stable_only : BOOLEAN, require_known : BOOLEAN, exclude : SUBSET Patterns,
             holds : Seq(Hold), elevated : BOOLEAN]

SessionInv ==
    /\ policy \in Policies
    /\ Apart(policy.holds)
    /\ installed \in [Packages -> Raws]

\* A list of holds that is put in place of another one.
LEMMA HoldsChange ==
    ASSUME SessionInv, NEW holds \in Seq(Hold), Apart(holds),
           policy' = [policy EXCEPT !.holds = holds], UNCHANGED installed
    PROVE  SessionInv'
<1>1. policy' \in Policies /\ policy'.holds = holds
  BY DEF SessionInv, Policies
<1> QED
  BY <1>1 DEF SessionInv, Apart

\* A new hold goes last, after whatever was held by the same name up to case is dropped.
LEMMA HoldKeeps ==
    ASSUME SessionInv, NEW pattern \in Patterns, NEW pin \in Pins, HoldPackage(pattern, pin)
    PROVE  SessionInv'
<1> DEFINE kept == Without(policy.holds, pattern)
           new  == [package |-> pattern, pin |-> pin]
           all  == Append(kept, new)
<1>1. /\ kept \in Seq(Hold) /\ Apart(kept)
      /\ \A j \in DOMAIN kept : LowerOf[kept[j].package] # LowerOf[pattern]
  BY WithoutKeeps DEF SessionInv, Policies
<1>2. policy' = [policy EXCEPT !.holds = all] /\ UNCHANGED installed
  BY DEF HoldPackage
<1> HIDE DEF kept
<1>3. new \in Hold
  BY DEF Hold
<1>4. new.package = pattern
  OBVIOUS
<1> HIDE DEF new
<1>5. /\ all \in Seq(Hold) /\ DOMAIN all = 1 .. Len(kept) + 1 /\ all[Len(kept) + 1] = new
      /\ DOMAIN kept = 1 .. Len(kept) /\ Len(kept) \in Nat
      /\ \A j \in DOMAIN kept : all[j] = kept[j]
  BY <1>1, <1>3
<1> HIDE DEF all
<1>6. Apart(all)
  BY <1>1, <1>4, <1>5 DEF Apart
<1> QED
  BY <1>2, <1>5, <1>6, HoldsChange

LEMMA UnholdKeeps ==
    ASSUME SessionInv, NEW pattern \in Patterns, Unhold(pattern)
    PROVE  SessionInv'
<1>1. Without(policy.holds, pattern) \in Seq(Hold) /\ Apart(Without(policy.holds, pattern))
  BY WithoutKeeps DEF SessionInv, Policies
<1> QED
  BY <1>1, HoldsChange DEF Unhold

LEMMA SessionKeeps == SessionInv /\ [Next]_vars => SessionInv'
<1> SUFFICES ASSUME SessionInv, [Next]_vars PROVE SessionInv'
  OBVIOUS
<1>1. ASSUME NEW pattern \in Patterns, NEW pin \in Pins, HoldPackage(pattern, pin)
      PROVE  SessionInv'
  BY <1>1, HoldKeeps
<1>2. ASSUME NEW pattern \in Patterns, Unhold(pattern) PROVE SessionInv'
  BY <1>2, UnholdKeeps
<1>3. ASSUME NEW s \in Settings, EditSettings(s) PROVE SessionInv'
  <2>1. s \in [exclude : SUBSET Patterns, stable_only : BOOLEAN, require_known : BOOLEAN,
               elevated : BOOLEAN]
    BY PackagesAssumption
  <2>2. policy' \in Policies /\ policy'.holds = policy.holds /\ UNCHANGED installed
    BY <1>3, <2>1 DEF EditSettings, SessionInv, Policies
  <2> QED
    BY <2>2 DEF SessionInv, Apart
<1>4. ASSUME NEW only, NEW profile, NEW offers \in [Packages -> Raws], Apply(only, profile, offers)
      PROVE  SessionInv'
  <2>1. installed' \in [Packages -> Raws]
    BY <1>4 DEF Apply, SessionInv
  <2> QED
    BY <1>4, <2>1 DEF Apply, SessionInv, Apart
<1>5. ASSUME NEW pkg \in Packages, NEW raw \in Raws, ChangedOutside(pkg, raw) PROVE SessionInv'
  BY <1>5 DEF ChangedOutside, SessionInv, Apart
<1>6. CASE UNCHANGED vars
  BY <1>6 DEF vars, SessionInv, Apart
<1> QED
  BY <1>1, <1>2, <1>3, <1>4, <1>5, <1>6 DEF Next

LEMMA SessionBegins == Init => SessionInv
<1> SUFFICES ASSUME Init PROVE SessionInv
  OBVIOUS
<1>1. {} \in SUBSET Patterns /\ <<>> \in Seq(Hold) /\ \A i \in DOMAIN <<>> : FALSE
  OBVIOUS
<1>2. policy \in Policies /\ policy.holds = <<>>
  BY <1>1 DEF Init, Policies
<1> QED
  BY <1>1, <1>2 DEF Init, SessionInv, Apart

\* Only an apply moves a package in the step of an apply, and only as the policy lets it.
LEMMA OnlyWhatIsLetThrough ==
    ASSUME SessionInv, [Next]_vars, NEW pkg \in Packages, Moved(pkg)
    PROVE  Actionable(policy, CandidateFor(pkg, installed'[pkg]))
<1>1. ran' = "apply" /\ installed' # installed
  BY DEF Moved
<1>2. Next
  BY <1>1 DEF vars
<1>3. ~\E pattern \in Patterns, pin \in Pins : HoldPackage(pattern, pin)
  BY <1>1 DEF HoldPackage
<1>4. ~\E pattern \in Patterns : Unhold(pattern)
  BY <1>1 DEF Unhold
<1>5. ~\E s \in Settings : EditSettings(s)
  BY <1>1 DEF EditSettings
<1>6. ~\E p \in Packages, raw \in Raws : ChangedOutside(p, raw)
  BY <1>1 DEF ChangedOutside
<1>7. PICK only \in {{}} \union {{p} : p \in Patterns}, profile \in {NoProfile} \union DOMAIN Profiles,
           offers \in [Packages -> Raws] : Apply(only, profile, offers)
  BY <1>2, <1>3, <1>4, <1>5, <1>6, Zenon DEF Next
<1> QED
  BY <1>7 DEF Apply, Moved

\* hold and unhold rewrite the list of holds (main.rs): whatever is held, released, edited and
\* installed, in any order, no two holds differ only in case, so that one `unhold X` lifts
\* whatever X was held as.
THEOREM SessionTypeCorrect == Spec => []TypeOK
<1>1. SessionInv => TypeOK
  BY DEF SessionInv, Policies, Apart, TypeOK
<1> QED
  BY <1>1, SessionBegins, SessionKeeps, PTL DEF Spec

\* Policy::evaluate as the command line uses it: an apply moves a package only forwards between
\* versions it can read, never one that is excluded, and never against the elevation rule of its
\* backend; for any list of holds, any settings and whatever the sources offer.
THEOREM MovesForwardOnlyHolds == Spec => MovesForwardOnly
<1> DEFINE Forward == \A pkg \in Packages : Moved(pkg) =>
               /\ IsUpgradeTo(ParseOf[installed[pkg]], ParseOf[installed'[pkg]])
               /\ ~\E p \in policy.exclude : FoldOf[p] \in NamesOf[pkg]
               /\ pkg \in ForbidsOf => ~policy.elevated
               /\ pkg \in RequiresOf => policy.elevated
<1>1. SessionInv /\ [Next]_vars => [Forward]_vars
  <2> SUFFICES ASSUME SessionInv, [Next]_vars, NEW pkg \in Packages, Moved(pkg)
               PROVE  /\ IsUpgradeTo(ParseOf[installed[pkg]], ParseOf[installed'[pkg]])
                      /\ ~\E p \in policy.exclude : FoldOf[p] \in NamesOf[pkg]
                      /\ pkg \in ForbidsOf => ~policy.elevated
                      /\ pkg \in RequiresOf => policy.elevated
    OBVIOUS
  <2> DEFINE c == CandidateFor(pkg, installed'[pkg])
  <2>1. /\ c.names = NamesOf[pkg] /\ c.forbids = (pkg \in ForbidsOf)
        /\ c.requires = (pkg \in RequiresOf)
        /\ c.installed = installed[pkg] /\ c.available = installed'[pkg]
    BY DEF CandidateFor
  <2>2. Actionable(policy, c)
    BY OnlyWhatIsLetThrough
  <2> HIDE DEF c
  <2>3. "" \notin c.names
    BY <2>1, PackagesAssumption
  <2>4. ~\E p \in policy.exclude : FoldOf[p] \in c.names
    BY <2>2, <2>3, WhatIsLetThrough DEF Excluded, Matches
  <2> QED
    BY <2>1, <2>2, <2>4, WhatIsLetThrough
<1> QED
  BY <1>1, SessionBegins, SessionKeeps, PTL DEF Spec, MovesForwardOnly

\* A hold speaks for a package by any of its names: what some hold speaks of moves only to a
\* version that one of its holds pins, however the list of holds came about.
THEOREM OnlyToAPinnedVersionHolds == Spec => OnlyToAPinnedVersion
<1> DEFINE Mine(pkg) == {h \in Range(policy.holds) : FoldOf[h.package] \in NamesOf[pkg]}
           Pinned == \A pkg \in Packages :
               LET mine == {h \in Range(policy.holds) : FoldOf[h.package] \in NamesOf[pkg]}
               IN  Moved(pkg) /\ mine # {} => \E h \in mine : h.pin = PinTo(installed'[pkg])
<1>1. SessionInv /\ [Next]_vars => [Pinned]_vars
  <2> SUFFICES ASSUME SessionInv, [Next]_vars, NEW pkg \in Packages, Moved(pkg), Mine(pkg) # {}
               PROVE  \E h \in Mine(pkg) : h.pin = PinTo(installed'[pkg])
    OBVIOUS
  <2> DEFINE c == CandidateFor(pkg, installed'[pkg])
  <2>1. c.names = NamesOf[pkg] /\ c.available = installed'[pkg]
    BY DEF CandidateFor
  <2>2. ~Held(policy, c)
    BY OnlyWhatIsLetThrough, WhatIsLetThrough
  <2> HIDE DEF c
  <2>3. policy.holds \in Seq(Hold)
    BY DEF SessionInv, Policies
  <2>4. PICK i \in DOMAIN policy.holds : FoldOf[policy.holds[i].package] \in NamesOf[pkg]
    BY DEF Range
  <2>5. Matches(policy.holds[i].package, c)
    BY <2>1, <2>4, PackagesAssumption DEF Matches
  <2>6. PICK k \in Deciding(policy.holds, c) : TRUE
    BY <2>3, <2>5, OneHoldDecides
  <2>7. /\ k \in DOMAIN policy.holds /\ FoldOf[policy.holds[k].package] \in NamesOf[pkg]
        /\ policy.holds[k].pin = PinTo(installed'[pkg])
    BY <2>1, <2>2, <2>6 DEF Deciding, Matches, Held
  <2>8. policy.holds[k] \in Mine(pkg)
    BY <2>7 DEF Range
  <2> QED
    BY <2>7, <2>8
<1> QED
  BY <1>1, SessionBegins, SessionKeeps, PTL DEF Spec, OnlyToAPinnedVersion

-----------------------------------------------------------------------------
(* The two loops of Version::compare.  Each goes through the positions     *)
(* until an answer is not "Equal"; what position i answers is cmp[i].      *)

LEMMA AnswersGoOn ==
    ASSUME NEW len \in Nat, NEW cmp
    PROVE  \E f : f = [i \in 1 .. (len + 1) |->
                          IF i > len THEN "Equal"
                          ELSE IF cmp[i] = "Equal" THEN f[i + 1] ELSE cmp[i]]
<1> DEFINE First(i, d) == d \in i .. len /\ cmp[d] # "Equal" /\ \A e \in i .. (d - 1) : cmp[e] = "Equal"
           g == [i \in 1 .. (len + 1) |->
                    IF \A d \in i .. len : cmp[d] = "Equal" THEN "Equal"
                    ELSE cmp[CHOOSE d : First(i, d)]]
<1>1. ASSUME NEW i \in 1 .. (len + 1), NEW d, First(i, d) PROVE g[i] = cmp[d]
  <2>1. First(i, CHOOSE e : First(i, e))
    BY <1>1
  <2> DEFINE e == CHOOSE k : First(i, k)
  <2>2. First(i, e)
    BY <2>1
  <2>3. e = d
    <3> HIDE DEF e
    <3>1. ~(e < d) /\ ~(d < e) /\ e \in Int /\ d \in Int
      BY <1>1, <2>2
    <3> QED
      BY <3>1
  <2> QED
    BY <1>1, <2>3
<1>2. ASSUME NEW i \in 1 .. len, cmp[i] = "Equal" PROVE g[i] = g[i + 1]
  <2>1. CASE \A d \in i .. len : cmp[d] = "Equal"
    <3>1. (\A d \in (i + 1) .. len : cmp[d] = "Equal") /\ i \in 1 .. (len + 1) /\ i + 1 \in 1 .. (len + 1)
      BY <2>1
    <3> QED
      BY <2>1, <3>1
  <2>2. CASE \E d \in i .. len : cmp[d] # "Equal"
    <3> DEFINE D == {d \in i .. len : cmp[d] # "Equal"}
    <3>1. D \in SUBSET Nat /\ D # {}
      BY <2>2
    <3> HIDE DEF D
    <3>2. PICK d \in D : \A k \in D : d <= k
      BY <3>1, LeastNatural
    <3> USE DEF D
    <3>3. First(i, d)
      BY <3>2
    <3>4. First(i + 1, d)
      BY <1>2, <3>3
    <3>5. i \in 1 .. (len + 1) /\ i + 1 \in 1 .. (len + 1)
      OBVIOUS
    <3> HIDE DEF First, g
    <3> QED
      BY <1>1, <3>3, <3>4, <3>5
  <2> QED
    BY <2>1, <2>2
<1>3. ASSUME NEW i \in 1 .. len, cmp[i] # "Equal" PROVE g[i] = cmp[i]
  <2>1. First(i, i) /\ i \in 1 .. (len + 1)
    BY <1>3
  <2> HIDE DEF First, g
  <2> QED
    BY <1>1, <2>1
<1>4. g[len + 1] = "Equal"
  BY SMT
<1>5. \A i \in 1 .. (len + 1) : i = len + 1 \/ (i \in 1 .. len /\ ~(i > len))
  OBVIOUS
<1>6. \A i \in 1 .. (len + 1) :
          g[i] = IF i > len THEN "Equal" ELSE IF cmp[i] = "Equal" THEN g[i + 1] ELSE cmp[i]
  <2> HIDE DEF g
  <2> QED
    BY <1>2, <1>3, <1>4, <1>5
<1>7. g = [i \in 1 .. (len + 1) |->
              IF i > len THEN "Equal" ELSE IF cmp[i] = "Equal" THEN g[i + 1] ELSE cmp[i]]
  <2>1. \E h : g = [i \in 1 .. (len + 1) |-> h[i]]
    <3>1. g = [i \in 1 .. (len + 1) |-> g[i]]
      OBVIOUS
    <3> HIDE DEF g
    <3> QED
      BY <3>1
  <2> HIDE DEF g
  <2> QED
    BY <1>6, <2>1
<1> HIDE DEF g
<1> QED
  BY <1>7

LEMMA AnswersUpToTheFirst ==
    ASSUME NEW len \in Nat, NEW cmp, NEW f,
           \A i \in 1 .. len : f[i] = IF cmp[i] = "Equal" THEN f[i + 1] ELSE cmp[i],
           NEW d \in 1 .. (len + 1), \A j \in 1 .. (d - 1) : cmp[j] = "Equal"
    PROVE  f[1] = f[d]
<1> DEFINE Bad == {k \in 1 .. d : f[1] # f[k]}
<1>1. Bad \in SUBSET Nat
  OBVIOUS
<1>2. CASE Bad # {}
  <2> HIDE DEF Bad
  <2>1. PICK m \in Bad : \A k \in Bad : m <= k
    BY <1>1, <1>2, LeastNatural
  <2> USE DEF Bad
  <2>2. m # 1 /\ m \in 1 .. d /\ f[1] # f[m]
    BY <2>1
  <2>3. m - 1 \in 1 .. d /\ m - 1 \notin Bad /\ m - 1 \in 1 .. len /\ m - 1 \in 1 .. (d - 1)
    BY <2>1, <2>2
  <2>4. f[1] = f[m - 1] /\ cmp[m - 1] = "Equal" /\ (m - 1) + 1 = m
    BY <2>2, <2>3
  <2>5. f[m - 1] = f[m]
    BY <2>3, <2>4
  <2> QED
    BY <2>2, <2>4, <2>5
<1> QED
  BY <1>2

\* f is what such a loop over len positions answers from each of them on.
Loops(f, cmp, len) ==
    \A i \in 1 .. (len + 1) :
        f[i] = IF i > len THEN "Equal" ELSE IF cmp[i] = "Equal" THEN f[i + 1] ELSE cmp[i]

NothingElse(answer, cmp, len) == answer = "Equal" /\ \A i \in 1 .. len : cmp[i] = "Equal"

TheFirstElse(answer, cmp, len, d) ==
    answer = cmp[d] /\ cmp[d] # "Equal" /\ \A j \in 1 .. (d - 1) : cmp[j] = "Equal"

\* What such a loop answers: "Equal", or what the first position says that says otherwise.
LEMMA TheLoopAnswers ==
    ASSUME NEW len \in Nat, NEW cmp, NEW f, Loops(f, cmp, len)
    PROVE  NothingElse(f[1], cmp, len) \/ \E d \in 1 .. len : TheFirstElse(f[1], cmp, len, d)
<1> USE DEF Loops, NothingElse, TheFirstElse
<1> DEFINE D == {i \in 1 .. len : cmp[i] # "Equal"}
<1>1. \A i \in 1 .. len : f[i] = IF cmp[i] = "Equal" THEN f[i + 1] ELSE cmp[i]
  <2>1. \A i \in 1 .. len : i \in 1 .. (len + 1) /\ ~(i > len)
    OBVIOUS
  <2> QED
    BY <2>1
<1>2. f[len + 1] = "Equal"
  <2>1. len + 1 \in 1 .. (len + 1) /\ len + 1 > len
    OBVIOUS
  <2> QED
    BY <2>1
<1>3. CASE D = {}
  <2>1. \A j \in 1 .. ((len + 1) - 1) : cmp[j] = "Equal"
    BY <1>3
  <2>2. len + 1 \in 1 .. (len + 1)
    OBVIOUS
  <2>3. f[1] = f[len + 1]
    BY <1>1, <2>1, <2>2, AnswersUpToTheFirst
  <2> QED
    BY <1>2, <1>3, <2>3
<1>4. CASE D # {}
  <2>1. D \in SUBSET Nat
    OBVIOUS
  <2> HIDE DEF D
  <2>2. PICK d \in D : \A k \in D : d <= k
    BY <1>4, <2>1, LeastNatural
  <2> USE DEF D
  <2>3. d \in 1 .. len /\ cmp[d] # "Equal" /\ d \in 1 .. (len + 1)
    BY <2>2
  <2>4. \A j \in 1 .. (d - 1) : cmp[j] = "Equal"
    BY <2>2
  <2>5. f[1] = f[d]
    BY <1>1, <2>3, <2>4, AnswersUpToTheFirst
  <2>6. f[d] = cmp[d]
    BY <1>1, <2>3
  <2> QED
    BY <2>3, <2>4, <2>5, <2>6
<1> QED
  BY <1>3, <1>4

LEMMA WhatSegmentsAnswer ==
    ASSUME NEW a \in Segment, NEW b \in Segment
    PROVE  /\ SegmentCmp(a, b) = "Equal" <=> a = b
           /\ SegmentCmp(a, b) = "Less" <=> SegmentLess(a, b)
           /\ SegmentCmp(a, b) \in {"Equal", "Less", "Greater"}
  BY SegmentOrder DEF SegmentCmp

LEMMA TheReleaseLoop ==
    ASSUME NEW a \in Version, NEW b \in Version
    PROVE  ReleaseLoop(a, b) = IF ReleaseLess(a, b) THEN "Less"
                               ELSE IF SameRelease(a, b) THEN "Equal" ELSE "Greater"
<1> DEFINE len == Longer(a.release, b.release)
           At(i) == SegmentCmp(ReleaseAt(a, i), ReleaseAt(b, i))
           cmp == [i \in 1 .. len |-> At(i)]
           Body(f) == [i \in 1 .. (len + 1) |->
                          IF i > len THEN "Equal"
                          ELSE IF At(i) = "Equal" THEN f[i + 1] ELSE At(i)]
           from == CHOOSE f : f = Body(f)
<1>1. len \in Nat
  BY VersionFields DEF Longer
<1>2. ReleaseLoop(a, b) = from[1]
  BY DEF ReleaseLoop
<1>3. \A i \in 1 .. len : ReleaseAt(a, i) \in Segment /\ ReleaseAt(b, i) \in Segment
  BY <1>1, ReleaseAtType
<1> HIDE DEF len, At
<1>4. \A i \in 1 .. len : cmp[i] = At(i)
  OBVIOUS
<1>5. \A i \in 1 .. (len + 1) : ~(i > len) => i \in 1 .. len
  BY <1>1
<1> HIDE DEF cmp
<1>6. \E f : f = Body(f)
  <2>1. PICK f : f = [i \in 1 .. (len + 1) |->
                         IF i > len THEN "Equal"
                         ELSE IF cmp[i] = "Equal" THEN f[i + 1] ELSE cmp[i]]
    BY <1>1, AnswersGoOn
  <2>2. f = Body(f)
    BY <1>4, <1>5, <2>1
  <2> QED
    BY <2>2
<1>7. from = Body(from)
  BY <1>6
<1> HIDE DEF from
<1>8. Loops(from, cmp, len)
  BY <1>4, <1>5, <1>7 DEF Loops
<1> HIDE DEF Body
<1>9. /\ \A i \in 1 .. len : cmp[i] = "Equal" <=> ReleaseAt(a, i) = ReleaseAt(b, i)
      /\ \A i \in 1 .. len : cmp[i] = "Less" <=> SegmentLess(ReleaseAt(a, i), ReleaseAt(b, i))
      /\ \A i \in 1 .. len : cmp[i] \in {"Equal", "Less", "Greater"}
  BY <1>3, <1>4, WhatSegmentsAnswer DEF At
<1>10. CASE NothingElse(from[1], cmp, len)
  <2>1. SameRelease(a, b)
    BY <1>9, <1>10 DEF SameRelease, NothingElse, len
  <2> QED
    BY <1>2, <1>10, <2>1, ReleaseLessIrreflexive DEF NothingElse
<1>11. ASSUME NEW d \in 1 .. len, TheFirstElse(from[1], cmp, len, d)
       PROVE  from[1] = IF ReleaseLess(a, b) THEN "Less"
                        ELSE IF SameRelease(a, b) THEN "Equal" ELSE "Greater"
  <2> USE DEF TheFirstElse
  <2>1. ~SameRelease(a, b)
    BY <1>9, <1>11 DEF SameRelease, len
  <2>2. \A j \in 1 .. (d - 1) : j \in 1 .. len /\ ReleaseAt(a, j) = ReleaseAt(b, j)
    BY <1>1, <1>9, <1>11
  <2>3. cmp[d] = "Less" => ReleaseLess(a, b)
    BY <1>9, <2>2 DEF ReleaseLess, len
  <2>4. ASSUME ReleaseLess(a, b) PROVE cmp[d] = "Less"
    <3>1. PICK i \in 1 .. len : /\ \A j \in 1 .. (i - 1) : ReleaseAt(a, j) = ReleaseAt(b, j)
                                /\ SegmentLess(ReleaseAt(a, i), ReleaseAt(b, i))
      BY <2>4 DEF ReleaseLess, len
    <3>2. ~(d < i)
      BY <1>1, <1>9, <1>11, <3>1
    <3>3. ~(i < d)
      <4>1. i < d => i \in 1 .. (d - 1)
        BY <1>1
      <4> QED
        BY <1>3, <2>2, <3>1, <4>1, SegmentOrder
    <3>4. i = d
      BY <1>1, <3>2, <3>3
    <3> QED
      BY <1>9, <3>1, <3>4
  <2> QED
    BY <1>9, <1>11, <2>1, <2>3, <2>4
<1> QED
  BY <1>1, <1>2, <1>8, <1>10, <1>11, TheLoopAnswers

\* Of two pre-release chains position i says this.
ChainCmp(p, q, i) ==
    IF i > Len(q) THEN "Greater" ELSE IF i > Len(p) THEN "Less" ELSE SegmentCmp(p[i], q[i])

LEMMA WhatChainsAnswer ==
    ASSUME NEW p \in Seq(Segment), NEW q \in Seq(Segment), NEW i \in 1 .. Longer(p, q)
    PROVE  /\ ChainCmp(p, q, i) = "Equal" <=> ChainAt(p, i) = ChainAt(q, i)
           /\ ChainCmp(p, q, i) = "Less" <=> StepLess(ChainAt(p, i), ChainAt(q, i))
           /\ ChainCmp(p, q, i) \in {"Equal", "Less", "Greater"}
<1>1. Len(p) \in Nat /\ Len(q) \in Nat /\ i \in Nat \ {0} /\ ~(i > Len(p) /\ i > Len(q))
  BY DEF Longer
<1>2. End \notin Segment
  BY DEF End, Segment
<1>3. i <= Len(p) => p[i] \in Segment /\ ChainAt(p, i) = p[i]
  BY <1>1 DEF ChainAt
<1>4. i <= Len(q) => q[i] \in Segment /\ ChainAt(q, i) = q[i]
  BY <1>1 DEF ChainAt
<1>5. (i > Len(p) => ChainAt(p, i) = End) /\ (i > Len(q) => ChainAt(q, i) = End)
  BY <1>1 DEF ChainAt
<1>6. CASE i > Len(q)
  BY <1>1, <1>2, <1>3, <1>5, <1>6 DEF ChainCmp, StepLess
<1>7. CASE i > Len(p)
  BY <1>1, <1>2, <1>4, <1>5, <1>7 DEF ChainCmp, StepLess
<1>8. CASE i <= Len(p) /\ i <= Len(q)
  <2>1. ChainCmp(p, q, i) = SegmentCmp(p[i], q[i])
    BY <1>1, <1>8 DEF ChainCmp
  <2>2. p[i] \in Segment /\ q[i] \in Segment /\ ChainAt(p, i) = p[i] /\ ChainAt(q, i) = q[i]
    BY <1>3, <1>4, <1>8
  <2>3. StepLess(ChainAt(p, i), ChainAt(q, i)) <=> SegmentLess(p[i], q[i])
    BY <1>2, <2>2 DEF StepLess
  <2> QED
    BY <2>1, <2>2, <2>3, WhatSegmentsAnswer
<1> QED
  BY <1>1, <1>6, <1>7, <1>8

LEMMA ThePreReleaseLoop ==
    ASSUME NEW p \in Seq(Segment), NEW q \in Seq(Segment)
    PROVE  PreLoop(p, q) = IF ChainLess(p, q) THEN "Less" ELSE IF p = q THEN "Equal" ELSE "Greater"
<1> DEFINE len == Longer(p, q)
           cmp == [i \in 1 .. len |-> ChainCmp(p, q, i)]
           Body(f) == [i \in 1 .. (len + 1) |->
                          CASE i > len                   -> "Equal"
                            [] i <= len /\ i > Len(q)    -> "Greater"
                            [] i <= len /\ i > Len(p)    -> "Less"
                            [] OTHER -> LET c == SegmentCmp(p[i], q[i])
                                        IN  IF c = "Equal" THEN f[i + 1] ELSE c]
           from == CHOOSE f : f = Body(f)
           Turned(f, i) == IF i > len THEN "Equal" ELSE IF cmp[i] = "Equal" THEN f[i + 1] ELSE cmp[i]
<1>1. len \in Nat /\ Len(p) \in Nat /\ Len(q) \in Nat
  BY DEF Longer
<1>2. PreLoop(p, q) = from[1]
  BY DEF PreLoop
<1>3. \A i \in 1 .. len : ~(i > Len(p) /\ i > Len(q))
  BY <1>1 DEF Longer
<1> HIDE DEF len
<1>4. \A i \in 1 .. len : cmp[i] = ChainCmp(p, q, i)
  OBVIOUS
<1>5. \A i \in 1 .. (len + 1) : IF i > len THEN i = len + 1 ELSE i \in 1 .. len
  BY <1>1
<1> HIDE DEF cmp
<1>6. ASSUME NEW f, NEW i \in 1 .. (len + 1) PROVE Body(f)[i] = Turned(f, i)
  <2>1. CASE i > len
    BY <1>1, <2>1
  <2>2. CASE i <= len /\ i > Len(q)
    <3>1. cmp[i] = "Greater"
      BY <1>1, <1>4, <2>2 DEF ChainCmp
    <3> QED
      BY <1>1, <1>3, <2>2, <3>1
  <2>3. CASE i <= len /\ i > Len(p)
    <3>1. cmp[i] = "Less"
      BY <1>1, <1>3, <1>4, <2>3 DEF ChainCmp
    <3> QED
      BY <1>1, <1>3, <2>3, <3>1
  <2>4. CASE i <= len /\ i <= Len(p) /\ i <= Len(q)
    <3>1. cmp[i] = SegmentCmp(p[i], q[i])
      BY <1>1, <1>4, <2>4 DEF ChainCmp
    <3> QED
      BY <1>1, <2>4, <3>1
  <2> QED
    BY <1>1, <2>1, <2>2, <2>3, <2>4
<1>7. ASSUME NEW f PROVE Body(f) = [i \in 1 .. (len + 1) |-> Turned(f, i)]
  <2>1. Body(f) = [i \in 1 .. (len + 1) |-> Body(f)[i]]
    OBVIOUS
  <2> HIDE DEF Body
  <2> QED
    BY <1>6, <2>1
<1>8. \E f : f = Body(f)
  <2>1. PICK f : f = [i \in 1 .. (len + 1) |->
                         IF i > len THEN "Equal"
                         ELSE IF cmp[i] = "Equal" THEN f[i + 1] ELSE cmp[i]]
    BY <1>1, AnswersGoOn
  <2>2. f = Body(f)
    <3> HIDE DEF Body
    <3> QED
      BY <1>7, <2>1
  <2> HIDE DEF Body
  <2> QED
    BY <2>2
<1> HIDE DEF Body
<1>9. from = Body(from)
  BY <1>8
<1> HIDE DEF from
<1>10. Loops(from, cmp, len)
  BY <1>6, <1>9 DEF Loops
<1>11. /\ \A i \in 1 .. len : cmp[i] = "Equal" <=> ChainAt(p, i) = ChainAt(q, i)
       /\ \A i \in 1 .. len : cmp[i] = "Less" <=> StepLess(ChainAt(p, i), ChainAt(q, i))
       /\ \A i \in 1 .. len : cmp[i] \in {"Equal", "Less", "Greater"}
  BY <1>4, WhatChainsAnswer DEF len
<1>12. CASE NothingElse(from[1], cmp, len)
  <2>1. \A i \in Nat \ {0} : i > len => ChainAt(p, i) = End /\ ChainAt(q, i) = End
    BY <1>1, ChainAtType DEF len, Longer
  <2>2. \A i \in Nat \ {0} : ChainAt(p, i) = ChainAt(q, i)
    BY <1>1, <1>11, <1>12, <2>1 DEF NothingElse
  <2>3. p = q
    BY <2>2, ChainForks
  <2> QED
    BY <1>2, <1>12, <2>3, ChainLessIrreflexive DEF NothingElse
<1>13. ASSUME NEW d \in 1 .. len, TheFirstElse(from[1], cmp, len, d)
       PROVE  from[1] = IF ChainLess(p, q) THEN "Less" ELSE IF p = q THEN "Equal" ELSE "Greater"
  <2> USE DEF TheFirstElse
  <2>1. p # q
    BY <1>11, <1>13
  <2>2. \A j \in 1 .. (d - 1) : j \in 1 .. len /\ ChainAt(p, j) = ChainAt(q, j)
    BY <1>1, <1>11, <1>13
  <2>3. cmp[d] = "Less" => ChainLess(p, q)
    BY <1>11, <2>2 DEF ChainLess, len
  <2>4. ASSUME ChainLess(p, q) PROVE cmp[d] = "Less"
    <3>1. PICK i \in 1 .. len : /\ \A j \in 1 .. (i - 1) : ChainAt(p, j) = ChainAt(q, j)
                                /\ StepLess(ChainAt(p, i), ChainAt(q, i))
      BY <2>4 DEF ChainLess, len
    <3>2. ~(d < i)
      BY <1>1, <1>11, <1>13, <3>1
    <3>3. ~(i < d)
      <4>1. i < d => i \in 1 .. (d - 1)
        BY <1>1
      <4>2. ChainAt(p, i) \in Segment \union {End}
        BY <1>1, ChainAtType
      <4> QED
        BY <2>2, <3>1, <4>1, <4>2, StepOrder
    <3>4. i = d
      BY <1>1, <3>2, <3>3
    <3> QED
      BY <1>11, <3>1, <3>4
  <2> QED
    BY <1>11, <1>13, <2>1, <2>3, <2>4
<1> QED
  BY <1>1, <1>2, <1>10, <1>12, <1>13, TheLoopAnswers

\* The position-wise ordering of module Versions, with which everything else is proved, is what
\* the two loops of Version::compare (version.rs) compute, early returns included, for versions
\* of any length.
THEOREM TheLoopsCompare ==
    ASSUME NEW a \in Version, NEW b \in Version
    PROVE  Compare(a, b) = LoopCompare(a, b)
<1> DEFINE r == ReleaseLoop(a, b)
<1>1. r = IF ReleaseLess(a, b) THEN "Less" ELSE IF SameRelease(a, b) THEN "Equal" ELSE "Greater"
  BY TheReleaseLoop
<1>2. PreLoop(a.pre, b.pre) =
          IF ChainLess(a.pre, b.pre) THEN "Less" ELSE IF a.pre = b.pre THEN "Equal" ELSE "Greater"
  BY VersionFields, ThePreReleaseLoop
<1>3. SameRelease(a, b) => ~ReleaseLess(a, b)
  BY ReleaseLessIrreflexive
<1>4. LoopCompare(a, b) =
          IF ~a.known \/ ~b.known THEN "None"
          ELSE IF r # "Equal" THEN r
          ELSE IF a.pre = <<>> /\ b.pre = <<>> THEN "Equal"
          ELSE IF a.pre = <<>> THEN "Greater"
          ELSE IF b.pre = <<>> THEN "Less" ELSE PreLoop(a.pre, b.pre)
  BY DEF LoopCompare
<1>5. a.known \in BOOLEAN /\ b.known \in BOOLEAN
  BY VersionFields
<1> HIDE DEF r
<1> QED
  BY <1>1, <1>2, <1>3, <1>4, <1>5 DEF Compare, Less, Same, PreLess

\* And so it is wherever a chain of upgrades may lead, against whatever a source may offer.
THEOREM OrderingIsTheLoopHolds == ChainSpec => []OrderingIsTheLoop
<1>1. ChainTypes => OrderingIsTheLoop
  BY OffersAssumption, TheLoopsCompare DEF ChainTypes, OrderingIsTheLoop
<1> QED
  BY <1>1, ChainTypeOK, PTL
=============================================================================
