------------------------------ MODULE Versions ------------------------------
(***************************************************************************)
(* The version algebra of crates/odysync-core/src/version.rs: how two      *)
(* parsed versions are ordered, and when one is an upgrade of the other.   *)
(*                                                                         *)
(* A segment is a number or a word.  A word is represented by its rank in  *)
(* dictionary order, which is all that Segment::cmp looks at; the ranks of *)
(* the words that mark a pre-release are the constant PreTags.  The loops  *)
(* of Version::compare return at the first position where the two versions *)
(* differ, so each is written as the existence of such a position.         *)
(***************************************************************************)
EXTENDS Integers, Sequences

CONSTANT PreTags   \* ranks of "alpha", "beta", "rc", "nightly", ...

ASSUME PreTagsAssumption == PreTags \subseteq Nat

Segment == [kind : {"num", "text"}, rank : Nat]

Num(n)  == [kind |-> "num",  rank |-> n]
Text(t) == [kind |-> "text", rank |-> t]

\* Segment::cmp: numbers by value, words by spelling, any number above any word.
SegmentLess(a, b) ==
    \/ a.kind = b.kind /\ a.rank < b.rank
    \/ a.kind = "text" /\ b.kind = "num"

\* Version::Parsed and Version::Unknown.  parse() only builds a Parsed version
\* when the release has a numeric segment.
Version == [known : BOOLEAN, release : Seq(Segment), pre : Seq(Segment)]

Unknown == [known |-> FALSE, release |-> <<>>, pre |-> <<>>]

Parsed(release, pre) == [known |-> TRUE, release |-> release, pre |-> pre]

Parseable(release) == \E i \in DOMAIN release : release[i].kind = "num"

-----------------------------------------------------------------------------
(* Ordering.  A release is read as if zero-padded, so 1.2 = 1.2.0.         *)

\* Mutant: the loops stop with the shorter of the two.
Shorter(s, t) == IF Len(s) <= Len(t) THEN Len(s) ELSE Len(t)

Longer(s, t) == IF Len(s) >= Len(t) THEN Len(s) ELSE Len(t)

ReleaseAt(v, i) == IF i <= Len(v.release) THEN v.release[i] ELSE Num(0)

ReleaseLess(a, b) ==
    \E i \in 1..Longer(a.release, b.release) :
        /\ \A j \in 1..(i - 1) : ReleaseAt(a, j) = ReleaseAt(b, j)
        /\ SegmentLess(ReleaseAt(a, i), ReleaseAt(b, i))

SameRelease(a, b) ==
    \A i \in 1..Longer(a.release, b.release) : ReleaseAt(a, i) = ReleaseAt(b, i)

\* Two non-empty pre-release chains: the first difference decides, and of two
\* chains where one continues the other, the longer is the later.
End == [kind |-> "end", rank |-> 0]

ChainAt(p, i) == IF i <= Len(p) THEN p[i] ELSE End

StepLess(s, t) == (s = End /\ t # End) \/ (s # End /\ t # End /\ SegmentLess(s, t))

ChainLess(p, q) ==
    \E i \in 1..Longer(p, q) :
        /\ \A j \in 1..(i - 1) : ChainAt(p, j) = ChainAt(q, j)
        /\ StepLess(ChainAt(p, i), ChainAt(q, i))

\* Mutant: a pre-release counts as later than its release.
PreLessSwapped(a, b) ==
    \/ a.pre = <<>> /\ b.pre # <<>>
    \/ a.pre # <<>> /\ b.pre # <<>> /\ ChainLess(a.pre, b.pre)

\* With equal releases, having no pre-release is the later version.
PreLess(a, b) ==
    \/ a.pre # <<>> /\ b.pre = <<>>
    \/ a.pre # <<>> /\ b.pre # <<>> /\ ChainLess(a.pre, b.pre)

Less(a, b) == ReleaseLess(a, b) \/ (SameRelease(a, b) /\ PreLess(a, b))

Same(a, b) == SameRelease(a, b) /\ a.pre = b.pre

\* Version::compare.  "None" means "refuse to act", never "equal".
Compare(a, b) ==
    IF ~(a.known /\ b.known) THEN "None"
    ELSE IF Less(a, b) THEN "Less"
    ELSE IF Same(a, b) THEN "Equal" ELSE "Greater"

\* Version::is_upgrade_to: the only path to "yes, update".
IsUpgradeTo(installed, available) == Compare(installed, available) = "Less"

\* Version::is_prerelease, consulted by stable_only.
IsPrerelease(v) ==
    v.known /\ \E i \in DOMAIN v.pre : v.pre[i].kind = "text" /\ v.pre[i].rank \in PreTags
=============================================================================
