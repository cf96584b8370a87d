--------------------------- MODULE MCUpgradeChain ---------------------------
(* Small instance of UpgradeChain, and the loops of Version::compare as     *)
(* written, for the ordering to be checked against.                         *)
EXTENDS UpgradeChain

MCPreTags == {1}                       \* Text(1) is "beta", Text(2) is "update"

Pieces   == {Num(0), Num(1), Text(1)}
Releases == {r \in {<<s>> : s \in Pieces} \union (Pieces \X Pieces) : Parseable(r)}
            \union {<<Num(2)>>, <<Num(1), Num(0), Num(0)>>, <<Num(1), Num(0), Text(1)>>}
Chains   == {<<>>, <<Text(1)>>, <<Text(2)>>, <<Text(1), Num(0)>>, <<Text(1), Num(1)>>}

MCOffers == {Parsed(r, p) : r \in Releases, p \in Chains} \union {Unknown}

-----------------------------------------------------------------------------
SegmentCmp(a, b) ==
    IF a = b THEN "Equal" ELSE IF SegmentLess(a, b) THEN "Less" ELSE "Greater"

ReleaseLoop(a, b) ==
    LET len == Longer(a.release, b.release)
        from[i \in 1..(len + 1)] ==
            IF i > len THEN "Equal"
            ELSE LET c == SegmentCmp(ReleaseAt(a, i), ReleaseAt(b, i))
                 IN  IF c = "Equal" THEN from[i + 1] ELSE c
    IN  from[1]

PreLoop(p, q) ==
    LET len == Longer(p, q)
        from[i \in 1..(len + 1)] ==
            CASE i > len                   -> "Equal"
              [] i <= len /\ i > Len(q)    -> "Greater"
              [] i <= len /\ i > Len(p)    -> "Less"
              [] OTHER -> LET c == SegmentCmp(p[i], q[i])
                          IN  IF c = "Equal" THEN from[i + 1] ELSE c
    IN  from[1]

LoopCompare(a, b) ==
    LET r == ReleaseLoop(a, b)
    IN  IF ~a.known \/ ~b.known   THEN "None"
        ELSE IF r # "Equal"       THEN r
        ELSE IF a.pre = <<>> /\ b.pre = <<>> THEN "Equal"
        ELSE IF a.pre = <<>>      THEN "Greater"
        ELSE IF b.pre = <<>>      THEN "Less"
        ELSE PreLoop(a.pre, b.pre)

\* The ordering the policy acts on is the one the source's two loops compute,
\* early returns included: for the installed version of every reachable state
\* and every version a source may offer.
OrderingIsTheLoop ==
    \A v \in Offers : /\ Compare(version, v) = LoopCompare(version, v)
                      /\ Compare(v, version) = LoopCompare(v, version)
=============================================================================
