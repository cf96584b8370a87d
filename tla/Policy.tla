------------------------------- MODULE Policy -------------------------------
(***************************************************************************)
(* The safety policy, crates/odysync-core/src/policy.rs: which of the      *)
(* updates a source offers may run.  Pure: a policy and a candidate in, a  *)
(* verdict out.                                                            *)
(*                                                                         *)
(* Text is abstracted to what the rules tell apart.  Raws are the version  *)
(* strings sources report and ParseOf what Version::parse makes of each.   *)
(* Patterns are the strings a user may type and FoldOf their trimmed,      *)
(* lower-cased form, "" when nothing is left.                              *)
(***************************************************************************)
EXTENDS Versions

CONSTANTS Raws, ParseOf, Patterns, FoldOf

ASSUME ParseAssumption == ParseOf \in [Raws -> Version]
ASSUME FoldAssumption  == DOMAIN FoldOf = Patterns

NoPin == [pin |-> FALSE]
PinTo(raw) == [pin |-> TRUE, to |-> raw]
Pins == {NoPin} \union {PinTo(raw) : raw \in Raws}

Hold == [package : Patterns, pin : Pins]

\* A candidate answers to its native id, its backend:native id and, when it has
\* one, its alias with and without the backend: the set `names`, folded.
\* `forbids` and `requires` are the two elevation rules of its backend.
Candidate == [names : SUBSET {FoldOf[p] : p \in Patterns},
              forbids : BOOLEAN, requires : BOOLEAN,
              installed : Raws, available : Raws]

-----------------------------------------------------------------------------
\* Policy::matches.  A blank pattern matches nothing, whatever a package is called.
Matches(pattern, c) == FoldOf[pattern] # "" /\ FoldOf[pattern] \in c.names

\* The hold that decides is the first in the list that matches.
Deciding(holds, c) ==
    {i \in DOMAIN holds : /\ Matches(holds[i].package, c)
                          /\ \A j \in 1..(i - 1) : ~Matches(holds[j].package, c)}

Excluded(policy, c) == \E p \in policy.exclude : Matches(p, c)

\* Mutant: any pin is as good as the right one.
HeldUnlessPinned(policy, c) ==
    \E i \in Deciding(policy.holds, c) : policy.holds[i].pin = NoPin

Held(policy, c) ==
    \E i \in Deciding(policy.holds, c) : policy.holds[i].pin # PinTo(c.available)

\* Mutant: with require_known off, a version nobody can read is taken for an upgrade.
EvaluateTrustingly(policy, c) ==
    LET installed == ParseOf[c.installed]
        available == ParseOf[c.available]
    IN  IF Excluded(policy, c)                          THEN "Excluded"
        ELSE IF Held(policy, c)                         THEN "Held"
        ELSE IF c.forbids /\ policy.elevated            THEN "RequiresUnelevated"
        ELSE IF c.requires /\ ~policy.elevated          THEN "RequiresElevation"
        ELSE IF policy.require_known /\ ~(installed.known /\ available.known)
                                                        THEN "UnknownInstalledVersion"
        ELSE IF Compare(installed, available) \in {"Equal", "Greater"} THEN "NotAnUpgrade"
        ELSE IF policy.stable_only /\ IsPrerelease(available) THEN "PrereleaseBlocked"
        ELSE "None"

\* Policy::evaluate: the first rule that blocks, or "None" to let it through.
Evaluate(policy, c) ==
    LET installed == ParseOf[c.installed]
        available == ParseOf[c.available]
    IN  IF Excluded(policy, c)                          THEN "Excluded"
        ELSE IF Held(policy, c)                         THEN "Held"
        ELSE IF c.forbids /\ policy.elevated            THEN "RequiresUnelevated"
        ELSE IF c.requires /\ ~policy.elevated          THEN "RequiresElevation"
        ELSE IF policy.require_known /\ ~installed.known THEN "UnknownInstalledVersion"
        ELSE IF policy.require_known /\ ~available.known THEN "UnknownAvailableVersion"
        ELSE IF ~IsUpgradeTo(installed, available)      THEN "NotAnUpgrade"
        ELSE IF policy.stable_only /\ IsPrerelease(available) THEN "PrereleaseBlocked"
        ELSE "None"

Actionable(policy, c) == Evaluate(policy, c) = "None"

\* Policy::plan keeps the order of the candidates.
Plan(policy, candidates) ==
    [i \in DOMAIN candidates |->
        [candidate |-> candidates[i], blocked_by |-> Evaluate(policy, candidates[i])]]
=============================================================================
