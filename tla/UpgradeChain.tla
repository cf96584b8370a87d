---------------------------- MODULE UpgradeChain ----------------------------
(***************************************************************************)
(* One package through any number of scan-and-apply cycles.  Whatever      *)
(* versions a source offers, in whatever order, rule 5 of Policy::evaluate *)
(* lets one through only when is_upgrade_to says so.                       *)
(***************************************************************************)
EXTENDS Versions, FiniteSets

CONSTANTS
    Offers,        \* versions a source may offer, Unknown among them
    MaxUpgrades    \* bound on the length of a history

ASSUME OffersAssumption == Offers \subseteq Version
ASSUME MaxUpgradesAssumption == MaxUpgrades \in Nat

VARIABLES
    version,       \* the version on the machine
    passed         \* every version the package was upgraded from

chainVars == <<version, passed>>

ChainInit ==
    /\ version \in Offers
    /\ passed = {}

\* A cycle in which the policy lets `available` through and it lands.
Upgrade(available) ==
    /\ Cardinality(passed) < MaxUpgrades
    /\ IsUpgradeTo(version, available)
    /\ version' = available
    /\ passed' = passed \union {version}

ChainNext == \E available \in Offers : Upgrade(available)

ChainSpec == ChainInit /\ [][ChainNext]_chainVars

-----------------------------------------------------------------------------
\* The types, which the proofs begin with.
ChainTypes ==
    /\ version \in Offers
    /\ passed \subseteq Offers

\* However many updates a package takes, it never returns to a version it was
\* upgraded from, nor to one that compares equal to it: no sequence of offers
\* walks the order of Version::compare in a circle.
NeverReturns ==
    \A v \in passed : IsUpgradeTo(v, version)
=============================================================================
