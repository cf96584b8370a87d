----------------------------- MODULE CliSession -----------------------------
(***************************************************************************)
(* A machine looked after from the command line: `odysync hold`, `unhold`  *)
(* and `apply [--only ..] [--profile ..]`, each one process that loads the *)
(* config, does its work and exits (crates/odysync-cli/src/main.rs).       *)
(*                                                                         *)
(* Sources are assumed to install what they are asked to; module Runner is *)
(* about what happens when they do not.  One command runs at a time;       *)
(* module ConfigStore is about what happens when two do.                   *)
(***************************************************************************)
EXTENDS Policy, FiniteSets, Functions

CONSTANTS
    Packages,      \* what is installed on the machine
    NamesOf,       \* the folded names each package answers to in a policy
    FilterNamesOf, \* those --only and --profile know: all but backend:alias
    LowerOf,       \* a pattern lower-cased but not trimmed
    ForbidsOf, RequiresOf,     \* packages whose backend forbids / requires elevation
    Profiles,      \* the named profiles of the config: name -> set of patterns
    Settings,      \* what the other settings may be edited to
    MaxHolds       \* bound on the length of the list of holds

ASSUME PackagesAssumption ==
    /\ NamesOf \in [Packages -> SUBSET {FoldOf[p] : p \in Patterns}]
    /\ FilterNamesOf \in [Packages -> SUBSET {FoldOf[p] : p \in Patterns}]
    /\ \A pkg \in Packages : FilterNamesOf[pkg] \subseteq NamesOf[pkg]
    /\ \A pkg \in Packages : "" \notin NamesOf[pkg]
    /\ DOMAIN LowerOf = Patterns
    /\ ForbidsOf \subseteq Packages /\ RequiresOf \subseteq Packages
    /\ \A name \in DOMAIN Profiles : Profiles[name] \subseteq Patterns
    /\ Settings \subseteq [exclude : SUBSET Patterns, stable_only : BOOLEAN,
                           require_known : BOOLEAN, elevated : BOOLEAN]

VARIABLES
    policy,        \* config.policy, as every command loads it
    installed,     \* the raw version of each package on the machine
    ran            \* the command that made the last step

vars == <<policy, installed, ran>>

NoProfile == "none"

CandidateFor(pkg, raw) ==
    [names |-> NamesOf[pkg], forbids |-> pkg \in ForbidsOf, requires |-> pkg \in RequiresOf,
     installed |-> installed[pkg], available |-> raw]

-----------------------------------------------------------------------------
(* hold and unhold rewrite the list: an entry with the same spelling up to *)
(* case is replaced, and the new one goes last.                            *)

\* Mutant: spellings are compared exactly.
WithoutExactly(holds, pattern) == SelectSeq(holds, LAMBDA h : h.package # pattern)

Without(holds, pattern) ==
    LET kept[n \in 0 .. Len(holds)] ==
            IF n = 0 THEN <<>>
            ELSE IF LowerOf[holds[n].package] = LowerOf[pattern] THEN kept[n - 1]
            ELSE Append(kept[n - 1], holds[n])
    IN  kept[Len(holds)]

HoldPackage(pattern, pin) ==
    LET kept == Without(policy.holds, pattern)
    IN  /\ Len(kept) < MaxHolds
        /\ policy' = [policy EXCEPT !.holds = Append(kept, [package |-> pattern, pin |-> pin])]
        /\ ran' = "hold"
        /\ UNCHANGED installed

Unhold(pattern) ==
    /\ Without(policy.holds, pattern) # policy.holds     \* else "was not held"
    /\ policy' = [policy EXCEPT !.holds = Without(policy.holds, pattern)]
    /\ ran' = "unhold"
    /\ UNCHANGED installed

\* The config file is also edited by hand and from the settings page, and the
\* next command may run with other rights.
EditSettings(s) ==
    /\ policy' = [policy EXCEPT !.exclude = s.exclude, !.stable_only = s.stable_only,
                                !.require_known = s.require_known, !.elevated = s.elevated]
    /\ ran' = "edit"
    /\ UNCHANGED installed

-----------------------------------------------------------------------------
(* apply: scan, narrow to the filters, plan, install what the plan allows. *)

\* resolve_filters: the patterns given with --only and those of the profile;
\* with none at all there is no restriction.  A profile that does not exist is an
\* error before anything is planned.
Filters(only, profile) ==
    only \union (IF profile \in DOMAIN Profiles THEN Profiles[profile] ELSE {})

Narrowed(filters) ==
    {pkg \in Packages : filters = {} \/ \E f \in filters : FoldOf[f] \in FilterNamesOf[pkg]}

Apply(only, profile, offers) ==
    LET chosen == Narrowed(Filters(only, profile))
        lands(pkg) == pkg \in chosen /\ Actionable(policy, CandidateFor(pkg, offers[pkg]))
    IN  /\ installed' = [pkg \in Packages |-> IF lands(pkg) THEN offers[pkg] ELSE installed[pkg]]
        /\ ran' = "apply"
        /\ UNCHANGED policy

\* Packages also change outside Odysync: an installer run by hand, an uninstall
\* and reinstall, a registry entry that can no longer be read.
ChangedOutside(pkg, raw) ==
    /\ installed' = [installed EXCEPT ![pkg] = raw]
    /\ ran' = "outside"
    /\ UNCHANGED policy

-----------------------------------------------------------------------------
Init ==
    /\ policy = [stable_only |-> TRUE, require_known |-> TRUE, exclude |-> {},
                 holds |-> <<>>, elevated |-> FALSE]
    /\ installed \in [Packages -> Raws]
    /\ ran = "none"

Next ==
    \/ \E pattern \in Patterns, pin \in Pins : HoldPackage(pattern, pin)
    \/ \E pattern \in Patterns : Unhold(pattern)
    \/ \E s \in Settings : EditSettings(s)
    \/ \E only \in {{}} \union {{p} : p \in Patterns}, profile \in {NoProfile} \union DOMAIN Profiles,
          offers \in [Packages -> Raws] : Apply(only, profile, offers)
    \/ \E pkg \in Packages, raw \in Raws : ChangedOutside(pkg, raw)

Spec == Init /\ [][Next]_vars

-----------------------------------------------------------------------------
\* The types; and no two holds differ only in case, so that one `unhold X` lifts whatever
\* X was held as.
TypeOK ==
    /\ policy.holds \in Seq(Hold)
    /\ \A i, j \in DOMAIN policy.holds :
           LowerOf[policy.holds[i].package] = LowerOf[policy.holds[j].package] => i = j
    /\ policy.exclude \subseteq Patterns
    /\ {policy.stable_only, policy.require_known, policy.elevated} \subseteq BOOLEAN
    /\ installed \in [Packages -> Raws]

Moved(pkg) == ran' = "apply" /\ installed'[pkg] # installed[pkg]

\* However the holds list was built up and whatever else is switched off, an
\* apply moves a package only forwards between versions it can read, never one
\* that is excluded, and never against the elevation rule of its backend.
MovesForwardOnly ==
    [][\A pkg \in Packages : Moved(pkg) =>
          /\ IsUpgradeTo(ParseOf[installed[pkg]], ParseOf[installed'[pkg]])
          /\ ~\E p \in policy.exclude : FoldOf[p] \in NamesOf[pkg]
          /\ pkg \in ForbidsOf => ~policy.elevated
          /\ pkg \in RequiresOf => policy.elevated]_vars

\* A package some hold speaks of moves only to a version one of its holds pins,
\* by whichever of its names each hold was given.
OnlyToAPinnedVersion ==
    [][\A pkg \in Packages :
          LET mine == {h \in Range(policy.holds) : FoldOf[h.package] \in NamesOf[pkg]}
          IN  Moved(pkg) /\ mine # {} => \E h \in mine : h.pin = PinTo(installed'[pkg])]_vars
=============================================================================
