---------------------------- MODULE MCDecisions -----------------------------
(***************************************************************************)
(* Small instances of the two models of what is let through, which share   *)
(* no state: one package through a chain of upgrades (UpgradeChain), and a *)
(* session of the command line with its holds (CliSession).  A behaviour   *)
(* picks one of them; the other stays as it begins.                        *)
(***************************************************************************)
EXTENDS MCUpgradeChain, CliSession

VARIABLE model

MCRaws    == {"1.0", "1.1", "1.1-beta", "unknown"}
MCParseOf == [r \in MCRaws |->
    CASE r = "1.0"      -> Parsed(<<Num(1), Num(0)>>, <<>>)
      [] r = "1.1"      -> Parsed(<<Num(1), Num(1)>>, <<>>)
      [] r = "1.1-beta" -> Parsed(<<Num(1), Num(1)>>, <<Text(1)>>)
      [] OTHER          -> Unknown]

MCPatterns == {"firefox", "Firefox", "firefox ", "winget:firefox", " "}
MCLowerOf  == [p \in MCPatterns |-> IF p = "Firefox" THEN "firefox" ELSE p]
MCFoldOf   == [p \in MCPatterns |->
    CASE p \in {"firefox", "Firefox", "firefox "} -> "firefox"
      [] p = " "                                  -> ""
      [] OTHER                                    -> p]

\* A package known by two names, of which a filter knows one.
OnePackage      == {"firefox"}
MCNamesOf       == [p \in OnePackage |-> {"firefox", "winget:firefox"}]
MCFilterNamesOf == [p \in OnePackage |-> {"firefox"}]

Setting(exclude, stable, known, elevated) ==
    [exclude |-> exclude, stable_only |-> stable, require_known |-> known, elevated |-> elevated]
MCSettings == {Setting({}, TRUE, TRUE, FALSE), Setting({}, FALSE, FALSE, FALSE),
               Setting({"winget:firefox"}, FALSE, TRUE, FALSE), Setting({" "}, TRUE, FALSE, TRUE)}

MCProfiles == [name \in {"browsers", "later"} |-> IF name = "later" THEN {} ELSE {"firefox"}]

-----------------------------------------------------------------------------
DecisionsInit ==
    /\ model \in {"chain", "session"}
    /\ ChainInit /\ Init
    /\ model = "chain" => installed = [pkg \in Packages |-> "unknown"]
    /\ model = "session" => version = Unknown

DecisionsNext ==
    \/ model = "chain" /\ ChainNext /\ UNCHANGED <<model, vars>>
    \/ model = "session" /\ Next /\ UNCHANGED <<model, chainVars>>

DecisionsSpec == DecisionsInit /\ [][DecisionsNext]_<<model, chainVars, vars>>
=============================================================================
