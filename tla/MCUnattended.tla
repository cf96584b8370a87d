---------------------------- MODULE MCUnattended ----------------------------
(* Small instances of Unattended: all backends, or one that shows a problem. *)
EXTENDS Unattended

MCPreTags  == {1}
MCRaws     == {NoVersion} \union (0 .. MaxVersion)
MCParseOf  == [r \in MCRaws |-> IF r = NoVersion THEN Unknown ELSE Parsed(<<Num(r)>>, <<>>)]
NoPatterns == {}
NoFolds    == [p \in {} |-> p]

OnlyDnf == {Dnf}
=============================================================================
