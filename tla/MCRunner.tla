------------------------------ MODULE MCRunner ------------------------------
(* Small instances of Runner: two packages, plans of up to two entries, every *)
(* kind of entry in either place.                                             *)
EXTENDS Runner

MCPreTags  == {}
MCRaws     == {"1.0", "1.1", "1.2", "unknown"}
MCParseOf  == [r \in MCRaws |->
    CASE r = "1.0" -> Parsed(<<Num(1), Num(0)>>, <<>>)
      [] r = "1.1" -> Parsed(<<Num(1), Num(1)>>, <<>>)
      [] r = "1.2" -> Parsed(<<Num(1), Num(2)>>, <<>>)
      [] OTHER     -> Unknown]
MCPackages == {"a", "b"}

To(pkg, blocked, served) ==
    [pkg |-> pkg, blocked |-> blocked, served |-> served, from |-> "1.0", to |-> "1.1"]
Open(pkg)    == To(pkg, FALSE, TRUE)
Blocked(pkg) == To(pkg, TRUE, TRUE)
Orphan(pkg)  == To(pkg, FALSE, FALSE)      \* its backend has gone since the plan

OldLine == [pkg |-> "a", status |-> "Failed"]
MakeJob(plan, dry, restore, keeps, old, retries) ==
    [plan |-> plan, dry_run |-> dry, restore_point |-> restore, keeps_history |-> keeps,
     old |-> old, max_retries |-> retries]

MCJobs ==
    {MakeJob(<<Open("a"), Open("b")>>, FALSE, TRUE, TRUE, <<OldLine>>, 1),
     MakeJob(<<Blocked("a"), Open("b")>>, FALSE, FALSE, TRUE, <<>>, 2),
     MakeJob(<<Orphan("a"), Open("a")>>, FALSE, TRUE, FALSE, <<>>, 0),
     MakeJob(<<Open("b"), Blocked("a")>>, FALSE, FALSE, TRUE, <<OldLine>>, 0),
     MakeJob(<<Open("b"), Blocked("a"), Orphan("a")>>, TRUE, TRUE, TRUE, <<OldLine>>, 1),
     MakeJob(<<>>, FALSE, TRUE, TRUE, <<>>, 0)}
=============================================================================
