------------------------------ MODULE Cleaning ------------------------------
(***************************************************************************)
(* The disk cleaner (odysync-core/src/cleanup.rs, odysync-backends/src/    *)
(* cleanup.rs, run_clean in cli/src/main.rs): a scan that measures, a      *)
(* choice of categories, and a walk over the roots of each that deletes    *)
(* what its strategy matches.  Programs open, create and delete files all  *)
(* the while, and the environment the roots are taken from may be broken.  *)
(* A root that is a link itself is read as the directory it leads to: what *)
(* lies right below a category is what read_dir gives of its roots.        *)
(***************************************************************************)
EXTENDS FiniteSetsExt

CONSTANTS
    Categories,   \* the categories of this platform
    Default,      \* those that are selected when nobody says otherwise
    ReportOnly,   \* those that are measured and never removed
    Nodes,        \* files, directories and links below the roots, and what links lead to
    Dirs,         \* the directories among them
    Links,        \* the links among them
    Parent,       \* the directory or link a node is reached through; the category of its root
    Size,         \* the bytes of a file
    Matching,     \* the nodes right below a root that its strategy matches
    Elsewhere,    \* the categories whose root the environment may make an unsafe one
    Busy,         \* the files that programs open
    Later,        \* the files that programs create, each of them once
    Fleeting,     \* the files that programs delete
    LiveCaches    \* the categories that are not touched while their program runs

VARIABLES
    there,        \* the nodes that exist
    open,         \* the files a program holds open
    unsafe,       \* the categories whose root is an unsafe one today
    live,         \* whether the program of the live caches runs
    offered,      \* the categories the last scan found something in
    named,        \* the categories the user has ever named
    clean,        \* the cleaning under way
    removed,      \* what the cleaner has removed so far
    lost,         \* what has gone so far, whoever deleted it
    reported      \* the bytes the cleaner has counted as removed

cleaningVars == <<there, open, unsafe, live, offered, named, clean, removed, lost, reported>>

Files  == Nodes \ (Dirs \union Links)
NoClean == [pc |-> "none", todo |-> {}, nodes |-> {}, asked |-> "no", dir |-> "none", files |-> {}]
In(pc) == clean.pc = pc

TopOf(c) == {n \in there : Parent[n] = c}
Bytes(files) == MapThenSumSet(LAMBDA f : Size[f], files)

\* What lies in a directory, and all that lies below it; no tree is deeper than three.
Children(n) == {m \in there : n \in Dirs /\ Parent[m] = n}
Below(n) ==
    LET one == Children(n)
        two == UNION {Children(m) : m \in one}
    IN  one \union two \union UNION {Children(m) : m \in two}

\* targets: an unsafe root is dropped.
Targets(c) == IF c \in unsafe THEN {} ELSE TopOf(c) \intersect Matching

\* measure.
FilesOf(n) == ({n} \union Below(n)) \intersect there \intersect Files
Found(c) == Bytes(UNION {FilesOf(n) : n \in Targets(c)})

-----------------------------------------------------------------------------
\* scan.
Scan ==
    /\ In("none")
    /\ offered' = {c \in Categories : Found(c) > 0}
    /\ UNCHANGED <<there, open, unsafe, live, named, clean, removed, lost, reported>>

\* run_clean: what the user names, or else the default of what was found.
BeginClean(only) ==
    LET selected == IF only = {} THEN offered \intersect Default ELSE only IN
    /\ In("none") /\ selected # {}
    /\ named' = named \union only
    /\ clean' = [NoClean EXCEPT !.pc = "choosing", !.todo = selected]
    /\ UNCHANGED <<there, open, unsafe, live, offered, removed, lost, reported>>

\* Categories that are only reported are refused, though they were named.
Refuse(c) ==
    /\ In("choosing") /\ c \in clean.todo \intersect ReportOnly
    /\ clean' = [clean EXCEPT !.todo = @ \ {c}]
    /\ UNCHANGED <<there, open, unsafe, live, offered, named, removed, lost, reported>>

\* clean_browser_caches asks whether the program runs.  A question that fails is answered with
\* yes; with no, where the program that is asked ends with an error on Windows.
AskWhetherLive(c, answered, running) ==
    /\ In("choosing") /\ c \in clean.todo \intersect LiveCaches /\ clean.asked = "no"
    /\ answered => running = live
    /\ clean' = IF running THEN [clean EXCEPT !.todo = @ \ {c}]
                ELSE [clean EXCEPT !.asked = IF answered THEN "answered" ELSE "failed"]
    /\ UNCHANGED <<there, open, unsafe, live, offered, named, removed, lost, reported>>

\* read_dir of the roots, and the entries that match.
Enter(c) ==
    /\ In("choosing") /\ c \in clean.todo \ ReportOnly
    /\ clean.asked # "no" <=> c \in LiveCaches
    /\ clean' = [clean EXCEPT !.pc = "removing", !.todo = @ \ {c}, !.nodes = Targets(c)]
    /\ UNCHANGED <<there, open, unsafe, live, offered, named, removed, lost, reported>>

CanGo(n) == n \in there \ open /\ Children(n) = {}

Removes(n) ==
    /\ CanGo(n)
    /\ there' = there \ {n}
    /\ removed' = removed \union {n}
    /\ lost' = lost \union {n}

\* An entry that is gone already, or that cannot be removed.
Skip(n) ==
    /\ In("removing") /\ n \in clean.nodes /\ (n \in there => n \notin Dirs)
    /\ clean' = [clean EXCEPT !.nodes = @ \ {n}]
    /\ UNCHANGED <<there, open, unsafe, live, offered, named, removed, lost, reported>>

\* A file counts; a link is removed as a link.
RemoveOne(n) ==
    /\ In("removing") /\ n \in clean.nodes \ Dirs
    /\ Removes(n)
    /\ reported' = reported + Bytes({n} \intersect Files)
    /\ clean' = [clean EXCEPT !.nodes = @ \ {n}]
    /\ UNCHANGED <<open, unsafe, live, offered, named>>

Measure(n) ==
    /\ In("removing") /\ n \in clean.nodes \intersect Dirs \intersect there
    /\ clean' = [clean EXCEPT !.pc = "emptying", !.nodes = @ \ {n}, !.dir = n,
                              !.files = FilesOf(n)]
    /\ UNCHANGED <<there, open, unsafe, live, offered, named, removed, lost, reported>>

\* remove_dir_all: what is in a directory goes before it, and the entry itself last.
RemoveBelow(m) ==
    /\ In("emptying") /\ m \in Below(clean.dir)
    /\ Removes(m)
    /\ UNCHANGED <<open, unsafe, live, offered, named, clean, reported>>

RemoveDir ==
    /\ In("emptying") /\ Removes(clean.dir)
    /\ reported' = reported + Bytes(clean.files)
    /\ clean' = [clean EXCEPT !.pc = "removing", !.dir = "none", !.files = {}]
    /\ UNCHANGED <<open, unsafe, live, offered, named>>

\* Mutant: what was measured counts, though the removal has failed.
CountsAll(before, left) == before

\* saturating_sub.
WhatIsGone(before, left) == IF before < left THEN 0 ELSE before - left

\* One file that cannot go makes remove_dir_all fail; what is left is measured.
Remeasure ==
    /\ In("emptying")
    /\ reported' = reported + WhatIsGone(Bytes(clean.files), Bytes(FilesOf(clean.dir)))
    /\ clean' = [clean EXCEPT !.pc = "removing", !.dir = "none", !.files = {}]
    /\ UNCHANGED <<there, open, unsafe, live, offered, named, removed, lost>>

EndCategory ==
    /\ In("removing") /\ clean.nodes = {}
    /\ clean' = [clean EXCEPT !.pc = "choosing", !.asked = "no"]
    /\ UNCHANGED <<there, open, unsafe, live, offered, named, removed, lost, reported>>

EndClean ==
    /\ In("choosing") /\ clean.todo = {}
    /\ clean' = NoClean
    /\ UNCHANGED <<there, open, unsafe, live, offered, named, removed, lost, reported>>

-----------------------------------------------------------------------------
\* Other programs.
Hold(f) ==
    /\ f \in (Busy \intersect there) \ open
    /\ open' = open \union {f}
    /\ UNCHANGED <<there, unsafe, live, offered, named, clean, removed, lost, reported>>

Release(f) ==
    /\ f \in open
    /\ open' = open \ {f}
    /\ UNCHANGED <<there, unsafe, live, offered, named, clean, removed, lost, reported>>

Creates(f) ==
    /\ f \in Later \ (there \union lost) /\ Parent[f] \in there \union Categories
    /\ there' = there \union {f}
    /\ UNCHANGED <<open, unsafe, live, offered, named, clean, removed, lost, reported>>

Deletes(f) ==
    /\ f \in (Fleeting \intersect there) \ open
    /\ there' = there \ {f} /\ lost' = lost \union {f}
    /\ UNCHANGED <<open, unsafe, live, offered, named, clean, removed, reported>>

\* The program of the live caches starts and ends.
Live ==
    /\ live' = ~live
    /\ UNCHANGED <<there, open, unsafe, offered, named, clean, removed, lost, reported>>

CleaningInit ==
    /\ there = Nodes \ Later /\ open = {}
    /\ unsafe \in SUBSET Elsewhere
    /\ live \in BOOLEAN
    /\ offered = {} /\ named = {} /\ clean = NoClean
    /\ removed = {} /\ lost = {} /\ reported = 0

CleaningNext ==
    \/ Scan
    \/ \E only \in SUBSET Categories : BeginClean(only)
    \/ \E c \in Categories : Refuse(c) \/ Enter(c)
    \/ \E c \in LiveCaches, answered \in BOOLEAN, running \in BOOLEAN :
           AskWhetherLive(c, answered, running)
    \/ \E n \in Nodes : Skip(n) \/ RemoveOne(n) \/ Measure(n) \/ RemoveBelow(n)
    \/ RemoveDir \/ Remeasure \/ EndCategory \/ EndClean
    \/ \E f \in Busy : Hold(f) \/ Release(f)
    \/ \E f \in Later : Creates(f)
    \/ \E f \in Fleeting : Deletes(f)
    \/ Live

CleaningSpec == CleaningInit /\ [][CleaningNext]_cleaningVars
-----------------------------------------------------------------------------
Above(n)  == IF n \in Nodes /\ Parent[n] \in Nodes THEN Parent[n] ELSE n
Way(n)    == {Above(n), Above(Above(n)), Above(Above(Above(n)))}
Entry(n)  == Above(Above(Above(n)))

\* Whether other programs have created or deleted a file.
Meddled == lost # removed \/ Later \intersect (there \union lost) # {}

(***************************************************************************)
(* The cleaner removes nothing but what matches, below a safe root of a    *)
(* category that the user has named or that is selected by default, never  *)
(* what is only reported and never what a link below the root leads to.    *)
(* It never counts more bytes than have gone; and, as long as no other     *)
(* program creates or deletes files, those of what it has removed, through *)
(* every removal that fails half-way.                                      *)
(***************************************************************************)
OnlyTheChosen ==
    /\ \A n \in removed :
        /\ Entry(n) \in Matching
        /\ Parent[Entry(n)] \in ((named \union Default) \ ReportOnly) \ unsafe
        /\ (Way(n) \ {n}) \intersect Links = {}
    /\ reported <= Bytes(lost \intersect Files)
    /\ Meddled \/ In("emptying") \/ reported = Bytes(removed \intersect Files)

\* Unknown is treated as running: no cache of a program is entered unless it was answered that
\* the program does not run.
UnknownIsRunning ==
    \A n \in clean.nodes : Parent[n] \in LiveCaches => clean.asked = "answered"
=============================================================================
