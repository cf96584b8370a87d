------------------------------ MODULE MCStores ------------------------------
(***************************************************************************)
(* The parts of Odysync that keep something beside the updates and share   *)
(* no state with each other: the offline cache, the driver backups, the    *)
(* fixes, the startup page, the schedule and the cleaner.  A behaviour     *)
(* picks one of them and runs it; the others stay as they begin.           *)
(***************************************************************************)
EXTENDS Naturals, FiniteSets, TLC

CONSTANTS
    Items, Versions, Sound, Broken, Commands,
    Packages, Programs, Seconds, KeptBackups, OneASecond,
    Paths, Touchable, HostsTexts, Values, MaxSecond, OneFixASecond,
    Keys, Shortcuts, Desktops, Agents, Own,
    Managers, Times, Verbs,
    Categories, Default, ReportOnly, Nodes, Dirs, Links, Parent, Size, Matching, Elsewhere,
    Busy, Later, Fleeting, LiveCaches,
    Leaf

VARIABLES
    store,
    cached, partial, manifest, commands, handle, mixed,
    backups, second, programs, deleted,
    files, quarantine, hosts, hostsCopies, autostart, noted, now, used, fix, overwritten, taken,
    registered, page, turnedOff,
    manager, unit, loaded, enabled, op, promise,
    there, open, unsafe, live, offered, named, clean, removed, lost, reported

Cache    == INSTANCE OfflineCache
Backup   == INSTANCE DriverBackup
Fixes    == INSTANCE Remediation
StartPage == INSTANCE Startup
Sched    == INSTANCE Schedule
Cleaner  == INSTANCE Cleaning

\* The bytes of a download are neither none nor what a file is that was not written yet.
ASSUME BytesAssumption == {Cache!None, Cache!Half} \intersect (Sound \union Broken) = {}

\* The tree that is cleaned: each node is reached from the root of a category, through no more
\* than three others, and only files have a size.
ASSUME TreeAssumption ==
    /\ IsFiniteSet(Nodes) /\ Dirs \subseteq Nodes /\ Links \subseteq Nodes \ Dirs
    /\ Categories \intersect Nodes = {} /\ LiveCaches \subseteq Categories
    /\ Parent \in [Nodes -> Categories \union Dirs \union Links]
    /\ \A n \in Nodes : Parent[Cleaner!Entry(n)] \in Categories
    /\ Later \union Fleeting \subseteq Nodes \ (Dirs \union Links)
    /\ Size \in [Nodes \ (Dirs \union Links) -> Nat]

Stores == {"cache", "backup", "fixes", "startup", "schedule", "cleaner"}

cacheVars    == <<cached, partial, manifest, commands, handle, mixed>>
backupVars   == <<backups, second, programs, deleted>>
fixVars      == <<files, quarantine, hosts, hostsCopies, autostart, noted, now, used, fix,
                  overwritten, taken>>
startupVars  == <<registered, page, turnedOff>>
scheduleVars == <<manager, unit, loaded, enabled, op, promise>>
cleaningVars == <<there, open, unsafe, live, offered, named, clean, removed, lost, reported>>
storesVars   == <<store, cacheVars, backupVars, fixVars, startupVars, scheduleVars, cleaningVars>>

Init ==
    /\ store \in Stores
    /\ Cache!CacheInit /\ Backup!BackupInit /\ Fixes!FixInit
    /\ StartPage!StartupInit /\ Sched!ScheduleInit /\ Cleaner!CleaningInit
    /\ store # "fixes" => hosts = Fixes!Stock /\ autostart = Fixes!Absent
    /\ store # "schedule" => manager = "schtasks"
    /\ store # "cleaner" => unsafe = {} /\ ~live

OthersStay(s) ==
    /\ store = s /\ UNCHANGED store
    /\ s # "cache" => UNCHANGED cacheVars
    /\ s # "backup" => UNCHANGED backupVars
    /\ s # "fixes" => UNCHANGED fixVars
    /\ s # "startup" => UNCHANGED startupVars
    /\ s # "schedule" => UNCHANGED scheduleVars
    /\ s # "cleaner" => UNCHANGED cleaningVars

Next ==
    \/ OthersStay("cache") /\ Cache!CacheNext
    \/ OthersStay("backup") /\ Backup!BackupNext
    \/ OthersStay("fixes") /\ Fixes!FixNext
    \/ OthersStay("startup") /\ StartPage!StartupNext
    \/ OthersStay("schedule") /\ Sched!ScheduleNext
    \/ OthersStay("cleaner") /\ Cleaner!CleaningNext

Spec == Init /\ [][Next]_storesVars
-----------------------------------------------------------------------------
\* What lies in the offline cache, and what its manifest speaks of, was whole and has passed
\* the check of its signature, unless two downloads have shared a staging file of its name.
NothingUnchecked == Cache!NothingUnchecked

\* A driver backup that is listed can be restored, unless a prune has begun to delete it, and
\* no prune takes the last one.
ListedCanBeRestored == Backup!ListedCanBeRestored

\* A fix deletes no file and no text of hosts: each one it took away is kept.
NothingIsDeleted == Fixes!NothingIsDeleted

\* What the startup page has turned off stays on its list, where it can be turned on but for a
\* shortcut or after a write that was cut off; what starts is listed, what is listed as on starts.
ComesBack == StartPage!ComesBack

\* A schedule that was reported as created or removed is as it was reported after the next
\* sign-in, and until then but for an older job that launchd keeps.
AnswersHold == Sched!AnswersHold

\* The cleaner removes only what was chosen and matches, and counts the bytes of what has gone.
OnlyTheChosen == Cleaner!OnlyTheChosen

\* The cache of a program is only entered where it was answered that the program does not run.
UnknownIsRunning == Cleaner!UnknownIsRunning
-----------------------------------------------------------------------------
\* The items of the offline cache are alike, and so are its commands.
Alike == Permutations(Items) \union Permutations(Commands)

\* Two files of one name in two directories.
MCLeaf == [p \in Paths |-> "leaf"]

\* temp: a directory with two files, one of which comes later, and in it a directory with a file
\* and a link that leads to a document; browser: a file that matches and one that does not;
\* old: a file.
MCParent ==
    [d1 |-> "temp", f1 |-> "d1", g1 |-> "d1", d2 |-> "d1", f2 |-> "d2", l1 |-> "d2", doc |-> "l1",
     b1 |-> "browser", other |-> "browser", o1 |-> "old"]
MCNodes    == DOMAIN MCParent
MCMatching == MCNodes \ {"other"}
MCSize     == [f \in MCNodes \ (Dirs \union Links) |-> IF f = "f2" THEN 2 ELSE 1]
=============================================================================
