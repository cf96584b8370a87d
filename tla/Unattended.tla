----------------------------- MODULE Unattended -----------------------------
(***************************************************************************)
(* A machine nobody is sitting at: `odysync daemon --apply`, which looks   *)
(* for updates again and again in one process (cli/src/daemon.rs), and     *)
(* `odysync care --yes`, which a schedule starts (main.rs, run_care).      *)
(* Both scan, let the policy decide and hand the plan to a Runner; here    *)
(* with one package of one backend, and the world that moves meanwhile.    *)
(* The retries of a run are in module Runner.                              *)
(***************************************************************************)
EXTENDS Policy, Backends

CONSTANTS
    Sources,       \* the backends a behaviour may be about
    MaxVersion     \* versions of the package are 1 .. MaxVersion, 0 is "0.0.0" or absence

NoVersion == -1

ASSUME VersionsAssumption ==
    /\ MaxVersion \in Nat \ {0}
    /\ Raws = {NoVersion} \union (0 .. MaxVersion)
    /\ ParseOf = [r \in Raws |-> IF r = NoVersion THEN Unknown ELSE Parsed(<<Num(r)>>, <<>>)]

VARIABLES
    source,        \* the backend
    elevated,      \* whether the programs run as administrator
    installed,     \* the version on the machine, 0 when the package is not there
    newest,        \* the newest version the source has
    memo,          \* what the daemon's process has read once and for all, if it has
    config,        \* whether config.json can be read
    mains,         \* whether the machine is on mains power
    task,          \* the round under way: who, where it is, what was approved
    daemon,        \* whether the daemon's process is running
    confirmed,     \* the version last reported as installed, until somebody else changes it
    touched        \* whether somebody else changed the package since it was scanned

world == <<installed, newest, config, mains>>
vars  == <<source, elevated, world, memo, task, daemon, confirmed, touched>>

Programs == {"daemon", "once", "care"}     \* "once" is `odysync daemon --once`
Idle == [who |-> "nobody", pc |-> "idle", to |-> NoVersion]

-----------------------------------------------------------------------------
(* A scan.                                                                 *)

\* What a process reads once it keeps; a new one, of once and of care, begins without it.
Remembered(who) == IF who = "daemon" /\ memo # NoVersion THEN memo ELSE installed

ReadsOf(who, from) ==
    CASE from = "live"  -> IF installed = 0 THEN NoVersion ELSE installed
      [] from = "memo"  -> Remembered(who)
      [] from = "name"  -> 1
      [] from = "zero"  -> 0
      [] from = "fixed" -> 1
      [] OTHER          -> NoVersion

OfferOf(to) == CASE to = "newest" -> newest [] to = "fixed" -> 1 [] OTHER -> NoVersion

Lists == CASE source.scan = "outdated"  -> 0 < installed /\ installed < newest
           [] source.scan = "installed" -> 0 < installed
           [] source.scan = "search"    -> TRUE
           [] OTHER                     -> FALSE

Candidates(who) ==
    [names : {{}}, forbids : {source.rights = "user"}, requires : {source.rights = "admin"},
     installed : {ReadsOf(who, f) : f \in source.from},
     available : {OfferOf(t) : t \in source.to}]

\* scan_all: a scan that failed counts as one that found nothing.
FoundAll(who) == IF Lists THEN {{c} : c \in Candidates(who)} ELSE {{}}

ThePolicy == [stable_only |-> TRUE, require_known |-> TRUE, exclude |-> {}, holds |-> <<>>,
              elevated |-> elevated]

-----------------------------------------------------------------------------
(* A round.                                                                *)

\* The daemon looks at the power first and then at the config; care only at the config.
DaemonEnds ==
    /\ daemon /\ task = Idle /\ mains /\ config = "broken"
    /\ daemon' = FALSE /\ memo' = NoVersion
    /\ UNCHANGED <<source, elevated, world, task, confirmed, touched>>

\* One round at a time is looked at: to it, what a second program installs beside it is a change
\* from outside.
MayBegin(who) ==
    /\ task = Idle /\ config = "readable"
    /\ who = "daemon" => daemon /\ mains

\* Drivers, firmware, system upgrades and developers' packages are left out of care.
\* Mutant: the daemon leaves them out as well, and nobody installs them.
LeftOutByAll(who) == ~source.care

LeftOut(who) == who = "care" /\ ~source.care

\* Mutant: an installed version nobody can read is older than any.
ApprovedTrustingly(who, c) ==
    ~LeftOut(who) /\ (c.installed = NoVersion \/ Actionable(ThePolicy, c))

Approved(who, c) == ~LeftOut(who) /\ Actionable(ThePolicy, c)

\* One process answers from one memory: only the daemon lives on into its next round.
Remember(who) == memo' = IF who = "daemon" THEN Remembered(who) ELSE memo

Scan(who, list) ==
    /\ MayBegin(who)
    /\ IF \E c \in list : Approved(who, c)
         THEN \E c \in list : task' = [who |-> who, pc |-> "approved", to |-> c.available]
         ELSE task' = Idle
    /\ Remember(who)
    /\ touched' = FALSE
    /\ UNCHANGED <<source, elevated, world, daemon, confirmed>>

ScanFails(who) == source.fails # {} /\ Scan(who, {})
ScanFinds(who) == \E list \in FoundAll(who) : Scan(who, list)

-----------------------------------------------------------------------------
(* apply and installed_version.                                            *)

\* What apply refuses before it runs anything: nothing happens on the machine.
Refuses ==
    \/ "never" \in source.checks
    \/ "target" \in source.checks /\ task.to = NoVersion
    \/ "user" \in source.checks /\ elevated
    \/ "newest" \in source.checks /\ task.to # newest

\* Where the tool may leave the package when it is told to go ahead.
Lands ==
    IF installed = 0 /\ ~source.adds THEN {0}
    ELSE IF source.runs = "target" THEN {task.to} ELSE {newest}

Round(pc) == task' = [task EXCEPT !.pc = pc]

\* The tool installs what it was told to; its exit code may deny it.
Installs(ok) ==
    /\ task.pc = "approved" /\ ~Refuses
    /\ installed' \in Lands
    /\ Round(IF ok THEN "confirming" ELSE "done")
    /\ UNCHANGED <<source, elevated, newest, memo, config, mains, daemon, confirmed, touched>>

\* It installs nothing, and says so or not; or apply has refused.
LeavesIt(ok) ==
    /\ task.pc = "approved"
    /\ Refuses => ~ok
    /\ Round(IF ok THEN "confirming" ELSE "done")
    /\ UNCHANGED <<source, elevated, world, memo, daemon, confirmed, touched>>

\* The read-back as it goes when it works; a failed one is a version nobody knows.
ReadBack ==
    CASE source.reads = "live"   -> IF installed = 0 THEN NoVersion ELSE installed
      [] source.reads = "name"   -> 1
      [] source.reads = "fixed"  -> 1
      [] source.reads = "target" -> IF installed = task.to THEN installed ELSE NoVersion
      [] OTHER                   -> NoVersion

\* Mutant: whatever the tool said it did counts as done.
ConfirmByExitCode(read) ==
    /\ task.pc = "confirming"
    /\ confirmed' = task.to
    /\ Round("done")
    /\ UNCHANGED <<source, elevated, world, memo, daemon, touched>>

\* Runner::confirm: at least what was approved, or it did not happen.
Confirm(read) ==
    /\ task.pc = "confirming"
    /\ confirmed' = IF read # NoVersion /\ read >= task.to THEN read ELSE confirmed
    /\ Round("done")
    /\ UNCHANGED <<source, elevated, world, memo, daemon, touched>>

\* The daemon sleeps until its next round; care is over.
EndRound ==
    /\ task.pc = "done"
    /\ task' = Idle
    /\ UNCHANGED <<source, elevated, world, memo, daemon, confirmed, touched>>

-----------------------------------------------------------------------------
(* The world.                                                              *)

Publish ==
    /\ newest < MaxVersion /\ newest' = newest + 1
    /\ UNCHANGED <<source, elevated, installed, config, mains, memo, task, daemon, confirmed, touched>>

\* Another program or the user installs some version, or removes the package.
ChangedOutside(v) ==
    /\ v # installed /\ installed' = v
    /\ confirmed' = 0 /\ touched' = TRUE
    /\ UNCHANGED <<source, elevated, newest, config, mains, memo, task, daemon>>

PlugOrUnplug ==
    /\ mains' = ~mains
    /\ UNCHANGED <<source, elevated, installed, newest, config, memo, task, daemon, confirmed, touched>>

ConfigBreaks ==
    /\ config = "readable" /\ config' = "broken"
    /\ UNCHANGED <<source, elevated, installed, newest, mains, memo, task, daemon, confirmed, touched>>

ConfigMended ==
    /\ config = "broken" /\ config' = "readable"
    /\ UNCHANGED <<source, elevated, installed, newest, mains, memo, task, daemon, confirmed, touched>>

StartDaemon ==
    /\ ~daemon /\ daemon' = TRUE
    /\ UNCHANGED <<source, elevated, world, memo, task, confirmed, touched>>

-----------------------------------------------------------------------------
Init ==
    /\ source \in Sources /\ elevated \in BOOLEAN
    /\ installed \in 0 .. MaxVersion /\ newest = 1
    /\ config = "readable" /\ mains = TRUE
    /\ memo = NoVersion /\ task = Idle /\ daemon = TRUE
    /\ confirmed = 0 /\ touched = FALSE

RoundStep == \/ \E ok \in BOOLEAN : Installs(ok) \/ LeavesIt(ok)
             \/ \E read \in {ReadBack, NoVersion} : Confirm(read)
             \/ EndRound

Next ==
    \/ DaemonEnds \/ StartDaemon
    \/ \E who \in Programs : ScanFails(who) \/ ScanFinds(who)
    \/ RoundStep
    \/ Publish \/ PlugOrUnplug \/ ConfigBreaks \/ ConfigMended
    \/ \E v \in 0 .. MaxVersion : ChangedOutside(v)

\* What was begun ends.  The daemon's rounds come as its sleeps are finite, and a source
\* that is asked again and again does not fail every time.
Spec ==
    /\ Init /\ [][Next]_vars
    /\ WF_vars(RoundStep) /\ SF_vars(ScanFinds("daemon")) /\ SF_vars(Installs(TRUE))
-----------------------------------------------------------------------------
\* The variables hold what they are meant to hold; a round has a program behind it, and
\* only one with a version approves anything.
TypeOK ==
    /\ source \in Sources /\ elevated \in BOOLEAN
    /\ installed \in 0 .. MaxVersion /\ newest \in 1 .. MaxVersion
    /\ memo \in Raws /\ config \in {"readable", "broken"} /\ mains \in BOOLEAN
    /\ task = Idle \/ task \in [who : Programs, pc : {"approved", "confirming", "done"},
                                to : 0 .. MaxVersion]
    /\ daemon \in BOOLEAN /\ confirmed \in 0 .. MaxVersion /\ touched \in BOOLEAN

\* A scan knows what is installed when the tool compares, or when the candidate names
\* what is on the machine or nothing.
KnowsInstalled == source.scan = "outdated" \/ source.from \subseteq {"live", "unknown"}

(***************************************************************************)
(* What has been reported as updated stays on the machine, at least in the *)
(* version named, through all later rounds, until somebody else changes it.*)
(***************************************************************************)
UpdatedIsThere == KnowsInstalled => confirmed <= installed

(***************************************************************************)
(* Nothing goes backwards unattended: a round installs something newer     *)
(* than what was there, unless somebody changed the package since the scan.*)
(***************************************************************************)
MovesForward ==
    [][task.pc = "approved" /\ task'.pc # "approved" /\ KnowsInstalled /\ ~touched
          => installed' >= installed]_vars

(***************************************************************************)
(* The daemon comes to rest: what a round has confirmed, no later round    *)
(* installs again, although each of them starts from nothing but a scan.   *)
(***************************************************************************)
ComesToRest == [][task = Idle /\ task'.pc = "approved" /\ KnowsInstalled => task'.to > confirmed]_vars

Outdated == 0 < installed /\ installed < newest
Settled  == installed = 0 \/ installed >= newest

\* A source that can update without a person: it names both versions and has a tool that
\* installs with the rights at hand.
CanUpdate ==
    /\ source.scan # "nothing" /\ source.from \subseteq {"live", "zero"} /\ source.to = {"newest"}
    /\ "never" \notin source.checks
    /\ elevated => source.rights # "user" /\ "user" \notin source.checks
    /\ ~elevated => source.rights # "admin"

(***************************************************************************)
(* What stays on offer is installed in the end, however many scans and     *)
(* installs fail, as long as the daemon runs with mains power and a config *)
(* it can read now and then.                                               *)
(***************************************************************************)
KeepsTrying == []<>MayBegin("daemon") => (CanUpdate /\ Outdated ~> Settled)

(***************************************************************************)
(* What any source offers arrives in the end: the README lists each of     *)
(* them as one whose packages are updated (README.md:88).                  *)
(***************************************************************************)
UpdatesArrive == []<>MayBegin("daemon") => (elevated /\ Outdated ~> Settled)
=============================================================================
