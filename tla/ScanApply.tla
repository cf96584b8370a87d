----------------------------- MODULE ScanApply ------------------------------
(***************************************************************************)
(* The list of updates in the GUI, from the scan to the next scan: the     *)
(* `scan` and `apply` commands and the scan cache they share (apps/gui/    *)
(* src-tauri: commands.rs, state.rs), and the front-end that calls them    *)
(* (apps/gui/src: store.tsx and the pages Updates, Drivers and Dashboard,  *)
(* each of which can start an apply of its own).                           *)
(*                                                                         *)
(* One package per source, so a package stands for its backend too.  Of    *)
(* the policy only the version rule is left (module Policy has the rest),  *)
(* and of a run only what it does to the machine and to the history        *)
(* (module Runner has the rest).                                           *)
(***************************************************************************)
EXTENDS Naturals

CONSTANTS
    Packages,
    Pages,             \* pages that can start an apply
    MaxVersion,        \* bound: versions are 1..MaxVersion
    MaxRestarts        \* bound on how often the GUI is started again

ASSUME BoundsAssumption ==
    /\ MaxVersion \in Nat \ {0} /\ MaxRestarts \in Nat

VersionNumbers == 1..MaxVersion
Candidate      == [from : VersionNumbers, to : VersionNumbers]
Maybe          == {<<>>} \union {<<c>> : c \in Candidate}    \* an offer, or none
Nothing        == [p \in Packages |-> <<>>]

Record == [pkg : Packages, to : VersionNumbers]

VARIABLES
    installed, latest,  \* on the machine, and at the source
    cache,              \* AppState::scan_cache
    shown,              \* scan.data of the store, and what localStorage keeps of it
    scan,               \* the load of the scan resource
    apply,              \* page -> the apply it waits for
    notice,             \* an "apply-finished" event is on its way
    history,            \* history.json
    ended,              \* everything finished runs have recorded
    crossed,            \* packages two of whose scans and applies have crossed, see below
    restarts

vars == <<installed, latest, cache, shown, scan, apply, notice, history, ended, crossed, restarts>>

machine == <<installed, latest>>

NoScan  == [stage |-> "idle", asked |-> {}, found |-> Nothing]
Queued  == [stage |-> "queued", asked |-> {}, found |-> Nothing]
Idle    == [pc |-> "idle", request |-> Nothing, plan |-> Nothing, todo |-> {}, log |-> {}]

Loading  == scan.stage # "idle"
Applying == \E page \in Pages : apply[page].pc # "idle"
Running  == \E page \in Pages : apply[page].pc = "running"

Actionable(offer) == offer # <<>> /\ offer[1].to > offer[1].from

-----------------------------------------------------------------------------
(* The scan resource.  refresh() joins a load that is already in flight.   *)

Refreshed == IF Loading THEN scan ELSE Queued

\* "Scan again", Ctrl+R, the tray, the refresh button of the title bar.
AskForScan ==
    /\ ~Loading
    /\ scan' = Queued
    /\ UNCHANGED <<machine, cache, shown, apply, notice, history, ended, crossed, restarts>>

\* The load gets a slot of heavyQueue and the command starts on every source.
ScanBegins ==
    /\ scan.stage = "queued"
    /\ scan' = [stage |-> "running", asked |-> Packages, found |-> Nothing]
    /\ crossed' = IF Running THEN crossed ELSE {}
    /\ UNCHANGED <<machine, cache, shown, apply, notice, history, ended, restarts>>

Offer(p) ==
    IF latest[p] > installed[p] THEN <<[from |-> installed[p], to |-> latest[p]]>> ELSE <<>>

\* A source answers with what it has, or fails and is left out.
SourceAnswers(p) ==
    /\ scan.stage = "running" /\ p \in scan.asked
    /\ \E offer \in {Offer(p), <<>>} :
          scan' = [scan EXCEPT !.asked = @ \ {p}, !.found[p] = offer]
    /\ UNCHANGED <<machine, cache, shown, apply, notice, history, ended, crossed, restarts>>

\* The command replaces the cache and answers.
ScanEnds ==
    /\ scan.stage = "running" /\ scan.asked = {}
    /\ cache' = scan.found
    /\ scan' = [scan EXCEPT !.stage = "answered"]
    /\ UNCHANGED <<machine, shown, apply, notice, history, ended, crossed, restarts>>

\* The answer reaches the store; pages that waited for it are done.
ScanShown ==
    /\ scan.stage = "answered"
    /\ shown' = [p \in Packages |-> IF Actionable(scan.found[p]) THEN scan.found[p] ELSE <<>>]
    /\ scan' = NoScan
    /\ apply' = [page \in Pages |-> IF apply[page].pc = "waiting" THEN Idle ELSE apply[page]]
    /\ UNCHANGED <<machine, cache, notice, history, ended, crossed, restarts>>

-----------------------------------------------------------------------------
(* An apply.                                                               *)

\* What `apply` finds in the cache for what was asked, by source and id alone.
Planned(selection) == [p \in Packages |-> IF p \in selection THEN cache[p] ELSE <<>>]

Starts(page, selection) ==
    [pc      |-> "running",
     request |-> [p \in Packages |-> IF p \in selection THEN shown[p] ELSE <<>>],
     plan    |-> Planned(selection),
     todo    |-> {p \in selection : Actionable(cache[p])},
     log     |-> history]

\* Mutant: the button is live while a scan is loading.
InstallWhileLoading(page, selection) ==
    /\ apply[page].pc = "idle"
    /\ selection # {} /\ \A p \in selection : shown[p] # <<>>
    /\ \E p \in selection : cache[p] # <<>>
    /\ apply' = [apply EXCEPT ![page] = Starts(page, selection)]
    /\ UNCHANGED <<machine, cache, shown, scan, notice, history, ended, crossed, restarts>>

\* What other applies under way are to change as well.
PlannedTwice(page, selection) ==
    {p \in selection : \E other \in Pages \ {page} :
        apply[other].pc = "running" /\ apply[other].plan[p] # <<>>}

\* The click and the command up to its first await.  The button of each page waits
\* for a scan to end and for the page's own apply, not for those of the others.  With
\* nothing of the request in the cache the command is an error and changes nothing.
Install(page, selection) ==
    /\ apply[page].pc = "idle" /\ ~Loading
    /\ selection # {} /\ \A p \in selection : shown[p] # <<>>
    /\ \E p \in selection : cache[p] # <<>>
    /\ apply' = [apply EXCEPT ![page] = Starts(page, selection)]
    /\ crossed' = crossed \union PlannedTwice(page, selection)
    /\ UNCHANGED <<machine, cache, shown, scan, notice, history, ended, restarts>>

\* A scan under way has its answer of p already.
Answered(p) == scan.stage = "answered" \/ (scan.stage = "running" /\ p \notin scan.asked)

\* The runner deals with one entry: it lands at the planned version, at a later one the
\* source has by now, or not at all, and is recorded in the history in memory.
ApplyEntry(page, p) ==
    /\ apply[page].pc = "running" /\ p \in apply[page].todo
    /\ LET to == apply[page].plan[p][1].to
       IN  /\ \E v \in {installed[p], to} \union {w \in {latest[p]} : w > to} :
                 installed' = [installed EXCEPT ![p] = v]
           /\ apply' = [apply EXCEPT ![page].todo = @ \ {p},
                                     ![page].log = @ \union {[pkg |-> p, to |-> to]}]
    /\ crossed' = crossed \union (IF Answered(p) THEN {p} ELSE {})
    /\ UNCHANGED <<latest, cache, shown, scan, notice, history, ended, restarts>>

\* Mutant: a finished apply tells nobody.
FinishQuietly(page) ==
    /\ apply[page].pc = "running" /\ apply[page].todo = {}
    /\ history' = apply[page].log
    /\ ended' = ended \union apply[page].log
    /\ apply' = [apply EXCEPT ![page] = Idle]
    /\ UNCHANGED <<machine, cache, shown, scan, notice, crossed, restarts>>

\* The run saves the history it loaded and added to; the command drops the cache,
\* tells every page and answers its own.
Finish(page) ==
    /\ apply[page].pc = "running" /\ apply[page].todo = {}
    /\ history' = apply[page].log
    /\ ended' = ended \union apply[page].log
    /\ cache' = Nothing
    /\ notice' = TRUE
    /\ apply' = [apply EXCEPT ![page].pc = "refreshing"]
    /\ UNCHANGED <<machine, shown, scan, crossed, restarts>>

\* The listener of the store.
NoticeArrives ==
    /\ notice /\ notice' = FALSE
    /\ scan' = Refreshed
    /\ UNCHANGED <<machine, cache, shown, apply, history, ended, crossed, restarts>>

\* The page gets its answer, which was sent after the event, and waits for a refresh
\* of its own.
PageRefreshes(page) ==
    /\ apply[page].pc = "refreshing" /\ ~notice
    /\ scan' = Refreshed
    /\ apply' = [apply EXCEPT ![page].pc = "waiting"]
    /\ UNCHANGED <<machine, cache, shown, notice, history, ended, crossed, restarts>>

-----------------------------------------------------------------------------
Release(p) ==
    /\ latest[p] < MaxVersion
    /\ latest' = [latest EXCEPT ![p] = @ + 1]
    /\ UNCHANGED <<installed, cache, shown, scan, apply, notice, history, ended, crossed, restarts>>

\* The GUI dies at any point and is started again: it shows what it remembers of the
\* last scan, with an empty cache behind it, and scans at once.
Restart ==
    /\ restarts < MaxRestarts /\ restarts' = restarts + 1
    /\ cache' = Nothing
    /\ scan' = Queued
    /\ apply' = [page \in Pages |-> Idle]
    /\ notice' = FALSE
    /\ UNCHANGED <<machine, shown, history, ended, crossed>>

Init ==
    /\ installed = [p \in Packages |-> 1]
    /\ latest \in [Packages -> VersionNumbers]
    /\ cache = Nothing
    /\ shown \in [Packages -> {<<>>} \union {<<c>> : c \in {d \in Candidate : d.to > d.from}}]
    /\ scan = Queued
    /\ apply = [page \in Pages |-> Idle]
    /\ notice = FALSE
    /\ history = {} /\ ended = {} /\ crossed = {}
    /\ restarts = 0

\* What moves by itself once it has been started.
Work ==
    \/ ScanBegins \/ ScanEnds \/ ScanShown \/ NoticeArrives
    \/ \E p \in Packages : SourceAnswers(p)
    \/ \E page \in Pages : Finish(page) \/ PageRefreshes(page)
    \/ \E page \in Pages, p \in Packages : ApplyEntry(page, p)

Next ==
    \/ Work
    \/ AskForScan
    \/ \E page \in Pages, selection \in SUBSET Packages : Install(page, selection)
    \/ \E p \in Packages : Release(p)
    \/ Restart

\* Every command of a backend is time-boxed and every load leaves the queue, so work
\* that was started is carried through.  Nobody has to press a button.
Spec == Init /\ [][Next]_vars /\ WF_vars(Work)

-----------------------------------------------------------------------------
\* The types.
TypeOK ==
    /\ installed \in [Packages -> VersionNumbers] /\ latest \in [Packages -> VersionNumbers]
    /\ cache \in [Packages -> Maybe] /\ shown \in [Packages -> Maybe]
    /\ scan \in [stage : {"idle", "queued", "running", "answered"},
                 asked : SUBSET Packages, found : [Packages -> Maybe]]
    /\ apply \in [Pages -> [pc : {"idle", "running", "refreshing", "waiting"},
                            request : [Packages -> Maybe], plan : [Packages -> Maybe],
                            todo : SUBSET Packages, log : SUBSET Record]]
    /\ notice \in BOOLEAN
    /\ history \subseteq Record /\ ended \subseteq Record /\ crossed \subseteq Packages
    /\ restarts \in 0..MaxRestarts

\* "Act on cached scan results so the versions applied are exactly the ones the user
\* saw and approved" (commands.rs:428): the request carries no versions, yet what is
\* planned is what the list showed when the button was pressed.
AppliesWhatWasSeen ==
    \A page \in Pages, p \in Packages :
        apply[page].plan[p] # <<>> => apply[page].plan[p] = apply[page].request[p]

\* Two applies that were started side by side, or an apply and a scan that had asked about the
\* package before it was dealt with, have crossed; until the next scan that begins while no
\* apply runs, nothing is said of that package below.

\* With no scan and no apply under way, an update on show is one for the version that is
\* installed: each apply is followed by a scan, unless the two have crossed.
Settled == ~Loading /\ ~Applying /\ ~notice

ShownIsCurrent ==
    Settled => \A p \in Packages \ crossed : shown[p] # <<>> => shown[p][1].from = installed[p]

\* "Anything applied invalidates the scan; let every page know" (commands.rs:514).
AppliedInvalidates ==
    Settled => \A p \in Packages : shown[p] # <<>> => shown[p][1].from = installed[p]

\* What a finished run recorded stays in the history: "Records every apply attempt
\* (success or failure) to a JSON file" (history.rs:3).
HistoryKeepsAll == ended \subseteq history

\* Nothing is replaced by something older, though the list on show may be overtaken by an
\* apply of another page or a scan be under way, unless they have crossed.
NeverBackwards ==
    [][\A p \in Packages : installed'[p] >= installed[p] \/ p \in crossed]_vars

\* A list that has been overtaken by an apply is put right, without anybody asking, unless the
\* scan that was to do so had begun before.
Overtaken(p) == shown[p] # <<>> /\ shown[p][1].from # installed[p]

CatchesUp == \A p \in Packages : Overtaken(p) ~> (~Overtaken(p) \/ p \in crossed)
=============================================================================
