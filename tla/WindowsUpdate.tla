---------------------------- MODULE WindowsUpdate ----------------------------
(***************************************************************************)
(* The backends over the Windows Update Agent:                             *)
(* crates/odysync-core/src/windows_update.rs (what kind of update is it),  *)
(* odysync-backends/src/windows_update (a search shared by the scans, an   *)
(* install that forgets it, the class check) and windows_drivers.rs.       *)
(*                                                                         *)
(* Tasks are calls of one process that run at the same time: a scan takes  *)
(* the shared search of its criteria, an apply searches, installs, forgets *)
(* and reads back.  Windows has a life of its own: it offers, supersedes  *)
(* and installs when it likes.                                             *)
(***************************************************************************)
EXTENDS Integers, Sequences, FiniteSets

CONSTANTS
    Updates,           \* the updates Windows may ever offer
    Backends,          \* the backends that are switched on
    Scans, Applies     \* tasks

(***************************************************************************)
(* An update is its id, its revision, the half of Windows Update it is in, *)
(* the categories it carries, and the three tokens of its title that       *)
(* survive translation.                                                    *)
(***************************************************************************)
Criteria   == {"Software", "Driver"}
Categories == {"upgrade", "service pack", "driver", "definition", "defender product",
               "security", "critical", "updates", "unknown"}
Tokens     == {"windows", "release tag", "kb"}
Update     == [id : STRING, revision : Nat, criteria : Criteria,
               categories : SUBSET Categories, tokens : SUBSET Tokens]

ASSUME UpdatesAssumption ==
    \A u \in Updates : /\ u.criteria \in Criteria /\ u.revision \in Nat
                       /\ u.categories \subseteq Categories /\ u.tokens \subseteq Tokens

LooksLikeAFeatureUpgrade(u) == {"windows", "release tag"} \subseteq u.tokens /\ "kb" \notin u.tokens

Has(u, categories) == u.categories \cap categories # {}

\* classify: most specific first, and an upgrade before all.
Classify(u) ==
    IF Has(u, {"upgrade", "service pack"}) \/ LooksLikeAFeatureUpgrade(u) THEN "FeatureUpgrade"
    ELSE IF Has(u, {"driver"})                         THEN "Driver"
    ELSE IF Has(u, {"definition", "defender product"}) THEN "Definition"
    ELSE IF Has(u, {"security", "critical"})           THEN "Security"
    ELSE "Quality"

Kinds == {"WindowsUpdate", "WindowsDefenderUpdate", "WindowsFeatureUpdate", "WindowsDrivers"}

ASSUME BackendsAssumption == Backends \subseteq Kinds

CriteriaOf(kind) == IF kind = "WindowsDrivers" THEN "Driver" ELSE "Software"

\* WindowsUpdateBackend::owns.  The driver backend lists all its search returns.
Owns(kind, u) ==
    CASE kind = "WindowsUpdate"         -> Classify(u) \in {"Security", "Quality"}
      [] kind = "WindowsDefenderUpdate" -> Classify(u) = "Definition"
      [] kind = "WindowsFeatureUpdate"  -> Classify(u) = "FeatureUpgrade"
      [] kind = "WindowsDrivers"        -> TRUE

NoResult == [kept |-> FALSE]
Kept(list, young) == [kept |-> TRUE, list |-> list, young |-> young]

Tasks == Scans \union Applies

VARIABLES
    offered,           \* what Windows offers
    present,           \* updates that are on the machine
    slot,              \* SharedSearch::slot of each criteria
    queue,             \* the tasks at its lock, the first of them holding it
    task,              \* [kind, pc, update, list, before] of each task
    installs           \* history: who installed what

vars == <<offered, present, slot, queue, task, installs>>

windows == <<offered, present>>
shared  == <<slot, queue>>

Call(kind, pc) == [kind |-> kind, pc |-> pc, update |-> {}, list |-> {}, before |-> {}]
Idle == Call("WindowsUpdate", "idle")

To(t, pc) == task' = [task EXCEPT ![t].pc = pc]
End(t)    == task' = [task EXCEPT ![t] = Idle]

Lock(t)   == CriteriaOf(task[t].kind)
Holds(t)  == queue[Lock(t)] # <<>> /\ Head(queue[Lock(t)]) = t
Release(t) == queue' = [queue EXCEPT ![Lock(t)] = Tail(@)]

-----------------------------------------------------------------------------
(***************************************************************************)
(* session::search.  It may fail; a search that reports a failure of one   *)
(* source may still return what the other sources found, or nothing, and   *)
(* either counts as an answer.                                             *)
(***************************************************************************)
Searches(criteria) ==
    {[ok |-> TRUE, list |-> found] :
        found \in SUBSET {u \in offered : u.criteria = criteria}}
    \union {[ok |-> FALSE, list |-> {}]}

(***************************************************************************)
(* A scan: get_or_run under the lock, then the part of the list the        *)
(* backend owns.                                                           *)
(***************************************************************************)
\* What the applies of a kind's criteria that have returned have installed.
Settled(criteria) ==
    {u \in present : \E i \in installs : /\ i.update = u /\ u.criteria = criteria
                                         /\ \A t \in Applies : i.by = t => task[t].pc = "idle"}

BeginScan(t, kind) ==
    /\ task[t].pc = "idle"
    /\ task' = [task EXCEPT ![t] =
                  [Call(kind, "locking") EXCEPT !.before = Settled(CriteriaOf(kind))]]
    /\ queue' = [queue EXCEPT ![CriteriaOf(kind)] = Append(@, t)]
    /\ UNCHANGED <<slot, windows, installs>>

Listed(t, list) == {u \in list : Owns(task[t].kind, u)}

\* The answer another scan got within the last SHARED_SEARCH_TTL.
Reuse(t) ==
    /\ task[t].pc = "locking" /\ Holds(t)
    /\ slot[Lock(t)].kept /\ slot[Lock(t)].young
    /\ task' = [task EXCEPT ![t].pc = "listed", ![t].list = Listed(t, slot[Lock(t)].list)]
    /\ Release(t)
    /\ UNCHANGED <<slot, windows, installs>>

\* Windows answers some time after it was asked; what it found is of the time of asking.
Ask(t) ==
    /\ task[t].pc = "locking" /\ Holds(t)
    /\ ~(slot[Lock(t)].kept /\ slot[Lock(t)].young)
    /\ \E answer \in Searches(Lock(t)) :
          task' = [task EXCEPT ![t].pc = IF answer.ok THEN "answered" ELSE "refused",
                               ![t].list = answer.list]
    /\ UNCHANGED <<shared, windows, installs>>

Keep(t) ==
    /\ task[t].pc = "answered"
    /\ slot' = [slot EXCEPT ![Lock(t)] = Kept(task[t].list, TRUE)]
    /\ task' = [task EXCEPT ![t].pc = "listed", ![t].list = Listed(t, task[t].list)]
    /\ Release(t)
    /\ UNCHANGED <<windows, installs>>

\* Mutant: a failure leaves the lock taken.
RefuseForEver(t) ==
    /\ task[t].pc = "refused"
    /\ End(t)
    /\ UNCHANGED <<shared, windows, installs>>

\* A failure is not kept, and the guard is dropped with it.
Refuse(t) ==
    /\ task[t].pc = "refused"
    /\ End(t) /\ Release(t)
    /\ UNCHANGED <<slot, windows, installs>>

EndScan(t) ==
    /\ task[t].pc = "listed" /\ t \in Scans
    /\ End(t)
    /\ UNCHANGED <<shared, windows, installs>>

-----------------------------------------------------------------------------
(***************************************************************************)
(* An apply: the class check of the software kinds, install_and_forget,    *)
(* and the read-back.  The candidate comes from outside the process and    *)
(* may name any update and any kind.                                       *)
(***************************************************************************)
BeginApply(t, kind, u) ==
    /\ task[t].pc = "idle"
    /\ LET first == IF kind = "WindowsDrivers" THEN "installing" ELSE "checking"
       IN  task' = [task EXCEPT ![t] = [Call(kind, first) EXCEPT !.update = {u}]]
    /\ UNCHANGED <<shared, windows, installs>>

\* Mutant: what the front end sent is trusted.
CheckOffered(t) ==
    /\ task[t].pc = "checking"
    /\ \E answer \in Searches("Software") :
          IF task[t].update \cap answer.list # {} THEN To(t, "installing") ELSE End(t)
    /\ UNCHANGED <<shared, windows, installs>>

CheckOwner(t) ==
    /\ task[t].pc = "checking"
    /\ \E answer \in Searches("Software") :
          LET mine == {u \in answer.list : u \in task[t].update /\ Owns(task[t].kind, u)}
          IN  IF mine # {} THEN To(t, "installing") ELSE End(t)
    /\ UNCHANGED <<shared, windows, installs>>

\* session::install searches again, so that what was superseded is refused.
FindAgain(t) ==
    /\ task[t].pc = "installing"
    /\ \E answer \in Searches(Lock(t)) :
          To(t, IF task[t].update \cap answer.list # {} THEN "found" ELSE "forgetting, failed")
    /\ UNCHANGED <<shared, windows, installs>>

\* The licence, then the download of what Windows has not downloaded yet; each may
\* fail, and neither changes what is offered.
Fetch(t) ==
    /\ task[t].pc = "found"
    /\ \E next \in {"downloaded", "forgetting, failed"} : To(t, next)
    /\ UNCHANGED <<shared, windows, installs>>

\* Whether the install took and whether the code says so are two things; an update
\* that is no longer offered is not installed.
RunInstall(t) ==
    /\ task[t].pc = "downloaded"
    /\ \/ /\ task[t].update \subseteq offered
          /\ present' = present \union task[t].update
          /\ offered' = offered \ task[t].update
          /\ installs' = installs \union
                {[by |-> t, kind |-> task[t].kind, update |-> u] : u \in task[t].update}
       \/ UNCHANGED <<present, offered, installs>>
    /\ \E verdict \in {"forgetting, done", "forgetting, failed"} : To(t, verdict)
    /\ UNCHANGED shared

\* SharedSearch::forget waits for the lock, whatever the install came to.
AwaitForget(t) ==
    /\ task[t].pc \in {"forgetting, done", "forgetting, failed"}
    /\ \A i \in DOMAIN queue[Lock(t)] : queue[Lock(t)][i] # t
    /\ queue' = [queue EXCEPT ![Lock(t)] = Append(@, t)]
    /\ UNCHANGED <<slot, windows, task, installs>>

\* Mutant: the result is only dropped after an install that is known to have worked.
ForgetSuccesses(t) ==
    /\ task[t].pc \in {"forgetting, done", "forgetting, failed"} /\ Holds(t)
    /\ slot' = [slot EXCEPT ![Lock(t)] = IF task[t].pc = "forgetting, done" THEN NoResult ELSE @]
    /\ Release(t)
    /\ IF task[t].pc = "forgetting, done" THEN To(t, "confirming") ELSE End(t)
    /\ UNCHANGED <<windows, installs>>

Forget(t) ==
    /\ task[t].pc \in {"forgetting, done", "forgetting, failed"} /\ Holds(t)
    /\ slot' = [slot EXCEPT ![Lock(t)] = NoResult]
    /\ Release(t)
    /\ IF task[t].pc = "forgetting, done" THEN To(t, "confirming") ELSE End(t)
    /\ UNCHANGED <<windows, installs>>

\* installed_version: an update Windows has stopped offering counts as installed.
Confirm(t) ==
    /\ task[t].pc = "confirming"
    /\ \E answer \in Searches(Lock(t)) :
          IF answer.ok /\ task[t].update \cap answer.list = {} THEN To(t, "confirmed") ELSE End(t)
    /\ UNCHANGED <<shared, windows, installs>>

EndApply(t) ==
    /\ task[t].pc = "confirmed" /\ End(t)
    /\ UNCHANGED <<shared, windows, installs>>

-----------------------------------------------------------------------------
\* SHARED_SEARCH_TTL passes.
Expire(criteria) ==
    /\ slot[criteria].kept /\ slot[criteria].young
    /\ slot' = [slot EXCEPT ![criteria].young = FALSE]
    /\ UNCHANGED <<queue, task, windows, installs>>

\* A new revision replaces the one before it.
Offer(u) ==
    /\ u \notin offered /\ u \notin present
    /\ offered' = {o \in offered : o.id # u.id} \union {u}
    /\ UNCHANGED <<shared, present, task, installs>>

Withdraw(u) ==
    /\ u \in offered
    /\ offered' = offered \ {u}
    /\ UNCHANGED <<shared, present, task, installs>>

InstalledByWindows(u) ==
    /\ u \in offered
    /\ offered' = offered \ {u} /\ present' = present \union {u}
    /\ UNCHANGED <<shared, task, installs>>

-----------------------------------------------------------------------------
Init ==
    /\ offered \in SUBSET Updates /\ present = {}
    /\ \A u, v \in offered : u.id = v.id => u = v
    /\ slot = [c \in Criteria |-> NoResult]
    /\ queue = [c \in Criteria |-> <<>>]
    /\ task = [t \in Tasks |-> Idle]
    /\ installs = {}

Scan(t)  == Reuse(t) \/ Ask(t) \/ Keep(t) \/ Refuse(t) \/ EndScan(t)
Apply(t) == \/ CheckOwner(t) \/ FindAgain(t) \/ Fetch(t) \/ RunInstall(t)
            \/ AwaitForget(t) \/ Forget(t) \/ Confirm(t) \/ EndApply(t)

Next ==
    \/ \E t \in Scans, kind \in Backends : BeginScan(t, kind)
    \/ \E t \in Scans : Scan(t)
    \/ \E t \in Applies, kind \in Backends, u \in Updates : BeginApply(t, kind, u)
    \/ \E t \in Applies : Apply(t)
    \/ \E c \in Criteria : Expire(c)
    \/ \E u \in Updates : Offer(u) \/ Withdraw(u) \/ InstalledByWindows(u)

Spec ==
    /\ Init /\ [][Next]_vars
    /\ \A t \in Scans : WF_vars(Scan(t))
    /\ \A t \in Applies : WF_vars(Apply(t))
-----------------------------------------------------------------------------
TaskStates == {"idle", "locking", "answered", "refused", "listed", "checking", "installing",
               "found", "downloaded", "forgetting, done", "forgetting, failed",
               "confirming", "confirmed"}

SlotStates == {NoResult} \union
                  {Kept(list, young) : list \in SUBSET Updates, young \in BOOLEAN}

\* The variables hold what they are meant to hold: an update that is present is no
\* longer offered, a revision replaces the one before, nobody queues twice.
TypeOK ==
    /\ offered \subseteq Updates /\ present \subseteq Updates \ offered
    /\ \A u, v \in offered : u.id = v.id => u = v
    /\ slot \in [Criteria -> SlotStates]
    /\ queue \in [Criteria -> Seq(Tasks)]
    /\ \A c \in Criteria : \A i, j \in DOMAIN queue[c] : queue[c][i] = queue[c][j] => i = j
    /\ task \in [Tasks -> [kind : Kinds, pc : TaskStates, update : SUBSET Updates,
                           list : SUBSET Updates, before : SUBSET Updates]]
    /\ installs \subseteq [by : Applies, kind : Kinds, update : Updates]

(***************************************************************************)
(* The shared search is never older than an install: a scan that begins    *)
(* after install_and_forget has returned does not list what it installed,  *)
(* although searches run under a lock that installs do not take, and an    *)
(* answer may be under way while the install is.                           *)
(***************************************************************************)
ScansSeeInstalls ==
    \A t \in Scans : task[t].pc = "listed" => task[t].list \cap task[t].before = {}

(***************************************************************************)
(* Whatever candidate comes back from the front end, no backend over the   *)
(* software search installs what another is there for: a Windows upgrade   *)
(* in particular is only installed by the backend a user has to switch on. *)
(***************************************************************************)
InstalledByItsOwner ==
    \A i \in installs : i.kind # "WindowsDrivers" =>
        Owns(i.kind, i.update) /\ i.update.criteria = "Software"

\* Every scan and every apply ends: the lock goes round, whatever Windows answers.
EveryoneIsServed == \A t \in Tasks : task[t].pc # "idle" ~> task[t].pc = "idle"
=============================================================================
