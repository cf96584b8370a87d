------------------------------- MODULE Runner -------------------------------
(***************************************************************************)
(* Runner::run_with_progress (crates/odysync-core/src/runner.rs): applies  *)
(* the entries of a plan in order, retries transient errors, reads every   *)
(* version back, and writes a report, a history and a progress bar.        *)
(*                                                                         *)
(* A step is the code between two awaits.  Around the run the machine has  *)
(* a life of its own: other programs install and remove packages, an       *)
(* installer whose parent was killed at its timeout may still finish, and  *)
(* the process may die at any await.                                       *)
(***************************************************************************)
EXTENDS Versions, FiniteSets

CONSTANTS
    Raws, ParseOf,     \* version strings, and what Version::parse makes of them
    Packages,
    Jobs,              \* the plans and options a run may be given
    HistoryCap         \* UpdateHistory::max_entries, 500 in the code

ASSUME RawsAssumption == ParseOf \in [Raws -> Version]
ASSUME HistoryCapAssumption == HistoryCap \in Nat \ {0}

Statuses == {"Updated", "DidNotConverge", "Failed", "Skipped"}

\* An entry as Policy::plan made it: what it is about, whether the policy blocked
\* it, whether a backend for it is registered, and from which version to which.
Entry   == [pkg : Packages, blocked : BOOLEAN, served : BOOLEAN, from : Raws, to : Raws]
Outcome == [status : Statuses, raw : Raws]
LogLine == [pkg : Packages, status : Statuses]
Job     == [plan : Seq(Entry), dry_run : BOOLEAN, restore_point : BOOLEAN,
            keeps_history : BOOLEAN, old : Seq(LogLine), max_retries : Nat]

ASSUME JobsAssumption == Jobs \subseteq Job

VARIABLES
    job,            \* constant during the run
    pc,             \* "start", "next", "applying", "asleep", "confirming", "saving",
                    \* "done" or "crashed"
    attempt,        \* apply_with_retry's loop variable
    answers,        \* what backend.apply answered for the current entry, oldest first
    report,         \* RunReport::entries
    log, disk,      \* the history in memory and as history.json would load
    bar,            \* the last progress event: items done, and its phase
    reboot_required,
    installed,      \* the raw version of each package on the machine
    orphans,        \* entries whose apply timed out with its installer still running
    pending         \* the machine wants a restart

vars == <<job, pc, attempt, answers, report, log, disk, bar, reboot_required,
          installed, orphans, pending>>

machine == <<installed, orphans, pending>>

-----------------------------------------------------------------------------
Actionable(entry) == ~entry.blocked

HasActionable(plan) == \E i \in DOMAIN plan : Actionable(plan[i])

Total(plan) == Cardinality({i \in DOMAIN plan : Actionable(plan[i])})

\* The entries the loop has dealt with and really tried to apply.
Tried(n) ==
    {i \in DOMAIN job.plan :
        i <= n /\ Actionable(job.plan[i]) /\ job.plan[i].served /\ ~job.dry_run}

AtLeast(approved, raw) ==
    IF Compare(ParseOf[approved], ParseOf[raw]) = "None" THEN approved = raw
    ELSE Compare(ParseOf[approved], ParseOf[raw]) # "Greater"

\* Mutant: the trim drops from the wrong end.
OldestLines(lines) ==
    IF Len(lines) > HistoryCap THEN SubSeq(lines, 1, HistoryCap) ELSE lines

\* UpdateHistory::record keeps the newest entries.
Newest(lines) ==
    IF Len(lines) > HistoryCap
    THEN SubSeq(lines, Len(lines) - HistoryCap + 1, Len(lines)) ELSE lines

Running == pc \notin {"done", "crashed"}
At(label, i) == pc = label /\ i = Len(report) + 1 /\ i <= Len(job.plan)

-----------------------------------------------------------------------------
\* RestorePointGuard::new: whatever comes of it is only logged.
RestorePoint ==
    /\ pc = "start"
    /\ pc' = "next"
    /\ UNCHANGED <<job, attempt, answers, report, log, disk, bar, reboot_required, machine>>

\* The three entries that are reported without running anything.
Report(i, outcome) ==
    /\ At("next", i)
    /\ report' = Append(report, outcome)
    /\ UNCHANGED <<job, pc, attempt, answers, log, disk, bar, reboot_required, machine>>

Skip(i) ==
    /\ At("next", i) /\ job.plan[i].blocked
    /\ Report(i, [status |-> "Skipped", raw |-> job.plan[i].to])

NoBackend(i) ==
    /\ At("next", i) /\ Actionable(job.plan[i]) /\ ~job.plan[i].served
    /\ Report(i, [status |-> "Failed", raw |-> job.plan[i].to])

DryRun(i) ==
    /\ At("next", i) /\ Actionable(job.plan[i]) /\ job.plan[i].served /\ job.dry_run
    /\ Report(i, [status |-> "Updated", raw |-> job.plan[i].to])

\* Mutant: the early return for blocked entries is gone.
BeginThoughBlocked(i) ==
    /\ At("next", i) /\ job.plan[i].served /\ ~job.dry_run
    /\ bar' = [done |-> bar.done, phase |-> "installing"]
    /\ attempt' = 0 /\ answers' = <<>>
    /\ pc' = "applying"
    /\ UNCHANGED <<job, report, log, disk, reboot_required, machine>>

Begin(i) ==
    /\ At("next", i) /\ Actionable(job.plan[i]) /\ job.plan[i].served /\ ~job.dry_run
    /\ bar' = [done |-> bar.done, phase |-> "installing"]
    /\ attempt' = 0 /\ answers' = <<>>
    /\ pc' = "applying"
    /\ UNCHANGED <<job, report, log, disk, reboot_required, machine>>

-----------------------------------------------------------------------------
(* backend.apply.  By its contract a backend installs the target version;  *)
(* the runner also expects one that installs nothing, or a later version   *)
(* than it was asked for.  An error does not mean that nothing changed.    *)

MayLand(entry) ==
    {installed[entry.pkg], entry.to}
    \union {raw \in Raws : Compare(ParseOf[entry.to], ParseOf[raw]) = "Less"}

Touch(entry) ==
    /\ \E raw \in MayLand(entry) : installed' = [installed EXCEPT ![entry.pkg] = raw]
    /\ pending' \in {pending, TRUE}

\* What follows the loop of apply_with_retry: history, report, progress.
Record(i, outcome) ==
    /\ log' = IF job.keeps_history
              THEN Newest(Append(log, [pkg |-> job.plan[i].pkg, status |-> outcome.status]))
              ELSE log
    /\ report' = Append(report, outcome)
    /\ bar' = [done |-> bar.done + 1, phase |-> "installing"]
    /\ pc' = "next"
    /\ UNCHANGED <<job, disk, reboot_required>>

ApplyOk(i) ==
    /\ At("applying", i)
    /\ Touch(job.plan[i])
    /\ answers' = Append(answers, "ok")
    /\ pc' = "confirming"
    /\ UNCHANGED <<job, attempt, report, log, disk, bar, reboot_required, orphans>>

\* Mutant: one retry too many.
ApplyTransientOnceMore(i) ==
    /\ At("applying", i) /\ attempt <= job.max_retries
    /\ Touch(job.plan[i])
    /\ answers' = Append(answers, "transient")
    /\ pc' = "asleep"
    /\ UNCHANGED <<job, attempt, report, log, disk, bar, reboot_required, orphans>>

\* Mutant: every error is worth a retry.
RetryAnyError(i) ==
    /\ At("applying", i) /\ attempt < job.max_retries
    /\ Touch(job.plan[i])
    /\ \E answer \in {"transient", "failed"} : answers' = Append(answers, answer)
    /\ pc' = "asleep"
    /\ UNCHANGED <<job, attempt, report, log, disk, bar, reboot_required, orphans>>

\* A retryable error with attempts left.  One of them is the command timeout: the
\* child is killed, but what the child has started is not.
ApplyTransient(i) ==
    /\ At("applying", i) /\ attempt < job.max_retries
    /\ Touch(job.plan[i])
    /\ orphans' \in {orphans, orphans \union {i}}
    /\ answers' = Append(answers, "transient")
    /\ pc' = "asleep"
    /\ UNCHANGED <<job, attempt, report, log, disk, bar, reboot_required>>

\* The backoff of 1, 2, 4, ... seconds is over.
Wake(i) ==
    /\ At("asleep", i)
    /\ attempt' = attempt + 1
    /\ pc' = "applying"
    /\ UNCHANGED <<job, answers, report, log, disk, bar, reboot_required, machine>>

\* An error that is not retryable, or a retryable one on the last attempt.
ApplyFailed(i, answer) ==
    /\ At("applying", i)
    /\ answer = "transient" => attempt = job.max_retries
    /\ Touch(job.plan[i])
    /\ orphans' \in {orphans, IF answer = "transient" THEN orphans \union {i} ELSE orphans}
    /\ answers' = Append(answers, answer)
    /\ Record(i, [status |-> "Failed", raw |-> job.plan[i].to])
    /\ UNCHANGED attempt

\* Mutant: exit code 0 alone is success.
ConfirmByExitCode(i) ==
    /\ At("confirming", i)
    /\ Record(i, [status |-> "Updated", raw |-> job.plan[i].to])
    /\ UNCHANGED <<attempt, answers, machine>>

\* confirm: the version is read back.
Confirm(i) ==
    LET raw == installed[job.plan[i].pkg]
    IN  /\ At("confirming", i)
        /\ Record(i, [status |-> IF AtLeast(job.plan[i].to, raw) THEN "Updated"
                                 ELSE "DidNotConverge",
                      raw    |-> raw])
        /\ UNCHANGED <<attempt, answers, machine>>

\* confirm, when the backend cannot tell or the read fails.
Unreadable(i) ==
    /\ At("confirming", i)
    /\ Record(i, [status |-> "DidNotConverge", raw |-> job.plan[i].to])
    /\ UNCHANGED <<attempt, answers, machine>>

-----------------------------------------------------------------------------
\* After the loop.  UpdateHistory::save is a plain fs::write: the file is emptied,
\* then filled.  An error on the way is logged and nothing else.
Dealt == pc = "next" /\ Len(report) = Len(job.plan)

BeginSave ==
    /\ Dealt /\ job.keeps_history
    /\ disk' = <<>>
    /\ pc' = "saving"
    /\ UNCHANGED <<job, attempt, answers, report, log, bar, reboot_required, machine>>

\* The end of the run: reboot_pending, the terminal event, report.finish().
Settle ==
    /\ reboot_required' = (~job.dry_run /\ HasActionable(job.plan) /\ pending)
    /\ bar' = [done |-> bar.done, phase |-> "done"]
    /\ pc' = "done"
    /\ UNCHANGED <<job, attempt, answers, report, log, machine>>

\* Mutant: a history that cannot be written is tried again.
EndSaveTryingAgain ==
    /\ pc = "saving"
    /\ \/ disk' = log /\ Settle
       \/ /\ pc' = "next"
          /\ UNCHANGED <<job, attempt, answers, report, log, disk, bar, reboot_required, machine>>

EndSave ==
    /\ pc = "saving"
    /\ disk' \in {log, disk}           \* written, or the write failed half way
    /\ Settle

NoSave ==                               \* no history, or its file cannot be opened
    /\ Dealt
    /\ Settle
    /\ UNCHANGED disk

-----------------------------------------------------------------------------
(* The world around the run.                                               *)

\* The process is killed: the report and the history in memory are gone with it.
Crash ==
    /\ Running
    /\ pc' = "crashed"
    /\ UNCHANGED <<job, attempt, answers, report, log, disk, bar, reboot_required, machine>>

\* An installer that outlived its parent finishes.
OrphanLands(i) ==
    /\ i \in orphans
    /\ orphans' = orphans \ {i}
    /\ installed' = [installed EXCEPT ![job.plan[i].pkg] = job.plan[i].to]
    /\ UNCHANGED <<job, pc, attempt, answers, report, log, disk, bar, reboot_required, pending>>

\* A package that updates itself, an installer run by hand, an uninstall.
ChangedOutside(pkg, raw) ==
    /\ installed' = [installed EXCEPT ![pkg] = raw]
    /\ UNCHANGED <<job, pc, attempt, answers, report, log, disk, bar, reboot_required,
                   orphans, pending>>

-----------------------------------------------------------------------------
Init ==
    /\ job \in Jobs
    /\ pc = IF job.restore_point /\ ~job.dry_run /\ HasActionable(job.plan)
            THEN "start" ELSE "next"
    /\ attempt = 0 /\ answers = <<>>
    /\ report = <<>>
    /\ log = job.old /\ disk = job.old
    /\ bar = [done |-> 0, phase |-> "none"]
    /\ reboot_required = FALSE
    /\ installed \in [Packages -> Raws]    \* the plan may be minutes old by now
    /\ orphans = {}
    /\ pending \in BOOLEAN

EntryStep(i) ==
    \/ Skip(i) \/ NoBackend(i) \/ DryRun(i) \/ Begin(i)
    \/ ApplyOk(i) \/ ApplyTransient(i) \/ Wake(i)
    \/ \E answer \in {"transient", "failed"} : ApplyFailed(i, answer)
    \/ Confirm(i) \/ Unreadable(i)

RunStep ==
    \/ RestorePoint
    \/ \E i \in DOMAIN job.plan : EntryStep(i)
    \/ BeginSave \/ EndSave \/ NoSave

Outside == \E pkg \in Packages, raw \in Raws : ChangedOutside(pkg, raw)

Next ==
    \/ RunStep
    \/ Crash
    \/ \E i \in orphans : OrphanLands(i)
    \/ Outside

\* Every command a backend spawns is time-boxed and every sleep is finite, so the
\* run itself keeps moving.  Nothing is assumed of the world around it.
Spec == Init /\ [][Next]_vars /\ WF_vars(RunStep)

-----------------------------------------------------------------------------
TypeOK ==
    /\ job \in Jobs
    /\ pc \in {"start", "next", "applying", "asleep", "confirming", "saving", "done", "crashed"}
    /\ attempt \in 0..job.max_retries
    /\ answers \in Seq({"ok", "transient", "failed"})
    /\ report \in Seq(Outcome) /\ Len(report) <= Len(job.plan)
    /\ log \in Seq(LogLine) /\ disk \in Seq(LogLine)
    /\ bar \in [done : Nat, phase : {"none", "installing", "done"}]
    /\ reboot_required \in BOOLEAN
    /\ installed \in [Packages -> Raws]
    /\ orphans \subseteq DOMAIN job.plan
    /\ pending \in BOOLEAN

\* The retry loop: no package is asked for again once a backend has said yes or
\* given an error that is not worth retrying, nor more than max_retries times more;
\* and the read-back only ever follows a yes.
RetriesStop ==
    /\ Len(answers) <= job.max_retries + 1
    /\ \A n \in 1..Len(answers) : answers[n] # "transient" => n = Len(answers)
    /\ pc = "applying" => \A n \in 1..Len(answers) : answers[n] = "transient"
    /\ pc = "confirming" => Len(answers) > 0 /\ answers[Len(answers)] = "ok"

\* The history in memory is what was there before, followed by exactly the entries
\* of the report that were really tried, in their order, cut to the newest; and
\* history.json only ever holds the old history, the finished new one, or nothing.
Lines(n) == [i \in 1..n |-> [pkg |-> job.plan[i].pkg, status |-> report[i].status]]

TriedLines ==
    LET nth(k) == CHOOSE i \in Tried(Len(report)) :
                    Cardinality({j \in Tried(Len(report)) : j <= i}) = k
    IN  [k \in 1..Cardinality(Tried(Len(report))) |-> Lines(Len(report))[nth(k)]]

HistoryIsTheReport ==
    /\ LET all == IF job.keeps_history THEN job.old \o TriedLines ELSE job.old
       IN  /\ Len(log) = IF Len(all) > HistoryCap THEN HistoryCap ELSE Len(all)
           /\ \A k \in DOMAIN log : log[k] = all[Len(all) - Len(log) + k]
    /\ disk \in {<<>>, job.old, log}
    /\ disk # job.old => Len(report) = Len(job.plan)

\* The run and its orphans change a package only on behalf of an entry the policy
\* let through and never in a dry run, and only to the approved version or a later
\* one; an entry the run has not come to yet is left alone.
OnlyTheApproved ==
    [][\A pkg \in Packages :
          installed'[pkg] # installed[pkg] /\ ~Outside =>
             \E i \in Tried(Len(report) + 1) :
                 /\ job.plan[i].pkg = pkg
                 /\ AtLeast(job.plan[i].to, installed'[pkg])]_vars

\* A run that is not killed comes to an end, whatever its backends answer.
Terminates == <>~Running

\* What the caller is promised (module UpdateRun).
Phase == IF Running THEN "running" ELSE IF pc = "done" THEN "finished" ELSE "crashed"

Promised == INSTANCE UpdateRun WITH phase <- Phase

KeepsThePromise == Promised!Promise
=============================================================================
