----------------------------- MODULE UpdateRun ------------------------------
(***************************************************************************)
(* What a run of the updater promises whoever asked for it, without saying *)
(* how: the report answers the plan entry by entry and in order, until it  *)
(* is complete or the process dies; an entry is skipped exactly when the   *)
(* policy blocked it; and an entry that a real run calls "Updated" was     *)
(* seen on the machine at no less than the version that was approved.      *)
(*                                                                         *)
(* Module Runner implements this specification.                            *)
(***************************************************************************)
EXTENDS Versions

CONSTANTS Raws, ParseOf     \* version strings, and what Version::parse makes of them

VARIABLES
    job,           \* the plan and the options the run was asked for
    report,        \* the outcomes so far, one for each entry dealt with
    phase,         \* "running", "finished" or "crashed"
    installed      \* the raw version of each package on the machine

\* The two ways Runner::confirm accepts a version that was read back: at least
\* the approved one, or the same string when the two cannot be compared.
AtLeast(approved, raw) ==
    IF Compare(ParseOf[approved], ParseOf[raw]) = "None" THEN approved = raw
    ELSE Compare(ParseOf[approved], ParseOf[raw]) # "Greater"

Truthful(entry, outcome) ==
    /\ (outcome.status = "Skipped") <=> entry.blocked
    /\ outcome.status = "Updated" /\ ~job.dry_run =>
          AtLeast(entry.to, outcome.raw) /\ installed[entry.pkg] = outcome.raw

Outcomes == [status : {"Updated", "DidNotConverge", "Failed", "Skipped"}, raw : Raws]

Answer(outcome) ==
    /\ phase = "running" /\ Len(report) < Len(job.plan)
    /\ Truthful(job.plan[Len(report) + 1], outcome)
    /\ report' = Append(report, outcome)
    /\ UNCHANGED <<job, phase>>

Finish ==
    /\ phase = "running" /\ Len(report) = Len(job.plan)
    /\ phase' = "finished"
    /\ UNCHANGED <<job, report>>

Crash ==
    /\ phase = "running" /\ phase' = "crashed"
    /\ UNCHANGED <<job, report>>

PromiseInit == report = <<>> /\ phase = "running"

\* Whatever the run does, the machine may change with it or between its steps.
PromiseNext ==
    /\ installed' \in [DOMAIN installed -> Raws]
    /\ \/ \E outcome \in Outcomes : Answer(outcome)
       \/ Finish
       \/ Crash
       \/ UNCHANGED <<job, report, phase>>

Promise == PromiseInit /\ [][PromiseNext]_<<job, report, phase, installed>>
=============================================================================
