------------------------------ MODULE Schedule ------------------------------
(***************************************************************************)
(* The schedule of unattended runs (odysync-backends/src/scheduler.rs):    *)
(* schtasks on Windows, a property list and launchctl on macOS, two unit   *)
(* files and systemctl on Linux.  Created, asked about and removed by the  *)
(* desktop program and by the command line, one at a time; each call may   *)
(* fail, and the program may be killed between any two.                    *)
(***************************************************************************)
EXTENDS Naturals

CONSTANTS
    Managers,     \* the schedulers to look at, of "schtasks", "launchd" and "systemd"
    Times,        \* when a schedule may run
    Verbs         \* what it may run: "apply" and "care"

VARIABLES
    manager,      \* the scheduler of this machine
    unit,         \* what its files, or its own store, say
    loaded,       \* what it runs until the user signs out
    enabled,      \* whether systemd starts the timer at sign-in
    op,           \* the call under way
    promise       \* what the last answer has promised

scheduleVars == <<manager, unit, loaded, enabled, op, promise>>

NoPart   == "no part"
Cut      == "cut"
Specs    == [time : Times, verb : Verbs]
NoUnit   == [time |-> NoPart, verb |-> NoPart]
NoOp     == [pc |-> "none", spec |-> NoUnit, reports |-> TRUE, took |-> FALSE]
Uses(m)  == manager = m
Step(pc) == op.pc = pc
Go(pc)   == op' = [op EXCEPT !.pc = pc]
Answer(what) == op' = NoOp /\ promise' = what

\* What the files come to: they have to be whole, and all there.
Effective == IF unit \in Specs THEN unit ELSE NoUnit
AtSignIn  == IF Uses("systemd") /\ ~enabled THEN NoUnit ELSE Effective

\* What an answer promises, beside a schedule and that there is none: nothing, for a call is
\* under way or has failed; that it was removed, though every call that takes it from the next
\* sign-in has failed and none was looked at; that none is there, of a query that has failed.
Open    == [time |-> "open", verb |-> "open"]
Unheard == [time |-> "unheard", verb |-> "unheard"]
NotSeen == [time |-> "not seen", verb |-> "not seen"]

\* schedule_exists: a query that fails or that takes too long is answered as none is there.
Exists(answered) == answered /\ unit.time # NoPart

-----------------------------------------------------------------------------
(* create_schedule.                                                        *)

BeginCreate(spec) ==
    /\ Step("none")
    /\ op' = [NoOp EXCEPT !.spec = spec,
                          !.pc = IF Uses("schtasks") THEN "registering"
                                 ELSE IF Uses("launchd") THEN "writing" ELSE "writing service"]
    /\ promise' = Open
    /\ UNCHANGED <<manager, unit, loaded, enabled>>

\* schtasks /Create /F.
Register ==
    /\ Step("registering")
    /\ unit' = op.spec /\ loaded' = op.spec
    /\ Answer(op.spec)
    /\ UNCHANGED <<manager, enabled>>

\* fs::write of one file, which may leave a part of it.
WriteFile(from, next, new) ==
    /\ Step(from)
    /\ \/ unit' = new /\ Go(next)
       \/ /\ op' = NoOp
          /\ unit' = [part \in {"time", "verb"} |->
                          IF new[part] = unit[part] THEN unit[part] ELSE Cut]
    /\ UNCHANGED <<manager, loaded, enabled, promise>>

WritePlist   == WriteFile("writing", "loading", op.spec)
WriteService == WriteFile("writing service", "writing timer", [unit EXCEPT !.verb = op.spec.verb])
WriteTimer   == WriteFile("writing timer", "reloading", [unit EXCEPT !.time = op.spec.time])

\* launchctl load: of a name that is loaded already the old job stays, and that is no failure.
Load ==
    /\ Step("loading")
    /\ loaded' = IF loaded = NoUnit THEN op.spec ELSE loaded
    /\ Answer(op.spec)
    /\ UNCHANGED <<manager, unit, enabled>>

\* systemctl daemon-reload: a timer that runs follows its files.
Reloaded == IF loaded = NoUnit THEN NoUnit ELSE Effective

Reload ==
    /\ Step("reloading")
    /\ loaded' = Reloaded
    /\ Go("enabling")
    /\ UNCHANGED <<manager, unit, enabled, promise>>

\* Mutant: the timer is started and not enabled.
EnableTimerLater ==
    /\ Step("enabling")
    /\ Go("starting")
    /\ UNCHANGED <<manager, unit, loaded, enabled, promise>>

EnableTimer ==
    /\ Step("enabling")
    /\ enabled' = TRUE
    /\ Go("starting")
    /\ UNCHANGED <<manager, unit, loaded, promise>>

StartTimer ==
    /\ Step("starting")
    /\ loaded' = Effective
    /\ Answer(op.spec)
    /\ UNCHANGED <<manager, unit, enabled>>

-----------------------------------------------------------------------------
(* remove_schedule, and schedule_exists before it or by itself.            *)

NoneFound(answered) ==
    /\ Step("none") /\ ~Exists(answered)
    /\ promise' = IF unit.time = NoPart THEN NoUnit ELSE NotSeen
    /\ UNCHANGED <<manager, unit, loaded, enabled, op>>

\* The page hears of a failure, the command line does not.
BeginRemove(reports) ==
    /\ Step("none") /\ Exists(TRUE)
    /\ op' = [NoOp EXCEPT !.reports = reports,
                          !.pc = IF Uses("schtasks") THEN "deleting"
                                 ELSE IF Uses("launchd") THEN "unloading" ELSE "disabling"]
    /\ promise' = Open
    /\ UNCHANGED <<manager, unit, loaded, enabled>>

Removed(took) == IF took THEN NoUnit ELSE Unheard

\* schtasks /Delete; for a running schedule of another user, say, it fails.
Delete(ok) ==
    /\ Step("deleting")
    /\ IF ok THEN unit' = NoUnit /\ loaded' = NoUnit ELSE UNCHANGED <<unit, loaded>>
    /\ Answer(IF ~ok /\ op.reports THEN Open ELSE Removed(ok))
    /\ UNCHANGED <<manager, enabled>>

\* What a failure of launchctl unload or of systemctl leaves is not looked at.  unload reads
\* the name of the job in the file.
Unload(ok) ==
    /\ Step("unloading")
    /\ ok => Effective # NoUnit
    /\ loaded' = IF ok THEN NoUnit ELSE loaded
    /\ Go("removing")
    /\ UNCHANGED <<manager, unit, enabled, promise>>

RemovePlist(ok) ==
    /\ Step("removing")
    /\ unit' = IF ok THEN NoUnit ELSE unit
    /\ Answer(IF ~ok /\ op.reports THEN Open ELSE Removed(ok))
    /\ UNCHANGED <<manager, loaded, enabled>>

TakesAway(ok, next) == op' = [op EXCEPT !.pc = next, !.took = @ \/ ok]

DisableTimer(ok) ==
    /\ Step("disabling")
    /\ enabled' = (enabled /\ ~ok)
    /\ TakesAway(ok, "stopping")
    /\ UNCHANGED <<manager, unit, loaded, promise>>

StopTimer(ok) ==
    /\ Step("stopping")
    /\ loaded' = IF ok THEN NoUnit ELSE loaded
    /\ Go("removing timer")
    /\ UNCHANGED <<manager, unit, enabled, promise>>

RemoveUnit(from, next, part, ok) ==
    /\ Step(from)
    /\ unit' = IF ok THEN [unit EXCEPT ![part] = NoPart] ELSE unit
    /\ TakesAway(ok, next)
    /\ UNCHANGED <<manager, loaded, enabled, promise>>

\* A timer whose service is gone runs nothing.
ReloadAfter(ok) ==
    /\ Step("reloading after")
    /\ loaded' = IF ok THEN Reloaded ELSE loaded
    /\ Answer(Removed(op.took))
    /\ UNCHANGED <<manager, unit, enabled>>

-----------------------------------------------------------------------------
\* A call of creating fails, or the program is killed.
OpFails ==
    /\ ~Step("none") /\ op' = NoOp
    /\ UNCHANGED <<manager, unit, loaded, enabled, promise>>

\* The user signs out and in again, or the machine restarts.
SignIn ==
    /\ loaded' = AtSignIn /\ op' = NoOp
    /\ UNCHANGED <<manager, unit, enabled, promise>>

ScheduleInit ==
    /\ manager \in Managers
    /\ unit = NoUnit /\ loaded = NoUnit /\ enabled = FALSE
    /\ op = NoOp /\ promise = Open

ScheduleNext ==
    \/ \E spec \in Specs : BeginCreate(spec)
    \/ Register \/ WritePlist \/ Load
    \/ WriteService \/ WriteTimer \/ Reload \/ EnableTimer \/ StartTimer
    \/ \E answered \in BOOLEAN : NoneFound(answered)
    \/ \E reports \in BOOLEAN : BeginRemove(reports)
    \/ \E ok \in BOOLEAN :
        \/ Delete(ok) \/ Unload(ok) \/ RemovePlist(ok)
        \/ DisableTimer(ok) \/ StopTimer(ok)
        \/ RemoveUnit("removing timer", "removing service", "time", ok)
        \/ RemoveUnit("removing service", "reloading after", "verb", ok)
        \/ ReloadAfter(ok)
    \/ OpFails \/ SignIn

ScheduleSpec == ScheduleInit /\ [][ScheduleNext]_scheduleVars
-----------------------------------------------------------------------------
(***************************************************************************)
(* What was answered holds: once a schedule was reported as created it     *)
(* runs as it was asked for after every sign-in, and until the next one    *)
(* too, but that launchd may run an older job of the name; once it was     *)
(* reported as removed, and one of the calls that take it from the next    *)
(* sign-in has worked, whatever became of the others, nothing runs then.   *)
(***************************************************************************)
AnswersHold ==
    /\ promise \in Specs =>
           /\ AtSignIn = promise
           /\ loaded = promise \/ (Uses("launchd") /\ loaded \in Specs)
    /\ promise = NoUnit => AtSignIn = NoUnit

\* Nothing starts at the next sign-in once it was answered that the schedule was removed.
RemovedIsGone == promise \in {NoUnit, Unheard} => AtSignIn = NoUnit
=============================================================================
