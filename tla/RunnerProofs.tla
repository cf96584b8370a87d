---------------------------- MODULE RunnerProofs ----------------------------
(***************************************************************************)
(* The safety of Runner for any packages, versions, plans, retry limits    *)
(* and history lengths.                                                    *)
(***************************************************************************)
EXTENDS Runner, FiniteSetTheorems, TLAPS

\* What TypeOK and RetriesStop need to be inductive: the number of answers is the
\* loop variable's value, and as long as the loop goes on they are all transient.
RetryLoop ==
    /\ pc = "applying" => Len(answers) = attempt /\ \A n \in 1..Len(answers) : answers[n] = "transient"
    /\ pc = "asleep" => /\ Len(answers) = attempt + 1
                        /\ attempt < job.max_retries
                        /\ \A n \in 1..Len(answers) : answers[n] = "transient"

Inv == TypeOK /\ RetriesStop /\ RetryLoop

LEMMA JobIsTyped ==
    ASSUME TypeOK
    PROVE  /\ job \in Jobs /\ job \in Job /\ job.max_retries \in Nat
           /\ job.plan \in Seq(Entry) /\ Len(job.plan) \in Nat
           /\ DOMAIN job.plan = 1..Len(job.plan)
           /\ \A i \in DOMAIN job.plan : job.plan[i] \in Entry
BY JobsAssumption DEF TypeOK, Job

LEMMA NewestIsTyped ==
    ASSUME NEW lines \in Seq(LogLine)
    PROVE  Newest(lines) \in Seq(LogLine)
<1>1. CASE Len(lines) > HistoryCap
  <2>1. /\ Len(lines) - HistoryCap + 1 \in 1..(Len(lines) + 1)
        /\ Len(lines) \in 0..Len(lines)
    BY <1>1, HistoryCapAssumption
  <2> QED
    BY <1>1, <2>1, HistoryCapAssumption DEF Newest
<1>2. CASE ~(Len(lines) > HistoryCap)
  BY <1>2 DEF Newest
<1> QED
  BY <1>1, <1>2

LEMMA TouchIsTyped ==
    ASSUME TypeOK, NEW entry \in Entry, Touch(entry)
    PROVE  installed' \in [Packages -> Raws] /\ pending' \in BOOLEAN
<1>1. PICK raw \in MayLand(entry) : installed' = [installed EXCEPT ![entry.pkg] = raw]
  BY DEF Touch
<1>2. raw \in Raws
  BY DEF MayLand, Entry, TypeOK
<1> QED
  BY <1>1, <1>2 DEF Touch, TypeOK

LEMMA RecordIsTyped ==
    ASSUME TypeOK, NEW i, i = Len(report) + 1, i <= Len(job.plan),
           NEW outcome \in Outcome, Record(i, outcome)
    PROVE  /\ report' \in Seq(Outcome) /\ Len(report') = Len(report) + 1
           /\ log' \in Seq(LogLine)
           /\ bar' \in [done : Nat, phase : {"none", "installing", "done"}]
           /\ job' = job /\ disk' = disk /\ reboot_required' = reboot_required
           /\ pc' = "next"
<1> DEFINE line == [pkg |-> job.plan[i].pkg, status |-> outcome.status]
<1>1. i \in DOMAIN job.plan
  BY JobIsTyped DEF TypeOK
<1>2. line \in LogLine
  BY <1>1, JobIsTyped DEF LogLine, Outcome, Entry
<1>3. Append(log, line) \in Seq(LogLine)
  BY <1>2 DEF TypeOK
<1>4. Newest(Append(log, line)) \in Seq(LogLine)
  BY <1>3, NewestIsTyped
<1>5. log' \in Seq(LogLine)
  BY <1>4 DEF Record, TypeOK
<1> QED
  BY <1>5 DEF Record, TypeOK

LEMMA InitInv == Init => Inv
<1> SUFFICES ASSUME Init PROVE Inv
  OBVIOUS
<1>1. job \in Job
  BY JobsAssumption DEF Init
<1>2. job.max_retries \in Nat /\ job.old \in Seq(LogLine) /\ Len(job.plan) \in Nat
  BY <1>1 DEF Job
<1>3. TypeOK
  <2>1. pc \in {"start", "next"}
    BY DEF Init
  <2>2. answers \in Seq({"ok", "transient", "failed"}) /\ report \in Seq(Outcome) /\ Len(report) = 0
    BY DEF Init
  <2>3. attempt \in 0..job.max_retries
    BY <1>2 DEF Init
  <2>4. bar \in [done : Nat, phase : {"none", "installing", "done"}]
    BY DEF Init
  <2>5. log \in Seq(LogLine) /\ disk \in Seq(LogLine)
    BY <1>2 DEF Init
  <2>6. /\ job \in Jobs /\ reboot_required \in BOOLEAN /\ installed \in [Packages -> Raws]
        /\ orphans \subseteq DOMAIN job.plan /\ pending \in BOOLEAN
    BY DEF Init
  <2>7. Len(report) <= Len(job.plan)
    BY <1>2, <2>2
  <2> QED
    BY <2>1, <2>2, <2>3, <2>4, <2>5, <2>6, <2>7 DEF TypeOK
<1>4. RetriesStop /\ RetryLoop
  BY <1>2 DEF Init, RetriesStop, RetryLoop
<1> QED
  BY <1>3, <1>4 DEF Inv

LEMMA EntryIsTyped ==
    ASSUME TypeOK, NEW i \in DOMAIN job.plan
    PROVE  /\ job.plan[i] \in Entry /\ job.plan[i].pkg \in Packages
           /\ job.plan[i].to \in Raws /\ i \in 1..Len(job.plan)
BY JobIsTyped DEF Entry

\* The steps that only append to the report.
LEMMA ReportInv ==
    ASSUME Inv, NEW i \in DOMAIN job.plan, NEW outcome \in Outcome, Report(i, outcome)
    PROVE  Inv'
<1>1. report' \in Seq(Outcome) /\ Len(report') = Len(report) + 1 /\ Len(report') <= Len(job.plan)
  BY DEF Inv, TypeOK, Report, At
<1>2. TypeOK'
  BY <1>1 DEF Inv, TypeOK, Report, machine
<1>3. RetriesStop' /\ RetryLoop'
  BY DEF Inv, RetriesStop, RetryLoop, Report
<1> QED
  BY <1>2, <1>3 DEF Inv

\* What is left to show of a step that ends the work on an entry.
LEMMA RecordInv ==
    ASSUME Inv, NEW i \in DOMAIN job.plan, i = Len(report) + 1,
           NEW outcome \in Outcome, Record(i, outcome),
           installed' \in [Packages -> Raws], pending' \in BOOLEAN,
           orphans' \subseteq DOMAIN job.plan, attempt' = attempt,
           answers' \in Seq({"ok", "transient", "failed"}),
           Len(answers') <= job.max_retries + 1,
           \A n \in 1..Len(answers') : answers'[n] # "transient" => n = Len(answers')
    PROVE  Inv'
<1>1. i <= Len(job.plan)
  BY EntryIsTyped DEF Inv
<1>2. TypeOK'
  BY <1>1, RecordIsTyped DEF Inv, TypeOK
<1>3. RetriesStop' /\ RetryLoop'
  BY DEF Record, RetriesStop, RetryLoop
<1> QED
  BY <1>2, <1>3 DEF Inv

LEMMA BeginInv ==
    ASSUME Inv, NEW i \in DOMAIN job.plan, Begin(i)
    PROVE  Inv'
<1>1. TypeOK'
  BY JobIsTyped DEF Inv, TypeOK, Begin, machine
<1>2. RetriesStop' /\ RetryLoop'
  BY JobIsTyped DEF Inv, Begin, RetriesStop, RetryLoop
<1> QED
  BY <1>1, <1>2 DEF Inv

LEMMA ApplyInv ==
    ASSUME Inv, NEW i \in DOMAIN job.plan,
           \/ ApplyOk(i) \/ ApplyTransient(i)
           \/ \E answer \in {"transient", "failed"} : ApplyFailed(i, answer)
    PROVE  Inv'
<1>1. /\ pc = "applying" /\ i = Len(report) + 1 /\ Touch(job.plan[i])
      /\ Len(answers) = attempt /\ \A n \in 1..Len(answers) : answers[n] = "transient"
  BY DEF Inv, RetryLoop, ApplyOk, ApplyTransient, ApplyFailed, At
<1>2. installed' \in [Packages -> Raws] /\ pending' \in BOOLEAN
  BY <1>1, EntryIsTyped, TouchIsTyped DEF Inv
<1>3. ASSUME NEW answer \in {"ok", "transient", "failed"}, answers' = Append(answers, answer)
      PROVE  /\ answers' \in Seq({"ok", "transient", "failed"})
             /\ Len(answers') = attempt + 1 /\ answers'[Len(answers')] = answer
             /\ \A n \in 1..Len(answers') : n # Len(answers') => answers'[n] = "transient"
             /\ Len(answers') <= job.max_retries + 1
  BY <1>1, <1>3, JobIsTyped DEF Inv, TypeOK
<1>4. CASE ApplyOk(i)
  <2>1. TypeOK'
    BY <1>2, <1>3, <1>4 DEF Inv, TypeOK, ApplyOk
  <2>2. RetriesStop' /\ RetryLoop'
    BY <1>3, <1>4, JobIsTyped DEF Inv, ApplyOk, RetriesStop, RetryLoop, TypeOK
  <2> QED
    BY <2>1, <2>2 DEF Inv
<1>5. CASE ApplyTransient(i)
  <2>1. TypeOK'
    BY <1>2, <1>3, <1>5 DEF Inv, TypeOK, ApplyTransient
  <2>2. RetriesStop' /\ RetryLoop'
    BY <1>3, <1>5, JobIsTyped DEF Inv, ApplyTransient, RetriesStop, RetryLoop, TypeOK
  <2> QED
    BY <2>1, <2>2 DEF Inv
<1>6. ASSUME NEW answer \in {"transient", "failed"}, ApplyFailed(i, answer)
      PROVE  Inv'
  <2> DEFINE outcome == [status |-> "Failed", raw |-> job.plan[i].to]
  <2>1. outcome \in Outcome
    BY EntryIsTyped DEF Inv, Outcome, Statuses
  <2>2. Record(i, outcome) /\ attempt' = attempt /\ answers' = Append(answers, answer)
    BY <1>6 DEF ApplyFailed
  <2>3. orphans' \subseteq DOMAIN job.plan
    BY <1>6 DEF ApplyFailed, Inv, TypeOK
  <2>4. \A n \in 1..Len(answers') : answers'[n] # "transient" => n = Len(answers')
    BY <1>3, <2>2
  <2> QED
    BY <1>1, <1>2, <1>3, <2>1, <2>2, <2>3, <2>4, RecordInv
<1> QED
  BY <1>4, <1>5, <1>6

LEMMA ConfirmInv ==
    ASSUME Inv, NEW i \in DOMAIN job.plan, Confirm(i) \/ Unreadable(i)
    PROVE  Inv'
<1>1. /\ i = Len(report) + 1
      /\ UNCHANGED <<attempt, answers, installed, orphans, pending>>
  BY DEF Confirm, Unreadable, At, machine
<1>2. \E outcome \in Outcome : Record(i, outcome)
  <2>1. job.plan[i].to \in Raws /\ installed[job.plan[i].pkg] \in Raws
    BY EntryIsTyped DEF Inv, TypeOK
  <2>2. [status |-> "DidNotConverge", raw |-> job.plan[i].to] \in Outcome
    BY <2>1 DEF Outcome, Statuses
  <2>3. \A status \in Statuses :
           [status |-> status, raw |-> installed[job.plan[i].pkg]] \in Outcome
    BY <2>1 DEF Outcome
  <2>4. "Updated" \in Statuses /\ "DidNotConverge" \in Statuses
    BY DEF Statuses
  <2> QED
    BY <2>2, <2>3, <2>4 DEF Confirm, Unreadable
<1> QED
  BY <1>1, <1>2, RecordInv DEF Inv, TypeOK, RetriesStop

\* Type correctness and the retry loop, step by step.
LEMMA NextInv == Inv /\ [Next]_vars => Inv'
<1> SUFFICES ASSUME Inv, [Next]_vars
             PROVE  Inv'
  OBVIOUS
<1>1. ASSUME NEW i \in DOMAIN job.plan, EntryStep(i)
      PROVE  Inv'
  <2>1. \A status \in Statuses : [status |-> status, raw |-> job.plan[i].to] \in Outcome
    BY EntryIsTyped DEF Inv, Outcome
  <2>2. CASE Skip(i) \/ NoBackend(i) \/ DryRun(i)
    BY <2>1, <2>2, ReportInv DEF Skip, NoBackend, DryRun, Statuses
  <2>3. CASE Begin(i)
    BY <2>3, BeginInv
  <2>4. CASE \/ ApplyOk(i) \/ ApplyTransient(i)
             \/ \E answer \in {"transient", "failed"} : ApplyFailed(i, answer)
    BY <2>4, ApplyInv
  <2>5. CASE Wake(i)
    <3>1. TypeOK'
      BY <2>5, JobIsTyped DEF Inv, TypeOK, RetryLoop, Wake, At, machine
    <3>2. RetriesStop' /\ RetryLoop'
      BY <2>5, JobIsTyped DEF Inv, TypeOK, RetriesStop, RetryLoop, Wake, At
    <3> QED
      BY <3>1, <3>2 DEF Inv
  <2>6. CASE Confirm(i) \/ Unreadable(i)
    BY <2>6, ConfirmInv
  <2> QED
    BY <1>1, <2>2, <2>3, <2>4, <2>5, <2>6 DEF EntryStep
<1>2. CASE RestorePoint \/ BeginSave \/ EndSave \/ NoSave \/ Crash
  <2>1. TypeOK'
    <3>1. CASE RestorePoint \/ BeginSave \/ Crash
      <4>1. pc' \in {"next", "saving", "crashed"} /\ disk' \in Seq(LogLine)
        BY <3>1, <<>> \in Seq(LogLine) DEF RestorePoint, BeginSave, Crash, Inv, TypeOK
      <4>2. UNCHANGED <<job, attempt, answers, report, log, bar, reboot_required, machine>>
        BY <3>1 DEF RestorePoint, BeginSave, Crash
      <4> QED
        BY <4>1, <4>2 DEF Inv, TypeOK, machine
    <3>2. CASE EndSave \/ NoSave
      <4>1. Settle /\ disk' \in {log, disk}
        BY <3>2 DEF EndSave, NoSave
      <4>2. reboot_required' \in BOOLEAN
        BY <4>1 DEF Settle
      <4>3. bar' \in [done : Nat, phase : {"none", "installing", "done"}] /\ pc' = "done"
        BY <4>1 DEF Settle, Inv, TypeOK
      <4>4. UNCHANGED <<job, attempt, answers, report, log, machine>>
        BY <4>1 DEF Settle
      <4> QED
        BY <4>1, <4>2, <4>3, <4>4 DEF Inv, TypeOK, machine
    <3> QED
      BY <1>2, <3>1, <3>2
  <2>2. RetriesStop' /\ RetryLoop'
    BY <1>2 DEF Inv, RetriesStop, RetryLoop, RestorePoint, BeginSave, EndSave, NoSave, Settle, Crash
  <2> QED
    BY <2>1, <2>2 DEF Inv
<1>3. ASSUME NEW i \in orphans, OrphanLands(i)
      PROVE  Inv'
  <2>1. i \in DOMAIN job.plan
    BY DEF Inv, TypeOK
  <2>2. job.plan[i].to \in Raws
    BY <2>1, EntryIsTyped DEF Inv
  <2>3. TypeOK'
    BY <1>3, <2>2 DEF Inv, TypeOK, OrphanLands
  <2>4. RetriesStop' /\ RetryLoop'
    BY <1>3 DEF Inv, RetriesStop, RetryLoop, OrphanLands
  <2> QED
    BY <2>3, <2>4 DEF Inv
<1>4. CASE Outside
  <2>1. TypeOK'
    BY <1>4 DEF Inv, TypeOK, Outside, ChangedOutside
  <2>2. RetriesStop' /\ RetryLoop'
    BY <1>4 DEF Inv, RetriesStop, RetryLoop, Outside, ChangedOutside
  <2> QED
    BY <2>1, <2>2 DEF Inv
<1>5. CASE UNCHANGED vars
  BY <1>5 DEF vars, Inv, TypeOK, RetriesStop, RetryLoop
<1> QED
  BY <1>1, <1>2, <1>3, <1>4, <1>5 DEF Next, RunStep

\* Every variable keeps its type, and the retry loop keeps its promise: no package
\* is asked for again after a yes or an error that is not worth retrying, nor more
\* than max_retries times more, whatever the limit and the plan.
THEOREM RunnerTypeOK == Spec => []TypeOK
<1>1. Inv => TypeOK
  BY DEF Inv
<1> QED
  BY <1>1, InitInv, NextInv, PTL DEF Spec

THEOREM RunnerRetriesStop == Spec => []RetriesStop
<1>1. Inv => RetriesStop
  BY DEF Inv
<1> QED
  BY <1>1, InitInv, NextInv, PTL DEF Spec

-----------------------------------------------------------------------------
(* Where the run stands: an entry is only worked on when it was let through *)
(* by the policy, and what a dead installer leaves behind belongs to one.   *)

Position ==
    /\ pc \in {"applying", "asleep", "confirming"} => Len(report) + 1 \in Tried(Len(report) + 1)
    /\ pc = "saving" => Len(report) = Len(job.plan)
    /\ orphans \subseteq Tried(Len(report) + 1)

LEMMA TriedGrows ==
    ASSUME NEW m \in Nat, NEW n \in Nat, m <= n, TypeOK
    PROVE  Tried(m) \subseteq Tried(n)
BY JobIsTyped DEF Tried

LEMMA TriedIsStable ==
    ASSUME job' = job, NEW n \in Nat
    PROVE  Tried(n)' = Tried(n)
BY DEF Tried, Actionable

LEMMA NextPosition == Inv /\ Position /\ [Next]_vars => Position'
<1> SUFFICES ASSUME Inv, Position, [Next]_vars
             PROVE  Position'
  OBVIOUS
<1>1. job' = job
  BY DEF Next, RunStep, EntryStep, Skip, NoBackend, DryRun, Report, Begin, ApplyOk,
         ApplyTransient, Wake, ApplyFailed, Confirm, Unreadable, Record, RestorePoint,
         BeginSave, EndSave, NoSave, Settle, Crash, OrphanLands, Outside, ChangedOutside, vars
<1>2. Len(report) \in Nat /\ Len(job.plan) \in Nat
  BY JobIsTyped DEF Inv, TypeOK
<1>3. ASSUME NEW i \in DOMAIN job.plan, EntryStep(i)
      PROVE  Position'
  <2>1. i = Len(report) + 1 /\ i <= Len(job.plan) /\ i \in Nat
    BY <1>2, <1>3 DEF EntryStep, Skip, NoBackend, DryRun, Begin, ApplyOk, ApplyTransient,
                 Wake, ApplyFailed, Confirm, Unreadable, At
  <2>2. ASSUME report' \in Seq(Outcome), Len(report') = Len(report) + 1, pc' = "next",
               orphans' \subseteq Tried(i)
        PROVE  Position'
    BY <1>1, <2>1, <2>2, TriedGrows, TriedIsStable DEF Position, Inv
  <2>3. CASE Skip(i) \/ NoBackend(i) \/ DryRun(i)
    <3>1. PICK outcome : Report(i, outcome)
      BY <2>3 DEF Skip, NoBackend, DryRun
    <3>2. Len(report') = Len(report) + 1 /\ pc' = "next" /\ orphans' = orphans
      BY <3>1 DEF Report, At, machine, Inv, TypeOK
    <3> QED
      BY <1>1, <2>1, <3>2, TriedGrows, TriedIsStable DEF Position, Inv
  <2>4. CASE Begin(i)
    <3>1. i \in Tried(i)
      BY <2>1, <2>4 DEF Begin, Tried
    <3> QED
      BY <1>1, <2>1, <2>4, <3>1, TriedIsStable DEF Begin, Position, machine
  <2>5. CASE ApplyOk(i) \/ ApplyTransient(i) \/ Wake(i)
    <3>1. i \in Tried(i)
      BY <2>1, <2>5 DEF ApplyOk, ApplyTransient, Wake, At, Position
    <3>2. /\ orphans' \subseteq orphans \union {i} /\ report' = report
          /\ pc' \in {"applying", "asleep", "confirming"}
      BY <2>5 DEF ApplyOk, ApplyTransient, Wake, machine
    <3> QED
      BY <1>1, <2>1, <3>1, <3>2, TriedIsStable DEF Position
  <2>6. CASE \/ \E answer \in {"transient", "failed"} : ApplyFailed(i, answer)
             \/ Confirm(i) \/ Unreadable(i)
    <3>1. i \in Tried(i)
      BY <2>1, <2>6 DEF ApplyFailed, Confirm, Unreadable, At, Position
    <3>2. orphans' \subseteq orphans \union {i}
      BY <2>6 DEF ApplyFailed, Confirm, Unreadable, machine
    <3>3. \E outcome : Record(i, outcome)
      BY <2>6 DEF ApplyFailed, Confirm, Unreadable
    <3>4. Len(report') = Len(report) + 1 /\ pc' = "next"
      BY <3>3 DEF Record, Inv, TypeOK
    <3> QED
      BY <1>1, <2>1, <3>1, <3>2, <3>4, TriedGrows, TriedIsStable DEF Position, Inv
  <2> QED
    BY <1>3, <2>3, <2>4, <2>5, <2>6 DEF EntryStep
<1>4. CASE RestorePoint \/ BeginSave \/ EndSave \/ NoSave \/ Crash
  <2>1. /\ UNCHANGED <<report, orphans>> /\ pc' \notin {"applying", "asleep", "confirming"}
        /\ pc' = "saving" => Len(report) = Len(job.plan)
    BY <1>4 DEF RestorePoint, BeginSave, EndSave, NoSave, Settle, Dealt, Crash, machine
  <2> QED
    BY <1>1, <1>2, <2>1, TriedIsStable DEF Position
<1>5. CASE (\E i \in orphans : OrphanLands(i)) \/ Outside \/ UNCHANGED vars
  <2>1. UNCHANGED <<report, pc>> /\ orphans' \subseteq orphans
    BY <1>5 DEF OrphanLands, Outside, ChangedOutside, vars
  <2> QED
    BY <1>1, <1>2, <2>1, TriedIsStable DEF Position
<1> QED
  BY <1>3, <1>4, <1>5 DEF Next, RunStep

LEMMA InitPosition == Init => Position
BY DEF Init, Position

-----------------------------------------------------------------------------
LEMMA StepIsApproved ==
    ASSUME Inv, Position, Next, ~Outside,
           NEW pkg \in Packages, installed'[pkg] # installed[pkg]
    PROVE  \E i \in Tried(Len(report) + 1) :
              job.plan[i].pkg = pkg /\ AtLeast(job.plan[i].to, installed'[pkg])
<1>1. ASSUME NEW raw \in Raws PROVE AtLeast(raw, raw)
  BY DEF AtLeast, Compare, Same, SameRelease
<1>2. ASSUME NEW i \in DOMAIN job.plan, EntryStep(i)
      PROVE  i \in Tried(Len(report) + 1) /\ job.plan[i].pkg = pkg
             /\ AtLeast(job.plan[i].to, installed'[pkg])
  <2>1. \/ ApplyOk(i) \/ ApplyTransient(i)
        \/ \E answer \in {"transient", "failed"} : ApplyFailed(i, answer)
    BY <1>2 DEF EntryStep, Skip, NoBackend, DryRun, Report, Begin, Wake, Confirm,
                Unreadable, machine
  <2>2. Touch(job.plan[i]) /\ i = Len(report) + 1 /\ pc = "applying"
    BY <2>1 DEF ApplyOk, ApplyTransient, ApplyFailed, At
  <2>3. PICK raw \in MayLand(job.plan[i]) :
            installed' = [installed EXCEPT ![job.plan[i].pkg] = raw]
    BY <2>2 DEF Touch
  <2>4. job.plan[i].pkg = pkg /\ installed'[pkg] = raw /\ raw # installed[pkg]
    BY <2>3, EntryIsTyped DEF Inv, TypeOK
  <2>5. raw = job.plan[i].to \/ Compare(ParseOf[job.plan[i].to], ParseOf[raw]) = "Less"
    BY <2>3, <2>4 DEF MayLand
  <2>6. AtLeast(job.plan[i].to, raw)
    BY <1>1, <2>5, EntryIsTyped DEF AtLeast, Inv
  <2> QED
    BY <2>2, <2>4, <2>6 DEF Position
<1>3. ASSUME NEW i \in orphans, OrphanLands(i)
      PROVE  i \in Tried(Len(report) + 1) /\ job.plan[i].pkg = pkg
             /\ AtLeast(job.plan[i].to, installed'[pkg])
  <2>1. i \in Tried(Len(report) + 1) /\ i \in DOMAIN job.plan
    BY DEF Position, Inv, TypeOK
  <2>2. job.plan[i].pkg = pkg /\ installed'[pkg] = job.plan[i].to
    BY <1>3, <2>1, EntryIsTyped DEF OrphanLands, Inv, TypeOK
  <2> QED
    BY <1>1, <2>1, <2>2, EntryIsTyped DEF Inv
<1>4. CASE RestorePoint \/ BeginSave \/ EndSave \/ NoSave \/ Crash
  BY <1>4 DEF RestorePoint, BeginSave, EndSave, NoSave, Settle, Crash, machine
<1>5. CASE \E i \in DOMAIN job.plan : EntryStep(i)
  BY <1>2, <1>5
<1>6. CASE \E i \in orphans : OrphanLands(i)
  BY <1>3, <1>6
<1> QED
  BY <1>4, <1>5, <1>6 DEF Next, RunStep

\* The run and its orphaned installers change a package only for an entry the policy
\* let through, and only to the approved version or a later one.
THEOREM RunnerOnlyTheApproved == Spec => OnlyTheApproved
<1>1. Inv /\ Position /\ [Next]_vars =>
        [\A pkg \in Packages :
            installed'[pkg] # installed[pkg] /\ ~Outside =>
               \E i \in Tried(Len(report) + 1) :
                   /\ job.plan[i].pkg = pkg
                   /\ AtLeast(job.plan[i].to, installed'[pkg])]_vars
  BY StepIsApproved
<1> QED
  BY <1>1, InitInv, NextInv, InitPosition, NextPosition, PTL DEF Spec, OnlyTheApproved

-----------------------------------------------------------------------------
\* Both modules compare versions alike: the two copies of Versions agree.
LEMMA SameOrder ==
    ASSUME NEW approved, NEW raw
    PROVE  Promised!AtLeast(approved, raw) <=> AtLeast(approved, raw)
<1> DEFINE a == ParseOf[approved]
           b == ParseOf[raw]
<1>1. \A v, i : Promised!ReleaseAt(v, i) = ReleaseAt(v, i)
  BY DEF Promised!ReleaseAt, ReleaseAt, Promised!Num, Num
<1>2. \A p, i : Promised!ChainAt(p, i) = ChainAt(p, i)
  BY DEF Promised!ChainAt, ChainAt, Promised!End, End
<1>3. \A s, t : Promised!SegmentLess(s, t) <=> SegmentLess(s, t)
  BY DEF Promised!SegmentLess, SegmentLess
<1>4. \A s, t : Promised!StepLess(s, t) <=> StepLess(s, t)
  BY <1>3 DEF Promised!StepLess, StepLess, Promised!End, End
<1>5. \A s, t : Promised!Longer(s, t) = Longer(s, t)
  BY DEF Promised!Longer, Longer
<1>6. \A p, q : Promised!ChainLess(p, q) <=> ChainLess(p, q)
  BY <1>2, <1>4, <1>5 DEF Promised!ChainLess, ChainLess
<1>7. Promised!Less(a, b) <=> Less(a, b)
  BY <1>1, <1>3, <1>5, <1>6 DEF Promised!Less, Less, Promised!ReleaseLess, ReleaseLess,
     Promised!SameRelease, SameRelease, Promised!PreLess, PreLess
<1>8. Promised!Same(a, b) <=> Same(a, b)
  BY <1>1, <1>5 DEF Promised!Same, Same, Promised!SameRelease, SameRelease
<1>9. Promised!Compare(a, b) = Compare(a, b)
  BY <1>7, <1>8 DEF Promised!Compare, Compare
<1> QED
  BY <1>9 DEF Promised!AtLeast, AtLeast

LEMMA AnswerIsKept ==
    ASSUME Inv, Inv', NEW i \in DOMAIN job.plan, i = Len(report) + 1, Running, Running',
           NEW outcome \in Outcome, report' = Append(report, outcome), job' = job,
           (outcome.status = "Skipped") <=> job.plan[i].blocked,
           outcome.status = "Updated" /\ ~job.dry_run =>
              AtLeast(job.plan[i].to, outcome.raw) /\ installed[job.plan[i].pkg] = outcome.raw
    PROVE  Promised!PromiseNext
<1>1. Phase = "running" /\ Phase' = "running"
  BY DEF Phase
<1>2. installed' \in [DOMAIN installed -> Raws]
  BY DEF Inv, TypeOK
<1>3. Len(report) < Len(job.plan)
  BY EntryIsTyped DEF Inv, TypeOK
<1>4. Promised!Truthful(job.plan[i], outcome)
  BY SameOrder DEF Promised!Truthful
<1>5. outcome \in Promised!Outcomes
  BY DEF Promised!Outcomes, Outcome, Statuses
<1>6. Promised!Answer(outcome)
  BY <1>1, <1>3, <1>4 DEF Promised!Answer
<1> QED
  BY <1>2, <1>5, <1>6 DEF Promised!PromiseNext

LEMMA StepKeepsThePromise ==
    ASSUME Inv, Inv', Position, [Next]_vars
    PROVE  [Promised!PromiseNext]_<<job, report, Phase, installed>>
<1>1. installed' \in [DOMAIN installed -> Raws]
  BY DEF Inv, TypeOK
<1>2. ASSUME UNCHANGED <<job, report, Phase>>
      PROVE  Promised!PromiseNext
  BY <1>1, <1>2 DEF Promised!PromiseNext
<1>3. ASSUME NEW i \in DOMAIN job.plan, EntryStep(i)
      PROVE  Promised!PromiseNext
  <2>1. \A status \in Statuses, raw \in Raws : [status |-> status, raw |-> raw] \in Outcome
    BY DEF Outcome
  <2>2. /\ job.plan[i].to \in Raws /\ installed[job.plan[i].pkg] \in Raws
        /\ job.plan[i].blocked \in BOOLEAN
    BY EntryIsTyped DEF Inv, TypeOK, Entry
  <2>3. {"Updated", "DidNotConverge", "Failed", "Skipped"} = Statuses
    BY DEF Statuses
  <2>4. CASE Skip(i) \/ NoBackend(i) \/ DryRun(i)
    <3>1. PICK outcome \in Outcome :
            /\ Report(i, outcome)
            /\ (outcome.status = "Skipped") <=> job.plan[i].blocked
            /\ outcome.status = "Updated" => job.dry_run
      BY <2>1, <2>2, <2>3, <2>4 DEF Skip, NoBackend, DryRun, Actionable
    <3>2. /\ i = Len(report) + 1 /\ Running /\ Running'
          /\ report' = Append(report, outcome) /\ job' = job
      BY <3>1 DEF Report, At, Running
    <3> QED
      BY <3>1, <3>2, AnswerIsKept
  <2>5. CASE Begin(i) \/ ApplyOk(i) \/ ApplyTransient(i) \/ Wake(i)
    <3>1. UNCHANGED <<job, report>> /\ Running /\ Running'
      BY <2>5 DEF Begin, ApplyOk, ApplyTransient, Wake, At, Running
    <3> QED
      BY <1>2, <3>1 DEF Phase
  <2>6. CASE \/ \E answer \in {"transient", "failed"} : ApplyFailed(i, answer)
             \/ Confirm(i) \/ Unreadable(i)
    <3>1. i = Len(report) + 1 /\ pc \in {"applying", "confirming"}
      BY <2>6 DEF ApplyFailed, Confirm, Unreadable, At
    <3>2. ~job.plan[i].blocked
      BY <3>1 DEF Position, Tried, Actionable
    <3>3. PICK outcome \in Outcome :
            /\ Record(i, outcome)
            /\ outcome.status # "Skipped"
            /\ outcome.status = "Updated" =>
                  /\ AtLeast(job.plan[i].to, outcome.raw)
                  /\ installed[job.plan[i].pkg] = outcome.raw
      BY <2>1, <2>2, <2>3, <2>6 DEF ApplyFailed, Confirm, Unreadable
    <3>4. Running /\ Running' /\ report' = Append(report, outcome) /\ job' = job
      BY <3>1, <3>3 DEF Record, Running
    <3> QED
      BY <3>1, <3>2, <3>3, <3>4, AnswerIsKept
  <2> QED
    BY <1>3, <2>4, <2>5, <2>6 DEF EntryStep
<1>4. CASE RestorePoint \/ BeginSave
  <2>1. UNCHANGED <<job, report>> /\ Running /\ Running'
    BY <1>4 DEF RestorePoint, BeginSave, Dealt, Running
  <2> QED
    BY <1>2, <2>1 DEF Phase
<1>5. CASE EndSave \/ NoSave
  <2>1. UNCHANGED <<job, report>> /\ Running /\ pc' = "done" /\ Len(report) = Len(job.plan)
    BY <1>5 DEF EndSave, NoSave, Settle, Dealt, Running, Position
  <2>2. Phase = "running" /\ Phase' = "finished"
    BY <2>1 DEF Phase, Running
  <2>3. Promised!Finish
    BY <2>1, <2>2 DEF Promised!Finish
  <2> QED
    BY <1>1, <2>3 DEF Promised!PromiseNext
<1>6. CASE Crash
  <2>1. UNCHANGED <<job, report>> /\ Phase = "running" /\ Phase' = "crashed"
    BY <1>6 DEF Crash, Phase, Running
  <2>2. Promised!Crash
    BY <2>1 DEF Promised!Crash
  <2> QED
    BY <1>1, <2>2 DEF Promised!PromiseNext
<1>7. CASE (\E i \in orphans : OrphanLands(i)) \/ Outside
  <2>1. UNCHANGED <<job, report, pc>>
    BY <1>7 DEF OrphanLands, Outside, ChangedOutside
  <2> QED
    BY <1>2, <2>1 DEF Phase, Running
<1>8. CASE UNCHANGED vars
  BY <1>2, <1>8 DEF vars, Phase, Running
<1> QED
  BY <1>3, <1>4, <1>5, <1>6, <1>7, <1>8 DEF Next, RunStep

\* The runner implements what its caller is promised: the report answers the plan in
\* order, skips exactly what was blocked, and calls "Updated" only what was seen on
\* the machine at no less than the approved version.
THEOREM RunnerKeepsThePromise == Spec => KeepsThePromise
<1>1. Init => Promised!PromiseInit
  BY DEF Init, Promised!PromiseInit, Phase, Running
<1>2. Inv /\ Inv' /\ Position /\ [Next]_vars =>
        [Promised!PromiseNext]_<<job, report, Phase, installed>>
  BY StepKeepsThePromise
<1> QED
  BY <1>1, <1>2, InitInv, NextInv, InitPosition, NextPosition, PTL
     DEF Spec, KeepsThePromise, Promised!Promise

-----------------------------------------------------------------------------
(* The history.  TriedLines counts its way through the entries that were   *)
(* tried: the k-th of them is the one with k of them up to it.             *)

Rank(T, i) == Cardinality({j \in T : j <= i})

Nth(T, k) == CHOOSE i \in T : Rank(T, i) = k

\* Counting reaches every place; that it reaches each only once is proved below.
Counted(T) == \A k \in 1..Cardinality(T) : \E i \in T : Rank(T, i) = k

LEMMA Places ==
    ASSUME NEW n \in Nat, NEW T \in SUBSET (1..n)
    PROVE  /\ IsFiniteSet(T) /\ \A j \in T : j \in Nat /\ 1 <= j /\ j <= n
           /\ n + 1 \notin T /\ T \union {n + 1} \in SUBSET (1..(n + 1))
<1>1. IsFiniteSet(1..n)
  BY FS_Interval
<1>2. IsFiniteSet(T)
  BY <1>1, FS_Subset
<1>3. \A j \in T : j \in 1..n
  OBVIOUS
<1>4. \A j \in T : j \in Nat /\ 1 <= j /\ j <= n
  BY <1>3
<1>5. n + 1 \notin T
  BY <1>4
<1>6. T \union {n + 1} \subseteq 1..(n + 1)
  BY <1>4
<1> QED
  BY <1>2, <1>4, <1>5, <1>6

LEMMA RanksDiffer ==
    ASSUME NEW n \in Nat, NEW T \in SUBSET (1..n), NEW i \in T, NEW j \in T, i < j
    PROVE  Rank(T, i) < Rank(T, j)
<1> DEFINE low  == {m \in T : m <= i}
           high == {m \in T : m <= j}
<1>1. IsFiniteSet(T) /\ \A m \in T : m \in Nat
  BY Places
<1>2. IsFiniteSet(low) /\ IsFiniteSet(high)
  BY <1>1, FS_Subset
<1>3. low \union {j} \subseteq high /\ j \notin low
  <2>1. i \in Nat /\ j \in Nat
    BY <1>1
  <2>2. j \in high /\ j \notin low
    BY <2>1
  <2>3. ASSUME NEW k \in low PROVE k \in high
    BY <1>1, <2>1, <2>3
  <2> QED
    BY <2>2, <2>3
<1>4. Cardinality(low \union {j}) = Cardinality(low) + 1 /\ IsFiniteSet(low \union {j})
  BY <1>2, <1>3, FS_AddElement
<1>5. Cardinality(low) + 1 <= Cardinality(high)
  BY <1>2, <1>3, <1>4, FS_Subset
<1>6. Cardinality(low) \in Nat /\ Cardinality(high) \in Nat
  BY <1>2, FS_CardinalityType
<1> QED
  BY <1>5, <1>6 DEF Rank

LEMMA NthIsTheOne ==
    ASSUME NEW n \in Nat, NEW T \in SUBSET (1..n), NEW i \in T
    PROVE  Nth(T, Rank(T, i)) = i
<1> DEFINE m == Nth(T, Rank(T, i))
<1>1. m \in T /\ Rank(T, m) = Rank(T, i)
  BY DEF Nth
<1>2. IsFiniteSet(T) /\ \A j \in T : j \in Nat
  BY Places
<1>3. IsFiniteSet({j \in T : j <= i})
  BY <1>2, FS_Subset
<1>4. Rank(T, i) \in Nat
  BY <1>3, FS_CardinalityType DEF Rank
<1> HIDE DEF m
<1>5. ASSUME m < i PROVE FALSE
  <2>1. Rank(T, m) < Rank(T, i)
    BY <1>1, <1>5, RanksDiffer
  <2> QED
    BY <1>1, <1>4, <2>1
<1>6. ASSUME i < m PROVE FALSE
  <2>1. Rank(T, i) < Rank(T, m)
    BY <1>1, <1>6, RanksDiffer
  <2> QED
    BY <1>1, <1>4, <2>1
<1>7. m \in Nat /\ i \in Nat
  BY <1>1, <1>2
<1>8. m = i
  BY <1>5, <1>6, <1>7
<1> QED
  BY <1>8 DEF m

\* One more entry at the end takes the next place and leaves the others where they are.
LEMMA OneMoreIsCounted ==
    ASSUME NEW n \in Nat, NEW T \in SUBSET (1..n), Counted(T)
    PROVE  /\ Cardinality(T) \in Nat
           /\ Cardinality(T \union {n + 1}) = Cardinality(T) + 1
           /\ Counted(T \union {n + 1})
           /\ Nth(T \union {n + 1}, Cardinality(T) + 1) = n + 1
           /\ \A k \in 1..Cardinality(T) : Nth(T, k) \in T /\ Nth(T \union {n + 1}, k) = Nth(T, k)
<1> DEFINE U == T \union {n + 1}
<1>1. IsFiniteSet(T) /\ n + 1 \notin T /\ U \in SUBSET (1..(n + 1)) /\ n + 1 \in Nat
      /\ \A j \in T : j \in Nat /\ j <= n
  BY Places
<1>2. Cardinality(T) \in Nat /\ Cardinality(U) = Cardinality(T) + 1
  BY <1>1, FS_AddElement, FS_CardinalityType
<1>3. ASSUME NEW i \in T PROVE Rank(U, i) = Rank(T, i)
  <2>1. {j \in U : j <= i} = {j \in T : j <= i}
    BY <1>1
  <2> QED
    BY <2>1 DEF Rank
<1>4. Rank(U, n + 1) = Cardinality(T) + 1
  <2>1. \A j \in U : j <= n + 1
    BY <1>1
  <2>2. {j \in U : j <= n + 1} = U
    BY <2>1
  <2> QED
    BY <1>2, <2>2 DEF Rank
<1>5. Nth(U, Cardinality(T) + 1) = n + 1
  BY <1>1, <1>4, NthIsTheOne
<1>6. ASSUME NEW k \in 1..Cardinality(T)
      PROVE  Nth(T, k) \in T /\ Nth(U, k) = Nth(T, k)
  <2>1. PICK i \in T : Rank(T, i) = k
    BY DEF Counted
  <2>2. Nth(T, k) = i
    BY <2>1, NthIsTheOne
  <2>3. Nth(U, k) = i
    BY <1>1, <1>3, <2>1, NthIsTheOne
  <2> QED
    BY <2>2, <2>3
<1>7. Counted(U)
  <2> SUFFICES ASSUME NEW k \in 1..Cardinality(U)
               PROVE  \E i \in U : Rank(U, i) = k
    BY DEF Counted
  <2>1. CASE k = Cardinality(T) + 1
    BY <1>4, <2>1
  <2>2. CASE k \in 1..Cardinality(T)
    BY <1>3, <2>2 DEF Counted
  <2> QED
    BY <1>2, <2>1, <2>2
<1> QED
  BY <1>2, <1>5, <1>6, <1>7

\* What stands in the places of T.
Picked(lines, T) == [k \in 1..Cardinality(T) |-> lines[Nth(T, k)]]

Extends(more, lines, n) == \A i \in 1..n : more[i] = lines[i]

LEMMA PickedGrows ==
    ASSUME NEW n \in Nat, NEW T \in SUBSET (1..n), Counted(T),
           NEW lines \in [1..n -> LogLine], NEW more \in [1..(n + 1) -> LogLine],
           Extends(more, lines, n)
    PROVE  /\ Picked(lines, T) \in Seq(LogLine) /\ Picked(more, T) = Picked(lines, T)
           /\ Picked(more, T \union {n + 1}) = Append(Picked(lines, T), more[n + 1])
<1> DEFINE U == T \union {n + 1}
<1>1. /\ Cardinality(T) \in Nat /\ Cardinality(U) = Cardinality(T) + 1
      /\ Nth(U, Cardinality(T) + 1) = n + 1
      /\ \A k \in 1..Cardinality(T) : Nth(T, k) \in 1..n /\ Nth(U, k) = Nth(T, k)
  BY OneMoreIsCounted
<1>2. Picked(lines, T) \in Seq(LogLine) /\ Len(Picked(lines, T)) = Cardinality(T)
  BY <1>1 DEF Picked
<1>3. Picked(more, T) = Picked(lines, T)
  BY <1>1 DEF Picked, Extends
<1>4. Picked(more, U) = Append(Picked(lines, T), more[n + 1])
  <2>1. Append(Picked(lines, T), more[n + 1]) =
          [k \in 1..(Cardinality(T) + 1) |->
              IF k = Cardinality(T) + 1 THEN more[n + 1] ELSE Picked(lines, T)[k]]
    BY <1>1, <1>2 DEF Picked
  <2>2. ASSUME NEW k \in 1..(Cardinality(T) + 1)
        PROVE  more[Nth(U, k)] = IF k = Cardinality(T) + 1 THEN more[n + 1]
                                 ELSE Picked(lines, T)[k]
    <3>1. CASE k = Cardinality(T) + 1
      BY <1>1, <3>1
    <3>2. CASE k # Cardinality(T) + 1
      <4>1. k \in 1..Cardinality(T)
        BY <1>1, <3>2
      <4>2. more[Nth(U, k)] = lines[Nth(T, k)] /\ Picked(lines, T)[k] = lines[Nth(T, k)]
        BY <1>1, <4>1 DEF Picked, Extends
      <4> QED
        BY <3>2, <4>2
    <3> QED
      BY <3>1, <3>2
  <2> QED
    BY <1>1, <2>1, <2>2 DEF Picked
<1> QED
  BY <1>2, <1>3, <1>4

\* The history is the end of everything that ever was to be in it, as long as it may be.
IsTheEnd(lines, all) ==
    /\ Len(lines) = IF Len(all) > HistoryCap THEN HistoryCap ELSE Len(all)
    /\ \A k \in DOMAIN lines : lines[k] = all[Len(all) - Len(lines) + k]

LEMMA TheEndGoesOn ==
    ASSUME NEW lines \in Seq(LogLine), NEW all \in Seq(LogLine), NEW line \in LogLine,
           IsTheEnd(lines, all)
    PROVE  IsTheEnd(Newest(Append(lines, line)), Append(all, line))
<1> DEFINE longer == Append(lines, line)
<1>1. /\ Len(lines) \in Nat /\ Len(all) \in Nat /\ HistoryCap \in Nat /\ HistoryCap >= 1
      /\ Len(lines) <= HistoryCap /\ Len(lines) <= Len(all)
      /\ DOMAIN lines = 1..Len(lines)
  BY HistoryCapAssumption DEF IsTheEnd
<1>2. /\ longer \in Seq(LogLine) /\ Len(longer) = Len(lines) + 1 /\ longer[Len(lines) + 1] = line
      /\ \A k \in 1..Len(lines) : longer[k] = all[Len(all) - Len(lines) + k]
  <2>1. longer \in Seq(LogLine) /\ Len(longer) = Len(lines) + 1 /\ longer[Len(lines) + 1] = line
    OBVIOUS
  <2>2. \A k \in 1..Len(lines) : longer[k] = lines[k]
    OBVIOUS
  <2>3. \A k \in 1..Len(lines) : lines[k] = all[Len(all) - Len(lines) + k]
    BY <1>1 DEF IsTheEnd
  <2> QED
    BY <2>1, <2>2, <2>3
<1>3. /\ Len(Append(all, line)) = Len(all) + 1 /\ Append(all, line)[Len(all) + 1] = line
      /\ \A k \in 1..Len(all) : Append(all, line)[k] = all[k]
  OBVIOUS
<1>4. ASSUME NEW k \in 1..(Len(lines) + 1)
      PROVE  longer[k] = Append(all, line)[Len(all) - Len(lines) + k]
  <2>1. CASE k = Len(lines) + 1
    BY <1>1, <1>2, <1>3, <2>1
  <2>2. CASE k \in 1..Len(lines)
    <3>1. Len(all) - Len(lines) + k \in 1..Len(all)
      BY <1>1, <2>2
    <3> QED
      BY <1>2, <1>3, <2>2, <3>1
  <2> QED
    BY <1>1, <2>1, <2>2
<1> HIDE DEF longer
<1>5. CASE Len(longer) > HistoryCap
  <2>1. Len(lines) = HistoryCap
    <3>1. Len(lines) + 1 > HistoryCap
      BY <1>2, <1>5
    <3>2. \A x, y \in Nat : x <= y /\ x + 1 > y => x = y
      OBVIOUS
    <3> QED
      BY <1>1, <3>1, <3>2, Zenon
  <2>2. Newest(longer) = SubSeq(longer, 2, HistoryCap + 1)
    BY <1>1, <1>2, <1>5, <2>1 DEF Newest
  <2>3. Len(Newest(longer)) = HistoryCap /\ \A k \in 1..HistoryCap : Newest(longer)[k] = longer[k + 1]
    BY <1>1, <1>2, <2>1, <2>2
  <2>4. DOMAIN Newest(longer) = 1..HistoryCap
    BY <1>1, <1>2, <2>1, <2>2
  <2>5. ASSUME NEW k \in 1..HistoryCap
        PROVE  Newest(longer)[k] = Append(all, line)[Len(Append(all, line)) - HistoryCap + k]
    <3>1. k + 1 \in 1..(Len(lines) + 1)
      BY <1>1, <2>1
    <3>2. Len(all) - Len(lines) + (k + 1) = Len(Append(all, line)) - HistoryCap + k
      BY <1>1, <1>3, <2>1
    <3> QED
      BY <1>4, <2>3, <3>1, <3>2
  <2>6. Len(Append(all, line)) > HistoryCap
    BY <1>1, <1>3, <2>1
  <2>7. IsTheEnd(Newest(longer), Append(all, line))
    BY <2>3, <2>4, <2>5, <2>6 DEF IsTheEnd
  <2> QED
    BY <2>7 DEF longer
<1>6. CASE ~(Len(longer) > HistoryCap)
  <2>1. Newest(longer) = longer /\ DOMAIN longer = 1..(Len(lines) + 1)
    BY <1>2, <1>6 DEF Newest
  <2>2. Len(lines) = Len(all) /\ Len(all) + 1 <= HistoryCap
    BY <1>1, <1>2, <1>6 DEF IsTheEnd
  <2>3. ASSUME NEW k \in 1..(Len(lines) + 1)
        PROVE  longer[k] = Append(all, line)[Len(Append(all, line)) - Len(longer) + k]
    BY <1>1, <1>2, <1>3, <1>4, <2>2
  <2> QED
    BY <1>1, <1>2, <1>3, <2>1, <2>2, <2>3 DEF IsTheEnd, longer
<1> QED
  BY <1>5, <1>6

\* What there was, and the entries tried so far.
All == IF job.keeps_history THEN job.old \o TriedLines ELSE job.old

LEMMA TriedLinesArePicked ==
    TriedLines = Picked(Lines(Len(report)), Tried(Len(report)))
BY DEF TriedLines, Picked, Nth, Rank

KeptToTheEnd ==
    /\ IsTheEnd(log, All)
    /\ disk \in {<<>>, job.old, log}
    /\ disk # job.old => Len(report) = Len(job.plan)

LEMMA HistoryIsTheEnd == HistoryIsTheReport <=> KeptToTheEnd
BY DEF HistoryIsTheReport, KeptToTheEnd, IsTheEnd, All

HistoryInv == HistoryIsTheReport /\ Counted(Tried(Len(report)))

\* The lines of the report, one by one.
LEMMA LinesAreTyped ==
    ASSUME TypeOK
    PROVE  /\ Len(report) \in Nat /\ Lines(Len(report)) \in [1..Len(report) -> LogLine]
           /\ Tried(Len(report)) \in SUBSET (1..Len(report))
           /\ job.old \in Seq(LogLine)
<1>1. Len(report) \in Nat /\ Len(report) <= Len(job.plan) /\ report \in Seq(Outcome)
  BY DEF TypeOK
<1>2. ASSUME NEW i \in 1..Len(report)
      PROVE  [pkg |-> job.plan[i].pkg, status |-> report[i].status] \in LogLine
  <2>1. i \in DOMAIN job.plan
    BY <1>1, JobIsTyped
  <2>2. report[i] \in Outcome /\ job.plan[i].pkg \in Packages
    BY <1>1, <2>1, EntryIsTyped
  <2> QED
    BY <2>2 DEF Outcome, LogLine
<1>3. Lines(Len(report)) \in [1..Len(report) -> LogLine]
  BY <1>2 DEF Lines
<1>4. Tried(Len(report)) \in SUBSET (1..Len(report))
  BY <1>1, JobIsTyped DEF Tried
<1>5. job.old \in Seq(LogLine)
  BY JobIsTyped DEF Job
<1> QED
  BY <1>1, <1>3, <1>4, <1>5

LEMMA HistoryStarts ==
    ASSUME Init, \A j \in Jobs : Len(j.old) <= HistoryCap
    PROVE  HistoryInv
<1>1. job \in Jobs /\ job.old \in Seq(LogLine) /\ job.plan \in Seq(Entry) /\ Len(report) = 0
      /\ log = job.old /\ disk = job.old
  BY JobsAssumption DEF Init, Job
<1>2. Tried(0) = {}
  BY <1>1 DEF Tried
<1>3. Cardinality(Tried(Len(report))) = 0
  BY <1>1, <1>2, FS_EmptySet
<1>4. Counted(Tried(Len(report)))
  BY <1>3 DEF Counted
<1>5. All = job.old
  <2>1. TriedLines = <<>>
    BY <1>3, TriedLinesArePicked DEF Picked
  <2> QED
    BY <1>1, <2>1 DEF All
<1>6. IsTheEnd(log, All)
  BY <1>1, <1>5, HistoryCapAssumption DEF IsTheEnd
<1> QED
  BY <1>1, <1>4, <1>6, HistoryIsTheEnd DEF KeptToTheEnd, HistoryInv

\* One more outcome: an entry that was tried adds its line, any other adds none.
LEMMA OneMoreOutcome ==
    ASSUME Inv, Inv', HistoryInv, NEW i \in DOMAIN job.plan, i = Len(report) + 1,
           NEW outcome, report' = Append(report, outcome), job' = job
    PROVE  /\ Counted(Tried(Len(report)))'
           /\ i \notin Tried(i) => All' = All
           /\ i \in Tried(i) => All' = IF job.keeps_history
                THEN Append(All, [pkg |-> job.plan[i].pkg, status |-> outcome.status]) ELSE All
           /\ All \in Seq(LogLine)
<1> DEFINE n     == Len(report)
           T     == Tried(n)
           lines == Lines(n)
           more  == Lines(n)'
           line  == [pkg |-> job.plan[i].pkg, status |-> outcome.status]
<1>1. /\ n \in Nat /\ lines \in [1..n -> LogLine] /\ T \in SUBSET (1..n) /\ Counted(T)
      /\ job.old \in Seq(LogLine) /\ report \in Seq(Outcome)
  BY LinesAreTyped DEF Inv, TypeOK, HistoryInv
<1>2. Len(report') = n + 1
  BY <1>1
<1>3. line \in LogLine
  <2>1. report' \in Seq(Outcome)
    BY DEF Inv, TypeOK
  <2>2. outcome \in Outcome
    <3>1. report'[n + 1] = outcome
      BY <1>1
    <3> QED
      BY <1>1, <1>2, <2>1, <3>1
  <2> QED
    BY <2>2, EntryIsTyped DEF Inv, Outcome, LogLine
<1>4. /\ more \in [1..(n + 1) -> LogLine]
      /\ \A k \in 1..n : more[k] = lines[k]
      /\ more[n + 1] = line
  <2>1. \A k \in 1..n : report'[k] = report[k]
    BY <1>1
  <2>2. report'[n + 1] = outcome
    BY <1>1
  <2>3. more = [k \in 1..(n + 1) |-> [pkg |-> job.plan[k].pkg, status |-> report'[k].status]]
    BY <1>2 DEF Lines
  <2>4. \A k \in 1..n : more[k] = lines[k]
    BY <1>1, <2>1, <2>3 DEF Lines
  <2>5. more[n + 1] = line
    BY <1>1, <2>2, <2>3
  <2>6. ASSUME NEW k \in 1..(n + 1) PROVE more[k] \in LogLine
    <3>1. k = n + 1 \/ k \in 1..n
      BY <1>1
    <3> HIDE DEF more, line, lines
    <3> QED
      BY <1>1, <1>3, <2>4, <2>5, <3>1
  <2>7. more \in [1..(n + 1) -> LogLine]
    BY <2>3, <2>6
  <2> QED
    BY <2>4, <2>5, <2>7
<1>5. Tried(n)' = IF i \in Tried(i) THEN T \union {n + 1} ELSE T
  <2>1. Tried(n)' = Tried(n + 1)
    BY <1>2 DEF Tried, Actionable
  <2>2. \A k \in DOMAIN job.plan : k \in Nat
    BY JobIsTyped DEF Inv
  <2>3. Tried(n + 1) = IF n + 1 \in Tried(n + 1) THEN Tried(n) \union {n + 1} ELSE Tried(n)
    BY <1>1, <2>2 DEF Tried
  <2> QED
    BY <2>1, <2>3
<1>6. TriedLines = Picked(lines, T) /\ TriedLines' = Picked(more, Tried(n)')
  <2>1. (TriedLines = Picked(Lines(Len(report)), Tried(Len(report))))'
    BY TriedLinesArePicked, PTL
  <2> QED
    BY <2>1, TriedLinesArePicked
<1> HIDE DEF lines, more, line, T
<1>7. /\ Picked(lines, T) \in Seq(LogLine) /\ Picked(more, T) = Picked(lines, T)
      /\ Picked(more, T \union {n + 1}) = Append(Picked(lines, T), line)
  <2>1. /\ Picked(lines, T) \in Seq(LogLine) /\ Picked(more, T) = Picked(lines, T)
        /\ Picked(more, T \union {n + 1}) = Append(Picked(lines, T), more[n + 1])
    <3>1. PICK m, these, old, new : m = n /\ these = T /\ old = lines /\ new = more
      OBVIOUS
    <3>2. /\ m \in Nat /\ these \in SUBSET (1..m) /\ Counted(these)
          /\ old \in [1..m -> LogLine] /\ new \in [1..(m + 1) -> LogLine]
          /\ Extends(new, old, m)
      BY <1>1, <1>4, <3>1 DEF Extends
    <3>3. /\ Picked(old, these) \in Seq(LogLine) /\ Picked(new, these) = Picked(old, these)
          /\ Picked(new, these \union {m + 1}) = Append(Picked(old, these), new[m + 1])
      BY <3>2, PickedGrows
    <3> QED
      BY <3>1, <3>3
  <2> QED
    BY <1>4, <2>1
<1>8. Counted(T \union {n + 1})
  BY <1>1, OneMoreIsCounted
<1>9. Counted(Tried(n))'
  BY <1>1, <1>5, <1>8
<1>11. \A s, t \in Seq(LogLine) : s \o Append(t, line) = Append(s \o t, line) /\ s \o t \in Seq(LogLine)
  BY <1>3
<1>12. i \notin Tried(i) => All' = All
  BY <1>5, <1>6, <1>7 DEF All
<1>13. i \in Tried(i) => All' = IF job.keeps_history THEN Append(All, line) ELSE All
  <2>1. job.old \o Append(Picked(lines, T), line) = Append(job.old \o Picked(lines, T), line)
    BY <1>1, <1>7, <1>11
  <2>2. ASSUME i \in Tried(i) PROVE TriedLines' = Append(Picked(lines, T), line)
    BY <1>5, <1>6, <1>7, <2>2
  <2> QED
    BY <1>6, <2>1, <2>2 DEF All
<1>14. All \in Seq(LogLine)
  BY <1>1, <1>6, <1>7, <1>11 DEF All
<1> QED
  BY <1>9, <1>12, <1>13, <1>14 DEF line

\* An entry that is reported without having been tried leaves no line.
LEMMA ReportKeepsHistory ==
    ASSUME Inv, Inv', HistoryInv, NEW i \in DOMAIN job.plan, NEW outcome, Report(i, outcome),
           job.plan[i].blocked \/ ~job.plan[i].served \/ job.dry_run
    PROVE  HistoryInv'
<1>1. /\ i = Len(report) + 1 /\ i <= Len(job.plan) /\ report' = Append(report, outcome)
      /\ UNCHANGED <<job, log, disk>>
  BY DEF Report, At
<1>2. i \notin Tried(i)
  BY DEF Tried, Actionable
<1>3. Counted(Tried(Len(report)))' /\ All' = All
  BY <1>1, <1>2, OneMoreOutcome
<1>4. IsTheEnd(log, All) /\ disk = job.old
  <2>1. Len(report) \in Nat /\ Len(job.plan) \in Nat
    BY JobIsTyped DEF Inv, TypeOK
  <2> QED
    BY <1>1, <2>1, HistoryIsTheEnd DEF KeptToTheEnd, HistoryInv
<1>5. IsTheEnd(log, All)'
  BY <1>1, <1>3, <1>4
<1>6. HistoryIsTheReport'
  <2>1. (HistoryIsTheReport <=> KeptToTheEnd)'
    BY HistoryIsTheEnd, PTL
  <2> QED
    BY <1>1, <1>4, <1>5, <2>1 DEF KeptToTheEnd
<1> QED
  BY <1>3, <1>6 DEF HistoryInv

\* The end of the work on an entry is one line more, in memory only.
LEMMA RecordKeepsHistory ==
    ASSUME Inv, Inv', HistoryInv, NEW i \in DOMAIN job.plan, i = Len(report) + 1, i \in Tried(i),
           NEW outcome, Record(i, outcome)
    PROVE  HistoryInv'
<1> DEFINE line == [pkg |-> job.plan[i].pkg, status |-> outcome.status]
<1>1. report' = Append(report, outcome) /\ UNCHANGED <<job, disk>>
  BY DEF Record
<1>2. /\ Counted(Tried(Len(report)))' /\ All \in Seq(LogLine)
      /\ All' = IF job.keeps_history THEN Append(All, line) ELSE All
  BY <1>1, OneMoreOutcome
<1>3. IsTheEnd(log, All) /\ disk = job.old
  <2>1. Len(report) < Len(job.plan)
    BY EntryIsTyped DEF Inv, TypeOK
  <2> QED
    BY <2>1, HistoryIsTheEnd DEF KeptToTheEnd, HistoryInv, Inv, TypeOK
<1>4. line \in LogLine
  <2>1. report' \in Seq(Outcome) /\ report \in Seq(Outcome)
    BY DEF Inv, TypeOK
  <2>2. outcome \in Outcome
    <3>1. Len(report') = Len(report) + 1 /\ report'[Len(report) + 1] = outcome
      BY <1>1, <2>1
    <3> QED
      BY <2>1, <3>1
  <2> QED
    BY <2>2, EntryIsTyped DEF Inv, Outcome, LogLine
<1>5. IsTheEnd(log, All)'
  <2>1. CASE job.keeps_history
    <3>1. log' = Newest(Append(log, line)) /\ All' = Append(All, line)
      BY <1>2, <2>1 DEF Record
    <3>2. IsTheEnd(Newest(Append(log, line)), Append(All, line))
      BY <1>2, <1>3, <1>4, TheEndGoesOn DEF Inv, TypeOK
    <3> QED
      BY <3>1, <3>2
  <2>2. CASE ~job.keeps_history
    BY <1>2, <1>3, <2>2 DEF Record
  <2> QED
    BY <2>1, <2>2
<1>6. HistoryIsTheReport'
  <2>1. (HistoryIsTheReport <=> KeptToTheEnd)'
    BY HistoryIsTheEnd, PTL
  <2> QED
    BY <1>1, <1>3, <1>5, <2>1 DEF KeptToTheEnd
<1> QED
  BY <1>2, <1>6 DEF HistoryInv

\* Everything else leaves the report and the history in memory alone; the file is only touched
\* when all entries have been dealt with.
LEMMA OthersKeepHistory ==
    ASSUME HistoryInv, UNCHANGED <<job, report, log>>,
           disk' \in {<<>>, log, disk}, disk' # disk => Len(report) = Len(job.plan)
    PROVE  HistoryInv'
<1>1. (Counted(Tried(Len(report))) /\ All = IF job.keeps_history THEN job.old \o TriedLines ELSE job.old)'
  BY DEF HistoryInv, Tried, Actionable, Counted, All
<1>2. TriedLines' = TriedLines
  BY DEF TriedLines, Tried, Actionable, Lines
<1>3. All' = All
  BY <1>2 DEF All
<1>4. (HistoryIsTheReport <=> KeptToTheEnd)'
  BY HistoryIsTheEnd, PTL
<1>5. /\ IsTheEnd(log, All) /\ disk \in {<<>>, job.old, log}
      /\ disk # job.old => Len(report) = Len(job.plan)
  BY HistoryIsTheEnd DEF KeptToTheEnd, HistoryInv
<1> QED
  BY <1>1, <1>3, <1>4, <1>5 DEF HistoryInv, KeptToTheEnd

LEMMA NextHistory ==
    ASSUME Inv, Inv', Position, HistoryInv, [Next]_vars
    PROVE  HistoryInv'
<1>1. ASSUME NEW i \in DOMAIN job.plan, EntryStep(i)
      PROVE  HistoryInv'
  <2>1. CASE Skip(i) \/ NoBackend(i) \/ DryRun(i)
    <3>1. PICK outcome : Report(i, outcome)
      BY <2>1 DEF Skip, NoBackend, DryRun
    <3>2. job.plan[i].blocked \/ ~job.plan[i].served \/ job.dry_run
      BY <2>1 DEF Skip, NoBackend, DryRun
    <3> QED
      BY <3>1, <3>2, ReportKeepsHistory
  <2>2. CASE Begin(i) \/ ApplyOk(i) \/ ApplyTransient(i) \/ Wake(i)
    <3>1. UNCHANGED <<job, report, log, disk>>
      BY <2>2 DEF Begin, ApplyOk, ApplyTransient, Wake
    <3> QED
      BY <3>1, OthersKeepHistory
  <2>3. CASE \/ \E answer \in {"transient", "failed"} : ApplyFailed(i, answer)
             \/ Confirm(i) \/ Unreadable(i)
    <3>1. i = Len(report) + 1 /\ pc \in {"applying", "confirming"}
      BY <2>3 DEF ApplyFailed, Confirm, Unreadable, At
    <3>2. i \in Tried(i)
      BY <3>1 DEF Position
    <3>3. \E outcome : Record(i, outcome)
      BY <2>3 DEF ApplyFailed, Confirm, Unreadable
    <3> QED
      BY <3>1, <3>2, <3>3, RecordKeepsHistory
  <2> QED
    BY <1>1, <2>1, <2>2, <2>3 DEF EntryStep
<1>2. CASE RestorePoint \/ BeginSave \/ EndSave \/ NoSave \/ Crash
  <2>1. /\ UNCHANGED <<job, report, log>> /\ disk' \in {<<>>, log, disk}
        /\ disk' # disk => Len(report) = Len(job.plan)
    BY <1>2 DEF RestorePoint, BeginSave, EndSave, NoSave, Settle, Dealt, Crash, Position
  <2> QED
    BY <2>1, OthersKeepHistory
<1>3. CASE (\E i \in orphans : OrphanLands(i)) \/ Outside \/ UNCHANGED vars
  <2>1. UNCHANGED <<job, report, log, disk>>
    BY <1>3 DEF OrphanLands, Outside, ChangedOutside, vars
  <2> QED
    BY <2>1, OthersKeepHistory
<1> QED
  BY <1>1, <1>2, <1>3 DEF Next, RunStep

\* The history a run has in memory is the one it found, followed by a line for each entry it
\* really tried, in their order, cut to the newest; and the file holds the old history until
\* everything is done, and then the new one or nothing (runner.rs, history.rs).  The history
\* that is found is one that UpdateHistory::record has kept to its length.
THEOREM RunnerHistoryIsTheReport ==
    ASSUME \A j \in Jobs : Len(j.old) <= HistoryCap
    PROVE  Spec => []HistoryIsTheReport
<1>1. Init => HistoryInv
  BY HistoryStarts
<1>2. Inv /\ Inv' /\ Position /\ HistoryInv /\ [Next]_vars => HistoryInv'
  BY NextHistory
<1>3. HistoryInv => HistoryIsTheReport
  BY DEF HistoryInv
<1> QED
  BY <1>1, <1>2, <1>3, InitInv, NextInv, InitPosition, NextPosition, PTL DEF Spec
=============================================================================
