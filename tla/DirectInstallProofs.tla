------------------------ MODULE DirectInstallProofs -------------------------
(***************************************************************************)
(* The safety of DirectInstall for any programs, releases and number of    *)
(* crashes.                                                                *)
(***************************************************************************)
EXTENDS DirectInstall, TLAPS

Swapping == {"aside", "copying", "moved", "restoring", "putting back"}
Holding  == {"downloading", "downloaded", "locked", "verified", "aside", "copying"}

Whole(p) == place[p] \intersect WholeCopies # {}

\* What an apply is for: a release that was published, and the one that was approved.
Approved ==
    /\ task.pc # "idle" => task.approved \in 1 .. published
    /\ task.pc \notin {"idle", "approved"} => task.release = task.approved
    /\ task.ok => task.pc \in {"cleaning", "confirming"}

\* What it has downloaded is of that release or later, and on Windows what has been
\* verified is held.
Checked ==
    /\ task.pc \in Holding => file # {} /\ \A f \in file : f.version >= task.approved
    /\ Windows => /\ task.pc \notin Swapping
                  /\ task.pc \in {"locked", "verified"} => locked
                  /\ task.pc = "verified" => \A f \in file : Genuine(f)
    /\ locked => Windows

\* Where a whole copy is, step by step of a swap.
CopyIsKept ==
    /\ Windows \/ task.pc \in {"resolved", "free", "downloading", "downloaded", "locked",
                               "verified", "moved"} => Whole("name")
    /\ task.pc \in Swapping \ {"moved"} => Whole("other")
    /\ KeepsACopy

\* What a swap has moved in.
MovedIn ==
    task.pc = "moved" => \E c \in place["name"] : c.whole /\ c.version >= task.approved

Inv == /\ TypeOK /\ Approved /\ Checked /\ CopyIsKept /\ MovedIn
       /\ RunsWhatWasChecked /\ SwapAnswersTrue

\* With the real entry first in the list, what is confirmed is of the program the scan
\* looks at: an apply is for more than that, and every whole copy that may become the
\* program again has at least that.
Newer ==
    /\ task.pc # "idle" => task.approved > confirmed /\ task.approved > 1
    /\ \A c \in place["name"] \intersect WholeCopies : c.version >= confirmed
    /\ task.pc \in Swapping \ {"moved"} =>
          \A c \in place["other"] \intersect WholeCopies : c.version >= confirmed
    /\ Windows => \A c \in place["other"] : c.version <= 1

-----------------------------------------------------------------------------
Releases == 0 .. MaxVersion
Task     == [pc : Steps, approved : Releases, release : Releases, ok : BOOLEAN]

LEMMA PublishedIsARelease ==
    ASSUME TypeOK
    PROVE  /\ MaxVersion \in Nat /\ published \in 1 .. MaxVersion /\ cached \in 0 .. published
           /\ confirmed \in 0 .. published /\ task \in Task
           /\ 0 .. published \subseteq Releases
<1>1. MaxVersion \in Nat
  BY AppsAssumption
<1>2. published \in 1 .. MaxVersion /\ cached \in 0 .. published /\ confirmed \in 0 .. published
  BY DEF TypeOK, Versions
<1>3. task \in Task
  BY DEF TypeOK, Task, Releases
<1> QED
  BY <1>1, <1>2, <1>3 DEF Releases

\* The ways a step rewrites the task.
LEMMA TaskMoves ==
    ASSUME TypeOK, NEW pc \in Steps, To(pc)
    PROVE  /\ task' \in Task /\ task'.pc = pc /\ task'.approved = task.approved
           /\ task'.release = task.release /\ task'.ok = task.ok
<1>1. task \in Task
  BY DEF TypeOK, Task, Releases
<1> QED
  BY <1>1 DEF To, Task

LEMMA TaskEnds ==
    /\ NoTask \in Task /\ NoTask.pc = "idle" /\ NoTask.approved = 0 /\ NoTask.release = 0
    /\ NoTask.ok = FALSE
<1>1. 0 \in Releases
  BY AppsAssumption DEF Releases
<1> QED
  BY <1>1 DEF NoTask, Task, Steps

LEMMA TaskAnswers ==
    ASSUME TypeOK, NEW ok \in BOOLEAN, task' = [task EXCEPT !.pc = "cleaning", !.ok = ok]
    PROVE  /\ task' \in Task /\ task'.pc = "cleaning" /\ task'.approved = task.approved
           /\ task'.release = task.release /\ task'.ok = ok
<1>1. task \in Task /\ "cleaning" \in Steps
  BY DEF TypeOK, Task, Releases, Steps
<1> QED
  BY <1>1 DEF Task

LEMMA TaskTakesRelease ==
    ASSUME NEW t \in Task, NEW pc \in Steps, NEW r \in Releases,
           task' = [t EXCEPT !.pc = pc, !.release = r]
    PROVE  /\ task' \in Task /\ task'.pc = pc /\ task'.ok = t.ok
           /\ task'.release = r /\ task'.approved = t.approved
<1>1. task' \in Task
  BY DEF Task
<1>2. task'.pc = pc /\ task'.release = r /\ task'.approved = t.approved
  BY DEF Task
<1>3. task'.ok = t.ok
  BY DEF Task
<1> QED
  BY <1>1, <1>2, <1>3

LEMMA TaskTakesApproval ==
    ASSUME NEW t \in Task, NEW pc \in Steps, NEW r \in Releases,
           task' = [t EXCEPT !.pc = pc, !.approved = r]
    PROVE  /\ task' \in Task /\ task'.pc = pc /\ task'.ok = t.ok
           /\ task'.approved = r /\ task'.release = t.release
<1>1. task' \in Task
  BY DEF Task
<1>2. task'.pc = pc /\ task'.approved = r /\ task'.release = t.release
  BY DEF Task
<1>3. task'.ok = t.ok
  BY DEF Task
<1> QED
  BY <1>1, <1>2, <1>3

\* What a whole file is copied as.
LEMMA NewCopyIsWhole ==
    ASSUME NEW f \in Files, file = {f}
    PROVE  \E c \in Copies : /\ NewCopy = {c} /\ c \in WholeCopies
                             /\ c.version = f.version /\ c.whole = TRUE
<1> DEFINE c == [version |-> f.version, whole |-> TRUE]
<1>1. f.version \in Versions
  BY DEF Files
<1>2. NewCopy = Copy(f.version, TRUE) /\ Copy(f.version, TRUE) = {c}
  BY DEF NewCopy, Copy
<1>3. c \in WholeCopies
  BY <1>1, <1>2 DEF WholeCopies
<1>4. c \in Copies /\ c.version = f.version /\ c.whole = TRUE
  BY <1>1 DEF Copies
<1> QED
  BY <1>2, <1>3, <1>4

\* Max of a finite set is one of it and the largest.
LEMMA LargestOf ==
    ASSUME NEW S \in SUBSET Nat, NEW m \in S, \A n \in S : n <= m
    PROVE  Max(S) = m
<1>1. Max(S) = CHOOSE x \in S : \A y \in S : x >= y
  BY DEF Max
<1>2. m \in S /\ \A y \in S : m >= y
  OBVIOUS
<1>3. Max(S) \in S /\ \A y \in S : Max(S) >= y
  BY <1>1, <1>2
<1>4. Max(S) >= m /\ m >= Max(S) /\ m \in Nat /\ Max(S) \in Nat
  BY <1>2, <1>3
<1> QED
  BY <1>4

LEMMA LargerOfTwo ==
    ASSUME NEW m \in Nat, NEW n \in Nat
    PROVE  Max({m, n}) = IF m >= n THEN m ELSE n
<1>1. CASE m >= n
  BY <1>1, LargestOf
<1>2. CASE ~(m >= n)
  BY <1>2, LargestOf
<1> QED
  BY <1>1, <1>2

\* The version of a place is that of the copy there.
LEMMA VersionOfThePlace ==
    ASSUME TypeOK, NEW p \in {"name", "other"}
    PROVE  /\ place[p] = {} => VersionAt(p) = 0
           /\ \A c \in place[p] : VersionAt(p) = c.version /\ c.version \in Versions
           /\ VersionAt(p) \in Nat
<1>1. place[p] \subseteq Copies /\ \A c, d \in place[p] : c = d
  BY DEF TypeOK
<1>2. CASE place[p] = {}
  <2>1. VersionAt(p) = Max({0})
    BY <1>2 DEF VersionAt
  <2> QED
    BY <1>2, <2>1, LargestOf
<1>3. ASSUME NEW c \in place[p]
      PROVE  VersionAt(p) = c.version /\ c.version \in Versions
  <2>1. c.version \in Versions /\ c.version \in Nat /\ place[p] = {c}
    BY <1>1 DEF Copies, Versions
  <2>2. VersionAt(p) = Max({c.version, 0})
    BY <2>1 DEF VersionAt
  <2> QED
    BY <2>1, <2>2, LargerOfTwo
<1> QED
  BY <1>1, <1>2, <1>3 DEF Versions

-----------------------------------------------------------------------------
LEMMA ScanKeepsInv ==
    ASSUME Inv, Scan
    PROVE  Inv'
<1>1. UNCHANGED <<app, published, running, crashes, place, ours, file, locked, confirmed, ran>>
      /\ TypeOK /\ task.pc = "idle"
  BY DEF Scan, Inv, world, disk, history
<1>2. PICK release \in 0 .. published :
         /\ Resolves(release)
         /\ task' = IF release > VersionAt(First)
                    THEN [NoTask EXCEPT !.pc = "approved", !.approved = release]
                    ELSE NoTask
  BY DEF Scan
<1>3. First \in {"name", "other"} /\ VersionAt(First) \in Nat
  BY <1>1, VersionOfThePlace DEF First
<1>4. task' \in Task /\ task'.pc \in {"idle", "approved"} /\ task'.ok = FALSE
      /\ (task'.pc = "approved" => task'.approved \in 1 .. published)
  <2>1. CASE release > VersionAt(First)
    <3>1. release \in Releases /\ release \in 1 .. published /\ "approved" \in Steps
      BY <1>1, <1>3, <2>1, PublishedIsARelease DEF Steps
    <3>2. task' = [NoTask EXCEPT !.pc = "approved", !.approved = release]
      BY <1>2, <2>1
    <3>3. task' \in Task /\ task'.pc = "approved" /\ task'.ok = NoTask.ok /\ task'.approved = release
      BY <3>1, <3>2, TaskEnds, TaskTakesApproval
    <3> QED
      BY <3>1, <3>3, TaskEnds
  <2>2. CASE ~(release > VersionAt(First))
    BY <1>2, <2>2, TaskEnds
  <2> QED
    BY <2>1, <2>2
<1>5. TypeOK'
  BY <1>1, <1>2, <1>4 DEF TypeOK, Task, Releases, Resolves, Versions
<1>6. Approved'
  BY <1>1, <1>4 DEF Approved
<1>7. Checked' /\ MovedIn'
  BY <1>1, <1>4 DEF Checked, MovedIn, Holding, Swapping, Windows, Inv
<1>8. CopyIsKept'
  BY <1>1, <1>4 DEF CopyIsKept, Inv, Swapping, Whole, KeepsACopy, Windows
<1>9. RunsWhatWasChecked' /\ SwapAnswersTrue'
  BY <1>1, <1>4 DEF RunsWhatWasChecked, SwapAnswersTrue, Inv, Windows
<1> QED
  BY <1>5, <1>6, <1>7, <1>8, <1>9 DEF Inv

\* An apply that is given up before anything was downloaded.
LEMMA GivingUpKeepsInv ==
    ASSUME Inv, task' = NoTask, task.pc \in {"approved", "resolved"},
           UNCHANGED <<app, published, running, crashes, place, ours, file, locked, confirmed, ran>>,
           cached' \in 0 .. published
    PROVE  Inv'
<1>1. task' \in Task /\ task'.pc = "idle" /\ task'.ok = FALSE
  BY TaskEnds
<1>2. TypeOK'
  BY <1>1 DEF TypeOK, Task, Releases, Inv
<1>3. Approved' /\ Checked' /\ MovedIn'
  BY <1>1 DEF Approved, Checked, MovedIn, Holding, Swapping, Windows, Inv
<1>4. CopyIsKept'
  BY <1>1 DEF CopyIsKept, Inv, Swapping, Whole, KeepsACopy, Windows
<1>5. RunsWhatWasChecked' /\ SwapAnswersTrue'
  BY <1>1 DEF RunsWhatWasChecked, SwapAnswersTrue, Inv, Windows
<1> QED
  BY <1>2, <1>3, <1>4, <1>5 DEF Inv

LEMMA ResolveKeepsInv ==
    ASSUME Inv, Resolve
    PROVE  Inv'
<1>1. UNCHANGED <<app, published, running, crashes, place, ours, file, locked, confirmed, ran>>
      /\ TypeOK /\ task.pc = "approved"
  BY DEF Resolve, Inv, world, disk, history
<1>2. PICK release \in 0 .. published :
         /\ Resolves(release)
         /\ task' = IF Found /\ release = task.approved
                    THEN [task EXCEPT !.pc = "resolved", !.release = release]
                    ELSE NoTask
  BY DEF Resolve
<1>3. cached' \in 0 .. published
  BY <1>1, <1>2 DEF Resolves, TypeOK, Versions
<1>4. CASE Found /\ release = task.approved
  <2>1. release \in Releases /\ task \in Task /\ "resolved" \in Steps
    BY <1>1, PublishedIsARelease DEF Steps
  <2>2. task' = [task EXCEPT !.pc = "resolved", !.release = release]
    BY <1>2, <1>4
  <2>3. task' \in Task /\ task'.pc = "resolved" /\ task'.ok = task.ok
        /\ task'.release = task.approved /\ task'.approved = task.approved
    BY <1>4, <2>1, <2>2, TaskTakesRelease
  <2>4. TypeOK'
    BY <1>1, <1>3, <2>3 DEF TypeOK, Task, Releases
  <2>5. Approved' /\ Checked' /\ MovedIn'
    BY <1>1, <2>3 DEF Approved, Checked, MovedIn, Holding, Swapping, Windows, Inv
  <2>6. Windows \/ Whole("name")
    <3>1. app \in App /\ (app.platform = "macos" => app.leftover = "none")
      BY <1>1, AppsAssumption DEF TypeOK
    <3> QED
      BY <1>4, <3>1 DEF Found, First, Whole, App, Windows
  <2>7. CopyIsKept'
    BY <1>1, <2>3, <2>6 DEF CopyIsKept, Inv, Swapping, Whole, KeepsACopy, Windows
  <2>8. RunsWhatWasChecked' /\ SwapAnswersTrue'
    BY <1>1, <2>3 DEF RunsWhatWasChecked, SwapAnswersTrue, Inv, Windows
  <2> QED
    BY <2>4, <2>5, <2>7, <2>8 DEF Inv
<1>5. CASE ~(Found /\ release = task.approved)
  <2>1. task' = NoTask
    BY <1>2, <1>5
  <2> QED
    BY <1>1, <1>3, <2>1, GivingUpKeepsInv
<1> QED
  BY <1>4, <1>5

\* A step that only says that the apply has come further.
LEMMA ComingOnKeepsInv ==
    ASSUME Inv, NEW pc \in Steps, To(pc),
           \/ task.pc = "resolved" /\ pc = "free"
           \/ task.pc = "locked" /\ pc = "verified" /\ \A f \in file : Genuine(f)
           \/ task.pc = "downloaded" /\ pc = "locked" /\ ~Windows
           \/ task.pc \in {"locked", "verified"} /\ pc = "cleaning",
           UNCHANGED <<app, published, cached, running, crashes, place, ours, file, locked,
                       confirmed, ran>>
    PROVE  Inv'
<1>1. /\ TypeOK /\ task' \in Task /\ task'.pc = pc /\ task'.approved = task.approved
      /\ task'.release = task.release /\ task'.ok = task.ok
  BY TaskMoves DEF Inv
<1>2. TypeOK'
  BY <1>1 DEF TypeOK, Task, Releases
<1>3. Approved'
  BY <1>1 DEF Approved, Inv
<1>4. Checked'
  BY <1>1 DEF Checked, Holding, Swapping, Windows, Genuine, Inv
<1>5. CopyIsKept' /\ MovedIn'
  BY <1>1 DEF CopyIsKept, MovedIn, Inv, Swapping, Whole, KeepsACopy, Windows
<1>6. RunsWhatWasChecked'
  BY DEF RunsWhatWasChecked, Inv, Windows
<1>7. SwapAnswersTrue'
  BY <1>1 DEF SwapAnswersTrue, Inv, Approved, Windows
<1> QED
  BY <1>2, <1>3, <1>4, <1>5, <1>6, <1>7 DEF Inv

LEMMA DeclinedKeepsInv ==
    ASSUME Inv, Declined
    PROVE  Inv'
<1>1. cached \in 0 .. published /\ UNCHANGED <<app, published, cached, running, crashes, place, ours,
                                              file, locked, confirmed, ran>>
  BY PublishedIsARelease DEF Declined, Inv, world, disk, history
<1> QED
  BY <1>1, GivingUpKeepsInv DEF Declined

LEMMA CheckRunningKeepsInv ==
    ASSUME Inv, CheckRunning
    PROVE  Inv'
<1>1. cached \in 0 .. published /\ UNCHANGED <<app, published, cached, running, crashes, place, ours,
                                              file, locked, confirmed, ran>>
  BY PublishedIsARelease DEF CheckRunning, Inv, world, disk, history
<1>2. task.pc = "resolved" /\ (task' = NoTask \/ To("free")) /\ "free" \in Steps
  BY DEF CheckRunning, Steps
<1> QED
  BY <1>1, <1>2, GivingUpKeepsInv, ComingOnKeepsInv

LEMMA StartDownloadKeepsInv ==
    ASSUME Inv, StartDownload
    PROVE  Inv'
<1>1. /\ UNCHANGED <<app, published, cached, running, crashes, place, ours, locked, confirmed, ran>>
      /\ TypeOK /\ task.pc = "free" /\ To("downloading") /\ "downloading" \in Steps
  BY DEF StartDownload, Inv, world, history, Steps
<1>2. /\ task' \in Task /\ task'.pc = "downloading" /\ task'.approved = task.approved
      /\ task'.release = task.release /\ task'.ok = task.ok
  BY <1>1, TaskMoves
<1>3. task.release = task.approved /\ task.release \in Versions
  BY <1>1, PublishedIsARelease DEF Inv, Approved, Versions
<1>4. \E f \in Files : file' = {f} /\ f.version = task.approved
  <2>1. PICK f : f = [version |-> task.release, genuine |-> TRUE, whole |-> FALSE]
    OBVIOUS
  <2>2. f \in Files /\ f.version = task.approved
    BY <1>3, <2>1 DEF Files
  <2>3. file' = {f}
    BY <2>1 DEF StartDownload
  <2> QED
    BY <2>2, <2>3
<1>5. file' # {} /\ file' \subseteq Files /\ (\A f, g \in file' : f = g)
      /\ \A f \in file' : f.version >= task.approved
  BY <1>3, <1>4 DEF Versions
<1>6. ~locked
  BY <1>1 DEF TypeOK
<1>7. TypeOK'
  BY <1>1, <1>2, <1>5, <1>6 DEF TypeOK, Task, Releases
<1>8. Approved' /\ Checked' /\ MovedIn'
  BY <1>1, <1>2, <1>5 DEF Approved, Checked, MovedIn, Holding, Swapping, Windows, Inv
<1>9. CopyIsKept'
  BY <1>1, <1>2 DEF CopyIsKept, Inv, Swapping, Whole, KeepsACopy, Windows
<1>10. RunsWhatWasChecked' /\ SwapAnswersTrue'
  BY <1>1, <1>2 DEF RunsWhatWasChecked, SwapAnswersTrue, Inv, Windows
<1> QED
  BY <1>7, <1>8, <1>9, <1>10 DEF Inv

LEMMA DownloadKeepsInv ==
    ASSUME Inv, Download
    PROVE  Inv'
<1>1. /\ UNCHANGED <<app, published, cached, running, crashes, place, ours, locked, confirmed, ran>>
      /\ TypeOK /\ task.pc = "downloading" /\ "downloaded" \in Steps /\ "cleaning" \in Steps
  BY DEF Download, Inv, world, history, Steps
<1>2. task.release = task.approved /\ task.release \in 1 .. published /\ task.ok = FALSE
  BY <1>1, PublishedIsARelease DEF Inv, Approved, Task
<1>3. ~locked
  BY <1>1 DEF TypeOK
<1>4. CASE \E v \in task.release .. published, genuine \in BOOLEAN :
              file' = {[version |-> v, genuine |-> genuine, whole |-> TRUE]} /\ To("downloaded")
  <2>1. PICK v \in task.release .. published, genuine \in BOOLEAN :
           file' = {[version |-> v, genuine |-> genuine, whole |-> TRUE]} /\ To("downloaded")
    BY <1>4
  <2>2. v \in Versions /\ v >= task.approved
    BY <1>1, <1>2, PublishedIsARelease DEF Versions
  <2>3. PICK f : f = [version |-> v, genuine |-> genuine, whole |-> TRUE]
    OBVIOUS
  <2>4. f \in Files /\ f.version >= task.approved
    BY <2>2, <2>3 DEF Files
  <2>5. file' = {f}
    BY <2>1, <2>3
  <2>6. file' # {} /\ file' \subseteq Files /\ (\A g, h \in file' : g = h)
        /\ \A g \in file' : g.version >= task.approved
    BY <2>4, <2>5
  <2>7. /\ task' \in Task /\ task'.pc = "downloaded" /\ task'.approved = task.approved
        /\ task'.release = task.release /\ task'.ok = task.ok
    BY <1>1, <2>1, TaskMoves
  <2>8. TypeOK'
    BY <1>1, <1>3, <2>6, <2>7 DEF TypeOK, Task, Releases
  <2>9. Approved' /\ Checked' /\ MovedIn'
    BY <1>1, <2>6, <2>7 DEF Approved, Checked, MovedIn, Holding, Swapping, Windows, Inv
  <2>10. CopyIsKept'
    BY <1>1, <2>7 DEF CopyIsKept, Inv, Swapping, Whole, KeepsACopy, Windows
  <2>11. RunsWhatWasChecked' /\ SwapAnswersTrue'
    BY <1>1, <2>7 DEF RunsWhatWasChecked, SwapAnswersTrue, Inv, Windows
  <2> QED
    BY <2>8, <2>9, <2>10, <2>11 DEF Inv
<1>5. CASE file' = {} /\ To("cleaning")
  <2>1. /\ task' \in Task /\ task'.pc = "cleaning" /\ task'.approved = task.approved
        /\ task'.release = task.release /\ task'.ok = FALSE
    BY <1>1, <1>2, <1>5, TaskMoves
  <2>2. TypeOK'
    BY <1>1, <1>3, <1>5, <2>1 DEF TypeOK, Task, Releases
  <2>3. Approved' /\ Checked' /\ MovedIn'
    BY <1>1, <1>5, <2>1 DEF Approved, Checked, MovedIn, Holding, Swapping, Windows, Inv
  <2>4. CopyIsKept'
    BY <1>1, <2>1 DEF CopyIsKept, Inv, Swapping, Whole, KeepsACopy, Windows
  <2>5. RunsWhatWasChecked' /\ SwapAnswersTrue'
    BY <1>1, <2>1 DEF RunsWhatWasChecked, SwapAnswersTrue, Inv, Windows
  <2> QED
    BY <2>2, <2>3, <2>4, <2>5 DEF Inv
<1> QED
  BY <1>4, <1>5 DEF Download

LEMMA LockKeepsInv ==
    ASSUME Inv, Lock
    PROVE  Inv'
<1>1. /\ UNCHANGED <<app, published, cached, running, crashes, place, ours, file, confirmed, ran>>
      /\ TypeOK /\ task.pc = "downloaded" /\ "locked" \in Steps /\ "cleaning" \in Steps
      /\ file # {}
  BY DEF Lock, Inv, world, history, Steps, Checked, Holding
<1>2. CASE ~Windows
  BY <1>1, <1>2, ComingOnKeepsInv DEF Lock
<1>3. CASE Windows
  <2>1. PICK got \in BOOLEAN : locked' = got /\ To(IF got THEN "locked" ELSE "cleaning")
    BY <1>3 DEF Lock
  <2>2. PICK pc \in {"locked", "cleaning"} : To(pc) /\ (pc = "locked" => locked') /\ locked' \in BOOLEAN
    BY <2>1
  <2>3. /\ task' \in Task /\ task'.pc = pc /\ task'.approved = task.approved
        /\ task'.release = task.release /\ task'.ok = task.ok
    BY <1>1, <2>2, TaskMoves
  <2>4. TypeOK'
    BY <1>1, <2>2, <2>3 DEF TypeOK, Task, Releases
  <2>5. Approved' /\ Checked' /\ MovedIn'
    BY <1>1, <1>3, <2>2, <2>3 DEF Approved, Checked, MovedIn, Holding, Swapping, Windows, Inv
  <2>6. CopyIsKept'
    BY <1>1, <2>2, <2>3 DEF CopyIsKept, Inv, Swapping, Whole, KeepsACopy, Windows
  <2>7. RunsWhatWasChecked' /\ SwapAnswersTrue'
    BY <1>1, <1>3, <2>3 DEF RunsWhatWasChecked, SwapAnswersTrue, Inv, Windows
  <2> QED
    BY <2>4, <2>5, <2>6, <2>7 DEF Inv
<1> QED
  BY <1>2, <1>3

LEMMA VerifyKeepsInv ==
    ASSUME Inv, Verify
    PROVE  Inv'
<1>1. UNCHANGED <<app, published, cached, running, crashes, place, ours, file, locked, confirmed, ran>>
      /\ task.pc = "locked" /\ "verified" \in Steps /\ "cleaning" \in Steps
  BY DEF Verify, world, disk, history, Steps
<1>2. \/ To("cleaning")
      \/ To("verified") /\ \A f \in file : Genuine(f)
  BY DEF Verify
<1> QED
  BY <1>1, <1>2, ComingOnKeepsInv

-----------------------------------------------------------------------------
(* The steps that install.                                                 *)

\* What is installed goes into the history as what it is and what it was approved as.
LEMMA InstalledIsRecorded ==
    ASSUME TypeOK, Installed, NEW f \in Files, file = {f}, task.approved \in Versions
    PROVE  \E r \in [file : Files, approved : Versions] :
              r.file = f /\ r.approved = task.approved /\ ran' = ran \union {r}
<1> PICK r : r = [file |-> f, approved |-> task.approved]
  OBVIOUS
<1>1. r \in [file : Files, approved : Versions] /\ r.file = f /\ r.approved = task.approved
  OBVIOUS
<1>2. ran' = ran \union {r}
  BY DEF Installed
<1> QED
  BY <1>1, <1>2

\* A downloaded file, and the copy that is made of it.
LEMMA OneFile ==
    ASSUME Inv, task.pc \in Holding
    PROVE  /\ \E f \in Files : file = {f} /\ f.version >= task.approved
           /\ task.approved \in Versions /\ task.approved \in Nat
<1>1. TypeOK /\ file # {} /\ \A f \in file : f.version >= task.approved
  BY DEF Inv, Checked
<1>2. task.approved \in 1 .. published
  BY DEF Inv, Approved, Holding
<1>3. task.approved \in Versions /\ task.approved \in Nat
  BY <1>1, <1>2, PublishedIsARelease DEF Versions
<1>4. PICK f : f \in file
  BY <1>1
<1>5. f \in Files /\ file = {f}
  BY <1>1, <1>4 DEF TypeOK
<1> QED
  BY <1>1, <1>3, <1>4, <1>5

LEMMA RunInstallerKeepsInv ==
    ASSUME Inv, RunInstaller
    PROVE  Inv'
<1>1. /\ UNCHANGED <<app, published, cached, running, crashes, ours, file, confirmed>>
      /\ TypeOK /\ task.pc = "verified" /\ Windows /\ Installed /\ locked' = FALSE
  BY DEF RunInstaller, Inv, world
<1>2. PICK f \in Files : file = {f} /\ f.version >= task.approved
  BY <1>1, OneFile DEF Holding
<1>3. task.approved \in Versions /\ Genuine(f) /\ task.release = task.approved
  BY <1>1, <1>2, OneFile DEF Holding, Inv, Checked, Approved
<1>4. PICK took \in BOOLEAN, ok \in BOOLEAN :
         /\ place' = IF took THEN [place EXCEPT !["name"] = NewCopy] ELSE place
         /\ task' = [task EXCEPT !.pc = "cleaning", !.ok = ok]
  BY DEF RunInstaller
<1>5. /\ task' \in Task /\ task'.pc = "cleaning" /\ task'.approved = task.approved
      /\ task'.release = task.release /\ task'.ok \in BOOLEAN
  BY <1>1, <1>4, TaskAnswers
<1>6. PICK r \in [file : Files, approved : Versions] :
         r.file = f /\ r.approved = task.approved /\ ran' = ran \union {r}
  BY <1>1, <1>2, <1>3, InstalledIsRecorded
<1>7. PICK c \in Copies : NewCopy = {c} /\ c \in WholeCopies
  BY <1>2, NewCopyIsWhole
<1>8. /\ place' \in [name : SUBSET Copies, other : SUBSET Copies]
      /\ \A p \in {"name", "other"} : \A d, e \in place'[p] : d = e
      /\ (Whole("name"))'
  <2>1. CASE place' = place
    BY <1>1, <2>1 DEF TypeOK, Inv, CopyIsKept, Whole
  <2>2. CASE place' = [place EXCEPT !["name"] = {c}]
    <3>1. place \in [name : SUBSET Copies, other : SUBSET Copies]
      BY <1>1 DEF TypeOK
    <3>2. place'["name"] = {c} /\ place'["other"] = place["other"]
          /\ place' \in [name : SUBSET Copies, other : SUBSET Copies]
      BY <1>7, <2>2, <3>1
    <3>3. \A p \in {"name", "other"} : \A d, e \in place'[p] : d = e
      BY <1>1, <3>2 DEF TypeOK
    <3> QED
      BY <1>7, <3>2, <3>3 DEF Whole
  <2> QED
    BY <1>4, <1>7, <2>1, <2>2
<1>9. TypeOK'
  BY <1>1, <1>5, <1>6, <1>8 DEF TypeOK, Task, Releases
<1>10. Approved' /\ Checked' /\ MovedIn'
  BY <1>1, <1>5 DEF Approved, Checked, MovedIn, Holding, Swapping, Windows, Inv
<1>11. CopyIsKept'
  BY <1>1, <1>5, <1>8 DEF CopyIsKept, Swapping, Whole, KeepsACopy, Windows
<1>12. RunsWhatWasChecked'
  <2>1. f.whole /\ f.genuine /\ (app.digest => f.version = task.approved)
    BY <1>3 DEF Genuine
  <2>2. r.file.whole /\ r.file.genuine /\ r.file.version >= r.approved
        /\ (app.digest => r.file.version = r.approved)
    BY <1>2, <1>6, <2>1
  <2>3. \A q \in ran : /\ q.file.whole /\ q.file.genuine /\ q.file.version >= q.approved
                       /\ app.digest => q.file.version = q.approved
    BY <1>1 DEF Inv, RunsWhatWasChecked
  <2> QED
    BY <1>1, <1>6, <2>2, <2>3 DEF RunsWhatWasChecked
<1>13. SwapAnswersTrue'
  BY <1>1 DEF SwapAnswersTrue, Windows
<1> QED
  BY <1>9, <1>10, <1>11, <1>12, <1>13 DEF Inv

\* A step of the swap, which is none of Windows, from where it leaves the two places.
LEMMA SwapStep ==
    ASSUME Inv, ~Windows, UNCHANGED <<app, published, cached, running, crashes, file, locked, confirmed>>,
           ran' = ran \/ (Installed /\ task.pc \in Holding),
           ours' \in BOOLEAN, task' \in Task, task'.pc \in Swapping \union {"cleaning"},
           task'.approved = task.approved, task'.release = task.release,
           task.pc \in {"verified"} \union Swapping, task'.ok => task'.pc = "cleaning",
           task'.pc \in Holding => task.pc \in Holding,
           place' \in [name : SUBSET Copies, other : SUBSET Copies],
           \A p \in {"name", "other"} : \A d, e \in place'[p] : d = e,
           (CopyIsKept /\ MovedIn /\ SwapAnswersTrue)'
    PROVE  Inv'
<1>1. TypeOK /\ ran \subseteq [file : Files, approved : Versions]
  BY DEF Inv, TypeOK
<1>2. ran' \subseteq [file : Files, approved : Versions]
  <2>1. CASE Installed /\ task.pc \in Holding
    <3>1. PICK f \in Files : file = {f}
      BY <2>1, OneFile
    <3>2. \E r \in [file : Files, approved : Versions] : ran' = ran \union {r}
      BY <1>1, <2>1, <3>1, OneFile, InstalledIsRecorded
    <3> QED
      BY <1>1, <3>2
  <2> QED
    BY <1>1, <2>1
<1>3. TypeOK'
  BY <1>1, <1>2 DEF TypeOK, Task, Releases, Inv, Checked
<1>4. Approved'
  BY DEF Inv, Approved, Swapping
<1>5. Checked'
  BY DEF Inv, Checked, Windows, Holding, Swapping
<1>6. RunsWhatWasChecked'
  BY DEF RunsWhatWasChecked, Windows
<1> QED
  BY <1>3, <1>4, <1>5, <1>6 DEF Inv

LEMMA SetAsideKeepsInv ==
    ASSUME Inv, SetAside
    PROVE  Inv'
<1>1. /\ UNCHANGED <<app, published, cached, running, crashes, file, locked, confirmed, ran>>
      /\ TypeOK /\ task.pc = "verified" /\ ~Windows /\ Whole("name")
      /\ "aside" \in Steps /\ "cleaning" \in Steps
  BY DEF SetAside, Inv, world, files, history, Steps, CopyIsKept
<1>2. place \in [name : SUBSET Copies, other : SUBSET Copies]
      /\ \A p \in {"name", "other"} : \A d, e \in place[p] : d = e
  BY <1>1 DEF TypeOK
<1>3. CASE place' = [name |-> {}, other |-> place["name"]] /\ ours' = TRUE /\ To("aside")
  <2>1. /\ task' \in Task /\ task'.pc = "aside" /\ task'.approved = task.approved
        /\ task'.release = task.release /\ task'.ok = task.ok
    BY <1>1, <1>3, TaskMoves
  <2>2. place' \in [name : SUBSET Copies, other : SUBSET Copies]
        /\ place'["name"] = {} /\ place'["other"] = place["name"]
    BY <1>2, <1>3
  <2>3. \A p \in {"name", "other"} : \A d, e \in place'[p] : d = e
    BY <1>2, <2>2
  <2>4. (CopyIsKept /\ MovedIn /\ SwapAnswersTrue)'
    BY <1>1, <2>1, <2>2 DEF CopyIsKept, MovedIn, SwapAnswersTrue, Swapping, Whole, KeepsACopy, Windows
  <2>5. ~task.ok
    BY <1>1 DEF Inv, Approved
  <2> QED
    BY <1>1, <1>3, <2>1, <2>2, <2>3, <2>4, <2>5, SwapStep DEF Holding, Swapping
<1>4. CASE UNCHANGED <<place, ours>> /\ To("cleaning")
  BY <1>1, <1>4, ComingOnKeepsInv
<1> QED
  BY <1>3, <1>4 DEF SetAside

LEMMA MoveInKeepsInv ==
    ASSUME Inv, MoveIn \/ CopyIn
    PROVE  Inv'
<1>1. /\ UNCHANGED <<app, published, cached, running, crashes, ours, file, locked, confirmed>>
      /\ TypeOK /\ task.pc \in {"aside", "copying"} /\ ~Windows /\ Whole("other") /\ ~task.ok
      /\ "moved" \in Steps /\ "copying" \in Steps /\ "restoring" \in Steps
  BY DEF MoveIn, CopyIn, Inv, world, files, history, Steps, CopyIsKept, Checked, Swapping, Approved
<1>2. place \in [name : SUBSET Copies, other : SUBSET Copies] /\ ours \in BOOLEAN
      /\ \A p \in {"name", "other"} : \A d, e \in place[p] : d = e
  BY <1>1 DEF TypeOK
<1>3. PICK f \in Files : file = {f} /\ f.version >= task.approved
  BY <1>1, OneFile DEF Holding
<1>4. CASE place' = [place EXCEPT !["name"] = NewCopy] /\ Installed /\ To("moved")
  <2>1. PICK c \in Copies : /\ NewCopy = {c} /\ c \in WholeCopies /\ c.version = f.version
                            /\ c.whole = TRUE
    BY <1>3, NewCopyIsWhole
  <2>2. place'["name"] = {c} /\ place'["other"] = place["other"]
        /\ place' \in [name : SUBSET Copies, other : SUBSET Copies]
    BY <1>2, <1>4, <2>1
  <2>3. \A p \in {"name", "other"} : \A d, e \in place'[p] : d = e
    BY <1>2, <2>2
  <2>4. /\ task' \in Task /\ task'.pc = "moved" /\ task'.approved = task.approved
        /\ task'.release = task.release /\ task'.ok = task.ok
    BY <1>1, <1>4, TaskMoves
  <2>5. (CopyIsKept /\ MovedIn /\ SwapAnswersTrue)'
    BY <1>1, <1>3, <2>1, <2>2, <2>4
       DEF CopyIsKept, MovedIn, SwapAnswersTrue, Swapping, Whole, KeepsACopy, Windows
  <2> QED
    BY <1>1, <1>2, <1>4, <2>2, <2>3, <2>4, <2>5, SwapStep DEF Holding, Swapping
<1>5. CASE /\ place' = [place EXCEPT !["name"] = UNION {Copy(g.version, FALSE) : g \in file}]
           /\ UNCHANGED ran /\ To("copying")
  <2>1. PICK c : c = [version |-> f.version, whole |-> FALSE]
    OBVIOUS
  <2>2. c \in Copies
    BY <2>1 DEF Copies, Files
  <2>3. UNION {Copy(g.version, FALSE) : g \in file} = {c}
    BY <1>3, <2>1 DEF Copy
  <2>4. place'["name"] = {c} /\ place'["other"] = place["other"]
        /\ place' \in [name : SUBSET Copies, other : SUBSET Copies]
    <3>1. place' = [place EXCEPT !["name"] = {c}]
      BY <1>5, <2>3
    <3> QED
      BY <1>2, <2>2, <3>1
  <2>5. \A p \in {"name", "other"} : \A d, e \in place'[p] : d = e
    BY <1>2, <2>4
  <2>6. /\ task' \in Task /\ task'.pc = "copying" /\ task'.approved = task.approved
        /\ task'.release = task.release /\ task'.ok = task.ok
    BY <1>1, <1>5, TaskMoves
  <2>7. (CopyIsKept /\ MovedIn /\ SwapAnswersTrue)'
    BY <1>1, <2>4, <2>6 DEF CopyIsKept, MovedIn, SwapAnswersTrue, Swapping, Whole, KeepsACopy, Windows
  <2> QED
    BY <1>1, <1>2, <1>5, <2>4, <2>5, <2>6, <2>7, SwapStep DEF Holding, Swapping
<1>6. CASE UNCHANGED <<place, ran>> /\ To("restoring")
  <2>1. /\ task' \in Task /\ task'.pc = "restoring" /\ task'.approved = task.approved
        /\ task'.release = task.release /\ task'.ok = task.ok
    BY <1>1, <1>6, TaskMoves
  <2>2. (CopyIsKept /\ MovedIn /\ SwapAnswersTrue)'
    BY <1>1, <1>6, <2>1 DEF CopyIsKept, MovedIn, SwapAnswersTrue, Swapping, Whole, KeepsACopy, Windows
  <2> QED
    BY <1>1, <1>2, <1>6, <2>1, <2>2, SwapStep DEF Holding, Swapping
<1> QED
  BY <1>4, <1>5, <1>6 DEF MoveIn, CopyIn

LEMMA RemoveOldKeepsInv ==
    ASSUME Inv, RemoveOld
    PROVE  Inv'
<1>1. /\ UNCHANGED <<app, published, cached, running, crashes, file, locked, confirmed, ran>>
      /\ TypeOK /\ task.pc = "moved" /\ ~Windows /\ Whole("name") /\ ours' \in BOOLEAN
  BY DEF RemoveOld, Inv, world, files, history, CopyIsKept, Checked, Swapping, TypeOK
<1>2. place \in [name : SUBSET Copies, other : SUBSET Copies]
      /\ \A p \in {"name", "other"} : \A d, e \in place[p] : d = e
  BY <1>1 DEF TypeOK
<1>3. /\ task' \in Task /\ task'.pc = "cleaning" /\ task'.approved = task.approved
      /\ task'.release = task.release /\ task'.ok = TRUE
  BY <1>1, TaskAnswers DEF RemoveOld
<1>4. PICK left \in SUBSET Copies : /\ \A d, e \in left : d = e
                                   /\ place' = [place EXCEPT !["other"] = left]
  <2> DEFINE torn == {[c EXCEPT !.whole = FALSE] : c \in place["other"]}
  <2>1. torn \subseteq Copies /\ \A d, e \in torn : d = e
    BY <1>2 DEF Copies
  <2>2. place = [place EXCEPT !["other"] = place["other"]] /\ place["other"] \subseteq Copies
    BY <1>2
  <2>3. \/ place' = [place EXCEPT !["other"] = {}] \/ place' = place
        \/ place' = [place EXCEPT !["other"] = torn]
    BY DEF RemoveOld
  <2>4. CASE place' = [place EXCEPT !["other"] = {}]
    BY <2>4
  <2>5. CASE place' = place
    BY <1>2, <2>2, <2>5
  <2>6. CASE place' = [place EXCEPT !["other"] = torn]
    BY <2>1, <2>6
  <2> QED
    BY <2>3, <2>4, <2>5, <2>6
<1>5. place'["name"] = place["name"] /\ place'["other"] = left
      /\ place' \in [name : SUBSET Copies, other : SUBSET Copies]
  BY <1>2, <1>4
<1>6. \A p \in {"name", "other"} : \A d, e \in place'[p] : d = e
  BY <1>2, <1>4, <1>5
<1>7. (CopyIsKept /\ MovedIn /\ SwapAnswersTrue)'
  <2>1. \E c \in place["name"] : c.whole /\ c.version >= task.approved
    BY <1>1 DEF Inv, MovedIn
  <2>2. SwapAnswersTrue'
    BY <1>3, <1>5, <2>1 DEF SwapAnswersTrue
  <2>3. CopyIsKept' /\ MovedIn'
    BY <1>1, <1>3, <1>5 DEF CopyIsKept, MovedIn, Swapping, Whole, KeepsACopy, Windows
  <2> QED
    BY <2>2, <2>3
<1>8. task.pc \in {"verified"} \union Swapping
  BY <1>1 DEF Swapping
<1>9. task'.pc \in Swapping \union {"cleaning"}
  BY <1>3 DEF Swapping
<1>10. task'.ok => task'.pc = "cleaning"
  BY <1>1, <1>3
<1>11. task'.pc \in Holding => task.pc \in Holding
  BY <1>1, <1>3 DEF Holding
<1>12. UNCHANGED <<app, published, cached, running, crashes, file, locked, confirmed>>
  BY <1>1
<1>13. ran' = ran \/ (Installed /\ task.pc \in Holding)
  BY <1>1
<1>14. ours' \in BOOLEAN
  BY <1>1
<1>15. /\ task' \in Task /\ task'.approved = task.approved /\ task'.release = task.release
      /\ place' \in [name : SUBSET Copies, other : SUBSET Copies] /\ ~Windows
  BY <1>1, <1>3, <1>5
<1> QED
  BY <1>6, <1>7, <1>8, <1>9, <1>10, <1>11, <1>12, <1>13, <1>14, <1>15, SwapStep

LEMMA RemovePartialKeepsInv ==
    ASSUME Inv, RemovePartial
    PROVE  Inv'
<1>1. /\ UNCHANGED <<app, published, cached, running, crashes, ours, file, locked, confirmed, ran>>
      /\ TypeOK /\ task.pc = "restoring" /\ ~Windows /\ Whole("other") /\ ~task.ok
      /\ To("putting back") /\ "putting back" \in Steps
  BY DEF RemovePartial, Inv, world, files, history, CopyIsKept, Checked, Approved, Swapping, Steps
<1>2. place \in [name : SUBSET Copies, other : SUBSET Copies] /\ ours \in BOOLEAN
      /\ \A p \in {"name", "other"} : \A d, e \in place[p] : d = e
  BY <1>1 DEF TypeOK
<1>3. /\ task' \in Task /\ task'.pc = "putting back" /\ task'.approved = task.approved
      /\ task'.release = task.release /\ task'.ok = task.ok
  BY <1>1, TaskMoves
<1>4. place' = [place EXCEPT !["name"] = {}] \/ place' = place
  BY DEF RemovePartial
<1>5. place'["name"] \in {{}, place["name"]} /\ place'["other"] = place["other"]
      /\ place' \in [name : SUBSET Copies, other : SUBSET Copies]
  BY <1>2, <1>4
<1>6. \A p \in {"name", "other"} : \A d, e \in place'[p] : d = e
  BY <1>2, <1>5
<1>7. (CopyIsKept /\ MovedIn /\ SwapAnswersTrue)'
  BY <1>1, <1>3, <1>5 DEF CopyIsKept, MovedIn, SwapAnswersTrue, Swapping, Whole, KeepsACopy, Windows
<1>8. task.pc \in {"verified"} \union Swapping
  BY <1>1 DEF Swapping
<1>9. task'.pc \in Swapping \union {"cleaning"}
  BY <1>3 DEF Swapping
<1>10. task'.ok => task'.pc = "cleaning"
  BY <1>1, <1>3
<1>11. task'.pc \in Holding => task.pc \in Holding
  BY <1>1, <1>3 DEF Holding
<1>12. UNCHANGED <<app, published, cached, running, crashes, file, locked, confirmed>>
  BY <1>1
<1>13. ran' = ran \/ (Installed /\ task.pc \in Holding)
  BY <1>1
<1>14. ours' \in BOOLEAN
  BY <1>1, <1>2
<1>15. /\ task' \in Task /\ task'.approved = task.approved /\ task'.release = task.release
      /\ place' \in [name : SUBSET Copies, other : SUBSET Copies] /\ ~Windows
  BY <1>1, <1>3, <1>5
<1> QED
  BY <1>6, <1>7, <1>8, <1>9, <1>10, <1>11, <1>12, <1>13, <1>14, <1>15, SwapStep

LEMMA PutBackKeepsInv ==
    ASSUME Inv, PutBack
    PROVE  Inv'
<1>1. /\ UNCHANGED <<app, published, cached, running, crashes, file, locked, confirmed, ran>>
      /\ TypeOK /\ task.pc = "putting back" /\ ~Windows /\ Whole("other") /\ ~task.ok
      /\ To("cleaning") /\ "cleaning" \in Steps /\ ours' \in BOOLEAN
  BY DEF PutBack, Inv, world, files, history, CopyIsKept, Checked, Approved, Swapping, Steps, TypeOK
<1>2. place \in [name : SUBSET Copies, other : SUBSET Copies]
      /\ \A p \in {"name", "other"} : \A d, e \in place[p] : d = e
  BY <1>1 DEF TypeOK
<1>3. /\ task' \in Task /\ task'.pc = "cleaning" /\ task'.approved = task.approved
      /\ task'.release = task.release /\ task'.ok = task.ok
  BY <1>1, TaskMoves
<1>4. place' = [name |-> place["other"], other |-> {}] \/ place' = place
  BY DEF PutBack
<1>5. /\ place'["other"] = place["other"] \/ place'["name"] = place["other"]
      /\ place' \in [name : SUBSET Copies, other : SUBSET Copies]
  BY <1>2, <1>4
<1>6. \A p \in {"name", "other"} : \A d, e \in place'[p] : d = e
  BY <1>2, <1>4
<1>7. (CopyIsKept /\ MovedIn /\ SwapAnswersTrue)'
  BY <1>1, <1>3, <1>5 DEF CopyIsKept, MovedIn, SwapAnswersTrue, Swapping, Whole, KeepsACopy, Windows
<1>8. task.pc \in {"verified"} \union Swapping
  BY <1>1 DEF Swapping
<1>9. task'.pc \in Swapping \union {"cleaning"}
  BY <1>3 DEF Swapping
<1>10. task'.ok => task'.pc = "cleaning"
  BY <1>1, <1>3
<1>11. task'.pc \in Holding => task.pc \in Holding
  BY <1>1, <1>3 DEF Holding
<1>12. UNCHANGED <<app, published, cached, running, crashes, file, locked, confirmed>>
  BY <1>1
<1>13. ran' = ran \/ (Installed /\ task.pc \in Holding)
  BY <1>1
<1>14. ours' \in BOOLEAN
  BY <1>1
<1>15. /\ task' \in Task /\ task'.approved = task.approved /\ task'.release = task.release
      /\ place' \in [name : SUBSET Copies, other : SUBSET Copies] /\ ~Windows
  BY <1>1, <1>3, <1>5
<1> QED
  BY <1>6, <1>7, <1>8, <1>9, <1>10, <1>11, <1>12, <1>13, <1>14, <1>15, SwapStep

-----------------------------------------------------------------------------
(* The end of an apply, and what goes on without it.                       *)

LEMMA CleanKeepsInv ==
    ASSUME Inv, Clean
    PROVE  Inv'
<1>1. /\ UNCHANGED <<app, published, cached, running, crashes, place, ours, confirmed, ran>>
      /\ TypeOK /\ task.pc = "cleaning" /\ locked' = FALSE /\ file' = {}
      /\ (task' = NoTask \/ To("confirming")) /\ "confirming" \in Steps
  BY DEF Clean, Inv, world, history, Steps, To
<1>2. task' \in Task /\ task'.pc \in {"idle", "confirming"}
      /\ (task'.pc = "idle" => ~task'.ok)
      /\ (task'.pc = "confirming" => task'.approved = task.approved /\ task'.release = task.release)
  BY <1>1, TaskEnds, TaskMoves
<1>3. TypeOK'
  BY <1>1, <1>2 DEF TypeOK, Task, Releases
<1>4. Approved' /\ Checked' /\ MovedIn'
  BY <1>1, <1>2 DEF Approved, Checked, MovedIn, Holding, Swapping, Windows, Inv
<1>5. CopyIsKept'
  BY <1>1, <1>2 DEF CopyIsKept, Inv, Swapping, Whole, KeepsACopy, Windows
<1>6. RunsWhatWasChecked' /\ SwapAnswersTrue'
  BY <1>1, <1>2 DEF RunsWhatWasChecked, SwapAnswersTrue, Inv, Windows
<1> QED
  BY <1>3, <1>4, <1>5, <1>6 DEF Inv

\* What is confirmed is the larger of two versions.
LEMMA ConfirmedIsTheLarger ==
    ASSUME Inv, Confirm
    PROVE  /\ task.approved \in 1 .. published /\ confirmed \in 0 .. published /\ published \in Nat
           /\ confirmed' \in {confirmed, task.approved}
           /\ confirmed' = task.approved => Readback >= task.approved \/ confirmed' = confirmed
<1>1. task.approved \in 1 .. published /\ confirmed \in 0 .. published /\ published \in Nat
  BY PublishedIsARelease DEF Inv, Approved, Confirm
<1>2. confirmed' = IF Readback >= task.approved THEN Max({task.approved, confirmed}) ELSE confirmed
  BY DEF Confirm
<1>3. Max({task.approved, confirmed}) \in {task.approved, confirmed}
  BY <1>1, LargerOfTwo
<1> QED
  BY <1>1, <1>2, <1>3

LEMMA ConfirmKeepsInv ==
    ASSUME Inv, Confirm
    PROVE  Inv'
<1>1. /\ UNCHANGED <<app, published, cached, running, crashes, place, ours, file, locked, ran>>
      /\ TypeOK /\ task.pc = "confirming" /\ task' = NoTask
  BY DEF Confirm, Inv, world, disk
<1>2. task' \in Task /\ task'.pc = "idle" /\ ~task'.ok
  BY <1>1, TaskEnds
<1>3. confirmed' \in 0 .. published
  BY ConfirmedIsTheLarger
<1>4. TypeOK'
  BY <1>1, <1>2, <1>3 DEF TypeOK, Task, Releases
<1>5. Approved' /\ Checked' /\ MovedIn'
  BY <1>1, <1>2 DEF Approved, Checked, MovedIn, Holding, Swapping, Windows, Inv
<1>6. CopyIsKept'
  BY <1>1, <1>2 DEF CopyIsKept, Inv, Swapping, Whole, KeepsACopy, Windows
<1>7. RunsWhatWasChecked' /\ SwapAnswersTrue'
  BY <1>1, <1>2 DEF RunsWhatWasChecked, SwapAnswersTrue, Inv, Windows
<1> QED
  BY <1>4, <1>5, <1>6, <1>7 DEF Inv

LEMMA PublishKeepsInv ==
    ASSUME Inv, Publish \/ StartOrQuit
    PROVE  Inv'
<1>1. /\ UNCHANGED <<app, crashes, cached, place, ours, file, locked, task, confirmed, ran>>
      /\ TypeOK /\ published' \in {published, published + 1} /\ published' <= MaxVersion
      /\ running' \in BOOLEAN
  <2>1. TypeOK
    BY DEF Inv
  <2>2. MaxVersion \in Nat /\ published \in 1 .. MaxVersion
    BY <2>1, PublishedIsARelease
  <2>3. CASE Publish
    BY <2>1, <2>2, <2>3 DEF Publish, disk, history, TypeOK
  <2>4. CASE StartOrQuit
    BY <2>1, <2>2, <2>4 DEF StartOrQuit, disk, history, TypeOK
  <2> QED
    BY <2>3, <2>4
<1>2. MaxVersion \in Nat /\ published \in 1 .. MaxVersion /\ published' \in 1 .. MaxVersion
      /\ published' >= published
  BY <1>1, PublishedIsARelease
<1>3. cached' \in 0 .. published' /\ confirmed' \in 0 .. published'
  BY <1>1, <1>2, PublishedIsARelease
<1>4. TypeOK'
  BY <1>1, <1>2, <1>3 DEF TypeOK, Versions
<1>5. Approved'
  BY <1>1, <1>2 DEF Inv, Approved
<1>6. Checked' /\ MovedIn' /\ CopyIsKept'
  BY <1>1 DEF Checked, MovedIn, CopyIsKept, Genuine, Whole, KeepsACopy, Windows, Inv
<1>7. RunsWhatWasChecked' /\ SwapAnswersTrue'
  BY <1>1 DEF RunsWhatWasChecked, SwapAnswersTrue, Inv, Windows
<1> QED
  BY <1>4, <1>5, <1>6, <1>7 DEF Inv

\* A file that is held cannot be touched, and touching one leaves its version.
LEMMA TouchKeepsInv ==
    ASSUME Inv, Touch
    PROVE  Inv'
<1>1. /\ UNCHANGED <<app, published, running, crashes, cached, place, ours, locked, task, confirmed, ran>>
      /\ TypeOK /\ ~locked /\ file' = {[f EXCEPT !.genuine = FALSE] : f \in file}
  BY DEF Touch, Inv, world, history
<1>2. file \subseteq Files /\ \A f, g \in file : f = g
  BY <1>1 DEF TypeOK
<1>3. \A f \in file : /\ [f EXCEPT !.genuine = FALSE] \in Files
                      /\ [f EXCEPT !.genuine = FALSE].version = f.version
  BY <1>2 DEF Files
<1>4. /\ file' \subseteq Files /\ (\A f, g \in file' : f = g) /\ (file # {} => file' # {})
      /\ \A g \in file' : \E f \in file : g.version = f.version
  BY <1>1, <1>2, <1>3
<1>5. TypeOK'
  BY <1>1, <1>4 DEF TypeOK
<1>6. Approved' /\ MovedIn' /\ CopyIsKept'
  BY <1>1 DEF Approved, MovedIn, CopyIsKept, Whole, KeepsACopy, Windows, Inv
<1>7. Checked'
  <2>1. task.pc \in Holding => file' # {} /\ \A f \in file' : f.version >= task.approved
    BY <1>4 DEF Inv, Checked
  <2>2. Windows => task.pc \notin {"locked", "verified"} /\ task.pc \notin Swapping
    BY <1>1 DEF Inv, Checked
  <2> QED
    BY <1>1, <2>1, <2>2 DEF Checked, Windows
<1>8. RunsWhatWasChecked' /\ SwapAnswersTrue'
  BY <1>1 DEF RunsWhatWasChecked, SwapAnswersTrue, Inv, Windows
<1> QED
  BY <1>5, <1>6, <1>7, <1>8 DEF Inv

\* On Windows the program itself is under its name unless the left-over entry comes first.
LEMMA ReinstallKeepsInv ==
    ASSUME Inv, Reinstall
    PROVE  Inv'
<1>1. /\ UNCHANGED <<app, published, running, crashes, cached, ours, file, locked, task, confirmed, ran>>
      /\ TypeOK /\ task.pc = "idle" /\ place' = [place EXCEPT ![First] = Copy(published, TRUE)]
  BY DEF Reinstall, Inv, world, files, history
<1>2. published \in Versions /\ First \in {"name", "other"}
  BY <1>1 DEF TypeOK, First
<1>3. PICK c : c = [version |-> published, whole |-> TRUE]
  OBVIOUS
<1>4. c \in Copies /\ Copy(published, TRUE) = {c} /\ c \in WholeCopies
  BY <1>2, <1>3 DEF Copies, Copy, WholeCopies
<1>5. PICK first \in {"name", "other"} : first = First
  BY <1>2
<1>6. place \in [name : SUBSET Copies, other : SUBSET Copies]
      /\ (\A p \in {"name", "other"} : \A d, e \in place[p] : d = e)
      /\ (Windows => Whole("name"))
  BY <1>1 DEF TypeOK, Inv, CopyIsKept
<1>7. place' = [place EXCEPT ![first] = {c}]
  BY <1>1, <1>4, <1>5
<1>8. /\ place' \in [name : SUBSET Copies, other : SUBSET Copies]
      /\ place'[first] = {c}
      /\ \A p \in {"name", "other"} : p # first => place'[p] = place[p]
  BY <1>4, <1>6, <1>7
<1>9. \A p \in {"name", "other"} : \A d, e \in place'[p] : d = e
  BY <1>6, <1>8
<1>10. TypeOK'
  BY <1>1, <1>8, <1>9 DEF TypeOK
<1>11. Approved' /\ Checked' /\ MovedIn'
  BY <1>1 DEF Approved, Checked, MovedIn, Holding, Swapping, Windows, Genuine, Inv
<1>12. CopyIsKept'
  <2>1. (Windows => Whole("name"))'
    BY <1>1, <1>4, <1>5, <1>6, <1>8 DEF Whole, Windows
  <2>2. KeepsACopy'
    BY <1>4, <1>8 DEF KeepsACopy
  <2> QED
    BY <1>1, <2>1, <2>2 DEF CopyIsKept, Swapping, Windows
<1>13. RunsWhatWasChecked' /\ SwapAnswersTrue'
  BY <1>1 DEF RunsWhatWasChecked, SwapAnswersTrue, Inv, Windows
<1> QED
  BY <1>10, <1>11, <1>12, <1>13 DEF Inv

LEMMA CrashKeepsInv ==
    ASSUME Inv, Crash
    PROVE  Inv'
<1>1. /\ UNCHANGED <<app, published, running, cached, place, file, confirmed, ran>>
      /\ TypeOK /\ task' = NoTask /\ locked' = FALSE /\ ours' = FALSE
      /\ crashes' = crashes + 1 /\ crashes < MaxCrashes
  BY DEF Crash, Inv, history
<1>2. task' \in Task /\ task'.pc = "idle" /\ ~task'.ok
  BY <1>1, TaskEnds
<1>3. crashes' \in 0 .. MaxCrashes
  BY <1>1, AppsAssumption DEF TypeOK
<1>4. TypeOK'
  BY <1>1, <1>2, <1>3 DEF TypeOK, Task, Releases
<1>5. Approved' /\ Checked' /\ MovedIn'
  BY <1>1, <1>2 DEF Approved, Checked, MovedIn, Holding, Swapping, Windows, Inv
<1>6. CopyIsKept'
  BY <1>1, <1>2 DEF CopyIsKept, Inv, Swapping, Whole, KeepsACopy, Windows
<1>7. RunsWhatWasChecked' /\ SwapAnswersTrue'
  BY <1>1, <1>2 DEF RunsWhatWasChecked, SwapAnswersTrue, Inv, Windows
<1> QED
  BY <1>4, <1>5, <1>6, <1>7 DEF Inv

-----------------------------------------------------------------------------
LEMMA InitHasInv ==
    ASSUME Init
    PROVE  Inv
<1>1. /\ app \in Apps /\ published = 1 /\ cached = 0 /\ running = FALSE /\ ours = FALSE
      /\ file = {} /\ locked = FALSE /\ task = NoTask /\ confirmed = 0 /\ ran = {} /\ crashes = 0
  BY DEF Init
<1>2. task \in Task /\ task.pc = "idle" /\ ~task.ok
  BY <1>1, TaskEnds
<1>3. MaxVersion \in Nat \ {0} /\ MaxCrashes \in Nat /\ 1 \in Versions
  BY AppsAssumption DEF Versions
<1>4. PICK c : c = [version |-> 1, whole |-> TRUE]
  OBVIOUS
<1>5. c \in Copies /\ Copy(1, TRUE) = {c} /\ c \in WholeCopies
  BY <1>3, <1>4 DEF Copies, Copy, WholeCopies
<1>6. place = [name |-> {c}, other |-> IF app.leftover = "none" THEN {} ELSE {c}]
  BY <1>5 DEF Init
<1>7. place \in [name : SUBSET Copies, other : SUBSET Copies] /\ place["name"] = {c}
      /\ place["other"] \in {{}, {c}}
  BY <1>5, <1>6
<1>8. \A p \in {"name", "other"} : \A d, e \in place[p] : d = e
  BY <1>7
<1>9. TypeOK
  <2>1. task \in [pc : Steps, approved : 0 .. MaxVersion, release : 0 .. MaxVersion, ok : BOOLEAN]
    BY <1>2 DEF Task, Releases
  <2>2. /\ published \in Versions /\ cached \in 0 .. published
        /\ confirmed \in 0 .. published /\ crashes \in 0 .. MaxCrashes
    BY <1>1, <1>3
  <2>3. running \in BOOLEAN /\ ours \in BOOLEAN /\ locked \in BOOLEAN /\ ~locked
    BY <1>1
  <2> QED
    BY <1>1, <1>7, <1>8, <2>1, <2>2, <2>3 DEF TypeOK
<1>10. Approved /\ Checked /\ MovedIn
  BY <1>1, <1>2 DEF Approved, Checked, MovedIn, Holding, Swapping
<1>11. Whole("name") /\ KeepsACopy
  BY <1>5, <1>7 DEF Whole, KeepsACopy
<1>12. CopyIsKept
  BY <1>2, <1>11 DEF CopyIsKept, Swapping
<1>13. RunsWhatWasChecked /\ SwapAnswersTrue
  BY <1>1, <1>2 DEF RunsWhatWasChecked, SwapAnswersTrue
<1> QED
  BY <1>9, <1>10, <1>12, <1>13 DEF Inv

LEMMA NextKeepsInv ==
    ASSUME Inv, [Next]_vars
    PROVE  Inv'
<1>1. CASE Scan \/ Declined \/ Publish \/ StartOrQuit \/ Touch \/ Reinstall \/ Crash
  BY <1>1, ScanKeepsInv, DeclinedKeepsInv, PublishKeepsInv, TouchKeepsInv, ReinstallKeepsInv,
     CrashKeepsInv
<1>2. CASE Resolve \/ CheckRunning \/ StartDownload \/ Download \/ Lock \/ Verify
  BY <1>2, ResolveKeepsInv, CheckRunningKeepsInv, StartDownloadKeepsInv, DownloadKeepsInv,
     LockKeepsInv, VerifyKeepsInv
<1>3. CASE RunInstaller \/ SetAside \/ MoveIn \/ CopyIn \/ RemoveOld \/ RemovePartial \/ PutBack
  BY <1>3, RunInstallerKeepsInv, SetAsideKeepsInv, MoveInKeepsInv, RemoveOldKeepsInv,
     RemovePartialKeepsInv, PutBackKeepsInv
<1>4. CASE Clean \/ Confirm
  BY <1>4, CleanKeepsInv, ConfirmKeepsInv
<1>5. CASE UNCHANGED vars
  BY <1>5 DEF vars, Inv, TypeOK, Approved, Checked, CopyIsKept, MovedIn, Whole, KeepsACopy,
              RunsWhatWasChecked, SwapAnswersTrue, Genuine, Windows
<1> QED
  BY <1>1, <1>2, <1>3, <1>4, <1>5 DEF Next, Apply

LEMMA InvIsInvariant == Spec => []Inv
<1>1. Init => Inv
  BY InitHasInv
<1>2. Inv /\ [Next]_vars => Inv'
  BY NextKeepsInv
<1> QED
  BY <1>1, <1>2, PTL DEF Spec

\* At every moment the variables hold what they are meant to: no place has two copies of
\* the program, and what is held open is there and belongs to an apply that goes on.
THEOREM DirectTypeCorrect == Spec => []TypeOK
<1>1. Inv => TypeOK
  BY DEF Inv
<1> QED
  BY <1>1, InvIsInvariant, PTL

\* Whoever writes to the downloaded file until it is locked, and whatever the publisher
\* releases meanwhile: what the installer of Windows has run was whole and the
\* publisher's, and the approved release wherever a digest is published (direct/mod.rs).
THEOREM RunsWhatWasCheckedHolds == Spec => []RunsWhatWasChecked
<1>1. Inv => RunsWhatWasChecked
  BY DEF Inv
<1> QED
  BY <1>1, InvIsInvariant, PTL

\* At every moment of swap_bundle, and wherever the process is killed, a whole copy of the
\* program is on the disk.
THEOREM KeepsACopyHolds == Spec => []KeepsACopy
<1>1. Inv => KeepsACopy
  BY DEF Inv, CopyIsKept
<1> QED
  BY <1>1, InvIsInvariant, PTL

\* swap_bundle answers that it has worked only with a whole, new bundle under the name.
THEOREM SwapAnswersTrueHolds == Spec => []SwapAnswersTrue
<1>1. Inv => SwapAnswersTrue
  BY DEF Inv
<1> QED
  BY <1>1, InvIsInvariant, PTL

-----------------------------------------------------------------------------
(* What is confirmed is not offered again, where the real entry is first.  *)

RealFirst == \A a \in Apps : a.leftover # "first"

LEMMA FirstIsTheProgram ==
    ASSUME Inv, RealFirst
    PROVE  First = "name"
BY DEF Inv, TypeOK, RealFirst, First

\* A step that confirms nothing, from what it leaves at the two places.
LEMMA NewerFrom ==
    ASSUME Newer, UNCHANGED <<app, confirmed>>,
           task'.pc # "idle" => task.pc # "idle" /\ task'.approved = task.approved,
           \A c \in place'["name"] \intersect WholeCopies : c.version >= confirmed,
           task'.pc \in Swapping \ {"moved"} =>
              \A c \in place'["other"] \intersect WholeCopies : c.version >= confirmed,
           Windows => place'["other"] = place["other"]
    PROVE  Newer'
BY DEF Newer, Windows

\* A step that also leaves the places alone.
LEMMA NewerStays ==
    ASSUME Newer, UNCHANGED <<app, confirmed, place>>,
           task'.pc # "idle" => task.pc # "idle" /\ task'.approved = task.approved,
           task'.pc \in Swapping \ {"moved"} => task.pc \in Swapping \ {"moved"}
    PROVE  Newer'
BY DEF Newer, Windows

LEMMA ScanKeepsNewer ==
    ASSUME Inv, Newer, RealFirst, Scan
    PROVE  Newer' /\ (task'.pc = "approved" => task'.approved > confirmed)
<1>1. UNCHANGED <<app, confirmed, place>> /\ TypeOK /\ Found /\ First = "name"
  BY FirstIsTheProgram DEF Scan, world, disk, history, Inv
<1>2. PICK release \in 0 .. published :
         task' = IF release > VersionAt(First)
                 THEN [NoTask EXCEPT !.pc = "approved", !.approved = release]
                 ELSE NoTask
  BY DEF Scan
<1>3. PICK c \in place["name"] : c \in WholeCopies
  BY <1>1 DEF Found
<1>4. VersionAt("name") = c.version /\ c.version \in Nat /\ c.version >= 1 /\ c.version >= confirmed
      /\ confirmed \in Nat /\ release \in Nat
  BY <1>1, <1>3, VersionOfThePlace, PublishedIsARelease DEF Versions, Newer
<1>5. CASE release > VersionAt("name")
  <2>1. release \in Releases /\ "approved" \in Steps
    BY <1>1, PublishedIsARelease DEF Steps
  <2>2. task' = [NoTask EXCEPT !.pc = "approved", !.approved = release]
    BY <1>1, <1>2, <1>5
  <2>3. task'.pc = "approved" /\ task'.approved = release
    BY <2>1, <2>2, TaskEnds, TaskTakesApproval
  <2>4. task'.approved > confirmed /\ task'.approved > 1
    BY <1>4, <1>5, <2>3
  <2> QED
    BY <1>1, <2>3, <2>4 DEF Newer, Swapping, Windows
<1>6. CASE ~(release > VersionAt("name"))
  <2>1. task'.pc = "idle"
    BY <1>1, <1>2, <1>6, TaskEnds
  <2> QED
    BY <1>1, <2>1, NewerStays DEF Swapping
<1> QED
  BY <1>5, <1>6

\* The steps that leave the places as they are.
LEMMA WaitingKeepsNewer ==
    ASSUME Inv, Newer,
           \/ Declined \/ Resolve \/ CheckRunning \/ StartDownload \/ Download \/ Lock \/ Verify
           \/ Clean \/ Publish \/ StartOrQuit \/ Touch \/ Crash
    PROVE  Newer'
<1>1. TypeOK
  BY DEF Inv
<1>2. CASE Declined \/ Crash
  <2>1. UNCHANGED <<app, confirmed, place>> /\ task'.pc = "idle"
    BY <1>2, TaskEnds DEF Declined, Crash, world, disk, history
  <2> QED
    BY <2>1, NewerStays DEF Swapping
<1>3. CASE Publish \/ StartOrQuit \/ Touch
  <2>1. UNCHANGED <<app, confirmed, place, task>>
    BY <1>3 DEF Publish, StartOrQuit, Touch, world, disk, history
  <2> QED
    BY <2>1, NewerStays
<1>4. CASE Resolve
  <2>1. PICK release \in 0 .. published :
           task' = IF Found /\ release = task.approved
                   THEN [task EXCEPT !.pc = "resolved", !.release = release]
                   ELSE NoTask
    BY <1>4 DEF Resolve
  <2>2. release \in Releases /\ task \in Task /\ "resolved" \in Steps
    BY <1>1, PublishedIsARelease DEF Steps
  <2>3. task'.pc = "idle" \/ (task'.pc = "resolved" /\ task'.approved = task.approved)
    BY <2>1, <2>2, TaskEnds, TaskTakesRelease
  <2>4. UNCHANGED <<app, confirmed, place>> /\ task.pc # "idle"
    BY <1>4 DEF Resolve, world, disk, history
  <2> QED
    BY <2>3, <2>4, NewerStays DEF Swapping
<1>5. CASE CheckRunning \/ StartDownload \/ Download \/ Lock \/ Verify \/ Clean
  <2>1. UNCHANGED <<app, confirmed, place>> /\ task.pc # "idle"
    BY <1>5 DEF CheckRunning, StartDownload, Download, Lock, Verify, Clean, world, disk, history
  <2>2. PICK pc \in Steps \ Swapping : task' = NoTask \/ To(pc)
    <3>1. {"free", "downloading", "downloaded", "cleaning", "locked", "verified", "confirming"}
             \subseteq Steps \ Swapping
      BY DEF Steps, Swapping
    <3> QED
      BY <1>5, <3>1 DEF CheckRunning, StartDownload, Download, Lock, Verify, Clean, To
  <2>3. task'.pc = "idle" \/ (task'.pc = pc /\ task'.approved = task.approved)
    BY <1>1, <2>2, TaskEnds, TaskMoves
  <2>4. task'.pc \notin Swapping
    BY <2>2, <2>3 DEF Swapping
  <2> QED
    BY <2>1, <2>3, <2>4, NewerStays
<1> QED
  BY <1>2, <1>3, <1>4, <1>5

\* What is installed is of the approved release or a later one, which is newer.
LEMMA InstalledIsNewer ==
    ASSUME Inv, Newer, task.pc \in Holding
    PROVE  \A c \in NewCopy : c.version >= confirmed
<1>1. PICK f \in Files : file = {f} /\ f.version >= task.approved
  BY OneFile
<1>2. f.version \in Nat /\ task.approved \in Nat /\ confirmed \in Nat /\ task.approved > confirmed
  BY OneFile, PublishedIsARelease DEF Inv, Newer, Holding, Files, Versions
<1>3. PICK c : NewCopy = {c} /\ c.version = f.version
  BY <1>1, NewCopyIsWhole
<1> QED
  BY <1>1, <1>2, <1>3

LEMMA InstallKeepsNewer ==
    ASSUME Inv, Newer, RunInstaller
    PROVE  Newer'
<1>1. UNCHANGED <<app, confirmed>> /\ TypeOK /\ task.pc = "verified"
  BY DEF RunInstaller, Inv, world
<1>2. PICK took \in BOOLEAN, ok \in BOOLEAN :
         /\ place' = IF took THEN [place EXCEPT !["name"] = NewCopy] ELSE place
         /\ task' = [task EXCEPT !.pc = "cleaning", !.ok = ok]
  BY DEF RunInstaller
<1>3. task'.pc = "cleaning" /\ task'.approved = task.approved
  BY <1>1, <1>2, TaskAnswers
<1>4. place' = [place EXCEPT !["name"] = NewCopy] \/ place' = place
  BY <1>2
<1>5. place'["name"] \in {NewCopy, place["name"]} /\ place'["other"] = place["other"]
  BY <1>1, <1>4 DEF TypeOK
<1>6. \A c \in place'["name"] \intersect WholeCopies : c.version >= confirmed
  BY <1>1, <1>5, InstalledIsNewer DEF Newer, Holding
<1>7. task.pc # "idle" /\ task'.pc \notin Swapping
  BY <1>1, <1>3 DEF Swapping
<1> QED
  BY <1>1, <1>3, <1>5, <1>6, <1>7, NewerFrom

\* A copy that was cut off is not a whole one.
LEMMA PartIsNotWhole ==
    ASSUME NEW v
    PROVE  Copy(v, FALSE) \intersect WholeCopies = {}
BY DEF Copy, WholeCopies

LEMMA SwapKeepsNewer ==
    ASSUME Inv, Newer,
           SetAside \/ MoveIn \/ CopyIn \/ RemoveOld \/ RemovePartial \/ PutBack
    PROVE  Newer'
<1>1. UNCHANGED <<app, confirmed>> /\ TypeOK /\ ~Windows
      /\ task.pc \in {"verified"} \union Swapping /\ task.pc # "idle"
      /\ place \in [name : SUBSET Copies, other : SUBSET Copies]
  <2>1. UNCHANGED <<app, confirmed>> /\ TypeOK
    BY DEF SetAside, MoveIn, CopyIn, RemoveOld, RemovePartial, PutBack, world, history, Inv
  <2>2. ~Windows /\ task.pc \in {"verified"} \union Swapping
    BY DEF SetAside, MoveIn, CopyIn, RemoveOld, RemovePartial, PutBack, Inv, Checked, Swapping
  <2> QED
    BY <2>1, <2>2 DEF TypeOK, Swapping
<1>2. task'.approved = task.approved
  <2>1. CASE RemoveOld
    BY <1>1, <2>1, TaskAnswers DEF RemoveOld
  <2>2. CASE ~RemoveOld
    <3>1. {"aside", "cleaning", "moved", "copying", "restoring", "putting back"} \subseteq Steps
      BY DEF Steps
    <3>2. \E pc \in Steps : To(pc)
      BY <2>2, <3>1 DEF SetAside, MoveIn, CopyIn, RemovePartial, PutBack
    <3> QED
      BY <1>1, <3>2, TaskMoves
  <2> QED
    BY <2>1, <2>2
<1>3. CASE SetAside
  <2>1. CASE place' = [name |-> {}, other |-> place["name"]]
    <3>1. place'["name"] = {} /\ place'["other"] = place["name"]
      BY <2>1
    <3> QED
      BY <1>1, <1>2, <3>1, NewerFrom DEF Newer
  <2>2. CASE UNCHANGED place /\ To("cleaning")
    <3>1. task'.pc = "cleaning"
      BY <1>1, <2>2, TaskMoves DEF Steps
    <3> QED
      BY <1>1, <1>2, <2>2, <3>1, NewerStays DEF Swapping
  <2> QED
    BY <1>3, <2>1, <2>2 DEF SetAside
<1>4. CASE MoveIn \/ CopyIn
  <2>1. task.pc \in Swapping \ {"moved"} /\ task.pc \in Holding
    BY <1>4 DEF MoveIn, CopyIn, Swapping, Holding
  <2>2. CASE place' = [place EXCEPT !["name"] = NewCopy]
    <3>1. place'["name"] = NewCopy /\ place'["other"] = place["other"]
      BY <1>1, <2>2
    <3>2. \A c \in place'["name"] \intersect WholeCopies : c.version >= confirmed
      BY <2>1, <3>1, InstalledIsNewer
    <3> QED
      BY <1>1, <1>2, <2>1, <3>1, <3>2, NewerFrom DEF Newer
  <2>3. CASE place' = [place EXCEPT !["name"] = UNION {Copy(f.version, FALSE) : f \in file}]
    <3>1. PICK f \in Files : file = {f}
      BY <2>1, OneFile
    <3>2. place' = [place EXCEPT !["name"] = Copy(f.version, FALSE)]
      BY <2>3, <3>1
    <3>3. place'["name"] = Copy(f.version, FALSE) /\ place'["other"] = place["other"]
      BY <1>1, <3>2
    <3>4. place'["name"] \intersect WholeCopies = {}
      BY <3>3, PartIsNotWhole
    <3> QED
      BY <1>1, <1>2, <2>1, <3>3, <3>4, NewerFrom DEF Newer
  <2>4. CASE UNCHANGED place
    BY <1>1, <1>2, <2>1, <2>4, NewerStays
  <2> QED
    BY <1>4, <2>2, <2>3, <2>4 DEF MoveIn, CopyIn
<1>5. CASE RemoveOld
  <2>1. task'.pc = "cleaning"
    BY <1>1, <1>5, TaskAnswers DEF RemoveOld
  <2>2. PICK left : place' = [place EXCEPT !["other"] = left]
    <3>1. place = [place EXCEPT !["other"] = place["other"]]
      BY <1>1
    <3> QED
      BY <1>5, <3>1 DEF RemoveOld
  <2>3. place'["name"] = place["name"]
    BY <1>1, <2>2
  <2> QED
    BY <1>1, <1>2, <2>1, <2>3, NewerFrom DEF Newer, Swapping
<1>6. CASE RemovePartial
  <2>1. task.pc \in Swapping \ {"moved"}
    BY <1>6 DEF RemovePartial, Swapping
  <2>2. place' = [place EXCEPT !["name"] = {}] \/ place' = place
    BY <1>6 DEF RemovePartial
  <2>3. (place'["name"] = {} \/ place'["name"] = place["name"]) /\ place'["other"] = place["other"]
    BY <1>1, <2>2
  <2> QED
    BY <1>1, <1>2, <2>1, <2>3, NewerFrom DEF Newer
<1>7. CASE PutBack
  <2>1. task.pc \in Swapping \ {"moved"} /\ To("cleaning") /\ "cleaning" \in Steps
    BY <1>7 DEF PutBack, Swapping, Steps
  <2>2. task'.pc \notin Swapping
    BY <1>1, <2>1, TaskMoves DEF Swapping
  <2>3. place' = [name |-> place["other"], other |-> {}] \/ place' = place
    BY <1>7 DEF PutBack
  <2>4. place'["name"] = place["other"] \/ place'["name"] = place["name"]
    BY <2>3
  <2> QED
    BY <1>1, <1>2, <2>1, <2>2, <2>4, NewerFrom DEF Newer
<1> QED
  BY <1>3, <1>4, <1>5, <1>6, <1>7

LEMMA ReinstallKeepsNewer ==
    ASSUME Inv, Newer, RealFirst, Reinstall
    PROVE  Newer'
<1>1. UNCHANGED <<app, task, confirmed>> /\ TypeOK /\ task.pc = "idle"
      /\ place' = [place EXCEPT !["name"] = Copy(published, TRUE)]
  BY FirstIsTheProgram DEF Reinstall, world, files, history, Inv
<1>2. PICK c : c = [version |-> published, whole |-> TRUE]
  OBVIOUS
<1>3. place' = [place EXCEPT !["name"] = {c}] /\ c.version = published
  BY <1>1, <1>2 DEF Copy
<1>4. place'["name"] = {c} /\ place'["other"] = place["other"]
  BY <1>1, <1>3 DEF TypeOK
<1>5. published >= confirmed
  BY <1>1, PublishedIsARelease
<1>6. \A d \in place'["name"] \intersect WholeCopies : d.version >= confirmed
  BY <1>3, <1>4, <1>5
<1> QED
  BY <1>1, <1>4, <1>6, NewerFrom DEF Swapping

\* The version that is read back and is not below the approved one is that of the program:
\* on Windows what was left over is older than anything that is approved.
LEMMA ReadbackIsTheProgram ==
    ASSUME Inv, Newer, task.pc = "confirming", Readback >= task.approved
    PROVE  VersionAt("name") >= task.approved
<1>1. TypeOK /\ task.approved \in Nat /\ task.approved > 1
  BY PublishedIsARelease DEF Inv, Newer, Approved
<1>2. VersionAt("name") \in Nat /\ VersionAt("other") \in Nat
  BY <1>1, VersionOfThePlace
<1>3. CASE Windows
  <2>1. {VersionAt(p) : p \in Listed} = {VersionAt("name"), VersionAt("other")}
    BY <1>3 DEF Listed
  <2>2. Readback = IF VersionAt("name") >= VersionAt("other") THEN VersionAt("name")
                   ELSE VersionAt("other")
    BY <1>2, <2>1, LargerOfTwo DEF Readback
  <2>3. VersionAt("other") <= 1
    BY <1>1, <1>3, VersionOfThePlace DEF Newer
  <2> QED
    BY <1>1, <1>2, <2>2, <2>3
<1>4. CASE ~Windows
  <2>1. {VersionAt(p) : p \in Listed} = {VersionAt("name")}
    BY <1>4 DEF Listed
  <2>2. PICK v \in Nat : v = VersionAt("name")
    BY <1>2
  <2>3. Max({v}) = v
    BY LargestOf
  <2>4. Readback = VersionAt("name")
    BY <2>1, <2>2, <2>3 DEF Readback
  <2> QED
    BY <2>4
<1> QED
  BY <1>3, <1>4

LEMMA ConfirmKeepsNewer ==
    ASSUME Inv, Newer, Confirm
    PROVE  Newer'
<1>1. UNCHANGED <<app, place>> /\ TypeOK /\ task.pc = "confirming" /\ task'.pc = "idle"
  BY TaskEnds DEF Confirm, world, disk, Inv
<1>2. confirmed' \in {confirmed, task.approved}
  BY ConfirmedIsTheLarger
<1>3. \A c \in place["name"] \intersect WholeCopies : c.version >= confirmed'
  <2>1. CASE confirmed' = confirmed
    BY <2>1 DEF Newer
  <2>2. CASE confirmed' # confirmed
    <3>1. confirmed' = task.approved /\ VersionAt("name") >= task.approved
      BY <1>1, <1>2, <2>2, ConfirmedIsTheLarger, ReadbackIsTheProgram
    <3>2. \A c \in place["name"] : VersionAt("name") = c.version
      BY <1>1, VersionOfThePlace
    <3> QED
      BY <3>1, <3>2
  <2> QED
    BY <2>1, <2>2
<1> QED
  BY <1>1, <1>3 DEF Newer, Swapping, Windows

LEMMA InitHasNewer ==
    ASSUME Init
    PROVE  Newer
<1>1. confirmed = 0 /\ task.pc = "idle"
  BY TaskEnds DEF Init
<1>2. PICK c : c = [version |-> 1, whole |-> TRUE]
  OBVIOUS
<1>3. c.version = 1 /\ place["name"] = {c} /\ place["other"] \subseteq {c}
  BY <1>2 DEF Init, Copy
<1> QED
  BY <1>1, <1>3 DEF Newer, Swapping

LEMMA NextKeepsNewer ==
    ASSUME Inv, Newer, RealFirst, [Next]_vars
    PROVE  Newer'
<1>1. CASE Scan
  BY <1>1, ScanKeepsNewer
<1>2. CASE \/ Declined \/ Resolve \/ CheckRunning \/ StartDownload \/ Download \/ Lock \/ Verify
           \/ Clean \/ Publish \/ StartOrQuit \/ Touch \/ Crash
  BY <1>2, WaitingKeepsNewer
<1>3. CASE SetAside \/ MoveIn \/ CopyIn \/ RemoveOld \/ RemovePartial \/ PutBack
  BY <1>3, SwapKeepsNewer
<1>4. CASE RunInstaller \/ Confirm \/ Reinstall
  BY <1>4, InstallKeepsNewer, ConfirmKeepsNewer, ReinstallKeepsNewer
<1>5. CASE UNCHANGED vars
  BY <1>5, NewerStays DEF vars
<1> QED
  BY <1>1, <1>2, <1>3, <1>4, <1>5 DEF Next, Apply

LEMMA OnlyScanApproves ==
    ASSUME Inv, Newer, RealFirst, [Next]_vars
    PROVE  task.pc = "idle" /\ task'.pc = "approved" => task'.approved > confirmed
<1>1. SUFFICES ASSUME task.pc = "idle", task'.pc = "approved" PROVE task'.approved > confirmed
  OBVIOUS
<1>2. CASE Scan
  BY <1>1, <1>2, ScanKeepsNewer
<1>3. CASE Publish \/ StartOrQuit \/ Touch \/ Reinstall \/ UNCHANGED vars
  <2>1. task' = task
    BY <1>3 DEF Publish, StartOrQuit, Touch, Reinstall, vars
  <2> QED
    BY <1>1, <2>1
<1>4. CASE Declined \/ Apply \/ Crash
  BY <1>1, <1>4 DEF Declined, Crash, Apply, Resolve, CheckRunning, StartDownload, Download, Lock,
                    Verify, RunInstaller, SetAside, MoveIn, CopyIn, RemoveOld, RemovePartial,
                    PutBack, Clean, Confirm
<1> QED
  BY <1>2, <1>3, <1>4 DEF Next

\* Where the real entry comes first in the list of the OS, what an apply has confirmed is
\* not offered again, whatever fails in between and however often the process is killed:
\* the scan of direct/mod.rs looks at the entry whose version is read back.
THEOREM NotOfferedAgainHolds ==
    ASSUME RealFirst
    PROVE  Spec => NotOfferedAgain
<1>1. Init => Newer
  BY InitHasNewer
<1>2. Inv /\ Newer /\ [Next]_vars => Newer'
  BY NextKeepsNewer
<1>3. Inv /\ Newer /\ [Next]_vars
         => [task.pc = "idle" /\ task'.pc = "approved" => task'.approved > confirmed]_vars
  BY OnlyScanApproves
<1> QED
  BY <1>1, <1>2, <1>3, InvIsInvariant, PTL DEF Spec, NotOfferedAgain
=============================================================================
