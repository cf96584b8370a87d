---------------------------- MODULE DirectInstall ----------------------------
(***************************************************************************)
(* Updates fetched from the publisher: odysync-backends/src/direct.        *)
(*                                                                         *)
(* A scan reads the installed program and the publisher's latest release,  *)
(* the release is approved, and an apply reads both again, downloads,      *)
(* verifies and installs: on Windows it runs the installer, on macOS it    *)
(* swaps the bundle.  The publisher, the program itself and other programs *)
(* go on meanwhile, and the process may be killed at any step.             *)
(***************************************************************************)
EXTENDS Integers, FiniteSets, FiniteSetsExt

CONSTANTS
    Apps,              \* the programs Init chooses from
    MaxVersion,        \* the last release
    MaxCrashes

(***************************************************************************)
(* What is fixed for a program: the platform; whether the source publishes *)
(* a digest; whether the OS says where the program is; whether the list of *)
(* the OS has a second, left-over entry for it, before or after the first; *)
(* on macOS the bundle is the entry.                                       *)
(***************************************************************************)
App == [platform : {"windows", "macos"}, digest : BOOLEAN, dir : BOOLEAN,
        leftover : {"none", "first", "last"}]

ASSUME AppsAssumption ==
    /\ Apps \subseteq App /\ \A a \in Apps : a.platform = "macos" => a.leftover = "none"
    /\ MaxVersion \in Nat \ {0} /\ MaxCrashes \in Nat

Versions == 1 .. MaxVersion

\* A copy of the program on disk; {} is none.
Copy(version, whole) == {[version |-> version, whole |-> whole]}
WholeCopies == UNION {Copy(v, TRUE) : v \in Versions}

NoTask == [pc |-> "idle", approved |-> 0, release |-> 0, ok |-> FALSE]

VARIABLES
    app,
    published,         \* the publisher's latest release
    cached,            \* the answer kept on disk by get_text, 0 if there is none
    place,             \* the copies of the program: "name" and "other"
    ours,              \* what is at "other" was set aside by this process
    running,           \* the program is running
    file,              \* what was downloaded, and whether it is the publisher's
    locked,            \* it is held open against writing
    task,
    confirmed,         \* history: the newest version an apply has confirmed
    ran,               \* history: what was installed, for which approved version
    crashes

vars == <<app, published, cached, place, ours, running, file, locked, task, confirmed, ran, crashes>>

world   == <<app, published, running, crashes>>
disk    == <<place, ours, file, locked>>
files   == <<file, locked>>
history == <<confirmed, ran>>

Windows == app.platform = "windows"

\* "other" is the left-over entry on Windows and the bundle set aside on macOS.
VersionAt(p) == Max({c.version : c \in place[p]} \union {0})

\* The entry that scan and apply come to first.
First == IF app.leftover = "first" THEN "other" ELSE "name"

Listed == IF Windows THEN {"name", "other"} ELSE {"name"}

Found == place[First] \intersect WholeCopies # {}

-----------------------------------------------------------------------------
(***************************************************************************)
(* get_text: the answer of the network, kept for later if that works; on   *)
(* any failure the answer kept before, however old.  resolve: no release   *)
(* for this machine, a draft or an unreadable answer are none.             *)
(***************************************************************************)
Resolves(release) ==
    \/ release = published /\ cached' \in {cached, published, 0}
    \/ release = cached /\ UNCHANGED cached
    \/ release = 0 /\ UNCHANGED cached

\* Only what is newer than the entry is approved.
Scan ==
    /\ task.pc = "idle" /\ Found
    /\ \E release \in 0 .. published :
          /\ Resolves(release)
          /\ task' = IF release > VersionAt(First)
                     THEN [NoTask EXCEPT !.pc = "approved", !.approved = release]
                     ELSE NoTask
    /\ UNCHANGED <<world, disk, history>>

To(pc) == task' = [task EXCEPT !.pc = pc]

Declined ==
    /\ task.pc = "approved"
    /\ task' = NoTask
    /\ UNCHANGED <<world, cached, disk, history>>

\* Exactly the approved version, of a program that is still there.
Resolve ==
    /\ task.pc = "approved"
    /\ \E release \in 0 .. published :
          /\ Resolves(release)
          /\ task' = IF Found /\ release = task.approved
                     THEN [task EXCEPT !.pc = "resolved", !.release = release]
                     ELSE NoTask
    /\ UNCHANGED <<world, disk, history>>

\* On Windows nothing is checked where the place is unknown or the processes cannot be
\* listed; on macOS a failing ps ends the apply.
CheckRunning ==
    /\ task.pc = "resolved"
    /\ \E listing \in BOOLEAN :
          IF \/ listing /\ (Windows => app.dir) /\ running
             \/ ~listing /\ ~Windows
          THEN task' = NoTask
          ELSE To("free")
    /\ UNCHANGED <<world, cached, disk, history>>

\* A directory of its own for each attempt.
StartDownload ==
    /\ task.pc = "free"
    /\ file' = {[version |-> task.release, genuine |-> TRUE, whole |-> FALSE]}
    /\ To("downloading")
    /\ UNCHANGED <<world, cached, place, ours, locked, history>>

\* What a URL serves is the publisher's, of that release or a later one, or it is not.
Download ==
    /\ task.pc = "downloading"
    /\ \/ \E v \in task.release .. published, genuine \in BOOLEAN :
             file' = {[version |-> v, genuine |-> genuine, whole |-> TRUE]}
          /\ To("downloaded")
       \/ file' = {} /\ To("cleaning")
    /\ UNCHANGED <<world, cached, place, ours, locked, history>>

\* Mutant: the file is verified without being held.
LockLate ==
    /\ task.pc = "downloaded"
    /\ locked' = FALSE
    /\ To("locked")
    /\ UNCHANGED <<world, cached, place, ours, file, history>>

\* Windows: shared for reading only.  Not to be had while another program writes.
Lock ==
    /\ task.pc = "downloaded"
    /\ IF Windows THEN \E got \in BOOLEAN : locked' = got /\ To(IF got THEN "locked" ELSE "cleaning")
       ELSE UNCHANGED locked /\ To("locked")
    /\ UNCHANGED <<world, cached, place, ours, file, history>>

\* The digest, where one is published, and the signature of this publisher; on macOS the
\* key and the team of the program that is there, and Gatekeeper.
Genuine(f) == f.genuine /\ f.whole /\ (app.digest => f.version = task.release)

Verify ==
    /\ task.pc = "locked"
    /\ \E tool \in BOOLEAN :
          IF tool /\ \A f \in file : Genuine(f) THEN To("verified") ELSE To("cleaning")
    /\ UNCHANGED <<world, cached, disk, history>>

Installed == ran' = ran \union {[file |-> f, approved |-> task.approved] : f \in file}

NewCopy == UNION {Copy(f.version, TRUE) : f \in file}

\* Windows: what the installer did and what its code says are two things.
RunInstaller ==
    /\ task.pc = "verified" /\ Windows
    /\ Installed
    /\ \E took, ok \in BOOLEAN :
          /\ place' = IF took THEN [place EXCEPT !["name"] = NewCopy] ELSE place
          /\ task' = [task EXCEPT !.pc = "cleaning", !.ok = ok]
    /\ locked' = FALSE
    /\ UNCHANGED <<world, cached, ours, file, confirmed>>

-----------------------------------------------------------------------------
\* Mutant: the new bundle is moved over the old one, which is removed first.
RemoveFirst ==
    /\ task.pc = "verified" /\ ~Windows
    /\ place' = [place EXCEPT !["name"] = {}]
    /\ To("aside")
    /\ UNCHANGED <<world, cached, ours, files, history>>

(***************************************************************************)
(* swap_bundle: the old bundle is renamed, the new one renamed or copied   *)
(* in, the old one removed; if that fails, what was copied is removed and  *)
(* the old one renamed back.  The name it is set aside under has the id of *)
(* the process in it, and cannot be had while that name is taken.          *)
(***************************************************************************)
SetAside ==
    /\ task.pc = "verified" /\ ~Windows
    /\ \/ /\ ~ours /\ place["name"] # {}
          /\ place' = [name |-> {}, other |-> place["name"]]
          /\ ours' = TRUE /\ To("aside")
       \/ UNCHANGED <<place, ours>> /\ To("cleaning")
    /\ UNCHANGED <<world, cached, files, history>>

MoveIn ==
    /\ task.pc = "aside"
    /\ \/ /\ place' = [place EXCEPT !["name"] = NewCopy]
          /\ Installed /\ To("moved")
       \/ /\ place' = [place EXCEPT !["name"] = UNION {Copy(f.version, FALSE) : f \in file}]
          /\ UNCHANGED ran /\ To("copying")
    /\ UNCHANGED <<world, cached, ours, files, confirmed>>

\* ditto, where the rename is not possible.
CopyIn ==
    /\ task.pc = "copying"
    /\ \/ place' = [place EXCEPT !["name"] = NewCopy] /\ Installed /\ To("moved")
       \/ UNCHANGED <<place, ran>> /\ To("restoring")
    /\ UNCHANGED <<world, cached, ours, files, confirmed>>

RemoveOld ==
    /\ task.pc = "moved"
    /\ \/ place' = [place EXCEPT !["other"] = {}] /\ ours' = FALSE
       \/ /\ place' \in {place, [place EXCEPT !["other"] = {[c EXCEPT !.whole = FALSE] : c \in @}]}
          /\ UNCHANGED ours
    /\ task' = [task EXCEPT !.pc = "cleaning", !.ok = TRUE]
    /\ UNCHANGED <<world, cached, files, history>>

RemovePartial ==
    /\ task.pc = "restoring"
    /\ \/ place' = [place EXCEPT !["name"] = {}]
       \/ UNCHANGED place
    /\ To("putting back")
    /\ UNCHANGED <<world, cached, ours, files, history>>

\* Mutant: a rename that fails is passed over.
PutBackRegardless ==
    /\ task.pc = "putting back"
    /\ \/ /\ place["name"] = {}
          /\ place' = [name |-> place["other"], other |-> {}] /\ ours' = FALSE
       \/ UNCHANGED <<place, ours>>
    /\ task' = [task EXCEPT !.pc = "cleaning", !.ok = TRUE]
    /\ UNCHANGED <<world, cached, files, history>>

PutBack ==
    /\ task.pc = "putting back"
    /\ \/ /\ place["name"] = {}
          /\ place' = [name |-> place["other"], other |-> {}] /\ ours' = FALSE
       \/ UNCHANGED <<place, ours>>
    /\ To("cleaning")
    /\ UNCHANGED <<world, cached, files, history>>

-----------------------------------------------------------------------------
\* The directory of the attempt is removed if possible; the runner reads back what is there.
Clean ==
    /\ task.pc = "cleaning"
    /\ locked' = FALSE /\ file' = {}
    /\ task' = IF task.ok THEN [task EXCEPT !.pc = "confirming"] ELSE NoTask
    /\ UNCHANGED <<world, cached, place, ours, history>>

\* installed_version: the newest of the entries that match.
Readback == Max({VersionAt(p) : p \in Listed})

\* Mutant: an exit code of 0 is proof.
ConfirmByExitCode ==
    /\ task.pc = "confirming"
    /\ confirmed' = Max({task.approved, confirmed})
    /\ task' = NoTask
    /\ UNCHANGED <<world, cached, disk, ran>>

\* Mutant: an apply waits until what it installed shows up.
ConfirmPatiently ==
    /\ task.pc = "confirming" /\ Readback >= task.approved
    /\ confirmed' = Max({task.approved, confirmed})
    /\ task' = NoTask
    /\ UNCHANGED <<world, cached, disk, ran>>

\* The runner takes the approved version or a later one.
Confirm ==
    /\ task.pc = "confirming"
    /\ confirmed' = IF Readback >= task.approved THEN Max({task.approved, confirmed}) ELSE confirmed
    /\ task' = NoTask
    /\ UNCHANGED <<world, cached, disk, ran>>

-----------------------------------------------------------------------------
Publish ==
    /\ published < MaxVersion
    /\ published' = published + 1
    /\ UNCHANGED <<app, running, crashes, cached, disk, task, history>>

StartOrQuit ==
    /\ running' = ~running
    /\ running' => place["name"] \intersect WholeCopies # {}
    /\ UNCHANGED <<app, published, crashes, cached, disk, task, history>>

\* Another program changes the file.
Touch ==
    /\ ~locked
    /\ file' = {[f EXCEPT !.genuine = FALSE] : f \in file}
    /\ file' # file
    /\ UNCHANGED <<world, cached, place, ours, locked, task, history>>

\* The user puts back what is not there, or not whole.
Reinstall ==
    /\ ~Found /\ task.pc = "idle"
    /\ place' = [place EXCEPT ![First] = Copy(published, TRUE)]
    /\ UNCHANGED <<world, cached, ours, files, task, history>>

\* The process ends; what it has downloaded and set aside stays where it is.
Crash ==
    /\ crashes < MaxCrashes /\ task.pc # "idle"
    /\ crashes' = crashes + 1
    /\ task' = NoTask /\ locked' = FALSE /\ ours' = FALSE
    /\ UNCHANGED <<app, published, running, cached, place, file, history>>

Init ==
    /\ app \in Apps
    /\ published = 1 /\ cached = 0 /\ running = FALSE
    /\ place = [name |-> Copy(1, TRUE),
                other |-> IF app.leftover = "none" THEN {} ELSE Copy(1, TRUE)]
    /\ ours = FALSE /\ file = {} /\ locked = FALSE /\ task = NoTask
    /\ confirmed = 0 /\ ran = {} /\ crashes = 0

Apply == \/ Resolve \/ CheckRunning \/ StartDownload \/ Download \/ Lock \/ Verify \/ RunInstaller
         \/ SetAside \/ MoveIn \/ CopyIn \/ RemoveOld \/ RemovePartial \/ PutBack
         \/ Clean \/ Confirm

Next == \/ Scan \/ Declined \/ Apply
        \/ Publish \/ StartOrQuit \/ Touch \/ Reinstall \/ Crash

Spec == Init /\ [][Next]_vars /\ WF_vars(Apply)
-----------------------------------------------------------------------------
Steps == {"idle", "approved", "resolved", "free", "downloading", "downloaded", "locked",
          "verified", "aside", "copying", "moved", "restoring", "putting back", "cleaning",
          "confirming"}

Files  == [version : Versions, genuine : BOOLEAN, whole : BOOLEAN]
Copies == [version : Versions, whole : BOOLEAN]

\* The variables hold what they are meant to hold: no place has two copies, what is locked
\* is there, and nothing is kept locked by an apply that is over.
TypeOK ==
    /\ app \in Apps
    /\ published \in Versions /\ cached \in 0 .. published
    /\ place \in [name : SUBSET Copies, other : SUBSET Copies]
    /\ \A p \in {"name", "other"} : \A c, d \in place[p] : c = d
    /\ running \in BOOLEAN /\ ours \in BOOLEAN /\ locked \in BOOLEAN
    /\ file \subseteq Files /\ \A f, g \in file : f = g
    /\ locked => file # {} /\ task.pc \in {"locked", "verified", "cleaning"}
    /\ task \in [pc : Steps, approved : 0 .. MaxVersion, release : 0 .. MaxVersion, ok : BOOLEAN]
    /\ confirmed \in 0 .. published
    /\ ran \subseteq [file : Files, approved : Versions]
    /\ crashes \in 0 .. MaxCrashes

(***************************************************************************)
(* The checks between a download and running it (direct/mod.rs:10-29): on  *)
(* Windows the installer that runs is what the publisher shipped, although *)
(* other programs may write to the file until it is locked; and it is the  *)
(* release that was approved wherever a digest is published.               *)
(***************************************************************************)
RunsWhatWasChecked ==
    Windows => \A r \in ran : /\ r.file.whole /\ r.file.genuine
                              /\ r.file.version >= r.approved
                              /\ app.digest => r.file.version = r.approved

(***************************************************************************)
(* The swap keeps the old copy until the new one is in place: at every     *)
(* moment, whatever call fails and wherever the process is killed, a whole *)
(* copy of the program is on the disk.                                     *)
(***************************************************************************)
KeepsACopy == \E p \in {"name", "other"} : place[p] \intersect WholeCopies # {}

(***************************************************************************)
(* The answer of a swap is true: it reports success only with a whole,     *)
(* new bundle under the name of the program.                               *)
(***************************************************************************)
SwapAnswersTrue ==
    ~Windows /\ task.pc = "cleaning" /\ task.ok =>
        \E c \in place["name"] : c.whole /\ c.version >= task.approved

(***************************************************************************)
(* What an apply has confirmed is not offered again: the version a scan    *)
(* compares with and the version that is read back after an install are of *)
(* one and the same program.                                               *)
(***************************************************************************)
NotOfferedAgain ==
    [][task.pc = "idle" /\ task'.pc = "approved" => task'.approved > confirmed]_vars

\* An apply that has begun ends: every call of it has a timeout.
Ends == task.pc # "idle" ~> task.pc = "idle"
=============================================================================
