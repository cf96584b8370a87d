---------------------------- MODULE DriverBackup ----------------------------
(***************************************************************************)
(* Backups of the Windows driver store (odysync-backends/driver_backup.rs, *)
(* run_driver_action and driver_backup_notice in cli/src/main.rs): one     *)
(* directory each, named for the second it was begun in, with a directory  *)
(* for every package and a manifest that is written last.  Several         *)
(* programs may be at it, and any of them may be stopped.                  *)
(***************************************************************************)
EXTENDS Naturals, FiniteSets

CONSTANTS
    Packages,     \* the driver packages of the machine
    Programs,     \* programs that may run at once
    Seconds,      \* 1 .. Seconds: the time at which backups are made
    KeptBackups,  \* how many backups a prune keeps
    OneASecond    \* whether no two backups are begun in one second

VARIABLES
    backups,      \* the directories, by their names
    second,       \* the clock
    programs,     \* what each program is doing
    deleted       \* backups a prune has begun to delete

backupVars == <<backups, second, programs, deleted>>

Ids == 1 .. Seconds
NoManifest == [state |-> "none", packages |-> {}]
Cut        == [state |-> "cut", packages |-> {}]
ManifestOf(packages) == [state |-> "whole", packages |-> packages]
NoBackup == [there |-> FALSE, files |-> {}, manifest |-> NoManifest]

Waiting == [pc |-> "waiting", id |-> 1, todo |-> {}, saved |-> {}]
Does(p, pc) == programs[p].pc = pc
Stops(p) == programs' = [programs EXCEPT ![p] = Waiting]
Changed(id, backup) == backups' = [backups EXCEPT ![id] = backup]

-----------------------------------------------------------------------------
(* create_backup_of.                                                       *)

\* A list of packages: all, those a user names, or none when pnputil has failed.
Begin(p, packages) ==
    /\ Does(p, "waiting")
    /\ OneASecond => ~backups[second].there
    /\ Changed(second, [backups[second] EXCEPT !.there = TRUE])
    /\ programs' = [programs EXCEPT ![p] = [Waiting EXCEPT !.pc = "exporting", !.id = second,
                                                           !.todo = packages]]
    /\ UNCHANGED <<second, deleted>>

\* Some or all files are in the directory of the package; "some" is none at all here,
\* since only a directory without files is told from a good one.
Exported(p, package, files, saved) ==
    /\ Does(p, "exporting") /\ package \in programs[p].todo
    /\ Changed(programs[p].id, [backups[programs[p].id] EXCEPT !.files = files])
    /\ programs' = [programs EXCEPT ![p].todo = @ \ {package}, ![p].saved = saved]
    /\ UNCHANGED <<second, deleted>>

Export(p, package) ==
    Exported(p, package, backups[programs[p].id].files \union {package},
             programs[p].saved \union {package})

\* Mutant: an exit code of 0 counts, whatever was written.
ExportFailsUnnoticed(p, package) ==
    Exported(p, package, backups[programs[p].id].files \ {package},
             programs[p].saved \union {package})

\* An export that fails, or that wrote no file, has its directory removed.
ExportFails(p, package) ==
    Exported(p, package, backups[programs[p].id].files \ {package}, programs[p].saved)

\* fs::write empties the manifest before it fills it.
OpenManifest(p) ==
    /\ Does(p, "exporting") /\ programs[p].todo = {}
    /\ Changed(programs[p].id, [backups[programs[p].id] EXCEPT !.manifest = Cut])
    /\ programs' = [programs EXCEPT ![p].pc = "writing"]
    /\ UNCHANGED <<second, deleted>>

\* The notice before an apply goes on to a prune; the command does not.
WriteManifest(p, next) ==
    /\ Does(p, "writing")
    /\ Changed(programs[p].id,
               [backups[programs[p].id] EXCEPT !.manifest = ManifestOf(programs[p].saved)])
    /\ programs' = [programs EXCEPT ![p] = [Waiting EXCEPT !.pc = next]]
    /\ UNCHANGED <<second, deleted>>

-----------------------------------------------------------------------------
(* prune and restore.                                                      *)

\* list_backups: those with a manifest that can be read.
Listed == {id \in Ids : backups[id].there /\ backups[id].manifest.state = "whole"}

\* All but the newest.
Superfluous == {id \in Listed : Cardinality({n \in Listed : n > id}) >= KeptBackups}

BeginPrune(p) ==
    /\ programs[p].pc \in {"waiting", "pruning"}
    /\ Superfluous # {}
    /\ programs' = [programs EXCEPT ![p] = [Waiting EXCEPT !.pc = "deleting",
                                                           !.todo = Superfluous]]
    /\ UNCHANGED <<backups, second, deleted>>

NothingToPrune(p) ==
    /\ Does(p, "pruning") /\ Superfluous = {}
    /\ Stops(p)
    /\ UNCHANGED <<backups, second, deleted>>

\* remove_dir_all: everything goes, or what could not be deleted stays.
Delete(p, id, left) ==
    /\ Does(p, "deleting") /\ id \in programs[p].todo
    /\ \A o \in programs[p].todo : o <= id
    /\ Changed(id, left)
    /\ deleted' = deleted \union {id}
    /\ programs' = [programs EXCEPT ![p].todo = @ \ {id}]
    /\ UNCHANGED second

Remnants(id) ==
    {NoBackup} \union [there : {TRUE}, files : SUBSET backups[id].files,
                       manifest : {NoManifest, backups[id].manifest}]

Pruned(p) ==
    /\ Does(p, "deleting") /\ programs[p].todo = {}
    /\ Stops(p)
    /\ UNCHANGED <<backups, second, deleted>>

\* restore: each package of the manifest is added again, and a missing one is a failure.
BeginRestore(p, id) ==
    /\ Does(p, "waiting") /\ id \in Listed
    /\ programs' = [programs EXCEPT ![p] = [Waiting EXCEPT !.pc = "restoring", !.id = id,
                                                !.todo = backups[id].manifest.packages]]
    /\ UNCHANGED <<backups, second, deleted>>

Restore(p, package, ok) ==
    /\ Does(p, "restoring") /\ package \in programs[p].todo
    /\ ok => package \in backups[programs[p].id].files
    /\ programs' = [programs EXCEPT ![p].todo = @ \ {package}]
    /\ UNCHANGED <<backups, second, deleted>>

Restored(p) ==
    /\ Does(p, "restoring") /\ programs[p].todo = {}
    /\ Stops(p)
    /\ UNCHANGED <<backups, second, deleted>>

-----------------------------------------------------------------------------
Tick ==
    /\ second < Seconds /\ second' = second + 1
    /\ UNCHANGED <<backups, programs, deleted>>

\* A call fails or the program is killed: what is there stays as it is.
Die(p) ==
    /\ ~Does(p, "waiting")
    /\ Stops(p)
    /\ UNCHANGED <<backups, second, deleted>>

BackupInit ==
    /\ backups = [id \in Ids |-> NoBackup]
    /\ second = 1
    /\ programs = [p \in Programs |-> Waiting]
    /\ deleted = {}

BackupNext ==
    \/ \E p \in Programs :
        \/ \E packages \in SUBSET Packages : Begin(p, packages)
        \/ \E x \in Packages : Export(p, x) \/ ExportFails(p, x)
        \/ OpenManifest(p)
        \/ \E next \in {"waiting", "pruning"} : WriteManifest(p, next)
        \/ BeginPrune(p) \/ NothingToPrune(p) \/ Pruned(p)
        \/ \E id \in Ids : \E left \in Remnants(id) : Delete(p, id, left)
        \/ \E id \in Ids : BeginRestore(p, id)
        \/ \E x \in Packages, ok \in BOOLEAN : Restore(p, x, ok)
        \/ Restored(p) \/ Die(p)
    \/ Tick
-----------------------------------------------------------------------------
Whole(id) == id \in Listed /\ backups[id].manifest.packages \subseteq backups[id].files

(***************************************************************************)
(* What the list offers can be restored: a backup that no prune has begun  *)
(* to delete has the files of every package its manifest names, whatever   *)
(* was interrupted; and once there was one such backup, there always is.   *)
(***************************************************************************)
ListedCanBeRestored ==
    /\ \A id \in Listed \ deleted : Whole(id)
    /\ deleted # {} => \E id \in Ids \ deleted : Whole(id)
=============================================================================
