---------------------------- MODULE OfflineCache ----------------------------
(***************************************************************************)
(* The cache of installers for machines without a network                  *)
(* (odysync-backends/src/offline.rs): a directory of files and a manifest  *)
(* that lists them, changed by commands of the desktop program that run in *)
(* parallel and may be cut off at any await or call.                       *)
(***************************************************************************)
EXTENDS Naturals

CONSTANTS
    Items,        \* packages, each with its backend
    Versions,     \* versions of an installer: part of the name of its file
    Sound,        \* bytes a download may give whose signature validates, or that have none
    Broken,       \* bytes whose signature does not validate
    Commands      \* how many commands may run at once

VARIABLES
    cached,       \* the files under their own names
    partial,      \* the files under their names with ".partial"
    manifest,     \* its entries; one that is missing or cut off counts as empty
    commands,     \* the commands under way
    handle,       \* where the file lies now that a download has open for writing
    mixed         \* the names whose file with ".partial" two downloads have had at once

cacheVars == <<cached, partial, manifest, commands, handle, mixed>>

Names == Items \X Versions
Bytes == Sound \union Broken
None  == "none"
Half  == "half"
Entry == [item : Items, version : Versions, digest : Bytes]

Idle == [pc |-> "idle", name |-> <<>>, bytes |-> None, entries |-> {}]
At(c, pc) == commands[c].pc = pc
Goes(c, pc) == commands' = [commands EXCEPT ![c].pc = pc]
Ends(c) == commands' = [commands EXCEPT ![c] = Idle]

Without(entries, item) == {e \in entries : e.item # item}

\* A download that has a file open keeps it: under the name it is given, or under none.
Renamed(name) ==
    [d \in Commands |->
        IF commands[d].name = name /\ handle[d] # None
        THEN IF handle[d] = "partial" THEN "cached" ELSE None ELSE handle[d]]

Deleted(names, kinds) ==
    [d \in Commands |->
        IF commands[d].name \in names /\ handle[d] \in kinds THEN None ELSE handle[d]]

-----------------------------------------------------------------------------
(* download_and_cache.                                                     *)

\* The address is https, the server answers, and the bytes have the digest asked for, if any.
Fetch(c, name, bytes, expected) ==
    /\ At(c, "idle")
    /\ expected \in {None, bytes}
    /\ commands' = [commands EXCEPT ![c] = [Idle EXCEPT !.pc = "fetched", !.name = name,
                                                        !.bytes = bytes]]
    /\ UNCHANGED <<cached, partial, manifest, handle, mixed>>

\* Another download of the name has its file there as well.
Shared(c) ==
    \E d \in Commands \ {c} :
        /\ commands[d].pc \in {"created", "written", "checked"}
        /\ commands[d].name = commands[c].name

Mixes(c) == mixed' = IF Shared(c) THEN mixed \union {commands[c].name} ELSE mixed

\* Mutant: the download is written under its own name and checked there.
CreateInPlace(c) ==
    /\ At(c, "fetched")
    /\ cached' = [cached EXCEPT ![commands[c].name] = Half]
    /\ partial' = [partial EXCEPT ![commands[c].name] = Half]
    /\ handle' = [handle EXCEPT ![c] = "partial"]
    /\ Mixes(c)
    /\ Goes(c, "created")
    /\ UNCHANGED manifest

\* File::create empties a file that is there.
Create(c) ==
    /\ At(c, "fetched")
    /\ partial' = [partial EXCEPT ![commands[c].name] = Half]
    /\ handle' = [handle EXCEPT ![c] = "partial"]
    /\ Mixes(c)
    /\ Goes(c, "created")
    /\ UNCHANGED <<cached, manifest>>

\* What is written to a file that has been deleted meanwhile goes nowhere.
Write(c) ==
    LET put(dir) == [dir EXCEPT ![commands[c].name] = commands[c].bytes] IN
    /\ At(c, "created")
    /\ partial' = IF handle[c] = "partial" THEN put(partial) ELSE partial
    /\ cached' = IF handle[c] = "cached" THEN put(cached) ELSE cached
    /\ handle' = [handle EXCEPT ![c] = None]
    /\ Goes(c, "written")
    /\ UNCHANGED <<manifest, mixed>>

\* verify_signature of the staged file: not broken.  A part of a file may count as one that is
\* not signed; what is said of a missing file depends on the platform.
Passes(bytes) == bytes \in Sound \union {Half, None}

Verify(c) ==
    /\ At(c, "written") /\ Passes(partial[commands[c].name])
    /\ Goes(c, "checked")
    /\ UNCHANGED <<cached, partial, manifest, handle, mixed>>

Reject(c) ==
    /\ At(c, "written") /\ partial[commands[c].name] \notin Sound
    /\ partial' = [partial EXCEPT ![commands[c].name] = None]
    /\ handle' = Deleted({commands[c].name}, {"partial"})
    /\ Ends(c)
    /\ UNCHANGED <<cached, manifest, mixed>>

Keep(c) ==
    LET name == commands[c].name IN
    /\ At(c, "checked") /\ partial[name] # None
    /\ cached'  = [cached EXCEPT ![name] = partial[name]]
    /\ partial' = [partial EXCEPT ![name] = None]
    /\ handle' = Renamed(name)
    /\ Goes(c, "kept")
    /\ UNCHANGED <<manifest, mixed>>

\* load_async, and the entry in the place of the one there was for the package.
List(c) ==
    LET name == commands[c].name
        new  == [item |-> name[1], version |-> name[2], digest |-> commands[c].bytes]
    IN  /\ At(c, "kept")
        /\ commands' = [commands EXCEPT ![c].pc = "saving",
                                        ![c].entries = Without(manifest, name[1]) \union {new}]
        /\ UNCHANGED <<cached, partial, manifest, handle, mixed>>

-----------------------------------------------------------------------------
(* remove_offline_entry, prune_offline_cache, clear_offline_manifest.      *)

\* The file goes before its entry; a file that cannot be deleted keeps both.
RemoveEntry(c, entry) ==
    /\ At(c, "idle") /\ entry \in manifest
    /\ cached' = [cached EXCEPT ![<<entry.item, entry.version>>] = None]
    /\ commands' = [commands EXCEPT ![c].pc = "saving",
                                    ![c].entries = Without(manifest, entry.item)]
    /\ handle' = Deleted({<<entry.item, entry.version>>}, {"cached"})
    /\ UNCHANGED <<partial, manifest, mixed>>

Prune(c) ==
    LET present == {e \in manifest : cached[<<e.item, e.version>>] # None}
    IN  /\ At(c, "idle") /\ present # manifest
        /\ commands' = [commands EXCEPT ![c].pc = "saving", ![c].entries = present]
        /\ UNCHANGED <<cached, partial, manifest, handle, mixed>>

\* The whole directory is deleted; where a file is in use some of it stays.
Clear(c, left) ==
    /\ At(c, "idle")
    /\ cached'  = [n \in Names |-> IF n \in left THEN cached[n] ELSE None]
    /\ partial' = [n \in Names |-> IF n \in left THEN partial[n] ELSE None]
    /\ manifest' \in IF left = {} THEN {{}} ELSE {{}, manifest}
    /\ handle' = Deleted(Names \ left, {"partial", "cached"})
    /\ IF left = {} THEN Goes(c, "saving") ELSE UNCHANGED commands
    /\ UNCHANGED mixed

-----------------------------------------------------------------------------
(* Saving, failing, stopping.                                              *)

\* fs::write empties the file and then fills it; a manifest in between reads as an empty one.
Truncate(c) ==
    /\ At(c, "saving")
    /\ manifest' = {}
    /\ Goes(c, "truncated")
    /\ UNCHANGED <<cached, partial, handle, mixed>>

Save(c) ==
    /\ At(c, "truncated")
    /\ manifest' = commands[c].entries
    /\ Ends(c)
    /\ UNCHANGED <<cached, partial, handle, mixed>>

\* Any call may fail, which ends the command; nothing is tidied up.
Fails(c) ==
    /\ ~At(c, "idle")
    /\ Ends(c)
    /\ handle' = [handle EXCEPT ![c] = None]
    /\ UNCHANGED <<cached, partial, manifest, mixed>>

Crash ==
    /\ commands' = [c \in Commands |-> Idle]
    /\ commands # commands'
    /\ handle' = [c \in Commands |-> None]
    /\ UNCHANGED <<cached, partial, manifest, mixed>>

CacheInit ==
    /\ cached = [n \in Names |-> None] /\ partial = [n \in Names |-> None]
    /\ manifest = {}
    /\ commands = [c \in Commands |-> Idle]
    /\ handle = [c \in Commands |-> None] /\ mixed = {}

CacheNext ==
    \/ \E c \in Commands :
        \/ \E name \in Names, bytes \in Bytes, expected \in Bytes \union {None} :
               Fetch(c, name, bytes, expected)
        \/ Create(c) \/ Write(c) \/ Verify(c) \/ Reject(c) \/ Keep(c) \/ List(c)
        \/ \E e \in manifest : RemoveEntry(c, e)
        \/ Prune(c)
        \/ \E left \in SUBSET Names : Clear(c, left)
        \/ Truncate(c) \/ Save(c) \/ Fails(c)
    \/ Crash
-----------------------------------------------------------------------------
(***************************************************************************)
(* Nothing lies under its own name in the cache that was not whole and did *)
(* not pass the check of its signature, and the manifest speaks of such    *)
(* bytes only, whatever was cut off, failed, or ran at the same time;      *)
(* except of a name whose staging file two downloads have shared.          *)
(***************************************************************************)
NothingUnchecked ==
    /\ \A n \in Names \ mixed : cached[n] \in Sound \union {None}
    /\ \A e \in manifest : <<e.item, e.version>> \in mixed \/ e.digest \in Sound

CacheSpec == CacheInit /\ [][CacheNext]_cacheVars

\* The file is only moved into place once it has passed the check.
OnlyOnceItPasses == \A n \in Names : cached[n] \in Sound \union {None}
=============================================================================
