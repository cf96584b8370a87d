----------------------------- MODULE Remediation -----------------------------
(***************************************************************************)
(* The fixes of the security page that move or overwrite what the user has *)
(* (odysync-backends/security/remediate.rs): a file goes to the            *)
(* quarantine, the hosts file is reset after a copy, an autostart value is *)
(* removed after it was noted.  Names of copies are made of the second at  *)
(* which they are taken.  Disabling a task or a service is one command of  *)
(* the system and moves nothing.                                           *)
(***************************************************************************)
EXTENDS Naturals

CONSTANTS
    Paths,        \* files a finding may name, inside and outside what may be touched
    Touchable,    \* those inside the user's own directories and outside the system's
    Leaf,         \* the last part of a path
    HostsTexts,   \* what the user may have written into hosts
    Values,       \* what an autostart value may be
    MaxSecond,    \* the clock ends there
    OneFixASecond \* whether no two fixes are begun in one second

VARIABLES
    files,        \* whether each file is at its path
    quarantine,   \* the files kept under a name of the quarantine: none, half a copy, or one
    hosts,        \* the text of the hosts file
    hostsCopies,  \* the copies of it, by their second
    autostart,    \* the value in the Run key
    noted,        \* the values in run-keys.json; a file that cannot be read has none
    now,          \* the clock
    used,         \* the second in which the last fix was begun
    fix,          \* the fix under way
    overwritten,  \* texts of the user that a reset has replaced, as it found them when it began
    taken         \* the values a fix has removed from the Run key

fixVars == <<files, quarantine, hosts, hostsCopies, autostart, noted, now, used, fix,
             overwritten, taken>>

Absent    == "absent"
Piece     == "piece"
Stock     == "stock"
Places    == (1 .. MaxSecond) \X {Leaf[p] : p \in Paths}

NoFix == [pc |-> "none", path |-> Absent, at |-> 1, value |-> Absent, list |-> {},
          edited |-> FALSE]
Is(pc) == fix.pc = pc
Continue(pc) == fix' = [fix EXCEPT !.pc = pc]
Place == <<fix.at, Leaf[fix.path]>>

Begins(new) ==
    /\ fix = NoFix
    /\ OneFixASecond => used < now
    /\ used' = now
    /\ fix' = [new EXCEPT !.at = now]

-----------------------------------------------------------------------------
(* quarantine_file.                                                        *)

BeginQuarantine(p) ==
    /\ p \in Touchable /\ files[p]
    /\ Begins([NoFix EXCEPT !.pc = "moving", !.path = p])
    /\ UNCHANGED <<files, quarantine, hosts, hostsCopies, autostart, noted, now,
                   overwritten, taken>>

\* std::fs::rename replaces what has the name.
Move ==
    /\ Is("moving")
    /\ files' = [files EXCEPT ![fix.path] = FALSE]
    /\ quarantine' = [quarantine EXCEPT ![Place] = fix.path]
    /\ fix' = NoFix
    /\ UNCHANGED <<hosts, hostsCopies, autostart, noted, now, used, overwritten, taken>>

\* Across volumes, or when the file is in use: a copy, and then the original goes.
BeginCopy ==
    /\ Is("moving")
    /\ quarantine' = [quarantine EXCEPT ![Place] = Piece]
    /\ Continue("copying")
    /\ UNCHANGED <<files, hosts, hostsCopies, autostart, noted, now, used, overwritten, taken>>

\* Mutant: the original goes while the copy is being made.
EndCopyMeanwhileRemoving ==
    /\ Is("copying")
    /\ files' = [files EXCEPT ![fix.path] = FALSE]
    /\ Continue("moving")
    /\ UNCHANGED <<quarantine, hosts, hostsCopies, autostart, noted, now, used,
                   overwritten, taken>>

EndCopy ==
    /\ Is("copying")
    /\ quarantine' = [quarantine EXCEPT ![Place] = fix.path]
    /\ Continue("copied")
    /\ UNCHANGED <<files, hosts, hostsCopies, autostart, noted, now, used, overwritten, taken>>

RemoveOriginal ==
    /\ Is("copied")
    /\ files' = [files EXCEPT ![fix.path] = FALSE]
    /\ fix' = NoFix
    /\ UNCHANGED <<quarantine, hosts, hostsCopies, autostart, noted, now, used,
                   overwritten, taken>>

-----------------------------------------------------------------------------
(* reset_hosts_file.                                                       *)

BeginReset ==
    /\ Begins([NoFix EXCEPT !.pc = "resetting"])
    /\ UNCHANGED <<files, quarantine, hosts, hostsCopies, autostart, noted, now,
                   overwritten, taken>>

BeginHostsCopy ==
    /\ Is("resetting")
    /\ hostsCopies' = [hostsCopies EXCEPT ![fix.at] = Piece]
    /\ Continue("copyingHosts")
    /\ UNCHANGED <<files, quarantine, hosts, autostart, noted, now, used, overwritten, taken>>

EndHostsCopy ==
    /\ Is("copyingHosts")
    /\ hostsCopies' = [hostsCopies EXCEPT ![fix.at] = hosts]
    /\ Continue("hostsCopied")
    /\ UNCHANGED <<files, quarantine, hosts, autostart, noted, now, used, overwritten, taken>>

TruncateHosts ==
    /\ Is("hostsCopied")
    /\ overwritten' = overwritten \union {text \in HostsTexts : ~fix.edited /\ text = hosts}
    /\ hosts' = Piece
    /\ Continue("writingHosts")
    /\ UNCHANGED <<files, quarantine, hostsCopies, autostart, noted, now, used, taken>>

WriteHosts ==
    /\ Is("writingHosts")
    /\ hosts' = Stock
    /\ fix' = NoFix
    /\ UNCHANGED <<files, quarantine, hostsCopies, autostart, noted, now, used,
                   overwritten, taken>>

-----------------------------------------------------------------------------
(* disable_run_key.                                                        *)

\* The query answers with an empty text when it fails, as for a value that is not there.
ReadValue(read) ==
    /\ read \in {autostart, Absent}
    /\ Begins([NoFix EXCEPT !.pc = "read", !.value = read])
    /\ UNCHANGED <<files, quarantine, hosts, hostsCopies, autostart, noted, now,
                   overwritten, taken>>

\* append_run_key_backup: a list that cannot be read counts as empty; fs::write empties
\* the file before it fills it.
OpenNotes ==
    /\ Is("read")
    /\ fix' = [fix EXCEPT !.pc = "noting",
                          !.list = noted \union {fix.value}]
    /\ noted' = {}
    /\ UNCHANGED <<files, quarantine, hosts, hostsCopies, autostart, now, used,
                   overwritten, taken>>

WriteNotes ==
    /\ Is("noting")
    /\ noted' = fix.list
    /\ Continue("noted")
    /\ UNCHANGED <<files, quarantine, hosts, hostsCopies, autostart, now, used,
                   overwritten, taken>>

RemoveValue ==
    /\ Is("noted") /\ autostart # Absent
    /\ autostart' = Absent /\ taken' = taken \union {autostart}
    /\ fix' = NoFix
    /\ UNCHANGED <<files, quarantine, hosts, hostsCopies, noted, now, used, overwritten>>

-----------------------------------------------------------------------------
\* A call fails, or the program is killed.
FixFails ==
    /\ fix # NoFix /\ fix' = NoFix
    /\ UNCHANGED <<files, quarantine, hosts, hostsCopies, autostart, noted, now, used,
                   overwritten, taken>>

\* The user or another program, also while a fix is under way.
EditHosts(text) ==
    /\ hosts # text /\ hosts' = text
    /\ fix' = [fix EXCEPT !.edited = fix # NoFix]
    /\ UNCHANGED <<files, quarantine, hostsCopies, autostart, noted, now, used,
                   overwritten, taken>>

SetValue(v) ==
    /\ autostart # v /\ autostart' = v
    /\ UNCHANGED <<files, quarantine, hosts, hostsCopies, noted, now, used, fix,
                   overwritten, taken>>

SecondPasses ==
    /\ now < MaxSecond /\ now' = now + 1
    /\ UNCHANGED <<files, quarantine, hosts, hostsCopies, autostart, noted, used, fix,
                   overwritten, taken>>

FixInit ==
    /\ files = [p \in Paths |-> TRUE]
    /\ quarantine = [q \in Places |-> Absent]
    /\ hosts \in HostsTexts \union {Stock}
    /\ hostsCopies = [t \in 1 .. MaxSecond |-> Absent]
    /\ autostart \in Values \union {Absent} /\ noted = {}
    /\ now = 1 /\ used = 0 /\ fix = NoFix /\ overwritten = {} /\ taken = {}

FixNext ==
    \/ \E p \in Paths : BeginQuarantine(p)
    \/ Move \/ BeginCopy \/ EndCopy \/ RemoveOriginal
    \/ BeginReset \/ BeginHostsCopy \/ EndHostsCopy \/ TruncateHosts \/ WriteHosts
    \/ \E read \in {autostart, Absent} : ReadValue(read)
    \/ OpenNotes \/ WriteNotes \/ RemoveValue \/ FixFails
    \/ \E text \in HostsTexts : EditHosts(text)
    \/ \E v \in Values : SetValue(v)
    \/ SecondPasses

FixSpec == FixInit /\ [][FixNext]_fixVars
-----------------------------------------------------------------------------
(***************************************************************************)
(* No file and no text of hosts that the user has is deleted by a fix: a   *)
(* file that is not at its path any more lies whole in the quarantine, and *)
(* a text that a reset found and replaced lies whole in a copy.  A fix may *)
(* fail or be killed at any call.                                          *)
(***************************************************************************)
NothingIsDeleted ==
    /\ \A p \in Paths : files[p] \/ \E q \in Places : quarantine[q] = p
    /\ \A text \in overwritten : \E t \in 1 .. MaxSecond : hostsCopies[t] = text

\* Disabling an autostart entry is reversible: each value that was removed from the Run key
\* is noted in run-keys.json.
DisableIsReversible == taken \subseteq noted
=============================================================================
