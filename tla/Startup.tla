------------------------------- MODULE Startup -------------------------------
(***************************************************************************)
(* The programs that start when the user signs in                          *)
(* (odysync-backends/src/startup_items.rs with its two PowerShell scripts, *)
(* pages/Startup.tsx) and Odysync's own entry among them (autostart.rs).   *)
(* A page shows the list it last read and turns single entries of it on    *)
(* and off, while programs come, go and write their own registrations.     *)
(***************************************************************************)
EXTENDS Naturals

CONSTANTS
    Keys,         \* values of a Run key of Windows
    Shortcuts,    \* shortcuts in a Startup folder of Windows
    Desktops,     \* .desktop files of Linux, of the user or of the system
    Agents,       \* LaunchAgents of macOS
    Own           \* the entries that Odysync registers itself

VARIABLES
    registered,   \* what the system keeps of each entry
    page,         \* the rows the page shows
    turnedOff     \* entries turned off on the page, and registered ever since

startupVars == <<registered, page, turnedOff>>

Entries == Keys \union Shortcuts \union Desktops \union Agents

\* A .desktop file: whether it says what to start, and whether it is hidden.
Missing == [there |-> FALSE, exec |-> FALSE, hidden |-> FALSE]
Empty   == [there |-> TRUE, exec |-> FALSE, hidden |-> FALSE]
DesktopFile(hidden) == [there |-> TRUE, exec |-> TRUE, hidden |-> hidden]

Unregistered(e) ==
    IF e \in Keys THEN [value |-> FALSE, approved |-> TRUE]
    ELSE IF e \in Shortcuts THEN [plain |-> FALSE, disabled |-> FALSE]
    ELSE IF e \in Desktops THEN [user |-> Missing, system |-> Missing]
    ELSE [plist |-> FALSE, key |-> FALSE, override |-> "none"]

\* A registration that a program makes of itself; Desktops also those of a package.  Agents: the
\* property list, which may have the key "Disabled".
Registrations(e) ==
    LET r == registered[e] IN
    IF e \in Keys THEN {[r EXCEPT !.value = TRUE]}
    ELSE IF e \in Shortcuts THEN {[r EXCEPT !.plain = TRUE]}
    ELSE IF e \in Desktops
    THEN {[r EXCEPT !.user = DesktopFile(FALSE)], [r EXCEPT !.system = DesktopFile(FALSE)]}
    ELSE {[r EXCEPT !.plist = TRUE, !.key = disabled] : disabled \in BOOLEAN}

\* What a program leaves that takes itself off: what Odysync wrote of it stays.
Leavings(e) ==
    LET r == registered[e] IN
    IF e \in Keys THEN {[r EXCEPT !.value = FALSE]}
    ELSE IF e \in Shortcuts THEN {[r EXCEPT !.plain = FALSE]}
    ELSE IF e \in Desktops THEN {[r EXCEPT !.system = Missing], Unregistered(e)}
    ELSE {[r EXCEPT !.plist = FALSE, !.key = FALSE]}

\* The file of the user stands before that of the system.
Effective(r) == IF r.user.there THEN r.user ELSE r.system

\* The rule of the system: whether the program starts at the next sign-in.  What launchctl was
\* told of an agent stands before the key in its property list.
Starts(e, r) ==
    IF e \in Keys THEN r.value /\ r.approved
    ELSE IF e \in Shortcuts THEN r.plain
    ELSE IF e \in Desktops THEN Effective(r).exec /\ ~Effective(r).hidden
    ELSE r.plist /\ (r.override = "enabled" \/ (r.override = "none" /\ ~r.key))

-----------------------------------------------------------------------------
(* list.                                                                   *)

\* "own" is the entry's name.  The name without its last extension is that of a shortcut,
\* of X.lnk.disabled it is "X.lnk": another name than the entry had while it was on.
Row(e, name, enabled) == [entry |-> e, name |-> name, enabled |-> enabled]

RowsOf(e, r) ==
    IF e \in Keys THEN IF r.value THEN {Row(e, "own", r.approved)} ELSE {}
    ELSE IF e \in Shortcuts
    THEN (IF r.plain THEN {Row(e, "own", TRUE)} ELSE {}) \union
         (IF r.disabled THEN {Row(e, "own.lnk", FALSE)} ELSE {})
    ELSE IF e \in Desktops
    THEN IF Effective(r).there THEN {Row(e, "own", ~Effective(r).hidden)} ELSE {}
    ELSE IF r.plist THEN {Row(e, "own", ~r.key /\ r.override # "disabled")} ELSE {}

Rows == UNION {RowsOf(e, registered[e]) : e \in Entries}

\* launchctl that does not answer counts as one that has disabled nothing.
RowsWithoutOverrides ==
    UNION {RowsOf(e, IF e \in Agents THEN [registered[e] EXCEPT !.override = "none"]
                     ELSE registered[e]) : e \in Entries}

Refresh(rows) ==
    /\ rows \in {Rows, RowsWithoutOverrides}
    /\ page' = rows
    /\ UNCHANGED <<registered, turnedOff>>

-----------------------------------------------------------------------------
(* set_enabled.                                                            *)

\* Mutant: the user's file overrides the switch and says nothing else.
WithAutostartOnly(text, enable) == [text EXCEPT !.exec = FALSE, !.hidden = ~enable]

\* with_autostart: the text with the switch set; an empty text has no group to set it in.
WithAutostart(text, enable) == IF text = Empty THEN text ELSE [text EXCEPT !.hidden = ~enable]

\* The registrations a call may leave; none when it answers with an error and changes nothing.
\* fs::write empties the file before it fills it, and may fail in between.
Switched(e, name, enable, r) ==
    IF e \in Keys THEN {[r EXCEPT !.approved = enable]}
    ELSE IF e \in Agents THEN {[r EXCEPT !.override = IF enable THEN "enabled" ELSE "disabled"]}
    ELSE IF e \in Desktops
    THEN IF Effective(r).there
         THEN {[r EXCEPT !.user = text] :
                   text \in {WithAutostart(Effective(r), enable), Empty}}
         ELSE {}
    ELSE IF name # "own" THEN {}
    ELSE IF enable
    THEN IF r.disabled THEN IF r.plain THEN {} ELSE {[plain |-> TRUE, disabled |-> FALSE]}
         ELSE IF r.plain THEN {r} ELSE {}
    ELSE IF r.plain THEN IF r.disabled THEN {} ELSE {[plain |-> FALSE, disabled |-> TRUE]}
         ELSE IF r.disabled THEN {r} ELSE {}

\* A row is clicked, however old it is; the page reads the list again, which may fail.
Toggle(row, shown) ==
    LET e == row.entry
        enable == ~row.enabled IN
    /\ row \in page
    /\ \E r \in Switched(e, row.name, enable, registered[e]) :
           registered' = [registered EXCEPT ![e] = r]
    /\ turnedOff' = IF enable THEN turnedOff \ {e}
                    ELSE IF RowsOf(e, registered[e]) = {} THEN turnedOff
                    ELSE turnedOff \union {e}
    /\ page' \in IF shown THEN {Rows', RowsWithoutOverrides'} ELSE {page}

-----------------------------------------------------------------------------
(* autostart.rs: the switch in the settings.                               *)

\* status: what the switch shows.  Only Linux looks at more than the registration.
Status(e) ==
    IF e \in Keys THEN registered[e].value
    ELSE IF e \in Desktops THEN registered[e].user.there /\ ~registered[e].user.hidden
    ELSE registered[e].plist

Enable(e) ==
    /\ e \in Own /\ ~Status(e)
    /\ registered' = [registered EXCEPT ![e] =
           IF e \in Keys THEN [@ EXCEPT !.value = TRUE]
           ELSE IF e \in Desktops THEN [@ EXCEPT !.user = DesktopFile(FALSE)]
           ELSE [@ EXCEPT !.plist = TRUE, !.key = FALSE]]
    /\ turnedOff' = turnedOff \ (IF e \in Desktops THEN {e} ELSE {})
    /\ UNCHANGED page

Disable(e) ==
    /\ e \in Own /\ Status(e)
    /\ registered' = [registered EXCEPT ![e] =
           IF e \in Keys THEN [@ EXCEPT !.value = FALSE]
           ELSE IF e \in Desktops THEN [@ EXCEPT !.user = Missing]
           ELSE [@ EXCEPT !.plist = FALSE, !.key = FALSE]]
    /\ turnedOff' = turnedOff \ {e}
    /\ UNCHANGED page

-----------------------------------------------------------------------------
\* Other programs.
Registers(e) ==
    /\ \E r \in Registrations(e) : registered' = [registered EXCEPT ![e] = r]
    /\ UNCHANGED <<page, turnedOff>>

Unregisters(e) ==
    /\ \E r \in Leavings(e) : registered' = [registered EXCEPT ![e] = r]
    /\ turnedOff' = turnedOff \ {e}
    /\ UNCHANGED page

StartupInit ==
    /\ registered = [e \in Entries |-> Unregistered(e)]
    /\ page = {}
    /\ turnedOff = {}

StartupNext ==
    \/ \E rows \in {Rows, RowsWithoutOverrides} : Refresh(rows)
    \/ \E row \in page, shown \in BOOLEAN : Toggle(row, shown)
    \/ \E e \in Own : Enable(e) \/ Disable(e)
    \/ \E e \in Entries : Registers(e) \/ Unregisters(e)

StartupSpec == StartupInit /\ [][StartupNext]_startupVars
-----------------------------------------------------------------------------
\* A file of the user's that a write has emptied says nothing of what is to be started.
CutOff(e) == e \in Desktops /\ Effective(registered[e]) = Empty

TurnsOn(e) ==
    \E row \in RowsOf(e, registered[e]) :
        \E r \in Switched(e, row.name, TRUE, registered[e]) : Starts(e, r)

(***************************************************************************)
(* Off never means deleted: an entry that was turned off on the page and   *)
(* is still registered is on the list, and, unless it is a shortcut or a   *)
(* write was cut off, turning on a row that the list has of it makes it    *)
(* start.  What starts is listed, and what is listed as on starts.         *)
(***************************************************************************)
ComesBack ==
    /\ \A e \in turnedOff :
           /\ RowsOf(e, registered[e]) # {}
           /\ e \in Shortcuts \/ CutOff(e) \/ TurnsOn(e)
    /\ \A e \in Entries :
           /\ Starts(e, registered[e]) => RowsOf(e, registered[e]) # {}
           /\ \A row \in RowsOf(e, registered[e]) :
                  row.enabled => CutOff(e) \/ Starts(e, registered[e])

\* Turning an entry back on is always possible from the same screen.
AlwaysComesBack == \A e \in turnedOff : TurnsOn(e)

\* What the list says of an entry is so: it starts exactly when a row of it is on.
ListIsTrue ==
    \A e \in Entries :
        Starts(e, registered[e]) <=> \E row \in RowsOf(e, registered[e]) : row.enabled
=============================================================================
