---------------------------- MODULE ConfigStore -----------------------------
(***************************************************************************)
(* config.json, and everything that reads and writes it: the commands of   *)
(* the GUI (apps/gui/src-tauri), which edit a copy of the config they keep *)
(* in memory and which the async runtime runs in parallel; the commands of *)
(* the CLI, each of which loads the file, edits and saves it; the GUI's    *)
(* cached probe of the backends, which depends on the config; and crashes. *)
(*                                                                         *)
(* Config::save writes config.json.tmp and renames it.  Two savers share   *)
(* that name, so the model has inodes: a file being written stays the same *)
(* file when somebody renames it.                                          *)
(***************************************************************************)
EXTENDS Naturals, FiniteSets

CONSTANTS
    Names,         \* packages that may be held
    GuiTasks,      \* commands of the GUI that may run at the same time
    CliTasks,      \* likewise processes of the CLI
    Overlap        \* "never": one program and one command at a time;
                   \* "programs": the CLI is also used while the GUI is open, but
                   \* one command ends before the next begins; "free": anything

ASSUME OverlapAssumption == Overlap \in {"never", "programs", "free"}

Tasks == GuiTasks \union CliTasks

ASSUME TasksAssumption == IsFiniteSet(Tasks) /\ GuiTasks \intersect CliTasks = {}

Config  == [holds : SUBSET Names, profile : BOOLEAN, disabled : BOOLEAN, paused : BOOLEAN]
Default == [holds |-> {}, profile |-> FALSE, disabled |-> FALSE, paused |-> FALSE]

\* What a file can hold: the text of a config, or text that is not one.
Text(c) == <<c>>
Torn    == <<>>

Inodes  == 1..(Cardinality(Tasks) + 2)
NoInode == 0
Nothing == <<>>

VARIABLES
    content,       \* inode -> its text
    file, tmp,     \* the inodes named config.json and config.json.tmp
    gui,           \* whether the GUI is running
    mem,           \* AppState::config
    slot,          \* AppState::backends: what the cached probe makes of the backend,
                   \* "usable" or "hidden", or "empty" without a cached probe
    probing,       \* the config a probe under way was given; it holds the slot's lock
    task,          \* the commands under way
    lapsed,        \* the pause's deadline has passed
    promised       \* holds the user was told are in place

vars == <<content, file, tmp, gui, mem, slot, probing, task, lapsed, promised>>

disk == <<content, file, tmp>>
app  == <<gui, mem, slot, probing>>

-----------------------------------------------------------------------------
(* The edits.                                                              *)

Edit == [op : {"hold", "unhold"}, on : Names]
        \union [op : {"disable", "enable", "create_profile", "delete_profile", "pause", "resume"}]

GuiEdit == {e \in Edit : e.op \notin {"pause", "resume"}}
CliEdit == {e \in Edit : e.op \in {"hold", "unhold", "pause", "resume"}}

\* Mutant: a new profile is saved without the rest of the config.
EditedFromScratch(e, c) ==
    CASE e.op = "hold"           -> [c EXCEPT !.holds = @ \union {e.on}]
      [] e.op = "unhold"         -> [c EXCEPT !.holds = @ \ {e.on}]
      [] e.op = "disable"        -> [c EXCEPT !.disabled = TRUE]
      [] e.op = "enable"         -> [c EXCEPT !.disabled = FALSE]
      [] e.op = "create_profile" -> [Default EXCEPT !.profile = TRUE]
      [] e.op = "delete_profile" -> [c EXCEPT !.profile = FALSE]
      [] e.op = "pause"          -> [c EXCEPT !.paused = TRUE]
      [] e.op = "resume"         -> [c EXCEPT !.paused = FALSE]

Edited(e, c) ==
    CASE e.op = "hold"           -> [c EXCEPT !.holds = @ \union {e.on}]
      [] e.op = "unhold"         -> [c EXCEPT !.holds = @ \ {e.on}]
      [] e.op = "disable"        -> [c EXCEPT !.disabled = TRUE]
      [] e.op = "enable"         -> [c EXCEPT !.disabled = FALSE]
      [] e.op = "create_profile" -> [c EXCEPT !.profile = TRUE]
      [] e.op = "delete_profile" -> [c EXCEPT !.profile = FALSE]
      [] e.op = "pause"          -> [c EXCEPT !.paused = TRUE]
      [] e.op = "resume"         -> [c EXCEPT !.paused = FALSE]

\* Commands that end without saving: the profile exists already, or does not; the
\* package was not held, the backend not paused.
Refused(e, c) ==
    \/ e.op = "create_profile" /\ c.profile
    \/ e.op = "delete_profile" /\ ~c.profile

CliRefused(e, c) ==
    \/ e.op = "unhold" /\ e.on \notin c.holds
    \/ e.op = "resume" /\ ~c.paused

\* Config::backend_enabled for the one backend the model follows.
Enabled(c) == ~c.disabled /\ ~(c.paused /\ ~lapsed)

-----------------------------------------------------------------------------
Idle == [pc |-> "idle"]

\* A command under way, from its edit on.
Command == [pc : {"open", "write", "rename", "adopt", "invalidate"}, edit : Edit, new : Config,
            inode : Inodes \union {NoInode}, changed : BOOLEAN]

Open  == {t \in Tasks : task[t].pc # "idle"}
Quiet == Open = {} /\ probing = Nothing

\* Config::load: no file is the default config, a torn one is an error.
Loads == file # NoInode => content[file] # Torn
Loaded == IF file = NoInode THEN Default ELSE content[file][1]

MayStart(t) ==
    /\ task[t].pc = "idle"
    /\ Overlap # "free" => Open = {}
    /\ Overlap = "never" /\ t \in CliTasks => ~gui

\* From here on the user no longer counts on a hold they asked to lift.
Asked(e) ==
    promised' = IF e.op = "unhold" THEN promised \ {e.on} ELSE promised

Save(t, e, base) ==
    task' = [task EXCEPT ![t] =
        [pc |-> "open", edit |-> e, new |-> Edited(e, base), inode |-> NoInode,
         changed |-> Edited(e, base).disabled # base.disabled]]

\* A command of the GUI takes a snapshot of the config in memory and edits it.
GuiCommand(t, e) ==
    /\ gui /\ t \in GuiTasks /\ MayStart(t)
    /\ ~Refused(e, mem)
    /\ Save(t, e, mem) /\ Asked(e)
    /\ UNCHANGED <<disk, app, lapsed>>

\* A command of the CLI loads the file.  A pause sets a new deadline.
CliCommand(t, e) ==
    /\ t \in CliTasks /\ MayStart(t)
    /\ Loads /\ ~CliRefused(e, Loaded)
    /\ Save(t, e, Loaded) /\ Asked(e)
    /\ lapsed' = (lapsed /\ e.op # "pause")
    /\ UNCHANGED <<disk, app>>

-----------------------------------------------------------------------------
(* Config::save.                                                           *)

Used == {file, tmp} \union {task[t].inode : t \in {u \in Open : task[u].pc # "open"}}

\* Mutant: the config is written in place.
OpenInPlace(t) ==
    /\ task[t].pc = "open"
    /\ LET inode == IF file # NoInode THEN file ELSE 1
       IN  /\ file' = inode /\ tmp' = inode
           /\ content' = [content EXCEPT ![inode] = Torn]
           /\ task' = [task EXCEPT ![t].pc = "write", ![t].inode = inode]
    /\ UNCHANGED <<app, lapsed, promised>>

\* fs::write, first half: the temporary file is created or cut to nothing.
OpenTmp(t) ==
    /\ task[t].pc = "open"
    /\ LET inode == IF tmp # NoInode THEN tmp
                    ELSE CHOOSE i \in Inodes \ Used : \A j \in Inodes \ Used : i <= j
       IN  /\ tmp' = inode
           /\ content' = [content EXCEPT ![inode] = Torn]
           /\ task' = [task EXCEPT ![t].pc = "write", ![t].inode = inode]
    /\ UNCHANGED <<file, app, lapsed, promised>>

\* Mutant: the text lacks the pauses.
WriteWithoutPauses(t) ==
    /\ task[t].pc = "write"
    /\ content' = [content EXCEPT ![task[t].inode] =
                      Text([holds |-> task[t].new.holds, profile |-> task[t].new.profile,
                            disabled |-> task[t].new.disabled])]
    /\ task' = [task EXCEPT ![t].pc = "rename"]
    /\ UNCHANGED <<file, tmp, app, lapsed, promised>>

\* Second half: the text goes into the file that was opened, whatever its name is by
\* now.  Over another text of a different length it leaves a mixture.
WriteTmp(t) ==
    /\ task[t].pc = "write"
    /\ \E text \in {Text(task[t].new)} \union
           (IF content[task[t].inode] \in {Torn, Text(task[t].new)} THEN {} ELSE {Torn}) :
          content' = [content EXCEPT ![task[t].inode] = text]
    /\ task' = [task EXCEPT ![t].pc = "rename"]
    /\ UNCHANGED <<file, tmp, app, lapsed, promised>>

\* What the user is told once a save is through.
Tell(t) ==
    LET e == task[t].edit
    IN  promised' = IF e.op = "hold" THEN promised \union {e.on} ELSE promised

\* The rename moves whatever has the temporary name onto config.json.  The CLI is
\* done then; the GUI still has to adopt the config.
Rename(t) ==
    /\ task[t].pc = "rename" /\ tmp # NoInode
    /\ file' = tmp /\ tmp' = NoInode
    /\ IF t \in CliTasks
       THEN task' = [task EXCEPT ![t] = Idle] /\ Tell(t)
       ELSE task' = [task EXCEPT ![t].pc = "adopt"] /\ UNCHANGED promised
    /\ UNCHANGED <<content, app, lapsed>>

\* Mutant: memory adopts the config though it could not be saved.
SaveFailsAdopting(t) ==
    /\ task[t].pc \in {"open", "write", "rename"}
    /\ task' = [task EXCEPT ![t] = Idle]
    /\ mem' = IF t \in GuiTasks THEN task[t].new ELSE mem
    /\ UNCHANGED <<disk, gui, slot, probing, lapsed, promised>>

\* Any of the three calls fails: the command reports an error and memory keeps the
\* previous config.  A rename fails for certain when the temporary name is gone.
SaveFails(t) ==
    /\ task[t].pc \in {"open", "write", "rename"}
    /\ task' = [task EXCEPT ![t] = Idle]
    /\ UNCHANGED <<disk, app, lapsed, promised>>

\* AppState::set_config.  When the command changed the set of disabled backends it
\* goes on to drop the cached probe.
Adopt(t) ==
    /\ task[t].pc = "adopt"
    /\ mem' = task[t].new
    /\ task' = [task EXCEPT ![t] =
                  IF task[t].changed THEN [task[t] EXCEPT !.pc = "invalidate"] ELSE Idle]
    /\ Tell(t)
    /\ UNCHANGED <<disk, gui, slot, probing, lapsed>>

\* Mutant: the slot is cleared without the lock.
InvalidateAtOnce(t) ==
    /\ task[t].pc = "invalidate"
    /\ slot' = "empty"
    /\ task' = [task EXCEPT ![t] = Idle]
    /\ UNCHANGED <<disk, gui, mem, probing, lapsed, promised>>

\* AppState::invalidate_backends waits for the lock that a probe holds.
Invalidate(t) ==
    /\ task[t].pc = "invalidate" /\ probing = Nothing
    /\ slot' = "empty"
    /\ task' = [task EXCEPT ![t] = Idle]
    /\ UNCHANGED <<disk, gui, mem, probing, lapsed, promised>>

-----------------------------------------------------------------------------
(* AppState::probed_backends: the first use probes with a snapshot of the  *)
(* config, under the lock; later uses are served from the cache.           *)

ProbeBegin ==
    /\ gui /\ probing = Nothing /\ slot = "empty"
    /\ probing' = <<mem>>
    /\ UNCHANGED <<disk, gui, mem, slot, task, lapsed, promised>>

ProbeEnd ==
    /\ probing # Nothing
    /\ slot' = IF Enabled(probing[1]) THEN "usable" ELSE "hidden"
    /\ probing' = Nothing
    /\ UNCHANGED <<disk, gui, mem, task, lapsed, promised>>

\* refresh_backends: the user asks for a new probe, in case a package manager was
\* installed since.  It waits for the same lock.
RefreshBackends ==
    /\ gui /\ probing = Nothing
    /\ slot' = "empty"
    /\ UNCHANGED <<disk, gui, mem, probing, task, lapsed, promised>>

-----------------------------------------------------------------------------
(* Programs come and go.                                                   *)

\* Mutant: the GUI starts from the defaults and saves them.
GuiStartFromDefaults ==
    /\ ~gui
    /\ Overlap # "free" => Open = {}
    /\ gui' = TRUE
    /\ mem' = Default
    /\ file' = IF file = NoInode THEN NoInode ELSE 1
    /\ content' = [content EXCEPT ![1] = Text(Default)]
    /\ UNCHANGED <<tmp, slot, probing, task, lapsed, promised>>

\* AppState::new: a file that cannot be read is moved aside, if that works, and the
\* GUI starts from the defaults.
GuiStart ==
    /\ ~gui
    /\ Overlap # "free" => Open = {}
    /\ gui' = TRUE
    /\ mem' = IF Loads THEN Loaded ELSE Default
    /\ file' \in {file, IF Loads THEN file ELSE NoInode}
    /\ UNCHANGED <<content, tmp, slot, probing, task, lapsed, promised>>

\* The GUI is closed or dies, at any point of any command.
GuiStops ==
    /\ gui
    /\ gui' = FALSE /\ mem' = Default
    /\ slot' = "empty" /\ probing' = Nothing
    /\ task' = [t \in Tasks |-> IF t \in GuiTasks THEN Idle ELSE task[t]]
    /\ UNCHANGED <<disk, lapsed, promised>>

CliDies(t) ==
    /\ t \in CliTasks /\ task[t].pc # "idle"
    /\ task' = [task EXCEPT ![t] = Idle]
    /\ UNCHANGED <<disk, app, lapsed, promised>>

\* The pause's deadline passes.
DeadlinePasses ==
    /\ ~lapsed /\ lapsed' = TRUE
    /\ UNCHANGED <<disk, app, task, promised>>

-----------------------------------------------------------------------------
Init ==
    /\ content = [i \in Inodes |-> Torn]
    /\ file = NoInode /\ tmp = NoInode
    /\ gui = FALSE /\ mem = Default
    /\ slot = "empty" /\ probing = Nothing
    /\ task = [t \in Tasks |-> Idle]
    /\ lapsed = FALSE
    /\ promised = {}

TaskStep(t) ==
    \/ OpenTmp(t) \/ WriteTmp(t) \/ Rename(t) \/ SaveFails(t)
    \/ Adopt(t) \/ Invalidate(t)

Next ==
    \/ \E t \in Tasks, e \in GuiEdit : GuiCommand(t, e)
    \/ \E t \in Tasks, e \in CliEdit : CliCommand(t, e)
    \/ \E t \in Tasks : TaskStep(t) \/ CliDies(t)
    \/ ProbeBegin \/ ProbeEnd \/ RefreshBackends
    \/ GuiStart \/ GuiStops
    \/ DeadlinePasses

Spec == Init /\ [][Next]_vars

-----------------------------------------------------------------------------
TypeOK ==
    /\ content \in [Inodes -> {Text(c) : c \in Config} \union {Torn}]
    /\ {file, tmp} \subseteq Inodes \union {NoInode}
    /\ gui \in BOOLEAN /\ mem \in Config
    /\ slot \in {"empty", "usable", "hidden"}
    /\ probing \in {<<c>> : c \in Config} \union {Nothing}
    /\ task \in [Tasks -> Command \union {Idle}]
    /\ lapsed \in BOOLEAN /\ promised \subseteq Names

\* "Write-then-rename so an interrupted save cannot truncate the config"
\* (config.rs:172): whenever a program starts or dies, config.json loads.
NeverTorn == Loads

\* "what the UI shows still matches what is on disk" (state.rs:83): with no command
\* under way the config in memory is the one in the file.
MemoryIsTheFile == gui /\ Open = {} => Loads /\ mem = Loaded

\* A hold somebody was told is in place is in the file, until somebody asks to lift
\* it: "a stale copy must not be able to drop one" (commands.rs:222).
HoldsAreKept == Loads => promised \subseteq Loaded.holds

\* With nothing under way the cached probe agrees with the config in memory on
\* whether the backend is used, a pause counting as it may have at the probe.
ProbeIsFresh ==
    Quiet /\ slot # "empty" =>
        /\ slot = "usable" => ~mem.disabled
        /\ slot = "hidden" => mem.disabled \/ mem.paused

\* However commands, failures and crashes follow each other, the file goes through
\* whole edits of its latest value (module ConfigRegister).
Register == INSTANCE ConfigRegister WITH Edits <- Edit, config <- Loaded

ActsAsRegister == Register!RegisterSpec
=============================================================================
