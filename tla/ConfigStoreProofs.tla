------------------------- MODULE ConfigStoreProofs --------------------------
(***************************************************************************)
(* The safety of ConfigStore for any packages and any number of commands.  *)
(***************************************************************************)
EXTENDS ConfigStore, FiniteSetTheorems, TLAPS

Ops   == {"hold", "unhold", "disable", "enable", "create_profile", "delete_profile", "pause", "resume"}
Texts == {Text(c) : c \in Config} \union {Torn}

Saving == {"open", "write", "rename"}

\* Only the GUI adopts a config, and its commands and its cache are there with it.
Owned ==
    /\ \A t \in GuiTasks : task[t].pc # "idle" => gui
    /\ \A t \in CliTasks : task[t].pc \notin {"adopt", "invalidate"}
    /\ probing # Nothing => gui /\ slot = "empty"
    /\ slot # "empty" => gui

Typed == TypeOK /\ Owned

\* Where commands do not overlap: the only one under way has the temporary file to itself,
\* and config.json is a text.
OneAtATime == \A t, u \in Open : t = u

Renamed ==
    /\ Loads
    /\ tmp # NoInode => tmp # file
    /\ \A t \in Open :
          /\ task[t].pc \in {"write", "rename"} => tmp # NoInode /\ task[t].inode = tmp
          /\ task[t].pc = "write" => content[tmp] = Torn
          /\ task[t].pc = "rename" => content[tmp] = Text(task[t].new)

\* What a command of the GUI is about to change, and the cache while it has not.
Cached ==
    /\ \A t \in GuiTasks :
          task[t].pc \in Saving \union {"adopt"} =>
             /\ task[t].new.paused = mem.paused
             /\ ~task[t].changed => task[t].new.disabled = mem.disabled
    /\ (\A t \in Open : task[t].pc # "invalidate") =>
          /\ \A c \in Config : probing = <<c>> => c.disabled = mem.disabled /\ c.paused = mem.paused
          /\ slot = "usable" => ~mem.disabled
          /\ slot = "hidden" => mem.disabled \/ mem.paused

Alone == Typed /\ OneAtATime /\ Renamed /\ Cached

\* Where the programs do not overlap either: what is under way edits the value of the file.
Current ==
    /\ \A t \in CliTasks : task[t].pc # "idle" => ~gui
    /\ \A t \in Open : /\ task[t].pc \in Saving => task[t].new = Edited(task[t].edit, Loaded)
                       /\ task[t].pc \notin Saving => task[t].new = Loaded
    /\ gui /\ (\A t \in Open : task[t].pc # "adopt") => mem = Loaded

Kept ==
    /\ promised \subseteq Loaded.holds
    /\ \A t \in Open :
          /\ task[t].edit.op = "unhold" => task[t].edit.on \notin promised
          /\ task[t].edit.op = "hold" /\ task[t].pc \notin Saving => task[t].edit.on \in Loaded.holds

InTurn == Alone /\ Current /\ Kept

-----------------------------------------------------------------------------
(* The edits.                                                              *)

LEMMA EditsAre ==
    ASSUME NEW e \in Edit
    PROVE  e.op \in Ops /\ (e.op \in {"hold", "unhold"} => e.on \in Names)
<1>1. CASE e \in [op : {"hold", "unhold"}, on : Names]
  BY <1>1 DEF Ops
<1>2. CASE e \in [op : {"disable", "enable", "create_profile", "delete_profile", "pause", "resume"}]
  BY <1>2 DEF Ops
<1> QED
  BY <1>1, <1>2 DEF Edit

\* An edit changes the field it is for; what a hold or its lifting does to the holds.
LEMMA EditsAreOfAField ==
    ASSUME NEW e \in Edit, NEW c \in Config
    PROVE  /\ Edited(e, c) \in Config
           /\ e.op = "hold" => Edited(e, c).holds = c.holds \union {e.on}
           /\ e.op = "unhold" => Edited(e, c).holds = c.holds \ {e.on}
           /\ e.op \notin {"hold", "unhold"} => Edited(e, c).holds = c.holds
           /\ e.op \notin {"pause", "resume"} => Edited(e, c).paused = c.paused
<1>1. e.op \in Ops /\ (e.op \in {"hold", "unhold"} => e.on \in Names)
  BY EditsAre
<1>2. CASE e.op = "hold"
  <2>1. Edited(e, c) = [c EXCEPT !.holds = @ \union {e.on}]
    BY <1>2 DEF Edited
  <2> QED
    BY <1>1, <1>2, <2>1 DEF Config
<1>3. CASE e.op = "unhold"
  <2>1. Edited(e, c) = [c EXCEPT !.holds = @ \ {e.on}]
    BY <1>3 DEF Edited
  <2> QED
    BY <1>1, <1>3, <2>1 DEF Config
<1>4. CASE e.op \in {"disable", "enable"}
  <2>1. PICK b \in BOOLEAN : Edited(e, c) = [c EXCEPT !.disabled = b]
    BY <1>4 DEF Edited
  <2> QED
    BY <1>4, <2>1 DEF Config
<1>5. CASE e.op \in {"create_profile", "delete_profile"}
  <2>1. PICK b \in BOOLEAN : Edited(e, c) = [c EXCEPT !.profile = b]
    BY <1>5 DEF Edited
  <2> QED
    BY <1>5, <2>1 DEF Config
<1>6. CASE e.op \in {"pause", "resume"}
  <2>1. PICK b \in BOOLEAN : Edited(e, c) = [c EXCEPT !.paused = b]
    BY <1>6 DEF Edited
  <2> QED
    BY <1>6, <2>1 DEF Config
<1> QED
  BY <1>1, <1>2, <1>3, <1>4, <1>5, <1>6 DEF Ops

-----------------------------------------------------------------------------
(* What the disk and a command hold.                                       *)

LEMMA TextsAreConfigs ==
    /\ \A c \in Config : Text(c) \in Texts /\ Text(c) # Torn /\ Text(c)[1] = c
    /\ Torn \in Texts
    /\ \A text \in Texts : text # Torn => text[1] \in Config /\ text = Text(text[1])
    /\ Default \in Config
BY DEF Texts, Text, Torn, Default, Config

LEMMA LoadsAConfig ==
    ASSUME TypeOK, Loads
    PROVE  Loaded \in Config
<1>1. content \in [Inodes -> Texts] /\ file \in Inodes \union {NoInode}
  BY DEF TypeOK, Texts
<1> QED
  BY <1>1, TextsAreConfigs DEF Loads, Loaded

\* The fields of a command, and how a step of it rewrites them.
LEMMA CommandsAre ==
    ASSUME TypeOK, NEW t \in Tasks
    PROVE  /\ task[t].pc = "idle" => task[t] = Idle
           /\ task[t].pc # "idle" => task[t] \in Command
<1>1. task[t] \in Command \union {Idle}
  BY DEF TypeOK
<1>2. Idle.pc = "idle" /\ \A k \in Command : k.pc # "idle"
  BY DEF Idle, Command
<1> QED
  BY <1>1, <1>2

LEMMA CommandMoves ==
    ASSUME NEW k \in Command, NEW pc \in {"open", "write", "rename", "adopt", "invalidate"}
    PROVE  /\ [k EXCEPT !.pc = pc] \in Command /\ [k EXCEPT !.pc = pc].pc = pc
           /\ [k EXCEPT !.pc = pc].edit = k.edit /\ [k EXCEPT !.pc = pc].new = k.new
           /\ [k EXCEPT !.pc = pc].inode = k.inode /\ [k EXCEPT !.pc = pc].changed = k.changed
<1>1. [k EXCEPT !.pc = pc] \in Command /\ [k EXCEPT !.pc = pc].pc = pc
  BY DEF Command
<1>2. /\ [k EXCEPT !.pc = pc].edit = k.edit /\ [k EXCEPT !.pc = pc].new = k.new
      /\ [k EXCEPT !.pc = pc].inode = k.inode
  BY DEF Command
<1>3. [k EXCEPT !.pc = pc].changed = k.changed
  BY DEF Command
<1> QED
  BY <1>1, <1>2, <1>3

\* A step of one command is a step of no other.
LEMMA OneCommandMoves ==
    ASSUME TypeOK, NEW t \in Tasks, NEW k \in Command \union {Idle}, task' = [task EXCEPT ![t] = k]
    PROVE  /\ task' \in [Tasks -> Command \union {Idle}]
           /\ task'[t] = k /\ \A u \in Tasks : u # t => task'[u] = task[u]
BY DEF TypeOK

\* A command that has come to its next step.
LEMMA ComesTo ==
    ASSUME TypeOK, NEW t \in Tasks, task[t].pc # "idle",
           NEW pc \in {"open", "write", "rename", "adopt", "invalidate"},
           task' = [task EXCEPT ![t].pc = pc]
    PROVE  /\ task' \in [Tasks -> Command \union {Idle}] /\ task'[t] \in Command
           /\ task'[t].pc = pc /\ task'[t].edit = task[t].edit /\ task'[t].new = task[t].new
           /\ task'[t].inode = task[t].inode /\ task'[t].changed = task[t].changed
           /\ \A u \in Tasks : u # t => task'[u] = task[u]
<1>1. PICK k \in Command : k = task[t]
  BY CommandsAre
<1>2. PICK m : m = [k EXCEPT !.pc = pc]
  OBVIOUS
<1>3. task' = [task EXCEPT ![t] = m]
  BY <1>1, <1>2
<1>4. /\ m \in Command /\ m.pc = pc /\ m.edit = k.edit /\ m.new = k.new
      /\ m.inode = k.inode /\ m.changed = k.changed
  BY <1>2, CommandMoves
<1>5. /\ task' \in [Tasks -> Command \union {Idle}]
      /\ task'[t] = m /\ \A u \in Tasks : u # t => task'[u] = task[u]
  BY <1>3, <1>4, OneCommandMoves
<1> QED
  BY <1>1, <1>4, <1>5

LEMMA Ends ==
    ASSUME TypeOK, NEW t \in Tasks, task' = [task EXCEPT ![t] = Idle]
    PROVE  /\ task' \in [Tasks -> Command \union {Idle}] /\ task'[t].pc = "idle"
           /\ \A u \in Tasks : u # t => task'[u] = task[u]
BY OneCommandMoves DEF Idle

LEMMA SaveBegins ==
    ASSUME TypeOK, NEW t \in Tasks, NEW e \in Edit, NEW base \in Config, Save(t, e, base)
    PROVE  /\ task' \in [Tasks -> Command \union {Idle}] /\ task'[t] \in Command
           /\ task'[t].pc = "open" /\ task'[t].edit = e /\ task'[t].new = Edited(e, base)
           /\ ~task'[t].changed => Edited(e, base).disabled = base.disabled
           /\ \A u \in Tasks : u # t => task'[u] = task[u]
<1>1. PICK new \in Config : new = Edited(e, base)
  BY EditsAreOfAField
<1>2. PICK changed \in BOOLEAN : changed = (new.disabled # base.disabled)
  OBVIOUS
<1>3. PICK k : k = [pc |-> "open", edit |-> e, new |-> new, inode |-> NoInode, changed |-> changed]
  OBVIOUS
<1>4. k \in Command
  BY <1>3 DEF Command, NoInode
<1>5. k.pc = "open" /\ k.edit = e /\ k.new = new /\ (k.changed <=> changed)
  BY <1>3
<1>6. task' = [task EXCEPT ![t] = k]
  BY <1>1, <1>2, <1>3 DEF Save
<1>7. /\ task' \in [Tasks -> Command \union {Idle}]
      /\ task'[t] = k /\ \A u \in Tasks : u # t => task'[u] = task[u]
  BY <1>4, <1>6, OneCommandMoves
<1> QED
  BY <1>1, <1>2, <1>4, <1>5, <1>7

\* The least of a set of naturals.
LEMMA LeastOf ==
    ASSUME NEW S \in SUBSET Nat, S # {}
    PROVE  \E m \in S : \A k \in S : m <= k
<1>1. PICK m \in S : \A k \in S : ~(<<k, m>> \in OpToRel(<, Nat))
  BY NatLessThanWellFounded, WFMin, Zenon
<1>2. \A k \in S : ~(k < m)
  BY <1>1, Zenon DEF OpToRel
<1>3. m \in Nat /\ \A k \in S : k \in Nat
  OBVIOUS
<1> QED
  BY <1>2, <1>3

\* There are more inodes than can be in use, so that a new temporary file is a new one.
LEMMA AnInodeIsFree ==
    ASSUME TypeOK, tmp = NoInode
    PROVE  Inodes \ Used # {}
<1> DEFINE Users == {u \in Open : task[u].pc # "open"}
           Written == {task[u].inode : u \in Users}
           f == [u \in Users |-> task[u].inode]
<1>1. IsFiniteSet(Tasks) /\ Cardinality(Tasks) \in Nat
  BY TasksAssumption, FS_CardinalityType
<1>2. IsFiniteSet(Users) /\ Cardinality(Users) <= Cardinality(Tasks) /\ Cardinality(Users) \in Nat
  <2>1. Users \in SUBSET Tasks
    BY DEF Open
  <2> QED
    BY <1>1, <2>1, FS_Subset, FS_CardinalityType
<1>3. f \in Surjection(Users, Written)
  BY DEF Surjection
<1>4. IsFiniteSet(Written) /\ Cardinality(Written) <= Cardinality(Users)
      /\ Cardinality(Written) \in Nat
  BY <1>2, <1>3, FS_Surjection, FS_CardinalityType
<1>5. IsFiniteSet({file, tmp}) /\ Cardinality({file, tmp}) <= 2 /\ Cardinality({file, tmp}) \in Nat
  <2>1. CASE file = tmp
    <3>1. {file, tmp} = {file}
      BY <2>1
    <3> QED
      BY <3>1, FS_Singleton
  <2>2. CASE file # tmp
    <3>1. {file, tmp} = {file} \union {tmp} /\ tmp \notin {file}
      BY <2>2
    <3>2. IsFiniteSet({file}) /\ Cardinality({file}) = 1
      BY FS_Singleton
    <3> QED
      BY <3>1, <3>2, FS_AddElement
  <2> QED
    BY <2>1, <2>2
<1>6. IsFiniteSet(Used) /\ Cardinality(Used) <= Cardinality(Tasks) + 2 /\ Cardinality(Used) \in Nat
  <2>1. Used = {file, tmp} \union Written
    BY DEF Used
  <2>2. IsFiniteSet({file, tmp} \union Written)
        /\ Cardinality({file, tmp} \union Written) <= Cardinality({file, tmp}) + Cardinality(Written)
        /\ Cardinality({file, tmp} \union Written) \in Nat
    <3>1. IsFiniteSet({file, tmp} \intersect Written)
          /\ Cardinality({file, tmp} \intersect Written) \in Nat
      BY <1>4, FS_Intersection, FS_CardinalityType
    <3>2. IsFiniteSet({file, tmp} \union Written)
          /\ Cardinality({file, tmp} \union Written)
               = Cardinality({file, tmp}) + Cardinality(Written)
                 - Cardinality({file, tmp} \intersect Written)
      BY <1>4, <1>5, FS_Union
    <3>3. Cardinality({file, tmp} \union Written) \in Nat
      BY <3>2, FS_CardinalityType
    <3> QED
      BY <1>4, <1>5, <3>1, <3>2, <3>3
  <2> QED
    BY <1>1, <1>2, <1>4, <1>5, <2>1, <2>2
<1>7. IsFiniteSet(0 .. (Cardinality(Tasks) + 2))
      /\ Cardinality(0 .. (Cardinality(Tasks) + 2)) = Cardinality(Tasks) + 3
  BY <1>1, FS_Interval
<1>8. SUFFICES ASSUME Inodes \subseteq Used PROVE FALSE
  OBVIOUS
<1>9. 0 .. (Cardinality(Tasks) + 2) \subseteq Used
  BY <1>1, <1>8 DEF Inodes, NoInode, Used
<1>10. Cardinality(0 .. (Cardinality(Tasks) + 2)) <= Cardinality(Used)
  BY <1>6, <1>9, FS_Subset
<1> QED
  BY <1>1, <1>6, <1>7, <1>10

LEMMA TmpOpens ==
    ASSUME TypeOK, NEW t \in Tasks, OpenTmp(t)
    PROVE  \E i \in Inodes :
              /\ tmp # NoInode => i = tmp
              /\ tmp = NoInode => i \notin Used
              /\ tmp' = i /\ content' = [content EXCEPT ![i] = Torn]
              /\ task' \in [Tasks -> Command \union {Idle}] /\ task'[t] \in Command
              /\ task'[t].pc = "write" /\ task'[t].inode = i /\ task'[t].edit = task[t].edit
              /\ task'[t].new = task[t].new /\ task'[t].changed = task[t].changed
              /\ \A u \in Tasks : u # t => task'[u] = task[u]
<1> DEFINE free == CHOOSE j \in Inodes \ Used : \A k \in Inodes \ Used : j <= k
<1>1. PICK i : i = IF tmp # NoInode THEN tmp ELSE free
  OBVIOUS
<1>2. /\ tmp' = i /\ content' = [content EXCEPT ![i] = Torn]
      /\ task' = [task EXCEPT ![t].pc = "write", ![t].inode = i]
  BY <1>1 DEF OpenTmp
<1>3. i \in Inodes /\ (tmp # NoInode => i = tmp) /\ (tmp = NoInode => i \notin Used)
  <2>1. CASE tmp # NoInode
    BY <1>1, <2>1 DEF TypeOK
  <2>2. CASE tmp = NoInode
    <3>1. Inodes \ Used \in SUBSET Nat /\ Inodes \ Used # {}
      BY <2>2, AnInodeIsFree, TasksAssumption, FS_CardinalityType DEF Inodes
    <3>2. \E m \in Inodes \ Used : \A k \in Inodes \ Used : m <= k
      BY <3>1, LeastOf
    <3>3. free \in Inodes \ Used
      BY <3>2
    <3> QED
      BY <1>1, <2>2, <3>3
  <2> QED
    BY <2>1, <2>2
<1>4. PICK k \in Command : k = task[t]
  BY CommandsAre DEF OpenTmp
<1>5. PICK m : m = [k EXCEPT !.pc = "write", !.inode = i]
  OBVIOUS
<1>6. m \in Command /\ m.pc = "write" /\ m.inode = i /\ m.edit = k.edit /\ m.new = k.new
  BY <1>3, <1>5 DEF Command
<1>7. m.changed = k.changed
  BY <1>5 DEF Command
<1>8. task' = [task EXCEPT ![t] = m]
  BY <1>2, <1>4, <1>5
<1>9. /\ task' \in [Tasks -> Command \union {Idle}]
      /\ task'[t] = m /\ \A u \in Tasks : u # t => task'[u] = task[u]
  BY <1>6, <1>8, OneCommandMoves
<1> QED
  BY <1>2, <1>3, <1>4, <1>6, <1>7, <1>9

-----------------------------------------------------------------------------
(* Each action, without any assumption on what overlaps, where commands do *)
(* not, and where programs do not either.                                  *)

\* A step of one command that leaves the cache alone.
LEMMA TypedFrom ==
    ASSUME Typed, NEW t \in Tasks, task' \in [Tasks -> Command \union {Idle}],
           \A u \in Tasks : u # t => task'[u] = task[u],
           UNCHANGED <<gui, slot, probing>>,
           content' \in [Inodes -> Texts], {file', tmp'} \subseteq Inodes \union {NoInode},
           mem' \in Config, lapsed' \in BOOLEAN, promised' \subseteq Names,
           t \in GuiTasks => task'[t].pc = "idle" \/ gui,
           t \in CliTasks => task'[t].pc \notin {"adopt", "invalidate"}
    PROVE  Typed'
<1>1. TypeOK'
  BY DEF Typed, TypeOK, Texts
<1>2. \A u \in GuiTasks : task'[u].pc # "idle" => gui
  BY DEF Typed, Owned, Tasks
<1>3. \A u \in CliTasks : task'[u].pc \notin {"adopt", "invalidate"}
  BY DEF Typed, Owned, Tasks
<1> QED
  BY <1>1, <1>2, <1>3 DEF Typed, Owned

LEMMA TypedHas ==
    ASSUME Typed
    PROVE  /\ TypeOK /\ Owned /\ content \in [Inodes -> Texts]
           /\ {file, tmp} \subseteq Inodes \union {NoInode}
           /\ task \in [Tasks -> Command \union {Idle}]
           /\ mem \in Config /\ lapsed \in BOOLEAN /\ promised \subseteq Names
BY DEF Typed, TypeOK, Texts

\* With no command under way, or only this one, no other is after a step of this one.
LEMMA NoOther ==
    ASSUME Typed, NEW t \in Tasks, Open \subseteq {t}, \A u \in Tasks : u # t => task'[u] = task[u]
    PROVE  /\ Open' \subseteq {t} /\ OneAtATime'
           /\ \A u \in Tasks : u # t => task[u].pc = "idle" /\ task'[u].pc = "idle"
BY DEF Open, OneAtATime

LEMMA OnlyOne ==
    ASSUME OneAtATime, NEW t \in Tasks, task[t].pc # "idle"
    PROVE  Open \subseteq {t} /\ t \in Open
BY DEF OneAtATime, Open

LEMMA AskedFor ==
    ASSUME NEW e, Asked(e)
    PROVE  promised' \subseteq promised /\ (e.op = "unhold" => e.on \notin promised')
BY DEF Asked

LEMMA GuiCommandKeeps ==
    ASSUME Typed, NEW t \in Tasks, NEW e \in GuiEdit, GuiCommand(t, e)
    PROVE  /\ Typed'
           /\ Overlap # "free" /\ Alone => Alone' /\ Loaded' = Loaded
           /\ Overlap = "never" /\ InTurn => InTurn'
<1>1. /\ UNCHANGED <<content, file, tmp, gui, mem, slot, probing, lapsed>>
      /\ gui /\ t \in GuiTasks /\ t \notin CliTasks /\ Asked(e) /\ Save(t, e, mem)
      /\ TypeOK /\ e \in Edit /\ mem \in Config
      /\ Overlap # "free" => Open = {}
  BY TasksAssumption, TypedHas DEF GuiCommand, disk, app, MayStart, GuiEdit
<1>2. /\ task' \in [Tasks -> Command \union {Idle}] /\ task'[t] \in Command
      /\ task'[t].pc = "open" /\ task'[t].edit = e /\ task'[t].new = Edited(e, mem)
      /\ ~task'[t].changed => Edited(e, mem).disabled = mem.disabled
      /\ \A u \in Tasks : u # t => task'[u] = task[u]
  BY <1>1, SaveBegins
<1>3. promised' \subseteq promised /\ (e.op = "unhold" => e.on \notin promised')
  BY <1>1, AskedFor
<1>4. Typed'
  BY <1>1, <1>2, <1>3, TypedFrom, TypedHas
<1>5. ASSUME Overlap # "free", Alone
      PROVE  Alone' /\ Loaded' = Loaded
  <2>1. /\ Open = {} /\ Open' \subseteq {t} /\ OneAtATime'
        /\ \A u \in Tasks : u # t => task[u].pc = "idle" /\ task'[u].pc = "idle"
    BY <1>1, <1>2, <1>5, NoOther
  <2>2. Renamed'
    BY <1>1, <1>2, <1>5, <2>1 DEF Alone, Renamed, Loads
  <2>3. e.op \notin {"pause", "resume"}
    BY DEF GuiEdit
  <2>4. Edited(e, mem).paused = mem.paused
    BY <1>1, <2>3, EditsAreOfAField
  <2>5. Cached'
    BY <1>1, <1>2, <1>5, <2>1, <2>4 DEF Alone, Cached, Saving, Tasks
  <2> QED
    BY <1>1, <1>4, <2>1, <2>2, <2>5 DEF Alone, Loaded
<1>6. ASSUME Overlap = "never", InTurn
      PROVE  InTurn'
  <2>1. Alone /\ Alone' /\ Loaded' = Loaded
    BY <1>5, <1>6 DEF InTurn
  <2>2. /\ Open = {} /\ Open' \subseteq {t}
        /\ \A u \in Tasks : u # t => task[u].pc = "idle" /\ task'[u].pc = "idle"
    BY <1>1, <1>2, <1>6, NoOther
  <2>3. mem = Loaded
    BY <1>1, <1>6, <2>2 DEF InTurn, Current
  <2>4. Current'
    BY <1>1, <1>2, <2>1, <2>2, <2>3 DEF Current, Saving, Tasks
  <2>5. Kept'
    BY <1>2, <1>3, <1>6, <2>1, <2>2 DEF InTurn, Kept, Saving
  <2> QED
    BY <2>1, <2>4, <2>5 DEF InTurn
<1> QED
  BY <1>4, <1>5, <1>6

LEMMA CliCommandKeeps ==
    ASSUME Typed, NEW t \in Tasks, NEW e \in CliEdit, CliCommand(t, e)
    PROVE  /\ Typed'
           /\ Overlap # "free" /\ Alone => Alone' /\ Loaded' = Loaded
           /\ Overlap = "never" /\ InTurn => InTurn'
<1>1. /\ UNCHANGED <<content, file, tmp, gui, mem, slot, probing>>
      /\ t \in CliTasks /\ t \notin GuiTasks /\ Asked(e) /\ Save(t, e, Loaded)
      /\ TypeOK /\ e \in Edit /\ Loads /\ lapsed' \in BOOLEAN
      /\ Overlap # "free" => Open = {}
      /\ Overlap = "never" => ~gui
  BY TasksAssumption, TypedHas DEF CliCommand, disk, app, MayStart, CliEdit
<1>2. Loaded \in Config
  BY <1>1, LoadsAConfig
<1>3. /\ task' \in [Tasks -> Command \union {Idle}] /\ task'[t] \in Command
      /\ task'[t].pc = "open" /\ task'[t].edit = e /\ task'[t].new = Edited(e, Loaded)
      /\ \A u \in Tasks : u # t => task'[u] = task[u]
  BY <1>1, <1>2, SaveBegins
<1>4. promised' \subseteq promised /\ (e.op = "unhold" => e.on \notin promised')
  BY <1>1, AskedFor
<1>5. Typed'
  BY <1>1, <1>3, <1>4, TypedFrom, TypedHas
<1>6. ASSUME Overlap # "free", Alone
      PROVE  Alone' /\ Loaded' = Loaded
  <2>1. /\ Open = {} /\ Open' \subseteq {t} /\ OneAtATime'
        /\ \A u \in Tasks : u # t => task[u].pc = "idle" /\ task'[u].pc = "idle"
    BY <1>1, <1>3, <1>6, NoOther
  <2>2. Renamed'
    BY <1>1, <1>3, <1>6, <2>1 DEF Alone, Renamed, Loads
  <2>3. Cached'
    BY <1>1, <1>3, <1>6, <2>1 DEF Alone, Cached, Saving, Tasks
  <2> QED
    BY <1>1, <1>5, <2>1, <2>2, <2>3 DEF Alone, Loaded
<1>7. ASSUME Overlap = "never", InTurn
      PROVE  InTurn'
  <2>1. Alone /\ Alone' /\ Loaded' = Loaded
    BY <1>6, <1>7 DEF InTurn
  <2>2. /\ Open = {} /\ Open' \subseteq {t}
        /\ \A u \in Tasks : u # t => task[u].pc = "idle" /\ task'[u].pc = "idle"
    BY <1>1, <1>3, <1>7, NoOther
  <2>3. Current'
    BY <1>1, <1>3, <1>7, <2>1, <2>2 DEF Current, Saving, Tasks
  <2>4. Kept'
    BY <1>3, <1>4, <1>7, <2>1, <2>2 DEF InTurn, Kept, Saving
  <2> QED
    BY <2>1, <2>3, <2>4 DEF InTurn
<1> QED
  BY <1>5, <1>6, <1>7

LEMMA OpenTmpKeeps ==
    ASSUME Typed, NEW t \in Tasks, OpenTmp(t)
    PROVE  /\ Typed'
           /\ Overlap # "free" /\ Alone => Alone' /\ Loaded' = Loaded
           /\ Overlap = "never" /\ InTurn => InTurn'
<1>1. /\ UNCHANGED <<file, gui, mem, slot, probing, lapsed, promised>>
      /\ task[t].pc = "open" /\ TypeOK
  BY TypedHas DEF OpenTmp, app
<1>2. PICK i \in Inodes :
         /\ tmp # NoInode => i = tmp
         /\ tmp = NoInode => i \notin Used
         /\ tmp' = i /\ content' = [content EXCEPT ![i] = Torn]
         /\ task' \in [Tasks -> Command \union {Idle}] /\ task'[t] \in Command
         /\ task'[t].pc = "write" /\ task'[t].inode = i /\ task'[t].edit = task[t].edit
         /\ task'[t].new = task[t].new /\ task'[t].changed = task[t].changed
         /\ \A u \in Tasks : u # t => task'[u] = task[u]
  BY <1>1, TmpOpens
<1>3. content' \in [Inodes -> Texts] /\ content'[i] = Torn
      /\ \A j \in Inodes : j # i => content'[j] = content[j]
  BY <1>2, TypedHas, TextsAreConfigs
<1>4. Typed'
  BY <1>1, <1>2, <1>3, TypedFrom, TypedHas DEF Owned
<1>5. ASSUME Overlap # "free", Alone
      PROVE  Alone' /\ Loaded' = Loaded
  <2>1. /\ Open \subseteq {t} /\ t \in Open /\ Open' \subseteq {t} /\ OneAtATime'
        /\ \A u \in Tasks : u # t => task[u].pc = "idle" /\ task'[u].pc = "idle"
    BY <1>1, <1>2, <1>5, OnlyOne, NoOther DEF Alone
  <2>2. i # file /\ i # NoInode /\ file \in Inodes \union {NoInode}
    <3>1. file \in Used
      BY DEF Used
    <3>2. tmp # NoInode => tmp # file
      BY <1>5 DEF Alone, Renamed
    <3> QED
      BY <1>2, <3>1, <3>2, TypedHas DEF Inodes, NoInode
  <2>3. Loads' /\ Loaded' = Loaded
    BY <1>1, <1>3, <1>5, <2>2 DEF Alone, Renamed, Loads, Loaded
  <2>4. Renamed'
    BY <1>1, <1>2, <1>3, <2>1, <2>2, <2>3 DEF Renamed
  <2>5. Cached'
    BY <1>1, <1>2, <1>5, <2>1 DEF Alone, Cached, Saving, Tasks
  <2> QED
    BY <1>4, <2>1, <2>3, <2>4, <2>5 DEF Alone
<1>6. ASSUME Overlap = "never", InTurn
      PROVE  InTurn'
  <2>1. Alone /\ Alone' /\ Loaded' = Loaded
    BY <1>5, <1>6 DEF InTurn
  <2>2. /\ Open \subseteq {t} /\ t \in Open /\ Open' \subseteq {t}
        /\ \A u \in Tasks : u # t => task[u].pc = "idle" /\ task'[u].pc = "idle"
    BY <1>1, <1>2, <2>1, OnlyOne, NoOther DEF Alone
  <2>3. Current'
    BY <1>1, <1>2, <1>6, <2>1, <2>2 DEF InTurn, Current, Saving, Tasks
  <2>4. Kept'
    BY <1>1, <1>2, <1>6, <2>1, <2>2 DEF InTurn, Kept, Saving
  <2> QED
    BY <2>1, <2>3, <2>4 DEF InTurn
<1> QED
  BY <1>4, <1>5, <1>6

LEMMA WriteTmpKeeps ==
    ASSUME Typed, NEW t \in Tasks, WriteTmp(t)
    PROVE  /\ Typed'
           /\ Overlap # "free" /\ Alone => Alone' /\ Loaded' = Loaded
           /\ Overlap = "never" /\ InTurn => InTurn'
<1>1. /\ UNCHANGED <<file, tmp, gui, mem, slot, probing, lapsed, promised>>
      /\ task[t].pc = "write" /\ TypeOK /\ task' = [task EXCEPT ![t].pc = "rename"]
  BY TypedHas DEF WriteTmp, app
<1>2. task[t] \in Command /\ task[t].new \in Config /\ task[t].inode \in Inodes \union {NoInode}
  <2>1. task[t] \in Command
    BY <1>1, CommandsAre
  <2> QED
    BY <2>1 DEF Command
<1>3. PICK text \in {Text(task[t].new), Torn} :
         /\ content' = [content EXCEPT ![task[t].inode] = text]
         /\ content[task[t].inode] = Torn => text = Text(task[t].new)
  BY DEF WriteTmp
<1>4. /\ task' \in [Tasks -> Command \union {Idle}] /\ task'[t] \in Command
      /\ task'[t].pc = "rename" /\ task'[t].edit = task[t].edit /\ task'[t].new = task[t].new
      /\ task'[t].inode = task[t].inode /\ task'[t].changed = task[t].changed
      /\ \A u \in Tasks : u # t => task'[u] = task[u]
  BY <1>1, ComesTo
<1>5. text \in Texts
  BY <1>2, TextsAreConfigs
<1>6. content' \in [Inodes -> Texts]
      /\ (task[t].inode \in Inodes => content'[task[t].inode] = text)
      /\ \A j \in Inodes : j # task[t].inode => content'[j] = content[j]
  BY <1>3, <1>5, TypedHas
<1>7. Typed'
  BY <1>1, <1>4, <1>6, TypedFrom, TypedHas DEF Owned
<1>8. ASSUME Overlap # "free", Alone
      PROVE  Alone' /\ Loaded' = Loaded
  <2>1. /\ Open \subseteq {t} /\ t \in Open /\ Open' \subseteq {t} /\ OneAtATime'
        /\ \A u \in Tasks : u # t => task[u].pc = "idle" /\ task'[u].pc = "idle"
    BY <1>1, <1>4, <1>8, OnlyOne, NoOther DEF Alone
  <2>2. task[t].inode = tmp /\ tmp # NoInode /\ tmp # file /\ content[tmp] = Torn /\ tmp \in Inodes
        /\ file \in Inodes \union {NoInode}
    BY <1>1, <1>8, <2>1, TypedHas DEF Alone, Renamed
  <2>3. Loads' /\ Loaded' = Loaded
    BY <1>1, <1>6, <1>8, <2>2 DEF Alone, Renamed, Loads, Loaded
  <2>4. content'[tmp] = Text(task[t].new)
    BY <1>3, <1>6, <2>2
  <2>5. Renamed'
    BY <1>1, <1>4, <2>1, <2>2, <2>3, <2>4 DEF Renamed
  <2>6. Cached'
    BY <1>1, <1>4, <1>8, <2>1 DEF Alone, Cached, Saving, Tasks
  <2> QED
    BY <1>7, <2>1, <2>3, <2>5, <2>6 DEF Alone
<1>9. ASSUME Overlap = "never", InTurn
      PROVE  InTurn'
  <2>1. Alone /\ Alone' /\ Loaded' = Loaded
    BY <1>8, <1>9 DEF InTurn
  <2>2. /\ Open \subseteq {t} /\ t \in Open /\ Open' \subseteq {t}
        /\ \A u \in Tasks : u # t => task[u].pc = "idle" /\ task'[u].pc = "idle"
    BY <1>1, <1>4, <2>1, OnlyOne, NoOther DEF Alone
  <2>3. Current'
    BY <1>1, <1>4, <1>9, <2>1, <2>2 DEF InTurn, Current, Saving, Tasks
  <2>4. Kept'
    BY <1>1, <1>4, <1>9, <2>1, <2>2 DEF InTurn, Kept, Saving
  <2> QED
    BY <2>1, <2>3, <2>4 DEF InTurn
<1> QED
  BY <1>7, <1>8, <1>9

LEMMA Told ==
    ASSUME NEW t \in Tasks, Tell(t) \/ UNCHANGED promised
    PROVE  promised' = promised
           \/ (task[t].edit.op = "hold" /\ promised' = promised \union {task[t].edit.on})
BY DEF Tell

\* Of all steps only this one changes the value that is in config.json: into the edit.
LEMMA RenameKeeps ==
    ASSUME Typed, NEW t \in Tasks, Rename(t)
    PROVE  /\ Typed'
           /\ Overlap # "free" /\ Alone => Alone' /\ Loaded' = task[t].new
           /\ Overlap = "never" /\ InTurn =>
                 /\ InTurn' /\ task[t].edit \in Edit /\ Loaded' = Edited(task[t].edit, Loaded)
<1>1. /\ UNCHANGED <<content, gui, mem, slot, probing, lapsed>> /\ Idle.pc = "idle"
      /\ task[t].pc = "rename" /\ TypeOK /\ tmp # NoInode /\ file' = tmp /\ tmp' = NoInode
  BY TypedHas DEF Rename, app, Idle
<1>2. task[t] \in Command
  BY <1>1, CommandsAre
<1>3. task[t].new \in Config /\ task[t].edit \in Edit
  BY <1>2 DEF Command
<1>4. /\ t \in CliTasks => task' = [task EXCEPT ![t] = Idle] /\ Tell(t)
      /\ t \notin CliTasks => task' = [task EXCEPT ![t].pc = "adopt"] /\ UNCHANGED promised
  BY DEF Rename
<1>5. /\ task' \in [Tasks -> Command \union {Idle}]
      /\ \A u \in Tasks : u # t => task'[u] = task[u]
      /\ t \in CliTasks => task'[t].pc = "idle"
      /\ t \notin CliTasks => /\ task'[t].pc = "adopt" /\ task'[t].edit = task[t].edit
                              /\ task'[t].new = task[t].new /\ task'[t].changed = task[t].changed
  BY <1>1, <1>4, ComesTo, Ends
<1>6. promised' = promised
      \/ (task[t].edit.op = "hold" /\ promised' = promised \union {task[t].edit.on})
  BY <1>4, Told
<1>7. promised' \subseteq Names
  BY <1>3, <1>6, EditsAre, TypedHas
<1>8. Typed'
  BY <1>1, <1>5, <1>7, TypedFrom, TypedHas DEF Owned
<1>9. ASSUME Overlap # "free", Alone
      PROVE  Alone' /\ Loaded' = task[t].new
  <2>1. /\ Open \subseteq {t} /\ t \in Open /\ Open' \subseteq {t} /\ OneAtATime'
        /\ \A u \in Tasks : u # t => task[u].pc = "idle" /\ task'[u].pc = "idle"
    BY <1>1, <1>5, <1>9, OnlyOne, NoOther DEF Alone
  <2>2. content[tmp] = Text(task[t].new)
    BY <1>1, <1>9, <2>1 DEF Alone, Renamed
  <2>3. Loads' /\ Loaded' = task[t].new
    BY <1>1, <1>3, <2>2, TextsAreConfigs DEF Loads, Loaded
  <2>4. \A u \in Open' : task'[u].pc \notin {"write", "rename"}
    BY <1>5, <2>1
  <2>5. Renamed'
    BY <1>1, <2>3, <2>4 DEF Renamed
  <2>6. Cached'
    BY <1>1, <1>5, <1>9, <2>1 DEF Alone, Cached, Saving, Tasks
  <2> QED
    BY <1>8, <2>1, <2>3, <2>5, <2>6 DEF Alone
<1>10. ASSUME Overlap = "never", InTurn
       PROVE  InTurn' /\ Loaded' = Edited(task[t].edit, Loaded)
  <2>1. Alone /\ Alone' /\ Loaded' = task[t].new
    BY <1>9, <1>10 DEF InTurn
  <2>2. /\ Open \subseteq {t} /\ t \in Open /\ Open' \subseteq {t}
        /\ \A u \in Tasks : u # t => task[u].pc = "idle" /\ task'[u].pc = "idle"
    BY <1>1, <1>5, <2>1, OnlyOne, NoOther DEF Alone
  <2>3. task[t].new = Edited(task[t].edit, Loaded) /\ Loaded \in Config
    BY <1>1, <1>10, <2>1, <2>2, LoadsAConfig DEF InTurn, Current, Saving, Alone, Renamed
  <2>4. Current'
    <3>1. \A u \in CliTasks : task'[u].pc # "idle" => ~gui
      BY <1>5, <1>10, <2>2 DEF InTurn, Current, Tasks
    <3>2. \A u \in Open' : task'[u].pc = "adopt" /\ task'[u].new = Loaded'
      BY <1>5, <2>1, <2>2 DEF Open
    <3>3. gui => t \notin CliTasks
      BY <1>1, <1>10 DEF InTurn, Current
    <3>4. gui => t \in Open'
      BY <1>5, <3>3 DEF Open
    <3> QED
      BY <1>1, <3>1, <3>2, <3>4 DEF Current, Saving
  <2>5. promised \subseteq Loaded.holds
        /\ (task[t].edit.op = "unhold" => task[t].edit.on \notin promised)
    BY <1>10, <2>2 DEF InTurn, Kept
  <2>6. /\ task[t].edit.op = "hold" => Loaded'.holds = Loaded.holds \union {task[t].edit.on}
        /\ task[t].edit.op = "unhold" => Loaded'.holds = Loaded.holds \ {task[t].edit.on}
        /\ task[t].edit.op \notin {"hold", "unhold"} => Loaded'.holds = Loaded.holds
    BY <1>3, <2>1, <2>3, EditsAreOfAField
  <2>7. promised' \subseteq Loaded'.holds
        /\ (task[t].edit.op = "unhold" => task[t].edit.on \notin promised')
        /\ (task[t].edit.op = "hold" => task[t].edit.on \in Loaded'.holds)
    BY <1>6, <2>5, <2>6
  <2>8. Kept'
    BY <1>5, <2>2, <2>7 DEF Kept, Open
  <2> QED
    BY <2>1, <2>3, <2>4, <2>8 DEF InTurn
<1> QED
  BY <1>3, <1>8, <1>9, <1>10

\* A command that ends before it has saved.
LEMMA GivingUpKeeps ==
    ASSUME Typed, NEW t \in Tasks, SaveFails(t) \/ CliDies(t)
    PROVE  /\ Typed'
           /\ Overlap # "free" /\ Alone => Alone' /\ Loaded' = Loaded
           /\ Overlap = "never" /\ InTurn => InTurn'
<1>1. /\ UNCHANGED <<content, file, tmp, gui, mem, slot, probing, lapsed, promised>>
      /\ task[t].pc \notin {"idle", "adopt", "invalidate"} /\ TypeOK
      /\ task' = [task EXCEPT ![t] = Idle]
  BY TypedHas DEF SaveFails, CliDies, disk, app, Owned
<1>2. /\ task' \in [Tasks -> Command \union {Idle}] /\ task'[t].pc = "idle"
      /\ \A u \in Tasks : u # t => task'[u] = task[u]
  BY <1>1, Ends
<1>3. Typed'
  BY <1>1, <1>2, TypedFrom, TypedHas
<1>4. ASSUME Overlap # "free", Alone
      PROVE  Alone' /\ Loaded' = Loaded /\ Open' = {} /\ Open = {t}
  <2>1. /\ Open \subseteq {t} /\ t \in Open /\ Open' \subseteq {t} /\ OneAtATime'
        /\ \A u \in Tasks : u # t => task[u].pc = "idle" /\ task'[u].pc = "idle"
    BY <1>1, <1>2, <1>4, OnlyOne, NoOther DEF Alone
  <2>2. Open' = {}
    BY <1>2, <2>1 DEF Open
  <2>3. Renamed'
    BY <1>1, <1>4, <2>2 DEF Alone, Renamed, Loads
  <2>4. Cached'
    BY <1>1, <1>2, <1>4, <2>1 DEF Alone, Cached, Saving, Tasks
  <2> QED
    BY <1>1, <1>3, <2>1, <2>2, <2>3, <2>4 DEF Alone, Loaded
<1>5. ASSUME Overlap = "never", InTurn
      PROVE  InTurn'
  <2>1. Alone /\ Alone' /\ Loaded' = Loaded /\ Open' = {} /\ Open = {t}
    BY <1>4, <1>5 DEF InTurn
  <2>2. Current'
    BY <1>1, <1>2, <1>5, <2>1 DEF InTurn, Current, Open, Tasks
  <2>3. Kept'
    BY <1>1, <1>5, <2>1 DEF InTurn, Kept
  <2> QED
    BY <2>1, <2>2, <2>3 DEF InTurn
<1> QED
  BY <1>3, <1>4, <1>5

LEMMA AdoptKeeps ==
    ASSUME Typed, NEW t \in Tasks, Adopt(t)
    PROVE  /\ Typed'
           /\ Overlap # "free" /\ Alone => Alone' /\ Loaded' = Loaded
           /\ Overlap = "never" /\ InTurn => InTurn'
<1>1. /\ UNCHANGED <<content, file, tmp, gui, slot, probing, lapsed>> /\ mem' = task[t].new
      /\ task[t].pc = "adopt" /\ TypeOK /\ t \notin CliTasks /\ t \in GuiTasks /\ gui /\ Tell(t)
  BY TypedHas DEF Adopt, disk, Owned, Tasks
<1>2. task[t] \in Command
  BY <1>1, CommandsAre
<1>3. task[t].new \in Config /\ task[t].edit \in Edit
  BY <1>2 DEF Command
<1>4. /\ task[t].changed => task' = [task EXCEPT ![t].pc = "invalidate"]
      /\ ~task[t].changed => task' = [task EXCEPT ![t] = Idle]
  <2>1. task' = [task EXCEPT ![t] =
                    IF task[t].changed THEN [task[t] EXCEPT !.pc = "invalidate"] ELSE Idle]
    BY DEF Adopt
  <2>2. CASE task[t].changed
    BY <2>1, <2>2
  <2>3. CASE ~task[t].changed
    BY <2>1, <2>3
  <2> QED
    BY <2>2, <2>3
<1>5. /\ task' \in [Tasks -> Command \union {Idle}]
      /\ \A u \in Tasks : u # t => task'[u] = task[u]
      /\ ~task[t].changed => task'[t].pc = "idle"
      /\ task[t].changed => /\ task'[t].pc = "invalidate" /\ task'[t].edit = task[t].edit
                            /\ task'[t].new = task[t].new
  BY <1>1, <1>4, ComesTo, Ends
<1>6. promised' = promised
      \/ (task[t].edit.op = "hold" /\ promised' = promised \union {task[t].edit.on})
  BY <1>1, Told
<1>7. promised' \subseteq Names
  BY <1>3, <1>6, EditsAre, TypedHas
<1>8. Typed'
  BY <1>1, <1>3, <1>5, <1>7, TypedFrom, TypedHas
<1>9. ASSUME Overlap # "free", Alone
      PROVE  Alone' /\ Loaded' = Loaded
  <2>1. /\ Open \subseteq {t} /\ t \in Open /\ Open' \subseteq {t} /\ OneAtATime'
        /\ \A u \in Tasks : u # t => task[u].pc = "idle" /\ task'[u].pc = "idle"
    BY <1>1, <1>5, <1>9, OnlyOne, NoOther DEF Alone
  <2>2. \A u \in Open' : task'[u].pc = "invalidate"
    BY <1>5, <2>1 DEF Open
  <2>3. Renamed'
    BY <1>1, <1>9, <2>2 DEF Alone, Renamed, Loads
  <2>4. mem'.paused = mem.paused /\ (~task[t].changed => mem'.disabled = mem.disabled)
    BY <1>1, <1>9 DEF Alone, Cached
  <2>5. /\ \A c \in Config : probing = <<c>> => c.disabled = mem.disabled /\ c.paused = mem.paused
        /\ slot = "usable" => ~mem.disabled
        /\ slot = "hidden" => mem.disabled \/ mem.paused
    BY <1>1, <1>9, <2>1 DEF Alone, Cached
  <2>6. Cached'
    <3>1. \A u \in GuiTasks : task'[u].pc \notin Saving \union {"adopt"}
      BY <1>5, <2>1 DEF Saving, Tasks
    <3>2. CASE task[t].changed
      <4>1. t \in Open' /\ task'[t].pc = "invalidate"
        BY <1>5, <3>2 DEF Open
      <4> QED
        BY <3>1, <4>1 DEF Cached
    <3>3. CASE ~task[t].changed
      BY <1>1, <2>4, <2>5, <3>1, <3>3 DEF Cached
    <3> QED
      BY <3>2, <3>3
  <2> QED
    BY <1>1, <1>8, <2>1, <2>3, <2>6 DEF Alone, Loaded
<1>10. ASSUME Overlap = "never", InTurn
       PROVE  InTurn'
  <2>1. Alone /\ Alone' /\ Loaded' = Loaded
    BY <1>9, <1>10 DEF InTurn
  <2>2. /\ Open \subseteq {t} /\ t \in Open /\ Open' \subseteq {t}
        /\ \A u \in Tasks : u # t => task[u].pc = "idle" /\ task'[u].pc = "idle"
    BY <1>1, <1>5, <2>1, OnlyOne, NoOther DEF Alone
  <2>3. task[t].new = Loaded
    BY <1>1, <1>10, <2>2 DEF InTurn, Current, Saving
  <2>4. \A u \in Open' : u = t /\ task'[u].pc = "invalidate" /\ task'[u].new = Loaded'
                         /\ task'[u].edit = task[u].edit
    BY <1>5, <2>1, <2>2, <2>3 DEF Open
  <2>5. \A u \in CliTasks : task'[u].pc = "idle"
    BY <1>1, <2>2 DEF Tasks
  <2>6. Current'
    BY <1>1, <2>1, <2>3, <2>4, <2>5 DEF Current, Saving
  <2>7. /\ promised \subseteq Loaded.holds
        /\ task[t].edit.op = "unhold" => task[t].edit.on \notin promised
        /\ task[t].edit.op = "hold" => task[t].edit.on \in Loaded.holds
    BY <1>1, <1>10, <2>2 DEF InTurn, Kept, Saving
  <2>8. /\ promised' \subseteq Loaded'.holds
        /\ task[t].edit.op = "unhold" => task[t].edit.on \notin promised'
    BY <1>6, <2>1, <2>7
  <2>9. Kept'
    BY <2>1, <2>4, <2>7, <2>8 DEF Kept
  <2> QED
    BY <2>1, <2>6, <2>9 DEF InTurn
<1> QED
  BY <1>8, <1>9, <1>10

LEMMA InvalidateKeeps ==
    ASSUME Typed, NEW t \in Tasks, Invalidate(t)
    PROVE  /\ Typed'
           /\ Overlap # "free" /\ Alone => Alone' /\ Loaded' = Loaded
           /\ Overlap = "never" /\ InTurn => InTurn'
<1>1. /\ UNCHANGED <<content, file, tmp, gui, mem, probing, lapsed, promised>>
      /\ task[t].pc = "invalidate" /\ TypeOK /\ probing = Nothing /\ slot' = "empty"
      /\ task' = [task EXCEPT ![t] = Idle]
  BY TypedHas DEF Invalidate, disk
<1>2. /\ task' \in [Tasks -> Command \union {Idle}] /\ task'[t].pc = "idle"
      /\ \A u \in Tasks : u # t => task'[u] = task[u]
  BY <1>1, Ends
<1>3. Typed'
  <2>1. TypeOK'
    BY <1>1, <1>2 DEF TypeOK
  <2>2. Owned'
    BY <1>1, <1>2, TypedHas DEF Owned, Tasks
  <2> QED
    BY <2>1, <2>2 DEF Typed
<1>4. ASSUME Overlap # "free", Alone
      PROVE  Alone' /\ Loaded' = Loaded /\ Open' = {} /\ Open = {t}
  <2>1. /\ Open \subseteq {t} /\ t \in Open /\ Open' \subseteq {t} /\ OneAtATime'
        /\ \A u \in Tasks : u # t => task[u].pc = "idle" /\ task'[u].pc = "idle"
    BY <1>1, <1>2, <1>4, OnlyOne, NoOther DEF Alone
  <2>2. Open' = {}
    BY <1>2, <2>1 DEF Open
  <2>3. Renamed'
    BY <1>1, <1>4, <2>2 DEF Alone, Renamed, Loads
  <2>4. probing' = Nothing /\ \A c \in Config : <<c>> # Nothing
    BY <1>1 DEF Nothing
  <2>5. Cached'
    BY <1>1, <1>2, <2>1, <2>4 DEF Cached, Saving, Tasks
  <2> QED
    BY <1>1, <1>3, <2>1, <2>2, <2>3, <2>5 DEF Alone, Loaded
<1>5. ASSUME Overlap = "never", InTurn
      PROVE  InTurn'
  <2>1. Alone /\ Alone' /\ Loaded' = Loaded /\ Open' = {} /\ Open = {t}
    BY <1>4, <1>5 DEF InTurn
  <2>2. Current'
    BY <1>1, <1>2, <1>5, <2>1 DEF InTurn, Current, Open, Tasks
  <2>3. Kept'
    BY <1>1, <1>5, <2>1 DEF InTurn, Kept
  <2> QED
    BY <2>1, <2>2, <2>3 DEF InTurn
<1> QED
  BY <1>3, <1>4, <1>5

LEMMA ProbeKeeps ==
    ASSUME Typed, ProbeBegin \/ ProbeEnd \/ RefreshBackends \/ DeadlinePasses
    PROVE  /\ Typed'
           /\ Overlap # "free" /\ Alone => Alone' /\ Loaded' = Loaded
           /\ Overlap = "never" /\ InTurn => InTurn'
<1>1. UNCHANGED <<content, file, tmp, gui, mem, task, promised>> /\ lapsed' \in BOOLEAN
      /\ TypeOK /\ Owned /\ mem \in Config
  BY TypedHas DEF ProbeBegin, ProbeEnd, RefreshBackends, DeadlinePasses, disk, app
<1>2. /\ probing' \in {<<c>> : c \in Config} \union {Nothing}
      /\ slot' \in {"empty", "usable", "hidden"}
      /\ probing' # Nothing => gui /\ slot' = "empty"
      /\ slot' # "empty" => gui
  <2>1. CASE ProbeBegin
    BY <1>1, <2>1 DEF ProbeBegin
  <2>2. CASE ProbeEnd
    BY <1>1, <2>2 DEF ProbeEnd, Owned
  <2>3. CASE RefreshBackends
    BY <1>1, <2>3 DEF RefreshBackends, Nothing
  <2>4. CASE DeadlinePasses
    BY <1>1, <2>4 DEF DeadlinePasses, app, TypeOK, Owned
  <2> QED
    BY <2>1, <2>2, <2>3, <2>4
<1>3. Typed'
  BY <1>1, <1>2 DEF Typed, TypeOK, Owned
<1>4. ASSUME Overlap # "free", Alone
      PROVE  Alone' /\ Loaded' = Loaded
  <2>1. OneAtATime' /\ Renamed' /\ Open' = Open
    BY <1>1, <1>4 DEF Alone, OneAtATime, Open, Renamed, Loads
  <2>2. ASSUME \A t \in Open : task[t].pc # "invalidate"
        PROVE  /\ \A c \in Config : probing' = <<c>> => c.disabled = mem.disabled /\ c.paused = mem.paused
               /\ slot' = "usable" => ~mem.disabled
               /\ slot' = "hidden" => mem.disabled \/ mem.paused
    <3>1. /\ \A c \in Config : probing = <<c>> => c.disabled = mem.disabled /\ c.paused = mem.paused
          /\ slot = "usable" => ~mem.disabled
          /\ slot = "hidden" => mem.disabled \/ mem.paused
      BY <1>4, <2>2 DEF Alone, Cached
    <3>2. CASE ProbeBegin
      BY <3>2 DEF ProbeBegin
    <3>3. CASE ProbeEnd
      <4>1. PICK c \in Config : probing = <<c>>
        BY <1>1, <3>3 DEF ProbeEnd, TypeOK
      <4>2. c.disabled = mem.disabled /\ c.paused = mem.paused
        BY <3>1, <4>1
      <4>3. slot' = (IF Enabled(c) THEN "usable" ELSE "hidden") /\ probing' = Nothing
        BY <3>3, <4>1 DEF ProbeEnd
      <4>4. (Enabled(c) => ~c.disabled) /\ (~Enabled(c) => c.disabled \/ c.paused)
        BY DEF Enabled
      <4> QED
        BY <4>2, <4>3, <4>4 DEF Nothing
    <3>4. CASE RefreshBackends
      BY <3>1, <3>4 DEF RefreshBackends
    <3>5. CASE DeadlinePasses
      BY <3>1, <3>5 DEF DeadlinePasses, app
    <3> QED
      BY <3>2, <3>3, <3>4, <3>5
  <2>3. Cached'
    BY <1>1, <1>4, <2>1, <2>2 DEF Alone, Cached
  <2> QED
    BY <1>1, <1>3, <2>1, <2>3 DEF Alone, Loaded
<1>5. ASSUME Overlap = "never", InTurn
      PROVE  InTurn'
  <2>1. Alone /\ Alone' /\ Loaded' = Loaded /\ Open' = Open
    BY <1>1, <1>4, <1>5 DEF InTurn, Open
  <2> QED
    BY <1>1, <1>5, <2>1 DEF InTurn, Current, Kept
<1> QED
  BY <1>3, <1>4, <1>5

\* Without overlap a file is found to be whole, so that no start moves it aside.
LEMMA GuiStartKeeps ==
    ASSUME Typed, GuiStart
    PROVE  /\ Typed'
           /\ Overlap # "free" /\ Alone => Alone' /\ Loaded' = Loaded
           /\ Overlap = "never" /\ InTurn => InTurn'
<1>1. /\ UNCHANGED <<content, tmp, slot, probing, task, lapsed, promised>> /\ ~gui /\ gui' = TRUE
      /\ slot = "empty" /\ probing = Nothing /\ TypeOK
      /\ mem' = IF Loads THEN Loaded ELSE Default
      /\ file' \in {file, NoInode} /\ (Loads => file' = file)
      /\ (Overlap # "free" => Open = {})
  BY TypedHas DEF GuiStart, Owned
<1>2. mem' \in Config
  BY <1>1, LoadsAConfig, TextsAreConfigs
<1>3. Typed'
  <2>1. TypeOK'
    BY <1>1, <1>2 DEF TypeOK
  <2>2. Owned'
    BY <1>1, TypedHas DEF Owned
  <2> QED
    BY <2>1, <2>2 DEF Typed
<1>4. ASSUME Overlap # "free", Alone
      PROVE  Alone' /\ Loaded' = Loaded /\ Open = {} /\ Open' = {} /\ mem' = Loaded
  <2>1. Open = {} /\ Open' = {} /\ file' = file /\ Loads
    BY <1>1, <1>4 DEF Alone, Renamed, Open
  <2>2. OneAtATime' /\ Renamed'
    BY <1>1, <1>4, <2>1 DEF Alone, OneAtATime, Renamed, Loads
  <2>3. \A u \in Tasks : task'[u].pc = "idle"
    BY <1>1, <2>1 DEF Open
  <2>4. \A c \in Config : <<c>> # Nothing
    BY DEF Nothing
  <2>5. Cached'
    BY <1>1, <2>3, <2>4 DEF Cached, Saving, Tasks
  <2> QED
    BY <1>1, <1>3, <2>1, <2>2, <2>5 DEF Alone, Loaded
<1>5. ASSUME Overlap = "never", InTurn
      PROVE  InTurn'
  <2>1. Alone' /\ Loaded' = Loaded /\ Open = {} /\ Open' = {} /\ mem' = Loaded
    BY <1>4, <1>5 DEF InTurn
  <2>2. \A u \in CliTasks : task'[u].pc = "idle"
    BY <1>1, <2>1 DEF Open, Tasks
  <2>3. Current' /\ Kept'
    BY <1>1, <1>5, <2>1, <2>2 DEF InTurn, Current, Kept
  <2> QED
    BY <2>1, <2>3 DEF InTurn
<1> QED
  BY <1>3, <1>4, <1>5

LEMMA GuiStopsKeeps ==
    ASSUME Typed, GuiStops
    PROVE  /\ Typed'
           /\ Overlap # "free" /\ Alone => Alone' /\ Loaded' = Loaded
           /\ Overlap = "never" /\ InTurn => InTurn'
<1>1. /\ UNCHANGED <<content, file, tmp, lapsed, promised>> /\ gui' = FALSE /\ mem' = Default
      /\ slot' = "empty" /\ probing' = Nothing /\ TypeOK /\ Default \in Config /\ gui
      /\ task' = [t \in Tasks |-> IF t \in GuiTasks THEN Idle ELSE task[t]]
  BY TypedHas, TextsAreConfigs DEF GuiStops, disk
<1>2. /\ task' \in [Tasks -> Command \union {Idle}]
      /\ \A t \in GuiTasks : task'[t].pc = "idle"
      /\ \A t \in CliTasks : task'[t] = task[t]
      /\ \A t \in Open' : task'[t] = task[t] /\ t \in Open /\ t \notin GuiTasks
  BY <1>1, TypedHas, TasksAssumption DEF Idle, Open, Tasks
<1>3. Typed'
  <2>1. TypeOK'
    BY <1>1, <1>2 DEF TypeOK
  <2>2. Owned'
    BY <1>1, <1>2, TypedHas DEF Owned
  <2> QED
    BY <2>1, <2>2 DEF Typed
<1>4. ASSUME Overlap # "free", Alone
      PROVE  Alone' /\ Loaded' = Loaded
  <2>1. OneAtATime' /\ Renamed'
    BY <1>1, <1>2, <1>4 DEF Alone, OneAtATime, Renamed, Loads
  <2>2. \A c \in Config : <<c>> # Nothing
    BY DEF Nothing
  <2>3. Cached'
    BY <1>1, <1>2, <2>2 DEF Cached, Saving
  <2> QED
    BY <1>1, <1>3, <2>1, <2>3 DEF Alone, Loaded
<1>5. ASSUME Overlap = "never", InTurn
      PROVE  InTurn'
  <2>1. Alone' /\ Loaded' = Loaded
    BY <1>4, <1>5 DEF InTurn
  <2>2. Open' = {}
    BY <1>1, <1>2, <1>5 DEF InTurn, Current, Open, Tasks
  <2>3. Current' /\ Kept'
    BY <1>1, <1>5, <2>1, <2>2 DEF InTurn, Current, Kept
  <2> QED
    BY <2>1, <2>3 DEF InTurn
<1> QED
  BY <1>3, <1>4, <1>5

-----------------------------------------------------------------------------
LEMMA InitHasAll ==
    ASSUME Init
    PROVE  Typed /\ InTurn /\ promised = {}
<1>1. /\ content = [i \in Inodes |-> Torn] /\ file = NoInode /\ tmp = NoInode
      /\ gui = FALSE /\ mem = Default /\ slot = "empty" /\ probing = Nothing
      /\ task = [t \in Tasks |-> Idle] /\ lapsed = FALSE /\ promised = {} /\ Idle.pc = "idle"
  BY DEF Init, Idle
<1>2. \A t \in Tasks : task[t].pc = "idle"
  BY <1>1
<1>3. Open = {} /\ Loaded = Default /\ Loads
  BY <1>1, <1>2 DEF Open, Loaded, Loads
<1>4. TypeOK
  <2>1. content \in [Inodes -> {Text(c) : c \in Config} \union {Torn}]
    BY <1>1
  <2> QED
    BY <1>1, <2>1, TextsAreConfigs DEF TypeOK
<1>5. Owned
  BY <1>1, <1>2 DEF Owned, Tasks
<1>6. OneAtATime /\ Renamed
  BY <1>1, <1>3 DEF OneAtATime, Renamed
<1>7. \A c \in Config : <<c>> # Nothing
  BY DEF Nothing
<1>8. Cached
  BY <1>1, <1>2, <1>7 DEF Cached, Saving, Tasks
<1>9. Current /\ Kept
  BY <1>1, <1>2, <1>3 DEF Current, Kept, Tasks
<1> QED
  BY <1>1, <1>4, <1>5, <1>6, <1>8, <1>9 DEF Typed, Alone, InTurn

LEMMA NextKeeps ==
    ASSUME Typed, [Next]_vars
    PROVE  /\ Typed'
           /\ Overlap # "free" /\ Alone => Alone'
           /\ Overlap = "never" /\ InTurn =>
                 InTurn' /\ (Loaded' = Loaded \/ \E e \in Edit : Loaded' = Edited(e, Loaded))
<1>1. ASSUME NEW t \in Tasks, NEW e \in GuiEdit, GuiCommand(t, e)
      PROVE  /\ Typed'
             /\ Overlap # "free" /\ Alone => Alone' /\ Loaded' = Loaded
             /\ Overlap = "never" /\ InTurn => InTurn'
  BY <1>1, GuiCommandKeeps
<1>2. ASSUME NEW t \in Tasks, NEW e \in CliEdit, CliCommand(t, e)
      PROVE  /\ Typed'
             /\ Overlap # "free" /\ Alone => Alone' /\ Loaded' = Loaded
             /\ Overlap = "never" /\ InTurn => InTurn'
  BY <1>2, CliCommandKeeps
<1>3. ASSUME NEW t \in Tasks,
             OpenTmp(t) \/ WriteTmp(t) \/ SaveFails(t) \/ CliDies(t) \/ Adopt(t) \/ Invalidate(t)
      PROVE  /\ Typed'
             /\ Overlap # "free" /\ Alone => Alone' /\ Loaded' = Loaded
             /\ Overlap = "never" /\ InTurn => InTurn'
  BY <1>3, OpenTmpKeeps, WriteTmpKeeps, GivingUpKeeps, AdoptKeeps, InvalidateKeeps
<1>4. ASSUME NEW t \in Tasks, Rename(t)
      PROVE  /\ Typed'
             /\ Overlap # "free" /\ Alone => Alone'
             /\ Overlap = "never" /\ InTurn =>
                   InTurn' /\ \E e \in Edit : Loaded' = Edited(e, Loaded)
  BY <1>4, RenameKeeps
<1>5. CASE ProbeBegin \/ ProbeEnd \/ RefreshBackends \/ DeadlinePasses
  BY <1>5, ProbeKeeps DEF InTurn
<1>6. CASE GuiStart \/ GuiStops
  BY <1>6, GuiStartKeeps, GuiStopsKeeps DEF InTurn
<1>7. CASE UNCHANGED vars
  <2>1. Typed' /\ Loaded' = Loaded /\ Open' = Open
    BY <1>7, TypedHas DEF vars, Typed, TypeOK, Owned, Loaded, Open
  <2>2. Alone => Alone'
    BY <1>7, <2>1 DEF vars, Alone, OneAtATime, Renamed, Loads, Cached
  <2>3. InTurn => InTurn'
    BY <1>7, <2>1, <2>2 DEF vars, InTurn, Current, Kept
  <2> QED
    BY <2>1, <2>2, <2>3
<1> QED
  BY <1>1, <1>2, <1>3, <1>4, <1>5, <1>6, <1>7 DEF Next, TaskStep, InTurn

LEMMA TypedIsInvariant == Spec => []Typed
<1>1. Init => Typed
  BY InitHasAll
<1>2. Typed /\ [Next]_vars => Typed'
  BY NextKeeps
<1> QED
  BY <1>1, <1>2, PTL DEF Spec

LEMMA AloneIsInvariant ==
    ASSUME Overlap # "free"
    PROVE  Spec => []Alone
<1>1. Init => Alone
  BY InitHasAll DEF InTurn
<1>2. Typed /\ Alone /\ [Next]_vars => Alone'
  BY NextKeeps
<1> QED
  BY <1>1, <1>2, TypedIsInvariant, PTL DEF Spec

LEMMA InTurnIsInvariant ==
    ASSUME Overlap = "never"
    PROVE  Spec => []InTurn
<1>1. Init => InTurn
  BY InitHasAll
<1>2. Typed /\ InTurn /\ [Next]_vars => InTurn'
  BY NextKeeps
<1> QED
  BY <1>1, <1>2, TypedIsInvariant, PTL DEF Spec

\* However commands overlap: a file holds one whole config or text that is none, a new
\* temporary file always finds an inode, and memory holds a config.
THEOREM ConfigTypeCorrect == Spec => []TypeOK
<1>1. Typed => TypeOK
  BY DEF Typed
<1> QED
  BY <1>1, TypedIsInvariant, PTL

\* Where one command ends before the next begins, the CLI beside an open GUI included,
\* Config::save leaves a config.json that loads, whichever of its calls fails and whichever
\* program dies in it (config.rs:172).
THEOREM NeverTornHolds ==
    ASSUME Overlap # "free"
    PROVE  Spec => []NeverTorn
<1>1. Alone => NeverTorn
  BY DEF Alone, Renamed, NeverTorn
<1> QED
  BY <1>1, AloneIsInvariant, PTL

\* Likewise, AppState::probed_backends serves no probe of another config than the one in
\* memory once the command that changed it has ended.
THEOREM ProbeIsFreshHolds ==
    ASSUME Overlap # "free"
    PROVE  Spec => []ProbeIsFresh
<1>1. Alone => ProbeIsFresh
  <2> SUFFICES ASSUME Alone, Quiet, slot # "empty"
               PROVE  /\ slot = "usable" => ~mem.disabled
                      /\ slot = "hidden" => mem.disabled \/ mem.paused
    BY DEF ProbeIsFresh
  <2>1. \A t \in Open : task[t].pc # "invalidate"
    BY DEF Quiet
  <2> QED
    BY <2>1 DEF Alone, Cached
<1> QED
  BY <1>1, AloneIsInvariant, PTL

\* With one program at a time, what the GUI has in memory is what is in the file whenever no
\* command is under way (state.rs:83).
THEOREM MemoryIsTheFileHolds ==
    ASSUME Overlap = "never"
    PROVE  Spec => []MemoryIsTheFile
<1>1. InTurn => MemoryIsTheFile
  <2> SUFFICES ASSUME InTurn, gui, Open = {}
               PROVE  Loads /\ mem = Loaded
    BY DEF MemoryIsTheFile
  <2>1. Loads
    BY DEF InTurn, Alone, Renamed
  <2>2. mem = Loaded
    BY DEF InTurn, Current
  <2> QED
    BY <2>1, <2>2
<1> QED
  BY <1>1, InTurnIsInvariant, PTL

\* Likewise, a hold the user was told of stays in the file until its lifting is asked for:
\* no failing or dying command drops one (commands.rs:222).
THEOREM HoldsAreKeptHolds ==
    ASSUME Overlap = "never"
    PROVE  Spec => []HoldsAreKept
<1>1. InTurn => HoldsAreKept
  BY DEF InTurn, Kept, HoldsAreKept
<1> QED
  BY <1>1, InTurnIsInvariant, PTL

\* Likewise, the file implements the register of ConfigRegister: every step either leaves
\* its value or is one whole edit of its latest value.
THEOREM StoreActsAsRegister ==
    ASSUME Overlap = "never"
    PROVE  Spec => ActsAsRegister
<1>1. Typed /\ InTurn /\ [Next]_vars => [\E e \in Edit : Loaded' = Edited(e, Loaded)]_Loaded
  BY NextKeeps
<1>2. [\E e \in Edit : Loaded' = Edited(e, Loaded)]_Loaded => [Register!RegisterStep]_Loaded
  BY DEF Register!RegisterStep
<1> QED
  BY <1>1, <1>2, TypedIsInvariant, InTurnIsInvariant, PTL
     DEF Spec, ActsAsRegister, Register!RegisterSpec
=============================================================================
