------------------------ MODULE WindowsUpdateProofs -------------------------
(***************************************************************************)
(* The safety of WindowsUpdate for any updates, backends and numbers of    *)
(* scans and applies.                                                      *)
(***************************************************************************)
EXTENDS WindowsUpdate, TLAPS

Forgetting == {"forgetting, done", "forgetting, failed"}
Queueing   == {"locking", "answered", "refused"} \union Forgetting

\* Whoever is in a queue waits for that lock, and who has an answer holds it.
Locking ==
    /\ \A c \in Criteria : \A i \in DOMAIN queue[c] :
          Lock(queue[c][i]) = c /\ task[queue[c][i]].pc \in Queueing
    /\ \A t \in Tasks : task[t].pc \in {"answered", "refused"} => Holds(t)

\* What an apply that is past the class check is about: one update, which its backend
\* owns, and of the half of Windows Update its lock is for once it was found there.
ChecksOut(call) ==
    /\ call.pc \in {"checking", "installing", "found", "downloaded"} =>
          \E u \in Updates : call.update = {u}
    /\ call.pc \in {"installing", "found", "downloaded"} /\ call.kind # "WindowsDrivers" =>
          \A u \in call.update : Owns(call.kind, u) /\ u.criteria = "Software"
    /\ call.pc \in {"found", "downloaded"} =>
          \A u \in call.update : u.criteria = CriteriaOf(call.kind)

Checked == \A t \in Tasks : ChecksOut(task[t])

\* Lists are of the half that was searched.
ListsAreOfTheirHalf ==
    /\ \A c \in Criteria : slot[c].kept => \A u \in slot[c].list : u.criteria = c
    /\ \A t \in Tasks : task[t].pc = "answered" => \A u \in task[t].list : u.criteria = Lock(t)

\* The apply that made an install has still to drop the shared results.
Unforgotten(i) ==
    /\ task[i.by].pc \in Forgetting
    /\ task[i.by].update = {i.update} /\ Lock(i.by) = i.update.criteria

\* A kept or an arriving answer that names an update.
Named(u) ==
    \/ \E c \in Criteria : slot[c].kept /\ u \in slot[c].list
    \/ \E t \in Tasks : task[t].pc = "answered" /\ u \in task[t].list

\* Such an answer names what was installed only while its apply is still to drop it.
Dropped == \A i \in installs : i.update \in present /\ (Named(i.update) => Unforgotten(i))

\* And it never names what had been installed and dropped before a scan began.
Fresh ==
    \A s \in Tasks : \A u \in task[s].before :
        /\ u \in present /\ ~Named(u)
        /\ task[s].pc = "listed" => u \notin task[s].list

Inv ==
    /\ TypeOK /\ Locking /\ Checked /\ ListsAreOfTheirHalf /\ Dropped /\ Fresh
    /\ InstalledByItsOwner

-----------------------------------------------------------------------------
LEMMA TaskIsTyped ==
    ASSUME TypeOK, NEW t \in Tasks
    PROVE  /\ task[t] \in [kind : Kinds, pc : TaskStates, update : SUBSET Updates,
                            list : SUBSET Updates, before : SUBSET Updates]
           /\ task[t].kind \in Kinds /\ Lock(t) \in Criteria /\ task[t].pc \in TaskStates
           /\ task[t].update \subseteq Updates /\ task[t].list \subseteq Updates
           /\ task[t].before \subseteq Updates
           /\ queue[Lock(t)] \in Seq(Tasks)
BY DEF TypeOK, Lock, CriteriaOf, Criteria

LEMMA SlotIsTyped ==
    ASSUME TypeOK, NEW c \in Criteria
    PROVE  /\ slot[c].kept \in BOOLEAN
           /\ slot[c].kept => slot[c].list \in SUBSET Updates /\ slot[c].young \in BOOLEAN
                              /\ slot[c] = Kept(slot[c].list, slot[c].young)
<1>1. \/ slot[c] = NoResult
      \/ \E list \in SUBSET Updates, young \in BOOLEAN : slot[c] = Kept(list, young)
  BY DEF TypeOK, SlotStates
<1>2. ASSUME slot[c] = NoResult PROVE slot[c].kept = FALSE
  BY <1>2 DEF NoResult
<1>3. ASSUME NEW list \in SUBSET Updates, NEW young \in BOOLEAN, slot[c] = Kept(list, young)
      PROVE  slot[c].kept = TRUE /\ slot[c].list = list /\ slot[c].young = young
  BY <1>3 DEF Kept
<1> QED
  BY <1>1, <1>2, <1>3

LEMMA KeptIsASlot ==
    ASSUME NEW list \in SUBSET Updates, NEW young \in BOOLEAN
    PROVE  /\ Kept(list, young) \in SlotStates /\ NoResult \in SlotStates
           /\ Kept(list, young).kept = TRUE /\ Kept(list, young).list = list
           /\ NoResult.kept = FALSE
<1>1. \E l \in SUBSET Updates, y \in BOOLEAN : Kept(list, young) = Kept(l, y)
  OBVIOUS
<1>2. Kept(list, young) \in SlotStates /\ NoResult \in SlotStates
  BY <1>1 DEF SlotStates
<1> QED
  BY <1>2 DEF Kept, NoResult

\* Growing old is all that happens to a kept answer.
LEMMA KeptGrowsOld ==
    ASSUME NEW list, NEW young, NEW x, x = Kept(list, young), NEW old, old = FALSE
    PROVE  [x EXCEPT !.young = old] = Kept(list, FALSE)
<1> DEFINE aged == [x EXCEPT !.young = old]
<1>1. DOMAIN x = {"kept", "list", "young"} /\ DOMAIN Kept(list, FALSE) = {"kept", "list", "young"}
  BY DEF Kept
<1>2. DOMAIN aged = DOMAIN x
  OBVIOUS
<1>3. \A f \in DOMAIN x : aged[f] = Kept(list, FALSE)[f]
  <2>1. aged["kept"] = x["kept"] /\ aged["list"] = x["list"] /\ aged["young"] = old
    BY <1>1
  <2>2. x["kept"] = Kept(list, FALSE)["kept"]
    BY DEF Kept
  <2>3. x["list"] = Kept(list, FALSE)["list"]
    BY DEF Kept
  <2>4. old = Kept(list, FALSE)["young"]
    BY DEF Kept
  <2> QED
    BY <1>1, <2>1, <2>2, <2>3, <2>4
<1>4. aged = [f \in DOMAIN x |-> aged[f]]
  OBVIOUS
<1>5. Kept(list, FALSE) = [f \in DOMAIN x |-> Kept(list, FALSE)[f]]
  BY <1>1 DEF Kept
<1> QED
  BY <1>3, <1>4, <1>5

LEMMA SearchesAreTyped ==
    ASSUME TypeOK, NEW c \in Criteria, NEW answer \in Searches(c)
    PROVE  /\ answer.ok \in BOOLEAN /\ answer.list \subseteq offered /\ answer.list \subseteq Updates
           /\ \A u \in answer.list : u.criteria = c
<1>1. \/ \E found \in SUBSET {u \in offered : u.criteria = c} : answer = [ok |-> TRUE, list |-> found]
      \/ answer = [ok |-> FALSE, list |-> {}]
  BY DEF Searches
<1>2. ASSUME NEW found \in SUBSET {u \in offered : u.criteria = c},
             answer = [ok |-> TRUE, list |-> found]
      PROVE  answer.ok = TRUE /\ answer.list = found
  BY <1>2
<1>3. ASSUME answer = [ok |-> FALSE, list |-> {}]
      PROVE  answer.ok = FALSE /\ answer.list = {}
  BY <1>3
<1>4. answer.ok \in BOOLEAN /\ answer.list \in SUBSET {u \in offered : u.criteria = c}
  BY <1>1, <1>2, <1>3
<1>5. offered \subseteq Updates
  BY DEF TypeOK
<1> QED
  BY <1>4, <1>5

\* The head of a queue leaves it, and nobody else moves.
LEMMA TailOfQueue ==
    ASSUME NEW q \in Seq(Tasks), q # <<>>, NEW t, Head(q) = t,
           \A i, j \in DOMAIN q : q[i] = q[j] => i = j
    PROVE  /\ Tail(q) \in Seq(Tasks)
           /\ \A i, j \in DOMAIN Tail(q) : Tail(q)[i] = Tail(q)[j] => i = j
           /\ \A i \in DOMAIN Tail(q) : Tail(q)[i] # t /\ \E j \in DOMAIN q : Tail(q)[i] = q[j]
<1>1. Len(q) \in Nat /\ Len(q) >= 1 /\ DOMAIN q = 1..Len(q) /\ q[1] = t
  OBVIOUS
<1>2. /\ Tail(q) \in Seq(Tasks) /\ DOMAIN Tail(q) = 1..(Len(q) - 1)
      /\ \A i \in 1..(Len(q) - 1) : Tail(q)[i] = q[i + 1]
  BY <1>1
<1> QED
  BY <1>1, <1>2

\* Somebody who is not in a queue joins it at its end.
LEMMA EndOfQueue ==
    ASSUME NEW q \in Seq(Tasks), NEW t \in Tasks, \A i \in DOMAIN q : q[i] # t,
           \A i, j \in DOMAIN q : q[i] = q[j] => i = j
    PROVE  /\ Append(q, t) \in Seq(Tasks)
           /\ \A i, j \in DOMAIN Append(q, t) : Append(q, t)[i] = Append(q, t)[j] => i = j
           /\ \A i \in DOMAIN Append(q, t) :
                 Append(q, t)[i] = t \/ \E j \in DOMAIN q : Append(q, t)[i] = q[j]
           /\ q # <<>> => Append(q, t) # <<>> /\ Head(Append(q, t)) = Head(q)
<1>1. /\ Len(q) \in Nat /\ DOMAIN q = 1..Len(q) /\ DOMAIN Append(q, t) = 1..(Len(q) + 1)
      /\ Append(q, t)[Len(q) + 1] = t /\ \A i \in 1..Len(q) : Append(q, t)[i] = q[i]
      /\ Append(q, t) \in Seq(Tasks)
  OBVIOUS
<1>2. q # <<>> => Head(Append(q, t)) = Head(q) /\ Append(q, t) # <<>>
  BY <1>1
<1> QED
  BY <1>1, <1>2

-----------------------------------------------------------------------------
(* A step of one task, by what it does to the locks.                       *)

Calls == [kind : Kinds, pc : TaskStates, update : SUBSET Updates, list : SUBSET Updates,
          before : SUBSET Updates]

Becomes(t, new) == new \in Calls /\ task' = [task EXCEPT ![t] = new]

LEMMA OthersStay ==
    ASSUME TypeOK, NEW t \in Tasks, NEW new, Becomes(t, new)
    PROVE  /\ task' \in [Tasks -> Calls] /\ task'[t] = new
           /\ \A s \in Tasks : s # t => task'[s] = task[s]
           /\ \A s \in Tasks : s # t => (Lock(s))' = Lock(s)
           /\ (Lock(t))' = CriteriaOf(new.kind)
BY DEF TypeOK, Becomes, Calls, Lock

\* The queues stay, and the task is in none of them or goes on waiting.
LEMMA LockingStays ==
    ASSUME TypeOK, Locking, NEW t \in Tasks, NEW new, Becomes(t, new), queue' = queue,
           \/ task[t].pc \notin Queueing /\ new.pc \notin {"answered", "refused"}
           \/ task[t].pc = "locking" /\ Holds(t) /\ new.pc \in Queueing /\ new.kind = task[t].kind
    PROVE  Locking'
<1>1. \A c \in Criteria : \A i \in DOMAIN queue[c] : queue[c][i] \in Tasks
  BY DEF TypeOK
<1>2. ASSUME NEW c \in Criteria, NEW i \in DOMAIN queue[c]
      PROVE  (Lock(queue[c][i]))' = c /\ task'[queue[c][i]].pc \in Queueing
  BY <1>1, OthersStay DEF Locking, Lock
<1>3. ASSUME NEW s \in Tasks, task'[s].pc \in {"answered", "refused"}
      PROVE  (Holds(s))'
  <2>1. CASE s # t
    <3>1. Holds(s)
      BY <1>3, <2>1, OthersStay DEF Locking
    <3> QED
      BY <2>1, <3>1, OthersStay DEF Holds
  <2>2. CASE s = t
    BY <1>3, <2>2, OthersStay DEF Holds, Lock
  <2> QED
    BY <2>1, <2>2
<1> QED
  BY <1>2, <1>3 DEF Locking

\* The task was first in its queue and leaves it.
LEMMA LockingReleased ==
    ASSUME TypeOK, Locking, NEW t \in Tasks, NEW new, Becomes(t, new), Holds(t), Release(t),
           new.pc \notin {"answered", "refused"}
    PROVE  /\ Locking' /\ queue' \in [Criteria -> Seq(Tasks)]
           /\ \A c \in Criteria : \A i, j \in DOMAIN queue'[c] : queue'[c][i] = queue'[c][j] => i = j
<1> DEFINE own == Lock(t)
<1>1. own \in Criteria /\ queue[own] \in Seq(Tasks) /\ queue[own] # <<>> /\ Head(queue[own]) = t
  BY TaskIsTyped DEF Holds
<1>2. \A i, j \in DOMAIN queue[own] : queue[own][i] = queue[own][j] => i = j
  BY <1>1 DEF TypeOK
<1>3. /\ Tail(queue[own]) \in Seq(Tasks)
      /\ \A i, j \in DOMAIN Tail(queue[own]) : Tail(queue[own])[i] = Tail(queue[own])[j] => i = j
      /\ \A i \in DOMAIN Tail(queue[own]) :
            Tail(queue[own])[i] # t /\ \E j \in DOMAIN queue[own] : Tail(queue[own])[i] = queue[own][j]
  BY <1>1, <1>2, TailOfQueue
<1>4. queue' = [queue EXCEPT ![own] = Tail(queue[own])] /\ queue \in [Criteria -> Seq(Tasks)]
  BY DEF Release, TypeOK
<1>5. queue' \in [Criteria -> Seq(Tasks)]
  BY <1>1, <1>3, <1>4
<1>6. \A c \in Criteria : \A i, j \in DOMAIN queue'[c] : queue'[c][i] = queue'[c][j] => i = j
  BY <1>1, <1>3, <1>4 DEF TypeOK
<1>7. ASSUME NEW c \in Criteria, NEW i \in DOMAIN queue'[c]
      PROVE  /\ queue'[c][i] \in Tasks /\ queue'[c][i] # t
             /\ \E j \in DOMAIN queue[c] : queue'[c][i] = queue[c][j]
  <2>1. CASE c = own
    BY <1>1, <1>3, <1>4, <2>1, queue'[c] \in Seq(Tasks)
  <2>2. CASE c # own
    <3>1. queue'[c] = queue[c] /\ queue[c][i] \in Tasks
      BY <1>4, <2>2
    <3>2. queue[c][i] # t
      BY <2>2, <3>1 DEF Locking
    <3> QED
      BY <3>1, <3>2
  <2> QED
    BY <2>1, <2>2
<1>8. ASSUME NEW c \in Criteria, NEW i \in DOMAIN queue'[c]
      PROVE  (Lock(queue[c][i]))' = c /\ task'[queue'[c][i]].pc \in Queueing
  <2>1. PICK j \in DOMAIN queue[c] : queue'[c][i] = queue[c][j]
    BY <1>7
  <2> QED
    BY <1>7, <2>1, OthersStay DEF Locking, Lock
<1>9. ASSUME NEW s \in Tasks, task'[s].pc \in {"answered", "refused"}
      PROVE  (Holds(s))'
  <2>1. s # t /\ Holds(s)
    BY <1>9, OthersStay DEF Locking
  <2>2. Lock(s) # own
    BY <1>1, <2>1 DEF Holds
  <2> QED
    BY <1>1, <1>4, <2>1, <2>2, OthersStay DEF Holds
<1> QED
  BY <1>5, <1>6, <1>8, <1>9 DEF Locking

\* The task is in no queue and joins that of its lock.
LEMMA LockingJoined ==
    ASSUME TypeOK, Locking, NEW t \in Tasks, NEW new, Becomes(t, new),
           NEW own \in Criteria, own = CriteriaOf(new.kind), new.pc \in {"locking"} \union Forgetting,
           \A c \in Criteria : \A i \in DOMAIN queue[c] : queue[c][i] # t,
           queue' = [queue EXCEPT ![own] = Append(queue[own], t)]
    PROVE  /\ Locking' /\ queue' \in [Criteria -> Seq(Tasks)]
           /\ \A c \in Criteria : \A i, j \in DOMAIN queue'[c] : queue'[c][i] = queue'[c][j] => i = j
<1>1. queue \in [Criteria -> Seq(Tasks)]
  BY DEF TypeOK
<1>2. \A i, j \in DOMAIN queue[own] : queue[own][i] = queue[own][j] => i = j
  BY DEF TypeOK
<1>3. /\ Append(queue[own], t) \in Seq(Tasks)
      /\ \A i, j \in DOMAIN Append(queue[own], t) :
            Append(queue[own], t)[i] = Append(queue[own], t)[j] => i = j
      /\ \A i \in DOMAIN Append(queue[own], t) :
            \/ Append(queue[own], t)[i] = t
            \/ \E j \in DOMAIN queue[own] : Append(queue[own], t)[i] = queue[own][j]
      /\ queue[own] # <<>> => /\ Append(queue[own], t) # <<>>
                              /\ Head(Append(queue[own], t)) = Head(queue[own])
  BY <1>1, <1>2, EndOfQueue
<1>4. queue' \in [Criteria -> Seq(Tasks)] /\ queue'[own] = Append(queue[own], t)
      /\ \A c \in Criteria : c # own => queue'[c] = queue[c]
  BY <1>1, <1>3
<1>5. \A c \in Criteria : \A i, j \in DOMAIN queue'[c] : queue'[c][i] = queue'[c][j] => i = j
  BY <1>3, <1>4 DEF TypeOK
<1>6. ASSUME NEW c \in Criteria, NEW i \in DOMAIN queue'[c]
      PROVE  \/ queue'[c][i] = t /\ c = own
             \/ \E j \in DOMAIN queue[c] : queue'[c][i] = queue[c][j] /\ queue[c][j] \in Tasks
  BY <1>1, <1>3, <1>4
<1>7. ASSUME NEW c \in Criteria, NEW i \in DOMAIN queue'[c]
      PROVE  (Lock(queue[c][i]))' = c /\ task'[queue'[c][i]].pc \in Queueing
  <2>1. CASE queue'[c][i] = t /\ c = own
    BY <2>1, OthersStay DEF Lock, Queueing
  <2>2. ASSUME NEW j \in DOMAIN queue[c], queue'[c][i] = queue[c][j], queue[c][j] \in Tasks
        PROVE  (Lock(queue[c][i]))' = c /\ task'[queue'[c][i]].pc \in Queueing
    BY <2>2, OthersStay DEF Locking, Lock
  <2> QED
    BY <1>6, <2>1, <2>2
<1>8. ASSUME NEW s \in Tasks, task'[s].pc \in {"answered", "refused"}
      PROVE  (Holds(s))'
  <2>1. s # t /\ Holds(s) /\ (Lock(s))' = Lock(s)
    BY <1>8, OthersStay DEF Locking, Forgetting
  <2> QED
    BY <1>3, <1>4, <2>1, TaskIsTyped DEF Holds
<1> QED
  BY <1>4, <1>5, <1>7, <1>8 DEF Locking

-----------------------------------------------------------------------------
(* A step of one task, by what it does to what is known.                   *)

LEMMA CheckedStays ==
    ASSUME TypeOK, Checked, NEW t \in Tasks, NEW new, Becomes(t, new), ChecksOut(new)
    PROVE  Checked'
<1>1. \A s \in Tasks : ChecksOut(task'[s])
  BY OthersStay DEF Checked
<1> QED
  BY <1>1 DEF Checked, ChecksOut

LEMMA NamedStays ==
    ASSUME TypeOK, NEW t \in Tasks, NEW new, Becomes(t, new), slot' = slot,
           new.pc = "answered" => new.list \subseteq offered,
           NEW u \in present, (Named(u))'
    PROVE  Named(u)
<1>1. u \notin offered
  BY DEF TypeOK
<1>2. CASE \E c \in Criteria : slot'[c].kept /\ u \in slot'[c].list
  BY <1>2 DEF Named
<1>3. CASE \E s \in Tasks : task'[s].pc = "answered" /\ u \in task'[s].list
  BY <1>1, <1>3, OthersStay DEF Named
<1> QED
  BY <1>2, <1>3 DEF Named

LEMMA HalvesStay ==
    ASSUME TypeOK, ListsAreOfTheirHalf, NEW t \in Tasks, NEW new, Becomes(t, new), slot' = slot,
           new.pc = "answered" => \A u \in new.list : u.criteria = CriteriaOf(new.kind)
    PROVE  ListsAreOfTheirHalf'
<1>1. ASSUME NEW s \in Tasks, task'[s].pc = "answered"
      PROVE  \A u \in task'[s].list : u.criteria = (Lock(s))'
  BY <1>1, OthersStay DEF ListsAreOfTheirHalf
<1> QED
  BY <1>1 DEF ListsAreOfTheirHalf

LEMMA DroppedStays ==
    ASSUME TypeOK, Dropped, NEW t \in Tasks, NEW new, Becomes(t, new), installs' = installs,
           present \subseteq present', \A u \in present : (Named(u))' => Named(u),
           task[t].pc \in Forgetting =>
              /\ new.pc \in Forgetting
              /\ new.update = task[t].update /\ new.kind = task[t].kind
    PROVE  Dropped'
<1>1. ASSUME NEW i \in installs
      PROVE  i.update \in present' /\ ((Named(i.update))' => (Unforgotten(i))')
  <2>1. i.update \in present /\ (Named(i.update) => Unforgotten(i)) /\ i.by \in Tasks
    BY DEF Dropped, TypeOK, Tasks
  <2>2. Unforgotten(i) => (Unforgotten(i))'
    BY <2>1, OthersStay DEF Unforgotten, Lock
  <2> QED
    BY <2>1, <2>2
<1> QED
  BY <1>1 DEF Dropped

LEMMA FreshStays ==
    ASSUME TypeOK, Fresh, NEW t \in Tasks, NEW new, Becomes(t, new),
           present \subseteq present', \A u \in present : (Named(u))' => Named(u),
           \A u \in new.before : u \in present /\ ~Named(u),
           new.pc = "listed" => \A u \in new.list : Named(u)
    PROVE  Fresh'
<1>1. ASSUME NEW s \in Tasks, NEW u \in task'[s].before
      PROVE  u \in present' /\ ~(Named(u))' /\ (task'[s].pc = "listed" => u \notin task'[s].list)
  <2>1. u \in present /\ ~Named(u)
    BY OthersStay DEF Fresh
  <2>2. task'[s].pc = "listed" => u \notin task'[s].list
    BY <2>1, OthersStay DEF Fresh
  <2> QED
    BY <2>1, <2>2
<1> QED
  BY <1>1 DEF Fresh

\* The ways a step rewrites a task: it moves on, it answers with a list, it is over.
Moved(call, pc)          == [call EXCEPT !.pc = pc]
Answering(call, pc, list) == [call EXCEPT !.pc = pc, !.list = list]

LEMMA MovesOn ==
    ASSUME TypeOK, NEW t \in Tasks, NEW pc \in TaskStates, To(t, pc)
    PROVE  LET new == Moved(task[t], pc)
           IN  /\ Becomes(t, new) /\ new.pc = pc /\ new.kind = task[t].kind
               /\ new.update = task[t].update /\ new.list = task[t].list
               /\ new.before = task[t].before
<1>1. task[t] \in Calls
  BY TaskIsTyped DEF Calls
<1> QED
  BY <1>1 DEF Calls, Moved, To, Becomes

LEMMA AnswersWith ==
    ASSUME TypeOK, NEW t \in Tasks, NEW pc \in TaskStates, NEW list \in SUBSET Updates,
           task' = [task EXCEPT ![t].pc = pc, ![t].list = list]
    PROVE  LET new == Answering(task[t], pc, list)
           IN  /\ Becomes(t, new) /\ new.pc = pc /\ new.kind = task[t].kind
               /\ new.update = task[t].update /\ new.list = list
               /\ new.before = task[t].before
<1> DEFINE new == Answering(task[t], pc, list)
<1>1. task[t] \in Calls /\ task \in [Tasks -> Calls]
  BY TaskIsTyped DEF Calls, TypeOK
<1>2. task' = [task EXCEPT ![t] = new]
  BY <1>1 DEF Calls, Answering
<1> QED
  BY <1>1, <1>2 DEF Calls, Answering, Becomes

LEMMA Finishes ==
    ASSUME TypeOK, NEW t \in Tasks, End(t)
    PROVE  /\ Becomes(t, Idle) /\ Idle.pc = "idle" /\ Idle.before = {} /\ Idle.list = {}
           /\ Idle.update = {} /\ Idle.kind \in Kinds
<1>1. Idle \in Calls /\ Idle.pc = "idle" /\ Idle.before = {} /\ Idle.list = {} /\ Idle.update = {}
  BY DEF Idle, Call, Calls, Kinds, TaskStates
<1> QED
  BY <1>1 DEF Becomes, End, Calls

\* A step that touches only its own task, and neither asks nor lists nor waits.
LEMMA QuietStep ==
    ASSUME Inv, NEW t \in Tasks, NEW new, Becomes(t, new), UNCHANGED <<shared, windows, installs>>,
           task[t].pc \notin Queueing, new.pc \notin {"answered", "refused", "listed"},
           new.before \subseteq task[t].before, ChecksOut(new)
    PROVE  Inv'
<1> USE DEF shared, windows
<1>0. TypeOK /\ Locking /\ Checked /\ ListsAreOfTheirHalf /\ Dropped /\ Fresh
  BY DEF Inv
<1>1. TypeOK'
  BY <1>0, OthersStay DEF TypeOK, Calls
<1>2. Locking'
  BY <1>0, LockingStays
<1>3. Checked'
  BY <1>0, CheckedStays
<1>4. ListsAreOfTheirHalf'
  BY <1>0, HalvesStay
<1>5. \A u \in present : (Named(u))' => Named(u)
  BY <1>0, NamedStays
<1>6. Dropped'
  BY <1>0, <1>5, DroppedStays DEF Queueing
<1>7. Fresh'
  <2>1. present \subseteq present'
    OBVIOUS
  <2>2. \A u \in new.before : u \in present /\ ~Named(u)
    BY <1>0 DEF Fresh
  <2>3. new.pc = "listed" => \A u \in new.list : Named(u)
    OBVIOUS
  <2> QED
    BY <1>0, <1>5, <2>1, <2>2, <2>3, FreshStays
<1>8. InstalledByItsOwner'
  BY DEF Inv, InstalledByItsOwner
<1> QED
  BY <1>1, <1>2, <1>3, <1>4, <1>6, <1>7, <1>8 DEF Inv

-----------------------------------------------------------------------------
(* The quiet steps.                                                        *)

LEMMA EndScanKeepsInv ==
    ASSUME Inv, NEW t \in Tasks, EndScan(t) \/ EndApply(t)
    PROVE  Inv'
<1>1. TypeOK /\ End(t) /\ UNCHANGED <<shared, windows, installs>>
      /\ task[t].pc \notin Queueing
  BY DEF Inv, EndScan, EndApply, Queueing, Forgetting
<1>2. Becomes(t, Idle) /\ Idle.pc = "idle" /\ Idle.before = {}
  BY <1>1, Finishes
<1> QED
  BY <1>1, <1>2, QuietStep DEF ChecksOut

LEMMA BeginApplyKeepsInv ==
    ASSUME Inv, NEW t \in Applies, NEW kind \in Backends, NEW u \in Updates,
           BeginApply(t, kind, u)
    PROVE  Inv'
<1> DEFINE first == IF kind = "WindowsDrivers" THEN "installing" ELSE "checking"
           new   == [Call(kind, first) EXCEPT !.update = {u}]
<1>1. kind \in Kinds /\ t \in Tasks
  BY BackendsAssumption DEF Tasks
<1>2. /\ new.pc = first /\ new.kind = kind /\ new.update = {u} /\ new.before = {}
      /\ new \in Calls
  BY <1>1 DEF Call, Calls, TaskStates
<1>3. Becomes(t, new) /\ UNCHANGED <<shared, windows, installs>> /\ task[t].pc \notin Queueing
  BY <1>2 DEF BeginApply, Becomes, Queueing, Forgetting
<1>4. ChecksOut(new)
  BY <1>2 DEF ChecksOut
<1>5. new.pc \notin {"answered", "refused", "listed"} /\ new.before \subseteq task[t].before
  BY <1>2
<1> HIDE DEF new
<1> QED
  BY <1>1, <1>3, <1>4, <1>5, QuietStep

\* A found update is the one the candidate named, in the half that was searched.
LEMMA FoundIsTheOne ==
    ASSUME TypeOK, Checked, NEW t \in Tasks, NEW c \in Criteria, NEW answer \in Searches(c),
           task[t].pc \in {"checking", "installing"}, task[t].update \cap answer.list # {}
    PROVE  \E u \in Updates : task[t].update = {u} /\ u.criteria = c
<1>1. PICK u \in Updates : task[t].update = {u}
  BY DEF Checked, ChecksOut
<1>2. u \in answer.list
  BY <1>1
<1> QED
  BY <1>1, <1>2, SearchesAreTyped

LEMMA CheckOwnerKeepsInv ==
    ASSUME Inv, NEW t \in Tasks, CheckOwner(t)
    PROVE  Inv'
<1>1. TypeOK /\ Checked /\ UNCHANGED <<shared, windows, installs>> /\ task[t].pc = "checking"
  BY DEF Inv, CheckOwner
<1>2. PICK answer \in Searches("Software") :
         LET mine == {u \in answer.list : u \in task[t].update /\ Owns(task[t].kind, u)}
         IN  IF mine # {} THEN To(t, "installing") ELSE End(t)
  BY DEF CheckOwner
<1> DEFINE mine == {u \in answer.list : u \in task[t].update /\ Owns(task[t].kind, u)}
<1>3. CASE mine # {}
  <2>1. task[t].update \cap answer.list # {} /\ To(t, "installing")
    BY <1>2, <1>3
  <2>2. PICK u \in Updates : task[t].update = {u} /\ u.criteria = "Software"
    BY <1>1, <2>1, FoundIsTheOne DEF Criteria
  <2>3. Owns(task[t].kind, u)
    BY <1>3, <2>2
  <2> DEFINE new == Moved(task[t], "installing")
  <2>4. /\ Becomes(t, new) /\ new.pc = "installing" /\ new.kind = task[t].kind
        /\ new.update = task[t].update /\ new.before = task[t].before
    BY <1>1, <2>1, MovesOn DEF TaskStates
  <2>5. ChecksOut(new)
    BY <2>2, <2>3, <2>4 DEF ChecksOut
  <2> QED
    BY <1>1, <2>4, <2>5, QuietStep DEF Queueing, Forgetting
<1>4. CASE mine = {}
  <2>1. Becomes(t, Idle) /\ Idle.pc = "idle" /\ Idle.before = {}
    BY <1>1, <1>2, <1>4, Finishes
  <2> QED
    BY <1>1, <2>1, QuietStep DEF ChecksOut, Queueing, Forgetting
<1> QED
  BY <1>3, <1>4

LEMMA FindAgainKeepsInv ==
    ASSUME Inv, NEW t \in Tasks, FindAgain(t)
    PROVE  Inv'
<1>1. TypeOK /\ Checked /\ UNCHANGED <<shared, windows, installs>> /\ task[t].pc = "installing"
      /\ Lock(t) \in Criteria
  BY TaskIsTyped DEF Inv, FindAgain
<1>2. PICK answer \in Searches(Lock(t)) :
         To(t, IF task[t].update \cap answer.list # {} THEN "found" ELSE "forgetting, failed")
  BY DEF FindAgain
<1>3. CASE task[t].update \cap answer.list # {}
  <2>1. To(t, "found")
    BY <1>2, <1>3
  <2>2. PICK u \in Updates : task[t].update = {u} /\ u.criteria = Lock(t)
    BY <1>1, <1>3, FoundIsTheOne
  <2> DEFINE new == Moved(task[t], "found")
  <2>3. /\ Becomes(t, new) /\ new.pc = "found" /\ new.kind = task[t].kind
        /\ new.update = task[t].update /\ new.before = task[t].before
    BY <1>1, <2>1, MovesOn DEF TaskStates
  <2>4. ChecksOut(new)
    BY <1>1, <2>2, <2>3 DEF ChecksOut, Checked, Lock
  <2> QED
    BY <1>1, <2>3, <2>4, QuietStep DEF Queueing, Forgetting
<1>4. CASE ~(task[t].update \cap answer.list # {})
  <2> DEFINE new == Moved(task[t], "forgetting, failed")
  <2>1. /\ Becomes(t, new) /\ new.pc = "forgetting, failed" /\ new.before = task[t].before
    BY <1>1, <1>2, <1>4, MovesOn DEF TaskStates
  <2> QED
    BY <1>1, <2>1, QuietStep DEF ChecksOut, Queueing, Forgetting
<1> QED
  BY <1>3, <1>4

LEMMA FetchKeepsInv ==
    ASSUME Inv, NEW t \in Tasks, Fetch(t)
    PROVE  Inv'
<1>1. TypeOK /\ Checked /\ UNCHANGED <<shared, windows, installs>> /\ task[t].pc = "found"
  BY DEF Inv, Fetch
<1>2. PICK next \in {"downloaded", "forgetting, failed"} : To(t, next)
  BY DEF Fetch
<1> next \in TaskStates
  BY DEF TaskStates
<1> DEFINE new == Moved(task[t], next)
<1>3. /\ Becomes(t, new) /\ new.pc = next /\ new.kind = task[t].kind
      /\ new.update = task[t].update /\ new.before = task[t].before
  BY <1>1, <1>2, MovesOn
<1>4. ChecksOut(new)
  BY <1>1, <1>3 DEF ChecksOut, Checked
<1> QED
  BY <1>1, <1>3, <1>4, QuietStep DEF Queueing, Forgetting

LEMMA ConfirmKeepsInv ==
    ASSUME Inv, NEW t \in Tasks, Confirm(t)
    PROVE  Inv'
<1>1. TypeOK /\ UNCHANGED <<shared, windows, installs>> /\ task[t].pc = "confirming"
      /\ (To(t, "confirmed") \/ End(t))
  BY DEF Inv, Confirm
<1>2. CASE To(t, "confirmed")
  <2> DEFINE new == Moved(task[t], "confirmed")
  <2>1. /\ Becomes(t, new) /\ new.pc = "confirmed" /\ new.before = task[t].before
    BY <1>1, <1>2, MovesOn DEF TaskStates
  <2> QED
    BY <1>1, <2>1, QuietStep DEF ChecksOut, Queueing, Forgetting
<1>3. CASE End(t)
  <2>1. Becomes(t, Idle) /\ Idle.pc = "idle" /\ Idle.before = {}
    BY <1>1, <1>3, Finishes
  <2> QED
    BY <1>1, <2>1, QuietStep DEF ChecksOut, Queueing, Forgetting
<1> QED
  BY <1>1, <1>2, <1>3

-----------------------------------------------------------------------------
(* The steps that use the shared search.                                   *)

\* Types, when nothing is offered, withdrawn or installed.
LEMMA TypesStay ==
    ASSUME TypeOK, NEW t \in Tasks, NEW new, Becomes(t, new), UNCHANGED <<windows, installs>>,
           slot' \in [Criteria -> SlotStates],
           queue' \in [Criteria -> Seq(Tasks)],
           \A c \in Criteria : \A i, j \in DOMAIN queue'[c] : queue'[c][i] = queue'[c][j] => i = j
    PROVE  TypeOK'
BY OthersStay DEF TypeOK, Calls, windows

LEMMA BeginScanKeepsInv ==
    ASSUME Inv, NEW t \in Tasks, NEW kind \in Backends, BeginScan(t, kind)
    PROVE  Inv'
<1> DEFINE own == CriteriaOf(kind)
           new == [Call(kind, "locking") EXCEPT !.before = Settled(own)]
<1>0. TypeOK /\ Locking /\ Checked /\ ListsAreOfTheirHalf /\ Dropped /\ Fresh
  BY DEF Inv
<1>1. kind \in Kinds /\ own \in Criteria
  BY BackendsAssumption DEF CriteriaOf, Criteria
<1>2. Settled(own) \subseteq present /\ present \subseteq Updates
  BY <1>0 DEF Settled, TypeOK
<1>3. /\ new.pc = "locking" /\ new.kind = kind /\ new.before = Settled(own) /\ new.update = {}
      /\ new \in Calls
  BY <1>1, <1>2 DEF Call, Calls, TaskStates
<1>4. task' = [task EXCEPT ![t] = new] /\ task[t].pc = "idle"
  BY DEF BeginScan
<1>5. queue' = [queue EXCEPT ![own] = Append(queue[own], t)]
      /\ UNCHANGED <<slot, windows, installs>>
  BY DEF BeginScan
<1> HIDE DEF new
<1>6. Becomes(t, new)
  BY <1>3, <1>4 DEF Becomes
<1>7. \A c \in Criteria : \A i \in DOMAIN queue[c] : queue[c][i] # t
  BY <1>0, <1>4 DEF Locking, Queueing, Forgetting
<1>8. /\ Locking' /\ queue' \in [Criteria -> Seq(Tasks)]
      /\ \A c \in Criteria : \A i, j \in DOMAIN queue'[c] : queue'[c][i] = queue'[c][j] => i = j
  BY <1>0, <1>1, <1>3, <1>5, <1>6, <1>7, LockingJoined
<1>9. TypeOK'
  <2>1. slot' = slot
    BY <1>5
  <2> QED
    BY <1>0, <1>5, <1>6, <1>8, <2>1, TypesStay DEF TypeOK
<1>10. Checked'
  BY <1>0, <1>3, <1>6, CheckedStays DEF ChecksOut
<1>11. slot' = slot /\ new.pc \notin {"answered", "listed"} /\ present \subseteq present'
  BY <1>3, <1>5 DEF windows
<1>12. ListsAreOfTheirHalf'
  BY <1>0, <1>6, <1>11, HalvesStay
<1>13. \A u \in present : (Named(u))' => Named(u)
  BY <1>0, <1>6, <1>11, NamedStays
<1>14. Dropped'
  BY <1>0, <1>4, <1>5, <1>6, <1>11, <1>13, DroppedStays DEF Forgetting
<1>15. ASSUME NEW u \in Settled(own) PROVE u \in present /\ ~Named(u)
  <2>1. PICK i \in installs : /\ i.update = u
                              /\ \A a \in Applies : i.by = a => task[a].pc = "idle"
    BY DEF Settled
  <2>2. i.by \in Applies
    BY <1>0 DEF TypeOK
  <2>3. ~Unforgotten(i)
    BY <2>1, <2>2 DEF Unforgotten, Forgetting
  <2> QED
    BY <1>0, <1>2, <2>1, <2>3 DEF Dropped
<1>16. Fresh'
  BY <1>0, <1>3, <1>6, <1>11, <1>13, <1>15, FreshStays
<1>17. InstalledByItsOwner'
  BY <1>5 DEF Inv, InstalledByItsOwner
<1> QED
  BY <1>8, <1>9, <1>10, <1>12, <1>14, <1>16, <1>17 DEF Inv

\* A scan that is first at the lock leaves with a list of what some answer named,
\* which is the answer the slot holds then.
LEMMA ReuseKeepsInv ==
    ASSUME Inv, NEW t \in Tasks, Reuse(t)
    PROVE  Inv'
<1> DEFINE list == Listed(t, slot[Lock(t)].list)
           new  == Answering(task[t], "listed", list)
<1>0. TypeOK /\ Locking /\ Checked /\ ListsAreOfTheirHalf /\ Dropped /\ Fresh
  BY DEF Inv
<1>1. /\ task[t].pc = "locking" /\ Holds(t) /\ slot[Lock(t)].kept /\ Release(t)
      /\ UNCHANGED <<slot, windows, installs>> /\ Lock(t) \in Criteria
  BY <1>0, TaskIsTyped DEF Reuse
<1>2. list \in SUBSET Updates /\ \A u \in list : Named(u)
  BY <1>0, <1>1, SlotIsTyped DEF Listed, Named
<1>3. task' = [task EXCEPT ![t].pc = "listed", ![t].list = list]
  BY DEF Reuse
<1> HIDE DEF list
<1>4. /\ Becomes(t, new) /\ new.pc = "listed" /\ new.list = list
      /\ new.before = task[t].before
  <2>1. "listed" \in TaskStates
    BY DEF TaskStates
  <2> QED
    BY <1>0, <1>2, <1>3, <2>1, AnswersWith
<1> HIDE DEF new
<1>5. /\ Locking' /\ queue' \in [Criteria -> Seq(Tasks)]
      /\ \A c \in Criteria : \A i, j \in DOMAIN queue'[c] : queue'[c][i] = queue'[c][j] => i = j
  BY <1>0, <1>1, <1>4, LockingReleased
<1>6. slot' = slot /\ new.pc # "answered" /\ present \subseteq present'
  BY <1>1, <1>4 DEF windows
<1>7. TypeOK'
  <2>1. slot' \in [Criteria -> SlotStates]
    BY <1>0, <1>6 DEF TypeOK
  <2> QED
    BY <1>0, <1>1, <1>4, <1>5, <2>1, TypesStay
<1>8. Checked'
  BY <1>0, <1>4, CheckedStays DEF ChecksOut
<1>9. ListsAreOfTheirHalf'
  BY <1>0, <1>4, <1>6, HalvesStay
<1>10. \A u \in present : (Named(u))' => Named(u)
  BY <1>0, <1>4, <1>6, NamedStays
<1>11. Dropped'
  BY <1>0, <1>1, <1>4, <1>6, <1>10, DroppedStays DEF Forgetting
<1>12. \A u \in new.before : u \in present /\ ~Named(u)
  BY <1>0, <1>4 DEF Fresh
<1>13. Fresh'
  BY <1>0, <1>2, <1>4, <1>6, <1>10, <1>12, FreshStays
<1>14. InstalledByItsOwner'
  BY <1>1 DEF Inv, InstalledByItsOwner
<1> QED
  BY <1>5, <1>7, <1>8, <1>9, <1>11, <1>13, <1>14 DEF Inv

LEMMA AskKeepsInv ==
    ASSUME Inv, NEW t \in Tasks, Ask(t)
    PROVE  Inv'
<1>0. TypeOK /\ Locking /\ Checked /\ ListsAreOfTheirHalf /\ Dropped /\ Fresh
  BY DEF Inv
<1>1. /\ task[t].pc = "locking" /\ Holds(t) /\ UNCHANGED <<shared, windows, installs>>
      /\ Lock(t) \in Criteria
  BY <1>0, TaskIsTyped DEF Ask
<1>2. PICK answer \in Searches(Lock(t)) :
         task' = [task EXCEPT ![t].pc = IF answer.ok THEN "answered" ELSE "refused",
                              ![t].list = answer.list]
  BY DEF Ask
<1> DEFINE pc  == IF answer.ok THEN "answered" ELSE "refused"
           new == Answering(task[t], pc, answer.list)
<1>3. answer.list \in SUBSET Updates /\ answer.list \subseteq offered
      /\ \A u \in answer.list : u.criteria = Lock(t)
  BY <1>0, <1>1, SearchesAreTyped
<1>4. pc \in TaskStates /\ pc \in {"answered", "refused"}
  BY DEF TaskStates
<1>5. task' = [task EXCEPT ![t].pc = pc, ![t].list = answer.list]
  BY <1>2
<1> HIDE DEF pc
<1>6. /\ Becomes(t, new) /\ new.pc = pc /\ new.kind = task[t].kind
      /\ new.list = answer.list /\ new.before = task[t].before
  BY <1>0, <1>3, <1>4, <1>5, AnswersWith
<1> HIDE DEF new
<1>7. slot' = slot /\ queue' = queue /\ present \subseteq present'
  BY <1>1 DEF windows, shared
<1>8. TypeOK'
  BY <1>0, <1>1, <1>6, <1>7, TypesStay DEF TypeOK
<1>9. Locking'
  BY <1>0, <1>1, <1>4, <1>6, <1>7, LockingStays DEF Queueing
<1>10. Checked'
  BY <1>0, <1>4, <1>6, CheckedStays DEF ChecksOut
<1>11. ListsAreOfTheirHalf'
  BY <1>0, <1>3, <1>6, <1>7, HalvesStay DEF Lock
<1>12. \A u \in present : (Named(u))' => Named(u)
  BY <1>0, <1>3, <1>6, <1>7, NamedStays
<1>13. Dropped'
  BY <1>0, <1>1, <1>6, <1>7, <1>12, DroppedStays DEF Forgetting
<1>14. new.pc # "listed" /\ \A u \in new.before : u \in present /\ ~Named(u)
  BY <1>0, <1>4, <1>6 DEF Fresh
<1>15. Fresh'
  BY <1>0, <1>6, <1>7, <1>12, <1>14, FreshStays
<1>16. InstalledByItsOwner'
  BY <1>1 DEF Inv, InstalledByItsOwner
<1> QED
  BY <1>8, <1>9, <1>10, <1>11, <1>13, <1>15, <1>16 DEF Inv

LEMMA RefuseKeepsInv ==
    ASSUME Inv, NEW t \in Tasks, Refuse(t)
    PROVE  Inv'
<1>0. TypeOK /\ Locking /\ Checked /\ ListsAreOfTheirHalf /\ Dropped /\ Fresh
  BY DEF Inv
<1>1. /\ task[t].pc = "refused" /\ Release(t) /\ UNCHANGED <<slot, windows, installs>> /\ Holds(t)
  BY <1>0 DEF Refuse, Locking
<1>2. /\ Becomes(t, Idle) /\ Idle.pc = "idle" /\ Idle.before = {} /\ Idle.list = {}
      /\ Idle.update = {}
  BY <1>0, Finishes DEF Refuse
<1>3. slot' = slot /\ present \subseteq present'
  BY <1>1 DEF windows
<1>4. /\ Locking' /\ queue' \in [Criteria -> Seq(Tasks)]
      /\ \A c \in Criteria : \A i, j \in DOMAIN queue'[c] : queue'[c][i] = queue'[c][j] => i = j
  BY <1>0, <1>1, <1>2, LockingReleased
<1>5. TypeOK'
  BY <1>0, <1>1, <1>2, <1>3, <1>4, TypesStay DEF TypeOK
<1>6. Checked'
  BY <1>0, <1>2, CheckedStays DEF ChecksOut
<1>7. ListsAreOfTheirHalf'
  BY <1>0, <1>2, <1>3, HalvesStay
<1>8. \A u \in present : (Named(u))' => Named(u)
  BY <1>0, <1>2, <1>3, NamedStays
<1>9. Dropped'
  BY <1>0, <1>1, <1>2, <1>3, <1>8, DroppedStays DEF Forgetting
<1>10. Fresh'
  BY <1>0, <1>2, <1>3, <1>8, FreshStays
<1>11. InstalledByItsOwner'
  BY <1>1 DEF Inv, InstalledByItsOwner
<1> QED
  BY <1>4, <1>5, <1>6, <1>7, <1>9, <1>10, <1>11 DEF Inv

LEMMA KeepKeepsInv ==
    ASSUME Inv, NEW t \in Tasks, Keep(t)
    PROVE  Inv'
<1> DEFINE own  == Lock(t)
           list == Listed(t, task[t].list)
           new  == Answering(task[t], "listed", list)
<1>0. TypeOK /\ Locking /\ Checked /\ ListsAreOfTheirHalf /\ Dropped /\ Fresh
  BY DEF Inv
<1>1. /\ task[t].pc = "answered" /\ Holds(t) /\ Release(t) /\ UNCHANGED <<windows, installs>>
      /\ own \in Criteria /\ task[t].list \in SUBSET Updates
  BY <1>0, TaskIsTyped DEF Keep, Locking
<1>2. list \subseteq task[t].list
  BY DEF Listed
<1>3. task' = [task EXCEPT ![t].pc = "listed", ![t].list = list]
  BY DEF Keep
<1> HIDE DEF list
<1>4. /\ Becomes(t, new) /\ new.pc = "listed" /\ new.list = list /\ new.before = task[t].before
  <2>1. "listed" \in TaskStates /\ list \in SUBSET Updates
    BY <1>1, <1>2 DEF TaskStates
  <2> QED
    BY <1>0, <1>3, <2>1, AnswersWith
<1> HIDE DEF new
<1>5. /\ slot' \in [Criteria -> SlotStates]
      /\ slot'[own].list = task[t].list /\ \A c \in Criteria : c # own => slot'[c] = slot[c]
  <2>1. slot \in [Criteria -> SlotStates]
    BY <1>0 DEF TypeOK
  <2>2. slot' = [slot EXCEPT ![own] = Kept(task[t].list, TRUE)]
    BY DEF Keep
  <2>3. /\ Kept(task[t].list, TRUE) \in SlotStates
        /\ Kept(task[t].list, TRUE).list = task[t].list
    BY <1>1, KeptIsASlot
  <2> QED
    BY <1>1, <2>1, <2>2, <2>3
<1>6. /\ Locking' /\ queue' \in [Criteria -> Seq(Tasks)]
      /\ \A c \in Criteria : \A i, j \in DOMAIN queue'[c] : queue'[c][i] = queue'[c][j] => i = j
  BY <1>0, <1>1, <1>4, LockingReleased
<1>7. TypeOK'
  BY <1>0, <1>1, <1>4, <1>5, <1>6, TypesStay
<1>8. Checked'
  BY <1>0, <1>4, CheckedStays DEF ChecksOut
<1>9. ListsAreOfTheirHalf'
  <2>1. ASSUME NEW c \in Criteria, slot'[c].kept, NEW u \in slot'[c].list
        PROVE  u.criteria = c
    BY <1>0, <1>1, <1>5, <2>1 DEF ListsAreOfTheirHalf
  <2>2. ASSUME NEW s \in Tasks, task'[s].pc = "answered", NEW u \in task'[s].list
        PROVE  u.criteria = (Lock(s))'
    BY <1>0, <1>4, <2>2, OthersStay DEF ListsAreOfTheirHalf
  <2> QED
    BY <2>1, <2>2 DEF ListsAreOfTheirHalf
<1>10. \A u : (Named(u))' => Named(u)
  <2>1. ASSUME NEW u, NEW c \in Criteria, slot'[c].kept, u \in slot'[c].list PROVE Named(u)
    BY <1>1, <1>5, <2>1 DEF Named
  <2>2. ASSUME NEW u, NEW s \in Tasks, task'[s].pc = "answered", u \in task'[s].list PROVE Named(u)
    BY <1>0, <1>4, <2>2, OthersStay DEF Named
  <2> QED
    BY <2>1, <2>2 DEF Named
<1>11. present \subseteq present' /\ installs' = installs
  BY <1>1 DEF windows
<1>12. Dropped'
  BY <1>0, <1>1, <1>4, <1>10, <1>11, DroppedStays DEF Forgetting
<1>13. /\ \A u \in new.before : u \in present /\ ~Named(u)
       /\ \A u \in new.list : Named(u)
  BY <1>0, <1>1, <1>2, <1>4 DEF Fresh, Named
<1>14. Fresh'
  BY <1>0, <1>4, <1>10, <1>11, <1>13, FreshStays
<1>15. InstalledByItsOwner'
  BY <1>11 DEF Inv, InstalledByItsOwner
<1> QED
  BY <1>6, <1>7, <1>8, <1>9, <1>12, <1>14, <1>15 DEF Inv

-----------------------------------------------------------------------------
(* The install, and what follows it.                                       *)

LEMMA RunInstallKeepsInv ==
    ASSUME Inv, NEW t \in Applies, RunInstall(t)
    PROVE  Inv'
<1>0. TypeOK /\ Locking /\ Checked /\ ListsAreOfTheirHalf /\ Dropped /\ Fresh /\ t \in Tasks
  BY DEF Inv, Tasks
<1>1. task[t].pc = "downloaded" /\ slot' = slot /\ queue' = queue
  BY DEF RunInstall, shared
<1>2. PICK verdict \in Forgetting : To(t, verdict)
  BY DEF RunInstall, Forgetting
<1> DEFINE new == Moved(task[t], verdict)
<1>3. verdict \in TaskStates
  BY DEF Forgetting, TaskStates
<1>4. /\ Becomes(t, new) /\ new.pc = verdict /\ new.kind = task[t].kind
      /\ new.update = task[t].update /\ new.before = task[t].before
  BY <1>0, <1>2, <1>3, MovesOn
<1> HIDE DEF new
<1>5. new.pc \notin {"answered", "refused", "listed"} /\ ChecksOut(new)
  BY <1>2, <1>4 DEF ChecksOut, Forgetting
<1>6. Locking' /\ Checked' /\ ListsAreOfTheirHalf'
  <2>1. Locking'
    BY <1>0, <1>1, <1>4, <1>5, LockingStays DEF Queueing, Forgetting
  <2>2. Checked'
    BY <1>0, <1>4, <1>5, CheckedStays
  <2>3. ListsAreOfTheirHalf'
    BY <1>0, <1>1, <1>4, <1>5, HalvesStay
  <2> QED
    BY <2>1, <2>2, <2>3
<1>7. \A u \in present : (Named(u))' => Named(u)
  BY <1>0, <1>1, <1>4, <1>5, NamedStays
<1>8. PICK u \in Updates : task[t].update = {u}
  BY <1>0, <1>1 DEF Checked, ChecksOut
<1>9. present \subseteq present' =>  Fresh'
  <2>1. \A v \in new.before : v \in present /\ ~Named(v)
    BY <1>0, <1>4 DEF Fresh
  <2> QED
    BY <1>0, <1>4, <1>5, <1>7, <2>1, FreshStays
<1>10. CASE UNCHANGED <<present, offered, installs>>
  <2>1. TypeOK'
    BY <1>0, <1>1, <1>4, <1>10, OthersStay DEF TypeOK, Calls
  <2>2. present \subseteq present' /\ installs' = installs
    BY <1>10
  <2>3. Dropped'
    BY <1>0, <1>1, <1>4, <1>7, <2>2, DroppedStays DEF Forgetting
  <2>4. InstalledByItsOwner'
    BY <1>10 DEF Inv, InstalledByItsOwner
  <2> QED
    BY <1>6, <1>9, <2>1, <2>2, <2>3, <2>4 DEF Inv
<1>11. CASE /\ task[t].update \subseteq offered
            /\ present' = present \union task[t].update
            /\ offered' = offered \ task[t].update
            /\ installs' = installs \union
                  {[by |-> t, kind |-> task[t].kind, update |-> v] : v \in task[t].update}
  <2>1. u \in offered /\ present' = present \union {u} /\ offered' = offered \ {u}
    BY <1>8, <1>11
  <2>. PICK i : i = [by |-> t, kind |-> task[t].kind, update |-> u]
    OBVIOUS
  <2>2. installs' = installs \union {i}
    BY <1>8, <1>11
  <2>3. i \in [by : Applies, kind : Kinds, update : Updates]
        /\ i.by = t /\ i.kind = task[t].kind /\ i.update = u
    BY <1>0, TaskIsTyped
  <2>4. TypeOK'
    <3>1. offered' \subseteq Updates /\ present' \subseteq Updates \ offered'
          /\ \A v, w \in offered' : v.id = w.id => v = w
      BY <1>0, <2>1 DEF TypeOK
    <3>2. installs' \subseteq [by : Applies, kind : Kinds, update : Updates]
      BY <1>0, <2>2, <2>3 DEF TypeOK
    <3> QED
      BY <1>0, <1>1, <1>4, <3>1, <3>2, OthersStay DEF TypeOK, Calls
  <2>5. ASSUME NEW j \in installs
        PROVE  j.update \in present' /\ ((Named(j.update))' => (Unforgotten(j))')
    <3>1. j.update \in present /\ (Named(j.update) => Unforgotten(j)) /\ j.by \in Tasks
      BY <1>0 DEF Dropped, TypeOK, Tasks
    <3>2. Unforgotten(j) => (Unforgotten(j))'
      BY <1>0, <1>1, <1>4, <3>1, OthersStay DEF Unforgotten, Lock, Forgetting
    <3> QED
      BY <1>7, <2>1, <3>1, <3>2
  <2>6. (Unforgotten(i))' /\ i.update \in present'
    <3>1. u.criteria = CriteriaOf(task[t].kind)
      BY <1>0, <1>1, <1>8 DEF Checked, ChecksOut
    <3>2. task'[t].pc \in Forgetting /\ task'[t].update = {u}
          /\ CriteriaOf(task'[t].kind) = u.criteria
      BY <1>0, <1>2, <1>4, <1>8, <3>1, OthersStay
    <3> QED
      BY <2>1, <2>3, <3>2 DEF Unforgotten, Lock
  <2>7. Dropped'
    BY <2>2, <2>5, <2>6 DEF Dropped
  <2>8. InstalledByItsOwner'
    <3>1. task[t].kind # "WindowsDrivers" => Owns(task[t].kind, u) /\ u.criteria = "Software"
      BY <1>0, <1>1, <1>8 DEF Checked, ChecksOut
    <3> QED
      BY <2>2, <2>3, <3>1 DEF Inv, InstalledByItsOwner
  <2> QED
    BY <1>6, <1>9, <2>1, <2>4, <2>7, <2>8 DEF Inv
<1> QED
  BY <1>10, <1>11 DEF RunInstall

LEMMA AwaitForgetKeepsInv ==
    ASSUME Inv, NEW t \in Tasks, AwaitForget(t)
    PROVE  Inv'
<1> DEFINE own == Lock(t)
           new == task[t]
<1>0. TypeOK /\ Locking /\ Checked /\ ListsAreOfTheirHalf /\ Dropped /\ Fresh
  BY DEF Inv
<1>1. /\ task[t].pc \in Forgetting /\ own \in Criteria
      /\ queue' = [queue EXCEPT ![own] = Append(queue[own], t)]
      /\ \A i \in DOMAIN queue[own] : queue[own][i] # t
      /\ UNCHANGED <<slot, windows, task, installs>>
  BY <1>0, TaskIsTyped DEF AwaitForget, Forgetting
<1>2. new \in Calls /\ task' = [task EXCEPT ![t] = new] /\ own = CriteriaOf(new.kind)
  BY <1>0, <1>1, TaskIsTyped DEF TypeOK, Calls, Lock
<1>3. Becomes(t, new) /\ new.pc \in Forgetting
  BY <1>1, <1>2 DEF Becomes
<1>4. \A c \in Criteria : \A i \in DOMAIN queue[c] : queue[c][i] # t
  BY <1>0, <1>1 DEF Locking
<1>5. /\ Locking' /\ queue' \in [Criteria -> Seq(Tasks)]
      /\ \A c \in Criteria : \A i, j \in DOMAIN queue'[c] : queue'[c][i] = queue'[c][j] => i = j
  BY <1>0, <1>1, <1>2, <1>3, <1>4, LockingJoined
<1>6. TypeOK'
  BY <1>0, <1>1, <1>5 DEF TypeOK, windows
<1>7. Checked' /\ ListsAreOfTheirHalf' /\ Dropped' /\ Fresh'
  BY <1>0, <1>1 DEF Checked, ListsAreOfTheirHalf, Dropped, Fresh, Named, Unforgotten, Lock, windows
<1>8. InstalledByItsOwner'
  BY <1>1 DEF Inv, InstalledByItsOwner
<1> QED
  BY <1>5, <1>6, <1>7, <1>8 DEF Inv

\* Nobody has an answer of this half while an apply holds its lock to drop the result.
LEMMA ForgetKeepsInv ==
    ASSUME Inv, NEW t \in Tasks, Forget(t)
    PROVE  Inv'
<1> DEFINE own == Lock(t)
<1>0. TypeOK /\ Locking /\ Checked /\ ListsAreOfTheirHalf /\ Dropped /\ Fresh
  BY DEF Inv
<1>1. /\ task[t].pc \in Forgetting /\ Holds(t) /\ Release(t) /\ own \in Criteria
      /\ slot' = [slot EXCEPT ![own] = NoResult] /\ UNCHANGED <<windows, installs>>
      /\ (To(t, "confirming") \/ End(t))
  BY <1>0, TaskIsTyped DEF Forget, Forgetting
<1>2. PICK new : /\ Becomes(t, new) /\ new.pc \in {"confirming", "idle"}
                 /\ new.before \subseteq task[t].before
  <2>1. CASE To(t, "confirming")
    <3>1. "confirming" \in TaskStates
      BY DEF TaskStates
    <3>2. LET new == Moved(task[t], "confirming")
          IN  Becomes(t, new) /\ new.pc = "confirming" /\ new.before = task[t].before
      BY <1>0, <2>1, <3>1, MovesOn
    <3> QED
      BY <3>2
  <2>2. CASE End(t)
    <3>1. Becomes(t, Idle) /\ Idle.pc = "idle" /\ Idle.before = {}
      BY <1>0, <2>2, Finishes
    <3> QED
      BY <3>1
  <2> QED
    BY <1>1, <2>1, <2>2
<1>3. /\ slot' \in [Criteria -> SlotStates] /\ slot'[own].kept = FALSE
      /\ \A c \in Criteria : c # own => slot'[c] = slot[c]
  <2>1. slot \in [Criteria -> SlotStates] /\ NoResult \in SlotStates /\ NoResult.kept = FALSE
    BY <1>0, KeptIsASlot DEF TypeOK
  <2> QED
    BY <1>1, <2>1
<1>4. /\ Locking' /\ queue' \in [Criteria -> Seq(Tasks)]
      /\ \A c \in Criteria : \A i, j \in DOMAIN queue'[c] : queue'[c][i] = queue'[c][j] => i = j
  BY <1>0, <1>1, <1>2, LockingReleased
<1>5. TypeOK'
  BY <1>0, <1>1, <1>2, <1>3, <1>4, TypesStay
<1>6. Checked'
  BY <1>0, <1>2, CheckedStays DEF ChecksOut
<1>7. ASSUME NEW c \in Criteria, slot'[c].kept
      PROVE  c # own /\ slot'[c] = slot[c]
  BY <1>3, <1>7
<1>8. ASSUME NEW s \in Tasks, task'[s].pc = "answered"
      PROVE  task'[s] = task[s] /\ (Lock(s))' = Lock(s) /\ Lock(s) # own
  <2>1. s # t
    BY <1>0, <1>2, <1>8, OthersStay
  <2>2. task'[s] = task[s] /\ (Lock(s))' = Lock(s)
    BY <1>0, <1>2, <2>1, OthersStay
  <2>3. Holds(s)
    BY <1>0, <1>8, <2>2 DEF Locking
  <2> QED
    BY <1>1, <2>1, <2>2, <2>3 DEF Holds
<1>9. ListsAreOfTheirHalf'
  BY <1>0, <1>7, <1>8 DEF ListsAreOfTheirHalf
<1>10. \A u : (Named(u))' => Named(u) /\ u.criteria # own
  <2>1. ASSUME NEW u, NEW c \in Criteria, slot'[c].kept, u \in slot'[c].list
        PROVE  Named(u) /\ u.criteria # own
    BY <1>0, <1>7, <2>1 DEF Named, ListsAreOfTheirHalf
  <2>2. ASSUME NEW u, NEW s \in Tasks, task'[s].pc = "answered", u \in task'[s].list
        PROVE  Named(u) /\ u.criteria # own
    BY <1>0, <1>8, <2>2 DEF Named, ListsAreOfTheirHalf
  <2> QED
    BY <2>1, <2>2 DEF Named
<1>11. present' = present /\ installs' = installs
  BY <1>1 DEF windows
<1>12. ASSUME NEW i \in installs
       PROVE  i.update \in present' /\ ((Named(i.update))' => (Unforgotten(i))')
  <2>1. i.update \in present /\ (Named(i.update) => Unforgotten(i)) /\ i.by \in Tasks
    BY <1>0 DEF Dropped, TypeOK, Tasks
  <2>2. ASSUME (Named(i.update))' PROVE (Unforgotten(i))'
    <3>1. Unforgotten(i) /\ i.by # t
      BY <1>10, <2>1, <2>2 DEF Unforgotten
    <3> QED
      BY <1>0, <1>2, <2>1, <3>1, OthersStay DEF Unforgotten
  <2> QED
    BY <1>11, <2>1, <2>2
<1>13. Dropped'
  BY <1>11, <1>12 DEF Dropped
<1>14. new.pc # "listed" /\ \A u \in new.before : u \in present /\ ~Named(u)
  BY <1>0, <1>2 DEF Fresh
<1>15. Fresh'
  BY <1>0, <1>2, <1>10, <1>11, <1>14, FreshStays
<1>16. InstalledByItsOwner'
  BY <1>11 DEF Inv, InstalledByItsOwner
<1> QED
  BY <1>4, <1>5, <1>6, <1>9, <1>13, <1>15, <1>16 DEF Inv

-----------------------------------------------------------------------------
(* What goes on without the process.                                       *)

\* No task moves, nothing is taken off the machine, and no answer gets longer.
LEMMA WorldKeepsInv ==
    ASSUME Inv, TypeOK', UNCHANGED <<queue, task, installs>>, present \subseteq present',
           \A c \in Criteria : slot'[c].kept => slot[c].kept /\ slot'[c].list = slot[c].list
    PROVE  Inv'
<1>0. TypeOK /\ Locking /\ Checked /\ ListsAreOfTheirHalf /\ Dropped /\ Fresh
  BY DEF Inv
<1>1. Locking' /\ Checked' /\ ListsAreOfTheirHalf'
  BY <1>0 DEF Locking, Checked, ListsAreOfTheirHalf, Holds, Lock
<1>2. \A u : (Named(u))' => Named(u)
  BY DEF Named
<1>3. Dropped'
  BY <1>0, <1>2 DEF Dropped, Unforgotten, Lock
<1>4. Fresh'
  BY <1>0, <1>2 DEF Fresh
<1>5. InstalledByItsOwner'
  BY DEF Inv, InstalledByItsOwner
<1> QED
  BY <1>1, <1>3, <1>4, <1>5 DEF Inv

LEMMA WindowsKeepsInv ==
    ASSUME Inv, NEW u \in Updates, Offer(u) \/ Withdraw(u) \/ InstalledByWindows(u)
    PROVE  Inv'
<1>1. slot' = slot /\ UNCHANGED <<queue, task, installs>>
  BY DEF Offer, Withdraw, InstalledByWindows, shared
<1>2. offered \subseteq Updates /\ present \subseteq Updates \ offered
      /\ \A v, w \in offered : v.id = w.id => v = w
  BY DEF Inv, TypeOK
<1>3. /\ offered' \subseteq Updates /\ present' \subseteq Updates \ offered'
      /\ present \subseteq present' /\ \A v, w \in offered' : v.id = w.id => v = w
  BY <1>2 DEF Offer, Withdraw, InstalledByWindows
<1>4. TypeOK'
  BY <1>1, <1>3 DEF Inv, TypeOK
<1> QED
  BY <1>1, <1>3, <1>4, WorldKeepsInv

LEMMA ExpireKeepsInv ==
    ASSUME Inv, NEW c \in Criteria, Expire(c)
    PROVE  Inv'
<1>0. TypeOK
  BY DEF Inv
<1>1. /\ UNCHANGED <<queue, task, windows, installs>> /\ slot[c].kept
      /\ slot' = [slot EXCEPT ![c].young = FALSE]
  BY DEF Expire
<1>2. PICK list \in SUBSET Updates, young \in BOOLEAN : slot[c] = Kept(list, young)
  BY <1>0, <1>1, SlotIsTyped
<1>3. PICK was : was = slot[c]
  OBVIOUS
<1>4. [was EXCEPT !.young = FALSE] = Kept(list, FALSE) /\ was.list = list
  <2>1. was = Kept(list, young)
    BY <1>2, <1>3
  <2>2. was.list = list
    BY <2>1 DEF Kept
  <2>3. \A old : old = FALSE => [was EXCEPT !.young = old] = Kept(list, FALSE)
    BY <2>1, KeptGrowsOld
  <2> QED
    BY <2>2, <2>3
<1>5. slot \in [Criteria -> SlotStates] /\ slot' = [slot EXCEPT ![c] = Kept(list, FALSE)]
  <2>1. slot' = [slot EXCEPT ![c] = [was EXCEPT !.young = FALSE]]
    BY <1>1, <1>3
  <2> QED
    BY <1>0, <1>4, <2>1 DEF TypeOK
<1>6. /\ slot' \in [Criteria -> SlotStates]
      /\ \A d \in Criteria : slot'[d].kept => slot[d].kept /\ slot'[d].list = slot[d].list
  <2>1. Kept(list, FALSE) \in SlotStates /\ Kept(list, FALSE).list = list
    BY KeptIsASlot
  <2> QED
    BY <1>1, <1>3, <1>4, <1>5, <2>1
<1>7. TypeOK' /\ present \subseteq present'
  BY <1>0, <1>1, <1>6 DEF TypeOK, windows
<1> QED
  BY <1>1, <1>6, <1>7, WorldKeepsInv

-----------------------------------------------------------------------------
LEMMA InitHasInv == Init => Inv
<1> SUFFICES ASSUME Init PROVE Inv
  OBVIOUS
<1>1. Idle \in Calls /\ Idle.pc = "idle" /\ Idle.before = {}
  BY DEF Idle, Call, Calls, Kinds, TaskStates
<1>2. task = [t \in Tasks |-> Idle] /\ installs = {} /\ queue = [c \in Criteria |-> <<>>]
      /\ slot = [c \in Criteria |-> NoResult] /\ present = {} /\ offered \subseteq Updates
  BY DEF Init
<1>3. NoResult \in SlotStates /\ NoResult.kept = FALSE
  BY DEF SlotStates, NoResult
<1>4. \A t \in Tasks : task[t] = Idle
  BY <1>2
<1>5. TypeOK
  <2>1. task \in [Tasks -> Calls] /\ slot \in [Criteria -> SlotStates]
    BY <1>1, <1>2, <1>3
  <2>2. queue \in [Criteria -> Seq(Tasks)] /\ \A c \in Criteria : DOMAIN queue[c] = {}
    BY <1>2
  <2> QED
    BY <1>2, <2>1, <2>2 DEF TypeOK, Init, Calls
<1>6. Locking /\ Checked
  BY <1>1, <1>2, <1>4 DEF Locking, Checked, ChecksOut
<1>7. ListsAreOfTheirHalf /\ Dropped /\ InstalledByItsOwner
  BY <1>1, <1>2, <1>3, <1>4 DEF ListsAreOfTheirHalf, Dropped, InstalledByItsOwner
<1>8. Fresh
  BY <1>1, <1>4 DEF Fresh
<1> QED
  BY <1>5, <1>6, <1>7, <1>8 DEF Inv

LEMMA NextKeepsInv ==
    ASSUME Inv, [Next]_vars
    PROVE  Inv'
<1>1. ASSUME NEW t \in Scans, NEW kind \in Backends, BeginScan(t, kind)
      PROVE  Inv'
  BY <1>1, BeginScanKeepsInv DEF Tasks
<1>2. ASSUME NEW t \in Scans, Scan(t)
      PROVE  Inv'
  <2>1. t \in Tasks
    BY DEF Tasks
  <2> QED
    BY <1>2, <2>1, ReuseKeepsInv, AskKeepsInv, KeepKeepsInv, RefuseKeepsInv, EndScanKeepsInv DEF Scan
<1>3. ASSUME NEW t \in Applies, NEW kind \in Backends, NEW u \in Updates, BeginApply(t, kind, u)
      PROVE  Inv'
  BY <1>3, BeginApplyKeepsInv
<1>4. ASSUME NEW t \in Applies, Apply(t)
      PROVE  Inv'
  <2>1. t \in Tasks
    BY DEF Tasks
  <2> QED
    BY <1>4, <2>1, CheckOwnerKeepsInv, FindAgainKeepsInv, FetchKeepsInv, RunInstallKeepsInv,
       AwaitForgetKeepsInv, ForgetKeepsInv, ConfirmKeepsInv, EndScanKeepsInv DEF Apply
<1>5. ASSUME NEW c \in Criteria, Expire(c)
      PROVE  Inv'
  BY <1>5, ExpireKeepsInv
<1>6. ASSUME NEW u \in Updates, Offer(u) \/ Withdraw(u) \/ InstalledByWindows(u)
      PROVE  Inv'
  BY <1>6, WindowsKeepsInv
<1>7. CASE UNCHANGED vars
  <2>1. TypeOK' /\ slot' = slot /\ UNCHANGED <<queue, task, installs>> /\ present \subseteq present'
    BY <1>7 DEF Inv, TypeOK, vars
  <2> QED
    BY <2>1, WorldKeepsInv
<1> QED
  BY <1>1, <1>2, <1>3, <1>4, <1>5, <1>6, <1>7 DEF Next

LEMMA InvIsInvariant == Spec => []Inv
BY InitHasInv, NextKeepsInv, PTL DEF Spec

\* The slots, the queues of their locks, the calls and the history hold what they are
\* meant to hold, and an update that is present is not offered.
THEOREM TypeCorrect == Spec => []TypeOK
<1>1. Inv => TypeOK
  BY DEF Inv
<1> QED
  BY <1>1, InvIsInvariant, PTL

\* SharedSearch::get_or_run and forget, with install_and_forget around the install: a scan
\* that begins after an apply has returned does not list what that apply installed, for any
\* number of scans and applies and whatever answers were under way.
THEOREM ScansSeeInstallsHolds == Spec => []ScansSeeInstalls
<1>1. Inv => ScansSeeInstalls
  BY DEF Inv, Fresh, ScansSeeInstalls, Tasks
<1> QED
  BY <1>1, InvIsInvariant, PTL

\* The class check of the software backends, apply by apply: what one installs is of its own
\* class and of the software half, whatever update and whatever kind the candidate named.
THEOREM InstalledByItsOwnerHolds == Spec => []InstalledByItsOwner
<1>1. Inv => InstalledByItsOwner
  BY DEF Inv
<1> QED
  BY <1>1, InvIsInvariant, PTL
=============================================================================
