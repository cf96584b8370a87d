-------------------------- MODULE ScanApplyProofs ---------------------------
(***************************************************************************)
(* The safety of ScanApply for any packages, pages and versions.           *)
(***************************************************************************)
EXTENDS ScanApply, TLAPS

Run == [pc : {"idle", "running", "refreshing", "waiting"},
        request : [Packages -> Maybe], plan : [Packages -> Maybe],
        todo : SUBSET Packages, log : SUBSET Record]

Load == [stage : {"idle", "queued", "running", "answered"},
         asked : SUBSET Packages, found : [Packages -> Maybe]]

\* What an apply has left to do can be done.
Doable == \A page \in Pages : \A p \in apply[page].todo : Actionable(apply[page].plan[p])

\* What the list shows is what the cache behind it holds, if that holds anything.
Agreed ==
    /\ scan.stage = "answered" =>
          \A p \in Packages : cache[p] # <<>> => cache[p] = scan.found[p]
    /\ scan.stage = "idle" =>
          \A p \in Packages : cache[p] # <<>> /\ shown[p] # <<>> => cache[p] = shown[p]

Typed == TypeOK /\ Doable /\ Agreed /\ AppliesWhatWasSeen

\* A page that waits for a scan has one coming, and what a source was asked for is not there.
Waits   == \A page \in Pages : apply[page].pc = "waiting" => Loading
Unasked == scan.stage = "running" => \A p \in scan.asked : scan.found[p] = <<>>

Plans(page, p) == apply[page].pc = "running" /\ apply[page].plan[p] # <<>>

\* Of a package that nothing has crossed: what a scan has found, what an apply has left to do
\* and what the cache holds are offers for the installed version, one apply at a time has it in
\* its plan, and a list that has been overtaken will be scanned again.
Found(p) ==
    scan.stage \in {"running", "answered"} /\ scan.found[p] # <<>>
        => scan.found[p][1].from = installed[p]

Alone(p) == \A one, other \in Pages : Plans(one, p) /\ Plans(other, p) => one = other

ToDo(p) ==
    \A page \in Pages :
        apply[page].pc = "running" /\ p \in apply[page].todo
            => apply[page].plan[p][1].from = installed[p]

Cached(p) ==
    scan.stage = "idle" /\ cache[p] # <<>> /\ (\A page \in Pages : ~Plans(page, p))
        => cache[p][1].from = installed[p]

Shown(p) ==
    scan.stage = "idle" /\ shown[p] # <<>>
        => \/ shown[p][1].from = installed[p]
           \/ notice
           \/ \E page \in Pages : apply[page].pc \in {"running", "refreshing"}

Current(p) == Found(p) /\ Alone(p) /\ ToDo(p) /\ Cached(p) /\ Shown(p)

InTurn == Waits /\ Unasked /\ \A p \in Packages \ crossed : Current(p)

-----------------------------------------------------------------------------
LEMMA TypedHas ==
    ASSUME Typed
    PROVE  /\ installed \in [Packages -> VersionNumbers] /\ latest \in [Packages -> VersionNumbers]
           /\ cache \in [Packages -> Maybe] /\ shown \in [Packages -> Maybe]
           /\ scan \in Load /\ apply \in [Pages -> Run] /\ notice \in BOOLEAN
           /\ history \subseteq Record /\ ended \subseteq Record /\ crossed \subseteq Packages
           /\ restarts \in 0..MaxRestarts
BY DEF Typed, TypeOK, Load, Run

LEMMA TypesFrom ==
    ASSUME installed' \in [Packages -> VersionNumbers], latest' \in [Packages -> VersionNumbers],
           cache' \in [Packages -> Maybe], shown' \in [Packages -> Maybe],
           scan' \in Load, apply' \in [Pages -> Run], notice' \in BOOLEAN,
           history' \subseteq Record, ended' \subseteq Record, crossed' \subseteq Packages,
           restarts' \in 0..MaxRestarts
    PROVE  TypeOK'
BY DEF TypeOK, Load, Run

LEMMA NothingIsNone ==
    /\ Nothing \in [Packages -> Maybe] /\ \A p \in Packages : Nothing[p] = <<>>
    /\ NoScan \in Load /\ NoScan.stage = "idle"
    /\ Queued \in Load /\ Queued.stage = "queued"
    /\ Idle \in Run /\ Idle.pc = "idle" /\ Idle.todo = {} /\ Idle.plan = Nothing
<1>1. Nothing \in [Packages -> Maybe] /\ \A p \in Packages : Nothing[p] = <<>>
  BY DEF Nothing, Maybe
<1> QED
  BY <1>1 DEF NoScan, Queued, Idle, Load, Run

LEMMA OffersAre ==
    ASSUME NEW offer \in Maybe, offer # <<>>
    PROVE  offer[1] \in Candidate /\ offer[1].from \in VersionNumbers
           /\ offer[1].to \in VersionNumbers /\ offer[1].from \in Nat /\ offer[1].to \in Nat
<1>1. PICK c \in Candidate : offer = <<c>>
  BY DEF Maybe
<1>2. offer[1] = c
  BY <1>1
<1>3. c.from \in VersionNumbers /\ c.to \in VersionNumbers
  BY DEF Candidate
<1> QED
  BY <1>2, <1>3 DEF VersionNumbers

\* A step that leaves alone what InTurn speaks of.
LEMMA InTurnStays ==
    ASSUME InTurn, UNCHANGED <<installed, cache, shown, scan, apply, notice, crossed>>
    PROVE  InTurn'
<1>1. Waits' /\ Unasked'
  BY DEF InTurn, Waits, Unasked, Loading
<1>2. ASSUME NEW p \in Packages \ crossed
      PROVE  Current(p)'
  BY <1>2 DEF InTurn, Current, Found, Alone, ToDo, Cached, Shown, Plans
<1> QED
  BY <1>1, <1>2 DEF InTurn

\* A step that leaves all applies alone.
LEMMA AppliesStay ==
    ASSUME Typed, UNCHANGED apply
    PROVE  /\ Doable' /\ AppliesWhatWasSeen' /\ (Running' <=> Running)
           /\ (Applying' <=> Applying)
BY DEF Typed, Doable, AppliesWhatWasSeen, Running, Applying

-----------------------------------------------------------------------------
(* The scan.                                                               *)

\* A load is asked for: of a list that is idle, or of one that is loading already.
LEMMA Reload ==
    ASSUME Typed, scan' = Refreshed
    PROVE  /\ scan' \in Load /\ scan'.stage # "idle"
           /\ \/ scan' = scan
              \/ scan'.stage = "queued"
<1>1. CASE Loading
  BY <1>1, TypedHas DEF Refreshed, Loading
<1>2. CASE ~Loading
  BY <1>2, NothingIsNone DEF Refreshed
<1> QED
  BY <1>1, <1>2

LEMMA AskForScanKeeps ==
    ASSUME Typed, AskForScan
    PROVE  Typed' /\ (InTurn => InTurn')
<1>1. /\ UNCHANGED <<installed, latest, cache, shown, apply, notice, history, ended, crossed, restarts>>
      /\ scan' \in Load /\ scan'.stage = "queued"
  BY NothingIsNone DEF AskForScan, machine
<1>2. TypeOK'
  BY <1>1, TypedHas, TypesFrom
<1>3. Agreed'
  BY <1>1 DEF Agreed
<1>4. Typed'
  BY <1>1, <1>2, <1>3, AppliesStay DEF Typed
<1>5. ASSUME InTurn
      PROVE  InTurn'
  <2>1. Waits' /\ Unasked'
    BY <1>1 DEF Waits, Unasked, Loading
  <2>2. ASSUME NEW p \in Packages \ crossed
        PROVE  Current(p)'
    BY <1>1, <1>5, <2>2 DEF InTurn, Current, Found, Alone, ToDo, Cached, Shown, Plans
  <2> QED
    BY <1>1, <2>1, <2>2 DEF InTurn
<1> QED
  BY <1>4, <1>5

LEMMA ScanBeginsKeeps ==
    ASSUME Typed, ScanBegins
    PROVE  Typed' /\ (InTurn => InTurn')
<1>1. /\ UNCHANGED <<installed, latest, cache, shown, apply, notice, history, ended, restarts>>
      /\ scan.stage = "queued"
      /\ scan' = [stage |-> "running", asked |-> Packages, found |-> Nothing]
      /\ crossed' \subseteq Packages /\ (Running => crossed' = crossed)
  BY TypedHas DEF ScanBegins, machine
<1>2. scan' \in Load /\ scan'.stage = "running" /\ \A p \in Packages : scan'.found[p] = <<>>
  BY <1>1, NothingIsNone DEF Load
<1>3. TypeOK'
  BY <1>1, <1>2, TypedHas, TypesFrom
<1>4. Agreed'
  BY <1>2 DEF Agreed
<1>5. Typed'
  BY <1>1, <1>3, <1>4, AppliesStay DEF Typed
<1>6. ASSUME InTurn
      PROVE  InTurn'
  <2>1. Waits' /\ Unasked'
    BY <1>1, <1>2 DEF Waits, Unasked, Loading, Load
  <2>2. ASSUME NEW p \in Packages \ crossed'
        PROVE  Current(p)'
    <3>1. CASE Running
      <4>1. p \in Packages \ crossed
        BY <1>1, <2>2, <3>1
      <4> QED
        BY <1>1, <1>2, <1>6, <4>1 DEF InTurn, Current, Found, Alone, ToDo, Cached, Shown, Plans
    <3>2. CASE ~Running
      BY <1>1, <1>2, <2>2, <3>2
      DEF Running, Current, Found, Alone, ToDo, Cached, Shown, Plans
    <3> QED
      BY <3>1, <3>2
  <2> QED
    BY <2>1, <2>2 DEF InTurn
<1> QED
  BY <1>5, <1>6

\* What a source offers is for what is installed, and can be applied.
LEMMA OffersAreCurrent ==
    ASSUME Typed, NEW p \in Packages
    PROVE  Offer(p) \in Maybe /\ (Offer(p) # <<>> => Offer(p)[1].from = installed[p])
<1>1. installed[p] \in VersionNumbers /\ latest[p] \in VersionNumbers
  BY TypedHas
<1>2. PICK c : c = [from |-> installed[p], to |-> latest[p]]
  OBVIOUS
<1>3. c \in Candidate /\ c.from = installed[p]
  BY <1>1, <1>2 DEF Candidate
<1>4. Offer(p) = <<c>> \/ Offer(p) = <<>>
  BY <1>2 DEF Offer
<1> QED
  BY <1>3, <1>4 DEF Maybe

LEMMA SourceAnswersKeeps ==
    ASSUME Typed, NEW p \in Packages, SourceAnswers(p)
    PROVE  Typed' /\ (InTurn => InTurn')
<1>1. /\ UNCHANGED <<installed, latest, cache, shown, apply, notice, history, ended, crossed, restarts>>
      /\ scan.stage = "running" /\ scan \in Load
  BY TypedHas DEF SourceAnswers, machine
<1>2. PICK offer \in Maybe : /\ offer # <<>> => offer[1].from = installed[p]
                             /\ scan' = [scan EXCEPT !.asked = @ \ {p}, !.found[p] = offer]
  BY OffersAreCurrent DEF SourceAnswers, Maybe
<1>3. /\ scan' \in Load /\ scan'.stage = "running" /\ scan'.found = [scan.found EXCEPT ![p] = offer]
      /\ scan.found \in [Packages -> Maybe]
  BY <1>1, <1>2 DEF Load
<1>4. scan'.found[p] = offer /\ \A q \in Packages : q # p => scan'.found[q] = scan.found[q]
  BY <1>3
<1>5. TypeOK'
  BY <1>1, <1>3, TypedHas, TypesFrom
<1>6. Agreed'
  BY <1>3 DEF Agreed
<1>7. Typed'
  BY <1>1, <1>5, <1>6, AppliesStay DEF Typed
<1>8. ASSUME InTurn
      PROVE  InTurn'
  <2>1. scan'.asked = scan.asked \ {p}
    BY <1>1, <1>2 DEF Load
  <2>2. Waits' /\ Unasked'
    BY <1>1, <1>3, <1>4, <1>8, <2>1 DEF InTurn, Waits, Unasked, Loading, Load
  <2>3. ASSUME NEW q \in Packages \ crossed
        PROVE  Current(q)'
    <3>1. Found(q)'
      BY <1>1, <1>2, <1>3, <1>4, <1>8, <2>3 DEF InTurn, Current, Found
    <3> QED
      BY <1>1, <1>3, <1>8, <2>3, <3>1 DEF InTurn, Current, Alone, ToDo, Cached, Shown, Plans
  <2> QED
    BY <1>1, <2>2, <2>3 DEF InTurn
<1> QED
  BY <1>7, <1>8

LEMMA ScanEndsKeeps ==
    ASSUME Typed, ScanEnds
    PROVE  Typed' /\ (InTurn => InTurn')
<1>1. /\ UNCHANGED <<installed, latest, shown, apply, notice, history, ended, crossed, restarts>>
      /\ scan.stage = "running" /\ scan \in Load /\ cache' = scan.found
      /\ scan' = [scan EXCEPT !.stage = "answered"]
  BY TypedHas DEF ScanEnds, machine
<1>2. /\ scan' \in Load /\ scan'.stage = "answered" /\ scan'.found = scan.found
      /\ scan.found \in [Packages -> Maybe]
  BY <1>1 DEF Load
<1>3. TypeOK'
  BY <1>1, <1>2, TypedHas, TypesFrom
<1>4. Agreed'
  BY <1>1, <1>2 DEF Agreed
<1>5. Typed'
  BY <1>1, <1>3, <1>4, AppliesStay DEF Typed
<1>6. ASSUME InTurn
      PROVE  InTurn'
  <2>1. Waits' /\ Unasked'
    BY <1>1, <1>2 DEF Waits, Unasked, Loading
  <2>2. ASSUME NEW p \in Packages \ crossed
        PROVE  Current(p)'
    BY <1>1, <1>2, <1>6, <2>2 DEF InTurn, Current, Found, Alone, ToDo, Cached, Shown, Plans
  <2> QED
    BY <1>1, <2>1, <2>2 DEF InTurn
<1> QED
  BY <1>5, <1>6

\* The answer on show is the answer in the cache, and of what is installed.
LEMMA ScanShownKeeps ==
    ASSUME Typed, ScanShown
    PROVE  Typed' /\ (InTurn => InTurn')
<1>1. /\ UNCHANGED <<installed, latest, cache, notice, history, ended, crossed, restarts>>
      /\ scan.stage = "answered" /\ scan' \in Load /\ scan'.stage = "idle"
  BY NothingIsNone DEF ScanShown, machine
<1>2. scan.found \in [Packages -> Maybe]
  BY TypedHas DEF Load
<1>3. shown' \in [Packages -> Maybe]
      /\ \A p \in Packages : shown'[p] = <<>> \/ shown'[p] = scan.found[p]
  BY <1>2 DEF ScanShown, Maybe
<1>4. apply' \in [Pages -> Run]
      /\ \A page \in Pages : IF apply[page].pc = "waiting" THEN apply'[page] = Idle
                             ELSE apply'[page] = apply[page]
  BY TypedHas, NothingIsNone DEF ScanShown
<1>5. TypeOK'
  BY <1>1, <1>3, <1>4, TypedHas, TypesFrom
<1>6. Doable' /\ AppliesWhatWasSeen'
  BY <1>4, NothingIsNone DEF Typed, Doable, AppliesWhatWasSeen
<1>7. Agreed'
  BY <1>1, <1>3 DEF Typed, Agreed
<1>8. Typed'
  BY <1>5, <1>6, <1>7 DEF Typed
<1>9. ASSUME InTurn
      PROVE  InTurn'
  <2>1. \A page \in Pages : apply'[page] = apply[page] \/ apply'[page] = Idle
    BY <1>4
  <2>2. Waits' /\ Unasked'
    BY <1>1, <1>4, NothingIsNone DEF Waits, Unasked
  <2>3. ASSUME NEW p \in Packages \ crossed
        PROVE  Current(p)'
    <3>1. Found(p) /\ Alone(p) /\ ToDo(p)
      BY <1>9, <2>3 DEF InTurn, Current
    <3>2. Found(p)' /\ Alone(p)' /\ ToDo(p)'
      BY <1>1, <2>1, <3>1, NothingIsNone DEF Found, Alone, ToDo, Plans
    <3>3. Cached(p)'
      BY <1>1, <2>3, <3>1 DEF Typed, Agreed, Cached, Found
    <3>4. Shown(p)'
      BY <1>1, <1>3, <2>3, <3>1 DEF Shown, Found
    <3> QED
      BY <3>2, <3>3, <3>4 DEF Current
  <2> QED
    BY <1>1, <2>2, <2>3 DEF InTurn
<1> QED
  BY <1>8, <1>9

-----------------------------------------------------------------------------
(* The apply.                                                              *)

\* What the button starts is what the list shows.
LEMMA InstallKeeps ==
    ASSUME Typed, NEW page \in Pages, NEW selection \in SUBSET Packages, Install(page, selection)
    PROVE  Typed' /\ (InTurn => InTurn')
<1>1. /\ UNCHANGED <<installed, latest, cache, shown, scan, notice, history, ended, restarts>>
      /\ scan.stage = "idle" /\ apply[page].pc = "idle"
      /\ crossed' = crossed \union PlannedTwice(page, selection) /\ crossed' \subseteq Packages
      /\ \A p \in selection : shown[p] # <<>>
      /\ apply' = [apply EXCEPT ![page] = Starts(page, selection)]
  BY TypedHas DEF Install, machine, Loading, PlannedTwice
<1>2. PICK r : r = Starts(page, selection)
  OBVIOUS
<1>3. /\ r.pc = "running" /\ r.request = [p \in Packages |-> IF p \in selection THEN shown[p] ELSE <<>>]
      /\ r.plan = [p \in Packages |-> IF p \in selection THEN cache[p] ELSE <<>>]
      /\ r.todo = {p \in selection : Actionable(cache[p])} /\ r.log = history
  BY <1>2 DEF Starts, Planned
<1>4. r \in Run
  <2>1. r.request \in [Packages -> Maybe] /\ r.plan \in [Packages -> Maybe]
    BY <1>3, TypedHas DEF Maybe
  <2>2. r = [pc |-> r.pc, request |-> r.request, plan |-> r.plan, todo |-> r.todo, log |-> r.log]
    BY <1>2 DEF Starts
  <2> QED
    BY <1>3, <2>1, <2>2, TypedHas DEF Run
<1>5. apply' \in [Pages -> Run] /\ apply'[page] = r
      /\ \A other \in Pages : other # page => apply'[other] = apply[other]
  BY <1>1, <1>2, <1>4, TypedHas
<1>6. TypeOK'
  BY <1>1, <1>5, TypedHas, TypesFrom
<1>7. Doable'
  <2>1. \A p \in r.todo : r.plan[p] = cache[p] /\ Actionable(r.plan[p])
    BY <1>3
  <2> QED
    BY <1>5, <2>1 DEF Typed, Doable
<1>8. AppliesWhatWasSeen'
  <2>1. \A p \in Packages : r.plan[p] # <<>> => r.plan[p] = r.request[p]
    BY <1>1, <1>3 DEF Typed, Agreed
  <2> QED
    BY <1>5, <2>1 DEF Typed, AppliesWhatWasSeen
<1>9. Typed'
  BY <1>1, <1>6, <1>7, <1>8 DEF Typed, Agreed
<1>10. ASSUME InTurn
       PROVE  InTurn'
  <2>1. Waits' /\ Unasked'
    BY <1>1, <1>3, <1>5, <1>10 DEF InTurn, Waits, Unasked, Loading
  <2>2. ASSUME NEW p \in Packages \ crossed'
        PROVE  Current(p)'
    <3>1. p \notin crossed /\ Current(p)
      BY <1>1, <1>10, <2>2 DEF InTurn
    <3>2. r.plan[p] # <<>> => \A other \in Pages : ~Plans(other, p)
      <4>1. r.plan[p] # <<>> => p \in selection
        BY <1>3, <2>2
      <4> QED
        BY <1>1, <2>2, <4>1 DEF PlannedTwice, Plans
    <3>3. Plans(page, p)' <=> r.plan[p] # <<>>
      BY <1>3, <1>5 DEF Plans
    <3>4. \A other \in Pages : other # page => (Plans(other, p)' <=> Plans(other, p))
      BY <1>5 DEF Plans
    <3>5. Found(p)'
      BY <1>1, <3>1 DEF Current, Found
    <3>6. Alone(p)'
      BY <3>1, <3>2, <3>3, <3>4 DEF Current, Alone
    <3>7. ToDo(p)'
      <4>1. p \in r.todo => r.plan[p] = cache[p] /\ cache[p] # <<>>
        BY <1>3, <2>2 DEF Actionable
      <4>2. p \in r.todo => r.plan[p][1].from = installed[p]
        BY <1>1, <3>1, <3>2, <4>1 DEF Current, Cached
      <4> QED
        BY <1>1, <1>5, <3>1, <4>2 DEF Current, ToDo
    <3>8. Cached(p)'
      <4>1. ~Plans(page, p)
        BY <1>1 DEF Plans
      <4> QED
        BY <1>1, <3>1, <3>4, <4>1 DEF Current, Cached
    <3>9. Shown(p)'
      BY <1>3, <1>5 DEF Shown
    <3> QED
      BY <3>5, <3>6, <3>7, <3>8, <3>9 DEF Current
  <2> QED
    BY <2>1, <2>2 DEF InTurn
<1> QED
  BY <1>9, <1>10

\* An entry lands no lower than where it was, unless something has crossed it.
LEMMA ApplyEntryKeeps ==
    ASSUME Typed, NEW page \in Pages, NEW p \in Packages, ApplyEntry(page, p)
    PROVE  /\ Typed'
           /\ InTurn => /\ InTurn'
                        /\ \A q \in Packages : installed'[q] >= installed[q] \/ q \in crossed
<1>1. /\ UNCHANGED <<latest, cache, shown, scan, notice, history, ended, restarts>>
      /\ crossed' = crossed \union (IF Answered(p) THEN {p} ELSE {})
      /\ apply[page].pc = "running" /\ p \in apply[page].todo /\ apply[page] \in Run
  BY TypedHas DEF ApplyEntry
<1>2. PICK run \in Run : run = apply[page]
  BY <1>1
<1>3. run.plan[p] \in Maybe /\ run.plan[p] # <<>> /\ run.plan[p][1].to > run.plan[p][1].from
      /\ run.plan \in [Packages -> Maybe]
  BY <1>1, <1>2 DEF Typed, Doable, Actionable, Run
<1>4. PICK to \in VersionNumbers : to = run.plan[p][1].to /\ to \in Nat
  BY <1>3, OffersAre
<1>5. PICK v \in VersionNumbers : /\ v = installed[p] \/ v >= to
                                  /\ installed' = [installed EXCEPT ![p] = v]
  <2>1. PICK v \in {installed[p], to} \union {w \in {latest[p]} : w > to} :
           installed' = [installed EXCEPT ![p] = v]
    BY <1>2, <1>4 DEF ApplyEntry
  <2>2. installed[p] \in VersionNumbers /\ latest[p] \in VersionNumbers
    BY TypedHas
  <2>3. v \in VersionNumbers /\ (v = installed[p] \/ v >= to)
    BY <1>4, <2>1, <2>2 DEF VersionNumbers
  <2> QED
    BY <2>1, <2>3
<1>6. PICK r : r = [run EXCEPT !.todo = @ \ {p}, !.log = @ \union {[pkg |-> p, to |-> to]}]
  OBVIOUS
<1>7. /\ r \in Run /\ r.pc = run.pc /\ r.plan = run.plan /\ r.request = run.request
      /\ r.todo = run.todo \ {p} /\ run.log \subseteq r.log
  <2>1. [pkg |-> p, to |-> to] \in Record
    BY DEF Record
  <2> QED
    BY <1>6, <2>1 DEF Run
<1>8. apply' = [apply EXCEPT ![page] = r]
  BY <1>2, <1>4, <1>6 DEF ApplyEntry
<1>9. apply' \in [Pages -> Run] /\ apply'[page] = r
      /\ \A other \in Pages : other # page => apply'[other] = apply[other]
  BY <1>7, <1>8, TypedHas
<1>10. /\ installed' \in [Packages -> VersionNumbers] /\ installed'[p] = v
       /\ \A q \in Packages : q # p => installed'[q] = installed[q]
  BY <1>5, TypedHas
<1>11. TypeOK'
  <2>1. crossed' \subseteq Packages
    BY <1>1, TypedHas
  <2> QED
    BY <2>1, <1>1, <1>9, <1>10, TypedHas, TypesFrom
<1>12. Doable' /\ AppliesWhatWasSeen'
  BY <1>2, <1>7, <1>9 DEF Typed, Doable, AppliesWhatWasSeen
<1>13. Typed'
  BY <1>1, <1>11, <1>12 DEF Typed, Agreed
<1>14. ASSUME InTurn
       PROVE  InTurn' /\ \A q \in Packages : installed'[q] >= installed[q] \/ q \in crossed
  <2>1. Waits' /\ Unasked'
    BY <1>1, <1>2, <1>7, <1>9, <1>14 DEF InTurn, Waits, Unasked, Loading
  <2>2. \A other \in Pages : \A q \in Packages : Plans(other, q)' <=> Plans(other, q)
    BY <1>2, <1>7, <1>9 DEF Plans
  <2>3. Plans(page, p)
    BY <1>1, <1>2, <1>3 DEF Plans
  <2>4. \A other \in Pages : apply'[other].pc = apply[other].pc
    BY <1>2, <1>7, <1>9
  <2>5. ASSUME NEW q \in Packages \ crossed'
        PROVE  Current(q)'
    <3>1. q \notin crossed /\ Current(q)
      BY <1>1, <1>14, <2>5 DEF InTurn
    <3>2. Found(q)'
      <4>1. CASE q = p
        <5>1. ~Answered(p)
          BY <1>1, <2>5, <4>1
        <5>2. scan.stage # "answered" /\ (scan.stage = "running" => p \in scan.asked)
          BY <5>1 DEF Answered
        <5>3. scan.stage = "running" => scan.found[p] = <<>>
          BY <1>14, <5>2 DEF InTurn, Unasked
        <5> QED
          BY <1>1, <4>1, <5>2, <5>3 DEF Found
      <4>2. CASE q # p
        BY <1>1, <1>10, <2>5, <3>1, <4>2 DEF Current, Found
      <4> QED
        BY <4>1, <4>2
    <3>3. Alone(q)'
      BY <2>2, <3>1 DEF Current, Alone
    <3>4. ToDo(q)'
      <4>1. CASE q = p
        <5>1. ASSUME NEW other \in Pages, p \in apply'[other].todo, apply'[other].pc = "running"
              PROVE  FALSE
          <6>1. other # page
            BY <1>7, <1>9, <5>1
          <6>2. p \in apply[other].todo /\ apply[other].pc = "running"
            BY <1>9, <5>1, <6>1
          <6>3. Plans(other, p)
            BY <6>2 DEF Typed, Doable, Actionable, Plans
          <6> QED
            BY <2>3, <3>1, <4>1, <6>1, <6>3 DEF Current, Alone
        <5> QED
          BY <4>1, <5>1 DEF ToDo
      <4>2. CASE q # p
        BY <1>2, <1>7, <1>9, <1>10, <2>5, <3>1, <4>2 DEF Current, ToDo
      <4> QED
        BY <4>1, <4>2
    <3>5. Cached(q)'
      <4>1. CASE q = p
        BY <2>2, <2>3, <4>1 DEF Cached
      <4>2. CASE q # p
        BY <1>1, <1>10, <2>2, <2>5, <3>1, <4>2 DEF Current, Cached
      <4> QED
        BY <4>1, <4>2
    <3>6. Shown(q)'
      BY <1>1, <2>4 DEF Shown
    <3> QED
      BY <3>2, <3>3, <3>4, <3>5, <3>6 DEF Current
  <2>6. ASSUME NEW q \in Packages
        PROVE  installed'[q] >= installed[q] \/ q \in crossed
    <3>1. \A o \in Packages : installed[o] \in Nat
      BY TypedHas DEF VersionNumbers
    <3>2. v \in Nat /\ run.plan[p][1].from \in Nat
      BY <1>3, OffersAre DEF VersionNumbers
    <3>3. p \in crossed \/ run.plan[p][1].from = installed[p]
      BY <1>1, <1>2, <1>14 DEF InTurn, Current, ToDo
    <3>4. p \in crossed \/ v >= installed[p]
      BY <1>3, <1>4, <1>5, <3>1, <3>2, <3>3
    <3> QED
      BY <1>10, <3>1, <3>4
  <2> QED
    BY <2>1, <2>5, <2>6 DEF InTurn
<1> QED
  BY <1>13, <1>14

LEMMA FinishKeeps ==
    ASSUME Typed, NEW page \in Pages, Finish(page)
    PROVE  Typed' /\ (InTurn => InTurn')
<1>1. /\ UNCHANGED <<installed, latest, shown, scan, crossed, restarts>> /\ cache' = Nothing
      /\ apply[page].pc = "running" /\ apply[page] \in Run /\ notice' = TRUE
      /\ history' = apply[page].log /\ ended' = ended \union apply[page].log
  BY TypedHas DEF Finish, machine
<1>2. PICK run \in Run : run = apply[page]
  BY <1>1
<1>3. PICK r : r = [run EXCEPT !.pc = "refreshing"]
  OBVIOUS
<1>4. r \in Run /\ r.pc = "refreshing" /\ r.plan = run.plan /\ r.request = run.request
      /\ r.todo = run.todo /\ run.log \subseteq Record
  BY <1>3 DEF Run
<1>5. apply' = [apply EXCEPT ![page] = r]
  BY <1>2, <1>3 DEF Finish
<1>6. apply' \in [Pages -> Run] /\ apply'[page] = r
      /\ \A other \in Pages : other # page => apply'[other] = apply[other]
  BY <1>4, <1>5, TypedHas
<1>7. TypeOK'
  BY <1>1, <1>2, <1>4, <1>6, TypedHas, TypesFrom, NothingIsNone
<1>8. Doable' /\ AppliesWhatWasSeen'
  BY <1>2, <1>4, <1>6 DEF Typed, Doable, AppliesWhatWasSeen
<1>9. Agreed'
  BY <1>1, NothingIsNone DEF Agreed
<1>10. Typed'
  BY <1>7, <1>8, <1>9 DEF Typed
<1>11. ASSUME InTurn
       PROVE  InTurn'
  <2>1. Waits' /\ Unasked'
    BY <1>1, <1>4, <1>6, <1>11 DEF InTurn, Waits, Unasked, Loading
  <2>2. ASSUME NEW p \in Packages \ crossed
        PROVE  Current(p)'
    <3>1. Found(p) /\ Alone(p) /\ ToDo(p)
      BY <1>11, <2>2 DEF InTurn, Current
    <3>2. Found(p)' /\ Alone(p)' /\ ToDo(p)'
      BY <1>1, <1>4, <1>6, <3>1 DEF Found, Alone, ToDo, Plans
    <3>3. Cached(p)' /\ Shown(p)'
      BY <1>1, <2>2, NothingIsNone DEF Cached, Shown
    <3> QED
      BY <3>2, <3>3 DEF Current
  <2> QED
    BY <1>1, <2>1, <2>2 DEF InTurn
<1> QED
  BY <1>10, <1>11

\* The scan after an apply, which the store and the page both ask for.
LEMMA NoticeArrivesKeeps ==
    ASSUME Typed, NoticeArrives
    PROVE  Typed' /\ (InTurn => InTurn')
<1>1. /\ UNCHANGED <<installed, latest, cache, shown, apply, history, ended, crossed, restarts>>
      /\ notice /\ notice' = FALSE /\ scan' = Refreshed
  BY DEF NoticeArrives, machine
<1>2. scan' \in Load /\ scan'.stage # "idle" /\ (scan' = scan \/ scan'.stage = "queued")
  BY <1>1, Reload
<1>3. TypeOK'
  BY <1>1, <1>2, TypedHas, TypesFrom
<1>4. Agreed'
  BY <1>1, <1>2 DEF Typed, Agreed
<1>5. Typed'
  BY <1>1, <1>3, <1>4, AppliesStay DEF Typed
<1>6. ASSUME InTurn
      PROVE  InTurn'
  <2>1. Waits' /\ Unasked'
    BY <1>1, <1>2, <1>6 DEF InTurn, Waits, Unasked, Loading
  <2>2. ASSUME NEW p \in Packages \ crossed
        PROVE  Current(p)'
    BY <1>1, <1>2, <1>6, <2>2 DEF InTurn, Current, Found, Alone, ToDo, Cached, Shown, Plans
  <2> QED
    BY <1>1, <2>1, <2>2 DEF InTurn
<1> QED
  BY <1>5, <1>6

LEMMA PageRefreshesKeeps ==
    ASSUME Typed, NEW page \in Pages, PageRefreshes(page)
    PROVE  Typed' /\ (InTurn => InTurn')
<1>1. /\ UNCHANGED <<installed, latest, cache, shown, notice, history, ended, crossed, restarts>>
      /\ apply[page].pc = "refreshing" /\ apply[page] \in Run /\ ~notice /\ scan' = Refreshed
  BY TypedHas DEF PageRefreshes, machine
<1>2. scan' \in Load /\ scan'.stage # "idle" /\ (scan' = scan \/ scan'.stage = "queued")
  BY <1>1, Reload
<1>3. PICK run \in Run : run = apply[page]
  BY <1>1
<1>4. PICK r : r = [run EXCEPT !.pc = "waiting"]
  OBVIOUS
<1>5. r \in Run /\ r.pc = "waiting" /\ r.plan = run.plan /\ r.request = run.request
      /\ r.todo = run.todo
  BY <1>4 DEF Run
<1>6. apply' = [apply EXCEPT ![page] = r]
  BY <1>3, <1>4 DEF PageRefreshes
<1>7. apply' \in [Pages -> Run] /\ apply'[page] = r
      /\ \A other \in Pages : other # page => apply'[other] = apply[other]
  BY <1>5, <1>6, TypedHas
<1>8. TypeOK'
  BY <1>1, <1>2, <1>7, TypedHas, TypesFrom
<1>9. Doable' /\ AppliesWhatWasSeen'
  BY <1>3, <1>5, <1>7 DEF Typed, Doable, AppliesWhatWasSeen
<1>10. Typed'
  BY <1>1, <1>2, <1>8, <1>9 DEF Typed, Agreed
<1>11. ASSUME InTurn
       PROVE  InTurn'
  <2>1. Waits' /\ Unasked'
    BY <1>1, <1>2, <1>11 DEF InTurn, Waits, Unasked, Loading
  <2>2. ASSUME NEW p \in Packages \ crossed
        PROVE  Current(p)'
    <3>1. Found(p) /\ Alone(p) /\ ToDo(p)
      BY <1>11, <2>2 DEF InTurn, Current
    <3>2. Found(p)' /\ Alone(p)' /\ ToDo(p)'
      BY <1>1, <1>2, <1>5, <1>7, <3>1 DEF Found, Alone, ToDo, Plans
    <3>3. Cached(p)' /\ Shown(p)'
      BY <1>2 DEF Cached, Shown
    <3> QED
      BY <3>2, <3>3 DEF Current
  <2> QED
    BY <1>1, <2>1, <2>2 DEF InTurn
<1> QED
  BY <1>10, <1>11

-----------------------------------------------------------------------------
LEMMA ReleaseKeeps ==
    ASSUME Typed, NEW p \in Packages, Release(p)
    PROVE  Typed' /\ (InTurn => InTurn')
<1>1. /\ UNCHANGED <<installed, cache, shown, scan, apply, notice, history, ended, crossed, restarts>>
      /\ latest[p] < MaxVersion /\ latest' = [latest EXCEPT ![p] = @ + 1]
  BY DEF Release
<1>2. latest[p] + 1 \in VersionNumbers
  BY <1>1, TypedHas, BoundsAssumption DEF VersionNumbers
<1>3. latest' \in [Packages -> VersionNumbers]
  BY <1>1, <1>2, TypedHas
<1>4. TypeOK'
  BY <1>1, <1>3, TypedHas, TypesFrom
<1>5. Typed'
  BY <1>1, <1>4, AppliesStay DEF Typed, Agreed
<1>6. InTurn => InTurn'
  BY <1>1, InTurnStays
<1> QED
  BY <1>5, <1>6

LEMMA RestartKeeps ==
    ASSUME Typed, Restart
    PROVE  Typed' /\ (InTurn => InTurn')
<1>1. /\ UNCHANGED <<installed, latest, shown, history, ended, crossed>> /\ cache' = Nothing
      /\ scan' \in Load /\ scan'.stage = "queued" /\ notice' = FALSE
      /\ restarts' = restarts + 1 /\ restarts < MaxRestarts
      /\ apply' = [page \in Pages |-> Idle]
  BY NothingIsNone DEF Restart, machine
<1>2. apply' \in [Pages -> Run] /\ \A page \in Pages : apply'[page] = Idle
  BY <1>1, NothingIsNone
<1>3. restarts' \in 0 .. MaxRestarts
  BY <1>1, TypedHas, BoundsAssumption
<1>4. TypeOK'
  BY <1>1, <1>2, <1>3, TypedHas, TypesFrom, NothingIsNone
<1>5. Doable' /\ AppliesWhatWasSeen' /\ Agreed'
  BY <1>1, <1>2, NothingIsNone DEF Doable, AppliesWhatWasSeen, Agreed
<1>6. ASSUME InTurn
      PROVE  InTurn'
  <2>1. \A page \in Pages : apply'[page].pc = "idle"
    BY <1>2, NothingIsNone
  <2>2. Waits' /\ Unasked'
    BY <1>1, <2>1 DEF Waits, Unasked
  <2>3. ASSUME NEW p \in Packages \ crossed
        PROVE  Current(p)'
    BY <1>1, <2>1 DEF Current, Found, Alone, ToDo, Cached, Shown, Plans
  <2> QED
    BY <1>1, <2>2, <2>3 DEF InTurn
<1> QED
  BY <1>4, <1>5, <1>6 DEF Typed

LEMMA InitHasAll ==
    ASSUME Init
    PROVE  Typed /\ InTurn
<1>1. /\ installed = [p \in Packages |-> 1] /\ latest \in [Packages -> VersionNumbers]
      /\ cache = Nothing /\ scan = Queued /\ apply = [page \in Pages |-> Idle] /\ notice = FALSE
      /\ history = {} /\ ended = {} /\ crossed = {} /\ restarts = 0
  BY DEF Init
<1>2. shown \in [Packages -> Maybe]
  BY DEF Init, Maybe
<1>3. \A page \in Pages : apply[page] = Idle /\ apply[page].pc = "idle" /\ apply[page].todo = {}
                          /\ apply[page].plan = Nothing
  BY <1>1, NothingIsNone
<1>4. TypeOK
  <2>1. 1 \in VersionNumbers /\ 0 \in 0 .. MaxRestarts
    BY BoundsAssumption DEF VersionNumbers
  <2>2. installed \in [Packages -> VersionNumbers]
    BY <1>1, <2>1
  <2>3. apply \in [Pages -> Run] /\ scan \in Load /\ cache \in [Packages -> Maybe]
    BY <1>1, NothingIsNone
  <2> QED
    BY <1>1, <1>2, <2>1, <2>2, <2>3 DEF TypeOK, Load, Run
<1>5. Doable /\ Agreed /\ AppliesWhatWasSeen
  BY <1>1, <1>3, NothingIsNone DEF Doable, Agreed, AppliesWhatWasSeen
<1>6. InTurn
  <2>1. \A page \in Pages : apply[page].pc = "idle"
    BY <1>3
  <2>2. scan.stage = "queued"
    BY <1>1, NothingIsNone
  <2> QED
    BY <2>1, <2>2 DEF InTurn, Waits, Unasked, Current, Found, Alone, ToDo, Cached, Shown, Plans
<1> QED
  BY <1>4, <1>5, <1>6 DEF Typed

LEMMA NextKeeps ==
    ASSUME Typed, [Next]_vars
    PROVE  Typed' /\ (InTurn => InTurn')
<1>1. CASE AskForScan \/ ScanBegins \/ ScanEnds \/ ScanShown \/ NoticeArrives \/ Restart
  BY <1>1, AskForScanKeeps, ScanBeginsKeeps, ScanEndsKeeps, ScanShownKeeps, NoticeArrivesKeeps,
     RestartKeeps
<1>2. ASSUME NEW p \in Packages, SourceAnswers(p) \/ Release(p)
      PROVE  Typed' /\ (InTurn => InTurn')
  BY <1>2, SourceAnswersKeeps, ReleaseKeeps
<1>3. ASSUME NEW page \in Pages, Finish(page) \/ PageRefreshes(page)
      PROVE  Typed' /\ (InTurn => InTurn')
  BY <1>3, FinishKeeps, PageRefreshesKeeps
<1>4. ASSUME NEW page \in Pages, NEW p \in Packages, ApplyEntry(page, p)
      PROVE  Typed' /\ (InTurn => InTurn')
  BY <1>4, ApplyEntryKeeps
<1>5. ASSUME NEW page \in Pages, NEW selection \in SUBSET Packages, Install(page, selection)
      PROVE  Typed' /\ (InTurn => InTurn')
  BY <1>5, InstallKeeps
<1>6. CASE UNCHANGED vars
  <2>1. Typed'
    BY <1>6 DEF vars, Typed, TypeOK, Doable, Agreed, AppliesWhatWasSeen
  <2>2. InTurn => InTurn'
    BY <1>6, InTurnStays DEF vars
  <2> QED
    BY <2>1, <2>2
<1> QED
  BY <1>1, <1>2, <1>3, <1>4, <1>5, <1>6 DEF Next, Work

\* Only an entry that lands changes what is installed.
LEMMA NothingGoesBack ==
    ASSUME Typed, InTurn, [Next]_vars
    PROVE  [\A p \in Packages : installed'[p] >= installed[p] \/ p \in crossed]_vars
<1>1. SUFFICES ASSUME Next
               PROVE  \A p \in Packages : installed'[p] >= installed[p] \/ p \in crossed
  BY DEF vars
<1>2. \A p \in Packages : installed[p] \in Nat
  BY TypedHas DEF VersionNumbers
<1>3. ASSUME NEW page \in Pages, NEW p \in Packages, ApplyEntry(page, p)
      PROVE  \A q \in Packages : installed'[q] >= installed[q] \/ q \in crossed
  BY <1>3, ApplyEntryKeeps
<1>4. ASSUME UNCHANGED installed
      PROVE  \A q \in Packages : installed'[q] >= installed[q]
  BY <1>2, <1>4
<1>5. \/ \E page \in Pages, p \in Packages : ApplyEntry(page, p)
      \/ UNCHANGED installed
  BY <1>1 DEF Next, Work, AskForScan, ScanBegins, SourceAnswers, ScanEnds, ScanShown, Install,
              Finish, NoticeArrives, PageRefreshes, Release, Restart, machine
<1> QED
  BY <1>3, <1>4, <1>5

LEMMA TypedIsInvariant == Spec => []Typed
<1>1. Init => Typed
  BY InitHasAll
<1>2. Typed /\ [Next]_vars => Typed'
  BY NextKeeps
<1> QED
  BY <1>1, <1>2, PTL DEF Spec

LEMMA InTurnIsInvariant == Spec => []InTurn
<1>1. Init => InTurn
  BY InitHasAll
<1>2. Typed /\ InTurn /\ [Next]_vars => InTurn'
  BY NextKeeps
<1> QED
  BY <1>1, <1>2, TypedIsInvariant, PTL DEF Spec

\* Whatever overlaps, the cache, the list and the plan of every apply hold offers of
\* versions that exist, and every version stays within bounds.
THEOREM ScanTypeCorrect == Spec => []TypeOK
<1>1. Typed => TypeOK
  BY DEF Typed
<1> QED
  BY <1>1, TypedIsInvariant, PTL

\* With any number of pages, and with scans and applies that overlap: what `apply` takes
\* from the scan cache is, version for version, what the list showed (commands.rs:428).
THEOREM AppliesWhatWasSeenHolds == Spec => []AppliesWhatWasSeen
<1>1. Typed => AppliesWhatWasSeen
  BY DEF Typed
<1> QED
  BY <1>1, TypedIsInvariant, PTL

\* With any number of pages, applies and scans side by side: once everything has settled, what
\* the list shows of a package is for the version that is installed, unless an apply dealt with
\* the package while a scan that had its answer of it already was under way, or together with
\* another apply (commands.rs:514, store.tsx:182).
THEOREM ShownIsCurrentHolds == Spec => []ShownIsCurrent
<1>1. ASSUME Typed, InTurn, Settled, NEW p \in Packages \ crossed, shown[p] # <<>>
      PROVE  shown[p][1].from = installed[p]
  <2>1. scan.stage = "idle" /\ ~notice /\ \A page \in Pages : apply[page].pc = "idle"
    BY <1>1 DEF Settled, Loading, Applying
  <2> QED
    BY <1>1, <2>1 DEF InTurn, Current, Shown
<1>2. Typed /\ InTurn => ShownIsCurrent
  BY <1>1 DEF ShownIsCurrent
<1> QED
  BY <1>2, TypedIsInvariant, InTurnIsInvariant, PTL

\* Likewise, no step of the GUI replaces what is installed by something older, although the
\* plan of an apply is as old as the scan it comes from and others may run beside it, unless
\* two of them have crossed.
THEOREM NeverBackwardsHolds == Spec => NeverBackwards
<1>1. Typed /\ InTurn /\ [Next]_vars
         => [\A p \in Packages : installed'[p] >= installed[p] \/ p \in crossed]_vars
  BY NothingGoesBack
<1> QED
  BY <1>1, TypedIsInvariant, InTurnIsInvariant, PTL DEF Spec, NeverBackwards
=============================================================================
