-------------------------- MODULE UnattendedProofs --------------------------
(***************************************************************************)
(* What a machine nobody is sitting at is promised, for every set of       *)
(* backends whose read-backs can be trusted and any number of versions:    *)
(* proofs about module Unattended.  That each backend of the program is    *)
(* such a one is proved first.                                             *)
(***************************************************************************)
EXTENDS Unattended, TLAPS

KnowsWhatIsThere(s) == s.scan = "outdated" \/ s.from \subseteq {"live", "unknown"}

\* What a scan that knows what is installed has to go with: a read-back of the machine, not
\* of a name; and an offer that is a constant is not what the tool installs, nor confirmed.
Fits(s) ==
    KnowsWhatIsThere(s) =>
        /\ s.reads \notin {"name", "fixed"}
        /\ "fixed" \in s.to => s.runs # "target" /\ s.reads = "never"

LEMMA PackageManagersFit ==
    \A s \in {Apt, Dnf, Zypper, Pacman, Snap, Chocolatey, Winget, MsStore, Flatpak, Homebrew,
              Scoop, Nix, AppImage} : Fits(s)
<1>1. Fits(Apt) /\ Fits(Dnf) /\ Fits(Zypper) /\ Fits(Pacman)
  BY DEF Fits, KnowsWhatIsThere, Apt, Dnf, Zypper, Pacman
<1>2. Fits(Snap) /\ Fits(Chocolatey) /\ Fits(Winget) /\ Fits(MsStore)
  BY DEF Fits, KnowsWhatIsThere, Apt, Snap, Chocolatey, Winget, MsStore
<1>3. Fits(Flatpak) /\ Fits(Homebrew) /\ Fits(Scoop)
  BY DEF Fits, KnowsWhatIsThere, Apt, Flatpak, Homebrew, Scoop
<1>4. Fits(Nix) /\ Fits(AppImage)
  BY DEF Fits, KnowsWhatIsThere, Apt, Nix, AppImage
<1> QED
  BY <1>1, <1>2, <1>3, <1>4

LEMMA LanguagesFit ==
    \A s \in {Pip, Cargo, Npm, Go, DotnetTool, PowerShellModule, Vscode, Jetbrains,
              OptionalFeature} : Fits(s)
<1>1. Fits(Pip) /\ Fits(Cargo) /\ Fits(Npm) /\ Fits(Go)
  BY DEF Fits, KnowsWhatIsThere, Apt, Pip, Cargo, Npm, Go
<1>2. Fits(DotnetTool) /\ Fits(PowerShellModule)
  BY DEF Fits, KnowsWhatIsThere, Apt, Pip, Go, DotnetTool, PowerShellModule
<1>3. Fits(Vscode) /\ Fits(Jetbrains)
  BY DEF Fits, KnowsWhatIsThere, Apt, Nix, Vscode, Jetbrains
<1>4. Fits(OptionalFeature)
  <2>1. OptionalFeature.scan = "nothing" /\ OptionalFeature.from = {"fixed"}
    BY DEF Apt, OptionalFeature
  <2> QED
    BY <2>1 DEF Fits, KnowsWhatIsThere
<1> QED
  BY <1>1, <1>2, <1>3, <1>4

LEMMA DriversFit ==
    \A s \in {Nvidia, Amd, Intel, Qualcomm, GeForceExperience, IntelDsa, Guest} : Fits(s)
<1>1. Fits(Nvidia) /\ Fits(Amd) /\ Fits(Intel)
  BY DEF Fits, KnowsWhatIsThere, Apt, Nvidia, Amd, Intel
<1>2. Fits(Qualcomm) /\ Fits(Guest)
  BY DEF Fits, KnowsWhatIsThere, Apt, Amd, Qualcomm, Guest
<1>3. Fits(GeForceExperience) /\ Fits(IntelDsa)
  BY DEF Fits, KnowsWhatIsThere, Apt, GeForceExperience, IntelDsa
<1> QED
  BY <1>1, <1>2, <1>3

LEMMA VendorsFit ==
    \A s \in {Msi, Asus, Gigabyte, Acer, Razer, Dell, Hp, Lenovo, DellFirmware, HpFirmware,
              LenovoFirmware, Fwupd, MacSoftwareUpdate, MacFirmware} : Fits(s)
<1>1. Fits(Msi) /\ Fits(Asus) /\ Fits(Gigabyte) /\ Fits(Acer) /\ Fits(Razer)
  BY DEF Fits, KnowsWhatIsThere, Apt, VendorCenter, Msi, Asus, Gigabyte, Acer, Razer
<1>2. Fits(Dell) /\ Fits(Hp) /\ Fits(Lenovo)
  BY DEF Fits, KnowsWhatIsThere, Apt, Dell, Hp, Lenovo
<1>3. Fits(DellFirmware) /\ Fits(HpFirmware) /\ Fits(LenovoFirmware)
  BY DEF Fits, KnowsWhatIsThere, Apt, Dell, DellFirmware, HpFirmware, LenovoFirmware
<1>4. Fits(Fwupd) /\ Fits(MacSoftwareUpdate) /\ Fits(MacFirmware)
  BY DEF Fits, KnowsWhatIsThere, Apt, Fwupd, MacSoftwareUpdate, MacFirmware
<1> QED
  BY <1>1, <1>2, <1>3, <1>4

\* Every backend of the program whose scan knows what is installed (module Backends) also reads
\* it back from the machine, and none confirms or installs an offer that is a constant.
THEOREM EveryBackendFits == \A s \in Everything : Fits(s)
<1>1. ASSUME NEW s \in Everything
      PROVE  \/ s \in {Apt, Dnf, Zypper, Pacman, Snap, Chocolatey, Winget, MsStore, Flatpak,
                       Homebrew, Scoop, Nix, AppImage}
             \/ s \in {Pip, Cargo, Npm, Go, DotnetTool, PowerShellModule, Vscode, Jetbrains,
                       OptionalFeature}
             \/ s \in {Nvidia, Amd, Intel, Qualcomm, GeForceExperience, IntelDsa, Guest}
             \/ s \in {Msi, Asus, Gigabyte, Acer, Razer, Dell, Hp, Lenovo, DellFirmware,
                       HpFirmware, LenovoFirmware, Fwupd, MacSoftwareUpdate, MacFirmware}
  BY DEF Everything
<1> QED
  BY <1>1, PackageManagersFit, LanguagesFit, DriversFit, VendorsFit

-----------------------------------------------------------------------------
(* What the policy lets through.                                           *)

\* Of two versions of one number each, only the smaller is upgraded to the larger, and one
\* that nobody could read is neither.
LEMMA UpgradesGoUp ==
    ASSUME NEW a \in Raws, NEW b \in Raws, IsUpgradeTo(ParseOf[a], ParseOf[b])
    PROVE  a \in 0 .. MaxVersion /\ b \in 0 .. MaxVersion /\ a < b
<1> DEFINE P(r) == Parsed(<<Num(r)>>, <<>>)
<1>1. ParseOf[a].known /\ ParseOf[b].known /\ Less(ParseOf[a], ParseOf[b])
  BY DEF IsUpgradeTo, Compare
<1>2. ASSUME NEW r \in Raws, ParseOf[r].known
      PROVE  r \in 0 .. MaxVersion /\ ParseOf[r] = P(r)
  BY <1>2, VersionsAssumption DEF Unknown
<1>3. a \in 0 .. MaxVersion /\ b \in 0 .. MaxVersion /\ ParseOf[a] = P(a) /\ ParseOf[b] = P(b)
  BY <1>1, <1>2
<1>4. P(a).release = <<Num(a)>> /\ P(b).release = <<Num(b)>> /\ P(a).pre = <<>> /\ P(b).pre = <<>>
  BY DEF Parsed
<1>5. ReleaseLess(ParseOf[a], ParseOf[b])
  BY <1>1, <1>3, <1>4 DEF Less, PreLess
<1>6. Longer(P(a).release, P(b).release) = 1
  BY <1>4 DEF Longer
<1>7. ReleaseAt(P(a), 1) = Num(a) /\ ReleaseAt(P(b), 1) = Num(b)
  BY <1>4 DEF ReleaseAt
<1>8. SegmentLess(Num(a), Num(b))
  <2>1. PICK i \in 1 .. Longer(P(a).release, P(b).release) :
            SegmentLess(ReleaseAt(P(a), i), ReleaseAt(P(b), i))
    BY <1>3, <1>5 DEF ReleaseLess
  <2>2. i = 1
    BY <1>6, <2>1
  <2> QED
    BY <1>7, <2>1, <2>2
<1> QED
  BY <1>3, <1>8 DEF SegmentLess, Num

\* What passes the policy is an upgrade.
LEMMA ActionableIsAnUpgrade ==
    ASSUME NEW policy, NEW c, Actionable(policy, c)
    PROVE  IsUpgradeTo(ParseOf[c.installed], ParseOf[c.available])
BY DEF Actionable, Evaluate

-----------------------------------------------------------------------------
(* The invariant.                                                          *)

\* An offer that was a constant is never confirmed; an approval is still an upgrade unless
\* somebody touched the package, and then nothing has been reported that could be taken back.
StillAnUpgrade ==
    /\ source.reads = "never" => confirmed = 0
    /\ task.pc = "approved" /\ touched => confirmed = 0
    /\ task.pc = "approved" /\ KnowsInstalled /\ ~touched =>
           installed <= newest /\ (source.runs = "target" => installed <= task.to)

UnattendedInv == TypeOK /\ UpdatedIsThere /\ StillAnUpgrade

\* The parts of the type invariant and what the constants are.
LEMMA Typed ==
    ASSUME TypeOK
    PROVE  /\ MaxVersion \in Nat /\ MaxVersion >= 1 /\ NoVersion = -1
           /\ Raws = {NoVersion} \union (0 .. MaxVersion)
           /\ source \in Sources /\ memo \in Raws
           /\ installed \in 0 .. MaxVersion /\ newest \in 1 .. MaxVersion
           /\ confirmed \in 0 .. MaxVersion
           /\ task.pc # "idle" => task \in [who : Programs, pc : {"approved", "confirming", "done"},
                                            to : 0 .. MaxVersion]
BY VersionsAssumption DEF TypeOK, NoVersion, Idle

\* A candidate that is approved offers a version that is later than the one it was compared
\* with; a scan that knows what is installed offers one the machine does not have.
LEMMA ApprovedIsNewer ==
    ASSUME TypeOK, Lists, NEW who, NEW c \in Candidates(who), Approved(who, c)
    PROVE  /\ c.available \in 1 .. MaxVersion
           /\ KnowsInstalled /\ Fits(source) =>
                /\ installed <= newest
                /\ installed < c.available \/ (source.runs # "target" /\ source.reads = "never")
<1>1. PICK f \in source.from : c.installed = ReadsOf(who, f)
  BY DEF Candidates
<1>2. PICK t \in source.to : c.available = OfferOf(t)
  BY DEF Candidates
<1>3. ReadsOf(who, f) \in Raws /\ OfferOf(t) \in Raws
  BY Typed DEF ReadsOf, Remembered, OfferOf
<1>4. IsUpgradeTo(ParseOf[c.installed], ParseOf[c.available])
  BY ActionableIsAnUpgrade DEF Approved
<1>5. c.installed \in 0 .. MaxVersion /\ c.available \in 0 .. MaxVersion /\ c.installed < c.available
  BY <1>1, <1>2, <1>3, <1>4, UpgradesGoUp
<1>6. c.available \in 1 .. MaxVersion
  BY <1>5, Typed
<1>7. (t = "newest" /\ c.available = newest) \/ (t = "fixed" /\ c.available = 1)
  BY <1>2, <1>6 DEF OfferOf, NoVersion
<1>8. ASSUME KnowsInstalled, Fits(source)
      PROVE  /\ installed <= newest
             /\ installed < c.available \/ (source.runs # "target" /\ source.reads = "never")
  <2>1. KnowsWhatIsThere(source)
    BY <1>8 DEF KnowsInstalled, KnowsWhatIsThere
  <2>2. CASE source.scan = "outdated"
    <3>1. installed < newest
      BY <2>2 DEF Lists
    <3>2. CASE t = "newest"
      BY <1>7, <3>1, <3>2, Typed
    <3>3. CASE t = "fixed"
      BY <1>8, <2>1, <3>1, <3>3, Typed DEF Fits
    <3> QED
      BY <1>7, <3>2, <3>3
  <2>3. CASE source.from \subseteq {"live", "unknown"}
    <3>1. c.installed = installed
      BY <1>1, <1>5, <2>3 DEF ReadsOf, NoVersion
    <3> QED
      BY <1>5, <1>7, <3>1, Typed
  <2> QED
    BY <1>8, <2>2, <2>3 DEF KnowsInstalled
<1> QED
  BY <1>6, <1>8

-----------------------------------------------------------------------------
(* Each step keeps it.                                                     *)

\* What a round in progress is, field by field.
LEMMA InRound ==
    ASSUME TypeOK, task.pc \in {"approved", "confirming", "done"}
    PROVE  /\ task \in [who : Programs, pc : {"approved", "confirming", "done"}, to : 0 .. MaxVersion]
           /\ task.to \in 0 .. MaxVersion
BY Typed

LEMMA GoesOn ==
    ASSUME TypeOK, task.pc \in {"approved", "confirming", "done"}, NEW pc \in {"confirming", "done"},
           Round(pc)
    PROVE  /\ task' \in [who : Programs, pc : {"approved", "confirming", "done"}, to : 0 .. MaxVersion]
           /\ task'.pc # "approved"
BY InRound DEF Round

LEMMA ScanKeeps ==
    ASSUME UnattendedInv, \A s \in Sources : Fits(s), NEW who \in Programs,
           NEW list, list = {} \/ (Lists /\ \E c \in Candidates(who) : list = {c}), Scan(who, list)
    PROVE  UnattendedInv'
<1>1. TypeOK /\ Fits(source) /\ source \in Sources
  BY DEF UnattendedInv, TypeOK
<1>2. UNCHANGED <<source, elevated, installed, newest, config, mains, daemon, confirmed>> /\ touched' = FALSE
  BY DEF Scan, world
<1>3. memo' \in Raws
  BY <1>1, Typed DEF Scan, Remember, Remembered
<1>4. CASE \E c \in list : Approved(who, c)
  <2>1. PICK c \in Candidates(who) : Approved(who, c) /\ list = {c} /\ Lists
    BY <1>4
  <2>2. task' = [who |-> who, pc |-> "approved", to |-> c.available]
    BY <1>4, <2>1 DEF Scan
  <2>3. /\ c.available \in 1 .. MaxVersion
        /\ KnowsInstalled /\ Fits(source) =>
             /\ installed <= newest
             /\ installed < c.available \/ (source.runs # "target" /\ source.reads = "never")
    BY <1>1, <2>1, ApprovedIsNewer
  <2>4. TypeOK'
    <3>1. c.available \in 0 .. MaxVersion
      BY <1>1, <2>3, Typed
    <3>2. task' \in [who : Programs, pc : {"approved", "confirming", "done"}, to : 0 .. MaxVersion]
      BY <2>2, <3>1
    <3> QED
      BY <1>1, <1>2, <1>3, <3>2 DEF TypeOK
  <2>5. UpdatedIsThere'
    BY <1>2 DEF UnattendedInv, UpdatedIsThere, KnowsInstalled
  <2>6. StillAnUpgrade'
    <3>1. KnowsInstalled => installed <= newest /\ (source.runs = "target" => installed <= c.available)
      BY <1>1, <2>3, Typed
    <3> QED
      BY <1>2, <2>2, <3>1 DEF UnattendedInv, StillAnUpgrade, KnowsInstalled
  <2> QED
    BY <2>4, <2>5, <2>6 DEF UnattendedInv
<1>5. CASE ~\E c \in list : Approved(who, c)
  <2>1. task' = Idle
    BY <1>5 DEF Scan
  <2>2. TypeOK'
    BY <1>1, <1>2, <1>3, <2>1 DEF TypeOK
  <2>3. UpdatedIsThere' /\ StillAnUpgrade'
    BY <1>2, <2>1 DEF UnattendedInv, UpdatedIsThere, StillAnUpgrade, KnowsInstalled, Idle
  <2> QED
    BY <2>2, <2>3 DEF UnattendedInv
<1> QED
  BY <1>4, <1>5

\* Where the tool leaves the package is no step back while the approval is an upgrade.
LEMMA LandsForward ==
    ASSUME UnattendedInv, task.pc = "approved", ~Refuses, NEW v \in Lands
    PROVE  /\ v \in 0 .. MaxVersion
           /\ KnowsInstalled /\ ~touched => v >= installed
<1>1. TypeOK /\ task.to \in 0 .. MaxVersion
  BY InRound DEF UnattendedInv
<1>2. (v = 0 /\ installed = 0) \/ (v = task.to /\ source.runs = "target") \/ v = newest
  BY DEF Lands
<1> QED
  BY <1>1, <1>2, Typed DEF UnattendedInv, StillAnUpgrade

LEMMA InstallsKeeps ==
    ASSUME UnattendedInv, NEW ok \in BOOLEAN, Installs(ok)
    PROVE  UnattendedInv'
<1>1. TypeOK /\ task.pc = "approved" /\ ~Refuses /\ installed' \in Lands
  BY DEF UnattendedInv, Installs
<1>2. UNCHANGED <<source, elevated, newest, memo, config, mains, daemon, confirmed, touched>>
  BY DEF Installs
<1>3. /\ task' \in [who : Programs, pc : {"approved", "confirming", "done"}, to : 0 .. MaxVersion]
      /\ task'.pc # "approved"
  BY <1>1, GoesOn DEF Installs
<1>4. installed' \in 0 .. MaxVersion /\ (KnowsInstalled /\ ~touched => installed' >= installed)
  BY <1>1, LandsForward
<1>5. TypeOK'
  BY <1>1, <1>2, <1>3, <1>4 DEF TypeOK
<1>6. UpdatedIsThere'
  <2>1. KnowsInstalled => confirmed <= installed'
    BY <1>1, <1>4, Typed DEF UnattendedInv, UpdatedIsThere, StillAnUpgrade
  <2> QED
    BY <1>2, <2>1 DEF UpdatedIsThere, KnowsInstalled
<1>7. StillAnUpgrade'
  BY <1>2, <1>3 DEF UnattendedInv, StillAnUpgrade
<1> QED
  BY <1>5, <1>6, <1>7 DEF UnattendedInv

LEMMA LeavesItKeeps ==
    ASSUME UnattendedInv, NEW ok \in BOOLEAN, LeavesIt(ok)
    PROVE  UnattendedInv'
<1>1. TypeOK /\ task.pc = "approved"
  BY DEF UnattendedInv, LeavesIt
<1>2. UNCHANGED <<source, elevated, installed, newest, memo, config, mains, daemon, confirmed, touched>>
  BY DEF LeavesIt, world
<1>3. /\ task' \in [who : Programs, pc : {"approved", "confirming", "done"}, to : 0 .. MaxVersion]
      /\ task'.pc # "approved"
  BY <1>1, GoesOn DEF LeavesIt
<1>4. TypeOK'
  BY <1>1, <1>2, <1>3 DEF TypeOK
<1>5. UpdatedIsThere' /\ StillAnUpgrade'
  BY <1>2, <1>3 DEF UnattendedInv, UpdatedIsThere, StillAnUpgrade, KnowsInstalled
<1> QED
  BY <1>4, <1>5 DEF UnattendedInv

\* What is read back is on the machine, where the read-back is not of a name.
LEMMA ReadBackIsThere ==
    ASSUME TypeOK, KnowsInstalled, Fits(source)
    PROVE  ReadBack \in {installed, NoVersion}
<1>1. source.reads \notin {"name", "fixed"}
  BY DEF Fits, KnowsWhatIsThere, KnowsInstalled
<1> QED
  BY <1>1 DEF ReadBack

LEMMA ConfirmKeeps ==
    ASSUME UnattendedInv, \A s \in Sources : Fits(s),
           NEW read \in {ReadBack, NoVersion}, Confirm(read)
    PROVE  UnattendedInv'
<1>1. TypeOK /\ task.pc = "confirming" /\ Fits(source)
  BY DEF UnattendedInv, Confirm, TypeOK
<1>2. UNCHANGED <<source, elevated, installed, newest, memo, config, mains, daemon, touched>>
  BY DEF Confirm, world
<1>3. /\ task' \in [who : Programs, pc : {"approved", "confirming", "done"}, to : 0 .. MaxVersion]
      /\ task'.pc # "approved"
  BY <1>1, GoesOn DEF Confirm
<1>4. confirmed' = confirmed \/ (confirmed' = read /\ read # NoVersion)
  BY DEF Confirm
<1>5. read \in Raws
  BY <1>1, InRound, Typed DEF ReadBack
<1>6. confirmed' \in 0 .. MaxVersion
  BY <1>1, <1>4, <1>5, Typed
<1>7. TypeOK'
  BY <1>1, <1>2, <1>3, <1>6 DEF TypeOK
<1>8. UpdatedIsThere'
  <2>1. KnowsInstalled => confirmed' <= installed
    BY <1>1, <1>4, ReadBackIsThere, Typed DEF UnattendedInv, UpdatedIsThere
  <2> QED
    BY <1>2, <2>1 DEF UpdatedIsThere, KnowsInstalled
<1>9. StillAnUpgrade'
  <2>1. source.reads = "never" => confirmed' = 0
    BY <1>4 DEF UnattendedInv, StillAnUpgrade, ReadBack
  <2> QED
    BY <1>2, <1>3, <2>1 DEF StillAnUpgrade
<1> QED
  BY <1>7, <1>8, <1>9 DEF UnattendedInv

LEMMA EndRoundKeeps ==
    ASSUME UnattendedInv, EndRound
    PROVE  UnattendedInv'
<1>1. TypeOK /\ task' = Idle
      /\ UNCHANGED <<source, elevated, installed, newest, memo, config, mains, daemon, confirmed, touched>>
  BY DEF UnattendedInv, EndRound, world
<1>2. TypeOK'
  BY <1>1 DEF TypeOK
<1>3. UpdatedIsThere' /\ StillAnUpgrade'
  BY <1>1 DEF UnattendedInv, UpdatedIsThere, StillAnUpgrade, KnowsInstalled, Idle
<1> QED
  BY <1>2, <1>3 DEF UnattendedInv

\* The daemon's process begins and ends; the machine goes on and off mains power, its config
\* breaks and is mended: no version is touched by any of it.
LEMMA TheRestKeeps ==
    ASSUME UnattendedInv,
           DaemonEnds \/ StartDaemon \/ PlugOrUnplug \/ ConfigBreaks \/ ConfigMended
    PROVE  UnattendedInv'
<1>1. TypeOK /\ UNCHANGED <<source, elevated, installed, newest, task, confirmed, touched>>
  BY DEF UnattendedInv, DaemonEnds, StartDaemon, PlugOrUnplug, ConfigBreaks, ConfigMended, world
<1>2. memo' \in Raws /\ config' \in {"readable", "broken"} /\ mains' \in BOOLEAN /\ daemon' \in BOOLEAN
  BY Typed DEF UnattendedInv, TypeOK, DaemonEnds, StartDaemon, PlugOrUnplug, ConfigBreaks,
               ConfigMended, world
<1>3. TypeOK'
  BY <1>1, <1>2 DEF TypeOK
<1>4. UpdatedIsThere' /\ StillAnUpgrade'
  BY <1>1 DEF UnattendedInv, UpdatedIsThere, StillAnUpgrade, KnowsInstalled
<1> QED
  BY <1>3, <1>4 DEF UnattendedInv

\* A newer release is published: what was approved is still no step back.
LEMMA PublishKeeps ==
    ASSUME UnattendedInv, Publish
    PROVE  UnattendedInv'
<1>1. /\ TypeOK /\ newest' = newest + 1 /\ newest < MaxVersion
      /\ UNCHANGED <<source, elevated, installed, config, mains, memo, task, daemon, confirmed, touched>>
  BY DEF UnattendedInv, Publish
<1>2. newest' \in 1 .. MaxVersion /\ newest <= newest'
  BY <1>1, Typed
<1>3. TypeOK'
  BY <1>1, <1>2 DEF TypeOK
<1>4. UpdatedIsThere'
  BY <1>1 DEF UnattendedInv, UpdatedIsThere, KnowsInstalled
<1>5. StillAnUpgrade'
  <2>1. installed <= newest => installed <= newest'
    BY <1>1, <1>2, Typed
  <2> QED
    BY <1>1, <2>1 DEF UnattendedInv, StillAnUpgrade, KnowsInstalled
<1> QED
  BY <1>3, <1>4, <1>5 DEF UnattendedInv

LEMMA ChangedOutsideKeeps ==
    ASSUME UnattendedInv, NEW v \in 0 .. MaxVersion, ChangedOutside(v)
    PROVE  UnattendedInv'
<1>1. /\ TypeOK /\ installed' = v /\ confirmed' = 0 /\ touched' = TRUE
      /\ UNCHANGED <<source, elevated, newest, config, mains, memo, task, daemon>>
  BY DEF UnattendedInv, ChangedOutside
<1>2. TypeOK'
  BY <1>1, Typed DEF TypeOK
<1>3. UpdatedIsThere' /\ StillAnUpgrade'
  BY <1>1, Typed DEF UpdatedIsThere, StillAnUpgrade
<1> QED
  BY <1>2, <1>3 DEF UnattendedInv

LEMMA UnattendedStarts == Init => UnattendedInv
<1> SUFFICES ASSUME Init PROVE UnattendedInv
  OBVIOUS
<1>1. TypeOK
  <2>1. MaxVersion \in Nat \ {0} /\ NoVersion \in Raws
    BY VersionsAssumption
  <2>2. newest \in 1 .. MaxVersion /\ confirmed \in 0 .. MaxVersion
    BY <2>1 DEF Init
  <2> QED
    BY <2>1, <2>2 DEF Init, TypeOK
<1>2. UpdatedIsThere /\ StillAnUpgrade
  BY <1>1, Typed DEF Init, UpdatedIsThere, StillAnUpgrade, Idle
<1> QED
  BY <1>1, <1>2 DEF UnattendedInv

\* Which lists a scan may come back with.
LEMMA WhatIsFound ==
    ASSUME NEW who, NEW list \in FoundAll(who)
    PROVE  list = {} \/ (Lists /\ \E c \in Candidates(who) : list = {c})
BY DEF FoundAll

LEMMA UnattendedKeeps ==
    ASSUME \A s \in Sources : Fits(s), UnattendedInv, [Next]_vars
    PROVE  UnattendedInv'
<1>1. CASE UNCHANGED vars
  BY <1>1 DEF vars, world, UnattendedInv, TypeOK, UpdatedIsThere, StillAnUpgrade, KnowsInstalled
<1>2. ASSUME NEW who \in Programs, ScanFails(who) PROVE UnattendedInv'
  BY <1>2, ScanKeeps DEF ScanFails
<1>3. ASSUME NEW who \in Programs, ScanFinds(who) PROVE UnattendedInv'
  <2>1. PICK list \in FoundAll(who) : Scan(who, list)
    BY <1>3 DEF ScanFinds
  <2> QED
    BY <2>1, WhatIsFound, ScanKeeps
<1>4. ASSUME RoundStep PROVE UnattendedInv'
  BY <1>4, InstallsKeeps, LeavesItKeeps, ConfirmKeeps, EndRoundKeeps DEF RoundStep
<1> QED
  BY <1>1, <1>2, <1>3, <1>4, TheRestKeeps, PublishKeeps, ChangedOutsideKeeps DEF Next

-----------------------------------------------------------------------------
(* The theorems, for any set of the program's backends and any number of   *)
(* versions.                                                               *)

LEMMA UnattendedInvHolds ==
    ASSUME Sources \subseteq Everything
    PROVE  Spec => []UnattendedInv
<1>1. \A s \in Sources : Fits(s)
  BY EveryBackendFits
<1>2. UnattendedInv /\ [Next]_vars => UnattendedInv'
  BY <1>1, UnattendedKeeps
<1> QED
  BY <1>2, UnattendedStarts, PTL DEF Spec

\* The variables keep their types: a round that has approved something has a program behind it
\* and a version that could be read, whatever the source offers (policy.rs, runner.rs).
THEOREM UnattendedTypeCorrect ==
    ASSUME Sources \subseteq Everything
    PROVE  Spec => []TypeOK
<1>1. UnattendedInv => TypeOK
  BY DEF UnattendedInv
<1> QED
  BY <1>1, UnattendedInvHolds, PTL

\* What Runner::confirm has reported as installed is on the machine in that version through all
\* later rounds of the daemon and of care, until somebody else changes the package.
THEOREM UpdatedIsThereHolds ==
    ASSUME Sources \subseteq Everything
    PROVE  Spec => []UpdatedIsThere
<1>1. UnattendedInv => UpdatedIsThere
  BY DEF UnattendedInv
<1> QED
  BY <1>1, UnattendedInvHolds, PTL

\* An unattended round never leaves an older version than it found, although the newest version
\* may have moved and the tool may install another one than was approved.
THEOREM MovesForwardHolds ==
    ASSUME Sources \subseteq Everything
    PROVE  Spec => MovesForward
<1> DEFINE Forward == task.pc = "approved" /\ task'.pc # "approved" /\ KnowsInstalled /\ ~touched
                          => installed' >= installed
<1>1. UnattendedInv /\ [Next]_vars => [Forward]_vars
  <2> SUFFICES ASSUME UnattendedInv, [Next]_vars PROVE [Forward]_vars
    OBVIOUS
  <2>1. installed \in Nat /\ TypeOK
    BY Typed DEF UnattendedInv
  <2>2. ASSUME installed' = installed PROVE Forward
    BY <2>1, <2>2
  <2>3. ASSUME NEW ok \in BOOLEAN, Installs(ok) PROVE Forward
    <3>1. installed' \in Lands /\ task.pc = "approved" /\ ~Refuses
      BY <2>3 DEF Installs
    <3>2. KnowsInstalled /\ ~touched => installed' >= installed
      BY <3>1, LandsForward
    <3> QED
      BY <3>2
  <2>4. ASSUME NEW v \in 0 .. MaxVersion, ChangedOutside(v) PROVE Forward
    BY <2>4 DEF ChangedOutside
  <2>5. ASSUME RoundStep PROVE Forward
    <3>1. ASSUME NEW ok \in BOOLEAN, LeavesIt(ok) PROVE installed' = installed
      BY <3>1 DEF LeavesIt, world
    <3>2. ASSUME NEW read \in {ReadBack, NoVersion}, Confirm(read) PROVE installed' = installed
      BY <3>2 DEF Confirm, world
    <3>3. ASSUME EndRound PROVE installed' = installed
      BY <3>3 DEF EndRound, world
    <3> QED
      BY <2>2, <2>3, <2>5, <3>1, <3>2, <3>3 DEF RoundStep
  <2>6. ASSUME NEW who \in Programs, ScanFails(who) \/ ScanFinds(who) PROVE installed' = installed
    BY <2>6 DEF ScanFails, ScanFinds, Scan, world
  <2>7. ASSUME DaemonEnds \/ StartDaemon \/ Publish \/ PlugOrUnplug \/ ConfigBreaks \/ ConfigMended
        PROVE  installed' = installed
    BY <2>7 DEF DaemonEnds, StartDaemon, Publish, PlugOrUnplug, ConfigBreaks, ConfigMended, world
  <2> HIDE DEF Forward
  <2> QED
    BY <2>2, <2>4, <2>5, <2>6, <2>7 DEF Next
<1>2. Spec => [][Forward]_vars
  BY <1>1, UnattendedInvHolds, PTL DEF Spec
<1> QED
  BY <1>2 DEF MovesForward

\* What a round has confirmed is installed again by no later one, although each of them knows
\* nothing but its own scan: the daemon comes to rest (cli/src/daemon.rs).
THEOREM ComesToRestHolds ==
    ASSUME Sources \subseteq Everything
    PROVE  Spec => ComesToRest
<1> DEFINE Newer == task = Idle /\ task'.pc = "approved" /\ KnowsInstalled => task'.to > confirmed
<1>1. UnattendedInv /\ [Next]_vars => [Newer]_vars
  <2> SUFFICES ASSUME UnattendedInv, [Next]_vars PROVE [Newer]_vars
    OBVIOUS
  <2>1. TypeOK /\ source \in Sources /\ Fits(source)
    BY EveryBackendFits DEF UnattendedInv, TypeOK
  <2>2. ASSUME task' = task PROVE Newer
    BY <2>2 DEF Idle
  <2>3. ASSUME NEW who \in Programs, NEW list, list = {} \/ (Lists /\ \E c \in Candidates(who) : list = {c}),
               Scan(who, list)
        PROVE  Newer
    <3>1. CASE \E c \in list : Approved(who, c)
      <4>1. PICK c \in Candidates(who) : Approved(who, c) /\ list = {c} /\ Lists
        BY <2>3, <3>1
      <4>2. task'.to = c.available
        BY <2>3, <3>1, <4>1 DEF Scan
      <4>3. /\ c.available \in 1 .. MaxVersion
            /\ KnowsInstalled => installed < c.available \/ source.reads = "never"
        BY <2>1, <4>1, ApprovedIsNewer
      <4>4. KnowsInstalled => c.available > confirmed
        BY <2>1, <4>3, Typed DEF UnattendedInv, UpdatedIsThere, StillAnUpgrade
      <4> QED
        BY <4>2, <4>4
    <3>2. CASE ~\E c \in list : Approved(who, c)
      BY <2>3, <3>2 DEF Scan, Idle
    <3> QED
      BY <3>1, <3>2
  <2>4. ASSUME NEW who \in Programs, ScanFails(who) \/ ScanFinds(who) PROVE Newer
    BY <2>3, <2>4, WhatIsFound DEF ScanFails, ScanFinds
  <2>5. ASSUME RoundStep PROVE Newer
    BY <2>5 DEF RoundStep, Installs, LeavesIt, Confirm, EndRound, Idle
  <2>6. ASSUME DaemonEnds \/ StartDaemon \/ Publish \/ PlugOrUnplug \/ ConfigBreaks \/ ConfigMended
        PROVE  task' = task
    BY <2>6 DEF DaemonEnds, StartDaemon, Publish, PlugOrUnplug, ConfigBreaks, ConfigMended
  <2>7. ASSUME NEW v \in 0 .. MaxVersion, ChangedOutside(v) PROVE task' = task
    BY <2>7 DEF ChangedOutside
  <2> HIDE DEF Newer
  <2> QED
    BY <2>2, <2>4, <2>5, <2>6, <2>7 DEF Next
<1>2. Spec => [][Newer]_vars
  BY <1>1, UnattendedInvHolds, PTL DEF Spec
<1> QED
  BY <1>2 DEF ComesToRest
=============================================================================
