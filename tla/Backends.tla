------------------------------ MODULE Backends ------------------------------
(***************************************************************************)
(* What each source of updates really asks of the tool behind it: the      *)
(* implementations of the trait Backend in crates/odysync-backends/src.    *)
(* Commands and the parsing of their text are abstracted to the choices    *)
(* that decide which version lands on the machine and what is said of it.  *)
(*                                                                         *)
(* A backend is a record:                                                  *)
(*   rights : whether installing needs an administrator, forbids one       *)
(*            (model.rs), or is indifferent                                *)
(*   care   : whether unattended care may use it (model.rs)                *)
(*   scan   : "outdated"  the tool lists what is installed and older       *)
(*            "installed" everything installed is listed                   *)
(*            "search"    what the source has is listed, installed or not  *)
(*            "nothing"   the scan reports no candidate                    *)
(*   from   : where the installed version of a candidate comes from; one   *)
(*            of the set, as the read goes: "live" the machine, "memo"     *)
(*            what the process read first, "name" the name of a file,      *)
(*            "zero" the text 0.0.0, "fixed" a constant, or "unknown"      *)
(*   to     : the version it is offered at: "newest", "fixed", "unknown"   *)
(*   fails  : how a failed query shows: an "error", or an "empty" list     *)
(*   checks : what apply looks at before it runs anything                  *)
(*   runs   : what the tool is told to install: the "target" version, the  *)
(*            "newest" of the package, or "everything" it has              *)
(*   adds   : whether it installs a package that is not there (any more)   *)
(*   reads  : the read-back: "live", "name" or "fixed" as above, "target"  *)
(*            the version if it is the one asked for, or "never"           *)
(***************************************************************************)

\* What most do, and apt in particular: the tool's own list of outdated packages, the
\* exact version, only over an installed one, and the version read afterwards.
Apt == [rights |-> "admin", care |-> TRUE, scan |-> "outdated", from |-> {"live"},
        to |-> {"newest"}, fails |-> {"error"}, checks |-> {"target"},
        runs |-> "target", adds |-> FALSE, reads |-> "live"]

-----------------------------------------------------------------------------
(* Package managers.                                                       *)

Dnf        == [Apt EXCEPT !.from = {"unknown"}, !.adds = TRUE]
Zypper     == [Apt EXCEPT !.runs = "newest"]
Pacman     == [Apt EXCEPT !.fails = {"error", "empty"}, !.adds = TRUE]
Snap       == [Apt EXCEPT !.from = {"unknown"}, !.runs = "newest"]
Chocolatey == [Apt EXCEPT !.adds = TRUE]
Winget     == [Apt EXCEPT !.rights = "any", !.fails = {"error", "empty"}]
MsStore    == [Winget EXCEPT !.rights = "user"]
Flatpak    == [Apt EXCEPT !.rights = "any", !.from = {"live", "unknown"}, !.runs = "newest"]
Homebrew   == [Apt EXCEPT !.rights = "user", !.checks = {"user"}, !.runs = "newest"]
Scoop      == [Apt EXCEPT !.rights = "user", !.checks = {"target", "user"}, !.runs = "newest"]
Nix        == [Apt EXCEPT !.rights = "any", !.scan = "installed", !.to = {"unknown"},
                          !.runs = "newest"]
AppImage   == [Nix EXCEPT !.from = {"name", "unknown"}, !.fails = {}, !.reads = "name"]

-----------------------------------------------------------------------------
(* Packages of programming languages and editors.                          *)

Pip        == [Apt EXCEPT !.rights = "any", !.care = FALSE, !.adds = TRUE]
Cargo      == [Pip EXCEPT !.scan = "nothing", !.fails = {}]
Npm        == [Pip EXCEPT !.fails = {"error", "empty"}]
Go         == [Pip EXCEPT !.fails = {"error", "empty"}]
DotnetTool == [Go EXCEPT !.scan = "installed", !.to = {"unknown"}, !.adds = FALSE]
PowerShellModule == [Pip EXCEPT !.scan = "installed", !.fails = {"error", "empty"},
                                !.adds = FALSE]
Vscode     == [Nix EXCEPT !.checks = {}, !.adds = TRUE]
Jetbrains  == [Nix EXCEPT !.checks = {"never"}]

\* The fields of its list are read under names PowerShell does not write, so that every
\* list parses to nothing; were it read, both versions would be the text 1.0.
OptionalFeature == [Apt EXCEPT !.scan = "nothing", !.from = {"fixed"}, !.to = {"fixed"},
                               !.fails = {"error", "empty"}, !.checks = {},
                               !.runs = "newest", !.reads = "fixed"]

-----------------------------------------------------------------------------
(* Drivers of graphics adapters.  The list of adapters, and with it the    *)
(* version of NVIDIA's driver, is read once in the life of a process.      *)

Nvidia   == [Apt EXCEPT !.care = FALSE, !.scan = "search", !.from = {"memo"},
                        !.checks = {"target", "newest"}, !.adds = TRUE]
Amd      == [Apt EXCEPT !.care = FALSE, !.scan = "search", !.from = {"live", "zero"},
                        !.fails = {"error", "empty"}, !.adds = TRUE, !.reads = "target"]
Intel    == Amd
\* The fourth column of a search is not the version: it may be anything or nothing.
Qualcomm == [Amd EXCEPT !.from = {"live", "unknown"}, !.to = {"newest", "unknown"}]
GeForceExperience == [Apt EXCEPT !.care = FALSE, !.scan = "installed", !.to = {"unknown"},
                                 !.checks = {"never"}]
IntelDsa == [GeForceExperience EXCEPT !.scan = "nothing", !.fails = {}, !.reads = "never"]

-----------------------------------------------------------------------------
(* Vendors' tools, firmware, guests of a virtual machine.                  *)

\* The tools that have no command line only tell the user to start them.
VendorCenter == [Apt EXCEPT !.scan = "nothing", !.fails = {}, !.checks = {"target", "never"},
                            !.reads = "never"]
Msi      == [VendorCenter EXCEPT !.care = FALSE]
Asus     == VendorCenter
Gigabyte == VendorCenter
Acer     == VendorCenter
Razer    == VendorCenter

Dell   == [Apt EXCEPT !.care = FALSE, !.from = {"zero"}, !.fails = {"error", "empty"},
                      !.runs = "everything", !.reads = "never"]
Hp     == [Dell EXCEPT !.to = {"fixed"}]
Lenovo == Dell

\* One entry for all the firmware of a machine, whether or not any is outdated.
DellFirmware   == [Dell EXCEPT !.scan = "search", !.from = {"unknown"}, !.to = {"unknown"},
                               !.checks = {}]
HpFirmware     == DellFirmware
LenovoFirmware == DellFirmware

Fwupd             == [Apt EXCEPT !.care = FALSE, !.from = {"zero"}, !.fails = {"error", "empty"},
                                 !.runs = "newest"]
MacSoftwareUpdate == [Apt EXCEPT !.from = {"zero"}, !.fails = {"error", "empty"}, !.reads = "never"]
MacFirmware       == [MacSoftwareUpdate EXCEPT !.care = FALSE]

\* On Windows a search by winget, elsewhere a notice that cannot be acted upon.
Guest == [Qualcomm EXCEPT !.care = TRUE]

-----------------------------------------------------------------------------
Everything ==
    {Apt, Dnf, Zypper, Pacman, Snap, Chocolatey, Winget, MsStore, Flatpak, Homebrew, Scoop,
     Nix, AppImage, Pip, Cargo, Npm, Go, DotnetTool, PowerShellModule, Vscode, Jetbrains,
     OptionalFeature, Nvidia, Amd, Intel, Qualcomm, GeForceExperience, IntelDsa,
     Msi, Asus, Gigabyte, Acer, Razer, Dell, Hp, Lenovo, DellFirmware, HpFirmware,
     LenovoFirmware, Fwupd, MacSoftwareUpdate, MacFirmware, Guest}
=============================================================================
