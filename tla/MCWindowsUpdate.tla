-------------------------- MODULE MCWindowsUpdate ---------------------------
(* Small instances of WindowsUpdate: a security update and its revision, a   *)
(* Windows upgrade known by its title only, a driver; two scans, one apply.  *)
EXTENDS WindowsUpdate

CONSTANTS s1, s2, a1

Make(id, revision, criteria, categories, tokens) ==
    [id |-> id, revision |-> revision, criteria |-> criteria,
     categories |-> categories, tokens |-> tokens]

Patch    == Make("patch", 0, "Software", {"security", "updates"}, {"windows", "release tag", "kb"})
Revised  == [Patch EXCEPT !.revision = 1]
Upgrade  == Make("upgrade", 1, "Software", {"unknown"}, {"windows", "release tag"})
Driver   == Make("driver", 2, "Driver", {"driver"}, {})

MCUpdates  == {Patch, Upgrade}
MCBackends == {"WindowsUpdate", "WindowsFeatureUpdate"}
MCScans    == {s1, s2}
MCApplies  == {a1}
=============================================================================
