-------------------------- MODULE MCDirectInstall ---------------------------
(* Small instances of DirectInstall.                                         *)
EXTENDS DirectInstall

Make(platform, digest, dir, leftover) ==
    [platform |-> platform, digest |-> digest, dir |-> dir, leftover |-> leftover]

MCApps == {Make("windows", TRUE, TRUE, "none"), Make("windows", FALSE, FALSE, "last"),
           Make("macos", FALSE, TRUE, "none")}

LeftoverApps == {Make("windows", TRUE, TRUE, "first")}
=============================================================================
