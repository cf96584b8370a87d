---------------------------- MODULE MCScanApply -----------------------------
(* Small instances of ScanApply: two packages from two sources, one or two   *)
(* pages.                                                                    *)
EXTENDS ScanApply

CONSTANTS a, b, updates, dashboard

MCPackages == {a, b}
OnePackage == {a}
OnePage    == {updates}
TwoPages   == {updates, dashboard}
=============================================================================
