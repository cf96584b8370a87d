--------------------------- MODULE MCConfigStore ----------------------------
(* Small instances of ConfigStore: one package to hold, one backend, one     *)
(* profile; one or two commands of the GUI and one of the CLI.               *)
EXTENDS ConfigStore

CONSTANTS pkg, g1, g2, c1

OneName == {pkg}
OneGui  == {g1}
TwoGuis == {g1, g2}
OneCli  == {c1}
NoCli   == {}
=============================================================================
