--------------------------- MODULE ConfigRegister ---------------------------
(***************************************************************************)
(* What a user may expect of the settings: one value, changed by whole     *)
(* edits, one after the other.  An edit that is told "done" is in the      *)
(* value; whatever crashes or fails, the value is never half of something. *)
(***************************************************************************)
CONSTANTS Edits, Edited(_, _)      \* the edits a user can make, and their effect

VARIABLE config

\* Edits that fail, crashes and restarts leave the value alone.
RegisterStep == \E edit \in Edits : config' = Edited(edit, config)

RegisterSpec == [][RegisterStep]_config
=============================================================================
