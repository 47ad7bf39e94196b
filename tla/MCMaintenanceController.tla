----------------------- MODULE MCMaintenanceController -----------------------
(***************************************************************************)
(* Small instances of MaintenanceController for TLC.                       *)
(***************************************************************************)
EXTENDS MaintenanceController

CONSTANTS a, b

OneAction  == {<<a>>}
TwoActions == {<<a, b>>}

\* Edits that repeat the only name, which the CRD accepts and validateSpec rejects.
OneActionOrTwice == {<<a>>, <<a, a>>}

\* Edits that shorten the list, change what an index names, or repeat a name.
EditedLists == {<<a, b>>, <<b>>, <<b, b>>}
=============================================================================
