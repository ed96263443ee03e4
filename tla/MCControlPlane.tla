--------------------------- MODULE MCControlPlane ---------------------------
(***************************************************************************)
(* Values for the constants of ControlPlane under TLC.                     *)
(***************************************************************************)
EXTENDS ControlPlaneProperties

NoCommand == {}
FirstCommand == {1}
SecondCommand == {2}

Succeeds == {"success"}
SucceedsOrFails == {"success", "error"}
=============================================================================
