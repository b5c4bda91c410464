----------------------------- MODULE MCSpecGate -----------------------------
(***************************************************************************)
(* Two runs of the gate for TLC, over documents that may get one of three  *)
(* defects.                                                                *)
(***************************************************************************)
EXTENDS SpecGate

MCEditable == {Defect("counts"), Quoting("superseded"), DdlFails}
MCRoles == <<"app_role", "messaging_role">>
=============================================================================
