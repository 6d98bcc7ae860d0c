------------------------------- MODULE MCWorkspace -------------------------------
(* The map's file and one destination for Save As.                            *)
EXTENDS Workspace

CONSTANTS P, Q
==================================================================================
