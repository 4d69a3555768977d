---------------------------- MODULE MCWorkspaceSync ----------------------------
(* Small instances of WorkspaceSync for TLC. *)
EXTENDS WorkspaceSync, TLC

(* Devices are interchangeable: each names only its own edits.               *)
Interchangeable == Permutations(Devices)
=============================================================================
