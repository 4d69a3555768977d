--------------------------- MODULE MCWorkspaceStore ---------------------------
(* Small instances of WorkspaceStore for TLC. *)
EXTENDS WorkspaceStore, TLC

CONSTANTS big, small

(* datasetguard refuses to let `small' replace `big', and nothing else.      *)
OnlyShrinking == {<<big, small>>}

(* Handlers are interchangeable: no action and no invariant tells one from   *)
(* another.                                                                  *)
Interchangeable == Permutations(Calls)
=============================================================================
