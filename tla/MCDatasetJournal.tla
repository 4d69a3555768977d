--------------------------- MODULE MCDatasetJournal ---------------------------
(* Small instances of DatasetJournal for TLC. *)
EXTENDS DatasetJournal, TLC

CONSTANTS e1, e2, e3

(* A pull brings another device's edit, and nothing of this browser's.       *)
OtherDevice == {{e3}}
NoPulls == {}

(* Pages are interchangeable: no action and no property tells one from       *)
(* another.                                                                  *)
Interchangeable == Permutations(Tabs)

(* Nor does any tell one of this browser's edits from another.               *)
OwnEdits == Permutations({e1, e2})
PagesAndEdits == Interchangeable \cup OwnEdits
=============================================================================
