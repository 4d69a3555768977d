-------------------------- MODULE MCRefreshSessions --------------------------
(* Small instances of RefreshSessions for TLC. *)
EXTENDS RefreshSessions, TLC

(* Tabs are interchangeable, and so are requests.                            *)
Interchangeable == Permutations(Tabs) \cup Permutations(Calls)
=============================================================================
