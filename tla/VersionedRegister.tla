-------------------------- MODULE VersionedRegister --------------------------
(***************************************************************************)
(* What the pages of one browser may rely on of the stored dataset: a set  *)
(* of items with a version.  A writer that knows the current version may   *)
(* extend the set, or replace it, under a new version which it then knows; *)
(* any other write is refused.                                             *)
(***************************************************************************)
EXTENDS Naturals

CONSTANTS
  Writers,
  Items,
  LastVersion   \* bound on the versions

VARIABLES
  value,    \* the items stored
  version,  \* names the last write, 0 before the first
  known     \* [Writers -> the version the writer last read or wrote]

Init ==
  /\ value = {}
  /\ version = 0
  /\ known = [w \in Writers |-> 0]

(* A writer reads the value, or forgets what it read.                        *)
Read(w) ==
  /\ \E v \in {0, version} : known' = [known EXCEPT ![w] = v]
  /\ UNCHANGED <<version, value>>

(* A write names its version after every one before it; the writer knows it. *)
Write(w) ==
  /\ version < version' /\ version' <= LastVersion
  /\ known[w] = version
  /\ known' = [known EXCEPT ![w] = version']

Extend(w) == Write(w) /\ value \subseteq value' /\ value' \subseteq Items

(* Replacing needs a value to replace.                                       *)
Replace(w) == Write(w) /\ version # 0 /\ value' \subseteq Items

Next == \E w \in Writers : Read(w) \/ Extend(w) \/ Replace(w)

Spec == Init /\ [][Next]_<<version, known, value>>
=============================================================================
