----------------------------- MODULE PutDecision -----------------------------
(***************************************************************************)
(* The accept rule of a workspace push: syncstate.DecidePut.               *)
(*                                                                         *)
(* The reason tags the code returns beside the verdict are for logs and    *)
(* are left out; the order of the tests is kept.  `older' stands for the   *)
(* outcome of comparing the client's wall clock with the stored stamp,     *)
(* which only the legacy path looks at.                                    *)
(***************************************************************************)
EXTENDS Naturals

(* What DecidePut is given: syncstate.PutInput, with the two clocks         *)
(* replaced by the outcome of their comparison.                             *)
PutInput == [exists: BOOLEAN, deleted: BOOLEAN, force: BOOLEAN,
             hasBase: BOOLEAN, base: Nat, current: Nat, older: BOOLEAN]

(* A push that names the version it was based on; a peer that predates      *)
(* versioned writes names none and is judged by the clocks.                 *)
IsVersioned(in) == in.hasBase \/ in.base > 0

(* A missing workspace accepts anything, then Force, then a tombstone       *)
(* refuses, then the exact version match or the legacy clock rule.          *)
DecidePut(in) ==
  \/ ~in.exists
  \/ in.force
  \/ /\ ~in.deleted
     /\ \/ IsVersioned(in) /\ in.base = in.current
        \/ ~IsVersioned(in) /\ ~in.older
=============================================================================
