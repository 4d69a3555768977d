------------------------- MODULE WorkspaceStoreProofs -------------------------
(***************************************************************************)
(* Theorems about the server's workspace store, for any accounts, any      *)
(* number of handlers, any datasets, history limit and version bound.      *)
(*                                                                         *)
(* TypeOK and EncryptionRatchet are inductive one on the other.  The       *)
(* version protocol (LearnedIsCurrent, NoLostUpdate) needs to know what a  *)
(* call in progress holds: see Invariant.                                  *)
(***************************************************************************)
EXTENDS WorkspaceStore, NatRecursion, FiniteSetTheorems, TLAPS

-----------------------------------------------------------------------------
(* Types.                                                                    *)

(* The reset handler is a handler.                                           *)
LEMMA IdleType == Idle \in CallState
  BY StoreAssumption, SMT DEF Idle, CallState, Copy, Payloads, Datasets, NoCopy

LEMMA ZeroTypes == NoRow \in Row /\ NoCopy \in Copy /\ Nothing \in Knowledge
  BY StoreAssumption DEF NoRow, Row, NoCopy, Copy, Payloads, Datasets, Nothing, Knowledge

(* What the trim keeps was there before.                                     *)
LEMMA NewestSubset == \A copies : Newest(copies) \subseteq copies
  BY DEF Newest

LEMMA GotoType ==
  ASSUME TypeOK, NEW c \in Calls, NEW pc \in {"admit", "ensure", "upsert", "commit", "reread", "delCommit"},
         Goto(c, pc)
  PROVE  call' \in [Calls -> CallState]
  BY DEF TypeOK, Goto, CallState

LEMMA FinishType ==
  ASSUME TypeOK, NEW c \in Calls, Finish(c)
  PROVE  call' \in [Calls -> CallState]
  BY IdleType DEF TypeOK, Finish

LEMMA LatchType ==
  ASSUME TypeOK, NEW a \in Accounts, LatchMarker(a)
  PROVE  marked' \in [Accounts -> BOOLEAN]
  <1>1. Encrypted(a) \in BOOLEAN
    BY DEF TypeOK, Encrypted
  <1> QED BY <1>1 DEF TypeOK, LatchMarker

(* An accepted write leaves the tables well formed.                          *)
LEMMA StorePutType ==
  ASSUME TypeOK, NEW a \in Accounts, NEW data \in Payloads, StorePut(a, data)
  PROVE  /\ row' \in [Accounts -> Row]
         /\ snap' \in [Accounts -> Copy]
         /\ history' \in [Accounts -> SUBSET Copy]
         /\ marked' \in [Accounts -> BOOLEAN]
  <1> DEFINE v == row[a].version + 1
             new == [data |-> data, version |-> v]
  <1>1. row[a].version \in Nat /\ v \in Nat /\ v > 0
    BY DEF TypeOK, Row
  <1>2. row' \in [Accounts -> Row]
    <2>1. [exists |-> TRUE, deleted |-> FALSE, version |-> v] \in Row
      BY <1>1 DEF Row
    <2> QED BY <2>1 DEF TypeOK, StorePut
  <1>3. CASE data = NoData
    BY <1>2, <1>3 DEF TypeOK, StorePut
  <1>4. CASE data # NoData
    <2>1. new \in Copy
      BY <1>1, <1>4 DEF Copy
    <2>2. HistoryAfter(a, data) \subseteq Copy
      BY NewestSubset DEF HistoryAfter, TypeOK
    <2>3. snap' = [snap EXCEPT ![a] = new] /\ history' = [history EXCEPT ![a] = HistoryAfter(a, data)]
      BY <1>4 DEF StorePut
    <2>4. marked' = [marked EXCEPT ![a] = @ \/ data \in Sealed]
      BY <1>4 DEF StorePut
    <2>5. marked' \in [Accounts -> BOOLEAN]
      BY <2>4 DEF TypeOK
    <2> QED BY <1>2, <2>1, <2>2, <2>3, <2>5 DEF TypeOK
  <1> QED BY <1>3, <1>4

LEMMA AcknowledgeType ==
  ASSUME TypeOK, NEW c \in Calls, Acknowledge(c)
  PROVE  learned' \in [Accounts -> SUBSET Knowledge]
  <1> DEFINE a == call[c].acct
             v == row[a].version + 1
  <1>1. a \in Accounts /\ call[c].data \in Payloads /\ call[c].got \in Copy
    BY DEF TypeOK, CallState
  <1>2. v \in Nat /\ v > 0
    BY <1>1 DEF TypeOK, Row
  <1>3. [version |-> v, copy |-> call[c].got] \in Knowledge
    BY <1>1, <1>2 DEF Knowledge
  <1>4. ASSUME call[c].data # NoData
        PROVE  [version |-> v, copy |-> [data |-> call[c].data, version |-> v]] \in Knowledge
    <2>1. [data |-> call[c].data, version |-> v] \in Copy
      BY <1>1, <1>2, <1>4 DEF Copy
    <2> QED BY <1>2, <2>1 DEF Knowledge
  <1> QED BY <1>1, <1>3, <1>4 DEF Acknowledge, TypeOK

LEMMA InitType == Init => TypeOK
  BY IdleType, ZeroTypes DEF Init, TypeOK

LEMMA PutTypes == ASSUME TypeOK, NEW c \in Calls, PutStep(c) PROVE TypeOK'
  <1> DEFINE a == call[c].acct
  <1>0. a \in Accounts /\ call[c].data \in Payloads
    BY DEF TypeOK, CallState
  <1>1. CASE PutArrive(c)
    <2>0. PICK b \in Accounts, hasBase \in BOOLEAN, force \in BOOLEAN, data \in Payloads :
            \E k \in IF hasBase THEN learned[b] \cup {Nothing} ELSE {Nothing} :
              ~tomb[b] /\ call' = [call EXCEPT ![c] = Push(b, hasBase, force, data, k)]
      BY <1>1, Zenon DEF PutArrive
    <2>1. PICK k \in Knowledge :
            call' = [call EXCEPT ![c] = Push(b, hasBase, force, data, k)]
      BY <2>0, ZeroTypes DEF TypeOK
    <2>2. k.version \in Nat /\ k.copy \in Copy
      BY DEF Knowledge
    <2>4. Push(b, hasBase, force, data, k) \in CallState
      BY <2>2, IdleType DEF CallState, Push
    <2>5. call' \in [Calls -> CallState]
      BY <2>1, <2>4 DEF TypeOK
    <2> QED BY <1>1, <2>5 DEF PutArrive, TypeOK, tables, people
  <1>2. CASE PutGuard(c)
    <2>1. call' \in [Calls -> CallState]
      BY <1>2, GotoType, FinishType DEF PutGuard
    <2>2. marked' \in [Accounts -> BOOLEAN]
      BY <1>0, <1>2, LatchType DEF PutGuard, TypeOK
    <2> QED BY <1>2, <2>1, <2>2 DEF PutGuard, TypeOK, people
  <1>3. CASE PutAdmit(c)
    BY <1>3, GotoType, FinishType DEF PutAdmit, TypeOK, tables, people
  <1>4. CASE PutEnsure(c)
    BY <1>4, GotoType, FinishType DEF PutEnsure, TypeOK, tables, people
  <1>5. CASE PutUpsert(c)
    BY <1>0, <1>5, GotoType DEF PutUpsert, TypeOK, tables
  <1>6. CASE PutCommit(c)
    <2>1. call' \in [Calls -> CallState]
      BY <1>6, GotoType, FinishType DEF PutCommit
    <2>2. UNCHANGED <<tables, learned>> \/ (StorePut(a, call[c].data) /\ Acknowledge(c))
      BY <1>6 DEF PutCommit
    <2>3. CASE UNCHANGED <<tables, learned>>
      BY <1>6, <2>1, <2>3 DEF PutCommit, TypeOK, tables, people
    <2>4. CASE StorePut(a, call[c].data) /\ Acknowledge(c)
      <3>1. learned' \in [Accounts -> SUBSET Knowledge]
        BY <2>4, AcknowledgeType
      <3>2. /\ row' \in [Accounts -> Row]
            /\ snap' \in [Accounts -> Copy]
            /\ history' \in [Accounts -> SUBSET Copy]
            /\ marked' \in [Accounts -> BOOLEAN]
        BY <1>0, <2>4, StorePutType
      <3> QED BY <1>6, <2>1, <3>1, <3>2 DEF PutCommit, TypeOK, people
    <2> QED BY <2>2, <2>3, <2>4
  <1>7. CASE PutReread(c)
    BY <1>0, <1>7, FinishType, LatchType DEF PutReread, TypeOK, people
  <1> QED BY <1>1, <1>2, <1>3, <1>4, <1>5, <1>6, <1>7 DEF PutStep

LEMMA GetTypes == ASSUME TypeOK, NEW c \in Calls, GetStep(c) PROVE TypeOK'
  <1> DEFINE a == call[c].acct
  <1>0. a \in Accounts /\ call[c] \in CallState
    BY DEF TypeOK, CallState
  <1>1. CASE GetArrive(c)
    <2>1. PICK b \in Accounts, k \in Knowledge : call' = [call EXCEPT ![c] =
              [Idle EXCEPT !.pc = "row", !.acct = b, !.base = k.version, !.got = k.copy]]
      BY <1>1, ZeroTypes DEF GetArrive, TypeOK
    <2>2. k.version \in Nat /\ k.copy \in Copy
      BY DEF Knowledge
    <2>3. [Idle EXCEPT !.pc = "row", !.acct = b, !.base = k.version, !.got = k.copy] \in CallState
      BY <2>2, IdleType DEF CallState
    <2> QED BY <1>1, <2>1, <2>3 DEF GetArrive, TypeOK, tables, people
  <1>2. CASE GetRow(c)
    <2>1. row[a].version \in Nat
      BY <1>0 DEF TypeOK, Row
    <2>2. [call[c] EXCEPT !.pc = "snap", !.label = row[a].version] \in CallState
      BY <1>0, <2>1 DEF CallState
    <2>3. call' \in [Calls -> CallState]
      <3>1. CASE Finish(c)
        BY <3>1, FinishType
      <3>2. CASE ~Finish(c)
        <4>1. call' = [call EXCEPT ![c].pc = "snap", ![c].label = row[a].version]
          BY <1>2, <3>2 DEF GetRow
        <4>2. call' = [call EXCEPT ![c] = [call[c] EXCEPT !.pc = "snap", !.label = row[a].version]]
          BY <4>1 DEF TypeOK
        <4> QED BY <2>2, <4>2 DEF TypeOK
      <3> QED BY <3>1, <3>2
    <2> QED BY <1>2, <2>3 DEF GetRow, TypeOK, tables, people
  <1>3. CASE GetSnap(c)
    <2> DEFINE got == IF row[a].exists THEN snap[a] ELSE NoCopy
    <2>1. got \in Copy
      BY <1>0, ZeroTypes DEF TypeOK
    <2>2. [call[c] EXCEPT !.pc = "answered", !.got = got] \in CallState
      BY <1>0, <2>1 DEF CallState
    <2>3. call' \in [Calls -> CallState]
      <3>1. CASE Finish(c)
        BY <3>1, FinishType
      <3>2. CASE ~Finish(c)
        <4>1. call' = [call EXCEPT ![c].pc = "answered", ![c].got = got]
          BY <1>3, <3>2 DEF GetSnap
        <4>2. call' = [call EXCEPT ![c] = [call[c] EXCEPT !.pc = "answered", !.got = got]]
          BY <4>1 DEF TypeOK
        <4> QED BY <2>2, <4>2 DEF TypeOK
      <3> QED BY <3>1, <3>2
    <2>4. marked' \in [Accounts -> BOOLEAN]
      BY <1>0, <1>3, LatchType DEF GetSnap
    <2> QED BY <1>3, <2>3, <2>4 DEF GetSnap, TypeOK, people
  <1>4. CASE GetDone(c)
    <2>1. [version |-> call[c].label, copy |-> call[c].got] \in Knowledge
      BY <1>0 DEF CallState, Knowledge
    <2> QED BY <1>0, <1>4, <2>1, FinishType DEF GetDone, TypeOK, tables, people
  <1> QED BY <1>1, <1>2, <1>3, <1>4 DEF GetStep

LEMMA DeleteTypes == ASSUME TypeOK, NEW c \in Calls, DeleteStep(c) PROVE TypeOK'
  <1> DEFINE a == call[c].acct
  <1>0. a \in Accounts
    BY DEF TypeOK, CallState
  <1>1. CASE DeleteArrive(c)
    <2>1. PICK b \in Accounts : call' = [call EXCEPT ![c] = [Idle EXCEPT !.pc = "delAdmit", !.acct = b]]
      BY <1>1 DEF DeleteArrive
    <2>2. [Idle EXCEPT !.pc = "delAdmit", !.acct = b] \in CallState
      BY IdleType DEF CallState
    <2> QED BY <1>1, <2>1, <2>2 DEF DeleteArrive, TypeOK, tables, people
  <1>2. CASE DeleteAdmit(c)
    BY <1>2, GotoType, FinishType DEF DeleteAdmit, TypeOK, tables, people
  <1>3. CASE DeleteCommit(c)
    <2>1. row' \in [Accounts -> Row]
      <3>1. CASE UNCHANGED row
        BY <3>1 DEF TypeOK
      <3>2. CASE row[a].exists /\ row' = [row EXCEPT ![a].deleted = TRUE, ![a].version = row[a].version + 1]
        <4>1. [row[a] EXCEPT !.deleted = TRUE, !.version = row[a].version + 1] \in Row
          BY <1>0, <3>2 DEF TypeOK, Row
        <4>2. row' = [row EXCEPT ![a] = [row[a] EXCEPT !.deleted = TRUE, !.version = row[a].version + 1]]
          BY <3>2 DEF TypeOK
        <4> QED BY <4>1, <4>2 DEF TypeOK
      <3> QED BY <1>3, <3>1, <3>2 DEF DeleteCommit
    <2> QED BY <1>3, <2>1, FinishType DEF DeleteCommit, TypeOK, people
  <1> QED BY <1>1, <1>2, <1>3 DEF DeleteStep

LEMMA OtherTypes ==
  ASSUME TypeOK,
         (\E c \in Calls : Cancel(c)) \/
         (\E a \in Accounts : SetBarred(a) \/ DeleteAccount(a) \/ PruneHistory(a))
  PROVE  TypeOK'
  <1>1. ASSUME NEW c \in Calls, Cancel(c) PROVE TypeOK'
    BY <1>1, FinishType DEF Cancel, TypeOK, tables, people
  <1>2. ASSUME NEW a \in Accounts, SetBarred(a) PROVE TypeOK'
    BY <1>2 DEF SetBarred, TypeOK, tables
  <1>3. ASSUME NEW a \in Accounts, DeleteAccount(a) PROVE TypeOK'
    BY <1>3, ZeroTypes DEF DeleteAccount, TypeOK
  <1>4. ASSUME NEW a \in Accounts, PruneHistory(a) PROVE TypeOK'
    BY <1>4 DEF PruneHistory, TypeOK, people
  <1> QED BY <1>1, <1>2, <1>3, <1>4

LEMMA NextType == ASSUME TypeOK, [Next]_vars PROVE TypeOK'
  <1>1. CASE Next
    BY <1>1, PutTypes, GetTypes, DeleteTypes, OtherTypes DEF Next
  <1>2. CASE UNCHANGED vars
    BY <1>2 DEF TypeOK, vars
  <1> QED BY <1>1, <1>2

(* Type correctness: every row, copy and handler keeps its shape; a row      *)
(* exists exactly when it has a version, and no copy is stored without a     *)
(* dataset.                                                                  *)
THEOREM TypeCorrect == Spec => []TypeOK
  BY InitType, NextType, PTL DEF Spec

-----------------------------------------------------------------------------
(* Encryption.                                                               *)

(* What a step does to the stored copies: nothing but perhaps latching the   *)
(* marker, an accepted write, an erasure, or dropping old history.           *)
LEMMA CopySteps ==
  ASSUME TypeOK, Next
  PROVE  \/ UNCHANGED <<snap, history, marked>>
         \/ UNCHANGED <<snap, history>> /\ \E a \in Accounts : LatchMarker(a)
         \/ \E a \in Accounts, data \in Payloads :
              StorePut(a, data) /\ ~Downgrade(a, data)
         \/ \E a \in Accounts : DeleteAccount(a)
         \/ \E a \in Accounts : PruneHistory(a)
  <1> DEFINE Goal ==
         \/ UNCHANGED <<snap, history, marked>>
         \/ UNCHANGED <<snap, history>> /\ \E a \in Accounts : LatchMarker(a)
         \/ \E a \in Accounts, data \in Payloads :
              StorePut(a, data) /\ ~Downgrade(a, data)
         \/ \E a \in Accounts : DeleteAccount(a)
         \/ \E a \in Accounts : PruneHistory(a)
  <1>0. \A c \in Calls : call[c].acct \in Accounts /\ call[c].data \in Payloads
    BY DEF TypeOK, CallState
  <1>1. ASSUME NEW c \in Calls, PutStep(c) PROVE Goal
    <2>1. CASE PutGuard(c)
      BY <1>0, <2>1, Zenon DEF PutGuard
    <2>2. CASE PutReread(c)
      BY <1>0, <2>2, Zenon DEF PutReread
    <2>3. CASE PutCommit(c)
      <3>1. \/ UNCHANGED <<tables, learned>>
            \/ StorePut(call[c].acct, call[c].data) /\ ~WriteFails(c)
        BY <2>3 DEF PutCommit
      <3>2. CASE UNCHANGED <<tables, learned>>
        BY <3>2 DEF tables
      <3>3. CASE StorePut(call[c].acct, call[c].data) /\ ~WriteFails(c)
        BY <1>0, <3>3, Zenon DEF WriteFails
      <3> QED BY <3>1, <3>2, <3>3
    <2>4. CASE PutArrive(c) \/ PutAdmit(c) \/ PutEnsure(c) \/ PutUpsert(c)
      BY <2>4 DEF PutArrive, PutAdmit, PutEnsure, PutUpsert, tables
    <2> QED BY <1>1, <2>1, <2>2, <2>3, <2>4 DEF PutStep
  <1>2. ASSUME NEW c \in Calls, GetStep(c) PROVE Goal
    <2>1. CASE GetSnap(c)
      BY <1>0, <2>1, Zenon DEF GetSnap
    <2>2. CASE GetArrive(c) \/ GetRow(c) \/ GetDone(c)
      BY <2>2 DEF GetArrive, GetRow, GetDone, tables
    <2> QED BY <1>2, <2>1, <2>2 DEF GetStep
  <1>3. ASSUME NEW c \in Calls, DeleteStep(c) \/ Cancel(c) PROVE Goal
    BY <1>3 DEF DeleteStep, DeleteArrive, DeleteAdmit, DeleteCommit, Cancel, tables
  <1>4. ASSUME NEW a \in Accounts, SetBarred(a) PROVE Goal
    BY <1>4 DEF SetBarred, tables
  <1>5. ASSUME NEW a \in Accounts, DeleteAccount(a) \/ PruneHistory(a) PROVE Goal
    BY <1>5
  <1> QED BY <1>1, <1>2, <1>3, <1>4, <1>5 DEF Next

(* An accepted write of an account leaves the others' copies alone, and its  *)
(* own history within what was there plus the superseded copy; after an      *)
(* envelope only envelopes remain.                                           *)
LEMMA StorePutCopies ==
  ASSUME TypeOK, NEW a \in Accounts, NEW data \in Datasets, StorePut(a, data)
  PROVE  /\ snap'[a].data = data
         /\ marked'[a] = (marked[a] \/ data \in Sealed)
         /\ \A h \in history'[a] : h \in history[a] \/ h = snap[a]
         /\ data \in Sealed => \A h \in history'[a] : h.data \in Sealed
         /\ \A b \in Accounts \ {a} : /\ snap'[b] = snap[b]
                                      /\ history'[b] = history[b]
                                      /\ marked'[b] = marked[b]
  <1>0. data # NoData
    BY StoreAssumption DEF Datasets
  <1>1. /\ snap' = [snap EXCEPT ![a] = [data |-> data, version |-> row[a].version + 1]]
        /\ history' = [history EXCEPT ![a] = HistoryAfter(a, data)]
        /\ marked' = [marked EXCEPT ![a] = @ \/ data \in Sealed]
    BY <1>0 DEF StorePut
  <1>2. \A h \in HistoryAfter(a, data) : h \in history[a] \/ h = snap[a]
    BY NewestSubset DEF HistoryAfter
  <1>3. data \in Sealed => \A h \in HistoryAfter(a, data) : h.data \in Sealed
    BY NewestSubset DEF HistoryAfter
  <1>4. /\ snap'[a] = [data |-> data, version |-> row[a].version + 1]
        /\ history'[a] = HistoryAfter(a, data)
        /\ marked'[a] = (marked[a] \/ data \in Sealed)
    BY <1>1 DEF TypeOK
  <1>5. \A b \in Accounts \ {a} : /\ snap'[b] = snap[b]
                                 /\ history'[b] = history[b]
                                 /\ marked'[b] = marked[b]
    BY <1>1 DEF TypeOK
  <1> QED BY <1>2, <1>3, <1>4, <1>5

LEMMA RatchetInit == Init => EncryptionRatchet
  BY StoreAssumption DEF Init, EncryptionRatchet, NoCopy

LEMMA RatchetNext ==
  ASSUME TypeOK, EncryptionRatchet, [Next]_vars
  PROVE  EncryptionRatchet'
  <1> DEFINE Keeps(a) == Encrypted(a) => /\ snap[a].data \notin Plain
                                         /\ \A h \in history[a] : h.data \in Sealed
  <1>0. \A a \in Accounts : Keeps(a)
    BY DEF EncryptionRatchet
  <1>a. SUFFICES ASSUME NEW a \in Accounts PROVE Keeps(a)'
    BY DEF EncryptionRatchet
  <1>1. CASE UNCHANGED <<snap, history, marked>>
    BY <1>0, <1>1 DEF Encrypted
  <1>2. CASE UNCHANGED <<snap, history>> /\ \E b \in Accounts : LatchMarker(b)
    <2>1. PICK b \in Accounts : LatchMarker(b)
      BY <1>2
    <2>2. marked'[a] => Encrypted(a)
      BY <2>1 DEF LatchMarker, Encrypted, TypeOK
    <2> QED BY <1>0, <1>2, <2>2 DEF Encrypted
  <1>3. CASE \E b \in Accounts, data \in Payloads : StorePut(b, data) /\ ~Downgrade(b, data)
    <2>1. PICK b \in Accounts, data \in Payloads : StorePut(b, data) /\ ~Downgrade(b, data)
      BY <1>3
    <2>2. CASE data = NoData
      BY <1>0, <2>1, <2>2 DEF StorePut, Encrypted
    <2>3. CASE data \in Datasets /\ a # b
      BY <1>0, <2>1, <2>3, StorePutCopies DEF Encrypted
    <2>4. CASE data \in Datasets /\ a = b /\ data \in Sealed
      <3>1. snap'[a].data = data /\ \A h \in history'[a] : h.data \in Sealed
        BY <2>1, <2>4, StorePutCopies
      <3>2. data \notin Plain
        BY <2>4, StoreAssumption
      <3> QED BY <3>1, <3>2
    <2>5. CASE data \in Datasets /\ a = b /\ data \notin Sealed
      <3>1. ~Encrypted(a)
        BY <2>1, <2>5 DEF Downgrade, Datasets
      <3>2. /\ snap'[a].data = data
            /\ marked'[a] = (marked[a] \/ data \in Sealed)
            /\ \A h \in history'[a] : h \in history[a] \/ h = snap[a]
        BY <2>1, <2>5, StorePutCopies
      <3>3. ~Encrypted(a)'
        BY <2>5, <3>1, <3>2 DEF Encrypted
      <3> QED BY <3>3
    <2> QED BY <2>2, <2>3, <2>4, <2>5 DEF Payloads
  <1>4. CASE \E b \in Accounts : DeleteAccount(b)
    <2>1. PICK b \in Accounts : DeleteAccount(b)
      BY <1>4
    <2>2. CASE a = b
      BY <2>1, <2>2, StoreAssumption DEF DeleteAccount, TypeOK, NoCopy
    <2>3. CASE a # b
      BY <1>0, <2>1, <2>3 DEF DeleteAccount, TypeOK, Encrypted
    <2> QED BY <2>2, <2>3
  <1>5. CASE \E b \in Accounts : PruneHistory(b)
    <2>1. PICK b \in Accounts : PruneHistory(b)
      BY <1>5
    <2>2. history'[a] \subseteq history[a] /\ snap' = snap /\ marked' = marked
      BY <2>1 DEF PruneHistory, TypeOK
    <2> QED BY <1>0, <2>2 DEF Encrypted
  <1>6. CASE UNCHANGED vars
    BY <1>1, <1>6 DEF vars
  <1> QED BY <1>1, <1>2, <1>3, <1>4, <1>5, <1>6, CopySteps

(* The encryption ratchet: once the server accepted an App Lock envelope for *)
(* a workspace, it never again holds an unprotected copy of it, whichever    *)
(* pushes, reads, deletes, erasures and prunings interleave.                 *)
THEOREM RatchetHolds == Spec => []EncryptionRatchet
  <1>1. Init => TypeOK /\ EncryptionRatchet
    BY InitType, RatchetInit
  <1>2. TypeOK /\ EncryptionRatchet /\ [Next]_vars => (TypeOK /\ EncryptionRatchet)'
    BY NextType, RatchetNext
  <1> QED BY <1>1, <1>2, PTL DEF Spec

-----------------------------------------------------------------------------
(* Erasure and versions.                                                     *)

(* A provisioned account exists until it is deleted, and keeps nothing then. *)
Standing ==
  \A a \in Provisioned :
    /\ user[a] \/ tomb[a]
    /\ tomb[a] => ~user[a] /\ row[a] = NoRow /\ snap[a] = NoCopy /\ history[a] = {}

(* No copy is stored without a workspace row.                                *)
RowFirst == \A a \in Accounts : ~row[a].exists => snap[a] = NoCopy

(* A handler in progress.  A push never finds a provisioned account both     *)
(* missing and not deleted; a read names no base; a versioned push names     *)
(* something its client has been told; until the account is deleted, the     *)
(* label of a read is never newer than the row, and while it is the row's    *)
(* version, the copy the read took is the current one.                       *)
HandlerOK(x) ==
  /\ x.pc = "upsert" => x.acct \notin Provisioned
  /\ x.pc \in {"row", "snap"} => ~x.hasBase
  /\ x.hasBase => [version |-> x.base, copy |-> x.got] \in learned[x.acct] \cup {Nothing}
  /\ ~tomb[x.acct] =>
       /\ x.pc \in {"snap", "answered"} => x.label <= row[x.acct].version
       /\ x.pc = "answered" /\ x.label = row[x.acct].version => x.got = snap[x.acct]

Handling == \A c \in Calls : HandlerOK(call[c])

Invariant ==
  TypeOK /\ Standing /\ RowFirst /\ Handling /\ LearnedIsCurrent

LEMMA InvariantInit == Init => Invariant
  <1> SUFFICES ASSUME Init PROVE Invariant
    OBVIOUS
  <1>1. TypeOK
    BY InitType
  <1>2. Standing /\ RowFirst
    BY StoreAssumption DEF Init, Standing, RowFirst
  <1>3. Handling
    BY DEF Init, Handling, HandlerOK, Idle
  <1>4. LearnedIsCurrent
    BY StoreAssumption DEF Init, LearnedIsCurrent
  <1> QED BY <1>1, <1>2, <1>3, <1>4 DEF Invariant

(* An accepted unforced versioned push replaces the copy its edit started    *)
(* from: either nothing is stored, or the base is the row's version.         *)
LEMMA BaseIsCurrent ==
  ASSUME Invariant, NEW c \in Calls, NEW older \in BOOLEAN,
         Verdict(c, older), call[c].hasBase, ~call[c].force,
         ~tomb[call[c].acct]
  PROVE  call[c].got = snap[call[c].acct]
  <1> DEFINE a == call[c].acct
             k == [version |-> call[c].base, copy |-> call[c].got]
  <1>0. a \in Accounts /\ row[a] \in Row /\ call[c].base \in Nat
    BY DEF Invariant, TypeOK, CallState
  <1>1. k \in learned[a] \cup {Nothing}
    BY DEF Invariant, Handling, HandlerOK
  <1>2. ~row[a].exists \/ call[c].base = row[a].version
    BY DEF Verdict, DecidePut, IsVersioned
  <1>3. CASE k = Nothing
    <2>1. call[c].base = 0 /\ call[c].got = NoCopy
      BY <1>3 DEF Nothing
    <2>2. ~row[a].exists
      BY <1>0, <1>2, <2>1 DEF Row
    <2> QED BY <1>0, <2>1, <2>2 DEF Invariant, RowFirst
  <1>4. CASE k \in learned[a]
    <2>1. /\ call[c].base <= row[a].version
          /\ call[c].base = row[a].version => call[c].got = snap[a]
      BY <1>0, <1>4 DEF Invariant, LearnedIsCurrent
    <2>2. ~row[a].exists => row[a].version = 0
      BY <1>0 DEF Row
    <2> QED BY <1>0, <1>2, <2>1, <2>2
  <1> QED BY <1>1, <1>3, <1>4

LEMMA IdleOK == HandlerOK(Idle)
  BY DEF HandlerOK, Idle

(* A handler that only moves on, to no reading state, is still fine.         *)
LEMMA MovedOK ==
  ASSUME TypeOK, Handling, NEW c \in Calls,
         NEW pc \in {"admit", "ensure", "commit", "reread", "delCommit"}
  PROVE  HandlerOK([call[c] EXCEPT !.pc = pc])
  <1>1. call[c] \in CallState /\ HandlerOK(call[c])
    BY DEF TypeOK, Handling
  <1> QED BY <1>1 DEF HandlerOK, CallState

(* Steps that change neither rows, copies, accounts nor what clients know.   *)
Still == UNCHANGED <<row, snap, history, user, tomb, learned>>

LEMMA StillStep ==
  ASSUME Invariant, TypeOK', Still, NEW c \in Calls, NEW x,
         call' = [call EXCEPT ![c] = x], HandlerOK(x)
  PROVE  Invariant'
  <1>1. Standing' /\ RowFirst' /\ LearnedIsCurrent'
    BY DEF Invariant, Still, Standing, RowFirst, LearnedIsCurrent
  <1>2. ASSUME NEW d \in Calls PROVE HandlerOK(call[d])'
    <2>1. call'[d] = IF d = c THEN x ELSE call[d]
      BY DEF Invariant, TypeOK
    <2>2. HandlerOK(call'[d])
      BY <2>1 DEF Invariant, Handling
    <2> QED BY <2>2 DEF HandlerOK, Still
  <1> QED BY <1>1, <1>2 DEF Invariant, Handling

LEMMA StillMoves ==
  ASSUME Invariant, TypeOK', Still, NEW c \in Calls,
         \/ Finish(c)
         \/ \E pc \in {"admit", "ensure", "commit", "reread", "delCommit"} : Goto(c, pc)
  PROVE  Invariant'
  <1>1. CASE Finish(c)
    BY <1>1, IdleOK, StillStep DEF Finish
  <1>2. ASSUME NEW pc \in {"admit", "ensure", "commit", "reread", "delCommit"}, Goto(c, pc)
        PROVE  Invariant'
    <2>1. call' = [call EXCEPT ![c] = [call[c] EXCEPT !.pc = pc]]
      BY <1>2 DEF Goto, Invariant, TypeOK
    <2>2. HandlerOK([call[c] EXCEPT !.pc = pc])
      BY MovedOK DEF Invariant
    <2> QED BY <2>1, <2>2, StillStep
  <1> QED BY <1>1, <1>2

(* The same, for a step of handler c that writes: handlers of the others     *)
(* stay fine if versions only grow and a kept version keeps its copy.        *)
LEMMA OthersOK ==
  ASSUME Invariant, NEW d \in Calls, call'[d] = call[d],
         LET a == call[d].acct IN
           /\ learned[a] \subseteq learned'[a]
           /\ ~tomb'[a] =>
                /\ ~tomb[a]
                /\ row'[a].version >= row[a].version
                /\ row'[a].version = row[a].version => snap'[a] = snap[a]
         , TypeOK'
  PROVE  HandlerOK(call[d])'
  <1> DEFINE a == call[d].acct
  <1>1. HandlerOK(call[d]) /\ a \in Accounts /\ call[d].label \in Nat
    BY DEF Invariant, Handling, TypeOK, CallState
  <1>2. row[a].version \in Nat /\ row'[a].version \in Nat
    BY <1>1 DEF Invariant, TypeOK, Row
  <1> QED BY <1>1, <1>2 DEF HandlerOK

(* The steps that only start, move or end a handler.                         *)
LEMMA ArrivalSteps ==
  ASSUME Invariant, TypeOK', NEW c \in Calls,
         PutArrive(c) \/ GetArrive(c) \/ DeleteArrive(c)
  PROVE  Invariant'
  <1>1. CASE PutArrive(c)
    <2>0. PICK b \in Accounts, hasBase \in BOOLEAN, force \in BOOLEAN, data \in Payloads :
            \E k \in IF hasBase THEN learned[b] \cup {Nothing} ELSE {Nothing} :
              ~tomb[b] /\ call' = [call EXCEPT ![c] = Push(b, hasBase, force, data, k)]
      BY <1>1, Zenon DEF PutArrive
    <2>1. PICK k \in learned[b] \cup {Nothing} :
            call' = [call EXCEPT ![c] = Push(b, hasBase, force, data, k)]
      BY <2>0
    <2>2. k = [version |-> k.version, copy |-> k.copy]
      BY <2>1, ZeroTypes DEF Invariant, TypeOK, Knowledge
    <2>3. HandlerOK(Push(b, hasBase, force, data, k))
      BY <2>1, <2>2 DEF HandlerOK, Push, Idle
    <2> QED BY <1>1, <2>1, <2>3, StillStep DEF PutArrive, Still, tables, people
  <1>2. CASE GetArrive(c)
    <2>1. PICK b \in Accounts : \E k \in learned[b] \cup {Nothing} :
            call' = [call EXCEPT ![c] =
              [Idle EXCEPT !.pc = "row", !.acct = b, !.base = k.version, !.got = k.copy]]
      BY <1>2 DEF GetArrive
    <2>2. PICK k \in learned[b] \cup {Nothing} : call' = [call EXCEPT ![c] =
              [Idle EXCEPT !.pc = "row", !.acct = b, !.base = k.version, !.got = k.copy]]
      BY <2>1
    <2>3. HandlerOK([Idle EXCEPT !.pc = "row", !.acct = b, !.base = k.version, !.got = k.copy])
      BY DEF HandlerOK, Idle
    <2> QED BY <1>2, <2>2, <2>3, StillStep DEF GetArrive, Still, tables, people
  <1>3. CASE DeleteArrive(c)
    <2>1. PICK b \in Accounts : call' = [call EXCEPT ![c] = [Idle EXCEPT !.pc = "delAdmit", !.acct = b]]
      BY <1>3 DEF DeleteArrive
    <2>2. HandlerOK([Idle EXCEPT !.pc = "delAdmit", !.acct = b])
      BY DEF HandlerOK, Idle
    <2> QED BY <1>3, <2>1, <2>2, StillStep DEF DeleteArrive, Still, tables, people
  <1> QED BY <1>1, <1>2, <1>3

LEMMA MovingSteps ==
  ASSUME Invariant, TypeOK', NEW c \in Calls,
         PutGuard(c) \/ PutAdmit(c) \/ PutReread(c) \/ DeleteAdmit(c) \/ Cancel(c)
  PROVE  Invariant'
  <1>1. Still
    BY DEF Still, PutGuard, PutAdmit, PutReread, DeleteAdmit, Cancel, tables, people
  <1>2. \/ Finish(c)
        \/ \E pc \in {"admit", "ensure", "commit", "reread", "delCommit"} : Goto(c, pc)
    BY DEF PutGuard, PutAdmit, PutReread, DeleteAdmit, Cancel
  <1> QED BY <1>1, <1>2, StillMoves

LEMMA EnsureStep ==
  ASSUME Invariant, TypeOK', NEW c \in Calls, PutEnsure(c)
  PROVE  Invariant'
  <1> DEFINE a == call[c].acct
  <1>1. Still
    BY DEF Still, PutEnsure, tables, people
  <1>2. CASE Goto(c, "commit") \/ Finish(c)
    BY <1>1, <1>2, StillMoves
  <1>3. CASE ~user[a] /\ ~tomb[a] /\ Goto(c, "upsert")
    <2>1. a \notin Provisioned
      BY <1>3 DEF Invariant, Standing
    <2>2. call[c] \in CallState /\ HandlerOK(call[c])
      BY DEF Invariant, TypeOK, Handling
    <2>3. HandlerOK([call[c] EXCEPT !.pc = "upsert"])
      BY <2>1, <2>2 DEF HandlerOK, CallState
    <2>4. call' = [call EXCEPT ![c] = [call[c] EXCEPT !.pc = "upsert"]]
      BY <1>3 DEF Goto, Invariant, TypeOK
    <2> QED BY <1>1, <2>3, <2>4, StillStep
  <1> QED BY <1>2, <1>3 DEF PutEnsure

LEMMA UpsertStep ==
  ASSUME Invariant, TypeOK', NEW c \in Calls, PutUpsert(c)
  PROVE  Invariant'
  <1> DEFINE a == call[c].acct
  <1>1. a \notin Provisioned /\ a \in Accounts
    <2>1. HandlerOK(call[c]) /\ a \in Accounts
      BY DEF Invariant, Handling, TypeOK, CallState
    <2> QED BY <2>1 DEF HandlerOK, PutUpsert
  <1>2. UNCHANGED <<row, snap, history, tomb, learned>>
    BY DEF PutUpsert, tables
  <1>3. \A b \in Provisioned : user'[b] = user[b]
    BY <1>1, StoreAssumption DEF PutUpsert, Invariant, TypeOK
  <1>4. Standing' /\ RowFirst' /\ LearnedIsCurrent'
    BY <1>2, <1>3 DEF Invariant, Standing, RowFirst, LearnedIsCurrent
  <1>5. ASSUME NEW d \in Calls PROVE HandlerOK(call[d])'
    <2>1. call' = [call EXCEPT ![c] = [call[c] EXCEPT !.pc = "commit"]]
      BY DEF PutUpsert, Goto, Invariant, TypeOK
    <2>2. call'[d] = IF d = c THEN [call[c] EXCEPT !.pc = "commit"] ELSE call[d]
      BY <2>1 DEF Invariant, TypeOK
    <2>3. HandlerOK(call'[d])
      BY <2>2, MovedOK DEF Invariant, Handling
    <2> QED BY <1>2, <2>3 DEF HandlerOK
  <1> QED BY <1>4, <1>5 DEF Invariant, Handling

(* The two statements of a read.                                             *)
LEMMA ReadSteps ==
  ASSUME Invariant, TypeOK', NEW c \in Calls, GetRow(c) \/ GetSnap(c)
  PROVE  Invariant'
  <1> DEFINE a == call[c].acct
  <1>0. Still /\ call[c] \in CallState /\ HandlerOK(call[c]) /\ a \in Accounts
    BY DEF Still, GetRow, GetSnap, tables, people, Invariant, TypeOK, Handling, CallState
  <1>1. CASE Finish(c)
    BY <1>0, <1>1, StillMoves
  <1>2. CASE GetRow(c) /\ ~Finish(c)
    <2>1. call' = [call EXCEPT ![c] = [call[c] EXCEPT !.pc = "snap", !.label = row[a].version]]
      BY <1>2 DEF GetRow, Invariant, TypeOK
    <2>2. row[a].version \in Nat
      BY <1>0 DEF Invariant, TypeOK, Row
    <2>3. HandlerOK([call[c] EXCEPT !.pc = "snap", !.label = row[a].version])
      BY <1>0, <1>2, <2>2 DEF HandlerOK, CallState, GetRow
    <2> QED BY <1>0, <2>1, <2>3, StillStep
  <1>3. CASE GetSnap(c) /\ ~Finish(c)
    <2> DEFINE got == IF row[a].exists THEN snap[a] ELSE NoCopy
    <2>1. call' = [call EXCEPT ![c] = [call[c] EXCEPT !.pc = "answered", !.got = got]]
      BY <1>3 DEF GetSnap, Invariant, TypeOK
    <2>2. got = snap[a]
      BY <1>0 DEF Invariant, RowFirst
    <2>3. HandlerOK([call[c] EXCEPT !.pc = "answered", !.got = got])
      BY <1>0, <1>3, <2>2 DEF GetSnap, HandlerOK, CallState
    <2> QED BY <1>0, <2>1, <2>3, StillStep
  <1> QED BY <1>1, <1>2, <1>3

LEMMA AnswerStep ==
  ASSUME Invariant, TypeOK', NEW c \in Calls, GetDone(c)
  PROVE  Invariant'
  <1> DEFINE a == call[c].acct
             k == [version |-> call[c].label, copy |-> call[c].got]
  <1>0. HandlerOK(call[c]) /\ a \in Accounts /\ call[c].pc = "answered"
    BY DEF GetDone, Invariant, Handling, TypeOK, CallState
  <1>1. UNCHANGED <<row, snap, history, user, tomb>>
    BY DEF GetDone, tables, people
  <1>2. learned' = [learned EXCEPT ![a] = @ \cup {k}]
    BY DEF GetDone
  <1>3. Standing' /\ RowFirst'
    BY <1>1 DEF Invariant, Standing, RowFirst
  <1>4. LearnedIsCurrent'
    <2>1. ASSUME NEW b \in Accounts, NEW j \in learned'[b], ~tomb[b]
          PROVE  j.version <= row[b].version /\ (j.version = row[b].version => j.copy = snap[b])
      <3>1. CASE j \in learned[b]
        BY <2>1, <3>1 DEF Invariant, LearnedIsCurrent
      <3>2. CASE j \notin learned[b]
        <4>1. b = a /\ j = k
          BY <1>2, <2>1, <3>2, StoreAssumption DEF Invariant, TypeOK
        <4> QED BY <1>0, <2>1, <4>1 DEF HandlerOK
      <3> QED BY <3>1, <3>2
    <2> QED BY <1>1, <2>1 DEF LearnedIsCurrent
  <1>5. ASSUME NEW d \in Calls PROVE HandlerOK(call[d])'
    <2>1. call'[d] = IF d = c THEN Idle ELSE call[d]
      BY DEF GetDone, Finish, Invariant, TypeOK
    <2>2. CASE d = c
      BY <2>1, <2>2 DEF HandlerOK, Idle
    <2>3. CASE d # c
      <3>1. learned[call[d].acct] \subseteq learned'[call[d].acct]
        BY <1>2 DEF Invariant, TypeOK
      <3>2. HandlerOK(call[d])
        BY DEF Invariant, Handling
      <3>3. row[call[d].acct].version \in Nat
        BY DEF Invariant, TypeOK, CallState, Row
      <3> QED BY <1>1, <2>1, <2>3, <3>1, <3>2, <3>3 DEF HandlerOK
    <2> QED BY <2>2, <2>3
  <1> QED BY <1>3, <1>4, <1>5 DEF Invariant, Handling

(* A step that advances the row of one account by one version, ends or keeps *)
(* its handlers, and tells clients at most one thing about the new version.  *)
LEMMA AdvanceStep ==
  ASSUME Invariant, TypeOK', NEW c \in Calls, NEW a \in Accounts, Finish(c),
         UNCHANGED <<user, tomb>>, a \in Provisioned => ~tomb[a],
         row'[a].version = row[a].version + 1,
         \A b \in Accounts \ {a} : /\ row'[b] = row[b]
                                 /\ snap'[b] = snap[b]
                                 /\ history'[b] = history[b]
                                 /\ learned'[b] = learned[b],
         \/ learned'[a] = learned[a]
         \/ learned'[a] = learned[a] \cup {[version |-> row[a].version + 1, copy |-> snap'[a]]}
         \/ tomb[a] /\ learned[a] \subseteq learned'[a]
  PROVE  Invariant'
  <1>0. row[a].version \in Nat /\ row'[a] \in Row /\ snap'[a] \in Copy
    BY DEF Invariant, TypeOK, Row
  <1>1. Standing'
    BY StoreAssumption DEF Invariant, Standing
  <1>2. RowFirst'
    BY <1>0 DEF Invariant, RowFirst, Row
  <1>3. LearnedIsCurrent'
    <2>1. ASSUME NEW b \in Accounts, NEW j \in learned'[b], ~tomb[b]
          PROVE  j.version <= row'[b].version /\ (j.version = row'[b].version => j.copy = snap'[b])
      <3>1. CASE b # a
        BY <2>1, <3>1, StoreAssumption DEF Invariant, LearnedIsCurrent
      <3>2. CASE b = a /\ j \in learned[a]
        <4>1. j.version <= row[a].version /\ j.version \in Nat
          BY <2>1, <3>2 DEF Invariant, LearnedIsCurrent, TypeOK, Knowledge
        <4> QED BY <1>0, <3>2, <4>1
      <3>3. CASE b = a /\ j \notin learned[a]
        <4>1. j = [version |-> row[a].version + 1, copy |-> snap'[a]]
          BY <2>1, <3>3
        <4> QED BY <1>0, <3>3, <4>1
      <3> QED BY <3>1, <3>2, <3>3
    <2> QED BY <2>1 DEF LearnedIsCurrent
  <1>4. ASSUME NEW d \in Calls PROVE HandlerOK(call[d])'
    <2>1. call'[d] = IF d = c THEN Idle ELSE call[d]
      BY DEF Finish, Invariant, TypeOK
    <2>2. CASE d = c
      BY <2>1, <2>2 DEF HandlerOK, Idle
    <2>3. CASE d # c
      <3>1. call[d].acct \in Accounts
        BY DEF Invariant, TypeOK, CallState
      <3>2. learned[call[d].acct] \subseteq learned'[call[d].acct]
        BY <3>1
      <3>3. /\ row'[call[d].acct].version >= row[call[d].acct].version
            /\ row'[call[d].acct].version = row[call[d].acct].version
                 => snap'[call[d].acct] = snap[call[d].acct]
        <4>1. CASE call[d].acct = a
          BY <1>0, <4>1
        <4>2. CASE call[d].acct # a
          <5>1. row[call[d].acct].version \in Nat
            BY <3>1 DEF Invariant, TypeOK, Row
          <5> QED BY <3>1, <4>2, <5>1
        <4> QED BY <4>1, <4>2
      <3>4. call'[d] = call[d]
        BY <2>1, <2>3
      <3> HIDE DEF Invariant
      <3> QED BY <3>2, <3>3, <3>4, OthersOK
    <2> QED BY <2>2, <2>3
  <1> QED BY <1>1, <1>2, <1>3, <1>4 DEF Invariant, Handling

(* The write of a push, and the reject or failure that writes nothing.       *)
LEMMA CommitStep ==
  ASSUME Invariant, TypeOK', NEW c \in Calls, PutCommit(c)
  PROVE  Invariant'
  <1> DEFINE a == call[c].acct
             data == call[c].data
  <1>0. a \in Accounts /\ data \in Payloads /\ row[a] \in Row
    BY DEF Invariant, TypeOK, CallState
  <1>1. PICK older \in BOOLEAN :
          \/ Goto(c, "reread") /\ UNCHANGED <<tables, learned>>
          \/ Finish(c) /\ UNCHANGED <<tables, learned>>
          \/ /\ Verdict(c, older) /\ Finish(c) /\ ~WriteFails(c)
             /\ StorePut(a, data) /\ Acknowledge(c)
    BY DEF PutCommit
  <1>2. CASE \/ Goto(c, "reread") /\ UNCHANGED <<tables, learned>>
             \/ Finish(c) /\ UNCHANGED <<tables, learned>>
    <2>1. Still
      BY <1>2 DEF Still, PutCommit, tables, people
    <2> QED BY <1>2, <2>1, StillMoves
  <1>3. CASE /\ Verdict(c, older) /\ Finish(c) /\ ~WriteFails(c)
             /\ StorePut(a, data) /\ Acknowledge(c)
    <2>1. UNCHANGED <<user, tomb>>
      BY DEF PutCommit, people
    <2>2. a \in Provisioned => ~tomb[a]
      BY <1>3 DEF WriteFails, Invariant, Standing, NoRow
    <2>3. row' = [row EXCEPT ![a] = [exists |-> TRUE, deleted |-> FALSE, version |-> row[a].version + 1]]
      BY <1>3 DEF StorePut
    <2>4. row'[a].version = row[a].version + 1 /\ \A b \in Accounts \ {a} : row'[b] = row[b]
      BY <1>0, <2>3 DEF Invariant, TypeOK
    <2>5. \A b \in Accounts \ {a} : snap'[b] = snap[b] /\ history'[b] = history[b]
      BY <1>3 DEF StorePut, Invariant, TypeOK
    <2>6. \A b \in Accounts \ {a} : learned'[b] = learned[b]
      BY <1>3 DEF Acknowledge, Invariant, TypeOK
    <2>7. \/ learned'[a] = learned[a]
          \/ learned'[a] = learned[a] \cup {[version |-> row[a].version + 1, copy |-> snap'[a]]}
          \/ tomb[a] /\ learned[a] \subseteq learned'[a]
      <3>1. CASE data # NoData
        <4>1. snap'[a] = [data |-> data, version |-> row[a].version + 1]
          BY <1>0, <1>3, <3>1 DEF StorePut, Invariant, TypeOK
        <4>2. learned'[a] = learned[a] \cup
               {[version |-> row[a].version + 1, copy |-> [data |-> data, version |-> row[a].version + 1]]}
          BY <1>0, <1>3, <3>1 DEF Acknowledge, Invariant, TypeOK
        <4> QED BY <4>1, <4>2
      <3>2. CASE data = NoData /\ call[c].hasBase /\ ~call[c].force
        <4>1. snap' = snap
          BY <1>3, <3>2 DEF StorePut
        <4>2. learned'[a] = learned[a] \cup {[version |-> row[a].version + 1, copy |-> call[c].got]}
          BY <1>0, <1>3, <3>2 DEF Acknowledge, Invariant, TypeOK
        <4>3. ~tomb[a] => call[c].got = snap[a]
          BY <1>3, <2>2, <3>2, BaseIsCurrent
        <4> QED BY <4>1, <4>2, <4>3
      <3>3. CASE data = NoData /\ ~(call[c].hasBase /\ ~call[c].force)
        BY <1>3, <3>3 DEF Acknowledge
      <3> QED BY <3>1, <3>2, <3>3
    <2>8. Finish(c)
      BY <1>3
    <2> HIDE DEF a
    <2> QED BY <1>0, <2>1, <2>2, <2>4, <2>5, <2>6, <2>7, <2>8, AdvanceStep
  <1> QED BY <1>1, <1>2, <1>3

LEMMA DeleteCommitStep ==
  ASSUME Invariant, TypeOK', NEW c \in Calls, DeleteCommit(c)
  PROVE  Invariant'
  <1> DEFINE a == call[c].acct
  <1>0. a \in Accounts /\ row[a] \in Row
    BY DEF Invariant, TypeOK, CallState
  <1>1. Finish(c) /\ UNCHANGED <<snap, history, user, tomb, learned>>
    BY DEF DeleteCommit, people
  <1>2. CASE UNCHANGED row
    BY <1>1, <1>2, StillMoves DEF Still
  <1>3. CASE row[a].exists /\ row' = [row EXCEPT ![a].deleted = TRUE, ![a].version = row[a].version + 1]
    <2>1. a \in Provisioned => ~tomb[a]
      BY <1>3 DEF Invariant, Standing, NoRow
    <2>2. row'[a].version = row[a].version + 1
      BY <1>0, <1>3 DEF Invariant, TypeOK, Row
    <2>3. \A b \in Accounts \ {a} : row'[b] = row[b]
      BY <1>0, <1>3 DEF Invariant, TypeOK
    <2> HIDE DEF a
    <2> QED BY <1>0, <1>1, <2>1, <2>2, <2>3, AdvanceStep
  <1> QED BY <1>2, <1>3 DEF DeleteCommit

(* Erasure, and the operators' other steps.                                  *)
LEMMA OperatorSteps ==
  ASSUME Invariant, TypeOK', NEW a \in Accounts,
         SetBarred(a) \/ DeleteAccount(a) \/ PruneHistory(a)
  PROVE  Invariant'
  <1>1. CASE SetBarred(a)
    BY <1>1 DEF SetBarred, tables, Invariant, Standing, RowFirst, LearnedIsCurrent, Handling, HandlerOK
  <1>2. CASE PruneHistory(a)
    <2>1. UNCHANGED <<row, snap, user, tomb, learned, call>>
      BY <1>2 DEF PruneHistory, people
    <2>2. \A b \in Accounts : history'[b] \subseteq history[b]
      BY <1>2 DEF PruneHistory, Invariant, TypeOK
    <2>3. Standing'
      BY <2>1, <2>2, StoreAssumption DEF Invariant, Standing
    <2> QED BY <2>1, <2>3 DEF Invariant, RowFirst, LearnedIsCurrent, Handling, HandlerOK
  <1>3. CASE DeleteAccount(a)
    <2>1. UNCHANGED <<learned, call>> /\ user[a]
      BY <1>3 DEF DeleteAccount
    <2>2. \A b \in Accounts : b # a => /\ row'[b] = row[b] /\ snap'[b] = snap[b]
                                     /\ history'[b] = history[b]
                                     /\ user'[b] = user[b] /\ tomb'[b] = tomb[b]
      BY <1>3 DEF DeleteAccount, Invariant, TypeOK
    <2>3. /\ row'[a] = NoRow /\ snap'[a] = NoCopy /\ history'[a] = {}
          /\ ~user'[a] /\ tomb'[a]
      BY <1>3 DEF DeleteAccount, Invariant, TypeOK
    <2>4. Standing' /\ RowFirst'
      BY <2>2, <2>3, StoreAssumption DEF Invariant, Standing, RowFirst
    <2>5. LearnedIsCurrent'
      BY <2>1, <2>2, <2>3, StoreAssumption DEF Invariant, LearnedIsCurrent
    <2>6. ASSUME NEW d \in Calls PROVE HandlerOK(call[d])'
      <3>1. HandlerOK(call[d]) /\ call[d].acct \in Accounts
        BY DEF Invariant, Handling, TypeOK, CallState
      <3>2. CASE call[d].acct = a
        BY <2>1, <2>3, <3>1, <3>2 DEF HandlerOK
      <3>3. CASE call[d].acct # a
        BY <2>1, <2>2, <3>1, <3>3 DEF HandlerOK
      <3> QED BY <3>2, <3>3
    <2> QED BY <2>4, <2>5, <2>6 DEF Invariant, Handling
  <1> QED BY <1>1, <1>2, <1>3

LEMMA InvariantNext == ASSUME Invariant, [Next]_vars PROVE Invariant'
  <1>0. TypeOK'
    BY NextType DEF Invariant
  <1>1. ASSUME NEW c \in Calls, PutStep(c) \/ GetStep(c) \/ DeleteStep(c) \/ Cancel(c)
        PROVE  Invariant'
    BY <1>0, <1>1, ArrivalSteps, MovingSteps, EnsureStep, UpsertStep, CommitStep,
       ReadSteps, AnswerStep, DeleteCommitStep
       DEF PutStep, GetStep, DeleteStep
  <1>2. ASSUME NEW a \in Accounts, SetBarred(a) \/ DeleteAccount(a) \/ PruneHistory(a)
        PROVE  Invariant'
    BY <1>0, <1>2, OperatorSteps
  <1>3. CASE UNCHANGED vars
    BY <1>3 DEF vars, Invariant, TypeOK, Standing, RowFirst, Handling, HandlerOK, LearnedIsCurrent
  <1> QED BY <1>1, <1>2, <1>3 DEF Next

(* The version protocol is sound: what a client was told about the version   *)
(* the row still has is the copy the row still has, although reads take two  *)
(* statements.                                                               *)
THEOREM LearnedHolds == Spec => []LearnedIsCurrent
  <1>1. Invariant => LearnedIsCurrent
    BY DEF Invariant
  <1> QED BY <1>1, InvariantInit, InvariantNext, PTL DEF Spec

(* Erasure of a provisioned account is final, whatever push was in progress. *)
THEOREM ErasureHolds == Spec => []ErasedStaysErased
  <1>1. Invariant => ErasedStaysErased
    BY DEF Invariant, Standing, ErasedStaysErased
  <1> QED BY <1>1, InvariantInit, InvariantNext, PTL DEF Spec

(* An accepted push is a PutCommit step of its handler.                      *)
LEMMA CommitsByPutCommit ==
  ASSUME Invariant, Next, NEW c \in Calls, Commits(c)
  PROVE  \E older \in BOOLEAN : Verdict(c, older)
  <1>0. call[c].pc = "commit" /\ call'[c].pc = "idle" /\ row' # row
    BY DEF Commits
  <1>1. PutCommit(c)
    <2>1. ASSUME NEW d \in Calls, PutStep(d) \/ GetStep(d) \/ DeleteStep(d) \/ Cancel(d), ~PutCommit(c)
          PROVE  FALSE
      <3>1. CASE d = c
        BY <1>0, <2>1, <3>1
           DEF PutStep, PutArrive, PutGuard, PutAdmit, PutEnsure, PutUpsert, PutReread, GetStep,
               GetArrive, GetRow, GetSnap, GetDone, DeleteStep, DeleteArrive, DeleteAdmit,
               DeleteCommit, Cancel, tables
      <3>2. CASE d # c
        <4>1. (PutCommit(d) \/ DeleteCommit(d)) => call'[c] = call[c]
          BY <3>2 DEF PutCommit, DeleteCommit, Goto, Finish, Invariant, TypeOK
        <4>2. ~(PutCommit(d) \/ DeleteCommit(d)) => UNCHANGED row
          BY <2>1 DEF PutStep, PutArrive, PutGuard, PutAdmit, PutEnsure, PutUpsert, PutReread, GetStep,
               GetArrive, GetRow, GetSnap, GetDone, DeleteStep, DeleteArrive, DeleteAdmit,
               Cancel, tables
        <4> QED BY <1>0, <4>1, <4>2
      <3> QED BY <3>1, <3>2
    <2>2. ASSUME NEW a \in Accounts, SetBarred(a) \/ DeleteAccount(a) \/ PruneHistory(a)
          PROVE  FALSE
      BY <1>0, <2>2 DEF SetBarred, DeleteAccount, PruneHistory
    <2> QED BY <2>1, <2>2 DEF Next
  <1>2. PICK older \in BOOLEAN : Verdict(c, older) /\ ~WriteFails(c)
    <2>1. ~UNCHANGED row
      BY <1>0
    <2> QED BY <1>1, <2>1 DEF PutCommit, tables
  <1> QED BY <1>2

(* No lost update, for any number of devices: an unforced push that names    *)
(* its base replaces exactly the copy its edit started from.                 *)
THEOREM NoLostUpdateHolds == Spec => NoLostUpdate
  <1> DEFINE Kept == \A c \in Calls : Unforced(c) /\ call[c].hasBase
                                     => call[c].got = snap[call[c].acct]
  <1>1. Invariant /\ [Next]_vars => [Kept]_vars
    <2> SUFFICES ASSUME Invariant, Next, NEW c \in Calls, Unforced(c), call[c].hasBase
                 PROVE  call[c].got = snap[call[c].acct]
      OBVIOUS
    <2>1. Commits(c) /\ ~call[c].force /\ ~tomb[call[c].acct]
      BY DEF Unforced
    <2>2. PICK older \in BOOLEAN : Verdict(c, older)
      BY <2>1, CommitsByPutCommit
    <2> QED BY <2>1, <2>2, BaseIsCurrent
  <1> QED BY <1>1, InvariantInit, InvariantNext, PTL DEF Spec, NoLostUpdate
-----------------------------------------------------------------------------
(* The destructive-write guard.                                              *)

(* A versioned push past the guard: while its base is the row's version, the *)
(* copy its edit started from is the one the guard compared with.            *)
Compared(x) ==
  /\ x.pc \in {"admit", "ensure", "upsert", "commit"} /\ Guarded(x) /\ x.hasBase
  /\ ~tomb[x.acct]
  /\ x.base = row[x.acct].version
  => <<x.got.data, x.data>> \notin Destroys

Comparisons == \A c \in Calls : Compared(call[c])

(* What a versioned push names is a version the row has or has had, and the  *)
(* current one names the current copy.                                       *)
LEMMA NamesKnown ==
  ASSUME Invariant, NEW c \in Calls, call[c].hasBase,
         ~tomb[call[c].acct]
  PROVE  /\ call[c].base <= row[call[c].acct].version
         /\ call[c].base = row[call[c].acct].version => call[c].got = snap[call[c].acct]
  <1> DEFINE a == call[c].acct
             k == [version |-> call[c].base, copy |-> call[c].got]
  <1>0. a \in Accounts /\ row[a] \in Row /\ call[c].base \in Nat
    BY DEF Invariant, TypeOK, CallState
  <1>1. k \in learned[a] \cup {Nothing}
    BY DEF Invariant, Handling, HandlerOK
  <1>2. CASE k = Nothing
    <2>1. call[c].base = 0 /\ call[c].got = NoCopy
      BY <1>2 DEF Nothing
    <2>2. row[a].version = 0 => snap[a] = NoCopy
      BY <1>0 DEF Row, Invariant, RowFirst
    <2> QED BY <1>0, <2>1, <2>2 DEF Row
  <1>3. CASE k \in learned[a]
    BY <1>0, <1>3 DEF Invariant, LearnedIsCurrent
  <1> QED BY <1>1, <1>2, <1>3

(* Until the account is deleted its version only grows.                      *)
LEMMA VersionGrows ==
  ASSUME Invariant, Next, NEW a \in Accounts, ~tomb'[a]
  PROVE  ~tomb[a] /\ row'[a].version >= row[a].version
  <1>0. row[a] \in Row /\ row[a].version \in Nat
    BY DEF Invariant, TypeOK, Row
  <1>1. ASSUME NEW c \in Calls, PutCommit(c) \/ DeleteCommit(c)
        PROVE  ~tomb[a] /\ row'[a].version >= row[a].version
    <2>1. tomb' = tomb
      BY <1>1 DEF PutCommit, DeleteCommit, people
    <2>2. CASE UNCHANGED row
      BY <1>0, <2>1, <2>2
    <2>3. CASE PutCommit(c) /\ StorePut(call[c].acct, call[c].data)
      BY <1>0, <2>1, <2>3 DEF StorePut, Invariant, TypeOK
    <2>4. CASE DeleteCommit(c) /\ ~UNCHANGED row
      <3>1. row' = [row EXCEPT ![call[c].acct].deleted = TRUE,
                               ![call[c].acct].version = row[call[c].acct].version + 1]
        BY <2>4 DEF DeleteCommit
      <3> QED BY <1>0, <2>1, <3>1 DEF Invariant, TypeOK, Row
    <2> QED BY <1>1, <2>2, <2>3, <2>4 DEF PutCommit, tables
  <1>2. ASSUME NEW c \in Calls, PutStep(c) \/ GetStep(c) \/ DeleteStep(c) \/ Cancel(c),
               ~(PutCommit(c) \/ DeleteCommit(c))
        PROVE  ~tomb[a] /\ row'[a].version >= row[a].version
    <2>1. UNCHANGED <<row, tomb>>
      BY <1>2 DEF PutStep, PutArrive, PutGuard, PutAdmit, PutEnsure, PutUpsert, PutReread, GetStep,
         GetArrive, GetRow, GetSnap, GetDone, DeleteStep, DeleteArrive, DeleteAdmit, Cancel, tables, people
    <2> QED BY <1>0, <2>1
  <1>3. ASSUME NEW b \in Accounts, SetBarred(b) \/ DeleteAccount(b) \/ PruneHistory(b)
        PROVE  ~tomb[a] /\ row'[a].version >= row[a].version
    BY <1>0, <1>3 DEF SetBarred, DeleteAccount, PruneHistory, tables, people, Invariant, TypeOK
  <1> QED BY <1>1, <1>2, <1>3 DEF Next

(* A handler is past the guard after a step because it was before, or        *)
(* because it passed the guard in this step.                                 *)
LEMMA PastTheGuard ==
  ASSUME Invariant, Next, NEW d \in Calls,
         call'[d].pc \in {"admit", "ensure", "upsert", "commit"}
  PROVE  \/ /\ call[d].pc \in {"admit", "ensure", "upsert", "commit"}
            /\ \E pc \in {"admit", "ensure", "upsert", "commit"} :
                 call'[d] = [call[d] EXCEPT !.pc = pc]
         \/ PutGuard(d) /\ Goto(d, "admit")
  <1>0. call[d] \in CallState
    BY DEF Invariant, TypeOK
  <1>1. call'[d] = call[d] => call'[d] = [call[d] EXCEPT !.pc = call[d].pc]
    BY <1>0 DEF CallState
  <1>2. CASE UNCHANGED call
    BY <1>1, <1>2
  <1>3. ASSUME NEW c \in Calls, c # d, PutStep(c) \/ GetStep(c) \/ DeleteStep(c) \/ Cancel(c)
        PROVE  call'[d] = call[d]
    BY <1>3 DEF PutStep, PutArrive, PutGuard, PutAdmit, PutEnsure, PutUpsert, PutCommit, PutReread, GetStep,
       GetArrive, GetRow, GetSnap, GetDone, DeleteStep, DeleteArrive, DeleteAdmit, DeleteCommit, Cancel,
       Goto, Finish, Invariant, TypeOK
  <1>4. CASE PutGuard(d)
    BY <1>4 DEF PutGuard, Finish, Idle, Invariant, TypeOK
  <1>5. CASE PutAdmit(d) \/ PutEnsure(d) \/ PutUpsert(d)
    BY <1>0, <1>5 DEF PutAdmit, PutEnsure, PutUpsert, Finish, Goto, Idle, Invariant, TypeOK
  <1>6. CASE PutArrive(d) \/ PutCommit(d) \/ PutReread(d) \/ Cancel(d)
    <2>1. \A x : call' = [call EXCEPT ![d] = x] => call'[d] = x
      BY DEF Invariant, TypeOK
    <2>2. CASE PutArrive(d)
      <3>1. PICK b \in Accounts, hasBase \in BOOLEAN, force \in BOOLEAN, data \in Payloads :
              \E k \in IF hasBase THEN learned[b] \cup {Nothing} ELSE {Nothing} :
                ~tomb[b] /\ call' = [call EXCEPT ![d] = Push(b, hasBase, force, data, k)]
        BY <2>2, Zenon DEF PutArrive
      <3>2. PICK k : call'[d] = Push(b, hasBase, force, data, k)
        BY <2>1, <3>1
      <3> QED BY <3>2 DEF Push, Idle
    <2>3. CASE Finish(d)
      BY <2>3, <2>1 DEF Finish, Idle
    <2>4. CASE Goto(d, "reread")
      <3>1. call'[d].pc = "reread"
        BY <1>0, <2>4 DEF Goto, Invariant, TypeOK, CallState
      <3> QED BY <3>1
    <2>5. PutCommit(d) \/ PutReread(d) \/ Cancel(d) => Finish(d) \/ Goto(d, "reread")
      BY DEF PutCommit, PutReread, Cancel
    <2> QED BY <1>6, <2>2, <2>3, <2>4, <2>5
  <1>7. CASE GetStep(d) \/ DeleteStep(d)
    <2>1. Finish(d) => call'[d].pc = "idle"
      BY DEF Finish, Idle, Invariant, TypeOK
    <2>2. GetArrive(d) => call'[d].pc = "row"
      BY DEF GetArrive, Idle, Invariant, TypeOK
    <2>3. GetRow(d) => Finish(d) \/ call'[d].pc = "snap"
      BY <1>0 DEF GetRow, Invariant, TypeOK, CallState
    <2>4. GetSnap(d) => Finish(d) \/ call'[d].pc = "answered"
      BY <1>0 DEF GetSnap, Invariant, TypeOK, CallState
    <2>5. DeleteArrive(d) => call'[d].pc = "delAdmit"
      BY DEF DeleteArrive, Idle, Invariant, TypeOK
    <2>6. DeleteAdmit(d) => Finish(d) \/ call'[d].pc = "delCommit"
      BY <1>0 DEF DeleteAdmit, Goto, Invariant, TypeOK, CallState
    <2>7. GetDone(d) \/ DeleteCommit(d) => Finish(d)
      BY DEF GetDone, DeleteCommit
    <2> QED BY <1>7, <2>1, <2>2, <2>3, <2>4, <2>5, <2>6, <2>7 DEF GetStep, DeleteStep
  <1>8. ASSUME NEW b \in Accounts, SetBarred(b) \/ DeleteAccount(b) \/ PruneHistory(b)
        PROVE  UNCHANGED call
    BY <1>8 DEF SetBarred, DeleteAccount, PruneHistory
  <1>9. CASE PutStep(d) \/ GetStep(d) \/ DeleteStep(d) \/ Cancel(d)
    BY <1>4, <1>5, <1>6, <1>7, <1>9 DEF PutStep
  <1> DEFINE Steps(c) == PutStep(c) \/ GetStep(c) \/ DeleteStep(c) \/ Cancel(c)
             Others(b) == SetBarred(b) \/ DeleteAccount(b) \/ PruneHistory(b)
  <1>10. (\E c \in Calls : Steps(c)) \/ (\E b \in Accounts : Others(b))
    BY DEF Next
  <1>11. CASE \E c \in Calls : Steps(c)
    <2>1. PICK c \in Calls : Steps(c)
      BY <1>11
    <2>2. CASE c = d
      BY <1>9, <2>1, <2>2
    <2>3. CASE c # d
      <3>1. call'[d] = call[d]
        BY <1>3, <2>1, <2>3
      <3> QED BY <1>1, <3>1
    <2> QED BY <2>2, <2>3
  <1>12. CASE \E b \in Accounts : Others(b)
    BY <1>2, <1>8, <1>12
  <1> QED BY <1>10, <1>11, <1>12

LEMMA ComparisonsNext ==
  ASSUME Invariant, Comparisons, [Next]_vars
  PROVE  Comparisons'
  <1>1. CASE UNCHANGED vars
    BY <1>1 DEF vars, people, tables, Comparisons, Compared
  <1>2. CASE Next
    <2> SUFFICES ASSUME NEW d \in Calls,
                        call'[d].pc \in {"admit", "ensure", "upsert", "commit"},
                        Guarded(call'[d]), call'[d].hasBase,
                        ~tomb'[call'[d].acct],
                        call'[d].base = row'[call'[d].acct].version
                 PROVE  <<call'[d].got.data, call'[d].data>> \notin Destroys
      BY DEF Comparisons, Compared
    <2> DEFINE a == call[d].acct
    <2>0. call[d] \in CallState /\ a \in Accounts /\ row[a].version \in Nat /\ call[d].base \in Nat
      BY DEF Invariant, TypeOK, CallState, Row
    <2>1. PICK pc \in {"admit", "ensure", "upsert", "commit"} : call'[d] = [call[d] EXCEPT !.pc = pc]
      BY <1>2, PastTheGuard DEF Goto, Invariant, TypeOK
    <2>2. /\ call'[d].acct = a /\ call'[d].base = call[d].base /\ call'[d].hasBase = call[d].hasBase
          /\ call'[d].got = call[d].got /\ call'[d].data = call[d].data
          /\ call'[d].force = call[d].force
      BY <2>0, <2>1 DEF CallState
    <2>3. ~tomb[a] /\ row'[a].version >= row[a].version /\ row'[a].version \in Nat
      <3>1. TypeOK'
        BY <1>2, NextType DEF Invariant
      <3> QED BY <1>2, <2>0, <2>2, <3>1, VersionGrows DEF TypeOK, Row
    <2>4. call[d].base <= row[a].version
          /\ (call[d].base = row[a].version => call[d].got = snap[a])
      BY <2>2, <2>3, NamesKnown
    <2>5. call[d].base = row[a].version /\ call[d].got = snap[a]
      BY <2>0, <2>2, <2>3, <2>4
    <2>6. Guarded(call[d])
      BY <2>2 DEF Guarded
    <2>7. CASE call[d].pc \in {"admit", "ensure", "upsert", "commit"}
      BY <2>2, <2>3, <2>5, <2>6, <2>7 DEF Comparisons, Compared
    <2>8. CASE PutGuard(d) /\ Goto(d, "admit")
      <3>1. ~Finish(d)
        BY <2>0, <2>1 DEF Finish, Idle, Invariant, TypeOK
      <3>2. PassesGuard(a, call[d].data)
        BY <2>6, <2>8, <3>1 DEF PutGuard
      <3> QED BY <2>2, <2>5, <3>2 DEF PassesGuard
    <2> QED BY <1>2, <2>7, <2>8, PastTheGuard
  <1> QED BY <1>1, <1>2

(* The guard and the version check together leave no gap, for any number of  *)
(* devices: no unforced versioned push replaces a copy that the guard        *)
(* refuses to see replaced, although it looked before the transaction.       *)
THEOREM GuardIsKept == Spec => GuardHolds
  <1> DEFINE Passed == \A c \in Calls : Unforced(c) /\ call[c].hasBase
                                       => PassesGuard(call[c].acct, call[c].data)
  <1>1. Init => Comparisons
    BY DEF Init, Comparisons, Compared, Idle
  <1>2. Invariant /\ Comparisons /\ [Next]_vars => [Passed]_vars
    <2> SUFFICES ASSUME Invariant, Comparisons, Next, NEW c \in Calls, Unforced(c), call[c].hasBase
                 PROVE  PassesGuard(call[c].acct, call[c].data)
      OBVIOUS
    <2> DEFINE a == call[c].acct
    <2>0. /\ Commits(c) /\ ~call[c].force /\ ~tomb[a] /\ a \in Accounts
          /\ call[c].pc = "commit" /\ call[c].base \in Nat /\ row[a] \in Row
      BY DEF Unforced, Commits, Invariant, TypeOK, CallState
    <2>1. PICK older \in BOOLEAN : Verdict(c, older)
      BY <2>0, CommitsByPutCommit
    <2>2. call[c].got = snap[a]
      BY <2>0, <2>1, BaseIsCurrent
    <2>3. call[c].base = row[a].version
      <3>1. ~row[a].exists => row[a].version = 0
        BY <2>0 DEF Row
      <3>2. call[c].base <= row[a].version
        BY <2>0, <2>1, NamesKnown
      <3>3. ~row[a].exists \/ call[c].base = row[a].version
        BY <2>0, <2>1 DEF Verdict, DecidePut, IsVersioned
      <3> QED BY <2>0, <3>1, <3>2, <3>3
    <2>4. CASE call[c].data = NoData
      BY <2>4, StoreAssumption DEF PassesGuard
    <2>5. CASE call[c].data # NoData
      BY <2>0, <2>1, <2>2, <2>3, <2>5 DEF Comparisons, Compared, Guarded, PassesGuard
    <2> QED BY <2>4, <2>5
  <1> QED BY <1>1, <1>2, InvariantInit, InvariantNext, ComparisonsNext, PTL DEF Spec, GuardHolds

-----------------------------------------------------------------------------
(* History.                                                                  *)

(* No two copies carry one version.                                          *)
Distinct(copies) == \A g, h \in copies : g.version = h.version => g = h

(* The trim leaves at most HistoryLimit copies: all it keeps but the oldest  *)
(* of them are newer than that oldest, of which it allows fewer than the     *)
(* limit.                                                                    *)
LEMMA NewestBounded ==
  ASSUME NEW copies \in SUBSET Copy, IsFiniteSet(copies), Distinct(copies)
  PROVE  Cardinality(Newest(copies)) <= HistoryLimit
  <1> DEFINE kept == Newest(copies)
             versions == {h.version : h \in kept}
  <1>1. IsFiniteSet(kept) /\ kept \in SUBSET copies
    <2>1. kept \in SUBSET copies
      BY NewestSubset
    <2> QED BY <2>1, FS_Subset
  <1>2. CASE kept = {}
    BY <1>2, FS_EmptySet, StoreAssumption
  <1>3. CASE kept # {}
    <2>1. versions \in SUBSET Nat /\ versions # {}
      BY <1>1, <1>3 DEF Copy
    <2>2. PICK v \in versions : \A y \in versions : v <= y
      <3> HIDE DEF versions
      <3> QED BY <2>1, LeastNat
    <2>3. PICK h \in kept : h.version = v
      OBVIOUS
    <2> DEFINE newer == {g \in copies : g.version > h.version}
    <2>4. IsFiniteSet(newer) /\ Cardinality(newer) \in Nat /\ Cardinality(newer) < HistoryLimit
      <3>1. newer \in SUBSET copies
        OBVIOUS
      <3>2. IsFiniteSet(newer)
        BY <3>1, FS_Subset
      <3>3. Cardinality(newer) < HistoryLimit
        BY <2>3 DEF Newest
      <3> QED BY <3>2, <3>3, FS_CardinalityType
    <2>5. kept \ {h} \in SUBSET newer
      <3> SUFFICES ASSUME NEW g \in kept, g # h PROVE g \in newer
        OBVIOUS
      <3>1. g \in copies /\ h \in copies /\ g.version \in Nat /\ h.version \in Nat
        BY <1>1 DEF Copy
      <3>2. h.version <= g.version
        BY <2>2, <2>3
      <3>3. g.version # h.version
        BY <3>1 DEF Distinct
      <3> QED BY <3>1, <3>2, <3>3
    <2>6. Cardinality(kept \ {h}) <= Cardinality(newer)
      <3> HIDE DEF kept, newer
      <3> QED BY <2>4, <2>5, FS_Subset
    <2>7. Cardinality(kept \ {h}) = Cardinality(kept) - 1 /\ Cardinality(kept) \in Nat
      <3> HIDE DEF kept
      <3> QED BY <1>1, <2>3, FS_RemoveElement, FS_CardinalityType
    <2>8. Cardinality(kept) <= HistoryLimit
      <3> HIDE DEF kept, newer
      <3> QED BY <2>4, <2>6, <2>7, StoreAssumption
    <2> QED BY <2>8
  <1> QED BY <1>2, <1>3

(* What HistoryInOrder needs of one account to be kept: the superseded       *)
(* copies are finitely many and no two of them have one version.             *)
Ordered(a) ==
  /\ snap[a].version <= row[a].version
  /\ \A h \in history[a] : h.version < snap[a].version
  /\ IsFiniteSet(history[a])
  /\ Distinct(history[a])
  /\ Cardinality(history[a]) <= HistoryLimit

Histories == \A a \in Accounts : Ordered(a)

LEMMA HistoriesInit == Init => Histories
  BY StoreAssumption, FS_EmptySet DEF Init, Histories, Ordered, NoRow, NoCopy, Distinct

(* Fewer superseded copies of the same current one are in order as well.     *)
LEMMA FewerOrdered ==
  ASSUME TypeOK, NEW a \in Accounts, Ordered(a),
         history'[a] \in SUBSET history[a], snap'[a] = snap[a],
         row'[a].version \in Nat, row'[a].version >= row[a].version
  PROVE  Ordered(a)'
  <1>1. snap[a].version \in Nat /\ row[a].version \in Nat
    BY DEF TypeOK, Copy, Row
  <1>2. IsFiniteSet(history'[a]) /\ Cardinality(history'[a]) <= Cardinality(history[a])
    BY FS_Subset DEF Ordered
  <1>3. Cardinality(history'[a]) \in Nat /\ Cardinality(history[a]) \in Nat
    BY <1>2, FS_CardinalityType DEF Ordered
  <1>4. Cardinality(history'[a]) <= HistoryLimit
    BY <1>2, <1>3, StoreAssumption DEF Ordered
  <1> QED BY <1>1, <1>2, <1>4 DEF Ordered, Distinct

(* An accepted write supersedes a copy with a version of its own.            *)
LEMMA StorePutOrdered ==
  ASSUME TypeOK, NEW a \in Accounts, NEW data \in Datasets, StorePut(a, data), Ordered(a)
  PROVE  Ordered(a)'
  <1> DEFINE v == row[a].version + 1
             moved == history[a] \cup (IF snap[a].data = NoData THEN {} ELSE {snap[a]})
             kept == IF data \in Sealed THEN {h \in moved : h.data \in Sealed} ELSE moved
  <1>0. data # NoData
    BY StoreAssumption DEF Datasets
  <1>1. /\ row'[a].version = v
        /\ snap'[a].version = v
        /\ history'[a] = Newest(kept)
    BY <1>0 DEF StorePut, TypeOK, HistoryAfter
  <1>2. /\ snap[a] \in Copy /\ row[a].version \in Nat /\ history[a] \in SUBSET Copy
        /\ snap[a].version \in Nat /\ \A h \in Copy : h.version \in Nat
    BY DEF TypeOK, Copy, Row
  <1>3. moved \in SUBSET Copy /\ \A h \in moved : h.version <= snap[a].version
    BY <1>2 DEF Ordered
  <1>4. IsFiniteSet(moved)
    <2>1. IsFiniteSet(history[a]) /\ IsFiniteSet(history[a] \cup {snap[a]})
      BY FS_AddElement DEF Ordered
    <2> QED BY <2>1
  <1>5. Distinct(moved)
    BY <1>2 DEF Ordered, Distinct
  <1>6. kept \in SUBSET moved
    OBVIOUS
  <1> HIDE DEF moved, kept
  <1>7. kept \in SUBSET Copy /\ IsFiniteSet(kept) /\ Distinct(kept)
    BY <1>3, <1>4, <1>5, <1>6, FS_Subset DEF Distinct
  <1>8. Cardinality(Newest(kept)) <= HistoryLimit
    BY <1>7, NewestBounded
  <1>9. Newest(kept) \in SUBSET kept
    BY NewestSubset
  <1>10. IsFiniteSet(Newest(kept)) /\ Distinct(Newest(kept))
    BY <1>7, <1>9, FS_Subset DEF Distinct
  <1>11. \A h \in Newest(kept) : h.version < v
    BY <1>2, <1>3, <1>6, <1>9 DEF Ordered
  <1> QED BY <1>1, <1>2, <1>8, <1>10, <1>11 DEF Ordered

(* What a step does to the rows, next to CopySteps: a version only grows,    *)
(* but for an erasure.                                                       *)
LEMMA RowSteps ==
  ASSUME TypeOK, [Next]_vars, NEW a \in Accounts
  PROVE  DeleteAccount(a) \/ row'[a].version >= row[a].version
  <1>0. row[a] \in Row /\ row[a].version \in Nat
    BY DEF TypeOK, Row
  <1> DEFINE Grows == row'[a].version >= row[a].version
  <1>1. ASSUME NEW c \in Calls, PutCommit(c) PROVE Grows
    <2>1. CASE UNCHANGED row
      BY <1>0, <2>1
    <2>2. CASE StorePut(call[c].acct, call[c].data)
      BY <1>0, <2>2 DEF StorePut, TypeOK
    <2> QED BY <1>1, <2>1, <2>2 DEF PutCommit, tables
  <1>2. ASSUME NEW c \in Calls, DeleteCommit(c) PROVE Grows
    <2>1. CASE UNCHANGED row
      BY <1>0, <2>1
    <2>2. CASE row' = [row EXCEPT ![call[c].acct].deleted = TRUE,
                                  ![call[c].acct].version = row[call[c].acct].version + 1]
      BY <1>0, <2>2 DEF TypeOK, Row
    <2> QED BY <1>2, <2>1, <2>2 DEF DeleteCommit
  <1>3. ASSUME NEW c \in Calls, PutStep(c) \/ GetStep(c) \/ DeleteStep(c) \/ Cancel(c),
               ~(PutCommit(c) \/ DeleteCommit(c))
        PROVE  Grows
    <2>1. UNCHANGED row
      BY <1>3 DEF PutStep, PutArrive, PutGuard, PutAdmit, PutEnsure, PutUpsert, PutReread, GetStep,
         GetArrive, GetRow, GetSnap, GetDone, DeleteStep, DeleteArrive, DeleteAdmit, Cancel, tables
    <2> QED BY <1>0, <2>1
  <1>4. ASSUME NEW b \in Accounts, SetBarred(b) \/ PruneHistory(b) PROVE Grows
    BY <1>0, <1>4 DEF SetBarred, PruneHistory, tables
  <1>5. ASSUME NEW b \in Accounts, DeleteAccount(b) PROVE a = b \/ Grows
    BY <1>0, <1>5 DEF DeleteAccount, TypeOK
  <1>6. CASE UNCHANGED vars
    BY <1>0, <1>6 DEF vars, tables
  <1> QED BY <1>1, <1>2, <1>3, <1>4, <1>5, <1>6 DEF Next

LEMMA HistoriesNext ==
  ASSUME TypeOK, Histories, [Next]_vars
  PROVE  Histories'
  <1>a. SUFFICES ASSUME NEW a \in Accounts PROVE Ordered(a)'
    BY DEF Histories
  <1>0. Ordered(a) /\ row'[a].version \in Nat
    BY NextType DEF Histories, TypeOK, Row
  <1>1. CASE UNCHANGED <<snap, history>> /\ ~DeleteAccount(a)
    BY <1>0, <1>1, RowSteps, FewerOrdered
  <1>2. CASE \E b \in Accounts, data \in Payloads : StorePut(b, data)
    <2>1. PICK b \in Accounts, data \in Payloads : StorePut(b, data)
      BY <1>2
    <2>2. CASE data = NoData
      <3>1. UNCHANGED <<snap, history>> /\ row'[a].version >= row[a].version
        <4>1. row[a].version \in Nat
          BY DEF TypeOK, Row
        <4> QED BY <2>1, <2>2, <4>1 DEF StorePut, TypeOK
      <3>2. history'[a] \in SUBSET history[a] /\ snap'[a] = snap[a]
        BY <3>1
      <3> QED BY <1>0, <3>1, <3>2, FewerOrdered
    <2>3. CASE data \in Datasets /\ a = b
      BY <1>0, <2>1, <2>3, StorePutOrdered
    <2>4. CASE data \in Datasets /\ a # b
      <3>1. row'[a] = row[a] /\ row[a].version \in Nat
        BY <2>1, <2>4 DEF StorePut, TypeOK, Row
      <3>2. snap'[a] = snap[a] /\ history'[a] = history[a]
        BY <2>1, <2>4, StorePutCopies
      <3>3. history'[a] \in SUBSET history[a] /\ row'[a].version >= row[a].version
        BY <3>1, <3>2
      <3> QED BY <1>0, <3>2, <3>3, FewerOrdered
    <2> QED BY <2>2, <2>3, <2>4 DEF Payloads
  <1>3. CASE \E b \in Accounts : DeleteAccount(b)
    <2>1. PICK b \in Accounts : DeleteAccount(b)
      BY <1>3
    <2>2. CASE a = b
      BY <2>1, <2>2, StoreAssumption, FS_EmptySet
      DEF DeleteAccount, TypeOK, Ordered, NoRow, NoCopy, Distinct
    <2>3. CASE a # b
      <3>1. /\ row'[a] = row[a] /\ snap'[a] = snap[a] /\ history'[a] = history[a]
            /\ row[a].version \in Nat
        BY <2>1, <2>3 DEF DeleteAccount, TypeOK, Row
      <3>2. history'[a] \in SUBSET history[a] /\ row'[a].version >= row[a].version
        BY <3>1
      <3> QED BY <1>0, <3>1, <3>2, FewerOrdered
    <2> QED BY <2>2, <2>3
  <1>4. CASE \E b \in Accounts : PruneHistory(b)
    <2>1. PICK b \in Accounts : PruneHistory(b)
      BY <1>4
    <2>2. /\ history'[a] \subseteq history[a] /\ snap' = snap /\ row' = row
          /\ row[a].version \in Nat
      BY <2>1 DEF PruneHistory, TypeOK, Row
    <2>3. /\ history'[a] \in SUBSET history[a] /\ snap'[a] = snap[a]
          /\ row'[a].version >= row[a].version
      BY <2>2
    <2> QED BY <1>0, <2>3, FewerOrdered
  <1>5. CASE UNCHANGED vars
    <2>1. UNCHANGED <<row, snap, history>> /\ row[a].version \in Nat
      BY <1>5 DEF vars, tables, TypeOK, Row
    <2>2. /\ history'[a] \in SUBSET history[a] /\ snap'[a] = snap[a]
          /\ row'[a].version >= row[a].version
      BY <2>1
    <2> QED BY <1>0, <2>2, FewerOrdered
  <1> QED BY <1>1, <1>2, <1>3, <1>4, <1>5, CopySteps

(* Whatever pushes, deletes, erasures and prunings interleave, the copies    *)
(* kept behind the current one are older than it, the current one is no      *)
(* newer than the row, and they never exceed the limit.                      *)
THEOREM HistoryHolds == Spec => []HistoryInOrder
  <1>1. Init => TypeOK /\ Histories
    BY InitType, HistoriesInit
  <1>2. TypeOK /\ Histories /\ [Next]_vars => (TypeOK /\ Histories)'
    BY NextType, HistoriesNext
  <1>3. Histories => HistoryInOrder
    BY DEF Histories, Ordered, HistoryInOrder
  <1> QED BY <1>1, <1>2, <1>3, PTL DEF Spec

=============================================================================
