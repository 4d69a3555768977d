---------------------------- MODULE WorkspaceStore ----------------------------
(***************************************************************************)
(* The server side of workspace sync: the rows one account's workspace     *)
(* occupies in the server's SQLite database, and the RPC handlers that     *)
(* read and write them.                                                    *)
(*                                                                         *)
(* Every statement of the code addresses the workspace as (user, id), so   *)
(* the model keeps one workspace per account.  The database is opened with *)
(* one connection (SetMaxOpenConns(1)), so a transaction is one action;    *)
(* a handler that runs several statements outside a transaction is several *)
(* actions, and handlers interleave between them.  A handler can fail      *)
(* between two statements (Cancel): a closed connection, a deadline, a     *)
(* database error.                                                         *)
(*                                                                         *)
(* The size limit, the metrics, the audit line and the watch events are    *)
(* not modelled here: they change none of these rows.                      *)
(* A put that carries the deleted flag is left out: no client sends one.   *)
(***************************************************************************)
EXTENDS PutDecision, FiniteSets

CONSTANTS
  Accounts,      \* user ids
  Provisioned,   \* the accounts whose users row exists from the start
  Calls,         \* handlers that can be in progress at once
  Plain,         \* unprotected datasets
  Sealed,        \* App Lock envelopes, which the server cannot read
  NoData,        \* no dataset: the empty request field, the missing row
  Destroys,      \* pairs <<stored, incoming>> that datasetguard.Check refuses
  HistoryLimit,  \* superseded snapshots kept (defaultSnapshotHistoryLimit)
  MaxVersion     \* bound on the version counter, for model checking

ASSUME StoreAssumption ==
  /\ Accounts # {}
  /\ Provisioned \subseteq Accounts
  /\ Plain \cap Sealed = {}
  /\ NoData \notin Plain \cup Sealed
  /\ Destroys \subseteq Plain \X Plain
  /\ HistoryLimit \in Nat
  /\ MaxVersion \in Nat

VARIABLES
  row,       \* [Accounts -> Row]: the workspaces table
  snap,      \* [Accounts -> Copy]: the snapshots table
  history,   \* [Accounts -> SUBSET Copy]: the snapshot_history table
  marked,    \* [Accounts -> BOOLEAN]: the workspace-encrypted marker
  user,      \* [Accounts -> BOOLEAN]: the users row exists
  tomb,      \* [Accounts -> BOOLEAN]: the deleted_accounts row exists
  barred,    \* [Accounts -> BOOLEAN]: suspended, or a viewer
  call,      \* [Calls -> CallState]: the handlers in progress
  learned    \* history variable, [Accounts -> SUBSET Knowledge]: what clients
             \* have been told, each a version and the copy that came with it

tables == <<row, snap, history, marked>>
people == <<user, tomb, barred>>
vars == <<row, snap, history, marked, user, tomb, barred, call, learned>>

Datasets == Plain \cup Sealed
Payloads == Datasets \cup {NoData}

(* One row of workspaces; getWorkspaceTx answers the zero row when none.     *)
(* Versions start at 1.                                                      *)
Row == {r \in [exists: BOOLEAN, deleted: BOOLEAN, version: Nat] :
          r.exists <=> r.version > 0}
NoRow == [exists |-> FALSE, deleted |-> FALSE, version |-> 0]

(* One row of snapshots or snapshot_history; a stored copy has a dataset.    *)
Copy == {k \in [data: Payloads, version: Nat] :
           k.data = NoData <=> k.version = 0}
NoCopy == [data |-> NoData, version |-> 0]

(* A client's knowledge: a version, and the copy its edits then start from.  *)
Knowledge == [version: Nat, copy: Copy]
Nothing == [version |-> 0, copy |-> NoCopy]

(* A handler in progress.  `base' is the version a push names or the ETag a  *)
(* read carries, and `got' the copy the client holds with it; a read then    *)
(* takes the row version in `label' and the copy it answers with in `got'.   *)
CallState ==
  [pc: {"idle", "guard", "admit", "ensure", "upsert", "commit", "reread",
        "row", "snap", "answered", "delAdmit", "delCommit"},
   acct: Accounts, base: Nat, hasBase: BOOLEAN, force: BOOLEAN,
   data: Payloads, label: Nat, got: Copy]

Idle == [pc |-> "idle", acct |-> CHOOSE a \in Accounts : TRUE, base |-> 0,
         hasBase |-> FALSE, force |-> FALSE, data |-> NoData, label |-> 0,
         got |-> NoCopy]

(* Control moves on; the rest of the call is kept.                           *)
Goto(c, pc) == call' = [call EXCEPT ![c].pc = pc]
Finish(c) == call' = [call EXCEPT ![c] = Idle]

-----------------------------------------------------------------------------
(* Pieces of the store.                                                      *)

(* workspaceEncryptedTx: the marker, or the evidence of any stored envelope. *)
Encrypted(a) ==
  \/ marked[a]
  \/ snap[a].data \in Sealed
  \/ \E h \in history[a] : h.data \in Sealed

(* Fault: the trim keeps one copy too many.                                  *)
Newest_OneTooMany(copies) ==
  {h \in copies : Cardinality({g \in copies : g.version > h.version}) <= HistoryLimit}

(* trimSnapshotHistory: the HistoryLimit newest by version.                  *)
Newest(copies) ==
  {h \in copies : Cardinality({g \in copies : g.version > h.version}) < HistoryLimit}

(* Fault: accepting an envelope leaves the unprotected history in place.     *)
HistoryAfter_NoPurge(a, data) ==
  Newest(history[a] \cup (IF snap[a].data = NoData THEN {} ELSE {snap[a]}))

(* putSnapshotTx: the current copy moves to history; accepting an envelope   *)
(* purges the unprotected history; then the history is trimmed.              *)
HistoryAfter(a, data) ==
  LET moved == history[a] \cup (IF snap[a].data = NoData THEN {} ELSE {snap[a]})
      kept  == IF data \in Sealed THEN {h \in moved : h.data \in Sealed} ELSE moved
  IN  Newest(kept)

(* checkSnapshotEncryption: reading a copy latches the marker on evidence    *)
(* (the read itself commits it), whatever the read then answers.             *)
LatchMarker(a) ==
  marked' = [marked EXCEPT ![a] = IF snap[a].data = NoData THEN @ ELSE Encrypted(a)]

(* ... and refuses an unprotected copy of an encrypted workspace.            *)
Unreadable(a) == snap[a].data # NoData /\ Encrypted(a) /\ snap[a].data \notin Sealed

(* Fault: a push that names its base is trusted and skips the guard.         *)
Guarded_TrustsBase(call_c) ==
  ~call_c.force /\ call_c.data # NoData /\ ~call_c.hasBase

(* guardDestructiveWrite: Force and dataset-less pushes skip it; an          *)
(* envelope on either side gives no verdict.                                 *)
Guarded(call_c) == ~call_c.force /\ call_c.data # NoData
PassesGuard(a, data) == <<snap[a].data, data>> \notin Destroys

-----------------------------------------------------------------------------
Init ==
  /\ row = [a \in Accounts |-> NoRow]
  /\ snap = [a \in Accounts |-> NoCopy]
  /\ history = [a \in Accounts |-> {}]
  /\ marked = [a \in Accounts |-> FALSE]
  /\ user = [a \in Accounts |-> a \in Provisioned]
  /\ tomb = [a \in Accounts |-> FALSE]
  /\ barred = [a \in Accounts |-> FALSE]
  /\ call = [c \in Calls |-> Idle]
  /\ learned = [a \in Accounts |-> {}]

-----------------------------------------------------------------------------
(* PutWorkspaceRPC.                                                          *)

(* A request that names the knowledge k its edit started from.               *)
Push(a, hasBase, force, data, k) ==
  [Idle EXCEPT !.pc = "guard", !.acct = a, !.base = k.version,
               !.hasBase = hasBase, !.force = force, !.data = data,
               !.got = k.copy]

(* A push reaches the handler; the auth gate refuses a deleted account.  It  *)
(* names the version its edit was based on, 0 for a create, or, from a peer  *)
(* that predates versioned writes, none.                                     *)
PutArrive(c) ==
  /\ call[c].pc = "idle"
  /\ \E a \in Accounts, hasBase, force \in BOOLEAN, data \in Payloads :
       \E k \in IF hasBase THEN learned[a] \cup {Nothing} ELSE {Nothing} :
         /\ ~tomb[a]
         /\ call' = [call EXCEPT ![c] = Push(a, hasBase, force, data, k)]
  /\ UNCHANGED <<tables, people, learned>>

(* The destructive-write guard: reads the stored copy in a statement of its  *)
(* own, before and outside the write transaction.                            *)
PutGuard(c) ==
  LET a == call[c].acct IN
  /\ call[c].pc = "guard"
  /\ IF Guarded(call[c])
       THEN /\ LatchMarker(a)
            /\ IF Unreadable(a) \/ ~PassesGuard(a, call[c].data)
                 THEN Finish(c)
                 ELSE Goto(c, "admit")
       ELSE Goto(c, "admit") /\ UNCHANGED marked
  /\ UNCHANGED <<row, snap, history, people, learned>>

(* requireWriter: a suspended account or a viewer is refused.                *)
PutAdmit(c) ==
  /\ call[c].pc = "admit"
  /\ IF barred[call[c].acct] THEN Finish(c) ELSE Goto(c, "ensure")
  /\ UNCHANGED <<tables, people, learned>>

(* Fault: an unknown account is materialised without looking for a tombstone. *)
PutEnsure_NoTombstone(c) ==
  /\ call[c].pc = "ensure"
  /\ IF user[call[c].acct] THEN Goto(c, "commit") ELSE Goto(c, "upsert")
  /\ UNCHANGED <<tables, people, learned>>

(* ensureUserRow, its two lookups: an existing account goes on, a deleted    *)
(* one is refused, an unknown one is about to be materialised.               *)
PutEnsure(c) ==
  LET a == call[c].acct IN
  /\ call[c].pc = "ensure"
  /\ \/ user[a] /\ Goto(c, "commit")
     \/ ~user[a] /\ tomb[a] /\ Finish(c)
     \/ ~user[a] /\ ~tomb[a] /\ Goto(c, "upsert")
  /\ UNCHANGED <<tables, people, learned>>

(* ensureUserRow, UpsertUser: the row is inserted without looking again at   *)
(* the tombstone.                                                            *)
PutUpsert(c) ==
  /\ call[c].pc = "upsert"
  /\ user' = [user EXCEPT ![call[c].acct] = TRUE]
  /\ Goto(c, "commit")
  /\ UNCHANGED <<tables, tomb, barred, learned>>

(* The verdict of the write transaction on the row it read.                  *)
Verdict(c, older) ==
  LET r == row[call[c].acct] IN
  DecidePut([exists |-> r.exists, deleted |-> r.deleted, force |-> call[c].force,
             hasBase |-> call[c].hasBase, base |-> call[c].base,
             current |-> r.version, older |-> older])

(* What makes the accepted write fail and roll back: no users row to refer   *)
(* to, or an unprotected dataset over an encrypted workspace.                *)
Downgrade(a, data) == data \in Plain /\ Encrypted(a)
WriteFails(c) ==
  LET a == call[c].acct IN
  \/ ~row[a].exists /\ ~user[a]
  \/ Downgrade(a, call[c].data)

(* Fault: a push without a dataset empties the current copy.                 *)
StorePut_StoresNothing(a, data) ==
  LET v == row[a].version + 1 IN
  /\ v <= MaxVersion
  /\ row' = [row EXCEPT ![a] = [exists |-> TRUE, deleted |-> FALSE, version |-> v]]
  /\ snap' = [snap EXCEPT ![a] = [data |-> data, version |-> v]]
  /\ UNCHANGED <<history, marked>>

(* Fault: restoring a deleted workspace does not advance its version.        *)
StorePut_RestoreKeepsVersion(a, data) ==
  LET v == row[a].version + (IF row[a].deleted THEN 0 ELSE 1) IN
  /\ v <= MaxVersion
  /\ row' = [row EXCEPT ![a] = [exists |-> TRUE, deleted |-> FALSE, version |-> v]]
  /\ IF data = NoData
       THEN UNCHANGED <<snap, history, marked>>
       ELSE /\ snap' = [snap EXCEPT ![a] = [data |-> data, version |-> v]]
            /\ history' = [history EXCEPT ![a] = HistoryAfter(a, data)]
            /\ marked' = [marked EXCEPT ![a] = @ \/ data \in Sealed]

(* PutWorkspaceAtomic, accepted: the row advances by one and is live again,  *)
(* and the dataset, when there is one, becomes the current copy with the     *)
(* row's new version.                                                        *)
StorePut(a, data) ==
  LET v == row[a].version + 1 IN
  /\ v <= MaxVersion
  /\ row' = [row EXCEPT ![a] = [exists |-> TRUE, deleted |-> FALSE, version |-> v]]
  /\ IF data = NoData
       THEN UNCHANGED <<snap, history, marked>>
       ELSE /\ snap' = [snap EXCEPT ![a] = [data |-> data, version |-> v]]
            /\ history' = [history EXCEPT ![a] = HistoryAfter(a, data)]
            /\ marked' = [marked EXCEPT ![a] = @ \/ data \in Sealed]

(* The response tells the client the version its dataset now has; a push     *)
(* without a dataset leaves a versioned client on the copy it held.          *)
Acknowledge(c) ==
  LET a == call[c].acct
      v == row[a].version + 1
  IN  learned' =
        IF call[c].data # NoData
          THEN [learned EXCEPT ![a] = @ \cup
                  {[version |-> v, copy |-> [data |-> call[c].data, version |-> v]]}]
          ELSE IF call[c].hasBase /\ ~call[c].force
          THEN [learned EXCEPT ![a] = @ \cup {[version |-> v, copy |-> call[c].got]}]
          ELSE learned

PutCommit(c) ==
  LET a == call[c].acct IN
  /\ call[c].pc = "commit"
  /\ \E older \in BOOLEAN :
       \/ /\ ~Verdict(c, older)
          /\ Goto(c, "reread")
          /\ UNCHANGED <<tables, learned>>
       \/ /\ Verdict(c, older)
          /\ Finish(c)
          /\ IF WriteFails(c) THEN UNCHANGED <<tables, learned>>
                              ELSE StorePut(a, call[c].data) /\ Acknowledge(c)
  /\ UNCHANGED people

(* A rejection answers with the copy the server holds, read after the        *)
(* transaction.                                                              *)
PutReread(c) ==
  /\ call[c].pc = "reread"
  /\ LatchMarker(call[c].acct)
  /\ Finish(c)
  /\ UNCHANGED <<row, snap, history, people, learned>>

-----------------------------------------------------------------------------
(* GetWorkspaceRPC: the row, then the copy, in two statements.               *)

GetArrive(c) ==
  /\ call[c].pc = "idle"
  /\ \E a \in Accounts : \E k \in learned[a] \cup {Nothing} :
       /\ ~tomb[a]
       /\ call' = [call EXCEPT ![c] =
              [Idle EXCEPT !.pc = "row", !.acct = a, !.base = k.version,
                           !.got = k.copy]]
  /\ UNCHANGED <<tables, people, learned>>

(* A missing workspace and a matching ETag are answered at once.             *)
GetRow(c) ==
  LET r == row[call[c].acct] IN
  /\ call[c].pc = "row"
  /\ IF ~r.exists \/ call[c].base = r.version
       THEN Finish(c)
       ELSE call' = [call EXCEPT ![c].pc = "snap", ![c].label = r.version]
  /\ UNCHANGED <<tables, people, learned>>

(* GetSnapshotForUser joins the workspaces row; its SELECT and the           *)
(* transaction that latches the marker are taken as one.                     *)
GetSnap(c) ==
  LET a == call[c].acct IN
  /\ call[c].pc = "snap"
  /\ LatchMarker(a)
  /\ IF Unreadable(a)
       THEN Finish(c)
       ELSE call' = [call EXCEPT ![c].pc = "answered",
                                 ![c].got = IF row[a].exists THEN snap[a] ELSE NoCopy]
  /\ UNCHANGED <<row, snap, history, people, learned>>

(* Fault: the label is read after the copy instead of before it.             *)
GetDone_LateLabel(c) ==
  LET a == call[c].acct IN
  /\ call[c].pc = "answered"
  /\ learned' = [learned EXCEPT ![a] = @ \cup
                   {[version |-> row[a].version, copy |-> call[c].got]}]
  /\ Finish(c)
  /\ UNCHANGED <<tables, people>>

(* The client takes the answer: its label is the base of later pushes.       *)
GetDone(c) ==
  LET a == call[c].acct IN
  /\ call[c].pc = "answered"
  /\ learned' = [learned EXCEPT ![a] = @ \cup
                   {[version |-> call[c].label, copy |-> call[c].got]}]
  /\ Finish(c)
  /\ UNCHANGED <<tables, people>>

-----------------------------------------------------------------------------
(* DeleteWorkspaceRPC: requireWriter, then SoftDeleteWorkspace, which only   *)
(* moves a live row and is itself a versioned write.                         *)

DeleteArrive(c) ==
  /\ call[c].pc = "idle"
  /\ \E a \in Accounts :
       /\ ~tomb[a]
       /\ call' = [call EXCEPT ![c] = [Idle EXCEPT !.pc = "delAdmit", !.acct = a]]
  /\ UNCHANGED <<tables, people, learned>>

DeleteAdmit(c) ==
  /\ call[c].pc = "delAdmit"
  /\ IF barred[call[c].acct] THEN Finish(c) ELSE Goto(c, "delCommit")
  /\ UNCHANGED <<tables, people, learned>>

DeleteCommit(c) ==
  LET a == call[c].acct
      v == row[a].version + 1
  IN
  /\ call[c].pc = "delCommit"
  /\ Finish(c)
  /\ IF row[a].exists /\ ~row[a].deleted
       THEN /\ v <= MaxVersion
            /\ row' = [row EXCEPT ![a].deleted = TRUE, ![a].version = v]
       ELSE UNCHANGED row
  /\ UNCHANGED <<snap, history, marked, people, learned>>

(* A handler fails between two of its statements; what it committed stays.   *)
Cancel(c) ==
  /\ call[c].pc # "idle"
  /\ Finish(c)
  /\ UNCHANGED <<tables, people, learned>>

-----------------------------------------------------------------------------
(* Operators and background work.                                            *)

(* SetUserSuspended, or a role change to or from viewer.                     *)
SetBarred(a) ==
  /\ user[a]
  /\ barred' = [barred EXCEPT ![a] = ~@]
  /\ UNCHANGED <<tables, user, tomb, call, learned>>

(* DeleteAccount: every row of the account goes and the id is remembered, in *)
(* one transaction.  The encryption marker is not among the rows.            *)
DeleteAccount(a) ==
  /\ user[a]
  /\ row' = [row EXCEPT ![a] = NoRow]
  /\ snap' = [snap EXCEPT ![a] = NoCopy]
  /\ history' = [history EXCEPT ![a] = {}]
  /\ user' = [user EXCEPT ![a] = FALSE]
  /\ barred' = [barred EXCEPT ![a] = FALSE]
  /\ tomb' = [tomb EXCEPT ![a] = TRUE]
  /\ UNCHANGED <<marked, call, learned>>

(* PruneSnapshotHistoryBefore: the oldest superseded copies go.  The server  *)
(* stamps copies in version order.                                           *)
PruneHistory(a) ==
  /\ \E v \in 1 .. MaxVersion :
       /\ \E h \in history[a] : h.version < v
       /\ history' = [history EXCEPT ![a] = {h \in @ : h.version >= v}]
  /\ UNCHANGED <<row, snap, marked, people, call, learned>>

-----------------------------------------------------------------------------
PutStep(c) ==
  \/ PutArrive(c) \/ PutGuard(c) \/ PutAdmit(c) \/ PutEnsure(c)
  \/ PutUpsert(c) \/ PutCommit(c) \/ PutReread(c)

GetStep(c) == GetArrive(c) \/ GetRow(c) \/ GetSnap(c) \/ GetDone(c)

DeleteStep(c) == DeleteArrive(c) \/ DeleteAdmit(c) \/ DeleteCommit(c)

Next ==
  \/ \E c \in Calls : PutStep(c) \/ GetStep(c) \/ DeleteStep(c) \/ Cancel(c)
  \/ \E a \in Accounts : SetBarred(a) \/ DeleteAccount(a) \/ PruneHistory(a)

Spec == Init /\ [][Next]_vars

-----------------------------------------------------------------------------
(* Properties.                                                               *)

(* Every variable keeps the shape its table or handler has.                  *)
TypeOK ==
  /\ row \in [Accounts -> Row]
  /\ snap \in [Accounts -> Copy]
  /\ history \in [Accounts -> SUBSET Copy]
  /\ marked \in [Accounts -> BOOLEAN]
  /\ user \in [Accounts -> BOOLEAN]
  /\ tomb \in [Accounts -> BOOLEAN]
  /\ barred \in [Accounts -> BOOLEAN]
  /\ call \in [Calls -> CallState]
  /\ learned \in [Accounts -> SUBSET Knowledge]

(* Until the account is deleted, what a client has been told about the       *)
(* version the row still has is the copy the row still has: GetWorkspaceRPC  *)
(* reads the row and the copy in two statements, so its label may be older   *)
(* than its copy, never newer, and no version ever names two copies.         *)
LearnedIsCurrent ==
  \A a \in Accounts : \A k \in learned[a] :
    ~tomb[a] => /\ k.version <= row[a].version
                /\ k.version = row[a].version => k.copy = snap[a]

(* Handler c commits an accepted push in this step, and one that the user    *)
(* did not force, to an account that was not deleted.                        *)
Commits(c) == call[c].pc = "commit" /\ call'[c].pc = "idle" /\ row' # row
Unforced(c) == Commits(c) /\ ~call[c].force /\ ~tomb[call[c].acct]

(* No lost update: an unforced push that named its base replaces exactly the *)
(* copy its edit started from, whatever other devices, deletes and readers   *)
(* did between its read and its commit (PutWorkspaceAtomic, DecidePut).      *)
NoLostUpdate ==
  [][\A c \in Calls : Unforced(c) /\ call[c].hasBase
                       => call[c].got = snap[call[c].acct]]_vars

(* Once any envelope was accepted, no unprotected copy of the workspace is   *)
(* ever stored again, current or superseded (putSnapshotTx, the marker).     *)
EncryptionRatchet ==
  \A a \in Accounts : Encrypted(a) =>
    /\ snap[a].data \notin Plain
    /\ \A h \in history[a] : h.data \in Sealed

(* A deleted account has no workspace, copy or history again, even when a    *)
(* push was already past ensureUser when DeleteAccount committed.            *)
ErasedStaysErased ==
  \A a \in Provisioned : tomb[a] =>
    row[a] = NoRow /\ snap[a] = NoCopy /\ history[a] = {}

(* The destructive-write guard holds for versioned pushes although it reads  *)
(* the stored copy before the transaction: what it compared with is what the *)
(* push replaces (guardDestructiveWrite).                                    *)
GuardHolds ==
  [][\A c \in Calls : Unforced(c) /\ call[c].hasBase
                       => PassesGuard(call[c].acct, call[c].data)]_vars

(* The superseded copies kept are older than the current one, which is no    *)
(* newer than the row, and at most HistoryLimit of them are kept.            *)
HistoryInOrder ==
  \A a \in Accounts :
    /\ snap[a].version <= row[a].version
    /\ \A h \in history[a] : h.version < snap[a].version
    /\ Cardinality(history[a]) <= HistoryLimit

-----------------------------------------------------------------------------
(* Claims the code's comments make that the code does not keep; each is      *)
(* checked on its own and refuted (see the README, "Findings").              *)

(* The comment of the destructive-write guard: it holds whatever the client  *)
(* believes, an old client's unversioned push included.                      *)
GuardHoldsForOldClients ==
  [][\A c \in Calls : Unforced(c) => PassesGuard(call[c].acct, call[c].data)]_vars

(* The comment of requireBothSuspended: suspension stops an in-flight sync.  *)
SuspensionStopsInFlight ==
  [][\A c \in Calls : Commits(c) => ~barred[call[c].acct]]_vars

(* The comments of DeleteAccount and ensureUserRow: a token that outlived    *)
(* its account cannot bring the account or its data back.                    *)
TokenCannotResurrect ==
  \A a \in Accounts : tomb[a] => ~user[a] /\ row[a] = NoRow

=============================================================================
