----------------------------- MODULE WorkspaceSync -----------------------------
(***************************************************************************)
(* The browser side of workspace sync (app/sync_client.go): devices of one *)
(* account that edit, queue, push, pull and resolve conflicts on the same  *)
(* workspace, against the server's versioned row.                          *)
(*                                                                         *)
(* A dataset is the set of edits it contains, so "is this edit lost" can   *)
(* be asked of it; equal datasets have equal hashes.  Each device is one   *)
(* page (tab).  The server is the accept rule (PutDecision) over one row:  *)
(* WorkspaceStore models it in detail.  The server's stamp of a version is *)
(* taken as ordered like the version itself, which holds for versioned     *)
(* pushes under one server clock.                                          *)
(*                                                                         *)
(* Left out: several accounts and workspaces, the App Lock states, Force   *)
(* (the replacement of an unreadable server copy), artifact blobs.         *)
(***************************************************************************)
EXTENDS PutDecision, FiniteSets

CONSTANTS
  Devices,
  None,          \* no queue entry, no hash, no request
  Choices,       \* the conflict choices users make in this instance
  MaxEdits,      \* bound on the edits made, all devices
  MaxVersion,    \* bound on the server's version
  MaxChoices,    \* bound on the conflict choices made, all devices
  MaxFaults,     \* bound on failed calls and closed pages, all devices
  MaxEvents      \* bound on edits and faults together

ASSUME SyncAssumption ==
  /\ Devices # {}
  /\ Choices \subseteq {"keepDevice", "keepBackup", "useServer"}
  /\ MaxEdits \in Nat /\ MaxChoices \in Nat /\ MaxFaults \in Nat /\ MaxEvents \in Nat
  /\ MaxVersion \in Nat /\ MaxVersion >= 2   \* an account in use is at version 2

VARIABLES
  server,     \* the workspace row and its dataset, and whose push wrote it
  local,      \* [Devices -> Dataset]: what the device shows and has saved
  meta,       \* [Devices -> Meta]: the sync bookmark
  queue,      \* [Devices -> Item or None]: the upload queue
  backup,     \* [Devices -> Dataset or None]: the conflict backup
  flush,      \* [Devices -> Flush]: the upload in progress
  late,       \* [Devices -> Request or None]: a request whose caller is gone
  pull,       \* [Devices -> Read]: the pull in progress
  choice,     \* [Devices -> Read]: the conflict choice in progress
  paused,     \* [Devices -> BOOLEAN]: syncApplyPaused
  made, chosen, faults,  \* edits, choices and faults so far
  released    \* history variable: the edits whose loss is accounted for (see Releases)

client == <<local, meta, queue, backup>>
tally == <<made, chosen, faults, released>>
vars == <<server, client, flush, late, pull, choice, paused, tally>>

Edits == Devices \X (0 .. MaxEdits)   \* the edit 0 is in the account from before
Dataset == SUBSET Edits
Version == 0 .. MaxVersion

(* A queued snapshot: queuedSyncMutation.  `page' says the page now open     *)
(* queued it; `ancestor' is the dataset whose hash AncestorHash is.          *)
Item == [data: Dataset, base: Version, page: BOOLEAN, ancestor: Dataset \cup {None}]

(* The bookmark: `stamp' is the version whose server time UpdatedAt holds.   *)
Meta == [version: Version, stamp: Version, hash: Dataset \cup {None}]
NoMeta == [version |-> 0, stamp |-> 0, hash |-> None]

(* An upload in progress, and what of it travels.  `ensure' is the put       *)
(* without a dataset that creates the row.                                   *)
Flush == [pc: {"idle", "ensure", "ensured", "put", "answered"},
          item: Item \cup {None}, ok: BOOLEAN, version: Version]
NoFlush == [pc |-> "idle", item |-> None, ok |-> FALSE, version |-> 0]
Request == [creates: BOOLEAN, data: Dataset, base: Version]

(* A read in progress: a pull, or the check behind a conflict choice.        *)
Read == [pc: {"idle", "row", "snap", "got", "import"}, version: Version,
         data: Dataset, kind: Choices \cup {"pull"}]
NoRead == [pc |-> "idle", version |-> 0, data |-> {}, kind |-> "pull"]

Quiet ==
  /\ queue = [d \in Devices |-> None]
  /\ backup = [d \in Devices |-> None]
  /\ flush = [d \in Devices |-> NoFlush]
  /\ late = [d \in Devices |-> None]
  /\ pull = [d \in Devices |-> NoRead]
  /\ choice = [d \in Devices |-> NoRead]
  /\ paused = [d \in Devices |-> FALSE]
  /\ made = 0 /\ chosen = 0 /\ faults = 0
  /\ released = {}

(* A new account: nothing on the server, the sample dataset everywhere.      *)
Init ==
  /\ server \in [version: {0}, data: {{}}, by: Devices]
  /\ local = [d \in Devices |-> {}]
  /\ meta = [d \in Devices |-> NoMeta]
  /\ Quiet

(* An account in use: one device seeded the workspace (the create and the    *)
(* first push) and every device has pulled it.                               *)
InUse ==
  \E first \in Devices :
    LET seed == {<<first, 0>>} IN
    /\ server = [version |-> 2, data |-> seed, by |-> first]
    /\ local = [d \in Devices |-> seed]
    /\ meta = [d \in Devices |-> [version |-> 2, stamp |-> 2, hash |-> seed]]
    /\ Quiet

-----------------------------------------------------------------------------
(* The server.                                                               *)

Accepts(base) ==
  DecidePut([exists |-> server.version > 0, deleted |-> FALSE, force |-> FALSE,
             hasBase |-> TRUE, base |-> base, current |-> server.version,
             older |-> FALSE])

(* Edits are released when a user confirms replacing the server's copy that  *)
(* holds them, and when a push of the device that made them leaves them out. *)
Releases(edits) == released' = released \cup edits

(* The effect of a push that d sent, accepted or not.                        *)
ServerTakes(d, req) ==
  IF Accepts(req.base)
    THEN LET data == IF req.creates THEN server.data ELSE req.data IN
         /\ server.version < MaxVersion
         /\ server' = [version |-> server.version + 1, by |-> d, data |-> data]
         /\ Releases({e \in server.data \ data : e[1] = d})
    ELSE UNCHANGED <<server, released>>

-----------------------------------------------------------------------------
(* The queue.                                                                *)

(* upsertQueuedSyncMutation: a snapshot queued over another of the same page *)
(* and base remembers the oldest one it extends.                             *)
AncestorOf(item, prior) ==
  IF /\ prior # None /\ item.ancestor = None
     /\ prior.page = item.page /\ prior.base = item.base /\ prior.data # item.data
    THEN IF prior.ancestor = None THEN prior.data ELSE prior.ancestor
    ELSE item.ancestor

(* UpsertPending: one entry per account and workspace.                       *)
Upsert(d, item) ==
  queue' = [queue EXCEPT ![d] = [item EXCEPT !.ancestor = AncestorOf(item, queue[d])]]

(* enqueueSyncMutation.                                                      *)
NewItem(data, base) == [data |-> data, base |-> base, page |-> TRUE, ancestor |-> None]

(* pushActiveWorkspaceToBackend: nothing to do when the bookmark already     *)
(* names this dataset; the sample dataset is not pushed.                     *)
PushActive(d, m) ==
  IF local[d] = {} \/ m.hash = local[d]
    THEN UNCHANGED queue
    ELSE Upsert(d, NewItem(local[d], m.version))

(* removeQueuedSyncMutationFor, by hash.                                     *)
Remaining(d, item) ==
  IF queue[d] # None /\ queue[d].data = item.data THEN None ELSE queue[d]

(* CanRebaseQueuedSuccessor and rebaseQueuedSuccessorAfterAck.               *)
CanRebase(accepted, pending, version) ==
  /\ pending # None
  /\ version > accepted.base
  /\ pending.page = accepted.page
  /\ pending.ancestor = accepted.data
  /\ pending.base = accepted.base
  /\ pending.data # accepted.data

Rebased(accepted, pending, version) ==
  IF CanRebase(accepted, pending, version)
    THEN [pending EXCEPT !.base = version, !.ancestor = None]
    ELSE pending

-----------------------------------------------------------------------------
(* The page.                                                                 *)

(* The user makes an edit and it is saved on the device (the autosave's      *)
(* durable write); while a pulled copy is being applied the writer is held.  *)
Edit(d) ==
  /\ ~paused[d] /\ made < MaxEdits /\ made + faults < MaxEvents
  /\ made' = made + 1
  /\ local' = [local EXCEPT ![d] = @ \cup {<<d, made + 1>>}]
  /\ UNCHANGED <<server, meta, queue, backup, flush, late, pull, choice, paused, chosen, faults, released>>

(* A pull is started unless one is already running.                          *)
PullBegins(d) ==
  pull' = [pull EXCEPT ![d] = IF @.pc = "idle" THEN [NoRead EXCEPT !.pc = "row"] ELSE @]

(* The saved dataset is queued: a little after the save, or by "Sync now".   *)
Push(d) ==
  /\ ~paused[d]
  /\ PushActive(d, meta[d])
  /\ queue' # queue
  /\ UNCHANGED <<server, local, meta, backup, flush, late, pull, choice, paused, tally>>

(* The request an upload has sent and not seen answered.                     *)
Outgoing(d) ==
  CASE flush[d].pc = "ensure" -> [creates |-> TRUE, data |-> {}, base |-> 0]
    [] flush[d].pc = "put" ->
         [creates |-> FALSE, data |-> flush[d].item.data, base |-> flush[d].item.base]
    [] OTHER -> None

(* Whoever waited for the request is gone; it is lost or still arrives.      *)
Abandon(d) == \E r \in {late[d], Outgoing(d)} : late' = [late EXCEPT ![d] = r]

(* The document reloads: calls in progress are dropped, and what is queued   *)
(* now belongs to an earlier page.                                           *)
NewPage(d) ==
  /\ Abandon(d)
  /\ flush' = [flush EXCEPT ![d] = NoFlush]
  /\ pull' = [pull EXCEPT ![d] = NoRead]
  /\ choice' = [choice EXCEPT ![d] = NoRead]
  /\ paused' = [paused EXCEPT ![d] = FALSE]
  /\ queue' = [queue EXCEPT ![d] = IF @ = None THEN None ELSE [@ EXCEPT !.page = FALSE]]

(* A tab is closed, crashes or is reloaded by the user, and opened again.    *)
Reopen(d) ==
  /\ faults < MaxFaults /\ made + faults < MaxEvents
  /\ faults' = faults + 1
  /\ NewPage(d)
  /\ UNCHANGED <<server, local, meta, backup, made, chosen, released>>

-----------------------------------------------------------------------------
(* flushBackendSyncQueue.                                                    *)

(* Mutant: the base is read from the bookmark when the snapshot is sent.     *)
FlushStart_BaseAtSend(d) ==
  /\ flush[d].pc = "idle" /\ queue[d] # None /\ ~paused[d]
  /\ flush' = [flush EXCEPT ![d] =
        [NoFlush EXCEPT !.pc = IF meta[d].stamp = 0 THEN "ensure" ELSE "put",
                        !.item = [queue[d] EXCEPT !.base = meta[d].version]]]
  /\ UNCHANGED <<server, client, late, pull, choice, paused, tally>>

(* The durable queue is read; a workspace that has never synced is created   *)
(* first, with a put that carries no dataset.                                *)
FlushStart(d) ==
  /\ flush[d].pc = "idle" /\ queue[d] # None /\ ~paused[d]
  /\ flush' = [flush EXCEPT ![d] =
        [NoFlush EXCEPT !.pc = IF meta[d].stamp = 0 THEN "ensure" ELSE "put",
                        !.item = queue[d]]]
  /\ UNCHANGED <<server, client, late, pull, choice, paused, tally>>

(* The server answers the request of the upload.                             *)
ServerAnswers(d) ==
  /\ flush[d].pc \in {"ensure", "put"}
  /\ ServerTakes(d, Outgoing(d))
  /\ flush' = [flush EXCEPT
        ![d].pc = IF @ = "ensure" THEN "ensured" ELSE "answered",
        ![d].ok = Accepts(Outgoing(d).base),
        ![d].version = server'.version]
  /\ UNCHANGED <<client, late, pull, choice, paused, made, chosen, faults>>

(* The create is answered; an accepted one moves the base of the upload, not *)
(* of what is queued.                                                        *)
Ensured(d) ==
  /\ flush[d].pc = "ensured"
  /\ flush' = [flush EXCEPT
        ![d].pc = "put",
        ![d].item.base = IF flush[d].ok THEN flush[d].version ELSE @]
  /\ UNCHANGED <<server, client, late, pull, choice, paused, tally>>

(* Mutant: the bookmark is saved without the server's time.                  *)
Accepted_NoStamp(d) ==
  LET item == flush[d].item  v == flush[d].version IN
  /\ flush[d].pc = "answered" /\ flush[d].ok
  /\ queue' = [queue EXCEPT ![d] = Rebased(item, Remaining(d, item), v)]
  /\ backup' = [backup EXCEPT ![d] = IF @ = item.data THEN None ELSE @]
  /\ meta' = [meta EXCEPT ![d] = [version |-> v, hash |-> item.data]]
  /\ flush' = [flush EXCEPT ![d] = NoFlush]
  /\ UNCHANGED <<server, local, late, pull, choice, paused, tally>>

(* Accepted: the entry leaves the queue, a successor of the same page is     *)
(* rebased, a backup of the same dataset is cleared, the bookmark moves.     *)
Accepted(d) ==
  LET item == flush[d].item  v == flush[d].version IN
  /\ flush[d].pc = "answered" /\ flush[d].ok
  /\ queue' = [queue EXCEPT ![d] = Rebased(item, Remaining(d, item), v)]
  /\ backup' = [backup EXCEPT ![d] = IF @ = item.data THEN None ELSE @]
  /\ meta' = [meta EXCEPT ![d] = [version |-> v, stamp |-> v, hash |-> item.data]]
  /\ flush' = [flush EXCEPT ![d] = NoFlush]
  /\ UNCHANGED <<server, local, late, pull, choice, paused, tally>>

(* Mutant: what was rejected stays queued.                                   *)
Rejected_KeepsQueued(d) ==
  /\ flush[d].pc = "answered" /\ ~flush[d].ok
  /\ backup' = [backup EXCEPT ![d] = flush[d].item.data]
  /\ flush' = [flush EXCEPT ![d] = NoFlush]
  /\ PullBegins(d)
  /\ UNCHANGED <<server, local, meta, queue, late, choice, paused, tally>>

(* Rejected: the rejected dataset becomes the conflict backup, whatever was  *)
(* there, leaves the queue, and the newer copy is pulled.                    *)
Rejected(d) ==
  LET item == flush[d].item IN
  /\ flush[d].pc = "answered" /\ ~flush[d].ok
  /\ backup' = [backup EXCEPT ![d] = item.data]
  /\ queue' = [queue EXCEPT ![d] = Remaining(d, item)]
  /\ flush' = [flush EXCEPT ![d] = NoFlush]
  /\ PullBegins(d)
  /\ UNCHANGED <<server, local, meta, late, choice, paused, tally>>

(* A call of the upload fails or times out, before or after the server took  *)
(* it; the upload's item is written back to the queue.                       *)
FlushFails(d) ==
  /\ faults < MaxFaults /\ made + faults < MaxEvents
  /\ flush[d].pc # "idle"
  /\ faults' = faults + 1
  /\ Upsert(d, flush[d].item)
  /\ Abandon(d)
  /\ flush' = [flush EXCEPT ![d] = NoFlush]
  /\ UNCHANGED <<server, local, meta, backup, pull, choice, paused, made, chosen, released>>

(* A request nobody waits for reaches the server.                            *)
LateRequest(d) ==
  /\ late[d] # None
  /\ ServerTakes(d, late[d])
  /\ late' = [late EXCEPT ![d] = None]
  /\ UNCHANGED <<client, flush, pull, choice, paused, made, chosen, faults>>

-----------------------------------------------------------------------------
(* pullActiveWorkspaceFromBackend: on a watch event, a reconnect, a wake or  *)
(* "Sync now".  The server reads the row, then the copy.                     *)

Pull(d) ==
  /\ pull[d].pc = "idle"
  /\ PullBegins(d)
  /\ UNCHANGED <<server, client, flush, late, choice, paused, tally>>

PullRow(d) ==
  /\ pull[d].pc = "row"
  /\ pull' = [pull EXCEPT ![d].pc = "snap", ![d].version = server.version]
  /\ UNCHANGED <<server, client, flush, late, choice, paused, tally>>

PullSnap(d) ==
  /\ pull[d].pc = "snap"
  /\ pull' = [pull EXCEPT ![d].pc = "got", ![d].data = server.data]
  /\ UNCHANGED <<server, client, flush, late, choice, paused, tally>>

Missing(read) == read.version = 0 \/ read.data = {}

(* Nothing on the server: the bookmark is cleared and this device's dataset  *)
(* is queued as a create (forceBackendSeedActiveWorkspace).                  *)
PullSeeds(d) ==
  /\ pull[d].pc = "got" /\ Missing(pull[d])
  /\ meta' = [meta EXCEPT ![d] = NoMeta]
  /\ IF paused[d] THEN UNCHANGED queue ELSE PushActive(d, NoMeta)
  /\ pull' = [pull EXCEPT ![d] = NoRead]
  /\ UNCHANGED <<server, local, backup, flush, late, choice, paused, tally>>

(* ShouldApplyRemote: a device with data of its own takes only a copy newer  *)
(* than its bookmark.                                                        *)
ShouldApply(d) ==
  \/ local[d] = {}
  \/ meta[d].stamp > 0 /\ pull[d].version > meta[d].stamp

PullSkips(d) ==
  /\ pull[d].pc = "got" /\ ~Missing(pull[d]) /\ ~ShouldApply(d)
  /\ pull' = [pull EXCEPT ![d] = NoRead]
  /\ UNCHANGED <<server, client, flush, late, choice, paused, tally>>

(* The copy is imported in memory; until it is saved with its bookmark, the  *)
(* writer and the queue are held.                                            *)
PullImports(d) ==
  /\ pull[d].pc = "got" /\ ~Missing(pull[d]) /\ ShouldApply(d)
  /\ pull' = [pull EXCEPT ![d].pc = "import"]
  /\ paused' = [paused EXCEPT ![d] = TRUE]
  /\ UNCHANGED <<server, client, flush, late, choice, tally>>

(* Mutant: the bookmark is saved first and the copy may not be.              *)
SaveSynced_NotAtomic(d, read) ==
  /\ local' \in {local, [local EXCEPT ![d] = read.data]}
  /\ meta' = [meta EXCEPT ![d] =
        [version |-> read.version, stamp |-> read.version, hash |-> read.data]]
  /\ NewPage(d)

(* Mutant: the copy is saved without its bookmark.                           *)
SaveSynced_NoBookmark(d, read) ==
  /\ local' = [local EXCEPT ![d] = read.data]
  /\ UNCHANGED meta
  /\ NewPage(d)

(* saveSyncedDatasetThen: the copy and its bookmark are saved in one batch,  *)
(* and the page reloads.                                                     *)
SaveSynced(d, read) ==
  /\ local' = [local EXCEPT ![d] = read.data]
  /\ meta' = [meta EXCEPT ![d] =
        [version |-> read.version, stamp |-> read.version, hash |-> read.data]]
  /\ NewPage(d)

PullSaves(d) ==
  /\ pull[d].pc = "import"
  /\ SaveSynced(d, pull[d])
  /\ UNCHANGED <<server, backup, tally>>

(* The read fails.                                                           *)
PullFails(d) ==
  /\ faults < MaxFaults /\ made + faults < MaxEvents
  /\ pull[d].pc \in {"row", "snap", "got"}
  /\ faults' = faults + 1
  /\ pull' = [pull EXCEPT ![d] = NoRead]
  /\ UNCHANGED <<server, client, flush, late, choice, paused, made, chosen, released>>

-----------------------------------------------------------------------------
(* The choices a user makes: keep this device's copy                         *)
(* (queueActiveWorkspaceAtServerVersion), keep the backed-up copy            *)
(* (queueConflictBackupAtCurrentVersion), use the server's                   *)
(* (resolveConflictUseServer).                                               *)

Choose(d) ==
  /\ choice[d].pc = "idle" /\ chosen < MaxChoices
  /\ chosen' = chosen + 1
  /\ \E k \in Choices :
       /\ \/ k = "keepDevice" /\ ~paused[d] /\ local[d] # {}
          \/ k \in {"keepBackup", "useServer"} /\ backup[d] # None
       /\ choice' = [choice EXCEPT ![d] =
            [NoRead EXCEPT !.pc = "row", !.kind = k,
                           !.data = CASE k = "keepDevice" -> local[d]
                                      [] k = "keepBackup" -> backup[d]
                                      [] k = "useServer" -> {}]]
  /\ UNCHANGED <<server, client, flush, late, pull, paused, made, faults, released>>

ChoiceRow(d) ==
  /\ choice[d].pc = "row"
  /\ choice' = [choice EXCEPT ![d].pc = IF choice[d].kind = "useServer" THEN "snap" ELSE "got",
                              ![d].version = server.version]
  /\ Releases(IF choice[d].kind = "useServer" THEN {} ELSE server.data)
  /\ UNCHANGED <<server, client, flush, late, pull, paused, made, chosen, faults>>

ChoiceSnap(d) ==
  /\ choice[d].pc = "snap"
  /\ choice' = [choice EXCEPT ![d].pc = "got", ![d].data = server.data]
  /\ UNCHANGED <<server, client, flush, late, pull, paused, tally>>

(* Mutant: the base is the version at the time of queueing, not the one read.*)
Keep_LatestVersion(d) ==
  LET v == choice[d].version IN
  /\ choice[d].pc = "got" /\ choice[d].kind \in {"keepDevice", "keepBackup"}
  /\ Upsert(d, NewItem(choice[d].data, server.version))
  /\ meta' = IF choice[d].kind = "keepDevice"
               THEN [meta EXCEPT ![d].version = v, ![d].hash = None]
               ELSE meta
  /\ choice' = [choice EXCEPT ![d] = NoRead]
  /\ UNCHANGED <<server, local, backup, flush, late, pull, paused, tally>>

(* The chosen dataset is queued at the version just read.                    *)
Keep(d) ==
  LET v == choice[d].version IN
  /\ choice[d].pc = "got" /\ choice[d].kind \in {"keepDevice", "keepBackup"}
  /\ Upsert(d, NewItem(choice[d].data, v))
  /\ meta' = IF choice[d].kind = "keepDevice"
               THEN [meta EXCEPT ![d].version = v, ![d].hash = None]
               ELSE meta
  /\ choice' = [choice EXCEPT ![d] = NoRead]
  /\ UNCHANGED <<server, local, backup, flush, late, pull, paused, tally>>

(* The server's copy replaces the device's; only then is the backup dropped. *)
UseMissing(d) ==
  /\ choice[d].pc = "got" /\ choice[d].kind = "useServer" /\ Missing(choice[d])
  /\ backup' = [backup EXCEPT ![d] = None]
  /\ choice' = [choice EXCEPT ![d] = NoRead]
  /\ UNCHANGED <<server, local, meta, queue, flush, late, pull, paused, tally>>

UseImports(d) ==
  /\ choice[d].pc = "got" /\ choice[d].kind = "useServer" /\ ~Missing(choice[d])
  /\ choice' = [choice EXCEPT ![d].pc = "import"]
  /\ paused' = [paused EXCEPT ![d] = TRUE]
  /\ UNCHANGED <<server, client, flush, late, pull, tally>>

UseSaves(d) ==
  /\ choice[d].pc = "import"
  /\ SaveSynced(d, choice[d])
  /\ backup' = [backup EXCEPT ![d] = None]
  /\ UNCHANGED <<server, tally>>

-----------------------------------------------------------------------------
Upload(d) == FlushStart(d) \/ ServerAnswers(d) \/ Ensured(d) \/ Accepted(d) \/ Rejected(d)
Pulling(d) == Pull(d) \/ PullRow(d) \/ PullSnap(d) \/ PullSeeds(d) \/ PullSkips(d) \/ PullImports(d) \/ PullSaves(d)
Choosing(d) == Choose(d) \/ ChoiceRow(d) \/ ChoiceSnap(d) \/ Keep(d) \/ UseMissing(d) \/ UseImports(d) \/ UseSaves(d)
Faulty(d) == Reopen(d) \/ FlushFails(d) \/ LateRequest(d) \/ PullFails(d)

Next == \E d \in Devices : Edit(d) \/ Push(d) \/ Upload(d) \/ Pulling(d) \/ Choosing(d) \/ Faulty(d)

Spec == Init /\ [][Next]_vars
SpecInUse == InUse /\ [][Next]_vars

(* The page's own work goes on: a goroutine that can take its next step does *)
(* and the server answers.  Edits, choices and faults are not fair.          *)
Fairness ==
  \A d \in Devices :
    /\ WF_vars(FlushStart(d)) /\ WF_vars(ServerAnswers(d)) /\ WF_vars(Ensured(d))
    /\ WF_vars(Accepted(d)) /\ WF_vars(Rejected(d))
    /\ WF_vars(Pull(d)) /\ WF_vars(PullRow(d)) /\ WF_vars(PullSnap(d))
    /\ WF_vars(PullSeeds(d)) /\ WF_vars(PullSkips(d))
    /\ WF_vars(PullImports(d)) /\ WF_vars(PullSaves(d))

FairSpec == Spec /\ Fairness

-----------------------------------------------------------------------------
(* Properties.                                                               *)

TypeOK ==
  /\ server \in [version: Version, data: Dataset, by: Devices]
  /\ local \in [Devices -> Dataset]
  /\ meta \in [Devices -> Meta]
  /\ queue \in [Devices -> Item \cup {None}]
  /\ backup \in [Devices -> Dataset \cup {None}]
  /\ flush \in [Devices -> Flush]
  /\ late \in [Devices -> Request \cup {None}]
  /\ pull \in [Devices -> Read]
  /\ choice \in [Devices -> Read]
  /\ paused \in [Devices -> BOOLEAN]
  /\ made \in 0 .. MaxEdits
  /\ chosen \in 0 .. MaxChoices
  /\ faults \in 0 .. MaxFaults
  /\ released \in Dataset

(* A push takes another device's edit off the server only if it was released *)
(* before: a user confirmed replacing a server copy that held it, or its own *)
(* device left it out of a push.  The base a snapshot was queued with stays  *)
(* the truth about what others have done, through rebases, failed and late   *)
(* calls, reloads, pulls and conflict choices (DecidePut, the rebase after   *)
(* an acknowledgement and the bookmark have to agree for this to hold).      *)
OthersEditsKept ==
  [][\A e \in server.data \ server'.data :
       e[1] = server'.by \/ e \in released]_vars

(* What the bookmark says was exchanged with the server includes no edit of  *)
(* another device that this one does not show, unless its loss is accounted  *)
(* for: the next push is based on the bookmark's version and sends what is   *)
(* shown.  A backup a user chooses to keep can bring a released edit back to *)
(* the server without the device showing it.                                 *)
OthersShown ==
  \A d \in Devices : meta[d].hash # None =>
    \A e \in meta[d].hash : e[1] = d \/ e \in local[d] \/ e \in released

(* Every queued snapshot leaves the queue: a rejected one is not pushed      *)
(* again, to be rejected again, for ever.                                    *)
QueueDrains == \A d \in Devices : (queue[d] # None) ~> (queue[d] = None)

(* A device that has synced and is behind the server gets to its version, or *)
(* has its bookmark cleared as a device to be seeded: the copy it is behind  *)
(* on is never mistaken for one it must not apply.                           *)
Behind(d) == meta[d].stamp > 0 /\ meta[d].stamp < server.version
CatchesUpOrReseeds ==
  \A d \in Devices : Behind(d) ~> (meta[d].stamp \in {0, server.version})

-----------------------------------------------------------------------------
(* What the source says and the model refutes.                               *)

(* A push is never based on "a version it never saw, turning a real conflict *)
(* into an accepted overwrite" (flushBackendSyncQueue): it takes no edit off *)
(* the server that was not released before, its own device's edits included. *)
AcceptedEditsKept ==
  [][server.data \ server'.data \subseteq released]_vars

(* A device that is behind gets to the server's version: the pull on every   *)
(* reconnect "closes that gap" (runBackendWatch).                            *)
CatchesUp == \A d \in Devices : Behind(d) ~> (meta[d].stamp = server.version)

(* A lone device's push is never rejected as stale: it "has now seen and     *)
(* owns the accepted create" and what it queues next is rebased              *)
(* (flushBackendSyncQueue).                                                  *)
NoSelfConflict == \A d \in Devices : flush[d].pc = "answered" => flush[d].ok

(* A saved edit the server lacks is "unsynced local work, keep it"           *)
(* (pullActiveWorkspaceFromBackend): no pull removes it from the device      *)
(* without a trace in the queue or the backup.                               *)
UnsyncedWorkKept ==
  [][\A d \in Devices : \A e \in local[d] \ local'[d] :
       \/ e \in server.data
       \/ queue'[d] # None /\ e \in queue'[d].data
       \/ backup'[d] # None /\ e \in backup'[d]]_vars

(* Only once the server has accepted it "is it safe to drop the local        *)
(* mutation from the queue" (flushBackendSyncQueue): a queued edit leaves    *)
(* the queue for the server or the backup.                                   *)
DroppedOnlyWhenSafe ==
  [][\A d \in Devices : queue[d] # None =>
       \A e \in queue[d].data :
         \/ e \in server.data
         \/ queue'[d] # None /\ e \in queue'[d].data
         \/ backup'[d] # None /\ e \in backup'[d]]_vars

(* The queue "keeps only the latest queued mutation" (UpsertPending): an     *)
(* upload that fails does not put an older snapshot over a newer one.        *)
LatestStaysQueued ==
  [][\A d \in Devices :
       /\ flush[d].pc # "idle" /\ flush'[d].pc = "idle"
       /\ queue[d] # None /\ queue'[d] # None
       => queue[d].data \subseteq queue'[d].data]_vars

(* A snapshot queued while the server holds no dataset gets there: "there is *)
(* nothing on the server to lose an LWW race against"                        *)
(* (pullActiveWorkspaceFromBackend).                                         *)
SeedArrives ==
  \A d \in Devices : (queue[d] # None /\ server.data = {}) ~> (server.data # {})

(* A later edit moves to the accepted version "only when it descends from    *)
(* that exact queued snapshot" (CanRebaseQueuedSuccessor).                   *)
RebasedDescends ==
  [][\A d \in Devices :
       /\ queue[d] # None /\ queue'[d] # None
       /\ flush[d].pc = "answered" /\ flush[d].ok /\ flush'[d].pc = "idle"
       /\ queue'[d].base # queue[d].base
       => flush[d].item.data \subseteq queue'[d].data]_vars

=============================================================================
