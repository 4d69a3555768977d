# A TLA+ model of CashFlux

CashFlux is a local-first household budgeting application. The program is Go
compiled to WebAssembly that runs in a browser tab (or a desktop shell), keeps
its whole dataset in the browser, and can synchronise it through a Go server
(`cmd/cashflux-server`, `internal/server`) over gRPC on a WebSocket bridge.

The part of it that is hard to get right is what several actors share: devices
with offline copies that replace whole-dataset snapshots on one server, tabs
that write one journal in one browser, requests that rotate one session or
decide about one device, and uploads and collectors that meet on one file. This
development models those: the server's rows and handlers, the browser's push,
pull and conflict code, its durable journal, sessions, pairing and stored files.
Paths below are relative to the repository; `sync_client.go` is
`internal/app/sync_client.go`, and Go files without a directory are in
`internal/server` or `internal/app`.

1. [The system](#1-the-system)
2. [Modules](#2-modules)
3. [How the models correspond to the code](#3-how-the-models-correspond-to-the-code)
4. [Runs](#4-runs)
5. [Fairness](#5-fairness)
6. [Proofs](#6-proofs)
7. [Findings](#7-findings)
8. [Not modelled](#8-not-modelled)
9. [Plan](#9-plan)

## 1. The system

### Components, their state and their operations

| Component | State it keeps | Operations | What makes it correct |
|---|---|---|---|
| Workspace store and sync RPCs (`internal/server/repository.go`, `sync.go`, `sync_grpc.go`, `workspace_encryption.go`) | tables `workspaces`, `snapshots`, `snapshot_history`, `users`, `deleted_accounts`; encryption marker in `server_meta` | Put/Get/Delete/List/Watch workspace, suspend, delete account, retention | a push replaces exactly the copy its edit started from; a version names one copy; an encrypted workspace never holds plain data again; erasure is final |
| Accept rule (`internal/syncstate/putdecision.go`) | none | `DecidePut` | version match, not clocks, decides |
| Destructive-write guard (`internal/datasetguard`) | none | `Inspect`, `Check` | a copy that loses most of its records does not replace the stored one |
| Watch streams (`internal/server/sync.go:253-342`) | subscribers and their 64-slot channels | subscribe, publish, drop when full | a device learns eventually that it is behind |
| Browser sync (`sync_client.go`, `internal/syncstate`) | upload queue, bookmark (`syncMeta`), conflict backup in durable browser storage; flush, pull and choice goroutines in memory | queue a snapshot, flush, ensure, accept/reject, rebase, pull/import/save, keep this device's / the backed-up / the server's copy | accepted edits stay; queued work is not lost; a device that is behind catches up; the queue drains |
| Durable dataset and change journal (`internal/app/persist*.go`, `save_failure_banner.go`, `internal/browserstore`, `internal/store`, `internal/localdb`) | checkpoint, head, batches, generation, owner; in-memory SQLite | capture, compare-and-set commit, compaction, replay, recovery, repair, notices between tabs | no committed edit is lost by a crash or another tab; a load brings up what was last made durable; damage costs no more than what it hit |
| Account scope on the client (`sync_identity.go`, `internal/syncstate/binding.go`, `enqueue.go`) | signed-in user, server, workspace registry, owner labels | sign in/out, adopt, rebind, scope checks before a queue or pull | one account's data is never pushed or imported as another's |
| Sessions and refresh (`internal/server/authservice.go`, `repository.go`; `internal/app/sessionbootstrap.go`, `sessioncredentialstore.go`, `tokenlock.go`) | refresh-token families; the browser's stored token and its lock | issue, rotate, replay the successor, revoke, suspend, sign in and out | a family has one live token and ends as a whole; a token used by two devices ends its family; a browser's own tabs never end theirs |
| Pairing and device approval (`internal/server/pairingcode.go`, `pendingdevice.go`, `devicelifecycle.go`, `admin_approvals.go`) | `pairing_codes`, `pending_devices`, `idempotency_keys` | request, approve, attach, reject, cancel, time out, reissue, redeem | a code gives one session; a refusal is final; an approval that loses leaves nothing behind |
| Account migration and merge (`internal/server/workspacemigrate.go`, `workspacemerge.go`) | the workspace rows of two accounts | transfer, replace, roll back, merge | ownership never splits; a rollback restores what was replaced |
| Artifact blobs (`internal/server/blobservice.go`, `blob_http.go`, `blob_orphan_gc.go`, `blobcleanup.go`) | files by hash, staged files, `blobs`, `workspace_blobs` | upload, link, download, collect, reap | a linked file is there and whole; an unlinked one is collected |
| Encrypted change log (`internal/server/blobsync*.go`, `internal/syncbridge`, `internal/keyring`, `internal/cryptobox`) | `change_log`, `ws_head`, `ws_snapshot`, `keyring` | append, list, snapshot, compare-and-set the keyring | sequence numbers have no gap; a snapshot covers what it deletes |
| App Lock (`internal/applock`, `internal/app/applock*.go`, `artifactcrypto.go`) | wrapped key, lock state | enable, unlock, change, recover, lock | the dataset is readable with the right passcode only, and stays so through a crash |
| Billing (`internal/server/billing*.go`) | `subscriptions`, `webhook_events`, `idempotency_keys` | checkout, webhooks of three providers | a late or repeated event does not undo a newer one |
| AI gateway (`internal/server/ai*.go`, `internal/ai*`, `internal/agent*`) | keys, usage, cost | proxy, meter | quota is not exceeded |
| Operator console and tools (`internal/server/admin*.go`, `cmd/*`, `internal/server/backup.go`) | — | list, approve, suspend, back up | acts through the stores above |
| Undo, merge and checkpoints (`internal/undosnap`, `internal/syncmerge`, `internal/conflictcheckpoint`) | undo stack; checkpoints | undo/redo, three-way merge, restore | undo inverts the edit |
| Workflow automation and tasks (`internal/workflow`, `internal/task*`, `internal/casequeue`) | runs, cases | trigger, step, resolve | a step runs once |
| Household finance logic (`internal/ledger`, `budgeting`, `payoff`, `allocate`, `forecast`, … about 200 packages) | none, or the dataset | pure computations over the dataset | arithmetic and policy, sequential |
| Screens and widgets (`internal/screens`, `ui`, `widget*`, `web/`, `desktop/`) | UI state | rendering | — |

### How they interact

The store of a tab commits an edit to the durable journal (compare-and-set on
the generation), and 10 ms later hands the committed dataset to
`pushActiveWorkspaceToBackend`, which compares hashes with the bookmark and
upserts the single queue entry of (account, workspace) with the version the
edit was based on. `flushBackendSyncQueue` (one at a time, `syncPushMu`) sends
the entry: first a put without data when the workspace has never synced, then
the dataset. The server runs the handler: guard, writer check, user row, one
write transaction, each its own database statement or transaction. It publishes
an event to the watch streams of the account. Other devices pull on the event,
on a reconnect, on waking up and on request: the row and the copy are two
statements on the server, the import and the durable save two steps on the
device, and the document reloads after the save. A rejected push becomes the
conflict backup, and the user may then keep this device's copy, keep the backup,
or take the server's.

Everything shared in the browser is read and written by goroutines of one
thread that yield at every call out (RPC, IndexedDB, timers), so each gap
between two such calls is an interleaving point. On the server handlers run in
parallel and meet at one database connection.

### What is hard

* a handler that reads in one statement and writes in another (guard, writer
  check, `ensureUserRow`, the two reads of `GetWorkspaceRPC`);
* answers lost after the server acted, and requests whose caller gave up and
  that arrive anyway;
* three browser goroutines (flush, pull, choice) that change one queue entry and
  one bookmark, with durable state that survives the page and memory that does
  not;
* the rebase of a queued successor after an acknowledgement;
* events dropped on a full watch buffer and pulls coalesced with one already
  running;
* two tabs that plan writes to one journal from what they last read, compaction
  and repair beside them, and records that can no longer be read;
* requests repeated after a lost answer, which must be told from a second
  device's use of the same token;
* two operators, a device and a clock that decide about the same request, each
  in several statements;
* files, which no rollback undoes, beside rows, which it does;
* several tabs and several accounts on the same browser storage.

`PROJECT.json` lists each as a hazard at its line.

## 2. Modules

| Module | What it models |
|---|---|
| `PutDecision` | the accept rule `DecidePut`, shared by the next two |
| `WorkspaceStore` | the server: the rows of one account's workspace, and the put, get and delete handlers statement by statement, with suspension, account deletion and retention between them |
| `MCWorkspaceStore` | its instances |
| `WorkspaceStoreProofs` | theorems about `WorkspaceStore` |
| `WorkspaceSync` | the browser: devices that edit, queue, flush, pull and resolve conflicts against one server row |
| `WorkspaceSyncProofs` | theorems about `WorkspaceSync` |
| `MCWorkspaceSync` | its instances |
| `DatasetJournal` | the browser's durable records: tabs that load, edit, save, compact, pull, recover and repair |
| `DatasetJournalProofs` | theorems about `DatasetJournal`, its refinement of `VersionedRegister` among them |
| `VersionedRegister` | what those records promise a tab: one value with a version, written by compare-and-set |
| `MCDatasetJournal` | instances of `DatasetJournal` |
| `RefreshSessions` | refresh tokens: the server's handler statement by statement, the tabs of one browser with their record and lock, and a second device with a copy of the record |
| `RefreshSessionsProofs` | theorems about `RefreshSessions` |
| `MCRefreshSessions` | its instances |
| `DevicePairing` | pending devices and pairing codes: operators, the device and the clock, statement by statement |
| `DevicePairingProofs` | theorems about `DevicePairing` |
| `MCDevicePairing` | its instances |
| `BlobStore` | stored files: uploads, two collectors, the reaper, and what changes links beside them |
| `BlobStoreProofs` | theorems about `BlobStore` |
| `MCBlobStore` | its instances |
| `NatRecursion` | lemmas on least elements, induction and recursion over the numbers, for the proofs |

`WorkspaceSync` represents the server by the accept rule over one versioned row.
What it relies on is what `WorkspaceStore` shows: an accepted versioned push
replaces the copy its base names and no version names two copies. Its
assumption that a saved dataset survives a reload is what `DatasetJournal` shows
(`RecoversTheLast`). `DatasetJournal` is shown to implement `VersionedRegister`
by the mapping `Register`: the value is the set of edits last made durable, the
version is the stored generation, and what a tab knows is the generation its
next write will name.

## 3. How the models correspond to the code

### WorkspaceStore

* `row`, `snap`, `history`, `user`, `tomb` are the five tables; `marked` is the
  `workspace-encrypted` row of `server_meta`; `barred` stands for a suspended user
  or a viewer (`requireWriter` refuses both in the same way). `call` holds the local
  variables of handlers in progress and where each stands.
* A transaction is one action, because the pool has one connection
  (`store.go:33-39`). A handler is as many actions as it has statements outside
  a transaction: `PutGuard` (`guardDestructiveWrite`), `PutAdmit`
  (`requireWriter`), `PutEnsure` and `PutUpsert` (the lookups and the insert of
  `ensureUserRow`), `PutCommit` (`PutWorkspaceAtomic`), `PutReread` (the copy
  sent with a rejection); `GetRow`, `GetSnap`, `GetDone`; `DeleteAdmit`,
  `DeleteCommit`. `Cancel` ends a handler anywhere: its context is done or a
  statement failed.
* `checkSnapshotEncryption` writes: a read that finds an envelope commits the
  marker. `LatchMarker` is therefore part of every read of a copy. In `GetSnap`
  the SELECT and that transaction are one action; the marker only ever goes up and
  is already set while an envelope is stored, so a statement in between finds
  nothing else.
* `learned` is a history variable: pairs of a version and the copy that came
  with it, as told to clients. A push either names one of these (or 0, a
  create), or, from a client that predates versioned writes, names nothing.
  Any client may use any of them at any time, so stale, repeated and reordered
  requests are included.
* `datasetguard.Check` is the constant relation `Destroys`: the proofs hold for
  every such relation.
* An account lives once. Registering the same id again after a deletion is left
  out (the tombstone is cleared by that, and the encryption marker survives).

### WorkspaceSync

* A dataset is the set of edits it contains; an edit is named by the device that
  made it. Hash equality is set equality, as `datasetHash` is over a canonical
  export. The empty set is the sample dataset, which is never pushed.
* `local` is what a device shows and has saved; `queue`, `meta`, `backup` are
  durable and survive a reload, `flush`, `pull`, `choice`, `paused` are memory
  and do not (`NewPage`). An `Item` has `page` (was it queued by the page now
  open) and `ancestor`, as `queuedSyncMutation` has `PageID` and `AncestorHash`.
* The flush is `FlushStart` (durable queue read, `ensure` or `put`; the yield
  between the two reads is left out),
  `ServerAnswers`, `Ensured`, `Accepted` or `Rejected`, `FlushFails`. A failed
  or abandoned request may have reached the server before, may reach it later
  (`late`, `LateRequest`), or never.
* The pull is `Pull`, `PullRow`, `PullSnap` (the server's two statements), then
  `PullSeeds`, `PullSkips` or `PullImports` and `PullSaves`. The import sets
  `syncApplyPaused`, which holds the writer and new flushes but not a flush
  already running.
* The choices are `Choose`, `ChoiceRow`, `ChoiceSnap`, then `Keep` (for
  `queueActiveWorkspaceAtServerVersion` and
  `queueConflictBackupAtCurrentVersion`) or `UseMissing`, `UseImports`,
  `UseSaves` (`resolveConflictUseServer`).
* The bookmark's `UpdatedAt` is the version whose server time it holds: the
  server stamps each accepted versioned write later than the one before.
* `released` is a history variable: the edits whose disappearance from the
  server somebody answers for, because a user confirmed replacing a copy that
  held them, or because the device that made them pushed without them.
  `OthersEditsKept` and `OthersShown` speak of all others. (A released edit can
  come back: a device that kept a backup from before its release pushes it
  again, and its bookmark then names an edit the device does not show.)

### DatasetJournal

* `disk` is the dataset's records in IndexedDB: checkpoint, backup, head,
  generation and batches; `disk.bad` says which can no longer be read or
  decrypted. `tab` is what a page holds in memory: the dataset it shows, the
  unsaved edits, the generation, checkpoint and head it last knew, the save in
  flight (`job`), the pull in flight and what it is loading.
* A load reads all records in one transaction (`Open`), replays
  (`recoverDatasetSnapshotParsed`: `Walk` forward by the unique continuation,
  `Back` from the recorded tail, `Replayed` until the first record it cannot
  read) and, if anything but the backup alone was wrong (`NeedsRepair`), writes the
  repaired checkpoint and the recovery copy together (`Repair`, or `RepairLost` when another page wrote
  first).
* A save is four steps, because the page yields between them: `Save` captures
  the changed records and plans the batch or the compaction, `Submit` hands it
  over, `Write` is the strict transaction that compares generation, checkpoint
  and head with what the page knew and writes or refuses, `SaveDone` is its
  callback. `WriteFails` is a transaction that fails and is tried again, any
  number of times.
* Another tab's write is announced; the page reads the records again and
  replaces its cached ones (`Hear`, `HearDone`). A save that then finds them not
  its own (`SaveStale`), or is refused, makes the page stale (`GoStale`): it
  keeps a recovery copy (`KeepCopy`) and writes no more. Where there are faults
  the copy may fail, which the code only logs (`save_failure_banner.go:57-71`).
* A pull replaces the checkpoint at the page's generation (`PullStart`,
  `PullWrite`, `PullDone`, `PullRetry`). The code retries a refused pull three
  times, the model as long as generations last: it has more behaviours.
* `Close` is a reload, a crash or a closed tab between any two steps; `Damage`
  makes a stored record unreadable.
* `durable`, `past` and `hurt` are history variables: what the last write made
  durable, every dataset that was, and the edits whose last readable record was
  damaged.

### RefreshSessions

* `rows` is the table `refresh_tokens`; a token is numbered as it is issued and
  its family is named by the first token of it. `store` is the browser's
  encrypted record, `lock` the Web Lock of `withTokenRefreshLock`, `tab` the
  page's step in a refresh, a sign-out or a sign-in.
* `RefreshToken` is `Arrive`, `Claim` (`RotateRefreshSessionBound`, one
  transaction), `Successor` (`refreshSuccessorPair`, when the token was used
  before), `Suspension`, and `RevokeFamily`. `WithinGrace` compares time stamps
  taken at arrival; `GracePasses` says that ten seconds have gone by since every
  request that has arrived.
* A tab's refresh is `Begin`, `Answer`, `Save`: the successor replaces only the
  record that was read. A refusal or a sign-out is `Logout`, then `Clear`, each
  with the lock. `Abandon` is a lost or late answer or a closed page, after
  which the request goes on alone.
* `handleAdminUserSuspend` is `Suspend`, then `Sweep`, two statements.
* `shown` and `ended` are history variables: the devices that presented each
  token, and the families that reuse detection ended.

### DevicePairing

* `request` and `code` are the rows of `pending_devices` and `pairing_codes`,
  `memo` those of `idempotency_keys`, `page` what the requesting device's card
  shows. One or more requests are followed; a request of another device is
  `RequestOther`, which has the same effects on the followed ones.
* Each handler is its statements: approving as a new account is `ApproveCreate`,
  `ApproveMint`, `Approve`, then `Link` or, when the claim is lost, `Undo`;
  attaching to an existing account is `AttachFind`, `AttachMint`, `Approve`,
  `Link`; a reissue is `Reissue`, `ReissueMint`, `ReissueWrite`; a redemption is
  `Redeem`, `Claim`, `Mark`, `Check`, `Issue`, `Remember`, `Answer`.
* A redemption may come without an idempotency key (`NoKey`); nothing is then looked
  up or stored.
* Any statement may fail (`Fails`). `AfterError` says where the handler goes on: an
  approval removes the account it made, housekeeping, `Link` and `Mark` are
  best-effort and the handler goes on without them, everything else is an error to
  the caller. The server may stop (`Stop`): the handlers are gone, the rows stay.
* Ages are states of the rows (`CodeAges`, `RequestAges`). A handler compares with
  the `now` it took when it started (`admin_approvals.go:68`, `authservice.go:309`),
  so it keeps whether its row was in time then (`timely`) and `MayApprove` and
  `MayClaim` ask for that: a code or request that goes late under a handler is still
  taken.
* The operator suspends the household's account and reinstates it (`Suspend`,
  `Reinstate`), and deletes any account at any time (`DeleteAccount`).
* `granted`, `renewed` and `sessions` are history variables: approvals,
  reissues, and sessions issued per code. So are `unmarked`, the used codes whose
  `Mark` failed or was never reached, `left`, the accounts whose removal failed or
  whose handler was stopped, and `barred`, a handler whose account has been
  suspended since before it claimed. `UsedIsShown` and `LosersLeaveNothing` make no
  claim about the first two: there the code's own comments call the mark best-effort
  and the cleanup's result is dropped.

### BlobStore

* `file` is the directory, one file per content hash, absent, torn or whole;
  `aged` the files past `OrphanBlobGracePeriod`; `rows` and `links` the tables.
  `lock` is the database's write lock, taken by `BEGIN IMMEDIATE`.
* An upload is `Begin`, `Received` (staged, hashed, quota asked), `Locks`,
  `Stores` and `Written` (the file, only if it is not there), `Commits` (row and
  link), or `RollsBack`, which removes the file only if this upload created it
  and no commit was attempted (`Undone`).
* `gc-blobs` is `SweepBegins`, then per row `SweepRemoves` and `SweepCommits`,
  then `SweepReads` and per file `SweepOrphans`, then `SweepEnds`; a deleted
  account starts the first half (`DeleteAccount`). `Reaps` is `RunBlobCleanup`.
* `Crash` ends all upload handlers; files stay as they are and the transaction a
  handler had open is gone. `gc-blobs` is a process of its own and goes on; a sweep
  that dies is `SweepFails`.

Each definition's lines are in `PROJECT.json`, "map".

## 4. Runs

Sets of handlers and devices are symmetric. Deadlock is not checked because
everything may stop: an account is deleted, or all the edits the bound allows
are made and synced.

| Run | Instance | Shows |
|---|---|---|
| `store_order` | one provisioned account, two handlers in progress, one dataset, versions to 3, history of 1 | `TypeOK`, `LearnedIsCurrent`, `HistoryInOrder`, `ErasedStaysErased`, `NoLostUpdate` |
| `store_guard` | an account created by its first push, a big, a small and a sealed dataset, the guard refusing small over big, versions to 2 | `EncryptionRatchet`, `GuardHolds` |
| `sync_edits` | a new account, two devices, three edits, or two edits and one failed call, late request or closed page, versions to 4 | `TypeOK`, `OthersShown`, `OthersEditsKept` |
| `sync_choices` | a new account, two edits, one conflict choice of any kind, versions to 3 | `OthersEditsKept` |
| `sync_progress` | a new account, two devices, two edits, fairness, no faults | `QueueDrains`, `CatchesUpOrReseeds` |
| `journal_tabs` | two tabs, one own edit and one that a pull can bring, compaction at one batch, three generations | `TypeOK`, `RecoversTheLast`, `ImplementsRegister` |
| `journal_damage` | one tab that may reload at any time, three edits, chains of two, four generations, one damaged record | `RecoversAState`, `DurableKept`, `NothingDropped` |
| `journal_progress` | two tabs, one edit, no pulls, fairness | `EditSettles` |
| `sessions` | two tabs, two handlers, three tokens, three requests, one lost exchange or copied record, two sign-outs or operator acts | `TypeOK`, `OneLive`, `RevokedWhole`, `ReuseEndsFamily`, `OwnTabsKept`, `StoredIsLive`, `NoneWhileSuspended` |
| `pairing` | one request, two handlers, two codes, the household and one account made by approval, no key, and one reissue, deletion, suspension, portal code, failing statement or stop of the server | `TypeOK`, `RefusedGetsNothing`, `ApprovedOnce`, `LosersLeaveNothing`, `NamesItsAccount`, `UsedIsShown`, `RefusalStands` |
| `pairing_redeem` | no request, two portal codes, two handlers, one key or none, the household, six portal codes, suspensions, reinstatements, deletions or faults, one of them a fault | `OneSessionPerCode`, `SuspendedGetsNothing` |
| `blobs` | two accounts, one content, two uploads at once and three in all, one sweep at a time, two acts on workspaces, one crash or failed sweep, fairness | `TypeOK`, `LinkedIsStored`, `StagedKept`, `UnlinkedIsCollected` |

The bounds. Two handlers are the writer and the one that interferes with it
between two of its statements; what a third could do the two can do one after
the other, as a handler ends and another starts. Three versions are create,
replace, replace: enough for a copy to be superseded, for history to be trimmed
at its limit of one, for a delete and a restore. One dataset is enough for
`store_order` because a copy carries the version it was written with, so two
writes of the same data are told apart. In `WorkspaceSync` two devices are the
one that writes and the one that is behind; three edits give one device a sent
snapshot and a queued successor while the other is ahead; versions to 4 are
a create and three pushes (`sync_choices` stops a push earlier, where a choice
meets a rejection and a newer copy), and a run that could push beyond the bound
just stops at it. One choice or one fault at a time
against two edits reaches every action (`MaxEvents` bounds edits, choices and
faults together). What holds beyond these
bounds, several choices and faults together, is a theorem (section 6); the runs
say that the invariant it is proved from is not about a model that cannot move.
The invariant itself was checked on two devices with any choice, two edits and
one fault, from a new account and from one in use, before it was proved.

In `DatasetJournal` two tabs are the one that writes and the one that planned its
write from what was there before. Three generations let one tab commit, the
other commit or pull over it, and a third write meet both; compaction at one
batch makes every second save a compaction. `journal_damage` has one tab, since a
reload is a second reader, and chains of two, so that the damaged record can be
first, last or between checkpoint and tail. Two pages that meet one damaged
chain, one repairing while the other saves or repairs, are `MCJournalRepair.cfg`,
with two edits, three generations and recovery copies that may fail: `DurableKept`
and `NothingDropped` hold there too. It is not among the runs because its damage
never falls between two batches, and any number of pages is a theorem. The
invariant `Inv` of the proofs was checked on these instances before it was proved.

In `RefreshSessions` a token, its successor and the successor's successor are what
reuse detection tells apart, and two handlers the rotation and what interferes
with it; the third request is the repetition. In `DevicePairing` two handlers are two operators, an operator and a redemption, or
two redemptions; two codes are the approval's and a reissued or a losing one. The
two runs divide what one instance would be too large for: `pairing` has the
decisions, with one act of an operator or one fault at any statement of them and of
the redemption, `pairing_redeem` what keys, suspension and two codes do to
redemptions, for which it does not matter where a code came from. Its six acts are
two portal codes, a suspension, a reinstatement, a fault and one more. With one
account to be made, the operator who approves as a new account races one who attaches
the household's, either of them losing. Two operators who both make an account, a
reissue and a fault in one behaviour, or more than two handlers, are covered by the
theorems alone. In `BlobStore` one content suffices: files, rows and locks of different contents
touch only in the quota.

Every property of a passing run has a mutant in `PROJECT.json`: an operator
beside the original, marked "Fault" or "Mutant", that changes it as a plausible
mistake would and that the run then refutes.

## 5. Fairness

Three modules state fairness, weak fairness of single steps.

`FairSpec` of `WorkspaceSync`, per device:

* `FlushStart`, `Ensured`, `Accepted`, `Rejected`, `PullSeeds`, `PullSkips`,
  `PullImports`, `PullSaves`: a goroutine of the page that can go on does; each
  of them runs to its next call without waiting for anything else;
* `ServerAnswers`, `PullRow`, `PullSnap`: a call that does not fail is
  answered. Calls have deadlines and the failing case is a fault, of which
  `sync_progress` has none;
* `Pull`: a pull begins again and again. A watch event, a reconnect of the watch
  stream, a wake-up of the tab and "Sync now" all start one, and the watch loop
  reconnects for as long as the page lives. A single event is not relied on:
  events are dropped on a full buffer and coalesced with a running pull.

Edits, `Push`, choices and faults are not fair: nobody has to make an edit, and
the queueing 10 ms after a save can be cancelled by a pull.

`FairSpec` of `DatasetJournal`, per tab: the autosave timer and the recovery
copy (`Save` or `SaveStale`, `KeepCopy`), the steps of a save and of a pull that
has begun, and their callbacks. `startDatasetAutosave` rearms its timer for as
long as the page lives, and IndexedDB answers every transaction. `EditSettles` is
checked without faults: it holds only if the recovery copy can be written. The user, other
tabs' notices, a pull's beginning, failing transactions, crashes and damage are
free.

`FairSpec` of `BlobStore`: the steps of a transaction that has begun, the steps
of a sweep and its beginning, and the ageing of files. `gc-blobs` is scheduled
by `deploy/production/cashflux-blob-gc.timer`; sweep, upload and commit wait for
nothing but the write lock, whose holder ends. Uploads, deletions and crashes
are free, and a run has a bounded number of them, so the liveness property says
that a sweep collects once they stop, or in between when they let it.

## 6. Proofs

`WorkspaceStoreProofs` proves, for every set of accounts, handlers and datasets,
every guard relation and every history limit, from `StoreAssumption` alone:

| Theorem | Statement |
|---|---|
| `TypeCorrect` | `Spec => []TypeOK` |
| `RatchetHolds` | `Spec => []EncryptionRatchet` |
| `LearnedHolds` | `Spec => []LearnedIsCurrent` |
| `ErasureHolds` | `Spec => []ErasedStaysErased` |
| `NoLostUpdateHolds` | `Spec => NoLostUpdate` |
| `GuardIsKept` | `Spec => GuardHolds` |

`EncryptionRatchet` is inductive with `TypeOK`. The other facts are not
inductive by themselves. Their invariant is

    Invariant == TypeOK /\ Standing /\ RowFirst /\ Handling /\ LearnedIsCurrent

`LearnedIsCurrent` needs to know what a read in progress has in its hands:
`Handling` says that the label it took is not newer than the row and that, while
it is still the row's version, the copy it then took is the current one. That
needs `RowFirst` (a read of a missing row gives no copy), and that a push that
names its base names something in `learned`. All of it, and the three theorems
about versions and the guard, is about any account until it is deleted, one that
a push creates included; what comes back after a deletion (finding 3) starts its
versions again and is promised nothing. `Standing` says that a provisioned
account is there until it is deleted and then has no rows; with it a push that
was past `ensureUserRow` when its account was deleted fails on the foreign key.
A push without data is told the version it made with the copy it held, so
that step needs `NoLostUpdate`'s argument (`BaseIsCurrent`) inside the
induction.

`GuardHolds` needs more: the guard compares with the copy it reads, and the
transaction replaces another. `Comparisons` says that for a versioned push past
the guard, while its base is the row's version, the guard accepted the copy the
edit started from; versions only grow until the account is deleted
(`VersionGrows`), so once the base is not the row's version it never is again,
and the transaction refuses.

`HistoryInOrder` needs that the history is a finite set of copies with distinct
versions, all older than the current copy and at most `HistoryLimit` (`Histories`).
The trim keeps the newest: of a finite set of copies with distinct versions at
most that many have fewer than `HistoryLimit` newer ones (`NewestBounded`, by the
least version among them).

`RefreshSessionsProofs` proves, for any number of tabs, handlers, tokens, requests
and faults, with and without Web Locks, from `SessionsAssumption` alone:

| Theorem | Statement |
|---|---|
| `TypeCorrect` | `Spec => []TypeOK` |
| `OneLiveHolds` | `Spec => []OneLive` |
| `RevocationHolds` | `Spec => []RevokedWhole` |
| `ReuseEnds` | `Spec => []ReuseEndsFamily` |
| `SuspensionHolds` | `Spec => []NoneWhileSuspended` |
| `OwnTabsHold` | `Spec => []OwnTabsKept` |
| `StoredHolds` | `Spec => []StoredIsLive` |

That is every property the run `sessions` checks. The argument is in four parts.

* `Issued` (nobody names a token that was not issued) is inductive with `TypeOK`,
  and all else rests on the two. `RowSteps` then reduces every step to one of
  three changes of the rows: a rotation of a live token by an arrived request, the
  revocation of whole families, or a sign-in. `OneLive` and `RevokedWhole` are
  inductive over these three.
* `Judged`: until a token's family is revoked or a handler is about to revoke it,
  the only device whose request was judged is the one the row is bound to. This is
  what survives between the claim and the revocation, other handlers running in
  between, and gives `ReuseEndsFamily`.
* `Barred`: a request that arrived under the present suspension has not been
  answered with tokens, and the account is still suspended.
* `Alone`: with Web Locks and as long as no exchange was abandoned and the record
  not copied, at most one request is on its way, it carries the stored token for
  the tab that holds the lock (`OneRequest`); the token in the answer, in a tab
  that saves or in one that signs in is unused or revoked, and is known to nobody
  else (`HoldsLock`, `Joining`). So a request finds its token used up only if its
  family is revoked already, and reuse detection then ends nothing.
  `OwnTabsKept` and `StoredIsLive` follow; neither is inductive without it,
  since neither says where the current token is during an exchange.

`DevicePairingProofs` proves, for any number of requests, handlers, keys, codes and
accounts, from `PairingAssumption` alone:

| Theorem | Statement |
|---|---|
| `TypeCorrect` | `Spec => []TypeOK` |
| `OneSessionHolds` | `Spec => []OneSessionPerCode` |
| `RefusedHolds` | `Spec => []RefusedGetsNothing` |
| `ApprovedOnceHolds` | `Spec => []ApprovedOnce` |
| `LosersHolds` | `Spec => []LosersLeaveNothing` |
| `NamesHolds` | `Spec => []NamesItsAccount` |
| `UsedHolds` | `Spec => []UsedIsShown` |
| `SuspendedHolds` | `Spec => []SuspendedGetsNothing` |
| `RefusalHolds` | `Spec => RefusalStands` |

That is every property of the two pairing runs, with failing statements, stops,
suspensions and reinstatements in any number. `UsedHolds` says what the code's
best-effort mark leaves true: when the mark itself was carried out, no reissue, link,
failure or other redemption hides it. `SuspendedHolds` says the same of a suspension:
while it lasts no code claimed under it becomes a session, and a reinstatement in
between is the only way such a code does. None but the types is inductive,
because a handler acts on rows it read some statements ago. The invariant `Inv`
says, per position of a handler, what of them still holds:

* `Deciders`: a code that was minted and not yet told is the handler's alone and
  unused (`Unshared`); between the approval and the link the request has exactly
  that code and no account, or its row is gone (`Unlinked`), and one handler only is
  there.
* `Redeemers`: a claimed code is used, has no session, and one handler holds the
  claim. Once the session is there the handler's code
  has exactly one, and so has every code a stored answer is for, which gives
  `OneSessionPerCode`, at most one session and no answer but the code's
  (`AnswersItsCode`).
* `Rows`: code and account are set only in an approved or redeemed request, and a
  refused or pending one was never granted a code. `RefusedGetsNothing` and
  `ApprovedOnce` follow from it and from the one conditional update that approves.
* `Owned` and `Shown` are `LosersLeaveNothing` and `UsedIsShown` with the handler's
  position in them: *which* handler still has to undo or to show, and until when.
  A fault moves what that handler owed to `left` or `unmarked`, and never anything
  else (`FailsStep`, `StopStep`).
* `Askers`: one handler inserts a request, so an insert meets no decision.

`BlobStoreProofs` proves, for any number of accounts, contents, uploads, sweeps,
crashes and failures, from `BlobAssumption` alone:

| Theorem | Statement |
|---|---|
| `TypeCorrect` | `Spec => []TypeOK`, which includes: who is inside a transaction holds the write lock |
| `LinkedHolds` | `Spec => []LinkedIsStored` |
| `StagedHolds` | `Spec => []StagedKept` |

The file system takes no part in a transaction, so `LinkedIsStored` is not
inductive: `Storing` says that the file a handler is about to link has its
content, and that the file it would remove on its way out is one it made itself and
nobody links. Both stay true because whoever links or removes holds the lock.

`WorkspaceSyncProofs` proves, for any number of devices, edits, versions, faults and
conflict choices of every kind, from `SyncAssumption` alone, for a new account
(`Spec`) and for one in use (`SpecInUse`):

| Theorem | Statement |
|---|---|
| `TypeCorrect` | `[]TypeOK` |
| `OthersShownHolds` | `[]OthersShown` |
| `OthersEditsHold` | `OthersEditsKept` |

`OthersEditsKept` is about one step, in which the server takes a push; whether the
push leaves anything out was settled when its snapshot was taken, many steps and
many versions before. `Invariant` follows it from there. `Covers` says of a
dataset with a base that, while the base is the server's present version, the
dataset leaves out nothing of other devices that was not released; the base only
falls behind when the version grows, so it is never the present one again and the
push is refused. `Client` says where this holds for one device: of what its queue
holds (`Queued`), of what it is sending or has sent (`Uploading`, `Latent`), of what
its next push would send (`Bookmarked`), of the copy it is importing (`Pulled`) and
of the one a conflict choice has fetched (`Chosen`). A rebase gives a snapshot a
new base after an acknowledgement: it is `Shown` that makes this safe, as what a
device holds of other devices' edits it also shows, or they were released. An edit
that a device holds is on the server or was released (`Known`), so a pull or a
choice brings nothing that could be missing later.

`DatasetJournalProofs` proves, for any number of tabs, edits, generations, pulls,
failed transactions, crashes and damaged records, and chains of every length, from
`JournalAssumption` alone:

| Theorem | Statement |
|---|---|
| `Invariance` | `Spec => []Inv`, the inductive invariant below |
| `TypeCorrect` | `Spec => []TypeOK` |
| `RecoversStateHolds` | `Spec => []RecoversAState` |
| `RecoversLastHolds` | `Spec => []RecoversTheLast` |
| `DurableHolds` | `Spec => []DurableKept` |
| `NothingDroppedHolds` | `Spec => NothingDropped` |
| `Refines` | `Spec => ImplementsRegister` |

That is every safety property of the journal runs. What a load brings up is
computed by a walk over the stored batches, so nothing about it is inductive until
the shape of the records is. The invariant is

    Inv == TypeOK /\ Shape(disk) /\ Pages /\ Accounts

* `Shape`: generations name what is stored in the order it was written (`Named`),
  the batches of the checkpoint and those of the one before it each form one chain
  in places 1, 2, ... (`Threaded`), the head names the last of the present chain
  (`Headed`), and the checkpoint has its copy unless a pull wrote it (`Backed`).
* `ReplayIsIntact` is the lemma the rest stands on: of such records a load replays
  exactly the batches before the first damaged one, whether the load goes back from
  the recorded tail (`Back`) or, where that breaks or the head is unreadable, from
  where the walk forward by the unique continuation ends (`Walk`). Both are recursive
  functions; that each is a function at all, and what it reaches after any number of
  steps, is by `Recursion` and `SetInduction` of
  `NatRecursion`, which state recursion and induction of sets and functions and so
  need no operator as a parameter. `RecoveredPast` then gives `RecoversAState`.
* `Pages`: `Fits` says of a page what it knows of the stored dataset while the
  generation it knows is the stored one: it has seen it all, what it shows has it
  all unless a pull is on its way, and the save it is about to hand over has it all.
  A page whose generation is not the stored one is left behind (`LeftBehind`);
  nothing is said of it, since its write is refused, and generations only grow.
* `Accounts`: until damage, what was last made durable is the checkpoint with its
  batches; every prefix of either chain was durable once (`past`); and every
  durable edit is in a readable record, in a recovery copy, or was lost to damage.

`NothingDropped` compares two loads across one step. Only `Repair`, `Write` and
`PullWrite` commit: a repair writes what was recovered (`MendedIs`), a save goes to
whoever had all that is stored (`SaveDrops`), and a pull replaces what its page had
seen. `Refines` maps each commit to the register's `Extend` or `Replace` at the
version the page knows, and every other step to a `Read` or a stutter; the case that
needs the invariant is the page whose write is committed and whose callback has not
run (`Knows`), while other pages write on.

What stays with TLC:

* liveness (`QueueDrains`, `CatchesUpOrReseeds`, `EditSettles`, `UnlinkedIsCollected`)
  and fairness, which are beyond the proof system. Every other property of a
  passing run is a theorem.

## 7. Findings

Each is a claim the source makes and TLC refutes. The traces are short; the
counterexample is the scenario. The module states the claim, and the
configuration named below, in the same directory, refutes it, for instance
`tlc -config MCSyncBehind.cfg MCWorkspaceSync`.

**Server**

1. `MCStoreOldClient.cfg`. The comment of the destructive-write guard
   (`sync_grpc.go:112-122`) says the guard holds whatever the client believes,
   an old client included. The guard reads the stored copy before the
   transaction, and an unversioned push is decided by clocks, so a push that
   lands in between is replaced by one the guard would have refused. For
   versioned pushes the gap is closed (`GuardHolds`).
2. `MCStoreSuspension.cfg`. `requireBothSuspended` (`workspacemigrate.go:264-267`)
   relies on suspension to stop an in-flight sync. `requireWriter` is read
   before the transaction, so a push past it commits after the suspension.
3. `MCStoreResurrect.cfg`. `DeleteAccount`'s comment (`repository.go:265-270`) calls
   deletion something a stale token cannot undo. `ensureUserRow` looks for the
   users row and the tombstone and then inserts the row, in separate statements.
   Two first requests of an account suffice: one is between its lookups and its
   insert while the other's insert and then a deletion happen; its insert brings
   the users row back, and its push the workspace. For a provisioned account
   erasure is final (`ErasedStaysErased`).

**Browser** (`sync_client.go`)

4. `MCSyncAlone.cfg`. A lone device is rejected as stale: after the create its
   upload uses version 1 while the queue entry keeps base 0, so a successor
   queued meanwhile (base 0) is not the successor the rebase recognises.
5. `MCSyncUnsynced.cfg`. A pull between the durable save of an edit and its queueing
   replaces the edit; the pending push is cancelled and no backup is made.
6. `MCSyncDropped.cfg`. A pull that applies while a snapshot is queued, followed by
   an edit, overwrites the entry: the queued edit is neither on the server nor
   in the backup.
7. `MCSyncRetry.cfg`. An upload that fails writes its own item back over a newer one
   queued while it was in flight.
8. `MCSyncSeed.cfg`. When the answer to the create is lost, the pushes at base 0 are
   rejected, the pull finds no dataset, clears the bookmark and queues at base 0
   again, for ever.
9. `MCSyncBehind.cfg`. A "missing" answer read before the device's own first push
   and handled after it clears the bookmark; with no stamp the device takes no
   later copy, and stays behind.
10. `MCSyncRebase.cfg`. A "keep this device" export taken before an edit and queued
    after it takes the edit's place and inherits its lineage; it is rebased onto
    a version whose content it does not contain.
11. `MCSyncLoss.cfg`. An accepted edit of the device itself is taken off the server
    with nobody asked: a pull imports the copy before, the acknowledgement in
    between rebases the successor, the pull saves the older copy, the successor
    is accepted and becomes the bookmark, and the next push sends what the
    device shows, at a version it never showed. `sync_client.go:1177-1183` says
    this must not be: the base is the version the edit was based on.
12. `MCSyncKeepBackup.cfg`. After a kept backup is accepted the bookmark describes
    the backup, while the device still shows the server's earlier copy; the next
    push removes the edits the user chose to keep, again at a version that copy
    was not based on.

**Pairing**

13. `MCPairingReissue.cfg`. `ReissuePairingCode` refuses a redeemed request
    because a second code would be "a second credential for an account without
    an approval decision behind it" (`devicelifecycle.go:361-363`). It reads the
    status, mints and writes in separate statements and does not retire the old
    code, so the old code can be redeemed in between, and both give a session.
    The same follows without a race when the mark of a redemption fails
    (`authservice.go:354-360`): the request stays approved, and is reissued.
14. `MCPairingWithdraw.cfg`. `CancelDevicePairing` lets a device kill a code that
    does not match (`authservice.go:799-805`). Once the request is approved the
    cancellation changes nothing and the code still redeems; the card shows the
    code only then.
15. `MCPairingRetry.cfg`. A retry with the same idempotency key must not fail with
    "already used" (`authservice.go:317-323`). It does while the first attempt is
    between the claim of the code and `PutIdempotencyResult`. The card makes a
    new key for every press (`pendingdevicecard.go:175-187`), so a repeated press
    after a lost answer is refused also later.

**Blobs**

16. `MCBlobQuota.cfg`. The hard quota check (`blobservice.go:181-192`) sums what is
    linked before the write transaction begins; two uploads of one account pass
    it together and exceed the quota.

Seen while reading, in the sources of these modules, and without a configuration
of their own:

17. `RefreshToken`'s comment (`authservice.go:1000-1002`) promises a same-device
    replay within the grace period the existing successor. When the successor
    has been used already (the answer of the first attempt was late, another tab
    rotated on), the replay revokes the family (`Successor`). The boot refresh
    waits 15 s (`sessionbootstrap.go:227`), the grace period is 10 s.
18. `Login` asks for the suspension and issues afterwards (`authservice.go:527-532`);
    a session issued after `RevokeRefreshSessionsForUser` outlives it, and its
    first refresh is refused. `NoneWhileSuspended` speaks of refreshes.
19. `degradeToLocalOnly` (`sync_client.go:432-445`) signs out whatever token is
    stored when it gets the lock, also one another tab has signed in with since
    the refusal it answers (`Logout`, `Clear`).
20. `approvePendingDeviceAsNewUser` says every provisional row and code is removed
    (`admin_approvals.go:111-113`); the losing code's row stays, without an
    account to redeem it for. A failed removal, whose error is dropped
    (`admin_approvals.go:135-137`), or a stop of the server before the claim leaves
    the account too; `LosersLeaveNothing` leaves exactly these out (`left`).
21. A crash inside `WriteFile` (`repository.go:1412`) leaves a torn file that makes
    every upload of that content fail with "existing blob hash mismatch" until
    the orphan collector takes it, a day later at the earliest. It does take it:
    `UnlinkedIsCollected`.
22. A pull requested while one is running is dropped although the running one may
    have read its row before the change (`sync_client.go:1649`, "a second one
    changes nothing").

What does hold, in every run: a device never takes another device's edit off the
server that nobody released (`OthersEditsKept`); a reload brings up what the last
committed write made durable (`RecoversTheLast`); the tabs of one browser
whose exchanges all get their answers never end their session (`OwnTabsKept`); a code gives one session (`OneSessionPerCode`); a
linked file is there and whole (`LinkedIsStored`).

## 8. Not modelled

* `WorkspaceStore`: `List`, a put with the deleted flag (no client sends one), the watch streams, the size limit, metrics and audit
  lines, blobs, the id-collision retry of a create, operator migrations, a
  second life of a deleted account.
* `WorkspaceSync`: workspace deletion, Force (`ReplaceServerCopyWithThisDevice`),
  App Lock and envelopes, artifact blobs, hosted first-open hydration, several
  tabs on one storage, several accounts or workspaces on one browser, the
  registry merge at start-up, failures of the import itself.
* `DatasetJournal`: batches and envelopes of older builds, changes of owner and
  workspace, encryption of the records beyond "can be read or not", the in-memory
  SQL store and the diff of its tables, the storage quota.
* `RefreshSessions`: the cookie mode (it differs in who stores the token), the
  30-day expiry, passwords and recovery, several accounts on one server.
* `DevicePairing`: rate limits, the operator's listing pages, the credentials a
  paired device sets up before it keeps its session, suspension of accounts other
  than the household's. The `now` by which `ExpirePendingDevices` and the pruning
  compare is the statement's, not the request's arrival, which times requests out a
  little more often. A repeated answer (`Redeem` with a stored key) is given without
  asking for the suspension again, as in the code: `SuspendedGetsNothing` is about
  codes that are claimed.
* `BlobStore`: the soft quota check of an upload's first message, downloads, the
  client's side, power failure and undelivered `fsync`.
* Household finance logic, screens, assistants and tools: sequential
  computations with tests of their own, no interleaving to explore.

## 9. Plan

In this order; the modules above are done.

| Next | Models | Composes / refines | To check and prove |
|---|---|---|---|
| an abstract server | one versioned copy, replaced at the version it names | implemented by `WorkspaceStore`, used by `WorkspaceSync` | that what `WorkspaceSync` takes the server to be is what `WorkspaceStore` does |
| `WatchDelivery` | publish, full buffer, reconnect, pull coalescing | with the version of `WorkspaceSync`'s server | a device that stays connected ends up current; the coalescing gap |
| `WorkspaceMigrate` | transfer, replace, roll back, merge against syncing clients | extends `WorkspaceStore`'s rows | one owner, rollback restores, version reuse |
| `SyncScope` | sign-out/in, workspace switch, queued work and pulls in flight | — | nothing crosses accounts |
| `DatasetGuard` | `Check` as an operator with its thresholds | gives `Destroys` for an instance | boundary cases against a reference definition |
| Encrypted change log, billing | append, snapshot and keyring; webhook order | — | no gaps, compare-and-set; an older event never undoes a newer |
