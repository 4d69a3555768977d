------------------------------ MODULE BlobStore ------------------------------
(***************************************************************************)
(* Artifact files of the server.  A file is stored once under the hash of  *)
(* its content; `blobs' has a row for it and `workspace_blobs' a link for  *)
(* each workspace that uses it.                                            *)
(*                                                                         *)
(* An upload stages its bytes, asks the quota, and then, under the         *)
(* database's write lock, writes the file and commits row and link.  Two   *)
(* sweeps remove files: one goes by the rows nobody links, the other by    *)
(* the directory, for files that have no row.  They recheck each file      *)
(* under the same lock.  File operations are not undone by a rollback, and *)
(* the server may die between any two steps.                               *)
(*                                                                         *)
(* Each account has one workspace.  A process that dies loses no data it   *)
(* has written (no power failure).                                         *)
(***************************************************************************)
EXTENDS Naturals, FiniteSets

CONSTANTS
  Accounts,
  Hashes,     \* contents; each counts as one unit of the quota
  Uploads,    \* upload handlers the server can have at once
  Sweeps,     \* sweeps that can run at once
  Nobody,
  Quota,      \* storage limit of an account
  MaxUploads, \* bound on the uploads begun, for model checking
  MaxActs,    \* bound on what is done to workspaces and accounts
  MaxFaults   \* bound on crashes and failed sweeps

ASSUME BlobAssumption ==
  /\ Quota \in Nat /\ MaxUploads \in Nat /\ MaxActs \in Nat /\ MaxFaults \in Nat
  /\ Uploads \cap Sweeps = {}
  /\ Nobody \notin Uploads \cup Sweeps

VARIABLES
  file,      \* [Hashes -> the file stored under the hash]
  aged,      \* files older than OrphanBlobGracePeriod
  rows,      \* hashes in blobs
  links,     \* <<account, hash>> in workspace_blobs
  workspace, \* [Accounts -> the workspace's row]
  lock,      \* who is between BEGIN IMMEDIATE and its end
  up,        \* [Uploads -> the handler]
  staged,    \* [Uploads -> its file under partials]
  sweep,     \* [Sweeps -> the sweep]
  begun, acts, faults  \* counts against the bounds

disk == <<file, aged>>
tables == <<rows, links, workspace>>
counts == <<begun, acts, faults>>
vars == <<disk, tables, lock, up, staged, sweep, counts>>

(* A handler: `partial' when it stages its bytes in a file, `created' when   *)
(* it is the one that wrote the file of the hash.                            *)
Upload == [pc: {"idle", "receiving", "checked", "locked", "writing", "written"},
           account: Accounts \cup {Nobody}, hash: Hashes \cup {Nobody},
           partial: BOOLEAN, created: BOOLEAN]
Idle == [pc |-> "idle", account |-> Nobody, hash |-> Nobody,
         partial |-> FALSE, created |-> FALSE]

(* A sweep: `full' goes on from the rows to the directory.                   *)
Sweep == [pc: {"idle", "rows", "removed", "files"}, full: BOOLEAN,
          todo: SUBSET Hashes, at: Hashes \cup {Nobody}]
Asleep == [pc |-> "idle", full |-> FALSE, todo |-> {}, at |-> Nobody]

Linked(h) == \E a \in Accounts : <<a, h>> \in links
Bytes(a) == Cardinality({h \in Hashes : <<a, h>> \in links})

Init ==
  /\ file = [h \in Hashes |-> "none"] /\ aged = {}
  /\ rows = {} /\ links = {}
  /\ workspace = [a \in Accounts |-> "live"]
  /\ lock = Nobody
  /\ up = [u \in Uploads |-> Idle]
  /\ staged = [u \in Uploads |-> "none"]
  /\ sweep = [s \in Sweeps |-> Asleep]
  /\ begun = 0 /\ acts = 0 /\ faults = 0

-----------------------------------------------------------------------------
(* An upload: UploadBlob and handlePutBlob.                                  *)

Goes(u, pc) == up' = [up EXCEPT ![u].pc = pc]

(* The handler returns; its staged file goes with it.                        *)
Returns(u) ==
  /\ up' = [up EXCEPT ![u] = Idle]
  /\ staged' = [staged EXCEPT ![u] = "none"]

(* The workspace must exist.  The stream stages its bytes in a file, the     *)
(* plain request keeps them in memory.                                       *)
Begin(u, a, h) ==
  /\ up[u].pc = "idle" /\ staged[u] = "none" /\ begun < MaxUploads
  /\ workspace[a] # "gone"
  /\ \E partial \in BOOLEAN :
       /\ up' = [up EXCEPT ![u] = [pc |-> "receiving", account |-> a, hash |-> h,
                                   partial |-> partial, created |-> FALSE]]
       /\ staged' = [staged EXCEPT ![u] = IF partial THEN "fresh" ELSE "none"]
  /\ begun' = begun + 1
  /\ UNCHANGED <<disk, tables, lock, sweep, acts, faults>>

(* The stream breaks, its bytes have another hash, or the caller is gone.    *)
GivesUp(u) ==
  /\ up[u].pc \in {"receiving", "checked"}
  /\ Returns(u)
  /\ UNCHANGED <<disk, tables, lock, sweep, counts>>

(* withinStorageQuota, with all the bytes there; a content the account       *)
(* already has costs nothing.                                                *)
WithinQuota(a, h) == <<a, h>> \in links \/ Bytes(a) + 1 <= Quota

Received(u) ==
  /\ up[u].pc = "receiving" /\ lock \notin Uploads
  /\ IF WithinQuota(up[u].account, up[u].hash) /\ (up[u].partial => staged[u] # "none")
       THEN Goes(u, "checked") /\ UNCHANGED staged
       ELSE Returns(u)
  /\ UNCHANGED <<disk, tables, lock, sweep, counts>>

(* putBlobContext: the lock, and the workspace again.                        *)
Locks(u) ==
  /\ up[u].pc = "checked" /\ lock = Nobody
  /\ IF workspace[up[u].account] = "live"
       THEN Goes(u, "locked") /\ lock' = u /\ UNCHANGED staged
       ELSE Returns(u) /\ UNCHANGED lock
  /\ UNCHANGED <<disk, tables, sweep, counts>>

(* Fault: the transaction is left open when the file is not the content.     *)
Stores_KeepsLock(u) ==
  LET h == up[u].hash IN
  /\ up[u].pc = "locked"
  /\ IF file[h] = "torn"
       THEN Returns(u) /\ UNCHANGED file
       ELSE /\ file' = [file EXCEPT ![h] = IF @ = "none" THEN "torn" ELSE @]
            /\ up' = [up EXCEPT ![u].pc = IF file[h] = "none" THEN "writing" ELSE "written",
                                ![u].created = file[h] = "none"]
            /\ UNCHANGED staged
  /\ UNCHANGED <<aged, tables, lock, sweep, counts>>

(* A file that is not there is being written; one that is there must have    *)
(* the content.                                                              *)
Stores(u) ==
  LET h == up[u].hash IN
  /\ up[u].pc = "locked"
  /\ \/ /\ file[h] = "none"
        /\ file' = [file EXCEPT ![h] = "torn"]
        /\ up' = [up EXCEPT ![u].pc = "writing", ![u].created = TRUE]
        /\ UNCHANGED <<lock, staged>>
     \/ /\ file[h] = "whole"
        /\ Goes(u, "written")
        /\ UNCHANGED <<file, lock, staged>>
     \/ /\ file[h] = "torn"
        /\ Returns(u) /\ lock' = Nobody
        /\ UNCHANGED file
  /\ UNCHANGED <<aged, tables, sweep, counts>>

Written(u) ==
  /\ up[u].pc = "writing"
  /\ file' = [file EXCEPT ![up[u].hash] = "whole"]
  /\ Goes(u, "written")
  /\ UNCHANGED <<aged, tables, lock, staged, sweep, counts>>

(* Fault: the file is removed whoever wrote it.                              *)
Undone_Always(u) == [file EXCEPT ![up[u].hash] = "none"]

(* A file this handler wrote is removed again.                               *)
Undone(u) == IF up[u].created THEN [file EXCEPT ![up[u].hash] = "none"] ELSE file

(* The write or a statement fails, or the caller is gone: the file, then     *)
(* ROLLBACK.                                                                 *)
RollsBack(u) ==
  /\ up[u].pc \in {"locked", "writing", "written"}
  /\ file' = Undone(u)
  /\ aged' = {h \in aged : file'[h] # "none"}
  /\ Returns(u) /\ lock' = Nobody
  /\ UNCHANGED <<tables, sweep, counts>>

(* COMMIT of row and link; a COMMIT that fails leaves the file.              *)
Commits(u) ==
  LET h == up[u].hash IN
  /\ up[u].pc = "written"
  /\ \/ rows' = rows \cup {h} /\ links' = links \cup {<<up[u].account, h>>}
     \/ UNCHANGED <<rows, links>>
  /\ Returns(u) /\ lock' = Nobody
  /\ UNCHANGED <<disk, workspace, sweep, counts>>

-----------------------------------------------------------------------------
(* The sweeps.                                                               *)

(* SweepUnreferencedBlobs lists rows without a link.  It runs in the         *)
(* scheduled gc-blobs command, which then reads the directory.               *)
SweepBegins(s) ==
  /\ sweep[s].pc = "idle"
  /\ sweep' = [sweep EXCEPT ![s] = [Asleep EXCEPT !.pc = "rows", !.full = TRUE,
                                                  !.todo = {h \in rows : ~Linked(h)}]]
  /\ UNCHANGED <<disk, tables, lock, up, staged, counts>>

(* The recheck under the lock.                                               *)
Unreferenced(h) == h \in rows /\ ~Linked(h)

(* sweepUnreferencedBlob: the file, then the row.                            *)
SweepRemoves(s) ==
  /\ sweep[s].pc = "rows" /\ lock = Nobody
  /\ \E h \in sweep[s].todo :
       IF Unreferenced(h)
         THEN /\ file' = [file EXCEPT ![h] = "none"]
              /\ aged' = aged \ {h}
              /\ lock' = s
              /\ sweep' = [sweep EXCEPT ![s].pc = "removed", ![s].at = h]
         ELSE /\ sweep' = [sweep EXCEPT ![s].todo = @ \ {h}]
              /\ UNCHANGED <<disk, lock>>
  /\ UNCHANGED <<tables, up, staged, counts>>

(* The links of a row go with it.                                            *)
SweepCommits(s) ==
  LET h == sweep[s].at IN
  /\ sweep[s].pc = "removed"
  /\ rows' = rows \ {h}
  /\ links' = {l \in links : l[2] # h}
  /\ lock' = Nobody
  /\ sweep' = [sweep EXCEPT ![s].pc = "rows", ![s].at = Nobody, ![s].todo = @ \ {h}]
  /\ UNCHANGED <<disk, workspace, up, staged, counts>>

(* Fault: a file that does not have its content is passed over.              *)
Candidates_WholeOnly == {h \in aged : file[h] = "whole"}

(* orphanBlobCandidates: files old enough.                                   *)
Candidates == {h \in aged : file[h] # "none"}

SweepReads(s) ==
  /\ sweep[s].pc = "rows" /\ sweep[s].todo = {} /\ sweep[s].full
  /\ sweep' = [sweep EXCEPT ![s].pc = "files", ![s].todo = Candidates]
  /\ UNCHANGED <<disk, tables, lock, up, staged, counts>>

(* sweepOrphanBlobFile: no row, no link, and still old, under the lock.      *)
Orphaned(h) == h \notin rows /\ ~Linked(h) /\ file[h] # "none" /\ h \in aged

SweepOrphans(s) ==
  /\ sweep[s].pc = "files" /\ lock = Nobody
  /\ \E h \in sweep[s].todo :
       /\ IF Orphaned(h) THEN file' = [file EXCEPT ![h] = "none"] /\ aged' = aged \ {h}
                         ELSE UNCHANGED disk
       /\ sweep' = [sweep EXCEPT ![s].todo = @ \ {h}]
  /\ UNCHANGED <<tables, lock, up, staged, counts>>

SweepEnds(s) ==
  /\ sweep[s].pc \in {"rows", "files"} /\ sweep[s].todo = {}
  /\ sweep[s].full => sweep[s].pc = "files"
  /\ sweep' = [sweep EXCEPT ![s] = Asleep]
  /\ UNCHANGED <<disk, tables, lock, up, staged, counts>>

(* A file or the database fails, or the command is killed.                   *)
SweepFails(s) ==
  /\ sweep[s].pc # "idle" /\ faults < MaxFaults
  /\ faults' = faults + 1
  /\ lock' = IF lock = s THEN Nobody ELSE lock
  /\ sweep' = [sweep EXCEPT ![s] = Asleep]
  /\ UNCHANGED <<disk, tables, up, staged, begun, acts>>

(* Fault: a staged file is reaped by its age alone.                          *)
Reapable_ByAge(u) == staged[u] = "old"

(* RunBlobCleanup: old, and of no handler of this process.                   *)
Reapable(u) == staged[u] = "old" /\ up[u].pc = "idle"

Reaps(u) ==
  /\ Reapable(u)
  /\ staged' = [staged EXCEPT ![u] = "none"]
  /\ UNCHANGED <<disk, tables, lock, up, sweep, counts>>

-----------------------------------------------------------------------------
(* What else touches the tables, each in one transaction.                    *)

Acts == lock = Nobody /\ acts < MaxActs /\ acts' = acts + 1

DeleteWorkspace(a) ==
  /\ workspace[a] = "live" /\ Acts
  /\ workspace' = [workspace EXCEPT ![a] = "deleted"]
  /\ UNCHANGED <<disk, rows, links, lock, up, staged, sweep, begun, faults>>

(* A push restores it.                                                       *)
RestoreWorkspace(a) ==
  /\ workspace[a] = "deleted" /\ Acts
  /\ workspace' = [workspace EXCEPT ![a] = "live"]
  /\ UNCHANGED <<disk, rows, links, lock, up, staged, sweep, begun, faults>>

(* DeleteAccount; a sweep of the rows follows.                               *)
DeleteAccount(a) ==
  /\ workspace[a] # "gone" /\ Acts
  /\ workspace' = [workspace EXCEPT ![a] = "gone"]
  /\ links' = {l \in links : l[1] # a}
  /\ \E s \in Sweeps :
       /\ sweep[s].pc = "idle"
       /\ sweep' = [sweep EXCEPT ![s] = [Asleep EXCEPT !.pc = "rows",
                      !.todo = {h \in rows : \A b \in Accounts \ {a} : <<b, h>> \notin links}]]
  /\ UNCHANGED <<disk, rows, lock, up, staged, begun, faults>>

(* A workspace replaced by another's data, or merged with it, gets its links. *)
CarryLinks(a, b) ==
  /\ a # b /\ workspace[a] = "live" /\ workspace[b] = "live" /\ Acts
  /\ links' = links \cup {<<b, h>> : h \in {k \in Hashes : <<a, k>> \in links}}
  /\ UNCHANGED <<disk, rows, workspace, lock, up, staged, sweep, begun, faults>>

(* The server dies, and its handlers with it; its uncommitted work is rolled *)
(* back, its files stay.  gc-blobs is a process of its own and goes on: what *)
(* ends a sweep is SweepFails.                                               *)
Crash ==
  /\ faults < MaxFaults /\ \E u \in Uploads : up[u].pc # "idle"
  /\ faults' = faults + 1
  /\ up' = [u \in Uploads |-> Idle]
  /\ lock' = IF lock \in Uploads THEN Nobody ELSE lock
  /\ UNCHANGED <<disk, tables, staged, sweep, begun, acts>>

FileAges(h) ==
  /\ file[h] # "none" /\ h \notin aged /\ lock = Nobody
  /\ aged' = aged \cup {h}
  /\ UNCHANGED <<file, tables, lock, up, staged, sweep, counts>>

StagedAges(u) ==
  /\ staged[u] = "fresh"
  /\ staged' = [staged EXCEPT ![u] = "old"]
  /\ UNCHANGED <<disk, tables, lock, up, sweep, counts>>

Next ==
  \/ \E u \in Uploads :
       \/ \E a \in Accounts, h \in Hashes : Begin(u, a, h)
       \/ GivesUp(u) \/ Received(u) \/ Locks(u) \/ Stores(u) \/ Written(u)
       \/ RollsBack(u) \/ Commits(u) \/ Reaps(u) \/ StagedAges(u)
  \/ \E s \in Sweeps :
       \/ SweepBegins(s) \/ SweepRemoves(s) \/ SweepCommits(s) \/ SweepReads(s)
       \/ SweepOrphans(s) \/ SweepEnds(s) \/ SweepFails(s)
  \/ \E a \in Accounts :
       \/ DeleteWorkspace(a) \/ RestoreWorkspace(a) \/ DeleteAccount(a)
       \/ \E b \in Accounts : CarryLinks(a, b)
  \/ \E h \in Hashes : FileAges(h)
  \/ Crash

Spec == Init /\ [][Next]_vars

(* gc-blobs is scheduled again and again and runs to its end; a transaction  *)
(* that has begun ends; files grow older.                                    *)
Fairness ==
  /\ \A u \in Uploads :
       WF_vars(Stores(u)) /\ WF_vars(Written(u)) /\ WF_vars(Commits(u))
  /\ \A s \in Sweeps :
       /\ WF_vars(SweepBegins(s)) /\ WF_vars(SweepRemoves(s)) /\ WF_vars(SweepCommits(s))
       /\ WF_vars(SweepReads(s)) /\ WF_vars(SweepOrphans(s)) /\ WF_vars(SweepEnds(s))
  /\ \A h \in Hashes : WF_vars(FileAges(h))

FairSpec == Spec /\ Fairness

-----------------------------------------------------------------------------
(* Type invariant of the disk, the tables, the handlers and the sweeps; the  *)
(* lock is held by the handler or sweep that is inside a transaction.        *)
TypeOK ==
  /\ file \in [Hashes -> {"none", "torn", "whole"}]
  /\ aged \subseteq {h \in Hashes : file[h] # "none"}
  /\ rows \subseteq Hashes
  /\ links \subseteq Accounts \X Hashes
  /\ workspace \in [Accounts -> {"live", "deleted", "gone"}]
  /\ up \in [Uploads -> Upload]
  /\ staged \in [Uploads -> {"none", "fresh", "old"}]
  /\ sweep \in [Sweeps -> Sweep]
  /\ lock \in Uploads \cup Sweeps \cup {Nobody}
  /\ \A u \in Uploads : lock = u <=> up[u].pc \in {"locked", "writing", "written"}
  /\ \A s \in Sweeps : lock = s <=> sweep[s].pc = "removed"
  /\ begun \in 0..MaxUploads /\ acts \in 0..MaxActs /\ faults \in 0..MaxFaults

(* Every link names a file that has its row and its whole content, however   *)
(* uploads of one content, sweeps, deletions and crashes interleave          *)
(* (PutLinkedBlobContext: "an upload cannot be collected between its         *)
(* metadata write and its workspace link").                                  *)
LinkedIsStored ==
  \A l \in links : l[2] \in rows /\ file[l[2]] = "whole"

(* A handler's staged bytes are not reaped under it, however slow its stream *)
(* is (RunBlobCleanup, activeBlobPartials).                                  *)
StagedKept ==
  \A u \in Uploads :
    up[u].pc \in {"receiving", "checked"} /\ up[u].partial => staged[u] # "none"

(* A file that no workspace links is collected or linked again, also one     *)
(* whose upload died while writing it, which no upload accepts as it is      *)
(* (SweepOrphanBlobFiles: "files that an earlier GC lost track of").         *)
UnlinkedIsCollected ==
  \A h \in Hashes :
    file[h] # "none" /\ ~Linked(h) ~> file[h] = "none" \/ Linked(h)

-----------------------------------------------------------------------------
(* Claims of the source that the code does not keep; each has a              *)
(* configuration that refutes it.                                            *)

(* No account stores more than its quota (UploadBlob: "the hard quota cap"). *)
QuotaKept == \A a \in Accounts : Bytes(a) <= Quota
=============================================================================
