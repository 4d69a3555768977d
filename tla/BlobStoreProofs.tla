---------------------------- MODULE BlobStoreProofs ----------------------------
(***************************************************************************)
(* Theorems about artifact files, for any number of accounts, contents,    *)
(* uploads, sweeps, crashes and failures.                                  *)
(*                                                                         *)
(* The lock protocol is part of the type invariant: who is inside a        *)
(* transaction holds the lock.  With it, what a transaction has learned of *)
(* the file of its content (Storing) stays true until it ends, because     *)
(* whoever removes a file or adds a link must hold the lock as well.       *)
(***************************************************************************)
EXTENDS BlobStore, TLAPS

Inside == {"locked", "writing", "written"}

(* What a handler knows in the middle of its work: of whom and what it is;   *)
(* that the file it is about to link has its content; that nobody links the  *)
(* file it has written itself and would remove again.                        *)
Storing ==
  \A u \in Uploads :
    /\ up[u].pc # "idle" => up[u].account \in Accounts /\ up[u].hash \in Hashes
    /\ up[u].pc = "written" => file[up[u].hash] = "whole"
    /\ up[u].created => up[u].pc \in {"writing", "written"} /\ ~Linked(up[u].hash)

(* A sweep between file and row knows which.                                 *)
Removing == \A s \in Sweeps : sweep[s].pc = "removed" => sweep[s].at \in Hashes

Inv == TypeOK /\ Storing /\ Removing /\ LinkedIsStored /\ StagedKept

-----------------------------------------------------------------------------
(* How a handler and a sweep move.                                           *)

LEMMA RestTypes == Idle \in Upload /\ Asleep \in Sweep
  BY DEF Idle, Upload, Asleep, Sweep

LEMMA GoesTypes ==
  ASSUME up \in [Uploads -> Upload], NEW u \in Uploads,
         NEW pc \in {"checked", "locked", "written"}, Goes(u, pc)
  PROVE  /\ up' \in [Uploads -> Upload]
         /\ up'[u].pc = pc /\ up'[u].account = up[u].account /\ up'[u].hash = up[u].hash
         /\ up'[u].partial = up[u].partial /\ up'[u].created = up[u].created
         /\ \A v \in Uploads \ {u} : up'[v] = up[v]
  <1> DEFINE moved == [up[u] EXCEPT !.pc = pc]
  <1>1. /\ moved \in Upload /\ moved.pc = pc /\ moved.account = up[u].account
        /\ moved.hash = up[u].hash /\ moved.partial = up[u].partial
        /\ moved.created = up[u].created
    BY DEF Upload
  <1>2. up' = [up EXCEPT ![u] = moved]
    BY DEF Goes
  <1> HIDE DEF moved
  <1> QED BY <1>1, <1>2

LEMMA ReturnsTypes ==
  ASSUME up \in [Uploads -> Upload], staged \in [Uploads -> {"none", "fresh", "old"}],
         NEW u \in Uploads, Returns(u)
  PROVE  /\ up' \in [Uploads -> Upload] /\ up'[u].pc = "idle" /\ ~up'[u].created
         /\ \A v \in Uploads \ {u} : up'[v] = up[v] /\ staged'[v] = staged[v]
         /\ staged' \in [Uploads -> {"none", "fresh", "old"}]
  BY RestTypes DEF Returns, Idle

(* The handlers other than u and all sweeps are where they were.             *)
LEMMA Fields ==
  ASSUME TypeOK
  PROVE  /\ \A u \in Uploads : up[u] \in Upload /\ up[u].created \in BOOLEAN
         /\ \A s \in Sweeps : sweep[s] \in Sweep /\ sweep[s].todo \subseteq Hashes
         /\ \A u \in Uploads : u # Nobody /\ u \notin Sweeps
         /\ \A s \in Sweeps : s # Nobody /\ s \notin Uploads
  BY BlobAssumption DEF TypeOK, Upload, Sweep

(* A link is of a content that is linked.                                    *)
LEMMA LinkNames ==
  ASSUME TypeOK
  PROVE  \A l \in links : l[2] \in Hashes /\ Linked(l[2])
  <1> SUFFICES ASSUME NEW l \in links PROVE l[2] \in Hashes /\ Linked(l[2])
    OBVIOUS
  <1>1. PICK a \in Accounts, h \in Hashes : l = <<a, h>>
    BY DEF TypeOK
  <1>2. l[2] = h
    BY <1>1
  <1>3. <<a, l[2]>> \in links
    BY <1>1, <1>2
  <1> QED BY <1>2, <1>3 DEF Linked

-----------------------------------------------------------------------------
(* The uploads.                                                              *)

LEMMA InitInv == Init => Inv
  <1> SUFFICES ASSUME Init PROVE Inv
    OBVIOUS
  <1>1. TypeOK
    BY RestTypes, BlobAssumption DEF Init, TypeOK, Idle, Asleep
  <1> QED BY <1>1 DEF Init, Inv, Storing, Removing, LinkedIsStored, StagedKept, Idle, Asleep

(* A step that leaves disk, tables and lock alone, and moves one handler     *)
(* outside a transaction.                                                    *)
LEMMA OutsideStep ==
  ASSUME Inv, UNCHANGED <<disk, tables, lock, sweep>>, NEW u \in Uploads,
         up' \in [Uploads -> Upload], staged' \in [Uploads -> {"none", "fresh", "old"}],
         begun' \in 0..MaxUploads, UNCHANGED <<acts, faults>>,
         up[u].pc \notin Inside, up'[u].pc \notin Inside, ~up'[u].created,
         up'[u].pc # "idle" => up'[u].account \in Accounts /\ up'[u].hash \in Hashes,
         up'[u].pc # "idle" /\ up'[u].partial => staged'[u] # "none",
         \A v \in Uploads \ {u} : up'[v] = up[v] /\ staged'[v] = staged[v]
  PROVE  Inv'
  <1>1. TypeOK'
    BY DEF Inv, TypeOK, disk, tables, Inside
  <1>2. Storing'
    BY DEF Inv, Storing, Linked, disk, tables, Inside
  <1>3. Removing' /\ LinkedIsStored' /\ StagedKept'
    BY DEF Inv, Removing, LinkedIsStored, StagedKept, disk, tables, Inside
  <1> QED BY <1>1, <1>2, <1>3 DEF Inv

LEMMA BeginStep ==
  ASSUME Inv, NEW u \in Uploads, NEW a \in Accounts, NEW h \in Hashes, Begin(u, a, h)
  PROVE  Inv'
  <1>1. PICK partial \in BOOLEAN :
          /\ up' = [up EXCEPT ![u] = [pc |-> "receiving", account |-> a, hash |-> h,
                                      partial |-> partial, created |-> FALSE]]
          /\ staged' = [staged EXCEPT ![u] = IF partial THEN "fresh" ELSE "none"]
    BY DEF Begin
  <1> DEFINE new == [pc |-> "receiving", account |-> a, hash |-> h,
                     partial |-> partial, created |-> FALSE]
  <1>2. new \in Upload
    BY DEF Upload
  <1>3. begun' \in 0..MaxUploads
    BY BlobAssumption DEF Begin, Inv, TypeOK
  <1>4. /\ up' \in [Uploads -> Upload] /\ up'[u] = new
        /\ staged' \in [Uploads -> {"none", "fresh", "old"}] /\ (partial => staged'[u] # "none")
        /\ \A v \in Uploads \ {u} : up'[v] = up[v] /\ staged'[v] = staged[v]
    BY <1>1, <1>2 DEF Inv, TypeOK
  <1>5. /\ new.pc = "receiving" /\ new.account \in Accounts /\ new.hash \in Hashes
        /\ ~new.created /\ new.partial = partial
    OBVIOUS
  <1> HIDE DEF new
  <1>6. up[u].pc \notin Inside /\ UNCHANGED <<disk, tables, lock, sweep, acts, faults>>
    BY DEF Begin, Inside
  <1> QED BY <1>3, <1>4, <1>5, <1>6, OutsideStep DEF Inside

LEMMA GivesUpStep == ASSUME Inv, NEW u \in Uploads, GivesUp(u) PROVE Inv'
  <1>1. Returns(u) /\ up[u].pc \notin Inside
    BY DEF GivesUp, Inside
  <1> QED BY <1>1, ReturnsTypes, OutsideStep DEF GivesUp, Inv, TypeOK, Inside, counts

LEMMA ReceivedStep == ASSUME Inv, NEW u \in Uploads, Received(u) PROVE Inv'
  <1>1. CASE Returns(u)
    BY <1>1, ReturnsTypes, OutsideStep DEF Received, Inv, TypeOK, Inside, counts
  <1>2. CASE Goes(u, "checked") /\ UNCHANGED staged
    <2>1. /\ up' \in [Uploads -> Upload]
          /\ up'[u].pc = "checked" /\ up'[u].account = up[u].account /\ up'[u].hash = up[u].hash
          /\ up'[u].partial = up[u].partial /\ up'[u].created = up[u].created
          /\ \A v \in Uploads \ {u} : up'[v] = up[v]
      BY <1>2, GoesTypes DEF Inv, TypeOK
    <2>2. /\ ~up[u].created /\ up[u].account \in Accounts /\ up[u].hash \in Hashes
          /\ up[u].partial => staged[u] # "none"
      BY DEF Received, Inv, Storing, StagedKept
    <2> QED BY <1>2, <2>1, <2>2, OutsideStep DEF Received, Inv, TypeOK, Inside, counts
  <1> QED BY <1>1, <1>2 DEF Received

LEMMA LocksStep == ASSUME Inv, NEW u \in Uploads, Locks(u) PROVE Inv'
  <1>1. CASE Returns(u) /\ UNCHANGED lock
    BY <1>1, ReturnsTypes, OutsideStep DEF Locks, Inv, TypeOK, Inside, counts
  <1>2. CASE Goes(u, "locked") /\ lock' = u /\ UNCHANGED staged
    <2>1. /\ up' \in [Uploads -> Upload]
          /\ up'[u].pc = "locked" /\ up'[u].account = up[u].account /\ up'[u].hash = up[u].hash
          /\ up'[u].created = up[u].created
          /\ \A v \in Uploads \ {u} : up'[v] = up[v]
      BY <1>2, GoesTypes DEF Inv, TypeOK
    <2>2. ~up[u].created /\ lock = Nobody
      BY DEF Locks, Inv, Storing
    <2>3. TypeOK'
      BY <1>2, <2>1, <2>2, Fields DEF Locks, Inv, TypeOK, disk, tables, counts
    <2>4. Storing' /\ Removing' /\ LinkedIsStored' /\ StagedKept'
      BY <1>2, <2>1, <2>2 DEF Locks, Inv, Storing, Removing, LinkedIsStored, StagedKept,
                              Linked, disk, tables
    <2> QED BY <2>3, <2>4 DEF Inv
  <1> QED BY <1>1, <1>2 DEF Locks

(* Only the holder of the lock is inside a transaction.                      *)
LEMMA Holder ==
  ASSUME Inv, NEW u \in Uploads, up[u].pc \in Inside
  PROVE  /\ lock = u /\ u # Nobody /\ up[u] \in Upload
         /\ \A v \in Uploads \ {u} : up[v].pc \notin Inside
         /\ \A s \in Sweeps : sweep[s].pc # "removed"
         /\ up[u].account \in Accounts /\ up[u].hash \in Hashes
  BY Fields DEF Inv, TypeOK, Inside, Storing

LEMMA HolderNone ==
  ASSUME Inv, lock = Nobody
  PROVE  /\ \A u \in Uploads : up[u].pc \notin Inside
         /\ \A s \in Sweeps : sweep[s].pc # "removed"
  BY Fields DEF Inv, TypeOK, Inside

LEMMA StoresStep == ASSUME Inv, NEW u \in Uploads, Stores(u) PROVE Inv'
  <1> DEFINE h == up[u].hash
  <1>0. /\ up[u].pc = "locked" /\ lock = u /\ h \in Hashes /\ u # Nobody
        /\ up[u].account \in Accounts /\ up[u] \in Upload /\ up \in [Uploads -> Upload]
        /\ ~up[u].created
        /\ \A v \in Uploads \ {u} : up[v].pc \notin Inside
        /\ \A s \in Sweeps : sweep[s].pc # "removed" /\ s # u
    BY Holder, Fields DEF Stores, Inside, Inv, Storing, TypeOK
  <1>1. CASE /\ file[h] = "none"
             /\ file' = [file EXCEPT ![h] = "torn"]
             /\ up' = [up EXCEPT ![u].pc = "writing", ![u].created = TRUE]
             /\ UNCHANGED <<lock, staged>>
    <2> DEFINE moved == [up[u] EXCEPT !.pc = "writing", !.created = TRUE]
    <2>1. /\ moved \in Upload /\ moved.pc = "writing" /\ moved.hash = h
          /\ moved.account = up[u].account
      BY <1>0 DEF Upload
    <2>2. up' = [up EXCEPT ![u] = moved]
      BY <1>0, <1>1
    <2> HIDE DEF moved
    <2>3. /\ up' \in [Uploads -> Upload] /\ up'[u] = moved
          /\ \A v \in Uploads \ {u} : up'[v] = up[v]
      BY <1>0, <2>1, <2>2
    <2>4. file' \in [Hashes -> {"none", "torn", "whole"}] /\ file'[h] # "none"
          /\ \A k \in Hashes : k # h => file'[k] = file[k]
      BY <1>0, <1>1 DEF Inv, TypeOK
    <2>5. TypeOK'
      <3>1. aged' \subseteq {k \in Hashes : file'[k] # "none"}
        BY <2>4 DEF Stores, Inv, TypeOK
      <3>2. /\ \A v \in Uploads : lock' = v <=> up'[v].pc \in {"locked", "writing", "written"}
            /\ \A s \in Sweeps : lock' = s <=> sweep'[s].pc = "removed"
        BY <1>0, <1>1, <2>1, <2>3 DEF Stores, Inv, TypeOK, Inside
      <3> QED BY <1>1, <2>3, <2>4, <3>1, <3>2 DEF Stores, Inv, TypeOK, tables, counts
    <2>6. ~Linked(h)
      BY <1>1 DEF Inv, LinkedIsStored, Linked
    <2>7. Storing'
      BY <1>0, <1>1, <2>1, <2>3, <2>4, <2>6 DEF Stores, Inv, Storing, Linked, tables, Inside
    <2>8. LinkedIsStored'
      BY <2>4, <2>6 DEF Stores, Inv, TypeOK, LinkedIsStored, Linked, tables
    <2>9. Removing' /\ StagedKept'
      BY <1>0, <1>1, <2>1, <2>3 DEF Stores, Inv, Removing, StagedKept
    <2> QED BY <2>5, <2>7, <2>8, <2>9 DEF Inv
  <1>2. CASE file[h] = "whole" /\ Goes(u, "written") /\ UNCHANGED <<file, lock, staged>>
    <2>1. /\ up' \in [Uploads -> Upload]
          /\ up'[u].pc = "written" /\ up'[u].account = up[u].account /\ up'[u].hash = h
          /\ up'[u].created = up[u].created
          /\ \A v \in Uploads \ {u} : up'[v] = up[v]
      BY <1>0, <1>2, GoesTypes
    <2>2. TypeOK'
      BY <1>0, <1>2, <2>1 DEF Stores, Inv, TypeOK, tables, counts, Inside
    <2>3. Storing'
      BY <1>0, <1>2, <2>1 DEF Stores, Inv, Storing, Linked, tables
    <2>4. Removing' /\ LinkedIsStored' /\ StagedKept'
      BY <1>0, <1>2, <2>1 DEF Stores, Inv, Removing, LinkedIsStored, StagedKept, tables
    <2> QED BY <2>2, <2>3, <2>4 DEF Inv
  <1>3. CASE file[h] = "torn" /\ Returns(u) /\ lock' = Nobody /\ UNCHANGED file
    <2>1. /\ up' \in [Uploads -> Upload] /\ up'[u].pc = "idle" /\ ~up'[u].created
          /\ \A v \in Uploads \ {u} : up'[v] = up[v] /\ staged'[v] = staged[v]
          /\ staged' \in [Uploads -> {"none", "fresh", "old"}]
      BY <1>0, <1>3, ReturnsTypes DEF Inv, TypeOK
    <2>2. TypeOK'
      BY <1>0, <1>3, <2>1, Fields DEF Stores, Inv, TypeOK, tables, counts, Inside
    <2>3. Storing' /\ Removing' /\ LinkedIsStored' /\ StagedKept'
      BY <1>0, <1>3, <2>1 DEF Stores, Inv, Storing, Removing, LinkedIsStored, StagedKept,
                              Linked, tables
    <2> QED BY <2>2, <2>3 DEF Inv
  <1> QED BY <1>1, <1>2, <1>3 DEF Stores

LEMMA WrittenStep == ASSUME Inv, NEW u \in Uploads, Written(u) PROVE Inv'
  <1> DEFINE h == up[u].hash
  <1>0. /\ up[u].pc = "writing" /\ lock = u /\ h \in Hashes /\ u # Nobody
        /\ up[u].account \in Accounts /\ up \in [Uploads -> Upload]
        /\ \A v \in Uploads \ {u} : up[v].pc \notin Inside
        /\ \A s \in Sweeps : sweep[s].pc # "removed" /\ s # u
    BY Holder, Fields DEF Written, Inside, Inv, TypeOK
  <1>1. /\ up' \in [Uploads -> Upload]
        /\ up'[u].pc = "written" /\ up'[u].account = up[u].account /\ up'[u].hash = h
        /\ up'[u].created = up[u].created
        /\ \A v \in Uploads \ {u} : up'[v] = up[v]
    BY <1>0, GoesTypes DEF Written
  <1>2. /\ file' \in [Hashes -> {"none", "torn", "whole"}] /\ file'[h] = "whole"
        /\ \A k \in Hashes : k # h => file'[k] = file[k]
    BY <1>0 DEF Written, Inv, TypeOK
  <1>3. TypeOK'
    <2>1. aged' \subseteq {k \in Hashes : file'[k] # "none"}
      BY <1>2 DEF Written, Inv, TypeOK
    <2>2. /\ \A v \in Uploads : lock' = v <=> up'[v].pc \in {"locked", "writing", "written"}
          /\ \A s \in Sweeps : lock' = s <=> sweep'[s].pc = "removed"
      BY <1>0, <1>1 DEF Written, Inv, TypeOK, Inside
    <2> QED BY <1>1, <1>2, <2>1, <2>2 DEF Written, Inv, TypeOK, tables, counts
  <1>4. Storing'
    BY <1>0, <1>1, <1>2 DEF Written, Inv, Storing, Linked, tables, Inside
  <1>5. LinkedIsStored' /\ Removing' /\ StagedKept'
    BY <1>0, <1>1, <1>2 DEF Written, Inv, TypeOK, LinkedIsStored, Removing, StagedKept, tables
  <1> QED BY <1>3, <1>4, <1>5 DEF Inv

(* A handler that ends its transaction: nobody is inside one afterwards.     *)
LEMMA EndsStep ==
  ASSUME Inv, NEW u \in Uploads, up[u].pc \in Inside, Returns(u), lock' = Nobody,
         UNCHANGED <<workspace, sweep, counts>>,
         file' \in [Hashes -> {"none", "torn", "whole"}],
         aged' \subseteq {h \in Hashes : file'[h] # "none"},
         rows' \subseteq Hashes, links' \subseteq Accounts \X Hashes, LinkedIsStored'
  PROVE  Inv'
  <1>0. /\ lock = u /\ \A v \in Uploads \ {u} : up[v].pc \notin Inside
        /\ \A s \in Sweeps : sweep[s].pc # "removed"
        /\ up \in [Uploads -> Upload]
    BY Holder DEF Inv, TypeOK
  <1>1. /\ up' \in [Uploads -> Upload] /\ up'[u].pc = "idle" /\ ~up'[u].created
        /\ \A v \in Uploads \ {u} : up'[v] = up[v] /\ staged'[v] = staged[v]
        /\ staged' \in [Uploads -> {"none", "fresh", "old"}]
    BY ReturnsTypes DEF Inv, TypeOK
  <1>2. TypeOK'
    BY <1>0, <1>1, Fields DEF Inv, TypeOK, counts, Inside
  <1>3. Storing'
    BY <1>0, <1>1 DEF Inv, Storing, Inside
  <1>4. Removing' /\ StagedKept'
    BY <1>0, <1>1 DEF Inv, Removing, StagedKept
  <1> QED BY <1>2, <1>3, <1>4 DEF Inv

LEMMA RollsBackStep == ASSUME Inv, NEW u \in Uploads, RollsBack(u) PROVE Inv'
  <1> DEFINE h == up[u].hash
  <1>0. up[u].pc \in Inside /\ h \in Hashes /\ file' = Undone(u)
    BY Holder DEF RollsBack, Inside
  <1>1. /\ file' \in [Hashes -> {"none", "torn", "whole"}]
        /\ \A k \in Hashes : file'[k] = file[k] \/ ~Linked(k)
    BY <1>0 DEF Undone, Inv, TypeOK, Storing
  <1>2. aged' \subseteq {k \in Hashes : file'[k] # "none"}
    BY DEF RollsBack, Inv, TypeOK
  <1>3. LinkedIsStored'
    BY <1>1, LinkNames DEF RollsBack, Inv, LinkedIsStored, tables
  <1>4. rows' \subseteq Hashes /\ links' \subseteq Accounts \X Hashes
    BY DEF RollsBack, Inv, TypeOK, tables
  <1>5. Returns(u) /\ lock' = Nobody /\ UNCHANGED <<workspace, sweep, counts>>
    BY DEF RollsBack, tables
  <1> QED BY <1>0, <1>1, <1>2, <1>3, <1>4, <1>5, EndsStep

LEMMA CommitsStep == ASSUME Inv, NEW u \in Uploads, Commits(u) PROVE Inv'
  <1> DEFINE h == up[u].hash
  <1>0. /\ up[u].pc \in Inside /\ h \in Hashes /\ up[u].account \in Accounts
        /\ file[h] = "whole"
    BY Holder DEF Commits, Inside, Inv, Storing
  <1>1. rows' \subseteq Hashes /\ links' \subseteq Accounts \X Hashes
    BY <1>0 DEF Commits, Inv, TypeOK
  <1>2. LinkedIsStored'
    BY <1>0 DEF Commits, Inv, LinkedIsStored, disk
  <1> QED BY <1>0, <1>1, <1>2, EndsStep DEF Commits, Inv, TypeOK, disk

(* Ageing and reaping of staged files.                                       *)
LEMMA StagedStep ==
  ASSUME Inv, NEW u \in Uploads, Reaps(u) \/ StagedAges(u)
  PROVE  Inv'
  <1>1. /\ staged' \in [Uploads -> {"none", "fresh", "old"}]
        /\ \A v \in Uploads : v # u => staged'[v] = staged[v]
        /\ staged'[u] = "none" => up[u].pc = "idle"
    BY DEF Reaps, Reapable, StagedAges, Inv, TypeOK
  <1>2. UNCHANGED <<disk, tables, lock, up, sweep, counts>>
    BY DEF Reaps, StagedAges
  <1>3. TypeOK'
    BY <1>1, <1>2 DEF Inv, TypeOK, disk, tables, counts
  <1>4. StagedKept'
    BY <1>1, <1>2 DEF Inv, StagedKept
  <1>5. Storing' /\ Removing' /\ LinkedIsStored'
    BY <1>2 DEF Inv, Storing, Removing, LinkedIsStored, Linked, disk, tables
  <1> QED BY <1>3, <1>4, <1>5 DEF Inv

-----------------------------------------------------------------------------
(* The sweeps.                                                               *)

(* A sweep that is outside a transaction after its step and has changed      *)
(* neither file nor table; it lets go of the lock if it had it.              *)
LEMMA SweepStep ==
  ASSUME Inv, NEW s \in Sweeps, UNCHANGED <<disk, tables, up, staged, begun>>,
         acts' \in 0..MaxActs, faults' \in 0..MaxFaults,
         lock' = IF lock = s THEN Nobody ELSE lock,
         sweep' \in [Sweeps -> Sweep], sweep'[s].pc # "removed",
         \A t \in Sweeps \ {s} : sweep'[t] = sweep[t]
  PROVE  Inv'
  <1>1. /\ \A v \in Uploads : lock' = v <=> up'[v].pc \in {"locked", "writing", "written"}
        /\ \A t \in Sweeps : lock' = t <=> sweep'[t].pc = "removed"
        /\ lock' \in Uploads \cup Sweeps \cup {Nobody}
    BY Fields DEF Inv, TypeOK
  <1>2. TypeOK'
    BY <1>1 DEF Inv, TypeOK, disk, tables
  <1>3. Storing' /\ Removing' /\ LinkedIsStored' /\ StagedKept'
    BY DEF Inv, Storing, Removing, LinkedIsStored, StagedKept, Linked, disk, tables
  <1> QED BY <1>2, <1>3 DEF Inv

(* A sweep outside a transaction does not hold the lock.                     *)
LEMMA SweepOutside ==
  ASSUME Inv, NEW s \in Sweeps, sweep[s].pc # "removed"
  PROVE  /\ lock = (IF lock = s THEN Nobody ELSE lock)
         /\ sweep \in [Sweeps -> Sweep] /\ sweep[s] \in Sweep /\ sweep[s].todo \subseteq Hashes
         /\ acts \in 0..MaxActs /\ faults \in 0..MaxFaults
  BY Fields DEF Inv, TypeOK

LEMMA SweepBeginsStep == ASSUME Inv, NEW s \in Sweeps, SweepBegins(s) PROVE Inv'
  <1> DEFINE new == [Asleep EXCEPT !.pc = "rows", !.full = TRUE,
                                   !.todo = {h \in rows : ~Linked(h)}]
  <1>1. new \in Sweep /\ new.pc = "rows"
    BY DEF Sweep, Asleep, Inv, TypeOK
  <1>2. sweep' = [sweep EXCEPT ![s] = new]
    BY DEF SweepBegins
  <1> HIDE DEF new
  <1>3. sweep[s].pc # "removed"
    BY DEF SweepBegins
  <1> QED BY <1>1, <1>2, <1>3, SweepOutside, SweepStep DEF SweepBegins, counts

LEMMA SweepReadsStep == ASSUME Inv, NEW s \in Sweeps, SweepReads(s) PROVE Inv'
  <1> DEFINE moved == [sweep[s] EXCEPT !.pc = "files", !.todo = Candidates]
  <1>0. sweep[s].pc # "removed" /\ sweep[s] \in Sweep /\ Candidates \subseteq Hashes
    BY Fields DEF SweepReads, Candidates, Inv, TypeOK
  <1>1. moved \in Sweep /\ moved.pc = "files"
    BY <1>0 DEF Sweep
  <1>2. sweep' = [sweep EXCEPT ![s] = moved]
    BY <1>0, SweepOutside DEF SweepReads
  <1> HIDE DEF moved
  <1> QED BY <1>0, <1>1, <1>2, SweepOutside, SweepStep DEF SweepReads, counts

LEMMA SweepEndsStep == ASSUME Inv, NEW s \in Sweeps, SweepEnds(s) PROVE Inv'
  <1>1. sweep[s].pc # "removed"
    BY DEF SweepEnds
  <1>2. Asleep \in Sweep /\ Asleep.pc = "idle"
    BY RestTypes DEF Asleep
  <1> QED BY <1>1, <1>2, SweepOutside, SweepStep DEF SweepEnds, counts

LEMMA SweepFailsStep == ASSUME Inv, NEW s \in Sweeps, SweepFails(s) PROVE Inv'
  <1>1. Asleep \in Sweep /\ Asleep.pc = "idle"
    BY RestTypes DEF Asleep
  <1>2. faults' \in 0..MaxFaults /\ acts' \in 0..MaxActs
    BY BlobAssumption DEF SweepFails, Inv, TypeOK
  <1>3. sweep' \in [Sweeps -> Sweep] /\ sweep'[s] = Asleep
        /\ \A t \in Sweeps \ {s} : sweep'[t] = sweep[t]
    BY <1>1 DEF SweepFails, Inv, TypeOK
  <1> QED BY <1>1, <1>2, <1>3, SweepStep DEF SweepFails

(* Removing a file nobody links disturbs no link, and no handler is between  *)
(* its look at the file and its end.                                         *)
LEMMA Removal ==
  ASSUME Inv, lock = Nobody, NEW h \in Hashes, ~Linked(h),
         file' = [file EXCEPT ![h] = "none"], aged' = aged \ {h},
         UNCHANGED <<tables, up, staged, counts>>
  PROVE  /\ file' \in [Hashes -> {"none", "torn", "whole"}]
         /\ aged' \subseteq {k \in Hashes : file'[k] # "none"}
         /\ Storing' /\ LinkedIsStored' /\ StagedKept'
  <1>1. /\ file' \in [Hashes -> {"none", "torn", "whole"}]
        /\ \A k \in Hashes \ {h} : file'[k] = file[k]
    BY DEF Inv, TypeOK
  <1>2. aged' \subseteq {k \in Hashes : file'[k] # "none"}
    BY <1>1 DEF Inv, TypeOK
  <1>3. Storing'
    BY HolderNone DEF Inv, Storing, Linked, tables, Inside
  <1>4. LinkedIsStored' /\ StagedKept'
    BY <1>1, LinkNames DEF Inv, LinkedIsStored, StagedKept, tables
  <1> QED BY <1>1, <1>2, <1>3, <1>4

LEMMA SweepRemovesStep == ASSUME Inv, NEW s \in Sweeps, SweepRemoves(s) PROVE Inv'
  <1>0. /\ sweep[s].pc = "rows" /\ lock = Nobody /\ sweep \in [Sweeps -> Sweep]
        /\ sweep[s] \in Sweep /\ sweep[s].todo \subseteq Hashes
    BY Fields DEF SweepRemoves, Inv, TypeOK
  <1>1. PICK h \in sweep[s].todo :
          \/ /\ Unreferenced(h)
             /\ file' = [file EXCEPT ![h] = "none"] /\ aged' = aged \ {h}
             /\ lock' = s
             /\ sweep' = [sweep EXCEPT ![s].pc = "removed", ![s].at = h]
          \/ /\ sweep' = [sweep EXCEPT ![s].todo = @ \ {h}]
             /\ UNCHANGED <<disk, lock>>
    BY DEF SweepRemoves
  <1>2. h \in Hashes
    BY <1>0
  <1>3. CASE /\ Unreferenced(h)
             /\ file' = [file EXCEPT ![h] = "none"] /\ aged' = aged \ {h}
             /\ lock' = s
             /\ sweep' = [sweep EXCEPT ![s].pc = "removed", ![s].at = h]
    <2> DEFINE moved == [sweep[s] EXCEPT !.pc = "removed", !.at = h]
    <2>1. moved \in Sweep /\ moved.pc = "removed" /\ moved.at = h
      BY <1>0, <1>2 DEF Sweep
    <2>2. sweep' = [sweep EXCEPT ![s] = moved]
      BY <1>0, <1>3
    <2> HIDE DEF moved
    <2>3. sweep' \in [Sweeps -> Sweep] /\ sweep'[s] = moved
          /\ \A t \in Sweeps \ {s} : sweep'[t] = sweep[t]
      BY <1>0, <2>1, <2>2
    <2>4. /\ file' \in [Hashes -> {"none", "torn", "whole"}]
          /\ aged' \subseteq {k \in Hashes : file'[k] # "none"}
          /\ Storing' /\ LinkedIsStored' /\ StagedKept'
      BY <1>0, <1>2, <1>3, Removal DEF SweepRemoves, Unreferenced
    <2>5. /\ \A v \in Uploads : lock' = v <=> up'[v].pc \in {"locked", "writing", "written"}
          /\ \A t \in Sweeps : lock' = t <=> sweep'[t].pc = "removed"
      BY <1>0, <1>3, <2>1, <2>3, HolderNone, Fields DEF SweepRemoves, Inv, Inside
    <2>6. TypeOK'
      BY <1>3, <2>3, <2>4, <2>5 DEF SweepRemoves, Inv, TypeOK, tables, counts
    <2>7. Removing'
      BY <1>2, <2>1, <2>3 DEF Inv, Removing
    <2> QED BY <2>4, <2>6, <2>7 DEF Inv
  <1>4. CASE sweep' = [sweep EXCEPT ![s].todo = @ \ {h}] /\ UNCHANGED <<disk, lock>>
    <2> DEFINE moved == [sweep[s] EXCEPT !.todo = @ \ {h}]
    <2>1. moved \in Sweep /\ moved.pc = "rows"
      BY <1>0 DEF Sweep
    <2>2. sweep' = [sweep EXCEPT ![s] = moved]
      BY <1>0, <1>4
    <2> HIDE DEF moved
    <2>3. sweep' \in [Sweeps -> Sweep] /\ sweep'[s].pc = "rows"
          /\ \A t \in Sweeps \ {s} : sweep'[t] = sweep[t]
      BY <1>0, <2>1, <2>2
    <2>4. UNCHANGED <<disk, tables, lock, up, staged, begun, acts, faults>>
      BY <1>4 DEF SweepRemoves, counts
    <2> QED BY <1>0, <2>3, <2>4, SweepOutside, SweepStep
  <1> QED BY <1>1, <1>3, <1>4

LEMMA SweepCommitsStep == ASSUME Inv, NEW s \in Sweeps, SweepCommits(s) PROVE Inv'
  <1> DEFINE h == sweep[s].at
             moved == [sweep[s] EXCEPT !.pc = "rows", !.at = Nobody, !.todo = @ \ {h}]
  <1>0. /\ sweep[s].pc = "removed" /\ sweep \in [Sweeps -> Sweep] /\ sweep[s] \in Sweep
        /\ sweep[s].todo \subseteq Hashes /\ lock = s /\ s \notin Uploads /\ s # Nobody
    BY Fields DEF SweepCommits, Inv, TypeOK
  <1>1. moved \in Sweep /\ moved.pc = "rows"
    BY <1>0 DEF Sweep
  <1>2. sweep' = [sweep EXCEPT ![s] = moved]
    BY <1>0 DEF SweepCommits
  <1> HIDE DEF moved
  <1>3. sweep' \in [Sweeps -> Sweep] /\ sweep'[s].pc = "rows"
        /\ \A t \in Sweeps \ {s} : sweep'[t] = sweep[t]
    BY <1>0, <1>1, <1>2
  <1>4. /\ lock' = Nobody /\ rows' = rows \ {h} /\ links' = {l \in links : l[2] # h}
        /\ UNCHANGED <<disk, workspace, up, staged, counts>>
    BY DEF SweepCommits
  <1>5. /\ \A v \in Uploads : lock' = v <=> up'[v].pc \in {"locked", "writing", "written"}
        /\ \A t \in Sweeps : lock' = t <=> sweep'[t].pc = "removed"
    BY <1>0, <1>3, <1>4, Fields DEF Inv, TypeOK
  <1>6. TypeOK'
    BY <1>3, <1>4, <1>5 DEF Inv, TypeOK, disk, counts
  <1>7. \A v \in Uploads : up[v].pc \notin Inside
    BY <1>0 DEF Inv, TypeOK, Inside
  <1>8. Storing'
    BY <1>4, <1>7 DEF Inv, Storing, Inside
  <1>9. LinkedIsStored' /\ Removing' /\ StagedKept'
    BY <1>3, <1>4 DEF Inv, LinkedIsStored, Removing, StagedKept, disk
  <1> QED BY <1>6, <1>8, <1>9 DEF Inv

LEMMA SweepOrphansStep == ASSUME Inv, NEW s \in Sweeps, SweepOrphans(s) PROVE Inv'
  <1>0. /\ sweep[s].pc = "files" /\ lock = Nobody /\ sweep \in [Sweeps -> Sweep]
        /\ sweep[s] \in Sweep /\ sweep[s].todo \subseteq Hashes
    BY Fields DEF SweepOrphans, Inv, TypeOK
  <1>1. PICK h \in sweep[s].todo :
          /\ IF Orphaned(h) THEN file' = [file EXCEPT ![h] = "none"] /\ aged' = aged \ {h}
                            ELSE UNCHANGED disk
          /\ sweep' = [sweep EXCEPT ![s].todo = @ \ {h}]
    BY DEF SweepOrphans
  <1>2. h \in Hashes
    BY <1>0
  <1> DEFINE moved == [sweep[s] EXCEPT !.todo = @ \ {h}]
  <1>3. moved \in Sweep /\ moved.pc = "files"
    BY <1>0 DEF Sweep
  <1>4. sweep' = [sweep EXCEPT ![s] = moved]
    BY <1>0, <1>1
  <1> HIDE DEF moved
  <1>5. sweep' \in [Sweeps -> Sweep] /\ sweep'[s].pc = "files"
        /\ \A t \in Sweeps \ {s} : sweep'[t] = sweep[t]
    BY <1>0, <1>3, <1>4
  <1>6. UNCHANGED <<tables, lock, up, staged, counts>>
    BY DEF SweepOrphans
  <1>7. CASE UNCHANGED disk
    BY <1>0, <1>5, <1>6, <1>7, SweepOutside, SweepStep DEF counts
  <1>8. CASE Orphaned(h) /\ file' = [file EXCEPT ![h] = "none"] /\ aged' = aged \ {h}
    <2>1. /\ file' \in [Hashes -> {"none", "torn", "whole"}]
          /\ aged' \subseteq {k \in Hashes : file'[k] # "none"}
          /\ Storing' /\ LinkedIsStored' /\ StagedKept'
      BY <1>0, <1>2, <1>6, <1>8, Removal DEF Orphaned
    <2>2. \A t \in Sweeps : lock' = t <=> sweep'[t].pc = "removed"
      BY <1>0, <1>5, <1>6, Fields DEF Inv, TypeOK
    <2>3. TypeOK'
      BY <1>5, <1>6, <2>1, <2>2 DEF Inv, TypeOK, tables, counts
    <2>4. Removing'
      BY <1>5 DEF Inv, Removing
    <2> QED BY <2>1, <2>3, <2>4 DEF Inv
  <1> QED BY <1>1, <1>7, <1>8

-----------------------------------------------------------------------------
(* The workspaces, the clock and the crash.                                  *)

(* A step that takes the lock and lets it go, and changes tables, or the age *)
(* of a file, but no file.                                                   *)
LEMMA TablesStep ==
  ASSUME Inv, lock = Nobody, UNCHANGED <<file, rows, lock, up, staged, begun, faults>>,
         aged' \subseteq {h \in Hashes : file[h] # "none"}, acts' \in 0..MaxActs,
         workspace' \in [Accounts -> {"live", "deleted", "gone"}],
         links' \subseteq Accounts \X Hashes,
         \A l \in links' : \E k \in links : k[2] = l[2],
         sweep' \in [Sweeps -> Sweep],
         \A s \in Sweeps : sweep'[s].pc # "removed"
  PROVE  Inv'
  <1>1. TypeOK'
    BY HolderNone, Fields DEF Inv, TypeOK, Inside
  <1>2. Storing'
    BY HolderNone DEF Inv, Storing, Inside
  <1>3. LinkedIsStored' /\ Removing' /\ StagedKept'
    BY DEF Inv, LinkedIsStored, Removing, StagedKept
  <1> QED BY <1>1, <1>2, <1>3 DEF Inv

LEMMA WorkspaceStep ==
  ASSUME Inv, NEW a \in Accounts, DeleteWorkspace(a) \/ RestoreWorkspace(a)
  PROVE  Inv'
  <1>1. /\ lock = Nobody /\ acts' \in 0..MaxActs
        /\ workspace' \in [Accounts -> {"live", "deleted", "gone"}]
        /\ UNCHANGED <<disk, rows, links, lock, up, staged, sweep, begun, faults>>
    BY BlobAssumption DEF DeleteWorkspace, RestoreWorkspace, Acts, Inv, TypeOK
  <1>2. /\ aged \subseteq {h \in Hashes : file[h] # "none"} /\ links \subseteq Accounts \X Hashes
        /\ sweep \in [Sweeps -> Sweep] /\ \A s \in Sweeps : sweep[s].pc # "removed"
    BY <1>1, HolderNone DEF Inv, TypeOK
  <1> QED BY <1>1, <1>2, TablesStep DEF disk

LEMMA DeleteAccountStep == ASSUME Inv, NEW a \in Accounts, DeleteAccount(a) PROVE Inv'
  <1>1. /\ lock = Nobody /\ acts' \in 0..MaxActs
        /\ workspace' \in [Accounts -> {"live", "deleted", "gone"}]
        /\ links' = {l \in links : l[1] # a}
        /\ UNCHANGED <<disk, rows, lock, up, staged, begun, faults>>
    BY BlobAssumption DEF DeleteAccount, Acts, Inv, TypeOK
  <1> DEFINE new == [Asleep EXCEPT !.pc = "rows",
                       !.todo = {h \in rows : \A b \in Accounts \ {a} : <<b, h>> \notin links}]
  <1>2. PICK s \in Sweeps : sweep' = [sweep EXCEPT ![s] = new]
    BY DEF DeleteAccount
  <1>3. new \in Sweep /\ new.pc = "rows"
    BY DEF Sweep, Asleep, Inv, TypeOK
  <1> HIDE DEF new
  <1>4. sweep' \in [Sweeps -> Sweep] /\ \A t \in Sweeps : sweep'[t].pc # "removed"
    BY <1>1, <1>2, <1>3, HolderNone DEF Inv, TypeOK
  <1>5. /\ aged \subseteq {h \in Hashes : file[h] # "none"} /\ links \subseteq Accounts \X Hashes
    BY DEF Inv, TypeOK
  <1> QED BY <1>1, <1>4, <1>5, TablesStep DEF disk

LEMMA CarryLinksStep ==
  ASSUME Inv, NEW a \in Accounts, NEW b \in Accounts, CarryLinks(a, b)
  PROVE  Inv'
  <1>1. /\ lock = Nobody /\ acts' \in 0..MaxActs
        /\ links' = links \cup {<<b, h>> : h \in {k \in Hashes : <<a, k>> \in links}}
        /\ UNCHANGED <<disk, rows, workspace, lock, up, staged, sweep, begun, faults>>
    BY BlobAssumption DEF CarryLinks, Acts, Inv, TypeOK
  <1>2. /\ aged \subseteq {h \in Hashes : file[h] # "none"} /\ links \subseteq Accounts \X Hashes
        /\ sweep \in [Sweeps -> Sweep] /\ \A s \in Sweeps : sweep[s].pc # "removed"
        /\ workspace \in [Accounts -> {"live", "deleted", "gone"}]
    BY <1>1, HolderNone DEF Inv, TypeOK
  <1>3. ASSUME NEW l \in links'
        PROVE  l \in Accounts \X Hashes /\ \E k \in links : k[2] = l[2]
    <2>1. CASE l \in links
      BY <1>2, <2>1
    <2>2. CASE l \notin links
      <3>1. PICK h \in Hashes : <<a, h>> \in links /\ l = <<b, h>>
        BY <1>1, <2>2
      <3>2. <<a, h>>[2] = h /\ l[2] = h /\ l \in Accounts \X Hashes
        BY <3>1
      <3> QED BY <3>1, <3>2
    <2> QED BY <2>1, <2>2
  <1>4. links' \subseteq Accounts \X Hashes /\ \A l \in links' : \E k \in links : k[2] = l[2]
    BY <1>3
  <1> QED BY <1>1, <1>2, <1>4, TablesStep DEF disk

LEMMA FileAgesStep == ASSUME Inv, NEW h \in Hashes, FileAges(h) PROVE Inv'
  <1>1. /\ lock = Nobody /\ aged' \subseteq {k \in Hashes : file[k] # "none"}
        /\ UNCHANGED <<file, tables, lock, up, staged, sweep, counts>>
    BY DEF FileAges, Inv, TypeOK
  <1>2. /\ sweep \in [Sweeps -> Sweep] /\ \A s \in Sweeps : sweep[s].pc # "removed"
        /\ workspace \in [Accounts -> {"live", "deleted", "gone"}]
        /\ links \subseteq Accounts \X Hashes /\ acts \in 0..MaxActs
    BY <1>1, HolderNone DEF Inv, TypeOK
  <1> QED BY <1>1, <1>2, TablesStep DEF tables, counts

LEMMA CrashStep == ASSUME Inv, Crash PROVE Inv'
  <1>1. /\ up' = [u \in Uploads |-> Idle] /\ lock' = IF lock \in Uploads THEN Nobody ELSE lock
        /\ faults' \in 0..MaxFaults
        /\ UNCHANGED <<disk, tables, staged, sweep, begun, acts>>
    BY BlobAssumption DEF Crash, Inv, TypeOK
  <1>2. \A u \in Uploads : up'[u].pc = "idle" /\ ~up'[u].created
    BY <1>1 DEF Idle
  <1>3. /\ up' \in [Uploads -> Upload] /\ lock' \in Uploads \cup Sweeps \cup {Nobody}
        /\ \A u \in Uploads : lock' = u <=> up'[u].pc \in {"locked", "writing", "written"}
        /\ \A s \in Sweeps : lock' = s <=> sweep'[s].pc = "removed"
    BY <1>1, <1>2, RestTypes, Fields DEF Inv, TypeOK
  <1>4. TypeOK'
    BY <1>1, <1>3 DEF Inv, TypeOK, disk, tables
  <1>5. Storing' /\ StagedKept'
    BY <1>2 DEF Storing, StagedKept
  <1>6. LinkedIsStored' /\ Removing'
    BY <1>1 DEF Inv, LinkedIsStored, Removing, disk, tables
  <1> QED BY <1>4, <1>5, <1>6 DEF Inv

-----------------------------------------------------------------------------
(* The theorems.                                                             *)

LEMMA StepInv == Inv /\ [Next]_vars => Inv'
  <1> SUFFICES ASSUME Inv, [Next]_vars PROVE Inv'
    OBVIOUS
  <1>1. ASSUME NEW u \in Uploads,
               \/ \E a \in Accounts, h \in Hashes : Begin(u, a, h)
               \/ GivesUp(u) \/ Received(u) \/ Locks(u) \/ Stores(u) \/ Written(u)
               \/ RollsBack(u) \/ Commits(u) \/ Reaps(u) \/ StagedAges(u)
        PROVE  Inv'
    BY <1>1, BeginStep, GivesUpStep, ReceivedStep, LocksStep, StoresStep, WrittenStep,
       RollsBackStep, CommitsStep, StagedStep
  <1>2. ASSUME NEW s \in Sweeps,
               \/ SweepBegins(s) \/ SweepRemoves(s) \/ SweepCommits(s) \/ SweepReads(s)
               \/ SweepOrphans(s) \/ SweepEnds(s) \/ SweepFails(s)
        PROVE  Inv'
    BY <1>2, SweepBeginsStep, SweepRemovesStep, SweepCommitsStep, SweepReadsStep,
       SweepOrphansStep, SweepEndsStep, SweepFailsStep
  <1>3. ASSUME NEW a \in Accounts,
               \/ DeleteWorkspace(a) \/ RestoreWorkspace(a) \/ DeleteAccount(a)
               \/ \E b \in Accounts : CarryLinks(a, b)
        PROVE  Inv'
    BY <1>3, WorkspaceStep, DeleteAccountStep, CarryLinksStep
  <1>4. ASSUME NEW h \in Hashes, FileAges(h) PROVE Inv'
    BY <1>4, FileAgesStep
  <1>5. CASE Crash
    BY <1>5, CrashStep
  <1>6. CASE UNCHANGED vars
    BY <1>6 DEF Inv, TypeOK, Storing, Removing, LinkedIsStored, StagedKept, Linked, vars,
                disk, tables, counts
  <1> QED BY <1>1, <1>2, <1>3, <1>4, <1>5, <1>6 DEF Next

(* The invariant every theorem rests on.                                     *)
LEMMA InvHolds == Spec => []Inv
  <1> QED BY InitInv, StepInv, PTL DEF Spec

(* Type correctness; the write lock is held by the one handler or sweep that *)
(* is inside a transaction, however handlers, sweeps and crashes interleave. *)
THEOREM TypeCorrect == Spec => []TypeOK
  <1>1. Inv => TypeOK
    BY DEF Inv
  <1> QED BY <1>1, InvHolds, PTL

(* Every link names a file with its row and its whole content, whatever      *)
(* uploads, roll-backs, sweeps, deletions and crashes came between           *)
(* (putBlobContext, sweepUnreferencedBlob, sweepOrphanBlobFile).             *)
THEOREM LinkedHolds == Spec => []LinkedIsStored
  <1>1. Inv => LinkedIsStored
    BY DEF Inv
  <1> QED BY <1>1, InvHolds, PTL

(* No handler loses the bytes it is staging to the clean-up of partial files *)
(* (RunBlobCleanup).                                                         *)
THEOREM StagedHolds == Spec => []StagedKept
  <1>1. Inv => StagedKept
    BY DEF Inv
  <1> QED BY <1>1, InvHolds, PTL
=============================================================================
