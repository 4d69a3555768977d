---------------------------- MODULE DatasetJournal ----------------------------
(***************************************************************************)
(* How the browser keeps the household's dataset: a checkpoint and a chain *)
(* of edit batches in one origin's IndexedDB, written by any number of     *)
(* tabs of the app.                                                        *)
(*                                                                         *)
(* A tab loads the checkpoint and replays the chain into its in-memory     *)
(* store.  A save captures what changed since the tab's last save and, in  *)
(* one strict transaction, adds a batch, moves the head and stamps a new   *)
(* generation, provided generation, checkpoint and head are the ones the   *)
(* tab last knew.  A long chain is folded into a fresh checkpoint.  A pull *)
(* replaces the checkpoint, provided the generation is the tab's.  A tab   *)
(* whose save is refused because of another tab's keeps a copy of what it  *)
(* holds and becomes read only.  A load that finds the chain damaged       *)
(* recovers what it can and repairs it in place.                           *)
(*                                                                         *)
(* One account and one workspace: the owner and workspace conditions of    *)
(* the code always hold.  The dataset is the set of edits it contains; the *)
(* generation stamped by a write, a fresh identifier, also names the       *)
(* checkpoint or the batch written with it.  A batch and its records are   *)
(* one element that can be damaged in two ways.  Batches written by older  *)
(* builds (without generations) and legacy envelopes are left out.         *)
(***************************************************************************)
EXTENDS Naturals, FiniteSets

CONSTANTS
  Tabs,       \* pages of the app in one browser
  Edits,      \* edits the user can make
  Pulls,      \* datasets a pull can bring, sets of edits
  CompactAt,  \* batches after which a save writes a checkpoint instead
              \* (journalCheckpointRecordLimit counts keys, at least one each)
  MaxGen,     \* bound on the generations handed out, for model checking
  MaxFaults   \* bound on the records that become unreadable

ASSUME JournalAssumption ==
  /\ Pulls \subseteq SUBSET Edits
  /\ CompactAt \in Nat \ {0}
  /\ MaxGen \in Nat
  /\ MaxFaults \in Nat

VARIABLES
  disk,     \* the records of the dataset in IndexedDB
  tab,      \* [Tabs -> the page]
  issued,   \* generations handed out so far (id.New)
  kept,     \* the edits held by recovery copies
  durable,  \* history variable: what the last save or replacement made durable
  past,     \* history variable: every dataset one of them made durable
  faults,   \* history variable: records damaged so far
  hurt      \* history variable: edits whose last readable record was damaged

history == <<durable, past, faults, hurt>>
vars == <<disk, tab, issued, kept, durable, past, faults, hurt>>

Gens == 0..MaxGen      \* 0 is the empty generation

(* A checkpoint: `id' is its identity (checkpointHash), `gen' the generation *)
(* written inside it, 0 in the raw one a pull writes.                        *)
Checkpoint == [id: Gens, gen: Gens, edits: SUBSET Edits]
NoCheckpoint == [id |-> 0, gen |-> 0, edits |-> {}]

(* The head: the last batch of the chain (0 before the first), the           *)
(* generation and checkpoint it belongs to, and the length of the chain.     *)
Head == [tail: Gens, gen: Gens, base: Gens, cursor: Gens]
NoHead == [tail |-> 0, gen |-> 0, base |-> 0, cursor |-> 0]

(* A batch; `gen' names it.                                                  *)
Batch == [gen: Gens, parent: Gens, pgen: Gens, base: Gens, from: Gens,
          through: Gens, edits: SUBSET Edits]

(* What can become unreadable: a fixed record, the list of keys of a batch,  *)
(* or one of the records of a batch.                                         *)
Keys == {"checkpoint", "head", "gen", "backup"} \X {0}
          \cup {"batch", "rows"} \X Gens

Disk == [ckpt: Checkpoint, head: Head, gen: Gens, backup: Checkpoint,
         batches: SUBSET Batch, bad: SUBSET Keys]

EmptyDisk == [ckpt |-> NoCheckpoint, head |-> NoHead, gen |-> 0,
              backup |-> NoCheckpoint, batches |-> {}, bad |-> {}]

Bad(d, what) == <<what, 0>> \in d.bad

-----------------------------------------------------------------------------
(* Reading the records: recoverDatasetSnapshotParsed.                        *)

(* The checkpoint the chain is replayed on: the live one, else its backup.   *)
LiveBase(d) == ~Bad(d, "checkpoint") /\ d.ckpt.id # 0
BackupBase(d) == ~LiveBase(d) /\ ~Bad(d, "backup") /\ d.backup.id # 0
HasBase(d) == LiveBase(d) \/ BackupBase(d)
Base(d) == IF LiveBase(d) THEN d.ckpt ELSE d.backup

Listed(d) == {b \in d.batches : <<"batch", b.gen>> \notin d.bad}

(* recoverJournalHead: from the checkpoint, follow the one batch that        *)
(* continues the chain; a fork or a gap stops it.                            *)
Continues(b, base, h) ==
  /\ b.base = base /\ b.parent = h.tail
  /\ b.from = h.cursor /\ b.through = b.from + 1
  /\ h.gen # 0 => b.pgen = h.gen
Walk(d) ==
  LET base == Base(d)
      walk[n \in Nat] ==
        IF n = 0 THEN [tail |-> 0, gen |-> base.gen, base |-> base.id, cursor |-> 0]
        ELSE LET h == walk[n - 1]
                 next == {b \in Listed(d) : Continues(b, base.id, h)}
             IN  IF Cardinality(next) # 1 THEN h
                 ELSE LET b == CHOOSE b \in next : TRUE
                      IN  [tail |-> b.gen, gen |-> b.gen, base |-> base.id,
                           cursor |-> b.through]
  IN  walk[MaxGen]

(* readRecoveryNodes: from the tail back to the checkpoint by parent.        *)
(* `chain' maps a distance from the tail to the batch there.                 *)
Back(d, tail) ==
  LET step[n \in Nat] ==
        IF n = 0 THEN [key |-> tail, chain |-> {}, whole |-> TRUE]
        ELSE LET s == step[n - 1] IN
             IF s.key = 0 \/ ~s.whole THEN s
             ELSE LET here == {b \in Listed(d) : b.gen = s.key} IN
                  IF here = {} THEN [s EXCEPT !.whole = FALSE]
                  ELSE LET b == CHOOSE b \in here : TRUE
                       IN  [s EXCEPT !.key = b.parent, !.chain = @ \cup {b}]
  IN  step[MaxGen + 1]

(* The head a load starts from; without a usable one, the walk's.            *)
HeadRecord(d) == IF Bad(d, "head") THEN NoHead ELSE d.head
Anchored(d) == HeadRecord(d) # NoHead /\ HeadRecord(d).base = Base(d).id
StartHead(d) ==
  IF ~Anchored(d) /\ Walk(d).tail # 0 THEN Walk(d) ELSE HeadRecord(d)

(* The chain to replay: the head's, when every batch of it is listed, else   *)
(* the walk's, when it leads anywhere else, else none.                       *)
Chain(d) ==
  LET h == StartHead(d)
      back == Back(d, h.tail)
  IN  IF h = NoHead \/ h.base # Base(d).id THEN {}
      ELSE IF back.whole THEN back.chain
      ELSE IF Walk(d).tail \notin {0, h.tail} THEN Back(d, Walk(d).tail).chain
      ELSE {}

(* A batch is replayed when it and every one before it links to its          *)
(* predecessor and can be read: a prefix of the chain.                       *)
Linked(d, b, chain) ==
  /\ b.base = Base(d).id /\ b.through = b.from + 1
  /\ IF b.parent = 0
       THEN b.from = 0 /\ (Base(d).gen # 0 => b.pgen = Base(d).gen)
       ELSE \E p \in chain : p.gen = b.parent /\ b.from = p.through /\ b.pgen = p.gen
Sound(d, b, chain) == Linked(d, b, chain) /\ <<"rows", b.gen>> \notin d.bad

(* Fault: a damaged batch is skipped and the later ones are replayed.        *)
Replayed_SkipsDamage(d) == {b \in Chain(d) : Sound(d, b, Chain(d))}

Replayed(d) ==
  LET chain == Chain(d)
  IN  {b \in chain : \A p \in chain : p.through <= b.through => Sound(d, p, chain)}

(* The dataset a load brings up.                                             *)
Recovered(d) == Base(d).edits \cup UNION {b.edits : b \in Replayed(d)}

(* Whether the load rewrites the records: something but the backup is        *)
(* damaged, the head does not match, or a stored batch is not part of the    *)
(* chain.                                                                    *)
NeedsRepair(d) ==
  \/ d.bad \ {<<"backup", 0>>} # {} \/ ~LiveBase(d)
  \/ StartHead(d) # HeadRecord(d)
  \/ StartHead(d) = NoHead /\ Base(d).gen \notin {0, d.gen}
  \/ StartHead(d) # NoHead /\ StartHead(d).gen # d.gen
  \/ StartHead(d) # NoHead /\ StartHead(d).base # Base(d).id
  \/ d.batches # Replayed(d)

(* Every edit some readable record still holds: what a recovery copy keeps   *)
(* (snapshotRecoveryCopy).                                                   *)
Readable(d) ==
  UNION ({b.edits : b \in {x \in d.batches : <<"rows", x.gen>> \notin d.bad}}
         \cup {k.edits : k \in (IF Bad(d, "checkpoint") THEN {} ELSE {d.ckpt})
                               \cup (IF Bad(d, "backup") THEN {} ELSE {d.backup})})

-----------------------------------------------------------------------------
(* Pages.  `edits' is the in-memory store and `saved' the part of it the     *)
(* last save captured; `gen', `ckpt' and `head' are what the next save       *)
(* expects on disk (writerGeneration, checkpoint, headRaw), `journal' the    *)
(* batches the next checkpoint erases, `mine' datasetMyGen, `cache' the      *)
(* page's copy of the three records, `told' that another page's write was    *)
(* announced and `heard' what the reload it causes has read.                 *)
(* `job' is the save in flight, `goal' what it captured, `jobGen' its        *)
(* generation; `pull' the replacement in flight, of generation `pullGen',    *)
(* by `pulled', expecting `pullExp'.  `snap' is what a load to repair read.  *)
(* `seen' is a history variable: every edit the page has shown.              *)
Triple == [ckpt: Gens, head: Head, gen: Gens]
NoTriple == [ckpt |-> 0, head |-> NoHead, gen |-> 0]

Page ==
  [st: {"closed", "loading", "open", "stale", "readonly"}, snap: Disk,
   edits: SUBSET Edits, saved: SUBSET Edits, seen: SUBSET Edits, init: BOOLEAN,
   gen: Gens, ckpt: Gens, head: Head, journal: SUBSET Gens, mine: Gens,
   cache: Triple, heard: Triple, told: BOOLEAN,
   job: {"none", "captured", "queued", "written"}, full: BOOLEAN,
   goal: SUBSET Edits, jobGen: Gens,
   pull: {"none", "ready", "written", "refused", "failed"},
   pulled: SUBSET Edits, pullGen: Gens, pullExp: Gens]

Closed ==
  [st |-> "closed", snap |-> EmptyDisk,
   edits |-> {}, saved |-> {}, seen |-> {}, init |-> FALSE,
   gen |-> 0, ckpt |-> 0, head |-> NoHead, journal |-> {}, mine |-> 0,
   cache |-> NoTriple, heard |-> NoTriple, told |-> FALSE,
   job |-> "none", full |-> FALSE, goal |-> {}, jobGen |-> 0,
   pull |-> "none", pulled |-> {}, pullGen |-> 0, pullExp |-> 0]

Shown(d) == [ckpt |-> d.ckpt.id, head |-> d.head, gen |-> d.gen]
Expected(p) == [ckpt |-> p.ckpt, head |-> p.head, gen |-> p.gen]
Is(t, st) == tab[t].st = st
Set(t, p) == tab' = [tab EXCEPT ![t] = p]

(* A page leaves its save; the timers try again.                             *)
NoJob(p) == [p EXCEPT !.job = "none", !.full = FALSE, !.goal = {}, !.jobGen = 0]
NoPull(p) == [p EXCEPT !.pull = "none", !.pulled = {}, !.pullGen = 0, !.pullExp = 0]

(* Fault: the page turns read only and nothing queues its copy.              *)
GoStale_NoCopy(p) == [NoJob(p) EXCEPT !.st = "readonly"]

(* Fault: the save in flight is not given up.                                *)
GoStale_KeepsJob(p) == [p EXCEPT !.st = "stale"]

(* preserveStaleDatasetEdits: read only from here on, and a copy is queued.  *)
GoStale(p) == [NoJob(p) EXCEPT !.st = "stale"]

(* A committed write updates the writer's cache and is announced to the      *)
(* other pages.                                                              *)
Announce(t, d, p) ==
  /\ disk' = d
  /\ tab' = [u \in Tabs |->
       IF u = t THEN [p EXCEPT !.cache = Shown(d)]
       ELSE IF tab[u].st = "closed" THEN tab[u]
       ELSE [tab[u] EXCEPT !.told = TRUE]]
Commits(edits) ==
  /\ durable' = edits
  /\ past' = past \cup {edits}
  /\ UNCHANGED <<faults, hurt>>

Fresh(n) == n = issued + 1 /\ n <= MaxGen /\ issued' = n

Init ==
  /\ disk = EmptyDisk
  /\ tab = [t \in Tabs |-> Closed]
  /\ issued = 0
  /\ kept = {}
  /\ durable = {} /\ past = {{}} /\ faults = 0 /\ hurt = {}

-----------------------------------------------------------------------------
(* Loading.                                                                  *)

(* hydrateDurableDataset, newRecordAutosave: the page takes over what it     *)
(* read.                                                                     *)
Loaded(d, told) ==
  [Closed EXCEPT
     !.st = "open", !.edits = Recovered(d), !.saved = Recovered(d),
     !.seen = Recovered(d), !.init = d.ckpt.gen # 0,
     !.gen = d.gen, !.ckpt = d.ckpt.id, !.head = d.head,
     !.journal = {b.gen : b \in Replayed(d)}, !.mine = d.gen,
     !.cache = Shown(d), !.told = told]

(* A page opens and reads every record in one transaction; one announced     *)
(* just before may still be told of it.  Unreadable beyond recovery, the     *)
(* dataset is quarantined and the page does not edit it.                     *)
Open(t) ==
  /\ Is(t, "closed")
  /\ \/ /\ disk = EmptyDisk
        /\ Set(t, [Closed EXCEPT !.st = "open"])
     \/ \E told \in BOOLEAN :
       \/ /\ HasBase(disk) /\ ~NeedsRepair(disk)
          /\ Set(t, Loaded(disk, told))
       \/ /\ HasBase(disk) /\ NeedsRepair(disk)
          /\ Set(t, [Closed EXCEPT !.st = "loading", !.snap = disk, !.told = told])
  /\ UNCHANGED <<disk, issued, kept, history>>

(* Fault: no copy of what is still readable is kept.                         *)
Repair_NoCopy(t) ==
  LET p == tab[t] IN
  /\ Is(t, "loading") /\ disk = p.snap
  /\ \E n \in 1..MaxGen :
       LET k == [id |-> n, gen |-> n, edits |-> Recovered(p.snap)]
           d == [EmptyDisk EXCEPT !.ckpt = k, !.gen = n, !.backup = k]
       IN  /\ Fresh(n)
           /\ Announce(t, d, Loaded(d, p.told))
  /\ UNCHANGED <<kept, history>>

(* The repair: provided every record is still as it was read, a recovery     *)
(* copy of all that was readable and a fresh checkpoint of what was          *)
(* recovered are written together and the chain is erased.                   *)
Repair(t) ==
  LET p == tab[t] IN
  /\ Is(t, "loading") /\ disk = p.snap
  /\ \E n \in 1..MaxGen :
       LET k == [id |-> n, gen |-> n, edits |-> Recovered(p.snap)]
           d == [EmptyDisk EXCEPT !.ckpt = k, !.gen = n, !.backup = k]
       IN  /\ Fresh(n)
           /\ Announce(t, d, Loaded(d, p.told))
  /\ kept' = kept \cup Readable(p.snap)
  /\ UNCHANGED history

(* Another page got there first: the load starts over.                       *)
RepairLost(t) ==
  /\ Is(t, "loading") /\ disk # tab[t].snap
  /\ Set(t, Closed)
  /\ UNCHANGED <<disk, issued, kept, history>>

-----------------------------------------------------------------------------
(* Editing and saving.                                                       *)

Edit(t) ==
  /\ Is(t, "open")
  /\ \E e \in Edits :
       /\ e \notin durable \cup kept \cup UNION {tab[u].seen : u \in Tabs}
       /\ Set(t, [tab[t] EXCEPT !.edits = @ \cup {e}, !.seen = @ \cup {e}])
  /\ UNCHANGED <<disk, issued, kept, history>>

(* Fault: a generation in the page's cache is adopted whoever wrote it.      *)
Rebased_Foreign(p) ==
  IF p.cache.gen # p.gen
    THEN [p EXCEPT !.gen = p.cache.gen, !.ckpt = p.cache.ckpt, !.head = p.cache.head,
                   !.init = FALSE]
    ELSE p

(* After its own replacement the page's saves go on from it, beginning with  *)
(* a checkpoint.                                                             *)
Rebased(p) ==
  IF p.mine # p.gen /\ p.mine = p.cache.gen
    THEN [p EXCEPT !.gen = p.mine, !.ckpt = p.cache.ckpt, !.head = NoHead,
                   !.init = FALSE]
    ELSE p

(* A timer or an edit starts a save: the page is not yet saving nor paused,  *)
(* its cache still shows what it expects, and there is something to save;    *)
(* what changed so far is captured.                                          *)
Save(t) ==
  LET p == Rebased(tab[t]) IN
  /\ Is(t, "open") /\ p.job = "none" /\ p.pull = "none"
  /\ Expected(p) = p.cache
  /\ \E full \in BOOLEAN, n \in 1..MaxGen :
       /\ ~p.init \/ Cardinality(p.journal) >= CompactAt => full
       /\ p.edits # p.saved \/ full
       /\ Fresh(n)
       /\ Set(t, [p EXCEPT !.job = "captured", !.full = full, !.goal = p.edits,
                           !.jobGen = n])
  /\ UNCHANGED <<disk, kept, history>>

(* ... and when the cache shows something else, the page is stale.           *)
SaveStale(t) ==
  LET p == Rebased(tab[t]) IN
  /\ Is(t, "open") /\ p.job = "none" /\ p.pull = "none"
  /\ Expected(p) # p.cache
  /\ Set(t, GoStale(p))
  /\ UNCHANGED <<disk, issued, kept, history>>

(* The batch is encoded; the save is queued unless the page has been paused  *)
(* or another page's generation has appeared.                                *)
Submit(t) ==
  LET p == tab[t] IN
  /\ p.job = "captured"
  /\ Set(t, IF p.pull # "none" THEN NoJob(p)
            ELSE IF p.cache.gen # p.gen THEN GoStale(p)
            ELSE [p EXCEPT !.job = "queued"])
  /\ UNCHANGED <<disk, issued, kept, history>>

(* What a save writes: a batch at the end of the chain, or a checkpoint with *)
(* its backup, the batches before it erased.                                 *)
NextHead(p) ==
  IF p.full THEN NoHead
  ELSE [tail |-> p.jobGen, gen |-> p.jobGen, base |-> p.ckpt,
        cursor |-> p.head.cursor + 1]
NewBatch(p) ==
  [gen |-> p.jobGen, parent |-> p.head.tail, pgen |-> p.gen, base |-> p.ckpt,
   from |-> p.head.cursor, through |-> p.head.cursor + 1,
   edits |-> p.goal \ p.saved]

(* Fault: a batch holds the edits but not the link to the one before it.     *)
Saved_Unlinked(d, p) ==
  LET k == [id |-> p.jobGen, gen |-> p.jobGen, edits |-> p.goal]
      erased == {"batch", "rows"} \X p.journal
  IN
  IF p.full
    THEN [d EXCEPT !.ckpt = k, !.backup = k, !.head = NoHead, !.gen = p.jobGen,
                   !.batches = {b \in @ : b.gen \notin p.journal},
                   !.bad = @ \ (erased \cup {<<"backup", 0>>})]
    ELSE [d EXCEPT !.head = NextHead(p), !.gen = p.jobGen,
                   !.batches = @ \cup {[NewBatch(p) EXCEPT !.parent = 0]}]

Saved(d, p) ==
  LET k == [id |-> p.jobGen, gen |-> p.jobGen, edits |-> p.goal]
      erased == {"batch", "rows"} \X p.journal
  IN
  IF p.full
    THEN [d EXCEPT !.ckpt = k, !.backup = k, !.head = NoHead, !.gen = p.jobGen,
                   !.batches = {b \in @ : b.gen \notin p.journal},
                   !.bad = @ \ (erased \cup {<<"backup", 0>>})]
    ELSE [d EXCEPT !.head = NextHead(p), !.gen = p.jobGen,
                   !.batches = @ \cup {NewBatch(p)}]

(* Fault: only the cached generation was compared, none in the transaction.  *)
MayWrite_CacheOnly(d, p) == TRUE

(* The conditions the transaction compares.                                  *)
MayWrite(d, p) == Expected(p) = Shown(d)
Comparable(d) == ~Bad(d, "checkpoint") /\ ~Bad(d, "head") /\ ~Bad(d, "gen")

(* The strict transaction.  A record that cannot be read fails the save; one *)
(* that changed makes the page stale.                                        *)
Write(t) ==
  LET p == tab[t] IN
  /\ p.job = "queued"
  /\ \/ /\ Comparable(disk) /\ MayWrite(disk, p)
        /\ Announce(t, Saved(disk, p), [p EXCEPT !.job = "written"])
        /\ Commits(p.goal)
     \/ /\ Comparable(disk) /\ ~MayWrite(disk, p)
        /\ Set(t, GoStale(p))
        /\ UNCHANGED <<disk, history>>
     \/ /\ ~Comparable(disk)
        /\ Set(t, NoJob(p))
        /\ UNCHANGED <<disk, history>>
  /\ UNCHANGED <<issued, kept>>

(* Storage refuses the transaction: nothing is written.  An instance without *)
(* faults has no such transaction.                                           *)
WriteFails(t) ==
  /\ tab[t].job = "queued" /\ MaxFaults # 0
  /\ Set(t, NoJob(tab[t]))
  /\ UNCHANGED <<disk, issued, kept, history>>

(* The completion callback: the page expects its own write next time.        *)
SaveDone(t) ==
  LET p == tab[t] IN
  /\ p.job = "written"
  /\ Set(t, NoJob([p EXCEPT
       !.gen = p.jobGen, !.mine = p.jobGen, !.init = TRUE, !.saved = p.goal,
       !.head = NextHead(p),
       !.ckpt = IF p.full THEN p.jobGen ELSE @,
       !.journal = IF p.full THEN {} ELSE @ \cup {p.jobGen}]))
  /\ UNCHANGED <<disk, issued, kept, history>>

(* The stale page's copy is stored, unless storage refuses it, which is only *)
(* logged.                                                                   *)
KeepCopy(t) ==
  /\ Is(t, "stale")
  /\ \/ kept' = kept \cup tab[t].edits
     \/ MaxFaults # 0 /\ UNCHANGED kept
  /\ Set(t, [tab[t] EXCEPT !.st = "readonly"])
  /\ UNCHANGED <<disk, issued, history>>

-----------------------------------------------------------------------------
(* Announcements of other pages' writes: the reload reads, then replaces the *)
(* cached records.                                                           *)

Hear(t) ==
  /\ Is(t, "open") /\ tab[t].told /\ tab[t].heard = NoTriple
  /\ Set(t, [tab[t] EXCEPT !.told = FALSE, !.heard = Shown(disk)])
  /\ UNCHANGED <<disk, issued, kept, history>>

HearDone(t) ==
  /\ Is(t, "open") /\ tab[t].heard # NoTriple
  /\ Set(t, [tab[t] EXCEPT !.cache = tab[t].heard, !.heard = NoTriple])
  /\ UNCHANGED <<disk, issued, kept, history>>

-----------------------------------------------------------------------------
(* Replacing: saveSyncedDatasetThen.                                         *)

(* The pulled dataset is in memory and saving is paused.                     *)
PullStart(t) ==
  /\ Is(t, "open") /\ tab[t].pull = "none"
  /\ \E s \in Pulls, n \in 1..MaxGen :
       /\ Fresh(n)
       /\ Set(t, [tab[t] EXCEPT !.edits = s, !.seen = @ \cup s, !.pull = "ready",
                                !.pulled = s, !.pullGen = n, !.pullExp = tab[t].mine])
  /\ UNCHANGED <<disk, kept, history>>

(* The transaction compares the generation only; a save queued before it     *)
(* goes first.                                                               *)
PullWrite(t) ==
  LET p == tab[t]
      k == [id |-> p.pullGen, gen |-> 0, edits |-> p.pulled]
  IN
  /\ p.pull = "ready" /\ p.job # "queued"
  /\ \/ /\ ~Bad(disk, "gen") /\ disk.gen = p.pullExp
        /\ Announce(t, [disk EXCEPT !.ckpt = k, !.head = NoHead, !.gen = p.pullGen,
                                    !.bad = @ \ ({"checkpoint", "head"} \X {0})],
                    [p EXCEPT !.pull = "written"])
        /\ Commits(p.pulled)
     \/ /\ ~Bad(disk, "gen") /\ disk.gen # p.pullExp
        /\ Set(t, [p EXCEPT !.pull = "refused"])
        /\ UNCHANGED <<disk, history>>
     \/ /\ Bad(disk, "gen")
        /\ Set(t, [p EXCEPT !.pull = "failed"])
        /\ UNCHANGED <<disk, history>>
  /\ UNCHANGED <<issued, kept>>

(* Accepted, the page owns the new generation and saving resumes.            *)
PullDone(t) ==
  /\ tab[t].pull = "written"
  /\ Set(t, NoPull([tab[t] EXCEPT !.mine = tab[t].pullGen]))
  /\ UNCHANGED <<disk, issued, kept, history>>

(* Refused, it tries again when the generation that won is its own save's,   *)
(* and otherwise leaves saving paused.  The code gives up after three        *)
(* attempts; here the generations bound them.                                *)
PullRetry(t) ==
  LET p == tab[t] IN
  /\ p.pull = "refused"
  /\ \/ /\ p.mine # p.pullExp /\ p.mine = p.cache.gen
        /\ \E n \in 1..MaxGen :
             /\ Fresh(n)
             /\ Set(t, [p EXCEPT !.pull = "ready", !.pullGen = n, !.pullExp = p.mine])
     \/ /\ p.mine = p.pullExp \/ p.mine # p.cache.gen
        /\ Set(t, [p EXCEPT !.pull = "failed"])
        /\ UNCHANGED issued
  /\ UNCHANGED <<disk, kept, history>>

-----------------------------------------------------------------------------
(* The page is closed, reloaded or crashes.                                  *)
Close(t) ==
  /\ ~Is(t, "closed")
  /\ Set(t, Closed)
  /\ UNCHANGED <<disk, issued, kept, history>>

(* A stored record can no longer be read.                                    *)
Stored(d) ==
  {k \in Keys :
     \/ k[1] = "checkpoint" /\ d.ckpt.id # 0
     \/ k[1] = "head" /\ d.head # NoHead
     \/ k[1] = "gen" /\ d.gen # 0
     \/ k[1] = "backup" /\ d.backup.id # 0
     \/ k[1] \in {"batch", "rows"} /\ \E b \in d.batches : b.gen = k[2]}
Damage ==
  /\ faults < MaxFaults
  /\ \E k \in Stored(disk) \ disk.bad :
       /\ disk' = [disk EXCEPT !.bad = @ \cup {k}]
       /\ hurt' = hurt \cup (Readable(disk) \ Readable([disk EXCEPT !.bad = @ \cup {k}]))
  /\ faults' = faults + 1
  /\ UNCHANGED <<tab, issued, kept, durable, past>>

-----------------------------------------------------------------------------
Next ==
  \/ \E t \in Tabs :
       \/ Open(t) \/ Repair(t) \/ RepairLost(t)
       \/ Edit(t) \/ Save(t) \/ SaveStale(t) \/ Submit(t) \/ Write(t)
       \/ WriteFails(t) \/ SaveDone(t) \/ KeepCopy(t)
       \/ Hear(t) \/ HearDone(t)
       \/ PullStart(t) \/ PullWrite(t) \/ PullDone(t) \/ PullRetry(t)
       \/ Close(t)
  \/ Damage

Spec == Init /\ [][Next]_vars

(* The page's own timers and callbacks go on while it is open; the user, the *)
(* server, a crash and a failing disk are left free.                         *)
Fairness ==
  \A t \in Tabs :
    /\ WF_vars(Save(t) \/ SaveStale(t)) /\ WF_vars(Submit(t))
    /\ WF_vars(Write(t)) /\ WF_vars(SaveDone(t)) /\ WF_vars(KeepCopy(t))
    /\ WF_vars(PullWrite(t)) /\ WF_vars(PullDone(t)) /\ WF_vars(PullRetry(t))
    /\ WF_vars(HearDone(t))
FairSpec == Spec /\ Fairness

-----------------------------------------------------------------------------
(* Type invariant of the records, the pages and the history; only an open    *)
(* page has a save in flight.                                                *)
TypeOK ==
  /\ disk \in Disk
  /\ tab \in [Tabs -> Page]
  /\ \A t \in Tabs : tab[t].job # "none" => Is(t, "open")
  /\ issued \in Gens
  /\ kept \in SUBSET Edits
  /\ durable \in SUBSET Edits
  /\ past \in SUBSET SUBSET Edits
  /\ faults \in 0..MaxFaults
  /\ hurt \in SUBSET Edits

(* Whatever was interrupted, refused or damaged, a load that finds a         *)
(* checkpoint brings up a dataset that some committed write had made         *)
(* durable, never a mixture (readDatasetRecords, recoverJournalHead: "replay *)
(* only the unique prefix").                                                 *)
RecoversAState == HasBase(disk) => Recovered(disk) \in past

(* Until a record is damaged, a load brings up exactly what the last         *)
(* committed write made durable: no completed save is undone by a            *)
(* compaction, another page, a crash or a repair.                            *)
RecoversTheLast == faults = 0 /\ disk # EmptyDisk => Recovered(disk) = durable

(* No edit that was made durable disappears from storage: it is in a         *)
(* readable record or in a recovery copy, unless the record that held it was *)
(* damaged (hydrateDurableDataset: the recovery copy and the repaired        *)
(* checkpoint commit together).                                              *)
DurableKept == durable \subseteq Readable(disk) \cup kept \cup hurt

(* A load never stops bringing up a durable edit except after a replacement, *)
(* in a page that had shown the edit, or damage: no save, compaction or      *)
(* repair overwrites what its writer had not loaded (the conditions at       *)
(* persist_records.go:471).                                                  *)
NothingDropped ==
  [][faults' = faults /\ HasBase(disk) =>
       \A e \in (durable \cap Recovered(disk)) \ Recovered(disk') :
         \E t \in Tabs : /\ tab[t].pull = "ready" /\ tab'[t].pull = "written"
                         /\ e \in tab[t].seen]_vars

(* Seen from outside, the records are one value with a version, which only   *)
(* a page that knows the version can write, the first time from nothing (the *)
(* conditions of newRecordAutosave, saveSyncedDatasetThen and                *)
(* hydrateDurableDataset, taken together).  The value is what the last write *)
(* made durable, which is what a load brings up by RecoversTheLast.          *)
Knows(p) ==
  CASE p.st = "loading" -> p.snap.gen
    [] p.pull = "written" -> p.pullGen
    [] p.job = "written" -> p.jobGen
    [] OTHER -> p.mine
Register ==
  INSTANCE VersionedRegister WITH
    Writers <- Tabs, Items <- Edits, LastVersion <- MaxGen,
    value <- durable, version <- disk.gen,
    known <- [t \in Tabs |-> Knows(tab[t])]
ImplementsRegister == Register!Spec

(* An edit made in a page that stays open reaches the records or a recovery  *)
(* copy, whatever other pages write meanwhile, unless a pull replaces it or  *)
(* leaves saving paused (startDatasetAutosave, preserveStaleDatasetEdits).  *)
EditSettles ==
  \A t \in Tabs, e \in Edits :
    Is(t, "open") /\ e \in tab[t].edits
      ~> \/ e \in Recovered(disk) \cup kept
         \/ e \notin tab[t].edits
         \/ tab[t].pull = "failed"
         \/ issued = MaxGen
=============================================================================
