------------------------- MODULE WorkspaceSyncProofs -------------------------
(***************************************************************************)
(* Theorems about the browser side of workspace sync, for any number of    *)
(* devices, edits, versions, faults and conflict choices, on a new account *)
(* and on one in use.                                                      *)
(*                                                                         *)
(* OthersEditsKept is about the step in which the server takes a push.     *)
(* The invariant behind it follows a snapshot from the moment it is        *)
(* queued: whatever is based on the server's present version leaves out    *)
(* nothing of other devices that was not released (Covers), and whatever a *)
(* device holds of others' edits it also shows, or they were released      *)
(* (Client).                                                               *)
(***************************************************************************)
EXTENDS WorkspaceSync, TLAPS

(* An upload in progress has an item.                                        *)
HasItem == \A d \in Devices : flush[d].pc # "idle" => flush[d].item \in Item

Typed == TypeOK /\ HasItem

-----------------------------------------------------------------------------
(* Types.                                                                    *)

LEMMA Constants ==
  /\ 0 \in Version /\ 2 \in Version
  /\ {} \in Dataset
  /\ NoMeta \in Meta
  /\ NoFlush \in Flush
  /\ NoRead \in Read
  /\ \A v \in Version : v \in Nat /\ v <= MaxVersion
  <1>1. 0 \in Version /\ 2 \in Version /\ \A v \in Version : v \in Nat /\ v <= MaxVersion
    BY SyncAssumption DEF Version
  <1> QED BY <1>1 DEF Dataset, NoMeta, Meta, NoFlush, Flush, NoRead, Read

LEMMA QuietTyped ==
  ASSUME Quiet
  PROVE  /\ queue \in [Devices -> Item \cup {None}]
         /\ backup \in [Devices -> Dataset \cup {None}]
         /\ flush \in [Devices -> Flush]
         /\ late \in [Devices -> Request \cup {None}]
         /\ pull \in [Devices -> Read]
         /\ choice \in [Devices -> Read]
         /\ paused \in [Devices -> BOOLEAN]
         /\ made \in 0 .. MaxEdits
         /\ chosen \in 0 .. MaxChoices
         /\ faults \in 0 .. MaxFaults
         /\ released \in Dataset
         /\ HasItem
  <1>1. queue \in [Devices -> Item \cup {None}] /\ backup \in [Devices -> Dataset \cup {None}]
        /\ late \in [Devices -> Request \cup {None}] /\ paused \in [Devices -> BOOLEAN]
    BY DEF Quiet
  <1>2. flush \in [Devices -> Flush] /\ pull \in [Devices -> Read] /\ choice \in [Devices -> Read]
    BY Constants DEF Quiet
  <1>3. made \in 0 .. MaxEdits /\ chosen \in 0 .. MaxChoices /\ faults \in 0 .. MaxFaults
    BY SyncAssumption DEF Quiet
  <1>4. released \in Dataset
    BY Constants DEF Quiet
  <1>5. HasItem
    BY DEF Quiet, HasItem, NoFlush
  <1> QED BY <1>1, <1>2, <1>3, <1>4, <1>5

LEMMA InitTyped == Init => Typed
  <1> SUFFICES ASSUME Init PROVE Typed
    OBVIOUS
  <1>1. server \in [version: Version, data: Dataset, by: Devices]
    BY Constants DEF Init
  <1>2. local \in [Devices -> Dataset] /\ meta \in [Devices -> Meta]
    BY Constants DEF Init
  <1>3. Quiet
    BY DEF Init
  <1> QED BY <1>1, <1>2, <1>3, QuietTyped DEF Typed, TypeOK

LEMMA InUseTyped == InUse => Typed
  <1> SUFFICES ASSUME InUse PROVE Typed
    OBVIOUS
  <1>1. PICK first \in Devices :
          LET seed == {<<first, 0>>} IN
          /\ server = [version |-> 2, data |-> seed, by |-> first]
          /\ local = [d \in Devices |-> seed]
          /\ meta = [d \in Devices |-> [version |-> 2, stamp |-> 2, hash |-> seed]]
          /\ Quiet
    BY DEF InUse
  <1>2. {<<first, 0>>} \in Dataset
    BY SyncAssumption DEF Dataset, Edits
  <1> DEFINE seed == {<<first, 0>>}
  <1>3. [version |-> 2, stamp |-> 2, hash |-> seed] \in Meta
    BY <1>2, Constants DEF Meta
  <1>4. server \in [version: Version, data: Dataset, by: Devices]
    BY <1>1, <1>2, Constants
  <1>5. local \in [Devices -> Dataset] /\ meta \in [Devices -> Meta]
    BY <1>1, <1>2, <1>3
  <1>6. Quiet
    BY <1>1
  <1> QED BY <1>4, <1>5, <1>6, QuietTyped DEF Typed, TypeOK

(* What a push leaves on the server.                                         *)
LEMMA TakesType ==
  ASSUME Typed, NEW d \in Devices, NEW req \in Request, ServerTakes(d, req)
  PROVE  /\ server' \in [version: Version, data: Dataset, by: Devices]
         /\ released' \in Dataset
  <1>1. server \in [version: Version, data: Dataset, by: Devices] /\ released \in Dataset
    BY DEF Typed, TypeOK
  <1>2. CASE Accepts(req.base)
    <2> DEFINE data == IF req.creates THEN server.data ELSE req.data
    <2>1. data \in Dataset
      BY <1>1 DEF Request
    <2>2. server.version + 1 \in Version
      BY <1>1, <1>2, SyncAssumption DEF ServerTakes, Version
    <2>3. server' = [version |-> server.version + 1, by |-> d, data |-> data]
      BY <1>2 DEF ServerTakes
    <2>4. released' = released \cup {e \in server.data \ data : e[1] = d}
      BY <1>2 DEF ServerTakes, Releases
    <2>5. released' \in Dataset
      BY <1>1, <2>4 DEF Dataset
    <2> HIDE DEF data
    <2> QED BY <2>1, <2>2, <2>3, <2>5
  <1>3. CASE ~Accepts(req.base)
    BY <1>1, <1>3 DEF ServerTakes
  <1> QED BY <1>2, <1>3

LEMMA OutgoingType ==
  ASSUME Typed, NEW d \in Devices
  PROVE  /\ Outgoing(d) \in Request \cup {None}
         /\ flush[d].pc \in {"ensure", "put"} => Outgoing(d) \in Request
  <1>1. flush[d].pc = "ensure" => Outgoing(d) \in Request
    BY Constants DEF Outgoing, Request
  <1>2. flush[d].pc = "put" => Outgoing(d) \in Request
    BY DEF Outgoing, Request, Typed, HasItem, Item
  <1>3. flush[d].pc \notin {"ensure", "put"} => Outgoing(d) = None
    BY DEF Outgoing
  <1> QED BY <1>1, <1>2, <1>3

(* Queueing keeps all of a snapshot but its ancestor.                        *)
LEMMA UpsertQueues ==
  ASSUME Typed, NEW d \in Devices, NEW item \in Item, Upsert(d, item)
  PROVE  \E q \in Item : /\ queue' = [queue EXCEPT ![d] = q]
                         /\ q.data = item.data /\ q.base = item.base /\ q.page = item.page
  <1> DEFINE q == [item EXCEPT !.ancestor = AncestorOf(item, queue[d])]
  <1>1. AncestorOf(item, queue[d]) \in Dataset \cup {None}
    BY DEF AncestorOf, Item, Typed, TypeOK
  <1>2. q \in Item /\ q.data = item.data /\ q.base = item.base /\ q.page = item.page
    BY <1>1 DEF Item
  <1>3. queue' = [queue EXCEPT ![d] = q]
    BY DEF Upsert
  <1> HIDE DEF q
  <1> QED BY <1>2, <1>3

LEMMA NewItemType ==
  ASSUME NEW data \in Dataset, NEW base \in Version
  PROVE  NewItem(data, base) \in Item
  BY DEF NewItem, Item

(* Pushing what is shown queues it at the bookmark's version, or nothing.    *)
LEMMA PushQueues ==
  ASSUME Typed, NEW d \in Devices, NEW m \in Meta, PushActive(d, m)
  PROVE  \/ queue' = queue
         \/ \E q \in Item : /\ queue' = [queue EXCEPT ![d] = q]
                            /\ q.data = local[d] /\ q.base = m.version /\ q.page
  <1>1. CASE UNCHANGED queue
    BY <1>1
  <1>2. CASE Upsert(d, NewItem(local[d], m.version))
    <2>1. NewItem(local[d], m.version) \in Item
      BY NewItemType DEF Typed, TypeOK, Meta
    <2>2. PICK q \in Item : /\ queue' = [queue EXCEPT ![d] = q]
                            /\ q.data = NewItem(local[d], m.version).data
                            /\ q.base = NewItem(local[d], m.version).base
                            /\ q.page = NewItem(local[d], m.version).page
      BY <1>2, <2>1, UpsertQueues
    <2> QED BY <2>2 DEF NewItem
  <1> QED BY <1>1, <1>2 DEF PushActive

(* A reload.                                                                 *)
LEMMA NewPageTyped ==
  ASSUME Typed, NEW d \in Devices, NewPage(d)
  PROVE  /\ queue' \in [Devices -> Item \cup {None}]
         /\ flush' \in [Devices -> Flush]
         /\ late' \in [Devices -> Request \cup {None}]
         /\ pull' \in [Devices -> Read]
         /\ choice' \in [Devices -> Read]
         /\ paused' \in [Devices -> BOOLEAN]
         /\ HasItem'
  <1>1. flush' \in [Devices -> Flush] /\ HasItem'
    BY Constants DEF NewPage, Typed, TypeOK, HasItem, NoFlush
  <1>2. late' \in [Devices -> Request \cup {None}]
    <2>1. PICK r \in {late[d], Outgoing(d)} : late' = [late EXCEPT ![d] = r]
      BY DEF NewPage, Abandon
    <2>2. r \in Request \cup {None}
      BY OutgoingType DEF Typed, TypeOK
    <2> QED BY <2>1, <2>2 DEF Typed, TypeOK
  <1>3. pull' \in [Devices -> Read] /\ choice' \in [Devices -> Read] /\ paused' \in [Devices -> BOOLEAN]
    BY Constants DEF NewPage, Typed, TypeOK
  <1>4. queue' \in [Devices -> Item \cup {None}]
    <2> DEFINE q == IF queue[d] = None THEN None ELSE [queue[d] EXCEPT !.page = FALSE]
    <2>1. q \in Item \cup {None}
      <3>1. CASE queue[d] = None
        BY <3>1
      <3>2. CASE queue[d] # None
        <4>1. queue[d] \in Item
          BY <3>2 DEF Typed, TypeOK
        <4>2. [queue[d] EXCEPT !.page = FALSE] \in Item
          BY <4>1 DEF Item
        <4> QED BY <3>2, <4>2
      <3> QED BY <3>1, <3>2
    <2>2. queue' = [queue EXCEPT ![d] = q]
      BY DEF NewPage
    <2> HIDE DEF q
    <2> QED BY <2>1, <2>2 DEF Typed, TypeOK
  <1> QED BY <1>1, <1>2, <1>3, <1>4

LEMMA SaveTyped ==
  ASSUME Typed, NEW d \in Devices, NEW read \in Read, SaveSynced(d, read)
  PROVE  /\ local' \in [Devices -> Dataset]
         /\ meta' \in [Devices -> Meta]
         /\ NewPage(d)
  <1>1. [version |-> read.version, stamp |-> read.version, hash |-> read.data] \in Meta
    BY DEF Read, Meta
  <1>2. read.data \in Dataset
    BY DEF Read
  <1> QED BY <1>1, <1>2 DEF SaveSynced, Typed, TypeOK

(* What a page does by itself.                                               *)
LEMMA PageTyped ==
  ASSUME Typed, NEW d \in Devices, Edit(d) \/ Push(d) \/ Reopen(d)
  PROVE  Typed'
  <1>1. CASE Edit(d)
    <2>1. made' \in 0 .. MaxEdits
      BY <1>1, SyncAssumption DEF Edit, Typed, TypeOK
    <2>2. local[d] \cup {<<d, made + 1>>} \in Dataset
      BY <1>1, SyncAssumption DEF Edit, Typed, TypeOK, Dataset, Edits
    <2>3. local' \in [Devices -> Dataset]
      BY <1>1, <2>2 DEF Edit, Typed, TypeOK
    <2> QED BY <1>1, <2>1, <2>3 DEF Edit, Typed, TypeOK, HasItem
  <1>2. CASE Push(d)
    <2>1. meta[d] \in Meta
      BY DEF Typed, TypeOK
    <2>2. queue' \in [Devices -> Item \cup {None}]
      BY <1>2, <2>1, PushQueues DEF Push, Typed, TypeOK
    <2> QED BY <1>2, <2>2 DEF Push, Typed, TypeOK, HasItem, tally
  <1>3. CASE Reopen(d)
    <2>1. NewPage(d)
      BY <1>3 DEF Reopen
    <2>2. faults' \in 0 .. MaxFaults
      BY <1>3, SyncAssumption DEF Reopen, Typed, TypeOK
    <2> QED BY <1>3, <2>1, <2>2, NewPageTyped DEF Reopen, Typed, TypeOK
  <1> QED BY <1>1, <1>2, <1>3

LEMMA UploadTyped == ASSUME Typed, NEW d \in Devices, Upload(d) PROVE Typed'
  <1>0. flush[d] \in Flush /\ queue[d] \in Item \cup {None}
    BY DEF Typed, TypeOK
  <1>1. CASE FlushStart(d)
    <2> DEFINE f == [NoFlush EXCEPT !.pc = IF meta[d].stamp = 0 THEN "ensure" ELSE "put",
                                    !.item = queue[d]]
    <2>1. f \in Flush /\ f.item \in Item
      BY <1>0, <1>1, Constants DEF FlushStart, NoFlush, Flush
    <2>2. flush' = [flush EXCEPT ![d] = f]
      BY <1>1 DEF FlushStart
    <2> HIDE DEF f
    <2> QED BY <1>1, <2>1, <2>2 DEF FlushStart, Typed, TypeOK, HasItem, client, tally
  <1>2. CASE ServerAnswers(d)
    <2>1. Outgoing(d) \in Request /\ ServerTakes(d, Outgoing(d))
      BY <1>2, OutgoingType DEF ServerAnswers
    <2>2. server' \in [version: Version, data: Dataset, by: Devices] /\ released' \in Dataset
      BY <2>1, TakesType
    <2> DEFINE f == [flush[d] EXCEPT !.pc = IF @ = "ensure" THEN "ensured" ELSE "answered",
                                     !.ok = Accepts(Outgoing(d).base), !.version = server'.version]
    <2>3. f \in Flush /\ f.item = flush[d].item
      BY <1>0, <2>2 DEF Flush, Accepts, DecidePut
    <2>4. flush' = [flush EXCEPT ![d] = f]
      BY <1>2 DEF ServerAnswers, Typed, TypeOK
    <2>5. flush[d].item \in Item
      BY <1>2 DEF ServerAnswers, Typed, HasItem
    <2> HIDE DEF f
    <2>6. flush' \in [Devices -> Flush] /\ HasItem'
      BY <2>3, <2>4, <2>5 DEF Typed, TypeOK, HasItem
    <2>7. UNCHANGED <<client, late, pull, choice, paused, made, chosen, faults>>
      BY <1>2 DEF ServerAnswers
    <2> QED BY <2>2, <2>6, <2>7 DEF Typed, TypeOK, client
  <1>3. CASE Ensured(d)
    <2>0. flush[d].item \in Item
      BY <1>3 DEF Ensured, Typed, HasItem
    <2> DEFINE i == [flush[d].item EXCEPT !.base = IF flush[d].ok THEN flush[d].version ELSE @]
               f == [flush[d] EXCEPT !.pc = "put", !.item = i]
    <2>1. i \in Item
      BY <1>0, <2>0 DEF Item, Flush
    <2>2. flush' = [flush EXCEPT ![d] = f]
      <3>1. DOMAIN flush = Devices
        BY DEF Typed, TypeOK
      <3>2. flush' = [flush EXCEPT ![d].pc = "put",
                                   ![d].item.base = IF flush[d].ok THEN flush[d].version ELSE @]
        BY <1>3 DEF Ensured
      <3> QED BY <3>1, <3>2
    <2> HIDE DEF i
    <2>3. f \in Flush /\ f.item = i
      BY <1>0, <2>1 DEF Flush
    <2> HIDE DEF f
    <2>4. flush' \in [Devices -> Flush] /\ HasItem'
      BY <2>1, <2>2, <2>3 DEF Typed, TypeOK, HasItem
    <2>5. UNCHANGED <<server, client, late, pull, choice, paused, tally>>
      BY <1>3 DEF Ensured
    <2> QED BY <2>4, <2>5 DEF Typed, TypeOK, client, tally
  <1>4. CASE Accepted(d)
    <2> DEFINE item == flush[d].item  v == flush[d].version
               q == Rebased(item, Remaining(d, item), v)
               m == [version |-> v, stamp |-> v, hash |-> item.data]
    <2>0. item \in Item /\ v \in Version
      BY <1>0, <1>4 DEF Accepted, Typed, HasItem, Flush
    <2>1. q \in Item \cup {None}
      <3>1. Remaining(d, item) \in Item \cup {None}
        BY <1>0 DEF Remaining
      <3>2. CanRebase(item, Remaining(d, item), v) => Remaining(d, item) \in Item
        BY <3>1 DEF CanRebase
      <3> HIDE DEF item, v
      <3> QED BY <2>0, <3>1, <3>2 DEF Rebased, Item
    <2>2. m \in Meta /\ item.data \in Dataset
      BY <2>0 DEF Meta, Item
    <2>3. /\ queue' = [queue EXCEPT ![d] = q] /\ meta' = [meta EXCEPT ![d] = m]
          /\ backup' = [backup EXCEPT ![d] = IF @ = item.data THEN None ELSE @]
          /\ flush' = [flush EXCEPT ![d] = NoFlush]
          /\ UNCHANGED <<server, local, late, pull, choice, paused, tally>>
      BY <1>4 DEF Accepted
    <2>4. flush' \in [Devices -> Flush] /\ HasItem'
      BY <2>3, Constants DEF Typed, TypeOK, HasItem, NoFlush
    <2>5. queue' \in [Devices -> Item \cup {None}] /\ meta' \in [Devices -> Meta]
      <3> HIDE DEF q, m
      <3> QED BY <2>1, <2>2, <2>3 DEF Typed, TypeOK
    <2>6. backup' \in [Devices -> Dataset \cup {None}]
      BY <2>3 DEF Typed, TypeOK
    <2> QED BY <2>3, <2>4, <2>5, <2>6 DEF Typed, TypeOK, tally
  <1>5. CASE Rejected(d)
    <2>0. flush[d].item.data \in Dataset
      BY <1>5 DEF Rejected, Typed, HasItem, Item
    <2>1. Remaining(d, flush[d].item) \in Item \cup {None}
      BY <1>0 DEF Remaining
    <2>2. flush' \in [Devices -> Flush] /\ HasItem'
      BY <1>5, Constants DEF Rejected, Typed, TypeOK, HasItem, NoFlush
    <2>3. pull' \in [Devices -> Read]
      <3>1. [NoRead EXCEPT !.pc = "row"] \in Read
        BY Constants DEF NoRead, Read
      <3> QED BY <1>5, <3>1 DEF Rejected, PullBegins, Typed, TypeOK
    <2>4. queue' \in [Devices -> Item \cup {None}] /\ backup' \in [Devices -> Dataset \cup {None}]
      BY <1>5, <2>0, <2>1 DEF Rejected, Typed, TypeOK
    <2> QED BY <1>5, <2>2, <2>3, <2>4 DEF Rejected, Typed, TypeOK, tally
  <1> QED BY <1>1, <1>2, <1>3, <1>4, <1>5 DEF Upload

LEMMA PullTyped == ASSUME Typed, NEW d \in Devices, Pulling(d) PROVE Typed'
  <1>0. pull[d] \in Read /\ server.version \in Version /\ server.data \in Dataset
    BY DEF Typed, TypeOK
  <1>1. CASE Pull(d)
    <2>1. [NoRead EXCEPT !.pc = "row"] \in Read
      BY Constants DEF NoRead, Read
    <2> QED BY <1>1, <2>1 DEF Pull, PullBegins, Typed, TypeOK, HasItem, client, tally
  <1>2. CASE PullRow(d)
    <2> DEFINE r == [pull[d] EXCEPT !.pc = "snap", !.version = server.version]
    <2>1. r \in Read
      BY <1>0 DEF Read
    <2>2. pull' = [pull EXCEPT ![d] = r]
      BY <1>2 DEF PullRow, Typed, TypeOK
    <2> HIDE DEF r
    <2>3. pull' \in [Devices -> Read]
      BY <2>1, <2>2 DEF Typed, TypeOK
    <2> QED BY <1>2, <2>3 DEF PullRow, Typed, TypeOK, HasItem, client, tally
  <1>3. CASE PullSnap(d)
    <2> DEFINE r == [pull[d] EXCEPT !.pc = "got", !.data = server.data]
    <2>1. r \in Read
      BY <1>0 DEF Read
    <2>2. pull' = [pull EXCEPT ![d] = r]
      BY <1>3 DEF PullSnap, Typed, TypeOK
    <2> HIDE DEF r
    <2>3. pull' \in [Devices -> Read]
      BY <2>1, <2>2 DEF Typed, TypeOK
    <2> QED BY <1>3, <2>3 DEF PullSnap, Typed, TypeOK, HasItem, client, tally
  <1>4. CASE PullSeeds(d)
    <2>1. queue' \in [Devices -> Item \cup {None}]
      BY <1>4, PushQueues, Constants DEF PullSeeds, Typed, TypeOK
    <2>2. meta' \in [Devices -> Meta] /\ pull' \in [Devices -> Read]
      BY <1>4, Constants DEF PullSeeds, Typed, TypeOK
    <2> QED BY <1>4, <2>1, <2>2 DEF PullSeeds, Typed, TypeOK, HasItem, tally
  <1>5. CASE PullSkips(d)
    <2>1. pull' \in [Devices -> Read]
      BY <1>5, Constants DEF PullSkips, Typed, TypeOK
    <2> QED BY <1>5, <2>1 DEF PullSkips, Typed, TypeOK, HasItem, client, tally
  <1>6. CASE PullImports(d)
    <2>1. [pull[d] EXCEPT !.pc = "import"] \in Read
      BY <1>0 DEF Read
    <2>2. pull' \in [Devices -> Read] /\ paused' \in [Devices -> BOOLEAN]
      BY <1>6, <2>1 DEF PullImports, Typed, TypeOK
    <2> QED BY <1>6, <2>2 DEF PullImports, Typed, TypeOK, HasItem, client, tally
  <1>7. CASE PullSaves(d)
    <2>1. SaveSynced(d, pull[d])
      BY <1>7 DEF PullSaves
    <2> QED BY <1>0, <1>7, <2>1, SaveTyped, NewPageTyped DEF PullSaves, Typed, TypeOK, tally
  <1> QED BY <1>1, <1>2, <1>3, <1>4, <1>5, <1>6, <1>7 DEF Pulling

LEMMA ChooseTyped == ASSUME Typed, NEW d \in Devices, Choosing(d) PROVE Typed'
  <1>0. choice[d] \in Read /\ server.version \in Version /\ server.data \in Dataset
    BY DEF Typed, TypeOK
  <1>1. CASE Choose(d)
    <2>1. PICK k \in Choices :
            /\ \/ k = "keepDevice" /\ ~paused[d] /\ local[d] # {}
               \/ k \in {"keepBackup", "useServer"} /\ backup[d] # None
            /\ choice' = [choice EXCEPT ![d] =
                 [NoRead EXCEPT !.pc = "row", !.kind = k,
                                !.data = CASE k = "keepDevice" -> local[d]
                                           [] k = "keepBackup" -> backup[d]
                                           [] k = "useServer" -> {}]]
      BY <1>1, Zenon DEF Choose
    <2> DEFINE data == CASE k = "keepDevice" -> local[d]
                         [] k = "keepBackup" -> backup[d]
                         [] k = "useServer" -> {}
               r == [NoRead EXCEPT !.pc = "row", !.kind = k, !.data = data]
    <2>2. data \in Dataset
      <3>1. CASE k = "keepDevice"
        BY <3>1 DEF Typed, TypeOK
      <3>2. CASE k = "keepBackup"
        <4>1. backup[d] \in Dataset
          BY <2>1, <3>2 DEF Typed, TypeOK
        <4> QED BY <3>2, <4>1
      <3>3. CASE k = "useServer"
        BY <3>3, Constants
      <3> QED BY <2>1, <3>1, <3>2, <3>3
    <2> HIDE DEF data
    <2>3. r \in Read
      BY <2>2, Constants DEF NoRead, Read
    <2>4. choice' = [choice EXCEPT ![d] = r]
      BY <2>1 DEF data
    <2> HIDE DEF r
    <2>5. choice' \in [Devices -> Read]
      BY <2>3, <2>4 DEF Typed, TypeOK
    <2>6. chosen' \in 0 .. MaxChoices
      BY <1>1, SyncAssumption DEF Choose, Typed, TypeOK
    <2> QED BY <1>1, <2>5, <2>6 DEF Choose, Typed, TypeOK, HasItem, client
  <1>2. CASE ChoiceRow(d)
    <2> DEFINE r == [choice[d] EXCEPT !.pc = IF choice[d].kind = "useServer" THEN "snap" ELSE "got",
                                      !.version = server.version]
    <2>1. r \in Read
      BY <1>0 DEF Read
    <2>2. choice' = [choice EXCEPT ![d] = r]
      BY <1>2 DEF ChoiceRow, Typed, TypeOK
    <2>3. released' \in Dataset
      BY <1>0, <1>2 DEF ChoiceRow, Releases, Typed, TypeOK, Dataset
    <2> HIDE DEF r
    <2>4. choice' \in [Devices -> Read]
      BY <2>1, <2>2 DEF Typed, TypeOK
    <2> QED BY <1>2, <2>3, <2>4 DEF ChoiceRow, Typed, TypeOK, HasItem, client
  <1>3. CASE ChoiceSnap(d)
    <2> DEFINE r == [choice[d] EXCEPT !.pc = "got", !.data = server.data]
    <2>1. r \in Read
      BY <1>0 DEF Read
    <2>2. choice' = [choice EXCEPT ![d] = r]
      BY <1>3 DEF ChoiceSnap, Typed, TypeOK
    <2> HIDE DEF r
    <2>3. choice' \in [Devices -> Read]
      BY <2>1, <2>2 DEF Typed, TypeOK
    <2> QED BY <1>3, <2>3 DEF ChoiceSnap, Typed, TypeOK, HasItem, client, tally
  <1>4. CASE Keep(d)
    <2>0. choice[d].version \in Version /\ choice[d].data \in Dataset
      BY <1>0 DEF Read
    <2>1. queue' \in [Devices -> Item \cup {None}]
      <3>1. NewItem(choice[d].data, choice[d].version) \in Item
        BY <2>0, NewItemType
      <3>2. Upsert(d, NewItem(choice[d].data, choice[d].version))
        BY <1>4 DEF Keep
      <3> QED BY <3>1, <3>2, UpsertQueues DEF Typed, TypeOK
    <2>2. meta' \in [Devices -> Meta]
      <3> DEFINE m == [meta[d] EXCEPT !.version = choice[d].version, !.hash = None]
      <3>0. meta[d] \in Meta
        BY DEF Typed, TypeOK
      <3>1. m \in Meta
        BY <2>0, <3>0 DEF Meta
      <3>2. meta' = [meta EXCEPT ![d] = m] \/ meta' = meta
        BY <1>4 DEF Keep, Typed, TypeOK
      <3> HIDE DEF m
      <3> QED BY <3>1, <3>2 DEF Typed, TypeOK
    <2>3. choice' \in [Devices -> Read]
      BY <1>4, Constants DEF Keep, Typed, TypeOK
    <2> QED BY <1>4, <2>1, <2>2, <2>3 DEF Keep, Typed, TypeOK, HasItem, tally
  <1>5. CASE UseMissing(d)
    <2>1. choice' \in [Devices -> Read] /\ backup' \in [Devices -> Dataset \cup {None}]
      BY <1>5, Constants DEF UseMissing, Typed, TypeOK
    <2> QED BY <1>5, <2>1 DEF UseMissing, Typed, TypeOK, HasItem, tally
  <1>6. CASE UseImports(d)
    <2>1. [choice[d] EXCEPT !.pc = "import"] \in Read
      BY <1>0 DEF Read
    <2>2. choice' \in [Devices -> Read] /\ paused' \in [Devices -> BOOLEAN]
      BY <1>6, <2>1 DEF UseImports, Typed, TypeOK
    <2> QED BY <1>6, <2>2 DEF UseImports, Typed, TypeOK, HasItem, client, tally
  <1>7. CASE UseSaves(d)
    <2>1. SaveSynced(d, choice[d])
      BY <1>7 DEF UseSaves
    <2>2. backup' \in [Devices -> Dataset \cup {None}]
      BY <1>7 DEF UseSaves, Typed, TypeOK
    <2> QED BY <1>0, <1>7, <2>1, <2>2, SaveTyped, NewPageTyped DEF UseSaves, Typed, TypeOK, tally
  <1> QED BY <1>1, <1>2, <1>3, <1>4, <1>5, <1>6, <1>7 DEF Choosing

LEMMA FaultyTyped == ASSUME Typed, NEW d \in Devices, Faulty(d) PROVE Typed'
  <1>1. CASE Reopen(d)
    BY <1>1, PageTyped
  <1>2. CASE FlushFails(d)
    <2>1. flush[d].item \in Item
      BY <1>2 DEF FlushFails, Typed, HasItem
    <2>2. queue' \in [Devices -> Item \cup {None}]
      BY <1>2, <2>1, UpsertQueues DEF FlushFails, Typed, TypeOK
    <2>3. flush' \in [Devices -> Flush] /\ HasItem'
      BY <1>2, Constants DEF FlushFails, Typed, TypeOK, HasItem, NoFlush
    <2>4. late' \in [Devices -> Request \cup {None}]
      <3>1. PICK r \in {late[d], Outgoing(d)} : late' = [late EXCEPT ![d] = r]
        BY <1>2 DEF FlushFails, Abandon
      <3>2. r \in Request \cup {None}
        BY OutgoingType DEF Typed, TypeOK
      <3> QED BY <3>1, <3>2 DEF Typed, TypeOK
    <2>5. faults' \in 0 .. MaxFaults
      BY <1>2, SyncAssumption DEF FlushFails, Typed, TypeOK
    <2> QED BY <1>2, <2>2, <2>3, <2>4, <2>5 DEF FlushFails, Typed, TypeOK
  <1>3. CASE LateRequest(d)
    <2>1. late[d] \in Request /\ ServerTakes(d, late[d])
      BY <1>3 DEF LateRequest, Typed, TypeOK
    <2>2. server' \in [version: Version, data: Dataset, by: Devices] /\ released' \in Dataset
      BY <2>1, TakesType
    <2>3. late' \in [Devices -> Request \cup {None}]
      BY <1>3 DEF LateRequest, Typed, TypeOK
    <2> QED BY <1>3, <2>2, <2>3 DEF LateRequest, Typed, TypeOK, HasItem, client
  <1>4. CASE PullFails(d)
    <2>1. pull' \in [Devices -> Read]
      BY <1>4, Constants DEF PullFails, Typed, TypeOK
    <2>2. faults' \in 0 .. MaxFaults
      BY <1>4, SyncAssumption DEF PullFails, Typed, TypeOK
    <2> QED BY <1>4, <2>1, <2>2 DEF PullFails, Typed, TypeOK, HasItem, client
  <1> QED BY <1>1, <1>2, <1>3, <1>4 DEF Faulty

LEMMA NextTyped == ASSUME Typed, [Next]_vars PROVE Typed'
  <1>1. CASE UNCHANGED vars
    BY <1>1 DEF vars, client, tally, Typed, TypeOK, HasItem
  <1>2. CASE Next
    BY <1>2, PageTyped, UploadTyped, PullTyped, ChooseTyped, FaultyTyped DEF Next
  <1> QED BY <1>1, <1>2

(* Every variable keeps its shape, on a new account and on one in use.       *)
THEOREM TypeCorrect == (Spec => []TypeOK) /\ (SpecInUse => []TypeOK)
  <1>1. Typed => TypeOK
    BY DEF Typed
  <1> QED BY <1>1, InitTyped, InUseTyped, NextTyped, PTL DEF Spec, SpecInUse

-----------------------------------------------------------------------------
(* The invariant.                                                            *)

(* Of the edits in D, those of other devices are in S.                       *)
Within(d, D, S) == \A e \in D : e[1] = d \/ e \in S

(* A push of D with base b, sent by d, would take no other device's edit     *)
(* off the server srv but released ones, now or ever after.                  *)
Covers(srv, rel, d, D, b) ==
  /\ b <= srv.version
  /\ b = srv.version => Within(d, srv.data, D \cup rel)

(* Everything a device could still send: what it shows, what it saved as     *)
(* exchanged, and every snapshot it keeps or has sent.                       *)
Held(d) ==
  local[d]
    \cup (IF meta[d].hash = None THEN {} ELSE meta[d].hash)
    \cup (IF queue[d] = None THEN {} ELSE queue[d].data)
    \cup (IF backup[d] = None THEN {} ELSE backup[d])
    \cup (IF flush[d].pc = "idle" THEN {} ELSE flush[d].item.data)
    \cup (IF late[d] = None THEN {} ELSE late[d].data)
    \cup (IF choice[d].kind = "useServer" THEN {} ELSE choice[d].data)

(* Others' edits reach a device from the server, so the server has them or   *)
(* their loss is accounted for; and the device shows them.                   *)
Known(d) == Within(d, Held(d) \cup pull[d].data \cup choice[d].data, server.data \cup released)
Shown(d) == Within(d, Held(d), local[d] \cup released)

(* The row is read before the copy: a label that is still the server's       *)
(* version labels the server's copy, and a copy read brings up to date.      *)
Fresh(srv, read) ==
  /\ read.pc # "idle" => read.version <= srv.version
  /\ read.pc \in {"got", "import"} /\ read.version = srv.version => read.data = srv.data
Fetched(d, read) ==
  read.pc \in {"got", "import"} => Within(d, Held(d), read.data \cup released)

Pulled(d) == Fresh(server, pull[d]) /\ Fetched(d, pull[d])

(* Confirming to keep a copy releases what the server had at that version.   *)
Kept(d) ==
  /\ choice[d].pc \in {"row", "got"}
  /\ choice[d].version <= server.version
  /\ choice[d].pc = "got" =>
       /\ Within(d, Held(d), released)
       /\ choice[d].version = server.version => server.data \subseteq released

Chosen(d) ==
  /\ choice[d].kind = "pull" => choice[d].pc = "idle"
  /\ choice[d].kind = "useServer" => Fresh(server, choice[d]) /\ Fetched(d, choice[d])
  /\ choice[d].kind \in {"keepDevice", "keepBackup"} => Kept(d)

(* What is shown may be pushed at the bookmark's version.                    *)
Bookmarked(d) == Covers(server, released, d, local[d], meta[d].version)

(* A snapshot may be pushed at its base; one of the page now open has all    *)
(* of others' edits that the page shows, so it may be rebased on another.    *)
Sound(srv, rel, shown, d, item) ==
  /\ Covers(srv, rel, d, item.data, item.base)
  /\ item.page => Within(d, shown, item.data \cup rel)

Queued(d) == queue[d] # None => Sound(server, released, local[d], d, queue[d])
Latent(d) ==
  late[d] # None /\ ~late[d].creates
    => Covers(server, released, d, late[d].data, late[d].base)

(* What the answer to an upload says still holds of the server, and what is  *)
(* queued meanwhile is of this page.                                         *)
Uploading(d) ==
  flush[d].pc # "idle" =>
    /\ Sound(server, released, local[d], d, flush[d].item)
    /\ flush[d].pc = "ensured" /\ flush[d].ok =>
         Covers(server, released, d, flush[d].item.data, flush[d].version)
    /\ flush[d].pc = "answered" /\ flush[d].ok =>
         /\ flush[d].version <= server.version
         /\ flush[d].version = server.version => flush[d].item.data = server.data
    /\ queue[d] # None => queue[d].page \/ queue[d].data = flush[d].item.data

Client(d) ==
  /\ Known(d) /\ Shown(d)
  /\ Pulled(d) /\ Chosen(d)
  /\ Bookmarked(d) /\ Queued(d) /\ Latent(d) /\ Uploading(d)

Invariant ==
  /\ Typed
  /\ server.version = 0 => server.data = {}
  /\ \A d \in Devices : Client(d)

-----------------------------------------------------------------------------
(* The initial states.                                                       *)

(* Where nothing is in progress and every device shows what the server has,  *)
(* or nothing, at the bookmark's version.                                    *)
LEMMA QuietClient ==
  ASSUME Typed, Quiet, NEW d \in Devices,
         meta[d].hash # None => meta[d].hash = local[d],
         local[d] = server.data, meta[d].version = server.version
  PROVE  Client(d)
  <1>1. /\ queue[d] = None /\ backup[d] = None /\ flush[d] = NoFlush /\ late[d] = None
        /\ pull[d] = NoRead /\ choice[d] = NoRead /\ released = {}
    BY DEF Quiet
  <1>2. Held(d) = local[d]
    BY <1>1 DEF Held, NoFlush, NoRead
  <1>3. Known(d) /\ Shown(d)
    BY <1>1, <1>2 DEF Known, Shown, Within, NoRead
  <1>4. Pulled(d) /\ Chosen(d)
    BY <1>1 DEF Pulled, Chosen, Fresh, Fetched, NoRead
  <1>5. Bookmarked(d)
    BY Constants DEF Bookmarked, Covers, Within, Typed, TypeOK
  <1>6. Queued(d) /\ Latent(d) /\ Uploading(d)
    BY <1>1 DEF Queued, Latent, Uploading, NoFlush
  <1> QED BY <1>3, <1>4, <1>5, <1>6 DEF Client

LEMMA InitInvariant == Init => Invariant
  <1> SUFFICES ASSUME Init PROVE Invariant
    OBVIOUS
  <1>1. Typed /\ Quiet
    BY InitTyped DEF Init
  <1>2. server.version = 0 /\ server.data = {}
    BY DEF Init
  <1>3. ASSUME NEW d \in Devices PROVE Client(d)
    <2>1. local[d] = {} /\ meta[d] = NoMeta
      BY DEF Init
    <2> QED BY <1>1, <1>2, <2>1, QuietClient DEF NoMeta
  <1> QED BY <1>1, <1>2, <1>3 DEF Invariant

LEMMA InUseInvariant == InUse => Invariant
  <1> SUFFICES ASSUME InUse PROVE Invariant
    OBVIOUS
  <1>1. PICK first \in Devices :
          LET seed == {<<first, 0>>} IN
          /\ server = [version |-> 2, data |-> seed, by |-> first]
          /\ local = [d \in Devices |-> seed]
          /\ meta = [d \in Devices |-> [version |-> 2, stamp |-> 2, hash |-> seed]]
          /\ Quiet
    BY DEF InUse
  <1>2. Typed
    BY InUseTyped
  <1>3. ASSUME NEW d \in Devices PROVE Client(d)
    <2>1. local[d] = server.data /\ meta[d].version = server.version /\ meta[d].hash = local[d]
      BY <1>1
    <2> QED BY <1>1, <1>2, <2>1, QuietClient
  <1>4. server.version # 0
    BY <1>1
  <1> QED BY <1>2, <1>3, <1>4 DEF Invariant

-----------------------------------------------------------------------------
(* Steps of the server.                                                      *)

(* Time only adds to what is released; the server's version moves forward,   *)
(* and what its copy loses is released.                                      *)
Moves ==
  /\ released \subseteq released'
  /\ \/ server' = server
     \/ server'.version > server.version /\ server.data \subseteq server'.data \cup released'

LEMMA ServerTyped ==
  ASSUME Typed
  PROVE  server.version \in Nat /\ server.data \in Dataset /\ server.by \in Devices
  BY Constants DEF Typed, TypeOK

(* A push is accepted at the server's version, or by an empty server.        *)
LEMMA AcceptsWhen ==
  ASSUME Typed, NEW base, Accepts(base)
  PROVE  base = server.version \/ server.version = 0
  <1> DEFINE some == server.version > 0
  <1>1. DecidePut([exists |-> some, deleted |-> FALSE, force |-> FALSE, hasBase |-> TRUE,
                   base |-> base, current |-> server.version, older |-> FALSE])
    BY DEF Accepts
  <1>2. some \in BOOLEAN
    OBVIOUS
  <1>3. ~some => server.version = 0
    BY ServerTyped
  <1> HIDE DEF some
  <1>4. ~some \/ base = server.version
    BY <1>1, <1>2 DEF DecidePut, IsVersioned
  <1> QED BY <1>3, <1>4

(* A push that covers what it would replace takes away only its own device's *)
(* edits and released ones.                                                  *)
LEMMA TakesMoves ==
  ASSUME Invariant, NEW d \in Devices, NEW req \in Request, ServerTakes(d, req),
         ~req.creates => Covers(server, released, d, req.data, req.base)
  PROVE  /\ Moves
         /\ server'.version = 0 => server'.data = {}
         /\ Accepts(req.base) => /\ server'.version = server.version + 1
                                 /\ server'.data = IF req.creates THEN server.data ELSE req.data
         /\ ~Accepts(req.base) => server' = server
         /\ server' # server => server'.by = d
         /\ \A e \in server.data \ server'.data : e[1] = d \/ e \in released
  <1>0. server.version \in Nat /\ server.data \in Dataset
    BY ServerTyped DEF Invariant
  <1>1. CASE ~Accepts(req.base)
    BY <1>1 DEF ServerTakes, Moves, Invariant
  <1>2. CASE Accepts(req.base)
    <2> DEFINE data == IF req.creates THEN server.data ELSE req.data
    <2>1. server' = [version |-> server.version + 1, by |-> d, data |-> data]
      BY <1>2 DEF ServerTakes
    <2>2. released' = released \cup {e \in server.data \ data : e[1] = d}
      BY <1>2 DEF ServerTakes, Releases
    <2>3. req.base = server.version \/ server.version = 0
      BY <1>2, AcceptsWhen DEF Invariant
    <2>4. \A e \in server.data \ data : e[1] = d \/ e \in released
      <3>1. CASE req.creates
        BY <3>1
      <3>2. CASE server.version = 0
        BY <3>2 DEF Invariant
      <3>3. CASE ~req.creates /\ req.base = server.version
        BY <3>3 DEF Covers, Within
      <3> QED BY <2>3, <3>1, <3>2, <3>3
    <2>5. server.data \subseteq data \cup released'
      BY <2>2, <2>4
    <2> HIDE DEF data
    <2>6. Moves /\ server'.version # 0
      BY <1>0, <2>1, <2>2, <2>5 DEF Moves
    <2>7. /\ server'.version = server.version + 1 /\ server'.by = d
          /\ server'.data = IF req.creates THEN server.data ELSE req.data
      BY <2>1 DEF data
    <2>8. \A e \in server.data \ server'.data : e[1] = d \/ e \in released
      BY <2>1, <2>4
    <2> QED BY <1>2, <2>6, <2>7, <2>8
  <1> QED BY <1>1, <1>2

(* The request of an upload covers what it would replace.                    *)
LEMMA OutgoingCovers ==
  ASSUME Invariant, NEW d \in Devices, Outgoing(d) # None, ~Outgoing(d).creates
  PROVE  Covers(server, released, d, Outgoing(d).data, Outgoing(d).base)
  <1>1. CASE flush[d].pc = "put"
    BY <1>1 DEF Outgoing, Invariant, Client, Uploading, Sound
  <1>2. CASE flush[d].pc # "put"
    BY <1>2 DEF Outgoing
  <1> QED BY <1>1, <1>2

(* What covered the server still does after it moved.                        *)
LEMMA CoversKept ==
  ASSUME Typed, Typed', Moves, NEW d, NEW D, NEW b \in Nat,
         Covers(server, released, d, D, b)
  PROVE  \A E : D \subseteq E => Covers(server', released', d, E, b)
  <1>1. server.version \in Nat /\ server'.version \in Nat
    BY Constants DEF Typed, TypeOK
  <1>2. CASE server' = server
    BY <1>2 DEF Covers, Within, Moves
  <1>3. CASE server'.version > server.version
    BY <1>1, <1>3 DEF Covers
  <1> QED BY <1>2, <1>3 DEF Moves

LEMMA FreshKept ==
  ASSUME Typed, Typed', Moves, NEW read \in Read, Fresh(server, read)
  PROVE  Fresh(server', read)
  <1>1. server.version \in Nat /\ server'.version \in Nat /\ read.version \in Nat
    BY Constants DEF Typed, TypeOK, Read
  <1> QED BY <1>1 DEF Fresh, Moves

LEMMA SoundKept ==
  ASSUME Typed, Typed', Moves, NEW d, NEW shown, NEW item \in Item,
         Sound(server, released, shown, d, item)
  PROVE  \A now : Within(d, now, shown) => Sound(server', released', now, d, item)
  <1>1. Covers(server', released', d, item.data, item.base)
    BY CoversKept, Constants DEF Sound, Item
  <1>2. item.page => \A now : Within(d, now, shown) => Within(d, now, item.data \cup released')
    BY DEF Sound, Within, Moves
  <1> QED BY <1>1, <1>2 DEF Sound

-----------------------------------------------------------------------------
(* A device whose page and server requests take no step.                     *)
Waits(d) ==
  /\ local'[d] = local[d] /\ meta'[d] = meta[d] /\ queue'[d] = queue[d]
  /\ backup'[d] = backup[d] /\ flush'[d] = flush[d] /\ late'[d] = late[d]
  /\ pull'[d] = pull[d] /\ choice'[d] = choice[d]

(* More of Held only in pieces, each of which is looked at by itself.        *)
LEMMA HeldHas ==
  ASSUME NEW d \in Devices
  PROVE  /\ Within(d, local[d], Held(d))
         /\ meta[d].hash # None => Within(d, meta[d].hash, Held(d))
         /\ queue[d] # None => Within(d, queue[d].data, Held(d))
         /\ backup[d] # None => Within(d, backup[d], Held(d))
         /\ flush[d].pc # "idle" => Within(d, flush[d].item.data, Held(d))
         /\ late[d] # None => Within(d, late[d].data, Held(d))
         /\ choice[d].kind # "useServer" => Within(d, choice[d].data, Held(d))
  BY DEF Held, Within

LEMMA HeldBy ==
  ASSUME NEW d \in Devices, NEW S,
         Within(d, local'[d], S),
         meta'[d].hash # None => Within(d, meta'[d].hash, S),
         queue'[d] # None => Within(d, queue'[d].data, S),
         backup'[d] # None => Within(d, backup'[d], S),
         flush'[d].pc # "idle" => Within(d, flush'[d].item.data, S),
         late'[d] # None => Within(d, late'[d].data, S),
         choice'[d].kind # "useServer" => Within(d, choice'[d].data, S)
  PROVE  Within(d, Held(d)', S)
  BY DEF Held, Within

LEMMA WaitingHolds ==
  ASSUME NEW d \in Devices, Waits(d)
  PROVE  Held(d)' = Held(d)
  BY DEF Held, Waits

(* Each part of the invariant is kept by what does not touch its variables.  *)
LEMMA PulledKept ==
  ASSUME Typed, Typed', Moves, NEW d \in Devices, pull'[d] = pull[d], Pulled(d),
         Within(d, Held(d)', Held(d))
  PROVE  Pulled(d)'
  <1>1. pull[d] \in Read
    BY DEF Typed, TypeOK
  <1>2. Fresh(server', pull[d])
    BY <1>1, FreshKept DEF Pulled
  <1>3. Fetched(d, pull[d])'
    BY DEF Pulled, Fetched, Within, Moves
  <1> QED BY <1>2, <1>3 DEF Pulled

LEMMA ChosenKept ==
  ASSUME Typed, Typed', Moves, NEW d \in Devices, choice'[d] = choice[d], Chosen(d),
         Within(d, Held(d)', Held(d))
  PROVE  Chosen(d)'
  <1>1. choice[d] \in Read /\ choice[d].version \in Nat
    BY Constants DEF Typed, TypeOK, Read
  <1>2. server.version \in Nat /\ server'.version \in Nat
    BY Constants DEF Typed, TypeOK
  <1>3. choice[d].kind = "useServer" => Fresh(server', choice[d])
    BY <1>1, FreshKept DEF Chosen
  <1>4. choice[d].kind = "useServer" => Fetched(d, choice[d])'
    BY DEF Chosen, Fetched, Within, Moves
  <1>5. choice[d].kind \in {"keepDevice", "keepBackup"} => Kept(d)'
    <2> SUFFICES ASSUME choice[d].kind \in {"keepDevice", "keepBackup"} PROVE Kept(d)'
      OBVIOUS
    <2>1. Kept(d)
      BY DEF Chosen
    <2>2. choice[d].pc = "got" => Within(d, Held(d)', released')
      BY <2>1 DEF Kept, Within, Moves
    <2>3. choice[d].version <= server'.version
      BY <1>1, <1>2, <2>1 DEF Kept, Moves
    <2>4. choice[d].pc = "got" /\ choice[d].version = server'.version => server'.data \subseteq released'
      BY <1>1, <1>2, <2>1 DEF Kept, Moves
    <2> QED BY <2>1, <2>2, <2>3, <2>4 DEF Kept
  <1> QED BY <1>3, <1>4, <1>5 DEF Chosen

LEMMA BookmarkedKept ==
  ASSUME Typed, Typed', Moves, NEW d \in Devices, Bookmarked(d),
         local[d] \subseteq local'[d], meta'[d].version = meta[d].version
  PROVE  Bookmarked(d)'
  <1>1. meta[d].version \in Nat
    BY Constants DEF Typed, TypeOK, Meta
  <1> QED BY <1>1, CoversKept DEF Bookmarked

LEMMA QueuedKept ==
  ASSUME Typed, Typed', Moves, NEW d \in Devices, Queued(d),
         Within(d, local'[d], local[d]), queue'[d] = queue[d]
  PROVE  Queued(d)'
  <1>1. queue[d] # None => queue[d] \in Item
    BY DEF Typed, TypeOK
  <1> QED BY <1>1, SoundKept DEF Queued

LEMMA LatentKept ==
  ASSUME Typed, Typed', Moves, NEW d \in Devices, Latent(d), late'[d] \in {late[d], None}
  PROVE  Latent(d)'
  <1>1. late[d] # None => late[d] \in Request /\ late[d].base \in Nat
    BY Constants DEF Typed, TypeOK, Request
  <1>2. late[d] # None /\ ~late[d].creates => Covers(server', released', d, late[d].data, late[d].base)
    BY <1>1, CoversKept DEF Latent
  <1> QED BY <1>2 DEF Latent

LEMMA UploadingKept ==
  ASSUME Typed, Typed', Moves, NEW d \in Devices, Uploading(d),
         Within(d, local'[d], local[d]), flush'[d] = flush[d],
         queue'[d] # None => queue'[d] = queue[d] \/ queue'[d].page
  PROVE  Uploading(d)'
  <1> SUFFICES ASSUME flush[d].pc # "idle" PROVE Uploading(d)'
    BY DEF Uploading
  <1>1. flush[d].item \in Item /\ flush[d].version \in Nat
    BY Constants DEF Typed, HasItem, TypeOK, Flush
  <1>2. server.version \in Nat /\ server'.version \in Nat
    BY Constants DEF Typed, TypeOK
  <1>3. Sound(server', released', local'[d], d, flush[d].item)
    BY <1>1, SoundKept DEF Uploading
  <1>4. flush[d].pc = "ensured" /\ flush[d].ok =>
          Covers(server', released', d, flush[d].item.data, flush[d].version)
    BY <1>1, CoversKept DEF Uploading
  <1>5. flush[d].pc = "answered" /\ flush[d].ok =>
          /\ flush[d].version <= server'.version
          /\ flush[d].version = server'.version => flush[d].item.data = server'.data
    BY <1>1, <1>2 DEF Uploading, Moves
  <1>6. queue'[d] # None => queue'[d].page \/ queue'[d].data = flush[d].item.data
    BY DEF Uploading
  <1> QED BY <1>3, <1>4, <1>5, <1>6 DEF Uploading

(* What a device holds is still known, and shown, if it came from what it    *)
(* held, what it read or the server.                                         *)
LEMMA KnownKept ==
  ASSUME Moves, NEW d \in Devices, Known(d),
         Within(d, Held(d)' \cup pull'[d].data \cup choice'[d].data,
                Held(d) \cup pull[d].data \cup choice[d].data \cup server.data)
  PROVE  Known(d)'
  <1>1. Within(d, Held(d) \cup pull[d].data \cup choice[d].data \cup server.data,
               server'.data \cup released')
    BY DEF Known, Within, Moves
  <1> QED BY <1>1 DEF Known, Within

LEMMA ShownKept ==
  ASSUME Moves, NEW d \in Devices, Shown(d), local[d] \subseteq local'[d],
         Within(d, Held(d)', Held(d))
  PROVE  Shown(d)'
  BY DEF Shown, Within, Moves

LEMMA WaitingKept ==
  ASSUME Typed, Typed', Moves, NEW d \in Devices, Waits(d), Client(d)
  PROVE  Client(d)'
  <1>1. Within(d, Held(d)', Held(d)) /\ Within(d, local'[d], local[d]) /\ local[d] \subseteq local'[d]
    BY WaitingHolds DEF Within, Waits
  <1>2. Pulled(d)' /\ Chosen(d)'
    BY <1>1, PulledKept, ChosenKept DEF Waits, Client
  <1>3. Bookmarked(d)' /\ Queued(d)' /\ Latent(d)' /\ Uploading(d)'
    BY <1>1, BookmarkedKept, QueuedKept, LatentKept, UploadingKept DEF Waits, Client
  <1>4. Known(d)' /\ Shown(d)'
    <2>1. Within(d, Held(d)' \cup pull'[d].data \cup choice'[d].data,
                 Held(d) \cup pull[d].data \cup choice[d].data \cup server.data)
      BY WaitingHolds DEF Waits, Within
    <2> QED BY <1>1, <2>1, KnownKept, ShownKept DEF Client
  <1> QED BY <1>2, <1>3, <1>4 DEF Client

-----------------------------------------------------------------------------
(* Steps of a device.                                                        *)

(* A step that leaves the shown copy as it is but for edits of its own, and  *)
(* holds nothing new of others, keeps every part it does not write.          *)
Steady(d) ==
  /\ Within(d, Held(d)', Held(d))
  /\ local[d] \subseteq local'[d] /\ Within(d, local'[d], local[d])
  /\ Within(d, pull'[d].data \cup choice'[d].data,
            Held(d) \cup pull[d].data \cup choice[d].data \cup server.data)

LEMMA SteadyKept ==
  ASSUME Typed, Typed', Moves, NEW d \in Devices, Client(d), Steady(d)
  PROVE  /\ Known(d)' /\ Shown(d)'
         /\ pull'[d] = pull[d] => Pulled(d)'
         /\ choice'[d] = choice[d] => Chosen(d)'
         /\ meta'[d].version = meta[d].version => Bookmarked(d)'
         /\ queue'[d] = queue[d] => Queued(d)'
         /\ late'[d] \in {late[d], None} => Latent(d)'
         /\ flush'[d] = flush[d] /\ (queue'[d] # None => queue'[d] = queue[d] \/ queue'[d].page)
              => Uploading(d)'
  <1>1. Within(d, Held(d)' \cup pull'[d].data \cup choice'[d].data,
               Held(d) \cup pull[d].data \cup choice[d].data \cup server.data)
    BY DEF Steady, Within
  <1>2. Known(d)' /\ Shown(d)'
    BY <1>1, KnownKept, ShownKept DEF Steady, Client
  <1> QED BY <1>2, PulledKept, ChosenKept, BookmarkedKept, QueuedKept, LatentKept, UploadingKept
          DEF Steady, Client

(* A device that starts over has nothing to answer for.                      *)
LEMMA NothingRead ==
  ASSUME NEW d \in Devices
  PROVE  /\ pull'[d] = NoRead => Pulled(d)'
         /\ choice'[d] = NoRead => Chosen(d)'
         /\ flush'[d] = NoFlush => Uploading(d)'
  BY DEF Pulled, Chosen, Fresh, Fetched, Uploading, NoRead, NoFlush

LEMMA AbandonKept ==
  ASSUME Invariant, Typed', NEW d \in Devices, Abandon(d), UNCHANGED <<server, released>>
  PROVE  /\ Latent(d)'
         /\ late'[d] # None => Within(d, late'[d].data, Held(d))
  <1>1. PICK r \in {late[d], Outgoing(d)} : late'[d] = r
    BY DEF Abandon, Invariant, Typed, TypeOK
  <1>2. CASE r = late[d]
    BY <1>1, <1>2, HeldHas DEF Invariant, Client, Latent
  <1>3. CASE r = Outgoing(d)
    <2>1. Latent(d)'
      BY <1>1, <1>3, OutgoingCovers DEF Latent
    <2>2. Outgoing(d) # None => Within(d, Outgoing(d).data, Held(d))
      BY HeldHas DEF Outgoing, Within
    <2> QED BY <1>1, <1>3, <2>1, <2>2
  <1> QED BY <1>1, <1>2, <1>3

LEMMA NewPageKept ==
  ASSUME Invariant, Typed', NEW d \in Devices, NewPage(d), UNCHANGED <<server, released>>
  PROVE  /\ Pulled(d)' /\ Chosen(d)' /\ Queued(d)' /\ Latent(d)' /\ Uploading(d)'
         /\ queue'[d] # None => Within(d, queue'[d].data, Held(d))
         /\ late'[d] # None => Within(d, late'[d].data, Held(d))
         /\ flush'[d] = NoFlush /\ pull'[d] = NoRead /\ choice'[d] = NoRead
  <1>1. flush'[d] = NoFlush /\ pull'[d] = NoRead /\ choice'[d] = NoRead
    BY DEF NewPage, Invariant, Typed, TypeOK
  <1>2. Pulled(d)' /\ Chosen(d)' /\ Uploading(d)'
    BY <1>1, NothingRead
  <1>3. Latent(d)' /\ (late'[d] # None => Within(d, late'[d].data, Held(d)))
    BY AbandonKept DEF NewPage
  <1>4. CASE queue[d] = None
    <2>1. queue'[d] = None
      BY <1>4 DEF NewPage, Invariant, Typed, TypeOK
    <2> QED BY <1>1, <1>2, <1>3, <2>1 DEF Queued
  <1>5. CASE queue[d] # None
    <2>1. queue[d] \in Item
      BY <1>5 DEF Invariant, Typed, TypeOK
    <2>2. queue'[d] = [queue[d] EXCEPT !.page = FALSE]
      BY <1>5 DEF NewPage, Invariant, Typed, TypeOK
    <2>3. queue'[d].data = queue[d].data /\ queue'[d].base = queue[d].base /\ ~queue'[d].page
      BY <2>1, <2>2 DEF Item
    <2>4. Covers(server, released, d, queue[d].data, queue[d].base)
      BY <1>5 DEF Invariant, Client, Queued, Sound
    <2>5. Queued(d)'
      BY <2>3, <2>4 DEF Queued, Sound
    <2>6. Within(d, queue'[d].data, Held(d))
      BY <1>5, <2>3, HeldHas
    <2> QED BY <1>1, <1>2, <1>3, <2>5, <2>6
  <1> QED BY <1>4, <1>5

(* A copy is saved with its bookmark: it shows all that the device knew.     *)
LEMMA SaveKept ==
  ASSUME Invariant, Typed', NEW d \in Devices, NEW read \in Read,
         SaveSynced(d, read), UNCHANGED <<server, released>>, backup'[d] \in {backup[d], None},
         read.pc = "import", Fresh(server, read), Fetched(d, read),
         read.data \subseteq pull[d].data \cup choice[d].data
  PROVE  Client(d)'
  <1>0. Client(d)
    BY DEF Invariant
  <1>1. /\ local'[d] = read.data
        /\ meta'[d] = [version |-> read.version, stamp |-> read.version, hash |-> read.data]
        /\ NewPage(d)
    BY DEF SaveSynced, Invariant, Typed, TypeOK
  <1>2. /\ Pulled(d)' /\ Chosen(d)' /\ Queued(d)' /\ Latent(d)' /\ Uploading(d)'
        /\ queue'[d] # None => Within(d, queue'[d].data, Held(d))
        /\ late'[d] # None => Within(d, late'[d].data, Held(d))
        /\ flush'[d] = NoFlush /\ pull'[d] = NoRead /\ choice'[d] = NoRead
    BY <1>1, NewPageKept
  <1>3. Within(d, Held(d)', Held(d) \cup read.data)
    <2>1. backup'[d] # None => Within(d, backup'[d], Held(d) \cup read.data)
      BY HeldHas DEF Within
    <2>2. /\ queue'[d] # None => Within(d, queue'[d].data, Held(d) \cup read.data)
          /\ late'[d] # None => Within(d, late'[d].data, Held(d) \cup read.data)
      BY <1>2 DEF Within
    <2>3. Within(d, read.data, Held(d) \cup read.data)
      BY DEF Within
    <2>4. meta'[d].hash = read.data
      BY <1>1
    <2>5. flush'[d].pc = "idle" /\ Within(d, choice'[d].data, Held(d) \cup read.data)
      BY <1>2 DEF NoFlush, NoRead, Within
    <2> QED BY <1>1, <2>1, <2>2, <2>3, <2>4, <2>5, HeldBy
  <1>4. Within(d, Held(d), read.data \cup released)
    BY DEF Fetched
  <1>5. Shown(d)'
    BY <1>1, <1>3, <1>4 DEF Shown, Within
  <1>6. Known(d)'
    <2>1. Within(d, Held(d) \cup read.data, server.data \cup released)
      BY <1>0 DEF Client, Known, Within
    <2>2. pull'[d].data = {} /\ choice'[d].data = {}
      BY <1>2 DEF NoRead
    <2> QED BY <1>3, <2>1, <2>2 DEF Known, Within
  <1>7. Bookmarked(d)'
    <2>1. Covers(server, released, d, read.data, read.version)
      BY DEF Fresh, Covers, Within
    <2> QED BY <1>1, <2>1 DEF Bookmarked
  <1> QED BY <1>2, <1>5, <1>6, <1>7 DEF Client

LEMMA StillMoves == ASSUME UNCHANGED <<server, released>> PROVE Moves
  BY DEF Moves

(* Something of this page is queued: what it needs to be sound.              *)
LEMMA QueueingKept ==
  ASSUME Invariant, Typed', Moves, NEW d \in Devices, NEW q \in Item,
         queue' = [queue EXCEPT ![d] = q], q.page, local'[d] = local[d],
         Covers(server', released', d, q.data, q.base),
         Within(d, local[d], q.data \cup released')
  PROVE  Queued(d)' /\ queue'[d].page /\ queue'[d].data = q.data
  <1>1. queue'[d] = q
    BY DEF Invariant, Typed, TypeOK
  <1> QED BY <1>1 DEF Queued, Sound

LEMMA EditKept ==
  ASSUME Invariant, Typed', NEW d \in Devices, Edit(d)
  PROVE  Client(d)'
  <1>0. Typed /\ Client(d) /\ Moves
    BY StillMoves DEF Invariant, Edit
  <1>1. /\ local'[d] = local[d] \cup {<<d, made + 1>>}
        /\ UNCHANGED <<meta, queue, backup, flush, late, pull, choice>>
    BY <1>0 DEF Edit, Typed, TypeOK
  <1>2. local[d] \subseteq local'[d] /\ Within(d, local'[d], local[d])
    BY <1>1 DEF Within
  <1>3. Within(d, Held(d)', Held(d))
    <2>1. Within(d, local'[d], Held(d))
      BY <1>2, HeldHas DEF Within
    <2> QED BY <1>1, <2>1, HeldHas, HeldBy
  <1>4. Steady(d)
    BY <1>1, <1>2, <1>3 DEF Steady, Within
  <1> QED BY <1>0, <1>1, <1>4, SteadyKept DEF Client

LEMMA PushKept ==
  ASSUME Invariant, Typed', NEW d \in Devices, Push(d)
  PROVE  Client(d)'
  <1>0. Typed /\ Client(d) /\ Moves
    BY StillMoves DEF Invariant, Push, tally
  <1>1. UNCHANGED <<server, released, local, meta, backup, flush, late, pull, choice>>
    BY DEF Push, tally
  <1>2. PICK q \in Item : /\ queue' = [queue EXCEPT ![d] = q]
                          /\ q.data = local[d] /\ q.base = meta[d].version /\ q.page
    BY <1>0, PushQueues DEF Push, Typed, TypeOK
  <1>3. Queued(d)' /\ queue'[d].page /\ queue'[d].data = local[d]
    <2>1. Covers(server', released', d, q.data, q.base)
      BY <1>0, <1>1, <1>2 DEF Client, Bookmarked
    <2>2. Within(d, local[d], q.data \cup released')
      BY <1>2 DEF Within
    <2> QED BY <1>0, <1>1, <1>2, <2>1, <2>2, QueueingKept
  <1>4. Within(d, Held(d)', Held(d))
    BY <1>1, <1>3, HeldHas, HeldBy
  <1>5. Steady(d)
    BY <1>1, <1>4 DEF Steady, Within
  <1> QED BY <1>0, <1>1, <1>3, <1>5, SteadyKept DEF Client

LEMMA ReopenKept ==
  ASSUME Invariant, Typed', NEW d \in Devices, Reopen(d)
  PROVE  Client(d)'
  <1>0. Typed /\ Client(d) /\ Moves /\ NewPage(d)
    BY StillMoves DEF Invariant, Reopen
  <1>1. UNCHANGED <<server, released, local, meta, backup>>
    BY DEF Reopen
  <1>2. /\ Pulled(d)' /\ Chosen(d)' /\ Queued(d)' /\ Latent(d)' /\ Uploading(d)'
        /\ queue'[d] # None => Within(d, queue'[d].data, Held(d))
        /\ late'[d] # None => Within(d, late'[d].data, Held(d))
        /\ flush'[d] = NoFlush /\ pull'[d] = NoRead /\ choice'[d] = NoRead
    BY <1>0, <1>1, NewPageKept
  <1>3. Steady(d)
    <2>1. flush'[d].pc = "idle" /\ pull'[d].data = {} /\ choice'[d].data = {}
      BY <1>2 DEF NoFlush, NoRead
    <2>2. Within(d, choice'[d].data, Held(d))
      BY <2>1 DEF Within
    <2>3. Within(d, Held(d)', Held(d))
      BY <1>1, <1>2, <2>1, <2>2, HeldHas, HeldBy
    <2> QED BY <1>1, <2>1, <2>3 DEF Steady, Within
  <1> QED BY <1>0, <1>1, <1>2, <1>3, SteadyKept DEF Client

(* The upload reads what is queued.                                          *)
LEMMA FlushStartKept ==
  ASSUME Invariant, Typed', NEW d \in Devices, FlushStart(d)
  PROVE  Client(d)'
  <1>0. Typed /\ Client(d) /\ Moves
    BY StillMoves DEF Invariant, FlushStart, tally
  <1>1. /\ UNCHANGED <<server, released, local, meta, queue, backup, late, pull, choice>>
        /\ queue[d] # None
    BY DEF FlushStart, client, tally
  <1>2. flush'[d].item = queue[d] /\ flush'[d].pc \in {"ensure", "put"}
    BY DEF FlushStart, NoFlush, Invariant, Typed, TypeOK
  <1>3. Steady(d)
    <2>1. Within(d, Held(d)', Held(d))
      BY <1>1, <1>2, HeldHas, HeldBy
    <2> QED BY <1>1, <2>1 DEF Steady, Within
  <1>4. Uploading(d)'
    BY <1>0, <1>1, <1>2 DEF Uploading, Client, Queued
  <1> QED BY <1>0, <1>1, <1>3, <1>4, SteadyKept DEF Client

(* The server takes the request of the upload, or refuses it.                *)
LEMMA AnswerKept ==
  ASSUME Invariant, Typed', NEW d \in Devices, ServerAnswers(d)
  PROVE  Client(d)' /\ Moves /\ (server'.version = 0 => server'.data = {})
  <1>0. Typed /\ Client(d) /\ flush[d] \in Flush /\ flush[d].item \in Item
    BY DEF Invariant, Typed, TypeOK, HasItem, ServerAnswers
  <1>1. UNCHANGED <<local, meta, queue, backup, late, pull, choice>>
    BY DEF ServerAnswers, client
  <1> DEFINE req == Outgoing(d)
  <1>3. ~req.creates => Covers(server, released, d, req.data, req.base)
    <2>1. flush[d].pc = "ensure" => req.creates
      BY DEF Outgoing
    <2>2. flush[d].pc = "put" => req.data = flush[d].item.data /\ req.base = flush[d].item.base
      BY DEF Outgoing
    <2> QED BY <1>0, <2>1, <2>2 DEF ServerAnswers, Client, Uploading, Sound
  <1>4. /\ Moves
        /\ server'.version = 0 => server'.data = {}
        /\ Accepts(req.base) => /\ server'.version = server.version + 1
                                /\ server'.data = IF req.creates THEN server.data ELSE req.data
    <2>1. req \in Request /\ ServerTakes(d, req)
      BY <1>0, OutgoingType DEF ServerAnswers
    <2> HIDE DEF req
    <2> QED BY <1>3, <2>1, TakesMoves
  <1>5. /\ flush'[d].item = flush[d].item
        /\ flush'[d].pc = IF flush[d].pc = "ensure" THEN "ensured" ELSE "answered"
        /\ flush'[d].ok = Accepts(req.base)
        /\ flush'[d].version = server'.version
    BY <1>0 DEF ServerAnswers, Typed, TypeOK, Flush
  <1>6. Steady(d)
    <2>1. flush[d].pc # "idle"
      BY DEF ServerAnswers
    <2>2. Within(d, Held(d)', Held(d))
      BY <1>1, <1>5, <2>1, HeldHas, HeldBy
    <2> QED BY <1>1, <2>2 DEF Steady, Within
  <1>7. Uploading(d)'
    <2>0. flush[d].pc # "idle" /\ server'.version \in Nat
      BY Constants DEF ServerAnswers, Typed, TypeOK
    <2>1. Sound(server', released', local'[d], d, flush[d].item)
      BY <1>0, <1>4, <1>6, <2>0, SoundKept DEF Client, Uploading, Steady
    <2>2. ASSUME flush'[d].pc = "ensured", flush'[d].ok
          PROVE  Covers(server', released', d, flush[d].item.data, server'.version)
      <3>1. flush[d].pc = "ensure" /\ Accepts(0)
        BY <1>5, <2>2 DEF Outgoing
      <3>2. server.version = 0
        BY <1>0, <3>1, AcceptsWhen
      <3>3. server.data = {} /\ req.creates /\ Accepts(req.base)
        BY <3>1, <3>2 DEF Invariant, Outgoing
      <3>4. server'.data = {}
        BY <1>4, <3>3
      <3> QED BY <2>0, <3>4 DEF Covers, Within
    <2>3. ASSUME flush'[d].pc = "answered", flush'[d].ok
          PROVE  flush[d].item.data = server'.data
      <3>1. flush[d].pc = "put" /\ Accepts(req.base)
        BY <1>5, <2>3 DEF ServerAnswers
      <3>2. ~req.creates /\ req.data = flush[d].item.data
        BY <3>1 DEF Outgoing
      <3> QED BY <1>4, <3>1, <3>2
    <2>4. queue'[d] # None => queue'[d].page \/ queue'[d].data = flush[d].item.data
      BY <1>0, <1>1, <2>0 DEF Client, Uploading
    <2> QED BY <1>5, <2>0, <2>1, <2>2, <2>3, <2>4 DEF Uploading
  <1> QED BY <1>0, <1>1, <1>4, <1>6, <1>7, SteadyKept DEF Client

LEMMA EnsuredKept ==
  ASSUME Invariant, Typed', NEW d \in Devices, Ensured(d)
  PROVE  Client(d)'
  <1>0. Typed /\ Client(d) /\ Moves /\ flush[d] \in Flush /\ flush[d].item \in Item
    BY StillMoves DEF Invariant, Ensured, tally, Typed, TypeOK, HasItem
  <1>1. UNCHANGED <<server, released, local, meta, queue, backup, late, pull, choice>>
    BY DEF Ensured, client, tally
  <1>2. /\ flush'[d].pc = "put"
        /\ flush'[d].item.data = flush[d].item.data /\ flush'[d].item.page = flush[d].item.page
        /\ flush'[d].item.base = IF flush[d].ok THEN flush[d].version ELSE flush[d].item.base
    BY <1>0 DEF Ensured, Typed, TypeOK, Flush, Item
  <1>3. flush[d].pc = "ensured"
    BY DEF Ensured
  <1>4. Steady(d)
    <2>1. Within(d, Held(d)', Held(d))
      BY <1>1, <1>2, <1>3, HeldHas, HeldBy
    <2> QED BY <1>1, <2>1 DEF Steady, Within
  <1>5. Uploading(d)'
    BY <1>0, <1>1, <1>2, <1>3 DEF Uploading, Client, Sound
  <1> QED BY <1>0, <1>1, <1>4, <1>5, SteadyKept DEF Client

(* An accepted push: the bookmark moves to it, and a successor of the same   *)
(* page, which has all of others' edits the page shows, moves with it.       *)
LEMMA AcceptedKept ==
  ASSUME Invariant, Typed', NEW d \in Devices, Accepted(d)
  PROVE  Client(d)'
  <1> DEFINE item == flush[d].item
             v == flush[d].version
             pending == Remaining(d, item)
  <1>0. Typed /\ Client(d) /\ Moves /\ flush[d] \in Flush /\ item \in Item /\ v \in Nat
    BY StillMoves, Constants DEF Invariant, Accepted, tally, Typed, TypeOK, HasItem, Flush
  <1>1. /\ UNCHANGED <<server, released, local, late, pull, choice>>
        /\ queue'[d] = Rebased(item, pending, v)
        /\ backup'[d] \in {backup[d], None}
        /\ meta'[d] = [version |-> v, stamp |-> v, hash |-> item.data]
        /\ flush'[d] = NoFlush
        /\ flush[d].pc = "answered" /\ flush[d].ok
    BY <1>0 DEF Accepted, tally, Typed, TypeOK
  <1>2. v <= server.version /\ (v = server.version => item.data = server.data)
    BY <1>0, <1>1 DEF Client, Uploading
  <1>3. pending # None =>
          /\ pending = queue[d] /\ queue[d] # None /\ pending \in Item
          /\ Sound(server, released, local[d], d, pending)
    BY <1>0 DEF Remaining, Client, Queued, Typed, TypeOK
  <1>4. Within(d, item.data, local[d] \cup released)
    BY <1>0, <1>1, HeldHas DEF Client, Shown, Within
  <1>5. queue'[d] # None => /\ Sound(server, released, local[d], d, queue'[d])
                            /\ Within(d, queue'[d].data, Held(d))
    <2>1. CASE ~CanRebase(item, pending, v)
      <3>1. queue'[d] = pending
        BY <1>1, <2>1 DEF Rebased
      <3> QED BY <1>3, <3>1, HeldHas
    <2>2. CASE CanRebase(item, pending, v)
      <3>1. pending # None /\ pending.data # item.data
        BY <2>2 DEF CanRebase
      <3>2. pending.page
        BY <1>0, <1>1, <1>3, <3>1 DEF Client, Uploading
      <3>3. queue'[d] = [pending EXCEPT !.base = v, !.ancestor = None]
        BY <1>1, <2>2 DEF Rebased
      <3> HIDE DEF pending
      <3>4. queue'[d].data = pending.data /\ queue'[d].base = v
        BY <1>3, <3>1, <3>3 DEF Item
      <3>5. Within(d, local[d], pending.data \cup released)
        BY <1>3, <3>1, <3>2 DEF Sound
      <3>6. Covers(server, released, d, pending.data, v)
        BY <1>2, <1>4, <3>5 DEF Covers, Within
      <3>7. Within(d, pending.data, Held(d))
        BY <1>3, <3>1, HeldHas
      <3> QED BY <3>4, <3>5, <3>6, <3>7 DEF Sound
    <2> QED BY <2>1, <2>2
  <1>6. Queued(d)' /\ Uploading(d)'
    BY <1>1, <1>5, NothingRead DEF Queued
  <1>7. Bookmarked(d)'
    BY <1>1, <1>2, <1>4 DEF Bookmarked, Covers
  <1>8. Steady(d)
    <2>1. Within(d, item.data, Held(d))
      BY <1>1, HeldHas
    <2>2. flush'[d].pc = "idle" /\ meta'[d].hash = item.data
      BY <1>1 DEF NoFlush
    <2>3. Within(d, Held(d)', Held(d))
      BY <1>1, <1>5, <2>1, <2>2, HeldHas, HeldBy
    <2> QED BY <1>1, <2>3 DEF Steady, Within
  <1> QED BY <1>0, <1>1, <1>6, <1>7, <1>8, SteadyKept DEF Client

LEMMA RejectedKept ==
  ASSUME Invariant, Typed', NEW d \in Devices, Rejected(d)
  PROVE  Client(d)'
  <1>0. Typed /\ Client(d) /\ Moves /\ flush[d] \in Flush /\ flush[d].item \in Item
    BY StillMoves DEF Invariant, Rejected, tally, Typed, TypeOK, HasItem
  <1>1. /\ UNCHANGED <<server, released, local, meta, late, choice>>
        /\ queue'[d] \in {queue[d], None}
        /\ backup'[d] = flush[d].item.data
        /\ flush'[d] = NoFlush
        /\ flush[d].pc = "answered"
    BY <1>0 DEF Rejected, Remaining, tally, Typed, TypeOK
  <1>2. pull'[d] = pull[d] \/ pull'[d] = [NoRead EXCEPT !.pc = "row"]
    BY <1>0 DEF Rejected, PullBegins, Typed, TypeOK
  <1>3. Queued(d)' /\ Uploading(d)'
    BY <1>0, <1>1, NothingRead DEF Queued, Client
  <1>4. Steady(d)
    <2>1. Within(d, Held(d)', Held(d))
      <3>1. flush'[d].pc = "idle"
        BY <1>1 DEF NoFlush
      <3> QED BY <1>1, <3>1, HeldHas, HeldBy
    <2>2. pull'[d].data = pull[d].data \/ pull'[d].data = {}
      BY <1>2 DEF NoRead
    <2> QED BY <1>1, <2>1, <2>2 DEF Steady, Within
  <1>5. Pulled(d)'
    <2>1. CASE pull'[d] = pull[d]
      BY <1>0, <1>4, <2>1, SteadyKept
    <2>2. CASE pull'[d] = [NoRead EXCEPT !.pc = "row"]
      <3>1. pull'[d].pc = "row" /\ pull'[d].version = 0 /\ server'.version \in Nat
        BY <2>2, Constants DEF NoRead, Typed, TypeOK
      <3> QED BY <3>1 DEF Pulled, Fresh, Fetched
    <2> QED BY <1>2, <2>1, <2>2
  <1> QED BY <1>0, <1>1, <1>3, <1>4, <1>5, SteadyKept DEF Client

(* A failed upload is queued again, with the base its create gave it.        *)
LEMMA FlushFailsKept ==
  ASSUME Invariant, Typed', NEW d \in Devices, FlushFails(d)
  PROVE  Client(d)'
  <1>0. Typed /\ Client(d) /\ Moves /\ flush[d] \in Flush /\ flush[d].item \in Item
    BY StillMoves DEF Invariant, FlushFails, Typed, TypeOK, HasItem
  <1>1. /\ UNCHANGED <<server, released, local, meta, backup, pull, choice>>
        /\ flush'[d] = NoFlush /\ flush[d].pc # "idle"
        /\ Abandon(d)
    BY <1>0 DEF FlushFails, Typed, TypeOK
  <1>2. PICK q \in Item : /\ queue' = [queue EXCEPT ![d] = q]
                          /\ q.data = flush[d].item.data
                          /\ q.base = flush[d].item.base
                          /\ q.page = flush[d].item.page
    BY <1>0, UpsertQueues DEF FlushFails
  <1>3. queue'[d] = q
    BY <1>0, <1>2 DEF Typed, TypeOK
  <1>4. Queued(d)' /\ Uploading(d)'
    BY <1>0, <1>1, <1>2, <1>3, NothingRead DEF Queued, Client, Uploading, Sound
  <1>5. Latent(d)' /\ (late'[d] # None => Within(d, late'[d].data, Held(d)))
    BY <1>1, AbandonKept
  <1>6. Steady(d)
    <2>1. flush'[d].pc = "idle"
      BY <1>1 DEF NoFlush
    <2>2. Within(d, queue'[d].data, Held(d))
      BY <1>1, <1>2, <1>3, HeldHas
    <2>3. Within(d, Held(d)', Held(d))
      BY <1>1, <1>5, <2>1, <2>2, HeldHas, HeldBy
    <2> QED BY <1>1, <2>3 DEF Steady, Within
  <1> QED BY <1>0, <1>1, <1>4, <1>5, <1>6, SteadyKept DEF Client

(* A request nobody waits for reaches the server.                            *)
LEMMA LateKept ==
  ASSUME Invariant, Typed', NEW d \in Devices, LateRequest(d)
  PROVE  Client(d)' /\ Moves /\ (server'.version = 0 => server'.data = {})
  <1>0. Typed /\ Client(d) /\ late[d] \in Request /\ late[d] # None /\ ServerTakes(d, late[d])
    BY DEF Invariant, LateRequest, Typed, TypeOK
  <1>1. UNCHANGED <<local, meta, queue, backup, flush, pull, choice>> /\ late'[d] = None
    BY <1>0 DEF LateRequest, client, Typed, TypeOK
  <1>2. Moves /\ (server'.version = 0 => server'.data = {})
    BY <1>0, TakesMoves DEF Client, Latent
  <1>3. Steady(d)
    <2>1. Within(d, Held(d)', Held(d))
      BY <1>1, HeldHas, HeldBy
    <2> QED BY <1>1, <2>1 DEF Steady, Within
  <1> QED BY <1>0, <1>1, <1>2, <1>3, SteadyKept DEF Client

(* Steps of a pull.  A copy just read has all that the device knows of       *)
(* others' edits, but the released ones.                                     *)
LEMMA PullReadsKept ==
  ASSUME Invariant, Typed', NEW d \in Devices,
         Pull(d) \/ PullRow(d) \/ PullSnap(d) \/ PullSkips(d) \/ PullImports(d) \/ PullFails(d)
  PROVE  Client(d)'
  <1>0. Typed /\ Client(d) /\ pull[d] \in Read /\ server.version \in Nat
    BY Constants DEF Invariant, Typed, TypeOK
  <1>1. UNCHANGED <<server, released, local, meta, queue, backup, flush, late, choice>>
    BY DEF Pull, PullRow, PullSnap, PullSkips, PullImports, PullFails, client, tally
  <1>2. Moves
    BY <1>1, StillMoves
  <1>3. Held(d)' = Held(d)
    BY <1>1 DEF Held
  <1>4. /\ pull'[d].data \in {pull[d].data, server.data, {}}
        /\ Pulled(d)'
    <2>1. CASE Pull(d) \/ PullSkips(d) \/ PullFails(d)
      <3>1. pull'[d].data = {} /\ pull'[d].pc \in {"idle", "row"} /\ pull'[d].version = 0
        BY <1>0, <2>1 DEF Pull, PullBegins, PullSkips, PullFails, NoRead, Typed, TypeOK
      <3> QED BY <1>0, <1>1, <3>1 DEF Pulled, Fresh, Fetched
    <2>2. CASE PullRow(d)
      <3>1. pull'[d].data = pull[d].data /\ pull'[d].pc = "snap" /\ pull'[d].version = server.version
        BY <1>0, <2>2 DEF PullRow, Typed, TypeOK, Read
      <3> QED BY <1>0, <1>1, <3>1 DEF Pulled, Fresh, Fetched
    <2>3. CASE PullSnap(d)
      <3>1. /\ pull'[d].data = server.data /\ pull'[d].pc = "got"
            /\ pull'[d].version = pull[d].version /\ pull[d].pc = "snap"
        BY <1>0, <2>3 DEF PullSnap, Typed, TypeOK, Read
      <3>2. Within(d, Held(d), server.data \cup released)
        BY <1>0 DEF Client, Known, Within
      <3> QED BY <1>0, <1>1, <1>3, <3>1, <3>2 DEF Pulled, Fresh, Fetched, Client
    <2>4. CASE PullImports(d)
      <3>1. /\ pull'[d].data = pull[d].data /\ pull'[d].pc = "import"
            /\ pull'[d].version = pull[d].version /\ pull[d].pc = "got"
        BY <1>0, <2>4 DEF PullImports, Typed, TypeOK, Read
      <3> QED BY <1>0, <1>1, <1>3, <3>1 DEF Pulled, Fresh, Fetched, Client
    <2> QED BY <2>1, <2>2, <2>3, <2>4
  <1>5. Steady(d)
    BY <1>1, <1>3, <1>4 DEF Steady, Within
  <1> QED BY <1>0, <1>1, <1>2, <1>4, <1>5, SteadyKept DEF Client

(* Nothing on the server: what is shown is queued as a create.               *)
LEMMA PullSeedsKept ==
  ASSUME Invariant, Typed', NEW d \in Devices, PullSeeds(d)
  PROVE  Client(d)'
  <1>0. Typed /\ Client(d) /\ Moves /\ server.version \in Nat
    BY StillMoves, Constants DEF Invariant, PullSeeds, tally, Typed, TypeOK
  <1>1. /\ UNCHANGED <<server, released, local, backup, flush, late, choice>>
        /\ meta'[d] = NoMeta /\ pull'[d] = NoRead
    BY <1>0 DEF PullSeeds, tally, Typed, TypeOK
  <1>2. Covers(server, released, d, local[d], 0)
    BY <1>0 DEF Covers, Within, Invariant
  <1>3. \/ queue'[d] = queue[d]
        \/ Queued(d)' /\ queue'[d].page /\ queue'[d].data = local[d]
    <2>1. CASE queue' = queue
      BY <2>1
    <2>2. CASE queue' # queue
      <3>1. PICK q \in Item : /\ queue' = [queue EXCEPT ![d] = q]
                              /\ q.data = local[d] /\ q.base = NoMeta.version /\ q.page
        BY <1>0, <2>2, PushQueues, Constants DEF PullSeeds
      <3>2. q.base = 0
        BY <3>1 DEF NoMeta
      <3>3. Covers(server', released', d, q.data, q.base) /\ Within(d, local[d], q.data \cup released')
        BY <1>1, <1>2, <3>1, <3>2 DEF Within
      <3> QED BY <1>0, <1>1, <3>1, <3>3, QueueingKept
    <2> QED BY <2>1, <2>2
  <1>4. Steady(d)
    <2>1. queue'[d] # None => Within(d, queue'[d].data, Held(d))
      BY <1>3, HeldHas
    <2>2. meta'[d].hash = None /\ pull'[d].data = {}
      BY <1>1 DEF NoMeta, NoRead
    <2>3. Within(d, Held(d)', Held(d))
      BY <1>1, <2>1, <2>2, HeldHas, HeldBy
    <2> QED BY <1>1, <2>2, <2>3 DEF Steady, Within
  <1>5. Bookmarked(d)'
    BY <1>1, <1>2 DEF Bookmarked, NoMeta
  <1> QED BY <1>0, <1>1, <1>3, <1>4, <1>5, SteadyKept, NothingRead DEF Client

LEMMA PullSavesKept ==
  ASSUME Invariant, Typed', NEW d \in Devices, PullSaves(d)
  PROVE  Client(d)'
  <1>1. pull[d] \in Read /\ pull[d].pc = "import" /\ SaveSynced(d, pull[d])
    BY DEF Invariant, Typed, TypeOK, PullSaves
  <1>2. UNCHANGED <<server, released, backup>>
    BY DEF PullSaves, tally
  <1>3. Fresh(server, pull[d]) /\ Fetched(d, pull[d])
    BY DEF Invariant, Client, Pulled
  <1> QED BY <1>1, <1>2, <1>3, SaveKept

-----------------------------------------------------------------------------
(* A user's choice.                                                          *)

LEMMA ChooseKept ==
  ASSUME Invariant, Typed', NEW d \in Devices, Choose(d)
  PROVE  Client(d)'
  <1>0. Typed /\ Client(d) /\ Moves /\ server.version \in Nat
    BY StillMoves, Constants DEF Invariant, Choose, Typed, TypeOK
  <1>1. UNCHANGED <<server, released, local, meta, queue, backup, flush, late, pull>>
    BY DEF Choose, client
  <1>2. PICK k \in Choices :
          /\ \/ k = "keepDevice" /\ ~paused[d] /\ local[d] # {}
             \/ k \in {"keepBackup", "useServer"} /\ backup[d] # None
          /\ choice' = [choice EXCEPT ![d] =
               [NoRead EXCEPT !.pc = "row", !.kind = k,
                              !.data = CASE k = "keepDevice" -> local[d]
                                         [] k = "keepBackup" -> backup[d]
                                         [] k = "useServer" -> {}]]
    BY Zenon DEF Choose
  <1>3. /\ choice'[d].pc = "row" /\ choice'[d].version = 0 /\ choice'[d].kind = k
        /\ choice'[d].data = CASE k = "keepDevice" -> local[d]
                               [] k = "keepBackup" -> backup[d]
                               [] k = "useServer" -> {}
    BY <1>0, <1>2 DEF NoRead, Typed, TypeOK
  <1>4. k \in {"keepDevice", "keepBackup", "useServer"}
    BY SyncAssumption
  <1>5. Within(d, choice'[d].data, Held(d))
    <2>1. CASE k = "keepDevice"
      BY <1>3, <2>1, HeldHas
    <2>2. CASE k = "keepBackup"
      BY <1>2, <1>3, <2>2, HeldHas
    <2>3. CASE k = "useServer"
      BY <1>3, <2>3 DEF Within
    <2> QED BY <1>4, <2>1, <2>2, <2>3
  <1>6. Steady(d)
    <2>1. Within(d, Held(d)', Held(d))
      BY <1>1, <1>5, HeldHas, HeldBy
    <2> QED BY <1>1, <1>5, <2>1 DEF Steady, Within
  <1>7. Chosen(d)'
    BY <1>0, <1>1, <1>3, <1>4 DEF Chosen, Fresh, Fetched, Kept
  <1> QED BY <1>0, <1>1, <1>6, <1>7, SteadyKept DEF Client

(* Steps of a choice that read the server's copy: a choice to keep releases  *)
(* it, a choice of the server's takes it.                                    *)
LEMMA ChoiceReadsKept ==
  ASSUME Invariant, Typed', NEW d \in Devices,
         ChoiceRow(d) \/ ChoiceSnap(d) \/ UseMissing(d) \/ UseImports(d)
  PROVE  Client(d)' /\ Moves
  <1>0. Typed /\ Client(d) /\ choice[d] \in Read /\ server.version \in Nat
    BY Constants DEF Invariant, Typed, TypeOK
  <1>1. /\ UNCHANGED <<server, local, meta, queue, flush, late, pull>>
        /\ backup'[d] \in {backup[d], None}
        /\ released \subseteq released'
    BY <1>0 DEF ChoiceRow, ChoiceSnap, UseMissing, UseImports, Releases, client, tally, Typed, TypeOK
  <1>2. Moves
    BY <1>1 DEF Moves
  <1>3. choice[d].kind \in {"pull", "keepDevice", "keepBackup", "useServer"}
    BY <1>0, SyncAssumption DEF Read
  <1>4. CASE ChoiceRow(d)
    <2>1. /\ choice'[d].kind = choice[d].kind /\ choice'[d].data = choice[d].data
          /\ choice'[d].pc = (IF choice[d].kind = "useServer" THEN "snap" ELSE "got")
          /\ choice'[d].version = server.version /\ choice[d].pc = "row"
          /\ released' = released \cup (IF choice[d].kind = "useServer" THEN {} ELSE server.data)
      BY <1>0, <1>4 DEF ChoiceRow, Releases, Typed, TypeOK, Read
    <2>2. Within(d, Held(d)', Held(d))
      BY <1>1, <2>1, HeldHas, HeldBy
    <2>3. Steady(d)
      BY <1>1, <2>1, <2>2 DEF Steady, Within
    <2>4. Within(d, Held(d), server.data \cup released)
      BY <1>0 DEF Client, Known, Within
    <2>5. Chosen(d)'
      <3>1. CASE choice[d].kind = "useServer"
        BY <1>0, <1>1, <2>1, <3>1 DEF Chosen, Fresh, Fetched
      <3>2. CASE choice[d].kind \in {"keepDevice", "keepBackup"}
        <4>1. released' = released \cup server.data
          BY <2>1, <3>2
        <4>2. Within(d, Held(d)', released')
          BY <2>2, <2>4, <4>1 DEF Within
        <4>3. Kept(d)'
          BY <1>0, <1>1, <2>1, <3>2, <4>1, <4>2 DEF Kept
        <4> QED BY <2>1, <3>2, <4>3 DEF Chosen
      <3> QED BY <1>0, <1>3, <2>1, <3>1, <3>2 DEF Client, Chosen
    <2> QED BY <1>0, <1>1, <1>2, <2>3, <2>5, SteadyKept DEF Client
  <1>5. CASE ChoiceSnap(d)
    <2>1. /\ choice'[d].kind = choice[d].kind /\ choice'[d].data = server.data
          /\ choice'[d].pc = "got" /\ choice'[d].version = choice[d].version /\ choice[d].pc = "snap"
          /\ released' = released
      BY <1>0, <1>5 DEF ChoiceSnap, tally, Typed, TypeOK, Read
    <2>2. choice[d].kind = "useServer"
      BY <1>0, <1>3, <2>1 DEF Client, Chosen, Kept
    <2>3. Within(d, Held(d)', Held(d))
      BY <1>1, <2>1, <2>2, HeldHas, HeldBy
    <2>4. Steady(d)
      BY <1>1, <2>1, <2>3 DEF Steady, Within
    <2>5. Within(d, Held(d)', server'.data \cup released')
      BY <1>0, <1>1, <2>1, <2>3 DEF Client, Known, Within
    <2>6. Chosen(d)'
      BY <1>0, <1>1, <2>1, <2>2, <2>5 DEF Client, Chosen, Fresh, Fetched
    <2> QED BY <1>0, <1>1, <1>2, <2>4, <2>6, SteadyKept DEF Client
  <1>6. CASE UseMissing(d)
    <2>1. choice'[d] = NoRead /\ released' = released
      BY <1>0, <1>6 DEF UseMissing, tally, Typed, TypeOK
    <2>2. Within(d, choice'[d].data, Held(d)) /\ choice'[d].data = {}
      BY <2>1 DEF NoRead, Within
    <2>3. Within(d, Held(d)', Held(d))
      BY <1>1, <2>2, HeldHas, HeldBy
    <2>4. Steady(d)
      BY <1>1, <2>2, <2>3 DEF Steady, Within
    <2> QED BY <1>0, <1>1, <1>2, <2>1, <2>4, SteadyKept, NothingRead DEF Client
  <1>7. CASE UseImports(d)
    <2>1. /\ choice'[d].kind = "useServer" /\ choice'[d].data = choice[d].data
          /\ choice'[d].pc = "import" /\ choice'[d].version = choice[d].version
          /\ choice[d].pc = "got" /\ choice[d].kind = "useServer"
          /\ released' = released
      BY <1>0, <1>7 DEF UseImports, tally, Typed, TypeOK, Read
    <2>2. Within(d, Held(d)', Held(d))
      BY <1>1, <2>1, HeldHas, HeldBy
    <2>3. Steady(d)
      BY <1>1, <2>1, <2>2 DEF Steady, Within
    <2>4. Chosen(d)'
      <3>1. Within(d, Held(d)', choice[d].data \cup released)
        BY <1>0, <2>1, <2>2 DEF Client, Chosen, Fetched, Within
      <3> QED BY <1>0, <1>1, <2>1, <3>1 DEF Client, Chosen, Fresh, Fetched
    <2> QED BY <1>0, <1>1, <1>2, <2>3, <2>4, SteadyKept DEF Client
  <1> QED BY <1>2, <1>4, <1>5, <1>6, <1>7

(* The kept copy is queued at the version that was checked: what the server  *)
(* had then is released, and all the device knows was among it.              *)
LEMMA KeepKept ==
  ASSUME Invariant, Typed', NEW d \in Devices, Keep(d)
  PROVE  Client(d)'
  <1>0. /\ Typed /\ Client(d) /\ Moves
        /\ choice[d] \in Read /\ choice[d].data \in Dataset /\ choice[d].version \in Version
    BY StillMoves DEF Invariant, Keep, tally, Typed, TypeOK, Read
  <1>1. /\ UNCHANGED <<server, released, local, backup, flush, late, pull>>
        /\ choice'[d] = NoRead /\ choice[d].pc = "got"
        /\ choice[d].kind \in {"keepDevice", "keepBackup"}
    BY <1>0 DEF Keep, tally, Typed, TypeOK
  <1>2. Kept(d)
    BY <1>0, <1>1 DEF Client, Chosen
  <1>3. \A D : Covers(server, released, d, D, choice[d].version)
    BY <1>1, <1>2 DEF Kept, Covers, Within
  <1>4. Within(d, local[d], choice[d].data \cup released)
    BY <1>1, <1>2, HeldHas DEF Kept, Within
  <1>5. Queued(d)' /\ queue'[d].page /\ queue'[d].data = choice[d].data
    <2> DEFINE item == NewItem(choice[d].data, choice[d].version)
    <2>1. item \in Item /\ Upsert(d, item)
      BY <1>0, NewItemType DEF Keep
    <2>2. item.data = choice[d].data /\ item.base = choice[d].version /\ item.page
      BY DEF NewItem
    <2> HIDE DEF item
    <2>3. PICK q \in Item : /\ queue' = [queue EXCEPT ![d] = q]
                            /\ q.data = item.data /\ q.base = item.base /\ q.page = item.page
      BY <1>0, <2>1, UpsertQueues
    <2>4. Covers(server', released', d, q.data, q.base)
      BY <1>1, <1>3, <2>2, <2>3
    <2> QED BY <1>0, <1>1, <1>4, <2>2, <2>3, <2>4, QueueingKept
  <1>6. /\ meta'[d].hash \in {meta[d].hash, None}
        /\ meta'[d].version \in {meta[d].version, choice[d].version}
    BY <1>0 DEF Keep, Typed, TypeOK, Meta
  <1>7. Steady(d)
    <2>1. Within(d, queue'[d].data, Held(d))
      BY <1>1, <1>5, HeldHas
    <2>2. choice'[d].data = {} /\ Within(d, choice'[d].data, Held(d))
      BY <1>1 DEF NoRead, Within
    <2>3. Within(d, Held(d)', Held(d))
      BY <1>1, <1>6, <2>1, <2>2, HeldHas, HeldBy
    <2> QED BY <1>1, <2>2, <2>3 DEF Steady, Within
  <1>8. Bookmarked(d)'
    <2>1. Covers(server, released, d, local[d], choice[d].version)
      BY <1>3
    <2>2. Covers(server, released, d, local[d], meta[d].version)
      BY <1>0 DEF Client, Bookmarked
    <2> QED BY <1>1, <1>6, <2>1, <2>2 DEF Bookmarked
  <1> QED BY <1>0, <1>1, <1>5, <1>7, <1>8, SteadyKept, NothingRead DEF Client

LEMMA UseSavesKept ==
  ASSUME Invariant, Typed', NEW d \in Devices, UseSaves(d)
  PROVE  Client(d)'
  <1>1. choice[d] \in Read /\ choice[d].pc = "import" /\ SaveSynced(d, choice[d])
    BY DEF Invariant, Typed, TypeOK, UseSaves
  <1>2. UNCHANGED <<server, released>> /\ backup'[d] = None
    BY DEF UseSaves, tally, Invariant, Typed, TypeOK
  <1>3. choice[d].kind \in {"pull", "keepDevice", "keepBackup", "useServer"}
    BY <1>1, SyncAssumption DEF Read
  <1>4. Fresh(server, choice[d]) /\ Fetched(d, choice[d])
    BY <1>1, <1>3 DEF Invariant, Client, Chosen, Kept
  <1> QED BY <1>1, <1>2, <1>4, SaveKept

-----------------------------------------------------------------------------
(* Every step.                                                               *)

Step(d) == Edit(d) \/ Push(d) \/ Upload(d) \/ Pulling(d) \/ Choosing(d) \/ Faulty(d)

LEMMA OthersWait ==
  ASSUME Typed, NEW d \in Devices, Step(d), NEW e \in Devices, e # d
  PROVE  Waits(e)
  <1>1. CASE Edit(d)
    BY <1>1 DEF Edit, Waits, Typed, TypeOK
  <1>2. CASE Push(d)
    <2>1. queue'[e] = queue[e]
      BY <1>2 DEF Push, PushActive, Upsert, Typed, TypeOK
    <2> QED BY <1>2, <2>1 DEF Push, Waits
  <1>3. ASSUME NewPage(d)
        PROVE  /\ queue'[e] = queue[e] /\ flush'[e] = flush[e] /\ late'[e] = late[e]
               /\ pull'[e] = pull[e] /\ choice'[e] = choice[e]
    BY <1>3 DEF NewPage, Abandon, Typed, TypeOK
  <1>4. ASSUME NEW read, SaveSynced(d, read)
        PROVE  /\ local'[e] = local[e] /\ meta'[e] = meta[e] /\ NewPage(d)
    BY <1>4 DEF SaveSynced, Typed, TypeOK
  <1>5. CASE FlushStart(d) \/ ServerAnswers(d) \/ Ensured(d)
    BY <1>5 DEF FlushStart, ServerAnswers, Ensured, Waits, client, Typed, TypeOK
  <1>6. CASE Accepted(d)
    BY <1>6 DEF Accepted, Waits, Typed, TypeOK
  <1>7. CASE Rejected(d)
    BY <1>7 DEF Rejected, PullBegins, Waits, Typed, TypeOK
  <1>8. CASE Pull(d) \/ PullRow(d) \/ PullSnap(d) \/ PullSkips(d) \/ PullImports(d) \/ PullFails(d)
    BY <1>8 DEF Pull, PullBegins, PullRow, PullSnap, PullSkips, PullImports, PullFails, Waits,
                client, Typed, TypeOK
  <1>9. CASE PullSeeds(d)
    <2>1. queue'[e] = queue[e]
      BY <1>9 DEF PullSeeds, PushActive, Upsert, Typed, TypeOK
    <2> QED BY <1>9, <2>1 DEF PullSeeds, Waits, Typed, TypeOK
  <1>10. CASE PullSaves(d)
    <2>1. SaveSynced(d, pull[d]) /\ backup' = backup
      BY <1>10 DEF PullSaves
    <2> QED BY <1>3, <1>4, <2>1 DEF Waits
  <1>11. CASE Choose(d) \/ ChoiceRow(d) \/ ChoiceSnap(d) \/ UseMissing(d) \/ UseImports(d)
    BY <1>11 DEF Choose, ChoiceRow, ChoiceSnap, UseMissing, UseImports, Waits, client, Typed, TypeOK
  <1>12. CASE Keep(d)
    BY <1>12 DEF Keep, Upsert, Waits, Typed, TypeOK
  <1>13. CASE UseSaves(d)
    <2>1. SaveSynced(d, choice[d]) /\ backup'[e] = backup[e]
      BY <1>13 DEF UseSaves, Typed, TypeOK
    <2> QED BY <1>3, <1>4, <2>1 DEF Waits
  <1>14. CASE Reopen(d)
    BY <1>3, <1>14 DEF Reopen, Waits
  <1>15. CASE FlushFails(d)
    BY <1>15 DEF FlushFails, Upsert, Abandon, Waits, Typed, TypeOK
  <1>16. CASE LateRequest(d)
    BY <1>16 DEF LateRequest, Waits, client, Typed, TypeOK
  <1> QED BY <1>1, <1>2, <1>5, <1>6, <1>7, <1>8, <1>9, <1>10, <1>11, <1>12, <1>13, <1>14, <1>15, <1>16
          DEF Step, Upload, Pulling, Choosing, Faulty

(* A step either leaves the server as it is, or is a request it takes.       *)
LEMMA ServerSteps ==
  ASSUME NEW d \in Devices, Step(d)
  PROVE  \/ UNCHANGED <<server, released>>
         \/ ChoiceRow(d) /\ UNCHANGED server
         \/ ServerAnswers(d)
         \/ LateRequest(d)
  BY DEF Step, Upload, Pulling, Choosing, Faulty, Edit, Push, FlushStart, Ensured, Accepted, Rejected,
         Pull, PullRow, PullSnap, PullSeeds, PullSkips, PullImports, PullSaves, PullFails,
         Choose, ChoiceRow, ChoiceSnap, Keep, UseMissing, UseImports, UseSaves, Reopen, FlushFails, tally

LEMMA StepMoves ==
  ASSUME Invariant, Typed', NEW d \in Devices, Step(d)
  PROVE  Moves /\ (server'.version = 0 => server'.data = {})
  <1>1. CASE UNCHANGED <<server, released>>
    BY <1>1, StillMoves DEF Invariant
  <1>2. CASE ChoiceRow(d) /\ UNCHANGED server
    BY <1>2, ChoiceReadsKept DEF Invariant
  <1>3. CASE ServerAnswers(d)
    BY <1>3, AnswerKept
  <1>4. CASE LateRequest(d)
    BY <1>4, LateKept
  <1> QED BY <1>1, <1>2, <1>3, <1>4, ServerSteps

LEMMA StepKept ==
  ASSUME Invariant, Typed', NEW d \in Devices, Step(d)
  PROVE  Client(d)'
  <1>1. CASE Edit(d) \/ Push(d)
    BY <1>1, EditKept, PushKept
  <1>2. CASE Upload(d)
    BY <1>2, FlushStartKept, AnswerKept, EnsuredKept, AcceptedKept, RejectedKept DEF Upload
  <1>3. CASE Pulling(d)
    BY <1>3, PullReadsKept, PullSeedsKept, PullSavesKept DEF Pulling
  <1>4. CASE Choosing(d)
    BY <1>4, ChooseKept, ChoiceReadsKept, KeepKept, UseSavesKept DEF Choosing
  <1>5. CASE Faulty(d)
    BY <1>5, ReopenKept, FlushFailsKept, LateKept, PullReadsKept DEF Faulty
  <1> QED BY <1>1, <1>2, <1>3, <1>4, <1>5 DEF Step

LEMMA InvariantNext == ASSUME Invariant, [Next]_vars PROVE Invariant'
  <1>0. Typed'
    BY NextTyped DEF Invariant
  <1>1. CASE UNCHANGED vars
    <2>1. UNCHANGED <<server, released>> /\ \A d \in Devices : Waits(d)
      BY <1>1 DEF vars, client, tally, Waits
    <2>2. Moves
      BY <2>1, StillMoves
    <2>3. \A d \in Devices : Client(d)'
      BY <1>0, <2>1, <2>2, WaitingKept DEF Invariant
    <2> QED BY <1>0, <2>1, <2>3 DEF Invariant
  <1>2. CASE Next
    <2>1. PICK d \in Devices : Step(d)
      BY <1>2 DEF Next, Step
    <2>2. Moves /\ (server'.version = 0 => server'.data = {})
      BY <1>0, <2>1, StepMoves
    <2>3. Client(d)'
      BY <1>0, <2>1, StepKept
    <2>4. \A e \in Devices : e # d => Client(e)'
      BY <1>0, <2>1, <2>2, OthersWait, WaitingKept DEF Invariant
    <2> QED BY <1>0, <2>2, <2>3, <2>4 DEF Invariant
  <1> QED BY <1>1, <1>2

(* The bookmark of a device never claims another device's edit that it does  *)
(* not show, whatever uploads, pulls, choices, reloads and late requests     *)
(* interleave, on a new account and on one in use.                           *)
THEOREM OthersShownHolds == (Spec => []OthersShown) /\ (SpecInUse => []OthersShown)
  <1>1. Invariant => OthersShown
    <2> SUFFICES ASSUME Invariant, NEW d \in Devices, meta[d].hash # None, NEW e \in meta[d].hash
                 PROVE  e[1] = d \/ e \in local[d] \/ e \in released
      BY DEF OthersShown
    <2>1. Within(d, meta[d].hash, Held(d)) /\ Shown(d)
      BY HeldHas DEF Invariant, Client
    <2> QED BY <2>1 DEF Shown, Within
  <1> QED BY <1>1, InitInvariant, InUseInvariant, InvariantNext, PTL DEF Spec, SpecInUse

(* No push takes another device's edit off the server unless a user released *)
(* it or its own device dropped it: for any number of devices, through       *)
(* rebases, failed, lost and late requests, reloads and conflict choices.    *)
THEOREM OthersEditsHold == (Spec => OthersEditsKept) /\ (SpecInUse => OthersEditsKept)
  <1> DEFINE Keeps == \A e \in server.data \ server'.data : e[1] = server'.by \/ e \in released
  <1>1. Invariant /\ [Next]_vars => [Keeps]_vars
    <2> SUFFICES ASSUME Invariant, Next PROVE Keeps
      OBVIOUS
    <2>1. PICK d \in Devices : Step(d)
      BY DEF Next, Step
    <2>2. CASE UNCHANGED server
      BY <2>2
    <2>3. ASSUME NEW req \in Request, ServerTakes(d, req),
                 ~req.creates => Covers(server, released, d, req.data, req.base)
          PROVE  Keeps
      <3>1. /\ server' # server => server'.by = d
            /\ \A e \in server.data \ server'.data : e[1] = d \/ e \in released
        BY <2>3, TakesMoves
      <3> QED BY <3>1
    <2>4. CASE ServerAnswers(d)
      <3>1. Outgoing(d) \in Request /\ ServerTakes(d, Outgoing(d))
        BY <2>4, OutgoingType DEF ServerAnswers, Invariant
      <3>2. ~Outgoing(d).creates => Covers(server, released, d, Outgoing(d).data, Outgoing(d).base)
        <4>1. flush[d].pc = "ensure" => Outgoing(d).creates
          BY DEF Outgoing
        <4>2. flush[d].pc = "put" => /\ Outgoing(d).data = flush[d].item.data
                                     /\ Outgoing(d).base = flush[d].item.base
          BY DEF Outgoing
        <4> QED BY <2>4, <4>1, <4>2 DEF ServerAnswers, Invariant, Client, Uploading, Sound
      <3> QED BY <2>3, <3>1, <3>2
    <2>5. CASE LateRequest(d)
      <3>1. late[d] \in Request /\ late[d] # None /\ ServerTakes(d, late[d])
        BY <2>5 DEF LateRequest, Invariant, Typed, TypeOK
      <3>2. ~late[d].creates => Covers(server, released, d, late[d].data, late[d].base)
        BY <3>1 DEF Invariant, Client, Latent
      <3> QED BY <2>3, <3>1, <3>2
    <2> QED BY <2>1, <2>2, <2>4, <2>5, ServerSteps
  <1> QED BY <1>1, InitInvariant, InUseInvariant, InvariantNext, PTL DEF Spec, SpecInUse, OthersEditsKept
=============================================================================
