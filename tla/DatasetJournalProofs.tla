------------------------- MODULE DatasetJournalProofs -------------------------
(***************************************************************************)
(* Theorems about the browser's durable dataset, for any number of pages,  *)
(* edits, generations and damaged records.                                 *)
(*                                                                         *)
(* Shape says what the records look like between transactions: batches     *)
(* threaded from a checkpoint, or from the one before it, names in the     *)
(* order in which they were written.  From it follows what a load replays  *)
(* (ReplayIsIntact): the batches before the first damaged one, whichever   *)
(* way the load finds them.  Fits says of a page whose generation is the   *)
(* stored one what it has of the stored dataset; a page left behind by     *)
(* another's write knows only smaller generations, and nothing is said of  *)
(* it, because nothing it writes is accepted.  Accounts relates the        *)
(* records to what was made durable.                                       *)
(***************************************************************************)
EXTENDS DatasetJournal, NatRecursion, FiniteSetTheorems, TLAPS

(* The batches written on a checkpoint, and the dataset with the first n.    *)
Of(d, id) == {b \in d.batches : b.base = id}
Upto(d, k, n) == k.edits \cup UNION {b.edits : b \in {x \in Of(d, k.id) : x.through <= n}}
Contents(d) == d.ckpt.edits \cup UNION {b.edits : b \in Of(d, d.ckpt.id)}

(* What a load replays: the batches up to the first that cannot be read.     *)
Good(d, b) == <<"batch", b.gen>> \notin d.bad /\ <<"rows", b.gen>> \notin d.bad
Intact(d, id) ==
  {b \in Of(d, id) : \A x \in Of(d, id) : x.through <= b.through => Good(d, x)}

(* The batches of a checkpoint form one chain, in places 1, 2, ...           *)
Threaded(d, k) ==
  /\ \A b, c \in Of(d, k.id) : b.through = c.through => b = c
  /\ \A b \in Of(d, k.id) :
       /\ b.through = b.from + 1
       /\ \A i \in 1..b.through : \E x \in Of(d, k.id) : x.through = i
       /\ b.parent = 0 => b.from = 0 /\ (k.gen # 0 => b.pgen = k.gen)
       /\ b.parent # 0 =>
            \E p \in Of(d, k.id) : p.gen = b.parent /\ p.through = b.from /\ b.pgen = p.gen

(* Nothing stored is newer than the generation, which no batch shares.       *)
Named(d) ==
  /\ d.ckpt.id <= d.gen /\ d.backup.id <= d.ckpt.id
  /\ \A b \in d.batches :
       0 < b.base /\ b.base <= d.gen /\ 0 < b.gen /\ b.gen <= d.gen /\ b.through <= b.gen
  /\ \A b, c \in d.batches : b.gen = c.gen => b = c
  /\ \A k \in d.bad : k[2] <= d.gen

(* The head: none before the first batch, else the chain's last.             *)
Headed(d) ==
  /\ d.head = NoHead => d.gen = d.ckpt.id /\ Of(d, d.ckpt.id) = {}
  /\ d.head # NoHead =>
       /\ d.head.base = d.ckpt.id /\ d.head.gen = d.gen /\ d.head.tail = d.gen
       /\ \E b \in Of(d, d.ckpt.id) : b.gen = d.gen /\ b.through = d.head.cursor
       /\ \A b \in Of(d, d.ckpt.id) : b.through <= d.head.cursor

(* The checkpoint has a copy, unless a pull wrote it.                        *)
Backed(d) ==
  /\ d.gen = 0 => d = EmptyDisk
  /\ d.gen # 0 => d.ckpt.id # 0
  /\ d.ckpt.gen \in {0, d.ckpt.id}
  /\ d.ckpt.gen = 0 => d.head = NoHead
  /\ d.backup.id = d.ckpt.id => d.backup = d.ckpt
  /\ d.backup.id # d.ckpt.id => d.ckpt.gen = 0

Shape(d) == Named(d) /\ Headed(d) /\ Backed(d) /\ Threaded(d, d.ckpt) /\ Threaded(d, d.backup)

(* The generations a page names: what it knows, what it will write.          *)
Names(d, last, p) ==
  /\ p.gen <= p.mine /\ p.mine <= d.gen
  /\ p.job \in {"captured", "queued"} => p.gen < p.jobGen /\ p.jobGen <= last
  /\ p.job = "written" => p.mine < p.jobGen /\ p.jobGen <= d.gen /\ p.head.cursor < p.jobGen
  /\ p.pull \in {"ready", "refused"} =>
       p.pullExp <= p.mine /\ p.pullExp < p.pullGen /\ p.pullGen <= last
  /\ p.pull = "written" =>
       p.mine < p.pullGen /\ p.pullGen <= d.gen /\ p.job \in {"none", "captured"}

(* What a page knows to be stored has been seen there; what it is about to   *)
(* save has it all.                                                          *)
Holds(d, p) ==
  /\ p.edits \cup p.saved \cup p.goal \cup p.pulled \subseteq p.seen
  /\ p.mine = d.gen => Contents(d) \subseteq p.seen
  /\ p.mine = d.gen /\ p.pull = "none" => Contents(d) \subseteq p.edits
  /\ p.gen = d.gen /\ p.init => p.saved = Contents(d) /\ d.ckpt.gen # 0
  /\ p.job \in {"captured", "queued"} => p.full \/ p.init
  /\ p.job \in {"captured", "queued"} /\ p.gen = d.gen => Contents(d) \subseteq p.goal
  /\ p.job \in {"captured", "queued"} /\ p.gen = p.mine /\ p.pull = "none" => p.goal \subseteq p.edits
  /\ p.job = "written" /\ p.pull = "none" => p.goal \subseteq p.edits
  /\ p.job = "written" /\ p.jobGen = d.gen => Contents(d) = p.goal /\ d.ckpt.gen # 0
  /\ p.pull \in {"ready", "refused", "written"} => p.pulled \subseteq p.edits
  /\ p.pull = "written" /\ p.pullGen = d.gen => Contents(d) = p.pulled

Fits(d, last, p) ==
  /\ Names(d, last, p) /\ Holds(d, p)
  /\ p.st = "loading" => HasBase(p.snap) /\ p.pull = "none"
Pages == \A t \in Tabs : Fits(disk, issued, tab[t])

(* What was made durable.                                                    *)
Past(d, k, made) ==
  k.id # 0 => k.edits \in made /\ \A b \in Of(d, k.id) : Upto(d, k, b.through) \in made
Accounts ==
  /\ disk.gen <= issued
  /\ disk.gen = 0 => durable = {}
  /\ faults = 0 => durable = Contents(disk) /\ disk.bad = {}
  /\ disk.backup.id # disk.ckpt.id => durable = disk.ckpt.edits
  /\ Contents(disk) \cup durable \subseteq Readable(disk) \cup kept \cup hurt
  /\ Past(disk, disk.ckpt, past) /\ Past(disk, disk.backup, past)

Inv == TypeOK /\ Shape(disk) /\ Pages /\ Accounts

-----------------------------------------------------------------------------
(* Reading the records.                                                      *)

LEMMA Constants ==
  /\ MaxGen \in Nat /\ 0 \in Gens /\ Gens \subseteq Nat
  /\ \A n \in Gens : n <= MaxGen
  /\ NoHead \in Head /\ NoCheckpoint \in Checkpoint /\ EmptyDisk \in Disk
  <1>1. MaxGen \in Nat
    BY JournalAssumption
  <1>2. 0 \in Gens /\ Gens \subseteq Nat /\ \A n \in Gens : n <= MaxGen
    BY <1>1 DEF Gens
  <1>3. NoHead \in Head /\ NoCheckpoint \in Checkpoint
    BY <1>2 DEF NoHead, Head, NoCheckpoint, Checkpoint
  <1>4. EmptyDisk \in Disk
    BY <1>2, <1>3 DEF EmptyDisk, Disk
  <1> QED BY <1>1, <1>2, <1>3, <1>4

(* The forward walk, one step at a time: from the checkpoint ...             *)
Origin(k) == [tail |-> 0, gen |-> k.gen, base |-> k.id, cursor |-> 0]

(* ... by the one batch that continues.                                      *)
Following(d, k, h) == {b \in Listed(d) : Continues(b, k.id, h)}
Onward(d, k, h) ==
  IF Cardinality(Following(d, k, h)) # 1 THEN h
  ELSE LET b == CHOOSE b \in Following(d, k, h) : TRUE
       IN  [tail |-> b.gen, gen |-> b.gen, base |-> k.id, cursor |-> b.through]

LEMMA BaseType ==
  ASSUME NEW d \in Disk
  PROVE  Base(d) \in Checkpoint
  BY DEF Base, Disk

LEMMA OnwardType ==
  ASSUME NEW d \in Disk, NEW k \in Checkpoint, NEW h \in Head
  PROVE  Onward(d, k, h) \in Head
  <1>1. CASE Cardinality(Following(d, k, h)) # 1
    BY <1>1 DEF Onward
  <1>2. CASE Cardinality(Following(d, k, h)) = 1
    <2> DEFINE b == CHOOSE b \in Following(d, k, h) : TRUE
    <2>1. Following(d, k, h) # {}
      BY <1>2, FS_EmptySet
    <2>2. b \in Following(d, k, h)
      BY <2>1
    <2>3. b \in Batch
      BY <2>2 DEF Following, Listed, Disk
    <2>4. Onward(d, k, h) = [tail |-> b.gen, gen |-> b.gen, base |-> k.id, cursor |-> b.through]
      BY <1>2 DEF Onward
    <2> HIDE DEF b
    <2> QED BY <2>3, <2>4 DEF Batch, Checkpoint, Head
  <1> QED BY <1>1, <1>2

LEMMA WalkSteps ==
  ASSUME NEW d \in Disk
  PROVE  \E w \in [Nat -> Head] :
           /\ w[0] = Origin(Base(d))
           /\ \A n \in Nat : w[n + 1] = Onward(d, Base(d), w[n])
           /\ Walk(d) = w[MaxGen]
  <1> DEFINE k == Base(d)
             walk == CHOOSE walk :
               walk = [n \in Nat |->
                 IF n = 0 THEN [tail |-> 0, gen |-> k.gen, base |-> k.id, cursor |-> 0]
                 ELSE LET h == walk[n - 1]
                          next == {b \in Listed(d) : Continues(b, k.id, h)}
                      IN  IF Cardinality(next) # 1 THEN h
                          ELSE LET b == CHOOSE b \in next : TRUE
                               IN  [tail |-> b.gen, gen |-> b.gen, base |-> k.id,
                                    cursor |-> b.through]]
             G == [h \in Head |-> Onward(d, k, h)]
  <1>1. Walk(d) = walk[MaxGen]
    BY DEF Walk
  <1>2. k \in Checkpoint
    BY BaseType
  <1>3. Origin(k) \in Head
    BY <1>2, Constants DEF Origin, Head, Checkpoint
  <1>4. G \in [Head -> Head]
    BY <1>2, OnwardType
  <1>5. PICK f \in [Nat -> Head] : f = [n \in Nat |-> IF n = 0 THEN Origin(k) ELSE G[f[n - 1]]]
    <2> HIDE DEF G, k
    <2> QED BY <1>3, <1>4, Recursion
  <1>6. \A n \in Nat : n # 0 => n - 1 \in Nat /\ f[n - 1] \in Head
    BY <1>5
  <1>7. f = [n \in Nat |-> IF n = 0 THEN Origin(k) ELSE Onward(d, k, f[n - 1])]
    BY <1>5, <1>6
  <1>8. walk = [n \in Nat |-> IF n = 0 THEN Origin(k) ELSE Onward(d, k, walk[n - 1])]
    <2> HIDE DEF G, k
    <2> QED BY <1>7 DEF Origin, Onward, Following
  <1> HIDE DEF walk, G, k
  <1>9. \A n \in Nat : walk[n + 1] = Onward(d, k, walk[n])
    BY <1>8
  <1>10. walk[0] = Origin(k)
    BY <1>8
  <1>11. walk \in [Nat -> Head]
    <2> DEFINE P == {n \in Nat : walk[n] \in Head}
    <2>1. 0 \in P
      BY <1>3, <1>10
    <2>2. \A n \in P : n + 1 \in P
      BY <1>2, <1>9, OnwardType
    <2>3. \A n \in Nat : n \in P
      <3>1. P \in SUBSET Nat
        OBVIOUS
      <3> HIDE DEF P
      <3> QED BY <2>1, <2>2, <3>1, SetInduction
    <2> QED BY <1>8, <2>3
  <1> QED BY <1>1, <1>9, <1>10, <1>11 DEF k

(* The walk back from the tail, one batch at a time.                         *)
Trail(d) == [key: Gens, chain: SUBSET Listed(d), whole: BOOLEAN]
At(d, key) == {b \in Listed(d) : b.gen = key}
Earlier(d, s) ==
  IF s.key = 0 \/ ~s.whole THEN s
  ELSE IF At(d, s.key) = {} THEN [s EXCEPT !.whole = FALSE]
  ELSE LET b == CHOOSE b \in At(d, s.key) : TRUE
       IN  [s EXCEPT !.key = b.parent, !.chain = @ \cup {b}]

LEMMA EarlierType ==
  ASSUME NEW d \in Disk, NEW s \in Trail(d)
  PROVE  Earlier(d, s) \in Trail(d)
  <1>1. CASE s.key = 0 \/ ~s.whole
    BY <1>1 DEF Earlier
  <1>2. CASE ~ (s.key = 0 \/ ~s.whole) /\ At(d, s.key) = {}
    BY <1>2 DEF Earlier, Trail
  <1>3. CASE ~ (s.key = 0 \/ ~s.whole) /\ At(d, s.key) # {}
    <2> DEFINE b == CHOOSE b \in At(d, s.key) : TRUE
    <2>1. b \in Listed(d)
      BY <1>3 DEF At
    <2>2. b.parent \in Gens
      BY <2>1 DEF Listed, Disk, Batch
    <2>3. Earlier(d, s) = [s EXCEPT !.key = b.parent, !.chain = @ \cup {b}]
      BY <1>3 DEF Earlier
    <2> HIDE DEF b
    <2> QED BY <2>1, <2>2, <2>3 DEF Trail
  <1> QED BY <1>1, <1>2, <1>3

LEMMA BackSteps ==
  ASSUME NEW d \in Disk, NEW tail \in Gens
  PROVE  \E w \in [Nat -> Trail(d)] :
           /\ w[0] = [key |-> tail, chain |-> {}, whole |-> TRUE]
           /\ \A n \in Nat : w[n + 1] = Earlier(d, w[n])
           /\ Back(d, tail) = w[MaxGen + 1]
  <1> DEFINE first == [key |-> tail, chain |-> {}, whole |-> TRUE]
             step == CHOOSE step :
               step = [n \in Nat |->
                 IF n = 0 THEN [key |-> tail, chain |-> {}, whole |-> TRUE]
                 ELSE LET s == step[n - 1] IN
                      IF s.key = 0 \/ ~s.whole THEN s
                      ELSE LET here == {b \in Listed(d) : b.gen = s.key} IN
                           IF here = {} THEN [s EXCEPT !.whole = FALSE]
                           ELSE LET b == CHOOSE b \in here : TRUE
                                IN  [s EXCEPT !.key = b.parent, !.chain = @ \cup {b}]]
             G == [s \in Trail(d) |-> Earlier(d, s)]
  <1>1. Back(d, tail) = step[MaxGen + 1]
    BY DEF Back
  <1>2. first \in Trail(d)
    BY DEF Trail
  <1>3. G \in [Trail(d) -> Trail(d)]
    BY EarlierType
  <1>4. PICK f \in [Nat -> Trail(d)] : f = [n \in Nat |-> IF n = 0 THEN first ELSE G[f[n - 1]]]
    <2> HIDE DEF G, first
    <2> QED BY <1>2, <1>3, Recursion
  <1>5. \A n \in Nat : n # 0 => n - 1 \in Nat /\ f[n - 1] \in Trail(d)
    <2> HIDE DEF G, first
    <2> QED BY <1>4
  <1>6. f = [n \in Nat |-> IF n = 0 THEN first ELSE Earlier(d, f[n - 1])]
    <2> HIDE DEF first
    <2> QED BY <1>4, <1>5
  <1>7. step = [n \in Nat |-> IF n = 0 THEN first ELSE Earlier(d, step[n - 1])]
    <2> HIDE DEF G
    <2> DEFINE body(g) ==
          [n \in Nat |->
            IF n = 0 THEN [key |-> tail, chain |-> {}, whole |-> TRUE]
            ELSE LET s == g[n - 1] IN
                 IF s.key = 0 \/ ~s.whole THEN s
                 ELSE LET here == {b \in Listed(d) : b.gen = s.key} IN
                      IF here = {} THEN [s EXCEPT !.whole = FALSE]
                      ELSE LET b == CHOOSE b \in here : TRUE
                           IN  [s EXCEPT !.key = b.parent, !.chain = @ \cup {b}]]
    <2>1. f = body(f)
      BY <1>6 DEF Earlier, At
    <2>2. step = CHOOSE g : g = body(g)
      OBVIOUS
    <2> HIDE DEF body, step
    <2>3. step = body(step)
      BY <2>1, <2>2
    <2> QED BY <2>3 DEF body, Earlier, At
  <1> HIDE DEF step, G, first
  <1>8. \A n \in Nat : step[n + 1] = Earlier(d, step[n])
    BY <1>7
  <1>9. step[0] = first
    BY <1>7
  <1>10. step \in [Nat -> Trail(d)]
    <2> DEFINE P == {n \in Nat : step[n] \in Trail(d)}
    <2>1. 0 \in P
      BY <1>2, <1>9
    <2>2. \A n \in P : n + 1 \in P
      BY <1>8, EarlierType
    <2>3. \A n \in Nat : n \in P
      <3>1. P \in SUBSET Nat
        OBVIOUS
      <3> HIDE DEF P
      <3> QED BY <2>1, <2>2, <3>1, SetInduction
    <2> QED BY <1>7, <2>3
  <1> QED BY <1>1, <1>8, <1>9, <1>10 DEF first

-----------------------------------------------------------------------------
(* What the two walks find in the batches of one checkpoint.                 *)

(* A load's base, with the batches on it.                                    *)
Based(d, k) ==
  /\ d \in Disk /\ k \in Checkpoint /\ k.id # 0
  /\ Named(d) /\ Threaded(d, k)

LEMMA Members ==
  ASSUME NEW d, NEW k, Based(d, k)
  PROVE  /\ \A b \in Of(d, k.id) :
              /\ b \in d.batches /\ b \in Batch /\ b.base = k.id
              /\ b.gen \in Nat \ {0} /\ b.gen \in Gens /\ b.through \in Nat \ {0} /\ b.from \in Nat
              /\ b.through = b.from + 1 /\ b.through <= b.gen /\ b.through <= MaxGen
              /\ b.parent \in Gens /\ b.pgen \in Gens
         /\ \A b, c \in Of(d, k.id) : b.gen = c.gen => b = c
         /\ \A b, c \in Of(d, k.id) : b.through = c.through => b = c
  <1>1. \A b \in Of(d, k.id) : b \in d.batches /\ b \in Batch /\ b.base = k.id
    BY DEF Based, Of, Disk
  <1>2. \A b \in Batch : b.gen \in Gens /\ b.from \in Gens /\ b.parent \in Gens /\ b.pgen \in Gens
    BY DEF Batch
  <1>3. \A b \in Of(d, k.id) : 0 < b.gen /\ b.through <= b.gen /\ b.through = b.from + 1
    BY <1>1 DEF Based, Named, Threaded
  <1>4. \A b \in Of(d, k.id) :
          /\ b.gen \in Nat \ {0} /\ b.through \in Nat \ {0} /\ b.from \in Nat
          /\ b.through <= MaxGen
    <2> SUFFICES ASSUME NEW b \in Of(d, k.id)
                 PROVE  /\ b.gen \in Nat \ {0} /\ b.through \in Nat \ {0} /\ b.from \in Nat
                        /\ b.through <= MaxGen
      OBVIOUS
    <2>1. b.gen \in Nat /\ b.from \in Nat /\ b.gen <= MaxGen
      BY <1>1, <1>2, Constants
    <2> QED BY <1>3, <2>1, Constants
  <1> QED BY <1>1, <1>2, <1>3, <1>4 DEF Based, Named, Threaded

(* The walk stands at a batch of the chain, or before the first, and has     *)
(* passed listed batches only.                                               *)
Along(d, k, h) ==
  /\ h.base = k.id
  /\ h.cursor = 0 => h.tail = 0 /\ h.gen = k.gen
  /\ h.cursor # 0 =>
       \E p \in Of(d, k.id) : p.through = h.cursor /\ h.tail = p.gen /\ h.gen = p.gen
  /\ \A x \in Of(d, k.id) : x.through <= h.cursor => x \in Listed(d)
Stuck(d, k, h) == \A x \in Of(d, k.id) : x.through = h.cursor + 1 => x \notin Listed(d)

LEMMA Continuing ==
  ASSUME NEW d, NEW k, Based(d, k), NEW h \in Head, Along(d, k, h)
  PROVE  Following(d, k, h) = {b \in Of(d, k.id) : b \in Listed(d) /\ b.through = h.cursor + 1}
  <1>1. h.cursor \in Nat /\ h.tail \in Nat /\ h.gen \in Nat
    BY Constants DEF Head
  <1>2. ASSUME NEW b \in Following(d, k, h)
        PROVE  b \in Of(d, k.id) /\ b \in Listed(d) /\ b.through = h.cursor + 1
    BY DEF Following, Continues, Listed, Of
  <1>3. ASSUME NEW b \in Of(d, k.id), b \in Listed(d), b.through = h.cursor + 1
        PROVE  b \in Following(d, k, h)
    <2>1. b.base = k.id /\ b.through = b.from + 1 /\ b.from = h.cursor
      BY <1>1, <1>3, Members
    <2>2. CASE b.parent = 0
      <3>1. b.from = 0 /\ (k.gen # 0 => b.pgen = k.gen)
        BY <2>2 DEF Based, Threaded
      <3>2. h.tail = 0 /\ h.gen = k.gen
        BY <2>1, <3>1 DEF Along
      <3> QED BY <1>3, <2>1, <2>2, <3>1, <3>2 DEF Following, Continues
    <2>3. CASE b.parent # 0
      <3>1. PICK p \in Of(d, k.id) : p.gen = b.parent /\ p.through = b.from /\ b.pgen = p.gen
        BY <2>3 DEF Based, Threaded
      <3>2. p.through # 0
        BY Members
      <3>3. h.tail = p.gen /\ h.gen = p.gen
        <4>1. PICK q \in Of(d, k.id) : q.through = h.cursor /\ h.tail = q.gen /\ h.gen = q.gen
          BY <2>1, <3>1, <3>2 DEF Along
        <4>2. q = p
          BY <2>1, <3>1, <4>1, Members
        <4> QED BY <4>1, <4>2
      <3> QED BY <1>3, <2>1, <3>1, <3>3 DEF Following, Continues
    <2> QED BY <2>2, <2>3
  <1> QED BY <1>2, <1>3

LEMMA OnwardMoves ==
  ASSUME NEW d, NEW k, Based(d, k), NEW h \in Head, Along(d, k, h)
  PROVE  /\ Stuck(d, k, h) => Onward(d, k, h) = h
         /\ ~Stuck(d, k, h) => /\ Along(d, k, Onward(d, k, h))
                               /\ Onward(d, k, h).cursor = h.cursor + 1
  <1>1. CASE Stuck(d, k, h)
    <2>1. Following(d, k, h) = {}
      BY <1>1, Continuing DEF Stuck
    <2>2. Cardinality(Following(d, k, h)) # 1
      BY <2>1, FS_EmptySet
    <2> QED BY <1>1, <2>2 DEF Onward
  <1>2. CASE ~Stuck(d, k, h)
    <2>1. PICK b \in Of(d, k.id) : b.through = h.cursor + 1 /\ b \in Listed(d)
      BY <1>2 DEF Stuck
    <2>2. Following(d, k, h) = {b}
      BY <2>1, Continuing, Members
    <2>3. Cardinality(Following(d, k, h)) = 1
      BY <2>2, FS_Singleton
    <2>4. Onward(d, k, h) = [tail |-> b.gen, gen |-> b.gen, base |-> k.id, cursor |-> b.through]
      BY <2>2, <2>3 DEF Onward
    <2>5. h.cursor \in Nat
      BY Constants DEF Head
    <2>6. ASSUME NEW x \in Of(d, k.id), x.through <= b.through PROVE x \in Listed(d)
      <3>1. CASE x.through <= h.cursor
        BY <3>1 DEF Along
      <3>2. CASE ~ (x.through <= h.cursor)
        <4>1. x.through = b.through
          BY <2>1, <2>5, <2>6, <3>2, Members
        <4> QED BY <2>1, <4>1, Members
      <3> QED BY <3>1, <3>2
    <2>7. b.through # 0
      BY Members
    <2> QED BY <1>2, <2>1, <2>4, <2>6, <2>7 DEF Along
  <1> QED BY <1>1, <1>2

(* The forward walk ends before the first batch that is not listed.          *)
LEMMA WalkEnds ==
  ASSUME NEW d, Based(d, Base(d))
  PROVE  /\ Walk(d) \in Head
         /\ Along(d, Base(d), Walk(d))
         /\ Stuck(d, Base(d), Walk(d))
  <1> DEFINE k == Base(d)
  <1>0. d \in Disk
    BY DEF Based
  <1>1. PICK w \in [Nat -> Head] :
          /\ w[0] = Origin(k)
          /\ \A n \in Nat : w[n + 1] = Onward(d, k, w[n])
          /\ Walk(d) = w[MaxGen]
    BY <1>0, WalkSteps
  <1> HIDE DEF k
  <1>2. Based(d, k)
    BY DEF k
  <1> DEFINE P == {n \in Nat : Along(d, k, w[n]) /\ (w[n].cursor = n \/ Stuck(d, k, w[n]))}
  <1>3. 0 \in P
    <2>1. Along(d, k, Origin(k))
      <3>1. \A x \in Of(d, k.id) : ~ (x.through <= 0)
        BY <1>2, Members
      <3> QED BY <3>1 DEF Along, Origin
    <2> QED BY <1>1, <2>1 DEF Origin
  <1>4. ASSUME NEW n \in P PROVE n + 1 \in P
    <2>1. w[n] \in Head /\ w[n + 1] = Onward(d, k, w[n])
      BY <1>1
    <2>2. CASE Stuck(d, k, w[n])
      BY <1>2, <2>1, <2>2, OnwardMoves
    <2>3. CASE ~Stuck(d, k, w[n])
      BY <1>2, <2>1, <2>3, OnwardMoves
    <2> QED BY <2>2, <2>3
  <1>5. \A n \in Nat : n \in P
    <2>1. P \in SUBSET Nat
      OBVIOUS
    <2> HIDE DEF P
    <2> QED BY <1>3, <1>4, <2>1, SetInduction
  <1>6. Along(d, k, w[MaxGen]) /\ (w[MaxGen].cursor = MaxGen \/ Stuck(d, k, w[MaxGen]))
    BY <1>5, Constants
  <1>7. w[MaxGen].cursor = MaxGen => Stuck(d, k, w[MaxGen])
    <2>1. \A x \in Of(d, k.id) : x.through # MaxGen + 1
      BY <1>2, Members, Constants
    <2> QED BY <2>1 DEF Stuck
  <1> QED BY <1>1, <1>6, <1>7, Constants DEF k

(* The walk back from a batch finds all batches up to it, or fails for one   *)
(* that is not listed.                                                       *)
Below(d, k, c) == {x \in Of(d, k.id) : x.through <= c}
Traced(d, k, c, n, s) ==
  /\ s.whole =>
       /\ s.chain = {x \in Below(d, k, c) : c < x.through + n}
       /\ n >= c => s.key = 0
       /\ n < c => \E b \in Of(d, k.id) : b.through + n = c /\ s.key = b.gen
  /\ ~s.whole => \E x \in Below(d, k, c) : x \notin Listed(d)

LEMMA EarlierTraces ==
  ASSUME NEW d, NEW k, Based(d, k), NEW c \in Nat, NEW n \in Nat,
         NEW s \in Trail(d), Traced(d, k, c, n, s)
  PROVE  Traced(d, k, c, n + 1, Earlier(d, s))
  <1>1. CASE ~s.whole
    <2>1. Earlier(d, s) = s
      BY <1>1 DEF Earlier
    <2> QED BY <1>1, <2>1 DEF Traced
  <1>2. CASE s.whole /\ n >= c
    <2>1. s.key = 0
      BY <1>2 DEF Traced
    <2>2. Earlier(d, s) = s
      BY <2>1 DEF Earlier
    <2>3. s.chain = {x \in Below(d, k, c) : c < x.through + (n + 1)}
      <3>1. \A x \in Below(d, k, c) : c < x.through + n /\ c < x.through + (n + 1)
        BY <1>2, Members DEF Below
      <3> QED BY <1>2, <3>1 DEF Traced
    <2> QED BY <1>2, <2>1, <2>2, <2>3 DEF Traced
  <1>3. CASE s.whole /\ n < c
    <2>1. PICK b \in Of(d, k.id) : b.through + n = c /\ s.key = b.gen
      BY <1>3 DEF Traced
    <2>2. s.key # 0 /\ b.through \in Nat \ {0} /\ b \in Below(d, k, c) /\ b \in d.batches
      BY <2>1, Members DEF Below
    <2>3. CASE b \notin Listed(d)
      <3>1. At(d, s.key) = {}
        <4>1. \A x \in d.batches : x.gen = b.gen => x = b
          BY <2>2 DEF Based, Named
        <4> QED BY <2>1, <2>3, <4>1 DEF At, Listed
      <3>2. Earlier(d, s) = [s EXCEPT !.whole = FALSE]
        BY <1>3, <2>2, <3>1 DEF Earlier
      <3>3. Earlier(d, s).whole = FALSE
        BY <3>2 DEF Trail
      <3> QED BY <2>2, <2>3, <3>3 DEF Traced
    <2>4. CASE b \in Listed(d)
      <3>1. At(d, s.key) = {b}
        <4>1. \A x \in d.batches : x.gen = b.gen => x = b
          BY <2>2 DEF Based, Named
        <4> QED BY <2>1, <2>4, <4>1 DEF At, Listed
      <3>2. Earlier(d, s) = [s EXCEPT !.key = b.parent, !.chain = @ \cup {b}]
        BY <1>3, <2>2, <3>1 DEF Earlier
      <3>3. /\ Earlier(d, s).whole /\ Earlier(d, s).key = b.parent
            /\ Earlier(d, s).chain = s.chain \cup {b}
        BY <1>3, <3>2 DEF Trail
      <3>4. s.chain = {x \in Below(d, k, c) : c < x.through + n}
        BY <1>3 DEF Traced
      <3>5. ASSUME NEW x \in Below(d, k, c)
            PROVE  c < x.through + (n + 1) <=> (c < x.through + n \/ x = b)
        <4>1. x \in Of(d, k.id) /\ x.through \in Nat
          BY Members DEF Below
        <4>2. x.through = b.through => x = b
          BY <4>1, Members
        <4> QED BY <2>1, <2>2, <4>1, <4>2
      <3>6. Earlier(d, s).chain = {x \in Below(d, k, c) : c < x.through + (n + 1)}
        BY <2>2, <3>3, <3>4, <3>5
      <3>7. n + 1 >= c => Earlier(d, s).key = 0
        <4> SUFFICES ASSUME n + 1 >= c, b.parent # 0 PROVE FALSE
          BY <3>3
        <4>1. b.from = 0
          BY <2>1, <2>2, Members
        <4>2. PICK p \in Of(d, k.id) : p.gen = b.parent /\ p.through = b.from
          BY DEF Based, Threaded
        <4> QED BY <4>1, <4>2, Members
      <3>8. n + 1 < c => \E x \in Of(d, k.id) : x.through + (n + 1) = c /\ Earlier(d, s).key = x.gen
        <4> SUFFICES ASSUME n + 1 < c
                     PROVE  \E x \in Of(d, k.id) : x.through + (n + 1) = c /\ b.parent = x.gen
          BY <3>3
        <4>1. b.from \in Nat /\ b.through = b.from + 1 /\ b.from # 0
          BY <2>1, <2>2, Members
        <4>2. b.parent # 0
          BY <4>1 DEF Based, Threaded
        <4>3. PICK p \in Of(d, k.id) : p.gen = b.parent /\ p.through = b.from
          BY <4>2 DEF Based, Threaded
        <4>4. p.through + (n + 1) = c
          BY <2>1, <4>1, <4>3
        <4> QED BY <4>3, <4>4
      <3> QED BY <3>3, <3>6, <3>7, <3>8 DEF Traced
    <2> QED BY <2>3, <2>4
  <1> QED BY <1>1, <1>2, <1>3

LEMMA BackEnds ==
  ASSUME NEW d, NEW k, Based(d, k), NEW last \in Of(d, k.id)
  PROVE  LET s == Back(d, last.gen)
             all == Below(d, k, last.through)
         IN  /\ s.whole => s.chain = all /\ all \subseteq Listed(d)
             /\ ~s.whole => ~ (all \subseteq Listed(d))
  <1> DEFINE c == last.through
             all == Below(d, k, c)
  <1>0. d \in Disk /\ last.gen \in Gens /\ c \in Nat \ {0} /\ c <= MaxGen
    BY Members DEF Based
  <1>1. PICK w \in [Nat -> Trail(d)] :
          /\ w[0] = [key |-> last.gen, chain |-> {}, whole |-> TRUE]
          /\ \A n \in Nat : w[n + 1] = Earlier(d, w[n])
          /\ Back(d, last.gen) = w[MaxGen + 1]
    BY <1>0, BackSteps
  <1> DEFINE P == {n \in Nat : Traced(d, k, c, n, w[n])}
  <1>2. 0 \in P
    <2>1. \A x \in Below(d, k, c) : ~ (c < x.through + 0)
      BY <1>0, Members DEF Below
    <2>2. last.through + 0 = c
      BY <1>0
    <2> QED BY <1>0, <1>1, <2>1, <2>2 DEF Traced
  <1>3. ASSUME NEW n \in P PROVE n + 1 \in P
    <2>1. w[n] \in Trail(d) /\ w[n + 1] = Earlier(d, w[n]) /\ c \in Nat
      BY <1>0, <1>1
    <2> HIDE DEF c
    <2> QED BY <2>1, EarlierTraces
  <1>4. \A n \in Nat : n \in P
    <2>1. P \in SUBSET Nat
      OBVIOUS
    <2> HIDE DEF P
    <2> QED BY <1>2, <1>3, <2>1, SetInduction
  <1> DEFINE s == w[MaxGen + 1]
  <1>5. Traced(d, k, c, MaxGen + 1, s) /\ s \in Trail(d)
    BY <1>1, <1>4, Constants
  <1>6. \A x \in all : c < x.through + (MaxGen + 1)
    BY <1>0, Members, Constants DEF Below
  <1>7. s.whole => s.chain = all
    BY <1>5, <1>6 DEF Traced
  <1>8. s.chain \subseteq Listed(d)
    BY <1>5 DEF Trail
  <1> QED BY <1>1, <1>5, <1>7, <1>8 DEF Traced

-----------------------------------------------------------------------------
(* What a load replays.                                                      *)

(* The batches before the first that is not listed.                          *)
Front(d, k) ==
  {b \in Of(d, k.id) : \A x \in Of(d, k.id) : x.through <= b.through => x \in Listed(d)}

LEMMA FrontEnds ==
  ASSUME NEW d, NEW k, Based(d, k), NEW n \in Nat, Below(d, k, n) \subseteq Listed(d),
         \A x \in Of(d, k.id) : x.through = n + 1 => x \notin Listed(d)
  PROVE  Front(d, k) = Below(d, k, n)
  <1>1. ASSUME NEW b \in Below(d, k, n) PROVE b \in Front(d, k)
    <2>1. b \in Of(d, k.id) /\ b.through <= n /\ b.through \in Nat
      BY Members DEF Below
    <2>2. ASSUME NEW x \in Of(d, k.id), x.through <= b.through PROVE x \in Listed(d)
      <3>1. x.through <= n
        BY <2>1, <2>2, Members
      <3> QED BY <3>1 DEF Below
    <2> QED BY <2>1, <2>2 DEF Front
  <1>2. ASSUME NEW b \in Front(d, k) PROVE b \in Below(d, k, n)
    <2> SUFFICES ASSUME ~ (b.through <= n) PROVE FALSE
      BY DEF Front, Below
    <2>1. b \in Of(d, k.id) /\ b.through \in Nat
      BY Members DEF Front
    <2>2. n + 1 \in 1..b.through
      BY <2>1
    <2>3. PICK x \in Of(d, k.id) : x.through = n + 1
      BY <2>1, <2>2 DEF Based, Threaded
    <2>4. x.through <= b.through
      BY <2>1, <2>3
    <2> QED BY <2>3, <2>4 DEF Front
  <1> QED BY <1>1, <1>2

LEMMA ShapeBased ==
  ASSUME NEW d \in Disk, Shape(d), HasBase(d)
  PROVE  /\ Based(d, Base(d))
         /\ Base(d) = d.ckpt \/ Base(d) = d.backup
         /\ Base(d).id = d.ckpt.id => Base(d) = d.ckpt
  BY BaseType DEF Shape, HasBase, LiveBase, BackupBase, Base, Based, Backed

(* The head a record gives is that of the chain on the checkpoint.           *)
LEMMA AnchoredHead ==
  ASSUME NEW d \in Disk, Shape(d), HasBase(d), Anchored(d)
  PROVE  /\ HeadRecord(d) = d.head /\ d.head # NoHead /\ d.head.base = Base(d).id
         /\ \E b \in Of(d, Base(d).id) : b.gen = d.head.tail /\ b.through = d.head.cursor
         /\ \A b \in Of(d, Base(d).id) : b.through <= d.head.cursor
  <1>1. HeadRecord(d) = d.head /\ d.head # NoHead /\ d.head.base = Base(d).id
    BY DEF Anchored, HeadRecord
  <1>2. Base(d).id = d.ckpt.id
    BY <1>1 DEF Shape, Headed
  <1> QED BY <1>1, <1>2 DEF Shape, Headed

LEMMA WalkedChain ==
  ASSUME NEW d, Based(d, Base(d)), Walk(d).tail # 0
  PROVE  /\ Walk(d) # NoHead /\ Walk(d).base = Base(d).id
         /\ \E b \in Of(d, Base(d).id) : b.gen = Walk(d).tail /\ b.through = Walk(d).cursor
         /\ Back(d, Walk(d).tail).whole /\ Back(d, Walk(d).tail).chain = Front(d, Base(d))
  <1> DEFINE k == Base(d)
             h == Walk(d)
  <1>1. h \in Head /\ Along(d, k, h) /\ Stuck(d, k, h)
    BY WalkEnds
  <1>2. h # NoHead /\ h.base = k.id /\ h.cursor # 0
    BY <1>1 DEF NoHead, Along
  <1>3. PICK b \in Of(d, k.id) : b.through = h.cursor /\ h.tail = b.gen
    BY <1>1, <1>2 DEF Along
  <1>4. Below(d, k, h.cursor) \subseteq Listed(d)
    BY <1>1 DEF Along, Below
  <1>5. Back(d, b.gen).whole /\ Back(d, b.gen).chain = Below(d, k, h.cursor)
    <2> HIDE DEF k, h
    <2> QED BY <1>3, <1>4, BackEnds DEF k
  <1>6. h.cursor \in Nat
    BY <1>3, Members
  <1>7. Front(d, k) = Below(d, k, h.cursor)
    <2> HIDE DEF k, h
    <2> QED BY <1>1, <1>4, <1>6, FrontEnds DEF Stuck, k
  <1> QED BY <1>2, <1>3, <1>5, <1>7

LEMMA WalkedNowhere ==
  ASSUME NEW d, Based(d, Base(d)), Walk(d).tail = 0
  PROVE  Front(d, Base(d)) = {}
  <1> DEFINE k == Base(d)
             h == Walk(d)
  <1>1. h \in Head /\ Along(d, k, h) /\ Stuck(d, k, h)
    BY WalkEnds
  <1>2. h.cursor = 0
    BY <1>1, Members DEF Along
  <1>3. Below(d, k, 0) = {}
    BY Members DEF Below
  <1> HIDE DEF k, h
  <1>4. Front(d, k) = Below(d, k, 0)
    BY <1>1, <1>2, <1>3, FrontEnds DEF Stuck, k
  <1> QED BY <1>3, <1>4 DEF k

(* The chain a load replays is the front of the batches on its checkpoint,   *)
(* whether it starts from the head, from the walk, or finds the head's chain *)
(* broken and falls back on the walk's.                                      *)
LEMMA ChainIsFront ==
  ASSUME NEW d \in Disk, Shape(d), HasBase(d)
  PROVE  Chain(d) = Front(d, Base(d))
  <1> DEFINE k == Base(d)
  <1>0. Based(d, Base(d))
    BY ShapeBased
  <1>1. CASE Anchored(d)
    <2>1. /\ StartHead(d) = d.head /\ d.head # NoHead /\ d.head.base = k.id
          /\ \A b \in Of(d, k.id) : b.through <= d.head.cursor
      BY <1>1, AnchoredHead DEF StartHead
    <2>2. PICK last \in Of(d, k.id) : last.gen = d.head.tail /\ last.through = d.head.cursor
      BY <1>1, AnchoredHead
    <2>3. Of(d, k.id) = Below(d, k, last.through)
      BY <2>1, <2>2 DEF Below
    <2>4. CASE Back(d, last.gen).whole
      <3>1. Back(d, last.gen).chain = Below(d, k, last.through) /\ Below(d, k, last.through) \subseteq Listed(d)
        <4> HIDE DEF k
        <4> QED BY <1>0, <2>4, BackEnds DEF k
      <3>2. Chain(d) = Back(d, last.gen).chain
        BY <2>1, <2>2, <2>4 DEF Chain
      <3>3. Front(d, k) = Of(d, k.id)
        BY <2>3, <3>1 DEF Front
      <3> QED BY <2>3, <3>1, <3>2, <3>3
    <2>5. CASE ~Back(d, last.gen).whole
      <3>1. ~ (Of(d, k.id) \subseteq Listed(d))
        <4> HIDE DEF k
        <4> QED BY <1>0, <2>3, <2>5, BackEnds DEF k
      <3>2. Chain(d) = IF Walk(d).tail \notin {0, last.gen} THEN Back(d, Walk(d).tail).chain ELSE {}
        BY <2>1, <2>2, <2>5 DEF Chain
      <3>3. CASE Walk(d).tail = 0
        BY <1>0, <3>2, <3>3, WalkedNowhere
      <3>4. CASE Walk(d).tail # 0
        <4>1. Walk(d).tail # last.gen
          BY <1>0, <2>5, <3>4, WalkedChain
        <4> QED BY <1>0, <3>2, <3>4, <4>1, WalkedChain
      <3> QED BY <3>3, <3>4
    <2> QED BY <2>4, <2>5
  <1>2. CASE ~Anchored(d) /\ Walk(d).tail # 0
    <2>1. StartHead(d) = Walk(d)
      BY <1>2 DEF StartHead
    <2>2. /\ Walk(d) # NoHead /\ Walk(d).base = Base(d).id
          /\ Back(d, Walk(d).tail).whole /\ Back(d, Walk(d).tail).chain = Front(d, Base(d))
      BY <1>0, <1>2, WalkedChain
    <2> QED BY <2>1, <2>2 DEF Chain
  <1>3. CASE ~Anchored(d) /\ Walk(d).tail = 0
    <2>1. StartHead(d) = HeadRecord(d)
      BY <1>3 DEF StartHead
    <2>2. StartHead(d) = NoHead \/ StartHead(d).base # Base(d).id
      BY <1>3, <2>1 DEF Anchored
    <2>3. Chain(d) = {}
      BY <2>2 DEF Chain
    <2> QED BY <1>0, <1>3, <2>3, WalkedNowhere
  <1> QED BY <1>1, <1>2, <1>3

(* A load replays every batch before the first damaged one, and no other.    *)
LEMMA ReplayIsIntact ==
  ASSUME NEW d \in Disk, Shape(d), HasBase(d)
  PROVE  Replayed(d) = Intact(d, Base(d).id)
  <1> DEFINE k == Base(d)
             F == Front(d, k)
  <1>0. Based(d, k)
    BY ShapeBased
  <1>1. Chain(d) = F
    BY ChainIsFront
  <1>2. \A b \in F : b \in Of(d, k.id) /\ \A x \in Of(d, k.id) : x.through <= b.through => x \in F
    <2> SUFFICES ASSUME NEW b \in F, NEW x \in Of(d, k.id), x.through <= b.through,
                        NEW y \in Of(d, k.id), y.through <= x.through
                 PROVE  y \in Listed(d)
      BY DEF Front
    <2>1. b \in Of(d, k.id)
      BY DEF Front
    <2>2. y.through <= b.through
      <3> HIDE DEF k
      <3> QED BY <1>0, <2>1, Members
    <2> QED BY <2>2 DEF Front
  <1>3. ASSUME NEW b \in F PROVE Linked(d, b, F)
    <2>1. b \in Of(d, k.id)
      BY DEF Front
    <2>2. b.base = k.id /\ b.through = b.from + 1 /\ b.through \in Nat /\ b.from \in Nat
      <3> HIDE DEF k, F
      <3> QED BY <1>0, <2>1, Members
    <2>3. CASE b.parent = 0
      <3>1. b.from = 0 /\ (k.gen # 0 => b.pgen = k.gen)
        BY <1>0, <2>1, <2>3 DEF Based, Threaded
      <3> QED BY <2>2, <2>3, <3>1 DEF Linked
    <2>4. CASE b.parent # 0
      <3>1. PICK p \in Of(d, k.id) : p.gen = b.parent /\ p.through = b.from /\ b.pgen = p.gen
        BY <1>0, <2>1, <2>4 DEF Based, Threaded
      <3>2. p.through <= b.through
        BY <2>2, <3>1
      <3>3. p \in F
        BY <1>2, <3>2
      <3> QED BY <2>2, <2>4, <3>1, <3>3 DEF Linked
    <2> QED BY <2>3, <2>4
  <1>4. \A b \in F : Sound(d, b, F) <=> <<"rows", b.gen>> \notin d.bad
    BY <1>3 DEF Sound
  <1>5. \A b \in Of(d, k.id) : b \in Listed(d) <=> <<"batch", b.gen>> \notin d.bad
    BY DEF Of, Listed
  <1>6. Replayed(d) = {b \in F : \A p \in F : p.through <= b.through => <<"rows", p.gen>> \notin d.bad}
    BY <1>1, <1>4 DEF Replayed
  <1>7. ASSUME NEW b \in Intact(d, k.id) PROVE b \in Replayed(d)
    <2>1. b \in Of(d, k.id) /\ \A x \in Of(d, k.id) : x.through <= b.through => Good(d, x)
      BY DEF Intact
    <2>2. b \in F
      BY <1>5, <2>1 DEF Front, Good
    <2> QED BY <1>2, <1>6, <2>1, <2>2 DEF Good
  <1>8. ASSUME NEW b \in Replayed(d) PROVE b \in Intact(d, k.id)
    <2>1. b \in F /\ \A p \in F : p.through <= b.through => <<"rows", p.gen>> \notin d.bad
      BY <1>6
    <2>2. b \in Of(d, k.id) /\ \A x \in Of(d, k.id) : x.through <= b.through => x \in F /\ x \in Listed(d)
      BY <1>2, <2>1 DEF Front
    <2> QED BY <1>5, <2>1, <2>2 DEF Intact, Good
  <1> QED BY <1>7, <1>8

-----------------------------------------------------------------------------
(* What a load brings up.                                                    *)

LEMMA RecoveredIs ==
  ASSUME NEW d \in Disk, Shape(d), HasBase(d)
  PROVE  /\ Recovered(d) = Base(d).edits \cup UNION {b.edits : b \in Intact(d, Base(d).id)}
         /\ Replayed(d) \subseteq Of(d, Base(d).id)
         /\ Recovered(d) \in SUBSET Edits
         /\ {b.gen : b \in Replayed(d)} \in SUBSET Gens
  <1>1. Replayed(d) = Intact(d, Base(d).id)
    BY ReplayIsIntact
  <1>2. Intact(d, Base(d).id) \subseteq Of(d, Base(d).id)
    BY DEF Intact
  <1>3. \A b \in Of(d, Base(d).id) : b.edits \in SUBSET Edits /\ b.gen \in Gens
    BY DEF Of, Disk, Batch
  <1>4. Base(d).edits \in SUBSET Edits
    BY BaseType DEF Checkpoint
  <1> QED BY <1>1, <1>2, <1>3, <1>4 DEF Recovered

(* With a checkpoint that can be read, only what is stored on it; when no    *)
(* record is damaged, all of it.                                             *)
LEMMA RecoveredContents ==
  ASSUME NEW d \in Disk, Shape(d), LiveBase(d)
  PROVE  /\ HasBase(d) /\ Base(d) = d.ckpt
         /\ d.ckpt.edits \subseteq Recovered(d) /\ Recovered(d) \subseteq Contents(d)
         /\ d.bad \subseteq {<<"backup", 0>>} => Recovered(d) = Contents(d)
         /\ Of(d, d.ckpt.id) = {} => Recovered(d) = d.ckpt.edits
  <1>1. HasBase(d) /\ Base(d) = d.ckpt
    BY DEF HasBase, Base
  <1>2. Recovered(d) = d.ckpt.edits \cup UNION {b.edits : b \in Intact(d, d.ckpt.id)}
    BY <1>1, RecoveredIs
  <1>3. Intact(d, d.ckpt.id) \subseteq Of(d, d.ckpt.id)
    BY DEF Intact
  <1>4. d.bad \subseteq {<<"backup", 0>>} => Intact(d, d.ckpt.id) = Of(d, d.ckpt.id)
    <2>1. \A n : <<"batch", n>> # <<"backup", 0>> /\ <<"rows", n>> # <<"backup", 0>>
      OBVIOUS
    <2> QED BY <2>1 DEF Intact, Good
  <1> QED BY <1>1, <1>2, <1>3, <1>4 DEF Contents

(* A replay stops after some batch, or before the first.                     *)
LEMMA RecoveredUpto ==
  ASSUME NEW d \in Disk, Shape(d), HasBase(d)
  PROVE  \/ Recovered(d) = Base(d).edits
         \/ \E b \in Of(d, Base(d).id) : Recovered(d) = Upto(d, Base(d), b.through)
  <1> DEFINE k == Base(d)
             I == Intact(d, k.id)
  <1>0. Based(d, k)
    BY ShapeBased
  <1>1. Recovered(d) = k.edits \cup UNION {b.edits : b \in I}
    BY RecoveredIs
  <1>2. CASE I = {}
    BY <1>1, <1>2
  <1>3. CASE I # {}
    <2> HIDE DEF k
    <2> DEFINE T == {n \in Nat : \A b \in I : b.through <= n}
    <2>0. \A b \in I : b \in Of(d, k.id) /\ b.through \in Nat \ {0} /\ b.through <= MaxGen
      BY <1>0, Members DEF Intact
    <2>1. MaxGen \in T
      BY <2>0, Constants
    <2>2. PICK n \in T : \A m \in T : n <= m
      <3>1. T \in SUBSET Nat /\ T # {}
        BY <2>1
      <3> HIDE DEF T
      <3> QED BY <3>1, LeastNat
    <2>3. \E b \in I : b.through = n
      <3> SUFFICES ASSUME \A b \in I : b.through # n PROVE FALSE
        OBVIOUS
      <3>1. n \in Nat /\ \A b \in I : b.through <= n
        OBVIOUS
      <3>2. n # 0
        BY <1>3, <2>0, <3>1
      <3>3. \A b \in I : b.through <= n - 1
        BY <2>0, <3>1, <3>2
      <3>4. n - 1 \in T /\ ~ (n <= n - 1)
        BY <3>1, <3>2, <3>3
      <3> QED BY <2>2, <3>4
    <2>4. PICK b \in I : b.through = n
      BY <2>3
    <2>5. b \in Of(d, k.id)
      BY <2>0
    <2>6. I = {x \in Of(d, k.id) : x.through <= b.through}
      <3>1. ASSUME NEW x \in I PROVE x \in Of(d, k.id) /\ x.through <= b.through
        BY <2>0, <2>4
      <3>2. ASSUME NEW x \in Of(d, k.id), x.through <= b.through PROVE x \in I
        <4>1. ASSUME NEW y \in Of(d, k.id), y.through <= x.through PROVE Good(d, y)
          <5>1. y.through <= b.through
            BY <1>0, <2>5, <3>2, <4>1, Members
          <5> QED BY <5>1 DEF Intact
        <4> QED BY <4>1 DEF Intact
      <3> HIDE DEF I
      <3> QED BY <3>1, <3>2
    <2>7. Recovered(d) = Upto(d, k, b.through)
      <3> HIDE DEF I
      <3> QED BY <1>1, <2>6 DEF Upto
    <2> QED BY <2>5, <2>7 DEF k
  <1> QED BY <1>2, <1>3

-----------------------------------------------------------------------------
(* The invariant: initially, and in a step of one page beside the others.    *)

LEMMA PageConstants ==
  /\ NoTriple \in Triple
  /\ Closed \in Page
  /\ Closed.st = "closed" /\ Closed.edits = {} /\ Closed.saved = {} /\ Closed.seen = {}
  /\ Closed.init = FALSE /\ Closed.gen = 0 /\ Closed.mine = 0 /\ Closed.job = "none"
  /\ Closed.goal = {} /\ Closed.pull = "none" /\ Closed.pulled = {}
  <1>1. NoTriple \in Triple
    BY Constants DEF NoTriple, Triple
  <1> QED BY <1>1, Constants DEF Closed, Page

LEMMA EmptyShape == Shape(EmptyDisk) /\ Contents(EmptyDisk) = {} /\ ~HasBase(EmptyDisk)
  <1> DEFINE e == EmptyDisk
  <1>1. /\ e.ckpt = NoCheckpoint /\ e.backup = NoCheckpoint /\ e.head = NoHead /\ e.gen = 0
        /\ e.batches = {} /\ e.bad = {}
        /\ NoCheckpoint.id = 0 /\ NoCheckpoint.gen = 0 /\ NoCheckpoint.edits = {}
    BY DEF EmptyDisk, NoCheckpoint
  <1>2. \A id : Of(e, id) = {}
    BY <1>1 DEF Of
  <1>3. Named(e) /\ Headed(e) /\ Backed(e)
    <2> HIDE DEF e
    <2>1. Named(e)
      BY <1>1 DEF Named
    <2>2. Headed(e)
      BY <1>1, <1>2 DEF Headed
    <2>3. Backed(e)
      BY <1>1 DEF Backed, e
    <2> QED BY <2>1, <2>2, <2>3
  <1>4. Threaded(e, e.ckpt) /\ Threaded(e, e.backup)
    BY <1>2 DEF Threaded
  <1>5. Contents(e) = {}
    BY <1>1, <1>2 DEF Contents
  <1>6. ~HasBase(e)
    BY <1>1 DEF HasBase, LiveBase, BackupBase
  <1> QED BY <1>3, <1>4, <1>5, <1>6 DEF Shape

LEMMA ContentsType == ASSUME NEW d \in Disk PROVE Contents(d) \in SUBSET Edits
  BY DEF Contents, Of, Disk, Checkpoint, Batch

(* A closed page fits every disk, an open page without a dataset the empty.  *)
LEMMA ClosedFits ==
  ASSUME NEW d \in Disk, Shape(d), NEW last \in Nat
  PROVE  Fits(d, last, Closed)
  <1>1. /\ Closed.st = "closed" /\ Closed.edits = {} /\ Closed.saved = {} /\ Closed.seen = {}
        /\ Closed.init = FALSE /\ Closed.gen = 0 /\ Closed.mine = 0 /\ Closed.job = "none"
        /\ Closed.goal = {} /\ Closed.pull = "none" /\ Closed.pulled = {}
    BY PageConstants
  <1>2. d.gen \in Nat
    BY Constants DEF Disk
  <1>3. d.gen = 0 => Contents(d) = {}
    BY EmptyShape DEF Shape, Backed
  <1>4. Names(d, last, Closed)
    BY <1>1, <1>2 DEF Names
  <1>5. Holds(d, Closed)
    BY <1>1, <1>3 DEF Holds
  <1> QED BY <1>1, <1>4, <1>5 DEF Fits

LEMMA InitInv == Init => Inv
  <1> SUFFICES ASSUME Init PROVE Inv
    OBVIOUS
  <1>1. TypeOK
    <2>1. MaxFaults \in Nat
      BY JournalAssumption
    <2>2. disk \in Disk /\ tab \in [Tabs -> Page] /\ issued \in Gens
      BY Constants, PageConstants DEF Init
    <2>3. \A t \in Tabs : tab[t].job = "none"
      BY DEF Init, Closed
    <2> QED BY <2>1, <2>2, <2>3 DEF Init, TypeOK
  <1>2. Shape(disk)
    BY EmptyShape DEF Init
  <1>3. Pages
    BY Constants, ClosedFits, <1>2 DEF Init, Pages
  <1>4. Accounts
    <2>1. /\ disk.ckpt = NoCheckpoint /\ disk.backup = NoCheckpoint /\ disk.bad = {} /\ disk.gen = 0
          /\ NoCheckpoint.id = 0
      BY DEF Init, EmptyDisk, NoCheckpoint
    <2>2. Contents(disk) = {}
      BY EmptyShape DEF Init
    <2> QED BY <2>1, <2>2 DEF Init, Accounts, Past
  <1> QED BY <1>1, <1>2, <1>3, <1>4 DEF Inv

(* More generations issued, a page still fits.                               *)
LEMMA FitsLater ==
  ASSUME NEW d, NEW p \in Page, NEW m \in Nat, NEW n \in Nat, m <= n, Fits(d, m, p)
  PROVE  Fits(d, n, p)
  <1>1. p.jobGen \in Nat /\ p.pullGen \in Nat
    BY Constants DEF Page
  <1>2. Names(d, n, p)
    BY <1>1 DEF Fits, Names
  <1> QED BY <1>2 DEF Fits

(* A step of one page that leaves the records alone.                         *)
LEMMA QuietKeeps ==
  ASSUME Inv, NEW t \in Tabs, NEW p \in Page,
         tab' = [tab EXCEPT ![t] = p], p.job # "none" => p.st = "open",
         Fits(disk, issued', p),
         issued' \in Gens, issued <= issued',
         kept \subseteq kept', kept' \in SUBSET Edits,
         UNCHANGED <<disk, history>>
  PROVE  Inv'
  <1>0. TypeOK /\ Shape(disk) /\ Pages /\ Accounts
    BY DEF Inv
  <1>1. tab' \in [Tabs -> Page] /\ tab'[t] = p /\ \A u \in Tabs \ {t} : tab'[u] = tab[u]
    BY <1>0 DEF TypeOK
  <1>2. issued \in Nat /\ issued' \in Nat
    BY <1>0, Constants DEF TypeOK
  <1>3. TypeOK'
    <2>1. \A u \in Tabs : tab'[u].job # "none" => tab'[u].st = "open"
      BY <1>0, <1>1 DEF TypeOK, Is
    <2> QED BY <1>0, <1>1, <1>2, <2>1 DEF TypeOK, Is, history
  <1>4. Pages'
    <2>1. ASSUME NEW u \in Tabs \ {t} PROVE Fits(disk, issued', tab[u])
      BY <1>0, <1>2, FitsLater DEF Pages, TypeOK
    <2> QED BY <1>1, <2>1 DEF Pages
  <1>5. Accounts'
    <2>1. disk.gen <= issued /\ disk.gen \in Nat
      BY <1>0, Constants DEF Accounts, TypeOK, Disk
    <2>2. disk.gen <= issued'
      BY <1>2, <2>1
    <2> QED BY <1>0, <2>2 DEF Accounts, history
  <1> QED BY <1>0, <1>3, <1>4, <1>5 DEF Inv

(* A write takes the generation past all that the other pages know.          *)
LEMMA LeftBehind ==
  ASSUME NEW d \in Disk, NEW e \in Disk, NEW m \in Nat, NEW n \in Nat, d.gen < e.gen, m <= n,
         NEW p \in Page, Fits(d, m, p), NEW told \in BOOLEAN
  PROVE  /\ [p EXCEPT !.told = told] \in Page
         /\ Fits(e, n, [p EXCEPT !.told = told])
         /\ Fits(e, n, p)
  <1> DEFINE q == [p EXCEPT !.told = told]
  <1>1. /\ q \in Page
        /\ q.st = p.st /\ q.snap = p.snap /\ q.edits = p.edits /\ q.saved = p.saved /\ q.seen = p.seen
        /\ q.init = p.init /\ q.gen = p.gen /\ q.mine = p.mine /\ q.job = p.job /\ q.full = p.full
        /\ q.goal = p.goal /\ q.jobGen = p.jobGen /\ q.pull = p.pull /\ q.pulled = p.pulled
        /\ q.pullGen = p.pullGen /\ q.pullExp = p.pullExp /\ q.head = p.head
    BY DEF Page
  <1>2. /\ p.gen \in Nat /\ p.mine \in Nat /\ p.jobGen \in Nat /\ p.pullGen \in Nat /\ p.pullExp \in Nat
        /\ d.gen \in Nat /\ e.gen \in Nat
    BY Constants DEF Page, Disk
  <1>3. Names(e, n, p)
    BY <1>2 DEF Fits, Names
  <1>4. /\ p.mine # e.gen /\ p.gen # e.gen
        /\ p.job = "written" => p.jobGen # e.gen
        /\ p.pull = "written" => p.pullGen # e.gen
    BY <1>2 DEF Fits, Names
  <1>5. Holds(e, p)
    BY <1>4 DEF Fits, Holds
  <1> HIDE DEF q
  <1>6. Names(e, n, q) /\ Holds(e, q)
    BY <1>1, <1>3, <1>5 DEF Names, Holds
  <1>7. Fits(e, n, p) /\ Fits(e, n, q)
    BY <1>1, <1>3, <1>5, <1>6 DEF Fits
  <1> QED BY <1>1, <1>7 DEF q

(* A write that every other page will hear of.                               *)
LEMMA CommitKeeps ==
  ASSUME Inv, NEW t \in Tabs, NEW p \in Page, NEW d \in Disk,
         Announce(t, d, p), p.job # "none" => p.st = "open",
         Shape(d), disk.gen < d.gen, Fits(d, issued', p),
         issued' \in Gens, issued <= issued',
         kept' \in SUBSET Edits, durable' \in SUBSET Edits, past' \in SUBSET SUBSET Edits,
         UNCHANGED <<faults, hurt>>,
         Accounts'
  PROVE  Inv'
  <1> DEFINE q == [p EXCEPT !.cache = Shown(d)]
  <1>0. TypeOK /\ Shape(disk) /\ Pages /\ disk \in Disk
    BY DEF Inv, TypeOK
  <1>1. disk' = d
    BY DEF Announce
  <1>2. Shown(d) \in Triple
    BY DEF Shown, Triple, Disk, Checkpoint
  <1>3. /\ q \in Page
        /\ q.st = p.st /\ q.snap = p.snap /\ q.edits = p.edits /\ q.saved = p.saved /\ q.seen = p.seen
        /\ q.init = p.init /\ q.gen = p.gen /\ q.mine = p.mine /\ q.job = p.job /\ q.full = p.full
        /\ q.goal = p.goal /\ q.jobGen = p.jobGen /\ q.pull = p.pull /\ q.pulled = p.pulled
        /\ q.pullGen = p.pullGen /\ q.pullExp = p.pullExp /\ q.head = p.head
    BY <1>2 DEF Page
  <1>4. tab' = [u \in Tabs |-> IF u = t THEN q
                               ELSE IF tab[u].st = "closed" THEN tab[u]
                               ELSE [tab[u] EXCEPT !.told = TRUE]]
    BY DEF Announce
  <1> HIDE DEF q
  <1>5. Fits(d, issued', q)
    <2>1. Names(d, issued', q)
      BY <1>3 DEF Fits, Names
    <2>2. Holds(d, q)
      BY <1>3 DEF Fits, Holds
    <2> QED BY <1>3, <2>1, <2>2 DEF Fits
  <1>6. ASSUME NEW u \in Tabs
        PROVE  /\ tab'[u] \in Page /\ Fits(d, issued', tab'[u])
               /\ tab'[u].job # "none" => tab'[u].st = "open"
    <2>1. CASE u = t
      BY <1>3, <1>4, <1>5, <2>1
    <2>2. CASE u # t
      <3>1. tab[u] \in Page /\ Fits(disk, issued, tab[u]) /\ (tab[u].job # "none" => tab[u].st = "open")
        BY <1>0 DEF TypeOK, Pages, Is
      <3>2. issued \in Nat /\ issued' \in Nat
        BY <1>0, Constants DEF TypeOK
      <3>3. /\ [tab[u] EXCEPT !.told = TRUE] \in Page
            /\ Fits(d, issued', [tab[u] EXCEPT !.told = TRUE])
            /\ Fits(d, issued', tab[u])
        BY <1>0, <3>1, <3>2, LeftBehind
      <3>4. /\ [tab[u] EXCEPT !.told = TRUE].job = tab[u].job
            /\ [tab[u] EXCEPT !.told = TRUE].st = tab[u].st
        BY <3>1 DEF Page
      <3> QED BY <1>4, <2>2, <3>1, <3>3, <3>4
    <2> QED BY <2>1, <2>2
  <1>7. Pages'
    BY <1>1, <1>6 DEF Pages
  <1>8. TypeOK'
    BY <1>0, <1>1, <1>4, <1>6 DEF TypeOK, Is
  <1> QED BY <1>1, <1>7, <1>8 DEF Inv

-----------------------------------------------------------------------------
(* What the writes make of the records.                                      *)

(* A new checkpoint: with its backup, or a pull's beside the old one.        *)
LEMMA CheckpointShape ==
  ASSUME NEW d \in Disk, Shape(d), NEW e \in Disk,
         d.gen < e.gen, e.ckpt.id = e.gen, e.ckpt.gen \in {0, e.gen}, e.head = NoHead,
         e.batches \subseteq d.batches, e.bad \subseteq d.bad,
         \/ e.backup = e.ckpt
         \/ e.ckpt.gen = 0 /\ e.backup = d.backup /\ e.batches = d.batches
  PROVE  /\ Shape(e) /\ Of(e, e.ckpt.id) = {} /\ Contents(e) = e.ckpt.edits
         /\ e.backup = e.ckpt \/ e.backup.id # e.ckpt.id
  <1>1. /\ d.gen \in Nat /\ e.gen \in Nat /\ d.ckpt.id \in Nat /\ d.backup.id \in Nat
        /\ \A b \in d.batches : b.gen \in Nat /\ b.base \in Nat
        /\ \A x \in d.bad : x[2] \in Nat
    <2>1. \A x \in Keys : x[2] \in Nat
      BY Constants DEF Keys
    <2> QED BY <2>1, Constants DEF Disk, Checkpoint, Batch
  <1>2. \A b \in e.batches : b.base # e.gen
    BY <1>1 DEF Shape, Named
  <1>3. Of(e, e.ckpt.id) = {}
    BY <1>2 DEF Of
  <1>4. e.backup = e.ckpt \/ e.backup.id < e.gen
    BY <1>1 DEF Shape, Named
  <1>5. e.gen # 0 /\ e.ckpt.id # 0
    BY <1>1
  <1>6. Named(e)
    BY <1>1, <1>4 DEF Shape, Named
  <1>7. Headed(e)
    BY <1>3 DEF Headed
  <1>8. Backed(e)
    BY <1>1, <1>4, <1>5 DEF Backed
  <1>9. Threaded(e, e.ckpt)
    BY <1>3 DEF Threaded
  <1>10. Threaded(e, e.backup)
    <2>1. CASE e.backup = e.ckpt
      BY <1>9, <2>1
    <2>2. CASE e.backup = d.backup /\ e.batches = d.batches
      <3>1. \A id : Of(e, id) = Of(d, id)
        BY <2>2 DEF Of
      <3> QED BY <2>2, <3>1 DEF Shape, Threaded
    <2> QED BY <2>1, <2>2
  <1>11. Contents(e) = e.ckpt.edits
    BY <1>3 DEF Contents
  <1> QED BY <1>1, <1>3, <1>4, <1>6, <1>7, <1>8, <1>9, <1>10, <1>11 DEF Shape

(* A new batch, at the end of the chain on a checkpoint a save has written.  *)
LEMMA BatchShape ==
  ASSUME NEW d \in Disk, Shape(d), d.ckpt.gen # 0, NEW b \in Batch, d.gen < b.gen,
         b.parent = d.head.tail, b.pgen = d.gen, b.base = d.ckpt.id,
         b.from = d.head.cursor, b.through = b.from + 1,
         NEW e \in Disk,
         e.ckpt = d.ckpt, e.backup = d.backup, e.gen = b.gen, e.bad = d.bad,
         e.batches = d.batches \cup {b},
         e.head = [tail |-> b.gen, gen |-> b.gen, base |-> d.ckpt.id, cursor |-> b.through]
  PROVE  /\ Shape(e) /\ e.backup = e.ckpt
         /\ Of(e, e.ckpt.id) = Of(d, d.ckpt.id) \cup {b}
         /\ \A x \in Of(d, d.ckpt.id) : ~ (b.through <= x.through)
         /\ Contents(e) = Contents(d) \cup b.edits
  <1> DEFINE k == d.ckpt
             B == Of(d, k.id)
  <1>1. /\ d.gen \in Nat /\ e.gen \in Nat /\ d.ckpt.id \in Nat /\ d.ckpt.gen \in Nat /\ d.backup.id \in Nat
        /\ d.head.cursor \in Nat /\ b.gen \in Nat
        /\ \A x \in d.batches : x.gen \in Nat /\ x.base \in Nat /\ x.through \in Nat
        /\ \A x \in d.bad : x[2] \in Nat
    <2>1. \A x \in Keys : x[2] \in Nat
      BY Constants DEF Keys
    <2>2. d.gen \in Gens /\ b.gen \in Gens /\ e.gen \in Gens /\ d.ckpt \in Checkpoint
          /\ d.backup \in Checkpoint /\ d.head \in Head /\ d.batches \subseteq Batch /\ d.bad \subseteq Keys
      BY DEF Disk, Batch
    <2>3. \A x \in Batch : x.gen \in Gens /\ x.base \in Gens /\ x.through \in Gens
      BY DEF Batch
    <2>4. \A x \in Checkpoint : x.id \in Gens /\ x.gen \in Gens
      BY DEF Checkpoint
    <2>5. d.head.cursor \in Gens
      BY <2>2 DEF Head
    <2> QED BY <2>1, <2>2, <2>3, <2>4, <2>5, Constants
  <1>2. d.gen # 0 /\ k.id # 0 /\ k.gen = k.id
    <2>1. EmptyDisk.ckpt.gen = 0
      BY DEF EmptyDisk, NoCheckpoint
    <2> QED BY <2>1 DEF Shape, Backed
  <1>3. d.backup = k
    BY DEF Shape, Backed
  <1>4. Of(e, k.id) = B \cup {b}
    BY DEF Of
  <1>5. \A x \in B : x \in d.batches /\ x.through \in Nat /\ x.through <= d.head.cursor
    <2>1. d.head = NoHead => B = {}
      BY DEF Shape, Headed
    <2>2. \A x \in B : x \in d.batches /\ x.through \in Nat
      BY <1>1 DEF Of
    <2> QED BY <2>1, <2>2 DEF Shape, Headed
  <1>6. \A x \in B : ~ (b.through <= x.through)
    BY <1>1, <1>5
  <1>7. d.head.cursor <= d.gen
    <2>1. NoHead.cursor = 0
      BY DEF NoHead
    <2>2. CASE d.head # NoHead
      <3>1. PICK last \in B : last.gen = d.gen /\ last.through = d.head.cursor
        BY <2>2 DEF Shape, Headed
      <3>2. last.through <= last.gen
        BY <1>5, <3>1 DEF Shape, Named
      <3> QED BY <3>1, <3>2
    <2> QED BY <1>1, <2>1, <2>2
  <1>8. Named(e)
    <2>1. \A x \in d.batches : x.gen # b.gen
      BY <1>1 DEF Shape, Named
    <2>2. 0 < b.base /\ b.base <= b.gen /\ 0 < b.gen /\ b.through <= b.gen
      BY <1>1, <1>2, <1>7 DEF Shape, Named
    <2> QED BY <1>1, <2>1, <2>2 DEF Shape, Named
  <1>9. Headed(e)
    <2>1. e.head # NoHead
      BY <1>1 DEF NoHead
    <2>2. /\ e.head.base = e.ckpt.id /\ e.head.gen = e.gen /\ e.head.tail = e.gen
          /\ e.head.cursor = b.through
      OBVIOUS
    <2>3. b \in Of(e, e.ckpt.id) /\ b.gen = e.gen
      BY <1>4
    <2>4. \A x \in Of(e, e.ckpt.id) : x.through <= b.through
      BY <1>1, <1>4, <1>5
    <2> QED BY <2>1, <2>2, <2>3, <2>4 DEF Headed
  <1>10. Backed(e)
    BY <1>1, <1>2, <1>3 DEF Backed
  <1>11. Threaded(e, k)
    <2>1. \A x, y \in B \cup {b} : x.through = y.through => x = y
      <3>1. \A x, y \in B : x.through = y.through => x = y
        BY DEF Shape, Threaded
      <3>2. \A x \in B : x.through # b.through
        BY <1>1, <1>5
      <3> QED BY <3>1, <3>2
    <2>2. CASE d.head = NoHead
      <3>1. B = {} /\ d.gen = k.id /\ d.head.tail = 0 /\ d.head.cursor = 0
        BY <2>2 DEF Shape, Headed, NoHead
      <3>2. /\ b.through = 1 /\ b.from = 0 /\ b.parent = 0 /\ b.pgen = k.gen
        BY <1>2, <3>1
      <3>3. Of(e, k.id) = {b}
        BY <1>4, <3>1
      <3>4. \A i \in 1..b.through : i = b.through
        BY <3>2
      <3> QED BY <3>2, <3>3, <3>4 DEF Threaded
    <2>3. CASE d.head # NoHead
      <3>1. PICK last \in B : last.gen = d.gen /\ last.through = d.head.cursor
        BY <2>3 DEF Shape, Headed
      <3>2. b.parent = d.gen
        BY <2>3 DEF Shape, Headed
      <3>3. \A i \in 1..b.through : \E x \in B \cup {b} : x.through = i
        <4>1. \A i \in 1..last.through : \E x \in B : x.through = i
          BY DEF Shape, Threaded
        <4>2. \A i \in 1..b.through : i = b.through \/ i \in 1..last.through
          BY <1>1, <3>1
        <4> QED BY <4>1, <4>2
      <3>4. \A x \in B :
              /\ x.through = x.from + 1
              /\ \A i \in 1..x.through : \E y \in B : y.through = i
              /\ x.parent = 0 => x.from = 0 /\ (k.gen # 0 => x.pgen = k.gen)
              /\ x.parent # 0 => \E p \in B : p.gen = x.parent /\ p.through = x.from /\ x.pgen = p.gen
        BY DEF Shape, Threaded
      <3>5. \E p \in B : p.gen = b.parent /\ p.through = b.from /\ b.pgen = p.gen
        BY <3>1, <3>2
      <3>6. b.parent # 0
        BY <1>2, <3>2
      <3> HIDE DEF B, k
      <3> QED BY <1>4, <2>1, <3>3, <3>4, <3>5, <3>6 DEF Threaded
    <2> QED BY <2>2, <2>3
  <1>12. Contents(e) = Contents(d) \cup b.edits
    BY <1>4 DEF Contents
  <1> QED BY <1>3, <1>4, <1>6, <1>8, <1>9, <1>10, <1>11, <1>12 DEF Shape

-----------------------------------------------------------------------------
(* The steps of a page that leave the records alone.                         *)

LEMMA Here ==
  ASSUME Inv, NEW t \in Tabs
  PROVE  /\ tab[t] \in Page /\ Fits(disk, issued, tab[t]) /\ (tab[t].job # "none" => tab[t].st = "open")
         /\ disk \in Disk /\ Shape(disk) /\ Contents(disk) \in SUBSET Edits
         /\ issued \in Gens /\ issued \in Nat /\ issued <= issued /\ disk.gen \in Nat /\ disk.gen <= issued
         /\ kept \in SUBSET Edits
  <1>1. TypeOK /\ Shape(disk) /\ Pages /\ disk.gen <= issued
    BY DEF Inv, Accounts
  <1>2. disk \in Disk /\ issued \in Gens /\ kept \in SUBSET Edits
    BY <1>1 DEF TypeOK
  <1>3. disk.gen \in Nat /\ issued \in Nat
    BY <1>2, Constants DEF Disk
  <1>4. tab[t] \in Page /\ (tab[t].job # "none" => tab[t].st = "open")
    BY <1>1 DEF TypeOK, Is
  <1>5. Fits(disk, issued, tab[t])
    BY <1>1 DEF Pages
  <1> QED BY <1>1, <1>2, <1>3, <1>4, <1>5, ContentsType

LEMMA NoJobFits ==
  ASSUME NEW d, NEW n, NEW p \in Page, Fits(d, n, p)
  PROVE  /\ NoJob(p) \in Page /\ Fits(d, n, NoJob(p))
         /\ NoJob(p).job = "none" /\ NoJob(p).st = p.st
  <1> DEFINE q == NoJob(p)
  <1>1. /\ q \in Page
        /\ q.st = p.st /\ q.snap = p.snap /\ q.edits = p.edits /\ q.saved = p.saved /\ q.seen = p.seen
        /\ q.init = p.init /\ q.gen = p.gen /\ q.mine = p.mine /\ q.job = "none"
        /\ q.goal = {} /\ q.pull = p.pull /\ q.pulled = p.pulled
        /\ q.pullGen = p.pullGen /\ q.pullExp = p.pullExp
    BY Constants DEF Page, NoJob
  <1> HIDE DEF q
  <1>2. Names(d, n, q)
    BY <1>1 DEF Fits, Names
  <1>3. Holds(d, q)
    BY <1>1 DEF Fits, Holds
  <1> QED BY <1>1, <1>2, <1>3 DEF Fits, q

LEMMA GoStaleFits ==
  ASSUME NEW d, NEW n, NEW p \in Page, Fits(d, n, p)
  PROVE  GoStale(p) \in Page /\ Fits(d, n, GoStale(p)) /\ GoStale(p).job = "none"
  <1> DEFINE r == NoJob(p)
             q == GoStale(p)
  <1>1. r \in Page /\ Fits(d, n, r) /\ r.job = "none" /\ q = [r EXCEPT !.st = "stale"]
    BY NoJobFits DEF GoStale
  <1> HIDE DEF r, q
  <1>2. /\ q \in Page
        /\ q.st = "stale" /\ q.edits = r.edits /\ q.saved = r.saved /\ q.seen = r.seen
        /\ q.init = r.init /\ q.gen = r.gen /\ q.mine = r.mine /\ q.job = "none"
        /\ q.goal = r.goal /\ q.pull = r.pull /\ q.pulled = r.pulled
        /\ q.pullGen = r.pullGen /\ q.pullExp = r.pullExp
    BY <1>1 DEF Page
  <1>3. Names(d, n, q)
    BY <1>1, <1>2 DEF Fits, Names
  <1>4. Holds(d, q)
    BY <1>1, <1>2 DEF Fits, Holds
  <1> QED BY <1>2, <1>3, <1>4 DEF Fits, q

LEMMA RebasedFits ==
  ASSUME NEW d \in Disk, NEW n, NEW p \in Page, Fits(d, n, p), p.job = "none"
  PROVE  LET q == Rebased(p) IN
         /\ q \in Page /\ Fits(d, n, q)
         /\ q.job = "none" /\ q.st = p.st /\ q.pull = p.pull /\ q.edits = p.edits /\ q.mine = p.mine
  <1> DEFINE q == Rebased(p)
  <1>1. CASE p.mine # p.gen /\ p.mine = p.cache.gen
    <2>1. q = [p EXCEPT !.gen = p.mine, !.ckpt = p.cache.ckpt, !.head = NoHead, !.init = FALSE]
      BY <1>1 DEF Rebased
    <2>2. p.cache.ckpt \in Gens
      BY DEF Page, Triple
    <2> HIDE DEF q
    <2>3. /\ q \in Page
          /\ q.st = p.st /\ q.snap = p.snap /\ q.edits = p.edits /\ q.saved = p.saved /\ q.seen = p.seen
          /\ q.init = FALSE /\ q.gen = p.mine /\ q.mine = p.mine /\ q.job = p.job
          /\ q.goal = p.goal /\ q.pull = p.pull /\ q.pulled = p.pulled
          /\ q.pullGen = p.pullGen /\ q.pullExp = p.pullExp
      BY <2>1, <2>2, Constants DEF Page
    <2>4. p.mine \in Nat
      BY Constants DEF Page
    <2>5. Names(d, n, q)
      BY <2>3, <2>4 DEF Fits, Names
    <2>6. Holds(d, q)
      BY <2>3 DEF Fits, Holds
    <2> QED BY <2>3, <2>5, <2>6 DEF Fits, q
  <1>2. CASE ~ (p.mine # p.gen /\ p.mine = p.cache.gen)
    BY <1>2 DEF Rebased
  <1> QED BY <1>1, <1>2

(* A page that loads what is stored has all of it.                           *)
LEMMA LoadedFits ==
  ASSUME NEW d \in Disk, Shape(d), LiveBase(d), Recovered(d) = Contents(d),
         NEW told \in BOOLEAN, NEW n \in Nat
  PROVE  /\ Loaded(d, told) \in Page /\ Fits(d, n, Loaded(d, told))
         /\ Loaded(d, told).job = "none" /\ Loaded(d, told).mine = d.gen
  <1> DEFINE q == Loaded(d, told)
  <1>1. Recovered(d) \in SUBSET Edits /\ {b.gen : b \in Replayed(d)} \in SUBSET Gens
    BY RecoveredContents, RecoveredIs
  <1>2. Shown(d) \in Triple /\ d.gen \in Gens /\ d.ckpt.id \in Gens /\ d.head \in Head
    BY DEF Shown, Triple, Disk, Checkpoint
  <1>3. /\ q \in Page
        /\ q.st = "open" /\ q.edits = Recovered(d) /\ q.saved = Recovered(d) /\ q.seen = Recovered(d)
        /\ q.init = (d.ckpt.gen # 0) /\ q.gen = d.gen /\ q.mine = d.gen /\ q.job = "none"
        /\ q.goal = {} /\ q.pull = "none" /\ q.pulled = {}
    <2> DEFINE c == Closed
               r == Recovered(d)
               j == {b.gen : b \in Replayed(d)}
               s == Shown(d)
               init == d.ckpt.gen # 0
    <2>1. q = [c EXCEPT !.st = "open", !.edits = r, !.saved = r, !.seen = r, !.init = init,
                        !.gen = d.gen, !.ckpt = d.ckpt.id, !.head = d.head, !.journal = j,
                        !.mine = d.gen, !.cache = s, !.told = told]
      BY DEF Loaded
    <2>2. c \in Page /\ c.job = "none" /\ c.goal = {} /\ c.pull = "none" /\ c.pulled = {}
      BY PageConstants
    <2>3. r \in SUBSET Edits /\ j \in SUBSET Gens /\ s \in Triple /\ init \in BOOLEAN
      BY <1>1, <1>2
    <2> HIDE DEF c, r, j, s, init, q
    <2>4. q \in Page
      <3> DEFINE a == [c EXCEPT !.st = "open", !.edits = r, !.saved = r, !.seen = r, !.init = init,
                                !.gen = d.gen]
      <3>1. q = [a EXCEPT !.ckpt = d.ckpt.id, !.head = d.head, !.journal = j,
                          !.mine = d.gen, !.cache = s, !.told = told]
        BY <2>1
      <3>2. a \in Page
        BY <1>2, <2>2, <2>3 DEF Page
      <3> HIDE DEF a
      <3> QED BY <1>2, <2>3, <3>1, <3>2 DEF Page
    <2>5. /\ q.st = "open" /\ q.edits = r /\ q.saved = r /\ q.seen = r
          /\ q.init = init /\ q.gen = d.gen /\ q.mine = d.gen
      BY <2>1, <2>2 DEF Page
    <2>6. q.job = "none" /\ q.goal = {} /\ q.pull = "none" /\ q.pulled = {}
      BY <2>1, <2>2 DEF Page
    <2> QED BY <2>4, <2>5, <2>6 DEF r, init
  <1> HIDE DEF q
  <1>4. d.gen \in Nat
    BY <1>2, Constants
  <1>5. Names(d, n, q)
    BY <1>3, <1>4 DEF Names
  <1>6. Holds(d, q)
    BY <1>3 DEF Holds
  <1> QED BY <1>3, <1>5, <1>6 DEF Fits, q

LEMMA OpenInv == ASSUME Inv, NEW t \in Tabs, Open(t) PROVE Inv'
  <1> USE Here DEF history
  <1>1. CASE disk = EmptyDisk /\ Set(t, [Closed EXCEPT !.st = "open"])
    <2> DEFINE q == [Closed EXCEPT !.st = "open"]
    <2>1. /\ q \in Page /\ q.st = "open" /\ q.job = "none" /\ q.gen = 0 /\ q.mine = 0 /\ q.pull = "none"
          /\ q.edits = {} /\ q.saved = {} /\ q.seen = {} /\ q.goal = {} /\ q.pulled = {} /\ q.init = FALSE
      BY PageConstants DEF Page
    <2> HIDE DEF q
    <2>2. Contents(disk) = {} /\ disk.gen = 0
      BY <1>1, EmptyShape DEF EmptyDisk
    <2>3. Names(disk, issued, q)
      BY <2>1, <2>2 DEF Names
    <2>4. Holds(disk, q)
      BY <2>1, <2>2 DEF Holds
    <2>5. Fits(disk, issued, q)
      BY <2>1, <2>3, <2>4 DEF Fits
    <2>6. tab' = [tab EXCEPT ![t] = q]
      BY <1>1 DEF Set, q
    <2> QED BY <2>1, <2>5, <2>6, QuietKeeps DEF Open
  <1>2. ASSUME NEW told \in BOOLEAN, HasBase(disk), ~NeedsRepair(disk), Set(t, Loaded(disk, told))
        PROVE  Inv'
    <2>1. LiveBase(disk) /\ disk.bad \subseteq {<<"backup", 0>>}
      BY <1>2 DEF NeedsRepair
    <2>2. Recovered(disk) = Contents(disk)
      BY <2>1, RecoveredContents
    <2>3. /\ Loaded(disk, told) \in Page /\ Fits(disk, issued, Loaded(disk, told))
          /\ Loaded(disk, told).job = "none"
      BY <2>1, <2>2, LoadedFits
    <2> QED BY <1>2, <2>3, QuietKeeps DEF Open, Set
  <1>3. ASSUME NEW told \in BOOLEAN, HasBase(disk),
               Set(t, [Closed EXCEPT !.st = "loading", !.snap = disk, !.told = told])
        PROVE  Inv'
    <2> DEFINE q == [Closed EXCEPT !.st = "loading", !.snap = disk, !.told = told]
    <2>1. /\ q \in Page /\ q.st = "loading" /\ q.snap = disk
          /\ q.job = "none" /\ q.gen = 0 /\ q.mine = 0 /\ q.pull = "none"
          /\ q.edits = {} /\ q.saved = {} /\ q.seen = {} /\ q.goal = {} /\ q.pulled = {} /\ q.init = FALSE
      <3> DEFINE c == Closed
      <3>1. /\ c \in Page /\ c.edits = {} /\ c.saved = {} /\ c.seen = {}
            /\ c.init = FALSE /\ c.gen = 0 /\ c.mine = 0 /\ c.job = "none"
            /\ c.goal = {} /\ c.pull = "none" /\ c.pulled = {}
        BY PageConstants
      <3>2. q = [c EXCEPT !.st = "loading", !.snap = disk, !.told = told] /\ disk \in Disk
        OBVIOUS
      <3> HIDE DEF c, q
      <3> QED BY <3>1, <3>2 DEF Page
    <2> HIDE DEF q
    <2>2. disk.gen = 0 => Contents(disk) = {}
      BY EmptyShape DEF Shape, Backed
    <2>3. Names(disk, issued, q)
      BY <2>1 DEF Names
    <2>4. Holds(disk, q)
      BY <2>1, <2>2 DEF Holds
    <2>5. Fits(disk, issued, q)
      BY <1>3, <2>1, <2>3, <2>4 DEF Fits
    <2>6. tab' = [tab EXCEPT ![t] = q]
      BY <1>3 DEF Set, q
    <2> QED BY <2>1, <2>5, <2>6, QuietKeeps DEF Open
  <1> QED BY <1>1, <1>2, <1>3 DEF Open

LEMMA CloseInv ==
  ASSUME Inv, NEW t \in Tabs, Set(t, Closed), UNCHANGED <<disk, issued, kept, history>>
  PROVE  Inv'
  <1>1. Closed.job = "none" /\ Closed \in Page /\ Fits(disk, issued, Closed)
    BY Here, PageConstants, ClosedFits DEF Closed
  <1> QED BY <1>1, Here, QuietKeeps DEF Set, history

LEMMA EditInv == ASSUME Inv, NEW t \in Tabs, Edit(t) PROVE Inv'
  <1> DEFINE p == tab[t]
  <1>0. p \in Page /\ Fits(disk, issued, p) /\ p.st = "open"
    BY Here DEF Edit, Is
  <1>1. PICK e \in Edits : Set(t, [p EXCEPT !.edits = @ \cup {e}, !.seen = @ \cup {e}])
    BY DEF Edit
  <1> DEFINE q == [p EXCEPT !.edits = @ \cup {e}, !.seen = @ \cup {e}]
  <1>2. tab' = [tab EXCEPT ![t] = q]
    BY <1>1 DEF Set
  <1> HIDE DEF p
  <1>3. /\ q \in Page
        /\ q.st = p.st /\ q.saved = p.saved /\ q.edits = p.edits \cup {e} /\ q.seen = p.seen \cup {e}
        /\ q.init = p.init /\ q.gen = p.gen /\ q.mine = p.mine /\ q.job = p.job /\ q.full = p.full
        /\ q.goal = p.goal /\ q.jobGen = p.jobGen /\ q.pull = p.pull /\ q.pulled = p.pulled
        /\ q.pullGen = p.pullGen /\ q.pullExp = p.pullExp /\ q.head = p.head
    BY <1>0 DEF Page
  <1> HIDE DEF q
  <1>4. Names(disk, issued, q)
    BY <1>0, <1>3 DEF Fits, Names
  <1>5. Holds(disk, q)
    BY <1>0, <1>3 DEF Fits, Holds
  <1>6. Fits(disk, issued, q)
    BY <1>0, <1>3, <1>4, <1>5 DEF Fits
  <1> QED BY <1>0, <1>2, <1>3, <1>6, Here, QuietKeeps DEF Edit, history

(* A save captures all the page shows, which is all that is stored if the    *)
(* page is up to date.                                                       *)
LEMMA SaveInv == ASSUME Inv, NEW t \in Tabs, Save(t) PROVE Inv'
  <1> DEFINE r == tab[t]
             p == Rebased(tab[t])
  <1>0. /\ r \in Page /\ Fits(disk, issued, r) /\ r.st = "open" /\ r.pull = "none" /\ r.job = "none"
        /\ p.job = "none" /\ p.pull = "none"
    BY Here DEF Save, Is, Rebased
  <1>1. p \in Page /\ Fits(disk, issued, p) /\ p.st = "open" /\ p.pull = "none"
    BY <1>0, Here, RebasedFits
  <1>2. PICK full \in BOOLEAN, n \in 1..MaxGen :
          /\ ~p.init \/ Cardinality(p.journal) >= CompactAt => full
          /\ Fresh(n)
          /\ Set(t, [p EXCEPT !.job = "captured", !.full = full, !.goal = p.edits, !.jobGen = n])
    BY DEF Save
  <1> DEFINE q == [p EXCEPT !.job = "captured", !.full = full, !.goal = p.edits, !.jobGen = n]
  <1>3. tab' = [tab EXCEPT ![t] = q]
    BY <1>2 DEF Set
  <1> HIDE DEF p
  <1>4. n \in Gens /\ n = issued + 1 /\ issued' = n /\ issued <= n
    BY <1>2, Here, Constants DEF Fresh, Gens
  <1>5. /\ q \in Page
        /\ q.st = p.st /\ q.saved = p.saved /\ q.edits = p.edits /\ q.seen = p.seen
        /\ q.init = p.init /\ q.gen = p.gen /\ q.mine = p.mine /\ q.job = "captured" /\ q.full = full
        /\ q.goal = p.edits /\ q.jobGen = n /\ q.pull = "none" /\ q.pulled = p.pulled
    BY <1>1, <1>4 DEF Page
  <1> HIDE DEF q
  <1>6. p.gen \in Nat /\ p.mine \in Nat
    BY <1>1, Constants DEF Page
  <1>7. Names(disk, n, q)
    BY <1>1, <1>4, <1>5, <1>6, Here DEF Fits, Names
  <1>8. p.gen = disk.gen => p.mine = disk.gen
    BY <1>1, <1>6, Here DEF Fits, Names
  <1>9. Holds(disk, q)
    BY <1>1, <1>2, <1>5, <1>8 DEF Fits, Holds
  <1>10. Fits(disk, issued', q)
    BY <1>1, <1>4, <1>5, <1>7, <1>9 DEF Fits
  <1> QED BY <1>1, <1>3, <1>4, <1>5, <1>10, Here, QuietKeeps DEF Save, history

LEMMA SaveStaleInv == ASSUME Inv, NEW t \in Tabs, SaveStale(t) PROVE Inv'
  <1>0. tab[t] \in Page /\ Fits(disk, issued, tab[t]) /\ tab[t].job = "none"
    BY Here DEF SaveStale, Rebased
  <1> DEFINE p == Rebased(tab[t])
  <1>1. p \in Page /\ Fits(disk, issued, p)
    BY <1>0, Here, RebasedFits
  <1>2. tab' = [tab EXCEPT ![t] = GoStale(p)]
    BY DEF SaveStale, Set
  <1> HIDE DEF p
  <1>3. GoStale(p) \in Page /\ Fits(disk, issued, GoStale(p)) /\ GoStale(p).job = "none"
    BY <1>1, GoStaleFits
  <1> QED BY <1>2, <1>3, Here, QuietKeeps DEF SaveStale, history

(* A page gives its save up, or is stale.                                    *)
LEMMA GiveUpInv ==
  ASSUME Inv, NEW t \in Tabs, Set(t, NoJob(tab[t])) \/ Set(t, GoStale(tab[t])),
         UNCHANGED <<disk, issued, kept, history>>
  PROVE  Inv'
  <1>1. tab[t] \in Page /\ Fits(disk, issued, tab[t])
    BY Here
  <1>2. CASE Set(t, NoJob(tab[t]))
    BY <1>1, <1>2, Here, NoJobFits, QuietKeeps DEF Set
  <1>3. CASE Set(t, GoStale(tab[t]))
    BY <1>1, <1>3, Here, GoStaleFits, QuietKeeps DEF Set
  <1> QED BY <1>2, <1>3

LEMMA SubmitInv == ASSUME Inv, NEW t \in Tabs, Submit(t) PROVE Inv'
  <1> DEFINE p == tab[t]
             q == [p EXCEPT !.job = "queued"]
  <1>1. CASE tab' = [tab EXCEPT ![t] = q] /\ p.pull = "none"
    <2>0. p \in Page /\ Fits(disk, issued, p) /\ p.job = "captured" /\ p.st = "open"
      BY Here DEF Submit
    <2>1. tab' = [tab EXCEPT ![t] = q]
      BY <1>1
    <2>2. p.pull = "none"
      BY <1>1
    <2> HIDE DEF p
    <2>3. /\ q \in Page
          /\ q.st = p.st /\ q.saved = p.saved /\ q.edits = p.edits /\ q.seen = p.seen
          /\ q.init = p.init /\ q.gen = p.gen /\ q.mine = p.mine /\ q.job = "queued" /\ q.full = p.full
          /\ q.goal = p.goal /\ q.jobGen = p.jobGen /\ q.pull = "none" /\ q.pulled = p.pulled
      BY <2>0, <2>2 DEF Page
    <2> HIDE DEF q
    <2>4. Names(disk, issued, q)
      BY <2>0, <2>2, <2>3 DEF Fits, Names
    <2>5. Holds(disk, q)
      BY <2>0, <2>2, <2>3 DEF Fits, Holds
    <2>6. Fits(disk, issued, q)
      BY <2>0, <2>3, <2>4, <2>5 DEF Fits
    <2> QED BY <2>0, <2>1, <2>3, <2>6, Here, QuietKeeps DEF Submit, history
  <1>2. CASE Set(t, NoJob(tab[t])) \/ Set(t, GoStale(tab[t]))
    BY <1>2, GiveUpInv DEF Submit, history
  <1> QED BY <1>1, <1>2 DEF Submit, Set

LEMMA WriteFailsInv == ASSUME Inv, NEW t \in Tabs, WriteFails(t) PROVE Inv'
  BY GiveUpInv DEF WriteFails, history

(* The callback: what the page has written is what it knows.                 *)
LEMMA SaveDoneInv == ASSUME Inv, NEW t \in Tabs, SaveDone(t) PROVE Inv'
  <1> DEFINE p == tab[t]
             r == [p EXCEPT
                     !.gen = p.jobGen, !.mine = p.jobGen, !.init = TRUE, !.saved = p.goal,
                     !.head = NextHead(p),
                     !.ckpt = IF p.full THEN p.jobGen ELSE @,
                     !.journal = IF p.full THEN {} ELSE @ \cup {p.jobGen}]
             q == NoJob(r)
  <1>0. p \in Page /\ Fits(disk, issued, p) /\ p.job = "written" /\ p.st = "open"
    BY Here DEF SaveDone
  <1>1. tab' = [tab EXCEPT ![t] = q]
    BY DEF SaveDone, Set
  <1> HIDE DEF p
  <1>2. NextHead(p) \in Head
    <2>1. p.head.cursor \in Nat /\ p.jobGen \in Gens /\ p.ckpt \in Gens
      BY <1>0, Constants DEF Page, Head
    <2>2. p.head.cursor < p.jobGen
      BY <1>0 DEF Fits, Names
    <2>3. p.head.cursor + 1 \in Gens
      BY <2>1, <2>2, Constants DEF Gens
    <2> QED BY <2>1, <2>3, Constants DEF NextHead, Head
  <1>3. /\ q \in Page
        /\ q.st = "open" /\ q.edits = p.edits /\ q.saved = p.goal /\ q.seen = p.seen
        /\ q.init = TRUE /\ q.gen = p.jobGen /\ q.mine = p.jobGen /\ q.job = "none"
        /\ q.goal = {} /\ q.pull = p.pull /\ q.pulled = p.pulled
        /\ q.pullGen = p.pullGen /\ q.pullExp = p.pullExp
    <2> DEFINE h == NextHead(p)
               c == IF p.full THEN p.jobGen ELSE p.ckpt
               j == IF p.full THEN {} ELSE p.journal \cup {p.jobGen}
    <2>1. r = [p EXCEPT !.gen = p.jobGen, !.mine = p.jobGen, !.init = TRUE, !.saved = p.goal,
                        !.head = h, !.ckpt = c, !.journal = j]
      BY DEF Page
    <2>2. h \in Head /\ c \in Gens /\ j \in SUBSET Gens
      BY <1>0, <1>2 DEF Page
    <2> HIDE DEF r, h, c, j
    <2>3. /\ r \in Page
          /\ r.st = p.st /\ r.edits = p.edits /\ r.saved = p.goal /\ r.seen = p.seen
          /\ r.init = TRUE /\ r.gen = p.jobGen /\ r.mine = p.jobGen
          /\ r.pull = p.pull /\ r.pulled = p.pulled
          /\ r.pullGen = p.pullGen /\ r.pullExp = p.pullExp
      BY <1>0, <2>1, <2>2 DEF Page
    <2> QED BY <1>0, <2>3, Constants DEF NoJob, Page
  <1> HIDE DEF q, r
  <1>4. p.mine \in Nat /\ p.jobGen \in Nat /\ p.pullExp \in Nat
    BY <1>0, Constants DEF Page
  <1>5. Names(disk, issued, q)
    BY <1>0, <1>3, <1>4 DEF Fits, Names
  <1>6. Holds(disk, q)
    BY <1>0, <1>3 DEF Fits, Holds
  <1>7. Fits(disk, issued, q)
    BY <1>3, <1>5, <1>6 DEF Fits
  <1> QED BY <1>1, <1>3, <1>7, Here, QuietKeeps DEF SaveDone, history

(* The stale page's copy.                                                    *)
LEMMA KeepCopyInv == ASSUME Inv, NEW t \in Tabs, KeepCopy(t) PROVE Inv'
  <1> DEFINE p == tab[t]
             q == [p EXCEPT !.st = "readonly"]
  <1>0. p \in Page /\ Fits(disk, issued, p) /\ p.st = "stale" /\ p.job = "none"
    BY Here DEF KeepCopy, Is
  <1>1. tab' = [tab EXCEPT ![t] = q] /\ kept' \in {kept, kept \cup p.edits}
    BY DEF KeepCopy, Set
  <1> HIDE DEF p
  <1>2. /\ q \in Page
        /\ q.st = "readonly" /\ q.saved = p.saved /\ q.edits = p.edits /\ q.seen = p.seen
        /\ q.init = p.init /\ q.gen = p.gen /\ q.mine = p.mine /\ q.job = "none"
        /\ q.goal = p.goal /\ q.pull = p.pull /\ q.pulled = p.pulled
        /\ q.pullGen = p.pullGen /\ q.pullExp = p.pullExp
    BY <1>0 DEF Page
  <1> HIDE DEF q
  <1>3. Names(disk, issued, q)
    BY <1>0, <1>2 DEF Fits, Names
  <1>4. Holds(disk, q)
    BY <1>0, <1>2 DEF Fits, Holds
  <1>5. Fits(disk, issued, q)
    BY <1>2, <1>3, <1>4 DEF Fits
  <1>6. kept \subseteq kept' /\ kept' \in SUBSET Edits
    BY <1>0, <1>1, Here DEF Page
  <1> QED BY <1>1, <1>2, <1>5, <1>6, Here, QuietKeeps DEF KeepCopy, history

(* What a page hears of the records says nothing of what it knows.           *)
LEMMA HearInv == ASSUME Inv, NEW t \in Tabs, Hear(t) \/ HearDone(t) PROVE Inv'
  <1> DEFINE p == tab[t]
  <1>0. p \in Page /\ Fits(disk, issued, p) /\ p.st = "open"
    BY Here DEF Hear, HearDone, Is
  <1>1. Shown(disk) \in Triple /\ NoTriple \in Triple /\ p.cache \in Triple /\ p.heard \in Triple
        /\ p.told \in BOOLEAN
    BY <1>0, Here, PageConstants DEF Shown, Triple, Disk, Checkpoint, Page
  <1>2. PICK q : /\ tab' = [tab EXCEPT ![t] = q]
                 /\ \/ q = [p EXCEPT !.told = FALSE, !.heard = Shown(disk)]
                    \/ q = [p EXCEPT !.cache = p.heard, !.heard = NoTriple]
    BY DEF Hear, HearDone, Set
  <1> HIDE DEF p
  <1>3. /\ q \in Page
        /\ q.st = p.st /\ q.snap = p.snap /\ q.edits = p.edits /\ q.saved = p.saved /\ q.seen = p.seen
        /\ q.init = p.init /\ q.gen = p.gen /\ q.mine = p.mine /\ q.job = p.job /\ q.full = p.full
        /\ q.goal = p.goal /\ q.jobGen = p.jobGen /\ q.pull = p.pull /\ q.pulled = p.pulled
        /\ q.pullGen = p.pullGen /\ q.pullExp = p.pullExp /\ q.head = p.head
    <2> DEFINE now == Shown(disk)
               none == NoTriple
    <2>0. now \in Triple /\ none \in Triple /\ p.heard \in Triple
      BY <1>1
    <2>1. \/ q = [p EXCEPT !.told = FALSE, !.heard = now]
          \/ q = [p EXCEPT !.cache = p.heard, !.heard = none]
      BY <1>2
    <2> HIDE DEF now, none
    <2>2. CASE q = [p EXCEPT !.told = FALSE, !.heard = now]
      BY <1>0, <2>0, <2>2 DEF Page
    <2>3. CASE q = [p EXCEPT !.cache = p.heard, !.heard = none]
      BY <1>0, <2>0, <2>3 DEF Page
    <2> QED BY <2>1, <2>2, <2>3
  <1>4. Names(disk, issued, q)
    BY <1>0, <1>3 DEF Fits, Names
  <1>5. Holds(disk, q)
    BY <1>0, <1>3 DEF Fits, Holds
  <1>6. Fits(disk, issued, q)
    BY <1>0, <1>3, <1>4, <1>5 DEF Fits
  <1>7. UNCHANGED <<disk, issued, kept, history>>
    BY DEF Hear, HearDone
  <1> QED BY <1>0, <1>2, <1>3, <1>6, <1>7, Here, QuietKeeps

-----------------------------------------------------------------------------
(* Pulls.                                                                    *)

LEMMA PullStartInv == ASSUME Inv, NEW t \in Tabs, PullStart(t) PROVE Inv'
  <1> DEFINE p == tab[t]
  <1>0. p \in Page /\ Fits(disk, issued, p) /\ p.st = "open"
    BY Here DEF PullStart, Is
  <1>1. PICK s \in Pulls, n \in 1..MaxGen :
          /\ Fresh(n)
          /\ Set(t, [p EXCEPT !.edits = s, !.seen = @ \cup s, !.pull = "ready",
                              !.pulled = s, !.pullGen = n, !.pullExp = p.mine])
    BY DEF PullStart
  <1> DEFINE q == [p EXCEPT !.edits = s, !.seen = @ \cup s, !.pull = "ready",
                            !.pulled = s, !.pullGen = n, !.pullExp = p.mine]
  <1>2. tab' = [tab EXCEPT ![t] = q]
    BY <1>1 DEF Set
  <1> HIDE DEF p
  <1>3. s \in SUBSET Edits /\ n \in Gens /\ n = issued + 1 /\ issued' = n /\ issued <= n
    BY <1>1, Here, JournalAssumption, Constants DEF Fresh, Gens
  <1>4. /\ q \in Page
        /\ q.st = p.st /\ q.saved = p.saved /\ q.edits = s /\ q.seen = p.seen \cup s
        /\ q.init = p.init /\ q.gen = p.gen /\ q.mine = p.mine /\ q.job = p.job /\ q.full = p.full
        /\ q.goal = p.goal /\ q.jobGen = p.jobGen /\ q.pull = "ready" /\ q.pulled = s
        /\ q.pullGen = n /\ q.pullExp = p.mine /\ q.head = p.head
    BY <1>0, <1>3 DEF Page
  <1> HIDE DEF q
  <1>5. p.mine \in Nat /\ p.jobGen \in Nat /\ n \in Nat
    BY <1>0, <1>3, Constants DEF Page
  <1>6. Names(disk, n, q)
    BY <1>0, <1>3, <1>4, <1>5, Here DEF Fits, Names
  <1>7. Holds(disk, q)
    BY <1>0, <1>4 DEF Fits, Holds
  <1>8. Fits(disk, issued', q)
    BY <1>0, <1>3, <1>4, <1>6, <1>7 DEF Fits
  <1> QED BY <1>0, <1>2, <1>3, <1>4, <1>8, Here, QuietKeeps DEF PullStart, history

LEMMA PullDoneInv == ASSUME Inv, NEW t \in Tabs, PullDone(t) PROVE Inv'
  <1> DEFINE p == tab[t]
             q == NoPull([p EXCEPT !.mine = p.pullGen])
  <1>0. p \in Page /\ Fits(disk, issued, p) /\ p.pull = "written"
    BY Here DEF PullDone
  <1>1. tab' = [tab EXCEPT ![t] = q]
    BY DEF PullDone, Set
  <1>2. p.job # "none" => p.st = "open"
    BY Here
  <1> HIDE DEF p
  <1>3. /\ q \in Page
        /\ q.st = p.st /\ q.snap = p.snap /\ q.saved = p.saved /\ q.edits = p.edits /\ q.seen = p.seen
        /\ q.init = p.init /\ q.gen = p.gen /\ q.mine = p.pullGen /\ q.job = p.job /\ q.full = p.full
        /\ q.goal = p.goal /\ q.jobGen = p.jobGen /\ q.pull = "none" /\ q.pulled = {}
    BY <1>0, Constants DEF Page, NoPull
  <1> HIDE DEF q
  <1>4. p.mine \in Nat /\ p.gen \in Nat /\ p.pullGen \in Nat
    BY <1>0, Constants DEF Page
  <1>5. Names(disk, issued, q)
    BY <1>0, <1>3, <1>4 DEF Fits, Names
  <1>6. Holds(disk, q)
    BY <1>0, <1>3, <1>4 DEF Fits, Names, Holds
  <1>7. Fits(disk, issued, q)
    BY <1>0, <1>3, <1>5, <1>6 DEF Fits
  <1> QED BY <1>1, <1>2, <1>3, <1>7, Here, QuietKeeps DEF PullDone, history

(* A refusal, or a failure, says nothing new.                                *)
LEMMA RefusedFits ==
  ASSUME NEW d, NEW n, NEW p \in Page, Fits(d, n, p), NEW pull \in {"refused", "failed"},
         p.pull = "ready" \/ (p.pull = "refused" /\ pull = "failed")
  PROVE  LET q == [p EXCEPT !.pull = pull] IN
         q \in Page /\ Fits(d, n, q) /\ q.job = p.job /\ q.st = p.st
  <1> DEFINE q == [p EXCEPT !.pull = pull]
  <1>1. /\ q \in Page
        /\ q.st = p.st /\ q.snap = p.snap /\ q.saved = p.saved /\ q.edits = p.edits /\ q.seen = p.seen
        /\ q.init = p.init /\ q.gen = p.gen /\ q.mine = p.mine /\ q.job = p.job /\ q.full = p.full
        /\ q.goal = p.goal /\ q.jobGen = p.jobGen /\ q.pull = pull /\ q.pulled = p.pulled
        /\ q.pullGen = p.pullGen /\ q.pullExp = p.pullExp /\ q.head = p.head
    BY DEF Page
  <1> HIDE DEF q
  <1>2. Names(d, n, q)
    BY <1>1 DEF Fits, Names
  <1>3. Holds(d, q)
    BY <1>1 DEF Fits, Holds
  <1>4. Fits(d, n, q)
    BY <1>1, <1>2, <1>3 DEF Fits
  <1> QED BY <1>1, <1>4 DEF q

LEMMA PullRetryInv == ASSUME Inv, NEW t \in Tabs, PullRetry(t) PROVE Inv'
  <1> DEFINE p == tab[t]
  <1>0. /\ p \in Page /\ Fits(disk, issued, p) /\ p.pull = "refused"
        /\ p.job # "none" => p.st = "open"
        /\ UNCHANGED <<disk, kept, history>>
    BY Here DEF PullRetry
  <1>1. ASSUME NEW n \in 1..MaxGen, Fresh(n),
               Set(t, [p EXCEPT !.pull = "ready", !.pullGen = n, !.pullExp = p.mine])
        PROVE  Inv'
    <2> DEFINE q == [p EXCEPT !.pull = "ready", !.pullGen = n, !.pullExp = p.mine]
    <2>1. tab' = [tab EXCEPT ![t] = q]
      BY <1>1 DEF Set
    <2> HIDE DEF p
    <2>2. n \in Gens /\ n = issued + 1 /\ issued' = n /\ issued <= n
      BY <1>1, Here, Constants DEF Fresh, Gens
    <2>3. /\ q \in Page
          /\ q.st = p.st /\ q.snap = p.snap /\ q.saved = p.saved /\ q.edits = p.edits /\ q.seen = p.seen
          /\ q.init = p.init /\ q.gen = p.gen /\ q.mine = p.mine /\ q.job = p.job /\ q.full = p.full
          /\ q.goal = p.goal /\ q.jobGen = p.jobGen /\ q.pull = "ready" /\ q.pulled = p.pulled
          /\ q.pullGen = n /\ q.pullExp = p.mine /\ q.head = p.head
      BY <1>0, <2>2 DEF Page
    <2> HIDE DEF q
    <2>4. p.mine \in Nat /\ p.jobGen \in Nat /\ n \in Nat
      BY <1>0, <2>2, Constants DEF Page
    <2>5. Names(disk, n, q)
      BY <1>0, <2>2, <2>3, <2>4, Here DEF Fits, Names
    <2>6. Holds(disk, q)
      BY <1>0, <2>3 DEF Fits, Holds
    <2>7. Fits(disk, issued', q)
      BY <1>0, <2>2, <2>3, <2>5, <2>6 DEF Fits
    <2> QED BY <1>0, <2>1, <2>2, <2>3, <2>7, Here, QuietKeeps
  <1>2. CASE Set(t, [p EXCEPT !.pull = "failed"]) /\ UNCHANGED issued
    <2> DEFINE q == [p EXCEPT !.pull = "failed"]
    <2>1. tab' = [tab EXCEPT ![t] = q]
      BY <1>2 DEF Set
    <2>2. q \in Page /\ Fits(disk, issued, q) /\ q.job = p.job /\ q.st = p.st
      <3> HIDE DEF p
      <3> QED BY <1>0, RefusedFits
    <2> HIDE DEF p, q
    <2> QED BY <1>0, <1>2, <2>1, <2>2, Here, QuietKeeps
  <1> QED BY <1>1, <1>2 DEF PullRetry

(* The readable edits, record by record.                                     *)
LEMMA ReadableIs ==
  ASSUME NEW d, NEW x
  PROVE  x \in Readable(d) <=>
           \/ \E b \in d.batches : <<"rows", b.gen>> \notin d.bad /\ x \in b.edits
           \/ ~Bad(d, "checkpoint") /\ x \in d.ckpt.edits
           \/ ~Bad(d, "backup") /\ x \in d.backup.edits
  <1> DEFINE B == {b \in d.batches : <<"rows", b.gen>> \notin d.bad}
             K == (IF Bad(d, "checkpoint") THEN {} ELSE {d.ckpt})
                    \cup (IF Bad(d, "backup") THEN {} ELSE {d.backup})
  <1>1. Readable(d) = UNION ({b.edits : b \in B} \cup {k.edits : k \in K})
    BY DEF Readable
  <1>2. x \in Readable(d) <=> (\E b \in B : x \in b.edits) \/ (\E k \in K : x \in k.edits)
    <2> HIDE DEF B, K
    <2> QED BY <1>1
  <1>3. (\E k \in K : x \in k.edits) <=>
          \/ ~Bad(d, "checkpoint") /\ x \in d.ckpt.edits
          \/ ~Bad(d, "backup") /\ x \in d.backup.edits
    OBVIOUS
  <1> QED BY <1>2, <1>3

(* A new checkpoint accounts for what it holds.                              *)
LEMMA CheckpointAccounts ==
  ASSUME Inv, NEW e \in Disk, disk' = e, Commits(e.ckpt.edits),
         disk.gen < e.gen, e.gen <= issued', e.ckpt.id = e.gen, e.ckpt.gen \in {0, e.gen},
         e.head = NoHead, e.batches \subseteq disk.batches, e.bad \subseteq disk.bad,
         <<"checkpoint", 0>> \notin e.bad,
         \/ e.backup = e.ckpt
         \/ e.ckpt.gen = 0 /\ e.backup = disk.backup /\ e.batches = disk.batches
  PROVE  /\ Accounts' /\ Shape(e) /\ Contents(e) = e.ckpt.edits
         /\ durable' \in SUBSET Edits /\ past' \in SUBSET SUBSET Edits
  <1>0. TypeOK /\ Accounts /\ Shape(disk) /\ disk \in Disk /\ disk.gen \in Nat
    BY Constants DEF Inv, TypeOK, Disk
  <1>1. /\ Shape(e) /\ Of(e, e.ckpt.id) = {} /\ Contents(e) = e.ckpt.edits
        /\ e.backup = e.ckpt \/ e.backup.id # e.ckpt.id
    BY <1>0, CheckpointShape
  <1>2. durable' = e.ckpt.edits /\ past' = past \cup {e.ckpt.edits} /\ faults' = faults
    BY DEF Commits
  <1>3. e.ckpt.edits \in SUBSET Edits /\ e.gen \in Nat
    BY Constants DEF Disk, Checkpoint
  <1>4. e.ckpt.edits \subseteq Readable(e)
    <2>1. ~Bad(e, "checkpoint")
      BY DEF Bad
    <2>2. ASSUME NEW x \in e.ckpt.edits PROVE x \in Readable(e)
      BY <2>1, ReadableIs
    <2> QED BY <2>2
  <1>5. Past(e, e.ckpt, past')
    BY <1>1, <1>2 DEF Past
  <1>6. Past(e, e.backup, past')
    <2>1. CASE e.backup = e.ckpt
      BY <1>5, <2>1
    <2>2. CASE e.backup = disk.backup /\ e.batches = disk.batches
      <3>1. \A id : Of(e, id) = Of(disk, id)
        BY <2>2 DEF Of
      <3>2. \A k, n : Upto(e, k, n) = Upto(disk, k, n)
        BY <3>1 DEF Upto
      <3>3. Past(disk, e.backup, past)
        BY <1>0, <2>2 DEF Accounts
      <3> QED BY <1>2, <3>1, <3>2, <3>3 DEF Past
    <2> QED BY <2>1, <2>2
  <1>7. faults' = 0 => e.bad = {}
    BY <1>0, <1>2 DEF Accounts
  <1>8. e.gen # 0
    BY <1>0, <1>3
  <1>9. Accounts'
    BY <1>1, <1>2, <1>4, <1>5, <1>6, <1>7, <1>8 DEF Accounts
  <1>10. past \in SUBSET SUBSET Edits
    BY <1>0 DEF TypeOK
  <1> QED BY <1>1, <1>2, <1>3, <1>9, <1>10

LEMMA PullWriteInv == ASSUME Inv, NEW t \in Tabs, PullWrite(t) PROVE Inv'
  <1> DEFINE p == tab[t]
  <1>0. /\ p \in Page /\ Fits(disk, issued, p) /\ p.pull = "ready" /\ p.job # "queued"
        /\ p.job # "none" => p.st = "open"
        /\ UNCHANGED <<issued, kept>>
    BY Here DEF PullWrite
  <1>1. ASSUME NEW pull \in {"refused", "failed"}, Set(t, [p EXCEPT !.pull = pull]),
               UNCHANGED <<disk, history>>
        PROVE  Inv'
    <2> DEFINE q == [p EXCEPT !.pull = pull]
    <2>1. tab' = [tab EXCEPT ![t] = q]
      BY <1>1 DEF Set
    <2>2. q \in Page /\ Fits(disk, issued, q) /\ q.job = p.job /\ q.st = p.st
      <3> HIDE DEF p
      <3> QED BY <1>0, RefusedFits
    <2> HIDE DEF p, q
    <2> QED BY <1>0, <1>1, <2>1, <2>2, Here, QuietKeeps DEF history
  <1>2. ASSUME disk.gen = p.pullExp, Commits(p.pulled),
               Announce(t, [disk EXCEPT !.ckpt = [id |-> p.pullGen, gen |-> 0, edits |-> p.pulled],
                                        !.head = NoHead, !.gen = p.pullGen,
                                        !.bad = @ \ ({"checkpoint", "head"} \X {0})],
                        [p EXCEPT !.pull = "written"])
        PROVE  Inv'
    <2> DEFINE k == [id |-> p.pullGen, gen |-> 0, edits |-> p.pulled]
               bad == disk.bad \ ({"checkpoint", "head"} \X {0})
               e == [disk EXCEPT !.ckpt = k, !.head = NoHead, !.gen = p.pullGen, !.bad = bad]
               q == [p EXCEPT !.pull = "written"]
    <2>1. Announce(t, e, q)
      BY <1>2
    <2>2. disk.gen = p.pullExp /\ Commits(p.pulled)
      BY <1>2
    <2> HIDE DEF p
    <2>3. p.pullGen \in Gens /\ p.pulled \in SUBSET Edits /\ p.pullGen \in Nat
      BY <1>0, Constants DEF Page
    <2>4. k \in Checkpoint /\ k.id = p.pullGen /\ k.gen = 0 /\ k.edits = p.pulled
      BY <2>3, Constants DEF Checkpoint
    <2>5. bad \in SUBSET Keys /\ bad \subseteq disk.bad /\ <<"checkpoint", 0>> \notin bad
      BY Here DEF Disk
    <2> HIDE DEF k, bad
    <2>6. /\ e \in Disk /\ e.ckpt = k /\ e.head = NoHead /\ e.gen = p.pullGen /\ e.bad = bad
          /\ e.backup = disk.backup /\ e.batches = disk.batches
      BY <2>3, <2>4, <2>5, Here, Constants DEF Disk
    <2>7. /\ q \in Page
          /\ q.st = p.st /\ q.snap = p.snap /\ q.saved = p.saved /\ q.edits = p.edits /\ q.seen = p.seen
          /\ q.init = p.init /\ q.gen = p.gen /\ q.mine = p.mine /\ q.job = p.job /\ q.full = p.full
          /\ q.goal = p.goal /\ q.jobGen = p.jobGen /\ q.pull = "written" /\ q.pulled = p.pulled
          /\ q.pullGen = p.pullGen /\ q.pullExp = p.pullExp /\ q.head = p.head
      BY <1>0 DEF Page
    <2> HIDE DEF e, q
    <2>8. /\ p.gen \in Nat /\ p.mine \in Nat /\ p.jobGen \in Nat /\ p.pullExp \in Nat /\ disk.gen \in Nat
          /\ issued \in Nat
      BY <1>0, Here, Constants DEF Page
    <2>9. p.mine = disk.gen /\ p.gen <= disk.gen /\ disk.gen < p.pullGen /\ p.pullGen <= issued
      BY <1>0, <2>2, <2>8 DEF Fits, Names
    <2>10. p.job \in {"none", "captured"}
      <3>1. p.job # "written"
        BY <1>0, <2>8, <2>9 DEF Fits, Names
      <3> QED BY <1>0, <3>1 DEF Page
    <2>11. disk' = e
      BY <2>1 DEF Announce
    <2>12. /\ Accounts' /\ Shape(e) /\ Contents(e) = e.ckpt.edits
           /\ durable' \in SUBSET Edits /\ past' \in SUBSET SUBSET Edits
      BY <1>0, <2>2, <2>4, <2>5, <2>6, <2>9, <2>11, CheckpointAccounts
    <2>13. Names(e, issued, q)
      BY <1>0, <2>3, <2>6, <2>7, <2>8, <2>9, <2>10 DEF Fits, Names
    <2>14. p.gen # e.gen /\ p.mine # e.gen
      BY <2>3, <2>6, <2>8, <2>9
    <2>15. Holds(e, q)
      BY <1>0, <2>4, <2>6, <2>7, <2>10, <2>12, <2>14 DEF Fits, Holds
    <2>16. Fits(e, issued', q)
      BY <1>0, <2>7, <2>13, <2>15 DEF Fits
    <2>17. UNCHANGED <<faults, hurt>>
      BY <2>2 DEF Commits
    <2> QED BY <1>0, <2>1, <2>6, <2>7, <2>9, <2>12, <2>16, <2>17, Here, CommitKeeps
  <1> QED BY <1>1, <1>2 DEF PullWrite

-----------------------------------------------------------------------------
(* The write of a save.                                                      *)

(* A batch, beside what was accounted for.                                   *)
LEMMA BatchAccounts ==
  ASSUME Inv, NEW b \in Batch, NEW e \in Disk, disk' = e, Commits(Contents(e)),
         disk.gen < b.gen, b.gen <= issued', kept' = kept,
         Shape(e), e.ckpt = disk.ckpt, e.backup = disk.backup, e.backup = e.ckpt,
         e.gen = b.gen, e.bad = disk.bad,
         e.batches = disk.batches \cup {b},
         Of(e, e.ckpt.id) = Of(disk, disk.ckpt.id) \cup {b},
         \A x \in Of(disk, disk.ckpt.id) : ~ (b.through <= x.through),
         Contents(e) = Contents(disk) \cup b.edits
  PROVE  /\ Accounts'
         /\ durable' \in SUBSET Edits /\ past' \in SUBSET SUBSET Edits
  <1> DEFINE k == disk.ckpt
             B == Of(disk, k.id)
  <1>0. TypeOK /\ Accounts /\ Shape(disk) /\ disk \in Disk /\ disk.gen \in Nat
    BY Constants DEF Inv, TypeOK, Disk
  <1>1. /\ durable' = Contents(e) /\ past' = past \cup {Contents(e)} /\ faults' = faults /\ hurt' = hurt
        /\ Contents(e) \in SUBSET Edits
    BY ContentsType DEF Commits
  <1>2. /\ b.gen \in Nat /\ b.gen # 0 /\ b.through \in Nat
        /\ \A x \in B : x.through \in Nat
        /\ \A x \in disk.bad : x[2] \in Nat
    <2>1. \A x \in Keys : x[2] \in Nat
      BY Constants DEF Keys
    <2>2. b.gen \in Nat /\ b.through \in Nat /\ \A x \in B : x.through \in Nat
      BY <1>0, Constants DEF Of, Disk, Batch
    <2> QED BY <1>0, <2>1, <2>2 DEF Disk
  <1>3. <<"rows", b.gen>> \notin e.bad
    <2>1. <<"rows", b.gen>>[2] = b.gen
      OBVIOUS
    <2> QED BY <1>0, <1>2, <2>1 DEF Shape, Named
  <1>4. Readable(disk) \subseteq Readable(e)
    <2>2. ASSUME NEW x \in Readable(disk) PROVE x \in Readable(e)
      <3>1. \/ \E c \in disk.batches : <<"rows", c.gen>> \notin disk.bad /\ x \in c.edits
            \/ ~Bad(disk, "checkpoint") /\ x \in disk.ckpt.edits
            \/ ~Bad(disk, "backup") /\ x \in disk.backup.edits
        BY ReadableIs
      <3>2. \A what : Bad(e, what) = Bad(disk, what)
        BY DEF Bad
      <3> QED BY <3>1, <3>2, ReadableIs
    <2> QED BY <2>2
  <1>5. b.edits \subseteq Readable(e)
    <2>1. ASSUME NEW x \in b.edits PROVE x \in Readable(e)
      BY <1>3, ReadableIs
    <2> QED BY <2>1
  <1>6. Contents(disk) \subseteq Readable(disk) \cup kept \cup hurt
    BY <1>0 DEF Accounts
  <1>7. ASSUME NEW x \in Of(e, k.id) PROVE Upto(e, k, x.through) \in past'
    <2>1. CASE x \in B
      <3>1. {y \in Of(e, k.id) : y.through <= x.through} = {y \in B : y.through <= x.through}
        BY <2>1
      <3>2. Upto(e, k, x.through) = Upto(disk, k, x.through)
        BY <3>1 DEF Upto
      <3>3. k.id # 0
        BY <1>0, <2>1 DEF Shape, Named, Of
      <3>4. Upto(disk, k, x.through) \in past
        BY <1>0, <2>1, <3>3 DEF Accounts, Past
      <3> QED BY <1>1, <3>2, <3>4
    <2>2. CASE x = b
      <3>1. {y \in Of(e, k.id) : y.through <= x.through} = Of(e, k.id)
        BY <1>2, <2>2
      <3>2. Upto(e, k, x.through) = Contents(e)
        BY <3>1 DEF Upto, Contents
      <3> QED BY <1>1, <3>2
    <2> QED BY <2>1, <2>2
  <1>8. Past(e, e.ckpt, past')
    <2>1. k.id # 0 => k.edits \in past
      BY <1>0 DEF Accounts, Past
    <2> QED BY <1>1, <1>7, <2>1 DEF Past
  <1>9. faults' = 0 => e.bad = {}
    BY <1>0, <1>1 DEF Accounts
  <1>10. Contents(e) \subseteq Readable(e) \cup kept' \cup hurt'
    BY <1>1, <1>4, <1>5, <1>6
  <1> HIDE DEF k, B
  <1>11. Accounts'
    BY <1>1, <1>2, <1>8, <1>9, <1>10 DEF Accounts
  <1>12. past \in SUBSET SUBSET Edits
    BY <1>0 DEF TypeOK
  <1> QED BY <1>1, <1>11, <1>12

(* The page that writes knows all that is stored, and means to store it.     *)
LEMMA Saving ==
  ASSUME Inv, NEW t \in Tabs, tab[t].job = "queued", MayWrite(disk, tab[t])
  PROVE  LET p == tab[t] IN
         /\ p.ckpt = disk.ckpt.id /\ p.head = disk.head /\ p.gen = disk.gen /\ p.mine = disk.gen
         /\ disk.gen < p.jobGen /\ p.jobGen <= issued /\ p.jobGen \in Gens /\ p.jobGen \in Nat
         /\ p.jobGen # 0 /\ disk.head.cursor < p.jobGen /\ disk.head.cursor + 1 \in Gens
         /\ p.goal \in SUBSET Edits /\ Contents(disk) \subseteq p.goal
         /\ p.full \/ (p.saved = Contents(disk) /\ disk.ckpt.gen # 0)
         /\ p.pull = "none" => p.goal \subseteq p.edits
         /\ p.pull # "written"
  <1> DEFINE p == tab[t]
  <1>0. p \in Page /\ Fits(disk, issued, p) /\ Expected(p) = Shown(disk)
    BY Here DEF MayWrite
  <1> HIDE DEF p
  <1>1. p.job = "queued"
    BY DEF p
  <1>2. p.ckpt = disk.ckpt.id /\ p.head = disk.head /\ p.gen = disk.gen
    <2>1. Expected(p).ckpt = p.ckpt /\ Expected(p).head = p.head /\ Expected(p).gen = p.gen
      BY DEF Expected
    <2>2. Shown(disk).ckpt = disk.ckpt.id /\ Shown(disk).head = disk.head /\ Shown(disk).gen = disk.gen
      BY DEF Shown
    <2> QED BY <1>0, <2>1, <2>2
  <1>3. /\ p.gen \in Nat /\ p.mine \in Nat /\ p.jobGen \in Gens /\ p.jobGen \in Nat
        /\ disk.gen \in Nat /\ disk.head.cursor \in Nat /\ p.jobGen <= MaxGen
    BY <1>0, Here, Constants DEF Page, Disk, Head
  <1>4. p.mine = disk.gen /\ disk.gen < p.jobGen /\ p.jobGen <= issued /\ p.pull # "written"
    BY <1>0, <1>1, <1>2, <1>3 DEF Fits, Names
  <1>5. disk.head.cursor <= disk.gen
    <2>1. NoHead.cursor = 0
      BY DEF NoHead
    <2>2. CASE disk.head # NoHead
      <3>1. PICK last \in Of(disk, disk.ckpt.id) : last.gen = disk.gen /\ last.through = disk.head.cursor
        BY <2>2, Here DEF Shape, Headed
      <3>2. last.through <= last.gen
        BY Here DEF Shape, Named, Of
      <3> QED BY <3>1, <3>2
    <2> QED BY <1>3, <2>1, <2>2
  <1>6. disk.head.cursor + 1 \in Gens
    BY <1>3, <1>4, <1>5, Constants DEF Gens
  <1>7. /\ p.goal \in SUBSET Edits /\ Contents(disk) \subseteq p.goal
        /\ p.full \/ (p.saved = Contents(disk) /\ disk.ckpt.gen # 0)
        /\ p.pull = "none" => p.goal \subseteq p.edits
    BY <1>0, <1>1, <1>2, <1>4 DEF Fits, Holds, Page
  <1> QED BY <1>2, <1>3, <1>4, <1>5, <1>6, <1>7 DEF p

(* What the transaction writes is exactly what the page means to store.      *)
LEMMA SavedIs ==
  ASSUME Inv, NEW t \in Tabs, tab[t].job = "queued", MayWrite(disk, tab[t]), Comparable(disk),
         NEW e, e = Saved(disk, tab[t])
  PROVE  /\ e \in Disk /\ e.gen = tab[t].jobGen /\ Shape(e)
         /\ Contents(e) = tab[t].goal /\ e.ckpt.gen # 0
         /\ tab[t].full => e.ckpt.edits = tab[t].goal
         /\ ~tab[t].full =>
              /\ e.ckpt = disk.ckpt /\ e.bad = disk.bad
              /\ Of(e, e.ckpt.id) = Of(disk, disk.ckpt.id) \cup {NewBatch(tab[t])}
              /\ \A x \in Of(disk, disk.ckpt.id) : ~ (NewBatch(tab[t]).through <= x.through)
         /\ disk' = e /\ Commits(tab[t].goal) /\ issued' = issued /\ kept' = kept =>
              /\ Accounts'
              /\ durable' \in SUBSET Edits /\ past' \in SUBSET SUBSET Edits
  <1> DEFINE p == tab[t]
  <1>0. /\ p.ckpt = disk.ckpt.id /\ p.head = disk.head /\ p.gen = disk.gen
        /\ disk.gen < p.jobGen /\ p.jobGen <= issued /\ p.jobGen \in Gens /\ p.jobGen \in Nat
        /\ p.jobGen # 0 /\ disk.head.cursor + 1 \in Gens
        /\ p.goal \in SUBSET Edits /\ Contents(disk) \subseteq p.goal
        /\ p.full \/ (p.saved = Contents(disk) /\ disk.ckpt.gen # 0)
        /\ disk \in Disk /\ Shape(disk) /\ issued \in Nat
    BY Saving, Here
  <1>00. e = Saved(disk, p)
    OBVIOUS
  <1> HIDE DEF p
  <1>1. CASE p.full
    <2> DEFINE k == [id |-> p.jobGen, gen |-> p.jobGen, edits |-> p.goal]
               bad == disk.bad \ (({"batch", "rows"} \X p.journal) \cup {<<"backup", 0>>})
               batches == {b \in disk.batches : b.gen \notin p.journal}
    <2>1. e = [disk EXCEPT !.ckpt = k, !.backup = k, !.head = NoHead, !.gen = p.jobGen,
                           !.batches = batches, !.bad = bad]
      BY <1>0, <1>00, <1>1 DEF Saved, Disk
    <2>2. k \in Checkpoint /\ k.id = p.jobGen /\ k.gen = p.jobGen /\ k.edits = p.goal
      BY <1>0 DEF Checkpoint
    <2>3. /\ batches \subseteq disk.batches /\ bad \subseteq disk.bad
          /\ bad \in SUBSET Keys /\ batches \in SUBSET Batch
      BY <1>0 DEF Disk
    <2>4. <<"checkpoint", 0>> \notin bad
      BY DEF Comparable, Bad
    <2> HIDE DEF k, bad, batches
    <2>5. /\ e \in Disk /\ e.ckpt = k /\ e.backup = k /\ e.head = NoHead /\ e.gen = p.jobGen
          /\ e.bad = bad /\ e.batches = batches
      BY <1>0, <2>1, <2>2, <2>3, Constants DEF Disk
    <2>6. Shape(e) /\ Contents(e) = p.goal
      BY <1>0, <2>2, <2>3, <2>5, CheckpointShape
    <2>7. ASSUME disk' = e, Commits(p.goal), issued' = issued, kept' = kept
          PROVE  Accounts' /\ durable' \in SUBSET Edits /\ past' \in SUBSET SUBSET Edits
      BY <1>0, <2>2, <2>3, <2>4, <2>5, <2>7, CheckpointAccounts
    <2> QED BY <1>0, <1>1, <2>2, <2>5, <2>6, <2>7 DEF p
  <1>2. CASE ~p.full
    <2> DEFINE b == NewBatch(p)
    <2>1. /\ b \in Batch /\ b.gen = p.jobGen /\ b.parent = disk.head.tail /\ b.pgen = disk.gen
          /\ b.base = disk.ckpt.id /\ b.from = disk.head.cursor /\ b.through = b.from + 1
          /\ b.edits = p.goal \ p.saved
      <3>1. /\ disk.head.tail \in Gens /\ disk.gen \in Gens /\ disk.ckpt.id \in Gens
            /\ disk.head.cursor \in Gens
        BY <1>0 DEF Disk, Head, Checkpoint
      <3> QED BY <1>0, <3>1 DEF NewBatch, Batch
    <2>2. /\ NextHead(p) = [tail |-> b.gen, gen |-> b.gen, base |-> disk.ckpt.id, cursor |-> b.through]
          /\ NextHead(p) \in Head
      <3>1. NextHead(p) = [tail |-> b.gen, gen |-> b.gen, base |-> disk.ckpt.id, cursor |-> b.through]
        BY <1>0, <1>2, <2>1 DEF NextHead
      <3>2. b.gen \in Gens /\ disk.ckpt.id \in Gens /\ b.through \in Gens
        BY <1>0, <2>1 DEF Disk, Checkpoint, Batch
      <3> HIDE DEF b
      <3> QED BY <3>1, <3>2 DEF Head
    <2>3. e = [disk EXCEPT !.head = NextHead(p), !.gen = p.jobGen, !.batches = disk.batches \cup {b}]
      BY <1>0, <1>00, <1>2 DEF Saved, Disk
    <2> DEFINE h == NextHead(p)
    <2>4. h \in Head /\ h = [tail |-> b.gen, gen |-> b.gen, base |-> disk.ckpt.id, cursor |-> b.through]
      BY <2>2
    <2>5. e = [disk EXCEPT !.head = h, !.gen = p.jobGen, !.batches = disk.batches \cup {b}]
      BY <2>3
    <2> HIDE DEF b, h
    <2>6. /\ e \in Disk /\ e.ckpt = disk.ckpt /\ e.backup = disk.backup /\ e.gen = b.gen
          /\ e.bad = disk.bad /\ e.batches = disk.batches \cup {b} /\ e.head = h
      <3> DEFINE batches == disk.batches \cup {b}
      <3>1. h \in Head /\ p.jobGen \in Gens /\ b.gen = p.jobGen /\ disk \in Disk
        BY <1>0, <2>1, <2>4
      <3>2. batches \in SUBSET Batch
        BY <2>1, <3>1 DEF Disk
      <3>3. e = [disk EXCEPT !.head = h, !.gen = p.jobGen, !.batches = batches]
        BY <2>5
      <3> HIDE DEF batches
      <3>4. /\ e \in Disk /\ e.ckpt = disk.ckpt /\ e.backup = disk.backup /\ e.gen = p.jobGen
            /\ e.bad = disk.bad /\ e.batches = batches /\ e.head = h
        BY <3>1, <3>2, <3>3 DEF Disk
      <3> QED BY <3>1, <3>4 DEF batches
    <2>7. disk.ckpt.gen # 0 /\ p.saved = Contents(disk)
      BY <1>0, <1>2
    <2>8. disk.gen < b.gen
      BY <1>0, <2>1
    <2>9. /\ Shape(e) /\ e.backup = e.ckpt
          /\ Of(e, e.ckpt.id) = Of(disk, disk.ckpt.id) \cup {b}
          /\ \A x \in Of(disk, disk.ckpt.id) : ~ (b.through <= x.through)
          /\ Contents(e) = Contents(disk) \cup b.edits
      BY <1>0, <2>1, <2>4, <2>6, <2>7, <2>8, BatchShape
    <2>10. Contents(e) = p.goal
      BY <1>0, <2>1, <2>7, <2>9
    <2>11. ASSUME disk' = e, Commits(p.goal), issued' = issued, kept' = kept
           PROVE  Accounts' /\ durable' \in SUBSET Edits /\ past' \in SUBSET SUBSET Edits
      BY <1>0, <2>1, <2>6, <2>8, <2>9, <2>10, <2>11, BatchAccounts
    <2> QED BY <1>2, <2>1, <2>6, <2>7, <2>9, <2>10, <2>11 DEF p, b
  <1> QED BY <1>1, <1>2

LEMMA WriteInv == ASSUME Inv, NEW t \in Tabs, Write(t) PROVE Inv'
  <1> DEFINE p == tab[t]
  <1>0. /\ p \in Page /\ Fits(disk, issued, p) /\ p.job = "queued" /\ p.st = "open"
        /\ UNCHANGED <<issued, kept>>
    BY Here DEF Write
  <1>1. CASE (Set(t, GoStale(p)) \/ Set(t, NoJob(p))) /\ UNCHANGED <<disk, history>>
    BY <1>0, <1>1, GiveUpInv DEF history
  <1>2. CASE /\ Comparable(disk) /\ MayWrite(disk, p)
             /\ Announce(t, Saved(disk, p), [p EXCEPT !.job = "written"])
             /\ Commits(p.goal)
    <2> DEFINE e == Saved(disk, p)
               q == [p EXCEPT !.job = "written"]
    <2>1. Announce(t, e, q)
      BY <1>2
    <2>2. disk' = e
      BY <2>1 DEF Announce
    <2>3. Commits(p.goal)
      BY <1>2
    <2> HIDE DEF e
    <2>4. /\ e \in Disk /\ e.gen = p.jobGen /\ Shape(e)
          /\ Contents(e) = p.goal /\ e.ckpt.gen # 0
          /\ Accounts' /\ durable' \in SUBSET Edits /\ past' \in SUBSET SUBSET Edits
      BY <1>0, <1>2, <2>2, <2>3, SavedIs DEF e
    <2>5. /\ p.gen = disk.gen /\ p.mine = disk.gen /\ p.head = disk.head
          /\ disk.gen < p.jobGen /\ p.jobGen <= issued /\ p.jobGen \in Nat
          /\ disk.head.cursor < p.jobGen /\ p.pull # "written"
          /\ p.pull = "none" => p.goal \subseteq p.edits
      BY <1>0, <1>2, Saving
    <2> HIDE DEF p
    <2>6. /\ q \in Page
          /\ q.st = "open" /\ q.saved = p.saved /\ q.edits = p.edits /\ q.seen = p.seen
          /\ q.init = p.init /\ q.gen = p.gen /\ q.mine = p.mine /\ q.job = "written" /\ q.full = p.full
          /\ q.goal = p.goal /\ q.jobGen = p.jobGen /\ q.pull = p.pull /\ q.pulled = p.pulled
          /\ q.pullGen = p.pullGen /\ q.pullExp = p.pullExp /\ q.head = p.head
      BY <1>0 DEF Page
    <2> HIDE DEF q
    <2>7. disk.gen \in Nat
      BY Here
    <2>8. Names(e, issued, q)
      BY <1>0, <2>4, <2>5, <2>6, <2>7 DEF Fits, Names
    <2>9. p.gen # e.gen /\ p.mine # e.gen
      BY <2>4, <2>5, <2>7
    <2>10. Holds(e, q)
      BY <1>0, <2>4, <2>5, <2>6, <2>9 DEF Fits, Holds
    <2>11. Fits(e, issued', q)
      BY <1>0, <2>6, <2>8, <2>10 DEF Fits
    <2>12. UNCHANGED <<faults, hurt>>
      BY <2>3 DEF Commits
    <2> QED BY <1>0, <2>1, <2>4, <2>5, <2>6, <2>11, <2>12, Here, CommitKeeps
  <1> QED BY <1>1, <1>2 DEF Write

-----------------------------------------------------------------------------
(* Repair and damage.                                                        *)

LEMMA ReadableType == ASSUME NEW d \in Disk PROVE Readable(d) \in SUBSET Edits
  <1>1. \A x \in Readable(d) : x \in Edits
    BY ReadableIs DEF Disk, Checkpoint, Batch
  <1> QED BY <1>1

(* What a load recovers was made durable once, and is the last write when    *)
(* nothing is damaged.                                                       *)
LEMMA RecoveredPast ==
  ASSUME Inv, HasBase(disk)
  PROVE  /\ Recovered(disk) \in past
         /\ faults = 0 => LiveBase(disk) /\ Recovered(disk) = Contents(disk)
  <1>0. Shape(disk) /\ disk \in Disk /\ Accounts
    BY DEF Inv, TypeOK
  <1>1. Base(disk).id # 0 /\ Past(disk, Base(disk), past)
    BY <1>0, ShapeBased DEF Based, Accounts
  <1>2. Recovered(disk) \in past
    BY <1>0, <1>1, RecoveredUpto DEF Past
  <1>3. ASSUME faults = 0 PROVE LiveBase(disk) /\ Recovered(disk) = Contents(disk)
    <2>1. disk.bad = {}
      BY <1>0, <1>3 DEF Accounts
    <2>2. disk.ckpt.id # 0
      <3>1. disk.ckpt.id = 0 => disk.backup.id = 0
        <4>1. disk.ckpt.id \in Nat /\ disk.backup.id \in Nat
          BY <1>0, Constants DEF Disk, Checkpoint
        <4> QED BY <1>0, <4>1 DEF Shape, Named
      <3> QED BY <3>1 DEF HasBase, LiveBase, BackupBase
    <2>3. LiveBase(disk)
      BY <2>1, <2>2 DEF LiveBase, Bad
    <2> QED BY <1>0, <2>1, <2>3, RecoveredContents
  <1> QED BY <1>2, <1>3

(* The repaired records.                                                     *)
Whole(d, n) == [id |-> n, gen |-> n, edits |-> Recovered(d)]
Mended(d, n) == [EmptyDisk EXCEPT !.ckpt = Whole(d, n), !.gen = n, !.backup = Whole(d, n)]

LEMMA MendedIs ==
  ASSUME Inv, HasBase(disk), NEW n \in Gens, disk.gen < n
  PROVE  LET e == Mended(disk, n) IN
         /\ e \in Disk /\ e.ckpt = Whole(disk, n) /\ e.gen = n /\ e.backup = e.ckpt /\ e.bad = {}
         /\ e.ckpt.edits = Recovered(disk)
         /\ Shape(e) /\ Of(e, e.ckpt.id) = {} /\ Contents(e) = Recovered(disk)
         /\ LiveBase(e) /\ Recovered(e) = Contents(e)
  <1> DEFINE k == Whole(disk, n)
             e == Mended(disk, n)
  <1>0. Shape(disk) /\ disk \in Disk /\ disk.gen \in Nat /\ n \in Nat /\ n # 0
    <2>1. Shape(disk) /\ disk \in Disk
      BY DEF Inv, TypeOK
    <2>2. disk.gen \in Nat /\ n \in Nat
      BY <2>1, Constants DEF Disk
    <2> QED BY <2>1, <2>2
  <1>1. Recovered(disk) \in SUBSET Edits
    BY <1>0, RecoveredIs
  <1>2. k \in Checkpoint /\ k.id = n /\ k.gen = n /\ k.edits = Recovered(disk)
    BY <1>1 DEF Checkpoint, Whole
  <1>3. EmptyDisk \in Disk /\ EmptyDisk.head = NoHead /\ EmptyDisk.batches = {} /\ EmptyDisk.bad = {}
    BY Constants DEF EmptyDisk
  <1>4. /\ e \in Disk /\ e.ckpt = k /\ e.gen = n /\ e.backup = k
        /\ e.head = NoHead /\ e.batches = {} /\ e.bad = {}
    <2> DEFINE o == EmptyDisk
    <2>1. e = [o EXCEPT !.ckpt = k, !.gen = n, !.backup = k]
      BY DEF Mended
    <2>2. o \in Disk /\ o.head = NoHead /\ o.batches = {} /\ o.bad = {}
      BY <1>3
    <2> HIDE DEF o, e, k
    <2> QED BY <1>2, <2>1, <2>2 DEF Disk
  <1> HIDE DEF k, e
  <1>5. Shape(e) /\ Of(e, e.ckpt.id) = {} /\ Contents(e) = Recovered(disk)
    BY <1>0, <1>2, <1>4, CheckpointShape
  <1>6. LiveBase(e)
    BY <1>0, <1>2, <1>4 DEF LiveBase, Bad
  <1>7. Recovered(e) = Contents(e)
    BY <1>4, <1>5, <1>6, RecoveredContents
  <1> QED BY <1>2, <1>4, <1>5, <1>6, <1>7 DEF k, e

LEMMA RepairInv == ASSUME Inv, NEW t \in Tabs, Repair(t) PROVE Inv'
  <1> DEFINE p == tab[t]
  <1>0. /\ p \in Page /\ p.st = "loading" /\ disk = p.snap /\ HasBase(disk)
        /\ kept' = kept \cup Readable(disk)
        /\ UNCHANGED <<durable, past, faults, hurt>>
    BY Here DEF Repair, Is, Fits, history
  <1>1. PICK n \in 1..MaxGen :
          Fresh(n) /\ Announce(t, Mended(disk, n), Loaded(Mended(disk, n), p.told))
    BY <1>0 DEF Repair, Mended, Whole
  <1> DEFINE e == Mended(disk, n)
  <1>2. Fresh(n) /\ Announce(t, e, Loaded(e, p.told))
    BY <1>1
  <1> HIDE DEF p
  <1>3. /\ n \in Gens /\ n = issued + 1 /\ issued' = n /\ issued <= n /\ disk.gen < n /\ n \in Nat /\ n # 0
    BY <1>2, Here, Constants DEF Fresh, Gens
  <1>4. /\ e \in Disk /\ e.gen = n /\ e.backup = e.ckpt /\ e.bad = {}
        /\ e.ckpt.edits = Recovered(disk)
        /\ Shape(e) /\ Of(e, e.ckpt.id) = {} /\ Contents(e) = Recovered(disk)
        /\ LiveBase(e) /\ Recovered(e) = Contents(e)
    BY <1>0, <1>3, MendedIs
  <1> HIDE DEF e
  <1> DEFINE q == Loaded(e, p.told)
  <1>5. Announce(t, e, q)
    BY <1>2
  <1>7. q \in Page /\ Fits(e, n, q) /\ q.job = "none"
    <2>1. p.told \in BOOLEAN
      BY <1>0 DEF Page
    <2> QED BY <1>3, <1>4, <2>1, LoadedFits
  <1> HIDE DEF q
  <1>8. disk' = e
    BY <1>5 DEF Announce
  <1>9. kept' \in SUBSET Edits
    BY <1>0, Here, ReadableType
  <1>10. TypeOK /\ Accounts
    BY DEF Inv
  <1>11. Accounts'
    <2>1. faults' = 0 => durable' = Contents(e) /\ e.bad = {}
      BY <1>0, <1>4, <1>10, RecoveredPast DEF Accounts
    <2>2. Contents(e) \subseteq Readable(e)
      <3>1. ASSUME NEW x \in e.ckpt.edits PROVE x \in Readable(e)
        BY <1>4, ReadableIs DEF LiveBase
      <3> QED BY <1>4, <3>1
    <2>3. durable' \subseteq kept' \cup hurt'
      BY <1>0, <1>10 DEF Accounts
    <2>4. Past(e, e.ckpt, past')
      BY <1>0, <1>4, RecoveredPast DEF Past
    <2> QED BY <1>3, <1>4, <1>8, <2>1, <2>2, <2>3, <2>4 DEF Accounts
  <1>12. durable' \in SUBSET Edits /\ past' \in SUBSET SUBSET Edits
    BY <1>0, <1>10 DEF TypeOK
  <1> QED BY <1>0, <1>3, <1>4, <1>5, <1>7, <1>9, <1>11, <1>12, CommitKeeps

(* Damage leaves what the pages know as it is.                               *)
LEMMA DamageInv == ASSUME Inv, Damage PROVE Inv'
  <1>0. TypeOK /\ Shape(disk) /\ Pages /\ Accounts /\ disk \in Disk
    BY DEF Inv, TypeOK
  <1>1. PICK k \in Stored(disk) \ disk.bad :
          /\ disk' = [disk EXCEPT !.bad = @ \cup {k}]
          /\ hurt' = hurt \cup (Readable(disk) \ Readable([disk EXCEPT !.bad = @ \cup {k}]))
    BY DEF Damage
  <1> DEFINE e == [disk EXCEPT !.bad = @ \cup {k}]
  <1>2. disk' = e /\ hurt' = hurt \cup (Readable(disk) \ Readable(e))
    BY <1>1
  <1>3. k \in Keys
    BY DEF Stored
  <1>4. /\ e \in Disk /\ e.ckpt = disk.ckpt /\ e.head = disk.head /\ e.gen = disk.gen
        /\ e.backup = disk.backup /\ e.batches = disk.batches /\ e.bad = disk.bad \cup {k}
    BY <1>0, <1>3 DEF Disk
  <1> HIDE DEF e
  <1>5. faults' = faults + 1 /\ faults < MaxFaults /\ UNCHANGED <<tab, issued, kept, durable, past>>
    BY DEF Damage
  <1>6. /\ \A id : Of(e, id) = Of(disk, id)
        /\ Contents(e) = Contents(disk)
    <2>1. \A id : Of(e, id) = Of(disk, id)
      BY <1>4 DEF Of
    <2> QED BY <1>4, <2>1 DEF Contents
  <1>7. disk.gen # 0
    <2>1. Stored(EmptyDisk) = {}
      BY DEF Stored, EmptyDisk, NoCheckpoint
    <2> QED BY <1>0, <2>1 DEF Shape, Backed
  <1>8. k[2] <= disk.gen
    <2>1. disk.gen \in Nat /\ \A b \in disk.batches : b.gen <= disk.gen
      BY <1>0, Constants DEF Disk, Shape, Named
    <2>2. CASE k[1] \in {"batch", "rows"}
      BY <2>1, <2>2 DEF Stored
    <2>3. CASE k[1] \notin {"batch", "rows"}
      <3>1. k[2] = 0
        BY <1>3, <2>3 DEF Keys
      <3> QED BY <2>1, <3>1
    <2> QED BY <2>2, <2>3
  <1>9. Shape(e)
    <2>1. Named(e)
      BY <1>0, <1>4, <1>8 DEF Shape, Named
    <2>2. Headed(e)
      BY <1>0, <1>4, <1>6 DEF Shape, Headed
    <2>3. Backed(e)
      BY <1>0, <1>4, <1>7 DEF Shape, Backed
    <2>4. Threaded(e, e.ckpt) /\ Threaded(e, e.backup)
      BY <1>0, <1>4, <1>6 DEF Shape, Threaded
    <2> QED BY <2>1, <2>2, <2>3, <2>4 DEF Shape
  <1>10. ASSUME NEW t \in Tabs PROVE Fits(e, issued, tab[t])
    <2>1. Fits(disk, issued, tab[t])
      BY <1>0 DEF Pages
    <2>2. Names(e, issued, tab[t])
      BY <1>4, <2>1 DEF Fits, Names
    <2>3. Holds(e, tab[t])
      BY <1>4, <1>6, <2>1 DEF Fits, Holds
    <2> QED BY <2>1, <2>2, <2>3 DEF Fits
  <1>11. Pages'
    BY <1>2, <1>5, <1>10 DEF Pages
  <1>12. faults' \in 0..MaxFaults /\ faults' # 0
    BY <1>0, <1>5, JournalAssumption DEF TypeOK
  <1>13. TypeOK'
    <2>1. hurt' \in SUBSET Edits
      BY <1>0, <1>2, ReadableType DEF TypeOK
    <2> QED BY <1>0, <1>2, <1>4, <1>5, <1>12, <2>1 DEF TypeOK, Is
  <1>14. Accounts'
    <2>1. \A c, m : Upto(e, c, m) = Upto(disk, c, m)
      BY <1>6 DEF Upto
    <2>2. Past(e, e.ckpt, past) /\ Past(e, e.backup, past)
      BY <1>0, <1>4, <1>6, <2>1 DEF Accounts, Past
    <2>3. Contents(e) \cup durable \subseteq Readable(e) \cup kept \cup hurt'
      BY <1>0, <1>2, <1>6 DEF Accounts
    <2> QED BY <1>0, <1>2, <1>4, <1>5, <1>12, <2>2, <2>3 DEF Accounts
  <1> QED BY <1>2, <1>9, <1>11, <1>13, <1>14 DEF Inv

LEMMA StutterInv == ASSUME Inv, UNCHANGED vars PROVE Inv'
  BY DEF vars, history, Inv, TypeOK, Pages, Accounts, Is

LEMMA StepInv == ASSUME Inv, [Next]_vars PROVE Inv'
  <1>1. ASSUME NEW t \in Tabs, Open(t) PROVE Inv'
    BY <1>1, OpenInv
  <1>2. ASSUME NEW t \in Tabs, Repair(t) PROVE Inv'
    BY <1>2, RepairInv
  <1>3. ASSUME NEW t \in Tabs, RepairLost(t) \/ Close(t) PROVE Inv'
    BY <1>3, CloseInv DEF RepairLost, Close
  <1>4. ASSUME NEW t \in Tabs, Edit(t) PROVE Inv'
    BY <1>4, EditInv
  <1>5. ASSUME NEW t \in Tabs, Save(t) PROVE Inv'
    BY <1>5, SaveInv
  <1>6. ASSUME NEW t \in Tabs, SaveStale(t) PROVE Inv'
    BY <1>6, SaveStaleInv
  <1>7. ASSUME NEW t \in Tabs, Submit(t) PROVE Inv'
    BY <1>7, SubmitInv
  <1>8. ASSUME NEW t \in Tabs, Write(t) PROVE Inv'
    BY <1>8, WriteInv
  <1>9. ASSUME NEW t \in Tabs, WriteFails(t) PROVE Inv'
    BY <1>9, WriteFailsInv
  <1>10. ASSUME NEW t \in Tabs, SaveDone(t) PROVE Inv'
    BY <1>10, SaveDoneInv
  <1>11. ASSUME NEW t \in Tabs, KeepCopy(t) PROVE Inv'
    BY <1>11, KeepCopyInv
  <1>12. ASSUME NEW t \in Tabs, Hear(t) \/ HearDone(t) PROVE Inv'
    BY <1>12, HearInv
  <1>13. ASSUME NEW t \in Tabs, PullStart(t) PROVE Inv'
    BY <1>13, PullStartInv
  <1>14. ASSUME NEW t \in Tabs, PullWrite(t) PROVE Inv'
    BY <1>14, PullWriteInv
  <1>15. ASSUME NEW t \in Tabs, PullDone(t) PROVE Inv'
    BY <1>15, PullDoneInv
  <1>16. ASSUME NEW t \in Tabs, PullRetry(t) PROVE Inv'
    BY <1>16, PullRetryInv
  <1> QED
    BY <1>1, <1>2, <1>3, <1>4, <1>5, <1>6, <1>7, <1>8, <1>9, <1>10, <1>11, <1>12, <1>13,
       <1>14, <1>15, <1>16, DamageInv, StutterInv DEF Next

-----------------------------------------------------------------------------
(* What the invariant says of every behaviour.                               *)

(* Every reachable state is as the source's transactions leave it and as its *)
(* pages know it (persist_records.go, persist_writer.go).                    *)
THEOREM Invariance == Spec => []Inv
  <1>1. Init => Inv
    BY InitInv
  <1>2. Inv /\ [Next]_vars => Inv'
    BY StepInv
  <1> QED BY <1>1, <1>2, PTL DEF Spec

(* The records, the pages and the history keep their types, and only an open *)
(* page has a save in flight (newRecordAutosave, its job).                   *)
THEOREM TypeCorrect == Spec => []TypeOK
  <1>1. Inv => TypeOK
    BY DEF Inv
  <1> QED BY <1>1, Invariance, PTL

(* A load brings up a dataset that some committed write made durable,        *)
(* whatever was damaged (recoverDatasetSnapshotParsed, recoverJournalHead).  *)
THEOREM RecoversStateHolds == Spec => []RecoversAState
  <1>1. Inv => RecoversAState
    BY RecoveredPast DEF RecoversAState
  <1> QED BY <1>1, Invariance, PTL

(* Until a record is damaged, a load brings up what the last committed write *)
(* made durable (newRecordAutosave, saveSyncedDatasetThen,                   *)
(* hydrateDurableDataset).                                                   *)
THEOREM RecoversLastHolds == Spec => []RecoversTheLast
  <1>1. Inv => RecoversTheLast
    <2> SUFFICES ASSUME Inv, faults = 0, disk # EmptyDisk PROVE Recovered(disk) = durable
      BY DEF RecoversTheLast
    <2>1. Shape(disk) /\ Accounts
      BY DEF Inv
    <2>2. disk.ckpt.id # 0 /\ disk.bad = {}
      BY <2>1 DEF Shape, Backed, Accounts
    <2>3. HasBase(disk)
      BY <2>2 DEF HasBase, LiveBase, Bad
    <2> QED BY <2>1, <2>3, RecoveredPast DEF Accounts
  <1> QED BY <1>1, Invariance, PTL

(* No edit that was made durable leaves storage, except by damage to the     *)
(* record that held it (hydrateDurableDataset, snapshotRecoveryCopy).        *)
THEOREM DurableHolds == Spec => []DurableKept
  <1>1. Inv => DurableKept
    BY DEF Inv, Accounts, DurableKept
  <1> QED BY <1>1, Invariance, PTL

-----------------------------------------------------------------------------
(* What a write leaves of what a load brought up before it.                  *)

(* Of the durable edits, a load brings up only what is stored on the live    *)
(* checkpoint.                                                               *)
LEMMA DurableStored ==
  ASSUME Inv, HasBase(disk)
  PROVE  durable \cap Recovered(disk) \subseteq Contents(disk)
  <1>0. Shape(disk) /\ disk \in Disk /\ Accounts
    BY DEF Inv, TypeOK
  <1>1. CASE LiveBase(disk)
    BY <1>0, <1>1, RecoveredContents
  <1>2. CASE ~LiveBase(disk)
    <2>1. Base(disk) = disk.backup
      BY <1>2 DEF Base
    <2>2. CASE disk.backup.id = disk.ckpt.id
      <3>1. disk.backup = disk.ckpt
        BY <1>0, <2>2 DEF Shape, Backed
      <3>2. Recovered(disk) = disk.ckpt.edits \cup UNION {b.edits : b \in Intact(disk, disk.ckpt.id)}
        BY <1>0, <2>1, <3>1, RecoveredIs
      <3>3. Intact(disk, disk.ckpt.id) \subseteq Of(disk, disk.ckpt.id)
        BY DEF Intact
      <3> QED BY <3>2, <3>3 DEF Contents
    <2>3. CASE disk.backup.id # disk.ckpt.id
      BY <1>0, <2>3 DEF Accounts, Contents
    <2> QED BY <2>2, <2>3
  <1> QED BY <1>1, <1>2

(* A save leaves all of it.                                                  *)
LEMMA SaveDrops ==
  ASSUME Inv, NEW t \in Tabs, tab[t].job = "queued", MayWrite(disk, tab[t]), Comparable(disk),
         HasBase(disk)
  PROVE  Recovered(disk) \subseteq Recovered(Saved(disk, tab[t]))
  <1> DEFINE p == tab[t]
             e == Saved(disk, p)
  <1>0. Shape(disk) /\ disk \in Disk /\ disk.gen \in Nat
    BY Here
  <1>1. /\ e \in Disk /\ Shape(e) /\ e.gen = p.jobGen /\ Contents(e) = p.goal
        /\ p.full => e.ckpt.edits = p.goal
        /\ ~p.full =>
             /\ e.ckpt = disk.ckpt /\ e.bad = disk.bad
             /\ Of(e, e.ckpt.id) = Of(disk, disk.ckpt.id) \cup {NewBatch(p)}
             /\ \A x \in Of(disk, disk.ckpt.id) : ~ (NewBatch(p).through <= x.through)
    BY SavedIs
  <1>2. Contents(disk) \subseteq p.goal /\ p.jobGen # 0
    BY Saving
  <1>3. ~Bad(disk, "checkpoint")
    BY DEF Comparable
  <1>4. disk.ckpt.id # 0
    <2>1. disk.ckpt.id = 0 => disk.backup.id = 0
      <3>1. disk.ckpt.id \in Nat /\ disk.backup.id \in Nat
        BY <1>0, Constants DEF Disk, Checkpoint
      <3> QED BY <1>0, <3>1 DEF Shape, Named
    <2> QED BY <2>1 DEF HasBase, LiveBase, BackupBase
  <1>5. LiveBase(disk)
    BY <1>3, <1>4 DEF LiveBase
  <1>6. Recovered(disk) \subseteq Contents(disk)
    BY <1>0, <1>5, RecoveredContents
  <1>7. CASE p.full
    <2>1. LiveBase(e)
      <3>1. <<"checkpoint", 0>> \notin e.bad
        BY <1>3, <1>7 DEF Saved, Bad, Disk
      <3>2. e.ckpt.id = p.jobGen
        BY <1>0, <1>7 DEF Saved, Disk
      <3> QED BY <1>2, <3>1, <3>2 DEF LiveBase, Bad
    <2> HIDE DEF e, p
    <2>2. e.ckpt.edits \subseteq Recovered(e)
      BY <1>1, <2>1, RecoveredContents
    <2> QED BY <1>1, <1>2, <1>6, <1>7, <2>2 DEF e, p
  <1>8. CASE ~p.full
    <2> HIDE DEF e, p
    <2>1. e.ckpt = disk.ckpt /\ e.bad = disk.bad
      BY <1>1, <1>8
    <2>2. LiveBase(e)
      BY <1>5, <2>1 DEF LiveBase, Bad
    <2> DEFINE k == disk.ckpt
               b == NewBatch(p)
    <2>3. /\ Of(e, k.id) = Of(disk, k.id) \cup {b}
          /\ \A x \in Of(disk, k.id) : ~ (b.through <= x.through)
      BY <1>1, <1>8, <2>1
    <2>4. Intact(disk, k.id) \subseteq Intact(e, k.id)
      <3> HIDE DEF b, k
      <3>1. \A x : Good(e, x) = Good(disk, x)
        BY <2>1 DEF Good
      <3> QED BY <2>3, <3>1 DEF Intact
    <2>5. /\ Base(disk) = k /\ Base(e) = k /\ HasBase(e)
      BY <1>5, <2>1, <2>2 DEF Base, HasBase
    <2>6. /\ Recovered(disk) = k.edits \cup UNION {x.edits : x \in Intact(disk, k.id)}
          /\ Recovered(e) = k.edits \cup UNION {x.edits : x \in Intact(e, k.id)}
      BY <1>0, <1>1, <2>5, RecoveredIs
    <2> QED BY <2>4, <2>6 DEF e, p
  <1> QED BY <1>7, <1>8

(* A load never stops bringing up a durable edit except after a replacement  *)
(* in a page that had shown it, or damage (persist_records.go's conditions). *)
THEOREM NothingDroppedHolds == Spec => NothingDropped
  <1> DEFINE Drop == faults' = faults /\ HasBase(disk) =>
               \A e \in (durable \cap Recovered(disk)) \ Recovered(disk') :
                 \E t \in Tabs : /\ tab[t].pull = "ready" /\ tab'[t].pull = "written"
                                 /\ e \in tab[t].seen
  <1>1. Inv /\ [Next]_vars => Drop
    <2> SUFFICES ASSUME Inv, [Next]_vars, faults' = faults, HasBase(disk),
                        NEW e \in (durable \cap Recovered(disk)) \ Recovered(disk')
                 PROVE  \E t \in Tabs : /\ tab[t].pull = "ready" /\ tab'[t].pull = "written"
                                        /\ e \in tab[t].seen
      OBVIOUS
    <2>0. disk' # disk
      OBVIOUS
    <2>1. ASSUME NEW t \in Tabs, Repair(t) PROVE FALSE
      <3>1. HasBase(disk) /\ disk = tab[t].snap
        BY <2>1 DEF Repair
      <3>2. PICK n \in 1..MaxGen : Fresh(n) /\ disk' = Mended(disk, n)
        BY <2>1, <3>1 DEF Repair, Mended, Whole, Announce
      <3>3. n \in Gens /\ disk.gen < n
        BY <3>2, Here, Constants DEF Fresh, Gens
      <3>4. Recovered(disk') = Recovered(disk)
        BY <3>1, <3>2, <3>3, MendedIs
      <3> QED BY <3>4
    <2>2. ASSUME NEW t \in Tabs, Write(t) PROVE FALSE
      <3>1. /\ tab[t].job = "queued" /\ MayWrite(disk, tab[t]) /\ Comparable(disk)
            /\ disk' = Saved(disk, tab[t])
        BY <2>0, <2>2 DEF Write, Announce
      <3> QED BY <3>1, SaveDrops
    <2>3. ASSUME NEW t \in Tabs, PullWrite(t)
          PROVE  /\ tab[t].pull = "ready" /\ tab'[t].pull = "written"
                 /\ e \in tab[t].seen
      <3> DEFINE p == tab[t]
      <3>1. p.pull = "ready" /\ disk.gen = p.pullExp
        BY <2>0, <2>3 DEF PullWrite
      <3>2. tab'[t] = [[p EXCEPT !.pull = "written"] EXCEPT !.cache = Shown(disk')]
        BY <2>0, <2>3 DEF PullWrite, Announce
      <3>3. p \in Page /\ Fits(disk, issued, p) /\ disk.gen \in Nat
        BY Here
      <3> HIDE DEF p
      <3>4. tab'[t].pull = "written"
        BY <3>2, <3>3 DEF Page
      <3>5. p.mine = disk.gen
        <4>1. p.mine \in Nat
          BY <3>3, Constants DEF Page
        <4> QED BY <3>1, <3>3, <4>1 DEF Fits, Names
      <3>6. e \in p.seen
        BY <3>3, <3>5, DurableStored DEF Fits, Holds
      <3> QED BY <3>1, <3>4, <3>6 DEF p
    <2>4. ASSUME Damage PROVE FALSE
      <3>1. faults \in Nat /\ faults' = faults + 1
        BY <2>4, JournalAssumption DEF Damage, Inv, TypeOK
      <3> QED BY <3>1
    <2>5. \/ \E t \in Tabs : Repair(t) \/ Write(t) \/ PullWrite(t)
          \/ Damage
      BY <2>0 DEF Next, vars, Open, RepairLost, Edit, Save, SaveStale, Submit, WriteFails, SaveDone,
                  KeepCopy, Hear, HearDone, PullStart, PullDone, PullRetry, Close
    <2> QED BY <2>1, <2>2, <2>3, <2>4, <2>5
  <1> QED BY <1>1, Invariance, PTL DEF Spec, NothingDropped

-----------------------------------------------------------------------------
(* The records as a register with a version.                                 *)

LEMMA KnowsIs ==
  ASSUME NEW d, NEW n, NEW p, Fits(d, n, p), p.job # "none" => p.st = "open"
  PROVE  /\ p.st = "loading" => Knows(p) = p.snap.gen
         /\ p.pull = "written" => Knows(p) = p.pullGen
         /\ p.job = "written" => Knows(p) = p.jobGen
         /\ p.st # "loading" /\ p.pull # "written" /\ p.job # "written" => Knows(p) = p.mine
  <1>1. p.st = "loading" => p.pull # "written" /\ p.job # "written"
    BY DEF Fits
  <1>2. p.pull = "written" => p.job # "written"
    BY DEF Fits, Names
  <1>3. p.st = "loading" => Knows(p) = p.snap.gen
    BY <1>1 DEF Knows
  <1>4. p.pull = "written" => Knows(p) = p.pullGen
    BY <1>1, <1>2 DEF Knows
  <1>5. p.job = "written" => Knows(p) = p.jobGen
    BY <1>1, <1>2 DEF Knows
  <1>6. p.st # "loading" /\ p.pull # "written" /\ p.job # "written" => Knows(p) = p.mine
    BY DEF Knows
  <1> QED BY <1>3, <1>4, <1>5, <1>6

(* What a page knows before and after a step.                                *)
LEMMA KnowsSteps ==
  ASSUME Inv, Inv', NEW t \in Tabs
  PROVE  LET p == tab[t]
             q == tab'[t]
         IN
         /\ p \in Page /\ q \in Page
         /\ p.st = "loading" => Knows(p) = p.snap.gen
         /\ p.pull = "written" => Knows(p) = p.pullGen
         /\ p.job = "written" => Knows(p) = p.jobGen
         /\ p.st # "loading" /\ p.pull # "written" /\ p.job # "written" => Knows(p) = p.mine
         /\ q.st = "loading" => Knows(q) = q.snap.gen
         /\ q.pull = "written" => Knows(q) = q.pullGen
         /\ q.job = "written" => Knows(q) = q.jobGen
         /\ q.st # "loading" /\ q.pull # "written" /\ q.job # "written" => Knows(q) = q.mine
  <1> DEFINE p == tab[t]
             q == tab'[t]
  <1>1. p \in Page /\ Fits(disk, issued, p) /\ (p.job # "none" => p.st = "open")
    BY Here
  <1>2. q \in Page /\ Fits(disk', issued', q) /\ (q.job # "none" => q.st = "open")
    BY DEF Inv, TypeOK, Pages, Is
  <1> HIDE DEF p, q
  <1> QED BY <1>1, <1>2, KnowsIs DEF p, q

(* A step that does not write: the page reads, forgets, or knows what it     *)
(* knew.                                                                     *)
LEMMA QuietReads ==
  ASSUME Inv, NEW t \in Tabs, NEW q, tab' = [tab EXCEPT ![t] = q], disk' = disk, durable' = durable,
         Knows(q) \in {Knows(tab[t]), 0, disk.gen}
  PROVE  [Register!Next]_<<disk.gen, [u \in Tabs |-> Knows(tab[u])], durable>>
  <1> DEFINE known == [u \in Tabs |-> Knows(tab[u])]
             later == [u \in Tabs |-> Knows(tab'[u])]
  <1>1. tab' = [u \in Tabs |-> IF u = t THEN q ELSE tab[u]]
    BY DEF Inv, TypeOK
  <1>2. later = [known EXCEPT ![t] = Knows(q)]
    BY <1>1
  <1>3. CASE Knows(q) = Knows(tab[t])
    <2>1. later = known
      BY <1>2, <1>3
    <2> QED BY <2>1
  <1>4. CASE Knows(q) \in {0, disk.gen}
    <2>1. Register!Read(t)
      BY <1>2, <1>4 DEF Register!Read
    <2> QED BY <2>1 DEF Register!Next
  <1> QED BY <1>3, <1>4

(* A commit: the page knew the version, and knows the new one.               *)
LEMMA CommitWrites ==
  ASSUME Inv, Inv', NEW t \in Tabs, NEW q \in Page, Announce(t, disk', q), disk.gen < disk'.gen,
         Knows(tab[t]) = disk.gen, Knows(q) = disk'.gen
  PROVE  Register!Next
  <1> DEFINE known == [u \in Tabs |-> Knows(tab[u])]
             later == [u \in Tabs |-> Knows(tab'[u])]
             r == [q EXCEPT !.cache = Shown(disk')]
  <1>1. tab' = [u \in Tabs |-> IF u = t THEN r
                               ELSE IF tab[u].st = "closed" THEN tab[u]
                               ELSE [tab[u] EXCEPT !.told = TRUE]]
    BY DEF Announce
  <1>2. Knows(r) = Knows(q)
    <2>1. /\ r.st = q.st /\ r.pull = q.pull /\ r.job = q.job /\ r.snap = q.snap /\ r.pullGen = q.pullGen
          /\ r.jobGen = q.jobGen /\ r.mine = q.mine
      BY DEF Page
    <2> HIDE DEF r
    <2> QED BY <2>1 DEF Knows
  <1>3. ASSUME NEW u \in Tabs PROVE Knows([tab[u] EXCEPT !.told = TRUE]) = Knows(tab[u])
    <2> DEFINE p == tab[u]
               s == [p EXCEPT !.told = TRUE]
    <2>0. p \in Page
      BY Here
    <2>1. /\ s.st = p.st /\ s.pull = p.pull /\ s.job = p.job /\ s.snap = p.snap /\ s.pullGen = p.pullGen
          /\ s.jobGen = p.jobGen /\ s.mine = p.mine
      <3> HIDE DEF p
      <3> QED BY <2>0 DEF Page
    <2> HIDE DEF p, s
    <2>2. Knows(s) = Knows(p)
      BY <2>1 DEF Knows
    <2> QED BY <2>2 DEF s, p
  <1> HIDE DEF r
  <1>4. later = [known EXCEPT ![t] = disk'.gen]
    BY <1>1, <1>2, <1>3
  <1>5. disk.gen \in Nat /\ disk'.gen \in Gens /\ disk'.gen <= MaxGen
    BY Constants DEF Inv, TypeOK, Disk
  <1>6. known[t] = disk.gen
    OBVIOUS
  <1>7. Register!Write(t)
    BY <1>4, <1>5, <1>6 DEF Register!Write
  <1>8. durable' \subseteq Edits /\ (disk.gen = 0 => durable = {})
    BY DEF Inv, TypeOK, Accounts
  <1>9. Register!Extend(t) \/ Register!Replace(t)
    BY <1>7, <1>8 DEF Register!Extend, Register!Replace
  <1> QED BY <1>9 DEF Register!Next

(* Loading, closing, editing and hearing.                                    *)
LEMMA ReadingSteps ==
  ASSUME Inv, Inv', NEW t \in Tabs,
         \/ Open(t) \/ RepairLost(t) \/ Close(t) \/ Edit(t) \/ KeepCopy(t) \/ Hear(t) \/ HearDone(t)
  PROVE  Knows(tab'[t]) \in {Knows(tab[t]), 0, disk.gen}
  <1> DEFINE p == tab[t]
             q == tab'[t]
  <1>0. /\ p \in Page /\ q \in Page
        /\ p.st = "loading" => Knows(p) = p.snap.gen
        /\ p.pull = "written" => Knows(p) = p.pullGen
        /\ p.job = "written" => Knows(p) = p.jobGen
        /\ p.st # "loading" /\ p.pull # "written" /\ p.job # "written" => Knows(p) = p.mine
        /\ q.st = "loading" => Knows(q) = q.snap.gen
        /\ q.pull = "written" => Knows(q) = q.pullGen
        /\ q.job = "written" => Knows(q) = q.jobGen
        /\ q.st # "loading" /\ q.pull # "written" /\ q.job # "written" => Knows(q) = q.mine
    BY KnowsSteps
  <1>1. \A r : Set(t, r) => q = r
    BY DEF Set, Inv, TypeOK
  <1>2. CASE Open(t)
    <2>1. CASE q = [Closed EXCEPT !.st = "open"]
      <3>1. q.st = "open" /\ q.pull = "none" /\ q.job = "none" /\ q.mine = 0
        BY <2>1 DEF Closed
      <3> QED BY <1>0, <3>1
    <2>2. ASSUME NEW told \in BOOLEAN, q = Loaded(disk, told) PROVE Knows(q) = disk.gen
      <3>1. q.st = "open" /\ q.pull = "none" /\ q.job = "none" /\ q.mine = disk.gen
        BY <2>2 DEF Loaded, Closed
      <3> QED BY <1>0, <3>1
    <2>3. ASSUME NEW told \in BOOLEAN, q = [Closed EXCEPT !.st = "loading", !.snap = disk, !.told = told]
          PROVE  Knows(q) = disk.gen
      <3>1. q.st = "loading" /\ q.snap = disk
        BY <2>3 DEF Closed
      <3> QED BY <1>0, <3>1
    <2> HIDE DEF q
    <2> QED BY <1>1, <1>2, <2>1, <2>2, <2>3 DEF Open, q
  <1>3. CASE RepairLost(t) \/ Close(t)
    <2>1. q = Closed
      BY <1>1, <1>3 DEF RepairLost, Close
    <2>2. q.st = "closed" /\ q.pull = "none" /\ q.job = "none" /\ q.mine = 0
      BY <2>1 DEF Closed
    <2> QED BY <1>0, <2>2
  <1>4. CASE Edit(t) \/ KeepCopy(t) \/ Hear(t) \/ HearDone(t)
    <2>1. \/ \E e \in Edits : q = [p EXCEPT !.edits = @ \cup {e}, !.seen = @ \cup {e}]
          \/ q = [p EXCEPT !.st = "readonly"]
          \/ q = [p EXCEPT !.told = FALSE, !.heard = Shown(disk)]
          \/ q = [p EXCEPT !.cache = p.heard, !.heard = NoTriple]
      BY <1>1, <1>4 DEF Edit, KeepCopy, Hear, HearDone
    <2>2. p.st \in {"open", "stale"}
      BY <1>4 DEF Edit, KeepCopy, Hear, HearDone, Is
    <2> HIDE DEF p, q
    <2>3. /\ q.pull = p.pull /\ q.job = p.job /\ q.pullGen = p.pullGen
          /\ q.jobGen = p.jobGen /\ q.mine = p.mine /\ q.st # "loading"
      <3>1. ASSUME NEW e, q = [p EXCEPT !.edits = @ \cup {e}, !.seen = @ \cup {e}]
            PROVE  /\ q.pull = p.pull /\ q.job = p.job /\ q.pullGen = p.pullGen
                   /\ q.jobGen = p.jobGen /\ q.mine = p.mine /\ q.st = p.st
        BY <1>0, <3>1 DEF Page
      <3>2. CASE q = [p EXCEPT !.st = "readonly"]
        BY <1>0, <3>2 DEF Page
      <3>3. CASE q = [p EXCEPT !.told = FALSE, !.heard = Shown(disk)]
        BY <1>0, <2>2, <3>3 DEF Page
      <3>4. CASE q = [p EXCEPT !.cache = p.heard, !.heard = NoTriple]
        BY <1>0, <2>2, <3>4 DEF Page
      <3> QED BY <2>1, <2>2, <3>1, <3>2, <3>3, <3>4
    <2>4. Knows(q) = Knows(p)
      BY <1>0, <2>2, <2>3
    <2> QED BY <2>4 DEF p, q
  <1> QED BY <1>2, <1>3, <1>4

(* The steps of a save other than its write.                                 *)
LEMMA SavingSteps ==
  ASSUME Inv, Inv', NEW t \in Tabs, NEW q, tab' = [tab EXCEPT ![t] = q],
         \/ Save(t) \/ SaveStale(t) \/ Submit(t) \/ WriteFails(t) \/ SaveDone(t)
         \/ Write(t) /\ q \in {GoStale(tab[t]), NoJob(tab[t])}
  PROVE  Knows(q) = Knows(tab[t])
  <1> DEFINE p == tab[t]
  <1>1. tab'[t] = q
    BY DEF Inv, TypeOK
  <1>0. /\ p \in Page /\ q \in Page
        /\ p.pull = "written" => Knows(p) = p.pullGen
        /\ p.job = "written" => Knows(p) = p.jobGen
        /\ p.st # "loading" /\ p.pull # "written" /\ p.job # "written" => Knows(p) = p.mine
        /\ q.pull = "written" => Knows(q) = q.pullGen
        /\ q.job = "written" => Knows(q) = q.jobGen
        /\ q.st # "loading" /\ q.pull # "written" /\ q.job # "written" => Knows(q) = q.mine
    BY <1>1, KnowsSteps
  <1>2. Fits(disk, issued, p) /\ (p.job # "none" => p.st = "open")
    BY Here
  <1>3. ASSUME NEW r, tab' = [tab EXCEPT ![t] = r] PROVE q = r
    BY <1>3 DEF Inv, TypeOK
  <1>4. NoJob(p).pull = p.pull /\ NoJob(p).pullGen = p.pullGen /\ NoJob(p).mine = p.mine
        /\ NoJob(p).job = "none" /\ NoJob(p).st = p.st
        /\ GoStale(p).pull = p.pull /\ GoStale(p).pullGen = p.pullGen /\ GoStale(p).mine = p.mine
        /\ GoStale(p).job = "none" /\ GoStale(p).st = "stale"
    <2> HIDE DEF p
    <2> QED BY <1>0 DEF NoJob, GoStale, Page
  <1>5. CASE Save(t) \/ SaveStale(t)
    <2> DEFINE s == Rebased(p)
    <2>1. s \in Page /\ s.job = "none" /\ s.pull = "none" /\ p.job = "none" /\ p.pull = "none"
          /\ s.mine = p.mine /\ p.st = "open" /\ s.st = "open"
      <3>1. p.st = "open" /\ s.job = "none" /\ s.pull = "none"
        BY <1>5 DEF Save, SaveStale, Is
      <3>2. p.job = "none" /\ p.pull = "none"
        <4>1. s.job = p.job /\ s.pull = p.pull
          <5> HIDE DEF p
          <5> QED BY <1>0 DEF Rebased, Page
        <4> QED BY <3>1, <4>1
      <3>3. disk \in Disk
        BY Here
      <3> HIDE DEF p
      <3> QED BY <1>0, <1>2, <3>1, <3>2, <3>3, RebasedFits
    <2>2. \/ \E full \in BOOLEAN, n \in 1..MaxGen :
               q = [s EXCEPT !.job = "captured", !.full = full, !.goal = s.edits, !.jobGen = n]
          \/ q = GoStale(s)
      BY <1>3, <1>5 DEF Save, SaveStale, Set
    <2> HIDE DEF p, s
    <2>3. q.pull = "none" /\ q.job # "written" /\ q.mine = s.mine /\ q.st # "loading"
      <3>1. ASSUME NEW full, NEW n,
                   q = [s EXCEPT !.job = "captured", !.full = full, !.goal = s.edits, !.jobGen = n]
            PROVE  q.pull = "none" /\ q.job # "written" /\ q.mine = s.mine /\ q.st # "loading"
        BY <2>1, <3>1 DEF Page
      <3>2. CASE q = GoStale(s)
        BY <2>1, <3>2 DEF GoStale, NoJob, Page
      <3> QED BY <2>2, <3>1, <3>2
    <2> QED BY <1>0, <2>1, <2>3 DEF p
  <1>6. CASE Submit(t)
    <2>1. p.job = "captured" /\ p.st = "open"
      BY <1>2, <1>6 DEF Submit
    <2>2. q \in {NoJob(p), GoStale(p)} \/ (q = [p EXCEPT !.job = "queued"])
      BY <1>3, <1>6 DEF Submit, Set
    <2> HIDE DEF p
    <2>3. q.pull = p.pull /\ q.pullGen = p.pullGen /\ q.mine = p.mine
          /\ q.job # "written" /\ q.st # "loading"
      <3>1. CASE q = [p EXCEPT !.job = "queued"]
        BY <1>0, <2>1, <3>1 DEF Page
      <3> QED BY <1>4, <2>1, <2>2, <3>1
    <2> QED BY <1>0, <2>1, <2>3 DEF p
  <1>7. CASE WriteFails(t) \/ (Write(t) /\ q \in {GoStale(p), NoJob(p)})
    <2>1. p.job = "queued" /\ p.st = "open"
      BY <1>2, <1>7 DEF WriteFails, Write
    <2>2. q \in {NoJob(p), GoStale(p)}
      BY <1>3, <1>7 DEF WriteFails, Set
    <2> HIDE DEF p
    <2> QED BY <1>0, <1>4, <2>1, <2>2 DEF p
  <1>8. CASE SaveDone(t)
    <2> DEFINE r == [p EXCEPT
                     !.gen = p.jobGen, !.mine = p.jobGen, !.init = TRUE, !.saved = p.goal,
                     !.head = NextHead(p),
                     !.ckpt = IF p.full THEN p.jobGen ELSE @,
                     !.journal = IF p.full THEN {} ELSE @ \cup {p.jobGen}]
    <2>1. p.job = "written" /\ p.st = "open"
      BY <1>2, <1>8 DEF SaveDone
    <2>2. q = NoJob(r)
      BY <1>3, <1>8 DEF SaveDone, Set
    <2> HIDE DEF p
    <2>3. r.pull = p.pull /\ r.mine = p.jobGen /\ r.st = p.st
          /\ NoJob(r).pull = r.pull /\ NoJob(r).mine = r.mine /\ NoJob(r).st = r.st /\ NoJob(r).job = "none"
      BY <1>0 DEF NoJob, Page
    <2> HIDE DEF r
    <2>4. p.pull # "written"
      BY <1>2, <2>1 DEF Fits, Names
    <2> QED BY <1>0, <2>1, <2>2, <2>3, <2>4 DEF p
  <1> QED BY <1>5, <1>6, <1>7, <1>8

(* The steps of a pull other than its write.                                 *)
LEMMA PullingSteps ==
  ASSUME Inv, Inv', NEW t \in Tabs, NEW q, tab' = [tab EXCEPT ![t] = q],
         \/ PullStart(t) \/ PullDone(t) \/ PullRetry(t)
         \/ PullWrite(t) /\ \E pull \in {"refused", "failed"} : q = [tab[t] EXCEPT !.pull = pull]
  PROVE  Knows(q) = Knows(tab[t])
  <1> DEFINE p == tab[t]
  <1>1. tab'[t] = q
    BY DEF Inv, TypeOK
  <1>0. /\ p \in Page /\ q \in Page
        /\ p.pull = "written" => Knows(p) = p.pullGen
        /\ p.job = "written" => Knows(p) = p.jobGen
        /\ p.st # "loading" /\ p.pull # "written" /\ p.job # "written" => Knows(p) = p.mine
        /\ q.pull = "written" => Knows(q) = q.pullGen
        /\ q.job = "written" => Knows(q) = q.jobGen
        /\ q.st # "loading" /\ q.pull # "written" /\ q.job # "written" => Knows(q) = q.mine
    BY <1>1, KnowsSteps
  <1>2. Fits(disk, issued, p) /\ (p.job # "none" => p.st = "open")
    BY Here
  <1>3. ASSUME NEW r, tab' = [tab EXCEPT ![t] = r] PROVE q = r
    BY <1>3 DEF Inv, TypeOK
  <1>4. CASE PullDone(t)
    <2>1. p.pull = "written" /\ q = NoPull([p EXCEPT !.mine = p.pullGen])
      BY <1>3, <1>4 DEF PullDone, Set
    <2> HIDE DEF p
    <2>2. q.pull = "none" /\ q.mine = p.pullGen /\ q.job = p.job /\ q.st = p.st
      BY <1>0, <2>1 DEF NoPull, Page
    <2>3. p.job # "written" /\ p.st # "loading"
      BY <1>2, <2>1 DEF Fits, Names
    <2> QED BY <1>0, <2>1, <2>2, <2>3 DEF p
  <1>5. CASE ~PullDone(t)
    <2>1. p.pull \in {"none", "ready", "refused"} /\ p.st # "loading"
      BY <1>2, <1>5 DEF PullStart, PullRetry, PullWrite, Is, Fits
    <2>2. \/ \E s \in Pulls, n \in 1..MaxGen :
               q = [p EXCEPT !.edits = s, !.seen = @ \cup s, !.pull = "ready",
                             !.pulled = s, !.pullGen = n, !.pullExp = p.mine]
          \/ \E n \in 1..MaxGen : q = [p EXCEPT !.pull = "ready", !.pullGen = n, !.pullExp = p.mine]
          \/ \E pull \in {"refused", "failed"} : q = [p EXCEPT !.pull = pull]
      BY <1>3, <1>5 DEF PullStart, PullRetry, Set
    <2> HIDE DEF p
    <2>3. q.pull # "written" /\ q.job = p.job /\ q.jobGen = p.jobGen /\ q.mine = p.mine /\ q.st = p.st
      <3>1. ASSUME NEW s, NEW n,
                   q = [p EXCEPT !.edits = s, !.seen = @ \cup s, !.pull = "ready",
                                 !.pulled = s, !.pullGen = n, !.pullExp = p.mine]
            PROVE  q.pull # "written" /\ q.job = p.job /\ q.jobGen = p.jobGen
                   /\ q.mine = p.mine /\ q.st = p.st
        BY <1>0, <3>1 DEF Page
      <3>2. ASSUME NEW n, q = [p EXCEPT !.pull = "ready", !.pullGen = n, !.pullExp = p.mine]
            PROVE  q.pull # "written" /\ q.job = p.job /\ q.jobGen = p.jobGen
                   /\ q.mine = p.mine /\ q.st = p.st
        BY <1>0, <3>2 DEF Page
      <3>3. ASSUME NEW pull \in {"refused", "failed"}, q = [p EXCEPT !.pull = pull]
            PROVE  q.pull # "written" /\ q.job = p.job /\ q.jobGen = p.jobGen
                   /\ q.mine = p.mine /\ q.st = p.st
        BY <1>0, <3>3 DEF Page
      <3> QED BY <2>2, <3>1, <3>2, <3>3
    <2> QED BY <1>0, <2>1, <2>3 DEF p
  <1> QED BY <1>4, <1>5

(* The three commits.                                                        *)
LEMMA RepairWrites ==
  ASSUME Inv, Inv', NEW t \in Tabs, Repair(t)
  PROVE  Register!Next
  <1> DEFINE p == tab[t]
             q == Loaded(disk', p.told)
  <1>1. p.st = "loading" /\ disk = p.snap /\ HasBase(disk)
    BY DEF Repair, Is, Inv, Pages, Fits
  <1>2. PICK n \in 1..MaxGen : Fresh(n) /\ Announce(t, Mended(disk, n), Loaded(Mended(disk, n), p.told))
    BY <1>1 DEF Repair, Mended, Whole
  <1>3. disk' = Mended(disk, n)
    BY <1>2 DEF Announce
  <1>4. n \in Gens /\ disk.gen < n /\ n \in Nat
    BY <1>2, Here, Constants DEF Fresh, Gens
  <1>5. disk'.gen = n /\ disk' \in Disk /\ Shape(disk') /\ LiveBase(disk') /\ Recovered(disk') = Contents(disk')
    BY <1>1, <1>3, <1>4, MendedIs
  <1>6. Announce(t, disk', q)
    BY <1>2, <1>3
  <1>7. p.told \in BOOLEAN
    BY Here DEF Page
  <1>8. q \in Page
    BY <1>4, <1>5, <1>7, LoadedFits
  <1>9. Knows(q) = disk'.gen
    <2>1. q.st = "open" /\ q.pull = "none" /\ q.job = "none" /\ q.mine = disk'.gen
      BY DEF Loaded, Closed
    <2> HIDE DEF q
    <2> QED BY <2>1 DEF Knows
  <1>10. Knows(p) = disk.gen
    BY <1>1, KnowsSteps
  <1> HIDE DEF q
  <1> QED BY <1>4, <1>5, <1>6, <1>8, <1>9, <1>10, CommitWrites

LEMMA SaveWrites ==
  ASSUME Inv, Inv', NEW t \in Tabs, Comparable(disk), MayWrite(disk, tab[t]), tab[t].job = "queued",
         Announce(t, Saved(disk, tab[t]), [tab[t] EXCEPT !.job = "written"])
  PROVE  Register!Next
  <1> DEFINE p == tab[t]
             q == [p EXCEPT !.job = "written"]
  <1>1. disk' = Saved(disk, p)
    BY DEF Announce
  <1>2. disk'.gen = p.jobGen
    BY <1>1, SavedIs
  <1>3. p.mine = disk.gen /\ disk.gen < p.jobGen /\ p.pull # "written"
    BY Saving
  <1>4. p \in Page /\ p.st = "open" /\ p.job = "queued"
    BY Here
  <1>5. Announce(t, disk', q)
    BY <1>1
  <1>6. Knows(p) = disk.gen
    BY <1>3, <1>4, KnowsSteps
  <1> HIDE DEF p
  <1>7. /\ q \in Page /\ q.st = "open" /\ q.job = "written" /\ q.pull = p.pull /\ q.jobGen = p.jobGen
    BY <1>4 DEF Page
  <1> HIDE DEF q
  <1>8. Knows(q) = p.jobGen
    BY <1>3, <1>7 DEF Knows
  <1> QED BY <1>2, <1>3, <1>5, <1>6, <1>7, <1>8, CommitWrites DEF p

LEMMA PullWrites ==
  ASSUME Inv, Inv', NEW t \in Tabs, PullWrite(t), disk.gen = tab[t].pullExp,
         Announce(t, disk', [tab[t] EXCEPT !.pull = "written"]), disk'.gen = tab[t].pullGen
  PROVE  Register!Next
  <1> DEFINE p == tab[t]
             q == [p EXCEPT !.pull = "written"]
  <1>1. /\ p \in Page /\ Fits(disk, issued, p) /\ p.pull = "ready" /\ p.job # "queued"
        /\ disk.gen = p.pullExp /\ disk'.gen = p.pullGen /\ disk.gen \in Nat
    BY Here DEF PullWrite
  <1>2. Announce(t, disk', q)
    OBVIOUS
  <1> HIDE DEF p
  <1>3. p.mine \in Nat /\ p.jobGen \in Nat /\ p.pullGen \in Nat
    BY <1>1, Constants DEF Page
  <1>4. p.mine = disk.gen /\ disk.gen < p.pullGen /\ p.job # "written" /\ p.st # "loading"
    BY <1>1, <1>3 DEF Fits, Names
  <1>5. Knows(p) = disk.gen
    BY <1>1, <1>4, KnowsSteps DEF p
  <1>6. /\ q \in Page /\ q.st = p.st /\ q.job = p.job /\ q.pull = "written" /\ q.pullGen = p.pullGen
    BY <1>1 DEF Page
  <1> HIDE DEF q
  <1>7. Knows(q) = p.pullGen
    BY <1>4, <1>6 DEF Knows
  <1> QED BY <1>1, <1>2, <1>4, <1>5, <1>6, <1>7, CommitWrites DEF p

(* Seen from outside the records are one value with a version, which only a  *)
(* page that knows the version writes (the conditions of newRecordAutosave,  *)
(* saveSyncedDatasetThen and hydrateDurableDataset, taken together).         *)
THEOREM Refines == Spec => ImplementsRegister
  <1>1. Init => Register!Init
    <2> SUFFICES ASSUME Init PROVE Register!Init
      OBVIOUS
    <2>1. disk.gen = 0 /\ durable = {}
      BY DEF Init, EmptyDisk
    <2>2. ASSUME NEW t \in Tabs PROVE Knows(tab[t]) = 0
      <3>1. tab[t].st = "closed" /\ tab[t].pull = "none" /\ tab[t].job = "none" /\ tab[t].mine = 0
        BY DEF Init, Closed
      <3> QED BY <3>1 DEF Knows
    <2> QED BY <2>1, <2>2 DEF Register!Init
  <1>2. Inv /\ Inv' /\ [Next]_vars
          => [Register!Next]_<<disk.gen, [u \in Tabs |-> Knows(tab[u])], durable>>
    <2> SUFFICES ASSUME Inv, Inv', [Next]_vars
                 PROVE  [Register!Next]_<<disk.gen, [u \in Tabs |-> Knows(tab[u])], durable>>
      OBVIOUS
    <2> DEFINE Done == [Register!Next]_<<disk.gen, [u \in Tabs |-> Knows(tab[u])], durable>>
    <2>1. ASSUME NEW t \in Tabs,
                 \/ Open(t) \/ RepairLost(t) \/ Close(t) \/ Edit(t) \/ KeepCopy(t) \/ Hear(t) \/ HearDone(t)
          PROVE  Done
      <3>1. PICK q : tab' = [tab EXCEPT ![t] = q]
        BY <2>1 DEF Open, RepairLost, Close, Edit, KeepCopy, Hear, HearDone, Set
      <3>2. tab'[t] = q
        BY <3>1 DEF Inv, TypeOK
      <3>3. disk' = disk /\ durable' = durable
        BY <2>1 DEF Open, RepairLost, Close, Edit, KeepCopy, Hear, HearDone, history
      <3>4. Knows(q) \in {Knows(tab[t]), 0, disk.gen}
        BY <2>1, <3>2, ReadingSteps
      <3> QED BY <3>1, <3>3, <3>4, QuietReads
    <2>2. ASSUME NEW t \in Tabs, NEW q, tab' = [tab EXCEPT ![t] = q], disk' = disk, durable' = durable,
                 Knows(q) = Knows(tab[t])
          PROVE  Done
      BY <2>2, QuietReads
    <2>3. ASSUME NEW t \in Tabs, Save(t) \/ SaveStale(t) \/ Submit(t) \/ WriteFails(t) \/ SaveDone(t)
          PROVE  Done
      <3>1. PICK q : tab' = [tab EXCEPT ![t] = q]
        BY <2>3 DEF Save, SaveStale, Submit, WriteFails, SaveDone, Set
      <3>2. disk' = disk /\ durable' = durable
        BY <2>3 DEF Save, SaveStale, Submit, WriteFails, SaveDone, history
      <3>3. Knows(q) = Knows(tab[t])
        BY <2>3, <3>1, SavingSteps
      <3> QED BY <2>2, <3>1, <3>2, <3>3
    <2>4. ASSUME NEW t \in Tabs, PullStart(t) \/ PullDone(t) \/ PullRetry(t)
          PROVE  Done
      <3>1. PICK q : tab' = [tab EXCEPT ![t] = q]
        BY <2>4 DEF PullStart, PullDone, PullRetry, Set
      <3>2. disk' = disk /\ durable' = durable
        BY <2>4 DEF PullStart, PullDone, PullRetry, history
      <3>3. Knows(q) = Knows(tab[t])
        BY <2>4, <3>1, PullingSteps
      <3> QED BY <2>2, <3>1, <3>2, <3>3
    <2>5. ASSUME NEW t \in Tabs, Write(t) PROVE Done
      <3>1. CASE /\ Set(t, GoStale(tab[t])) \/ Set(t, NoJob(tab[t]))
                 /\ UNCHANGED <<disk, history>>
        <4>1. PICK q \in {GoStale(tab[t]), NoJob(tab[t])} : tab' = [tab EXCEPT ![t] = q]
          BY <3>1 DEF Set
        <4>2. Knows(q) = Knows(tab[t])
          BY <2>5, <4>1, SavingSteps
        <4>3. disk' = disk /\ durable' = durable
          BY <3>1 DEF history
        <4> QED BY <2>2, <4>1, <4>2, <4>3
      <3>2. CASE /\ Comparable(disk) /\ MayWrite(disk, tab[t]) /\ tab[t].job = "queued"
                 /\ Announce(t, Saved(disk, tab[t]), [tab[t] EXCEPT !.job = "written"])
        BY <3>2, SaveWrites
      <3> QED BY <2>5, <3>1, <3>2 DEF Write
    <2>6. ASSUME NEW t \in Tabs, PullWrite(t) PROVE Done
      <3>1. CASE /\ \E pull \in {"refused", "failed"} : Set(t, [tab[t] EXCEPT !.pull = pull])
                 /\ UNCHANGED <<disk, history>>
        <4>1. PICK pull \in {"refused", "failed"} : tab' = [tab EXCEPT ![t] = [tab[t] EXCEPT !.pull = pull]]
          BY <3>1 DEF Set
        <4>2. Knows([tab[t] EXCEPT !.pull = pull]) = Knows(tab[t])
          BY <2>6, <4>1, PullingSteps
        <4>3. disk' = disk /\ durable' = durable
          BY <3>1 DEF history
        <4> QED BY <2>2, <4>1, <4>2, <4>3
      <3>2. ASSUME NEW d, d = [disk EXCEPT
                     !.ckpt = [id |-> tab[t].pullGen, gen |-> 0, edits |-> tab[t].pulled],
                     !.head = NoHead, !.gen = tab[t].pullGen,
                     !.bad = @ \ ({"checkpoint", "head"} \X {0})],
                   disk.gen = tab[t].pullExp,
                   Announce(t, d, [tab[t] EXCEPT !.pull = "written"])
            PROVE  Done
        <4>1. disk' = d
          BY <3>2 DEF Announce
        <4>2. disk'.gen = tab[t].pullGen
          BY <3>2, <4>1 DEF Inv, TypeOK, Disk
        <4>3. Announce(t, disk', [tab[t] EXCEPT !.pull = "written"])
          BY <3>2, <4>1
        <4> QED BY <2>6, <3>2, <4>2, <4>3, PullWrites
      <3>3. \/ /\ disk.gen = tab[t].pullExp
               /\ Announce(t, [disk EXCEPT
                     !.ckpt = [id |-> tab[t].pullGen, gen |-> 0, edits |-> tab[t].pulled],
                     !.head = NoHead, !.gen = tab[t].pullGen,
                     !.bad = @ \ ({"checkpoint", "head"} \X {0})],
                   [tab[t] EXCEPT !.pull = "written"])
            \/ /\ \E pull \in {"refused", "failed"} : Set(t, [tab[t] EXCEPT !.pull = pull])
               /\ UNCHANGED <<disk, history>>
        BY <2>6 DEF PullWrite
      <3> QED BY <3>1, <3>2, <3>3
    <2>7. ASSUME NEW t \in Tabs, Repair(t) PROVE Done
      BY <2>7, RepairWrites
    <2>8. ASSUME Damage PROVE Done
      <3>1. disk'.gen = disk.gen /\ tab' = tab /\ durable' = durable
        BY <2>8 DEF Damage, Inv, TypeOK, Disk
      <3> QED BY <3>1
    <2>9. ASSUME UNCHANGED vars PROVE Done
      BY <2>9 DEF vars, history
    <2> HIDE DEF Done
    <2>10. Done
      BY <2>1, <2>3, <2>4, <2>5, <2>6, <2>7, <2>8, <2>9 DEF Next
    <2> QED BY <2>10 DEF Done
  <1>3. Inv /\ Inv' /\ [Next]_vars
          => [Register!Next]_<<disk.gen, [t \in Tabs |-> Knows(tab[t])], durable>>
    BY <1>2
  <1>4. Spec => Register!Init /\ [][Register!Next]_<<disk.gen, [t \in Tabs |-> Knows(tab[t])], durable>>
    BY <1>1, <1>3, Invariance, PTL DEF Spec
  <1> QED BY <1>4, PTL DEF ImplementsRegister, Register!Spec
=============================================================================
