------------------------- MODULE Embeddings_proofs -------------------------
(***************************************************************************)
(* Proofs about Embeddings: the type invariant, and that a row marked as   *)
(* embedded has the vector of its text, of the name:dimension on record.   *)
(***************************************************************************)
EXTENDS Embeddings, TLAPS

USE DEF Ids

(***************************************************************************)
(* Rows under the updates of embed_state                                   *)
(***************************************************************************)
\* Setting embed_state makes a row of a row and leaves its text alone.
LEMMA Marking ==
    ASSUME NEW r \in RowType, NEW s \in {0, 2, 3}
    PROVE  LET q == [r EXCEPT !.embed = s]
           IN  /\ q \in RowType
               /\ q.embed = s /\ q.text = r.text /\ q.short = r.short
               /\ q.attached = r.attached /\ q.extract = r.extract
    BY DEF RowType

LEMMA Extracting ==
    ASSUME NEW r \in RowType, NEW x \in {0, 2, 3}
    PROVE  LET q == [r EXCEPT !.extract = x]
           IN  q \in RowType /\ q.embed = r.embed /\ q.text = r.text /\ q.short = r.short
    BY DEF RowType

\* A place that holds a row.
LEMMA RowsAreRows ==
    ASSUME TypeOK, NEW id \in Ids
    PROVE  /\ id \in Rows <=> emails[id] # None
           /\ id \in Rows => emails[id] \in RowType
           /\ None \notin RowType
    BY EmbeddingsAssumption DEF TypeOK, Rows

\* The first batch of a backfill is one.
LEMMA ZeroBatches == 0 \in 0..(MAX_BATCHES - 1)
<1>1. MAX_BATCHES \in Nat \ {0}
  BY EmbeddingsAssumption
<1>2. QED
  BY <1>1

\* Row q is what became of row r: there as before, with its text and its
\* length, and marked as embedded only if r was.
Kept(q, r) ==
    /\ q = None <=> r = None
    /\ r # None => /\ q.text = r.text /\ q.short = r.short
                   /\ q.embed = 2 => r.embed = 2

\* What a commit of the transaction left open does to the rows.
LEMMA CommitKeeps ==
    ASSUME TypeOK
    PROVE  /\ Committed \in [Ids -> RowType \cup {None}]
           /\ \A id \in Ids : Kept(Committed[id], emails[id])
<1>1. ASSUME NEW id \in Ids
      PROVE  /\ Committed[id] \in RowType \cup {None}
             /\ Kept(Committed[id], emails[id])
  <2>1. CASE id \in open
    <3>1. emails[id] \in RowType /\ None \notin RowType
      BY <2>1, RowsAreRows DEF TypeOK
    <3>2. PICK r \in RowType : r = emails[id]
      BY <3>1
    <3>3. PICK q \in RowType : q = [r EXCEPT !.embed = 3]
      BY Marking
    <3>4. q.embed = 3 /\ q.text = r.text /\ q.short = r.short
      BY <3>3 DEF RowType
    <3>5. Committed[id] = q
      BY <2>1, <3>2, <3>3 DEF Committed
    <3>6. QED
      BY <3>1, <3>2, <3>4, <3>5 DEF Kept
  <2>2. CASE id \notin open
    BY <2>2 DEF Committed, Kept, TypeOK
  <2>3. QED
    BY <2>1, <2>2
<1>2. Committed = [id \in Ids |-> Committed[id]]
  BY DEF Committed
<1>3. QED
  BY <1>1, <1>2

-----------------------------------------------------------------------------
(***************************************************************************)
(* The type invariant                                                      *)
(***************************************************************************)
LEMMA InitType == Init => TypeOK
<1>1. SUFFICES ASSUME Init PROVE TypeOK
  OBVIOUS
<1>2. batches \in 0..(MAX_BATCHES - 1)
  BY <1>1, ZeroBatches DEF Init
<1>3. changes \in 0..MaxChanges /\ restarts \in 0..MaxRestarts /\ fails \in 0..MaxFails
  BY <1>1, EmbeddingsAssumption DEF Init
<1>4. QED
  BY <1>1, <1>2, <1>3, EmbeddingsAssumption DEF Init, TypeOK, Rows

\* The rows another process or the build of the watcher writes.
LEMMA WriteType ==
    ASSUME TypeOK
    PROVE  /\ \A id \in Ids, short, attached \in BOOLEAN : Upsert(id, short, attached) => TypeOK'
           /\ \A id \in Ids : Delete(id) => TypeOK'
<1>1. ASSUME NEW id \in Ids, NEW short \in BOOLEAN, NEW attached \in BOOLEAN,
             Upsert(id, short, attached)
      PROVE  TypeOK'
  <2> DEFINE x == IF emails[id] = None THEN 0 ELSE emails[id].extract
             new == [text |-> changes + 1, short |-> short, attached |-> attached,
                     embed |-> EmbedAfter(id), extract |-> x]
  <2>1. x \in {0, 2, 3}
    BY RowsAreRows DEF RowType
  <2>2. changes + 1 \in 1..MaxChanges
    BY <1>1, EmbeddingsAssumption DEF Upsert, TypeOK
  <2>3. new \in RowType
    BY <2>1, <2>2 DEF RowType, EmbedAfter
  <2>4. emails' = [Committed EXCEPT ![id] = new]
    BY <1>1 DEF Upsert
  <2>5. emails' \in [Ids -> RowType \cup {None}]
    BY <2>3, <2>4, CommitKeeps
  <2>6. open' = {} /\ overtaken' \subseteq Ids
    BY <1>1 DEF Upsert, StillOpen, Overtakes, TypeOK
  <2>7. changes' \in 0..MaxChanges
    BY <1>1, EmbeddingsAssumption DEF Upsert, TypeOK
  <2>8. QED
    BY <1>1, <2>5, <2>6, <2>7 DEF Upsert, TypeOK
<1>2. ASSUME NEW id \in Ids, Delete(id)
      PROVE  TypeOK'
  <2>1. emails' \in [Ids -> RowType \cup {None}]
    BY <1>2, CommitKeeps DEF Delete
  <2>2. open' = {} /\ overtaken' \subseteq Ids
    BY <1>2 DEF Delete, StillOpen, Overtakes, TypeOK
  <2>3. changes' \in 0..MaxChanges
    BY <1>2, EmbeddingsAssumption DEF Delete, TypeOK
  <2>4. QED
    BY <1>2, <2>1, <2>2, <2>3 DEF Delete, TypeOK
<1>3. QED
  BY <1>1, <1>2

LEMMA TickType == TypeOK /\ Tick => TypeOK'
<1>1. SUFFICES ASSUME TypeOK, Tick PROVE TypeOK'
  OBVIOUS
<1>2. emails' \in [Ids -> RowType \cup {None}]
  BY <1>1, CommitKeeps DEF Tick
<1>3. QED
  BY <1>1, <1>2 DEF Tick, TypeOK, StillOpen, counters

\* The rows a switch of models resets stay where they are.
LEMMA ResetKeeps ==
    ASSUME TypeOK, SyncReset
    PROVE  /\ emails' \in [Ids -> RowType \cup {None}]
           /\ \A id \in Ids : Kept(emails'[id], emails[id])
           /\ \A id \in Ids : emails'[id] # None => emails'[id].embed # 2
<1>1. ASSUME NEW id \in Ids
      PROVE  /\ emails'[id] \in RowType \cup {None}
             /\ Kept(emails'[id], emails[id])
             /\ emails'[id] # None => emails'[id].embed # 2
  <2>1. CASE id \in Rows /\ emails[id].embed = 2
    <3>1. emails'[id] = [emails[id] EXCEPT !.embed = 0]
      BY <2>1 DEF SyncReset
    <3>2. PICK r \in RowType : r = emails[id]
      BY <2>1, RowsAreRows
    <3>3. PICK q \in RowType : q = [r EXCEPT !.embed = 0]
      BY Marking
    <3>4. q.embed = 0 /\ q.text = r.text /\ q.short = r.short
      BY <3>3 DEF RowType
    <3>5. QED
      BY <3>1, <3>2, <3>3, <3>4, RowsAreRows DEF Kept
  <2>2. CASE ~(id \in Rows /\ emails[id].embed = 2)
    <3>1. emails'[id] = emails[id]
      BY <2>2 DEF SyncReset
    <3>2. QED
      BY <2>2, <3>1, RowsAreRows DEF Kept
  <2>3. QED
    BY <2>1, <2>2
<1>2. emails' = [id \in Ids |-> emails'[id]]
  BY DEF SyncReset
<1>3. QED
  BY <1>1, <1>2

LEMMA SyncType == TypeOK /\ (SyncDrop \/ SyncReset \/ SyncEnsure \/ SyncRecord) => TypeOK'
<1>1. ASSUME TypeOK, SyncDrop PROVE TypeOK'
  <2>1. vec' \in [Ids -> VecType \cup {None}]
    BY <1>1 DEF SyncDrop, TypeOK
  <2>2. QED
    BY <1>1, <2>1 DEF SyncDrop, TypeOK, Rows, counters
<1>2. ASSUME TypeOK, SyncReset PROVE TypeOK'
  <2>1. open' \subseteq Rows'
    BY <1>2, ResetKeeps DEF SyncReset, TypeOK, Rows, Kept
  <2>2. QED
    BY <1>2, <2>1, ResetKeeps DEF SyncReset, TypeOK, counters
<1>3. ASSUME TypeOK, SyncEnsure PROVE TypeOK'
  BY <1>3 DEF SyncEnsure, TypeOK, Rows, Records, counters
<1>4. ASSUME TypeOK, SyncRecord PROVE TypeOK'
  <2>1. batches' \in 0..(MAX_BATCHES - 1)
    BY <1>4, ZeroBatches DEF SyncRecord
  <2>2. QED
    BY <1>4, <2>1 DEF SyncRecord, TypeOK, Rows, Records, counters
<1>5. QED
  BY <1>1, <1>2, <1>3, <1>4

\* What is selected is rows, as they are.
LEMMA HandIsTyped ==
    ASSUME TypeOK, NEW some \in SUBSET Rows
    PROVE  InHand(some) \subseteq [id : Ids, text : 1..MaxChanges, short : BOOLEAN]
<1>1. ASSUME NEW id \in some
      PROVE  [id |-> id, text |-> emails[id].text, short |-> emails[id].short]
               \in [id : Ids, text : 1..MaxChanges, short : BOOLEAN]
  BY RowsAreRows DEF RowType, Rows
<1>2. QED
  BY <1>1 DEF InHand

LEMMA SelectType == TypeOK /\ (Select \/ ExtractSelect) => TypeOK'
<1>1. ASSUME TypeOK, Select PROVE TypeOK'
  <2>1. PICK some \in SUBSET Rows : /\ hand' = InHand(some)
                                    /\ pc' = IF some = {} THEN "extract" ELSE "mark"
    BY <1>1 DEF Select
  <2>2. batches' \in 0..(MAX_BATCHES - 1)
    BY <1>1, ZeroBatches DEF Select, TypeOK
  <2>3. QED
    BY <1>1, <2>1, <2>2, HandIsTyped DEF Select, TypeOK, Rows, counters
<1>2. ASSUME TypeOK, ExtractSelect PROVE TypeOK'
  <2>1. PICK some \in SUBSET Rows : /\ hand' = InHand(some)
                                    /\ pc' = IF some = {} THEN "build" ELSE "parsed"
    BY <1>2 DEF ExtractSelect
  <2>2. QED
    BY <1>2, <2>1, HandIsTyped DEF ExtractSelect, TypeOK, Rows, counters
<1>3. QED
  BY <1>1, <1>2

LEMMA StoreType == TypeOK /\ (MarkShort \/ Store \/ EmbedFails) => TypeOK'
<1>1. ASSUME TypeOK, MarkShort PROVE TypeOK'
  BY <1>1 DEF MarkShort, TooShort, TypeOK, Rows, counters
<1>2. ASSUME TypeOK, Store PROVE TypeOK'
  <2>1. ASSUME NEW id \in Ids
        PROVE  emails'[id] \in RowType \cup {None}
    <3>1. CASE id \in Rows
      <4>1. EmbedState(id) \in {0, 2, 3}
        BY <1>2, <3>1, RowsAreRows DEF EmbedState, RowType
      <4>2. PICK r \in RowType : r = emails[id]
        BY <1>2, <3>1, RowsAreRows
      <4>3. PICK s \in {0, 2, 3} : s = EmbedState(id)
        BY <4>1
      <4>4. emails'[id] = [r EXCEPT !.embed = s]
        BY <1>2, <3>1, <4>2, <4>3 DEF Store
      <4>5. QED
        BY <4>4, Marking
    <3>2. CASE id \notin Rows
      BY <1>2, <3>2 DEF Store
    <3>3. QED
      BY <3>1, <3>2
  <2>2. emails' \in [Ids -> RowType \cup {None}]
    BY <1>2, <2>1 DEF Store
  <2>3. ASSUME NEW id \in Ids
        PROVE  vec'[id] \in VecType \cup {None}
    <3>1. CASE \E r \in hand : r.id = id /\ ~r.short
      <4>1. PICK r \in hand : r = (CHOOSE s \in hand : s.id = id)
        BY <3>1
      <4>2. vec'[id] = [text |-> r.text, by |-> backend]
        BY <1>2, <3>1, <4>1 DEF Store
      <4>3. QED
        BY <1>2, <4>2 DEF TypeOK, VecType
    <3>2. CASE ~\E r \in hand : r.id = id /\ ~r.short
      <4>1. vec'[id] = vec[id]
        BY <1>2, <3>2 DEF Store
      <4>2. QED
        BY <1>2, <4>1 DEF TypeOK
    <3>3. QED
      BY <3>1, <3>2
  <2>4. vec' \in [Ids -> VecType \cup {None}]
    BY <1>2, <2>3 DEF Store
  <2>5. batches' \in 0..(MAX_BATCHES - 1) /\ pc' \in {"select", "extract"}
    BY <1>2, ZeroBatches, EmbeddingsAssumption DEF Store, TypeOK, GoesOn
  <2>6. open' = {} /\ hand' = {} /\ UNCHANGED <<table, recorded, backend, overtaken>>
        /\ UNCHANGED <<changes, restarts, fails>>
    BY <1>2 DEF Store, counters
  <2>7. QED
    BY <1>2, <2>2, <2>4, <2>5, <2>6 DEF TypeOK
<1>3. ASSUME TypeOK, EmbedFails PROVE TypeOK'
  <2>1. batches' \in 0..(MAX_BATCHES - 1)
    BY <1>3, ZeroBatches DEF EmbedFails
  <2>2. fails' \in 0..MaxFails
    BY <1>3, EmbeddingsAssumption DEF EmbedFails, TypeOK
  <2>3. QED
    BY <1>3, <2>1, <2>2 DEF EmbedFails, TypeOK, Rows
<1>4. QED
  BY <1>1, <1>2, <1>3

\* What the text of attachments is stored with leaves text and length alone
\* and marks no row as embedded.
LEMMA ExtractKeeps ==
    ASSUME TypeOK, ExtractStore
    PROVE  /\ emails' \in [Ids -> RowType \cup {None}]
           /\ \A id \in Ids : Kept(emails'[id], emails[id])
<1>1. PICK readable \in SUBSET {r.id : r \in hand} :
          emails' = [id \in Ids |->
              IF id \notin Rows THEN None
              ELSE [emails[id] EXCEPT
                      !.embed = IF id \in open THEN 3 ELSE @,
                      !.extract = IF id \in readable THEN 2
                                  ELSE IF \E r \in hand : r.id = id THEN 3 ELSE @]]
  BY DEF ExtractStore
<1>2. ASSUME NEW id \in Ids
      PROVE  emails'[id] \in RowType \cup {None} /\ Kept(emails'[id], emails[id])
  <2>1. CASE id \notin Rows
    BY <1>1, <2>1, RowsAreRows DEF Kept
  <2>2. CASE id \in Rows
    <3>1. PICK r \in RowType : r = emails[id]
      BY <2>2, RowsAreRows
    <3>2. PICK s \in {0, 2, 3} : s = IF id \in open THEN 3 ELSE r.embed
      BY DEF RowType
    <3>3. PICK x \in {0, 2, 3} :
              x = IF id \in readable THEN 2
                  ELSE IF \E h \in hand : h.id = id THEN 3 ELSE r.extract
      BY DEF RowType
    <3>4. PICK p \in RowType : p = [r EXCEPT !.embed = s]
      BY Marking
    <3>5. PICK q \in RowType : q = [p EXCEPT !.extract = x]
      BY Extracting
    <3>6. /\ p.embed = s /\ p.text = r.text /\ p.short = r.short
          /\ q.embed = p.embed /\ q.text = p.text /\ q.short = p.short
      BY <3>4, <3>5 DEF RowType
    <3>7. emails'[id] = [emails[id] EXCEPT
                      !.embed = IF id \in open THEN 3 ELSE emails[id].embed,
                      !.extract = IF id \in readable THEN 2
                                  ELSE IF \E h \in hand : h.id = id THEN 3 ELSE emails[id].extract]
      BY <1>1, <2>2, Zenon
    <3>8. emails'[id] = q
      BY <3>7, <3>1, <3>2, <3>3, <3>4, <3>5, Zenon
    <3>9. QED
      BY <3>1, <3>2, <3>6, <3>8, RowsAreRows DEF Kept
  <2>3. QED
    BY <2>1, <2>2
<1>3. emails' = [id \in Ids |-> emails'[id]]
  BY <1>1
<1>4. QED
  BY <1>2, <1>3

LEMMA RestType == TypeOK /\ (ExtractStore \/ Restart) => TypeOK'
<1>1. ASSUME TypeOK, ExtractStore PROVE TypeOK'
  <2>1. batches' \in 0..(MAX_BATCHES - 1) /\ pc' \in {"extract", "build"}
    <3>1. \/ GoesOn /\ pc' = "extract" /\ batches' = batches + 1
          \/ pc' = "build" /\ batches' = 0
      BY <1>1 DEF ExtractStore
    <3>2. MAX_BATCHES \in Nat /\ batches \in 0..(MAX_BATCHES - 1)
      BY <1>1, EmbeddingsAssumption DEF TypeOK
    <3>3. GoesOn => batches + 1 \in 0..(MAX_BATCHES - 1)
      BY <3>2 DEF GoesOn
    <3>4. QED
      BY <3>1, <3>3, ZeroBatches
  <2>2. open' = {} /\ hand' = {} /\ UNCHANGED <<table, vec, recorded, backend, overtaken>>
        /\ UNCHANGED <<changes, restarts, fails>>
    BY <1>1 DEF ExtractStore, counters
  <2>3. QED
    BY <1>1, <2>1, <2>2, ExtractKeeps DEF TypeOK
<1>2. ASSUME TypeOK, Restart PROVE TypeOK'
  <2>1. restarts' \in 0..MaxRestarts
    BY <1>2, EmbeddingsAssumption DEF Restart, TypeOK
  <2>2. batches' \in 0..(MAX_BATCHES - 1)
    BY <1>2, ZeroBatches DEF Restart
  <2>3. QED
    BY <1>2, <2>1, <2>2 DEF Restart, TypeOK, Rows
<1>3. QED
  BY <1>1, <1>2

\* Every step of Embeddings keeps the types.
LEMMA StepType == TypeOK /\ [Next]_vars => TypeOK'
<1>1. CASE UNCHANGED vars
  BY <1>1 DEF vars, TypeOK, Rows
<1>2. QED
  BY <1>1, WriteType, TickType, SyncType, SelectType, StoreType, RestType DEF Next, Backfill

\* The tables, the open transaction and the rows in hand keep their shapes
\* through builds, backfills, switches of models and restarts.
THEOREM TypeCorrect == Spec => []TypeOK
<1>1. QED
  BY InitType, StepType, PTL DEF Spec

-----------------------------------------------------------------------------
(***************************************************************************)
(* A row marked as embedded has its vector                                 *)
(***************************************************************************)
NoneEmbedded == \A id \in Rows : emails[id].embed # 2

\* What the watcher has in hand is what the rows say, one entry a row, unless
\* another process wrote the row since.
HandCurrent ==
    /\ \A r, s \in hand : r.id = s.id => r = s
    /\ \A r \in hand : r.id \notin overtaken =>
          /\ emails[r.id] # None
          /\ emails[r.id].text = r.text /\ emails[r.id].short = r.short

\* Rows are embedded by a model of the record; until there is one no row is
\* marked, and none is while the table is made for another record.
SwitchOrdered ==
    /\ pc \in {"select", "mark", "store", "extract", "parsed"} => recorded = Record[backend]
    /\ recorded = None => NoneEmbedded
    /\ pc \in {"ensure", "record"} => recorded = Record[backend] \/ NoneEmbedded

EmbedInv == TypeOK /\ HandCurrent /\ SwitchOrdered /\ DoneMeansCurrent

\* The change of model is not taken back before it is through.
NoReverts == ~Reverts

LEMMA InitEmbed == Init => EmbedInv
  BY InitType DEF Init, EmbedInv, HandCurrent, SwitchOrdered, NoneEmbedded, DoneMeansCurrent, Rows

\* A step that keeps every row, takes nothing new in hand and leaves vectors
\* and models alone.
LEMMA QuietStep ==
    ASSUME EmbedInv, \A id \in Ids : Kept(emails'[id], emails[id]),
           hand' \subseteq hand, UNCHANGED <<table, vec, recorded, backend, overtaken>>
    PROVE  HandCurrent' /\ DoneMeansCurrent' /\ (NoneEmbedded => NoneEmbedded')
<1>1. Rows' = Rows /\ \A r \in hand : r.id \in Ids
  BY DEF Rows, Kept, EmbedInv, TypeOK
<1>2. HandCurrent'
  BY <1>1 DEF EmbedInv, HandCurrent, Kept
<1>3. DoneMeansCurrent'
  BY <1>1 DEF EmbedInv, DoneMeansCurrent, Rows, Kept
<1>4. NoneEmbedded => NoneEmbedded'
  BY <1>1 DEF NoneEmbedded, Rows, Kept
<1>5. QED
  BY <1>2, <1>3, <1>4

\* Row id is written or deleted, the others are kept.
LEMMA WriteStep ==
    ASSUME EmbedInv, NEW id \in Ids, Overtakes(id),
           \A other \in Ids \ {id} : Kept(emails'[other], emails[other]),
           emails'[id] # None => emails'[id].embed # 2,
           UNCHANGED <<table, vec, recorded, backend, pc, hand>>
    PROVE  HandCurrent' /\ SwitchOrdered' /\ DoneMeansCurrent'
<1>1. \A r \in hand : r.id \in Ids
  BY DEF EmbedInv, TypeOK
<1>2. ASSUME NEW r \in hand, r.id \notin overtaken'
      PROVE  r.id # id /\ r.id \notin overtaken
  BY <1>2 DEF Overtakes
<1>3. HandCurrent'
  BY <1>1, <1>2 DEF EmbedInv, HandCurrent, Kept
<1>4. ASSUME NEW other \in Rows', emails'[other].embed = 2
      PROVE  other # id /\ other \in Rows /\ emails[other].embed = 2
             /\ emails'[other].text = emails[other].text
  BY <1>4 DEF Rows, Kept
<1>5. NoneEmbedded => NoneEmbedded'
  BY <1>4 DEF NoneEmbedded
<1>6. SwitchOrdered'
  BY <1>5 DEF EmbedInv, SwitchOrdered
<1>7. ASSUME NEW other \in Rows' \ overtaken', emails'[other].embed = 2
      PROVE  \/ /\ vec'[other] # None
                /\ vec'[other].text = emails'[other].text /\ Record[vec'[other].by] = recorded'
             \/ table' = None /\ recorded' # Record[backend']
  <2>1. other \in Rows \ overtaken
    BY <1>4, <1>7 DEF Overtakes
  <2>2. QED
    BY <1>4, <1>7, <2>1 DEF EmbedInv, DoneMeansCurrent
<1>8. DoneMeansCurrent'
  BY <1>7 DEF DoneMeansCurrent
<1>9. QED
  BY <1>3, <1>6, <1>8

LEMMA WritersEmbed ==
    ASSUME EmbedInv
    PROVE  /\ \A id \in Ids, short, attached \in BOOLEAN : Upsert(id, short, attached) => EmbedInv'
           /\ \A id \in Ids : Delete(id) => EmbedInv'
<1>1. ASSUME NEW id \in Ids, NEW short \in BOOLEAN, NEW attached \in BOOLEAN,
             Upsert(id, short, attached)
      PROVE  EmbedInv'
  <2>1. TypeOK'
    BY <1>1, WriteType DEF EmbedInv
  <2>2. Committed \in [Ids -> RowType \cup {None}]
        /\ \A other \in Ids : Kept(Committed[other], emails[other])
    BY CommitKeeps DEF EmbedInv
  <2>3. \A other \in Ids \ {id} : Kept(emails'[other], emails[other])
    BY <1>1, <2>2 DEF Upsert
  <2>4. emails'[id].embed = 0
    BY <1>1, <2>2 DEF Upsert, EmbedAfter
  <2>5. Overtakes(id) /\ UNCHANGED <<table, vec, recorded, backend, pc, hand>>
    BY <1>1 DEF Upsert
  <2>6. QED
    BY <2>1, <2>3, <2>4, <2>5, WriteStep DEF EmbedInv
<1>2. ASSUME NEW id \in Ids, Delete(id)
      PROVE  EmbedInv'
  <2>1. TypeOK'
    BY <1>2, WriteType DEF EmbedInv
  <2>2. Committed \in [Ids -> RowType \cup {None}]
        /\ \A other \in Ids : Kept(Committed[other], emails[other])
    BY CommitKeeps DEF EmbedInv
  <2>3. \A other \in Ids \ {id} : Kept(emails'[other], emails[other])
    BY <1>2, <2>2 DEF Delete
  <2>4. emails'[id] = None
    BY <1>2, <2>2 DEF Delete
  <2>5. Overtakes(id) /\ UNCHANGED <<table, vec, recorded, backend, pc, hand>>
    BY <1>2 DEF Delete
  <2>6. QED
    BY <2>1, <2>3, <2>4, <2>5, WriteStep DEF EmbedInv
<1>3. QED
  BY <1>1, <1>2

\* Steps that keep the rows as they are.
LEMMA SameRows == \A id \in Ids : Kept(emails[id], emails[id])
  BY DEF Kept

LEMMA QuietSteps ==
    ASSUME EmbedInv, Tick \/ SyncReset \/ MarkShort \/ EmbedFails \/ ExtractStore
    PROVE  EmbedInv'
<1> USE DEF EmbedInv
<1>1. CASE Tick
  <2>1. \A id \in Ids : Kept(emails'[id], emails[id])
    BY <1>1, CommitKeeps DEF Tick
  <2>2. HandCurrent' /\ DoneMeansCurrent' /\ (NoneEmbedded => NoneEmbedded')
    BY <1>1, <2>1, QuietStep DEF Tick
  <2>3. SwitchOrdered'
    BY <1>1, <2>2 DEF Tick, SwitchOrdered
  <2>4. QED
    BY <1>1, <2>2, <2>3, TickType
<1>2. CASE SyncReset
  <2>1. \A id \in Ids : Kept(emails'[id], emails[id])
    BY <1>2, ResetKeeps
  <2>2. HandCurrent' /\ DoneMeansCurrent'
    BY <1>2, <2>1, QuietStep DEF SyncReset
  <2>3. NoneEmbedded'
    BY <1>2, ResetKeeps DEF NoneEmbedded, Rows
  <2>4. SwitchOrdered'
    BY <1>2, <2>3 DEF SyncReset, SwitchOrdered
  <2>5. QED
    BY <1>2, <2>2, <2>4, SyncType
<1>3. CASE MarkShort
  <2>1. HandCurrent' /\ DoneMeansCurrent' /\ (NoneEmbedded => NoneEmbedded')
    BY <1>3, SameRows, QuietStep DEF MarkShort
  <2>2. SwitchOrdered'
    BY <1>3, <2>1 DEF MarkShort, SwitchOrdered
  <2>3. QED
    BY <1>3, <2>1, <2>2, StoreType
<1>4. CASE EmbedFails
  <2>1. HandCurrent' /\ DoneMeansCurrent' /\ (NoneEmbedded => NoneEmbedded')
    BY <1>4, SameRows, QuietStep DEF EmbedFails
  <2>2. SwitchOrdered'
    BY <1>4, <2>1 DEF EmbedFails, SwitchOrdered
  <2>3. QED
    BY <1>4, <2>1, <2>2, StoreType
<1>5. CASE ExtractStore
  <2>1. \A id \in Ids : Kept(emails'[id], emails[id])
    BY <1>5, ExtractKeeps
  <2>2. /\ hand' = {} /\ UNCHANGED <<table, vec, recorded, backend, overtaken>>
        /\ pc = "parsed" /\ pc' \in {"extract", "build"}
    BY <1>5 DEF ExtractStore
  <2>3. HandCurrent' /\ DoneMeansCurrent' /\ (NoneEmbedded => NoneEmbedded')
    BY <2>1, <2>2, QuietStep
  <2>4. SwitchOrdered'
    BY <2>2, <2>3 DEF SwitchOrdered
  <2>5. QED
    BY <1>5, <2>3, <2>4, RestType
<1>6. QED
  BY <1>1, <1>2, <1>3, <1>4, <1>5

\* The steps of a switch of models but the reset of the rows.
LEMMA SwitchSteps ==
    ASSUME EmbedInv, SyncDrop \/ SyncEnsure \/ SyncRecord
    PROVE  EmbedInv'
<1> USE DEF EmbedInv
<1>1. CASE SyncDrop
  <2>1. HandCurrent'
    BY <1>1 DEF SyncDrop, HandCurrent
  <2>2. SwitchOrdered'
    BY <1>1 DEF SyncDrop, SwitchOrdered, NoneEmbedded, Rows
  <2>3. DoneMeansCurrent'
    BY <1>1 DEF SyncDrop, DoneMeansCurrent, Rows
  <2>4. QED
    BY <1>1, <2>1, <2>2, <2>3, SyncType
<1>2. CASE SyncEnsure
  <2>1. HandCurrent'
    BY <1>2 DEF SyncEnsure, HandCurrent
  <2>2. SwitchOrdered'
    BY <1>2 DEF SyncEnsure, SwitchOrdered, NoneEmbedded, Rows
  <2>3. DoneMeansCurrent'
    BY <1>2 DEF SyncEnsure, DoneMeansCurrent, SwitchOrdered, NoneEmbedded, Rows
  <2>4. QED
    BY <1>2, <2>1, <2>2, <2>3, SyncType
<1>3. CASE SyncRecord
  <2>1. HandCurrent'
    BY <1>3 DEF SyncRecord, HandCurrent
  <2>2. Record[backend] # None
    BY EmbeddingsAssumption DEF TypeOK, Records
  <2>3. SwitchOrdered'
    BY <1>3, <2>2 DEF SyncRecord, SwitchOrdered, NoneEmbedded, Rows
  <2>4. DoneMeansCurrent'
    BY <1>3 DEF SyncRecord, DoneMeansCurrent, SwitchOrdered, NoneEmbedded, Rows
  <2>5. QED
    BY <1>3, <2>1, <2>3, <2>4, SyncType
<1>4. QED
  BY <1>1, <1>2, <1>3

\* What is taken in hand is the rows as they are.
LEMMA HandIsCurrent ==
    ASSUME NEW some \in SUBSET Rows, hand' = InHand(some), UNCHANGED <<emails, overtaken>>
    PROVE  HandCurrent'
<1>1. ASSUME NEW r \in hand'
      PROVE  r.id \in Rows /\ r = [id |-> r.id, text |-> emails[r.id].text,
                                    short |-> emails[r.id].short]
  BY DEF InHand
<1>2. QED
  BY <1>1 DEF HandCurrent, Rows

LEMMA SelectSteps ==
    ASSUME EmbedInv, Select \/ ExtractSelect
    PROVE  EmbedInv'
<1>1. HandCurrent'
  BY HandIsCurrent DEF Select, ExtractSelect
<1>2. UNCHANGED <<emails, table, vec, recorded, backend, overtaken>>
  BY DEF Select, ExtractSelect
<1>3. pc \in {"select", "extract"}
  BY DEF Select, ExtractSelect
<1>4. SwitchOrdered'
  <2>1. recorded = Record[backend] /\ recorded # None
    BY <1>3, EmbeddingsAssumption DEF EmbedInv, SwitchOrdered, TypeOK, Records
  <2>2. QED
    BY <1>2, <2>1 DEF SwitchOrdered
<1>5. DoneMeansCurrent'
  BY <1>2 DEF EmbedInv, DoneMeansCurrent, Rows
<1>6. QED
  BY <1>1, <1>4, <1>5, SelectType DEF EmbedInv

\* Vectors are stored with the marks, by a model of the record.
LEMMA StoreStep == ASSUME EmbedInv, Store PROVE EmbedInv'
<1>1. /\ recorded = Record[backend] /\ recorded # None
      /\ hand' = {} /\ UNCHANGED <<table, recorded, backend, overtaken>>
  BY EmbeddingsAssumption DEF Store, EmbedInv, SwitchOrdered, TypeOK, Records
<1>2. HandCurrent' /\ SwitchOrdered'
  BY <1>1 DEF HandCurrent, SwitchOrdered
<1>3. ASSUME NEW id \in Rows' \ overtaken', emails'[id].embed = 2
      PROVE  \/ /\ vec'[id] # None
                /\ vec'[id].text = emails'[id].text /\ Record[vec'[id].by] = recorded'
             \/ table' = None /\ recorded' # Record[backend']
  <2>1. id \in Rows /\ id \in Ids /\ id \notin overtaken
    BY <1>1, <1>3 DEF Rows, Store
  <2>2. PICK r \in RowType : r = emails[id]
    BY <2>1, RowsAreRows DEF EmbedInv
  <2>3. PICK s \in {0, 2, 3} : s = EmbedState(id)
    BY <2>1, <2>2 DEF EmbedState, RowType
  <2>4. emails'[id] = [r EXCEPT !.embed = s]
    BY <2>1, <2>2, <2>3 DEF Store
  <2>5. s = 2 /\ emails'[id].text = emails[id].text
    BY <1>3, <2>2, <2>4, Marking
  <2>6. CASE \E h \in hand : h.id = id /\ ~h.short
    <3>1. PICK h \in hand : h.id = id /\ h.text = emails[id].text
      BY <2>1, <2>6 DEF EmbedInv, HandCurrent
    <3>2. (CHOOSE g \in hand : g.id = id) = h
      BY <3>1 DEF EmbedInv, HandCurrent
    <3>3. vec'[id] = [text |-> h.text, by |-> backend]
      BY <2>1, <2>6, <3>2 DEF Store
    <3>4. vec'[id] # None
      BY <3>1, <3>3, EmbeddingsAssumption DEF EmbedInv, TypeOK, VecType
    <3>5. QED
      BY <1>1, <2>5, <3>1, <3>3, <3>4
  <2>7. CASE ~\E h \in hand : h.id = id /\ ~h.short
    <3>1. emails[id].embed = 2
      BY <2>3, <2>5, <2>7 DEF EmbedState
    <3>2. vec'[id] = vec[id]
      BY <2>1, <2>7 DEF Store
    <3>3. QED
      BY <1>1, <2>1, <2>5, <3>1, <3>2 DEF EmbedInv, DoneMeansCurrent
  <2>8. QED
    BY <2>6, <2>7
<1>4. DoneMeansCurrent'
  BY <1>3 DEF DoneMeansCurrent
<1>5. QED
  BY <1>2, <1>4, StoreType DEF EmbedInv

\* A restart may change the model only when no switch is under way.
LEMMA RestartStep == ASSUME EmbedInv, NoReverts, Restart PROVE EmbedInv'
<1>1. /\ hand' = {} /\ pc' = "build" /\ UNCHANGED <<emails, table, vec, recorded, overtaken>>
      /\ SwitchDone \/ UNCHANGED backend
  BY DEF Restart, NoReverts
<1>2. HandCurrent' /\ SwitchOrdered'
  BY <1>1 DEF HandCurrent, SwitchOrdered, NoneEmbedded, Rows, EmbedInv
<1>3. DoneMeansCurrent'
  BY <1>1 DEF EmbedInv, DoneMeansCurrent, SwitchOrdered, NoneEmbedded, SwitchDone, Rows
<1>4. QED
  BY <1>2, <1>3, RestType DEF EmbedInv

LEMMA StepEmbed == EmbedInv /\ NoReverts /\ [Next]_vars => EmbedInv'
<1>1. SUFFICES ASSUME EmbedInv, NoReverts, [Next]_vars PROVE EmbedInv'
  OBVIOUS
<1>2. CASE UNCHANGED vars
  BY <1>1, <1>2 DEF vars, EmbedInv, TypeOK, HandCurrent, SwitchOrdered, NoneEmbedded,
                    DoneMeansCurrent, Rows
<1>3. CASE Next
  BY <1>1, <1>3, WritersEmbed, QuietSteps, SwitchSteps, SelectSteps, StoreStep, RestartStep
  DEF Next, Backfill
<1>4. QED
  BY <1>1, <1>2, <1>3

\* A row marked as embedded has the vector of its text, by a model of the name
\* and dimension on record, whatever interleaves with the backfill and wherever
\* it ends, as long as a change of model is not taken back half-way. Two models
\* of one name and dimension are not told apart.
THEOREM EmbeddedIsCurrent == NoReverts /\ Spec => []DoneMeansCurrent
<1>1. SUFFICES ASSUME NoReverts
               PROVE  Spec => []DoneMeansCurrent
  OBVIOUS
<1>2. EmbedInv /\ [Next]_vars => EmbedInv'
  BY <1>1, StepEmbed
<1>3. EmbedInv => DoneMeansCurrent
  BY DEF EmbedInv
<1>4. QED
  BY <1>2, <1>3, InitEmbed, PTL DEF Spec

=============================================================================
