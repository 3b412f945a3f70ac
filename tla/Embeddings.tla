----------------------------- MODULE Embeddings -----------------------------
(***************************************************************************)
(* The backfills behind semantic and attachment search: sync_vec_table and *)
(* embed_backfill of read/vector_search.py, extract_backfill of            *)
(* read/attachment_extract.py, run by the watcher after each build.        *)
(* Between their steps the process may end and come back with another      *)
(* embedding model, and another process may build the index.               *)
(***************************************************************************)
EXTENDS Integers, FiniteSets, FiniteSetsExt

CONSTANTS
    Backends,      \* embedding models: apple_nl, and minilm from each model directory
    Record,        \* the name:dimension of each; no dimension has two names
    None,
    MaxId,
    BATCH_SIZE, MAX_BATCHES,
    Reverts,       \* whether a change of model may be taken back half-way
    MaxChanges, MaxRestarts, MaxFails

Ids == 1..MaxId
Records == {Record[model] : model \in Backends}

\* text stands for subject and snippet, told apart by when they were indexed.
RowType == [text : 1..MaxChanges, short : BOOLEAN, attached : BOOLEAN,
            embed : {0, 2, 3},          \* embed_state
            extract : {0, 2, 3}]        \* attachment_extract_state

VecType == [text : 1..MaxChanges, by : Backends]

ASSUME EmbeddingsAssumption ==
    /\ Backends # {} /\ None \notin RowType \cup VecType
    /\ Record \in [Backends -> Records] /\ None \notin Records
    /\ MaxId \in Nat /\ BATCH_SIZE \in Nat \ {0} /\ MAX_BATCHES \in Nat \ {0}
    /\ Reverts \in BOOLEAN
    /\ MaxChanges \in Nat /\ MaxRestarts \in Nat /\ MaxFails \in Nat

VARIABLES
    emails,     \* committed rows by emails.id, or None
    table,      \* whose dimension emails_vec has, None without the table
    vec,        \* emails_vec: [text, by a model] by email_id, or None
    recorded,   \* embed_backend of sync_state: a name:dimension, or None
    backend,    \* the model the running process is configured for
    open,       \* rows marked too short by a transaction not committed yet
    pc, batches, hand,   \* the watcher: its step, batches done, rows it selected
    overtaken,  \* history: rows another process wrote while they were in hand
    changes, restarts, fails

dbVars == <<emails, table, vec, recorded>>
counters == <<changes, restarts, fails>>
vars == <<emails, table, vec, recorded, backend, open, pc, batches, hand, overtaken,
          changes, restarts, fails>>

Rows == {id \in Ids : emails[id] # None}
NextId == IF Rows = {} THEN 1 ELSE 1 + Max(Rows)

Init ==
    /\ emails = [id \in Ids |-> None]
    /\ table = None /\ vec = [id \in Ids |-> None]
    /\ recorded = None /\ backend \in Backends
    /\ open = {} /\ pc = "build" /\ batches = 0 /\ hand = {}
    /\ overtaken = {}
    /\ changes = 0 /\ restarts = 0 /\ fails = 0

-----------------------------------------------------------------------------
(***************************************************************************)
(* Builds: the watcher's between two backfills, another process's any time *)
(* no transaction is open                                                  *)
(***************************************************************************)
Writable == pc = "build" \/ open = {}

\* Mutant: the transaction a failed backfill left open stays open.
OpenForGood == open

StillOpen == {}

\* Its first commit takes along what a failed backfill left open.
Committed == [id \in Ids |-> IF id \in open THEN [emails[id] EXCEPT !.embed = 3] ELSE emails[id]]
Overtakes(id) == overtaken' = IF \E r \in hand : r.id = id THEN overtaken \cup {id}
                              ELSE overtaken \ {id}

\* Mutant: ON CONFLICT leaves embed_state alone.
EmbedKept(id) == IF emails[id] = None THEN 0 ELSE Committed[id].embed

EmbedAfter(id) == 0

\* _UPSERT_SQL: a row that is new, or one whose file changed.
Upsert(id, short, attached) ==
    /\ Writable /\ changes < MaxChanges
    /\ id = NextId \/ id \in Rows
    /\ emails' = [Committed EXCEPT ![id] =
            [text |-> changes + 1, short |-> short, attached |-> attached, embed |-> EmbedAfter(id),
             extract |-> IF emails[id] = None THEN 0 ELSE emails[id].extract]]
    /\ open' = StillOpen /\ Overtakes(id)
    /\ changes' = changes + 1
    /\ UNCHANGED <<table, vec, recorded, backend, pc, batches, hand, restarts, fails>>

\* A row is deleted; its vector stays.
Delete(id) ==
    /\ Writable /\ changes < MaxChanges
    /\ id \in Rows
    /\ emails' = [Committed EXCEPT ![id] = None]
    /\ open' = StillOpen /\ Overtakes(id)
    /\ changes' = changes + 1
    /\ UNCHANGED <<table, vec, recorded, backend, pc, batches, hand, restarts, fails>>

\* A tick's build ends, with a commit at the latest.
Tick ==
    /\ pc = "build"
    /\ emails' = Committed /\ open' = StillOpen
    /\ pc' = "sync"
    /\ UNCHANGED <<table, vec, recorded, backend, batches, hand, overtaken>> /\ UNCHANGED counters

-----------------------------------------------------------------------------
(***************************************************************************)
(* sync_vec_table                                                          *)
(***************************************************************************)
\* Two models of one name and dimension are one to it. DROP TABLE outside a
\* transaction takes effect at once.
SyncDrop ==
    /\ pc = "sync"
    /\ IF recorded \in {None, Record[backend]}
       THEN pc' = "ensure" /\ UNCHANGED <<table, vec>>
       ELSE pc' = "reset" /\ table' = None /\ vec' = [id \in Ids |-> None]
    /\ UNCHANGED <<emails, recorded, backend, open, batches, hand, overtaken>> /\ UNCHANGED counters

SyncReset ==
    /\ pc = "reset"
    /\ emails' = [id \in Ids |-> IF id \in Rows /\ emails[id].embed = 2
                                 THEN [emails[id] EXCEPT !.embed = 0] ELSE emails[id]]
    /\ pc' = "ensure"
    /\ UNCHANGED <<table, vec, recorded, backend, open, batches, hand, overtaken>> /\ UNCHANGED counters

SyncEnsure ==
    /\ pc = "ensure"
    /\ table' = IF table = None THEN Record[backend] ELSE table
    /\ pc' = "record"
    /\ UNCHANGED <<emails, vec, recorded, backend, open, batches, hand, overtaken>> /\ UNCHANGED counters

SyncRecord ==
    /\ pc = "record"
    /\ recorded' = Record[backend]
    /\ pc' = "select" /\ batches' = 0
    /\ UNCHANGED <<emails, table, vec, backend, open, hand, overtaken>> /\ UNCHANGED counters

-----------------------------------------------------------------------------
(***************************************************************************)
(* embed_backfill                                                          *)
(***************************************************************************)
InHand(some) == {[id |-> id, text |-> emails[id].text, short |-> emails[id].short] : id \in some}
Selected(pending, some) ==
    /\ some \subseteq pending
    /\ Cardinality(some) = Min({BATCH_SIZE, Cardinality(pending)})

\* Nothing is locked while the rows are in hand.
Select ==
    /\ pc = "select"
    /\ \E some \in SUBSET Rows :
          /\ Selected({id \in Rows : emails[id].embed = 0}, some)
          /\ hand' = InHand(some)
          /\ pc' = IF some = {} THEN "extract" ELSE "mark"
    /\ batches' = IF pc' = "extract" THEN 0 ELSE batches
    /\ UNCHANGED <<emails, table, vec, recorded, backend, open, overtaken>> /\ UNCHANGED counters

\* Mutant: a row too short to embed is passed over.
NoneTooShort == {}

TooShort == {r.id : r \in {s \in hand : s.short}} \cap Rows

\* The first UPDATE opens a transaction that lasts until the vectors are stored.
MarkShort ==
    /\ pc = "mark"
    /\ open' = TooShort
    /\ pc' = "store"
    /\ UNCHANGED <<emails, table, vec, recorded, backend, batches, hand, overtaken>>
    /\ UNCHANGED counters

\* Whether a backfill takes another batch this tick.
GoesOn == batches + 1 < MAX_BATCHES /\ Cardinality(hand) = BATCH_SIZE

EmbedState(id) ==
    IF id \in open THEN 3
    ELSE IF \E r \in hand : r.id = id /\ ~r.short THEN 2 ELSE emails[id].embed

\* A vector of another dimension than the table's is refused.
Store ==
    /\ pc = "store"
    /\ (\A r \in hand : r.short) \/ table = Record[backend]
    /\ vec' = [id \in Ids |-> IF \E r \in hand : r.id = id /\ ~r.short
                              THEN [text |-> (CHOOSE r \in hand : r.id = id).text, by |-> backend]
                              ELSE vec[id]]
    /\ emails' = [id \in Ids |-> IF id \in Rows THEN [emails[id] EXCEPT !.embed = EmbedState(id)]
                                 ELSE None]
    /\ open' = {} /\ hand' = {}
    /\ IF GoesOn
       THEN pc' = "select" /\ batches' = batches + 1
       ELSE pc' = "extract" /\ batches' = 0
    /\ UNCHANGED <<table, recorded, backend, overtaken>> /\ UNCHANGED counters

\* The model raises; tick() logs it and goes on, the transaction stays open.
EmbedFails ==
    /\ pc = "store" /\ \E r \in hand : ~r.short
    /\ \/ fails < MaxFails /\ fails' = fails + 1
       \/ table # Record[backend] /\ UNCHANGED fails
    /\ hand' = {} /\ pc' = "extract" /\ batches' = 0
    /\ UNCHANGED <<emails, table, vec, recorded, backend, open, overtaken, changes, restarts>>

-----------------------------------------------------------------------------
(***************************************************************************)
(* extract_backfill                                                        *)
(***************************************************************************)
ExtractSelect ==
    /\ pc = "extract"
    /\ \E some \in SUBSET Rows :
          /\ Selected({id \in Rows : emails[id].extract = 0 /\ emails[id].attached}, some)
          /\ hand' = InHand(some)
          /\ pc' = IF some = {} THEN "build" ELSE "parsed"
    /\ UNCHANGED <<emails, table, vec, recorded, backend, open, batches, overtaken>>
    /\ UNCHANGED counters

\* Each row is done, or skipped when nothing can be read from its files.
ExtractStore ==
    /\ pc = "parsed"
    /\ \E readable \in SUBSET {r.id : r \in hand} :
          emails' = [id \in Ids |->
              IF id \notin Rows THEN None
              ELSE [emails[id] EXCEPT
                      !.embed = IF id \in open THEN 3 ELSE @,
                      !.extract = IF id \in readable THEN 2
                                  ELSE IF \E r \in hand : r.id = id THEN 3 ELSE @]]
    /\ open' = {} /\ hand' = {}
    /\ IF GoesOn
       THEN pc' = "extract" /\ batches' = batches + 1
       ELSE pc' = "build" /\ batches' = 0
    /\ UNCHANGED <<table, vec, recorded, backend, overtaken>> /\ UNCHANGED counters

-----------------------------------------------------------------------------
\* No change of model is under way.
SwitchDone == table = recorded /\ recorded \in {None, Record[backend]}

\* The process ends at any point and starts again, perhaps for another model.
Restart ==
    /\ restarts < MaxRestarts
    /\ restarts' = restarts + 1
    /\ IF Reverts \/ SwitchDone THEN backend' \in Backends ELSE UNCHANGED backend
    /\ open' = {} /\ hand' = {} /\ pc' = "build" /\ batches' = 0
    /\ UNCHANGED <<emails, table, vec, recorded, overtaken, changes, fails>>

Backfill ==
    \/ Tick
    \/ SyncDrop \/ SyncReset \/ SyncEnsure \/ SyncRecord
    \/ Select \/ MarkShort \/ Store \/ EmbedFails
    \/ ExtractSelect \/ ExtractStore

Next ==
    \/ \E id \in Ids, short, attached \in BOOLEAN : Upsert(id, short, attached)
    \/ \E id \in Ids : Delete(id)
    \/ Backfill
    \/ Restart

Spec == Init /\ [][Next]_vars

\* The watcher polls: a tick follows a tick.
FairSpec == Spec /\ WF_vars(Backfill)

-----------------------------------------------------------------------------
(***************************************************************************)
(* Properties                                                              *)
(***************************************************************************)
\* The tables, the transaction left open and the watcher's hand keep their
\* shapes; an open transaction marks rows that exist.
TypeOK ==
    /\ emails \in [Ids -> RowType \cup {None}]
    /\ table \in Records \cup {None} /\ recorded \in Records \cup {None}
    /\ vec \in [Ids -> VecType \cup {None}]
    /\ backend \in Backends
    /\ open \subseteq Rows
    /\ pc \in {"build", "sync", "reset", "ensure", "record", "select", "mark", "store",
               "extract", "parsed"}
    /\ batches \in 0..(MAX_BATCHES - 1)
    /\ hand \subseteq [id : Ids, text : 1..MaxChanges, short : BOOLEAN]
    /\ overtaken \subseteq Ids
    /\ changes \in 0..MaxChanges /\ restarts \in 0..MaxRestarts /\ fails \in 0..MaxFails

\* A row marked as embedded has the vector of the text it holds now, from a
\* model of the name and dimension on record, through restarts, a switch of
\* models cut short, failures and ids used again; unless another process wrote the row while the backfill
\* had it in hand, which nothing detects (embed_backfill), and between the two
\* commits of a switch (sync_vec_table).
DoneMeansCurrent ==
    \A id \in Rows \ overtaken : emails[id].embed = 2 =>
        \/ /\ vec[id] # None
           /\ vec[id].text = emails[id].text /\ Record[vec[id].by] = recorded
        \/ table = None /\ recorded # Record[backend]

\* Once the mail and the failures rest, every row gets embedded or set aside,
\* and every row with attachments read or set aside, two batches a tick.
BackfillDrains ==
    <>[](\A id \in Rows : emails[id].embed \in {2, 3}
                          /\ (emails[id].attached => emails[id].extract \in {2, 3}))

=============================================================================
