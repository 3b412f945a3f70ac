# A TLA+ model of cobos-apple-mail-mcp

`cobos-apple-mail-mcp` is an MCP server that gives an assistant a mailbox: a
read side that indexes Apple Mail's files into SQLite, and a write side that
scripts Mail.app through `osascript`.  This directory models the parts of it
whose correctness depends on order, interleaving, failure or state kept over
many calls.  Source paths below are relative to `src/cobos_apple_mail_mcp/`.

## 1. The system

| Component | State it keeps | Operations | Hard behaviour |
|---|---|---|---|
| Resolver (`core/resolver.py`) | `resolve_cache` | `resolve` | hints, cache, index seed and broad scan disagree; several copies share a Message-ID |
| Mail scripting (`write/scripts/mail_core.js`, `write/jxa_executor.py`) | none of its own; Mail.app's mailboxes | lookups, `moveEmail`, `manageTrash`, `emptyTrash`, `updateEmailStatus`, drafts, rules, sending | every call can time out after Mail was told; the user acts at the same time |
| Safety gate (`core/safety.py`) | none | `guard`, `gate_nonbatch` | order of the checks; partial failure inside a batch |
| Undo journal (`core/undo.py`) | `undo_journal` | `journal_write`, `undo_last` | crash between Mail's step and the row; pruning; retry of an interrupted undo |
| Organise tools (`write/organize.py`) | flag columns of `emails` | `move_email`, `manage_trash`, `empty_trash`, `update_email_status`, `create_mailbox` | the state to restore is read from an index that lags |
| Compose, drafts, rules, unsubscribe (`write/*.py`) | the outbox of `.eml` files; Mail's drafts and rules | send, reply, forward, drafts, rules | gates; a call given up on that takes effect later; retries |
| Indexer (`read/indexer.py`, `storage/migrations.py`) | `emails`, `emails_fts`, `sync_state`, `failed_index_jobs` | `build_index`, incremental diff, `get_index_status` | crash between batches or while the FTS triggers are dropped; files that change, move or vanish |
| Watcher (`read/watcher.py`) | pending events | tick | a failed tick leaves a transaction open, or ends the loop |
| Threader (`read/threader.py`) | `thread_id` column | `jwz_thread`, `index_threads` | cycles, missing parents, shared ids |
| Embeddings, attachment text (`read/vector_search.py`, `read/attachment_extract.py`) | `embeddings`, vector table, extraction status | backfills, hybrid search | rows that change while a batch is embedded |
| Server (`server.py`, `tools/*`) | one shared connection, configuration | tools | FastMCP runs synchronous tools in a thread pool |
| Search, reading, parsing, knowledge, skills, CLI | none | queries | pure functions or formatting |

The write side is one chain: a tool resolves every id (`resolve` calls JXA,
reads `emails` and `resolve_cache`, writes `resolve_cache`), hands the batch to
`guard`, which per message calls JXA and then `journal_write`; `undo_last` reads
the journal, resolves again and calls JXA.  The chain shares the SQLite file
with the indexer and the watcher (other threads or another process), and the
mailbox with the user, Mail's rules and new mail.

What makes each component correct:

* **Resolver**: an id resolves to a copy that exists, and never to one of several.
* **Gate**: no call touches more messages than its limit, none without the
  confirmation it needs, none under `--read-only`; the result accounts for every id.
* **Journal and undo**: what was reported as done can be undone; a row tells
  the truth about where the message was; undoing newest-first restores the
  mailbox; a row is marked undone only if the message is back; interrupted
  undos can be retried.
* **Status writes**: undo restores the state before the call; the index converges on Mail.
* **Indexer and watcher**: at rest the index mirrors the disk, after any crash;
  the FTS table mirrors `emails`; vanished files leave no dead letters.
* **Threader**: the forest is acyclic, agrees with References, and does not
  depend on the order of arrival.
* **Backfills**: an embedding belongs to the text it was computed from.
* **Sending**: one request sends at most one message.

## 2. Plan

| Module | Subject | Composes | Runs | Proofs | Part |
|---|---|---|---|---|---|
| `GuardedMoves` | moves, trash, undo | `MailLookup`, `SafetyGate` | 4 | `GuardedMoves_proofs`, `GuardedMoves_calls` | 3 |
| `IndexBuild` | disk, rows, full-text table, builds | | 3 | `IndexBuild_proofs` | 4 |
| `IndexSessions` | connections and transactions | | 1 | `IndexSessions_proofs` | 4 |
| `StatusWrites` | flags, in Mail and in the index | `SafetyGate` | 1 | `StatusWrites_proofs` | 5 |
| `Outgoing` | sending, drafts, rules | | 1 | `Outgoing_proofs` | 6 |
| `Threader` | conversations | implements `Conversations` | 1 | `Threader_proofs` | 7 |
| `Embeddings` | embeddings, attachment text | | 1 | `Embeddings_proofs` | 8 |

The order was that of the damage an error does: what cannot be taken back first
(moves, deletions, sending), then what the user sees of it (the index), then what
is derived from the index.  The seven machines are kept apart where the code's own
boundary is narrow.  What one needs of another is part of it as an action of the
world: the seed of `GuardedMoves` and the rows of `StatusWrites` change as builds
change them, and `Embeddings` has the upserts and deletes of `IndexBuild`.

Each run checks a question that needs several actors or steps.  An `MC` module
holds the sets an instance is made of, the `.cfg` the bounds.  Modules that carry
theorems declare no RECURSIVE operator; parameters are constants with named
assumptions; every operation is an action.

Open: an abstract *undoable mailbox* that `GuardedMoves` implements in the quiet
case, a *mirror of the disk* that `IndexBuild` implements, and rank fusion of the
hybrid search.

## 3. The write path for moves

### Modules

* **`MailLookup`** -- the lookups of `mail_core.js` and the cascade of
  `resolve()` as pure operators over `at`, which maps each physical copy to its
  mailbox `<<account, name>>` or to `Gone`.  A hint that matches nothing widens
  the search (`SearchScope`), nested mailboxes are found as targets
  (`findMailboxDeep`) and never searched.  The cache is a rank per id and
  mailbox, so `ORDER BY last_verified DESC` is kept and the clock is not.
* **`SafetyGate`** -- the limit and the order of checks of `guard()`.
* **`GuardedMoves`** -- the state machine.  A worker is a thread of the pool; a
  call is a record with a program counter:

| `pc` | Code | Actions |
|---|---|---|
| `idle`/`done` | between calls | `BeginBatch`, `BeginEmptyTrash`, `BeginUndo` |
| `resolve` | `_resolve_many`; `resolve()` reads index and cache | `LookUp`, `Guard` |
| `search` | one JXA call of `resolve()` | `Search`, `ResolveTimeout` |
| `remember` | `_cache_put` | `Remember`, `ResolveLocked` |
| `apply` | loop of `guard()` | `ApplyOne`, `ApplyTimeout`, `Finish` |
| `journal` | `INSERT` of `journal_write` | `JournalInsert`, `JournalLocked` |
| `rank`, `drop` | `SELECT` and `DELETE` of `_prune_old_batches` | `RankBatches`, `DropStale`, `JournalLocked` |
| `empty` | `emptyTrash` | `EmptyTrash`, `EmptyTrashTimeout` |
| `undo` | loop of `undo_last` | `UndoLookUp`, `UndoFinish` |
| `undo_search`, `undo_remember` | `resolve()` of `_undo_move` | `UndoSearch`, `UndoRemember`, `UndoResolveFault` |
| `unmove` | `moveEmail` of `_undo_move` | `UndoMove`, `UndoMoveTimeout` |
| `mark` | `UPDATE undo_journal` | `UndoMark`, `UndoMarkLocked` |

  Around them: `UserMove` (the user, rules, deliveries), `LateEffect` (Mail
  carries out a command whose `osascript` was killed), `Reindex` (the index seed
  changes), `Restart` (the process ends at any point and comes back, perhaps
  `--read-only`).  A JXA call, a `SELECT` and a committed transaction are one step each:
  nothing else can see their inside, and anything can come between them.  `effects`,
  `touched` and `written` are history: the copies a batch had Mail take, the calls of
  every kind (`empty_trash` and `undo_last` too) that had Mail change a mailbox with the
  mode the server was in, and the rows ever journaled.

* **`MCGuardedMoves`** -- two accounts, four mailboxes, two Message-IDs, one of
  them with two copies; the sets of requests each run uses.

Left out on purpose: normalisation of ids, opaque handles (refused before
anything happens), mailbox aliases (folded into the name), the text of results.
`trashCount` may fail like any call before
anything is touched and is not a fault of its own.

### Properties and runs

| Run | Properties | Instance | What it shows |
|---|---|---|---|
| `moves_safety` | `TypeOK`, `BatchLimitBoundsDamage`, `OneCopyPerRequest`, `SuccessIsUndoable`, `JournalTellsOrigin`, `OnlyAdmittedCallsTouchMail`, `EveryIdAccounted` | 1 worker, 14 requests, 3 copies, 2 calls, 1 user step, 1 fault of any kind, 1 retained batch | the safety of one client against Mail, the user and failures |
| `moves_concurrent` | `OnlyOldBatchesAreLost`, `JournalTellsOrigin`, `CallsEnd` | 2 workers, 3 calls that meet on a message another account has a copy of, a journal that keeps one batch, no faults; 266 thousand states | interleaved batches keep the journal true, pruning takes old batches only, and no call hangs |
| `moves_undo` | `UndoAllRestores`, `UndisturbedUndoSucceeds`, `UndoneMeansRestored` | 4 calls, moves within and across accounts; 0 to 2 faults (locked, restart); 2.0 million states | LIFO undo is exact when nothing fails, and can be retried when something did |

Bounds: two calls are enough for a call to meet the cache, journal and late
effects another left; retention of one batch makes pruning happen at the second
batch; one fault per behaviour separates the effect of each kind, two in
`moves_undo` interrupt the retry as well.  Deadlock checking is off because a
client may stop calling.

Fairness: weak fairness of `Work(w)`, the undisturbed steps of a started call.
The code has no waiting of its own: each JXA call is bounded by a timeout
(`jxa_executor.py`) and each database call by `busy_timeout`, and the thread
pool keeps running its threads.

**What pruning may take.**  `SuccessIsUndoable`, in `moves_safety`, says of one worker
that what it reported as done has a row until as many batches as are kept were journaled
after *that row*.  With two workers the code does not keep this, because
`_prune_old_batches` (`undo.py:58-70`) selects and deletes without a lock.  Let one batch
be kept, and let B move two messages and A one: B journals its first; A journals its own and
ranks B's batch stale; B moves its second message and journals it; A deletes B's batch
with both rows.  B reports a success that cannot be undone, although its row was the
newest of all.  (Put `SuccessIsUndoable` in `GuardedMoves_concurrent.cfg` and TLC prints such a
schedule.)  What remains true, `OnlyOldBatchesAreLost`, is that a batch is only ever lost
when as many batches as are kept were journaled after *some row of it*.

**The gates.**  `OnlyAdmittedCallsTouchMail` covers every call that changes a mailbox:
none does for a dry run, none that needs a confirmation does without it, and on a
read-only server `undo_last` alone does.  That last exception is the next finding.

One run ends in a counterexample: `undo_ignores_read_only`.  `core/undo.py:2-3` says
"batch limits and read-only still apply to undo"; `undo_last` gets no
configuration, and moves messages on a read-only server
(`ReadOnlyLeavesMailAlone`).

Other behaviours of the code the model shows, kept in it and not run:

* With an archive in `Nested`, `UndisturbedUndoSucceeds` fails in `moves_undo`: nested
  mailboxes are found as targets of a move and never searched when a message is resolved.
* A call killed by its timeout after Mail took it is never journaled, although
  `README.md:68` says reversible writes are.
* An id without hints resolves to the copy in a cached mailbox although a second
  copy exists; `Identity-and-resolution.md:123` expects MultipleMatches.
* A message that moved on after a batch is found and moved back by undo;
  `Safety-confirmation-and-undo.md:87` expects that row to fail.
* A row of the journal holds the source account and the name of the target mailbox.
  After a move to another account these two name a mailbox the message is not in, and
  undo may take back another copy than the one that was moved
  (`Safety-confirmation-and-undo.md:74`: undo re-resolves at the new location).
* `undo_last` without a batch takes the batch of the newest pending row every time:
  rows that keep failing keep older batches out of its reach, unless named.
* `empty_trash` deletes what is in the trash when it runs, not what it counted.
* Rows are ordered by the wall clock; the model's clock does not step back.

### Proofs

For every value of the constants satisfying `LookupAssumption` and
`MovesAssumption`:

* `TypeCorrect`: `Spec => []TypeOK` (`GuardedMoves_proofs`).
* `JournalOrigin`: `Spec => []JournalTellsOrigin` (`GuardedMoves_proofs`).
* `LimitHolds`: `Spec => []BatchLimitBoundsDamage` (`GuardedMoves_calls`).
* `GateHolds`: `Spec => []OnlyAdmittedCallsTouchMail` (`GuardedMoves_calls`).
* `IdsAreAccounted`: `Spec => []EveryIdAccounted` (`GuardedMoves_calls`).
* `OneCopyEach`: `Spec => []OneCopyPerRequest` (`GuardedMoves_calls`).
* `SuccessStaysUndoable`: `Spec => []OnlyOldBatchesAreLost`, for any number of workers
  (`GuardedMoves_calls`).
* `OneWorkerKeepsSuccess`: `Spec => []SuccessIsUndoable`, if there is one worker
  (`GuardedMoves_calls`).

`TypeOK` alone is not inductive: `JournalInsert` builds its row from the head of
`resolved` and from the request, so one has to know that a call in its journal
step still has both.  `CallsHold` says so, and adds that Mail has taken that very
message from the recorded mailbox for this call; this is what
`JournalTellsOrigin` needs at the step that writes the row.  `MovesInv` is the
conjunction of the three; the proof has a lemma per group of actions
(`BeginType`, `StepType`, `WorldType`, `HoldsStep`, `OriginStep`).

The limit is not inductive either: it bounds a set that only grows, and nothing
in it says that a call stops in time.  `LimitInv` adds a budget per call
(`CallsInBudget`): the copies Mail has touched for it and the messages still left
in its batch stay within the limit together.  A step either leaves the budget alone
(`QuietInBudget`) or spends one message of it on one effect (`SpendingInBudget`).
`Numbered` says that calls are told apart by their numbers, without
which a new call could be charged with the effects of an old one.  Late effects
do not enter the count twice because an effect is recorded when its call asks for
it.  `GateInv` adds where a call is once it has passed its gate (`PastGate`), and
`StepTouches` that Mail changes a mailbox at three points only: in the loop of
`guard()`, in `empty_trash`, and in an undo.

The last four are read off from `AccountInv`, which follows an id through a
call.  `Accounted`: the ids still to resolve, the messages resolved, and the ids
reported make up what was asked for, so that nothing is lost between the lists.
`Clean` (`OneTaken`): an id asked for once is either ahead, and no copy has been
touched for it, or at hand and being journaled, or behind, with one copy touched
at most; that is what keeps a timed-out move, which may still happen, from costing
a second copy.  `Recorded`: what a reversible call reports has a row.
`JournalRemembers`: a row written is in the journal, undone or not, or is `Expendable`.
`Doomed` carries a ranking from the `SELECT` to the `DELETE`: of every batch ranked
stale some row was superseded when it was ranked, and stays so (`Outlived`), whatever
rows the batch gets in between; with one worker it gets none, and each of its rows is
superseded itself.  That is the whole difference between the two theorems on successes.
`StepShape` names the shapes a step of a call can have (`Looking`, `Resolving`,
`Admitting`, `Taking`, `Moving`, `Noting`, `Ending`, `Reversing`); the preservation
lemmas (`StepInBudget`, `AccountedStep`, `OneTakenStep`, `OneTakenEffect`) go through the
shapes, not through the actions.

What `undo_last` does to Mail is proved under hypotheses; without any one of them TLC
finds the conclusion violated in a small instance.  `Alone`: one worker, and nobody
else moves messages; two undos, or an undo and a move, take each other's copies, and a
user takes the message away again.  Under it:

* `UndoneIsRestored`: `Spec => UndoneMeansRestored`, if no JXA call times out (a
  command carried out late moves the message away again).  Locked databases and
  restarts at every point are included: a row whose message is back but not marked is
  simply undone once more.
* `UndoFindsItsMessages`: `Spec => []UndisturbedUndoSucceeds`, if every request can be
  undone (`OnlyReversible`; a deleted message is not found again), no two copies share
  a Message-ID (`SingleCopies`; two are one too many for `resolve()`), and no mailbox is
  nested (`move_email` finds nested mailboxes, resolving does not).
* `UndoTakesAllBack`: `Spec => [](Retained => UndoAllRestores)`, if every request can
  be undone, no two copies share a Message-ID, and every undo takes the newest batch
  (`NewestOnly`; a batch undone out of turn sends the message past where it was).
  `Retained` says that no row has been pruned; a pruned row is never undone.  Nested
  mailboxes may exist: a row that fails stays pending.  `FewCallsAllBack` is the same
  without the condition, for no more calls than batches are retained.

The instance of `moves_undo` satisfies these; of its four calls it retains the batches
of three, which every history that ends with nothing to undo leaves unpruned.

The proofs rest on four invariants.  `JournalInOrder`: rows are written one after the
other, those of a later call after those of an earlier one, and an undo holds rows that
are still to undo.  `BackBeforeMark`: in its mark step an undo has the message at its
origin.  `Findable`: every message of a row, and the one about to get a row, is in a
mailbox; `AttemptFinds` then shows of every attempt of `resolve()`, whatever hint, cache
and index say, that it finds that copy or nothing, and of the last that it finds it. 
`TakenInOrder`: the oldest pending row of a message leads to where the message was at
first (`LeadsHome`); rows of one batch and one message name one origin (`OneOrigin`,
`OnePlace`), as a call may name an id several times; and the rows an undo holds belong
to the last pending batch (`NewestFirst`).  So when a row is marked the message is home,
or an older row leads on.

Only model-checked: liveness (`CallsEnd`), which is out of the prover's reach.

## 4. The index and its builds

### Module `IndexBuild`

The tables `emails`, `emails_fts`, `failed_index_jobs` and `sync_state`, the
three triggers, the files of Mail, and any number of builders: watch loops that
tick, and index commands.

| Code | Model |
|---|---|
| an `.emlx` file: path, `(mtime, size)`, content | `disk[p]`, the number of the change that wrote it; a rename keeps it; `bad` versions do not parse |
| row of `emails` | `rows[p]`: `id`, `stamp` = the stored `(mtime, size)`, `text` = the version whose text is stored |
| `emails_fts` | `fts`: id -> text, apart from `rows`, since triggers may be missing and several rows may disagree with it |
| `scan_emlx_files`, one directory after another | `ScanBox`, once per mailbox |
| `inventory_diff` | `Diff`; the row a new path is taken to be moved from is chosen among those with its ROWID (`Claimable`), as the iteration order of a Python set is not specified |
| `_index_entries` | `Parse` per file, `FlushBatch` per transaction, `EntriesDone` |
| the one-by-one fallback of `_flush_batch` | the ids from the first taken one on are refused: `max(id)+1` does not move past it |
| `DELETE`, `UPDATE ... emlx_path` | `DeleteRows`, `MoveRows`; `MoveClash` when the `UNIQUE` path is taken |
| `DROP TRIGGER`, `CREATE TRIGGER` | `DropTrigger`, `CreateTrigger`, each a transaction |
| `index_threads` | `ThreadRead`, `ThreadWrite`: only that every row it updates passes the update trigger; of rows with one Message-ID the last is updated |
| exception or end of the process anywhere | `Abort` |
| `get_index_status` | `Pending`, `Stale` |
| with or without `watchfiles`; a changed file | `polling`; `events` |

A transaction is one step.  Dead letters are written before the commit that
ends their transaction, so `failed` holds them until then; a build that ends
early loses them or leaves them to the next commit (`Abort`).  What an open
transaction does to later ones is the subject of `IndexSessions`.  Left out:
account names (`_backfill_account_names` changes nothing while they stay the
same), the trigram table (refreshed by full builds only), the age limit of `stale`.

| Run | Properties | Instance | What it shows |
|---|---|---|---|
| `index_watch` | `TypeOK`, `IndexCatchesUp`, `DeadLettersClear`, `StatusCatchesUp`, `SearchFollowsRows` | watch loop, polling or told of changes; 3 messages, 4 paths, one of them in an excluded mailbox; 3 changes of all kinds; 1 build ends early | after any history the index ends up listing the files as they are, and says so; the full-text table equals the rows at every step |
| `index_concurrent` | `TextIsCurrent` | watcher in watchfiles mode beside one command, full or not; 2 changes, moves among them; batches of 1; 1 early end | stamp from the scan, text from the later parse: never a current stamp over an old text, where the message does not move itself; two builders that carry out one move clash |

Two messages are what it takes for a refused batch, a second id and a shared batch; one
of them has a second path, so that every kind of move happens; three changes are enough
for "rewritten, moved, and another one arrives".  The loop either polls or is told of
changes by `watchfiles` (`polling`, chosen at the start).  A loop that is told does
nothing before the first change, and does not repeat a build that ended early before the
next; the properties say where it has been `Attended`: it polls, or it has set a mark
since it began and no build of it ended early.  Deadlock checking is off: with nothing
to do, and no polling, the system rests.

Fairness: weak fairness of a build's next step and of the tick.  Both run on
threads that wait for nothing but the database, for at most `busy_timeout`.

One run ends in a counterexample: `index_changed_and_moved`.  A file that was rewritten
and moved between two builds counts as moved only; its row gets the new stamp over the
old text, for good, although `README.md:274` says that changed mail gets reparsed.

`StatusCatchesUp` says how the status comes to rest with a mailbox the builds leave out,
as Drafts is by default (`config.py:43`): every message in it is counted as pending for
ever, since `get_index_status()` passes no exclusion to the diff (`indexer.py:509`;
`docs/wiki/Indexing-and-watch.md:130` calls it a diff "against the live filesystem").
The property states what the code does there, and that nothing else keeps the status stale
but a file that does not parse.

`TextIsCurrent` excepts messages that have two paths because of it.  Seen by
changing constants of `IndexBuild_watch.cfg`, and not run:

* Two incremental builds side by side break `DeadLettersClear`: one fails to parse a
  half-written file and records it after the other has indexed the whole one; the row
  is current, so nothing removes the dead letter until the file changes again.
* Two incremental builds side by side (`Commanded = {"cli"}`, `Full = {FALSE}`) keep
  `SearchFollowsRows`: the triggers carry everything, whatever interleaves.
* With `TRUE` in `Full` it fails when a full build ends after it dropped the triggers:
  later builds write rows the full-text table never sees, and only another full build
  restores the triggers (`indexer.py:416`: "Crash-safe").
* With a command that runs full builds (`Commanded`, `Full`, `MaxCommands` as in
  `IndexBuild_concurrent.cfg`) `IndexCatchesUp` fails: an entry of `emails_fts`
  whose row the watcher deleted while the triggers were dropped refuses the next
  message that gets its id, and all after it, at every tick
  (`README.md:277`: "never block the rest of the build").
* A path that is dead-lettered because the file left it while it was parsed, or
  whose file the next build takes for moved, keeps its dead letter; this is why
  `DeadLettersClear` speaks of unmoved files.
* A file that moves from a mailbox not scanned yet into one already scanned is in
  neither listing; its row, with the colour and the attachment text only the row
  holds, is deleted and made anew by the next build.

### Module `IndexSessions`

The same database seen as connections and transactions.  Python's `sqlite3` opens a
transaction at the first `INSERT`, `UPDATE` or `DELETE` and keeps it until `commit()`;
no code here calls `rollback()`.  A job is the order in which the code reads, writes,
commits and works outside the database: four belong to a tick (`BuildIndex`, `MarkTick`,
`EmbedBackfill`, `ExtractBackfill`), the others are what tools and commands of the shell
come to.  At a `find` and at an `ask` such a call may end early (`Return`: nothing
found, a dry run, a refusal, nothing to prune).  Tools and commands are not told apart
by name but by the job they come to: `query` (search, lists, knowledge), `files` (a
message read from its file), `vectors` (semantic search), `mail` (compose and the like:
nothing but a script), `reply`, `move`, `status`, `flag` and `undo`; a call is for one
message.  `txn` is `none`, `begun` (a write failed, no snapshot yet), `reading` (a
snapshot, no lock) or `writing`; `behind` says that another connection committed since
the snapshot, after which SQLite refuses every write of it.  The watcher has a
connection of its own, tool threads share the server's, a command's goes with its
process.

| Run | Properties | Instance | What it shows |
|---|---|---|---|
| `sessions_watch` | `TypeOK`, `LockComesFree`, `WatchGoesOn` | watcher with both backfills, one tool thread for the jobs `query`, `move` and `mail`, one for `undo`, `files` and `vectors`, 2 timeouts, 1 exception | the write lock always comes free; the watch loop goes on, and its ticks succeed, unless its mark failed or its connection is stuck |

`reply`, `status` and `flag` are prefixes of these jobs or repetitions of their steps,
and commands of the shell are processes that run one job on a connection that ends with
them; the run has neither.  The theorems below hold for them as well.

Three things it does not promise, since the code does not keep them:

* After one timeout in its own transaction, and a commit of another process, every
  tick of a watcher fails (`StuckForever` below; `watcher.py:74` says it "will retry
  on the next event").  The connection of the server can get stuck in the same way,
  and then every tool that resolves a message fails until a restart (`JammedForever`).
* `tick()` sets its mark, `set_sync_state(conn, "last_watch_tick", ...)`, outside the
  `try` (`watcher.py:81`).  When another connection holds the lock for longer than
  `busy_timeout` just then, the exception ends the loop and with it its thread
  (`job` is `dead`), although "a tick failure must not kill the loop"
  (`watcher.py:73`); the server goes on without a watcher.
* In watchfiles mode (`Polling = FALSE`) the loop runs no first tick and repeats no
  failed one, and `LockComesFree` fails: when the embedding model raises, the
  watcher keeps the lock until another file changes.

Fairness: weak fairness of every started job and of the polling tick; strong
fairness of a write that waits for the lock, since SQLite retries within
`busy_timeout` and the model counts longer waits as timeouts, `MaxTimeouts` of them.

### Proofs

In `IndexBuild_proofs`, for any files, mailboxes, builders, batch size and bounds
satisfying `IndexAssumption` (there are finitely many paths; a mailbox per path):

* `TypeCorrect`: `Spec => []TypeOK`.  `TypeOK` is inductive here.  Its hard part is
  that no two rows share an id: new rows of a batch take different numbers above all
  ids there are (`FlushRows`), and of several moves that claim one row only the
  first is carried out (`RelabelledType`), also when the row was moved, deleted or
  made anew by another builder since the diff.
* `TextStaysCurrent`: `Spec => []TextIsCurrent`.  It speaks of the paths whose ROWID
  has no other path (`Unmoved`); the run `index_changed_and_moved` shows that it
  cannot speak of more.  `TextInv` says of those paths (`Settled`) what a build has
  at hand: what it scanned and read of a file was there and is not after the file
  now (`Known`), what it read is not older than what it scanned, and no move it
  found leads there (`BuildInOrder`); a row inherits this (`RowsInOrder`).  A row
  whose stamp is the file's then has a text between the two.

* `SearchStaysCurrent`: `Spec => []SearchFollowsRows`, if no build is full
  (`TRUE \notin Full`).  `SearchInv`: the three triggers stay in place, every build is
  incremental, and `emails_fts` is at every step exactly what the triggers make of the
  rows; each transaction that inserts, deletes or moves rows, or rewrites one where two
  builders carry out the same move, changes both alike.  A full build drops the triggers
  first; the histories above show what its end leaves behind.

In `IndexSessions_proofs`, for any connections and jobs satisfying
`SessionsAssumption`:

* `TypeCorrect`: `Spec => []TypeOK`.
* `JammedForever`: a connection that is `Stuck` and has no thread at a commit stays
  so (`Jammed`), unless it is a command's.  Its writes fail, so none of its threads
  comes to a commit: every commit of every job follows a write (`StepsWellFormed`).
  Only a failing mark closes the connection of a watch loop, and it is set when
  nothing is open (`MarksClean`, the invariant).
* `StuckForever`: a watcher that is `Stuck` stays so, whatever it is doing: it has its
  connection alone and commits only what it has just written (`CommitsOwn`), so it
  is jammed.

Only model-checked: liveness.

## 5. Flags: `StatusWrites`

`update_email_status` and its undo.  A status lives in three places: Mail, the row of
the index, which follows Mail when the message's file is read again, and the journal,
which takes the *row* for the state to restore.

| Code | Model |
|---|---|
| `updateEmailStatus` (`mail_core.js`) | `After`, through `Jxa`: it succeeds, fails, or is killed and may still take effect (`late`, `Land`) |
| `update_email_status`, `guard()` up to its loop | `Update`; ids that do not resolve are left out |
| one message of the loop; `prior_state`, `undo_record`, `journal_write` | `Apply`; `Journal` |
| the optimistic `UPDATE emails` after the batch | `UpdateIndex`, `Colored` |
| `undo_last`; `_undo_status` with its two calls; the mark | `Undo`; `RestoreRead`, `RestoreFlag`; `MarkUndone` |
| a tick of the watcher over a changed file | `Reindex`: flags are read anew, the colour is kept (`_UPSERT_SQL`) |
| a write that waits for longer than `busy_timeout`: the journal, the optimistic update, the mark | `Locked`: the call ends there, Mail changed and the rest undone |
| the user, a rule; a row deleted; the server | `User`; `Lose`; `Restart`, which may leave a script of `update_email_status` or of undo to finish later (`InFlight`) |

`call.was`, `call.seen`, `call.quiet` and `before` in a journal entry are history: what
Mail and the index showed, and whether somebody else set the message during its undo.

| Run | Properties | Instance | What it shows |
|---|---|---|---|
| `status_undo` | `TypeOK`, `UndoneMeansRestored`, `PriorColorIsPrior`, `ReadFlagSettles` | 2 messages, 3 calls, 1 step of the user, 1 fault of any kind; 3.0 million states | a row marked undone means the old status is back; no batch takes its own colour for the old one; the index settles on Mail's read flag |

Three calls are a change, an undo that is cut short, and the undo that repeats it; a
batch of two and a batch that names one message twice are among the requests.

Fairness: weak fairness of `Reindex`, since the watcher keeps ticking while a changed
file waits.  Nothing else has to happen.

`UndoneMeansRestored` speaks of entries that knew the old status (`Faithful`), for the
code does not see to it that they do:

* The index lags.  An unflagged message can be journaled as flagged, or the reverse,
  when the row was read before the user's last change; undo then restores the row
  (`Safety-confirmation-and-undo.md:75-76`; `organize.py:145` against `undo.py:116-121`).
* `prior_state` runs after Mail was changed.  A tick in between may have put the new
  read or plain flag in the row; the colour cannot be overtaken, as only this server
  writes it, which is what `PriorColorIsPrior` says.
* A message without a row is journaled with `{}` and marked undone with nothing restored.
* When the journal is locked after Mail was changed, nothing is journaled and the
  optimistic update is skipped: the row shows the old status until the file is read again,
  and the old colour after that.
* Undo does not update the index: a colour it took back in Mail stays in the row.

**Proofs** (`StatusWrites_proofs`, assuming `StatusAssumption`): `TypeCorrect`;
`UndoneIsRestored`, the property `UndoneMeansRestored`; `ColorsArePrior`, the property
`PriorColorIsPrior`.  A type alone does not say that a running call still has a message
or a row to work on (`CallHolds`), nor that a script given up on in an earlier undo of
the same row can only restore what that row says (`LateHolds`).  With these, `Restored`
is inductive: while nobody else touches the message, Mail shows the part of the old
status the undo has got to, whatever lands late.  `ColorsKept` is the invariant of the
second: while a batch runs the indexed colours are those it found, since `UpdateIndex`
comes after the last `Journal`.  Only model-checked: `ReadFlagSettles`.

## 6. What cannot be taken back: `Outgoing`

Composing, replying, forwarding, rich drafts, drafts, unsubscribing and the lifecycle of
rules.  One call runs at a time and ends in one script, one HTTP POST, or one `.eml`
file opened in Mail.

| Code | Model |
|---|---|
| `_require_writable`, `resolve`, checks of attachments, `gate_nonbatch` | `Blocked`, `Verdict`, `RuleVerdict`, `UnsubscribeVerdict`, in the order of the code; `Begin` |
| `jxa.call` of compose, reply, forward, drafts (listing included), rules | `RunScript`; what the script does is `Throws` and `Do` |
| `addAttachments`, several files: it fits, our checks refuse it, Mail refuses it | `files`; `Carries`; `Loaded` |
| `_post_one_click` | `Post`: an error may have been an answer that got lost |
| `_prune_old_eml`, writing the file, `open -a Mail` | `Kept`, `WriteEml`, `OpenEml` |
| Mail importing a file; a killed script that ends after all | `Import`; `Land` |
| the user; the server; time | `User`, `Restart` (a script or a POST under way may still take effect), `Tick` |

| Run | Properties | Instance | What it shows |
|---|---|---|---|
| `outgoing_calls` | `TypeOK`, `OneEffectPerCall`, `OnlyAdmittedCallsAct`, `SuccessMeansDone`, `FreshEmlSurvives` | any 2 of 29 calls, 2 faults, 1 step of the user, clock to 2; 2.3 million states | no call acts twice or past its gates, success means it was done, nothing is sent past a file that was turned down, no file disappears under Mail |

Two calls are enough for one to meet what another left behind (a late script, a file, a
draft of the same subject), two faults for a call killed and a restart after it.  The
subjects overlap and two rules share a name, so that "the only match" and "the first of
that name" matter.  `Tick` waits for `open` and for the import of an opened file, both
matters of seconds where files are kept for an hour: `FreshEmlSurvives` rests on that, and
shows that a second call may prune at any moment of an import, not how slow one may be.
Deadlock checking is off because a client may stop calling.

What the code does not promise, kept in the model:

* HTML messages open as `.eml` files, which carry no attachments, and the exit code of
  `open` is ignored (`compose.py:107`): "draft" is reported also when Mail showed none.
  `SuccessMeansDone` excepts them.
* A message sent with files may leave before Mail has loaded them: `delay(1)` is all
  that stands between the two (`mail_core.js:444-446`: "the send can race the attach"),
  so `Loaded` leaves `whole` open for it and no property speaks of it. 
  `SuccessMeansDone` speaks of what `addAttachments` does see to ("Fail loud"): with one
  bad file among several nothing is sent, whichever it is.
* A client that repeats a call after a timeout may send twice (`compose.py:141`); a
  repeated `delete_rule` or deletion of a draft may hit another of the same name.
* `drafts` with action `send` always throws.

**Proofs** (`Outgoing_proofs`, assuming `OutgoingAssumption`): all five properties of
the run.  `OutgoingInv` adds to them what keeps them true: whoever may still act (the
call, a script, a file) passed the gates (`Gates`), a call has one chance to act, and the
chance is in one place only (`OneChance`); an opened file is as young as the clock
(`Young`).

## 7. Conversations: `Threader`

`index_threads` link by link: rows are read in the order of their ids (`TakeRow`), each
reference is one `_link` (`FollowRef`, `Attach`), orphan roots are gathered by subject
(`MergeRoot`), and the walk that numbers the rows is one transaction (`Number`). Between
two threadings rows come and go (`Index`, `Delete`), and ids of deleted rows are used
again (`NextId`).  `change` is `any_change` of the build that runs: a build that ends
after it committed rows and before it threaded them (`EndEarly`) takes it along, and the
next build threads only if it finds changes of its own (`indexer.py:472`). 
`get_email_thread`, which threads the rows of one thread anew and answers with one tree,
is the operator `Shown`.

`_creates_cycle` is stated as "every set closed under parents that holds the candidate
holds the child", which needs no recursion and so can be proved about.  The messages a
message answers (`Ancestors`) are stated in the same way.

**The abstract specification** `Conversations` knows no trees: conversations are disjoint
sets of Message-IDs that only grow, along messages one header names together or that
share a subject, and what is published tells them apart; what was found out may be forgotten before
it is published (`Forget`, a build that ends early).  `Threader` implements it
under the mapping that takes the containers below one root for a conversation and
`thread_id` for what is published (`ImplementsConversations`).

| Run | Properties | Instance | What it shows |
|---|---|---|---|
| `threads` | `TypeOK`, `Forest`, `EachMessageNumberedOnce`, `ConversationsComeTogether`, `ReadBackWhole`, `ImplementsConversations` | 3 rows from 14 letters over 5 Message-IDs, 1 deletion, builds that end early at any point; 528 thousand states | trees stay trees; one place per Message-ID; complete headers bring a conversation together in any order; a thread of unbroken headers is read back whole |

Three rows are a message, an answer and an answer to that, in every order, with one
missing or one that belongs elsewhere; the letters include circles, self-references,
contradictions and copies.  (Four rows without deletions were explored as well.)
Deadlock checking is off: with no more mail to come and every row threaded, it rests.

What the properties leave out because the code does not keep it:

* Of rows that share a Message-ID only the last is numbered (`threader.py:134`: "every
  row"); older copies keep the thread ids of an earlier threading, which may by now be the id of
  another row; no property looks at them.
* `get_email_thread` threads the rows of a thread again, in the order of their positions,
  and shows the first root only (`threader.py:213`).  `ReadBackWhole` asks for unbroken
  headers because that is what it takes: one header that skips a message between two it
  names is enough for two roots.  Let Q, P, X answer each other in that order, and let two
  answers to X name `<P, X>` and `<Q, X>`; only Q and the two are indexed, the second
  before the first.  X is then put below Q, and the three rows are one thread.  If the
  first is the older of the two it has the lower position, is read first this time, and
  puts X below P: Q is a root without children, and the answer shows Q alone with a
  `message_count` of 3 (`docs/wiki/Threading-and-knowledge.md:60`: "re-runs JWZ on just
  that thread's own rows ... to reconstruct the actual parent/child tree").
* Rows a build committed before it ended early stay without a thread until a later
  change; the properties of threads speak of rows a threading has come by since the last
  change (`Settled`).
* References cut short may leave a conversation in two threads, depending on the order.
* `thread_id` is the first real row of the walk, not the earliest message.
* In-Reply-To is appended to References also when there are some.

**Proofs** (`Threader_proofs`, assuming `ThreaderAssumption`), for any number of rows and
Message-IDs, of rows that come and go in any order, and whatever the headers say:

* `TreesStay`, the property `Forest`.  That no link closes a circle is not provable step
  by step from the absence of circles alone; `Sound` replaces it by a rank that falls
  along parents, and a link is shown to leave one.
* `ThreaderTypes` and `EachNumberedOnce`: the walk that numbers a tree meets every real
  container below its root once (`Covers`), each row that is the last of its Message-ID
  is in a container of its own (`HoldsLast`), and every container is below one root that
  the subject phase has passed or has still to pass (`RootsSplit`); so every such row
  gets one place (`ThreadInv`).
* `ThreadingImplements`: `Spec => ImplementsConversations`.  The containers below a root
  are its `Tribe`, and the tribes are the conversations.  A link makes one of two
  (`Joins`), always two of which one header speaks (`Speaking`) or two of one subject;
  `Number` publishes ids that are equal exactly within a tribe.
* `ComeTogether`: `Spec => []ConversationsComeTogether`, with the assumption `AnswersEnd`
  that no message answers, directly or not, itself.  With genuine headers every parent
  is an ancestor (`Descended`), so the root above a message is in its own line; with
  complete ones the chain that is read goes answer by answer (`Ladder`) and leaves every
  message below the one it answers, whatever was linked before (`Linked`).  The subject
  phase moves whole trees only, so a line stays below one root (`LineTogether`).
* `ReadWhole`: `Spec => []ReadBackWhole`, with the same assumption.  An unbroken header
  can always link what it names (`OneLink`), so every row read hangs together (`Hung`),
  and a link that no subject made is in a header (`SaidLinks`); both hold of the threading
  of all rows (`UnbrokenKept`, `Found`) and of the rows of a thread in the order of their
  positions (`ViewRead`, along `RowsPlaced`).  A root of the second threading is thus the
  root of the first or was gathered below it by subject (`ViewAgrees`), so it is gathered
  again below whichever is the first now (`RootsGathered`, `FirstFound`), and the walks
  from there meet every row (`AllShown`).

The walks (`Walk`, `RootDates`, `Top`) are recursive functions over levels; each is shown
to be an iteration that exists (`Iterated`) and an invariant of it is proved level by
level.

## 8. Backfills: `Embeddings`

The watcher's backfills after each build: `sync_vec_table` with its two commits
(`SyncDrop`, `SyncReset`, `SyncEnsure`, `SyncRecord`), `embed_backfill` (`Select`,
`MarkShort`, `Store`, `EmbedFails`), `extract_backfill` (`ExtractSelect`,
`ExtractStore`).  Meanwhile other processes upsert and delete rows (`Upsert`, `Delete`),
and the process may end at any point and return with another model (`Restart`).  `open`
is what a failed backfill left in an open transaction, which the next commit on the
connection takes along.

| Run | Properties | Instance | What it shows |
|---|---|---|---|
| `embeddings` | `TypeOK`, `DoneMeansCurrent`, `BackfillDrains` | 2 ids, 3 models (Apple's and two MiniLM directories), batches of 2, 2 per tick, 3 changes, 2 restarts, 1 failure; 1.05 million states | rows marked as embedded have the vector of their text, by a model of the name and dimension on record; every row is worked off |

Two rows in a batch put a text too short and one to embed into one transaction; three
changes are "indexed, deleted, its id used again"; two restarts are a switch of models
and one in the midst of it.

Fairness: weak fairness of the backfill's next step, as the polling watcher ticks on.
With watchfiles a backlog waits for the next file event.

`Record` gives each model what `sync_vec_table` knows of it, `name:dimension`
(`vector_search.py:210`): the switch and the record are about these, and so is the table,
as no dimension of the code belongs to two names.

Exceptions the properties make, each for something the code does:

* MiniLM is `minilm:384` from whatever directory `embeddings.model` names
  (`vector_search.py:110-111`, `config.py:79`).  A change of directory is no change of
  record: nothing is dropped, and vectors of two models are compared from then on,
  against the docstring at `vector_search.py:199-202` ("rather than mixing vectors from
  two different spaces").  `DoneMeansCurrent` therefore speaks of *a model of the record*;
  with `vec[id].by = backend` in its place TLC finds the mixture after one restart.
* `Reverts = FALSE`: a switch of models taken back half-way leaves a table of the other
  dimension, or rows marked without a vector.
* A row another process writes while the model works on its text keeps the old vector
  (`overtaken`): the update of `embed_state` does not look at the row again.
* An upsert resets `embed_state` only: changed attachments are not read again.
* Vectors of deleted rows stay, and their ids are used again.  It is harmless to
  `DoneMeansCurrent`, as a row that is new is not marked.

Which rows a batch takes is left open (`ORDER BY date_received`).

**Proofs** (`Embeddings_proofs`, assuming `EmbeddingsAssumption`): `TypeCorrect`, and
`EmbeddedIsCurrent`, the property `DoneMeansCurrent` for `Reverts = FALSE`, for any
models and records.  `EmbedInv`
adds that what is in hand is what the rows hold, except for the overtaken
(`HandCurrent`), and what the four steps of a switch leave behind wherever it ends
(`SwitchOrdered`).  Only model-checked: `BackfillDrains`.

## 9. What is not modelled

* Parsing (`emlx_parser`, `core/text`), the queries of the search and reading tools, rank
  fusion, knowledge scoring, skills, the LLM helper, configuration and the options of the
  command line keep no state over calls; what they compute from one input is better
  covered by unit tests.  Hybrid
  search does not apply all its filters to vector hits (`vector_search.py:360`), which
  no model here sees.
* Parts of modelled components: the trigram table, account names, `createMailbox`,
  listing commands, process groups of `osascript`, saving attachments, schema migration.
* Two kinds of interleaving no run has: a full build beside the watcher, which breaks
  the index (part 4), and a second builder beside the threader.
* Real time: that `busy_timeout` is long enough, that `open` takes seconds.

Beyond the prover's reach, and so with the model checker alone: liveness under fairness
(`CallsEnd`, `IndexCatchesUp`, `DeadLettersClear`, `StatusCatchesUp`, `LockComesFree`,
`WatchGoesOn`, `ReadFlagSettles`, `BackfillDrains`).
