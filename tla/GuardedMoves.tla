---------------------------- MODULE GuardedMoves ----------------------------
(***************************************************************************)
(* The write path for messages that move: move_email, manage_trash and     *)
(* empty_trash (write/organize.py) under guard() (core/safety.py), the     *)
(* undo journal and undo_last (core/undo.py), over the Mail.app that       *)
(* mail_core.js scripts and the user changes at the same time.             *)
(*                                                                         *)
(* A worker is a thread of the pool the MCP framework runs tool functions  *)
(* on; all of them share one database connection.  Each JXA call, each     *)
(* SELECT and each committed transaction is one step.  Message status lives in StatusWrites.*)
(***************************************************************************)
EXTENDS MailLookup, SafetyGate, Sequences, FiniteSets, Functions

CONSTANTS
    Workers,      \* threads that run tool calls
    Requests,     \* the requests clients may make
    Trash,        \* the name of an account's trash mailbox
    MaxBatches,   \* MAX_RETAINED_BATCHES
    InitAt,       \* where the copies are at first
    Faults,       \* the kinds of fault that may happen
    MaxCalls,     \* bound on tool calls
    MaxUser,      \* bound on steps of the user in Mail
    MaxFaults     \* bound on faults

FaultKinds == {"timeout", "locked", "restart"}

Request == [op : {"move", "move_to_trash", "delete_permanent", "empty_trash", "undo_last"},
            ids : Seq(Ids),                    \* message_ids, in order
            account : Accounts \cup {None},    \* hints
            mailbox : Names \cup {None},
            toAccount : Accounts \cup {None},
            toMailbox : Names \cup {None},
            batch : Nat,                       \* undo_last(batch_id), 0 for none
            dryRun : BOOLEAN, confirm : BOOLEAN, max : Nat]

ASSUME MovesAssumption ==
    /\ Requests \subseteq Request
    /\ \A req \in Requests : req.op = "move" => req.toMailbox # None
    /\ BatchLimit \in [{"move", "move_to_trash", "delete_permanent", "empty_trash"} -> Nat]
    /\ RequireConfirm \subseteq {"delete_permanent", "empty_trash"}
    /\ MaxBatches \in Nat \ {0}
    /\ InitAt \in [Copies -> Boxes \cup {Gone}]
    /\ Trash \in Names
    /\ Faults \subseteq FaultKinds
    /\ MaxCalls \in Nat /\ MaxUser \in Nat /\ MaxFaults \in Nat
    /\ IsFiniteSet(Copies) /\ IsFiniteSet(Boxes)
    /\ None \notin Requests

VARIABLES
    at,        \* Mail: the mailbox of every copy
    late,      \* commands Mail may still carry out after their call timed out
    seed,      \* index.db: mailbox of the newest indexed row of an id
    cache,     \* resolve_cache
    journal,   \* undo_journal
    clock,     \* time.time() at the last journal_write
    readOnly,  \* config.server.read_only of the running process
    call,      \* the call each worker runs, or the result it returned
    calls, user, faults,  \* how much of each bound is used
    effects,   \* history: what guarded batches had Mail do
    touched,   \* history: the calls that had Mail change a mailbox, and the mode they ran in
    written    \* history: every row journal_write ever inserted

vars == <<at, late, seed, cache, journal, clock, readOnly, call,
          calls, user, faults, effects, touched, written>>
mailVars == <<at, late, seed>>
historyVars == <<effects, touched, written>>
journalVars == <<journal, clock>>
boundVars == <<calls, user, faults>>

Picked == [id : Ids, box : Boxes]
Row == [ts : Nat, batch : Nat, id : Ids, account : Accounts,
        from : Names, to : Names, undone : BOOLEAN]
Effect == [no : Nat, id : Ids, copy : Copies,
           from : Boxes \cup {Gone}, to : Boxes \cup {Gone}]
Touch == [req : Requests, readOnly : BOOLEAN]
Outcomes == {"none", "ok", "preview", "ReadOnlyMode", "BatchLimitExceeded",
             "ConfirmationRequired", "UndoFailed", "error"}
Call == [pc : {"idle", "resolve", "search", "remember", "apply", "journal", "rank", "drop",
               "empty", "undo", "undo_search", "undo_remember", "unmove", "mark", "done"},
         req : Requests \cup {None},
         no : Nat,                    \* the call; also the batch_id it journals under
         todo : Seq(Ids),             \* ids still to resolve
         tries : SUBSET Attempt,      \* resolve(): the attempts before the broad scan
         here : Boxes \cup {None},    \* where resolve() found the message
         resolved : Seq(Picked),      \* resolved, and not yet applied
         stale : SUBSET Nat,          \* the batches journal_write is about to prune
         rows : SUBSET Row,           \* undo: rows still to reverse
         succeeded : SUBSET Ids,
         failed : SUBSET Ids,
         outcome : Outcomes]

Idle == [pc |-> "idle", req |-> None, no |-> 0, todo |-> <<>>, tries |-> {}, here |-> None,
         resolved |-> <<>>, stale |-> {}, rows |-> {}, succeeded |-> {}, failed |-> {},
         outcome |-> "none"]

Init ==
    /\ at = InitAt
    /\ late = {}
    /\ seed = [id \in Ids |-> None]
    /\ cache = [id \in Ids |-> [b \in Boxes |-> 0]]
    /\ journal = {}
    /\ clock = 0
    /\ readOnly \in {FALSE} \cup (IF "restart" \in Faults THEN {TRUE} ELSE {})
    /\ call = [w \in Workers |-> Idle]
    /\ calls = 0 /\ user = 0 /\ faults = 0
    /\ effects = {} /\ touched = {} /\ written = {}

-----------------------------------------------------------------------------
(***************************************************************************)
(* What the steps share                                                    *)
(***************************************************************************)
Resting(w) == call[w].pc \in {"idle", "done"}

Become(w, c) == call' = [call EXCEPT ![w] = c]

Return(w, outcome) == Become(w, [call[w] EXCEPT !.pc = "done", !.outcome = outcome])

Fault(kind) ==
    /\ kind \in Faults
    /\ faults < MaxFaults
    /\ faults' = faults + 1
    /\ UNCHANGED <<calls, user>>

Reversible(req) == req.op \in {"move", "move_to_trash"}

\* apply() of the batch operations: where Mail puts the message.
Destination(req, r) ==
    CASE req.op = "move" ->
           findMailboxDeep(IF req.toAccount = None THEN AccountOf(r.box) ELSE req.toAccount,
                           req.toMailbox)
      [] req.op = "move_to_trash" -> findMailbox(AccountOf(r.box), Trash)
      [] OTHER -> {Gone}   \* delete_permanent

\* Mutants of UndoRecord: no destination for trash; origin and destination swapped.
UndoRecordNoTarget(no, req, r) ==
    [ts |-> clock + 1, batch |-> no, id |-> r.id, account |-> AccountOf(r.box),
     from |-> NameOf(r.box), to |-> req.toMailbox, undone |-> FALSE]
UndoRecordSwapped(no, req, r) ==
    [ts |-> clock + 1, batch |-> no, id |-> r.id, account |-> AccountOf(r.box),
     from |-> IF req.op = "move" THEN req.toMailbox ELSE Trash,
     to |-> NameOf(r.box), undone |-> FALSE]

\* undo_record() of move_email and manage_trash.
UndoRecord(no, req, r) ==
    [ts |-> clock + 1, batch |-> no, id |-> r.id, account |-> AccountOf(r.box),
     from |-> NameOf(r.box),
     to |-> IF req.op = "move" THEN req.toMailbox ELSE Trash, undone |-> FALSE]

EffectOf(no, r, c, box) == [no |-> no, id |-> r.id, copy |-> c, from |-> at[c], to |-> box]

\* The call has Mail change a mailbox.
TouchedBy(w) == touched' = touched \cup {[req |-> call[w].req, readOnly |-> readOnly]}

\* Mutant: the first attempt decides.
SearchOnce(w, id, found, failing) ==
    \E t \in NextAttempts(call[w].tries) :
        LET hits == resolveMessage(at, id, t.account, t.mailbox)
        IN  \/ \E m \in hits :
                 /\ hits = {m}
                 /\ Become(w, [call[w] EXCEPT !.pc = found, !.tries = {}, !.here = at[m]])
            \/ /\ \A m \in hits : hits # {m}
               /\ Become(w, failing)

\* One JXA call of resolve(): the only hit is found, no hit leads to the
\* next attempt; several hits, or none in the broad scan, fail the message.
SearchNext(w, id, found, failing) ==
    LET c == call[w]
    IN  \E t \in NextAttempts(c.tries) :
          LET hits == resolveMessage(at, id, t.account, t.mailbox)
          IN  \/ \E m \in hits :
                   /\ hits = {m}
                   /\ Become(w, [c EXCEPT !.pc = found, !.tries = {}, !.here = at[m]])
              \/ /\ hits = {} /\ c.tries # {}
                 /\ Become(w, [c EXCEPT !.tries = @ \ {t}])
              \/ /\ \A m \in hits : hits # {m}
                 /\ hits = {} => c.tries = {}
                 /\ Become(w, failing)

\* _prune_old_batches: batches are ranked by their latest row.
NewerBatches(j, b) ==
    {r.batch : r \in {q \in j : \A p \in j : p.batch = b => p.ts < q.ts}}

\* Mutants: keeps one batch too few; DELETE ... WHERE batch_id NOT IN the kept.
StaleOneTooMany(j) ==
    {r.batch : r \in {q \in j : MaxBatches <= Cardinality(NewerBatches(j, q.batch)) + 1}}
StaleAllOthers(j) ==
    (1..MaxCalls) \ {r.batch : r \in {q \in j : Cardinality(NewerBatches(j, q.batch)) < MaxBatches}}

StaleBatches(j) ==
    {r.batch : r \in {q \in j : MaxBatches <= Cardinality(NewerBatches(j, q.batch))}}

\* ORDER BY ts: the row an undo works on.
FirstRows(rows) == {r \in rows : \A q \in rows : r.ts <= q.ts}

-----------------------------------------------------------------------------
(***************************************************************************)
(* A batch operation: resolve every id, guard, then apply and journal      *)
(* one message at a time.                                                  *)
(***************************************************************************)
\* _require_writable: a read-only server refuses before it resolves.
BeginBatch(w, req) ==
    /\ Resting(w) /\ calls < MaxCalls
    /\ req.op \in {"move", "move_to_trash", "delete_permanent"}
    /\ calls' = calls + 1
    /\ Become(w, [Idle EXCEPT !.req = req, !.no = calls + 1, !.todo = req.ids,
                    !.pc = IF readOnly THEN "done" ELSE "resolve",
                    !.outcome = IF readOnly THEN "ReadOnlyMode" ELSE "none"])
    /\ UNCHANGED <<mailVars, cache, journalVars, readOnly, user, faults, historyVars>>

\* resolve() reads the index and the cache once, and lists its attempts.
LookUp(w) ==
    LET c == call[w]
    IN  /\ c.pc = "resolve" /\ c.todo # <<>>
        /\ Become(w, [c EXCEPT !.pc = "search",
                        !.tries = Attempts(cache, seed, Head(c.todo),
                                           c.req.account, c.req.mailbox)])
        /\ UNCHANGED <<mailVars, cache, journalVars, readOnly, boundVars, historyVars>>

\* _resolve_many goes on with the next id.
IdFailed(c) == [c EXCEPT !.pc = "resolve", !.tries = {}, !.todo = Tail(@),
                         !.failed = @ \cup {Head(c.todo)}]

Search(w) ==
    /\ call[w].pc = "search"
    /\ SearchNext(w, Head(call[w].todo), "remember", IdFailed(call[w]))
    /\ UNCHANGED <<mailVars, cache, journalVars, readOnly, boundVars, historyVars>>

\* _cache_put and its commit.
Remember(w) ==
    LET c == call[w]
        id == Head(c.todo)
    IN  /\ c.pc = "remember"
        /\ cache' = CachePut(cache, id, c.here)
        /\ Become(w, [c EXCEPT !.pc = "resolve", !.todo = Tail(@), !.here = None,
                        !.resolved = Append(@, [id |-> id, box |-> c.here])])
        /\ UNCHANGED <<mailVars, journalVars, readOnly, boundVars, historyVars>>

\* Mutant: the id is dropped without a word.
ResolveTimeoutSilent(w) ==
    /\ call[w].pc = "search"
    /\ Fault("timeout")
    /\ Become(w, [call[w] EXCEPT !.pc = "resolve", !.tries = {}, !.todo = Tail(@)])
    /\ UNCHANGED <<mailVars, cache, journalVars, readOnly, historyVars>>

\* A JXA search timed out or failed: the id has failed.
ResolveTimeout(w) ==
    /\ call[w].pc = "search"
    /\ Fault("timeout")
    /\ Become(w, IdFailed(call[w]))
    /\ UNCHANGED <<mailVars, cache, journalVars, readOnly, historyVars>>

\* The commit of resolve_cache met a locked database: not one of the typed
\* errors, so the whole call raises.
ResolveLocked(w) ==
    /\ call[w].pc = "remember"
    /\ Fault("locked")
    /\ Return(w, "error")
    /\ UNCHANGED <<mailVars, cache, journalVars, readOnly, historyVars>>

Guard(w) ==
    LET c == call[w]
        verdict == guardVerdict(readOnly, c.req, Len(c.resolved))
    IN  /\ c.pc = "resolve" /\ c.todo = <<>>
        /\ IF verdict = "proceed" THEN Become(w, [c EXCEPT !.pc = "apply"])
                                  ELSE Return(w, verdict)
        /\ UNCHANGED <<mailVars, cache, journalVars, readOnly, boundVars, historyVars>>

\* apply_fn(r): the handle is looked up again, and any hit is hits[0].
ApplyOne(w) ==
    LET c == call[w]
        r == Head(c.resolved)
        hits == getMessageHandle(at, r.id, r.box)
        target == Destination(c.req, r)
    IN  /\ c.pc = "apply" /\ c.resolved # <<>>
        /\ \/ \E m \in hits, box \in target :
                /\ at' = [at EXCEPT ![m] = box]
                /\ effects' = effects \cup {EffectOf(c.no, r, m, box)}
                /\ TouchedBy(w)
                /\ IF Reversible(c.req)
                     THEN Become(w, [c EXCEPT !.pc = "journal"])
                     ELSE Become(w, [c EXCEPT !.resolved = Tail(@),
                                       !.succeeded = @ \cup {r.id}])
           \/ /\ hits = {} \/ target = {}
              /\ Become(w, [c EXCEPT !.resolved = Tail(@), !.failed = @ \cup {r.id}])
              /\ UNCHANGED <<at, effects, touched>>
        /\ UNCHANGED <<late, seed, cache, journalVars, readOnly, boundVars, written>>

\* Mutant: the message is tried again after the timeout.
ApplyTimeoutRetried(w) ==
    LET c == call[w]
        r == Head(c.resolved)
    IN  /\ c.pc = "apply" /\ c.resolved # <<>>
        /\ Fault("timeout")
        /\ \E m \in getMessageHandle(at, r.id, r.box), box \in Destination(c.req, r) :
             /\ late' = late \cup {<<m, box>>}
             /\ effects' = effects \cup {EffectOf(c.no, r, m, box)}
             /\ TouchedBy(w)
        /\ UNCHANGED <<at, seed, cache, journalVars, readOnly, call, written>>

\* The call is killed after Mail was told: guard() records a failure, and
\* Mail may still carry the command out, now or later, or never.
ApplyTimeout(w) ==
    LET c == call[w]
        r == Head(c.resolved)
    IN  /\ c.pc = "apply" /\ c.resolved # <<>>
        /\ Fault("timeout")
        /\ \E m \in getMessageHandle(at, r.id, r.box), box \in Destination(c.req, r) :
             /\ late' = late \cup {<<m, box>>}
             /\ effects' = effects \cup {EffectOf(c.no, r, m, box)}
             /\ TouchedBy(w)
        /\ Become(w, [c EXCEPT !.resolved = Tail(@), !.failed = @ \cup {r.id}])
        /\ UNCHANGED <<at, seed, cache, journalVars, readOnly, written>>

\* The message counts as succeeded once journal_write has returned.
Journaled(c) == [c EXCEPT !.pc = "apply", !.stale = {}, !.resolved = Tail(@),
                          !.succeeded = @ \cup {Head(c.resolved).id}]

\* journal_write: the INSERT and its commit.
JournalInsert(w) ==
    LET c == call[w]
        row == UndoRecord(c.no, c.req, Head(c.resolved))
    IN  /\ c.pc = "journal"
        /\ clock' = clock + 1
        /\ journal' = journal \cup {row}
        /\ written' = written \cup {row}
        /\ Become(w, [c EXCEPT !.pc = "rank"])
        /\ UNCHANGED <<mailVars, cache, readOnly, boundVars, effects, touched>>

\* _prune_old_batches: the SELECT that ranks the batches of that moment.
RankBatches(w) ==
    LET c == call[w]
        stale == StaleBatches(journal)
    IN  /\ c.pc = "rank"
        /\ Become(w, IF stale = {} THEN Journaled(c)
                     ELSE [c EXCEPT !.pc = "drop", !.stale = stale])
        /\ UNCHANGED <<mailVars, cache, journalVars, readOnly, boundVars, historyVars>>

\* _prune_old_batches: DELETE ... WHERE batch_id = ?, whatever the batches hold
\* by now, and its commit.
DropStale(w) ==
    LET c == call[w]
    IN  /\ c.pc = "drop"
        /\ journal' = {r \in journal : r.batch \notin c.stale}
        /\ Become(w, Journaled(c))
        /\ UNCHANGED <<mailVars, cache, clock, readOnly, boundVars, historyVars>>

\* The database is locked past busy_timeout, at the INSERT or at the DELETE:
\* sqlite3's error ends the call with the rest of the batch unapplied.
JournalLocked(w) ==
    /\ call[w].pc \in {"journal", "drop"}
    /\ Fault("locked")
    /\ Return(w, "error")
    /\ UNCHANGED <<mailVars, cache, journalVars, readOnly, historyVars>>

Finish(w) ==
    /\ call[w].pc = "apply" /\ call[w].resolved = <<>>
    /\ Return(w, "ok")
    /\ UNCHANGED <<mailVars, cache, journalVars, readOnly, boundVars, historyVars>>

-----------------------------------------------------------------------------
(***************************************************************************)
(* empty_trash: count, gate, then delete whatever is in the trash by then. *)
(***************************************************************************)
BeginEmptyTrash(w, req) ==
    LET verdict == IF ~readOnly /\ findMailbox(req.account, Trash) = {} THEN "error"
                   ELSE guardVerdict(readOnly, req, 0)
    IN  /\ Resting(w) /\ calls < MaxCalls
        /\ req.op = "empty_trash"
        /\ calls' = calls + 1
        /\ Become(w, [Idle EXCEPT !.req = req, !.no = calls + 1,
                        !.pc = IF verdict = "proceed" THEN "empty" ELSE "done",
                        !.outcome = IF verdict = "proceed" THEN "none" ELSE verdict])
        /\ UNCHANGED <<mailVars, cache, journalVars, readOnly, user, faults, historyVars>>

EmptyTrash(w) ==
    LET trash == findMailbox(call[w].req.account, Trash)
    IN  /\ call[w].pc = "empty"
        /\ at' = [c \in Copies |-> IF at[c] \in trash THEN Gone ELSE at[c]]
        /\ TouchedBy(w)
        /\ Return(w, "ok")
        /\ UNCHANGED <<late, seed, cache, journalVars, readOnly, boundVars, effects, written>>

\* Killed while it deletes one message after the other.
EmptyTrashTimeout(w) ==
    LET trash == findMailbox(call[w].req.account, Trash)
    IN  /\ call[w].pc = "empty"
        /\ Fault("timeout")
        /\ \E some \in SUBSET {c \in Copies : at[c] \in trash} :
             at' = [c \in Copies |-> IF c \in some THEN Gone ELSE at[c]]
        /\ TouchedBy(w)
        /\ Return(w, "error")
        /\ UNCHANGED <<late, seed, cache, journalVars, readOnly, effects, written>>

-----------------------------------------------------------------------------
(***************************************************************************)
(* undo_last: pick a batch, read its rows once, reverse them one by one.   *)
(* It is given no configuration: nothing here reads readOnly.              *)
(***************************************************************************)
Pending == {r \in journal : ~r.undone}

\* Mutant: oldest batch first.
TargetOldest(req) ==
    IF req.batch # 0 THEN req.batch
    ELSE (CHOOSE r \in Pending : \A q \in Pending : r.ts <= q.ts).batch

\* batch_id, or the batch of the newest row that is not undone.
TargetBatch(req) ==
    IF req.batch # 0 THEN req.batch
    ELSE (CHOOSE r \in Pending : \A q \in Pending : q.ts <= r.ts).batch

BeginUndo(w, req) ==
    LET rows == IF Pending = {} THEN {}
                ELSE {r \in Pending : r.batch = TargetBatch(req)}
    IN  /\ Resting(w) /\ calls < MaxCalls
        /\ req.op = "undo_last"
        /\ calls' = calls + 1
        /\ LET c == [Idle EXCEPT !.req = req, !.no = calls + 1]
           IN  Become(w, IF rows = {} THEN [c EXCEPT !.pc = "done", !.outcome = "UndoFailed"]
                         ELSE IF req.dryRun THEN [c EXCEPT !.pc = "done", !.outcome = "preview"]
                         ELSE [c EXCEPT !.pc = "undo", !.rows = rows])
        /\ UNCHANGED <<mailVars, cache, journalVars, readOnly, user, faults, historyVars>>

\* Mutant: the row stays at the head of the work.
DropRowKept(c, row) == [c EXCEPT !.pc = "undo", !.tries = {}, !.here = None]

\* The row is done with, one way or the other.
DropRow(c, row) == [c EXCEPT !.pc = "undo", !.rows = @ \ {row}, !.tries = {}, !.here = None]

RowFailed(c, row) == [DropRow(c, row) EXCEPT !.failed = @ \cup {row.id}]

\* _undo_move resolves with the recorded account and the mailbox moved to.
UndoLookUp(w) == \E row \in FirstRows(call[w].rows) :
    /\ call[w].pc = "undo"
    /\ Become(w, [call[w] EXCEPT !.pc = "undo_search",
                    !.tries = Attempts(cache, seed, row.id, row.account, row.to)])
    /\ UNCHANGED <<mailVars, cache, journalVars, readOnly, boundVars, historyVars>>

UndoSearch(w) == \E row \in FirstRows(call[w].rows) :
    /\ call[w].pc = "undo_search"
    /\ SearchNext(w, row.id, "undo_remember", RowFailed(call[w], row))
    /\ UNCHANGED <<mailVars, cache, journalVars, readOnly, boundVars, historyVars>>

UndoRemember(w) == \E row \in FirstRows(call[w].rows) :
    /\ call[w].pc = "undo_remember"
    /\ cache' = CachePut(cache, row.id, call[w].here)
    /\ Become(w, [call[w] EXCEPT !.pc = "unmove"])
    /\ UNCHANGED <<mailVars, journalVars, readOnly, boundVars, historyVars>>

\* Any exception, a locked database included, fails the row only.
UndoResolveFault(w) == \E row \in FirstRows(call[w].rows) :
    /\ \/ call[w].pc = "undo_search" /\ Fault("timeout")
       \/ call[w].pc = "undo_remember" /\ Fault("locked")
    /\ Become(w, RowFailed(call[w], row))
    /\ UNCHANGED <<mailVars, cache, journalVars, readOnly, historyVars>>

\* moveEmail back to the recorded mailbox of the recorded account.
Origin(row) == findMailboxDeep(row.account, row.from)

UndoMove(w) == \E row \in FirstRows(call[w].rows) :
    LET c == call[w]
        hits == getMessageHandle(at, row.id, c.here)
    IN  /\ c.pc = "unmove"
        /\ \/ \E m \in hits, box \in Origin(row) :
                /\ at' = [at EXCEPT ![m] = box]
                /\ TouchedBy(w)
                /\ Become(w, [c EXCEPT !.pc = "mark"])
           \/ /\ hits = {} \/ Origin(row) = {}
              /\ Become(w, RowFailed(c, row))
              /\ UNCHANGED <<at, touched>>
        /\ UNCHANGED <<late, seed, cache, journalVars, readOnly, boundVars, effects, written>>

UndoMoveTimeout(w) == \E row \in FirstRows(call[w].rows) :
    LET c == call[w]
    IN  /\ c.pc = "unmove"
        /\ Fault("timeout")
        /\ \E m \in getMessageHandle(at, row.id, c.here), box \in Origin(row) :
             late' = late \cup {<<m, box>>}
        /\ TouchedBy(w)
        /\ Become(w, RowFailed(c, row))
        /\ UNCHANGED <<at, seed, cache, journalVars, readOnly, effects, written>>

\* Mutant: WHERE batch_id = ?
UndoMarkBatch(w) == \E row \in FirstRows(call[w].rows) :
    LET c == call[w]
    IN  /\ c.pc = "mark"
        /\ journal' = {IF r.batch = row.batch THEN [r EXCEPT !.undone = TRUE] ELSE r
                        : r \in journal}
        /\ Become(w, [DropRow(c, row) EXCEPT !.succeeded = @ \cup {row.id}])
        /\ UNCHANGED <<mailVars, cache, clock, readOnly, boundVars, historyVars>>

\* UPDATE undo_journal SET undone = 1 ... WHERE id = ?
UndoMark(w) == \E row \in FirstRows(call[w].rows) :
    LET c == call[w]
    IN  /\ c.pc = "mark"
        /\ journal' = {IF r.ts = row.ts THEN [r EXCEPT !.undone = TRUE] ELSE r : r \in journal}
        /\ Become(w, [DropRow(c, row) EXCEPT !.succeeded = @ \cup {row.id}])
        /\ UNCHANGED <<mailVars, cache, clock, readOnly, boundVars, historyVars>>

\* The update is outside the try: a locked database ends the call.
UndoMarkLocked(w) ==
    /\ call[w].pc = "mark"
    /\ Fault("locked")
    /\ Return(w, "error")
    /\ UNCHANGED <<mailVars, cache, journalVars, readOnly, historyVars>>

UndoFinish(w) ==
    /\ call[w].pc = "undo" /\ call[w].rows = {}
    /\ Return(w, "ok")
    /\ UNCHANGED <<mailVars, cache, journalVars, readOnly, boundVars, historyVars>>

-----------------------------------------------------------------------------
(***************************************************************************)
(* The world around the server                                             *)
(***************************************************************************)
\* The user, a mail rule or a delivery moves, deletes or brings a copy.
UserMove(c, box) ==
    /\ user < MaxUser /\ at[c] # box
    /\ at' = [at EXCEPT ![c] = box]
    /\ user' = user + 1
    /\ UNCHANGED <<late, seed, cache, journalVars, readOnly, call, calls, faults, historyVars>>

\* Mail carries out a command whose osascript was killed.
LateEffect(c, box) ==
    /\ <<c, box>> \in late
    /\ late' = late \ {<<c, box>>}
    /\ at' = IF at[c] = Gone THEN at ELSE [at EXCEPT ![c] = box]
    /\ UNCHANGED <<seed, cache, journalVars, readOnly, call, boundVars, historyVars>>

\* The indexer catches up with one message.
Reindex(id, name) ==
    /\ LET onDisk == {NameOf(at[c]) : c \in {d \in Copies : IdOf[d] = id /\ at[d] # Gone}}
       IN  name \in IF onDisk = {} THEN {None} ELSE onDisk
    /\ seed[id] # name
    /\ seed' = [seed EXCEPT ![id] = name]
    /\ UNCHANGED <<at, late, cache, journalVars, readOnly, call, boundVars, historyVars>>

\* The process ends at any point and is started again, perhaps --read-only.
Restart ==
    /\ Fault("restart")
    /\ call' = [w \in Workers |-> Idle]
    /\ readOnly' \in BOOLEAN
    /\ UNCHANGED <<mailVars, cache, journalVars, historyVars>>

Begin(w) == \E req \in Requests :
    BeginBatch(w, req) \/ BeginEmptyTrash(w, req) \/ BeginUndo(w, req)

\* The steps that carry a call on: the worker never waits for a client here.
Work(w) ==
    \/ LookUp(w) \/ Search(w) \/ Remember(w) \/ Guard(w) \/ ApplyOne(w)
    \/ JournalInsert(w) \/ RankBatches(w) \/ DropStale(w) \/ Finish(w)
    \/ EmptyTrash(w)
    \/ UndoLookUp(w) \/ UndoSearch(w) \/ UndoRemember(w)
    \/ UndoMove(w) \/ UndoMark(w) \/ UndoFinish(w)

Disturbed(w) ==
    \/ ResolveTimeout(w) \/ ResolveLocked(w) \/ ApplyTimeout(w) \/ JournalLocked(w)
    \/ EmptyTrashTimeout(w)
    \/ UndoResolveFault(w) \/ UndoMoveTimeout(w) \/ UndoMarkLocked(w)

Next ==
    \/ \E w \in Workers : Begin(w) \/ Work(w) \/ Disturbed(w)
    \/ \E c \in Copies, box \in Boxes \cup {Gone} : UserMove(c, box) \/ LateEffect(c, box)
    \/ \E id \in Ids, name \in Names \cup {None} : Reindex(id, name)
    \/ Restart

Spec == Init /\ [][Next]_vars

\* A started call is carried on: JXA calls are bounded by timeouts and the
\* pool keeps running its threads.
FairSpec == Spec /\ \A w \in Workers : WF_vars(Work(w))

-----------------------------------------------------------------------------
(***************************************************************************)
(* Properties                                                              *)
(***************************************************************************)
\* Every variable has its type.
TypeOK ==
    /\ at \in [Copies -> Boxes \cup {Gone}]
    /\ late \subseteq Copies \X (Boxes \cup {Gone})
    /\ seed \in [Ids -> Names \cup {None}]
    /\ cache \in [Ids -> [Boxes -> Nat]]
    /\ journal \subseteq Row
    /\ clock \in Nat
    /\ readOnly \in BOOLEAN
    /\ call \in [Workers -> Call]
    /\ calls \in Nat /\ user \in Nat /\ faults \in Nat
    /\ effects \subseteq Effect
    /\ touched \subseteq Touch
    /\ written \subseteq Row

EffectsOf(no) == {e \in effects : e.no = no}

\* The batch limits bound what one call does to the mailbox, whatever
\* matches, arrives, fails or times out while it runs: guard() counts the
\* resolved messages, and the loop after it has Mail touch at most as many
\* copies (core/safety.py:97-104, 132-143).
BatchLimitBoundsDamage ==
    \A w \in Workers :
        LET no == call[w].no
        IN  EffectsOf(no) # {} =>
              Cardinality({e.copy : e \in EffectsOf(no)}) <= limit(call[w].req)

\* One requested message costs at most one physical copy: when a call names
\* an id once, at most one copy with that Message-ID is touched, although
\* several may match by the time the handle is looked up again.
OneCopyPerRequest ==
    \A w \in Workers : \A e, f \in EffectsOf(call[w].no) :
        /\ e.id = f.id /\ e.copy # f.copy
        => \E i, j \in DOMAIN call[w].req.ids :
             i # j /\ call[w].req.ids[i] = e.id /\ call[w].req.ids[j] = e.id

\* At least MaxBatches other batches were journaled after the row.
Superseded(row) ==
    MaxBatches <= Cardinality({r.batch : r \in {q \in written : q.ts > row.ts}})

Kept(row) == \E r \in journal : r.ts = row.ts

\* What the client was told succeeded can be found again: each id a
\* reversible call reports as succeeded has a row of that batch in the
\* journal, unless MaxBatches other batches were journaled after it.  So it
\* is while one worker acts.
SuccessIsUndoable ==
    \A w \in Workers :
        LET c == call[w]
        IN  \A id \in c.succeeded :
              Reversible(c.req) => \E row \in written :
                 /\ row.batch = c.no /\ row.id = id
                 /\ Superseded(row) \/ Kept(row)

\* Several workers rank and prune without a lock (core/undo.py:58-70): a
\* ranking made before the row was inserted may take it along, but only when
\* its batch had rows of that age.  A row that was reported is gone only when
\* at least MaxBatches batches were journaled after some row of its batch.
OnlyOldBatchesAreLost ==
    \A w \in Workers :
        LET c == call[w]
        IN  \A id \in c.succeeded :
              Reversible(c.req) => \E row \in written :
                 /\ row.batch = c.no /\ row.id = id
                 /\ Kept(row) \/ \E q \in written : q.batch = c.no /\ Superseded(q)

\* A journal row tells the truth about where the message was: the mailbox it
\* would be returned to is the one Mail took a copy of it from, although the
\* row is built from what resolve() saw some steps before.
JournalTellsOrigin ==
    \A row \in written : \E e \in effects :
        /\ e.no = row.batch /\ e.id = row.id
        /\ e.from = <<row.account, row.from>>

\* No mailbox is changed for a preview or for an unconfirmed deletion, and
\* while the server is read-only for undo_last only, which no gate holds back:
\* batches and empty_trash alike pass theirs before any message is touched
\* (core/safety.py:93-126, write/organize.py:285-318).
OnlyAdmittedCallsTouchMail ==
    \A t \in touched :
        /\ ~t.req.dryRun
        /\ t.req.op \in RequireConfirm => t.req.confirm
        /\ t.readOnly => t.req.op = "undo_last"

\* A finished call accounts for every id it was given.
EveryIdAccounted ==
    \A w \in Workers :
        LET c == call[w]
        IN  c.outcome = "ok" /\ c.req.op \in {"move", "move_to_trash", "delete_permanent"}
            => c.succeeded \cup c.failed = Range(c.req.ids)

\* Undoing newest-first takes everything back: once no journaled move is
\* left to undo, every copy is where it was at the start, if nothing failed.
UndoAllRestores ==
    (faults = 0 /\ Pending = {} /\ \A w \in Workers : Resting(w)) => at = InitAt

\* A row is marked undone only when the message is back where it came from,
\* also when an earlier attempt moved it and stopped before the mark.
UndoneMeansRestored ==
    [][\A r \in journal :
          (~r.undone /\ [r EXCEPT !.undone = TRUE] \in journal')
             => \E c \in Copies : IdOf[c] = r.id /\ at[c] \in Origin(r)]_vars

\* Every call ends: each of its steps either advances it or fails it.
CallsEnd ==
    \A w \in Workers : ~Resting(w) ~> Resting(w)

\* An undo that nothing disturbs never fails: every journaled move can be
\* found where it went and taken back.
UndisturbedUndoSucceeds ==
    \A w \in Workers :
        faults = 0 /\ call[w].req # None /\ call[w].req.op = "undo_last"
        => call[w].failed = {}

-----------------------------------------------------------------------------
(***************************************************************************)
(* What the documentation promises and the code does not keep; the run     *)
(* that checks it ends in a counterexample.                                *)
(***************************************************************************)
\* "batch limits and read-only still apply to undo" (core/undo.py:3): while
\* the server is read-only only the user changes the mailbox.
ReadOnlyLeavesMailAlone ==
    [][readOnly /\ at' # at => user' # user]_vars

=============================================================================
