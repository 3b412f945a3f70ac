----------------------------- MODULE IndexSessions -----------------------------
(***************************************************************************)
(* The connections to index.db and the transactions Python's sqlite3 opens *)
(* on them.  An INSERT, UPDATE or DELETE begins a transaction, commit()    *)
(* ends it, and nothing in the program ever rolls one back.  The file is in*)
(* WAL mode: one connection writes at a time, and a transaction that has   *)
(* read keeps the snapshot it read from.                                   *)
(*                                                                         *)
(* What the statements say is left out: a job is the order in which it     *)
(* reads, writes, commits and works on something else.                     *)
(***************************************************************************)
EXTENDS Integers, Sequences

CONSTANTS
    None,
    Watchers,       \* threads of the watch loop
    Tools,          \* threads that run tool calls
    Commands,       \* processes that run one command of the shell
    Requests,       \* the jobs each of these is asked for
    Connections,
    ConnOf,         \* the connection of each of them
    Backfills,      \* the backfills the configuration enables
    Polling,        \* no watchfiles: tick every 30 s whatever happens
    MaxTimeouts,    \* bound: writes that wait for longer than busy_timeout
    MaxRaises       \* bound: work outside the database that raises

Procs == Watchers \cup Tools \cup Commands

ASSUME SessionsAssumption ==
    /\ ConnOf \in [Procs -> Connections]
    /\ None \notin Connections
    /\ \A p \in Watchers \cup Commands, q \in Procs : ConnOf[p] = ConnOf[q] => p = q
    /\ Watchers \cap Tools = {} /\ Watchers \cap Commands = {} /\ Tools \cap Commands = {}
    /\ Backfills \subseteq {"embed", "extract"}
    /\ Polling \in BOOLEAN
    /\ MaxTimeouts \in Nat /\ MaxRaises \in Nat

VARIABLES
    owner,      \* the connection that holds the write lock
    txn,        \* connection -> state of its transaction
    behind,     \* connection -> others have committed since its snapshot
    job,        \* process -> what it runs
    step,       \* process -> the step it is at
    last,       \* watcher -> how its last tick ended
    events,     \* watchfiles has changes to report
    timeouts, raises

dbVars == <<owner, txn, behind>>
vars == <<dbVars, job, step, last, events, timeouts, raises>>

-----------------------------------------------------------------------------
(***************************************************************************)
(* The jobs.  build_index() reads on with a dead letter written, and ends  *)
(* with set_sync_state(); extract_backfill() reads attachments between two *)
(* updates, embed_backfill() runs its model after an update.               *)
(***************************************************************************)
BuildIndex == <<"read", "write", "work", "write", "commit", "read", "write", "commit">>
EmbedBackfill == <<"write", "commit", "read", "write", "work", "write", "commit">>
ExtractBackfill == <<"read", "work", "write", "work", "write", "commit">>
MarkTick == <<"write", "commit">>

\* "find" is a SELECT whose result may end the call, "ask" work that may:
\* osascript, files, HTTP.
Query == <<"read">>
ReadFiles == <<"find", "ask">>
RankByVectors == <<"read", "ask", "read", "read">>

\* MUTANT: the cache of resolve() is not committed.
ResolveOpen == <<"read", "ask", "write">>

\* resolve() caches whatever it has found; journal_write() prunes old batches.
Resolve == <<"read", "ask", "write", "commit">>
JournalWrite == <<"write", "commit", "find", "write", "commit">>

AskMail == <<"ask">>
ResolveAndAsk == Resolve \o <<"ask">>
Move == Resolve \o <<"ask">> \o JournalWrite
UpdateStatus == Resolve \o <<"ask", "read">> \o JournalWrite
SetFlagColor == UpdateStatus \o <<"write", "commit">>
UndoLast == <<"find">> \o Resolve \o <<"ask", "write", "commit">>

IndexJobs == {"build", "mark", "embed", "extract"}
Calls == {"query", "files", "vectors", "mail", "reply", "move", "status", "flag", "undo"}
Jobs == IndexJobs \cup Calls

StepsOf ==
    [build |-> BuildIndex, mark |-> MarkTick, embed |-> EmbedBackfill,
     extract |-> ExtractBackfill, query |-> Query, files |-> ReadFiles,
     vectors |-> RankByVectors, mail |-> AskMail, reply |-> ResolveAndAsk, move |-> Move,
     status |-> UpdateStatus, flag |-> SetFlagColor, undo |-> UndoLast]

Steps(j) == StepsOf[j]

\* A tool makes calls; a command makes one, builds the index or extracts texts.
ASSUME RequestsAssumption ==
    Requests \in [Tools \cup Commands -> SUBSET (Calls \cup {"build", "extract"})]

-----------------------------------------------------------------------------
At(p, s) == job[p] \in Jobs /\ Steps(job[p])[step[p]] = s

\* MUTANT: the embedding backfill is run again until nothing is left.
AfterDraining(p, j) ==
    IF p \notin Watchers THEN "idle"
    ELSE IF j = "build" THEN "mark"
    ELSE IF j \in {"mark", "embed"} /\ "embed" \in Backfills THEN "embed"
    ELSE IF j \in {"mark", "embed"} /\ "extract" \in Backfills THEN "extract"
    ELSE "idle"

\* What a process goes on with: a tick marks its build and runs the backfills.
After(p, j) ==
    IF p \notin Watchers THEN "idle"
    ELSE CASE j = "build" -> "mark"
           [] j = "mark" /\ "embed" \in Backfills -> "embed"
           [] j \in {"mark", "embed"} /\ "extract" \in Backfills -> "extract"
           [] OTHER -> "idle"

\* A failed build ends the tick, a failed backfill does not.  The mark is set
\* outside of the try: the exception ends the watch loop.
AfterFailure(p, j) ==
    CASE j = "build" -> "idle"
      [] j = "mark" -> "dead"
      [] OTHER -> After(p, j)

Goto(p, j, k) == job' = [job EXCEPT ![p] = j] /\ step' = [step EXCEPT ![p] = k]

\* The watch loop logs how build_index() ended.
Ended(p, result) ==
    IF p \in Watchers /\ job[p] = "build" THEN last' = [last EXCEPT ![p] = result]
    ELSE UNCHANGED last

Advance(p) ==
    IF step[p] < Len(Steps(job[p]))
    THEN Goto(p, job[p], step[p] + 1) /\ UNCHANGED last
    ELSE /\ Goto(p, After(p, job[p]), 1)
         /\ Ended(p, "ok")

\* Nothing found, nothing to prune, a dry run, a refusal: the call ends here.
Return(p) ==
    /\ job[p] \in Calls
    /\ Goto(p, "idle", 1)
    /\ UNCHANGED last

Fail(p) ==
    /\ Goto(p, AfterFailure(p, job[p]), 1)
    /\ Ended(p, "failed")

-----------------------------------------------------------------------------
(***************************************************************************)
(* SQLite                                                                  *)
(***************************************************************************)
Stuck(c) == txn[c] = "reading" /\ behind[c]

\* MUTANT: a writer does not wait for another.
MayWriteBeside(c) == ~Stuck(c)

MayWrite(c) == owner \in {None, c} /\ ~Stuck(c)

\* An exception ends a command, or a watch loop at its mark.
Ends(p) == p \in Commands \/ job[p] = "mark"

\* The connection goes with them; others are never reset.
Close(p) ==
    LET c == ConnOf[p]
    IN  /\ txn' = [txn EXCEPT ![c] = "none"]
        /\ behind' = [behind EXCEPT ![c] = FALSE]
        /\ owner' = IF owner = c THEN None ELSE owner

\* A SELECT inside a transaction takes the snapshot the transaction keeps.
Read(p) ==
    LET c == ConnOf[p]
    IN  /\ At(p, "read") \/ At(p, "find")
        /\ IF txn[c] = "begun"
           THEN txn' = [txn EXCEPT ![c] = "reading"] /\ behind' = [behind EXCEPT ![c] = FALSE]
           ELSE UNCHANGED <<txn, behind>>
        /\ Advance(p) \/ (At(p, "find") /\ Return(p))
        /\ UNCHANGED <<owner, events, timeouts, raises>>

Write(p) ==
    LET c == ConnOf[p]
    IN  /\ At(p, "write")
        /\ MayWrite(c)
        /\ owner' = c
        /\ txn' = [txn EXCEPT ![c] = "writing"]
        /\ Advance(p)
        /\ UNCHANGED <<behind, events, timeouts, raises>>

\* "database is locked".  Without a snapshot the statement has waited for
\* busy_timeout; with one it fails at once.  The transaction stays begun.
WriteFails(p) ==
    LET c == ConnOf[p]
    IN  /\ At(p, "write")
        /\ ~MayWrite(c)
        /\ IF txn[c] = "reading"
           THEN UNCHANGED timeouts
           ELSE timeouts < MaxTimeouts /\ timeouts' = timeouts + 1
        /\ Fail(p)
        /\ IF Ends(p) THEN Close(p)
           ELSE /\ txn' = [txn EXCEPT ![c] = IF @ = "none" THEN "begun" ELSE @]
                /\ UNCHANGED <<owner, behind>>
        /\ UNCHANGED <<events, raises>>

\* Commits whatever the connection has open, by whichever thread.
Commit(p) ==
    LET c == ConnOf[p]
    IN  /\ At(p, "commit")
        /\ txn' = [txn EXCEPT ![c] = "none"]
        /\ behind' = [d \in Connections |->
                         d # c /\ txn[d] = "reading" /\ (behind[d] \/ owner = c)]
        /\ owner' = IF owner = c THEN None ELSE owner
        /\ Advance(p)
        /\ UNCHANGED <<events, timeouts, raises>>

\* Reading files, embedding, osascript.
Work(p) ==
    /\ At(p, "work") \/ At(p, "ask")
    /\ Advance(p) \/ (At(p, "ask") /\ Return(p))
    /\ UNCHANGED <<dbVars, events, timeouts, raises>>

WorkRaises(p) ==
    /\ At(p, "work") \/ At(p, "ask")
    /\ raises < MaxRaises
    /\ raises' = raises + 1
    /\ Fail(p)
    /\ IF Ends(p) THEN Close(p) ELSE UNCHANGED dbVars
    /\ UNCHANGED <<events, timeouts>>

-----------------------------------------------------------------------------
Tick(p) ==
    /\ p \in Watchers /\ job[p] = "idle"
    /\ Polling \/ events
    /\ events' = FALSE
    /\ Goto(p, "build", 1)
    /\ UNCHANGED <<dbVars, last, timeouts, raises>>

Call(p) ==
    /\ job[p] = "idle"
    /\ p \in Tools \cup Commands
    /\ \E j \in Requests[p] : Goto(p, j, 1)
    /\ UNCHANGED <<dbVars, last, events, timeouts, raises>>

MailChanges ==
    /\ events' = TRUE
    /\ UNCHANGED <<dbVars, job, step, last, timeouts, raises>>

Init ==
    /\ owner = None
    /\ txn = [c \in Connections |-> "none"]
    /\ behind = [c \in Connections |-> FALSE]
    /\ job = [p \in Procs |-> "idle"]
    /\ step = [p \in Procs |-> 1]
    /\ last = [p \in Watchers |-> "none"]
    /\ events = FALSE
    /\ timeouts = 0
    /\ raises = 0

Proceed(p) == Read(p) \/ Write(p) \/ WriteFails(p) \/ Commit(p) \/ Work(p) \/ WorkRaises(p)

Next == \/ \E p \in Procs : Tick(p) \/ Call(p) \/ Proceed(p)
        \/ MailChanges

Spec == Init /\ [][Next]_vars

\* Every job is carried on and the watch loop polls.  A write that waits gets
\* the lock when it is free, or times out.
FairSpec ==
    /\ Spec
    /\ \A p \in Procs : WF_vars(Proceed(p)) /\ SF_vars(Write(p))
    /\ \A p \in Watchers : WF_vars(Tick(p))

-----------------------------------------------------------------------------
(***************************************************************************)
(* Properties                                                              *)
(***************************************************************************)
\* Every variable has its type, and the lock is held by the one transaction
\* that has written.
TypeOK ==
    /\ owner \in Connections \cup {None}
    /\ txn \in [Connections -> {"none", "begun", "reading", "writing"}]
    /\ \A c \in Connections : txn[c] = "writing" <=> owner = c
    /\ behind \in [Connections -> BOOLEAN]
    /\ job \in [Procs -> Jobs \cup {"idle", "dead"}]
    /\ step \in [Procs -> Nat]
    /\ \A p \in Procs : job[p] \in Jobs => step[p] \in 1..Len(Steps(job[p]))
    /\ last \in [Watchers -> {"none", "ok", "failed"}]
    /\ events \in BOOLEAN
    /\ timeouts \in 0..MaxTimeouts /\ raises \in 0..MaxRaises

\* Whoever holds the write lock gives it up: no job ends and leaves the other
\* connections locked out for good, however its work fails.
LockComesFree == \A c \in Connections : owner = c ~> owner # c

\* Unless it could not set its mark, the watch loop goes on ticking after any
\* failure, and unless its connection is stuck its ticks go on succeeding.
WatchGoesOn ==
    \A p \in Watchers :
        \/ <>(job[p] = "dead")
        \/ /\ []<>(job[p] = "build")
           /\ <>Stuck(ConnOf[p]) \/ []<>(last[p] = "ok")
=============================================================================
