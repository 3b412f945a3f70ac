------------------------------ MODULE IndexBuild ------------------------------
(***************************************************************************)
(* The derived index and the builds that keep it up to date with the files *)
(* of Mail.  A builder is a connection that runs build_index(): the watcher*)
(* thread, which ticks, or the command line, which also runs full builds.  *)
(*                                                                         *)
(* A file is a version, the number of the change that wrote it; it stands  *)
(* for (mtime, size) and for the content, and renaming keeps it.  A build  *)
(* reads the disk one mailbox at a time, as Mail goes on changing it, and  *)
(* commits batch by batch.  Each transaction is one step; a build may end  *)
(* before any of them (a locked database, an unreadable directory, the end *)
(* of the process).                                                        *)
(***************************************************************************)
EXTENDS Integers, FiniteSets, Functions

CONSTANTS
    Paths,          \* paths an .emlx file may have
    Boxes,          \* mailbox directories
    BoxOf,          \* the mailbox of a path
    RowidOf,        \* the ROWID in the file name
    MessageOf,      \* the Message-ID a path's mail carries
    Excluded,       \* mailboxes of exclude_mailboxes
    Disks,          \* what the disk may hold at first
    Ticking,        \* builders that run the watch loop
    Commanded,      \* builders started by the user ...
    Full,           \* ... without or with --full
    Polling,        \* whether the watch loop may poll, or be told of changes
    Changes,        \* how Mail changes files: "write", "tear", "move", "remove"
    BATCH_SIZE,
    MaxClock, MaxFaults, MaxCommands    \* bounds of a run

Builders == Ticking \cup Commanded

ASSUME IndexAssumption ==
    /\ IsFiniteSet(Paths)
    /\ BoxOf \in [Paths -> Boxes]
    /\ DOMAIN RowidOf = Paths /\ DOMAIN MessageOf = Paths
    /\ Disks \subseteq [Paths -> 0..MaxClock]
    /\ Ticking \cap Commanded = {}
    /\ Polling \subseteq BOOLEAN /\ Full \subseteq BOOLEAN
    /\ BATCH_SIZE \in Nat \ {0}
    /\ {MaxClock, MaxFaults, MaxCommands} \subseteq Nat

VARIABLES
    disk,       \* path -> version, 0 where there is no file
    bad,        \* versions that do not parse: half-written, malformed
    polling,    \* no watchfiles: tick every 30 s whatever happens
    events,     \* watchfiles has changes to report
    rows,       \* emails: path -> [id, stamp, text], on the indexed paths
    fts,        \* emails_fts: id -> text
    dead,       \* failed_index_jobs
    triggers,   \* the triggers of emails that exist
    marks,      \* keys of sync_state that are set
    build,      \* builder -> its build
    clock, faults, commands

diskVars == <<disk, bad, polling, events, clock>>
tableVars == <<rows, fts, dead, triggers, marks>>
vars == <<diskVars, tableVars, build, faults, commands>>

-----------------------------------------------------------------------------
Triggers == {"emails_ai", "emails_ad", "emails_au"}
TriggerOrder == <<"emails_ai", "emails_ad", "emails_au">>

Row == [id : Nat \ {0}, stamp : Nat, text : Nat]

Ready == [pc |-> "idle", full |-> FALSE, left |-> {}, seen |-> [p \in Paths |-> 0],
          added |-> {}, changed |-> {}, deleted |-> {}, moved |-> {}, dirty |-> FALSE,
          batch |-> [p \in Paths |-> 0], failed |-> {}, ddl |-> 1, walk |-> {}]

Build == [pc : {"idle", "scan", "drop", "added", "changed", "delete", "move", "rebuild",
                "create", "thread", "position", "sync"},
          full : BOOLEAN, left : SUBSET (Boxes \ Excluded), seen : [Paths -> Nat],
          added : SUBSET Paths, changed : SUBSET Paths, deleted : SUBSET Paths,
          moved : SUBSET (Paths \X Paths), dirty : BOOLEAN,
          batch : [Paths -> Nat], failed : SUBSET Paths,
          ddl : 1..3, walk : SUBSET (Nat \ {0})]

Read(c) == {p \in Paths : c.batch[p] # 0}

Ids(rs) == {rs[p].id : p \in DOMAIN rs}

\* What the FTS triggers store for a set of rows.
Texts(rs, P) == [i \in {rs[p].id : p \in P} |-> rs[CHOOSE p \in P : rs[p].id = i].text]

Stored(f, g) == [i \in DOMAIN f \cup DOMAIN g |-> IF i \in DOMAIN g THEN g[i] ELSE f[i]]

Without(f, D) == Restrict(f, DOMAIN f \ D)

Become(b, r) == build' = [build EXCEPT ![b] = r]

-----------------------------------------------------------------------------
(***************************************************************************)
(* Mail changes its files at any time.                                     *)
(***************************************************************************)
Change(kind) ==
    /\ kind \in Changes
    /\ clock < MaxClock
    /\ clock' = clock + 1
    /\ events' = TRUE
    /\ UNCHANGED <<polling, tableVars, build, faults, commands>>

\* A message arrives, is rewritten, or is half-written ("tear").  A ROWID
\* names one file at a time.
Write(p, kind) ==
    /\ kind \in {"write", "tear"}
    /\ \A q \in Paths : RowidOf[q] = RowidOf[p] /\ disk[q] # 0 => q = p
    /\ disk' = [disk EXCEPT ![p] = clock + 1]
    /\ bad' = IF kind = "tear" THEN bad \cup {clock + 1} ELSE bad
    /\ Change(kind)

Move(p, q) ==
    /\ disk[p] # 0 /\ disk[q] = 0 /\ RowidOf[p] = RowidOf[q]
    /\ disk' = [disk EXCEPT ![p] = 0, ![q] = disk[p]]
    /\ UNCHANGED bad
    /\ Change("move")

Remove(p) ==
    /\ disk[p] # 0
    /\ disk' = [disk EXCEPT ![p] = 0]
    /\ UNCHANGED bad
    /\ Change("remove")

-----------------------------------------------------------------------------
(***************************************************************************)
(* inventory_diff(): the disk as it was scanned against the rows as they   *)
(* are.  Of several vanished paths with one ROWID, one is taken as the     *)
(* place its file was moved from.                                          *)
(***************************************************************************)
OnDisk(seen) == {p \in Paths : seen[p] # 0}
Missing(seen) == DOMAIN rows \ OnDisk(seen)
New(seen) == OnDisk(seen) \ DOMAIN rows

Claimable(seen) ==
    {O \in SUBSET Missing(seen) :
        /\ \A p \in Missing(seen) : \E o \in O : RowidOf[o] = RowidOf[p]
        /\ \A o1, o2 \in O : RowidOf[o1] = RowidOf[o2] => o1 = o2}

MovedOf(seen, claims) == {m \in claims \X New(seen) : RowidOf[m[1]] = RowidOf[m[2]]}

\* MUTANT: dead letters are not tried again.
AddedOnce(seen, moved) == (New(seen) \ {m[2] : m \in moved}) \ dead

AddedOf(seen, moved) == New(seen) \ {m[2] : m \in moved}

DeletedOf(seen, moved) == Missing(seen) \ {m[1] : m \in moved}

ChangedOf(seen) == {p \in OnDisk(seen) \cap DOMAIN rows : rows[p].stamp # seen[p]}

\* get_index_status(): a diff without the exclusions, and what was recorded
\* of earlier builds.  A move alone is not counted.
Pending ==
    \E claims \in Claimable(disk) :
        LET moved == MovedOf(disk, claims)
        IN  AddedOf(disk, moved) \cup DeletedOf(disk, moved) \cup ChangedOf(disk) # {}

\* MUTANT: only a full build counts.
StaleUntilFull ==
    \/ "last_full_build" \notin marks /\ DOMAIN rows # {}
    \/ Pending

Stale ==
    \/ marks \cap {"last_full_build", "last_watch_tick"} = {} /\ DOMAIN rows # {}
    \/ Pending

-----------------------------------------------------------------------------
(***************************************************************************)
(* build_index(), step by step                                             *)
(***************************************************************************)
Start(b, full) ==
    /\ build[b].pc = "idle"
    /\ Become(b, [Ready EXCEPT !.pc = "scan", !.full = full, !.left = Boxes \ Excluded])

\* A tick of the watch loop: after an event, or by the clock.
Tick(b) ==
    /\ b \in Ticking
    /\ polling \/ events
    /\ events' = FALSE
    /\ Start(b, FALSE)
    /\ UNCHANGED <<disk, bad, polling, clock, tableVars, faults, commands>>

\* index build, index build --full, index rebuild.
Command(b, full) ==
    /\ b \in Commanded /\ full \in Full
    /\ commands < MaxCommands
    /\ commands' = commands + 1
    /\ Start(b, full)
    /\ UNCHANGED <<diskVars, tableVars, faults>>

ScanBox(b, box) ==
    LET c == build[b]
    IN  /\ c.pc = "scan"
        /\ box \in c.left
        /\ Become(b, [c EXCEPT !.left = @ \ {box},
                               !.seen = [p \in Paths |-> IF BoxOf[p] = box THEN disk[p] ELSE @[p]]])
        /\ UNCHANGED <<diskVars, tableVars, faults, commands>>

Diff(b) ==
    LET c == build[b]
    IN  /\ c.pc = "scan" /\ c.left = {}
        /\ \E claims \in Claimable(c.seen) :
             LET moved   == MovedOf(c.seen, claims)
                 added   == AddedOf(c.seen, moved)
                 deleted == DeletedOf(c.seen, moved)
             IN  Become(b, [c EXCEPT !.pc = IF c.full THEN "drop" ELSE "added",
                                     !.added = added, !.changed = ChangedOf(c.seen),
                                     !.deleted = deleted, !.moved = moved,
                                     !.dirty = added \cup deleted \cup ChangedOf(c.seen) # {}
                                                 \/ moved # {}])
        /\ UNCHANGED <<diskVars, tableVars, faults, commands>>

\* Each DROP TRIGGER and CREATE TRIGGER is a transaction of its own.
DropTrigger(b) ==
    LET c == build[b]
    IN  /\ c.pc = "drop"
        /\ triggers' = triggers \ {TriggerOrder[c.ddl]}
        /\ Become(b, IF c.ddl < 3 THEN [c EXCEPT !.ddl = @ + 1]
                                  ELSE [c EXCEPT !.pc = "added", !.ddl = 1])
        /\ UNCHANGED <<diskVars, rows, fts, dead, marks, faults, commands>>

\* _index_entries() reads one file.  A file that is gone or does not parse is
\* recorded as failed, in a transaction the next commit ends.  (The parser gives
\* None only for a name without a ROWID, and such a file the scan has left out.)
Parse(b, p) ==
    LET c == build[b]
    IN  /\ c.pc \in {"added", "changed"}
        /\ p \in c[c.pc]
        /\ Cardinality(Read(c)) < BATCH_SIZE
        /\ LET read == [c EXCEPT ![c.pc] = @ \ {p}]
           IN  IF disk[p] = 0 \/ disk[p] \in bad
               THEN Become(b, [read EXCEPT !.failed = @ \cup {p}])
               ELSE Become(b, [read EXCEPT !.batch[p] = disk[p]])
        /\ UNCHANGED <<diskVars, tableVars, faults, commands>>

\* MUTANT: the file is looked at again when the row is written.
RowRestat(c, p, id) == [id |-> id, stamp |-> disk[p], text |-> c.batch[p]]

\* _row_from_parsed(): time and size as scanned, the text as read later.
RowOf(c, p, id) == [id |-> id, stamp |-> c.seen[p], text |-> c.batch[p]]

\* MUTANT: INSERT OR REPLACE instead of ON CONFLICT DO UPDATE.
FreshReplacing(c) == Read(c)

\* Rows that exist are updated in place.
Fresh(c) == Read(c) \ DOMAIN rows

\* MUTANT: the table of dead letters only grows.
DeadGrows(c, refused) == dead \cup c.failed \cup refused

\* A path that is indexed is no longer a dead letter.
DeadAfter(c, refused) == (dead \cup c.failed \cup refused) \ (Read(c) \ refused)

\* _flush_batch(): new rows take the ids after the largest.  A new row whose id
\* still has an FTS entry is refused, as are all that come after it, and they
\* are dead-lettered one by one.
FlushBatch(b) ==
    LET c == build[b]
        Taken(i) == "emails_ai" \in triggers /\ i \in DOMAIN fts
    IN  /\ c.pc \in {"added", "changed"}
        /\ Read(c) # {}
        /\ Cardinality(Read(c)) = BATCH_SIZE \/ c[c.pc] = {}
        /\ \E kept \in SUBSET Fresh(c), top \in Ids(rows) \cup {0},
              n \in 0..Cardinality(Fresh(c)) :
             \E nth \in Bijection(kept, 1..n) :
             /\ \A i \in Ids(rows) : i <= top
             /\ \A i \in 1..n : ~Taken(top + i)
             /\ kept = Fresh(c) \/ Taken(top + n + 1)
             /\ rows' = [p \in DOMAIN rows \cup kept |->
                           IF p \in kept THEN RowOf(c, p, top + nth[p])
                           ELSE IF p \in Read(c) THEN RowOf(c, p, rows[p].id)
                           ELSE rows[p]]
             /\ fts' = Stored(fts, Texts(rows',
                          (IF "emails_ai" \in triggers THEN kept ELSE {})
                            \cup (IF "emails_au" \in triggers THEN Read(c) \ Fresh(c) ELSE {})))
             /\ dead' = DeadAfter(c, Fresh(c) \ kept)
        /\ Become(b, [c EXCEPT !.batch = Ready.batch, !.failed = {}])
        /\ UNCHANGED <<diskVars, triggers, marks, faults, commands>>

EntriesDone(b) ==
    LET c == build[b]
    IN  /\ c.pc \in {"added", "changed"}
        /\ c[c.pc] = {} /\ Read(c) = {}
        /\ Become(b, [c EXCEPT !.pc = IF c.pc = "added" THEN "changed" ELSE "delete"])
        /\ UNCHANGED <<diskVars, tableVars, faults, commands>>

\* Rows of vanished paths go, whatever they hold by now.
DeleteRows(b) ==
    LET c    == build[b]
        gone == {rows[p].id : p \in c.deleted \cap DOMAIN rows}
    IN  /\ c.pc = "delete"
        /\ rows' = Without(rows, c.deleted)
        /\ fts' = IF "emails_ad" \in triggers THEN Without(fts, gone) ELSE fts
        /\ dead' = IF c.deleted = {} THEN dead ELSE dead \cup c.failed
        /\ Become(b, [c EXCEPT !.pc = "move", !.failed = IF c.deleted = {} THEN @ ELSE {}])
        /\ UNCHANGED <<diskVars, triggers, marks, faults, commands>>

\* The first claim on a row wins; a later one finds nothing to update.
Claims(moved) ==
    {M \in SUBSET moved :
        /\ \A m \in moved : \E k \in M : k[1] = m[1]
        /\ \A k1, k2 \in M : k1[1] = k2[1] => k1 = k2}

\* MUTANT: the row is copied to the new path.
RelabelledCopy(b, M) ==
    LET Old(q) == CHOOSE o \in Paths : <<o, q>> \in M
    IN  [q \in DOMAIN rows \cup {m[2] : m \in M} |->
            IF q \in DOMAIN rows THEN rows[q]
            ELSE [rows[Old(q)] EXCEPT !.stamp = build[b].seen[q]]]

\* The rows keep their id and text and take path and stamp of the new file.
Relabelled(b, M) ==
    LET from == {m[1] : m \in M} \cap DOMAIN rows
        to   == {m[2] : m \in {k \in M : k[1] \in from}}
        Old(q) == CHOOSE o \in from : <<o, q>> \in M
    IN  [q \in (DOMAIN rows \ from) \cup to |->
            IF q \in to THEN [rows[Old(q)] EXCEPT !.stamp = build[b].seen[q]] ELSE rows[q]]

Clashes(M) == {m \in M : m[1] \in DOMAIN rows /\ m[2] \in DOMAIN rows}

\* A row that is gone by now is not updated, so no trigger runs for it.
UpdatePaths(b, M) ==
    /\ rows' = Relabelled(b, M)
    /\ fts' = IF "emails_au" \in triggers
              THEN Stored(fts, Texts(rows', {m[2] : m \in {k \in M : k[1] \in DOMAIN rows}}))
              ELSE fts

MoveRows(b) ==
    LET c == build[b]
    IN  /\ c.pc = "move"
        /\ \E M \in Claims(c.moved) : Clashes(M) = {} /\ UpdatePaths(b, M)
        /\ dead' = IF c.moved = {} THEN dead ELSE dead \cup c.failed
        /\ Become(b, [c EXCEPT !.pc = IF c.full THEN "rebuild" ELSE "thread",
                               !.failed = IF c.moved = {} THEN @ ELSE {}])
        /\ UNCHANGED <<diskVars, triggers, marks, faults, commands>>

\* emlx_path is unique: where another builder has the new path indexed by now,
\* the UPDATE raises and the build ends.  The moves before it stay.
MoveClash(b) ==
    LET c == build[b]
    IN  /\ c.pc = "move"
        /\ \E M \in Claims(c.moved) :
             /\ Clashes(M) # {}
             /\ \E done \in SUBSET (M \ Clashes(M)) : UpdatePaths(b, done)
        /\ dead' \in {dead, dead \cup c.failed}
        /\ Become(b, Ready)
        /\ UNCHANGED <<diskVars, triggers, marks, faults, commands>>

\* _rebuild_fts_index()
RebuildFts(b) ==
    LET c == build[b]
    IN  /\ c.pc = "rebuild"
        /\ fts' = Texts(rows, DOMAIN rows)
        /\ dead' = dead \cup c.failed
        /\ Become(b, [c EXCEPT !.pc = "create", !.failed = {}])
        /\ UNCHANGED <<diskVars, rows, triggers, marks, faults, commands>>

CreateTrigger(b) ==
    LET c == build[b]
    IN  /\ c.pc = "create"
        /\ triggers' = triggers \cup {TriggerOrder[c.ddl]}
        /\ Become(b, IF c.ddl < 3 THEN [c EXCEPT !.ddl = @ + 1]
                                  ELSE [c EXCEPT !.pc = "thread", !.ddl = 1])
        /\ UNCHANGED <<diskVars, rows, fts, dead, marks, faults, commands>>

\* index_threads() reads all rows, of those with one Message-ID the last, ...
ThreadRead(b) ==
    LET c == build[b]
    IN  /\ c.pc = "thread"
        /\ Become(b, IF ~c.dirty THEN [c EXCEPT !.pc = "sync"]
                     ELSE [c EXCEPT !.pc = "position",
                             !.walk = {rows[p].id : p \in {q \in DOMAIN rows :
                                \A r \in DOMAIN rows :
                                   MessageOf[r] = MessageOf[q] => rows[r].id <= rows[q].id}}])
        /\ UNCHANGED <<diskVars, tableVars, faults, commands>>

\* ... and updates them, which the update trigger turns into FTS entries.
ThreadWrite(b) ==
    LET c == build[b]
    IN  /\ c.pc = "position"
        /\ fts' = IF "emails_au" \in triggers
                  THEN Stored(fts, Texts(rows, {p \in DOMAIN rows : rows[p].id \in c.walk}))
                  ELSE fts
        /\ dead' = dead \cup c.failed
        /\ Become(b, [c EXCEPT !.pc = "sync", !.walk = {}, !.failed = {}])
        /\ UNCHANGED <<diskVars, rows, triggers, marks, faults, commands>>

SetSyncState(b) ==
    LET c == build[b]
    IN  /\ c.pc = "sync"
        /\ marks' = marks \cup {IF c.full THEN "last_full_build" ELSE "last_build"}
                          \cup (IF b \in Ticking THEN {"last_watch_tick"} ELSE {})
        /\ dead' = dead \cup c.failed
        /\ Become(b, Ready)
        /\ UNCHANGED <<diskVars, rows, fts, triggers, faults, commands>>

\* The build ends early.  What it had not committed is lost, or is committed
\* by what the connection does next.
Abort(b) ==
    /\ build[b].pc # "idle"
    /\ faults < MaxFaults
    /\ faults' = faults + 1
    /\ dead' \in {dead, dead \cup build[b].failed}
    /\ Become(b, Ready)
    /\ UNCHANGED <<diskVars, rows, fts, triggers, marks, commands>>

-----------------------------------------------------------------------------
Init ==
    /\ disk \in Disks
    /\ bad = {}
    /\ polling \in Polling
    /\ events = FALSE
    /\ rows = [p \in {} |-> 0]
    /\ fts = [i \in {} |-> 0]
    /\ dead = {}
    /\ triggers = Triggers
    /\ marks = {}
    /\ build = [b \in Builders |-> Ready]
    /\ clock \in {0} \cup {disk[p] : p \in Paths} /\ \A p \in Paths : disk[p] <= clock
    /\ faults = 0
    /\ commands = 0

Proceed(b) ==
    \/ \E box \in Boxes : ScanBox(b, box)
    \/ Diff(b)
    \/ DropTrigger(b)
    \/ \E p \in Paths : Parse(b, p)
    \/ FlushBatch(b)
    \/ EntriesDone(b)
    \/ DeleteRows(b)
    \/ MoveRows(b)
    \/ MoveClash(b)
    \/ RebuildFts(b)
    \/ CreateTrigger(b)
    \/ ThreadRead(b)
    \/ ThreadWrite(b)
    \/ SetSyncState(b)

MailChanges ==
    \E p \in Paths : \/ \E kind \in {"write", "tear"} : Write(p, kind)
                     \/ \E q \in Paths : Move(p, q)
                     \/ Remove(p)

Next ==
    \/ MailChanges
    \/ \E b \in Builders : \/ Tick(b)
                           \/ \E full \in BOOLEAN : Command(b, full)
                           \/ Proceed(b)
                           \/ Abort(b)

Spec == Init /\ [][Next]_vars

\* A build runs on and the watch loop keeps ticking; nobody need start a build.
FairSpec ==
    /\ Spec
    /\ \A b \in Builders : WF_vars(Proceed(b))
    /\ \A b \in Ticking : WF_vars(Tick(b))
-----------------------------------------------------------------------------
(***************************************************************************)
(* Properties                                                              *)
(***************************************************************************)
\* Every variable has its type; rows have ids of their own.
TypeOK ==
    /\ disk \in [Paths -> 0..MaxClock]
    /\ bad \subseteq 1..MaxClock
    /\ polling \in BOOLEAN /\ events \in BOOLEAN
    /\ DOMAIN rows \subseteq Paths /\ rows \in [DOMAIN rows -> Row]
    /\ \A p, q \in DOMAIN rows : rows[p].id = rows[q].id => p = q
    /\ DOMAIN fts \subseteq Nat \ {0} /\ fts \in [DOMAIN fts -> Nat]
    /\ dead \subseteq Paths
    /\ triggers \subseteq Triggers
    /\ marks \subseteq {"last_build", "last_full_build", "last_watch_tick"}
    /\ build \in [Builders -> Build]
    /\ clock \in 0..MaxClock /\ faults \in 0..MaxFaults /\ commands \in 0..MaxCommands

Unmoved(p) == \A q \in Paths : RowidOf[q] = RowidOf[p] => q = p

\* A row whose stamp is that of the file has the text of the file, so a change
\* is never taken for indexed, although the file is scanned, read and committed
\* at different times, by several builders.  A message that changes its path is
\* excepted: its row gets the new stamp over the old text.
TextIsCurrent ==
    \A p \in DOMAIN rows : Unmoved(p) /\ rows[p].stamp = disk[p] => rows[p].text = disk[p]

\* Outside a full build emails_fts has exactly the texts of emails: the triggers
\* carry every insert, update, delete and move over.
SearchFollowsRows ==
    (\A b \in Builders : ~build[b].full) => fts = Texts(rows, DOMAIN rows)

Visible == {p \in Paths : disk[p] # 0 /\ BoxOf[p] \notin Excluded}

IndexMirrors ==
    /\ DOMAIN rows \subseteq Visible
    /\ \A p \in Visible : disk[p] \notin bad => p \in DOMAIN rows /\ rows[p].stamp = disk[p]

\* The loop that is told of changes ticks for them only: it has to be told of one
\* first, and does not try again what ended early.
Attended == polling \/ (marks # {} /\ faults = 0)

\* Once Mail leaves its files alone, the index comes to list exactly the files
\* that are there, as they are, after any build that ended early.
IndexCatchesUp == <>[](Attended => IndexMirrors)

\* ... every row comes to have the text of its file ...
TextCatchesUp ==
    <>[](Attended => \A p \in DOMAIN rows : disk[p] \notin bad => rows[p].text = disk[p])

\* ... a file that parses and never moved is no longer a dead letter (one that
\* moved leaves its dead letter behind, and one moved in keeps it) ...
DeadLettersClear ==
    <>[](Attended => \A p \in dead : Unmoved(p) => disk[p] \in bad \cup {0})

\* ... and index status comes to rest, unless a file does not parse or lies in an
\* excluded mailbox, which no build reads: such a file it reports for ever.
StatusCatchesUp ==
    <>[](LET left == {p \in Paths : disk[p] # 0 /\ BoxOf[p] \in Excluded}
         IN  /\ Attended /\ Stale => left # {} \/ \E p \in Visible : disk[p] \in bad
             /\ left # {} => Stale)
=============================================================================
