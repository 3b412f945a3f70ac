----------------------------- MODULE StatusWrites -----------------------------
(***************************************************************************)
(* Flags: update_email_status of write/organize.py, the undo of it in      *)
(* core/undo.py, and the two places a status lives in, Mail and the rows   *)
(* of the index.  A row follows Mail when the message's file changed, save *)
(* for the colour of a flag, which only this server writes; undo restores  *)
(* what the row said.  One call runs at a time; between its steps the      *)
(* user, the watcher and osascript calls given up on go on.                *)
(***************************************************************************)
EXTENDS SafetyGate, Integers, Sequences, FiniteSets, Functions

CONSTANTS
    Ids,          \* canonical message ids, one copy and one row each
    Colors,       \* flagIndex values
    None,
    InitMail,     \* the status of every message at the start
    UserSets,     \* the statuses the user or a rule of Mail may set
    Requests,     \* the calls a client may make
    Faults,       \* of "fail", "timeout", "unresolved", "locked" and "restart"
    MaxCalls, MaxUser, MaxFaults

Unflagged == -1
DefaultColor == 0   \* a plain flag is red
Actions == {"mark_read", "mark_unread", "flag", "unflag", "set_flag_color"}

Statuses == [read: BOOLEAN, flag: Colors \cup {Unflagged}]
Rows == [read: BOOLEAN, flagged: BOOLEAN, color: Colors \cup {None}]

ASSUME StatusAssumption ==
    /\ Colors \subseteq Nat /\ DefaultColor \in Colors
    /\ None \notin Ids /\ None \notin Colors /\ None \notin Rows /\ None \notin Statuses
    /\ InitMail \in [Ids -> Statuses] /\ UserSets \subseteq Statuses
    /\ MaxCalls \in Nat /\ MaxUser \in Nat /\ MaxFaults \in Nat
    /\ \A r \in Requests :
          /\ r.op \in Actions \cup {"undo_last"}
          /\ r.ids \in Seq(Ids) /\ r.color \in Colors \cup {None} /\ r.dryRun \in BOOLEAN
          /\ r.op = "set_flag_color" => r.color \in Colors

VARIABLES
    mail,      \* Mail's status of every message
    stale,     \* messages whose file changed since the index read it
    row,       \* flag_read, flag_flagged and flag_color of a row, or None
    journal,   \* undo_journal in the order of ts
    late,      \* osascript calls given up on that may still take effect
    readOnly,
    call,      \* the running call
    calls, user, faults

vars == <<mail, stale, row, journal, late, readOnly, call, calls, user, faults>>

\* Messages and journal rows are worked off in their order.
FirstOf(S) == CHOOSE i \in S : \A j \in S : i <= j

\* One updateEmailStatus; entry is the journal row an undo works on, or 0.
Order(id, action, color, entry) ==
    [id |-> id, action |-> action, color |-> color, entry |-> entry]

Idle == [pc |-> "idle", req |-> None,
         todo |-> {},       \* places in req.ids still to apply to
         done |-> {},       \* result.succeeded
         no |-> 0,          \* the call; also its batch_id
         rows |-> {},       \* undo: places in the journal still to reverse
         was |-> None,      \* history: Mail's status before the last apply
         seen |-> None,     \* history: the indexed colours when the call began
         quiet |-> TRUE]    \* history: nobody else touched what is being undone

Init ==
    /\ mail = InitMail
    /\ stale = {}
    /\ row = [id \in Ids |-> [read |-> mail[id].read, flagged |-> mail[id].flag # Unflagged,
                              color |-> None]]
    /\ journal = <<>> /\ late = {}
    /\ readOnly \in BOOLEAN
    /\ call = Idle
    /\ calls = 0 /\ user = 0 /\ faults = 0

-----------------------------------------------------------------------------
(***************************************************************************)
(* Mail, the user and the watcher                                          *)
(***************************************************************************)
\* updateEmailStatus: a plain flag keeps the colour a message already has.
After(s, o) ==
    IF o.action = "mark_read" THEN [s EXCEPT !.read = TRUE]
    ELSE IF o.action = "mark_unread" THEN [s EXCEPT !.read = FALSE]
    ELSE IF o.action = "unflag" THEN [s EXCEPT !.flag = Unflagged]
    ELSE IF o.action = "set_flag_color" THEN [s EXCEPT !.flag = o.color]
    ELSE IF s.flag = Unflagged THEN [s EXCEPT !.flag = DefaultColor] ELSE s

\* Mail sets a status, and rewrites the message's file when that changes it.
SetStatus(id, s) ==
    /\ mail' = [mail EXCEPT ![id] = s]
    /\ stale' = IF s = mail[id] THEN stale ELSE stale \cup {id}

Undoing == call.pc \in {"undo_read", "undo_flag", "mark"}

\* The call once somebody else has set a status of id.
Disturb(id) ==
    call' = [call EXCEPT !.quiet = @ /\ ~(Undoing /\ journal[FirstOf(call.rows)].id = id)]

User ==
    /\ user < MaxUser
    /\ user' = user + 1
    /\ \E id \in Ids, s \in UserSets : s # mail[id] /\ SetStatus(id, s) /\ Disturb(id)
    /\ UNCHANGED <<row, journal, late, readOnly, calls, faults>>

\* An osascript call given up on takes effect after all.
Land ==
    \E o \in late :
        /\ late' = late \ {o}
        /\ SetStatus(o.id, After(mail[o.id], o))
        /\ IF Undoing /\ o.entry = FirstOf(call.rows) THEN UNCHANGED call ELSE Disturb(o.id)
        /\ UNCHANGED <<row, journal, readOnly, calls, user, faults>>

\* Mutant: as if flag_read were left out of the ON CONFLICT update too.
IndexedKeepsRead(id) ==
    [read |-> IF row[id] = None THEN mail[id].read ELSE row[id].read,
     flagged |-> mail[id].flag # Unflagged,
     color |-> IF row[id] = None THEN None ELSE row[id].color]

\* The row of a changed file: its flags are read anew, its colour is kept.
Indexed(id) ==
    [read |-> mail[id].read, flagged |-> mail[id].flag # Unflagged,
     color |-> IF row[id] = None THEN None ELSE row[id].color]

\* A tick of the watcher that finds a changed or an unknown file.
Reindex(id) ==
    /\ id \in stale \/ row[id] = None
    /\ row' = [row EXCEPT ![id] = Indexed(id)]
    /\ stale' = stale \ {id}
    /\ UNCHANGED <<mail, journal, late, readOnly, call, calls, user, faults>>

\* The file moved and lost its row: until the next tick the message is unknown.
Lose(id) ==
    /\ user < MaxUser
    /\ user' = user + 1
    /\ row[id] # None
    /\ row' = [row EXCEPT ![id] = None]
    /\ UNCHANGED <<mail, stale, journal, late, readOnly, call, calls, faults>>

-----------------------------------------------------------------------------
(***************************************************************************)
(* Calls                                                                   *)
(***************************************************************************)
Fault(kind) ==
    /\ kind \in Faults /\ faults < MaxFaults
    /\ faults' = faults + 1

\* One JXA call: it succeeds, fails, or is killed and may still take effect.
Jxa(o, onSuccess, onFailure) ==
    \/ /\ SetStatus(o.id, After(mail[o.id], o))
       /\ call' = onSuccess
       /\ UNCHANGED <<late, faults>>
    \/ /\ Fault("fail")
       /\ call' = onFailure
       /\ UNCHANGED <<mail, stale, late>>
    \/ /\ Fault("timeout")
       /\ late' = late \cup {o}
       /\ call' = onFailure
       /\ UNCHANGED <<mail, stale>>

\* update_email_status up to the loop of guard(): ids that do not resolve are left out.
Update(req) ==
    /\ call.pc = "idle" /\ req.op \in Actions
    /\ calls < MaxCalls /\ calls' = calls + 1
    /\ \E lost \in SUBSET Range(req.ids) :
         LET resolved == {i \in DOMAIN req.ids : req.ids[i] \notin lost}
             gate == [op |-> "status", max |-> req.max, dryRun |-> req.dryRun, confirm |-> FALSE]
         IN  /\ IF lost = {} THEN UNCHANGED faults ELSE Fault("unresolved")
             /\ call' = IF guardVerdict(readOnly, gate, Cardinality(resolved)) = "proceed"
                          THEN [Idle EXCEPT !.pc = "apply", !.req = req, !.todo = resolved,
                                  !.no = calls + 1,
                                  !.seen = [id \in Ids |-> IF row[id] = None THEN None
                                                           ELSE row[id].color]]
                          ELSE Idle
    /\ UNCHANGED <<mail, stale, row, journal, late, readOnly, user>>

\* Mutant: an unflagged message gets the colour -1 of Mail.
ColoredUnflagged(req, r) ==
    IF r = None THEN None
    ELSE IF req.op = "set_flag_color"
      THEN [read |-> r.read, flagged |-> TRUE, color |-> req.color]
    ELSE IF req.op = "unflag" THEN [r EXCEPT !.color = Unflagged] ELSE r

\* The row after the optimistic update of the index.
Colored(req, r) ==
    IF r = None THEN None
    ELSE IF req.op = "set_flag_color"
      THEN [read |-> r.read, flagged |-> TRUE, color |-> req.color]
    ELSE IF req.op = "unflag" THEN [r EXCEPT !.color = None] ELSE r

\* The message a batch is at.
NextId == call.req.ids[FirstOf(call.todo)]

\* Mutant of Apply: the index is updated with each message, before it is journaled.
ApplyAndIndex ==
    /\ call.pc = "apply" /\ call.todo # {}
    /\ LET id == NextId
       IN  /\ Jxa(Order(id, call.req.op, call.req.color, 0),
                  [call EXCEPT !.pc = "journal", !.was = mail[id]],
                  [call EXCEPT !.todo = @ \ {FirstOf(@)}])
           /\ row' = [row EXCEPT ![id] = Colored(call.req, @)]
    /\ UNCHANGED <<journal, readOnly, calls, user>>

\* apply(): one message; one that fails is reported and passed over.
Apply ==
    /\ call.pc = "apply" /\ call.todo # {}
    /\ LET id == NextId
       IN  Jxa(Order(id, call.req.op, call.req.color, 0),
               [call EXCEPT !.pc = "journal", !.was = mail[id]],
               [call EXCEPT !.todo = @ \ {FirstOf(@)}])
    /\ UNCHANGED <<row, journal, readOnly, calls, user>>

\* prior_state(): whatever the row says now, and {} for a message without one.
prior_state(id) == row[id]

\* undo_record() and journal_write(), which may have to wait too long to prune.
Journal ==
    /\ call.pc = "journal"
    /\ LET id == NextId
       IN  /\ journal' = Append(journal,
                [batch |-> call.no, op |-> call.req.op, id |-> id, prev |-> prior_state(id),
                 undone |-> FALSE, before |-> call.was])
           /\ \/ /\ call' = [call EXCEPT !.pc = "apply", !.todo = @ \ {FirstOf(@)},
                                           !.done = @ \cup {id}]
                 /\ UNCHANGED faults
              \/ call' = Idle /\ Fault("locked")
    /\ UNCHANGED <<mail, stale, row, late, readOnly, calls, user>>

\* The whole batch is journaled: the index takes over what was set.
UpdateIndex ==
    /\ call.pc = "apply" /\ call.todo = {}
    /\ row' = [id \in Ids |-> IF id \in call.done THEN Colored(call.req, row[id]) ELSE row[id]]
    /\ call' = Idle
    /\ UNCHANGED <<mail, stale, journal, late, readOnly, calls, user, faults>>

-----------------------------------------------------------------------------
(***************************************************************************)
(* Undo                                                                    *)
(***************************************************************************)
Pending == {i \in DOMAIN journal : ~journal[i].undone}

\* undo_last(): the batch of the newest row not undone, its rows in order of ts.
Undo(req) ==
    /\ call.pc = "idle" /\ req.op = "undo_last"
    /\ calls < MaxCalls /\ calls' = calls + 1
    /\ LET newest == CHOOSE i \in Pending : \A j \in Pending : j <= i
           rows == {i \in Pending : journal[i].batch = journal[newest].batch}
       IN  call' = IF Pending = {} \/ req.dryRun THEN Idle
                   ELSE [Idle EXCEPT !.pc = "undo_read", !.req = req, !.rows = rows]
    /\ UNCHANGED <<mail, stale, row, journal, late, readOnly, user, faults>>

\* The rows after this one: a row that failed is reported and stays pending.
NextRow ==
    LET rest == call.rows \ {FirstOf(call.rows)}
    IN  IF rest = {} THEN Idle
        ELSE [call EXCEPT !.pc = "undo_read", !.rows = rest, !.quiet = TRUE]

\* What is_read of the journaled state is restored by.
ReadOrder(i) ==
    Order(journal[i].id, IF journal[i].prev.read THEN "mark_read" ELSE "mark_unread", None, i)

\* _undo_status: the message is looked up, and is_read restored, when the journaled
\* state has one ...
RestoreRead ==
    /\ call.pc = "undo_read"
    /\ LET i == FirstOf(call.rows)
       IN  \/ /\ journal[i].prev = None
              /\ call' = [call EXCEPT !.pc = "undo_flag"]
              /\ UNCHANGED <<mail, stale, late, faults>>
           \/ /\ journal[i].prev # None
              /\ Jxa(ReadOrder(i), [call EXCEPT !.pc = "undo_flag"], NextRow)
           \/ /\ Fault("unresolved")
              /\ call' = NextRow
              /\ UNCHANGED <<mail, stale, late>>
    /\ UNCHANGED <<row, journal, readOnly, calls, user>>

\* Mutant: the plain flag is preferred to the colour.
FlagOrderPlain(i) ==
    Order(journal[i].id, IF journal[i].prev.flagged THEN "flag" ELSE "unflag", None, i)

\* What its colour, or else its plain flag, is restored by.
FlagOrder(i) ==
    LET e == journal[i]
    IN  IF e.prev.color # None THEN Order(e.id, "set_flag_color", e.prev.color, i)
        ELSE Order(e.id, IF e.prev.flagged THEN "flag" ELSE "unflag", None, i)

\* ... then the flag ...
RestoreFlag ==
    /\ call.pc = "undo_flag"
    /\ LET i == FirstOf(call.rows)
       IN  IF journal[i].prev = None
             THEN /\ call' = [call EXCEPT !.pc = "mark"]
                  /\ UNCHANGED <<mail, stale, late, faults>>
             ELSE Jxa(FlagOrder(i), [call EXCEPT !.pc = "mark"], NextRow)
    /\ UNCHANGED <<row, journal, readOnly, calls, user>>

\* ... and only then is the row undone.
MarkUndone ==
    /\ call.pc = "mark"
    /\ journal' = [journal EXCEPT ![FirstOf(call.rows)].undone = TRUE]
    /\ call' = NextRow
    /\ UNCHANGED <<mail, stale, row, late, readOnly, calls, user, faults>>

\* A write waits for longer than busy_timeout: journal_write() before its INSERT, the
\* optimistic update, or the mark.  No try is around them: the call ends with what it has
\* done in Mail, and the batch is neither journaled further nor indexed.
Locked ==
    /\ Fault("locked")
    /\ \/ call.pc \in {"journal", "mark"}
       \/ call.pc = "apply" /\ call.todo = {} /\ call.req.op \in {"set_flag_color", "unflag"}
    /\ call' = Idle
    /\ UNCHANGED <<mail, stale, row, journal, late, readOnly, calls, user>>

\* The script Mail may be carrying out.
InFlight ==
    LET i == FirstOf(call.rows)
    IN  CASE call.pc = "apply" /\ call.todo # {} ->
               {Order(NextId, call.req.op, call.req.color, 0)}
          [] call.pc = "undo_read" /\ journal[i].prev # None -> {ReadOrder(i)}
          [] call.pc = "undo_flag" /\ journal[i].prev # None -> {FlagOrder(i)}
          [] OTHER -> {}

\* The server dies and starts again; its osascript may live on.
Restart ==
    /\ Fault("restart")
    /\ call' = Idle
    /\ readOnly' \in BOOLEAN
    /\ late' \in {late, late \cup InFlight}
    /\ UNCHANGED <<mail, stale, row, journal, calls, user>>

Step == Apply \/ Journal \/ UpdateIndex \/ RestoreRead \/ RestoreFlag \/ MarkUndone \/ Locked

Next ==
    \/ \E req \in Requests : Update(req) \/ Undo(req)
    \/ Step
    \/ \E id \in Ids : Reindex(id) \/ Lose(id)
    \/ User \/ Land \/ Restart

Spec == Init /\ [][Next]_vars

\* The watcher keeps ticking; nothing else has to happen.
FairSpec == Spec /\ \A id \in Ids : WF_vars(Reindex(id))

-----------------------------------------------------------------------------
(***************************************************************************)
(* Properties                                                              *)
(***************************************************************************)
Entry == [batch: Nat, op: Actions, id: Ids, prev: Rows \cup {None},
          undone: BOOLEAN, before: Statuses]

\* Every variable has its type; the call names the journal rows it works on.
TypeOK ==
    /\ mail \in [Ids -> Statuses]
    /\ stale \subseteq Ids
    /\ row \in [Ids -> Rows \cup {None}]
    /\ journal \in Seq(Entry)
    /\ late \subseteq [id: Ids, action: Actions, color: Colors \cup {None}, entry: Nat]
    /\ readOnly \in BOOLEAN
    /\ call \in [pc: {"idle", "apply", "journal", "undo_read", "undo_flag", "mark"},
                 req: Requests \cup {None}, todo: SUBSET Nat, done: SUBSET Ids, no: Nat,
                 rows: SUBSET DOMAIN journal, was: Statuses \cup {None},
                 seen: [Ids -> Colors \cup {None}] \cup {None}, quiet: BOOLEAN]
    /\ calls \in 0 .. MaxCalls /\ user \in 0 .. MaxUser /\ faults \in 0 .. MaxFaults

\* What the journal says of a status is the whole of it.
Faithful(e) ==
    /\ e.prev # None
    /\ e.prev.read = e.before.read
    /\ e.prev.flagged = (e.before.flag # Unflagged)
    /\ e.prev.color = (IF e.before.flag = Unflagged THEN None ELSE e.before.flag)

BecomesUndone(i) == ~journal[i].undone /\ journal'[i].undone

\* When the journal knows the status a message had, a row marked undone means that Mail
\* shows that status again, whatever became of the message before this undo, whichever of
\* the two calls of an earlier attempt failed or came late, and unless somebody else sets
\* the message between those calls (_undo_status, and the mark after it).
UndoneMeansRestored ==
    [][\A i \in DOMAIN journal :
          BecomesUndone(i) /\ Faithful(journal[i]) /\ call.quiet
            => mail'[journal[i].id] = journal[i].before]_vars

\* A batch never journals the colour it sets itself as the colour before it, also when it
\* names a message twice (update_email_status journals before it updates the index).
PriorColorIsPrior ==
    [][\A i \in DOMAIN journal' \ DOMAIN journal :
          LET e == journal'[i]
          IN  e.prev = None \/ e.prev.color \in {None, call.seen[e.id]}]_vars

\* The read flag of the index settles on Mail's, whatever calls, undos and the user do.
ReadFlagSettles ==
    <>[](\A id \in Ids : row[id] # None /\ row[id].read = mail[id].read)

=============================================================================
