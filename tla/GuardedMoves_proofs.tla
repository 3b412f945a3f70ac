------------------------- MODULE GuardedMoves_proofs -------------------------
(***************************************************************************)
(* Proofs about GuardedMoves, for every value of its constants.            *)
(***************************************************************************)
EXTENDS GuardedMoves, TLAPS, FiniteSetTheorems

-----------------------------------------------------------------------------
(***************************************************************************)
(* What the lookups of mail_core.js and the resolver return                *)
(***************************************************************************)

\* A search returns copies of the requested message, each in a top-level
\* mailbox: nested mailboxes are never searched (mail_core.js:183-213).
LEMMA ResolveMessageSound ==
    ASSUME NEW mail, NEW id, NEW account, NEW mailbox
    PROVE  resolveMessage(mail, id, account, mailbox) \subseteq
             {c \in Copies : IdOf[c] = id /\ mail[c] \in TopLevel}
<1>1. SearchScope(account, mailbox) \subseteq TopLevel
  BY DEF SearchScope, findMailbox
<1>2. QED
  BY <1>1 DEF resolveMessage

\* What resolve() lists are attempts, and so is the broad scan.
LEMMA AttemptsType ==
    ASSUME NEW rc \in [Ids -> [Boxes -> Nat]], NEW sd \in [Ids -> Names \cup {None}],
           NEW id \in Ids, NEW account \in Accounts \cup {None}, NEW mailbox \in Names \cup {None}
    PROVE  Attempts(rc, sd, id, account, mailbox) \subseteq Attempt
<1> DEFINE hint == [order |-> 0, account |-> account,
                    mailbox |-> IF mailbox = None THEN sd[id] ELSE mailbox]
           inCache(b) == [order |-> rc[id][b], account |-> AccountOf(b), mailbox |-> NameOf(b)]
           indexSeed == [order |-> Cardinality(Boxes) + 1, account |-> SenderOf[id],
                         mailbox |-> sd[id]]
<1>1. hint \in Attempt
  BY DEF Attempt
<1>2. \A b \in Boxes : inCache(b) \in Attempt
  BY LookupAssumption DEF Attempt, AccountOf, NameOf
<1>3. indexSeed \in Attempt
  <2>1. Cardinality(Boxes) \in Nat
    BY MovesAssumption, FS_CardinalityType
  <2>2. QED
    BY <2>1, LookupAssumption DEF Attempt
<1>4. Attempts(rc, sd, id, account, mailbox)
        \subseteq {hint} \cup {inCache(b) : b \in Boxes} \cup {indexSeed}
  BY DEF Attempts
<1> HIDE DEF hint, inCache, indexSeed
<1>5. QED
  BY <1>1, <1>2, <1>3, <1>4

\* Caching a mailbox keeps the ranks natural numbers.
LEMMA CachePutType ==
    ASSUME NEW rc \in [Ids -> [Boxes -> Nat]], NEW id \in Ids, NEW box \in Boxes
    PROVE  CachePut(rc, id, box) \in [Ids -> [Boxes -> Nat]]
BY DEF CachePut

-----------------------------------------------------------------------------
(***************************************************************************)
(* Type correctness                                                        *)
(***************************************************************************)
LEMMA BecomeType ==
    ASSUME call \in [Workers -> Call], NEW w \in Workers, NEW c \in Call, Become(w, c)
    PROVE  call' \in [Workers -> Call]
BY DEF Become

LEMMA ReturnType ==
    ASSUME call \in [Workers -> Call], NEW w \in Workers, NEW o \in Outcomes, Return(w, o)
    PROVE  call' \in [Workers -> Call]
<1>1. [call[w] EXCEPT !.pc = "done", !.outcome = o] \in Call
  BY DEF Call
<1>2. QED
  BY <1>1, BecomeType DEF Return

LEMMA IdleType == Idle \in Call
BY DEF Idle, Call, Outcomes

\* The records a worker starts from.
LEMMA BatchStartType ==
    ASSUME NEW no \in Nat, NEW req \in Requests, NEW ids \in Seq(Ids),
           NEW pc \in {"done", "resolve"}, NEW o \in Outcomes
    PROVE  [Idle EXCEPT !.req = req, !.no = no, !.todo = ids, !.pc = pc,
                        !.outcome = o] \in Call
BY IdleType DEF Call

LEMMA StartType ==
    ASSUME NEW no \in Nat, NEW req \in Requests
    PROVE  /\ [Idle EXCEPT !.req = req, !.no = no] \in Call
           /\ \A pc \in {"done", "empty"}, o \in Outcomes :
                [Idle EXCEPT !.req = req, !.no = no, !.pc = pc, !.outcome = o] \in Call
BY IdleType DEF Call

LEMMA UndoStartType ==
    ASSUME NEW i \in Call, NEW rows \in SUBSET Row
    PROVE  /\ [i EXCEPT !.pc = "done", !.outcome = "UndoFailed"] \in Call
           /\ [i EXCEPT !.pc = "done", !.outcome = "preview"] \in Call
           /\ [i EXCEPT !.pc = "undo", !.rows = rows] \in Call
BY DEF Call, Outcomes

\* Starting a call, of whatever kind, keeps every type.
LEMMA BeginType ==
    ASSUME TypeOK, NEW w \in Workers, NEW req \in Requests,
           BeginBatch(w, req) \/ BeginEmptyTrash(w, req) \/ BeginUndo(w, req)
    PROVE  TypeOK'
<1> USE DEF TypeOK, mailVars, journalVars, historyVars, boundVars
<1>1. CASE BeginBatch(w, req)
  <2> DEFINE pc == IF readOnly THEN "done" ELSE "resolve"
             o == IF readOnly THEN "ReadOnlyMode" ELSE "none"
             c == [Idle EXCEPT !.req = req, !.no = calls + 1, !.todo = req.ids,
                      !.pc = pc, !.outcome = o]
  <2>1. req.ids \in Seq(Ids)
    BY MovesAssumption DEF Request
  <2>2. pc \in {"done", "resolve"} /\ o \in Outcomes
    BY DEF Outcomes
  <2>3. c \in Call
    <3>1. calls + 1 \in Nat
      OBVIOUS
    <3> HIDE DEF pc, o, TypeOK
    <3> QED BY <2>1, <2>2, <3>1, BatchStartType
  <2>4. Become(w, c)
    BY <1>1 DEF BeginBatch
  <2>5. call' \in [Workers -> Call]
    <3> HIDE DEF c
    <3> QED BY <2>3, <2>4, BecomeType
  <2>6. QED
    BY <1>1, <2>5 DEF BeginBatch
<1>2. CASE BeginEmptyTrash(w, req)
  <2> DEFINE v == IF ~readOnly /\ findMailbox(req.account, Trash) = {} THEN "error"
                   ELSE guardVerdict(readOnly, req, 0)
             pc == IF v = "proceed" THEN "empty" ELSE "done"
             o == IF v = "proceed" THEN "none" ELSE v
             c == [Idle EXCEPT !.req = req, !.no = calls + 1, !.pc = pc, !.outcome = o]
  <2>1. pc \in {"empty", "done"} /\ o \in Outcomes
    BY DEF guardVerdict, Outcomes
  <2>2. c \in Call
    <3>1. calls + 1 \in Nat
      OBVIOUS
    <3> HIDE DEF pc, o, TypeOK
    <3> QED BY <2>1, <3>1, StartType
  <2>3. Become(w, c)
    BY <1>2 DEF BeginEmptyTrash
  <2>4. call' \in [Workers -> Call]
    <3> HIDE DEF c
    <3> QED BY <2>2, <2>3, BecomeType
  <2>5. QED
    BY <1>2, <2>4 DEF BeginEmptyTrash
<1>3. CASE BeginUndo(w, req)
  <2> DEFINE rows == IF Pending = {} THEN {}
                     ELSE {r \in Pending : r.batch = TargetBatch(req)}
             i == [Idle EXCEPT !.req = req, !.no = calls + 1]
             c == IF rows = {} THEN [i EXCEPT !.pc = "done", !.outcome = "UndoFailed"]
                  ELSE IF req.dryRun THEN [i EXCEPT !.pc = "done", !.outcome = "preview"]
                  ELSE [i EXCEPT !.pc = "undo", !.rows = rows]
  <2>1. rows \in SUBSET Row
    BY DEF Pending
  <2>2. i \in Call
    <3>1. calls + 1 \in Nat
      OBVIOUS
    <3> QED BY <3>1, StartType
  <2>3. /\ [i EXCEPT !.pc = "done", !.outcome = "UndoFailed"] \in Call
        /\ [i EXCEPT !.pc = "done", !.outcome = "preview"] \in Call
        /\ [i EXCEPT !.pc = "undo", !.rows = rows] \in Call
    <3> HIDE DEF i, rows, TypeOK
    <3> QED BY <2>1, <2>2, UndoStartType
  <2>4. Become(w, c)
    BY <1>3 DEF BeginUndo
  <2>5. call' \in [Workers -> Call]
    <3> HIDE DEF c
    <3>1. c \in Call
      BY <2>3 DEF c
    <3> QED BY <3>1, <2>4, BecomeType
  <2>6. QED
    BY <1>3, <2>5 DEF BeginUndo
<1>4. QED
  BY <1>1, <1>2, <1>3

\* The records the steps of a call make of it.
LEMMA ResolvedType ==
    ASSUME NEW c \in Call, c.todo # <<>>
    PROVE  /\ Head(c.todo) \in Ids
           /\ IdFailed(c) \in Call
           /\ \A box \in Boxes :
                [c EXCEPT !.pc = "resolve", !.todo = Tail(@), !.here = None,
                   !.resolved = Append(@, [id |-> Head(c.todo), box |-> box])] \in Call
<1>1. Head(c.todo) \in Ids /\ Tail(c.todo) \in Seq(Ids)
  BY DEF Call
<1>2. IdFailed(c) \in Call
  BY <1>1 DEF Call, IdFailed
<1>3. ASSUME NEW box \in Boxes
      PROVE  [c EXCEPT !.pc = "resolve", !.todo = Tail(@), !.here = None,
                !.resolved = Append(@, [id |-> Head(c.todo), box |-> box])] \in Call
  <2> DEFINE p == [id |-> Head(c.todo), box |-> box]
  <2>1. p \in Picked
    BY <1>1 DEF Picked
  <2> HIDE DEF p
  <2>2. Append(c.resolved, p) \in Seq(Picked)
    BY <2>1 DEF Call
  <2>3. [c EXCEPT !.pc = "resolve", !.todo = Tail(@), !.here = None,
           !.resolved = Append(@, p)] \in Call
    BY <1>1, <2>2 DEF Call
  <2>4. QED
    BY <2>3 DEF p
<1>4. QED
  BY <1>1, <1>2, <1>3

\* What one JXA call of resolve() makes of its call.
LEMMA SearchType ==
    ASSUME call \in [Workers -> Call], NEW w \in Workers, NEW id,
           NEW found \in {"remember", "undo_remember"}, NEW failing \in Call,
           SearchNext(w, id, found, failing)
    PROVE  /\ call' \in [Workers -> Call]
           /\ \A v \in Workers \ {w} : call'[v] = call[v]
           /\ \/ \E box \in Boxes :
                    call'[w] = [call[w] EXCEPT !.pc = found, !.tries = {}, !.here = box]
              \/ \E t : call'[w] = [call[w] EXCEPT !.tries = @ \ {t}]
              \/ call'[w] = failing
<1> DEFINE c == call[w]
<1>1. c \in Call
  OBVIOUS
<1>2. PICK t \in NextAttempts(c.tries) :
        \/ \E m \in resolveMessage(at, id, t.account, t.mailbox) :
              Become(w, [c EXCEPT !.pc = found, !.tries = {}, !.here = at[m]])
        \/ Become(w, [c EXCEPT !.tries = @ \ {t}])
        \/ Become(w, failing)
  BY DEF SearchNext
<1>3. \A d : Become(w, d) => call'[w] = d /\ \A v \in Workers \ {w} : call'[v] = call[v]
  BY DEF Become
<1>4. CASE \E m \in resolveMessage(at, id, t.account, t.mailbox) :
             Become(w, [c EXCEPT !.pc = found, !.tries = {}, !.here = at[m]])
  <2>1. PICK m \in resolveMessage(at, id, t.account, t.mailbox) :
             Become(w, [c EXCEPT !.pc = found, !.tries = {}, !.here = at[m]])
    BY <1>4
  <2>2. at[m] \in Boxes
    BY ResolveMessageSound DEF TopLevel
  <2>3. [c EXCEPT !.pc = found, !.tries = {}, !.here = at[m]] \in Call
    BY <1>1, <2>2 DEF Call
  <2>4. QED
    BY <1>3, <2>1, <2>2, <2>3, BecomeType
<1>5. CASE Become(w, [c EXCEPT !.tries = @ \ {t}])
  <2>1. [c EXCEPT !.tries = @ \ {t}] \in Call
    BY <1>1 DEF Call
  <2>2. QED
    BY <1>3, <1>5, <2>1, BecomeType
<1>6. CASE Become(w, failing)
  BY <1>3, <1>6, BecomeType
<1>7. QED
  BY <1>2, <1>4, <1>5, <1>6

LEMMA AppliedType ==
    ASSUME NEW c \in Call, c.resolved # <<>>
    PROVE  LET r == Head(c.resolved)
           IN  /\ r \in Picked
               /\ [c EXCEPT !.resolved = Tail(@), !.failed = @ \cup {r.id}] \in Call
               /\ [c EXCEPT !.resolved = Tail(@), !.succeeded = @ \cup {r.id}] \in Call
               /\ Journaled(c) \in Call
<1> DEFINE r == Head(c.resolved)
<1>1. r \in Picked /\ Tail(c.resolved) \in Seq(Picked)
  BY DEF Call
<1>2. r.id \in Ids
  BY <1>1 DEF Picked
<1>3. QED
  <2> HIDE DEF r
  <2> SUFFICES /\ [c EXCEPT !.resolved = Tail(@), !.failed = @ \cup {r.id}] \in Call
               /\ [c EXCEPT !.resolved = Tail(@), !.succeeded = @ \cup {r.id}] \in Call
               /\ [c EXCEPT !.pc = "apply", !.stale = {}, !.resolved = Tail(@),
                            !.succeeded = @ \cup {r.id}] \in Call
    BY <1>1 DEF r, Journaled
  <2> QED BY <1>1, <1>2 DEF Call

LEMMA UndoType ==
    ASSUME NEW c \in Call, NEW row \in c.rows
    PROVE  /\ row \in Row
           /\ DropRow(c, row) \in Call
           /\ RowFailed(c, row) \in Call
           /\ [DropRow(c, row) EXCEPT !.succeeded = @ \cup {row.id}] \in Call
           /\ [c EXCEPT !.pc = "mark"] \in Call
           /\ [c EXCEPT !.pc = "unmove"] \in Call
<1>1. row \in Row
  BY DEF Call
<1>2. row.id \in Ids
  BY <1>1 DEF Row
<1>3. DropRow(c, row) \in Call
  BY DEF DropRow, Call
<1>4. ASSUME NEW d \in Call
      PROVE  /\ [d EXCEPT !.failed = @ \cup {row.id}] \in Call
             /\ [d EXCEPT !.succeeded = @ \cup {row.id}] \in Call
  BY <1>2 DEF Call
<1>5. /\ [c EXCEPT !.pc = "mark"] \in Call
      /\ [c EXCEPT !.pc = "unmove"] \in Call
  BY DEF Call
<1>6. QED
  BY <1>1, <1>3, <1>4, <1>5 DEF RowFailed

\* What a call holds beyond its types: a request once it has started, an id
\* while it resolves, the mailbox it found, and, from Mail's answer to the
\* prune, the message Mail has taken for it and then the row it wrote.
Journaling == {"journal", "rank", "drop"}

Holds(c, done, rows) ==
    /\ c.pc # "idle" => c.req \in Requests
    /\ c.pc \in {"search", "remember"} => c.todo # <<>>
    /\ c.pc \in {"remember", "undo_remember"} => c.here \in Boxes
    /\ c.pc \in Journaling =>
         /\ c.resolved # <<>>
         /\ \E e \in done :
              /\ e.no = c.no /\ e.id = Head(c.resolved).id
              /\ e.from = Head(c.resolved).box
    /\ c.pc \in {"rank", "drop"} =>
         \E row \in rows : row.batch = c.no /\ row.id = Head(c.resolved).id

CallsHold == \A w \in Workers : Holds(call[w], effects, written)

\* Every step that carries a call on, or that a fault takes instead, keeps
\* every type.
LEMMA StepType ==
    ASSUME TypeOK, CallsHold, NEW w \in Workers, Work(w) \/ Disturbed(w)
    PROVE  TypeOK'
<1> USE DEF TypeOK, mailVars, journalVars, historyVars, boundVars
<1> DEFINE c == call[w]
<1>c. c \in Call
  OBVIOUS
<1> HIDE DEF c
<1> DEFINE r == Head(c.resolved)
<1>h. \A id, box : getMessageHandle(at, id, box) \subseteq Copies
  BY DEF getMessageHandle
<1>f. \A kind : Fault(kind) => calls' \in Nat /\ user' \in Nat /\ faults' \in Nat
  BY DEF Fault
<1>t. c.pc # "idle" /\ TouchedBy(w) => touched' \subseteq Touch
  BY DEF TouchedBy, Touch, CallsHold, Holds, c
<1>1. ASSUME LookUp(w) PROVE TypeOK'
  <2>1. /\ c.pc = "resolve" /\ c.todo # <<>>
        /\ Become(w, [c EXCEPT !.pc = "search",
                        !.tries = Attempts(cache, seed, Head(c.todo),
                                           c.req.account, c.req.mailbox)])
        /\ UNCHANGED <<mailVars, cache, journalVars, readOnly, boundVars, historyVars>>
    BY <1>1 DEF LookUp, c
  <2>2. c.req.account \in Accounts \cup {None} /\ c.req.mailbox \in Names \cup {None}
    BY <2>1, MovesAssumption DEF CallsHold, Holds, Request, c
  <2>3. Attempts(cache, seed, Head(c.todo), c.req.account, c.req.mailbox) \subseteq Attempt
    BY <1>c, <2>1, <2>2, ResolvedType, AttemptsType
  <2>4. [c EXCEPT !.pc = "search", !.tries = Attempts(cache, seed, Head(c.todo),
                                           c.req.account, c.req.mailbox)] \in Call
    BY <1>c, <2>3 DEF Call
  <2>5. call' \in [Workers -> Call]
    BY <2>1, <2>4, BecomeType
  <2>6. QED
    BY <2>1, <2>5
<1>16. ASSUME Search(w) PROVE TypeOK'
  <2>1. /\ c.pc = "search" /\ SearchNext(w, Head(c.todo), "remember", IdFailed(c))
        /\ UNCHANGED <<mailVars, cache, journalVars, readOnly, boundVars, historyVars>>
    BY <1>16 DEF Search, c
  <2>2. IdFailed(c) \in Call
    BY <1>c, <2>1, ResolvedType DEF CallsHold, Holds, c
  <2>3. call' \in [Workers -> Call]
    BY <2>1, <2>2, SearchType
  <2>4. QED
    BY <2>1, <2>3
<1>17. ASSUME Remember(w) PROVE TypeOK'
  <2>1. /\ cache' = CachePut(cache, Head(c.todo), c.here)
        /\ Become(w, [c EXCEPT !.pc = "resolve", !.todo = Tail(@), !.here = None,
                        !.resolved = Append(@, [id |-> Head(c.todo), box |-> c.here])])
        /\ UNCHANGED <<mailVars, journalVars, readOnly, boundVars, historyVars>>
    BY <1>17 DEF Remember, c
  <2>2. c.todo # <<>> /\ c.here \in Boxes
    BY <1>17 DEF Remember, CallsHold, Holds, c
  <2>3. call' \in [Workers -> Call]
    BY <1>c, <2>1, <2>2, ResolvedType, BecomeType
  <2>4. cache' \in [Ids -> [Boxes -> Nat]]
    BY <1>c, <2>1, <2>2, ResolvedType, CachePutType
  <2>5. QED
    BY <2>1, <2>3, <2>4
<1>2. ASSUME ResolveTimeout(w) PROVE TypeOK'
  <2>1. Become(w, IdFailed(c)) /\ c.todo # <<>>
    BY <1>2 DEF ResolveTimeout, CallsHold, Holds, c
  <2>2. call' \in [Workers -> Call]
    BY <1>c, <2>1, ResolvedType, BecomeType
  <2>3. QED
    BY <1>2, <1>f, <2>2 DEF ResolveTimeout
<1>3. ASSUME Guard(w) PROVE TypeOK'
  <2> DEFINE v == guardVerdict(readOnly, c.req, Len(c.resolved))
  <2>1. v \in Outcomes \cup {"proceed"}
    BY DEF guardVerdict, Outcomes
  <2>2. [c EXCEPT !.pc = "apply"] \in Call
    BY <1>c DEF Call
  <2>3. IF v = "proceed" THEN Become(w, [c EXCEPT !.pc = "apply"]) ELSE Return(w, v)
    BY <1>3 DEF Guard, c
  <2>4. call' \in [Workers -> Call]
    <3> HIDE DEF v
    <3> QED BY <2>1, <2>2, <2>3, BecomeType, ReturnType
  <2>5. QED
    BY <1>3, <2>4 DEF Guard
<1>d. c.resolved # <<>> => \A box \in Destination(c.req, r) : box \in Boxes \cup {Gone}
  <2>1. Destination(c.req, r) \subseteq Boxes \cup {Gone}
    <3> HIDE DEF TypeOK
    <3> QED BY DEF Destination, findMailbox, findMailboxDeep, TopLevel
  <2>2. QED
    BY <2>1
<1>e. ASSUME NEW m \in Copies, NEW box \in Boxes \cup {Gone}, c.resolved # <<>>
      PROVE  EffectOf(c.no, r, m, box) \in Effect
  <2>1. r \in Picked /\ c.no \in Nat
    BY <1>c, <1>e, AppliedType DEF Call
  <2>2. QED
    BY <2>1 DEF EffectOf, Effect, Picked
<1>4. ASSUME ApplyOne(w) PROVE TypeOK'
  <2>1. c.resolved # <<>>
    BY <1>4 DEF ApplyOne, c
  <2>2. [c EXCEPT !.pc = "journal"] \in Call
    BY <1>c DEF Call
  <2>3. call' \in [Workers -> Call]
    <3>1. \/ Become(w, [c EXCEPT !.pc = "journal"])
          \/ Become(w, [c EXCEPT !.resolved = Tail(@), !.succeeded = @ \cup {r.id}])
          \/ Become(w, [c EXCEPT !.resolved = Tail(@), !.failed = @ \cup {r.id}])
      BY <1>4 DEF ApplyOne, c
    <3>2. QED
      BY <1>c, <2>1, <2>2, <3>1, AppliedType, BecomeType
  <2>4. CASE \E m \in getMessageHandle(at, r.id, r.box), box \in Destination(c.req, r) :
               /\ at' = [at EXCEPT ![m] = box]
               /\ effects' = effects \cup {EffectOf(c.no, r, m, box)}
               /\ TouchedBy(w)
    <3>1. PICK m \in Copies, box \in Boxes \cup {Gone} :
               /\ at' = [at EXCEPT ![m] = box]
               /\ effects' = effects \cup {EffectOf(c.no, r, m, box)}
               /\ TouchedBy(w)
      BY <1>d, <1>h, <2>1, <2>4
    <3>2. effects' \subseteq Effect
      BY <1>e, <2>1, <3>1
    <3>3. at' \in [Copies -> Boxes \cup {Gone}]
      BY <3>1
    <3>5. touched' \subseteq Touch
      BY <1>4, <1>t, <3>1 DEF ApplyOne, c
    <3>4. QED
      BY <1>4, <2>3, <3>2, <3>3, <3>5 DEF ApplyOne
  <2>5. CASE UNCHANGED <<at, effects, touched>>
    BY <1>4, <2>3, <2>5 DEF ApplyOne
  <2>6. QED
    BY <1>4, <2>4, <2>5 DEF ApplyOne, c
<1>5. ASSUME ApplyTimeout(w) PROVE TypeOK'
  <2>1. /\ c.resolved # <<>>
        /\ Become(w, [c EXCEPT !.resolved = Tail(@), !.failed = @ \cup {r.id}])
    BY <1>5 DEF ApplyTimeout, c
  <2>2. call' \in [Workers -> Call]
    BY <1>c, <2>1, AppliedType, BecomeType
  <2>3. PICK m \in Copies, box \in Boxes \cup {Gone} :
               /\ late' = late \cup {<<m, box>>}
               /\ effects' = effects \cup {EffectOf(c.no, r, m, box)}
    BY <1>5, <1>d, <1>h, <2>1 DEF ApplyTimeout, c
  <2>4. effects' \subseteq Effect
    BY <1>e, <2>1, <2>3
  <2>5. late' \subseteq Copies \X (Boxes \cup {Gone})
    BY <2>3
  <2>7. touched' \subseteq Touch
    BY <1>5, <1>t DEF ApplyTimeout, c
  <2>6. QED
    BY <1>5, <1>f, <2>2, <2>4, <2>5, <2>7 DEF ApplyTimeout
<1>6. ASSUME Finish(w) \/ ResolveLocked(w) \/ UndoFinish(w) \/ UndoMarkLocked(w)
      PROVE  TypeOK'
  <2>1. Return(w, "ok") \/ Return(w, "error")
    BY <1>6 DEF Finish, ResolveLocked, UndoFinish, UndoMarkLocked
  <2>2. call' \in [Workers -> Call]
    BY <2>1, ReturnType DEF Outcomes
  <2>3. QED
    BY <1>6, <1>f, <2>2 DEF Finish, ResolveLocked, UndoFinish, UndoMarkLocked
<1>7. ASSUME c.pc = "journal"
      PROVE  UndoRecord(c.no, c.req, r) \in Row
  <2>1. c.resolved # <<>> /\ c.req \in Requests
    BY <1>7 DEF CallsHold, Holds, Journaling, c
  <2>2. r.id \in Ids /\ AccountOf(r.box) \in Accounts /\ NameOf(r.box) \in Names
    BY <1>c, <2>1, AppliedType, LookupAssumption DEF Picked, AccountOf, NameOf
  <2>3. (IF c.req.op = "move" THEN c.req.toMailbox ELSE Trash) \in Names
    BY <2>1, MovesAssumption DEF Request
  <2>4. c.no \in Nat /\ clock + 1 \in Nat
    BY <1>c DEF Call
  <2>5. QED
    BY <2>1, <2>2, <2>3, <2>4 DEF UndoRecord, Row
<1>8. ASSUME JournalInsert(w) PROVE TypeOK'
  <2> DEFINE row == UndoRecord(c.no, c.req, r)
  <2>1. row \in Row
    BY <1>7, <1>8 DEF JournalInsert, c
  <2>2. /\ clock' = clock + 1 /\ written' = written \cup {row}
        /\ journal' = journal \cup {row}
        /\ Become(w, [c EXCEPT !.pc = "rank"])
        /\ UNCHANGED <<mailVars, cache, readOnly, boundVars, effects, touched>>
    BY <1>8 DEF JournalInsert, c
  <2> HIDE DEF row
  <2>3. call' \in [Workers -> Call]
    <3>1. [c EXCEPT !.pc = "rank"] \in Call
      BY <1>c DEF Call
    <3>2. QED
      BY <2>2, <3>1, BecomeType
  <2>5. clock' \in Nat /\ journal' \subseteq Row /\ written' \subseteq Row
    BY <2>1, <2>2
  <2>6. QED
    BY <2>2, <2>3, <2>5
<1>j. c.pc \in Journaling => Journaled(c) \in Call
  BY <1>c, AppliedType DEF CallsHold, Holds, c
<1>18. ASSUME RankBatches(w) PROVE TypeOK'
  <2>1. /\ \/ Become(w, Journaled(c))
           \/ Become(w, [c EXCEPT !.pc = "drop", !.stale = StaleBatches(journal)])
        /\ c.pc = "rank"
        /\ UNCHANGED <<mailVars, cache, journalVars, readOnly, boundVars, historyVars>>
    BY <1>18 DEF RankBatches, c
  <2>2. StaleBatches(journal) \subseteq Nat
    BY DEF StaleBatches, Row
  <2>3. [c EXCEPT !.pc = "drop", !.stale = StaleBatches(journal)] \in Call
    BY <1>c, <2>2 DEF Call
  <2>4. call' \in [Workers -> Call]
    BY <1>j, <2>1, <2>3, BecomeType DEF Journaling
  <2>5. QED
    BY <2>1, <2>4
<1>19. ASSUME DropStale(w) PROVE TypeOK'
  <2>1. /\ c.pc = "drop" /\ Become(w, Journaled(c))
        /\ journal' = {q \in journal : q.batch \notin c.stale}
        /\ UNCHANGED <<mailVars, cache, clock, readOnly, boundVars, historyVars>>
    BY <1>19 DEF DropStale, c
  <2>2. call' \in [Workers -> Call]
    BY <1>j, <2>1, BecomeType DEF Journaling
  <2>3. QED
    BY <2>1, <2>2
<1>9. ASSUME JournalLocked(w) PROVE TypeOK'
  <2>1. call' \in [Workers -> Call]
    BY <1>9, ReturnType DEF JournalLocked, Outcomes
  <2>2. QED
    BY <1>9, <1>f, <2>1 DEF JournalLocked
<1>10. ASSUME EmptyTrash(w) \/ EmptyTrashTimeout(w) PROVE TypeOK'
  <2>1. Return(w, "ok") \/ Return(w, "error")
    BY <1>10 DEF EmptyTrash, EmptyTrashTimeout
  <2>2. call' \in [Workers -> Call]
    BY <2>1, ReturnType DEF Outcomes
  <2>3. at' \in [Copies -> Boxes \cup {Gone}]
    BY <1>10 DEF EmptyTrash, EmptyTrashTimeout
  <2>5. touched' \subseteq Touch
    BY <1>10, <1>t DEF EmptyTrash, EmptyTrashTimeout, c
  <2>4. QED
    BY <1>10, <1>f, <2>2, <2>3, <2>5 DEF EmptyTrash, EmptyTrashTimeout
<1>g. \A row \in FirstRows(c.rows) : row \in c.rows
  BY DEF FirstRows
<1>11. ASSUME UndoLookUp(w) PROVE TypeOK'
  <2>1. PICK row \in FirstRows(c.rows) :
          Become(w, [c EXCEPT !.pc = "undo_search",
                       !.tries = Attempts(cache, seed, row.id, row.account, row.to)])
    BY <1>11 DEF UndoLookUp, c
  <2>2. row.id \in Ids /\ row.account \in Accounts /\ row.to \in Names
    BY <1>c, <1>g, <2>1, UndoType DEF Row
  <2>3. Attempts(cache, seed, row.id, row.account, row.to) \subseteq Attempt
    BY <2>2, AttemptsType
  <2>4. [c EXCEPT !.pc = "undo_search",
           !.tries = Attempts(cache, seed, row.id, row.account, row.to)] \in Call
    BY <1>c, <2>3 DEF Call
  <2>5. call' \in [Workers -> Call]
    BY <2>1, <2>4, BecomeType
  <2>6. QED
    BY <1>11, <2>5 DEF UndoLookUp
<1>20. ASSUME UndoSearch(w) PROVE TypeOK'
  <2>1. PICK row \in FirstRows(c.rows) :
          SearchNext(w, row.id, "undo_remember", RowFailed(c, row))
    BY <1>20 DEF UndoSearch, c
  <2>2. RowFailed(c, row) \in Call
    BY <1>c, <1>g, <2>1, UndoType
  <2>3. call' \in [Workers -> Call]
    BY <2>1, <2>2, SearchType
  <2>4. QED
    BY <1>20, <2>3 DEF UndoSearch
<1>21. ASSUME UndoRemember(w) PROVE TypeOK'
  <2>1. PICK row \in FirstRows(c.rows) :
          /\ cache' = CachePut(cache, row.id, c.here)
          /\ Become(w, [c EXCEPT !.pc = "unmove"])
    BY <1>21 DEF UndoRemember, c
  <2>2. row.id \in Ids /\ [c EXCEPT !.pc = "unmove"] \in Call
    BY <1>c, <1>g, <2>1, UndoType DEF Row
  <2>3. c.here \in Boxes
    BY <1>21 DEF UndoRemember, CallsHold, Holds, c
  <2>4. cache' \in [Ids -> [Boxes -> Nat]]
    BY <2>1, <2>2, <2>3, CachePutType
  <2>5. call' \in [Workers -> Call]
    BY <2>1, <2>2, BecomeType
  <2>6. QED
    BY <1>21, <2>4, <2>5 DEF UndoRemember
<1>12. ASSUME UndoResolveFault(w) PROVE TypeOK'
  <2>1. PICK row \in FirstRows(c.rows) : Become(w, RowFailed(c, row))
    BY <1>12 DEF UndoResolveFault, c
  <2>2. call' \in [Workers -> Call]
    BY <1>c, <1>g, <2>1, UndoType, BecomeType
  <2>3. QED
    BY <1>12, <1>f, <2>2 DEF UndoResolveFault
<1>i. \A row : Origin(row) \subseteq Boxes
  BY DEF Origin, findMailboxDeep
<1>13. ASSUME UndoMove(w) PROVE TypeOK'
  <2>1. PICK row \in FirstRows(c.rows) :
        \/ /\ \E m \in Copies, box \in Boxes : at' = [at EXCEPT ![m] = box]
           /\ TouchedBy(w)
           /\ Become(w, [c EXCEPT !.pc = "mark"])
        \/ Become(w, RowFailed(c, row)) /\ UNCHANGED <<at, touched>>
    BY <1>13, <1>h, <1>i DEF UndoMove, c
  <2>2. call' \in [Workers -> Call]
    BY <1>c, <1>g, <2>1, UndoType, BecomeType
  <2>3. at' \in [Copies -> Boxes \cup {Gone}]
    BY <2>1
  <2>5. touched' \subseteq Touch
    BY <1>13, <1>t, <2>1 DEF UndoMove, c
  <2>4. QED
    BY <1>13, <2>2, <2>3, <2>5 DEF UndoMove
<1>14. ASSUME UndoMoveTimeout(w) PROVE TypeOK'
  <2>1. PICK row \in FirstRows(c.rows) :
        /\ \E m \in Copies, box \in Boxes : late' = late \cup {<<m, box>>}
        /\ Become(w, RowFailed(c, row))
    BY <1>14, <1>h, <1>i DEF UndoMoveTimeout, c
  <2>2. call' \in [Workers -> Call]
    BY <1>c, <1>g, <2>1, UndoType, BecomeType
  <2>3. late' \subseteq Copies \X (Boxes \cup {Gone})
    BY <2>1
  <2>5. touched' \subseteq Touch
    BY <1>14, <1>t DEF UndoMoveTimeout, c
  <2>4. QED
    BY <1>14, <1>f, <2>2, <2>3, <2>5 DEF UndoMoveTimeout
<1>15. ASSUME UndoMark(w) PROVE TypeOK'
  <2>1. PICK row \in FirstRows(c.rows) :
        /\ journal' = {IF q.ts = row.ts THEN [q EXCEPT !.undone = TRUE] ELSE q : q \in journal}
        /\ Become(w, [DropRow(c, row) EXCEPT !.succeeded = @ \cup {row.id}])
    BY <1>15 DEF UndoMark, c
  <2>2. call' \in [Workers -> Call]
    BY <1>c, <1>g, <2>1, UndoType, BecomeType
  <2>3. \A q \in Row : [q EXCEPT !.undone = TRUE] \in Row
    BY DEF Row
  <2>4. journal' \subseteq Row
    BY <2>1, <2>3
  <2>5. QED
    BY <1>15, <2>2, <2>4 DEF UndoMark
<1> QED
  BY <1>1, <1>2, <1>3, <1>4, <1>5, <1>6, <1>8, <1>9, <1>10, <1>11, <1>12, <1>13,
     <1>14, <1>15, <1>16, <1>17, <1>18, <1>19, <1>20, <1>21 DEF Work, Disturbed

\* The steps of the world around the calls keep every type.
LEMMA WorldType ==
    ASSUME TypeOK,
           \/ \E c \in Copies, box \in Boxes \cup {Gone} :
                UserMove(c, box) \/ LateEffect(c, box)
           \/ \E id \in Ids, name \in Names \cup {None} : Reindex(id, name)
           \/ Restart
           \/ UNCHANGED vars
    PROVE  TypeOK'
<1> USE DEF TypeOK, mailVars, journalVars, historyVars, boundVars
<1>1. CASE \E c \in Copies, box \in Boxes \cup {Gone} : UserMove(c, box)
  BY <1>1 DEF UserMove
<1>2. CASE \E c \in Copies, box \in Boxes \cup {Gone} : LateEffect(c, box)
  BY <1>2 DEF LateEffect
<1>3. CASE \E id \in Ids, name \in Names \cup {None} : Reindex(id, name)
  BY <1>3 DEF Reindex
<1>4. CASE Restart
  <2>1. call' \in [Workers -> Call]
    BY <1>4, IdleType DEF Restart
  <2>2. QED
    BY <1>4, <2>1 DEF Restart, Fault
<1>5. CASE UNCHANGED vars
  BY <1>5 DEF vars
<1>6. QED
  BY <1>1, <1>2, <1>3, <1>4, <1>5

-----------------------------------------------------------------------------
(***************************************************************************)
(* The invariant behind the types and the journal: a call in its journal   *)
(* step still holds the message whose move it is about to write down.      *)
(***************************************************************************)
\* A call outside these steps holds what it must as soon as it has a request.
Bare(d) == d.pc \notin {"search", "remember", "undo_remember"} \cup Journaling

LEMMA BareHolds ==
    ASSUME NEW d, NEW done, NEW rows, d.req \in Requests, Bare(d)
    PROVE  Holds(d, done, rows)
BY DEF Holds, Bare, Journaling

\* Every step of a started call but ApplyOne makes it hold what it must, and
\* leaves the other workers alone.
LEMMA StepHolds ==
    ASSUME TypeOK, CallsHold, NEW w \in Workers, Work(w) \/ Disturbed(w), ~ApplyOne(w),
           call[w].req \in Requests
    PROVE  /\ Holds(call'[w], effects', written')
           /\ \A v \in Workers \ {w} : call'[v] = call[v]
<1> DEFINE c == call[w]
<1>1. call \in [Workers -> Call] /\ c \in Call
  BY DEF TypeOK
<1>0. Holds(c, effects, written)
  BY DEF CallsHold
<1>a. \A d : Become(w, d) => call'[w] = d /\ \A v \in Workers \ {w} : call'[v] = call[v]
  BY <1>1 DEF Become
<1>b. ASSUME NEW d, Become(w, d), d.req = c.req, Bare(d)
      PROVE  /\ Holds(call'[w], effects', written')
             /\ \A v \in Workers \ {w} : call'[v] = call[v]
  BY <1>a, <1>b, BareHolds
<1>2. CASE LookUp(w)
  <2>1. PICK x : Become(w, [c EXCEPT !.pc = "search", !.tries = x])
    BY <1>2 DEF LookUp
  <2>2. c.todo # <<>> /\ c.pc = "resolve"
    BY <1>2 DEF LookUp
  <2>3. /\ call'[w] = [c EXCEPT !.pc = "search", !.tries = x]
        /\ \A v \in Workers \ {w} : call'[v] = call[v]
    BY <1>a, <2>1
  <2>4. call'[w].req = c.req /\ call'[w].pc = "search" /\ call'[w].todo = c.todo
    BY <1>1, <2>3 DEF Call
  <2>5. QED
    BY <2>2, <2>3, <2>4 DEF Holds, Journaling
<1>3. CASE Search(w)
  <2>1. c.pc = "search" /\ c.todo # <<>>
    BY <1>0, <1>3 DEF Search, Holds
  <2>2. IdFailed(c) \in Call
    BY <1>1, <2>1, ResolvedType
  <2>3. SearchNext(w, Head(c.todo), "remember", IdFailed(c))
    BY <1>3 DEF Search
  <2>4. /\ \A v \in Workers \ {w} : call'[v] = call[v]
        /\ \/ \E box \in Boxes :
                 call'[w] = [c EXCEPT !.pc = "remember", !.tries = {}, !.here = box]
           \/ \E t : call'[w] = [c EXCEPT !.tries = @ \ {t}]
           \/ call'[w] = IdFailed(c)
    BY <1>1, <2>2, <2>3, SearchType
  <2>5. CASE \E box \in Boxes :
                 call'[w] = [c EXCEPT !.pc = "remember", !.tries = {}, !.here = box]
    BY <1>1, <2>1, <2>4, <2>5 DEF Holds, Journaling, Call
  <2>6. CASE \E t : call'[w] = [c EXCEPT !.tries = @ \ {t}]
    BY <1>1, <2>1, <2>4, <2>6 DEF Holds, Journaling, Call
  <2>7. CASE call'[w] = IdFailed(c)
    BY <1>1, <2>1, <2>4, <2>7 DEF Holds, Journaling, IdFailed, Call
  <2>8. QED
    BY <2>4, <2>5, <2>6, <2>7
<1>4. CASE Remember(w)
  <2>1. PICK x : Become(w, [c EXCEPT !.pc = "resolve", !.todo = Tail(@), !.here = None,
                              !.resolved = x])
    BY <1>4 DEF Remember
  <2>2. QED
    BY <1>1, <1>b, <2>1 DEF Bare, Journaling, Call
<1>5. CASE ResolveTimeout(w)
  BY <1>1, <1>5, <1>b DEF ResolveTimeout, IdFailed, Bare, Journaling, Call
<1>6. CASE \E o : Return(w, o)
  BY <1>1, <1>6, <1>b DEF Return, Bare, Journaling, Call
<1>7. CASE Guard(w)
  <2>1. \/ Become(w, [c EXCEPT !.pc = "apply"])
        \/ \E o : Return(w, o)
    BY <1>7 DEF Guard
  <2>2. QED
    BY <1>1, <1>6, <1>b, <2>1 DEF Bare, Journaling, Call
<1>8. CASE ApplyTimeout(w)
  <2>1. c.pc = "apply" /\ \E x : Become(w, [c EXCEPT !.resolved = Tail(@), !.failed = x])
    BY <1>8 DEF ApplyTimeout
  <2>2. QED
    BY <1>1, <1>b, <2>1 DEF Bare, Journaling, Call
<1>9. CASE JournalInsert(w)
  <2> DEFINE row == UndoRecord(c.no, c.req, Head(c.resolved))
  <2>1. /\ c.pc = "journal" /\ Become(w, [c EXCEPT !.pc = "rank"])
        /\ effects' = effects /\ row \in written'
    BY <1>9 DEF JournalInsert
  <2>2. call'[w] = [c EXCEPT !.pc = "rank"]
    BY <1>a, <2>1
  <2>3. row.batch = c.no /\ row.id = Head(c.resolved).id
    BY DEF UndoRecord
  <2> HIDE DEF row
  <2>4. QED
    BY <1>0, <1>1, <1>a, <2>1, <2>2, <2>3 DEF Holds, Journaling, Call
<1>j. Bare(Journaled(c)) /\ Journaled(c).req = c.req
  BY <1>1 DEF Journaled, Bare, Journaling, Call
<1>10. CASE RankBatches(w)
  <2>1. /\ \/ Become(w, Journaled(c))
           \/ \E x : Become(w, [c EXCEPT !.pc = "drop", !.stale = x])
        /\ c.pc = "rank" /\ effects' = effects /\ written' = written
    BY <1>10 DEF RankBatches, historyVars
  <2>2. CASE Become(w, Journaled(c))
    BY <1>b, <1>j, <2>2
  <2>3. CASE \E x : Become(w, [c EXCEPT !.pc = "drop", !.stale = x])
    <3>1. PICK x : call'[w] = [c EXCEPT !.pc = "drop", !.stale = x]
      BY <1>a, <2>3
    <3>2. QED
      BY <1>0, <1>1, <1>a, <2>1, <2>3, <3>1 DEF Holds, Journaling, Call
  <2>4. QED
    BY <2>1, <2>2, <2>3
<1>11. CASE DropStale(w)
  BY <1>11, <1>b, <1>j DEF DropStale
<1>12. CASE UndoLookUp(w)
  <2>1. \E x : Become(w, [c EXCEPT !.pc = "undo_search", !.tries = x])
    BY <1>12 DEF UndoLookUp
  <2>2. QED
    BY <1>1, <1>b, <2>1 DEF Bare, Journaling, Call
<1>g. \A row \in FirstRows(c.rows) : row \in c.rows /\ RowFailed(c, row) \in Call
  BY <1>1, UndoType DEF FirstRows
<1>f. ASSUME NEW row, Become(w, RowFailed(c, row))
      PROVE  /\ Holds(call'[w], effects', written')
             /\ \A v \in Workers \ {w} : call'[v] = call[v]
  BY <1>1, <1>b, <1>f DEF RowFailed, DropRow, Bare, Journaling, Call
<1>13. CASE UndoSearch(w)
  <2>1. PICK row \in FirstRows(c.rows) :
          c.pc = "undo_search" /\ SearchNext(w, row.id, "undo_remember", RowFailed(c, row))
    BY <1>13 DEF UndoSearch
  <2>2. /\ \A v \in Workers \ {w} : call'[v] = call[v]
        /\ \/ \E box \in Boxes :
                 call'[w] = [c EXCEPT !.pc = "undo_remember", !.tries = {}, !.here = box]
           \/ \E t : call'[w] = [c EXCEPT !.tries = @ \ {t}]
           \/ call'[w] = RowFailed(c, row)
    BY <1>1, <1>g, <2>1, SearchType
  <2>5. CASE \E box \in Boxes :
                 call'[w] = [c EXCEPT !.pc = "undo_remember", !.tries = {}, !.here = box]
    BY <1>1, <2>1, <2>2, <2>5 DEF Holds, Journaling, Call
  <2>6. CASE \E t : call'[w] = [c EXCEPT !.tries = @ \ {t}]
    BY <1>1, <2>1, <2>2, <2>6 DEF Holds, Journaling, Call
  <2>7. CASE call'[w] = RowFailed(c, row)
    BY <1>1, <2>1, <2>2, <2>7, BareHolds DEF RowFailed, DropRow, Bare, Journaling, Call
  <2>8. QED
    BY <2>2, <2>5, <2>6, <2>7
<1>14. CASE UndoRemember(w)
  BY <1>1, <1>14, <1>b DEF UndoRemember, Bare, Journaling, Call
<1>15. CASE UndoResolveFault(w) \/ UndoMoveTimeout(w)
  BY <1>15, <1>f DEF UndoResolveFault, UndoMoveTimeout
<1>16. CASE UndoMove(w)
  <2>1. \/ Become(w, [c EXCEPT !.pc = "mark"])
        \/ \E row : Become(w, RowFailed(c, row))
    BY <1>16 DEF UndoMove
  <2>2. QED
    BY <1>1, <1>b, <1>f, <2>1 DEF Bare, Journaling, Call
<1>17. CASE UndoMark(w)
  <2>1. \E row, x : Become(w, [DropRow(c, row) EXCEPT !.succeeded = x])
    BY <1>17 DEF UndoMark
  <2>2. QED
    BY <1>1, <1>b, <2>1 DEF DropRow, Bare, Journaling, Call
<1>18. Finish(w) \/ ResolveLocked(w) \/ JournalLocked(w) \/ EmptyTrash(w)
      \/ EmptyTrashTimeout(w) \/ UndoMarkLocked(w) \/ UndoFinish(w)
      => \E o : Return(w, o)
  BY DEF Finish, ResolveLocked, JournalLocked, EmptyTrash, EmptyTrashTimeout,
         UndoMarkLocked, UndoFinish
<1>19. QED
  BY <1>2, <1>3, <1>4, <1>5, <1>6, <1>7, <1>8, <1>9, <1>10, <1>11, <1>12, <1>13,
     <1>14, <1>15, <1>16, <1>17, <1>18 DEF Work, Disturbed

\* ApplyOne leads into the journal step only with the effect it recorded.
LEMMA ApplyHolds ==
    ASSUME TypeOK, NEW w \in Workers, ApplyOne(w), call[w].req \in Requests
    PROVE  /\ Holds(call'[w], effects', written')
           /\ \A v \in Workers \ {w} : call'[v] = call[v]
<1> DEFINE c == call[w]
           r == Head(c.resolved)
<1>1. call \in [Workers -> Call] /\ c \in Call
  BY DEF TypeOK
<1>2. c.pc = "apply" /\ c.resolved # <<>>
  BY DEF ApplyOne
<1>3. CASE \E x, y : \/ Become(w, [c EXCEPT !.resolved = x, !.succeeded = y])
                    \/ Become(w, [c EXCEPT !.resolved = x, !.failed = y])
  <2>1. CASE \E x, y : Become(w, [c EXCEPT !.resolved = x, !.succeeded = y])
    BY <1>1, <1>2, <2>1, SMTT(30) DEF Holds, Journaling, Become, Call
  <2>2. CASE \E x, y : Become(w, [c EXCEPT !.resolved = x, !.failed = y])
    BY <1>1, <1>2, <2>2, SMTT(30) DEF Holds, Journaling, Become, Call
  <2>3. QED
    BY <1>3, <2>1, <2>2
<1>4. CASE /\ Become(w, [c EXCEPT !.pc = "journal"])
           /\ \E m, box : /\ m \in getMessageHandle(at, r.id, r.box)
                         /\ effects' = effects \cup {EffectOf(c.no, r, m, box)}
  <2>1. /\ call'[w].req = c.req /\ call'[w].no = c.no /\ call'[w].resolved = c.resolved
        /\ call'[w].pc = "journal"
        /\ \A v \in Workers \ {w} : call'[v] = call[v]
    BY <1>1, <1>4 DEF Become, Call
  <2>2. PICK m, box : /\ m \in getMessageHandle(at, r.id, r.box)
                      /\ effects' = effects \cup {EffectOf(c.no, r, m, box)}
    BY <1>4
  <2>3. EffectOf(c.no, r, m, box) \in effects'
    BY <2>2
  <2>4. /\ EffectOf(c.no, r, m, box).no = c.no
        /\ EffectOf(c.no, r, m, box).id = r.id
        /\ EffectOf(c.no, r, m, box).from = r.box
    BY <2>2 DEF EffectOf, getMessageHandle
  <2>5. QED
    BY <1>2, <2>1, <2>3, <2>4, SMTT(30) DEF Holds, Journaling
<1>5. QED
  BY <1>3, <1>4 DEF ApplyOne

\* The histories of effects and of rows only grow, and only JournalInsert
\* adds a row.
LEMMA HistoriesGrow ==
    ASSUME [Next]_vars
    PROVE  /\ effects \subseteq effects'
           /\ written \subseteq written'
           /\ written' # written => \E w \in Workers : JournalInsert(w)
<1>1. CASE UNCHANGED vars
  BY <1>1 DEF vars, historyVars
<1>2. ASSUME NEW w \in Workers, Begin(w)
      PROVE  effects' = effects /\ written' = written
  BY <1>2 DEF Begin, BeginBatch, BeginEmptyTrash, BeginUndo, historyVars
<1>3. ASSUME NEW w \in Workers, Work(w), ~JournalInsert(w)
      PROVE  effects \subseteq effects' /\ written' = written
  <2>1. CASE LookUp(w) \/ Search(w) \/ Remember(w) \/ Guard(w) \/ Finish(w)
    BY <2>1 DEF LookUp, Search, Remember, Guard, Finish, historyVars
  <2>2. CASE ApplyOne(w)
    BY <2>2 DEF ApplyOne
  <2>3. CASE RankBatches(w) \/ DropStale(w) \/ EmptyTrash(w)
    BY <2>3 DEF RankBatches, DropStale, EmptyTrash, historyVars
  <2>4. CASE UndoLookUp(w) \/ UndoSearch(w) \/ UndoRemember(w) \/ UndoMark(w) \/ UndoFinish(w)
    BY <2>4 DEF UndoLookUp, UndoSearch, UndoRemember, UndoMark, UndoFinish, historyVars
  <2>5. CASE UndoMove(w)
    BY <2>5 DEF UndoMove
  <2>6. QED
    BY <1>3, <2>1, <2>2, <2>3, <2>4, <2>5 DEF Work
<1>4. ASSUME NEW w \in Workers, Disturbed(w)
      PROVE  effects \subseteq effects' /\ written' = written
  <2>1. CASE \/ ResolveTimeout(w) \/ ResolveLocked(w) \/ UndoResolveFault(w)
             \/ UndoMarkLocked(w) \/ JournalLocked(w)
    BY <2>1 DEF ResolveTimeout, ResolveLocked, UndoResolveFault, UndoMarkLocked,
       JournalLocked, historyVars
  <2>2. CASE ApplyTimeout(w) \/ EmptyTrashTimeout(w)
    BY <2>2 DEF ApplyTimeout, EmptyTrashTimeout
  <2>3. CASE UndoMoveTimeout(w)
    BY <2>3 DEF UndoMoveTimeout
  <2>4. QED
    BY <1>4, <2>1, <2>2, <2>3 DEF Disturbed
<1>5. CASE \/ \E m \in Copies, box \in Boxes \cup {Gone} : UserMove(m, box) \/ LateEffect(m, box)
           \/ \E id \in Ids, name \in Names \cup {None} : Reindex(id, name)
           \/ Restart
  BY <1>5 DEF UserMove, LateEffect, Reindex, Restart, historyVars
<1>6. ASSUME NEW w \in Workers, JournalInsert(w)
      PROVE  effects' = effects /\ written \subseteq written'
  BY <1>6 DEF JournalInsert
<1>7. QED
  BY <1>1, <1>2, <1>3, <1>4, <1>5, <1>6 DEF Next

\* A call that starts holds its request and is in none of these steps.
LEMMA BeginHolds ==
    ASSUME TypeOK, NEW w \in Workers, NEW req \in Requests,
           BeginBatch(w, req) \/ BeginEmptyTrash(w, req) \/ BeginUndo(w, req)
    PROVE  /\ call'[w].req = req /\ Bare(call'[w])
           /\ \A v \in Workers \ {w} : call'[v] = call[v]
<1>1. call \in [Workers -> Call]
  BY DEF TypeOK
<1> USE DEF Bare, Journaling
<1>2. CASE BeginBatch(w, req)
  BY <1>1, <1>2 DEF BeginBatch, Become, Idle
<1>3. CASE BeginEmptyTrash(w, req)
  BY <1>1, <1>3 DEF BeginEmptyTrash, Become, Idle
<1>4. CASE BeginUndo(w, req)
  <2> DEFINE i == [Idle EXCEPT !.req = req, !.no = calls + 1]
  <2>1. \/ \E o : Become(w, [i EXCEPT !.pc = "done", !.outcome = o])
        \/ \E x : Become(w, [i EXCEPT !.pc = "undo", !.rows = x])
    BY <1>4 DEF BeginUndo
  <2>2. QED
    BY <1>1, <2>1 DEF Become, Idle
<1>5. QED
  BY <1>2, <1>3, <1>4

\* No step makes a call forget what it holds.
LEMMA HoldsStep ==
    ASSUME TypeOK, CallsHold, [Next]_vars
    PROVE  CallsHold'
<1>1. \A v \in Workers : call'[v] = call[v] => Holds(call'[v], effects', written')
  BY HistoriesGrow DEF CallsHold, Holds
<1>2. ASSUME NEW w \in Workers, Begin(w) PROVE CallsHold'
  <2>1. PICK req \in Requests :
          BeginBatch(w, req) \/ BeginEmptyTrash(w, req) \/ BeginUndo(w, req)
    BY <1>2 DEF Begin
  <2>2. Holds(call'[w], effects', written') /\ \A v \in Workers \ {w} : call'[v] = call[v]
    BY <2>1, BeginHolds, BareHolds
  <2>3. QED
    BY <1>1, <2>2 DEF CallsHold
<1>3. ASSUME NEW w \in Workers, Work(w) \/ Disturbed(w) PROVE CallsHold'
  <2>1. call[w].pc # "idle"
    BY <1>3 DEF Work, Disturbed, LookUp, Search, Remember, Guard, ApplyOne, JournalInsert,
       RankBatches, DropStale, Finish, EmptyTrash, UndoLookUp, UndoSearch, UndoRemember,
       UndoMove, UndoMark, UndoFinish, ResolveTimeout, ResolveLocked, ApplyTimeout,
       JournalLocked, EmptyTrashTimeout, UndoResolveFault, UndoMoveTimeout, UndoMarkLocked
  <2>2. call[w].req \in Requests
    BY <2>1 DEF CallsHold, Holds
  <2>3. Holds(call'[w], effects', written') /\ \A v \in Workers \ {w} : call'[v] = call[v]
    BY <1>3, <2>2, StepHolds, ApplyHolds
  <2>4. QED
    BY <1>1, <2>3 DEF CallsHold
<1>4. ASSUME UNCHANGED call PROVE CallsHold'
  BY <1>1, <1>4 DEF CallsHold
<1>5. ASSUME Restart PROVE CallsHold'
  BY <1>5 DEF Restart, CallsHold, Holds, Idle, Journaling
<1>6. QED
  BY <1>2, <1>3, <1>4, <1>5 DEF Next, UserMove, LateEffect, Reindex, vars

-----------------------------------------------------------------------------
(***************************************************************************)
(* The first theorems                                                      *)
(***************************************************************************)
\* Only journal_write adds to the history of rows, and the row it adds says
\* where the message it holds was taken from.
LEMMA OriginStep ==
    ASSUME TypeOK, CallsHold, JournalTellsOrigin, [Next]_vars
    PROVE  JournalTellsOrigin'
<1>1. effects \subseteq effects'
  BY HistoriesGrow
<1>2. CASE written' = written
  BY <1>1, <1>2 DEF JournalTellsOrigin
<1>3. ASSUME NEW w \in Workers, JournalInsert(w)
      PROVE  JournalTellsOrigin'
  <2> DEFINE c == call[w]
             r == Head(c.resolved)
             row == UndoRecord(c.no, c.req, r)
  <2>0. c.pc = "journal" /\ written' = written \cup {row}
    BY <1>3 DEF JournalInsert
  <2>1. c \in Call /\ c.resolved # <<>>
    BY <2>0 DEF TypeOK, CallsHold, Holds, Journaling
  <2>2. PICK e \in effects : e.no = c.no /\ e.id = r.id /\ e.from = r.box
    BY <2>0 DEF CallsHold, Holds, Journaling
  <2>3. r.box \in Accounts \X Names
    BY <2>1, AppliedType, LookupAssumption DEF Picked
  <2>4. row.batch = c.no /\ row.id = r.id /\ <<row.account, row.from>> = r.box
    BY <2>3 DEF UndoRecord, AccountOf, NameOf
  <2>5. e \in effects' /\ e.no = row.batch /\ e.id = row.id
        /\ e.from = <<row.account, row.from>>
    BY <1>1, <2>2, <2>4
  <2> HIDE DEF row
  <2>6. QED
    BY <1>1, <2>0, <2>5 DEF JournalTellsOrigin
<1>4. QED
  BY <1>2, <1>3, HistoriesGrow

MovesInv == TypeOK /\ CallsHold /\ JournalTellsOrigin

LEMMA MovesInvInit ==
    ASSUME Init
    PROVE  MovesInv
<1>1. call \in [Workers -> Call] /\ CallsHold
  BY IdleType DEF Init, CallsHold, Holds, Idle, Journaling
<1>2. readOnly \in BOOLEAN
  BY DEF Init
<1>3. TypeOK
  BY <1>1, <1>2, MovesAssumption DEF Init, TypeOK
<1>4. JournalTellsOrigin
  BY DEF Init, JournalTellsOrigin
<1>5. QED
  BY <1>1, <1>3, <1>4 DEF MovesInv

LEMMA MovesInvStep ==
    ASSUME MovesInv, [Next]_vars
    PROVE  MovesInv'
<1>1. TypeOK /\ CallsHold /\ JournalTellsOrigin
  BY DEF MovesInv
<1>2. TypeOK'
  BY <1>1, BeginType, StepType, WorldType DEF Next, Begin
<1>3. QED
  BY <1>1, <1>2, HoldsStep, OriginStep DEF MovesInv

\* What the theorems below are read off from holds in every reachable state.
THEOREM MovesInvariant == Spec => []MovesInv
BY MovesInvInit, MovesInvStep, PTL DEF Spec

\* Type correctness.
THEOREM TypeCorrect == Spec => []TypeOK
<1>1. MovesInv => TypeOK
  BY DEF MovesInv
<1>2. QED
  BY <1>1, MovesInvariant, PTL

\* Every row journal_write ever wrote names the mailbox Mail took that message
\* from in that very call (core/safety.py:132-143, organize.py:91-97).
THEOREM JournalOrigin == Spec => []JournalTellsOrigin
<1>1. MovesInv => JournalTellsOrigin
  BY DEF MovesInv
<1>2. QED
  BY <1>1, MovesInvariant, PTL

=============================================================================
