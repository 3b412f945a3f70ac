-------------------------- MODULE GuardedMoves_calls --------------------------
(***************************************************************************)
(* What holds of the calls of GuardedMoves, for every value of its         *)
(* constants.                                                              *)
(*                                                                         *)
(* The batch limits: what a call has spent, the copies it had Mail touch,  *)
(* and what it may still spend, the messages left in its batch, stay       *)
(* within the limit together.  Calls are told apart by their numbers.      *)
(* The gates: a call has passed them before it reaches a step in which     *)
(* Mail changes a mailbox.                                                 *)
(*                                                                         *)
(* What a batch tells its client: the ids still to do, the messages        *)
(* resolved and what is reported add up to what was asked for; an id named *)
(* once is either still ahead or has cost one copy; and the journal keeps  *)
(* every row, or some row of its batch is superseded.                      *)
(*                                                                         *)
(* What undo_last takes back, while one worker acts: a row is marked when  *)
(* its message is back, an undisturbed undo finds every message, and       *)
(* undoing newest-first ends where everything was.                         *)
(***************************************************************************)
EXTENDS GuardedMoves_proofs, WellFoundedInduction

BatchOps == {"move", "move_to_trash", "delete_permanent"}

\* The steps of _resolve_many, and those of undo_last.
Seeking == {"resolve", "search", "remember"}
Reversal == {"undo", "undo_search", "undo_remember", "unmove", "mark"}

-----------------------------------------------------------------------------
(***************************************************************************)
(* What a step does to the fields of its call                              *)
(***************************************************************************)
IdsOf(s) == {s[i].id : i \in DOMAIN s}

\* One message of the batch is done with.
Popped(c, d) == c.resolved # <<>> /\ d.resolved = Tail(c.resolved)

SameCall(c, d) == d.no = c.no /\ d.req = c.req

SameLists(c, d) ==
    /\ d.todo = c.todo /\ d.resolved = c.resolved
    /\ d.succeeded = c.succeeded /\ d.failed = c.failed

\* An id is looked up, or has been found.
Looking(c, d) ==
    /\ c.pc \in Seeking /\ d.pc \in Seeking \ {"resolve"} /\ d.outcome = c.outcome
    /\ SameLists(c, d)

\* One id is resolved, or has failed.
Resolving(c, d) ==
    /\ c.pc \in Seeking \ {"resolve"} /\ d.pc = "resolve" /\ d.outcome = c.outcome
    /\ c.todo # <<>> /\ d.todo = Tail(c.todo) /\ d.succeeded = c.succeeded
    /\ \/ /\ d.failed = c.failed
          /\ \E r : r.id = Head(c.todo) /\ d.resolved = Append(c.resolved, r)
       \/ d.failed = c.failed \cup {Head(c.todo)} /\ d.resolved = c.resolved

\* guard() lets the batch through.
Admitting(c, d) ==
    /\ c.pc = "resolve" /\ d.pc = "apply" /\ d.outcome = c.outcome
    /\ c.todo = <<>> /\ SameLists(c, d)
    /\ guardVerdict(readOnly, c.req, Len(c.resolved)) = "proceed"

\* One message of the batch has succeeded or failed.
Taking(c, d) ==
    /\ c.pc \in {"apply"} \cup Journaling /\ d.pc = "apply" /\ d.outcome = c.outcome
    /\ Popped(c, d) /\ d.todo = c.todo
    /\ \/ d.failed = c.failed \cup {Head(c.resolved).id} /\ d.succeeded = c.succeeded
       \/ d.failed = c.failed /\ d.succeeded = c.succeeded \cup {Head(c.resolved).id}

\* Mail has moved a message, and its row is next.
Moving(c, d) ==
    /\ c.pc = "apply" /\ d.pc = "journal" /\ d.outcome = c.outcome
    /\ c.resolved # <<>> /\ SameLists(c, d)

\* The row is written, or the batches are ranked.
Noting(c, d) ==
    /\ c.pc \in Journaling /\ d.pc \in Journaling \ {"journal"} /\ d.outcome = c.outcome
    /\ SameLists(c, d)

Ending(c, d) ==
    /\ c.pc \notin {"idle", "done"} /\ d.pc = "done" /\ SameLists(c, d)
    /\ d.outcome = "ok" => \/ c.pc = "apply" /\ c.resolved = <<>>
                           \/ c.pc \in {"empty", "undo"}

Reversing(c, d) ==
    c.pc \in Reversal /\ d.pc \in Reversal /\ d.outcome = c.outcome

\* What is added to the history of effects belongs to the message at hand.
EffectAtHand(c, d) ==
    \/ effects' = effects /\ ~Moving(c, d)
    \/ /\ c.pc = "apply" /\ (Taking(c, d) \/ Moving(c, d))
       /\ \E e : /\ e.no = c.no /\ e.id = Head(c.resolved).id /\ e.copy \in Copies
                 /\ effects' = effects \cup {e}

\* Of a reversible call nothing counts as done before its row is written.
RowAtHand(c, d) ==
    \/ d.succeeded = c.succeeded
    \/ ~Reversible(c.req)
    \/ c.pc \in Reversal
    \/ \E row \in written' : /\ row.batch = c.no /\ row.id = Head(c.resolved).id
                             /\ d.succeeded = c.succeeded \cup {Head(c.resolved).id}

Shape(c, d) ==
    /\ SameCall(c, d)
    /\ \/ Looking(c, d) \/ Resolving(c, d) \/ Admitting(c, d) \/ Taking(c, d)
       \/ Moving(c, d) \/ Noting(c, d) \/ Ending(c, d) \/ Reversing(c, d)

Shaped(c, d) == Shape(c, d) /\ EffectAtHand(c, d) /\ RowAtHand(c, d)

\* What every step of a call leaves alone.
Steady(w) ==
    /\ \A v \in Workers \ {w} : call'[v] = call[v]
    /\ calls' = calls /\ readOnly' = readOnly

\* The steps of a call change its record, and no other.
LEMMA StepSteady ==
    ASSUME TypeOK, NEW w \in Workers, Work(w) \/ Disturbed(w)
    PROVE  Steady(w)
<1>1. \A x : Become(w, x) => \A v \in Workers \ {w} : call'[v] = call[v]
  BY DEF TypeOK, Become
<1>2. CASE LookUp(w) \/ Search(w) \/ Remember(w) \/ Guard(w) \/ ApplyOne(w) \/ JournalInsert(w)
  BY <1>1, <1>2 DEF LookUp, Search, SearchNext, Remember, Guard, ApplyOne, JournalInsert,
     Return, Steady, boundVars
<1>3. CASE \/ RankBatches(w) \/ DropStale(w) \/ Finish(w) \/ EmptyTrash(w) \/ UndoLookUp(w)
           \/ UndoSearch(w) \/ UndoRemember(w) \/ UndoMove(w) \/ UndoMark(w) \/ UndoFinish(w)
  BY <1>1, <1>3 DEF RankBatches, DropStale, Finish, EmptyTrash, UndoLookUp, UndoSearch,
     SearchNext, UndoRemember, UndoMove, UndoMark, UndoFinish, Return, Steady, boundVars
<1>4. CASE Disturbed(w)
  BY <1>1, <1>4 DEF Disturbed, ResolveTimeout, ResolveLocked, ApplyTimeout, JournalLocked,
     EmptyTrashTimeout, UndoResolveFault, UndoMoveTimeout, UndoMarkLocked, Fault,
     Return, Steady
<1>5. QED
  BY <1>2, <1>3, <1>4 DEF Work

\* Only the move of a message waits for its row.
LEMMA ShapesDiffer ==
    ASSUME NEW c, NEW d, \/ Looking(c, d) \/ Resolving(c, d) \/ Admitting(c, d) \/ Taking(c, d)
                         \/ Noting(c, d) \/ Ending(c, d) \/ Reversing(c, d)
    PROVE  ~Moving(c, d)
BY DEF Looking, Resolving, Admitting, Taking, Noting, Ending, Reversing, Moving, Seeking,
   Journaling, Reversal

\* A step in which neither Mail nor the journal adds anything.
LEMMA QuietShape ==
    ASSUME NEW c, NEW d, effects' = effects, SameCall(c, d), d.succeeded = c.succeeded,
           \/ Looking(c, d) \/ Resolving(c, d) \/ Admitting(c, d) \/ Taking(c, d)
           \/ Noting(c, d) \/ Ending(c, d) \/ Reversing(c, d)
    PROVE  Shaped(c, d)
BY ShapesDiffer DEF Shaped, Shape, EffectAtHand, RowAtHand

\* An id that is not found is passed over.
LEMMA FailedShape ==
    ASSUME NEW c \in Call, c.pc = "search", c.todo # <<>>, effects' = effects
    PROVE  Shaped(c, IdFailed(c))
<1>1. /\ SameCall(c, IdFailed(c)) /\ IdFailed(c).succeeded = c.succeeded
      /\ Resolving(c, IdFailed(c))
  BY DEF IdFailed, SameCall, Resolving, Seeking, Call
<1>2. QED
  BY <1>1, QuietShape

\* _resolve_many() takes the ids one by one.
LEMMA ResolveShape ==
    ASSUME TypeOK, CallsHold, NEW w \in Workers,
           LookUp(w) \/ Search(w) \/ Remember(w) \/ ResolveTimeout(w)
    PROVE  Shaped(call[w], call'[w])
<1> DEFINE c == call[w]
           d == call'[w]
<1>1. call \in [Workers -> Call] /\ c \in Call
  BY DEF TypeOK
<1>2. c.pc \in Seeking /\ c.todo # <<>> /\ effects' = effects
  BY DEF CallsHold, Holds, LookUp, Search, Remember, ResolveTimeout, historyVars, Seeking
<1>a. \A x : Become(w, x) => d = x
  BY <1>1 DEF Become
<1>3. CASE LookUp(w)
  <2>1. \E x : d = [c EXCEPT !.pc = "search", !.tries = x]
    BY <1>3, <1>a DEF LookUp
  <2>2. Looking(c, d) /\ SameCall(c, d) /\ d.succeeded = c.succeeded
    BY <1>1, <1>2, <2>1 DEF Looking, SameLists, SameCall, Seeking, Call
  <2>3. QED
    BY <1>2, <2>2, QuietShape
<1>4. CASE Search(w)
  <2>1. c.pc = "search" /\ SearchNext(w, Head(c.todo), "remember", IdFailed(c))
    BY <1>4 DEF Search
  <2>2. \/ \E x : d = [c EXCEPT !.pc = "remember", !.tries = {}, !.here = x]
        \/ \E t : d = [c EXCEPT !.tries = @ \ {t}]
        \/ d = IdFailed(c)
    BY <1>1, <1>2, <2>1, ResolvedType, SearchType
  <2>3. CASE \E x : d = [c EXCEPT !.pc = "remember", !.tries = {}, !.here = x]
    <3>1. Looking(c, d) /\ SameCall(c, d) /\ d.succeeded = c.succeeded
      BY <1>1, <2>1, <2>3 DEF Looking, SameLists, SameCall, Seeking, Call
    <3>2. QED
      BY <1>2, <3>1, QuietShape
  <2>4. CASE \E t : d = [c EXCEPT !.tries = @ \ {t}]
    <3>1. Looking(c, d) /\ SameCall(c, d) /\ d.succeeded = c.succeeded
      BY <1>1, <2>1, <2>4 DEF Looking, SameLists, SameCall, Seeking, Call
    <3>2. QED
      BY <1>2, <3>1, QuietShape
  <2>5. CASE d = IdFailed(c)
    BY <1>1, <1>2, <2>1, <2>5, FailedShape
  <2>6. QED
    BY <2>2, <2>3, <2>4, <2>5
<1>5. CASE Remember(w)
  <2>1. PICK e : /\ e.id = Head(c.todo)
                 /\ d = [c EXCEPT !.pc = "resolve", !.todo = Tail(@), !.here = None,
                                  !.resolved = Append(@, e)]
    <3>1. \A x : [id |-> Head(c.todo), box |-> x].id = Head(c.todo)
      OBVIOUS
    <3>2. QED
      BY <1>5, <1>a, <3>1 DEF Remember
  <2>2. c.pc = "remember"
    BY <1>5 DEF Remember
  <2>3. Resolving(c, d) /\ SameCall(c, d) /\ d.succeeded = c.succeeded
    BY <1>1, <1>2, <2>1, <2>2 DEF Resolving, SameCall, Seeking, Call
  <2>4. QED
    BY <1>2, <2>3, QuietShape
<1>6. CASE ResolveTimeout(w)
  BY <1>1, <1>2, <1>6, <1>a, FailedShape DEF ResolveTimeout
<1>7. QED
  BY <1>3, <1>4, <1>5, <1>6

\* A call that returns leaves its lists alone.
LEMMA ReturnShape ==
    ASSUME TypeOK, NEW w \in Workers, NEW o, Return(w, o), effects' = effects,
           call[w].pc \notin {"idle", "done"},
           o = "ok" => \/ call[w].pc = "apply" /\ call[w].resolved = <<>>
                       \/ call[w].pc \in {"empty", "undo"}
    PROVE  Shaped(call[w], call'[w])
<1> DEFINE c == call[w]
           d == call'[w]
<1>1. call \in [Workers -> Call] /\ c \in Call
  BY DEF TypeOK
<1>2. d = [c EXCEPT !.pc = "done", !.outcome = o]
  BY <1>1 DEF Return, Become
<1>3. Ending(c, d) /\ SameCall(c, d) /\ d.succeeded = c.succeeded
  BY <1>1, <1>2 DEF Ending, SameLists, SameCall, Call
<1>4. QED
  BY <1>3, QuietShape

\* guard() lets the whole batch through, or none of it.
LEMMA GuardShape ==
    ASSUME TypeOK, NEW w \in Workers, Guard(w)
    PROVE  Shaped(call[w], call'[w])
<1> DEFINE c == call[w]
           d == call'[w]
<1>1. call \in [Workers -> Call] /\ c \in Call
  BY DEF TypeOK
<1>2. c.pc = "resolve" /\ c.todo = <<>> /\ effects' = effects
  BY DEF Guard, historyVars
<1>3. \/ /\ guardVerdict(readOnly, c.req, Len(c.resolved)) = "proceed"
         /\ Become(w, [c EXCEPT !.pc = "apply"])
      \/ \E o : o # "ok" /\ Return(w, o)
  <2>1. guardVerdict(readOnly, c.req, Len(c.resolved)) # "ok"
    BY DEF guardVerdict
  <2>2. QED
    BY <2>1 DEF Guard
<1>4. CASE /\ guardVerdict(readOnly, c.req, Len(c.resolved)) = "proceed"
           /\ Become(w, [c EXCEPT !.pc = "apply"])
  <2>1. d = [c EXCEPT !.pc = "apply"]
    BY <1>1, <1>4 DEF Become
  <2>2. Admitting(c, d) /\ SameCall(c, d) /\ d.succeeded = c.succeeded
    BY <1>1, <1>2, <1>4, <2>1 DEF Admitting, SameLists, SameCall, Call
  <2>3. QED
    BY <1>2, <2>2, QuietShape
<1>5. QED
  BY <1>2, <1>3, <1>4, ReturnShape

\* The steps a call ends with, in success or in an error.
LEMMA EndShape ==
    ASSUME TypeOK, NEW w \in Workers,
           \/ Finish(w) \/ ResolveLocked(w) \/ EmptyTrash(w) \/ EmptyTrashTimeout(w)
           \/ UndoMarkLocked(w) \/ UndoFinish(w) \/ JournalLocked(w)
    PROVE  Shaped(call[w], call'[w])
<1>1. effects' = effects /\ call[w].pc \notin {"idle", "done"}
  BY DEF Finish, ResolveLocked, EmptyTrash, EmptyTrashTimeout, UndoMarkLocked,
     UndoFinish, JournalLocked, historyVars
<1>2. \E o : /\ Return(w, o)
             /\ o = "ok" => \/ call[w].pc = "apply" /\ call[w].resolved = <<>>
                            \/ call[w].pc \in {"empty", "undo"}
  BY DEF Finish, ResolveLocked, EmptyTrash, EmptyTrashTimeout, UndoMarkLocked,
     UndoFinish, JournalLocked
<1>3. QED
  BY <1>1, <1>2, ReturnShape

\* The message at hand is done with.
LEMMA TakenShape ==
    ASSUME NEW c \in Call, NEW x, c.resolved # <<>>,
           \/ c.pc = "apply" /\ x = [c EXCEPT !.resolved = Tail(@),
                                             !.failed = @ \cup {Head(c.resolved).id}]
           \/ c.pc = "apply" /\ x = [c EXCEPT !.resolved = Tail(@),
                                             !.succeeded = @ \cup {Head(c.resolved).id}]
           \/ c.pc \in Journaling /\ x = Journaled(c)
    PROVE  /\ Taking(c, x) /\ SameCall(c, x)
           /\ \/ x.succeeded = c.succeeded
              \/ x.succeeded = c.succeeded \cup {Head(c.resolved).id}
<1>1. CASE c.pc = "apply" /\ x = [c EXCEPT !.resolved = Tail(@),
                                          !.failed = @ \cup {Head(c.resolved).id}]
  BY <1>1 DEF Taking, Popped, SameCall, Call
<1>2. CASE c.pc = "apply" /\ x = [c EXCEPT !.resolved = Tail(@),
                                          !.succeeded = @ \cup {Head(c.resolved).id}]
  BY <1>2 DEF Taking, Popped, SameCall, Call
<1>3. CASE c.pc \in Journaling /\ x = Journaled(c)
  BY <1>3 DEF Taking, Popped, SameCall, Journaled, Call
<1>4. QED
  BY <1>1, <1>2, <1>3

\* The row is committed before the step that reports the id.
LEMMA JournalShape ==
    ASSUME TypeOK, CallsHold, NEW w \in Workers,
           JournalInsert(w) \/ RankBatches(w) \/ DropStale(w)
    PROVE  Shaped(call[w], call'[w])
<1> DEFINE c == call[w]
           d == call'[w]
<1>1. call \in [Workers -> Call] /\ c \in Call
  BY DEF TypeOK
<1>2. c.pc \in Journaling /\ c.resolved # <<>> /\ effects' = effects
  BY DEF CallsHold, Holds, JournalInsert, RankBatches, DropStale, historyVars, Journaling
<1>a. \A x : Become(w, x) => d = x
  BY <1>1 DEF Become
<1>3. CASE d = [c EXCEPT !.pc = "rank"] \/ \E x : d = [c EXCEPT !.pc = "drop", !.stale = x]
  <2>1. CASE d = [c EXCEPT !.pc = "rank"]
    <3>1. Noting(c, d) /\ SameCall(c, d) /\ d.succeeded = c.succeeded
      BY <1>1, <1>2, <2>1 DEF Noting, SameLists, SameCall, Journaling, Call
    <3>2. QED
      BY <1>2, <3>1, QuietShape
  <2>2. CASE \E x : d = [c EXCEPT !.pc = "drop", !.stale = x]
    <3>1. Noting(c, d) /\ SameCall(c, d) /\ d.succeeded = c.succeeded
      BY <1>1, <1>2, <2>2 DEF Noting, SameLists, SameCall, Journaling, Call
    <3>2. QED
      BY <1>2, <3>1, QuietShape
  <2>3. QED
    BY <1>3, <2>1, <2>2
<1>4. CASE c.pc \in {"rank", "drop"} /\ written' = written /\ d = Journaled(c)
  <2>1. /\ Taking(c, d) /\ SameCall(c, d)
        /\ \/ d.succeeded = c.succeeded
           \/ d.succeeded = c.succeeded \cup {Head(c.resolved).id}
    BY <1>1, <1>2, <1>4, TakenShape
  <2>2. \E row \in written' : row.batch = c.no /\ row.id = Head(c.resolved).id
    BY <1>4 DEF CallsHold, Holds
  <2>3. QED
    BY <1>2, <2>1, <2>2, ShapesDiffer DEF Shaped, Shape, EffectAtHand, RowAtHand
<1>5. QED
  BY <1>3, <1>4, <1>a DEF JournalInsert, RankBatches, DropStale, historyVars

\* The steps of undo_last have Mail do nothing for a batch.
LEMMA UndoShape ==
    ASSUME TypeOK, NEW w \in Workers,
           \/ UndoLookUp(w) \/ UndoSearch(w) \/ UndoRemember(w) \/ UndoResolveFault(w)
           \/ UndoMove(w) \/ UndoMoveTimeout(w) \/ UndoMark(w)
    PROVE  Shaped(call[w], call'[w])
<1> DEFINE c == call[w]
           d == call'[w]
<1>1. call \in [Workers -> Call] /\ c \in Call
  BY DEF TypeOK
<1>2. c.pc \in Reversal /\ effects' = effects
  BY DEF UndoLookUp, UndoSearch, UndoRemember, UndoResolveFault, UndoMove, UndoMoveTimeout,
     UndoMark, historyVars, Fault, Reversal
<1>3. \/ \E p, t, x : p \in Reversal /\ Become(w, [c EXCEPT !.pc = p, !.tries = t, !.here = x])
      \/ \E p, t : p \in Reversal /\ Become(w, [c EXCEPT !.pc = p, !.tries = t])
      \/ \E p : p \in Reversal /\ Become(w, [c EXCEPT !.pc = p])
      \/ \E t : Become(w, [c EXCEPT !.tries = t])
      \/ \E row : Become(w, RowFailed(c, row))
      \/ \E row, x : Become(w, [DropRow(c, row) EXCEPT !.succeeded = x])
  <2>1. "undo_search" \in Reversal /\ "undo_remember" \in Reversal /\ "unmove" \in Reversal
        /\ "mark" \in Reversal
    BY DEF Reversal
  <2>2. CASE UndoSearch(w)
    <3>1. PICK row \in FirstRows(c.rows) :
            SearchNext(w, row.id, "undo_remember", RowFailed(c, row))
      BY <2>2 DEF UndoSearch
    <3>2. \/ \E x : Become(w, [c EXCEPT !.pc = "undo_remember", !.tries = {}, !.here = x])
          \/ \E t : Become(w, [c EXCEPT !.tries = @ \ {t}])
          \/ Become(w, RowFailed(c, row))
      BY <3>1 DEF SearchNext
    <3>3. QED
      BY <2>1, <3>2
  <2>3. CASE UndoLookUp(w)
    BY <2>1, <2>3 DEF UndoLookUp
  <2>4. CASE UndoRemember(w) \/ UndoMove(w)
    BY <2>1, <2>4 DEF UndoRemember, UndoMove
  <2>5. CASE UndoResolveFault(w) \/ UndoMoveTimeout(w) \/ UndoMark(w)
    BY <2>5 DEF UndoResolveFault, UndoMoveTimeout, UndoMark
  <2>6. QED
    BY <2>2, <2>3, <2>4, <2>5
<1>4. \A x : Become(w, x) => d = x
  BY <1>1 DEF Become
<1>5. d.pc \in Reversal /\ d.outcome = c.outcome /\ SameCall(c, d)
  <2> USE DEF SameCall
  <2>1. CASE \E p, t, x : p \in Reversal /\ Become(w, [c EXCEPT !.pc = p, !.tries = t, !.here = x])
    BY <1>1, <1>4, <2>1 DEF Call
  <2>2. CASE \E p, t : p \in Reversal /\ Become(w, [c EXCEPT !.pc = p, !.tries = t])
    BY <1>1, <1>4, <2>2 DEF Call
  <2>3. CASE \E p : p \in Reversal /\ Become(w, [c EXCEPT !.pc = p])
    BY <1>1, <1>4, <2>3 DEF Call
  <2>4. CASE \E t : Become(w, [c EXCEPT !.tries = t])
    BY <1>1, <1>2, <1>4, <2>4 DEF Call
  <2>5. CASE \E row : Become(w, RowFailed(c, row))
    BY <1>1, <1>4, <2>5 DEF RowFailed, DropRow, Call, Reversal
  <2>6. CASE \E row, x : Become(w, [DropRow(c, row) EXCEPT !.succeeded = x])
    BY <1>1, <1>4, <2>6 DEF DropRow, Call, Reversal
  <2>7. QED
    BY <1>3, <2>1, <2>2, <2>3, <2>4, <2>5, <2>6
<1>6. QED
  BY <1>2, <1>5, ShapesDiffer DEF Shaped, Shape, EffectAtHand, RowAtHand, Reversing

\* One iteration of the loop of guard() takes one message.
LEMMA ApplyShape ==
    ASSUME TypeOK, NEW w \in Workers, ApplyOne(w) \/ ApplyTimeout(w)
    PROVE  Shaped(call[w], call'[w])
<1> DEFINE c == call[w]
           d == call'[w]
           r == Head(c.resolved)
<1>1. call \in [Workers -> Call] /\ c \in Call
  BY DEF TypeOK
<1>2. c.pc = "apply" /\ c.resolved # <<>>
  BY DEF ApplyOne, ApplyTimeout
<1>3. \A m \in getMessageHandle(at, r.id, r.box) : \A box :
         /\ EffectOf(c.no, r, m, box).no = c.no /\ EffectOf(c.no, r, m, box).id = r.id
         /\ EffectOf(c.no, r, m, box).copy \in Copies
  BY DEF EffectOf, getMessageHandle
<1> DEFINE Effected ==
      \E e : e.no = c.no /\ e.id = r.id /\ e.copy \in Copies /\ effects' = effects \cup {e}
<1>4. \/ /\ Become(w, [call[w] EXCEPT !.resolved = Tail(@),
                                      !.failed = @ \cup {Head(call[w].resolved).id}])
         /\ effects' = effects \/ Effected
      \/ Become(w, [call[w] EXCEPT !.pc = "journal"]) /\ Effected
      \/ /\ Become(w, [call[w] EXCEPT !.resolved = Tail(@),
                                      !.succeeded = @ \cup {Head(call[w].resolved).id}])
         /\ Effected /\ ~Reversible(c.req)
  BY <1>3 DEF ApplyOne, ApplyTimeout
<1> HIDE DEF Effected
<1>5. \A x : Become(w, x) => d = x
  BY <1>1 DEF Become
<1>6. CASE /\ Become(w, [call[w] EXCEPT !.resolved = Tail(@),
                                       !.failed = @ \cup {Head(call[w].resolved).id}])
           /\ effects' = effects \/ Effected
  <2>1. d = [c EXCEPT !.resolved = Tail(@), !.failed = @ \cup {r.id}]
    BY <1>5, <1>6
  <2>2. Taking(c, d) /\ SameCall(c, d)
    BY <1>1, <1>2, <2>1, TakenShape
  <2>3. d.succeeded = c.succeeded
    BY <1>1, <2>1 DEF Call
  <2>4. QED
    BY <1>2, <1>6, <2>2, <2>3, ShapesDiffer DEF Shaped, Shape, EffectAtHand, RowAtHand, Effected
<1>7. CASE Become(w, [call[w] EXCEPT !.pc = "journal"]) /\ Effected
  <2>1. d = [c EXCEPT !.pc = "journal"]
    BY <1>5, <1>7
  <2>2. Moving(c, d) /\ SameCall(c, d) /\ d.succeeded = c.succeeded
    BY <1>1, <1>2, <2>1 DEF Moving, SameLists, SameCall, Call
  <2>3. QED
    BY <1>2, <1>7, <2>2, ShapesDiffer DEF Shaped, Shape, EffectAtHand, RowAtHand, Effected
<1>8. CASE /\ Become(w, [call[w] EXCEPT !.resolved = Tail(@),
                                       !.succeeded = @ \cup {Head(call[w].resolved).id}])
           /\ Effected /\ ~Reversible(c.req)
  <2>1. d = [c EXCEPT !.resolved = Tail(@), !.succeeded = @ \cup {r.id}]
    BY <1>5, <1>8
  <2>2. Taking(c, d) /\ SameCall(c, d)
    BY <1>1, <1>2, <2>1, TakenShape
  <2>3. QED
    BY <1>2, <1>8, <2>2, ShapesDiffer DEF Shaped, Shape, EffectAtHand, RowAtHand, Effected
<1>9. QED
  BY <1>4, <1>6, <1>7, <1>8

\* Every step of a started call has one of these shapes.
LEMMA StepShape ==
    ASSUME TypeOK, CallsHold, NEW w \in Workers, Work(w) \/ Disturbed(w)
    PROVE  Shaped(call[w], call'[w])
BY ResolveShape, GuardShape, EndShape, JournalShape, UndoShape, ApplyShape DEF Work, Disturbed

-----------------------------------------------------------------------------
(***************************************************************************)
(* Batch limits                                                            *)
(***************************************************************************)
Copied(no, done) == {e.copy : e \in {f \in done : f.no = no}}

Budget(c, done) ==
    LET spent == Copied(c.no, done)
    IN  /\ c.pc \in Seeking \cup {"empty"} \cup Reversal => spent = {}
        /\ c.pc \in Seeking \cup {"apply"} \cup Journaling => c.req.op \in BatchOps
        /\ c.pc = "apply" => Cardinality(spent) + Len(c.resolved) <= limit(c.req)
        /\ c.pc \in Journaling => Cardinality(spent) + Len(c.resolved) <= limit(c.req) + 1
        /\ c.pc = "done" => spent = {} \/ Cardinality(spent) <= limit(c.req)

CallsInBudget == \A w \in Workers : Budget(call[w], effects)

\* Calls are numbered from 1 as they begin, and effects carry their numbers.
Numbered ==
    /\ \A e \in effects : 0 < e.no /\ e.no <= calls
    /\ \A w \in Workers : call[w].no <= calls /\ (call[w].pc = "idle" <=> call[w].no = 0)
    /\ \A v, w \in Workers : v # w /\ call[v].no = call[w].no => call[v].no = 0

LimitInv == MovesInv /\ CallsInBudget /\ Numbered

\* One effect adds at most one copy, to its own call only.
LEMMA CopiedOneMore ==
    ASSUME NEW done \in SUBSET Effect, NEW e, e.copy \in Copies
    PROVE  /\ \A no : no # e.no => Copied(no, done \cup {e}) = Copied(no, done)
           /\ Cardinality(Copied(e.no, done)) \in Nat
           /\ Cardinality(Copied(e.no, done \cup {e})) \in Nat
           /\ Cardinality(Copied(e.no, done \cup {e})) <= Cardinality(Copied(e.no, done)) + 1
<1>1. \A no : no # e.no => Copied(no, done \cup {e}) = Copied(no, done)
  BY DEF Copied
<1>2. Copied(e.no, done \cup {e}) = Copied(e.no, done) \cup {e.copy}
  BY DEF Copied
<1>3. Copied(e.no, done) \subseteq Copies
  BY DEF Copied, Effect
<1>4. IsFiniteSet(Copied(e.no, done))
  BY <1>3, FS_Subset, MovesAssumption
<1> DEFINE before == Copied(e.no, done)
           x == e.copy
<1>5. /\ IsFiniteSet(before \cup {x})
      /\ Cardinality(before \cup {x}) = IF x \in before THEN Cardinality(before)
                                       ELSE Cardinality(before) + 1
  <2> HIDE DEF before, x
  <2> QED BY <1>4, FS_AddElement DEF before
<1>6. Cardinality(before) \in Nat /\ Cardinality(before \cup {x}) \in Nat
  BY <1>4, <1>5, FS_CardinalityType
<1>7. QED
  BY <1>1, <1>2, <1>5, <1>6

\* The limit of a batch operation is a number.
LEMMA LimitType ==
    ASSUME NEW req \in Requests, req.op \in BatchOps
    PROVE  limit(req) \in Nat
BY MovesAssumption DEF limit, Request, BatchOps

Admitted(req) == ~req.dryRun /\ (req.op \in RequireConfirm => req.confirm)

\* What "proceed" means.
LEMMA ProceedAdmits ==
    ASSUME NEW req \in Requests, NEW n \in Nat, guardVerdict(readOnly, req, n) = "proceed"
    PROVE  ~readOnly /\ Admitted(req) /\ (req.op \in BatchOps => n <= limit(req))
<1>1. req.dryRun \in BOOLEAN /\ req.confirm \in BOOLEAN
  BY MovesAssumption DEF Request
<1>2. ~readOnly /\ ~req.dryRun /\ (req.op \in RequireConfirm => req.confirm) /\ ~(n > limit(req))
  BY <1>1 DEF guardVerdict
<1>3. QED
  BY <1>2, LimitType DEF Admitted

\* A step in which Mail does nothing keeps its call in budget.
LEMMA QuietInBudget ==
    ASSUME NEW c \in Call, NEW d \in Call, NEW done \in SUBSET Effect,
           c.req \in Requests, Cardinality(Copied(c.no, done)) \in Nat,
           c.pc \in Journaling => c.resolved # <<>>,
           Shape(c, d), ~Moving(c, d), Budget(c, done)
    PROVE  Budget(d, done)
<1> DEFINE n == Cardinality(Copied(c.no, done))
<1>0. SameCall(c, d)
  BY DEF Shape
<1>1. /\ Len(c.resolved) \in Nat /\ Len(d.resolved) \in Nat
      /\ c.req.op \in BatchOps => limit(c.req) \in Nat
      /\ c.pc \in {"apply"} \cup Journaling => limit(c.req) \in Nat
  BY LimitType DEF Call, Budget
<1>2. Popped(c, d) => Len(d.resolved) = Len(c.resolved) - 1
  BY DEF Popped, Call
<1>3. c.resolved # <<>> => Len(c.resolved) > 0
  BY DEF Call
<1> USE DEF Budget, SameCall, Journaling, Seeking, Reversal
<1>4. CASE Looking(c, d) \/ Resolving(c, d)
  BY <1>0, <1>4 DEF Looking, Resolving
<1>5. CASE Admitting(c, d)
  <2>1. c.req.op \in BatchOps
    BY <1>5 DEF Admitting
  <2>2. Len(c.resolved) <= limit(c.req)
    BY <1>1, <1>5, <2>1, ProceedAdmits DEF Admitting
  <2>3. n = 0
    BY <1>5, FS_EmptySet DEF Admitting
  <2>4. QED
    BY <1>0, <1>1, <1>5, <2>1, <2>2, <2>3 DEF Admitting, SameLists
<1>6. CASE Taking(c, d)
  BY <1>0, <1>1, <1>2, <1>6 DEF Taking
<1>7. CASE Noting(c, d)
  BY <1>0, <1>7 DEF Noting, SameLists
<1>8. CASE Ending(c, d)
  <2>1. /\ d.pc = "done" /\ c.no = d.no /\ c.req = d.req
        /\ c.pc \in Seeking \cup {"empty"} \cup Reversal \cup {"apply"} \cup Journaling
    BY <1>0, <1>8 DEF Ending, Call
  <2>2. CASE c.pc \in {"apply"} \cup Journaling
    BY <1>1, <1>3, <2>1, <2>2
  <2>3. CASE c.pc \notin {"apply"} \cup Journaling
    BY <2>1, <2>3
  <2>4. QED
    BY <2>2, <2>3
<1>9. CASE Reversing(c, d)
  BY <1>0, <1>9 DEF Reversing
<1>10. QED
  BY <1>4, <1>5, <1>6, <1>7, <1>8, <1>9 DEF Shape

\* A step in which Mail touches one copy keeps its call in budget.
LEMMA SpendingInBudget ==
    ASSUME NEW c \in Call, NEW d \in Call, NEW done \in SUBSET Effect,
           NEW e, e.no = c.no, e.copy \in Copies, SameCall(c, d), c.req \in Requests,
           c.pc = "apply", Taking(c, d) \/ Moving(c, d), Budget(c, done)
    PROVE  Budget(d, done \cup {e})
<1>1. /\ Len(c.resolved) \in Nat /\ Len(d.resolved) \in Nat
      /\ limit(c.req) \in Nat /\ c.req.op \in BatchOps
      /\ Cardinality(Copied(c.no, done)) + Len(c.resolved) <= limit(c.req)
  BY LimitType DEF Call, Budget
<1>2. Popped(c, d) => Len(d.resolved) = Len(c.resolved) - 1
  BY DEF Popped, Call
<1>3. /\ Cardinality(Copied(c.no, done)) \in Nat
      /\ Cardinality(Copied(c.no, done \cup {e})) \in Nat
      /\ Cardinality(Copied(c.no, done \cup {e})) <= Cardinality(Copied(c.no, done)) + 1
  BY CopiedOneMore
<1>4. d.no = c.no /\ d.req = c.req
  BY DEF SameCall
<1> USE DEF Budget, Journaling, Seeking, Reversal
<1>5. CASE Taking(c, d)
  BY <1>1, <1>2, <1>3, <1>4, <1>5 DEF Taking
<1>6. CASE Moving(c, d)
  BY <1>1, <1>3, <1>4, <1>6 DEF Moving, SameLists
<1>7. QED
  BY <1>5, <1>6

\* A call that has a step has begun.
LEMMA StepStarted ==
    ASSUME TypeOK, CallsHold, Numbered, NEW w \in Workers, Work(w) \/ Disturbed(w)
    PROVE  /\ call[w].pc # "idle" /\ call[w].no # 0 /\ call[w].req \in Requests
           /\ call'[w].pc # "idle"
<1>1. Shape(call[w], call'[w])
  BY StepShape DEF Shaped
<1>2. call[w].pc # "idle" /\ call'[w].pc # "idle"
  BY <1>1 DEF Shape, Looking, Resolving, Admitting, Taking, Moving, Noting, Ending, Reversing,
     Seeking, Journaling, Reversal
<1>3. QED
  BY <1>2 DEF Numbered, CallsHold, Holds

\* A started call keeps every call in its budget.
LEMMA StepInBudget ==
    ASSUME LimitInv, NEW w \in Workers, Work(w) \/ Disturbed(w), TypeOK'
    PROVE  CallsInBudget' /\ Numbered'
<1> DEFINE c == call[w]
           d == call'[w]
<1>1. TypeOK /\ CallsHold /\ CallsInBudget /\ Numbered
  BY DEF LimitInv, MovesInv
<1>2. c \in Call /\ d \in Call /\ effects \in SUBSET Effect
  BY <1>1 DEF TypeOK
<1>3. Shape(c, d) /\ EffectAtHand(c, d)
  BY <1>1, StepShape DEF Shaped
<1>4. c.pc # "idle" /\ d.pc # "idle" /\ c.no # 0 /\ c.req \in Requests
  BY <1>1, StepStarted
<1>5. d.no = c.no /\ d.req = c.req /\ calls' = calls
      /\ \A v \in Workers \ {w} : call'[v] = call[v]
  BY <1>1, <1>3, StepSteady DEF Shape, SameCall, Steady
<1>6. /\ \A v, u \in Workers : v # u /\ call'[v].no = call'[u].no => call'[v].no = 0
      /\ \A v \in Workers : call'[v].no <= calls' /\ (call'[v].pc = "idle" <=> call'[v].no = 0)
  BY <1>1, <1>4, <1>5 DEF Numbered
<1>7. Budget(c, effects)
  BY <1>1 DEF CallsInBudget
<1>8. CASE effects' = effects /\ ~Moving(c, d)
  <2>1. Cardinality(Copied(c.no, effects)) \in Nat
    <3>1. Copied(c.no, effects) \subseteq Copies
      BY <1>2 DEF Copied, Effect
    <3>2. QED
      BY <3>1, FS_Subset, FS_CardinalityType, MovesAssumption
  <2>2. Budget(d, effects)
    BY <1>1, <1>2, <1>3, <1>4, <1>7, <1>8, <2>1, QuietInBudget DEF CallsHold, Holds
  <2>3. CallsInBudget'
    BY <1>1, <1>5, <1>8, <2>2 DEF CallsInBudget
  <2>4. Numbered'
    BY <1>1, <1>5, <1>6, <1>8 DEF Numbered
  <2>5. QED
    BY <2>3, <2>4
<1>9. CASE /\ c.pc = "apply" /\ (Taking(c, d) \/ Moving(c, d))
           /\ \E e : e.no = c.no /\ e.copy \in Copies /\ effects' = effects \cup {e}
  <2>1. PICK e : e.no = c.no /\ e.copy \in Copies /\ effects' = effects \cup {e}
    BY <1>9
  <2>2. Budget(d, effects')
    BY <1>2, <1>3, <1>4, <1>7, <1>9, <2>1, SpendingInBudget DEF Shape
  <2>3. ASSUME NEW v \in Workers \ {w}
        PROVE  Budget(call'[v], effects')
    <3>1. call[v].no # e.no
      BY <1>1, <1>4, <2>1 DEF Numbered
    <3>2. Copied(call[v].no, effects') = Copied(call[v].no, effects)
      BY <1>2, <2>1, <3>1, CopiedOneMore
    <3>3. QED
      BY <1>1, <1>5, <3>2 DEF CallsInBudget, Budget
  <2>4. CallsInBudget'
    BY <1>5, <2>2, <2>3 DEF CallsInBudget
  <2>5. 0 < c.no /\ c.no <= calls
    BY <1>1, <1>2, <1>4 DEF Numbered, Call
  <2>6. Numbered'
    BY <1>1, <1>5, <1>6, <2>1, <2>5 DEF Numbered
  <2>7. QED
    BY <2>4, <2>6
<1>10. QED
  BY <1>3, <1>8, <1>9 DEF EffectAtHand

\* How a call starts.
Starting(d, req) ==
    /\ d.req = req /\ d.no = calls + 1 /\ d.resolved = <<>>
    /\ d.succeeded = {} /\ d.failed = {}
    /\ \/ d.pc = "resolve" /\ req.op \in BatchOps /\ d.todo = req.ids /\ d.outcome = "none"
       \/ d.pc = "done" /\ req.op \in BatchOps /\ d.outcome # "ok"
       \/ /\ d.pc = "empty" /\ req.op = "empty_trash" /\ d.outcome = "none"
          /\ guardVerdict(readOnly, req, 0) = "proceed"
       \/ d.pc = "undo" /\ req.op = "undo_last" /\ ~req.dryRun /\ d.outcome = "none"
       \/ d.pc = "done" /\ req.op \notin BatchOps

\* A call begins with its ids to do and nothing reported.
LEMMA BeginStarts ==
    ASSUME TypeOK, NEW w \in Workers, NEW req \in Requests,
           BeginBatch(w, req) \/ BeginEmptyTrash(w, req) \/ BeginUndo(w, req)
    PROVE  Starting(call'[w], req)
<1>1. call \in [Workers -> Call]
  BY DEF TypeOK
<1>2. \A x : Become(w, x) => call'[w] = x
  BY <1>1 DEF Become
<1>3. CASE BeginBatch(w, req)
  <2> DEFINE i == [Idle EXCEPT !.req = req, !.no = calls + 1, !.todo = req.ids,
                               !.pc = IF readOnly THEN "done" ELSE "resolve",
                               !.outcome = IF readOnly THEN "ReadOnlyMode" ELSE "none"]
  <2>1. req.op \in BatchOps /\ call'[w] = i
    BY <1>2, <1>3 DEF BeginBatch, BatchOps
  <2>2. /\ i.req = req /\ i.no = calls + 1 /\ i.resolved = <<>> /\ i.todo = req.ids
        /\ i.succeeded = {} /\ i.failed = {}
        /\ i.pc = IF readOnly THEN "done" ELSE "resolve"
        /\ i.outcome = IF readOnly THEN "ReadOnlyMode" ELSE "none"
    BY DEF Idle
  <2>3. QED
    BY <2>1, <2>2 DEF Starting
<1>4. CASE BeginEmptyTrash(w, req)
  <2> DEFINE i == [Idle EXCEPT !.req = req, !.no = calls + 1]
  <2>1. \/ \E o : Become(w, [i EXCEPT !.pc = "done", !.outcome = o])
        \/ /\ Become(w, [i EXCEPT !.pc = "empty", !.outcome = "none"])
           /\ guardVerdict(readOnly, req, 0) = "proceed"
    BY <1>4 DEF BeginEmptyTrash
  <2>2. req.op = "empty_trash" /\ req.op \notin BatchOps
    BY <1>4 DEF BeginEmptyTrash, BatchOps
  <2>3. \A o : Starting([i EXCEPT !.pc = "done", !.outcome = o], req)
    BY <2>2 DEF Starting, Idle
  <2>4. guardVerdict(readOnly, req, 0) = "proceed"
        => Starting([i EXCEPT !.pc = "empty", !.outcome = "none"], req)
    BY <2>2 DEF Starting, Idle
  <2> HIDE DEF i
  <2>5. QED
    BY <1>2, <2>1, <2>3, <2>4
<1>5. CASE BeginUndo(w, req)
  <2> DEFINE i == [Idle EXCEPT !.req = req, !.no = calls + 1]
  <2>1. \/ \E o : Become(w, [i EXCEPT !.pc = "done", !.outcome = o])
        \/ ~req.dryRun /\ \E x : Become(w, [i EXCEPT !.pc = "undo", !.rows = x])
    BY <1>5 DEF BeginUndo
  <2>2. req.op = "undo_last" /\ req.op \notin BatchOps
    BY <1>5 DEF BeginUndo, BatchOps
  <2>3. \A o : Starting([i EXCEPT !.pc = "done", !.outcome = o], req)
    BY <2>2 DEF Starting, Idle
  <2>4. ~req.dryRun => \A x : Starting([i EXCEPT !.pc = "undo", !.rows = x], req)
    BY <2>2 DEF Starting, Idle
  <2> HIDE DEF i
  <2>5. QED
    BY <1>2, <2>1, <2>3, <2>4
<1>6. QED
  BY <1>3, <1>4, <1>5

\* A call that begins has a number no effect carries yet.
LEMMA BeginInBudget ==
    ASSUME LimitInv, NEW w \in Workers, NEW req \in Requests,
           BeginBatch(w, req) \/ BeginEmptyTrash(w, req) \/ BeginUndo(w, req)
    PROVE  CallsInBudget' /\ Numbered'
<1> DEFINE d == call'[w]
<1>1. TypeOK /\ CallsInBudget /\ Numbered
  BY DEF LimitInv, MovesInv
<1>2. call \in [Workers -> Call] /\ calls \in Nat /\ effects \in SUBSET Effect
  BY <1>1 DEF TypeOK
<1>3. effects' = effects /\ calls' = calls + 1
  BY DEF BeginBatch, BeginEmptyTrash, BeginUndo, historyVars
<1>4. Starting(d, req) /\ \A v \in Workers \ {w} : call'[v] = call[v]
  BY <1>1, BeginStarts, BeginHolds
<1>5. Copied(calls + 1, effects) = {}
  BY <1>1, <1>2 DEF Copied, Numbered, Effect
<1>6. Budget(d, effects)
  BY <1>4, <1>5 DEF Budget, Starting, Seeking, Reversal, Journaling
<1>7. CallsInBudget'
  BY <1>1, <1>3, <1>4, <1>6 DEF CallsInBudget
<1>8. \A v \in Workers \ {w} : call'[v].no # calls + 1 /\ call'[v].no <= calls + 1
  BY <1>1, <1>2, <1>4 DEF Numbered, Call
<1>9. Numbered'
  <2>1. \A e \in effects' : 0 < e.no /\ e.no <= calls'
    BY <1>1, <1>2, <1>3 DEF Numbered, Effect
  <2>2. \A v \in Workers : call'[v].no <= calls' /\ (call'[v].pc = "idle" <=> call'[v].no = 0)
    BY <1>1, <1>2, <1>3, <1>4, <1>8 DEF Numbered, Starting
  <2>3. \A u, v \in Workers : u # v /\ call'[u].no = call'[v].no => call'[u].no = 0
    BY <1>1, <1>4, <1>8 DEF Numbered, Starting
  <2>4. QED
    BY <2>1, <2>2, <2>3 DEF Numbered
<1>10. QED
  BY <1>7, <1>9

\* So does the world around the calls; a restart forgets them.
LEMMA WorldInBudget ==
    ASSUME LimitInv,
           \/ \E c \in Copies, box \in Boxes \cup {Gone} :
                UserMove(c, box) \/ LateEffect(c, box)
           \/ \E id \in Ids, name \in Names \cup {None} : Reindex(id, name)
           \/ Restart
           \/ UNCHANGED vars
    PROVE  CallsInBudget' /\ Numbered'
<1>1. CallsInBudget /\ Numbered /\ TypeOK
  BY DEF LimitInv, MovesInv
<1>2. CASE UNCHANGED <<call, effects, calls>>
  BY <1>1, <1>2 DEF CallsInBudget, Numbered
<1>3. CASE Restart
  <2>1. /\ call' = [w \in Workers |-> Idle] /\ effects' = effects /\ calls' = calls
        /\ calls \in Nat
    BY <1>1, <1>3 DEF Restart, Fault, historyVars, TypeOK
  <2>2. Copied(0, effects) = {}
    BY <1>1 DEF Copied, Numbered
  <2>3. Budget(Idle, effects)
    BY <2>2 DEF Budget, Idle, Seeking, Reversal, Journaling
  <2>4. CallsInBudget'
    BY <2>1, <2>3 DEF CallsInBudget
  <2>5. Numbered'
    BY <1>1, <2>1 DEF Numbered, Idle
  <2>6. QED
    BY <2>4, <2>5
<1>4. QED
  BY <1>2, <1>3 DEF UserMove, LateEffect, Reindex, vars, historyVars, boundVars

\* At first no call has spent anything.
LEMMA LimitInvInit ==
    ASSUME Init
    PROVE  LimitInv
<1>1. MovesInv
  BY MovesInvInit
<1>2. Copied(0, {}) = {}
  BY DEF Copied
<1>3. CallsInBudget /\ Numbered
  BY <1>2 DEF Init, CallsInBudget, Budget, Numbered, Idle, Seeking, Reversal, Journaling
<1>4. QED
  BY <1>1, <1>3 DEF LimitInv

\* Every step, of a call or of the world, keeps the budgets.
LEMMA LimitInvStep ==
    ASSUME LimitInv, [Next]_vars
    PROVE  LimitInv'
<1>1. MovesInv'
  BY MovesInvStep DEF LimitInv
<1>2. TypeOK'
  BY <1>1 DEF MovesInv
<1>3. CallsInBudget' /\ Numbered'
  BY <1>2, BeginInBudget, StepInBudget, WorldInBudget DEF Next, Begin
<1>4. QED
  BY <1>1, <1>3 DEF LimitInv

\* The budgets hold in every reachable state.
THEOREM LimitInvariant == Spec => []LimitInv
BY LimitInvInit, LimitInvStep, PTL DEF Spec

\* A call that has had Mail touch anything has kept within its limit: guard()
\* compares the number of resolved messages once (core/safety.py:97-104) and
\* the loop after it (132-143) spends one message per copy, also when a call
\* times out with its effect still to come.
THEOREM LimitHolds == Spec => []BatchLimitBoundsDamage
<1>1. LimitInv => BatchLimitBoundsDamage
  <2> SUFFICES ASSUME LimitInv, NEW w \in Workers, EffectsOf(call[w].no) # {}
               PROVE  Cardinality({e.copy : e \in EffectsOf(call[w].no)}) <= limit(call[w].req)
    BY DEF BatchLimitBoundsDamage
  <2> DEFINE c == call[w]
  <2>1. {e.copy : e \in EffectsOf(c.no)} = Copied(c.no, effects) /\ Copied(c.no, effects) # {}
    BY DEF EffectsOf, Copied
  <2>2. /\ Budget(c, effects) /\ c \in Call /\ TypeOK /\ CallsHold
        /\ \A e \in effects : 0 < e.no
    BY DEF LimitInv, MovesInv, CallsInBudget, TypeOK, Numbered
  <2>3. c.pc # "idle"
    BY <2>1, <2>2 DEF LimitInv, Numbered, Copied
  <2>4. c.req \in Requests
    BY <2>2, <2>3 DEF CallsHold, Holds
  <2>5. Cardinality(Copied(c.no, effects)) \in Nat /\ Len(c.resolved) \in Nat
    <3>1. Copied(c.no, effects) \subseteq Copies
      BY <2>2 DEF Copied, TypeOK, Effect
    <3>2. QED
      BY <2>2, <3>1, FS_Subset, FS_CardinalityType, MovesAssumption DEF Call
  <2>6. CASE c.pc = "done"
    BY <2>1, <2>2, <2>6 DEF Budget
  <2>7. CASE c.pc \in {"apply"} \cup Journaling
    <3>1. limit(c.req) \in Nat
      BY <2>2, <2>4, <2>7, LimitType DEF Budget
    <3>2. c.pc \in Journaling => Len(c.resolved) > 0
      BY <2>2 DEF CallsHold, Holds, Call
    <3>3. \/ Cardinality(Copied(c.no, effects)) + Len(c.resolved) <= limit(c.req)
          \/ /\ Len(c.resolved) > 0
             /\ Cardinality(Copied(c.no, effects)) + Len(c.resolved) <= limit(c.req) + 1
      BY <2>2, <2>7, <3>2 DEF Budget
    <3>4. Cardinality(Copied(c.no, effects)) <= limit(c.req)
      BY <2>5, <3>1, <3>3
    <3>5. QED
      BY <2>1, <3>4
  <2>8. QED
    BY <2>1, <2>2, <2>3, <2>6, <2>7 DEF Budget, Call, Seeking, Journaling, Reversal
<1>2. QED
  BY <1>1, LimitInvariant, PTL

-----------------------------------------------------------------------------
(***************************************************************************)
(* The gates                                                               *)
(***************************************************************************)
\* A call that is past its gate.
PastGate(c, ro) ==
    /\ c.pc \in {"apply", "empty"} \cup Journaling => ~ro /\ Admitted(c.req)
    /\ c.pc \in Reversal => c.req.op = "undo_last" /\ ~c.req.dryRun

GateInv ==
    /\ LimitInv
    /\ \A w \in Workers : PastGate(call[w], readOnly)
    /\ OnlyAdmittedCallsTouchMail

\* Mail changes a mailbox for a call that is past its gate, or for an undo.
LEMMA StepTouches ==
    ASSUME [Next]_vars
    PROVE  \/ touched' = touched
           \/ \E w \in Workers : /\ call[w].pc \in {"apply", "empty", "unmove"}
                                 /\ TouchedBy(w)
<1>1. CASE UNCHANGED vars
  BY <1>1 DEF vars, historyVars
<1>2. CASE \/ \E c \in Copies, box \in Boxes \cup {Gone} : UserMove(c, box) \/ LateEffect(c, box)
           \/ \E id \in Ids, name \in Names \cup {None} : Reindex(id, name)
           \/ Restart
  BY <1>2 DEF UserMove, LateEffect, Reindex, Restart, historyVars
<1>3. ASSUME NEW w \in Workers, Begin(w) PROVE touched' = touched
  BY <1>3 DEF Begin, BeginBatch, BeginEmptyTrash, BeginUndo, historyVars
<1> DEFINE Changing(w) == call[w].pc \in {"apply", "empty", "unmove"} /\ TouchedBy(w)
<1>4. ASSUME NEW w \in Workers, Work(w)
      PROVE  touched' = touched \/ Changing(w)
  <2>1. LookUp(w) \/ Search(w) \/ Remember(w) \/ Guard(w) => touched' = touched
    BY DEF LookUp, Search, Remember, Guard, historyVars
  <2>2. JournalInsert(w) \/ RankBatches(w) \/ DropStale(w) \/ Finish(w) => touched' = touched
    BY DEF JournalInsert, RankBatches, DropStale, Finish, historyVars
  <2>3. UndoLookUp(w) \/ UndoSearch(w) \/ UndoRemember(w) \/ UndoMark(w) \/ UndoFinish(w)
        => touched' = touched
    BY DEF UndoLookUp, UndoSearch, UndoRemember, UndoMark, UndoFinish, historyVars
  <2>4. ApplyOne(w) => touched' = touched \/ Changing(w)
    BY Zenon DEF ApplyOne
  <2>5. EmptyTrash(w) => Changing(w)
    BY Zenon DEF EmptyTrash
  <2>6. UndoMove(w) => touched' = touched \/ Changing(w)
    BY Zenon DEF UndoMove
  <2>7. QED
    BY <1>4, <2>1, <2>2, <2>3, <2>4, <2>5, <2>6 DEF Work
<1>5. ASSUME NEW w \in Workers, Disturbed(w)
      PROVE  touched' = touched \/ Changing(w)
  <2>1. ResolveTimeout(w) \/ ResolveLocked(w) \/ JournalLocked(w) => touched' = touched
    BY DEF ResolveTimeout, ResolveLocked, JournalLocked, historyVars
  <2>2. UndoResolveFault(w) \/ UndoMarkLocked(w) => touched' = touched
    BY DEF UndoResolveFault, UndoMarkLocked, historyVars
  <2>3. ApplyTimeout(w) => Changing(w)
    BY Zenon DEF ApplyTimeout
  <2>4. EmptyTrashTimeout(w) => Changing(w)
    BY Zenon DEF EmptyTrashTimeout
  <2>5. UndoMoveTimeout(w) => Changing(w)
    BY Zenon DEF UndoMoveTimeout
  <2>6. QED
    BY <1>5, <2>1, <2>2, <2>3, <2>4, <2>5 DEF Disturbed
<1>6. QED
  BY <1>1, <1>2, <1>3, <1>4, <1>5 DEF Next

\* No step takes a call past its gate but the gate.
LEMMA GateStep ==
    ASSUME GateInv, [Next]_vars
    PROVE  GateInv'
<1>1. LimitInv /\ TypeOK /\ CallsHold /\ \A w \in Workers : PastGate(call[w], readOnly)
  BY DEF GateInv, LimitInv, MovesInv
<1>2. LimitInv'
  BY <1>1, LimitInvStep
<1>3. OnlyAdmittedCallsTouchMail'
  <2>1. SUFFICES ASSUME NEW w \in Workers, call[w].pc \in {"apply", "empty", "unmove"},
                        TouchedBy(w)
                 PROVE  OnlyAdmittedCallsTouchMail'
    BY <2>1, StepTouches DEF GateInv, OnlyAdmittedCallsTouchMail
  <2> DEFINE t == [req |-> call[w].req, readOnly |-> readOnly]
  <2>2. \/ ~readOnly /\ Admitted(call[w].req)
        \/ call[w].req.op = "undo_last" /\ ~call[w].req.dryRun
    BY <1>1, <2>1 DEF PastGate, Reversal
  <2>3. ~("undo_last" \in RequireConfirm)
    BY MovesAssumption
  <2>4. /\ ~t.req.dryRun
        /\ t.req.op \in RequireConfirm => t.req.confirm
        /\ t.readOnly => t.req.op = "undo_last"
    BY <2>2, <2>3 DEF Admitted
  <2>5. touched' = touched \cup {t}
    BY <2>1 DEF TouchedBy
  <2> HIDE DEF t
  <2>6. QED
    BY <2>4, <2>5 DEF GateInv, OnlyAdmittedCallsTouchMail
<1>4. ASSUME NEW w \in Workers, Begin(w)
      PROVE  \A v \in Workers : PastGate(call'[v], readOnly')
  <2>1. PICK req \in Requests :
          BeginBatch(w, req) \/ BeginEmptyTrash(w, req) \/ BeginUndo(w, req)
    BY <1>4 DEF Begin
  <2>2. /\ Starting(call'[w], req) /\ readOnly' = readOnly
        /\ \A v \in Workers \ {w} : call'[v] = call[v]
    BY <1>1, <2>1, BeginStarts, BeginHolds DEF BeginBatch, BeginEmptyTrash, BeginUndo
  <2>3. guardVerdict(readOnly, req, 0) = "proceed" => ~readOnly /\ Admitted(req)
    BY ProceedAdmits
  <2>4. PastGate(call'[w], readOnly')
    BY <2>2, <2>3 DEF Starting, PastGate, Journaling, Reversal
  <2>5. QED
    BY <1>1, <2>2, <2>4 DEF PastGate
<1>5. ASSUME NEW w \in Workers, Work(w) \/ Disturbed(w)
      PROVE  \A v \in Workers : PastGate(call'[v], readOnly')
  <2> DEFINE c == call[w]
             d == call'[w]
  <2>1. Shape(c, d) /\ Steady(w) /\ c.req \in Requests
    BY <1>1, <1>5, StepShape, StepSteady, StepStarted DEF Shaped, LimitInv
  <2>2. d.req = c.req /\ readOnly' = readOnly /\ PastGate(c, readOnly)
    BY <1>1, <2>1 DEF Shape, SameCall, Steady
  <2>3. CASE Admitting(c, d)
    <3>1. Len(c.resolved) \in Nat
      BY <1>1 DEF TypeOK, Call
    <3>2. ~readOnly /\ Admitted(c.req)
      BY <2>1, <2>3, <3>1, ProceedAdmits DEF Admitting
    <3>3. PastGate(d, readOnly')
      BY <2>2, <2>3, <3>2 DEF PastGate, Admitting, Reversal
    <3>4. QED
      BY <1>1, <2>1, <3>3 DEF Steady, PastGate
  <2>4. CASE ~Admitting(c, d)
    <3>1. PastGate(d, readOnly')
      BY <2>1, <2>2, <2>4 DEF PastGate, Shape, Looking, Resolving, Taking, Moving, Noting,
         Ending, Reversing, Seeking, Journaling, Reversal
    <3>2. QED
      BY <1>1, <2>1, <3>1 DEF Steady, PastGate
  <2>5. QED
    BY <2>3, <2>4
<1>6. ASSUME Restart
      PROVE  \A v \in Workers : PastGate(call'[v], readOnly')
  BY <1>6 DEF Restart, PastGate, Idle, Journaling, Reversal
<1>7. ASSUME UNCHANGED <<call, readOnly>>
      PROVE  \A v \in Workers : PastGate(call'[v], readOnly')
  BY <1>1, <1>7 DEF PastGate
<1>8. \A v \in Workers : PastGate(call'[v], readOnly')
  BY <1>4, <1>5, <1>6, <1>7 DEF Next, UserMove, LateEffect, Reindex, vars
<1>9. QED
  BY <1>2, <1>3, <1>8 DEF GateInv

\* Whatever calls run, whatever fails and however often the server is
\* restarted in another mode: Mail changes no mailbox for a preview, none for
\* a deletion that is not confirmed where that is required, and while the
\* server is read-only none but for undo_last.  Batches pass guard()
\* (core/safety.py:93-126), empty_trash its own gate (write/organize.py:
\* 285-318), and undo_last is given no configuration (core/undo.py:127-207).
THEOREM GateHolds == Spec => []OnlyAdmittedCallsTouchMail
<1>1. Init => GateInv
  <2> SUFFICES ASSUME Init PROVE GateInv
    OBVIOUS
  <2>1. LimitInv /\ touched = {}
    BY LimitInvInit DEF Init
  <2>2. \A w \in Workers : PastGate(call[w], readOnly)
    BY DEF Init, PastGate, Idle, Journaling, Reversal
  <2>3. QED
    BY <2>1, <2>2 DEF GateInv, OnlyAdmittedCallsTouchMail
<1>2. GateInv => OnlyAdmittedCallsTouchMail
  BY DEF GateInv
<1>3. QED
  BY <1>1, <1>2, GateStep, PTL DEF Spec

-----------------------------------------------------------------------------
(***************************************************************************)
(* Every id of the request stays accounted for                             *)
(***************************************************************************)
Batching == Seeking \cup {"apply"} \cup Journaling

Accounted(c) ==
    /\ c.pc # "done" => c.outcome = "none"
    /\ c.pc \in Batching => c.req.op \in BatchOps
    /\ c.pc \in {"empty"} \cup Reversal => c.req.op \notin BatchOps
    /\ c.pc \in {"apply"} \cup Journaling => c.todo = <<>>
    /\ c.pc \in Batching =>
         Range(c.req.ids) = Range(c.todo) \cup IdsOf(c.resolved) \cup c.succeeded \cup c.failed
    /\ c.pc = "done" /\ c.outcome = "ok" /\ c.req.op \in BatchOps =>
         Range(c.req.ids) = c.succeeded \cup c.failed

\* What the head and the tail of a list hold is what the list holds.
LEMMA HeadAndTail ==
    ASSUME NEW S, NEW s \in Seq(S), s # <<>>
    PROVE  /\ Range(s) = {Head(s)} \cup Range(Tail(s))
           /\ IdsOf(s) = {Head(s).id} \cup IdsOf(Tail(s))
<1>1. /\ Len(s) \in Nat /\ Len(s) > 0 /\ DOMAIN s = 1..Len(s)
      /\ Head(s) = s[1] /\ DOMAIN Tail(s) = 1..(Len(s) - 1)
      /\ \A i \in 1..(Len(s) - 1) : Tail(s)[i] = s[i + 1]
  OBVIOUS
<1>2. \A i \in DOMAIN s : i = 1 \/ (i - 1 \in DOMAIN Tail(s) /\ Tail(s)[i - 1] = s[i])
  BY <1>1
<1>3. \A i \in DOMAIN Tail(s) : i + 1 \in DOMAIN s /\ Tail(s)[i] = s[i + 1]
  BY <1>1
<1>4. 1 \in DOMAIN s /\ Head(s) = s[1]
  BY <1>1
<1> HIDE <1>1
<1>5. Range(s) = {Head(s)} \cup Range(Tail(s))
  BY <1>2, <1>3, <1>4 DEF Range
<1>6. \A x \in IdsOf(s) : x = Head(s).id \/ x \in IdsOf(Tail(s))
  BY <1>2, <1>4 DEF IdsOf
<1>7. {Head(s).id} \cup IdsOf(Tail(s)) \subseteq IdsOf(s)
  BY <1>3, <1>4 DEF IdsOf
<1>8. QED
  BY <1>5, <1>6, <1>7

\* Append adds one id to those a list names.
LEMMA OneMoreId ==
    ASSUME NEW S, NEW s \in Seq(S), NEW r
    PROVE  IdsOf(Append(s, r)) = IdsOf(s) \cup {r.id}
<1>1. /\ Len(s) \in Nat /\ DOMAIN s = 1..Len(s) /\ DOMAIN Append(s, r) = 1..(Len(s) + 1)
      /\ Append(s, r)[Len(s) + 1] = r
      /\ \A i \in 1..Len(s) : Append(s, r)[i] = s[i]
  OBVIOUS
<1>2. /\ DOMAIN Append(s, r) = DOMAIN s \cup {Len(s) + 1}
      /\ \A i \in DOMAIN s : Append(s, r)[i] = s[i]
  BY <1>1
<1>3. QED
  BY <1>1, <1>2 DEF IdsOf

\* An empty list names no id.
LEMMA EmptyLists ==
    /\ Range(<<>>) = {} /\ IdsOf(<<>>) = {}
BY DEF Range, IdsOf

\* A step moves an id from one list to the next and loses none.
LEMMA AccountedStep ==
    ASSUME NEW c \in Call, NEW d \in Call, Shape(c, d), Accounted(c)
    PROVE  Accounted(d)
<1>1. c.todo \in Seq(Ids) /\ c.resolved \in Seq(Picked) /\ d.req = c.req
  BY DEF Call, Shape, SameCall
<1> USE DEF Seeking, Journaling, Reversal
<1>0. CASE Looking(c, d) \/ Noting(c, d)
  BY <1>0, <1>1 DEF Looking, Noting, SameLists, Accounted, Batching
<1>2. CASE Resolving(c, d)
  <2>1. /\ c.todo # <<>> /\ d.todo = Tail(c.todo) /\ d.succeeded = c.succeeded
        /\ d.pc = "resolve" /\ c.pc \in Seeking /\ d.outcome = c.outcome
    BY <1>2 DEF Resolving
  <2>2. Range(c.todo) = {Head(c.todo)} \cup Range(d.todo)
    BY <1>1, <2>1, HeadAndTail
  <2>3. \A r : IdsOf(Append(c.resolved, r)) = IdsOf(c.resolved) \cup {r.id}
    BY <1>1, OneMoreId
  <2>4. d.failed \cup IdsOf(d.resolved) = {Head(c.todo)} \cup c.failed \cup IdsOf(c.resolved)
    BY <1>2, <2>3 DEF Resolving
  <2>5. QED
    BY <1>1, <2>1, <2>2, <2>4 DEF Accounted, Batching
<1>3. CASE Admitting(c, d)
  BY <1>1, <1>3 DEF Admitting, SameLists, Accounted, Batching
<1>4. CASE Taking(c, d)
  <2>1. /\ c.resolved # <<>> /\ d.resolved = Tail(c.resolved) /\ d.todo = c.todo
        /\ d.pc = "apply" /\ c.pc \in {"apply"} \cup Journaling /\ d.outcome = c.outcome
    BY <1>4 DEF Taking, Popped
  <2>2. IdsOf(c.resolved) = {Head(c.resolved).id} \cup IdsOf(d.resolved)
    BY <1>1, <2>1, HeadAndTail
  <2>3. d.succeeded \cup d.failed = {Head(c.resolved).id} \cup c.succeeded \cup c.failed
    BY <1>4 DEF Taking
  <2>4. QED
    BY <1>1, <2>1, <2>2, <2>3 DEF Accounted, Batching
<1>5. CASE Moving(c, d)
  BY <1>1, <1>5 DEF Moving, SameLists, Accounted, Batching
<1>6. CASE Ending(c, d)
  BY <1>1, <1>6, EmptyLists DEF Ending, SameLists, Accounted, Batching
<1>7. CASE Reversing(c, d)
  BY <1>1, <1>7 DEF Reversing, Accounted, Batching
<1>8. QED
  BY <1>0, <1>2, <1>3, <1>4, <1>5, <1>6, <1>7 DEF Shape

-----------------------------------------------------------------------------
(***************************************************************************)
(* An id that was asked for once is taken from one copy only               *)
(***************************************************************************)
Once(s, id) == \A i, j \in DOMAIN s : s[i] = id /\ s[j] = id => i = j

OnceIn(s, id) == \A i, j \in DOMAIN s : s[i].id = id /\ s[j].id = id => i = j

Touched(no, done) == {e.id : e \in {f \in done : f.no = no}}

OneTaken(c, done, id) ==
    /\ c.pc \in Batching => OnceIn(c.resolved, id)
    /\ c.pc \in Seeking => Once(c.todo, id) /\ id \notin Range(c.todo) \cap IdsOf(c.resolved)
    /\ c.pc = "apply" => id \notin Touched(c.no, done) \cap IdsOf(c.resolved)
    /\ c.pc \in Journaling =>
         c.resolved # <<>> /\ id \notin Touched(c.no, done) \cap IdsOf(Tail(c.resolved))
    /\ \A e, f \in done : e.no = c.no /\ f.no = c.no /\ e.id = id /\ f.id = id => e.copy = f.copy

Clean(c, done) ==
    c.pc # "idle" => \A id \in Ids : Once(c.req.ids, id) => OneTaken(c, done, id)

\* An id named once is the head or in the tail, not both.
LEMMA OnceInTail ==
    ASSUME NEW S, NEW s \in Seq(S), s # <<>>, NEW id
    PROVE  /\ Once(s, id) => Once(Tail(s), id) /\ (Head(s) = id => id \notin Range(Tail(s)))
           /\ OnceIn(s, id) =>
                OnceIn(Tail(s), id) /\ (Head(s).id = id => id \notin IdsOf(Tail(s)))
<1>1. /\ Len(s) \in Nat /\ Len(s) > 0 /\ DOMAIN s = 1..Len(s)
      /\ Head(s) = s[1] /\ DOMAIN Tail(s) = 1..(Len(s) - 1)
      /\ \A i \in 1..(Len(s) - 1) : Tail(s)[i] = s[i + 1]
  OBVIOUS
<1>2. /\ 1 \in DOMAIN s /\ Head(s) = s[1]
      /\ \A i \in DOMAIN Tail(s) : i + 1 \in DOMAIN s /\ i + 1 # 1 /\ Tail(s)[i] = s[i + 1]
      /\ \A i, j \in DOMAIN Tail(s) : i + 1 = j + 1 => i = j
  BY <1>1
<1> HIDE <1>1
<1>3. ASSUME Once(s, id)
      PROVE  Once(Tail(s), id) /\ (Head(s) = id => id \notin Range(Tail(s)))
  BY <1>2, <1>3 DEF Once, Range
<1>4. ASSUME OnceIn(s, id)
      PROVE  OnceIn(Tail(s), id) /\ (Head(s).id = id => id \notin IdsOf(Tail(s)))
  BY <1>2, <1>4 DEF OnceIn, IdsOf
<1>5. QED
  BY <1>3, <1>4

\* Appending a message whose id is not in the list leaves each id there at most once.
LEMMA OnceInAppend ==
    ASSUME NEW S, NEW s \in Seq(S), NEW r, NEW id, OnceIn(s, id),
           r.id = id => id \notin IdsOf(s)
    PROVE  OnceIn(Append(s, r), id)
<1>1. /\ Len(s) \in Nat /\ DOMAIN s = 1..Len(s) /\ DOMAIN Append(s, r) = 1..(Len(s) + 1)
      /\ Append(s, r)[Len(s) + 1] = r
      /\ \A i \in 1..Len(s) : Append(s, r)[i] = s[i]
  OBVIOUS
<1>2. /\ DOMAIN Append(s, r) = DOMAIN s \cup {Len(s) + 1}
      /\ \A i \in DOMAIN s : Append(s, r)[i] = s[i]
  BY <1>1
<1>3. QED
  BY <1>1, <1>2 DEF OnceIn, IdsOf

\* A step in which Mail does nothing.
LEMMA OneTakenStep ==
    ASSUME NEW c \in Call, NEW d \in Call, NEW done, NEW id \in Ids,
           Shape(c, d), \A e \in done : e.no = c.no => c.pc \notin Seeking,
           ~Moving(c, d),
           OneTaken(c, done, id)
    PROVE  OneTaken(d, done, id)
<1>1. c.todo \in Seq(Ids) /\ c.resolved \in Seq(Picked) /\ d.no = c.no /\ d.req = c.req
  BY DEF Call, Shape, SameCall
<1> USE DEF Seeking, Journaling, Reversal
<1>0. CASE Looking(c, d) \/ Noting(c, d)
  BY <1>0, <1>1 DEF Looking, Noting, SameLists, OneTaken, Batching
<1>2. CASE Resolving(c, d)
  <2>1. /\ c.todo # <<>> /\ d.todo = Tail(c.todo) /\ d.pc = "resolve" /\ c.pc \in Seeking
        /\ \/ d.resolved = c.resolved
           \/ \E r : r.id = Head(c.todo) /\ d.resolved = Append(c.resolved, r)
    BY <1>2 DEF Resolving
  <2>2. /\ Range(c.todo) = {Head(c.todo)} \cup Range(d.todo)
        /\ Once(d.todo, id) /\ (Head(c.todo) = id => id \notin Range(d.todo))
        /\ OnceIn(c.resolved, id) /\ id \notin Range(c.todo) \cap IdsOf(c.resolved)
    BY <1>1, <2>1, HeadAndTail, OnceInTail DEF OneTaken, Batching
  <2>3. CASE d.resolved = c.resolved
    BY <1>1, <2>1, <2>2, <2>3 DEF OneTaken, Batching
  <2>4. CASE \E r : r.id = Head(c.todo) /\ d.resolved = Append(c.resolved, r)
    <3>1. PICK r : r.id = Head(c.todo) /\ d.resolved = Append(c.resolved, r)
      BY <2>4
    <3>2. OnceIn(d.resolved, id) /\ IdsOf(d.resolved) = IdsOf(c.resolved) \cup {r.id}
      BY <1>1, <2>2, <3>1, OnceInAppend, OneMoreId
    <3>3. QED
      BY <1>1, <2>1, <2>2, <3>1, <3>2 DEF OneTaken, Batching
  <2>5. QED
    BY <2>1, <2>3, <2>4
<1>3. CASE Admitting(c, d)
  <2>1. Touched(c.no, done) = {}
    BY <1>3 DEF Admitting, Touched
  <2>2. QED
    BY <1>1, <1>3, <2>1 DEF Admitting, SameLists, OneTaken, Batching
<1>4. CASE Taking(c, d)
  <2>1. /\ c.resolved # <<>> /\ d.resolved = Tail(c.resolved)
        /\ d.pc = "apply" /\ c.pc \in {"apply"} \cup Journaling
    BY <1>4 DEF Taking, Popped
  <2>2. /\ IdsOf(c.resolved) = {Head(c.resolved).id} \cup IdsOf(d.resolved)
        /\ OnceIn(d.resolved, id)
    BY <1>1, <2>1, HeadAndTail, OnceInTail DEF OneTaken, Batching
  <2>3. QED
    BY <1>1, <2>1, <2>2 DEF OneTaken, Batching
<1>5. CASE Ending(c, d)
  BY <1>1, <1>5 DEF Ending, SameLists, OneTaken, Batching
<1>6. CASE Reversing(c, d)
  BY <1>1, <1>6 DEF Reversing, OneTaken, Batching
<1>7. QED
  BY <1>0, <1>2, <1>3, <1>4, <1>5, <1>6 DEF Shape

\* A step in which Mail takes a copy.
LEMMA OneTakenEffect ==
    ASSUME NEW c \in Call, NEW d \in Call, NEW done, NEW id \in Ids, NEW e,
           d.no = c.no, c.pc = "apply",
           Taking(c, d) \/ Moving(c, d),
           e.no = c.no, e.id = Head(c.resolved).id,
           OneTaken(c, done, id)
    PROVE  OneTaken(d, done \cup {e}, id)
<1>1. c.resolved \in Seq(Picked) /\ c.resolved # <<>>
  BY DEF Call, Taking, Moving, Popped
<1>2. /\ OnceIn(c.resolved, id) /\ id \notin Touched(c.no, done) \cap IdsOf(c.resolved)
      /\ \A f, g \in done : f.no = c.no /\ g.no = c.no /\ f.id = id /\ g.id = id
                            => f.copy = g.copy
  BY DEF OneTaken, Batching
<1>3. /\ IdsOf(c.resolved) = {e.id} \cup IdsOf(Tail(c.resolved))
      /\ OnceIn(Tail(c.resolved), id) /\ (e.id = id => id \notin IdsOf(Tail(c.resolved)))
  BY <1>1, <1>2, HeadAndTail, OnceInTail
<1>4. Touched(c.no, done \cup {e}) = Touched(c.no, done) \cup {e.id}
  BY DEF Touched
<1>5. id \notin Touched(c.no, done \cup {e}) \cap IdsOf(Tail(c.resolved))
  BY <1>2, <1>3, <1>4
<1>6. e.id = id => \A f \in done : ~(f.no = c.no /\ f.id = id)
  BY <1>2, <1>3 DEF Touched
<1>7. \A f, g \in done \cup {e} : f.no = c.no /\ g.no = c.no /\ f.id = id /\ g.id = id
                                  => f.copy = g.copy
  BY <1>2, <1>6
<1>8. \/ d.pc = "apply" /\ d.resolved = Tail(c.resolved)
      \/ d.pc = "journal" /\ d.resolved = c.resolved
  BY DEF Taking, Moving, Popped, SameLists
<1>9. QED
  BY <1>1, <1>2, <1>3, <1>5, <1>7, <1>8 DEF OneTaken, Batching, Seeking, Journaling

-----------------------------------------------------------------------------
(***************************************************************************)
(* What the journal keeps                                                  *)
(***************************************************************************)
-----------------------------------------------------------------------------
(***************************************************************************)
(* What the journal keeps.  A worker prunes what it ranked some steps      *)
(* before: the batches it then drops had, when they were ranked, no row    *)
(* that was not superseded, but another worker may have added one since.   *)
(***************************************************************************)
OneWorker == \A v, w \in Workers : v = w

Batches(rows) == {r.batch : r \in rows}

LaterBatches(rows, ts) == Batches({r \in rows : r.ts > ts})

\* Some row of the batch is superseded.
Outlived(batch) == \E q \in written : q.batch = batch /\ Superseded(q)

\* What a prune may take: with one worker what is superseded itself.
Expendable(row) == IF OneWorker THEN Superseded(row) ELSE Outlived(row.batch)

Doomed ==
    \A w \in Workers : call[w].pc = "drop" =>
        IF OneWorker THEN \A r \in journal : r.batch \in call[w].stale => Superseded(r)
        ELSE \A batch \in call[w].stale : Outlived(batch)

JournalRemembers ==
    /\ IsFiniteSet(Batches(written))
    /\ \A r \in written : r.ts <= clock
    /\ \A p, q \in written : p.ts = q.ts => p.batch = q.batch
    /\ \A r \in journal : \E q \in written : q.ts = r.ts /\ q.batch = r.batch
    /\ \A q \in written : Expendable(q) \/ Kept(q)

Inserting(row) ==
    /\ row.ts = clock + 1 /\ clock' = clock + 1
    /\ written' = written \cup {row}
    /\ journal' = journal \cup {row}

\* The row is that of the message a call has at hand.
Writing(w, row) ==
    /\ call[w].pc = "journal"
    /\ row = UndoRecord(call[w].no, call[w].req, Head(call[w].resolved))

Marking(ts) ==
    /\ journal' = {IF r.ts = ts THEN [r EXCEPT !.undone = TRUE] ELSE r : r \in journal}
    /\ UNCHANGED <<written, clock>>

Dropping(stale) ==
    /\ journal' = {r \in journal : r.batch \notin stale}
    /\ UNCHANGED <<written, clock>>

\* The journal changes by one insert, by one mark or by one prune.
LEMMA JournalChange ==
    ASSUME [Next]_vars
    PROVE  \/ UNCHANGED <<journal, clock, written>>
           \/ \E w \in Workers : \E row : Writing(w, row) /\ Inserting(row)
           \/ \E w \in Workers : UndoMark(w)
           \/ \E w \in Workers : DropStale(w)
<1>1. CASE UNCHANGED vars
  BY <1>1 DEF vars, journalVars, historyVars
<1>2. CASE Restart
  BY <1>2 DEF Restart, journalVars, historyVars
<1>3. ASSUME NEW c, NEW box, UserMove(c, box) \/ LateEffect(c, box)
      PROVE  UNCHANGED <<journal, clock, written>>
  BY <1>3 DEF UserMove, LateEffect, journalVars, historyVars
<1>4. ASSUME NEW id, NEW name, Reindex(id, name)
      PROVE  UNCHANGED <<journal, clock, written>>
  BY <1>4 DEF Reindex, journalVars, historyVars
<1>5. ASSUME NEW w \in Workers, Begin(w)
      PROVE  UNCHANGED <<journal, clock, written>>
  BY <1>5 DEF Begin, BeginBatch, BeginEmptyTrash, BeginUndo, journalVars, historyVars
<1>6. ASSUME NEW w \in Workers, Work(w) \/ Disturbed(w),
             ~JournalInsert(w), ~DropStale(w), ~UndoMark(w)
      PROVE  UNCHANGED <<journal, clock, written>>
  <2>1. CASE LookUp(w) \/ Search(w) \/ Remember(w) \/ Guard(w) \/ ApplyOne(w)
             \/ RankBatches(w) \/ Finish(w) \/ EmptyTrash(w)
    BY <2>1 DEF LookUp, Search, Remember, Guard, ApplyOne, RankBatches, Finish, EmptyTrash,
       journalVars, historyVars
  <2>2. CASE UndoLookUp(w) \/ UndoSearch(w) \/ UndoRemember(w) \/ UndoMove(w) \/ UndoFinish(w)
    BY <2>2 DEF UndoLookUp, UndoSearch, UndoRemember, UndoMove, UndoFinish, journalVars,
       historyVars
  <2>3. CASE Disturbed(w)
    BY <2>3 DEF Disturbed, ResolveTimeout, ResolveLocked, ApplyTimeout, JournalLocked,
       EmptyTrashTimeout, UndoResolveFault, UndoMoveTimeout, UndoMarkLocked, journalVars,
       historyVars
  <2>4. QED
    BY <1>6, <2>1, <2>2, <2>3 DEF Work
<1>7. ASSUME NEW w \in Workers, JournalInsert(w)
      PROVE  \E row : Writing(w, row) /\ Inserting(row)
  <2>1. \A no, req, r : UndoRecord(no, req, r).ts = clock + 1
    BY DEF UndoRecord
  <2>2. QED
    BY <1>7, <2>1 DEF Inserting, Writing, JournalInsert
<1>8. QED
  BY <1>1, <1>2, <1>3, <1>4, <1>5, <1>6, <1>7 DEF Next

\* Only the ranking leads to a prune.
LEMMA DropStep ==
    ASSUME TypeOK, CallsHold, [Next]_vars, NEW w \in Workers, call'[w].pc = "drop"
    PROVE  \/ /\ call'[w].stale = StaleBatches(journal) /\ UNCHANGED <<journal, written>>
           \/ /\ call[w].pc = "drop" /\ call'[w].stale = call[w].stale
              /\ OneWorker => UNCHANGED <<journal, written>>
<1>1. call \in [Workers -> Call] /\ call[w] \in Call
  BY DEF TypeOK
<1>2. ASSUME NEW v \in Workers, Begin(v)
      PROVE  v # w /\ call'[w] = call[w]
  <2>1. PICK req \in Requests :
          BeginBatch(v, req) \/ BeginEmptyTrash(v, req) \/ BeginUndo(v, req)
    BY <1>2 DEF Begin
  <2>2. Starting(call'[v], req) /\ \A u \in Workers \ {v} : call'[u] = call[u]
    BY <2>1, BeginStarts, BeginHolds
  <2>3. QED
    BY <2>2 DEF Starting
<1>3. ASSUME Work(w) \/ Disturbed(w)
      PROVE  call'[w].stale = StaleBatches(journal) /\ UNCHANGED <<journal, written>>
  <2>1. Shape(call[w], call'[w])
    BY <1>3, StepShape DEF Shaped
  <2>2. call[w].pc \in Journaling
    BY <2>1 DEF Shape, Looking, Resolving, Admitting, Taking, Moving, Noting, Ending,
       Reversing, Seeking, Reversal
  <2>3. JournalInsert(w) \/ RankBatches(w) \/ DropStale(w) \/ JournalLocked(w)
    BY <1>3, <2>2 DEF Work, Disturbed, LookUp, Search, Remember, Guard, ApplyOne, Finish,
       EmptyTrash, UndoLookUp, UndoSearch, UndoRemember, UndoMove, UndoMark, UndoFinish,
       ResolveTimeout, ResolveLocked, ApplyTimeout, EmptyTrashTimeout, UndoResolveFault,
       UndoMoveTimeout, UndoMarkLocked, Journaling
  <2>4. \A x : Become(w, x) => call'[w] = x
    BY <1>1 DEF Become
  <2>5. ~JournalInsert(w) /\ ~DropStale(w) /\ ~JournalLocked(w)
    BY <1>1, <2>4 DEF JournalInsert, DropStale, JournalLocked, Return, Journaled, Call
  <2>6. RankBatches(w)
    BY <2>3, <2>5
  <2>7. \/ call'[w] = Journaled(call[w])
        \/ call'[w] = [call[w] EXCEPT !.pc = "drop", !.stale = StaleBatches(journal)]
    BY <2>4, <2>6 DEF RankBatches
  <2>8. call'[w] = [call[w] EXCEPT !.pc = "drop", !.stale = StaleBatches(journal)]
    BY <1>1, <2>7 DEF Journaled, Call
  <2>9. QED
    BY <1>1, <2>6, <2>8 DEF RankBatches, journalVars, historyVars, Call
<1>4. ASSUME NEW v \in Workers, v # w, Work(v) \/ Disturbed(v)
      PROVE  call'[w] = call[w]
  BY <1>4, StepSteady DEF Steady
<1>5. ASSUME UNCHANGED <<call, journal, written>>
      PROVE  call[w].pc = "drop" /\ call'[w].stale = call[w].stale
  BY <1>5
<1>6. ~Restart
  BY <1>1 DEF Restart, Idle
<1>7. CASE \/ \E c \in Copies, box \in Boxes \cup {Gone} : UserMove(c, box) \/ LateEffect(c, box)
           \/ \E id \in Ids, name \in Names \cup {None} : Reindex(id, name)
           \/ UNCHANGED vars
  BY <1>5, <1>7 DEF UserMove, LateEffect, Reindex, vars, journalVars, historyVars
<1>8. QED
  BY <1>2, <1>3, <1>4, <1>6, <1>7 DEF Next, OneWorker

\* The more rows are written, the more batches come after a given time.
LEMMA LaterGrow ==
    ASSUME NEW rows, NEW more, rows \subseteq more, IsFiniteSet(Batches(more)), NEW ts
    PROVE  /\ Cardinality(LaterBatches(rows, ts)) <= Cardinality(LaterBatches(more, ts))
           /\ Cardinality(LaterBatches(rows, ts)) \in Nat
           /\ Cardinality(LaterBatches(more, ts)) \in Nat
           /\ IsFiniteSet(LaterBatches(more, ts))
<1>1. LaterBatches(rows, ts) \subseteq LaterBatches(more, ts)
  BY DEF LaterBatches, Batches
<1>2. LaterBatches(more, ts) \subseteq Batches(more)
  BY DEF LaterBatches, Batches
<1>3. IsFiniteSet(LaterBatches(more, ts))
  BY <1>2, FS_Subset
<1>4. IsFiniteSet(LaterBatches(rows, ts))
  BY <1>1, <1>3, FS_Subset
<1>5. QED
  BY <1>1, <1>3, <1>4, FS_Subset, FS_CardinalityType

\* Once superseded, always superseded: more rows, not fewer, are written.
LEMMA SupersededStays ==
    ASSUME written \subseteq written', IsFiniteSet(Batches(written')), NEW q, Superseded(q)
    PROVE  Superseded(q)'
<1>1. MaxBatches <= Cardinality(LaterBatches(written, q.ts))
  BY DEF Superseded, LaterBatches, Batches
<1>2. /\ Cardinality(LaterBatches(written, q.ts)) <= Cardinality(LaterBatches(written', q.ts))
      /\ Cardinality(LaterBatches(written, q.ts)) \in Nat
      /\ Cardinality(LaterBatches(written', q.ts)) \in Nat
  BY LaterGrow
<1>3. MaxBatches <= Cardinality(LaterBatches(written', q.ts))
  BY <1>1, <1>2, MovesAssumption
<1>4. QED
  BY <1>3 DEF Superseded, LaterBatches, Batches

\* What pruning drops has as many batches after it as are kept.
\* So a prune may still take what it might have taken before.
LEMMA OutlivedStays ==
    ASSUME written \subseteq written', IsFiniteSet(Batches(written'))
    PROVE  /\ \A batch : Outlived(batch) => Outlived(batch)'
           /\ \A q : Expendable(q) => Expendable(q)'
BY SupersededStays DEF Outlived, Expendable

\* A batch that is ranked stale has as many batches after each of its rows
\* as are kept.
LEMMA StaleSuperseded ==
    ASSUME JournalRemembers, NEW r \in journal, r.batch \in StaleBatches(journal)
    PROVE  Superseded(r)
<1>1. PICK p \in journal : p.batch = r.batch /\ MaxBatches <= Cardinality(NewerBatches(journal, p.batch))
  BY DEF StaleBatches
<1>2. NewerBatches(journal, p.batch) \subseteq LaterBatches(written, r.ts)
  BY <1>1 DEF JournalRemembers, NewerBatches, LaterBatches, Batches
<1>3. IsFiniteSet(LaterBatches(written, r.ts)) /\ Cardinality(LaterBatches(written, r.ts)) \in Nat
  BY LaterGrow DEF JournalRemembers
<1>4. /\ Cardinality(NewerBatches(journal, p.batch)) <= Cardinality(LaterBatches(written, r.ts))
      /\ Cardinality(NewerBatches(journal, p.batch)) \in Nat
  BY <1>2, <1>3, FS_Subset, FS_CardinalityType
<1>5. MaxBatches <= Cardinality(LaterBatches(written, r.ts))
  BY <1>1, <1>3, <1>4, MovesAssumption
<1>6. QED
  BY <1>5 DEF Superseded, LaterBatches, Batches

\* A ranking dooms only what may be taken, and it stays so until the prune.
LEMMA DoomedStep ==
    ASSUME TypeOK, CallsHold, JournalRemembers, Doomed, [Next]_vars,
           written \subseteq written', IsFiniteSet(Batches(written'))
    PROVE  Doomed'
<1>1. SUFFICES ASSUME NEW w \in Workers, call'[w].pc = "drop"
               PROVE  IF OneWorker
                        THEN \A r \in journal' : r.batch \in call'[w].stale => Superseded(r)'
                        ELSE \A batch \in call'[w].stale : Outlived(batch)'
  BY DEF Doomed
<1>2. \A q : Superseded(q) => Superseded(q)'
  BY SupersededStays
<1>3. CASE call'[w].stale = StaleBatches(journal) /\ UNCHANGED <<journal, written>>
  <2>1. \A r \in journal : r.batch \in StaleBatches(journal) => Superseded(r)
    BY StaleSuperseded
  <2>2. ASSUME NEW batch \in StaleBatches(journal)
        PROVE  Outlived(batch)
    <3>1. PICK r \in journal : r.batch = batch
      BY DEF StaleBatches
    <3>2. PICK q \in written : q.ts = r.ts /\ q.batch = r.batch
      BY DEF JournalRemembers
    <3>3. Superseded(q)
      BY <2>1, <3>1, <3>2 DEF Superseded
    <3>4. QED
      BY <3>1, <3>2, <3>3 DEF Outlived
  <2>3. QED
    BY <1>2, <1>3, <2>1, <2>2, OutlivedStays
<1>4. CASE /\ call[w].pc = "drop" /\ call'[w].stale = call[w].stale
           /\ OneWorker => UNCHANGED <<journal, written>>
  <2>1. CASE OneWorker
    BY <1>2, <1>4, <2>1 DEF Doomed
  <2>2. CASE ~OneWorker
    BY <1>4, <2>2, OutlivedStays DEF Doomed
  <2>3. QED
    BY <2>1, <2>2
<1>5. QED
  BY <1>1, <1>3, <1>4, DropStep

\* Every change of the journal keeps what it must remember.
LEMMA JournalStep ==
    ASSUME TypeOK, TypeOK', CallsHold, JournalRemembers, Doomed, [Next]_vars
    PROVE  JournalRemembers' /\ Doomed' /\ written \subseteq written'
<1>1. /\ clock \in Nat /\ clock' \in Nat /\ written \subseteq Row /\ written' \subseteq Row
      /\ journal \subseteq Row /\ journal' \subseteq Row
      /\ \A r \in Row : r.ts \in Nat
  BY DEF TypeOK, Row
<1>2. SUFFICES JournalRemembers' /\ written \subseteq written'
  BY <1>2, DoomedStep DEF JournalRemembers
<1>3. ASSUME UNCHANGED <<clock, written>>,
             \A r \in journal' : \E o \in journal : r.ts = o.ts /\ r.batch = o.batch,
             \A o \in journal : Expendable(o) \/ \E r \in journal' : r.ts = o.ts
      PROVE  JournalRemembers' /\ written \subseteq written'
  <2>1. IsFiniteSet(Batches(written)')
    BY <1>3 DEF JournalRemembers, Batches
  <2>2. \A q : Expendable(q) => Expendable(q)'
    BY <1>3, <2>1, OutlivedStays DEF Batches
  <2>3. ASSUME NEW q \in written, NEW o \in journal, q.ts = o.ts, Expendable(o)
        PROVE  Expendable(q)
    <3>1. q.batch = o.batch
      BY <2>3 DEF JournalRemembers
    <3>2. QED
      BY <2>3, <3>1 DEF Expendable, Superseded
  <2>4. \A q \in written : Expendable(q)' \/ \E r \in journal' : r.ts = q.ts
    BY <1>3, <2>2, <2>3 DEF JournalRemembers, Kept
  <2>5. QED
    BY <1>3, <2>1, <2>4 DEF JournalRemembers, Kept
<1>4. CASE UNCHANGED <<journal, clock, written>>
  BY <1>3, <1>4
<1>5. CASE \E w \in Workers : UndoMark(w)
  <2>1. PICK ts : Marking(ts)
    BY <1>5 DEF UndoMark, Marking, historyVars
  <2> DEFINE Marked(o) == IF o.ts = ts THEN [o EXCEPT !.undone = TRUE] ELSE o
  <2>2. journal' = {Marked(o) : o \in journal} /\ written' = written /\ clock' = clock
    BY <2>1 DEF Marking
  <2>3. \A o \in Row : Marked(o).ts = o.ts /\ Marked(o).batch = o.batch
    BY DEF Row
  <2> HIDE DEF Marked
  <2>4. \A o \in journal : Marked(o).ts = o.ts /\ Marked(o).batch = o.batch
    BY <1>1, <2>3
  <2>5. QED
    BY <1>3, <2>2, <2>4
<1>6. CASE \E w \in Workers : DropStale(w)
  <2>1. PICK w \in Workers : DropStale(w)
    BY <1>6
  <2>2. /\ call[w].pc = "drop" /\ UNCHANGED <<clock, written>>
        /\ journal' = {r \in journal : r.batch \notin call[w].stale}
    BY <2>1 DEF DropStale, historyVars
  <2>3. \A o \in journal : o.batch \in call[w].stale => Expendable(o)
    BY <2>2 DEF Doomed, Expendable
  <2>4. QED
    BY <1>3, <2>2, <2>3
<1>7. CASE \E w \in Workers : \E row : Writing(w, row) /\ Inserting(row)
  <2>1. PICK row : Inserting(row)
    BY <1>7
  <2>2. /\ row.ts = clock + 1 /\ clock' = clock + 1 /\ written' = written \cup {row}
        /\ journal' = journal \cup {row}
    BY <2>1 DEF Inserting
  <2>3. IsFiniteSet(Batches(written'))
    <3>1. Batches(written') = Batches(written) \cup {row.batch}
      BY <2>2 DEF Batches
    <3>2. QED
      BY <3>1, FS_AddElement DEF JournalRemembers
  <2>4. /\ \A r \in written' : r.ts <= clock'
        /\ \A p, q \in written' : p.ts = q.ts => p.batch = q.batch
    BY <1>1, <2>2 DEF JournalRemembers
  <2>5. \A r \in journal' : \E q \in written' : q.ts = r.ts /\ q.batch = r.batch
    BY <2>2 DEF JournalRemembers
  <2>6. \A q : Expendable(q) => Expendable(q)'
    BY <2>2, <2>3, OutlivedStays
  <2>7. \A q \in written' : Expendable(q)' \/ \E r \in journal' : r.ts = q.ts
    BY <2>2, <2>6 DEF JournalRemembers, Kept
  <2>8. IsFiniteSet(Batches(written)')
    BY <2>3 DEF Batches
  <2>9. QED
    BY <2>2, <2>4, <2>5, <2>7, <2>8 DEF JournalRemembers, Kept
<1>8. QED
  BY <1>4, <1>5, <1>6, <1>7, JournalChange

-----------------------------------------------------------------------------
(***************************************************************************)
(* The invariant of all of it                                              *)
(***************************************************************************)
\* What a reversible call reports has been written.
Recorded(c, rows) ==
    Reversible(c.req) => \A id \in c.succeeded : \E row \in rows : row.batch = c.no /\ row.id = id

CallInv(c, done, rows) ==
    /\ c.pc = "idle" => c.outcome = "none" /\ c.succeeded = {}
    /\ c.pc # "idle" => Accounted(c) /\ Clean(c, done) /\ Recorded(c, rows)

AccountInv ==
    /\ LimitInv
    /\ JournalRemembers /\ Doomed
    /\ \A w \in Workers : CallInv(call[w], effects, written)

\* The step of one call leaves the others what they had.
LEMMA OtherCalls ==
    ASSUME NEW c, NEW done, NEW more, NEW rows, NEW fresh, rows \subseteq fresh,
           more = done \/ \E e : e.no # c.no /\ more = done \cup {e},
           CallInv(c, done, rows)
    PROVE  CallInv(c, more, fresh)
<1>1. \A id : OneTaken(c, done, id) => OneTaken(c, more, id)
  <2>1. Touched(c.no, more) = Touched(c.no, done)
    BY DEF Touched
  <2>2. \A e \in more : e.no = c.no => e \in done
    OBVIOUS
  <2>3. QED
    BY <2>1, <2>2 DEF OneTaken
<1>2. QED
  BY <1>1 DEF CallInv, Clean, Recorded

\* A step of one call keeps the accounts of all of them.
LEMMA StepAccount ==
    ASSUME AccountInv, NEW w \in Workers, Work(w) \/ Disturbed(w), TypeOK',
           written \subseteq written'
    PROVE  \A v \in Workers : CallInv(call'[v], effects', written')
<1> DEFINE c == call[w]
           d == call'[w]
<1>1. TypeOK /\ CallsHold /\ CallsInBudget /\ Numbered
  BY DEF AccountInv, LimitInv, MovesInv
<1>2. c \in Call /\ d \in Call
  BY <1>1 DEF TypeOK
<1>3. Shaped(c, d) /\ Shape(c, d)
  BY <1>1, StepShape DEF Shaped
<1>4. c.pc # "idle" /\ d.pc # "idle" /\ c.no # 0
  BY <1>1, StepStarted
<1>5. d.no = c.no /\ d.req = c.req /\ \A v \in Workers \ {w} : call'[v] = call[v]
  BY <1>1, <1>3, StepSteady DEF Shape, SameCall, Steady
<1>6. Accounted(c) /\ Clean(c, effects) /\ Recorded(c, written)
  BY <1>4 DEF AccountInv, CallInv
<1>7. Accounted(d)
  BY <1>2, <1>3, <1>6, AccountedStep
<1>8. \A e \in effects : e.no = c.no => c.pc \notin Seeking
  BY <1>1 DEF CallsInBudget, Budget, Copied
<1>9. ASSUME NEW id \in Ids, Once(d.req.ids, id)
      PROVE  OneTaken(d, effects', id)
  <2>1. OneTaken(c, effects, id)
    BY <1>4, <1>5, <1>6, <1>9 DEF Clean
  <2>2. CASE effects' = effects /\ ~Moving(c, d)
    BY <1>2, <1>3, <1>8, <2>1, <2>2, OneTakenStep
  <2>3. CASE /\ c.pc = "apply" /\ (Taking(c, d) \/ Moving(c, d))
             /\ \E e : /\ e.no = c.no /\ e.id = Head(c.resolved).id
                       /\ effects' = effects \cup {e}
    BY <1>2, <1>5, <2>1, <2>3, OneTakenEffect
  <2>4. QED
    BY <1>3, <2>2, <2>3 DEF Shaped, EffectAtHand
<1>10. Recorded(d, written')
  <2>1. c.pc \in Reversal => ~Reversible(c.req)
    BY <1>6 DEF Accounted, Reversible, BatchOps
  <2>2. QED
    BY <1>3, <1>5, <1>6, <2>1 DEF Shaped, RowAtHand, Recorded
<1>11. CallInv(d, effects', written')
  BY <1>4, <1>7, <1>9, <1>10 DEF CallInv, Clean
<1>12. ASSUME NEW v \in Workers \ {w}
       PROVE  CallInv(call'[v], effects', written')
  <2>1. call'[v] = call[v] /\ call[v].no # c.no
    BY <1>1, <1>4, <1>5 DEF Numbered
  <2>2. effects' = effects \/ \E e : e.no # call[v].no /\ effects' = effects \cup {e}
    BY <1>3, <2>1 DEF Shaped, EffectAtHand
  <2>3. CallInv(call[v], effects, written)
    BY DEF AccountInv
  <2>4. QED
    BY <2>1, <2>2, <2>3, OtherCalls
<1>13. QED
  BY <1>11, <1>12

\* So a call that begins has its accounts in order.
LEMMA BeginAccount ==
    ASSUME AccountInv, NEW w \in Workers, NEW req \in Requests,
           BeginBatch(w, req) \/ BeginEmptyTrash(w, req) \/ BeginUndo(w, req)
    PROVE  \A v \in Workers : CallInv(call'[v], effects', written')
<1> DEFINE d == call'[w]
<1>1. TypeOK /\ Numbered
  BY DEF AccountInv, LimitInv, MovesInv
<1>2. Starting(d, req) /\ \A v \in Workers \ {w} : call'[v] = call[v]
  BY <1>1, BeginStarts, BeginHolds
<1>3. effects' = effects /\ written' = written
  BY DEF BeginBatch, BeginEmptyTrash, BeginUndo, historyVars
<1>4. \A e \in effects : e.no # d.no
  BY <1>1, <1>2 DEF Numbered, Starting, TypeOK, Effect
<1>5. Accounted(d)
  BY <1>2, EmptyLists DEF Starting, Accounted, Batching, Seeking, Reversal, Journaling, BatchOps
<1>6. Clean(d, effects)
  <2>1. Touched(d.no, effects) = {} /\ \A id : OnceIn(<<>>, id)
    BY <1>4 DEF Touched, OnceIn
  <2>2. QED
    BY <1>2, <1>4, <2>1, EmptyLists DEF Starting, Clean, OneTaken, Seeking, Journaling
<1>7. Recorded(d, written)
  BY <1>2 DEF Starting, Recorded
<1>8. CallInv(d, effects', written')
  BY <1>2, <1>3, <1>5, <1>6, <1>7 DEF CallInv, Starting
<1>9. QED
  BY <1>2, <1>3, <1>8 DEF AccountInv

\* The world around the calls does not touch them; a restart forgets them.
LEMMA WorldAccount ==
    ASSUME AccountInv,
           \/ \E c \in Copies, box \in Boxes \cup {Gone} :
                UserMove(c, box) \/ LateEffect(c, box)
           \/ \E id \in Ids, name \in Names \cup {None} : Reindex(id, name)
           \/ Restart
           \/ UNCHANGED vars
    PROVE  \A v \in Workers : CallInv(call'[v], effects', written')
<1>1. CASE UNCHANGED <<call, effects, written>>
  BY <1>1 DEF AccountInv
<1>2. CASE Restart
  BY <1>2 DEF Restart, CallInv, Idle
<1>3. QED
  BY <1>1, <1>2 DEF UserMove, LateEffect, Reindex, vars, historyVars

\* At first there is nothing to account for.
LEMMA AccountInvInit ==
    ASSUME Init
    PROVE  AccountInv
<1>1. LimitInv
  BY LimitInvInit
<1>2. JournalRemembers /\ Doomed
  <2>1. Batches({}) = {}
    BY DEF Batches
  <2>2. QED
    BY <2>1, FS_EmptySet DEF Init, JournalRemembers, Doomed, Idle
<1>3. \A w \in Workers : CallInv(call[w], effects, written)
  BY DEF Init, CallInv, Idle
<1>4. QED
  BY <1>1, <1>2, <1>3 DEF AccountInv

\* Every step keeps the accounts.
LEMMA AccountInvStep ==
    ASSUME AccountInv, [Next]_vars
    PROVE  AccountInv'
<1>1. LimitInv' /\ TypeOK' /\ TypeOK /\ CallsHold
  BY LimitInvStep DEF AccountInv, LimitInv, MovesInv
<1>2. JournalRemembers' /\ Doomed' /\ written \subseteq written'
  BY <1>1, JournalStep DEF AccountInv
<1>3. \A v \in Workers : CallInv(call'[v], effects', written')
  BY <1>1, <1>2, StepAccount, BeginAccount, WorldAccount DEF Next, Begin
<1>4. QED
  BY <1>1, <1>2, <1>3 DEF AccountInv

\* The lists of every call, the effects and the journal agree in every
\* reachable state: what the four theorems below are read off from.
THEOREM AccountInvariant == Spec => []AccountInv
BY AccountInvInit, AccountInvStep, PTL DEF Spec

\* A finished batch call lists every id it was given under succeeded or
\* failed, and no other id: _resolve_many() (write/organize.py) and the loop
\* of guard() (core/safety.py:132-143) pass each id on exactly once.
THEOREM IdsAreAccounted == Spec => []EveryIdAccounted
<1>1. AccountInv => EveryIdAccounted
  <2> SUFFICES ASSUME AccountInv, NEW w \in Workers, call[w].outcome = "ok",
                      call[w].req.op \in {"move", "move_to_trash", "delete_permanent"}
               PROVE  call[w].succeeded \cup call[w].failed = Range(call[w].req.ids)
    BY DEF EveryIdAccounted
  <2>1. CASE call[w].pc = "idle"
    BY <2>1 DEF AccountInv, CallInv
  <2>2. CASE call[w].pc # "idle"
    BY <2>2 DEF AccountInv, CallInv, Accounted, BatchOps
  <2>3. QED
    BY <2>1, <2>2
<1>2. QED
  BY <1>1, AccountInvariant, PTL

\* An id named once costs at most one copy, whatever other copies with that
\* Message-ID arrive between the lookup and the move, and although a timed-out
\* move may still happen later: nothing in guard() tries an id again.
THEOREM OneCopyEach == Spec => []OneCopyPerRequest
<1>1. AccountInv => OneCopyPerRequest
  <2> SUFFICES ASSUME AccountInv, NEW w \in Workers,
                      NEW e \in EffectsOf(call[w].no), NEW f \in EffectsOf(call[w].no),
                      e.id = f.id, e.copy # f.copy
               PROVE  ~Once(call[w].req.ids, e.id)
    BY DEF OneCopyPerRequest, Once
  <2>1. /\ e \in effects /\ f \in effects /\ e.no = call[w].no /\ f.no = call[w].no
        /\ e.id \in Ids /\ 0 < e.no
    BY DEF EffectsOf, AccountInv, LimitInv, MovesInv, TypeOK, Effect, Numbered
  <2>2. call[w].pc # "idle"
    BY <2>1 DEF AccountInv, LimitInv, Numbered
  <2>3. QED
    BY <2>1, <2>2 DEF AccountInv, CallInv, Clean, OneTaken
<1>2. QED
  BY <1>1, AccountInvariant, PTL

\* Each id a move or a move to the trash reports as succeeded has its row in
\* the undo journal, or some row of its batch has as many batches after it as
\* are kept: journal_write() commits before the id counts, and what another
\* worker may prune by a stale ranking (core/undo.py:58-70) is a batch that had
\* been superseded when it was ranked.
THEOREM SuccessStaysUndoable == Spec => []OnlyOldBatchesAreLost
<1>1. AccountInv => OnlyOldBatchesAreLost
  <2> SUFFICES ASSUME AccountInv, NEW w \in Workers, NEW id \in call[w].succeeded,
                      Reversible(call[w].req)
               PROVE  \E row \in written :
                        /\ row.batch = call[w].no /\ row.id = id
                        /\ Kept(row) \/ \E q \in written : q.batch = call[w].no /\ Superseded(q)
    BY DEF OnlyOldBatchesAreLost
  <2>1. CASE call[w].pc = "idle"
    BY <2>1 DEF AccountInv, CallInv
  <2>2. CASE call[w].pc # "idle"
    <3>1. PICK row \in written : row.batch = call[w].no /\ row.id = id
      BY <2>2 DEF AccountInv, CallInv, Recorded
    <3>2. Kept(row) \/ \E q \in written : q.batch = row.batch /\ Superseded(q)
      BY DEF AccountInv, JournalRemembers, Expendable, Outlived
    <3>3. QED
      BY <3>1, <3>2
  <2>3. QED
    BY <2>1, <2>2
<1>2. QED
  BY <1>1, AccountInvariant, PTL

\* With one worker nothing comes between the ranking and the prune, and what is
\* lost is superseded itself: MaxBatches other batches were journaled after it.
THEOREM OneWorkerKeepsSuccess ==
    ASSUME OneWorker
    PROVE  Spec => []SuccessIsUndoable
<1>1. AccountInv => SuccessIsUndoable
  <2> SUFFICES ASSUME AccountInv, NEW w \in Workers, NEW id \in call[w].succeeded,
                      Reversible(call[w].req)
               PROVE  \E row \in written :
                        /\ row.batch = call[w].no /\ row.id = id
                        /\ Superseded(row) \/ Kept(row)
    BY DEF SuccessIsUndoable
  <2>1. CASE call[w].pc = "idle"
    BY <2>1 DEF AccountInv, CallInv
  <2>2. CASE call[w].pc # "idle"
    BY <2>2 DEF AccountInv, CallInv, Recorded, JournalRemembers, Expendable
  <2>3. QED
    BY <2>1, <2>2
<1>2. QED
  BY <1>1, AccountInvariant, PTL

-----------------------------------------------------------------------------
(***************************************************************************)
(* Undo.  The theorems are about one worker, the only one to have Mail do  *)
(* anything: two, or a user who moves messages, take each other's copies.  *)
(***************************************************************************)
Alone == OneWorker /\ MaxUser = 0

Home(row) == <<row.account, row.from>>

\* Rows are written one after the other, those of a later call after those of
\* an earlier one.
Ordered(j, t, n) ==
    /\ \A r \in j : r.ts <= t /\ 0 < r.batch /\ r.batch <= n
    /\ \A r, q \in j : r.ts = q.ts => r = q
    /\ \A r, q \in j : r.ts <= q.ts => r.batch <= q.batch

\* ... and an undo holds rows that are still to undo.
JournalInOrder ==
    /\ Ordered(journal, clock, calls)
    /\ \A w \in Workers : call[w].pc # "idle" => call[w].no = calls
    /\ \A w \in Workers : call[w].pc \in Reversal => call[w].rows \subseteq Pending

\* Mail does only what it is asked, when it is asked.
Calm == "timeout" \notin Faults \/ faults = 0

\* Before a row is marked its message is back.
BackBeforeMark ==
    Calm =>
      /\ late = {}
      /\ \A w \in Workers : call[w].pc = "mark" =>
           \A row \in FirstRows(call[w].rows) :
              \E c \in Copies : IdOf[c] = row.id /\ at[c] \in Origin(row)

\* What the steps of an undo do to the call: it goes on with the same row, or
\* is done with one.
SameRows(c, d) == SameCall(c, d) /\ d.rows = c.rows /\ d.failed = c.failed

RowDone(c, d, row) == SameCall(c, d) /\ d.pc = "undo" /\ d.rows = c.rows \ {row}

LEMMA UndoFields ==
    ASSUME TypeOK, NEW w \in Workers, NEW row, NEW x, NEW p
    PROVE  LET c == call[w]
               d == call'[w]
           IN  /\ Become(w, RowFailed(c, row)) =>
                    RowDone(c, d, row) /\ d.failed = c.failed \cup {row.id}
               /\ Become(w, [DropRow(c, row) EXCEPT !.succeeded = x]) =>
                    RowDone(c, d, row) /\ d.failed = c.failed
               /\ Become(w, [c EXCEPT !.pc = p, !.tries = x]) => SameRows(c, d) /\ d.pc = p
               /\ Become(w, [c EXCEPT !.pc = p, !.tries = {}, !.here = x]) =>
                    SameRows(c, d) /\ d.pc = p /\ d.here = x
               /\ Become(w, [c EXCEPT !.tries = @ \ {x}]) => SameRows(c, d) /\ d.pc = c.pc
               /\ Become(w, [c EXCEPT !.pc = p]) =>
                    SameRows(c, d) /\ d.pc = p /\ d.here = c.here
<1>1. call \in [Workers -> Call] /\ call[w] \in Call
  BY DEF TypeOK
<1>2. \A y : Become(w, y) => call'[w] = y
  BY <1>1 DEF Become
<1> DEFINE c == call[w]
           e == DropRow(c, row)
<1>3. /\ e.no = c.no /\ e.req = c.req /\ e.pc = "undo" /\ e.rows = c.rows \ {row}
      /\ e.failed = c.failed /\ DOMAIN e = DOMAIN c
  BY <1>1 DEF DropRow, Call
<1>4. DOMAIN c = DOMAIN Idle
  BY <1>1 DEF Call, Idle
<1> HIDE DEF e
<1>5. RowDone(c, [e EXCEPT !.failed = @ \cup {row.id}], row)
      /\ [e EXCEPT !.failed = @ \cup {row.id}].failed = c.failed \cup {row.id}
  BY <1>3, <1>4 DEF RowDone, SameCall, Idle
<1>6. RowDone(c, [e EXCEPT !.succeeded = x], row) /\ [e EXCEPT !.succeeded = x].failed = c.failed
  BY <1>3, <1>4 DEF RowDone, SameCall, Idle
<1>7. /\ SameRows(c, [c EXCEPT !.pc = p, !.tries = x]) /\ [c EXCEPT !.pc = p, !.tries = x].pc = p
      /\ SameRows(c, [c EXCEPT !.tries = @ \ {x}]) /\ [c EXCEPT !.tries = @ \ {x}].pc = c.pc
  BY <1>4 DEF SameRows, SameCall, Idle
<1>8. /\ SameRows(c, [c EXCEPT !.pc = p, !.tries = {}, !.here = x])
      /\ [c EXCEPT !.pc = p, !.tries = {}, !.here = x].pc = p
      /\ [c EXCEPT !.pc = p, !.tries = {}, !.here = x].here = x
      /\ SameRows(c, [c EXCEPT !.pc = p]) /\ [c EXCEPT !.pc = p].pc = p
      /\ [c EXCEPT !.pc = p].here = c.here
  BY <1>4 DEF SameRows, SameCall, Idle
<1>9. RowFailed(c, row) = [e EXCEPT !.failed = @ \cup {row.id}]
  BY DEF RowFailed, e
<1> HIDE DEF c
<1>10. /\ Become(w, RowFailed(c, row)) =>
            RowDone(c, call'[w], row) /\ call'[w].failed = c.failed \cup {row.id}
       /\ Become(w, [e EXCEPT !.succeeded = x]) =>
            RowDone(c, call'[w], row) /\ call'[w].failed = c.failed
       /\ Become(w, [c EXCEPT !.pc = p, !.tries = x]) => SameRows(c, call'[w]) /\ call'[w].pc = p
       /\ Become(w, [c EXCEPT !.pc = p, !.tries = {}, !.here = x]) =>
            SameRows(c, call'[w]) /\ call'[w].pc = p /\ call'[w].here = x
       /\ Become(w, [c EXCEPT !.tries = @ \ {x}]) => SameRows(c, call'[w]) /\ call'[w].pc = c.pc
       /\ Become(w, [c EXCEPT !.pc = p]) =>
            SameRows(c, call'[w]) /\ call'[w].pc = p /\ call'[w].here = c.here
  BY <1>2, <1>5, <1>6, <1>7, <1>8, <1>9
<1>11. QED
  BY <1>10 DEF c, e

\* The steps that leave a call in its reversal.
UndoForms(w, c, d) ==
    \/ /\ UndoLookUp(w) \/ UndoSearch(w) \/ UndoRemember(w)
       /\ SameRows(c, d) /\ d.pc \in {"undo_search", "undo_remember", "unmove"}
    \/ UndoMove(w) /\ SameRows(c, d) /\ d.pc = "mark"
    \/ /\ UndoSearch(w) \/ UndoResolveFault(w) \/ UndoMove(w) \/ UndoMoveTimeout(w)
       /\ \E row \in FirstRows(c.rows) : RowDone(c, d, row) /\ Become(w, RowFailed(c, row))
    \/ UndoMark(w) /\ \E row \in FirstRows(c.rows) : RowDone(c, d, row) /\ d.failed = c.failed

LEMMA ReversalForms ==
    ASSUME TypeOK, CallsHold, NEW w \in Workers, Work(w) \/ Disturbed(w),
           call'[w].pc \in Reversal
    PROVE  call[w].pc \in Reversal /\ UndoForms(w, call[w], call'[w])
<1> DEFINE c == call[w]
           d == call'[w]
<1>0. call \in [Workers -> Call] /\ c \in Call
  BY DEF TypeOK
<1>1. Shape(c, d)
  BY StepShape DEF Shaped
<1>2. c.pc \in Reversal
  BY <1>1 DEF Shape, Looking, Resolving, Admitting, Taking, Moving, Noting, Ending, Reversing,
     Seeking, Journaling, Reversal
<1>3. \A o : ~Return(w, o)
  <2>1. \A o : Return(w, o) => d.pc = "done"
    BY <1>0 DEF Return, Become, Call
  <2>2. QED
    BY <2>1 DEF Reversal
<1>4. CASE Work(w)
  <2>1. \/ UndoLookUp(w) \/ UndoSearch(w) \/ UndoRemember(w) \/ UndoMove(w) \/ UndoMark(w)
    <3>1. ~LookUp(w) /\ ~Search(w) /\ ~Remember(w) /\ ~Guard(w) /\ ~ApplyOne(w)
      BY <1>2 DEF LookUp, Search, Remember, Guard, ApplyOne, Reversal
    <3>2. ~JournalInsert(w) /\ ~RankBatches(w) /\ ~DropStale(w) /\ ~Finish(w) /\ ~EmptyTrash(w)
      BY <1>2 DEF JournalInsert, RankBatches, DropStale, Finish, EmptyTrash, Reversal
    <3>3. ~UndoFinish(w)
      BY <1>3 DEF UndoFinish
    <3>4. QED
      BY <1>4, <3>1, <3>2, <3>3 DEF Work
  <2>2. CASE UndoLookUp(w)
    <3>1. \E x : Become(w, [c EXCEPT !.pc = "undo_search", !.tries = x])
      BY <2>2 DEF UndoLookUp
    <3>2. QED
      BY <1>2, <2>2, <3>1, UndoFields DEF UndoForms
  <2>3. CASE UndoSearch(w)
    <3>1. PICK row \in FirstRows(c.rows) :
             c.pc = "undo_search" /\ SearchNext(w, row.id, "undo_remember", RowFailed(c, row))
      BY <2>3 DEF UndoSearch
    <3>2. \/ \E x : Become(w, [c EXCEPT !.pc = "undo_remember", !.tries = {}, !.here = x])
          \/ \E x : Become(w, [c EXCEPT !.tries = @ \ {x}])
          \/ Become(w, RowFailed(c, row))
      BY <3>1 DEF SearchNext
    <3>3. QED
      BY <1>2, <2>3, <3>1, <3>2, UndoFields DEF UndoForms
  <2>4. CASE UndoRemember(w)
    BY <1>2, <2>4, UndoFields DEF UndoForms, UndoRemember
  <2>5. CASE UndoMove(w)
    <3>1. \/ Become(w, [c EXCEPT !.pc = "mark"])
          \/ \E row \in FirstRows(c.rows) : Become(w, RowFailed(c, row))
      BY <2>5 DEF UndoMove
    <3>2. QED
      BY <1>2, <2>5, <3>1, UndoFields DEF UndoForms
  <2>6. CASE UndoMark(w)
    <3>1. \E row \in FirstRows(c.rows) : \E x : Become(w, [DropRow(c, row) EXCEPT !.succeeded = x])
      BY <2>6 DEF UndoMark
    <3>2. QED
      BY <1>2, <2>6, <3>1, UndoFields DEF UndoForms
  <2>7. QED
    BY <2>1, <2>2, <2>3, <2>4, <2>5, <2>6
<1>5. CASE Disturbed(w)
  <2>1. UndoResolveFault(w) \/ UndoMoveTimeout(w)
    BY <1>2, <1>3, <1>5 DEF Disturbed, ResolveTimeout, ResolveLocked, ApplyTimeout, JournalLocked,
       EmptyTrashTimeout, UndoMarkLocked, Reversal
  <2>2. \E row \in FirstRows(c.rows) : Become(w, RowFailed(c, row))
    BY <2>1 DEF UndoResolveFault, UndoMoveTimeout
  <2>3. QED
    BY <1>2, <2>1, <2>2, UndoFields DEF UndoForms
<1>6. QED
  BY <1>4, <1>5

\* A step that leaves a call in its reversal began there and adds no rows.
LEMMA ReversalRows ==
    ASSUME TypeOK, CallsHold, NEW w \in Workers, Work(w) \/ Disturbed(w),
           call'[w].pc \in Reversal
    PROVE  call[w].pc \in Reversal /\ call'[w].rows \subseteq call[w].rows
<1>1. call[w].pc \in Reversal /\ UndoForms(w, call[w], call'[w])
  BY ReversalForms
<1>2. QED
  BY <1>1 DEF UndoForms, SameRows, RowDone

\* The mark of one row.
Marked(j, ts) == {IF r.ts = ts THEN [r EXCEPT !.undone = TRUE] ELSE r : r \in j}

LEMMA MarkedRows ==
    ASSUME NEW j, j \subseteq Row, NEW t, NEW n, Ordered(j, t, n), NEW row \in j, ~row.undone
    PROVE  /\ \A r \in Marked(j, row.ts) : \E q \in j :
                /\ r.ts = q.ts /\ r.batch = q.batch /\ r.id = q.id /\ Home(r) = Home(q)
                /\ IF q = row THEN r.undone ELSE r = q
           /\ \A q \in j : q # row => q \in Marked(j, row.ts)
<1> DEFINE M(r) == IF r.ts = row.ts THEN [r EXCEPT !.undone = TRUE] ELSE r
<1>1. ASSUME NEW q \in j
      PROVE  /\ M(q).ts = q.ts /\ M(q).batch = q.batch /\ M(q).id = q.id /\ Home(M(q)) = Home(q)
             /\ IF q = row THEN M(q).undone ELSE M(q) = q
  <2>1. q \in Row /\ (q.ts = row.ts => q = row)
    BY DEF Ordered
  <2>2. QED
    BY <2>1 DEF Row, Home
<1>2. Marked(j, row.ts) = {M(q) : q \in j}
  BY DEF Marked
<1> HIDE DEF M
<1>3. QED
  BY <1>1, <1>2

LEMMA MarkedOrder ==
    ASSUME NEW j, j \subseteq Row, NEW t, NEW n, Ordered(j, t, n), NEW row \in j, ~row.undone
    PROVE  Ordered(Marked(j, row.ts), t, n)
<1> DEFINE M == Marked(j, row.ts)
<1>1. \A r \in M : \E q \in j :
        /\ r.ts = q.ts /\ r.batch = q.batch
        /\ IF q = row THEN r.undone ELSE r = q
  BY MarkedRows
<1>2. ASSUME NEW r \in M, NEW q \in M, r.ts = q.ts
      PROVE  r = q
  <2>1. r \in {IF o.ts = row.ts THEN [o EXCEPT !.undone = TRUE] ELSE o : o \in j}
        /\ q \in {IF o.ts = row.ts THEN [o EXCEPT !.undone = TRUE] ELSE o : o \in j}
    BY DEF Marked
  <2>2. PICK o1 \in j : r = IF o1.ts = row.ts THEN [o1 EXCEPT !.undone = TRUE] ELSE o1
    BY <2>1
  <2>3. PICK o2 \in j : q = IF o2.ts = row.ts THEN [o2 EXCEPT !.undone = TRUE] ELSE o2
    BY <2>1
  <2>4. o1.ts = r.ts /\ o2.ts = q.ts
    BY <2>2, <2>3 DEF Row
  <2>5. o1 = o2
    BY <1>2, <2>4 DEF Ordered
  <2>6. QED
    BY <2>2, <2>3, <2>5
<1> HIDE DEF M
<1>3. ASSUME NEW r \in M, NEW q \in M, r.ts <= q.ts
      PROVE  r.batch <= q.batch
  <2>1. PICK o1 \in j : r.ts = o1.ts /\ r.batch = o1.batch
    BY <1>1
  <2>2. PICK o2 \in j : q.ts = o2.ts /\ q.batch = o2.batch
    BY <1>1
  <2>3. o1.ts <= o2.ts
    BY <1>3, <2>1, <2>2
  <2>4. o1.batch <= o2.batch
    BY <2>3 DEF Ordered
  <2>5. QED
    BY <2>1, <2>2, <2>4
<1>4. \A r \in M : r.ts <= t /\ 0 < r.batch /\ r.batch <= n
  BY <1>1 DEF Ordered
<1>5. Ordered(M, t, n)
  BY <1>2, <1>3, <1>4 DEF Ordered
<1>6. QED
  BY <1>5 DEF M

LEMMA InsertOrder ==
    ASSUME NEW j, j \subseteq Row, NEW t \in Nat, NEW n \in Nat, Ordered(j, t, n),
           NEW row, row.ts = t + 1, row.batch = n, 0 < n,
           NEW more, more \subseteq j \cup {row}
    PROVE  Ordered(more, t + 1, n)
<1>1. \A r \in j : r.ts \in Nat /\ r.batch \in Nat /\ r.ts <= t /\ 0 < r.batch /\ r.batch <= n
  BY DEF Row, Ordered
<1>2. \A r \in more : r.ts <= t + 1 /\ 0 < r.batch /\ r.batch <= n
  BY <1>1
<1>3. \A r, q \in more : r.ts = q.ts => r = q
  BY <1>1 DEF Ordered
<1>4. \A r, q \in more : r.ts <= q.ts => r.batch <= q.batch
  BY <1>1 DEF Ordered
<1>5. QED
  BY <1>2, <1>3, <1>4 DEF Ordered

\* What journal_write() makes of the message at hand.
LEMMA RowWritten ==
    ASSUME TypeOK, CallsHold, NEW w \in Workers, NEW row, Writing(w, row)
    PROVE  LET r == Head(call[w].resolved)
           IN  /\ row.batch = call[w].no /\ row.id = r.id /\ Home(row) = r.box /\ ~row.undone
               /\ r.id \in Ids /\ r.box \in Boxes
<1> DEFINE c == call[w]
           r == Head(c.resolved)
<1>1. c \in Call /\ c.resolved # <<>> /\ row = UndoRecord(c.no, c.req, r)
  BY DEF TypeOK, CallsHold, Holds, Journaling, Writing
<1>2. r \in Picked
  BY <1>1, AppliedType
<1>3. r.id \in Ids /\ r.box \in Boxes /\ r.box \in Accounts \X Names
  BY <1>2, LookupAssumption DEF Picked
<1> HIDE DEF r
<1>4. row.batch = c.no /\ row.id = r.id /\ row.account = r.box[1] /\ row.from = r.box[2]
      /\ row.undone = FALSE
  BY <1>1 DEF UndoRecord, AccountOf, NameOf
<1>5. Home(row) = r.box
  BY <1>3, <1>4 DEF Home
<1>6. QED
  BY <1>3, <1>4, <1>5 DEF r

\* What the steps of a call leave alone: the number of calls, and its own number.
LEMMA StepNumber ==
    ASSUME TypeOK, CallsHold, NEW w \in Workers, Work(w) \/ Disturbed(w)
    PROVE  /\ calls' = calls /\ call[w].pc # "idle" /\ call'[w].no = call[w].no
           /\ call'[w].req = call[w].req
           /\ \A v \in Workers \ {w} : call'[v] = call[v]
<1>1. Steady(w) /\ Shape(call[w], call'[w])
  BY StepSteady, StepShape DEF Shaped
<1>2. call[w].pc # "idle"
  BY <1>1 DEF Shape, Looking, Resolving, Admitting, Taking, Moving, Noting, Ending, Reversing,
     Seeking, Journaling, Reversal
<1>3. QED
  BY <1>1, <1>2 DEF Shape, SameCall, Steady

\* An undo begins with the rows of one batch that are still to undo.
LEMMA UndoBegins ==
    ASSUME TypeOK, NEW w \in Workers, NEW req \in Requests, BeginUndo(w, req)
    PROVE  \/ call'[w].pc = "done"
           \/ /\ call'[w].pc = "undo" /\ Pending # {}
              /\ call'[w].rows = {r \in Pending : r.batch = TargetBatch(req)}
<1> DEFINE i == [Idle EXCEPT !.req = req, !.no = calls + 1]
           rows == {r \in Pending : r.batch = TargetBatch(req)}
<1>1. call \in [Workers -> Call]
  BY DEF TypeOK
<1>2. \/ \E o : Become(w, [i EXCEPT !.pc = "done", !.outcome = o])
      \/ Pending # {} /\ Become(w, [i EXCEPT !.pc = "undo", !.rows = rows])
  BY DEF BeginUndo
<1>3. \A x : Become(w, x) => call'[w] = x
  BY <1>1 DEF Become
<1>4. /\ \A o : [i EXCEPT !.pc = "done", !.outcome = o].pc = "done"
      /\ \A S : [i EXCEPT !.pc = "undo", !.rows = S].pc = "undo"
      /\ \A S : [i EXCEPT !.pc = "undo", !.rows = S].rows = S
  BY DEF Idle
<1> HIDE DEF i, rows
<1>5. ASSUME NEW o, Become(w, [i EXCEPT !.pc = "done", !.outcome = o])
      PROVE  call'[w].pc = "done"
  <2>1. call'[w] = [i EXCEPT !.pc = "done", !.outcome = o]
    BY <1>3, <1>5
  <2>2. QED
    BY <1>4, <2>1
<1>6. ASSUME Become(w, [i EXCEPT !.pc = "undo", !.rows = rows])
      PROVE  call'[w].pc = "undo" /\ call'[w].rows = rows
  <2>1. call'[w] = [i EXCEPT !.pc = "undo", !.rows = rows]
    BY <1>3, <1>6
  <2>2. QED
    BY <1>4, <2>1
<1>7. QED
  BY <1>2, <1>5, <1>6 DEF rows

\* Beginning an undo, its rows are still to undo.
LEMMA BeginOrder ==
    ASSUME Alone, LimitInv, JournalInOrder, NEW w \in Workers, NEW req \in Requests,
           BeginBatch(w, req) \/ BeginEmptyTrash(w, req) \/ BeginUndo(w, req)
    PROVE  JournalInOrder'
<1>1. TypeOK /\ call \in [Workers -> Call] /\ calls \in Nat /\ journal \subseteq Row
  BY DEF LimitInv, MovesInv, TypeOK
<1>2. UNCHANGED <<journal, clock>> /\ calls' = calls + 1
  BY DEF BeginBatch, BeginEmptyTrash, BeginUndo, journalVars
<1>3. Starting(call'[w], req)
  BY <1>1, BeginStarts
<1>4. \A v \in Workers : v = w
  BY DEF Alone, OneWorker
<1>5. Ordered(journal, clock, calls')
  <2>1. \A r \in journal : r.batch \in Nat
    BY <1>1 DEF Row
  <2>2. QED
    BY <1>1, <1>2, <2>1 DEF JournalInOrder, Ordered
<1>6. call'[w].pc \in Reversal => call'[w].rows \subseteq Pending
  <2>1. BeginBatch(w, req) => call'[w].pc \in {"done", "resolve"}
    BY <1>1 DEF BeginBatch, Become, Idle
  <2>2. BeginEmptyTrash(w, req) => call'[w].pc \in {"done", "empty"}
    BY <1>1 DEF BeginEmptyTrash, Become, Idle
  <2>3. QED
    BY <1>1, <2>1, <2>2, UndoBegins DEF Reversal
<1>7. Pending' = Pending
  BY <1>2 DEF Pending
<1>8. QED
  BY <1>2, <1>3, <1>4, <1>5, <1>6, <1>7 DEF JournalInOrder, Starting

\* A row still to undo, and still to undo by the call, gets its mark.
LEMMA MarkChanges ==
    ASSUME LimitInv, JournalInOrder, NEW w \in Workers, UndoMark(w)
    PROVE  \E row \in FirstRows(call[w].rows) :
             /\ call[w].pc = "mark" /\ row \in call[w].rows /\ row \in Pending /\ row \in journal
             /\ ~row.undone /\ journal' = Marked(journal, row.ts)
             /\ RowDone(call[w], call'[w], row) /\ call'[w].failed = call[w].failed
             /\ Pending' = Pending \ {row}
<1>1. TypeOK /\ journal \subseteq Row
  BY DEF LimitInv, MovesInv, TypeOK
<1>2. PICK row \in FirstRows(call[w].rows) :
        /\ call[w].pc = "mark" /\ journal' = Marked(journal, row.ts)
        /\ Become(w, [DropRow(call[w], row) EXCEPT !.succeeded = @ \cup {row.id}])
  BY DEF UndoMark, Marked
<1>3. row \in call[w].rows /\ row \in Pending /\ row \in journal /\ ~row.undone
  BY <1>2 DEF FirstRows, JournalInOrder, Pending, Reversal
<1>4. RowDone(call[w], call'[w], row) /\ call'[w].failed = call[w].failed
  BY <1>1, <1>2, UndoFields
<1>5. Pending' = Pending \ {row}
  <2>1. Pending' = {r \in Marked(journal, row.ts) : ~r.undone}
    BY <1>2 DEF Pending
  <2>2. Ordered(journal, clock, calls)
    BY DEF JournalInOrder
  <2>3. /\ \A r \in Marked(journal, row.ts) : \E q \in journal : IF q = row THEN r.undone ELSE r = q
        /\ \A q \in journal : q # row => q \in Marked(journal, row.ts)
    BY <1>1, <1>3, <2>2, MarkedRows
  <2>4. QED
    BY <1>3, <2>1, <2>3 DEF Pending
<1>6. QED
  BY <1>2, <1>3, <1>4, <1>5

LEMMA StepOrder ==
    ASSUME Alone, LimitInv, JournalInOrder, NEW w \in Workers, Work(w) \/ Disturbed(w),
           [Next]_vars
    PROVE  JournalInOrder'
<1>1. TypeOK /\ CallsHold /\ Numbered /\ clock \in Nat /\ calls \in Nat /\ journal \subseteq Row
  BY DEF LimitInv, MovesInv, TypeOK
<1>2. /\ calls' = calls /\ call[w].pc # "idle" /\ call'[w].no = call[w].no
      /\ \A v \in Workers : v = w
  BY <1>1, StepNumber DEF Alone, OneWorker
<1>3. call[w].no = calls /\ 0 < calls
  <2>1. call[w].no \in Nat
    BY <1>1 DEF TypeOK, Call
  <2>2. QED
    BY <1>1, <1>2, <2>1 DEF JournalInOrder, Numbered
<1>4. call'[w].pc \in Reversal => call[w].pc \in Reversal /\ call'[w].rows \subseteq call[w].rows
  BY <1>1, ReversalRows
<1>5. CASE UNCHANGED <<journal, clock, written>>
  <2>1. Pending' = Pending
    BY <1>5 DEF Pending
  <2>2. QED
    BY <1>2, <1>3, <1>4, <1>5, <2>1 DEF JournalInOrder
<1>6. ASSUME NEW v \in Workers, NEW row, Writing(v, row), Inserting(row)
      PROVE  JournalInOrder'
  <2>1. row.ts = clock + 1 /\ clock' = clock + 1 /\ row.batch = calls
    BY <1>1, <1>2, <1>3, <1>6, RowWritten DEF Inserting
  <2>2. journal' \subseteq journal \cup {row}
    BY <1>6 DEF Inserting
  <2>3. Ordered(journal', clock + 1, calls)
    BY <1>1, <1>3, <2>1, <2>2, InsertOrder DEF JournalInOrder
  <2>4. call[w].pc = "journal"
    BY <1>2, <1>6 DEF Writing
  <2>5. call'[w].pc \notin Reversal
    BY <1>4, <2>4 DEF Reversal
  <2>6. QED
    BY <1>2, <1>3, <2>1, <2>3, <2>5 DEF JournalInOrder
<1>7. ASSUME NEW v \in Workers, UndoMark(v)
      PROVE  JournalInOrder'
  <2>1. v = w
    BY <1>2
  <2>2. PICK row \in FirstRows(call[w].rows) :
          /\ row \in journal /\ ~row.undone /\ journal' = Marked(journal, row.ts)
          /\ RowDone(call[w], call'[w], row) /\ Pending' = Pending \ {row}
          /\ call[w].pc = "mark"
    BY <1>7, <2>1, MarkChanges
  <2>3. Ordered(journal', clock, calls)
    BY <1>1, <2>2, MarkedOrder DEF JournalInOrder
  <2>4. call'[w].rows \subseteq Pending'
    BY <2>2 DEF RowDone, JournalInOrder, Reversal
  <2>5. clock' = clock
    BY <1>7 DEF UndoMark
  <2>6. QED
    BY <1>2, <1>3, <2>3, <2>4, <2>5 DEF JournalInOrder
<1>8. ASSUME NEW v \in Workers, DropStale(v)
      PROVE  JournalInOrder'
  <2>1. call[w].pc = "drop" /\ journal' \subseteq journal /\ clock' = clock
    BY <1>2, <1>8 DEF DropStale
  <2>2. call'[w].pc \notin Reversal
    BY <1>4, <2>1 DEF Reversal
  <2>3. Ordered(journal', clock, calls)
    BY <2>1 DEF JournalInOrder, Ordered
  <2>4. QED
    BY <1>2, <1>3, <2>1, <2>2, <2>3 DEF JournalInOrder
<1>9. QED
  BY <1>5, <1>6, <1>7, <1>8, JournalChange

LEMMA InOrderStep ==
    ASSUME Alone, LimitInv, JournalInOrder, [Next]_vars
    PROVE  JournalInOrder'
<1>1. CASE UNCHANGED <<journal, clock, calls, call>>
  <2>1. Pending' = Pending
    BY <1>1 DEF Pending
  <2>2. QED
    BY <1>1, <2>1 DEF JournalInOrder
<1>2. CASE Restart
  <2>1. UNCHANGED <<journal, clock, calls>> /\ call' = [w \in Workers |-> Idle]
    BY <1>2 DEF Restart, journalVars, Fault
  <2>2. QED
    BY <2>1 DEF JournalInOrder, Idle, Reversal
<1>3. QED
  BY <1>1, <1>2, BeginOrder, StepOrder
     DEF Next, Begin, UserMove, LateEffect, Reindex, journalVars, boundVars, vars

-----------------------------------------------------------------------------
\* Every fault is counted.
LEMMA FaultsCount ==
    ASSUME TypeOK, [Next]_vars
    PROVE  /\ faults \in Nat /\ (faults' = faults \/ faults' = faults + 1)
           /\ \A kind : Fault(kind) => faults' = faults + 1
           /\ \A w : Disturbed(w) => \E kind : Fault(kind)
           /\ Restart => \E kind : Fault(kind)
<1>1. \A kind : Fault(kind) => faults' = faults + 1
  BY DEF Fault
<1>2. \A w : Begin(w) => faults' = faults
  BY DEF Begin, BeginBatch, BeginEmptyTrash, BeginUndo
<1>3. \A w : Work(w) => faults' = faults
  BY DEF Work, LookUp, Search, Remember, Guard, ApplyOne, JournalInsert, RankBatches, DropStale,
     Finish, EmptyTrash, UndoLookUp, UndoSearch, UndoRemember, UndoMove, UndoMark, UndoFinish,
     boundVars
<1>4. \A w : Disturbed(w) => \E kind : Fault(kind)
  BY DEF Disturbed, ResolveTimeout, ResolveLocked, ApplyTimeout, JournalLocked,
     EmptyTrashTimeout, UndoResolveFault, UndoMoveTimeout, UndoMarkLocked
<1>5. Restart => \E kind : Fault(kind)
  BY DEF Restart
<1>6. QED
  BY <1>1, <1>2, <1>3, <1>4, <1>5
     DEF Next, UserMove, LateEffect, Reindex, vars, boundVars, TypeOK

\* While Mail is calm now it was before, and no call timed out.
LEMMA CalmBefore ==
    ASSUME TypeOK, [Next]_vars, Calm'
    PROVE  Calm /\ ~Fault("timeout")
BY FaultsCount DEF Calm, Fault

\* Then only the calls of the one worker change the mailbox.
LEMMA NobodyElse ==
    ASSUME Alone, TypeOK, late = {}
    PROVE  \A c, box : ~UserMove(c, box) /\ ~LateEffect(c, box)
BY MovesAssumption DEF Alone, OneWorker, UserMove, LateEffect, TypeOK

\* The step that brings a call to the mark of its row has put the message back.
LEMMA BackToMark ==
    ASSUME LimitInv, JournalInOrder, NEW w \in Workers, Work(w) \/ Disturbed(w),
           call'[w].pc = "mark"
    PROVE  /\ UndoMove(w)
           /\ \A row \in FirstRows(call'[w].rows) :
                \E c \in Copies : IdOf[c] = row.id /\ at'[c] \in Origin(row)
<1>1. TypeOK /\ CallsHold
  BY DEF LimitInv, MovesInv
<1>2. UndoMove(w) /\ SameRows(call[w], call'[w]) /\ call[w].pc \in Reversal
  BY <1>1, ReversalForms DEF UndoForms, RowDone, Reversal
<1>3. SUFFICES ASSUME NEW row \in FirstRows(call'[w].rows)
               PROVE  \E c \in Copies : IdOf[c] = row.id /\ at'[c] \in Origin(row)
  BY <1>2
<1>4. PICK r \in FirstRows(call[w].rows) :
        \/ \E m \in getMessageHandle(at, r.id, call[w].here), box \in Origin(r) :
             at' = [at EXCEPT ![m] = box]
        \/ Become(w, RowFailed(call[w], r))
  BY <1>2 DEF UndoMove
<1>5. ~Become(w, RowFailed(call[w], r))
  BY <1>1, UndoFields DEF RowDone
<1>6. PICK m \in getMessageHandle(at, r.id, call[w].here) : \E box \in Origin(r) :
        at' = [at EXCEPT ![m] = box]
  BY <1>4, <1>5
<1>7. call'[w].rows = call[w].rows /\ call[w].rows \subseteq journal
  BY <1>2 DEF SameRows, JournalInOrder, Pending
<1>8. r = row
  <2>1. r \in journal /\ row \in journal /\ r.ts <= row.ts /\ row.ts <= r.ts
    BY <1>7 DEF FirstRows
  <2>2. r.ts \in Nat /\ row.ts \in Nat
    BY <1>1, <2>1 DEF TypeOK, Row
  <2>3. r.ts = row.ts
    BY <2>1, <2>2
  <2>4. QED
    BY <2>1, <2>3 DEF JournalInOrder, Ordered
<1>9. m \in Copies /\ IdOf[m] = row.id /\ at'[m] \in Origin(row)
  BY <1>1, <1>6, <1>8 DEF getMessageHandle, TypeOK
<1>10. QED
  BY <1>9

LEMMA BackStep ==
    ASSUME Alone, LimitInv, JournalInOrder, BackBeforeMark, [Next]_vars
    PROVE  BackBeforeMark'
<1>1. SUFFICES ASSUME Calm' PROVE  BackBeforeMark'
  BY DEF BackBeforeMark
<1>2. TypeOK /\ CallsHold
  BY DEF LimitInv, MovesInv
<1>3. Calm /\ ~Fault("timeout") /\ late = {}
  BY <1>1, <1>2, CalmBefore DEF BackBeforeMark
<1>4. \A c, box : ~UserMove(c, box) /\ ~LateEffect(c, box)
  BY <1>2, <1>3, NobodyElse
<1>5. late' = {}
  <2>1. \A w : Begin(w) => late' = late
    BY DEF Begin, BeginBatch, BeginEmptyTrash, BeginUndo, mailVars
  <2>2. \A w : Work(w) => late' = late
    BY DEF Work, LookUp, Search, Remember, Guard, ApplyOne, JournalInsert, RankBatches, DropStale,
       Finish, EmptyTrash, UndoLookUp, UndoSearch, UndoRemember, UndoMove, UndoMark, UndoFinish,
       mailVars
  <2>3. \A w : Disturbed(w) => late' = late
    BY <1>3 DEF Disturbed, ResolveTimeout, ResolveLocked, ApplyTimeout, JournalLocked,
       EmptyTrashTimeout, UndoResolveFault, UndoMoveTimeout, UndoMarkLocked, mailVars
  <2>4. QED
    BY <1>3, <1>4, <2>1, <2>2, <2>3 DEF Next, Reindex, Restart, mailVars, vars
<1>6. ASSUME NEW w \in Workers, call'[w].pc = "mark", NEW row \in FirstRows(call'[w].rows)
      PROVE  \E c \in Copies : IdOf[c] = row.id /\ at'[c] \in Origin(row)
  <2>1. CASE UNCHANGED <<at, call>>
    BY <1>3, <1>6, <2>1 DEF BackBeforeMark
  <2>2. ~Restart
    BY <1>6 DEF Restart, Idle
  <2>3. ASSUME NEW v \in Workers, Begin(v)
        PROVE  FALSE
    <3>1. PICK req \in Requests : BeginBatch(v, req) \/ BeginEmptyTrash(v, req) \/ BeginUndo(v, req)
      BY <2>3 DEF Begin
    <3>2. Starting(call'[v], req) /\ v = w
      BY <1>2, <3>1, BeginStarts DEF Alone, OneWorker
    <3>3. QED
      BY <1>6, <3>2 DEF Starting
  <2>4. ASSUME NEW v \in Workers, Work(v) \/ Disturbed(v)
        PROVE  \E c \in Copies : IdOf[c] = row.id /\ at'[c] \in Origin(row)
    <3>1. v = w
      BY DEF Alone, OneWorker
    <3>2. QED
      BY <1>6, <2>4, <3>1, BackToMark
  <2>5. QED
    BY <1>4, <2>1, <2>2, <2>3, <2>4 DEF Next, Reindex, vars
<1>7. QED
  BY <1>5, <1>6 DEF BackBeforeMark

UndoInv == LimitInv /\ JournalInOrder /\ BackBeforeMark

LEMMA UndoInvInit ==
    ASSUME Init
    PROVE  UndoInv
<1>1. LimitInv
  BY LimitInvInit
<1>2. JournalInOrder
  BY DEF Init, JournalInOrder, Ordered, Idle, Reversal
<1>3. BackBeforeMark
  BY DEF Init, BackBeforeMark, Idle
<1>4. QED
  BY <1>1, <1>2, <1>3 DEF UndoInv

LEMMA UndoInvStep ==
    ASSUME Alone, UndoInv, [Next]_vars
    PROVE  UndoInv'
BY LimitInvStep, InOrderStep, BackStep DEF UndoInv

\* While one worker runs tools, nobody else moves messages and no JXA call
\* times out, a row is marked undone only when its message is back at its
\* origin: also where the database is locked or the process restarted between
\* the move and the mark (core/undo.py).
THEOREM UndoneIsRestored ==
    ASSUME Alone, "timeout" \notin Faults
    PROVE  Spec => UndoneMeansRestored
<1>1. ASSUME UndoInv, [Next]_vars, NEW r \in journal, ~r.undone,
             [r EXCEPT !.undone = TRUE] \in journal'
      PROVE  \E c \in Copies : IdOf[c] = r.id /\ at[c] \in Origin(r)
  <2> DEFINE u == [r EXCEPT !.undone = TRUE]
  <2>1. /\ journal \subseteq Row /\ TypeOK /\ Ordered(journal, clock, calls) /\ clock \in Nat
        /\ r \in Row /\ r.ts \in Nat /\ r.ts <= clock
    BY <1>1 DEF UndoInv, LimitInv, MovesInv, JournalInOrder, TypeOK, Row, Ordered
  <2>2. u.ts = r.ts /\ u.undone /\ u # r
    BY <1>1, <2>1 DEF Row
  <2>3. u \notin journal
    BY <2>1, <2>2 DEF Ordered
  <2>4. ASSUME NEW row, Inserting(row)
        PROVE  FALSE
    <3>1. u \in journal \cup {row} /\ row.ts = clock + 1
      BY <1>1, <2>4 DEF Inserting
    <3>2. u.ts # row.ts
      BY <2>1, <2>2, <3>1
    <3>3. QED
      BY <2>3, <3>1, <3>2
  <2>5. PICK w \in Workers : UndoMark(w)
    <3>1. ~UNCHANGED <<journal, clock, written>>
      BY <1>1, <2>3
    <3>2. \A v \in Workers : ~DropStale(v)
      BY <1>1, <2>3 DEF DropStale
    <3>3. QED
      BY <1>1, <2>4, <3>1, <3>2, JournalChange
  <2>6. PICK row \in FirstRows(call[w].rows) :
          /\ call[w].pc = "mark" /\ row \in journal /\ ~row.undone
          /\ journal' = Marked(journal, row.ts)
    BY <1>1, <2>5, MarkChanges DEF UndoInv
  <2>7. r = row
    <3>0. \A m \in Marked(journal, row.ts) : \E q \in journal :
             m.ts = q.ts /\ (IF q = row THEN m.undone ELSE m = q)
      <4>1. journal \subseteq Row /\ Ordered(journal, clock, calls) /\ row \in journal /\ ~row.undone
        BY <2>1, <2>6
      <4>2. QED
        BY ONLY <4>1, MarkedRows
    <3>1. PICK q \in journal : u.ts = q.ts /\ (IF q = row THEN u.undone ELSE u = q)
      BY <1>1, <2>6, <3>0
    <3>2. q = r
      BY <2>1, <2>2, <3>1 DEF Ordered
    <3>3. QED
      BY <2>2, <3>1, <3>2
  <2>8. QED
    BY <1>1, <2>6, <2>7 DEF UndoInv, BackBeforeMark, Calm
<1>2. UndoInv /\ [Next]_vars =>
        [\A r \in journal :
            (~r.undone /\ [r EXCEPT !.undone = TRUE] \in journal')
               => \E c \in Copies : IdOf[c] = r.id /\ at[c] \in Origin(r)]_vars
  BY <1>1
<1>3. Init => UndoInv
  BY UndoInvInit
<1>4. UndoInv /\ [Next]_vars => UndoInv'
  BY UndoInvStep
<1>5. QED
  BY <1>2, <1>3, <1>4, PTL DEF Spec, UndoneMeansRestored

-----------------------------------------------------------------------------
(***************************************************************************)
(* An undisturbed undo.  Every request can be undone and no two copies     *)
(* share a Message-ID: without the first a message is deleted for good,    *)
(* without the second an undo finds it twice and gives up.                 *)
(***************************************************************************)
OnlyReversible == \A req \in Requests : req.op \in {"move", "move_to_trash", "undo_last"}

SingleCopies == \A c, d \in Copies : IdOf[c] = IdOf[d] => c = d

NoEmptying == \A w \in Workers : call[w].pc # "empty"

InMail(id) == \E c \in Copies : IdOf[c] = id /\ at[c] \in Boxes

\* The message the call has found for its row is there.
FoundFor(w, row) ==
    \E c \in Copies : IdOf[c] = row.id /\ at[c] = call[w].here /\ at[c] \in Boxes

\* A message that has been moved stays where it can be found.
Findable ==
    faults = 0 =>
      /\ \A r \in journal : Home(r) \in Boxes /\ InMail(r.id)
      /\ \A w \in Workers : call[w].pc = "journal" => InMail(Head(call[w].resolved).id)
      /\ \A w \in Workers : call[w].pc \in {"undo_remember", "unmove"} =>
           \A row \in FirstRows(call[w].rows) : FoundFor(w, row)

\* While nothing fails only the calls do anything that matters.
LEMMA QuietStep ==
    ASSUME Alone, UndoInv, [Next]_vars, faults' = 0
    PROVE  /\ faults = 0
           /\ \/ UNCHANGED <<at, journal, clock, calls, call>>
              \/ \E w \in Workers : Begin(w) \/ Work(w)
<1>1. TypeOK
  BY DEF UndoInv, LimitInv, MovesInv
<1>2. faults = 0 /\ \A kind : ~Fault(kind)
  BY <1>1, FaultsCount
<1>3. late = {}
  BY <1>2 DEF UndoInv, BackBeforeMark, Calm
<1>4. \A c, box : ~UserMove(c, box) /\ ~LateEffect(c, box)
  BY <1>1, <1>3, NobodyElse
<1>5. ~Restart /\ \A w : ~Disturbed(w)
  BY <1>1, <1>2, FaultsCount
<1>6. QED
  BY <1>2, <1>4, <1>5 DEF Next, Reindex, vars, journalVars, boundVars

LEMMA NoEmptyingStep ==
    ASSUME Alone, OnlyReversible, TypeOK, CallsHold, NoEmptying, [Next]_vars
    PROVE  NoEmptying'
<1>1. call \in [Workers -> Call]
  BY DEF TypeOK
<1>2. ASSUME NEW w \in Workers, Begin(w)
      PROVE  call'[w].pc # "empty"
  <2>1. PICK req \in Requests : BeginBatch(w, req) \/ BeginUndo(w, req)
    BY <1>2 DEF Begin, BeginEmptyTrash, OnlyReversible
  <2>2. BeginBatch(w, req) => call'[w].pc \in {"done", "resolve"}
    BY <1>1 DEF BeginBatch, Become, Idle
  <2>3. QED
    BY <2>1, <2>2, UndoBegins
<1>3. ASSUME NEW w \in Workers, Work(w) \/ Disturbed(w)
      PROVE  call'[w].pc # "empty"
  BY <1>3, StepShape DEF Shaped, Shape, Looking, Resolving, Admitting, Taking, Moving, Noting,
     Ending, Reversing, Seeking, Journaling, Reversal
<1>4. Restart => NoEmptying'
  BY DEF Restart, Idle, NoEmptying
<1>5. call' = call => NoEmptying'
  BY DEF NoEmptying
<1>6. QED
  BY <1>2, <1>3, <1>4, <1>5 DEF Next, UserMove, LateEffect, Reindex, vars, Alone, OneWorker, NoEmptying

\* Mail moves a message for a batch ...
TakesOut(w) ==
    /\ call[w].pc = "apply" /\ call[w].resolved # <<>>
    /\ call'[w].pc = "journal" /\ call'[w].resolved = call[w].resolved
    /\ \E m \in Copies, box \in Boxes :
         /\ IdOf[m] = Head(call[w].resolved).id /\ at[m] = Head(call[w].resolved).box
         /\ at' = [at EXCEPT ![m] = box]

\* ... or back for an undo.
PutsBack(w) ==
    /\ call[w].pc = "unmove" /\ call'[w].pc = "mark" /\ call'[w].rows = call[w].rows
    /\ \E row \in FirstRows(call[w].rows), m \in Copies, box \in Boxes :
         IdOf[m] = row.id /\ at' = [at EXCEPT ![m] = box]

LEMMA MailStep ==
    ASSUME OnlyReversible, UndoInv, NoEmptying, NEW w \in Workers, Work(w)
    PROVE  \/ at' = at /\ call'[w].pc # "journal"
           \/ TakesOut(w) \/ PutsBack(w)
<1>1. TypeOK /\ CallsHold /\ CallsInBudget
  BY DEF UndoInv, LimitInv, MovesInv
<1>2. call \in [Workers -> Call] /\ call[w] \in Call
  BY <1>1 DEF TypeOK
<1>3. \A x : Become(w, x) => call'[w] = x
  BY <1>2 DEF Become
<1>4. CASE ApplyOne(w)
  <2> DEFINE r == Head(call[w].resolved)
  <2>1. call[w].pc = "apply" /\ call[w].resolved # <<>>
    BY <1>4 DEF ApplyOne
  <2>2. Reversible(call[w].req)
    BY <1>1, <2>1 DEF CallsHold, Holds, CallsInBudget, Budget, BatchOps,
       OnlyReversible, Reversible
  <2>3. Destination(call[w].req, r) \subseteq Boxes
    BY <2>2 DEF Destination, Reversible, findMailboxDeep, findMailbox, TopLevel
  <2>4. \/ \E m \in getMessageHandle(at, r.id, r.box), box \in Destination(call[w].req, r) :
             /\ at' = [at EXCEPT ![m] = box]
             /\ Become(w, [call[w] EXCEPT !.pc = "journal"])
        \/ /\ Become(w, [call[w] EXCEPT !.resolved = Tail(@), !.failed = @ \cup {r.id}])
           /\ at' = at
    BY <1>4, <2>2 DEF ApplyOne
  <2>5. Become(w, [call[w] EXCEPT !.resolved = Tail(@), !.failed = @ \cup {r.id}])
        => call'[w].pc = "apply"
    BY <1>2, <1>3, <2>1 DEF Call
  <2>6. Become(w, [call[w] EXCEPT !.pc = "journal"])
        => call'[w].pc = "journal" /\ call'[w].resolved = call[w].resolved
    BY <1>2, <1>3 DEF Call
  <2>7. QED
    BY <2>1, <2>3, <2>4, <2>5, <2>6 DEF TakesOut, getMessageHandle
<1>5. ASSUME ~ApplyOne(w)
      PROVE  call'[w].pc # "journal"
  <2>1. Shape(call[w], call'[w])
    BY <1>1, StepShape DEF Shaped
  <2>2. call'[w].pc = "journal" => call[w].pc = "apply" /\ call[w].resolved # <<>>
    BY <2>1 DEF Shape, Looking, Resolving, Admitting, Taking, Moving, Noting, Ending, Reversing,
       Seeking, Journaling, Reversal
  <2>3. call[w].pc = "apply" /\ call[w].resolved # <<>> => FALSE
    BY <1>5 DEF Work, LookUp, Search, Remember, Guard, JournalInsert, RankBatches, DropStale, Finish,
       EmptyTrash, UndoLookUp, UndoSearch, UndoRemember, UndoMove, UndoMark, UndoFinish
  <2>4. QED
    BY <2>2, <2>3
<1>6. CASE UndoMove(w)
  <2>1. PICK row \in FirstRows(call[w].rows) :
          /\ call[w].pc = "unmove"
          /\ \/ \E m \in getMessageHandle(at, row.id, call[w].here), box \in Origin(row) :
                  /\ at' = [at EXCEPT ![m] = box]
                  /\ Become(w, [call[w] EXCEPT !.pc = "mark"])
             \/ at' = at
    BY <1>6 DEF UndoMove
  <2>2. ~ApplyOne(w)
    BY <2>1 DEF ApplyOne
  <2>3. Origin(row) \subseteq Boxes
    BY DEF Origin, findMailboxDeep
  <2>4. ASSUME NEW m \in getMessageHandle(at, row.id, call[w].here), NEW box \in Origin(row),
               at' = [at EXCEPT ![m] = box], Become(w, [call[w] EXCEPT !.pc = "mark"])
        PROVE  PutsBack(w)
    <3>1. call'[w].pc = "mark" /\ call'[w].rows = call[w].rows
      BY <1>1, <2>4, UndoFields DEF SameRows
    <3>2. m \in Copies /\ IdOf[m] = row.id /\ box \in Boxes
      BY <2>3 DEF getMessageHandle
    <3>3. QED
      BY <2>1, <2>4, <3>1, <3>2 DEF PutsBack
  <2>5. QED
    BY <1>5, <2>1, <2>2, <2>4
<1>7. CASE ~ApplyOne(w) /\ ~UndoMove(w)
  <2>1. at' = at
    BY <1>7 DEF Work, LookUp, Search, Remember, Guard, JournalInsert, RankBatches, DropStale, Finish,
       EmptyTrash, UndoLookUp, UndoSearch, UndoRemember, UndoMark, UndoFinish, mailVars, NoEmptying
  <2>2. QED
    BY <1>5, <1>7, <2>1
<1>8. QED
  BY <1>4, <1>6, <1>7

\* What is in Mail stays there: nothing is deleted.
LEMMA StaysInMail ==
    ASSUME UndoInv, NEW w \in Workers, at' = at \/ TakesOut(w) \/ PutsBack(w)
    PROVE  \A id : InMail(id) => InMail(id)'
<1>1. at \in [Copies -> Boxes \cup {Gone}]
  BY DEF UndoInv, LimitInv, MovesInv, TypeOK
<1>2. ASSUME NEW m \in Copies, NEW box \in Boxes, at' = [at EXCEPT ![m] = box], NEW id, InMail(id)
      PROVE  InMail(id)'
  <2>1. PICK c \in Copies : IdOf[c] = id /\ at[c] \in Boxes
    BY <1>2 DEF InMail
  <2>2. at'[c] \in Boxes
    BY <1>1, <1>2, <2>1
  <2>3. QED
    BY <2>1, <2>2 DEF InMail
<1>3. at' = at => \A id : InMail(id) => InMail(id)'
  BY DEF InMail
<1>4. QED
  BY <1>2, <1>3 DEF TakesOut, PutsBack

\* A non-empty set of numbers has a least one.
LEMMA Lowest ==
    ASSUME NEW S, S \subseteq Nat, S # {}
    PROVE  \E x \in S : \A y \in S : x <= y
<1>1. \E x \in S : \A y \in S : ~(<<y, x>> \in OpToRel(<, Nat))
  BY NatLessThanWellFounded, WFMin, Zenon
<1>2. ASSUME NEW x \in S, NEW y \in S, ~(<<y, x>> \in OpToRel(<, Nat))
      PROVE  x <= y
  <2>1. ~(y < x)
    BY <1>2, Zenon DEF OpToRel
  <2>2. QED
    BY <2>1
<1>3. QED
  BY <1>1, <1>2

\* An attempt at a message finds it or nothing, the broad scan finds it.
LEMMA AttemptFinds ==
    ASSUME SingleCopies, Nested = {}, NEW c \in Copies, at[c] \in Boxes, NEW tries,
           NEW t \in NextAttempts(tries)
    PROVE  LET hits == resolveMessage(at, IdOf[c], t.account, t.mailbox)
           IN  hits \subseteq {c} /\ (tries = {} => hits = {c})
<1> DEFINE R(a, m) == resolveMessage(at, IdOf[c], a, m)
<1>1. \A a, m : R(a, m) \subseteq {c}
  BY DEF resolveMessage, SingleCopies
<1>2. c \in R(None, None)
  <2>1. Boxes \subseteq Accounts \X Names /\ None \notin Accounts /\ None \notin Names
    BY LookupAssumption
  <2>2. findAccount(None) = {} /\ \A a : findMailbox(a, None) = {}
    BY <2>1 DEF findAccount, findMailbox, TopLevel
  <2>3. at[c] \in TopLevel /\ AccountOf(at[c]) \in Accounts
    BY <2>1 DEF TopLevel, AccountOf
  <2>4. at[c] \in SearchScope(None, None)
    BY <2>2, <2>3 DEF SearchScope
  <2>5. QED
    BY <2>4 DEF resolveMessage
<1>3. tries = {} => t.account = None /\ t.mailbox = None
  BY DEF NextAttempts, Everywhere
<1> HIDE DEF R
<1>4. R(t.account, t.mailbox) \subseteq {c} /\ (tries = {} => R(t.account, t.mailbox) = {c})
  BY <1>1, <1>2, <1>3
<1>5. QED
  BY <1>4 DEF R

\* So no step of an undo fails a row.
LEMMA UndoSucceeds ==
    ASSUME SingleCopies, Nested = {}, UndoInv, Findable, faults = 0,
           NEW w \in Workers, NEW row \in FirstRows(call[w].rows), call[w].pc \in Reversal
    PROVE  /\ UndoSearch(w) =>
                /\ SameRows(call[w], call'[w])
                /\ \/ call'[w].pc = "undo_search"
                   \/ /\ call'[w].pc = "undo_remember"
                      /\ \E c \in Copies : IdOf[c] = row.id /\ at[c] = call'[w].here /\ at[c] \in Boxes
           /\ UndoMove(w) => call'[w].pc = "mark" /\ SameRows(call[w], call'[w])
<1>1. TypeOK /\ JournalInOrder
  BY DEF UndoInv, LimitInv, MovesInv
<1>2. row \in journal /\ \A r \in FirstRows(call[w].rows) : r = row
  <2>1. \A r \in FirstRows(call[w].rows) : r \in journal /\ r.ts \in Nat
    BY <1>1 DEF FirstRows, JournalInOrder, Pending, TypeOK, Row
  <2>2. ASSUME NEW r \in FirstRows(call[w].rows)
        PROVE  r = row
    <3>1. r.ts <= row.ts /\ row.ts <= r.ts
      BY DEF FirstRows
    <3>2. r.ts = row.ts
      BY <2>1, <3>1
    <3>3. QED
      BY <1>1, <2>1, <3>2 DEF JournalInOrder, Ordered
  <2>3. QED
    BY <2>1, <2>2
<1>3. ASSUME UndoSearch(w)
      PROVE  /\ SameRows(call[w], call'[w])
             /\ \/ call'[w].pc = "undo_search"
                \/ /\ call'[w].pc = "undo_remember"
                   /\ \E c \in Copies : IdOf[c] = row.id /\ at[c] = call'[w].here /\ at[c] \in Boxes
  <2>1. /\ call[w].pc = "undo_search"
        /\ SearchNext(w, row.id, "undo_remember", RowFailed(call[w], row))
    BY <1>2, <1>3 DEF UndoSearch
  <2>2. PICK c \in Copies : IdOf[c] = row.id /\ at[c] \in Boxes
    BY <1>2 DEF Findable, InMail
  <2>3. PICK t \in NextAttempts(call[w].tries) :
          LET hits == resolveMessage(at, row.id, t.account, t.mailbox)
          IN  \/ \E m \in hits :
                   Become(w, [call[w] EXCEPT !.pc = "undo_remember", !.tries = {}, !.here = at[m]])
              \/ Become(w, [call[w] EXCEPT !.tries = @ \ {t}])
              \/ (\A m \in hits : hits # {m}) /\ (hits = {} => call[w].tries = {})
    BY <2>1 DEF SearchNext
  <2> DEFINE hits == resolveMessage(at, row.id, t.account, t.mailbox)
  <2>4. hits \subseteq {c} /\ (call[w].tries = {} => hits = {c})
    BY <2>2, AttemptFinds
  <2>5. \/ Become(w, [call[w] EXCEPT !.pc = "undo_remember", !.tries = {}, !.here = at[c]])
        \/ Become(w, [call[w] EXCEPT !.tries = @ \ {t}])
    <3>1. \/ \E m \in hits :
               Become(w, [call[w] EXCEPT !.pc = "undo_remember", !.tries = {}, !.here = at[m]])
          \/ Become(w, [call[w] EXCEPT !.tries = @ \ {t}])
          \/ (\A m \in hits : hits # {m}) /\ (hits = {} => call[w].tries = {})
      BY <2>3
    <3> HIDE DEF hits
    <3>2. hits = {} \/ hits = {c}
      BY <2>4
    <3>3. QED
      BY <2>4, <3>1, <3>2
  <2>6. QED
    BY <1>1, <2>1, <2>2, <2>5, UndoFields
<1>4. ASSUME UndoMove(w)
      PROVE  call'[w].pc = "mark" /\ SameRows(call[w], call'[w])
  <2>1. /\ call[w].pc = "unmove"
        /\ \/ Become(w, [call[w] EXCEPT !.pc = "mark"])
           \/ getMessageHandle(at, row.id, call[w].here) = {} \/ Origin(row) = {}
    BY <1>2, <1>4 DEF UndoMove
  <2>2. PICK c \in Copies : IdOf[c] = row.id /\ at[c] = call[w].here /\ at[c] \in Boxes
    BY <2>1 DEF Findable, FoundFor
  <2>3. c \in getMessageHandle(at, row.id, call[w].here)
    BY <2>2 DEF getMessageHandle, TopLevel
  <2>4. Home(row) \in Origin(row)
    BY <1>2 DEF Findable, Origin, Home, findMailboxDeep
  <2>5. QED
    BY <1>1, <2>1, <2>3, <2>4, UndoFields
<1>5. QED
  BY <1>3, <1>4

LEMMA FindableStep ==
    ASSUME Alone, OnlyReversible, SingleCopies, Nested = {}, UndoInv, NoEmptying, Findable,
           [Next]_vars
    PROVE  Findable'
<1>1. SUFFICES ASSUME faults' = 0 PROVE  Findable'
  BY DEF Findable
<1>2. /\ faults = 0
      /\ \/ UNCHANGED <<at, journal, clock, calls, call>>
         \/ \E w \in Workers : Begin(w) \/ Work(w)
  BY <1>1, QuietStep
<1>3. TypeOK /\ CallsHold /\ JournalInOrder /\ \A v, w \in Workers : v = w
  BY DEF UndoInv, LimitInv, MovesInv, Alone, OneWorker
<1>4. CASE UNCHANGED <<at, journal, clock, calls, call>>
  BY <1>2, <1>4 DEF Findable, InMail, FoundFor
<1>5. ASSUME NEW w \in Workers, Begin(w)
      PROVE  Findable'
  <2>1. PICK req \in Requests : BeginBatch(w, req) \/ BeginEmptyTrash(w, req) \/ BeginUndo(w, req)
    BY <1>5 DEF Begin
  <2>2. call'[w].pc \notin {"journal", "undo_remember", "unmove"}
    BY <1>3, <2>1, BeginStarts DEF Starting
  <2>3. UNCHANGED <<at, journal>>
    BY <2>1 DEF BeginBatch, BeginEmptyTrash, BeginUndo, mailVars, journalVars
  <2>4. QED
    BY <1>2, <1>3, <2>2, <2>3 DEF Findable, InMail
<1>6. ASSUME NEW w \in Workers, Work(w)
      PROVE  Findable'
  <2>1. \/ at' = at /\ call'[w].pc # "journal"
        \/ TakesOut(w) \/ PutsBack(w)
    BY <1>6, MailStep
  <2>2. \A id : InMail(id) => InMail(id)'
    BY <2>1, StaysInMail
  <2>3. ASSUME NEW r \in journal'
        PROVE  Home(r) \in Boxes /\ InMail(r.id)'
    <3>1. CASE UNCHANGED <<journal, clock, written>>
      BY <1>2, <2>2, <3>1 DEF Findable
    <3>2. ASSUME NEW v \in Workers, NEW row, Writing(v, row), Inserting(row)
          PROVE  Home(r) \in Boxes /\ InMail(r.id)'
      <4>1. r \in journal \/ r = row
        BY <3>2 DEF Inserting
      <4>2. Home(row) \in Boxes /\ InMail(row.id)
        BY <1>2, <1>3, <3>2, RowWritten DEF Findable, Writing
      <4>3. QED
        BY <1>2, <2>2, <4>1, <4>2 DEF Findable
    <3>3. ASSUME NEW v \in Workers, UndoMark(v)
          PROVE  Home(r) \in Boxes /\ InMail(r.id)'
      <4>1. PICK row \in journal : ~row.undone /\ journal' = Marked(journal, row.ts)
        BY <3>3, MarkChanges DEF UndoInv
      <4>2. journal \subseteq Row /\ Ordered(journal, clock, calls)
        BY <1>3 DEF TypeOK, JournalInOrder
      <4>3. \A q \in Marked(journal, row.ts) : \E p \in journal : q.id = p.id /\ Home(q) = Home(p)
        BY ONLY <4>1, <4>2, MarkedRows
      <4>4. QED
        BY <1>2, <2>2, <4>1, <4>3 DEF Findable
    <3>4. ASSUME NEW v \in Workers, DropStale(v)
          PROVE  Home(r) \in Boxes /\ InMail(r.id)'
      <4>1. r \in journal
        BY <3>4 DEF DropStale
      <4>2. QED
        BY <1>2, <2>2, <4>1 DEF Findable
    <3>5. QED
      BY <3>1, <3>2, <3>3, <3>4, JournalChange
  <2>4. call'[w].pc = "journal" => InMail(Head(call[w].resolved).id)'
    <3>1. ASSUME TakesOut(w)
          PROVE  InMail(Head(call[w].resolved).id)'
      <4>1. PICK m \in Copies, box \in Boxes :
              IdOf[m] = Head(call'[w].resolved).id /\ at' = [at EXCEPT ![m] = box]
        BY <3>1 DEF TakesOut
      <4>2. at'[m] = box
        BY <1>3, <4>1 DEF TypeOK
      <4>3. m \in Copies /\ IdOf[m] = Head(call'[w].resolved).id /\ at'[m] \in Boxes
        BY <4>1, <4>2
      <4>4. QED
        BY <4>3 DEF InMail
    <3>2. QED
      BY <2>1, <3>1 DEF PutsBack
  <2>5. ASSUME call'[w].pc \in {"undo_remember", "unmove"}, NEW row \in FirstRows(call'[w].rows)
        PROVE  FoundFor(w, row)'
    <3>1. /\ call[w].pc \in Reversal /\ call'[w].rows = call[w].rows
          /\ UndoLookUp(w) \/ UndoSearch(w) \/ UndoRemember(w)
      BY <1>3, <1>6, <2>5, ReversalForms DEF UndoForms, SameRows, RowDone, Reversal
    <3>2. row \in FirstRows(call[w].rows)
      BY <2>5, <3>1
    <3>3. at' = at
      BY <3>1 DEF UndoLookUp, UndoSearch, UndoRemember, mailVars
    <3>4. CASE UndoLookUp(w)
      <4>1. PICK x : Become(w, [call[w] EXCEPT !.pc = "undo_search", !.tries = x])
        BY <3>4 DEF UndoLookUp
      <4>2. call'[w] = [call[w] EXCEPT !.pc = "undo_search", !.tries = x]
        BY <1>3, <4>1 DEF TypeOK, Become
      <4>3. call[w] \in Call
        BY <1>3 DEF TypeOK
      <4>4. call'[w].pc = "undo_search"
        BY <4>2, <4>3 DEF Call
      <4>5. QED
        BY <2>5, <4>4
    <3>5. CASE UndoSearch(w)
      <4>1. \E c \in Copies : IdOf[c] = row.id /\ at[c] = call'[w].here /\ at[c] \in Boxes
        BY <1>2, <2>5, <3>1, <3>2, <3>5, UndoSucceeds
      <4>2. QED
        BY <3>3, <4>1 DEF FoundFor
    <3>6. CASE UndoRemember(w)
      <4>1. call[w].pc = "undo_remember" /\ Become(w, [call[w] EXCEPT !.pc = "unmove"])
        BY <3>6 DEF UndoRemember
      <4>2. call'[w].here = call[w].here
        BY <1>3, <4>1, UndoFields
      <4>3. FoundFor(w, row)
        BY <1>2, <3>2, <4>1 DEF Findable
      <4>4. QED
        BY <3>3, <4>2, <4>3 DEF FoundFor
    <3>7. QED
      BY <3>1, <3>4, <3>5, <3>6
  <2>6. \A v \in Workers : v = w
    BY <1>3
  <2>7. /\ \A r \in journal' : Home(r) \in Boxes /\ InMail(r.id)'
        /\ \A v \in Workers : call'[v].pc = "journal" => InMail(Head(call[v].resolved).id)'
        /\ \A v \in Workers : call'[v].pc \in {"undo_remember", "unmove"} =>
             \A row \in FirstRows(call'[v].rows) : FoundFor(v, row)'
    <3>1. /\ call'[w].pc = "journal" => InMail(Head(call[w].resolved).id)'
          /\ call'[w].pc \in {"undo_remember", "unmove"} =>
               \A row \in FirstRows(call'[w].rows) : FoundFor(w, row)'
      BY <2>4, <2>5
    <3>2. QED
      BY <2>3, <2>6, <3>1
  <2>8. QED
    BY <2>7 DEF Findable
<1>7. QED
  BY <1>2, <1>4, <1>5, <1>6

\* Nothing an undisturbed step does makes an undo report a failure.
LEMMA SuccessStep ==
    ASSUME Alone, SingleCopies, Nested = {}, UndoInv, Findable,
           UndisturbedUndoSucceeds, [Next]_vars
    PROVE  UndisturbedUndoSucceeds'
<1>1. SUFFICES ASSUME faults' = 0, NEW w \in Workers, call'[w].req # None,
                      call'[w].req.op = "undo_last"
               PROVE  call'[w].failed = {}
  BY DEF UndisturbedUndoSucceeds
<1>2. /\ faults = 0
      /\ \/ UNCHANGED <<at, journal, clock, calls, call>>
         \/ \E v \in Workers : Begin(v) \/ Work(v)
  BY <1>1, QuietStep
<1>3. TypeOK /\ CallsHold /\ CallsInBudget /\ \A v \in Workers : v = w
  BY DEF UndoInv, LimitInv, MovesInv, Alone, OneWorker
<1>4. Begin(w) => call'[w].failed = {}
  BY <1>3, BeginStarts DEF Begin, Starting
<1>5. ASSUME Work(w)
      PROVE  call'[w].failed = {}
  <2>1. call[w].req = call'[w].req
    BY <1>3, <1>5, StepNumber
  <2>2. call[w].failed = {}
    BY <1>1, <1>2, <2>1 DEF UndisturbedUndoSucceeds
  <2>3. ~Resolving(call[w], call'[w]) /\ ~Taking(call[w], call'[w])
    BY <1>1, <1>3, <2>1 DEF Resolving, Taking, CallsInBudget, Budget, BatchOps, Seeking, Journaling
  <2>4. CASE Reversing(call[w], call'[w])
    <3>1. call[w].pc \in Reversal /\ UndoForms(w, call[w], call'[w])
      BY <1>3, <1>5, <2>4, ReversalForms DEF Reversing
    <3>2. ~UndoResolveFault(w) /\ ~UndoMoveTimeout(w)
      <4>1. ~Disturbed(w)
        BY <1>1, <1>2, <1>3, FaultsCount
      <4>2. QED
        BY <4>1 DEF Disturbed
    <3>3. ASSUME NEW row \in FirstRows(call[w].rows), UndoSearch(w) \/ UndoMove(w)
          PROVE  SameRows(call[w], call'[w]) /\ call'[w].pc # "undo"
      BY <1>2, <3>1, <3>3, UndoSucceeds
    <3>4. call'[w].failed = call[w].failed
      BY <3>1, <3>2, <3>3 DEF UndoForms, SameRows, RowDone
    <3>5. QED
      BY <2>2, <3>4
  <2>5. QED
    BY <1>3, <1>5, <2>2, <2>3, <2>4, StepShape
       DEF Shaped, Shape, Looking, Admitting, Moving, Noting, Ending, SameLists
<1>6. QED
  BY <1>1, <1>2, <1>3, <1>4, <1>5 DEF UndisturbedUndoSucceeds

FindInv == UndoInv /\ NoEmptying /\ Findable /\ UndisturbedUndoSucceeds

\* An undo that nothing disturbs finds every message and takes it back
\* (core/undo.py, core/resolver.py): for one worker whose requests can all be
\* undone, messages with Message-IDs of their own, and mailboxes that are not
\* nested, whatever was moved, resolved and indexed before.
THEOREM UndoFindsItsMessages ==
    ASSUME Alone, OnlyReversible, SingleCopies, Nested = {}
    PROVE  Spec => []UndisturbedUndoSucceeds
<1>1. Init => FindInv
  <2>1. ASSUME Init
        PROVE  FindInv
    <3>1. UndoInv
      BY <2>1, UndoInvInit
    <3>2. NoEmptying /\ Findable /\ UndisturbedUndoSucceeds
      BY <2>1 DEF Init, NoEmptying, Findable, UndisturbedUndoSucceeds, Idle
    <3>3. QED
      BY <3>1, <3>2 DEF FindInv
  <2>2. QED
    BY <2>1
<1>2. FindInv /\ [Next]_vars => FindInv'
  <2>1. ASSUME FindInv, [Next]_vars
        PROVE  FindInv'
    <3>1. UndoInv /\ NoEmptying /\ Findable /\ UndisturbedUndoSucceeds /\ TypeOK /\ CallsHold
      BY <2>1 DEF FindInv, UndoInv, LimitInv, MovesInv
    <3>2. UndoInv' /\ NoEmptying' /\ Findable' /\ UndisturbedUndoSucceeds'
      BY <2>1, <3>1, UndoInvStep, NoEmptyingStep, FindableStep, SuccessStep
    <3>3. QED
      BY <3>2 DEF FindInv
  <2>2. QED
    BY <2>1
<1>3. FindInv => UndisturbedUndoSucceeds
  BY DEF FindInv
<1>4. QED
  BY <1>1, <1>2, <1>3, PTL DEF Spec

-----------------------------------------------------------------------------
(***************************************************************************)
(* Taking everything back.  Undone newest-first, and with no row pruned,   *)
(* the rows still to undo of a message lead it home one after the other.   *)
(* A batch undone out of turn would send the message past where it was.    *)
(***************************************************************************)
\* No row has been pruned.
Retained == \A q \in written : \E r \in journal : r.ts = q.ts

NewestOnly == \A req \in Requests : req.op = "undo_last" => req.batch = 0

RowsOf(c) == {r \in Pending : r.id = IdOf[c]}

\* A move of the copy that is not yet in the journal.
InHand(w, c) == call[w].pc = "journal" /\ Head(call[w].resolved).id = IdOf[c]

\* The oldest row of a copy that is still to undo leads back to where the copy
\* was at first; without one the copy is there.
LeadsHome ==
    \A c \in Copies :
      /\ \A r \in RowsOf(c) : (\A q \in RowsOf(c) : r.ts <= q.ts) => Home(r) = InitAt[c]
      /\ RowsOf(c) = {} =>
           \/ at[c] = InitAt[c] /\ \A w \in Workers : ~InHand(w, c)
           \/ \E w \in Workers : InHand(w, c) /\ Head(call[w].resolved).box = InitAt[c]

\* A call takes a message it was asked for several times from one place.
OnePlace(c) ==
    /\ c.pc \in Seeking =>
         /\ \A q \in journal : q.batch < calls
         /\ \A x \in Range(c.resolved) :
              \E m \in Copies : IdOf[m] = x.id /\ at[m] = x.box
    /\ c.pc = "remember" => \E m \in Copies : IdOf[m] = Head(c.todo) /\ at[m] = c.here
    /\ c.pc \in {"apply"} \cup Journaling =>
         /\ \A x, y \in Range(c.resolved) : x.id = y.id => x.box = y.box
         /\ \A x \in Range(c.resolved), q \in journal :
              q.batch = calls /\ q.id = x.id => Home(q) = x.box

OneOrigin == \A r, q \in journal : r.batch = q.batch /\ r.id = q.id => Home(r) = Home(q)

\* An undo takes back the last batch there is to take back.
NewestFirst(c) ==
    c.pc \in Reversal => \A row \in c.rows, q \in Pending : q.batch <= row.batch

TakenInOrder ==
    faults = 0 /\ Retained =>
      /\ LeadsHome /\ OneOrigin
      /\ \A w \in Workers : OnePlace(call[w]) /\ NewestFirst(call[w])

\* The batch an undo begins with is the last.
LEMMA NewestBatch ==
    ASSUME TypeOK, Ordered(journal, clock, calls), Pending # {}, NEW req, req.batch = 0
    PROVE  \A q \in Pending : q.batch <= TargetBatch(req)
<1> DEFINE newest == CHOOSE r \in Pending : \A q \in Pending : q.ts <= r.ts
           ages == {clock - r.ts : r \in Pending}
<1>1. \A r \in Pending : r \in journal /\ r.ts \in Nat /\ r.ts <= clock
  BY DEF TypeOK, Pending, Row, Ordered
<1>2. clock \in Nat
  BY DEF TypeOK
<1>3. ages \subseteq Nat /\ ages # {}
  BY <1>1, <1>2
<1>4. PICK n \in ages : \A k \in ages : n <= k
  BY <1>3, Lowest
<1>5. PICK r \in Pending : n = clock - r.ts
  BY <1>4
<1>6. \A q \in Pending : clock - r.ts <= clock - q.ts
  BY <1>4, <1>5
<1>7. \A q \in Pending : q.ts <= r.ts
  BY <1>1, <1>2, <1>5, <1>6
<1>8. newest \in Pending /\ \A q \in Pending : q.ts <= newest.ts
  BY <1>7
<1>9. TargetBatch(req) = newest.batch
  BY DEF TargetBatch
<1> HIDE DEF newest
<1>10. QED
  BY <1>1, <1>8, <1>9 DEF Ordered

\* What is retained has been.
LEMMA RetainedBefore ==
    ASSUME UndoInv, JournalRemembers, [Next]_vars, Retained'
    PROVE  Retained
<1>1. /\ journal \subseteq Row /\ Ordered(journal, clock, calls) /\ clock \in Nat
      /\ written \subseteq Row /\ \A q \in written : q.ts <= clock
  BY DEF UndoInv, LimitInv, MovesInv, JournalInOrder, TypeOK, JournalRemembers
<1>2. CASE UNCHANGED <<journal, clock, written>>
  BY <1>2 DEF Retained
<1>3. ASSUME NEW row, Inserting(row)
      PROVE  Retained
  <2>1. ASSUME NEW q \in written
        PROVE  \E r \in journal : r.ts = q.ts
    <3>1. PICK r \in journal' : r.ts = q.ts
      BY <1>3 DEF Inserting, Retained
    <3>2. r \in journal \/ r = row
      BY <1>3 DEF Inserting
    <3>3. q.ts \in Nat /\ q.ts <= clock /\ row.ts = clock + 1
      BY <1>1, <1>3 DEF Row, Inserting
    <3>4. r # row
      BY <1>1, <3>1, <3>3
    <3>5. QED
      BY <3>1, <3>2, <3>4
  <2>2. QED
    BY <2>1 DEF Retained
<1>4. ASSUME NEW w \in Workers, UndoMark(w)
      PROVE  Retained
  <2>1. PICK row \in journal : ~row.undone /\ journal' = Marked(journal, row.ts)
    BY <1>4, MarkChanges DEF UndoInv
  <2>2. \A r \in Marked(journal, row.ts) : \E q \in journal : r.ts = q.ts
    BY ONLY <1>1, <2>1, MarkedRows
  <2>3. written' = written
    BY <1>4 DEF UndoMark, historyVars
  <2>4. QED
    BY <2>1, <2>2, <2>3 DEF Retained
<1>5. ASSUME NEW w \in Workers, DropStale(w)
      PROVE  Retained
  BY <1>5 DEF DropStale, Retained, historyVars
<1>6. QED
  BY <1>2, <1>3, <1>4, <1>5, JournalChange

\* A row that is written is one more row to undo.
LEMMA RowAdded ==
    ASSUME Alone, UndoInv, NEW w \in Workers, NEW row, Writing(w, row), Inserting(row)
    PROVE  LET r == Head(call[w].resolved)
           IN  /\ journal' = journal \cup {row} /\ Pending' = Pending \cup {row}
               /\ row.ts \in Nat /\ \A q \in journal : q.ts \in Nat /\ q.ts < row.ts
               /\ row.batch = calls /\ row.id = r.id /\ Home(row) = r.box
               /\ r \in Range(call[w].resolved)
<1>1. TypeOK /\ CallsHold /\ Numbered /\ Ordered(journal, clock, calls) /\ journal \subseteq Row
      /\ clock \in Nat /\ calls \in Nat
  BY DEF UndoInv, LimitInv, MovesInv, JournalInOrder, TypeOK
<1>2. call[w].pc = "journal" /\ call[w].resolved \in Seq(Picked) /\ call[w].resolved # <<>>
  BY <1>1 DEF Writing, CallsHold, Holds, Journaling, TypeOK, Call
<1>3. call[w].no = calls /\ 0 < calls
  <2>1. call[w].no = calls
    BY <1>2 DEF UndoInv, JournalInOrder
  <2>2. call[w].no # 0
    BY <1>1, <1>2 DEF Numbered
  <2>3. QED
    BY <1>1, <2>1, <2>2
<1>4. /\ row.batch = calls /\ row.id = Head(call[w].resolved).id
      /\ Home(row) = Head(call[w].resolved).box /\ ~row.undone
  BY <1>1, <1>3, RowWritten
<1>5. row.ts = clock + 1 /\ journal' = journal \cup {row}
  BY DEF Inserting
<1>6. row.ts \in Nat /\ \A q \in journal : q.ts \in Nat /\ q.ts < row.ts
  BY <1>1, <1>5 DEF Ordered, Row
<1>7. Pending' = Pending \cup {row}
  BY <1>4, <1>5 DEF Pending
<1>8. Head(call[w].resolved) \in Range(call[w].resolved)
  BY <1>2 DEF Range
<1>9. QED
  BY <1>4, <1>5, <1>6, <1>7, <1>8

\* What has begun resolves, an undo with the last batch.
LEMMA BeginTakes ==
    ASSUME Alone, NewestOnly, UndoInv, TakenInOrder, faults = 0, Retained, NEW w \in Workers, Begin(w)
    PROVE  LeadsHome' /\ OneOrigin' /\ OnePlace(call[w])' /\ NewestFirst(call[w])'
<1>1. /\ TypeOK /\ Ordered(journal, clock, calls) /\ journal \subseteq Row /\ calls \in Nat
      /\ \A v \in Workers : v = w
  BY DEF UndoInv, LimitInv, MovesInv, JournalInOrder, TypeOK, Alone, OneWorker
<1>2. PICK req \in Requests : BeginBatch(w, req) \/ BeginEmptyTrash(w, req) \/ BeginUndo(w, req)
  BY DEF Begin
<1>3. UNCHANGED <<at, journal, clock>> /\ calls' = calls + 1 /\ Resting(w)
  BY <1>2 DEF BeginBatch, BeginEmptyTrash, BeginUndo, mailVars, journalVars
<1>4. Starting(call'[w], req)
  BY <1>1, <1>2, BeginStarts
<1>5. call[w].pc # "journal" /\ call'[w].pc \notin {"remember", "apply"} \cup Journaling
  BY <1>3, <1>4 DEF Resting, Starting, Journaling
<1>6. Pending' = Pending
  BY <1>3 DEF Pending
<1>7. LeadsHome'
  <2>1. \A c : RowsOf(c)' = RowsOf(c)
    BY <1>6 DEF RowsOf
  <2>2. \A v \in Workers : \A c : ~InHand(v, c) /\ ~InHand(v, c)'
    BY <1>1, <1>5 DEF InHand, Journaling
  <2>3. LeadsHome
    BY DEF TakenInOrder
  <2>4. QED
    BY <1>3, <2>1, <2>2, <2>3 DEF LeadsHome
<1>8. OneOrigin'
  BY <1>3 DEF TakenInOrder, OneOrigin
<1>9. OnePlace(call[w])'
  <2>1. \A q \in journal : q.batch < calls + 1
    BY <1>1 DEF Ordered, Row
  <2>2. Range(call'[w].resolved) = {}
    BY <1>4, EmptyLists DEF Starting
  <2>3. QED
    BY <1>3, <1>5, <2>1, <2>2 DEF OnePlace
<1>10. NewestFirst(call[w])'
  <2>1. ASSUME call'[w].pc \in Reversal
        PROVE  \A row \in call'[w].rows, q \in Pending : q.batch <= row.batch
    <3>1. BeginUndo(w, req)
      <4>1. BeginBatch(w, req) => call'[w].pc \in {"done", "resolve"}
        BY <1>1 DEF BeginBatch, Become, Idle, TypeOK
      <4>2. BeginEmptyTrash(w, req) => call'[w].pc \in {"done", "empty"}
        BY <1>1 DEF BeginEmptyTrash, Become, Idle, TypeOK
      <4>3. QED
        BY <1>2, <2>1, <4>1, <4>2 DEF Reversal
    <3>2. Pending # {} /\ \A row \in call'[w].rows : row.batch = TargetBatch(req)
      BY <1>1, <2>1, <3>1, UndoBegins DEF Reversal
    <3>3. req.batch = 0
      BY <3>1 DEF BeginUndo, NewestOnly
    <3>4. \A q \in Pending : q.batch <= TargetBatch(req)
      BY <1>1, <3>2, <3>3, NewestBatch
    <3>5. QED
      BY <3>2, <3>4
  <2>2. QED
    BY <1>6, <2>1 DEF NewestFirst
<1>11. QED
  BY <1>7, <1>8, <1>9, <1>10

\* What a step does to the journal while nothing fails, and where the call is.
JournalSteps(w) ==
    \/ UNCHANGED <<journal, clock>> /\ call[w].pc # "journal"
    \/ call[w].pc = "journal" /\ \E row : Writing(w, row) /\ Inserting(row)
    \/ call[w].pc = "mark" /\ UndoMark(w)

LEMMA OneJournalStep ==
    ASSUME Alone, UndoInv, JournalRemembers, Retained', [Next]_vars, NEW w \in Workers, Work(w)
    PROVE  JournalSteps(w)
<1>1. TypeOK /\ \A v \in Workers : v = w
  BY DEF UndoInv, LimitInv, MovesInv, Alone, OneWorker
<1>2. call[w].pc = "journal" => JournalInsert(w)
  BY DEF Work, LookUp, Search, Remember, Guard, ApplyOne, RankBatches, DropStale, Finish, EmptyTrash,
     UndoLookUp, UndoSearch, UndoRemember, UndoMove, UndoMark, UndoFinish
<1>3. JournalInsert(w) => clock' = clock + 1 /\ clock \in Nat
  BY <1>1 DEF JournalInsert, TypeOK
<1>4. UndoMark(w) => call[w].pc = "mark"
  BY DEF UndoMark
<1>5. \A row : Writing(w, row) => call[w].pc = "journal"
  BY DEF Writing
<1>6. CASE UNCHANGED <<journal, clock, written>>
  BY <1>2, <1>3, <1>6 DEF JournalSteps
<1>7. CASE \E v \in Workers : \E row : Writing(v, row) /\ Inserting(row)
  BY <1>1, <1>5, <1>7 DEF JournalSteps
<1>8. CASE \E v \in Workers : UndoMark(v)
  BY <1>1, <1>4, <1>8 DEF JournalSteps
<1>9. CASE \E v \in Workers : DropStale(v)
  <2>1. /\ call[w].pc = "drop" /\ journal' \subseteq journal /\ UNCHANGED <<clock, written>>
    BY <1>1, <1>9 DEF DropStale, historyVars
  <2>2. ASSUME NEW r \in journal
        PROVE  r \in journal'
    <3>1. PICK q \in written' : q.ts = r.ts
      BY <2>1 DEF JournalRemembers
    <3>2. PICK p \in journal' : p.ts = r.ts
      BY <3>1 DEF Retained
    <3>3. p = r
      BY <2>1, <3>2 DEF UndoInv, JournalInOrder, Ordered
    <3>4. QED
      BY <3>2, <3>3
  <2>3. QED
    BY <2>1, <2>2 DEF JournalSteps
<1>10. QED
  BY <1>6, <1>7, <1>8, <1>9, JournalChange

\* Each row leads one step nearer to home.
LEMMA HomeStep ==
    ASSUME Alone, OnlyReversible, SingleCopies, UndoInv, JournalRemembers, NoEmptying,
           TakenInOrder, faults = 0, Retained, Retained', [Next]_vars,
           NEW w \in Workers, Work(w)
    PROVE  LeadsHome'
<1>1. /\ TypeOK /\ at \in [Copies -> Boxes \cup {Gone}] /\ \A v \in Workers : v = w
      /\ Ordered(journal, clock, calls)
  BY DEF UndoInv, LimitInv, MovesInv, JournalInOrder, TypeOK, Alone, OneWorker
<1>2. LeadsHome
  BY DEF TakenInOrder
<1>3. \/ at' = at /\ call'[w].pc # "journal"
      \/ TakesOut(w) \/ PutsBack(w)
  BY MailStep
<1>4. /\ TakesOut(w) => call[w].pc = "apply"
      /\ PutsBack(w) => call[w].pc = "unmove"
  BY DEF TakesOut, PutsBack
<1>5. JournalSteps(w)
  BY OneJournalStep
<1>6. CASE UNCHANGED <<journal, clock>> /\ call[w].pc # "journal"
  <2>1. \A c : RowsOf(c)' = RowsOf(c)
    BY <1>6 DEF RowsOf, Pending
  <2>2. \A c : ~InHand(w, c)
    BY <1>6 DEF InHand
  <2>3. CASE at' = at /\ call'[w].pc # "journal"
    <3>1. \A c : ~InHand(w, c)'
      BY <2>3 DEF InHand
    <3>2. QED
      BY <1>1, <1>2, <2>1, <2>2, <2>3, <3>1 DEF LeadsHome
  <2>4. CASE TakesOut(w)
    <3> DEFINE r == Head(call[w].resolved)
    <3>1. PICK m \in Copies, box \in Boxes :
            IdOf[m] = r.id /\ at[m] = r.box /\ at' = [at EXCEPT ![m] = box]
      BY <2>4 DEF TakesOut
    <3>2. call'[w].pc = "journal" /\ Head(call'[w].resolved) = r
      BY <2>4 DEF TakesOut
    <3> HIDE DEF r
    <3>3. \A c \in Copies : InHand(w, c)' <=> c = m
      BY <3>1, <3>2 DEF InHand, SingleCopies
    <3>4. \A c \in Copies : c # m => at'[c] = at[c]
      BY <1>1, <3>1
    <3>5. RowsOf(m) = {} => r.box = InitAt[m]
      BY <1>1, <1>2, <2>2, <3>1 DEF LeadsHome
    <3>6. ASSUME NEW c \in Copies, RowsOf(c)' = {}
          PROVE  \/ at'[c] = InitAt[c] /\ \A v \in Workers : ~InHand(v, c)'
                 \/ InHand(w, c)' /\ Head(call'[w].resolved).box = InitAt[c]
      <4>1. CASE c = m
        BY <2>1, <3>2, <3>3, <3>5, <3>6, <4>1
      <4>2. CASE c # m
        <5>1. at[c] = InitAt[c]
          BY <1>1, <1>2, <2>1, <2>2, <3>6 DEF LeadsHome
        <5>2. QED
          BY <1>1, <3>3, <3>4, <4>2, <5>1
      <4>3. QED
        BY <4>1, <4>2
    <3>7. \A c \in Copies : \A x \in RowsOf(c)' :
            (\A q \in RowsOf(c)' : x.ts <= q.ts) => Home(x) = InitAt[c]
      BY <1>2, <2>1 DEF LeadsHome
    <3>8. QED
      BY <3>6, <3>7 DEF LeadsHome
  <2>5. CASE PutsBack(w)
    <3>1. PICK row \in FirstRows(call[w].rows), m \in Copies, box \in Boxes :
            IdOf[m] = row.id /\ at' = [at EXCEPT ![m] = box]
      BY <2>5 DEF PutsBack
    <3>2. call[w].rows \subseteq Pending
      BY <2>5 DEF PutsBack, UndoInv, JournalInOrder, Reversal
    <3>3. row \in RowsOf(m)
      BY <3>1, <3>2 DEF FirstRows, RowsOf
    <3>4. \A c \in Copies : c # m => at'[c] = at[c]
      BY <1>1, <3>1
    <3>5. \A c : ~InHand(w, c)'
      BY <2>5 DEF InHand, PutsBack
    <3>6. \A c \in Copies : RowsOf(c) = {} => at'[c] = at[c]
      BY <3>3, <3>4
    <3>7. QED
      BY <1>1, <1>2, <2>1, <2>2, <3>5, <3>6 DEF LeadsHome
  <2>6. QED
    BY <1>3, <2>3, <2>4, <2>5
<1>7. ASSUME call[w].pc = "journal", NEW row, Writing(w, row), Inserting(row)
      PROVE  LeadsHome'
  <2> DEFINE r == Head(call[w].resolved)
  <2>1. /\ Pending' = Pending \cup {row} /\ row.id = r.id /\ Home(row) = r.box
        /\ row.ts \in Nat /\ \A q \in Pending : q.ts \in Nat /\ q.ts < row.ts
    BY <1>7, RowAdded DEF Pending
  <2>2. at' = at /\ \A c : ~InHand(w, c)'
    BY <1>3, <1>4, <1>7 DEF InHand
  <2>3. ASSUME NEW c \in Copies
        PROVE  /\ \A x \in RowsOf(c)' : (\A q \in RowsOf(c)' : x.ts <= q.ts) => Home(x) = InitAt[c]
               /\ RowsOf(c)' = {} => at'[c] = InitAt[c]
    <3>1. CASE row.id = IdOf[c]
      <4>1. InHand(w, c)
        BY <1>7, <2>1, <3>1 DEF InHand
      <4>2. RowsOf(c)' = RowsOf(c) \cup {row}
        BY <2>1, <3>1 DEF RowsOf
      <4>3. RowsOf(c) = {} => Home(row) = InitAt[c]
        BY <1>1, <1>2, <2>1, <4>1 DEF LeadsHome
      <4>4. \A q \in RowsOf(c) : q.ts \in Nat /\ q.ts < row.ts
        BY <2>1 DEF RowsOf
      <4>5. ASSUME NEW x \in RowsOf(c)', \A q \in RowsOf(c)' : x.ts <= q.ts
            PROVE  Home(x) = InitAt[c]
        <5>1. CASE x = row
          <6>1. \A q \in RowsOf(c) : FALSE
            BY <2>1, <4>2, <4>4, <4>5, <5>1
          <6>2. QED
            BY <4>3, <5>1, <6>1
        <5>2. CASE x # row
          BY <1>2, <4>2, <4>5, <5>2 DEF LeadsHome
        <5>3. QED
          BY <5>1, <5>2
      <4>6. QED
        BY <4>2, <4>5
    <3>2. CASE row.id # IdOf[c]
      <4>1. ~InHand(w, c)
        BY <2>1, <3>2 DEF InHand
      <4>2. RowsOf(c)' = RowsOf(c)
        BY <2>1, <3>2 DEF RowsOf
      <4>3. QED
        BY <1>1, <1>2, <2>2, <4>1, <4>2 DEF LeadsHome
    <3>3. QED
      BY <3>1, <3>2
  <2>4. QED
    BY <1>1, <2>2, <2>3 DEF LeadsHome
<1>8. CASE call[w].pc = "mark" /\ UndoMark(w)
  <2>1. PICK row \in FirstRows(call[w].rows) :
          row \in call[w].rows /\ row \in Pending /\ Pending' = Pending \ {row}
          /\ RowDone(call[w], call'[w], row)
    BY <1>8, MarkChanges DEF UndoInv
  <2>2. at' = at /\ \A c : ~InHand(w, c)' /\ ~InHand(w, c)
    BY <1>3, <1>4, <1>8 DEF InHand
  <2>3. PICK m \in Copies : IdOf[m] = row.id /\ at[m] \in Origin(row)
    BY <1>8, <2>1 DEF UndoInv, BackBeforeMark, Calm
  <2>4. at[m] = Home(row)
    BY <2>3 DEF Origin, findMailboxDeep, Home
  <2>5. \A q \in Pending : q \in journal /\ q.ts \in Nat /\ q.batch \in Nat
    BY <1>1 DEF Pending, TypeOK, Row
  <2>6. \A q \in Pending : q.batch <= row.batch
    BY <1>8, <2>1 DEF TakenInOrder, NewestFirst, Reversal
  <2>7. ASSUME NEW c \in Copies, c # m
        PROVE  RowsOf(c)' = RowsOf(c)
    <3>1. row.id # IdOf[c]
      BY <2>3, <2>7 DEF SingleCopies
    <3>2. QED
      BY <2>1, <3>1 DEF RowsOf
  <2>8. RowsOf(m)' = RowsOf(m) \ {row} /\ row \in RowsOf(m)
    BY <2>1, <2>3 DEF RowsOf
  <2>9. ASSUME \A q \in RowsOf(m)' : row.ts <= q.ts
        PROVE  Home(row) = InitAt[m]
    <3>1. \A q \in RowsOf(m) : row.ts <= q.ts
      BY <2>1, <2>5, <2>8, <2>9
    <3>2. QED
      BY <1>2, <2>8, <3>1 DEF LeadsHome
  <2>10. ASSUME NEW x \in RowsOf(m)', \A q \in RowsOf(m)' : x.ts <= q.ts
         PROVE  Home(x) = InitAt[m]
    <3>1. x \in Pending /\ x.id = row.id /\ x \in RowsOf(m)
      BY <2>3, <2>8, <2>10 DEF RowsOf
    <3>2. CASE x.ts <= row.ts
      <4>1. \A q \in RowsOf(m) : x.ts <= q.ts
        BY <2>8, <2>10, <3>2
      <4>2. QED
        BY <1>2, <3>1, <4>1 DEF LeadsHome
    <3>3. CASE row.ts <= x.ts
      <4>1. row.batch <= x.batch /\ x.batch <= row.batch
        BY <1>1, <2>1, <2>5, <2>6, <3>1, <3>3 DEF Ordered
      <4>2. row.batch = x.batch
        BY <2>1, <2>5, <3>1, <4>1
      <4>3. Home(x) = Home(row)
        BY <2>1, <2>5, <3>1, <4>2 DEF TakenInOrder, OneOrigin
      <4>4. \A q \in RowsOf(m)' : q.ts \in Nat
        BY <2>5, <2>8 DEF RowsOf
      <4>5. \A q \in RowsOf(m)' : row.ts <= q.ts
        BY <2>1, <2>5, <2>10, <3>1, <3>3, <4>4
      <4>6. QED
        BY <2>9, <4>3, <4>5
    <3>4. QED
      BY <2>1, <2>5, <3>1, <3>2, <3>3
  <2>11. RowsOf(m)' = {} => at'[m] = InitAt[m]
    BY <2>2, <2>4, <2>9
  <2>12. ASSUME NEW c \in Copies
         PROVE  /\ \A x \in RowsOf(c)' : (\A q \in RowsOf(c)' : x.ts <= q.ts) => Home(x) = InitAt[c]
                /\ RowsOf(c)' = {} => at'[c] = InitAt[c]
    <3>1. CASE c = m
      BY <2>10, <2>11, <3>1
    <3>2. CASE c # m
      BY <1>1, <1>2, <2>2, <2>7, <3>2 DEF LeadsHome
    <3>3. QED
      BY <3>1, <3>2
  <2>13. QED
    BY <1>1, <2>2, <2>12 DEF LeadsHome
<1>9. QED
  BY <1>5, <1>6, <1>7, <1>8 DEF JournalSteps

\* A row is written for the place the rest of its batch was taken from.
LEMMA OriginKept ==
    ASSUME Alone, UndoInv, JournalRemembers, TakenInOrder, faults = 0, Retained, Retained',
           [Next]_vars, NEW w \in Workers, Work(w)
    PROVE  OneOrigin'
<1>1. JournalSteps(w)
  BY OneJournalStep
<1>2. /\ OneOrigin /\ OnePlace(call[w]) /\ journal \subseteq Row
      /\ Ordered(journal, clock, calls)
  BY DEF TakenInOrder, UndoInv, LimitInv, MovesInv, TypeOK, JournalInOrder
<1>3. ASSUME NEW row, Writing(w, row), Inserting(row), call[w].pc = "journal"
      PROVE  OneOrigin'
  <2> DEFINE r == Head(call[w].resolved)
  <2>1. /\ journal' = journal \cup {row} /\ row.batch = calls /\ row.id = r.id
        /\ Home(row) = r.box /\ r \in Range(call[w].resolved)
    BY <1>3, RowAdded
  <2>2. \A q \in journal : q.batch = row.batch /\ q.id = row.id => Home(q) = Home(row)
    BY <1>2, <1>3, <2>1 DEF OnePlace, Journaling
  <2>3. QED
    BY <1>2, <2>1, <2>2 DEF OneOrigin
<1>4. ASSUME UndoMark(w)
      PROVE  OneOrigin'
  <2>1. PICK row \in journal : ~row.undone /\ journal' = Marked(journal, row.ts)
    BY <1>4, MarkChanges DEF UndoInv
  <2>2. \A r \in Marked(journal, row.ts) : \E q \in journal :
          r.batch = q.batch /\ r.id = q.id /\ Home(r) = Home(q)
    BY ONLY <1>2, <2>1, MarkedRows
  <2>3. ASSUME NEW r \in journal', NEW q \in journal', r.batch = q.batch, r.id = q.id
        PROVE  Home(r) = Home(q)
    <3>1. PICK r0 \in journal : r.batch = r0.batch /\ r.id = r0.id /\ Home(r) = Home(r0)
      BY <2>1, <2>2
    <3>2. PICK q0 \in journal : q.batch = q0.batch /\ q.id = q0.id /\ Home(q) = Home(q0)
      BY <2>1, <2>2
    <3>3. QED
      BY <1>2, <2>3, <3>1, <3>2 DEF OneOrigin
  <2>4. QED
    BY <2>3 DEF OneOrigin
<1>5. QED
  BY <1>1, <1>2, <1>3, <1>4 DEF JournalSteps, OneOrigin

\* An undo goes on with the last batch there is.
LEMMA NewestKept ==
    ASSUME Alone, UndoInv, JournalRemembers, TakenInOrder, faults = 0, Retained, Retained',
           [Next]_vars, NEW w \in Workers, Work(w)
    PROVE  NewestFirst(call[w])'
<1>1. SUFFICES ASSUME call'[w].pc \in Reversal
               PROVE  \A row \in call'[w].rows, q \in Pending' : q.batch <= row.batch
  BY DEF NewestFirst
<1>2. call[w].pc \in Reversal /\ call'[w].rows \subseteq call[w].rows
  BY <1>1, ReversalRows DEF UndoInv, LimitInv, MovesInv
<1>3. NewestFirst(call[w])
  BY DEF TakenInOrder
<1>4. Pending' \subseteq Pending
  <2>1. JournalSteps(w)
    BY OneJournalStep
  <2>2. UndoMark(w) => Pending' \subseteq Pending
    BY MarkChanges DEF UndoInv
  <2>3. UNCHANGED <<journal, clock>> => Pending' = Pending
    BY DEF Pending
  <2>4. QED
    BY <1>2, <2>1, <2>2, <2>3 DEF JournalSteps, Reversal
<1>5. QED
  BY <1>2, <1>3, <1>4 DEF NewestFirst

\* What a step of _resolve_many adds is where a copy is.
LEMMA ResolvedPlace ==
    ASSUME TypeOK, NEW w \in Workers, Work(w), call[w].pc \in Seeking, call'[w].pc \in Seeking,
           call[w].pc = "remember" =>
             \E m \in Copies : IdOf[m] = Head(call[w].todo) /\ at[m] = call[w].here
    PROVE  /\ \/ call'[w].resolved = call[w].resolved
              \/ \E m \in Copies : \E x : /\ x.id = IdOf[m] /\ x.box = at[m]
                                          /\ call'[w].resolved = Append(call[w].resolved, x)
           /\ call'[w].pc = "remember" =>
                \E m \in Copies : IdOf[m] = Head(call'[w].todo) /\ at[m] = call'[w].here
<1> DEFINE c == call[w]
           d == call'[w]
           id == Head(c.todo)
<1>1. call \in [Workers -> Call] /\ c \in Call
  BY DEF TypeOK
<1>2. \A x : Become(w, x) => d = x
  BY <1>1 DEF Become
<1>3. LookUp(w) \/ Search(w) \/ Remember(w)
  <2>1. ~Guard(w)
    BY <1>1, <1>2 DEF Guard, Return, Seeking, Call
  <2>2. QED
    BY <2>1 DEF Work, Seeking, ApplyOne, JournalInsert, RankBatches, DropStale, Finish, EmptyTrash,
       UndoLookUp, UndoSearch, UndoRemember, UndoMove, UndoMark, UndoFinish
<1>4. CASE LookUp(w)
  <2>1. PICK x : d = [c EXCEPT !.pc = "search", !.tries = x]
    BY <1>2, <1>4 DEF LookUp
  <2>2. QED
    BY <1>1, <2>1 DEF Call
<1>5. CASE Search(w)
  <2>1. c.pc = "search"
    BY <1>5 DEF Search
  <2>2. \/ \E m \in Copies : IdOf[m] = id /\ d = [c EXCEPT !.pc = "remember", !.tries = {}, !.here = at[m]]
        \/ \E t : d = [c EXCEPT !.tries = @ \ {t}]
        \/ d = IdFailed(c)
    <3>1. PICK t \in NextAttempts(c.tries) :
            \/ \E m \in resolveMessage(at, id, t.account, t.mailbox) :
                  Become(w, [c EXCEPT !.pc = "remember", !.tries = {}, !.here = at[m]])
            \/ Become(w, [c EXCEPT !.tries = @ \ {t}])
            \/ Become(w, IdFailed(c))
      BY <1>5 DEF Search, SearchNext
    <3>2. \A m \in resolveMessage(at, id, t.account, t.mailbox) : m \in Copies /\ IdOf[m] = id
      BY ResolveMessageSound
    <3>3. QED
      BY <1>2, <3>1, <3>2
  <2>3. CASE \E m \in Copies : IdOf[m] = id /\ d = [c EXCEPT !.pc = "remember", !.tries = {}, !.here = at[m]]
    <3>1. PICK m \in Copies : IdOf[m] = id /\ d = [c EXCEPT !.pc = "remember", !.tries = {}, !.here = at[m]]
      BY <2>3
    <3>2. d.resolved = c.resolved /\ d.todo = c.todo /\ d.here = at[m]
      BY <1>1, <3>1 DEF Call
    <3>3. QED
      BY <3>1, <3>2
  <2>4. CASE \E t : d = [c EXCEPT !.tries = @ \ {t}]
    BY <1>1, <2>1, <2>4 DEF Call
  <2>5. CASE d = IdFailed(c)
    BY <1>1, <2>5 DEF Call, IdFailed
  <2>6. QED
    BY <2>2, <2>3, <2>4, <2>5
<1>6. CASE Remember(w)
  <2> DEFINE x == [id |-> id, box |-> c.here]
  <2>1. /\ c.pc = "remember"
        /\ d = [c EXCEPT !.pc = "resolve", !.todo = Tail(@), !.here = None, !.resolved = Append(@, x)]
    BY <1>2, <1>6 DEF Remember
  <2>2. PICK m \in Copies : IdOf[m] = id /\ at[m] = c.here
    BY <2>1
  <2>3. x.id = IdOf[m] /\ x.box = at[m]
    BY <2>2
  <2> HIDE DEF x
  <2>4. d.resolved = Append(c.resolved, x) /\ d.pc = "resolve"
    BY <1>1, <2>1 DEF Call
  <2>5. QED
    BY <2>3, <2>4
<1>7. QED
  BY <1>3, <1>4, <1>5, <1>6

\* Nothing moves while a call resolves; what it resolved it takes.
LEMMA PlaceKept ==
    ASSUME Alone, OnlyReversible, SingleCopies, UndoInv, JournalRemembers, NoEmptying,
           TakenInOrder, faults = 0, Retained, Retained', [Next]_vars,
           NEW w \in Workers, Work(w)
    PROVE  OnePlace(call[w])'
<1> DEFINE c == call[w]
           d == call'[w]
           Taken == {"apply"} \cup Journaling
<1>1. /\ TypeOK /\ CallsHold /\ c \in Call /\ c.resolved \in Seq(Picked) /\ calls \in Nat
      /\ calls' = calls /\ OnePlace(c)
  <2>1. TypeOK /\ CallsHold /\ c \in Call
    BY DEF UndoInv, LimitInv, MovesInv, TypeOK
  <2>2. c.resolved \in Seq(Picked)
    BY <2>1 DEF Call
  <2>3. QED
    BY <2>1, <2>2, StepNumber DEF TakenInOrder, TypeOK
<1>2. Shape(c, d)
  BY <1>1, StepShape DEF Shaped
<1>3. JournalSteps(w)
  BY OneJournalStep
<1>4. c.pc \in Seeking \cup {"apply"} => journal' = journal
  BY <1>3 DEF JournalSteps, Seeking
<1>5. ASSUME d.pc \in Seeking
      PROVE  OnePlace(call[w])'
  <2>1. c.pc \in Seeking
    BY <1>2, <1>5 DEF Shape, Looking, Resolving, Admitting, Taking, Moving, Noting, Ending,
       Reversing, Seeking, Journaling, Reversal
  <2>2. at' = at
    BY <1>5, <2>1, MailStep DEF TakesOut, PutsBack, Seeking
  <2>3. /\ \/ d.resolved = c.resolved
           \/ \E m \in Copies : \E x : /\ x.id = IdOf[m] /\ x.box = at[m]
                                       /\ d.resolved = Append(c.resolved, x)
        /\ d.pc = "remember" => \E m \in Copies : IdOf[m] = Head(d.todo) /\ at[m] = d.here
    BY <1>1, <1>5, <2>1, ResolvedPlace DEF OnePlace
  <2>4. \A x \in Range(d.resolved) : \E m \in Copies : IdOf[m] = x.id /\ at[m] = x.box
    <3>1. \A x \in Range(c.resolved) : \E m \in Copies : IdOf[m] = x.id /\ at[m] = x.box
      BY <1>1, <2>1 DEF OnePlace
    <3>2. ASSUME NEW m \in Copies, NEW x, x.id = IdOf[m], x.box = at[m],
                 d.resolved = Append(c.resolved, x)
          PROVE  \A y \in Range(d.resolved) : y \in Range(c.resolved) \/ y = x
      BY <1>1, <3>2 DEF Range
    <3>3. QED
      BY <2>3, <3>1, <3>2
  <2>5. d.pc \notin Taken
    BY <1>5 DEF Seeking, Journaling
  <2>6. journal' = journal /\ \A q \in journal : q.batch < calls
    BY <1>1, <1>4, <2>1 DEF OnePlace
  <2>7. QED
    BY <1>1, <2>2, <2>3, <2>4, <2>5, <2>6 DEF OnePlace
<1>6. ASSUME d.pc \in Taken, c.pc \in Seeking
      PROVE  OnePlace(call[w])'
  <2>1. d.resolved = c.resolved
    BY <1>2, <1>6 DEF Shape, Looking, Resolving, Admitting, Taking, Moving, Noting, Ending,
       Reversing, SameLists, Seeking, Journaling, Reversal
  <2>2. \A x \in Range(c.resolved) : \E m \in Copies : IdOf[m] = x.id /\ at[m] = x.box
    BY <1>1, <1>6 DEF OnePlace
  <2>3. \A x, y \in Range(c.resolved) : x.id = y.id => x.box = y.box
    BY <2>2 DEF SingleCopies
  <2>4. \A q \in journal : q.batch # calls
    BY <1>1, <1>6 DEF OnePlace, TypeOK, Row
  <2>5. d.pc \notin Seeking /\ journal' = journal
    BY <1>4, <1>6 DEF Seeking, Journaling
  <2>6. QED
    BY <1>1, <2>1, <2>3, <2>4, <2>5 DEF OnePlace, Seeking
<1>7. ASSUME d.pc \in Taken, c.pc \notin Seeking
      PROVE  OnePlace(call[w])'
  <2>1. /\ c.pc \in Taken
        /\ d.resolved = c.resolved \/ (c.resolved # <<>> /\ d.resolved = Tail(c.resolved))
    BY <1>2, <1>7 DEF Shape, Looking, Resolving, Admitting, Taking, Moving, Noting, Ending,
       Reversing, SameLists, Popped, Seeking, Journaling, Reversal
  <2>2. \A x \in Range(d.resolved) : x \in Range(c.resolved)
    <3>1. c.resolved # <<>> => Range(Tail(c.resolved)) \subseteq Range(c.resolved)
      BY <1>1, HeadAndTail
    <3>2. QED
      BY <2>1, <3>1
  <2>3. \A x, y \in Range(d.resolved) : x.id = y.id => x.box = y.box
    BY <1>1, <2>1, <2>2 DEF OnePlace
  <2>4. ASSUME NEW x \in Range(d.resolved), NEW q \in journal', q.batch = calls, q.id = x.id
        PROVE  Home(q) = x.box
    <3>1. CASE q \in journal
      BY <1>1, <2>1, <2>2, <2>4, <3>1 DEF OnePlace
    <3>2. CASE q \notin journal
      <4>1. PICK row : Writing(w, row) /\ Inserting(row)
        BY <1>3, <2>1, <3>2 DEF JournalSteps, Journaling
      <4>2. /\ journal' = journal \cup {row} /\ row.id = Head(c.resolved).id
            /\ Home(row) = Head(c.resolved).box /\ Head(c.resolved) \in Range(c.resolved)
        BY <4>1, RowAdded
      <4>3. q = row
        BY <2>4, <3>2, <4>2
      <4>4. QED
        BY <1>1, <2>1, <2>2, <2>4, <4>2, <4>3 DEF OnePlace
    <3>3. QED
      BY <3>1, <3>2
  <2>5. d.pc \notin Seeking
    BY <1>7 DEF Seeking, Journaling
  <2>6. QED
    BY <1>1, <2>3, <2>4, <2>5 DEF OnePlace, Seeking
<1>8. CASE d.pc \notin Seeking \cup Taken
  BY <1>8 DEF OnePlace, Seeking
<1>9. QED
  BY <1>5, <1>6, <1>7, <1>8

LEMMA TakenStep ==
    ASSUME Alone, OnlyReversible, NewestOnly, SingleCopies, UndoInv, JournalRemembers,
           NoEmptying, TakenInOrder, [Next]_vars
    PROVE  TakenInOrder'
<1>1. SUFFICES ASSUME faults' = 0, Retained' PROVE  TakenInOrder'
  BY DEF TakenInOrder
<1>0. Retained
  BY <1>1, RetainedBefore
<1>2. /\ faults = 0 /\ \A v, w \in Workers : v = w
      /\ \/ UNCHANGED <<at, journal, clock, calls, call>>
         \/ \E w \in Workers : Begin(w) \/ Work(w)
  BY <1>1, QuietStep DEF Alone, OneWorker
<1>3. CASE UNCHANGED <<at, journal, clock, calls, call>>
  BY <1>0, <1>2, <1>3 DEF TakenInOrder, LeadsHome, OneOrigin, OnePlace, NewestFirst, RowsOf, InHand,
     Pending
<1>4. ASSUME NEW w \in Workers, Begin(w) \/ Work(w)
      PROVE  TakenInOrder'
  <2>1. LeadsHome' /\ OneOrigin' /\ OnePlace(call[w])' /\ NewestFirst(call[w])'
    BY <1>0, <1>1, <1>2, <1>4, BeginTakes, HomeStep, OriginKept, PlaceKept, NewestKept
  <2>2. \A v \in Workers : v = w
    BY <1>2
  <2>3. QED
    BY <2>1, <2>2 DEF TakenInOrder
<1>5. QED
  BY <1>2, <1>3, <1>4

TakeInv == UndoInv /\ NoEmptying /\ TakenInOrder

LEMMA TakeInvariant ==
    ASSUME Alone, OnlyReversible, NewestOnly, SingleCopies
    PROVE  Spec => []TakeInv
<1>1. ASSUME Init
      PROVE  TakeInv
  <2>1. UndoInv
    BY <1>1, UndoInvInit
  <2>2. journal = {} /\ at = InitAt /\ \A w \in Workers : call[w] = Idle
    BY <1>1 DEF Init
  <2>3. NoEmptying
    BY <2>2 DEF NoEmptying, Idle
  <2>4. Pending = {} /\ \A c : RowsOf(c) = {}
    BY <2>2 DEF Pending, RowsOf
  <2>5. LeadsHome
    BY <2>2, <2>4 DEF LeadsHome, InHand, Idle
  <2>6. TakenInOrder
    BY <2>2, <2>5 DEF TakenInOrder, OneOrigin, OnePlace, NewestFirst, Idle, Reversal,
     Seeking, Journaling
  <2>7. QED
    BY <2>1, <2>3, <2>6 DEF TakeInv
<1>2. ASSUME TakeInv, AccountInv, [Next]_vars
      PROVE  TakeInv'
  <2>1. UndoInv /\ NoEmptying /\ TakenInOrder /\ TypeOK /\ CallsHold /\ JournalRemembers
    BY <1>2 DEF TakeInv, UndoInv, LimitInv, MovesInv, AccountInv
  <2>2. UndoInv' /\ NoEmptying' /\ TakenInOrder'
    BY <1>2, <2>1, UndoInvStep, NoEmptyingStep, TakenStep
  <2>3. QED
    BY <2>2 DEF TakeInv
<1>3. QED
  BY <1>1, <1>2, AccountInvariant, PTL DEF Spec

\* Undoing takes everything back (core/undo.py): for one worker whose requests
\* can all be undone and whose undos name no batch, and messages with
\* Message-IDs of their own.  While no row has been pruned, once nothing is
\* left to undo every copy is where it was at the start.
THEOREM UndoTakesAllBack ==
    ASSUME Alone, OnlyReversible, NewestOnly, SingleCopies
    PROVE  Spec => [](Retained => UndoAllRestores)
<1>1. ASSUME TakeInv, Retained
      PROVE  UndoAllRestores
  <2>1. SUFFICES ASSUME faults = 0, Pending = {}, \A w \in Workers : Resting(w)
                 PROVE  at = InitAt
    BY DEF UndoAllRestores
  <2>2. LeadsHome /\ TypeOK
    BY <1>1, <2>1 DEF TakeInv, TakenInOrder, UndoInv, LimitInv, MovesInv
  <2>3. \A c \in Copies : RowsOf(c) = {} /\ \A w \in Workers : ~InHand(w, c)
    BY <2>1 DEF RowsOf, InHand, Resting
  <2>4. \A c \in Copies : at[c] = InitAt[c]
    BY <2>2, <2>3 DEF LeadsHome
  <2>5. at \in [Copies -> Boxes \cup {Gone}] /\ InitAt \in [Copies -> Boxes \cup {Gone}]
    BY <2>2, MovesAssumption DEF TypeOK
  <2>6. QED
    BY <2>4, <2>5
<1>2. QED
  BY <1>1, TakeInvariant, PTL

\* As many batches as there are calls are all kept.
LEMMA NothingPruned ==
    ASSUME NEW n \in Nat, n <= MaxBatches,
           NEW j, \A r \in j : r.ts \in Nat /\ r.batch \in Nat /\ 0 < r.batch /\ r.batch <= n
    PROVE  StaleBatches(j) = {}
<1>1. ASSUME NEW r \in j
      PROVE  ~(MaxBatches <= Cardinality(NewerBatches(j, r.batch)))
  <2> DEFINE newer == NewerBatches(j, r.batch)
             others == (1..n) \ {r.batch}
  <2>1. newer \subseteq others
    <3>1. ASSUME NEW q \in j, \A p \in j : p.batch = r.batch => p.ts < q.ts
          PROVE  q.batch \in others
      BY <3>1
    <3>2. QED
      BY <3>1 DEF NewerBatches
  <2>2. r.batch \in 1..n
    OBVIOUS
  <2>3. IsFiniteSet(1..n) /\ Cardinality(1..n) = n
    BY FS_Interval
  <2>4. IsFiniteSet(others) /\ Cardinality(others) = n - 1
    BY <2>2, <2>3, FS_RemoveElement
  <2> HIDE DEF others
  <2>5. Cardinality(newer) \in Nat /\ Cardinality(newer) <= Cardinality(others)
    BY <2>1, <2>4, FS_Subset, FS_CardinalityType
  <2>6. QED
    BY <2>4, <2>5, MovesAssumption
<1>2. QED
  BY <1>1, MovesAssumption DEF StaleBatches

\* Then no ranking finds a batch to prune ...
NeverDrops == \A w \in Workers : call[w].pc # "drop"

LEMMA NeverDropsStep ==
    ASSUME MaxCalls <= MaxBatches, calls <= MaxCalls, Alone, UndoInv, NeverDrops, [Next]_vars
    PROVE  NeverDrops'
<1>1. /\ TypeOK /\ CallsHold /\ journal \subseteq Row /\ Ordered(journal, clock, calls)
      /\ calls \in Nat /\ call \in [Workers -> Call]
  BY DEF UndoInv, LimitInv, MovesInv, JournalInOrder, TypeOK
<1>2. StaleBatches(journal) = {}
  <2>1. \A r \in journal : r.ts \in Nat /\ r.batch \in Nat /\ 0 < r.batch /\ r.batch <= calls
    BY <1>1 DEF Ordered, Row
  <2>2. calls <= MaxBatches
    BY <1>1, MovesAssumption
  <2>3. QED
    BY <1>1, <2>1, <2>2, NothingPruned
<1>3. ASSUME NEW w \in Workers, Work(w) \/ Disturbed(w)
      PROVE  call'[w].pc # "drop"
  <2>1. SUFFICES ASSUME call'[w].pc = "drop" PROVE FALSE
    OBVIOUS
  <2>2. Shape(call[w], call'[w])
    BY <1>1, <1>3, StepShape DEF Shaped
  <2>3. call[w].pc \in {"journal", "rank"}
    BY <2>1, <2>2 DEF Shape, Looking, Resolving, Admitting, Taking, Moving, Noting, Ending, Reversing,
       Seeking, Journaling, Reversal, NeverDrops
  <2>4. JournalInsert(w) \/ RankBatches(w) \/ JournalLocked(w)
    BY <1>3, <2>3 DEF Work, Disturbed, LookUp, Search, Remember, Guard, ApplyOne, DropStale, Finish,
       EmptyTrash, UndoLookUp, UndoSearch, UndoRemember, UndoMove, UndoMark, UndoFinish,
       ResolveTimeout, ResolveLocked, ApplyTimeout, EmptyTrashTimeout, UndoResolveFault,
       UndoMoveTimeout, UndoMarkLocked
  <2>5. \/ call'[w] = [call[w] EXCEPT !.pc = "rank"]
        \/ call'[w] = Journaled(call[w])
        \/ \E o : call'[w] = [call[w] EXCEPT !.pc = "done", !.outcome = o]
    BY <1>1, <1>2, <2>4 DEF JournalInsert, RankBatches, JournalLocked, Become, Return
  <2>6. QED
    BY <1>1, <2>1, <2>5 DEF Journaled, Call
<1>4. ASSUME NEW w \in Workers, Begin(w)
      PROVE  call'[w].pc # "drop"
  <2>1. PICK req \in Requests : BeginBatch(w, req) \/ BeginEmptyTrash(w, req) \/ BeginUndo(w, req)
    BY <1>4 DEF Begin
  <2>2. QED
    BY <1>1, <2>1, BeginStarts DEF Starting
<1>5. Restart => NeverDrops'
  BY DEF Restart, Idle, NeverDrops
<1>6. call' = call => NeverDrops'
  BY DEF NeverDrops
<1>7. QED
  BY <1>3, <1>4, <1>5, <1>6 DEF Next, UserMove, LateEffect, Reindex, vars, Alone, OneWorker, NeverDrops

\* ... and nothing is ever pruned.
LEMMA RetainedStep ==
    ASSUME UndoInv, NeverDrops, Retained, [Next]_vars
    PROVE  Retained'
<1>1. journal \subseteq Row
  BY DEF UndoInv, LimitInv, MovesInv, TypeOK
<1>2. CASE UNCHANGED <<journal, clock, written>>
  BY <1>2 DEF Retained
<1>3. ASSUME NEW row, Inserting(row)
      PROVE  Retained'
  BY <1>3 DEF Inserting, Retained
<1>4. ASSUME NEW w \in Workers, UndoMark(w)
      PROVE  Retained'
  <2>1. PICK row \in journal : journal' = Marked(journal, row.ts)
    BY <1>4, MarkChanges DEF UndoInv
  <2>2. \A r \in journal : \E q \in Marked(journal, row.ts) : q.ts = r.ts
    <3> DEFINE M(r) == IF r.ts = row.ts THEN [r EXCEPT !.undone = TRUE] ELSE r
    <3>1. \A r \in journal : M(r).ts = r.ts /\ M(r) \in Marked(journal, row.ts)
      BY <1>1 DEF Row, Marked
    <3>2. QED
      BY <3>1
  <2>3. written' = written
    BY <1>4 DEF UndoMark, historyVars
  <2>4. QED
    BY <2>1, <2>2, <2>3 DEF Retained
<1>5. \A w \in Workers : ~DropStale(w)
  BY DEF DropStale, NeverDrops
<1>6. QED
  BY <1>2, <1>3, <1>4, <1>5, JournalChange

\* No call is begun beyond the last.
LEMMA CallsCount ==
    ASSUME TypeOK, CallsHold, calls <= MaxCalls, [Next]_vars
    PROVE  calls' <= MaxCalls
<1>1. \A w \in Workers : Begin(w) => calls < MaxCalls /\ calls' = calls + 1
  BY DEF Begin, BeginBatch, BeginEmptyTrash, BeginUndo
<1>2. \A w \in Workers : Work(w) \/ Disturbed(w) => calls' = calls
  BY StepNumber
<1>3. \A c, box : UserMove(c, box) \/ LateEffect(c, box) => calls' = calls
  BY DEF UserMove, LateEffect, boundVars
<1>4. \A id, name : Reindex(id, name) => calls' = calls
  BY DEF Reindex, boundVars
<1>5. Restart \/ UNCHANGED vars => calls' = calls
  BY DEF Restart, Fault, vars
<1>6. calls' = calls \/ (calls < MaxCalls /\ calls' = calls + 1)
  BY <1>1, <1>2, <1>3, <1>4, <1>5 DEF Next
<1>7. QED
  BY <1>6, MovesAssumption DEF TypeOK

\* So it is with as many calls as batches are kept: whatever was moved in
\* them, undoing ends where everything was.
THEOREM FewCallsAllBack ==
    ASSUME Alone, OnlyReversible, NewestOnly, SingleCopies, MaxCalls <= MaxBatches
    PROVE  Spec => []UndoAllRestores
<1> DEFINE Inv == calls <= MaxCalls /\ NeverDrops /\ Retained
<1>1. Init => Inv
  BY MovesAssumption DEF Init, NeverDrops, Retained, Idle
<1>2. ASSUME TakeInv, Inv, [Next]_vars
      PROVE  Inv'
  <2>1. UndoInv /\ TypeOK /\ CallsHold
    BY <1>2 DEF TakeInv, UndoInv, LimitInv, MovesInv
  <2>2. QED
    BY <1>2, <2>1, NeverDropsStep, RetainedStep, CallsCount
<1>3. Spec => []Inv
  BY <1>1, <1>2, TakeInvariant, PTL DEF Spec
<1>4. Inv => Retained
  OBVIOUS
<1> HIDE DEF Inv
<1>5. QED
  BY <1>3, <1>4, UndoTakesAllBack, PTL

=============================================================================
