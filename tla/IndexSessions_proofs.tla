------------------------ MODULE IndexSessions_proofs ------------------------
(***************************************************************************)
(* Proofs about IndexSessions, for any number of threads, commands,        *)
(* connections, timeouts and failures.                                     *)
(***************************************************************************)
EXTENDS IndexSessions, TLAPS

-----------------------------------------------------------------------------
(***************************************************************************)
(* The jobs                                                                *)
(***************************************************************************)
\* A job has steps, and its every commit() comes right after a statement that
\* writes (e.g. core/resolver.py:53-62, core/undo.py:31-59).
WellFormed(s) ==
    /\ Len(s) \in Nat /\ 1 <= Len(s)
    /\ s[1] # "commit"
    /\ \A k \in 1..13 : k < Len(s) /\ s[k + 1] = "commit" => s[k] = "write"
    /\ Len(s) <= 13

LEMMA StepsWellFormed ==
    ASSUME NEW j \in Jobs
    PROVE  WellFormed(Steps(j))
<1>1. \A k \in 1..13 : \/ k = 1 \/ k = 2 \/ k = 3 \/ k = 4 \/ k = 5 \/ k = 6 \/ k = 7
                        \/ k = 8 \/ k = 9 \/ k = 10 \/ k = 11 \/ k = 12 \/ k = 13
  OBVIOUS
<1>2. CASE j = "build"
  BY <1>1, <1>2 DEF WellFormed, Steps, StepsOf, BuildIndex
<1>3. CASE j = "mark"
  BY <1>1, <1>3 DEF WellFormed, Steps, StepsOf, MarkTick
<1>4. CASE j = "embed"
  BY <1>1, <1>4 DEF WellFormed, Steps, StepsOf, EmbedBackfill
<1>5. CASE j = "extract"
  BY <1>1, <1>5 DEF WellFormed, Steps, StepsOf, ExtractBackfill
<1>6. CASE j = "query"
  BY <1>1, <1>6 DEF WellFormed, Steps, StepsOf, Query
<1>7. CASE j = "files"
  BY <1>1, <1>7 DEF WellFormed, Steps, StepsOf, ReadFiles
<1>8. CASE j = "vectors"
  BY <1>1, <1>8 DEF WellFormed, Steps, StepsOf, RankByVectors
<1>9. CASE j = "mail"
  BY <1>1, <1>9 DEF WellFormed, Steps, StepsOf, AskMail
<1>10. CASE j = "reply"
  <2> DEFINE s == Steps(j)
  <2>1. WellFormed(s)
    BY <1>1, <1>10 DEF WellFormed, Steps, StepsOf, ResolveAndAsk, Resolve
  <2>2. QED
    BY <2>1
<1>11. CASE j = "move"
  <2> DEFINE s == Steps(j)
  <2>1. WellFormed(s)
    BY <1>1, <1>11 DEF WellFormed, Steps, StepsOf, Move, Resolve, JournalWrite
  <2>2. QED
    BY <2>1
<1>12. CASE j = "status"
  <2> DEFINE s == Steps(j)
  <2>1. WellFormed(s)
    BY <1>1, <1>12 DEF WellFormed, Steps, StepsOf, UpdateStatus, Resolve, JournalWrite
  <2>2. QED
    BY <2>1
<1>13. CASE j = "flag"
  <2> DEFINE s == Steps(j)
  <2>1. WellFormed(s)
    BY <1>1, <1>13 DEF WellFormed, Steps, StepsOf, SetFlagColor, UpdateStatus, Resolve, JournalWrite
  <2>2. QED
    BY <2>1
<1>14. CASE j = "undo"
  <2> DEFINE s == Steps(j)
  <2>1. WellFormed(s)
    BY <1>1, <1>14 DEF WellFormed, Steps, StepsOf, UndoLast, Resolve
  <2>2. QED
    BY <2>1
<1>15. QED
  BY <1>2, <1>3, <1>4, <1>5, <1>6, <1>7, <1>8, <1>9, <1>10, <1>11, <1>12, <1>13, <1>14
     DEF Jobs, IndexJobs, Calls

LEMMA StepsLength ==
    ASSUME NEW j \in Jobs
    PROVE  Len(Steps(j)) \in Nat /\ 1 <= Len(Steps(j))
BY StepsWellFormed DEF WellFormed

LEMMA CommitFollowsWrite ==
    ASSUME NEW j \in Jobs
    PROVE  /\ Steps(j)[1] # "commit"
           /\ \A k \in Nat :
                1 <= k /\ k < Len(Steps(j)) /\ Steps(j)[k + 1] = "commit" => Steps(j)[k] = "write"
<1>1. WellFormed(Steps(j))
  BY StepsWellFormed
<1> DEFINE s == Steps(j)
<1> HIDE DEF s
<1>2. WellFormed(s) => \A k \in Nat : 1 <= k /\ k < Len(s) => k \in 1..13
  BY DEF WellFormed
<1>3. QED
  BY <1>1, <1>2 DEF WellFormed, s

LEMMA AfterType ==
    ASSUME NEW p, NEW j
    PROVE  After(p, j) \in Jobs \cup {"idle", "dead"} /\ AfterFailure(p, j) \in Jobs \cup {"idle", "dead"}
BY DEF After, AfterFailure, Jobs, IndexJobs, Calls

-----------------------------------------------------------------------------
(***************************************************************************)
(* Type correctness                                                        *)
(***************************************************************************)
\* Where the processes are.
ControlOK ==
    /\ job \in [Procs -> Jobs \cup {"idle", "dead"}]
    /\ step \in [Procs -> Nat]
    /\ \A p \in Procs : job[p] \in Jobs => step[p] \in 1..Len(Steps(job[p]))
    /\ last \in [Watchers -> {"none", "ok", "failed"}]

\* What the connections hold.
LockOK ==
    /\ owner \in Connections \cup {None}
    /\ txn \in [Connections -> {"none", "begun", "reading", "writing"}]
    /\ \A c \in Connections : txn[c] = "writing" <=> owner = c
    /\ behind \in [Connections -> BOOLEAN]

CountsOK ==
    /\ events \in BOOLEAN
    /\ timeouts \in 0..MaxTimeouts /\ raises \in 0..MaxRaises

LEMMA GotoControl ==
    ASSUME ControlOK, NEW p \in Procs, NEW j \in Jobs \cup {"idle", "dead"}, NEW k \in Nat,
           j \in Jobs => 1 <= k /\ k <= Len(Steps(j)),
           Goto(p, j, k), last' \in [Watchers -> {"none", "ok", "failed"}]
    PROVE  ControlOK'
<1>1. job' \in [Procs -> Jobs \cup {"idle", "dead"}] /\ step' \in [Procs -> Nat]
  BY DEF Goto, ControlOK
<1>2. ASSUME NEW q \in Procs, job'[q] \in Jobs
      PROVE  step'[q] \in 1..Len(Steps(job'[q]))
  <2>1. CASE q = p
    BY <1>2, <2>1, StepsLength DEF Goto, ControlOK
  <2>2. CASE q # p
    BY <1>2, <2>2 DEF Goto, ControlOK
  <2>3. QED
    BY <2>1, <2>2
<1>3. QED
  BY <1>1, <1>2 DEF ControlOK

LEMMA EndedType ==
    ASSUME ControlOK, NEW p, NEW r \in {"ok", "failed"}, Ended(p, r)
    PROVE  last' \in [Watchers -> {"none", "ok", "failed"}]
BY DEF Ended, ControlOK

LEMMA AdvanceControl ==
    ASSUME ControlOK, NEW p \in Procs, job[p] \in Jobs, Advance(p)
    PROVE  ControlOK'
<1>1. CASE step[p] < Len(Steps(job[p]))
  <2>1. Goto(p, job[p], step[p] + 1) /\ last' \in [Watchers -> {"none", "ok", "failed"}]
    BY <1>1 DEF Advance, ControlOK
  <2> DEFINE n == Len(Steps(job[p]))
             k == step[p]
  <2>2. n \in Nat /\ k \in Nat /\ k \in 1..n /\ k < n
    BY <1>1, StepsLength DEF ControlOK
  <2> HIDE DEF n, k
  <2>3. k + 1 \in Nat /\ 1 <= k + 1 /\ k + 1 <= n
    BY <2>2
  <2>4. step[p] + 1 \in Nat /\ 1 <= step[p] + 1 /\ step[p] + 1 <= Len(Steps(job[p]))
    BY <2>3 DEF n, k
  <2>5. QED
    BY <2>1, <2>4, GotoControl
<1>2. CASE ~(step[p] < Len(Steps(job[p])))
  <2>1. Goto(p, After(p, job[p]), 1) /\ last' \in [Watchers -> {"none", "ok", "failed"}]
    BY <1>2, EndedType DEF Advance
  <2>2. After(p, job[p]) \in Jobs \cup {"idle", "dead"}
    BY AfterType
  <2>3. After(p, job[p]) \in Jobs => 1 <= Len(Steps(After(p, job[p])))
    BY StepsLength
  <2>4. QED
    BY <2>1, <2>2, <2>3, GotoControl
<1>3. QED
  BY <1>1, <1>2

LEMMA ReturnControl ==
    ASSUME ControlOK, NEW p \in Procs, Return(p)
    PROVE  ControlOK'
<1>1. Goto(p, "idle", 1) /\ last' \in [Watchers -> {"none", "ok", "failed"}]
  BY DEF Return, ControlOK
<1>2. "idle" \notin Jobs
  BY DEF Jobs, IndexJobs, Calls
<1>3. QED
  BY <1>1, <1>2, GotoControl

LEMMA FailControl ==
    ASSUME ControlOK, NEW p \in Procs, Fail(p)
    PROVE  ControlOK'
<1>1. Goto(p, AfterFailure(p, job[p]), 1) /\ last' \in [Watchers -> {"none", "ok", "failed"}]
  BY EndedType DEF Fail
<1>2. AfterFailure(p, job[p]) \in Jobs \cup {"idle", "dead"}
  BY AfterType
<1>3. AfterFailure(p, job[p]) \in Jobs => 1 <= Len(Steps(AfterFailure(p, job[p])))
  BY StepsLength
<1>4. QED
  BY <1>1, <1>2, <1>3, GotoControl

LEMMA CloseLock ==
    ASSUME LockOK, NEW p \in Procs, Close(p)
    PROVE  LockOK'
<1> DEFINE c == ConnOf[p]
<1>1. /\ txn' = [txn EXCEPT ![c] = "none"]
      /\ behind' = [behind EXCEPT ![c] = FALSE]
      /\ owner' = IF owner = c THEN None ELSE owner
  BY DEF Close
<1>2. c \in Connections
  BY SessionsAssumption
<1> HIDE DEF c
<1>3. QED
  BY <1>1, <1>2, SessionsAssumption DEF LockOK

LEMMA ReadLock ==
    ASSUME LockOK, NEW p \in Procs, Read(p)
    PROVE  LockOK'
<1> DEFINE c == ConnOf[p]
<1>1. c \in Connections /\ owner' = owner
  BY SessionsAssumption DEF Read
<1>2. \/ UNCHANGED <<txn, behind>>
      \/ /\ txn[c] = "begun"
         /\ txn' = [txn EXCEPT ![c] = "reading"] /\ behind' = [behind EXCEPT ![c] = FALSE]
  BY DEF Read
<1> HIDE DEF c
<1>3. CASE UNCHANGED <<txn, behind>>
  BY <1>1, <1>3 DEF LockOK
<1>4. CASE /\ txn[c] = "begun"
           /\ txn' = [txn EXCEPT ![c] = "reading"] /\ behind' = [behind EXCEPT ![c] = FALSE]
  <2>1. /\ txn' \in [Connections -> {"none", "begun", "reading", "writing"}]
        /\ behind' \in [Connections -> BOOLEAN]
    BY <1>1, <1>4 DEF LockOK
  <2>2. \A d \in Connections : txn'[d] = "writing" <=> txn[d] = "writing"
    BY <1>1, <1>4 DEF LockOK
  <2>3. QED
    BY <1>1, <2>1, <2>2 DEF LockOK
<1>5. QED
  BY <1>2, <1>3, <1>4

LEMMA WriteLock ==
    ASSUME LockOK, NEW p \in Procs, Write(p)
    PROVE  LockOK'
BY SessionsAssumption DEF Write, LockOK, MayWrite

LEMMA WriteFailsLock ==
    ASSUME LockOK, NEW p \in Procs, WriteFails(p)
    PROVE  LockOK'
<1>1. CASE Ends(p)
  BY <1>1, CloseLock DEF WriteFails
<1>2. CASE ~Ends(p)
  BY <1>2, SessionsAssumption DEF WriteFails, LockOK
<1>3. QED
  BY <1>1, <1>2

LEMMA CommitLock ==
    ASSUME LockOK, NEW p \in Procs, Commit(p)
    PROVE  LockOK'
BY SessionsAssumption DEF Commit, LockOK

LEMMA ProceedType ==
    ASSUME ControlOK, LockOK, CountsOK, NEW p \in Procs, Proceed(p)
    PROVE  ControlOK' /\ LockOK' /\ CountsOK'
<1>1. CASE Read(p)
  BY <1>1, ReadLock, AdvanceControl, ReturnControl DEF Read, At, CountsOK
<1>2. CASE Write(p)
  BY <1>2, WriteLock, AdvanceControl DEF Write, At, CountsOK
<1>3. CASE WriteFails(p)
  <2>1. ControlOK' /\ LockOK'
    BY <1>3, WriteFailsLock, FailControl DEF WriteFails
  <2>2. CountsOK'
    BY <1>3, SessionsAssumption DEF WriteFails, CountsOK
  <2>3. QED
    BY <2>1, <2>2
<1>4. CASE Commit(p)
  BY <1>4, CommitLock, AdvanceControl DEF Commit, At, CountsOK
<1>5. CASE Work(p)
  BY <1>5, AdvanceControl, ReturnControl DEF Work, At, CountsOK, LockOK, dbVars
<1>6. CASE WorkRaises(p)
  <2>1. ControlOK' /\ LockOK'
    BY <1>6, CloseLock, FailControl DEF WorkRaises, LockOK, dbVars
  <2>2. CountsOK'
    BY <1>6, SessionsAssumption DEF WorkRaises, CountsOK
  <2>3. QED
    BY <2>1, <2>2
<1>7. QED
  BY <1>1, <1>2, <1>3, <1>4, <1>5, <1>6 DEF Proceed

\* A tool or a command is asked for jobs, and none of them is a tick's mark.
LEMMA RequestedJobs ==
    ASSUME NEW p \in Tools \cup Commands
    PROVE  Requests[p] \subseteq Jobs /\ "mark" \notin Requests[p]
<1>1. Requests[p] \subseteq Calls \cup {"build", "extract"}
  BY RequestsAssumption
<1>2. QED
  BY <1>1 DEF Calls, Jobs, IndexJobs

LEMMA StartType ==
    ASSUME ControlOK, LockOK, CountsOK, NEW p \in Procs, Tick(p) \/ Call(p)
    PROVE  ControlOK' /\ LockOK' /\ CountsOK'
<1>1. \E j \in Jobs : Goto(p, j, 1)
  BY RequestedJobs DEF Tick, Call, Jobs, IndexJobs
<1>2. last' \in [Watchers -> {"none", "ok", "failed"}]
  BY DEF Tick, Call, ControlOK
<1>3. ControlOK'
  BY <1>1, <1>2, GotoControl, StepsLength
<1>4. QED
  BY <1>3 DEF Tick, Call, LockOK, CountsOK, dbVars

LEMMA TypeStep ==
    ASSUME ControlOK, LockOK, CountsOK, [Next]_vars
    PROVE  ControlOK' /\ LockOK' /\ CountsOK'
<1>1. ASSUME NEW p \in Procs, Tick(p) \/ Call(p)
      PROVE  ControlOK' /\ LockOK' /\ CountsOK'
  BY <1>1, StartType
<1>2. ASSUME NEW p \in Procs, Proceed(p)
      PROVE  ControlOK' /\ LockOK' /\ CountsOK'
  BY <1>2, ProceedType
<1>3. CASE MailChanges \/ UNCHANGED vars
  BY <1>3 DEF MailChanges, vars, dbVars, ControlOK, LockOK, CountsOK
<1>4. QED
  BY <1>1, <1>2, <1>3 DEF Next

LEMMA TypeInit ==
    ASSUME Init
    PROVE  ControlOK /\ LockOK /\ CountsOK
<1>1. "idle" \notin Jobs
  BY DEF Jobs, IndexJobs, Calls
<1>2. ControlOK
  BY <1>1 DEF Init, ControlOK
<1>3. LockOK
  BY SessionsAssumption DEF Init, LockOK
<1>4. CountsOK
  <2>1. events \in BOOLEAN
    BY DEF Init
  <2>2. timeouts \in 0..MaxTimeouts /\ raises \in 0..MaxRaises
    BY SessionsAssumption DEF Init
  <2>3. QED
    BY <2>1, <2>2 DEF CountsOK
<1>5. QED
  BY <1>2, <1>3, <1>4

\* Every reachable state is well typed, and at most one connection, the one in
\* a writing transaction, holds the write lock of index.db.
THEOREM TypeCorrect == Spec => []TypeOK
<1>1. TypeOK <=> ControlOK /\ LockOK /\ CountsOK
  BY DEF TypeOK, ControlOK, LockOK, CountsOK
<1>2. Init => TypeOK
  BY <1>1, TypeInit, SessionsAssumption
<1>3. TypeOK /\ [Next]_vars => TypeOK'
  BY <1>1, TypeStep, SessionsAssumption DEF TypeOK, ControlOK, LockOK, CountsOK
<1>4. QED
  BY <1>2, <1>3, PTL DEF Spec

-----------------------------------------------------------------------------
(***************************************************************************)
(* A stuck connection stays stuck                                          *)
(***************************************************************************)
\* Watchers and commands have a connection to themselves.
Alone == Watchers \cup Commands

\* A process with a connection to itself commits what it has just written.
CommitsOwn == \A p \in Alone : At(p, "commit") => owner = ConnOf[p]

\* Where a job goes on, a commit follows a write.
LEMMA AdvanceToCommit ==
    ASSUME ControlOK, NEW p \in Procs, job[p] \in Jobs, Advance(p), At(p, "commit")'
    PROVE  At(p, "write")
<1>1. step[p] \in Nat /\ 1 <= step[p]
  <2> DEFINE n == Len(Steps(job[p]))
             k == step[p]
  <2>1. k \in Nat /\ k \in 1..n /\ n \in Nat
    BY StepsLength DEF ControlOK
  <2> HIDE DEF n, k
  <2>2. k \in Nat /\ 1 <= k
    BY <2>1
  <2>3. QED
    BY <2>2 DEF k
<1>2. CASE step[p] < Len(Steps(job[p]))
  <2>1. job'[p] = job[p] /\ step'[p] = step[p] + 1
    BY <1>2 DEF Advance, Goto, ControlOK
  <2>2. Steps(job[p])[step[p] + 1] = "commit"
    BY <2>1 DEF At
  <2>3. QED
    BY <1>1, <1>2, <2>2, CommitFollowsWrite DEF At
<1>3. CASE ~(step[p] < Len(Steps(job[p])))
  <2>1. job'[p] = After(p, job[p]) /\ step'[p] = 1
    BY <1>3 DEF Advance, Goto, ControlOK
  <2>2. QED
    BY <2>1, CommitFollowsWrite DEF At
<1>4. QED
  BY <1>2, <1>3

LEMMA ReturnNotCommit ==
    ASSUME ControlOK, NEW p \in Procs, Return(p)
    PROVE  ~At(p, "commit")'
<1>1. job'[p] = "idle"
  BY DEF Return, Goto, ControlOK
<1>2. QED
  BY <1>1 DEF At, Jobs, IndexJobs, Calls

\* Nobody starts a job at a commit.
LEMMA FailNotCommit ==
    ASSUME ControlOK, NEW p \in Procs, Fail(p)
    PROVE  ~At(p, "commit")'
<1>1. job'[p] = AfterFailure(p, job[p]) /\ step'[p] = 1
  BY DEF Fail, Goto, ControlOK
<1>2. QED
  BY <1>1, CommitFollowsWrite DEF At

LEMMA StartNotCommit ==
    ASSUME ControlOK, NEW p \in Procs, Tick(p) \/ Call(p)
    PROVE  ~At(p, "commit")'
<1>1. \E j \in Jobs : job'[p] = j /\ step'[p] = 1
  BY RequestedJobs DEF Tick, Call, Goto, ControlOK, Jobs, IndexJobs
<1>2. QED
  BY <1>1, CommitFollowsWrite DEF At

\* A step of one process leaves the others where they are.
LEMMA OthersStayPut ==
    ASSUME ControlOK, NEW p \in Procs, Tick(p) \/ Call(p) \/ Proceed(p), NEW q \in Procs, q # p
    PROVE  job'[q] = job[q] /\ step'[q] = step[q]
<1>1. \E j, k : Goto(p, j, k)
  <2>1. Advance(p) \/ Fail(p) \/ Return(p) => \E j, k : Goto(p, j, k)
    BY DEF Advance, Fail, Return
  <2>2. QED
    BY <2>1 DEF Tick, Call, Proceed, Read, Write, WriteFails, Commit, Work, WorkRaises
<1>2. QED
  BY <1>1 DEF Goto, ControlOK

LEMMA OthersStay ==
    ASSUME ControlOK, NEW p \in Procs, Tick(p) \/ Call(p) \/ Proceed(p),
           NEW q \in Procs, q # p, NEW s
    PROVE  At(q, s)' <=> At(q, s)
BY OthersStayPut DEF At

\* Only the process that owns a connection alone takes its lock away from it.
LEMMA OthersLeaveLock ==
    ASSUME LockOK, NEW p \in Procs, Tick(p) \/ Call(p) \/ Proceed(p),
           NEW q \in Alone, q # p, owner = ConnOf[q]
    PROVE  owner' = owner
<1>1. ConnOf[p] # owner /\ owner # None
  BY SessionsAssumption DEF Alone, Procs
<1>2. Close(p) => owner' = owner
  BY <1>1 DEF Close
<1>3. QED
  BY <1>1, <1>2 DEF Tick, Call, Proceed, Read, Write, MayWrite, WriteFails, Commit, Work,
                    WorkRaises, dbVars

LEMMA CommitsOwnStep ==
    ASSUME ControlOK, LockOK, CommitsOwn, [Next]_vars
    PROVE  CommitsOwn'
<1>1. ASSUME NEW p \in Procs, Tick(p) \/ Call(p) \/ Proceed(p),
             NEW q \in Alone, At(q, "commit")'
      PROVE  owner' = ConnOf[q]
  <2>1. q \in Procs
    BY DEF Alone, Procs
  <2>2. CASE q # p
    BY <1>1, <2>1, <2>2, OthersStay, OthersLeaveLock DEF CommitsOwn
  <2>3. CASE q = p
    <3>1. Proceed(p)
      BY <1>1, <2>3, StartNotCommit
    <3>2. ~Fail(p) /\ ~Return(p)
      BY <1>1, <2>3, FailNotCommit, ReturnNotCommit
    <3>3. job[p] \in Jobs /\ Advance(p)
      BY <3>1, <3>2 DEF Proceed, Read, Write, WriteFails, Commit, Work, WorkRaises, At
    <3>4. At(p, "write")
      BY <1>1, <2>3, <3>3, AdvanceToCommit
    <3>5. Write(p)
      BY <3>1, <3>2, <3>4 DEF Proceed, Read, WriteFails, Commit, Work, WorkRaises, At
    <3>6. QED
      BY <2>3, <3>5 DEF Write
  <2>4. QED
    BY <2>2, <2>3
<1>2. CASE MailChanges \/ UNCHANGED vars
  BY <1>2 DEF MailChanges, vars, dbVars, CommitsOwn, At
<1>3. QED
  BY <1>1, <1>2 DEF Next, CommitsOwn

-----------------------------------------------------------------------------
(***************************************************************************)
(* The mark of a tick                                                      *)
(***************************************************************************)
\* Only a watch loop sets the mark, right after build_index() has committed.
MarksClean ==
    \A p \in Procs : job[p] = "mark" =>
        p \in Watchers /\ (step[p] = 1 => txn[ConnOf[p]] = "none")

LEMMA MarkFollowsCommit ==
    ASSUME ControlOK, NEW p \in Procs, job[p] \in Jobs, Advance(p), job'[p] = "mark", step'[p] = 1
    PROVE  p \in Watchers /\ At(p, "commit")
<1>1. step[p] \in Nat /\ step[p] # 0
  BY StepsLength DEF ControlOK
<1>2. ~(step[p] < Len(Steps(job[p])))
  BY <1>1 DEF Advance, Goto, ControlOK
<1>3. job'[p] = After(p, job[p])
  BY <1>2 DEF Advance, Goto, ControlOK
<1>4. p \in Watchers /\ job[p] = "build"
  BY <1>3 DEF After
<1>5. step[p] \in 1..Len(Steps("build"))
  BY <1>4 DEF ControlOK
<1>6. Len(Steps("build")) = 8 /\ Steps("build")[8] = "commit"
  BY DEF Steps, StepsOf, BuildIndex
<1>7. step[p] = 8
  <2> DEFINE n == Len(Steps("build"))
             k == step[p]
  <2>1. n = 8 /\ k \in 1..n /\ ~(k < n)
    BY <1>2, <1>4, <1>5, <1>6
  <2> HIDE DEF n, k
  <2>2. k = 8
    BY <2>1
  <2>3. QED
    BY <2>2 DEF k
<1>8. QED
  BY <1>4, <1>6, <1>7 DEF At

\* Within its mark a job only moves on; nothing else leads into it.
LEMMA MarkEntered ==
    ASSUME ControlOK, MarksClean, NEW p \in Procs, Tick(p) \/ Call(p) \/ Proceed(p),
           job'[p] = "mark"
    PROVE  p \in Watchers /\ (step'[p] = 1 => Commit(p))
<1>1. ~Fail(p)
  BY DEF Fail, AfterFailure, After, Goto, ControlOK
<1>2. ~Return(p) /\ ~Tick(p)
  BY DEF Return, Tick, Goto, ControlOK
<1>3. ~Call(p)
  BY RequestedJobs DEF Call, Goto, ControlOK
<1>4. job[p] \in Jobs /\ Advance(p)
  BY <1>1, <1>2, <1>3 DEF Proceed, Read, Write, WriteFails, Commit, Work, WorkRaises, At
<1>5. p \in Watchers
  <2>1. CASE job[p] = "mark"
    BY <2>1 DEF MarksClean
  <2>2. CASE job[p] # "mark"
    BY <1>4, <2>2 DEF Advance, After, Goto, ControlOK
  <2>3. QED
    BY <2>1, <2>2
<1>6. ASSUME step'[p] = 1 PROVE Commit(p)
  <2>1. At(p, "commit")
    BY <1>4, <1>6, MarkFollowsCommit
  <2>2. QED
    BY <1>1, <1>2, <1>3, <2>1 DEF Proceed, Read, Write, WriteFails, Work, WorkRaises, At
<1>7. QED
  BY <1>5, <1>6

LEMMA OthersLeaveTxn ==
    ASSUME LockOK, NEW p \in Procs, Tick(p) \/ Call(p) \/ Proceed(p),
           NEW c \in Connections, ConnOf[p] # c
    PROVE  txn'[c] = txn[c]
<1>1. ConnOf[p] \in Connections
  BY SessionsAssumption
<1>2. Close(p) => txn'[c] = txn[c]
  BY <1>1 DEF Close, LockOK
<1>3. QED
  BY <1>1, <1>2
     DEF Tick, Call, Proceed, Read, Write, WriteFails, Commit, Work, WorkRaises, dbVars, LockOK

LEMMA MarksCleanStep ==
    ASSUME ControlOK, LockOK, MarksClean, [Next]_vars
    PROVE  MarksClean'
<1>1. ASSUME NEW p \in Procs, Tick(p) \/ Call(p) \/ Proceed(p),
             NEW q \in Procs, job'[q] = "mark"
      PROVE  q \in Watchers /\ (step'[q] = 1 => txn'[ConnOf[q]] = "none")
  <2>1. CASE q = p
    <3>1. q \in Watchers /\ (step'[q] = 1 => Commit(q))
      BY <1>1, <2>1, MarkEntered
    <3>2. Commit(q) => txn'[ConnOf[q]] = "none"
      BY SessionsAssumption DEF Commit, LockOK
    <3>3. QED
      BY <3>1, <3>2
  <2>2. CASE q # p
    <3>1. q \in Watchers /\ (step'[q] = 1 => txn[ConnOf[q]] = "none")
      BY <1>1, <2>2, OthersStayPut DEF MarksClean
    <3>2. ConnOf[q] \in Connections /\ ConnOf[p] # ConnOf[q]
      BY <2>2, <3>1, SessionsAssumption
    <3>3. txn'[ConnOf[q]] = txn[ConnOf[q]]
      BY <1>1, <3>2, OthersLeaveTxn
    <3>4. QED
      BY <3>1, <3>3
  <2>3. QED
    BY <2>1, <2>2
<1>2. CASE MailChanges \/ UNCHANGED vars
  BY <1>2 DEF MailChanges, vars, dbVars, MarksClean
<1>3. QED
  BY <1>1, <1>2 DEF Next, MarksClean

\* A stuck connection is not closed under a failing mark.
LEMMA NoMarkFails ==
    ASSUME ControlOK, MarksClean, NEW p \in Procs, Stuck(ConnOf[p]), WriteFails(p) \/ WorkRaises(p)
    PROVE  job[p] # "mark"
<1> SUFFICES ASSUME job[p] = "mark" PROVE FALSE
  OBVIOUS
<1>1. Steps("mark") = <<"write", "commit">>
  BY DEF Steps, StepsOf, MarkTick
<1>2. step[p] # 1 /\ step[p] \in 1..Len(Steps("mark"))
  BY DEF MarksClean, Stuck, ControlOK, At, WriteFails, WorkRaises
<1>3. At(p, "write") \/ At(p, "work") \/ At(p, "ask")
  BY DEF WriteFails, WorkRaises
<1>4. step[p] = 2
  <2> DEFINE k == step[p]
  <2>1. k # 1 /\ k \in 1..2
    BY <1>1, <1>2
  <2> HIDE DEF k
  <2>2. k = 2
    BY <2>1
  <2>3. QED
    BY <2>2 DEF k
<1>5. QED
  BY <1>1, <1>3, <1>4 DEF At

-----------------------------------------------------------------------------
(***************************************************************************)
(* A connection that is stuck and has no thread left that will commit.     *)
(***************************************************************************)
Lasting == Connections \ {ConnOf[p] : p \in Commands}

Jammed(c) ==
    /\ Stuck(c)
    /\ \A p \in Procs : ConnOf[p] = c => ~At(p, "commit")

LEMMA JammedLock ==
    ASSUME ControlOK, LockOK, MarksClean, NEW c \in Lasting, Jammed(c), NEW p \in Procs, Proceed(p)
    PROVE  Stuck(c)'
<1>1. c \in Connections /\ txn[c] = "reading" /\ behind[c] /\ owner # c
  BY DEF Lasting, Jammed, Stuck, LockOK
<1>2. ConnOf[p] \in Connections /\ (p \in Commands => ConnOf[p] # c)
  BY SessionsAssumption DEF Lasting
<1>3. ConnOf[p] # c /\ Close(p) => txn'[c] = txn[c] /\ behind'[c] = behind[c]
  BY <1>1, <1>2 DEF Close, LockOK
<1>4. txn'[c] = "reading" /\ behind'[c]
  <2>1. CASE ConnOf[p] = c
    <3>1. ~Commit(p) /\ ~Write(p)
      BY <2>1 DEF Commit, Jammed, Write, MayWrite
    <3>2. WriteFails(p) \/ WorkRaises(p) => ~Ends(p)
      BY <1>2, <2>1, NoMarkFails DEF Jammed, Ends
    <3>3. QED
      BY <1>1, <1>2, <2>1, <3>1, <3>2
         DEF Proceed, Read, WriteFails, Work, WorkRaises, dbVars, LockOK
  <2>2. CASE ConnOf[p] # c
    BY <1>1, <1>2, <1>3, <2>2
       DEF Proceed, Read, Write, WriteFails, Commit, Work, WorkRaises, dbVars, LockOK
  <2>3. QED
    BY <2>1, <2>2
<1>5. QED
  BY <1>4 DEF Stuck

LEMMA JammedControl ==
    ASSUME ControlOK, NEW c \in Lasting, Jammed(c),
           NEW p \in Procs, Tick(p) \/ Call(p) \/ Proceed(p),
           NEW q \in Procs, ConnOf[q] = c, At(q, "commit")'
    PROVE  FALSE
<1>1. q = p
  BY OthersStay DEF Jammed
<1>2. Proceed(p) /\ ~Fail(p) /\ ~Return(p)
  BY <1>1, StartNotCommit, FailNotCommit, ReturnNotCommit
<1>3. job[p] \in Jobs /\ Advance(p)
  BY <1>2 DEF Proceed, Read, Write, WriteFails, Commit, Work, WorkRaises, At
<1>4. At(p, "write")
  BY <1>1, <1>3, AdvanceToCommit
<1>5. Write(p)
  BY <1>2, <1>4 DEF Proceed, Read, WriteFails, Commit, Work, WorkRaises, At
<1>6. QED
  BY <1>1, <1>5 DEF Write, MayWrite, Jammed

LEMMA JammedStep ==
    ASSUME ControlOK, LockOK, MarksClean, NEW c \in Lasting, Jammed(c), [Next]_vars
    PROVE  Jammed(c)'
<1>1. ASSUME NEW p \in Procs, Tick(p) \/ Call(p) \/ Proceed(p)
      PROVE  Jammed(c)'
  <2>1. Stuck(c)'
    BY <1>1, JammedLock DEF Tick, Call, dbVars, Jammed, Stuck
  <2>2. \A q \in Procs : ConnOf[q] = c => ~At(q, "commit")'
    BY <1>1, JammedControl
  <2>3. QED
    BY <2>1, <2>2 DEF Jammed
<1>2. CASE MailChanges \/ UNCHANGED vars
  BY <1>2 DEF MailChanges, vars, dbVars, Jammed, Stuck, At
<1>3. QED
  BY <1>1, <1>2 DEF Next

LEMMA MarksStayClean == Spec => []MarksClean
<1>1. Init => MarksClean
  BY DEF Init, MarksClean
<1>2. TypeOK /\ MarksClean /\ [Next]_vars => MarksClean'
  BY MarksCleanStep DEF TypeOK, ControlOK, LockOK
<1>3. QED
  BY <1>1, <1>2, TypeCorrect, PTL DEF Spec

\* The connection of the server or of a watch loop, once another connection has
\* committed past the snapshot it kept open and no thread on it is about to
\* commit, never writes again: every tool that resolves, journals or undoes
\* fails until the process is restarted (server.py:101, core/resolver.py:53).
THEOREM JammedForever ==
    Spec => [][\A c \in Lasting : Jammed(c) => Jammed(c)']_vars
<1> DEFINE Held == \A c \in Lasting : Jammed(c) => Jammed(c)'
<1>1. TypeOK /\ MarksClean /\ [Next]_vars => [Held]_vars
  BY JammedStep DEF TypeOK, ControlOK, LockOK
<1> HIDE DEF Held
<1>2. Spec => [][Held]_vars
  BY <1>1, TypeCorrect, MarksStayClean, PTL DEF Spec
<1>3. QED
  BY <1>2 DEF Held

\* A watcher has its connection alone and commits only what it has written.
LEMMA StuckIsJammed ==
    ASSUME LockOK, CommitsOwn, NEW w \in Watchers, Stuck(ConnOf[w])
    PROVE  ConnOf[w] \in Lasting /\ Jammed(ConnOf[w])
<1>1. w \in Procs /\ w \in Alone /\ ConnOf[w] \in Connections
  BY SessionsAssumption DEF Procs, Alone
<1>2. ConnOf[w] \in Lasting
  BY <1>1, SessionsAssumption DEF Lasting, Procs
<1>3. ~At(w, "commit")
  BY <1>1 DEF Stuck, LockOK, CommitsOwn
<1>4. \A p \in Procs : ConnOf[p] = ConnOf[w] => p = w
  BY SessionsAssumption
<1>5. QED
  BY <1>2, <1>3, <1>4 DEF Jammed

\* Once a commit of another connection has overtaken the snapshot a failed tick
\* left open, the connection of the watch loop stays stuck until the process
\* ends: nothing in tick() rolls it back (read/watcher.py:71-75).
THEOREM StuckForever ==
    Spec => [][\A w \in Watchers : Stuck(ConnOf[w]) => Stuck(ConnOf[w])']_vars
<1> DEFINE Held == \A w \in Watchers : Stuck(ConnOf[w]) => Stuck(ConnOf[w])'
<1>1. TypeOK => ControlOK /\ LockOK
  BY DEF TypeOK, ControlOK, LockOK
<1>2. Init => CommitsOwn
  <2>1. ASSUME Init, NEW p \in Alone PROVE ~At(p, "commit")
    BY <2>1 DEF Init, At, Alone, Procs, Jobs, IndexJobs, Calls
  <2>2. QED
    BY <2>1 DEF CommitsOwn
<1>3. TypeOK /\ CommitsOwn /\ [Next]_vars => CommitsOwn'
  BY <1>1, CommitsOwnStep
<1>4. TypeOK /\ CommitsOwn /\ MarksClean /\ [Next]_vars => [Held]_vars
  BY <1>1, StuckIsJammed, JammedStep DEF Jammed
<1> HIDE DEF Held
<1>5. Spec => [][Held]_vars
  BY <1>2, <1>3, <1>4, TypeCorrect, MarksStayClean, PTL DEF Spec
<1>6. QED
  BY <1>5 DEF Held

=============================================================================
