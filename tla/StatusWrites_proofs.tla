------------------------ MODULE StatusWrites_proofs ------------------------
(***************************************************************************)
(* Proofs about StatusWrites: the type invariant, that a row marked undone *)
(* means the old status is back, and that no batch journals a colour of    *)
(* its own as the colour before it.                                        *)
(***************************************************************************)
EXTENDS StatusWrites, NaturalsInduction, WellFoundedInduction, TLAPS

(***************************************************************************)
(* The first and the newest of some places                                 *)
(***************************************************************************)
LEMMA FirstIn ==
    ASSUME NEW S, S \subseteq Nat, S # {}
    PROVE  FirstOf(S) \in S
<1>1. \E x \in S : \A y \in S : ~(<<y, x>> \in OpToRel(<, Nat))
  BY NatLessThanWellFounded, WFMin, Zenon
<1>2. ASSUME NEW x \in S, NEW y \in S, ~(<<y, x>> \in OpToRel(<, Nat))
      PROVE  x <= y
  <2>1. ~(y < x)
    BY <1>2, Zenon DEF OpToRel
  <2>2. QED
    BY <2>1
<1>3. \E x \in S : \A y \in S : x <= y
  BY <1>1, <1>2
<1>4. QED
  BY <1>3 DEF FirstOf

\* Bounded places have a last one.
LEMMA LastIn ==
    ASSUME NEW n \in Nat, NEW S, S \subseteq 1..n, S # {}
    PROVE  (CHOOSE i \in S : \A j \in S : j <= i) \in S
<1> DEFINE T == {n - i : i \in S}
<1>1. T \subseteq Nat /\ T # {}
  <2>1. ASSUME NEW i \in S PROVE n - i \in Nat
    <3>1. i \in 1..n
      OBVIOUS
    <3>2. QED
      BY <3>1
  <2>2. QED
    BY <2>1
<1>2. FirstOf(T) \in T
  BY <1>1, FirstIn
<1>3. \A t \in T : FirstOf(T) <= t
  <2>1. \E x \in T : \A y \in T : x <= y
    <3>1. \E x \in T : \A y \in T : ~(<<y, x>> \in OpToRel(<, Nat))
      BY <1>1, NatLessThanWellFounded, WFMin, Zenon
    <3>2. ASSUME NEW x \in T, NEW y \in T, ~(<<y, x>> \in OpToRel(<, Nat))
          PROVE  x <= y
      <4>1. ~(y < x)
        BY <1>1, <3>2, Zenon DEF OpToRel
      <4>2. x \in Nat /\ y \in Nat
        BY <1>1
      <4>3. QED
        BY <4>1, <4>2
    <3>3. QED
      BY <3>1, <3>2
  <2>2. QED
    BY <2>1 DEF FirstOf
<1>4. PICK i \in S : n - i = FirstOf(T)
  BY <1>2
<1>5. \A j \in S : j <= i
  <2>1. ASSUME NEW j \in S PROVE j <= i
    <3>1. n - i <= n - j
      BY <1>3, <1>4
    <3>2. QED
      BY <3>1
  <2>2. QED
    BY <2>1
<1>6. QED
  BY <1>5

-----------------------------------------------------------------------------
(***************************************************************************)
(* The invariant behind the types                                          *)
(***************************************************************************)
Calls == [pc: {"idle", "apply", "journal", "undo_read", "undo_flag", "mark"},
          req: Requests \cup {None}, todo: SUBSET Nat, done: SUBSET Ids, no: Nat,
          rows: SUBSET DOMAIN journal, was: Statuses \cup {None},
          seen: [Ids -> Colors \cup {None}] \cup {None}, quiet: BOOLEAN]

Orders == [id: Ids, action: Actions, color: Colors \cup {None}, entry: Nat]

\* A running call still has the request, the messages or the rows it works on.
CallHolds ==
    /\ call.pc \in {"apply", "journal"} =>
          /\ call.req \in Requests /\ call.req.op \in Actions
          /\ call.todo \subseteq DOMAIN call.req.ids
    /\ call.pc = "journal" => call.todo # {} /\ call.was \in Statuses
    /\ Undoing => call.rows # {}

\* A script given up on has the colour it sets, and if it belongs to an undo
\* it restores what its row says.
LateHolds ==
    \A o \in late :
        /\ o.action = "set_flag_color" => o.color \in Colors
        /\ o.entry # 0 => /\ o.entry \in DOMAIN journal /\ journal[o.entry].prev # None
                          /\ o = ReadOrder(o.entry) \/ o = FlagOrder(o.entry)

StatusTyped == TypeOK /\ CallHolds /\ LateHolds

LEMMA InitTyped == Init => StatusTyped
<1>1. SUFFICES ASSUME Init PROVE StatusTyped
  OBVIOUS
<1>2. \A id \in Ids : mail[id] \in Statuses
  BY <1>1, StatusAssumption DEF Init
<1>3. row \in [Ids -> Rows \cup {None}]
  <2>1. ASSUME NEW id \in Ids PROVE row[id] \in Rows
    BY <1>1, <1>2, <2>1 DEF Init, Rows, Statuses
  <2>2. QED
    BY <1>1, <2>1 DEF Init
<1>4. Idle \in Calls
  BY DEF Idle, Calls
<1>5. journal \in Seq(Entry) /\ mail \in [Ids -> Statuses]
  BY <1>1, StatusAssumption DEF Init
<1>6. call \in Calls
  BY <1>1, <1>4 DEF Init
<1>7. TypeOK
  BY <1>1, <1>3, <1>5, <1>6, StatusAssumption DEF Init, TypeOK, Calls
<1>8. CallHolds /\ LateHolds
  BY <1>1 DEF Init, CallHolds, LateHolds, Idle, Undoing
<1>9. QED
  BY <1>7, <1>8 DEF StatusTyped

\* What an order makes of a status is a status.
LEMMA AfterIsStatus ==
    ASSUME NEW s \in Statuses, NEW o \in Orders,
           o.action = "set_flag_color" => o.color \in Colors
    PROVE  After(s, o) \in Statuses
  BY StatusAssumption DEF After, Statuses, Orders, Actions

LEMMA SetType ==
    ASSUME TypeOK, NEW id \in Ids, NEW s \in Statuses, SetStatus(id, s)
    PROVE  mail' \in [Ids -> Statuses] /\ stale' \subseteq Ids
  BY DEF TypeOK, SetStatus

\* The outcomes of one JXA call.
LEMMA JxaOutcome ==
    ASSUME TypeOK, NEW o \in Orders, o.action = "set_flag_color" => o.color \in Colors,
           NEW won, NEW lost, Jxa(o, won, lost)
    PROVE  /\ mail' \in [Ids -> Statuses] /\ stale' \subseteq Ids /\ faults' \in 0..MaxFaults
           /\ late' \in {late, late \cup {o}}
           /\ \/ call' = won /\ mail' = [mail EXCEPT ![o.id] = After(mail[o.id], o)] /\ late' = late
              \/ call' = lost /\ mail' = mail
<1>1. o.id \in Ids /\ After(mail[o.id], o) \in Statuses
  BY AfterIsStatus DEF TypeOK, Orders
<1>2. CASE SetStatus(o.id, After(mail[o.id], o)) /\ call' = won /\ UNCHANGED <<late, faults>>
  BY <1>1, <1>2, SetType DEF TypeOK, SetStatus
<1>3. CASE Fault("fail") /\ call' = lost /\ UNCHANGED <<mail, stale, late>>
  BY <1>3, StatusAssumption DEF TypeOK, Fault
<1>4. CASE Fault("timeout") /\ late' = late \cup {o} /\ call' = lost /\ UNCHANGED <<mail, stale>>
  BY <1>4, StatusAssumption DEF TypeOK, Fault
<1>5. QED
  BY <1>2, <1>3, <1>4 DEF Jxa

\* The message a batch is at, and the order it gives.
LEMMA NextIsMessage ==
    ASSUME StatusTyped, call.pc \in {"apply", "journal"}, call.todo # {}
    PROVE  /\ NextId \in Ids
           /\ FirstOf(call.todo) \in call.todo
           /\ LET o == Order(NextId, call.req.op, call.req.color, 0)
              IN  o \in Orders /\ (o.action = "set_flag_color" => o.color \in Colors) /\ o.entry = 0
<1>1. /\ call.req \in Requests /\ call.req.op \in Actions
      /\ call.todo \subseteq DOMAIN call.req.ids
  BY DEF StatusTyped, CallHolds
<1>2. call.req.ids \in Seq(Ids) /\ call.req.color \in Colors \cup {None}
      /\ (call.req.op = "set_flag_color" => call.req.color \in Colors)
  BY <1>1, StatusAssumption
<1>3. FirstOf(call.todo) \in call.todo
  <2>1. call.todo \subseteq Nat
    BY <1>1, <1>2
  <2>2. QED
    BY <2>1, FirstIn
<1>4. NextId \in Ids
  BY <1>1, <1>2, <1>3 DEF NextId
<1>5. QED
  BY <1>1, <1>2, <1>3, <1>4 DEF Order, Orders

\* The row an undo is at, and the orders it gives.
LEMMA RowIsEntry ==
    ASSUME StatusTyped, Undoing
    PROVE  LET i == FirstOf(call.rows)
           IN  i \in call.rows /\ i \in DOMAIN journal /\ i \in Nat \ {0} /\ journal[i] \in Entry
<1>1. call.rows # {} /\ call.rows \subseteq DOMAIN journal /\ journal \in Seq(Entry)
  BY DEF StatusTyped, CallHolds, TypeOK
<1>2. call.rows \subseteq Nat
  BY <1>1
<1>3. FirstOf(call.rows) \in call.rows
  BY <1>1, <1>2, FirstIn
<1>4. QED
  BY <1>1, <1>3

LEMMA UndoOrders ==
    ASSUME TypeOK, NEW i \in DOMAIN journal, journal[i].prev # None
    PROVE  /\ ReadOrder(i) \in Orders /\ FlagOrder(i) \in Orders
           /\ ReadOrder(i).entry = i /\ FlagOrder(i).entry = i
           /\ ReadOrder(i).action # "set_flag_color"
           /\ FlagOrder(i).action = "set_flag_color" => FlagOrder(i).color \in Colors
<1>1. journal[i] \in Entry /\ i \in Nat
  BY DEF TypeOK
<1>2. journal[i].id \in Ids /\ journal[i].prev \in Rows
  BY <1>1 DEF Entry
<1>3. journal[i].prev.color \in Colors \cup {None}
  BY <1>2 DEF Rows
<1>4. QED
  BY <1>1, <1>2, <1>3 DEF ReadOrder, FlagOrder, Order, Orders, Actions

-----------------------------------------------------------------------------
(***************************************************************************)
(* The types, step by step                                                 *)
(***************************************************************************)
\* The call is typed in terms of the journal it works on.
LEMMA CallsStay ==
    ASSUME NEW c \in Calls, DOMAIN journal \subseteq DOMAIN journal'
    PROVE  c \in Calls'
  BY DEF Calls

\* The orders given up on stay well-formed while journal rows only grow or
\* get marked.
SameEntry(i) ==
    /\ journal'[i].id = journal[i].id /\ journal'[i].prev = journal[i].prev
    /\ journal'[i].before = journal[i].before

LEMMA LateStays ==
    ASSUME LateHolds, TypeOK, DOMAIN journal \subseteq DOMAIN journal',
           \A i \in DOMAIN journal : SameEntry(i), late' \subseteq late
    PROVE  LateHolds'
<1>1. ASSUME NEW i \in DOMAIN journal
      PROVE  ReadOrder(i)' = ReadOrder(i) /\ FlagOrder(i)' = FlagOrder(i)
  BY <1>1 DEF SameEntry, ReadOrder, FlagOrder, Order
<1>2. ASSUME NEW o \in late'
      PROVE  /\ o.action = "set_flag_color" => o.color \in Colors
             /\ o.entry # 0 => /\ o.entry \in DOMAIN journal' /\ journal'[o.entry].prev # None
                               /\ o = ReadOrder(o.entry)' \/ o = FlagOrder(o.entry)'
  <2>1. o \in late
    BY <1>2
  <2>2. QED
    BY <1>1, <2>1 DEF LateHolds, SameEntry
<1>3. QED
  BY <1>2 DEF LateHolds

\* Steps of everybody but the calls.
LEMMA DisturbType ==
    ASSUME StatusTyped, NEW id \in Ids, Disturb(id), UNCHANGED journal
    PROVE  call' \in Calls' /\ CallHolds'
<1>1. PICK q \in BOOLEAN : q = (call.quiet /\ ~(Undoing /\ journal[FirstOf(call.rows)].id = id))
  OBVIOUS
<1>2. call \in Calls
  BY DEF StatusTyped, TypeOK, Calls
<1>3. call' = [call EXCEPT !.quiet = q]
  BY <1>1 DEF Disturb
<1>4. call' \in Calls
  BY <1>2, <1>3 DEF Calls
<1>5. /\ call'.pc = call.pc /\ call'.req = call.req /\ call'.todo = call.todo
      /\ call'.rows = call.rows /\ call'.was = call.was
  BY <1>2, <1>3 DEF Calls
<1>6. QED
  BY <1>4, <1>5 DEF StatusTyped, CallHolds, Undoing, Calls

LEMMA UserType == StatusTyped /\ User => StatusTyped'
<1>1. SUFFICES ASSUME StatusTyped, User PROVE StatusTyped'
  OBVIOUS
<1>2. PICK id \in Ids, s \in UserSets : SetStatus(id, s) /\ Disturb(id)
  BY <1>1 DEF User
<1>3. mail' \in [Ids -> Statuses] /\ stale' \subseteq Ids
  BY <1>1, <1>2, SetType, StatusAssumption DEF StatusTyped
<1>4. call' \in Calls' /\ CallHolds'
  BY <1>1, <1>2, DisturbType DEF User
<1>5. UNCHANGED <<row, journal, late, readOnly, calls, faults>> /\ user' \in 0..MaxUser
  BY <1>1, StatusAssumption DEF User, StatusTyped, TypeOK
<1>6. LateHolds'
  BY <1>1, <1>5, LateStays DEF StatusTyped, SameEntry
<1>7. QED
  BY <1>1, <1>3, <1>4, <1>5, <1>6 DEF StatusTyped, TypeOK, Calls

LEMMA LandType == StatusTyped /\ Land => StatusTyped'
<1>1. SUFFICES ASSUME StatusTyped, Land PROVE StatusTyped'
  OBVIOUS
<1>2. PICK o \in late : /\ late' = late \ {o}
                        /\ SetStatus(o.id, After(mail[o.id], o))
                        /\ UNCHANGED call \/ Disturb(o.id)
  BY <1>1 DEF Land
<1>3. o \in Orders /\ (o.action = "set_flag_color" => o.color \in Colors)
  BY <1>1, <1>2 DEF StatusTyped, TypeOK, Orders, LateHolds
<1>4. o.id \in Ids /\ After(mail[o.id], o) \in Statuses
  BY <1>1, <1>3, AfterIsStatus DEF StatusTyped, TypeOK, Orders
<1>5. mail' \in [Ids -> Statuses] /\ stale' \subseteq Ids
  BY <1>1, <1>2, <1>4, SetType DEF StatusTyped
<1>6. UNCHANGED <<row, journal, readOnly, calls, user, faults>>
  BY <1>1 DEF Land
<1>7. call' \in Calls' /\ CallHolds'
  <2>1. CASE UNCHANGED call
    BY <1>1, <1>6, <2>1 DEF StatusTyped, TypeOK, Calls, CallHolds, Undoing
  <2>2. CASE Disturb(o.id)
    BY <1>1, <1>4, <1>6, <2>2, DisturbType
  <2>3. QED
    BY <1>2, <2>1, <2>2
<1>8. LateHolds'
  BY <1>1, <1>2, <1>6, LateStays DEF StatusTyped, SameEntry
<1>9. QED
  BY <1>1, <1>2, <1>5, <1>6, <1>7, <1>8 DEF StatusTyped, TypeOK, Calls

LEMMA WatcherType ==
    ASSUME StatusTyped, NEW id \in Ids, Reindex(id) \/ Lose(id)
    PROVE  StatusTyped'
<1>1. Indexed(id) \in Rows
  BY DEF Indexed, StatusTyped, TypeOK, Statuses, Rows
<1>2. row' \in [Ids -> Rows \cup {None}] /\ stale' \subseteq Ids /\ user' \in 0..MaxUser
  <2>1. CASE Reindex(id)
    BY <1>1, <2>1 DEF Reindex, StatusTyped, TypeOK
  <2>2. CASE Lose(id)
    BY <2>2, StatusAssumption DEF Lose, StatusTyped, TypeOK
  <2>3. QED
    BY <2>1, <2>2
<1>3. UNCHANGED <<mail, journal, late, readOnly, call, calls, faults>>
  BY DEF Reindex, Lose
<1>4. CallHolds' /\ LateHolds'
  BY <1>3, LateStays DEF StatusTyped, SameEntry, CallHolds, Undoing
<1>5. QED
  BY <1>2, <1>3, <1>4 DEF StatusTyped, TypeOK

\* A call that ends, or never begins, holds nothing.
LEMMA IdleHolds ==
    ASSUME call' = Idle
    PROVE  call' \in Calls' /\ CallHolds'
  BY DEF Idle, Calls, CallHolds, Undoing

LEMMA UpdateType ==
    ASSUME StatusTyped, NEW req \in Requests, Update(req)
    PROVE  StatusTyped'
<1>1. PICK lost \in SUBSET Range(req.ids) :
         LET resolved == {i \in DOMAIN req.ids : req.ids[i] \notin lost}
         IN  /\ IF lost = {} THEN UNCHANGED faults ELSE Fault("unresolved")
             /\ \/ call' = Idle
                \/ call' = [Idle EXCEPT !.pc = "apply", !.req = req, !.todo = resolved,
                                  !.no = calls + 1,
                                  !.seen = [id \in Ids |-> IF row[id] = None THEN None
                                                           ELSE row[id].color]]
  BY DEF Update
<1>2. UNCHANGED <<mail, stale, row, journal, late, readOnly, user>>
      /\ calls' \in 0..MaxCalls /\ faults' \in 0..MaxFaults
  <2>1. UNCHANGED <<mail, stale, row, journal, late, readOnly, user>>
        /\ calls < MaxCalls /\ calls' = calls + 1
    BY DEF Update
  <2>2. faults' = faults \/ (faults < MaxFaults /\ faults' = faults + 1)
    BY <1>1 DEF Fault
  <2>3. QED
    BY <2>1, <2>2, StatusAssumption DEF StatusTyped, TypeOK
<1>3. call' \in Calls' /\ CallHolds'
  <2>1. CASE call' = Idle
    BY <2>1, IdleHolds
  <2>2. CASE call' # Idle
    <3>1. PICK seen : seen = [id \in Ids |-> IF row[id] = None THEN None ELSE row[id].color]
      OBVIOUS
    <3>2. seen \in [Ids -> Colors \cup {None}]
      BY <3>1 DEF StatusTyped, TypeOK, Rows
    <3>3. PICK todo : todo = {i \in DOMAIN req.ids : req.ids[i] \notin lost}
      OBVIOUS
    <3>4. todo \subseteq DOMAIN req.ids /\ todo \subseteq Nat
      <4>1. req.ids \in Seq(Ids)
        BY StatusAssumption
      <4>2. DOMAIN req.ids \subseteq Nat
        BY <4>1
      <4>3. QED
        BY <3>3, <4>2
    <3>5. PICK no \in Nat : no = calls + 1
      BY StatusAssumption DEF StatusTyped, TypeOK
    <3>6. call' = [Idle EXCEPT !.pc = "apply", !.req = req, !.todo = todo, !.no = no, !.seen = seen]
      BY <1>1, <2>2, <3>1, <3>3, <3>5, Zenon
    <3>7. call' = [pc |-> "apply", req |-> req, todo |-> todo, done |-> {}, no |-> no,
                   rows |-> {}, was |-> None, seen |-> seen, quiet |-> TRUE]
      BY <3>6 DEF Idle
    <3>8. req.op \in Actions
      BY DEF Update
    <3>9. QED
      BY <3>2, <3>4, <3>7, <3>8 DEF Calls, CallHolds, Undoing
  <2>3. QED
    BY <2>1, <2>2
<1>4. LateHolds'
  BY <1>2, LateStays DEF StatusTyped, SameEntry
<1>5. QED
  BY <1>2, <1>3, <1>4 DEF StatusTyped, TypeOK, Calls

\* One more script is given up on.
LEMMA LateGrows ==
    ASSUME LateHolds, NEW o, UNCHANGED journal, late' \in {late, late \cup {o}},
           o.action = "set_flag_color" => o.color \in Colors,
           o.entry # 0 => /\ o.entry \in DOMAIN journal /\ journal[o.entry].prev # None
                          /\ o = ReadOrder(o.entry) \/ o = FlagOrder(o.entry)
    PROVE  LateHolds'
<1>1. \A i : ReadOrder(i)' = ReadOrder(i) /\ FlagOrder(i)' = FlagOrder(i)
  BY DEF ReadOrder, FlagOrder, Order
<1>2. QED
  BY <1>1 DEF LateHolds

\* A call that moves on within what it holds.
LEMMA ApplyType == StatusTyped /\ Apply => StatusTyped'
<1>1. SUFFICES ASSUME StatusTyped, Apply PROVE StatusTyped'
  OBVIOUS
<1>2. /\ NextId \in Ids /\ FirstOf(call.todo) \in call.todo
      /\ call.pc = "apply" /\ call.todo # {} /\ call \in Calls
  BY <1>1, NextIsMessage DEF Apply, StatusTyped, TypeOK, Calls
<1>3. PICK o \in Orders : /\ o = Order(NextId, call.req.op, call.req.color, 0)
                          /\ o.action = "set_flag_color" => o.color \in Colors
                          /\ o.entry = 0
  BY <1>1, <1>2, NextIsMessage
<1>4. PICK was \in Statuses : was = mail[NextId]
  BY <1>1, <1>2 DEF StatusTyped, TypeOK
<1>5. PICK todo \in SUBSET call.todo : todo = call.todo \ {FirstOf(call.todo)}
  OBVIOUS
<1>6. PICK won \in Calls : won = [call EXCEPT !.pc = "journal", !.was = was]
  BY <1>2 DEF Calls
<1>7. PICK lost \in Calls : lost = [call EXCEPT !.todo = todo]
  BY <1>2, <1>5 DEF Calls
<1>8. Jxa(o, won, lost)
  BY <1>1, <1>3, <1>4, <1>5, <1>6, <1>7, Zenon DEF Apply
<1>9. /\ mail' \in [Ids -> Statuses] /\ stale' \subseteq Ids /\ faults' \in 0..MaxFaults
      /\ late' \in {late, late \cup {o}} /\ call' \in {won, lost}
  BY <1>1, <1>3, <1>8, JxaOutcome DEF StatusTyped
<1>10. UNCHANGED <<row, journal, readOnly, calls, user>>
  BY <1>1 DEF Apply
<1>11. /\ call' \in Calls /\ call'.req = call.req /\ call'.todo \subseteq call.todo
       /\ \/ call'.pc = "apply"
          \/ call'.pc = "journal" /\ call'.todo # {} /\ call'.was \in Statuses
  BY <1>2, <1>5, <1>6, <1>7, <1>9 DEF Calls
<1>12. call' \in Calls' /\ CallHolds'
  BY <1>1, <1>2, <1>10, <1>11 DEF StatusTyped, CallHolds, Undoing, Calls
<1>13. LateHolds'
  BY <1>1, <1>3, <1>9, <1>10, LateGrows DEF StatusTyped
<1>14. late' \subseteq Orders
  BY <1>1, <1>9 DEF StatusTyped, TypeOK, Orders
<1>15. QED
  BY <1>1, <1>9, <1>10, <1>12, <1>13, <1>14 DEF StatusTyped, TypeOK, Calls, Orders

LEMMA JournalType == StatusTyped /\ Journal => StatusTyped'
<1>1. SUFFICES ASSUME StatusTyped, Journal PROVE StatusTyped'
  OBVIOUS
<1>2. /\ NextId \in Ids /\ FirstOf(call.todo) \in call.todo
      /\ call.pc = "journal" /\ call \in Calls /\ call.req.op \in Actions /\ call.was \in Statuses
  BY <1>1, NextIsMessage DEF Journal, StatusTyped, TypeOK, Calls, CallHolds
<1>3. PICK e \in Entry :
        e = [batch |-> call.no, op |-> call.req.op, id |-> NextId, prev |-> prior_state(NextId),
             undone |-> FALSE, before |-> call.was]
  BY <1>1, <1>2 DEF Entry, prior_state, StatusTyped, TypeOK, Calls
<1>4. journal' = Append(journal, e)
  BY <1>1, <1>3 DEF Journal
<1>5. journal \in Seq(Entry) /\ journal' \in Seq(Entry)
  BY <1>1, <1>4 DEF StatusTyped, TypeOK
<1>6. DOMAIN journal \subseteq DOMAIN journal' /\ \A i \in DOMAIN journal : SameEntry(i)
  BY <1>4, <1>5 DEF SameEntry
<1>7. UNCHANGED <<mail, stale, row, late, readOnly, calls, user>> /\ faults' \in 0..MaxFaults
  BY <1>1, StatusAssumption DEF Journal, Fault, StatusTyped, TypeOK
<1>8. PICK todo \in SUBSET call.todo : todo = call.todo \ {FirstOf(call.todo)}
  OBVIOUS
<1>9. PICK done \in SUBSET Ids : done = call.done \cup {NextId}
  BY <1>2 DEF Calls
<1>10. call' = [call EXCEPT !.pc = "apply", !.todo = todo, !.done = done] \/ call' = Idle
  BY <1>1, <1>8, <1>9 DEF Journal
<1>11. CASE call' = Idle
  <2>1. LateHolds'
    BY <1>1, <1>6, <1>7, LateStays DEF StatusTyped
  <2>2. QED
    BY <1>1, <1>5, <1>7, <1>11, <2>1, IdleHolds DEF StatusTyped, TypeOK, Calls
<1>12. CASE call' = [call EXCEPT !.pc = "apply", !.todo = todo, !.done = done]
  <2>1. call' \in Calls /\ call'.pc = "apply" /\ call'.req = call.req
        /\ call'.todo \subseteq call.todo
    BY <1>2, <1>8, <1>12 DEF Calls
  <2>2. call' \in Calls'
    <3>1. call.rows \subseteq DOMAIN journal'
      BY <1>2, <1>6 DEF Calls
    <3>2. QED
      BY <1>6, <2>1 DEF Calls
  <2>3. CallHolds'
    BY <1>1, <1>2, <2>1 DEF StatusTyped, CallHolds, Undoing
  <2>4. LateHolds'
    BY <1>1, <1>6, <1>7, LateStays DEF StatusTyped
  <2>5. QED
    BY <1>1, <1>5, <1>7, <2>2, <2>3, <2>4 DEF StatusTyped, TypeOK, Calls
<1>13. QED
  BY <1>10, <1>11, <1>12

\* A write that waits too long ends the call.
LEMMA LockedType == StatusTyped /\ Locked => StatusTyped'
<1>1. SUFFICES ASSUME StatusTyped, Locked PROVE StatusTyped'
  OBVIOUS
<1>2. /\ UNCHANGED <<mail, stale, row, journal, late, readOnly, calls, user>>
      /\ call' = Idle /\ faults' \in 0..MaxFaults
  BY <1>1, StatusAssumption DEF Locked, Fault, StatusTyped, TypeOK
<1>3. LateHolds'
  BY <1>1, <1>2, LateStays DEF StatusTyped, SameEntry
<1>4. QED
  BY <1>1, <1>2, <1>3, IdleHolds DEF StatusTyped, TypeOK, Calls

\* The optimistic update leaves rows behind.
LEMMA ColoredIsRow ==
    ASSUME NEW r \in Rows \cup {None}, NEW req, req.op = "set_flag_color" => req.color \in Colors
    PROVE  Colored(req, r) \in Rows \cup {None}
<1>1. CASE r = None
  BY <1>1 DEF Colored
<1>2. CASE r \in Rows /\ r # None
  <2>1. [read |-> r.read, flagged |-> TRUE, color |-> req.color] \in Rows \/ req.op # "set_flag_color"
    BY <1>2 DEF Rows
  <2>2. [r EXCEPT !.color = None] \in Rows
    BY <1>2 DEF Rows
  <2>3. QED
    BY <1>2, <2>1, <2>2 DEF Colored
<1>3. QED
  BY <1>1, <1>2

LEMMA UpdateIndexType == StatusTyped /\ UpdateIndex => StatusTyped'
<1>1. SUFFICES ASSUME StatusTyped, UpdateIndex PROVE StatusTyped'
  OBVIOUS
<1>2. call.req \in Requests
  BY <1>1 DEF StatusTyped, CallHolds, UpdateIndex
<1>3. call.req.op = "set_flag_color" => call.req.color \in Colors
  BY <1>2, StatusAssumption
<1>4. ASSUME NEW id \in Ids PROVE row'[id] \in Rows \cup {None}
  <2>1. row[id] \in Rows \cup {None}
    BY <1>1 DEF StatusTyped, TypeOK
  <2>2. row'[id] \in {Colored(call.req, row[id]), row[id]}
    BY <1>1 DEF UpdateIndex
  <2>3. Colored(call.req, row[id]) \in Rows \cup {None}
    BY <1>3, <2>1, ColoredIsRow
  <2>4. QED
    BY <2>1, <2>2, <2>3
<1>5. row' \in [Ids -> Rows \cup {None}]
  BY <1>1, <1>4 DEF UpdateIndex
<1>6. UNCHANGED <<mail, stale, journal, late, readOnly, calls, user, faults>> /\ call' = Idle
  BY <1>1 DEF UpdateIndex
<1>7. LateHolds'
  BY <1>1, <1>6, LateStays DEF StatusTyped, SameEntry
<1>8. QED
  BY <1>1, <1>5, <1>6, <1>7, IdleHolds DEF StatusTyped, TypeOK, Calls

LEMMA UndoType ==
    ASSUME StatusTyped, NEW req \in Requests, Undo(req)
    PROVE  StatusTyped'
<1>1. UNCHANGED <<mail, stale, row, journal, late, readOnly, user, faults>>
      /\ calls' \in 0..MaxCalls
  <2>1. calls < MaxCalls /\ calls' = calls + 1
    BY DEF Undo
  <2>2. calls' \in 0..MaxCalls
    BY <2>1, StatusAssumption DEF StatusTyped, TypeOK
  <2>3. QED
    BY <2>2 DEF Undo
<1>2. call' \in Calls' /\ CallHolds'
  <2>1. CASE call' = Idle
    BY <2>1, IdleHolds
  <2>2. CASE call' # Idle
    <3>1. PICK newest : newest = (CHOOSE i \in Pending : \A j \in Pending : j <= i)
      OBVIOUS
    <3>2. PICK rows : rows = {i \in Pending : journal[i].batch = journal[newest].batch}
      OBVIOUS
    <3>3. Pending # {} /\ call' = [Idle EXCEPT !.pc = "undo_read", !.req = req, !.rows = rows]
      BY <2>2, <3>1, <3>2, Zenon DEF Undo
    <3>4. journal \in Seq(Entry)
      BY DEF StatusTyped, TypeOK
    <3>5. Pending \subseteq 1..Len(journal) /\ Len(journal) \in Nat
      BY <3>4 DEF Pending
    <3>6. newest \in Pending
      BY <3>1, <3>3, <3>5, LastIn
    <3>7. rows # {} /\ rows \subseteq DOMAIN journal
      BY <3>2, <3>6 DEF Pending
    <3>8. call' = [pc |-> "undo_read", req |-> req, todo |-> {}, done |-> {}, no |-> 0,
                   rows |-> rows, was |-> None, seen |-> None, quiet |-> TRUE]
      BY <3>3 DEF Idle
    <3>9. QED
      BY <1>1, <3>7, <3>8 DEF Calls, CallHolds, Undoing
  <2>3. QED
    BY <2>1, <2>2
<1>3. LateHolds'
  BY <1>1, LateStays DEF StatusTyped, SameEntry
<1>4. QED
  BY <1>1, <1>2, <1>3 DEF StatusTyped, TypeOK, Calls

\* Where an undo goes on: at the next row, or it ends.
LEMMA NextRowHolds ==
    ASSUME StatusTyped
    PROVE  /\ NextRow \in Calls /\ NextRow.pc \in {"idle", "undo_read"}
           /\ NextRow.pc = "undo_read" => NextRow.rows # {}
<1>1. CASE NextRow = Idle
  BY <1>1 DEF Idle, Calls
<1>2. CASE NextRow # Idle
  <2>1. PICK rest : rest = call.rows \ {FirstOf(call.rows)}
    OBVIOUS
  <2>2. rest # {} /\ NextRow = [call EXCEPT !.pc = "undo_read", !.rows = rest, !.quiet = TRUE]
    BY <1>2, <2>1 DEF NextRow
  <2>3. call \in Calls
    BY DEF StatusTyped, TypeOK, Calls
  <2>4. rest \subseteq DOMAIN journal
    BY <2>1, <2>3 DEF Calls
  <2>5. QED
    BY <2>2, <2>3, <2>4 DEF Calls
<1>3. QED
  BY <1>1, <1>2

\* The JXA call of an undo, and what it leaves behind.
LEMMA RestoreType ==
    ASSUME StatusTyped, RestoreRead \/ RestoreFlag
    PROVE  StatusTyped'
<1>1. call.pc \in {"undo_read", "undo_flag"} /\ call \in Calls
      /\ UNCHANGED <<row, journal, readOnly, calls, user>>
  BY DEF RestoreRead, RestoreFlag, StatusTyped, TypeOK, Calls
<1>2. PICK i \in DOMAIN journal : i = FirstOf(call.rows)
  BY <1>1, RowIsEntry DEF Undoing
<1>3. i \in Nat \ {0} /\ call.rows # {}
  BY <1>1, <1>2, RowIsEntry DEF Undoing, StatusTyped, CallHolds
<1>4. PICK pc \in {"undo_flag", "mark"} :
        pc = IF call.pc = "undo_read" THEN "undo_flag" ELSE "mark"
  OBVIOUS
<1>5. PICK won \in Calls : won = [call EXCEPT !.pc = pc]
  BY <1>1 DEF Calls
<1>6. won.pc \in {"undo_flag", "mark"} /\ won.rows # {}
  BY <1>1, <1>3, <1>5 DEF Calls
<1>7. PICK lost \in Calls : lost = NextRow /\ lost.pc \in {"idle", "undo_read"}
                            /\ (lost.pc = "undo_read" => lost.rows # {})
  BY NextRowHolds
<1>8. /\ mail' \in [Ids -> Statuses] /\ stale' \subseteq Ids /\ faults' \in 0..MaxFaults
      /\ late' \subseteq Orders /\ call' \in {won, lost} /\ LateHolds'
  <2>0. CASE call' = lost /\ Fault("unresolved") /\ UNCHANGED <<mail, stale, late>>
    <3>1. LateHolds'
      BY <1>1, <2>0, LateStays DEF StatusTyped, SameEntry
    <3>2. faults' \in 0..MaxFaults
      BY <2>0, StatusAssumption DEF Fault, StatusTyped, TypeOK
    <3>3. QED
      BY <2>0, <3>1, <3>2 DEF StatusTyped, TypeOK, Orders
  <2>1. CASE call' = won /\ UNCHANGED <<mail, stale, late, faults>>
    <3>1. LateHolds'
      BY <1>1, <2>1, LateStays DEF StatusTyped, SameEntry
    <3>2. QED
      BY <2>1, <3>1 DEF StatusTyped, TypeOK, Orders
  <2>2. CASE /\ journal[i].prev # None
             /\ \/ call.pc = "undo_read" /\ Jxa(ReadOrder(i), won, lost)
                \/ call.pc = "undo_flag" /\ Jxa(FlagOrder(i), won, lost)
    <3>1. PICK o \in Orders : /\ o = IF call.pc = "undo_read" THEN ReadOrder(i) ELSE FlagOrder(i)
                              /\ o.action = "set_flag_color" => o.color \in Colors
                              /\ o.entry = i
      BY <2>2, UndoOrders DEF StatusTyped
    <3>2. Jxa(o, won, lost)
      BY <2>2, <3>1
    <3>3. /\ mail' \in [Ids -> Statuses] /\ stale' \subseteq Ids /\ faults' \in 0..MaxFaults
          /\ late' \in {late, late \cup {o}} /\ call' \in {won, lost}
      BY <3>1, <3>2, JxaOutcome DEF StatusTyped
    <3>4. LateHolds'
      BY <1>1, <2>2, <3>1, <3>3, LateGrows DEF StatusTyped
    <3>5. QED
      BY <3>3, <3>4 DEF StatusTyped, TypeOK, Orders
  <2>3. CASE RestoreRead
    BY <1>2, <1>4, <1>5, <1>7, <2>0, <2>1, <2>2, <2>3 DEF RestoreRead
  <2>4. CASE RestoreFlag
    BY <1>2, <1>4, <1>5, <1>7, <2>1, <2>2, <2>4 DEF RestoreFlag
  <2>5. QED
    BY <2>3, <2>4
<1>9. call' \in Calls' /\ CallHolds'
  BY <1>1, <1>6, <1>7, <1>8 DEF Calls, CallHolds, Undoing
<1>10. QED
  BY <1>1, <1>8, <1>9 DEF StatusTyped, TypeOK, Calls, Orders

LEMMA MarkType == StatusTyped /\ MarkUndone => StatusTyped'
<1>1. SUFFICES ASSUME StatusTyped, MarkUndone PROVE StatusTyped'
  OBVIOUS
<1>2. PICK i \in DOMAIN journal : i = FirstOf(call.rows) /\ journal[i] \in Entry
  BY <1>1, RowIsEntry DEF Undoing, MarkUndone
<1>3. PICK e \in Entry : e = [journal[i] EXCEPT !.undone = TRUE]
  BY <1>2 DEF Entry
<1>4. /\ e.id = journal[i].id /\ e.prev = journal[i].prev /\ e.before = journal[i].before
  BY <1>2, <1>3 DEF Entry
<1>5. journal' = [journal EXCEPT ![i] = e]
  BY <1>1, <1>2, <1>3 DEF MarkUndone
<1>6. journal \in Seq(Entry)
  BY <1>1 DEF StatusTyped, TypeOK
<1>7. journal' \in Seq(Entry) /\ DOMAIN journal' = DOMAIN journal
  BY <1>2, <1>5, <1>6
<1>8. \A j \in DOMAIN journal : SameEntry(j)
  BY <1>4, <1>5, <1>6 DEF SameEntry
<1>9. UNCHANGED <<mail, stale, row, late, readOnly, calls, user, faults>> /\ call' = NextRow
  BY <1>1 DEF MarkUndone
<1>10. call' \in Calls' /\ CallHolds'
  BY <1>1, <1>7, <1>9, NextRowHolds DEF Calls, CallHolds, Undoing
<1>11. LateHolds'
  BY <1>1, <1>7, <1>8, <1>9, LateStays DEF StatusTyped
<1>12. QED
  BY <1>1, <1>7, <1>9, <1>10, <1>11 DEF StatusTyped, TypeOK, Calls

\* What may be under way is an order that could be given up on.
LEMMA InFlightTyped ==
    ASSUME StatusTyped, NEW o \in InFlight
    PROVE  /\ o \in Orders
           /\ o.action = "set_flag_color" => o.color \in Colors
           /\ o.entry # 0 => /\ o.entry \in DOMAIN journal /\ journal[o.entry].prev # None
                             /\ o = ReadOrder(o.entry) \/ o = FlagOrder(o.entry)
<1> DEFINE i == FirstOf(call.rows)
<1>1. CASE call.pc = "apply" /\ call.todo # {}
  <2>1. o = Order(NextId, call.req.op, call.req.color, 0)
    BY <1>1 DEF InFlight
  <2>2. QED
    BY <1>1, <2>1, NextIsMessage
<1>2. CASE call.pc = "undo_read"
  <2>1. journal[i].prev # None /\ o = ReadOrder(i) /\ i \in DOMAIN journal
    BY <1>2, RowIsEntry DEF InFlight, Undoing
  <2>2. QED
    BY <2>1, UndoOrders DEF StatusTyped
<1>3. CASE call.pc = "undo_flag"
  <2>1. journal[i].prev # None /\ o = FlagOrder(i) /\ i \in DOMAIN journal
    BY <1>3, RowIsEntry DEF InFlight, Undoing
  <2>2. QED
    BY <2>1, UndoOrders DEF StatusTyped
<1>4. QED
  BY <1>1, <1>2, <1>3 DEF InFlight

LEMMA RestartType == StatusTyped /\ Restart => StatusTyped'
<1>1. SUFFICES ASSUME StatusTyped, Restart PROVE StatusTyped'
  OBVIOUS
<1>2. /\ call' = Idle /\ readOnly' \in BOOLEAN /\ faults' \in 0..MaxFaults
      /\ UNCHANGED <<mail, stale, row, journal, calls, user>>
  BY <1>1, StatusAssumption DEF Restart, Fault, StatusTyped, TypeOK
<1>3. late' \subseteq Orders /\ LateHolds'
  <2>1. CASE late' = late
    BY <1>1, <1>2, <2>1, LateStays DEF StatusTyped, SameEntry, TypeOK, Orders
  <2>2. CASE late' # late
    <3>1. PICK o \in InFlight : late' = late \cup {o}
      <4>1. late' = late \cup InFlight /\ InFlight # {}
        BY <1>1, <2>2 DEF Restart
      <4>2. \A o1, o2 \in InFlight : o1 = o2
        BY DEF InFlight
      <4>3. QED
        BY <4>1, <4>2
    <3>2. o \in Orders /\ LateHolds'
      BY <1>1, <1>2, <3>1, InFlightTyped, LateGrows DEF StatusTyped
    <3>3. QED
      BY <1>1, <3>1, <3>2 DEF StatusTyped, TypeOK, Orders
  <2>3. QED
    BY <2>1, <2>2
<1>4. QED
  BY <1>1, <1>2, <1>3, IdleHolds DEF StatusTyped, TypeOK, Calls, Orders

LEMMA StepTyped == StatusTyped /\ [Next]_vars => StatusTyped'
<1>1. SUFFICES ASSUME StatusTyped, [Next]_vars PROVE StatusTyped'
  OBVIOUS
<1>2. CASE UNCHANGED vars
  <2>1. LateHolds'
    BY <1>1, <1>2, LateStays DEF StatusTyped, vars, SameEntry
  <2>2. QED
    BY <1>1, <1>2, <2>1 DEF vars, StatusTyped, TypeOK, CallHolds, Undoing
<1>3. CASE Next
  BY <1>1, <1>3, UpdateType, UndoType, ApplyType, JournalType, UpdateIndexType, RestoreType,
     MarkType, LockedType, WatcherType, UserType, LandType, RestartType
  DEF Next, Step
<1>4. QED
  BY <1>1, <1>2, <1>3

\* The statuses, rows, journal and calls keep their types, and an undo names
\* rows the journal has.
THEOREM TypeCorrect == Spec => []TypeOK
<1>1. StatusTyped => TypeOK
  BY DEF StatusTyped
<1>2. QED
  BY <1>1, InitTyped, StepTyped, PTL DEF Spec

-----------------------------------------------------------------------------
(***************************************************************************)
(* A row marked undone means the old status is back                        *)
(***************************************************************************)
\* The row an undo is at.
At == journal[FirstOf(call.rows)]

\* Unless somebody else set the message meanwhile, Mail shows what the undo
\* has restored so far.
Restored ==
    Undoing /\ call.quiet /\ Faithful(At) =>
        /\ call.pc \in {"undo_flag", "mark"} => mail[At.id].read = At.before.read
        /\ call.pc = "mark" => mail[At.id].flag = At.before.flag

UndoInv == StatusTyped /\ Restored

\* The orders of an undo restore what the journal says, and only that.
LEMMA OrdersRestore ==
    ASSUME TypeOK, NEW i \in DOMAIN journal, Faithful(journal[i]), NEW s \in Statuses
    PROVE  /\ After(s, ReadOrder(i)).read = journal[i].before.read
           /\ After(s, ReadOrder(i)).flag = s.flag
           /\ After(s, FlagOrder(i)).flag = journal[i].before.flag
           /\ After(s, FlagOrder(i)).read = s.read
<1>1. journal[i] \in Entry
  BY DEF TypeOK
<1>2. /\ journal[i].prev \in Rows /\ journal[i].before \in Statuses
      /\ journal[i].before.flag \in Colors \cup {Unflagged}
  BY <1>1, StatusAssumption DEF Entry, Faithful, Statuses
<1>3. journal[i].prev.read = journal[i].before.read /\ journal[i].before.read \in BOOLEAN
  BY <1>1, <1>2 DEF Faithful, Statuses
<1>4. After(s, ReadOrder(i)).read = journal[i].before.read
  <2>1. CASE journal[i].prev.read = TRUE
    BY <1>3, <2>1 DEF After, ReadOrder, Order, Statuses
  <2>2. CASE journal[i].prev.read = FALSE
    BY <1>3, <2>2 DEF After, ReadOrder, Order, Statuses
  <2>3. QED
    BY <1>3, <2>1, <2>2
<1>5. After(s, ReadOrder(i)).flag = s.flag
  BY DEF After, ReadOrder, Order, Statuses
<1>6. After(s, FlagOrder(i)).flag = journal[i].before.flag /\ After(s, FlagOrder(i)).read = s.read
  <2>1. CASE journal[i].before.flag = Unflagged
    <3>1. journal[i].prev.color = None /\ journal[i].prev.flagged = FALSE
      BY <2>1 DEF Faithful
    <3>2. FlagOrder(i).action = "unflag"
      BY <3>1 DEF FlagOrder, Order
    <3>3. QED
      BY <2>1, <3>2 DEF After, Statuses
  <2>2. CASE journal[i].before.flag # Unflagged
    <3>1. journal[i].prev.color = journal[i].before.flag /\ journal[i].before.flag # None
      BY <1>2, <2>2, StatusAssumption DEF Faithful
    <3>2. FlagOrder(i).action = "set_flag_color" /\ FlagOrder(i).color = journal[i].before.flag
      BY <3>1 DEF FlagOrder, Order
    <3>3. QED
      BY <3>2 DEF After, Statuses
  <2>3. QED
    BY <2>1, <2>2
<1>7. QED
  BY <1>4, <1>5, <1>6

\* Nothing is claimed of a call that is not past the read flag.
LEMMA NotYet ==
    ASSUME call'.pc \notin {"undo_flag", "mark"}
    PROVE  Restored'
  BY DEF Restored, Undoing

\* Somebody sets the status of a message.
LEMMA OthersSet ==
    ASSUME UndoInv, NEW id \in Ids, NEW s, SetStatus(id, s), Disturb(id), UNCHANGED journal
    PROVE  Restored'
<1>1. call \in Calls
  BY DEF UndoInv, StatusTyped, TypeOK, Calls
<1>2. /\ call'.pc = call.pc /\ call'.rows = call.rows
      /\ call'.quiet => call.quiet /\ ~(Undoing /\ At.id = id)
  BY <1>1 DEF Disturb, At, Calls
<1>3. ASSUME Undoing', call'.quiet
      PROVE  Undoing /\ call.quiet /\ At' = At /\ mail'[At.id] = mail[At.id]
  <2>1. Undoing /\ call.quiet /\ At' = At /\ At.id # id
    BY <1>2, <1>3 DEF Undoing, At
  <2>2. At.id \in Ids
    BY <2>1, RowIsEntry DEF UndoInv, Entry, At
  <2>3. mail'[At.id] = mail[At.id]
    BY <2>1, <2>2 DEF SetStatus, UndoInv, StatusTyped, TypeOK
  <2>4. QED
    BY <2>1, <2>3
<1>4. QED
  BY <1>2, <1>3 DEF UndoInv, Restored, Faithful

\* A late order of this very undo restores what is restored already.
LEMMA OwnLate ==
    ASSUME UndoInv, NEW o \in late, Undoing, o.entry = FirstOf(call.rows),
           SetStatus(o.id, After(mail[o.id], o)), UNCHANGED <<call, journal>>
    PROVE  Restored'
<1>1. PICK i \in DOMAIN journal : i = FirstOf(call.rows) /\ journal[i] \in Entry /\ i # 0
  BY RowIsEntry DEF UndoInv
<1>2. o = ReadOrder(i) \/ o = FlagOrder(i)
  BY <1>1 DEF UndoInv, StatusTyped, LateHolds
<1>3. o.id = journal[i].id /\ journal[i].id \in Ids /\ At = journal[i] /\ At' = At
  BY <1>1, <1>2 DEF ReadOrder, FlagOrder, Order, At, Entry
<1>4. mail[o.id] \in Statuses /\ mail'[o.id] = After(mail[o.id], o)
  BY <1>3 DEF UndoInv, StatusTyped, TypeOK, SetStatus
<1>5. CASE Faithful(At) /\ call.quiet
  <2>1. /\ call.pc \in {"undo_flag", "mark"} => mail[o.id].read = At.before.read
        /\ call.pc = "mark" => mail[o.id].flag = At.before.flag
    BY <1>3, <1>5 DEF UndoInv, Restored
  <2>2. /\ call.pc \in {"undo_flag", "mark"} => mail'[o.id].read = At.before.read
        /\ call.pc = "mark" => mail'[o.id].flag = At.before.flag
    <3>1. CASE o = ReadOrder(i)
      BY <1>1, <1>3, <1>4, <1>5, <2>1, <3>1, OrdersRestore DEF UndoInv, StatusTyped
    <3>2. CASE o = FlagOrder(i)
      BY <1>1, <1>3, <1>4, <1>5, <2>1, <3>2, OrdersRestore DEF UndoInv, StatusTyped
    <3>3. QED
      BY <1>2, <3>1, <3>2
  <2>3. QED
    BY <1>3, <2>2 DEF Restored, Undoing, Faithful
<1>6. CASE ~(Faithful(At) /\ call.quiet)
  BY <1>3, <1>6 DEF Restored, Undoing, Faithful
<1>7. QED
  BY <1>5, <1>6

LEMMA RestoreRestores ==
    ASSUME UndoInv, RestoreRead \/ RestoreFlag
    PROVE  Restored'
<1>1. PICK i \in DOMAIN journal : i = FirstOf(call.rows) /\ journal[i] \in Entry
  BY RowIsEntry DEF Undoing, RestoreRead, RestoreFlag, UndoInv
<1>2. call \in Calls /\ UNCHANGED journal /\ At = journal[i] /\ journal[i].id \in Ids
      /\ call.pc \in {"undo_read", "undo_flag"}
  BY <1>1 DEF RestoreRead, RestoreFlag, UndoInv, StatusTyped, TypeOK, Calls, At, Entry
<1>3. NextRow.pc \in {"idle", "undo_read"}
  BY NextRowHolds DEF UndoInv
<1>4. CASE ~Faithful(journal[i])
  <2>1. call' = NextRow \/ call'.rows = call.rows
    BY <1>1, <1>2 DEF RestoreRead, RestoreFlag, Jxa, Calls
  <2>2. QED
    <3>1. CASE call' = NextRow
      BY <1>3, <3>1, NotYet
    <3>2. CASE call'.rows = call.rows
      <4>1. At' = journal[i]
        BY <1>1, <1>2, <3>2 DEF At
      <4>2. QED
        BY <1>4, <4>1 DEF Restored, Faithful
    <3>3. QED
      BY <2>1, <3>1, <3>2
<1>5. CASE Faithful(journal[i])
  <2>1. journal[i].prev # None
    BY <1>5 DEF Faithful
  <2>2. PICK o \in Orders : /\ o = IF call.pc = "undo_read" THEN ReadOrder(i) ELSE FlagOrder(i)
                            /\ o.action = "set_flag_color" => o.color \in Colors
                            /\ o.id = journal[i].id
    BY <2>1, UndoOrders DEF UndoInv, StatusTyped, ReadOrder, FlagOrder, Order
  <2>3. PICK pc \in {"undo_flag", "mark"} :
          pc = IF call.pc = "undo_read" THEN "undo_flag" ELSE "mark"
    OBVIOUS
  <2>4. PICK won \in Calls : won = [call EXCEPT !.pc = pc]
    BY <1>2 DEF Calls
  <2>5. won.pc = pc /\ won.rows = call.rows /\ won.quiet = call.quiet
    BY <1>2, <2>4 DEF Calls
  <2>6. Jxa(o, won, NextRow) \/ call' = NextRow
    <3>1. CASE RestoreRead
      BY <1>1, <2>1, <2>2, <2>3, <2>4, <3>1 DEF RestoreRead
    <3>2. CASE RestoreFlag
      BY <1>1, <2>1, <2>2, <2>3, <2>4, <3>2 DEF RestoreFlag
    <3>3. QED
      BY <3>1, <3>2
  <2>7. \/ call' = won /\ mail' = [mail EXCEPT ![o.id] = After(mail[o.id], o)]
        \/ call' = NextRow
    BY <2>2, <2>6, JxaOutcome DEF UndoInv, StatusTyped
  <2>8. CASE call' = NextRow
    BY <1>3, <2>8, NotYet
  <2>9. CASE call' = won /\ mail' = [mail EXCEPT ![o.id] = After(mail[o.id], o)]
    <3>1. mail[o.id] \in Statuses /\ mail'[o.id] = After(mail[o.id], o)
      BY <1>2, <2>2, <2>9 DEF UndoInv, StatusTyped, TypeOK
    <3>2. At' = At
      BY <1>2, <2>5, <2>9 DEF At
    <3>3. CASE call.pc = "undo_read"
      <4>1. mail'[o.id].read = At.before.read
        BY <1>2, <1>5, <2>2, <3>1, <3>3, OrdersRestore DEF UndoInv, StatusTyped
      <4>2. QED
        BY <1>2, <2>2, <2>3, <2>5, <2>9, <3>2, <3>3, <4>1 DEF Restored
    <3>4. CASE call.pc = "undo_flag"
      <4>1. call.quiet => mail[o.id].read = At.before.read
        BY <1>2, <1>5, <2>2, <3>4 DEF UndoInv, Restored, Undoing
      <4>2. mail'[o.id].flag = At.before.flag /\ mail'[o.id].read = mail[o.id].read
        BY <1>2, <1>5, <2>2, <3>1, <3>4, OrdersRestore DEF UndoInv, StatusTyped
      <4>3. QED
        BY <1>2, <2>2, <2>3, <2>5, <2>9, <3>2, <4>1, <4>2 DEF Restored
    <3>5. QED
      BY <1>2, <3>3, <3>4
  <2>10. QED
    BY <2>7, <2>8, <2>9
<1>6. QED
  BY <1>4, <1>5

LEMMA StepUndo == UndoInv /\ [Next]_vars => UndoInv'
<1>1. SUFFICES ASSUME UndoInv, [Next]_vars PROVE Restored'
  BY StepTyped DEF UndoInv
<1>2. CASE UNCHANGED vars
  BY <1>1, <1>2 DEF UndoInv, Restored, vars, Undoing, At, Faithful
<1>3. ASSUME NEW req \in Requests, Update(req) \/ Undo(req) PROVE Restored'
  <2>1. call' = Idle \/ call'.pc \in {"apply", "undo_read"}
    BY <1>3 DEF Update, Undo, Idle
  <2>2. QED
    BY <2>1, NotYet DEF Idle
<1>4. CASE Apply \/ Journal \/ UpdateIndex \/ Locked
  <2>1. call' = Idle \/ call'.pc \in {"apply", "journal"}
    <3>1. call \in Calls
      BY <1>1 DEF UndoInv, StatusTyped, TypeOK, Calls
    <3>2. QED
      BY <1>4, <3>1 DEF Apply, Journal, UpdateIndex, Locked, Jxa, Calls
  <2>2. QED
    BY <2>1, NotYet DEF Idle
<1>5. CASE RestoreRead \/ RestoreFlag
  BY <1>1, <1>5, RestoreRestores
<1>6. CASE MarkUndone
  BY <1>1, <1>6, NextRowHolds, NotYet DEF MarkUndone, UndoInv
<1>7. ASSUME NEW id \in Ids, Reindex(id) \/ Lose(id) PROVE Restored'
  BY <1>1, <1>7 DEF Reindex, Lose, UndoInv, Restored, Undoing, At, Faithful
<1>8. CASE User
  <2>1. PICK id \in Ids, s \in UserSets : SetStatus(id, s) /\ Disturb(id)
    BY <1>8 DEF User
  <2>2. QED
    BY <1>1, <1>8, <2>1, OthersSet DEF User
<1>9. CASE Land
  <2>1. PICK o \in late : /\ SetStatus(o.id, After(mail[o.id], o))
                          /\ IF Undoing /\ o.entry = FirstOf(call.rows)
                             THEN UNCHANGED call ELSE Disturb(o.id)
    BY <1>9 DEF Land
  <2>2. o.id \in Ids /\ UNCHANGED journal
    BY <1>1, <1>9 DEF Land, UndoInv, StatusTyped, TypeOK
  <2>3. QED
    BY <1>1, <2>1, <2>2, OthersSet, OwnLate
<1>10. CASE Restart
  BY <1>10, NotYet DEF Restart, Idle
<1>11. QED
  BY <1>1, <1>2, <1>3, <1>4, <1>5, <1>6, <1>7, <1>8, <1>9, <1>10 DEF Next, Step

\* Only MarkUndone marks a row.
LEMMA OnlyMarks ==
    ASSUME UndoInv, [Next]_vars, NEW i \in DOMAIN journal, BecomesUndone(i)
    PROVE  MarkUndone /\ i = FirstOf(call.rows)
<1>1. journal \in Seq(Entry)
  BY DEF UndoInv, StatusTyped, TypeOK
<1>2. ~Journal
  <2>1. ASSUME Journal PROVE FALSE
    <3>1. PICK e : journal' = Append(journal, e)
      BY <2>1 DEF Journal
    <3>2. journal'[i] = journal[i]
      BY <1>1, <3>1
    <3>3. QED
      BY <3>2 DEF BecomesUndone
  <2>2. QED
    BY <2>1
<1>3. UNCHANGED journal \/ MarkUndone
  BY <1>2 DEF Next, Step, vars, Update, Undo, Apply, UpdateIndex, RestoreRead, RestoreFlag, Reindex,
              Lose, User, Land, Locked, Restart
<1>4. journal' # journal
  BY DEF BecomesUndone
<1>5. MarkUndone
  BY <1>3, <1>4
<1>6. i = FirstOf(call.rows)
  <2>1. ASSUME i # FirstOf(call.rows) PROVE FALSE
    <3>1. journal'[i] = journal[i]
      BY <1>1, <1>5, <2>1 DEF MarkUndone
    <3>2. QED
      BY <3>1 DEF BecomesUndone
  <2>2. QED
    BY <2>1
<1>7. QED
  BY <1>5, <1>6

\* When the journal knows the status a message had, a row marked undone means
\* Mail shows it again, whatever failed, came late or was repeated before.
THEOREM UndoneIsRestored == Spec => UndoneMeansRestored
<1>1. Init => UndoInv
  BY InitTyped DEF Init, UndoInv, Restored, Undoing, Idle
<1>2. UndoInv /\ [Next]_vars =>
        [\A i \in DOMAIN journal :
            BecomesUndone(i) /\ Faithful(journal[i]) /\ call.quiet
              => mail'[journal[i].id] = journal[i].before]_vars
  <2>1. SUFFICES ASSUME UndoInv, [Next]_vars, NEW i \in DOMAIN journal,
                        BecomesUndone(i), Faithful(journal[i]), call.quiet
                 PROVE  mail'[journal[i].id] = journal[i].before
    OBVIOUS
  <2>2. MarkUndone /\ i = FirstOf(call.rows)
    BY <2>1, OnlyMarks
  <2>3. call.pc = "mark" /\ mail' = mail /\ At = journal[i] /\ journal[i] \in Entry
    BY <2>1, <2>2 DEF MarkUndone, At, UndoInv, StatusTyped, TypeOK
  <2>4. mail[At.id].read = At.before.read /\ mail[At.id].flag = At.before.flag
    BY <2>1, <2>3 DEF UndoInv, Restored, Undoing
  <2>5. mail[At.id] \in Statuses /\ At.before \in Statuses
    BY <2>1, <2>3 DEF UndoInv, StatusTyped, TypeOK, Entry
  <2>6. mail[At.id] = At.before
    BY <2>4, <2>5 DEF Statuses
  <2>7. QED
    BY <2>3, <2>6
<1>3. QED
  BY <1>1, <1>2, StepUndo, PTL DEF Spec, UndoneMeansRestored

-----------------------------------------------------------------------------
(***************************************************************************)
(* A batch never takes its own colour for the colour before it             *)
(***************************************************************************)
\* While a batch applies and journals, the colours of the index are those it
\* found, save for rows lost or made anew.
ColorsKept ==
    call.pc \in {"apply", "journal"} =>
        \A id \in Ids : row[id] = None \/ row[id].color \in {None, call.seen[id]}

LEMMA InitColors == Init => ColorsKept
  BY DEF Init, Idle, ColorsKept

LEMMA StepColors == StatusTyped /\ ColorsKept /\ [Next]_vars => ColorsKept'
<1>1. SUFFICES ASSUME StatusTyped, ColorsKept, [Next]_vars PROVE ColorsKept'
  OBVIOUS
<1>2. call \in Calls /\ row \in [Ids -> Rows \cup {None}] /\ None \notin Rows
  BY <1>1, StatusAssumption DEF StatusTyped, TypeOK, Calls
<1>3. ASSUME NEW req \in Requests, Update(req) PROVE ColorsKept'
  <2>1. CASE call' = Idle
    BY <2>1 DEF Idle, ColorsKept
  <2>2. CASE call' # Idle
    <3>1. PICK seen : seen = [id \in Ids |-> IF row[id] = None THEN None ELSE row[id].color]
      OBVIOUS
    <3>3. \E todo : call' = [Idle EXCEPT !.pc = "apply", !.req = req, !.todo = todo,
                                        !.no = calls + 1, !.seen = seen]
      BY <1>3, <2>2, <3>1, Zenon DEF Update
    <3>4. call'.seen = seen
      BY <3>3 DEF Idle
    <3>5. row' = row
      BY <1>3 DEF Update
    <3>6. QED
      BY <3>1, <3>4, <3>5 DEF ColorsKept
  <2>3. QED
    BY <2>1, <2>2
<1>4. CASE Apply \/ Journal
  <2>1. /\ call.pc \in {"apply", "journal"} /\ row' = row
        /\ call' = Idle \/ call'.seen = call.seen
    BY <1>2, <1>4 DEF Apply, Journal, Jxa, Calls
  <2>2. QED
    BY <1>1, <2>1 DEF ColorsKept, Idle
<1>5. ASSUME NEW id \in Ids, Reindex(id) \/ Lose(id) PROVE ColorsKept'
  <2>1. row'[id] = None \/ (row[id] # None /\ row'[id].color = row[id].color) \/ row'[id].color = None
    BY <1>2, <1>5 DEF Reindex, Lose, Indexed
  <2>2. \A other \in Ids \ {id} : row'[other] = row[other]
    BY <1>2, <1>5 DEF Reindex, Lose
  <2>3. call' = call
    BY <1>5 DEF Reindex, Lose
  <2>4. QED
    BY <1>1, <2>1, <2>2, <2>3 DEF ColorsKept
<1>6. CASE User \/ Land
  <2>1. row' = row /\ call'.pc = call.pc /\ call'.seen = call.seen
    BY <1>2, <1>6 DEF User, Land, Disturb, Calls
  <2>2. QED
    BY <1>1, <2>1 DEF ColorsKept
<1>7. CASE UpdateIndex \/ Locked \/ Restart
  BY <1>7 DEF UpdateIndex, Locked, Restart, Idle, ColorsKept
<1>8. ASSUME NEW req \in Requests, Undo(req) PROVE ColorsKept'
  BY <1>8 DEF Undo, Idle, ColorsKept
<1>9. CASE RestoreRead \/ RestoreFlag \/ MarkUndone
  <2>1. call'.pc \in {"idle", "undo_read", "undo_flag", "mark"}
    BY <1>1, <1>2, <1>9, NextRowHolds DEF RestoreRead, RestoreFlag, MarkUndone, Jxa, Calls
  <2>2. QED
    BY <2>1 DEF ColorsKept
<1>10. CASE UNCHANGED vars
  BY <1>1, <1>10 DEF vars, ColorsKept
<1>11. QED
  BY <1>1, <1>3, <1>4, <1>5, <1>6, <1>7, <1>8, <1>9, <1>10 DEF Next, Step

\* Every journaled colour is none or the one the index had when the batch
\* began, also for a message named twice, however many batches ran before.
THEOREM ColorsArePrior == Spec => PriorColorIsPrior
<1>1. StatusTyped /\ ColorsKept /\ [Next]_vars =>
        [\A i \in DOMAIN journal' \ DOMAIN journal :
            LET e == journal'[i]
            IN  e.prev = None \/ e.prev.color \in {None, call.seen[e.id]}]_vars
  <2>1. SUFFICES ASSUME StatusTyped, ColorsKept, [Next]_vars,
                        NEW i \in DOMAIN journal' \ DOMAIN journal
                 PROVE  journal'[i].prev = None
                        \/ journal'[i].prev.color \in {None, call.seen[journal'[i].id]}
    OBVIOUS
  <2>2. journal \in Seq(Entry)
    BY <2>1 DEF StatusTyped, TypeOK
  <2>3. ~MarkUndone
    BY <2>1, <2>2 DEF MarkUndone
  <2>4. Journal
    <3>1. journal' # journal
      BY <2>1
    <3>2. QED
      BY <2>1, <2>3, <3>1 DEF Next, Step, vars, Update, Undo, Apply, UpdateIndex, RestoreRead,
         RestoreFlag, Reindex, Lose, User, Land, Locked, Restart
  <2>5. NextId \in Ids
    BY <2>1, <2>4, NextIsMessage DEF Journal, StatusTyped, CallHolds
  <2>6. PICK e : /\ e = [batch |-> call.no, op |-> call.req.op, id |-> NextId,
                         prev |-> prior_state(NextId), undone |-> FALSE, before |-> call.was]
                /\ journal' = Append(journal, e)
    BY <2>4 DEF Journal
  <2>7. journal'[i] = e
    BY <2>1, <2>2, <2>6
  <2>8. e.id = NextId /\ e.prev = row[NextId]
    BY <2>6 DEF prior_state
  <2>9. QED
    BY <2>1, <2>4, <2>5, <2>7, <2>8 DEF Journal, ColorsKept
<1>2. QED
  BY <1>1, InitTyped, StepTyped, InitColors, StepColors, PTL DEF Spec, PriorColorIsPrior

=============================================================================
