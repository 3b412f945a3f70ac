-------------------------- MODULE IndexBuild_proofs --------------------------
(***************************************************************************)
(* Proofs about IndexBuild, for any files, builders, batch size and bounds.*)
(***************************************************************************)
EXTENDS IndexBuild, FiniteSetTheorems, TLAPS

-----------------------------------------------------------------------------
(***************************************************************************)
(* Type correctness                                                        *)
(***************************************************************************)
FilesOK ==
    /\ disk \in [Paths -> 0..MaxClock]
    /\ bad \subseteq 1..MaxClock
    /\ polling \in BOOLEAN /\ events \in BOOLEAN
    /\ clock \in 0..MaxClock

RowsOK(rs) ==
    /\ DOMAIN rs \subseteq Paths /\ rs \in [DOMAIN rs -> Row]
    /\ \A p, q \in DOMAIN rs : rs[p].id = rs[q].id => p = q

FtsOK(f) == DOMAIN f \subseteq Nat \ {0} /\ f \in [DOMAIN f -> Nat]

MarksOK ==
    /\ dead \subseteq Paths
    /\ triggers \subseteq Triggers
    /\ marks \subseteq {"last_build", "last_full_build", "last_watch_tick"}
    /\ faults \in 0..MaxFaults /\ commands \in 0..MaxCommands

BuildsOK == build \in [Builders -> Build]

LEMMA TypeParts ==
    TypeOK <=> FilesOK /\ RowsOK(rows) /\ FtsOK(fts) /\ MarksOK /\ BuildsOK
BY DEF TypeOK, FilesOK, RowsOK, FtsOK, MarksOK, BuildsOK

LEMMA BecomeType ==
    ASSUME BuildsOK, NEW b \in Builders, NEW r \in Build, Become(b, r)
    PROVE  BuildsOK'
BY DEF BuildsOK, Become

LEMMA ReadyType == Ready \in Build
BY DEF Ready, Build

\* What the triggers and the rebuild store is well typed.
LEMMA TextsType ==
    ASSUME NEW rs, RowsOK(rs), NEW P, P \subseteq DOMAIN rs
    PROVE  FtsOK(Texts(rs, P))
<1>1. \A p \in P : rs[p].id \in Nat \ {0} /\ rs[p].text \in Nat
  BY DEF RowsOK, Row
<1>2. ASSUME NEW i \in {rs[p].id : p \in P}
      PROVE  rs[CHOOSE p \in P : rs[p].id = i].text \in Nat
  <2>1. \E p \in P : rs[p].id = i
    OBVIOUS
  <2>2. (CHOOSE p \in P : rs[p].id = i) \in P
    BY <2>1
  <2>3. QED
    BY <1>1, <2>2
<1>3. QED
  BY <1>1, <1>2 DEF FtsOK, Texts

LEMMA StoredType ==
    ASSUME NEW f, FtsOK(f), NEW g, FtsOK(g)
    PROVE  FtsOK(Stored(f, g))
BY DEF FtsOK, Stored

LEMMA WithoutFts ==
    ASSUME NEW f, FtsOK(f), NEW D
    PROVE  FtsOK(Without(f, D))
BY DEF FtsOK, Without, Restrict

LEMMA WithoutRows ==
    ASSUME NEW D, RowsOK(rows)
    PROVE  RowsOK(Without(rows, D))
BY DEF RowsOK, Without, Restrict

\* Rows keep ids of their own when a diff's moves are applied: of the claims on
\* one row only the first is carried out.
LEMMA RelabelledType ==
    ASSUME BuildsOK, RowsOK(rows), NEW b \in Builders,
           NEW M \in SUBSET (Paths \X Paths),
           \A k1, k2 \in M : k1[1] = k2[1] => k1 = k2
    PROVE  RowsOK(Relabelled(b, M))
<1> DEFINE from == {m[1] : m \in M} \cap DOMAIN rows
           to   == {m[2] : m \in {k \in M : k[1] \in from}}
           Old(q) == CHOOSE o \in from : <<o, q>> \in M
           rs == Relabelled(b, M)
<1>1. /\ DOMAIN rs = (DOMAIN rows \ from) \cup to
      /\ \A q \in DOMAIN rs :
           rs[q] = IF q \in to THEN [rows[Old(q)] EXCEPT !.stamp = build[b].seen[q]]
                               ELSE rows[q]
  BY DEF Relabelled
<1>2. to \subseteq Paths /\ from \subseteq DOMAIN rows
  OBVIOUS
<1>3. ASSUME NEW q \in to
      PROVE  Old(q) \in from /\ <<Old(q), q>> \in M
  <2>1. PICK m \in M : m[1] \in from /\ m[2] = q
    OBVIOUS
  <2>2. m = <<m[1], q>>
    BY <2>1
  <2>3. QED
    BY <2>1, <2>2
<1> HIDE DEF from, to, Old, rs
<1>4. \A q \in DOMAIN rs : q \in Paths
  BY <1>1, <1>2 DEF RowsOK
<1>5. ASSUME NEW q \in DOMAIN rs
      PROVE  rs[q] \in Row /\ rs[q].id = IF q \in to THEN rows[Old(q)].id ELSE rows[q].id
  <2>1. build[b].seen[q] \in Nat
    BY <1>4 DEF BuildsOK, Build
  <2>2. CASE q \in to
    <3>1. rows[Old(q)] \in Row
      BY <1>2, <1>3, <2>2 DEF RowsOK
    <3>2. rs[q] = [rows[Old(q)] EXCEPT !.stamp = build[b].seen[q]]
      BY <1>1, <2>2
    <3> DEFINE row == rows[Old(q)]
               stamp == build[b].seen[q]
    <3> HIDE DEF row, stamp
    <3>3. row \in Row /\ stamp \in Nat /\ rs[q] = [row EXCEPT !.stamp = stamp]
      BY <2>1, <3>1, <3>2 DEF row, stamp
    <3>4. rs[q] \in Row /\ rs[q].id = row.id
      <4>1. [row EXCEPT !.stamp = stamp] \in Row /\ [row EXCEPT !.stamp = stamp].id = row.id
        BY <3>3 DEF Row
      <4>2. QED
        BY <3>3, <4>1
    <3>5. QED
      BY <2>2, <3>4 DEF row
  <2>3. CASE q \notin to
    <3>1. rs[q] = rows[q] /\ q \in DOMAIN rows
      BY <1>1, <2>3
    <3>2. QED
      BY <2>3, <3>1 DEF RowsOK
  <2>4. QED
    BY <2>2, <2>3
<1>6. ASSUME NEW p \in DOMAIN rs, NEW q \in DOMAIN rs, rs[p].id = rs[q].id
      PROVE  p = q
  <2> DEFINE src(x) == IF x \in to THEN Old(x) ELSE x
  <2>1. \A x \in DOMAIN rs : src(x) \in DOMAIN rows /\ rs[x].id = rows[src(x)].id
    BY <1>1, <1>2, <1>3, <1>5
  <2>2. src(p) = src(q)
    BY <1>6, <2>1 DEF RowsOK
  <2>3. \A x \in DOMAIN rs : x \notin to => src(x) \notin from
    BY <1>1
  <2>4. \A x \in DOMAIN rs : x \in to => src(x) \in from /\ <<src(x), x>> \in M
    BY <1>3
  <2> HIDE DEF src
  <2>5. CASE p \in to
    <3>1. q \in to
      BY <2>2, <2>3, <2>4, <2>5
    <3>2. <<src(p), p>> \in M /\ <<src(p), q>> \in M
      BY <2>2, <2>4, <2>5, <3>1
    <3>3. <<src(p), p>> = <<src(p), q>>
      BY <3>2
    <3>4. QED
      BY <3>3
  <2>6. CASE p \notin to
    <3>1. q \notin to
      BY <2>2, <2>3, <2>4, <2>6
    <3>2. QED
      BY <2>2, <2>6, <3>1 DEF src
  <2>7. QED
    BY <2>5, <2>6
<1>7. RowsOK(rs)
  <2>1. rs \in [DOMAIN rs -> Row]
    <3>1. rs = [q \in DOMAIN rs |-> rs[q]]
      BY DEF rs, Relabelled
    <3>2. QED
      BY <3>1, <1>5
  <2>2. QED
    BY <1>4, <1>6, <2>1 DEF RowsOK
<1>8. QED
  BY <1>7 DEF rs

-----------------------------------------------------------------------------
(***************************************************************************)
(* What a build's step may make of its record.                             *)
(***************************************************************************)
LEMMA DiffTypes ==
    ASSUME NEW seen, NEW claims \in Claimable(seen), DOMAIN rows \subseteq Paths
    PROVE  /\ MovedOf(seen, claims) \subseteq Paths \X Paths
           /\ AddedOf(seen, MovedOf(seen, claims)) \subseteq Paths
           /\ DeletedOf(seen, MovedOf(seen, claims)) \subseteq Paths
           /\ ChangedOf(seen) \subseteq Paths
BY DEF MovedOf, AddedOf, DeletedOf, ChangedOf, Claimable, Missing, New, OnDisk

LEMMA DiffBuild ==
    ASSUME TypeOK, NEW b \in Builders, Diff(b)
    PROVE  BuildsOK'
<1> DEFINE c == build[b]
<1>1. c \in Build
  BY DEF TypeOK
<1>2. PICK claims \in Claimable(c.seen) :
         LET moved   == MovedOf(c.seen, claims)
             added   == AddedOf(c.seen, moved)
             deleted == DeletedOf(c.seen, moved)
         IN  Become(b, [c EXCEPT !.pc = IF c.full THEN "drop" ELSE "added",
                                 !.added = added, !.changed = ChangedOf(c.seen),
                                 !.deleted = deleted, !.moved = moved,
                                 !.dirty = added \cup deleted \cup ChangedOf(c.seen) # {}
                                             \/ moved # {}])
  BY DEF Diff
<1> DEFINE moved   == MovedOf(c.seen, claims)
           added   == AddedOf(c.seen, moved)
           deleted == DeletedOf(c.seen, moved)
           changed == ChangedOf(c.seen)
           dirty   == added \cup deleted \cup changed # {} \/ moved # {}
           next    == IF c.full THEN "drop" ELSE "added"
<1>3. /\ moved \in SUBSET (Paths \X Paths) /\ added \in SUBSET Paths
      /\ deleted \in SUBSET Paths /\ changed \in SUBSET Paths
  BY <1>2, DiffTypes DEF TypeOK
<1>4. dirty \in BOOLEAN /\ next \in {"drop", "added"}
  OBVIOUS
<1>5. Become(b, [c EXCEPT !.pc = next, !.added = added, !.changed = changed,
                          !.deleted = deleted, !.moved = moved, !.dirty = dirty])
  BY <1>2
<1> HIDE DEF moved, added, deleted, changed, dirty, next
<1>6. [c EXCEPT !.pc = next, !.added = added, !.changed = changed,
                !.deleted = deleted, !.moved = moved, !.dirty = dirty] \in Build
  BY <1>1, <1>3, <1>4 DEF Build
<1> HIDE DEF c
<1>7. QED
  BY <1>5, <1>6, BecomeType, TypeParts

LEMMA ParseBuild ==
    ASSUME TypeOK, NEW b \in Builders, NEW p \in Paths, Parse(b, p)
    PROVE  BuildsOK'
<1> DEFINE c == build[b]
<1>1. c \in Build /\ disk[p] \in Nat
  BY DEF TypeOK
<1>2. /\ c.pc \in {"added", "changed"}
      /\ \/ Become(b, [[c EXCEPT ![c.pc] = @ \ {p}] EXCEPT !.failed = @ \cup {p}])
         \/ Become(b, [[c EXCEPT ![c.pc] = @ \ {p}] EXCEPT !.batch[p] = disk[p]])
  BY DEF Parse
<1>3. [c EXCEPT ![c.pc] = @ \ {p}] \in Build
  <2>1. CASE c.pc = "added"
    <3>1. [c EXCEPT ![c.pc] = @ \ {p}] = [c EXCEPT !.added = @ \ {p}]
      BY <2>1
    <3>2. [c EXCEPT !.added = @ \ {p}] \in Build
      BY <1>1 DEF Build
    <3>3. QED
      BY <3>1, <3>2
  <2>2. CASE c.pc = "changed"
    <3>1. [c EXCEPT ![c.pc] = @ \ {p}] = [c EXCEPT !.changed = @ \ {p}]
      BY <2>2
    <3>2. [c EXCEPT !.changed = @ \ {p}] \in Build
      BY <1>1 DEF Build
    <3>3. QED
      BY <3>1, <3>2
  <2>3. QED
    BY <1>2, <2>1, <2>2
<1> DEFINE read == [c EXCEPT ![c.pc] = @ \ {p}]
<1> HIDE DEF read
<1>4. read \in Build
  BY <1>3 DEF read
<1>5. [read EXCEPT !.failed = @ \cup {p}] \in Build
  BY <1>4 DEF Build
<1>6. [read EXCEPT !.batch[p] = disk[p]] \in Build
  BY <1>1, <1>4 DEF Build
<1>7. Become(b, [read EXCEPT !.failed = @ \cup {p}])
        \/ Become(b, [read EXCEPT !.batch[p] = disk[p]])
  BY <1>2 DEF read
<1>8. QED
  BY <1>5, <1>6, <1>7, BecomeType, TypeParts

\* Every step of a build leaves a well-typed record.
LEMMA ProceedBuild ==
    ASSUME TypeOK, NEW b \in Builders, Proceed(b)
    PROVE  BuildsOK'
<1> DEFINE c == build[b]
<1>1. c \in Build
  BY DEF TypeOK
<1>2. ASSUME NEW r \in Build, Become(b, r)
      PROVE  BuildsOK'
  BY <1>2, BecomeType, TypeParts
<1>3. ASSUME NEW box \in Boxes, ScanBox(b, box)
      PROVE  BuildsOK'
  <2> DEFINE seen == [p \in Paths |-> IF BoxOf[p] = box THEN disk[p] ELSE c.seen[p]]
  <2>1. seen \in [Paths -> Nat]
    BY <1>1 DEF TypeOK, Build
  <2>2. Become(b, [c EXCEPT !.left = @ \ {box}, !.seen = seen])
    BY <1>3 DEF ScanBox
  <2> HIDE DEF seen, c
  <2>3. [c EXCEPT !.left = @ \ {box}, !.seen = seen] \in Build
    BY <1>1, <2>1 DEF Build
  <2>4. QED
    BY <1>2, <2>2, <2>3
<1>4. CASE Diff(b)
  BY <1>4, DiffBuild
<1>5. ASSUME NEW p \in Paths, Parse(b, p)
      PROVE  BuildsOK'
  BY <1>5, ParseBuild
<1>6. CASE DropTrigger(b) \/ CreateTrigger(b)
  <2>1. \/ c.ddl < 3 /\ Become(b, [c EXCEPT !.ddl = @ + 1])
        \/ Become(b, [c EXCEPT !.pc = "added", !.ddl = 1])
        \/ Become(b, [c EXCEPT !.pc = "thread", !.ddl = 1])
    BY <1>6 DEF DropTrigger, CreateTrigger
  <2> HIDE DEF c
  <2>2. c.ddl < 3 => [c EXCEPT !.ddl = @ + 1] \in Build
    BY <1>1 DEF Build
  <2>3. \A pc \in {"added", "thread"}, i \in 1..3 : [c EXCEPT !.pc = pc, !.ddl = i] \in Build
    BY <1>1 DEF Build
  <2>4. 1 \in 1..3
    OBVIOUS
  <2>5. QED
    BY <1>2, <2>1, <2>2, <2>3, <2>4
<1>7. CASE FlushBatch(b)
  <2>1. Become(b, [c EXCEPT !.batch = Ready.batch, !.failed = {}])
    BY <1>7 DEF FlushBatch
  <2>2. Ready.batch \in [Paths -> Nat]
    BY ReadyType DEF Build
  <2> HIDE DEF c
  <2>3. [c EXCEPT !.batch = Ready.batch, !.failed = {}] \in Build
    BY <1>1, <2>2 DEF Build
  <2>4. QED
    BY <1>2, <2>1, <2>3
<1>8. CASE EntriesDone(b) \/ DeleteRows(b) \/ MoveRows(b)
  <2>1. \E pc \in {"changed", "delete", "move", "rebuild", "thread"}, failed \in {c.failed, {}} :
           Become(b, [c EXCEPT !.pc = pc, !.failed = failed])
    <3>1. CASE EntriesDone(b)
      <4>1. Become(b, [c EXCEPT !.pc = IF c.pc = "added" THEN "changed" ELSE "delete"])
        BY <3>1 DEF EntriesDone
      <4>2. \A pc : [c EXCEPT !.pc = pc] = [c EXCEPT !.pc = pc, !.failed = c.failed]
        BY <1>1 DEF Build
      <4>3. QED
        BY <4>1, <4>2
    <3>2. CASE DeleteRows(b)
      BY <3>2 DEF DeleteRows
    <3>3. CASE MoveRows(b)
      BY <3>3 DEF MoveRows
    <3>4. QED
      BY <1>8, <3>1, <3>2, <3>3
  <2> HIDE DEF c
  <2>2. QED
    BY <1>1, <1>2, <2>1 DEF Build
<1>9. CASE RebuildFts(b) \/ ThreadWrite(b)
  <2>1. \/ Become(b, [c EXCEPT !.pc = "create", !.failed = {}])
        \/ Become(b, [c EXCEPT !.pc = "sync", !.walk = {}, !.failed = {}])
    BY <1>9 DEF RebuildFts, ThreadWrite
  <2> HIDE DEF c
  <2>2. QED
    BY <1>1, <1>2, <2>1 DEF Build
<1>10. CASE ThreadRead(b)
  <2> DEFINE last == {q \in DOMAIN rows : \A r \in DOMAIN rows :
                        MessageOf[r] = MessageOf[q] => rows[r].id <= rows[q].id}
             walk == {rows[p].id : p \in last}
  <2>1. \/ Become(b, [c EXCEPT !.pc = "sync"])
        \/ Become(b, [c EXCEPT !.pc = "position", !.walk = walk])
    BY <1>10 DEF ThreadRead
  <2>2. walk \in SUBSET (Nat \ {0})
    BY DEF TypeOK, Row
  <2> HIDE DEF c, walk
  <2>3. QED
    BY <1>1, <1>2, <2>1, <2>2 DEF Build
<1>11. CASE MoveClash(b) \/ SetSyncState(b)
  BY <1>2, <1>11, ReadyType DEF MoveClash, SetSyncState
<1>12. QED
  BY <1>3, <1>4, <1>5, <1>6, <1>7, <1>8, <1>9, <1>10, <1>11 DEF Proceed

-----------------------------------------------------------------------------
(***************************************************************************)
(* What a build's step does to the tables.                                 *)
(***************************************************************************)
\* New rows get ids above all there are, each its own.
LEMMA FlushRows ==
    ASSUME TypeOK, NEW b \in Builders, FlushBatch(b)
    PROVE  RowsOK(rows')
<1> DEFINE c == build[b]
<1>1. PICK kept \in SUBSET Fresh(c), top \in Ids(rows) \cup {0},
           n \in 0..Cardinality(Fresh(c)) : \E nth \in Bijection(kept, 1..n) :
         /\ \A i \in Ids(rows) : i <= top
         /\ rows' = [p \in DOMAIN rows \cup kept |->
                       IF p \in kept THEN RowOf(c, p, top + nth[p])
                       ELSE IF p \in Read(c) THEN RowOf(c, p, rows[p].id)
                       ELSE rows[p]]
  BY DEF FlushBatch
<1>0. PICK nth \in Bijection(kept, 1..n) :
         /\ \A i \in Ids(rows) : i <= top
         /\ rows' = [p \in DOMAIN rows \cup kept |->
                       IF p \in kept THEN RowOf(c, p, top + nth[p])
                       ELSE IF p \in Read(c) THEN RowOf(c, p, rows[p].id)
                       ELSE rows[p]]
  BY <1>1
<1>2. /\ c.seen \in [Paths -> Nat] /\ c.batch \in [Paths -> Nat]
      /\ DOMAIN rows \subseteq Paths
      /\ \A p \in DOMAIN rows : rows[p] \in Row
      /\ \A p, q \in DOMAIN rows : rows[p].id = rows[q].id => p = q
  BY DEF TypeOK, Build
<1>3. kept \subseteq Paths /\ kept \cap DOMAIN rows = {}
  BY DEF Fresh, Read
<1>4. /\ \A p \in kept : nth[p] \in Nat \ {0}
      /\ \A p, q \in kept : nth[p] = nth[q] => p = q
  BY DEF Bijection, Injection, IsInjective
<1>5. top \in Nat
  BY <1>2 DEF Ids, Row
<1> HIDE DEF c
<1>6. \A p \in Paths, i \in Nat \ {0} : RowOf(c, p, i) \in Row /\ RowOf(c, p, i).id = i
  BY <1>2 DEF RowOf, Row
<1>7. ASSUME NEW p \in DOMAIN rows \cup kept
      PROVE  /\ rows'[p] \in Row
             /\ p \in kept => rows'[p].id = top + nth[p]
             /\ p \notin kept => rows'[p].id = rows[p].id /\ rows[p].id <= top
  <2>1. CASE p \in kept
    <3>1. top + nth[p] \in Nat \ {0}
      BY <1>4, <1>5, <2>1
    <3>2. rows'[p] = RowOf(c, p, top + nth[p])
      BY <1>0, <2>1
    <3>3. QED
      BY <1>3, <1>6, <2>1, <3>1, <3>2
  <2>2. CASE p \notin kept
    <3>1. p \in DOMAIN rows /\ rows[p] \in Row /\ rows[p].id \in Nat \ {0}
      BY <1>2, <2>2 DEF Row
    <3>2. rows'[p] = RowOf(c, p, rows[p].id) \/ rows'[p] = rows[p]
      BY <1>0, <2>2
    <3>3. rows[p].id <= top
      BY <1>0, <3>1 DEF Ids
    <3>4. QED
      BY <1>2, <1>6, <2>2, <3>1, <3>2, <3>3
  <2>3. QED
    BY <2>1, <2>2
<1>8. DOMAIN rows' = DOMAIN rows \cup kept
  BY <1>0
<1>9. rows' \in [DOMAIN rows' -> Row]
  BY <1>0, <1>7
<1>10. ASSUME NEW p \in DOMAIN rows \cup kept, NEW q \in DOMAIN rows \cup kept,
              rows'[p].id = rows'[q].id
       PROVE  p = q
  <2>1. \A x \in DOMAIN rows : rows[x].id \in Nat
    BY <1>2 DEF Row
  <2>2. CASE p \in kept /\ q \in kept
    <3>1. top + nth[p] = top + nth[q]
      BY <1>7, <1>10, <2>2
    <3>2. nth[p] = nth[q]
      BY <1>4, <1>5, <2>2, <3>1
    <3>3. QED
      BY <1>4, <2>2, <3>2
  <2>3. ASSUME NEW x \in kept, NEW y \in DOMAIN rows
        PROVE  top + nth[x] # rows[y].id
    <3>1. rows[y].id <= top
      BY <1>0 DEF Ids
    <3>2. QED
      BY <1>4, <1>5, <2>1, <3>1
  <2>4. CASE p \notin kept /\ q \notin kept
    BY <1>2, <1>7, <1>10, <2>4
  <2>5. QED
    BY <1>7, <1>10, <2>2, <2>3, <2>4
<1>11. QED
  BY <1>2, <1>3, <1>8, <1>9, <1>10 DEF RowsOK

\* The moves that are applied are some of the diff's.
\* The rows that were there to be moved are at their new paths.
LEMMA Arrived ==
    ASSUME NEW b, NEW M
    PROVE  {m[2] : m \in {k \in M : k[1] \in DOMAIN rows}} \subseteq DOMAIN Relabelled(b, M)
<1> DEFINE from == {m[1] : m \in M} \cap DOMAIN rows
           to   == {m[2] : m \in {k \in M : k[1] \in from}}
<1>1. DOMAIN Relabelled(b, M) = (DOMAIN rows \ from) \cup to
  BY DEF Relabelled
<1>2. {m[2] : m \in {k \in M : k[1] \in DOMAIN rows}} \subseteq to
  OBVIOUS
<1>3. QED
  BY <1>1, <1>2

LEMMA MoveSets ==
    ASSUME TypeOK, NEW b \in Builders, MoveRows(b) \/ MoveClash(b)
    PROVE  \E M \in SUBSET (Paths \X Paths) :
             (\A k1, k2 \in M : k1[1] = k2[1] => k1 = k2) /\ UpdatePaths(b, M)
<1>1. build[b].moved \subseteq Paths \X Paths
  BY DEF TypeOK, Build
<1>2. PICK N \in Claims(build[b].moved) : \E M \in SUBSET N : UpdatePaths(b, M)
  BY DEF MoveRows, MoveClash
<1>0. PICK M \in SUBSET N : UpdatePaths(b, M)
  BY <1>2
<1>3. \A k1, k2 \in N : k1[1] = k2[1] => k1 = k2
  BY DEF Claims
<1>4. M \in SUBSET (Paths \X Paths)
  BY <1>1, <1>0 DEF Claims
<1>5. QED
  BY <1>0, <1>3, <1>4

LEMMA ProceedRows ==
    ASSUME TypeOK, NEW b \in Builders, Proceed(b)
    PROVE  RowsOK(rows')
<1>1. RowsOK(rows) /\ BuildsOK
  BY TypeParts
<1>2. CASE FlushBatch(b)
  BY <1>2, FlushRows
<1>3. CASE DeleteRows(b)
  BY <1>1, <1>3, WithoutRows DEF DeleteRows
<1>4. CASE MoveRows(b) \/ MoveClash(b)
  BY <1>1, <1>4, MoveSets, RelabelledType DEF UpdatePaths
<1>5. CASE UNCHANGED rows
  BY <1>1, <1>5
<1>6. QED
  BY <1>2, <1>3, <1>4, <1>5
     DEF Proceed, ScanBox, Diff, DropTrigger, Parse, EntriesDone, RebuildFts, CreateTrigger,
         ThreadRead, ThreadWrite, SetSyncState, tableVars

LEMMA ProceedFts ==
    ASSUME TypeOK, NEW b \in Builders, Proceed(b)
    PROVE  FtsOK(fts')
<1>1. RowsOK(rows) /\ FtsOK(fts)
  BY TypeParts
<1>2. RowsOK(rows')
  BY ProceedRows
<1>3. \A P \in SUBSET DOMAIN rows' : FtsOK(Stored(fts, Texts(rows', P)))
  BY <1>1, <1>2, TextsType, StoredType
<1>4. \A P \in SUBSET DOMAIN rows : FtsOK(Texts(rows, P)) /\ FtsOK(Stored(fts, Texts(rows, P)))
  BY <1>1, TextsType, StoredType
<1>5. CASE FlushBatch(b)
  <2> DEFINE c == build[b]
  <2>1. PICK kept \in SUBSET Fresh(c) :
          /\ DOMAIN rows' = DOMAIN rows \cup kept
          /\ fts' = Stored(fts, Texts(rows',
                      (IF "emails_ai" \in triggers THEN kept ELSE {})
                        \cup (IF "emails_au" \in triggers THEN Read(c) \ Fresh(c) ELSE {})))
    BY <1>5 DEF FlushBatch
  <2>2. Read(c) \ Fresh(c) \subseteq DOMAIN rows
    BY DEF Fresh
  <2>3. QED
    BY <1>3, <2>1, <2>2
<1>6. CASE DeleteRows(b)
  BY <1>1, <1>6, WithoutFts DEF DeleteRows
<1>7. CASE MoveRows(b) \/ MoveClash(b)
  <2>1. PICK M : UpdatePaths(b, M)
    BY <1>7, MoveSets
  <2>2. QED
    <3>1. {m[2] : m \in {k \in M : k[1] \in DOMAIN rows}} \subseteq DOMAIN rows'
      BY <2>1, Arrived DEF UpdatePaths
    <3>2. QED
      BY <1>1, <1>3, <2>1, <3>1 DEF UpdatePaths
<1>8. CASE RebuildFts(b)
  BY <1>4, <1>8 DEF RebuildFts
<1>9. CASE ThreadWrite(b)
  BY <1>1, <1>4, <1>9 DEF ThreadWrite
<1>10. CASE UNCHANGED fts
  BY <1>1, <1>10
<1>11. QED
  BY <1>5, <1>6, <1>7, <1>8, <1>9, <1>10
     DEF Proceed, ScanBox, Diff, DropTrigger, Parse, EntriesDone, CreateTrigger,
         ThreadRead, SetSyncState, tableVars

LEMMA ProceedMarks ==
    ASSUME TypeOK, NEW b \in Builders, Proceed(b)
    PROVE  MarksOK'
<1>1. /\ build[b].failed \subseteq Paths /\ build[b].ddl \in 1..3
      /\ dead \subseteq Paths /\ triggers \subseteq Triggers
      /\ marks \subseteq {"last_build", "last_full_build", "last_watch_tick"}
      /\ faults \in 0..MaxFaults /\ commands \in 0..MaxCommands
  BY DEF TypeOK, Build
<1>2. \A i \in 1..3 : TriggerOrder[i] \in Triggers
  BY DEF TriggerOrder, Triggers
<1>3. dead' \subseteq Paths
  <2>1. CASE FlushBatch(b)
    <3>1. PICK kept \in SUBSET Fresh(build[b]) :
            dead' = DeadAfter(build[b], Fresh(build[b]) \ kept)
      BY <2>1 DEF FlushBatch
    <3>2. QED
      BY <1>1, <3>1 DEF DeadAfter, Fresh, Read
  <2>2. CASE dead' \in {dead, dead \cup build[b].failed}
    BY <1>1, <2>2
  <2>3. QED
    BY <2>1, <2>2
       DEF Proceed, ScanBox, Diff, DropTrigger, Parse, EntriesDone, DeleteRows, MoveRows,
           MoveClash, RebuildFts, CreateTrigger, ThreadRead, ThreadWrite, SetSyncState, tableVars
<1>4. triggers' \subseteq Triggers
  <2>1. CASE DropTrigger(b) \/ CreateTrigger(b)
    BY <1>1, <1>2, <2>1 DEF DropTrigger, CreateTrigger
  <2>2. CASE UNCHANGED triggers
    BY <1>1, <2>2
  <2>3. QED
    BY <2>1, <2>2
       DEF Proceed, ScanBox, Diff, Parse, FlushBatch, EntriesDone, DeleteRows, MoveRows,
           MoveClash, RebuildFts, ThreadRead, ThreadWrite, SetSyncState, tableVars
<1>5. marks' \subseteq {"last_build", "last_full_build", "last_watch_tick"}
  <2>1. CASE SetSyncState(b)
    BY <1>1, <2>1 DEF SetSyncState
  <2>2. CASE UNCHANGED marks
    BY <1>1, <2>2
  <2>3. QED
    BY <2>1, <2>2
       DEF Proceed, ScanBox, Diff, DropTrigger, Parse, FlushBatch, EntriesDone, DeleteRows,
           MoveRows, MoveClash, RebuildFts, CreateTrigger, ThreadRead, ThreadWrite, tableVars
<1>6. UNCHANGED <<faults, commands>>
  BY DEF Proceed, ScanBox, Diff, DropTrigger, Parse, FlushBatch, EntriesDone, DeleteRows,
         MoveRows, MoveClash, RebuildFts, CreateTrigger, ThreadRead, ThreadWrite, SetSyncState
<1>7. QED
  BY <1>1, <1>3, <1>4, <1>5, <1>6 DEF MarksOK

LEMMA ProceedFiles ==
    ASSUME NEW b \in Builders, Proceed(b)
    PROVE  UNCHANGED diskVars
BY DEF Proceed, ScanBox, Diff, DropTrigger, Parse, FlushBatch, EntriesDone, DeleteRows,
       MoveRows, MoveClash, RebuildFts, CreateTrigger, ThreadRead, ThreadWrite, SetSyncState

-----------------------------------------------------------------------------
LEMMA ProceedType ==
    ASSUME TypeOK, NEW b \in Builders, Proceed(b)
    PROVE  TypeOK'
<1>1. FilesOK'
  <2>1. FilesOK /\ UNCHANGED <<disk, bad, polling, events, clock>>
    BY TypeParts, ProceedFiles DEF diskVars
  <2>2. QED
    BY <2>1 DEF FilesOK
<1>2. RowsOK(rows)' /\ FtsOK(fts)'
  BY ProceedRows, ProceedFts DEF RowsOK, FtsOK
<1>3. QED
  BY <1>1, <1>2, ProceedMarks, ProceedBuild
     DEF TypeOK, FilesOK, RowsOK, FtsOK, MarksOK, BuildsOK

LEMMA MailType ==
    ASSUME TypeOK, MailChanges
    PROVE  TypeOK'
<1>1. /\ clock \in Nat /\ MaxClock \in Nat /\ clock < MaxClock /\ clock' = clock + 1
      /\ events' = TRUE /\ polling' = polling
      /\ UNCHANGED <<rows, fts, dead, triggers, marks, build, faults, commands>>
  BY IndexAssumption DEF MailChanges, Write, Move, Remove, Change, TypeOK, tableVars
<1>2. clock + 1 \in 1..MaxClock /\ 0 \in 0..MaxClock
  BY <1>1
<1>3. disk \in [Paths -> 0..MaxClock] /\ bad \subseteq 1..MaxClock
  BY DEF TypeOK
<1>4. disk' \in [Paths -> 0..MaxClock] /\ bad' \subseteq 1..MaxClock
  <2>1. ASSUME NEW p \in Paths, NEW kind, Write(p, kind)
        PROVE  disk' \in [Paths -> 0..MaxClock] /\ bad' \subseteq 1..MaxClock
    BY <1>1, <1>2, <1>3, <2>1 DEF Write
  <2>2. ASSUME NEW p \in Paths, NEW q \in Paths, Move(p, q)
        PROVE  disk' \in [Paths -> 0..MaxClock] /\ bad' \subseteq 1..MaxClock
    BY <1>2, <1>3, <2>2 DEF Move
  <2>3. ASSUME NEW p \in Paths, Remove(p)
        PROVE  disk' \in [Paths -> 0..MaxClock] /\ bad' \subseteq 1..MaxClock
    BY <1>2, <1>3, <2>3 DEF Remove
  <2>4. QED
    BY <2>1, <2>2, <2>3 DEF MailChanges
<1>5. QED
  BY <1>1, <1>2, <1>4 DEF TypeOK

LEMMA StartType ==
    ASSUME TypeOK, NEW b \in Builders, NEW full \in BOOLEAN, Start(b, full)
    PROVE  BuildsOK'
<1>1. [Ready EXCEPT !.pc = "scan", !.full = full, !.left = Boxes \ Excluded] \in Build
  BY ReadyType DEF Build
<1>2. QED
  BY <1>1, BecomeType, TypeParts DEF Start

LEMMA OtherType ==
    ASSUME TypeOK, NEW b \in Builders,
           Tick(b) \/ (\E full \in BOOLEAN : Command(b, full)) \/ Abort(b)
    PROVE  TypeOK'
<1>1. BuildsOK'
  <2>1. CASE Tick(b) \/ (\E full \in BOOLEAN : Command(b, full))
    BY <2>1, StartType DEF Tick, Command
  <2>2. CASE Abort(b)
    BY <2>2, ReadyType, BecomeType, TypeParts DEF Abort
  <2>3. QED
    BY <2>1, <2>2
<1>2. {MaxFaults, MaxCommands} \subseteq Nat
  BY IndexAssumption
<1>3. events' \in BOOLEAN
  <2>1. events' = FALSE \/ events' = events
    BY DEF Tick, Command, Abort, diskVars
  <2>2. QED
    BY <2>1 DEF TypeOK
<1>4. faults' \in 0..MaxFaults /\ commands' \in 0..MaxCommands
  <2>1. faults \in 0..MaxFaults /\ commands \in 0..MaxCommands
    BY DEF TypeOK
  <2>2. faults' = faults \/ (faults < MaxFaults /\ faults' = faults + 1)
    BY DEF Tick, Command, Abort
  <2>3. commands' = commands \/ (commands < MaxCommands /\ commands' = commands + 1)
    BY DEF Tick, Command, Abort
  <2>4. QED
    BY <1>2, <2>1, <2>2, <2>3
<1>5. dead' \subseteq Paths
  <2>1. dead \subseteq Paths /\ build[b].failed \subseteq Paths
    BY DEF TypeOK, Build
  <2>2. dead' \in {dead, dead \cup build[b].failed}
    BY DEF Tick, Command, Abort, tableVars
  <2>3. QED
    BY <2>1, <2>2
<1>6. UNCHANGED <<disk, bad, polling, clock, rows, fts, triggers, marks>>
  BY DEF Tick, Command, Abort, diskVars, tableVars
<1>7. QED
  BY <1>1, <1>3, <1>4, <1>5, <1>6 DEF TypeOK, BuildsOK

\* Every variable keeps its type: in particular no two rows ever have one id,
\* however builders delete, insert and move rows between each other's steps.
THEOREM TypeCorrect == Spec => []TypeOK
<1>1. Init => TypeOK
  <2>1. ASSUME Init
        PROVE  TypeOK
    <3>1. disk \in [Paths -> 0..MaxClock] /\ clock \in 0..MaxClock
      BY <2>1, IndexAssumption DEF Init
    <3>2. build \in [Builders -> Build]
      BY <2>1, ReadyType DEF Init
    <3>3. {MaxFaults, MaxCommands} \subseteq Nat
      BY IndexAssumption
    <3>4. /\ DOMAIN rows = {} /\ rows \in [DOMAIN rows -> Row]
          /\ DOMAIN fts = {} /\ fts \in [DOMAIN fts -> Nat]
      BY <2>1 DEF Init
    <3>5. QED
      <4>1. /\ bad = {} /\ polling \in BOOLEAN /\ events = FALSE /\ dead = {} /\ triggers = Triggers /\ marks = {}
            /\ faults = 0 /\ commands = 0
        BY <2>1, IndexAssumption DEF Init
      <4>2. faults \in 0..MaxFaults /\ commands \in 0..MaxCommands
        BY <3>3, <4>1
      <4>3. QED
        BY <3>1, <3>2, <3>4, <4>1, <4>2 DEF TypeOK
  <2>2. QED
    BY <2>1
<1>2. TypeOK /\ [Next]_vars => TypeOK'
  <2>1. ASSUME TypeOK, Next
        PROVE  TypeOK'
    BY <2>1, MailType, OtherType, ProceedType DEF Next
  <2>2. ASSUME TypeOK, UNCHANGED vars
        PROVE  TypeOK'
    BY <2>2 DEF TypeOK, vars, diskVars, tableVars
  <2>3. QED
    BY <2>1, <2>2
<1>3. QED
  BY <1>1, <1>2, PTL DEF Spec

-----------------------------------------------------------------------------
(***************************************************************************)
(* The text of a current row, where the message does not change its path.  *)
(***************************************************************************)
\* A version of p that has been there, and is not after the one that is.
Known(p, v) == v <= clock /\ (disk[p] # 0 => v <= disk[p])

Settled == {p \in Paths : Unmoved(p)}

FilesKnown == \A p \in Paths : disk[p] <= clock

\* A row's text was read no earlier than its stamp.
RowsInOrder(rs) ==
    \A p \in DOMAIN rs \cap Settled : /\ 0 < rs[p].stamp /\ rs[p].stamp <= rs[p].text
                                      /\ Known(p, rs[p].text)

\* So it is with what a build has at hand.
BuildInOrder(c) ==
    /\ \A m \in c.moved : m[2] \notin Settled
    /\ c.added \cup c.changed \subseteq OnDisk(c.seen)
    /\ \A p \in Settled : Known(p, c.seen[p]) /\ Known(p, c.batch[p])
    /\ \A p \in Read(c) \cap Settled : 0 < c.seen[p] /\ c.seen[p] <= c.batch[p]
    /\ c.pc = "scan" => c.added \cup c.changed = {} /\ Read(c) = {}

TextInv ==
    /\ FilesKnown
    /\ RowsInOrder(rows)
    /\ \A b \in Builders : BuildInOrder(build[b])

LEMMA SettledStay ==
    ASSUME NEW seen, NEW claims \in Claimable(seen), DOMAIN rows \subseteq Paths,
           NEW m \in MovedOf(seen, claims)
    PROVE  m[2] \notin Settled
<1>1. m[1] \in DOMAIN rows /\ m[2] \in Paths \ DOMAIN rows /\ RowidOf[m[1]] = RowidOf[m[2]]
  BY DEF MovedOf, Claimable, Missing, New, OnDisk
<1>2. QED
  BY <1>1 DEF Settled, Unmoved

LEMMA ReadyInOrder ==
    ASSUME TypeOK
    PROVE  BuildInOrder(Ready)
<1>1. /\ Ready.moved = {} /\ Ready.added = {} /\ Ready.changed = {} /\ Ready.pc = "idle"
      /\ \A p \in Paths : Ready.seen[p] = 0 /\ Ready.batch[p] = 0
  BY DEF Ready
<1>2. \A p \in Paths : disk[p] \in Nat /\ clock \in Nat
  BY DEF TypeOK
<1>3. \A p \in Paths : Known(p, 0)
  BY <1>2 DEF Known
<1>4. Read(Ready) = {}
  BY <1>1 DEF Read
<1>5. QED
  BY <1>1, <1>3, <1>4 DEF BuildInOrder, Settled

\* What matters of a record: a step that keeps these fields keeps the order.
LEMMA SameOrder ==
    ASSUME NEW c, NEW r, BuildInOrder(c), r.pc # "scan", r.moved = c.moved,
           r.added \subseteq c.added, r.changed \subseteq c.changed,
           r.seen = c.seen, r.batch = c.batch
    PROVE  BuildInOrder(r)
BY DEF BuildInOrder, Read, OnDisk

LEMMA BecomeInOrder ==
    ASSUME TypeOK, TextInv, NEW b \in Builders, NEW r, BuildInOrder(r), Become(b, r),
           UNCHANGED <<disk, clock>>
    PROVE  FilesKnown' /\ (\A d \in Builders : BuildInOrder(build[d])')
<1>1. \A d \in Builders : build'[d] = build[d] \/ build'[d] = r
  BY DEF Become, TypeOK
<1>2. \A c : BuildInOrder(c) => BuildInOrder(c)'
  BY DEF BuildInOrder, Known, Read, OnDisk
<1>3. \A d \in Builders : BuildInOrder(build[d])'
  <2>1. TAKE d \in Builders
  <2>2. BuildInOrder(build'[d])
    BY <1>1 DEF TextInv
  <2>3. QED
    BY <2>2 DEF BuildInOrder, Known, Read, OnDisk
<1>4. QED
  BY <1>3 DEF TextInv, FilesKnown

\* The file only gets newer than what has been seen of it.
LEMMA MailInOrder ==
    ASSUME TypeOK, TextInv, MailChanges
    PROVE  TextInv'
<1>1. /\ clock \in Nat /\ clock' = clock + 1
      /\ UNCHANGED <<rows, build>>
      /\ disk \in [Paths -> Nat] /\ rows \in [DOMAIN rows -> Row] /\ DOMAIN rows \subseteq Paths
      /\ build \in [Builders -> Build]
  BY DEF MailChanges, Write, Move, Remove, Change, TypeOK, tableVars
<1>2. \A p \in Paths : disk[p] \in Nat /\ disk[p] <= clock
  BY <1>1 DEF TextInv, FilesKnown
<1>3. \A p \in Settled : disk'[p] \in {0, disk[p], clock + 1}
  <2>1. ASSUME NEW q \in Paths, NEW kind, Write(q, kind)
        PROVE  \A p \in Settled : disk'[p] \in {0, disk[p], clock + 1}
    BY <1>1, <2>1 DEF Write, Settled
  <2>2. ASSUME NEW q \in Paths, NEW r \in Paths, Move(q, r)
        PROVE  \A p \in Settled : disk'[p] \in {0, disk[p], clock + 1}
    <3>1. q # r /\ RowidOf[q] = RowidOf[r]
      BY <2>2 DEF Move
    <3>2. q \notin Settled /\ r \notin Settled
      BY <3>1 DEF Settled, Unmoved
    <3>3. QED
      BY <1>1, <2>2, <3>2 DEF Move, Settled
  <2>3. ASSUME NEW q \in Paths, Remove(q)
        PROVE  \A p \in Settled : disk'[p] \in {0, disk[p], clock + 1}
    BY <1>1, <2>3 DEF Remove, Settled
  <2>4. QED
    BY <2>1, <2>2, <2>3 DEF MailChanges
<1>4. ASSUME NEW p \in Settled, NEW v \in Nat, Known(p, v)
      PROVE  Known(p, v)'
  <2>0. disk[p] \in Nat /\ disk[p] <= clock
    BY <1>2 DEF Settled
  <2>1. v <= clock /\ (disk[p] # 0 => v <= disk[p])
    BY <1>4 DEF Known
  <2>2. v <= clock' /\ (disk'[p] # 0 => v <= disk'[p])
    BY <1>1, <1>3, <2>0, <2>1
  <2>3. QED
    BY <2>2 DEF Known
<1>5. FilesKnown'
  <2>1. \A p \in Paths : disk'[p] \in {0, clock + 1} \/ \E q \in Paths : disk'[p] = disk[q]
    BY <1>1 DEF MailChanges, Write, Move, Remove
  <2>2. QED
    BY <1>1, <1>2, <2>1 DEF FilesKnown
<1>6. RowsInOrder(rows)'
  <2>1. \A p \in DOMAIN rows : p \in Paths /\ rows[p].text \in Nat
    BY <1>1 DEF Row
  <2>2. Settled' = Settled
    BY DEF Settled, Unmoved
  <2>3. QED
    BY <1>1, <1>4, <2>1, <2>2 DEF TextInv, RowsInOrder
<1>7. ASSUME NEW d \in Builders
      PROVE  BuildInOrder(build[d])'
  <2>1. build'[d] = build[d] /\ BuildInOrder(build[d])
    BY <1>1 DEF TextInv
  <2>2. \A p \in Settled : build[d].seen[p] \in Nat /\ build[d].batch[p] \in Nat
    BY <1>1 DEF Build, Settled
  <2>3. \A p \in Settled : Known(p, build[d].seen[p])' /\ Known(p, build[d].batch[p])'
    BY <1>1, <1>4, <2>1, <2>2 DEF BuildInOrder
  <2>4. Settled' = Settled
    BY DEF Settled, Unmoved
  <2>5. QED
    BY <2>1, <2>3, <2>4 DEF BuildInOrder, Read, OnDisk
<1>8. QED
  BY <1>5, <1>6, <1>7 DEF TextInv

\* A row is written with the stamp and the text the build has of its file.
LEMMA FlushInOrder ==
    ASSUME TypeOK, TextInv, NEW b \in Builders, FlushBatch(b)
    PROVE  RowsInOrder(rows')
<1> DEFINE c == build[b]
<1>1. PICK kept \in SUBSET Fresh(c) :
        /\ DOMAIN rows' = DOMAIN rows \cup kept
        /\ \A p \in DOMAIN rows' :
             \/ p \in Read(c) /\ (\E i : rows'[p] = RowOf(c, p, i))
             \/ p \in DOMAIN rows /\ rows'[p] = rows[p]
  <2>1. PICK kept \in SUBSET Fresh(c), top \in Ids(rows) \cup {0},
             n \in 0..Cardinality(Fresh(c)) : \E nth \in Bijection(kept, 1..n) :
           rows' = [p \in DOMAIN rows \cup kept |->
                      IF p \in kept THEN RowOf(c, p, top + nth[p])
                      ELSE IF p \in Read(c) THEN RowOf(c, p, rows[p].id)
                      ELSE rows[p]]
    BY DEF FlushBatch
  <2>2. PICK nth \in Bijection(kept, 1..n) :
           rows' = [p \in DOMAIN rows \cup kept |->
                      IF p \in kept THEN RowOf(c, p, top + nth[p])
                      ELSE IF p \in Read(c) THEN RowOf(c, p, rows[p].id)
                      ELSE rows[p]]
    BY <2>1
  <2>3. kept \subseteq Read(c)
    BY DEF Fresh
  <2>4. QED
    BY <2>2, <2>3
<1>2. BuildInOrder(c) /\ RowsInOrder(rows)
  BY DEF TextInv
<1> HIDE DEF c
<1>3. ASSUME NEW p \in Read(c) \cap Settled, NEW i
      PROVE  /\ 0 < RowOf(c, p, i).stamp /\ RowOf(c, p, i).stamp <= RowOf(c, p, i).text
             /\ Known(p, RowOf(c, p, i).text)
  <2>1. RowOf(c, p, i).stamp = c.seen[p] /\ RowOf(c, p, i).text = c.batch[p]
    BY DEF RowOf
  <2>2. 0 < c.seen[p] /\ c.seen[p] <= c.batch[p] /\ Known(p, c.batch[p])
    BY <1>2 DEF BuildInOrder, Read
  <2>3. QED
    BY <2>1, <2>2
<1>4. QED
  BY <1>1, <1>2, <1>3 DEF RowsInOrder

\* No row is moved to a settled path: rows there change by a batch or by deletion.
LEMMA RowsStayInOrder ==
    ASSUME TypeOK, TextInv, NEW b \in Builders, Proceed(b)
    PROVE  RowsInOrder(rows')
<1>1. RowsInOrder(rows) /\ \A m \in build[b].moved : m[2] \notin Settled
  BY DEF TextInv, BuildInOrder
<1>2. CASE FlushBatch(b)
  BY <1>2, FlushInOrder
<1>3. CASE DeleteRows(b)
  BY <1>1, <1>3 DEF DeleteRows, RowsInOrder, Without, Restrict
<1>4. ASSUME NEW M \in SUBSET build[b].moved, rows' = Relabelled(b, M)
      PROVE  RowsInOrder(rows')
  <2>1. \A p \in DOMAIN rows' \cap Settled : p \in DOMAIN rows /\ rows'[p] = rows[p]
    BY <1>1, <1>4 DEF Relabelled
  <2>2. QED
    BY <1>1, <2>1 DEF RowsInOrder
<1>5. CASE MoveRows(b) \/ MoveClash(b)
  <2>1. \E M \in SUBSET build[b].moved : rows' = Relabelled(b, M)
    BY <1>5 DEF MoveRows, MoveClash, UpdatePaths, Claims
  <2>2. QED
    BY <1>4, <2>1
<1>6. CASE UNCHANGED rows
  BY <1>1, <1>6
<1>7. QED
  BY <1>2, <1>3, <1>5, <1>6
     DEF Proceed, ScanBox, Diff, DropTrigger, Parse, EntriesDone, RebuildFts, CreateTrigger,
         ThreadRead, ThreadWrite, SetSyncState, tableVars

LEMMA ScanInOrder ==
    ASSUME TypeOK, TextInv, NEW b \in Builders, NEW box, ScanBox(b, box)
    PROVE  \E r : BuildInOrder(r) /\ Become(b, r)
<1> DEFINE c == build[b]
           seen == [p \in Paths |-> IF BoxOf[p] = box THEN disk[p] ELSE c.seen[p]]
           r == [c EXCEPT !.left = @ \ {box}, !.seen = seen]
<1>1. c \in Build /\ BuildInOrder(c) /\ c.pc = "scan" /\ Become(b, r)
  BY DEF TypeOK, TextInv, ScanBox
<1>2. \A p \in Paths : disk[p] \in Nat /\ disk[p] <= clock
  BY DEF TypeOK, TextInv, FilesKnown
<1>3. \A p \in Settled : Known(p, seen[p])
  BY <1>1, <1>2 DEF Known, BuildInOrder, Settled
<1> HIDE DEF seen
<1>4. /\ r.pc = c.pc /\ r.moved = c.moved /\ r.added = c.added /\ r.changed = c.changed
      /\ r.batch = c.batch /\ r.seen = seen
  BY <1>1 DEF Build
<1> HIDE DEF c, r
<1>5. Read(r) = {} /\ r.added \cup r.changed = {}
  BY <1>1, <1>4 DEF BuildInOrder, Read
<1>6. BuildInOrder(r)
  BY <1>1, <1>3, <1>4, <1>5 DEF BuildInOrder
<1>7. QED
  BY <1>1, <1>6

LEMMA DiffInOrder ==
    ASSUME TypeOK, TextInv, NEW b \in Builders, Diff(b)
    PROVE  \E r : BuildInOrder(r) /\ Become(b, r)
<1> DEFINE c == build[b]
<1>1. c \in Build /\ BuildInOrder(c) /\ c.pc = "scan"
  BY DEF TypeOK, TextInv, Diff
<1>2. PICK claims \in Claimable(c.seen) :
         LET moved   == MovedOf(c.seen, claims)
             added   == AddedOf(c.seen, moved)
             deleted == DeletedOf(c.seen, moved)
         IN  Become(b, [c EXCEPT !.pc = IF c.full THEN "drop" ELSE "added",
                                 !.added = added, !.changed = ChangedOf(c.seen),
                                 !.deleted = deleted, !.moved = moved,
                                 !.dirty = added \cup deleted \cup ChangedOf(c.seen) # {}
                                             \/ moved # {}])
  BY DEF Diff
<1> DEFINE moved   == MovedOf(c.seen, claims)
           added   == AddedOf(c.seen, moved)
           deleted == DeletedOf(c.seen, moved)
           changed == ChangedOf(c.seen)
           dirty   == added \cup deleted \cup changed # {} \/ moved # {}
           next    == IF c.full THEN "drop" ELSE "added"
           r == [c EXCEPT !.pc = next, !.added = added, !.changed = changed,
                          !.deleted = deleted, !.moved = moved, !.dirty = dirty]
<1>3. Become(b, r)
  BY <1>2
<1>4. (\A m \in moved : m[2] \notin Settled) /\ next # "scan"
  BY SettledStay DEF TypeOK
<1>5. added \cup changed \subseteq OnDisk(c.seen)
  BY DEF AddedOf, ChangedOf, New
<1> HIDE DEF moved, added, deleted, changed, dirty, next
<1>6. /\ r.pc = next /\ r.moved = moved /\ r.added = added /\ r.changed = changed
      /\ r.seen = c.seen /\ r.batch = c.batch
  BY <1>1 DEF Build
<1> HIDE DEF c, r
<1>7. BuildInOrder(r)
  BY <1>1, <1>4, <1>5, <1>6 DEF BuildInOrder, Read, OnDisk
<1>8. QED
  BY <1>3, <1>7

\* What is parsed now is no older than what was scanned.
LEMMA ParseInOrder ==
    ASSUME TypeOK, TextInv, NEW b \in Builders, NEW p \in Paths, Parse(b, p)
    PROVE  \E r : BuildInOrder(r) /\ Become(b, r)
<1> DEFINE c == build[b]
           read == [c EXCEPT ![c.pc] = @ \ {p}]
           r1 == [read EXCEPT !.failed = @ \cup {p}]
           r2 == [read EXCEPT !.batch[p] = disk[p]]
<1>1. /\ c \in Build /\ BuildInOrder(c)
      /\ disk[p] \in Nat /\ disk[p] <= clock
  BY DEF TypeOK, TextInv, FilesKnown
<1>2. /\ c.pc \in {"added", "changed"} /\ p \in c[c.pc]
      /\ Become(b, r1) \/ (disk[p] # 0 /\ Become(b, r2))
  BY DEF Parse
<1>3. /\ read.pc = c.pc /\ read.moved = c.moved /\ read.seen = c.seen /\ read.batch = c.batch
      /\ read.added \subseteq c.added /\ read.changed \subseteq c.changed
      /\ DOMAIN read = DOMAIN c
  <2>1. CASE c.pc = "added"
    <3>1. read = [c EXCEPT !.added = @ \ {p}]
      BY <2>1
    <3>2. QED
      BY <1>1, <3>1 DEF Build
  <2>2. CASE c.pc = "changed"
    <3>1. read = [c EXCEPT !.changed = @ \ {p}]
      BY <2>2
    <3>2. QED
      BY <1>1, <3>1 DEF Build
  <2>3. QED
    BY <1>2, <2>1, <2>2
<1>4. p \in c.added \cup c.changed
  <2>1. CASE c.pc = "added"
    BY <1>2, <2>1
  <2>2. CASE c.pc = "changed"
    BY <1>2, <2>2
  <2>3. QED
    BY <1>2, <2>1, <2>2
<1>5. c.seen[p] \in Nat /\ c.seen[p] # 0
  BY <1>1, <1>4 DEF BuildInOrder, OnDisk, Build
<1>6. DOMAIN c = DOMAIN Ready /\ c.batch \in [Paths -> Nat]
  BY <1>1 DEF Build, Ready
<1> HIDE DEF read
<1>7. /\ r1.pc = c.pc /\ r1.moved = c.moved /\ r1.seen = c.seen /\ r1.batch = c.batch
      /\ r1.added = read.added /\ r1.changed = read.changed
  BY <1>3, <1>6 DEF Ready
<1>8. /\ r2.pc = c.pc /\ r2.moved = c.moved /\ r2.seen = c.seen
      /\ r2.batch = [c.batch EXCEPT ![p] = disk[p]]
      /\ r2.added = read.added /\ r2.changed = read.changed
  BY <1>3, <1>6 DEF Ready
<1> HIDE DEF c, r1, r2
<1>9. BuildInOrder(r1)
  BY <1>1, <1>2, <1>3, <1>7, SameOrder
<1>10. ASSUME disk[p] # 0
       PROVE  BuildInOrder(r2)
  <2>1. Known(p, disk[p]) /\ (p \in Settled => c.seen[p] <= disk[p])
    BY <1>1, <1>10 DEF BuildInOrder, Known
  <2>2. \A q \in Paths : r2.batch[q] = IF q = p THEN disk[p] ELSE c.batch[q]
    BY <1>6, <1>8
  <2>3. \A q \in Settled : Known(q, r2.seen[q]) /\ Known(q, r2.batch[q])
    BY <1>1, <1>8, <2>1, <2>2 DEF BuildInOrder, Settled
  <2>4. ASSUME NEW q \in Read(r2) \cap Settled
        PROVE  0 < r2.seen[q] /\ r2.seen[q] <= r2.batch[q]
    <3>1. CASE q = p
      BY <1>5, <1>8, <2>1, <2>2, <3>1
    <3>2. CASE q # p
      BY <1>1, <1>8, <2>2, <3>2 DEF BuildInOrder, Read
    <3>3. QED
      BY <3>1, <3>2
  <2>5. (\A m \in r2.moved : m[2] \notin Settled) /\ r2.pc # "scan" /\ r2.added \cup r2.changed \subseteq OnDisk(r2.seen)
    BY <1>1, <1>2, <1>3, <1>8 DEF BuildInOrder
  <2>6. QED
    BY <2>3, <2>4, <2>5 DEF BuildInOrder
<1>11. QED
  BY <1>2, <1>9, <1>10

LEMMA ProceedInOrder ==
    ASSUME TypeOK, TextInv, NEW b \in Builders, Proceed(b)
    PROVE  TextInv'
<1> DEFINE c == build[b]
<1>1. c \in Build /\ BuildInOrder(c) /\ BuildInOrder(Ready)
  BY ReadyInOrder DEF TypeOK, TextInv
<1>2. \E r : BuildInOrder(r) /\ Become(b, r)
  <2>1. ASSUME NEW box \in Boxes, ScanBox(b, box)
        PROVE  \E r : BuildInOrder(r) /\ Become(b, r)
    BY <2>1, ScanInOrder
  <2>2. CASE Diff(b)
    BY <2>2, DiffInOrder
  <2>3. ASSUME NEW p \in Paths, Parse(b, p)
        PROVE  \E r : BuildInOrder(r) /\ Become(b, r)
    BY <2>3, ParseInOrder
  <2>4. CASE FlushBatch(b)
    <3> DEFINE r == [c EXCEPT !.batch = Ready.batch, !.failed = {}]
    <3>1. Become(b, r) /\ c.pc \in {"added", "changed"}
      BY <2>4 DEF FlushBatch
    <3>2. /\ r.pc = c.pc /\ r.moved = c.moved /\ r.added = c.added /\ r.changed = c.changed
          /\ r.seen = c.seen /\ r.batch = Ready.batch
      BY <1>1 DEF Build
    <3> HIDE DEF r, c
    <3>3. Read(r) = {}
      BY <3>2 DEF Read, Ready
    <3>4. \A p \in Settled : Known(p, r.batch[p])
      BY <1>1, <3>2 DEF BuildInOrder
    <3>5. BuildInOrder(r)
      BY <1>1, <3>1, <3>2, <3>3, <3>4 DEF BuildInOrder
    <3>6. QED
      BY <3>1, <3>5
  <2>6. CASE Become(b, Ready)
    BY <1>1, <2>6
  <2>7. CASE DropTrigger(b) \/ EntriesDone(b) \/ DeleteRows(b) \/ MoveRows(b) \/ RebuildFts(b)
               \/ CreateTrigger(b) \/ ThreadRead(b) \/ ThreadWrite(b)
    <3> DEFINE Kept(r) == /\ r.pc # "scan" /\ r.moved = c.moved /\ r.seen = c.seen
                          /\ r.batch = c.batch /\ r.added = c.added /\ r.changed = c.changed
    <3>1. ASSUME NEW r, Kept(r), Become(b, r)
          PROVE  \E x : BuildInOrder(x) /\ Become(b, x)
      <4>1. BuildInOrder(r)
        BY <1>1, <3>1, SameOrder
      <4>2. QED
        BY <3>1, <4>1
    <3>2. ASSUME NEW pc, pc # "scan"
          PROVE  /\ Kept([c EXCEPT !.pc = pc])
                 /\ \A i : Kept([c EXCEPT !.pc = pc, !.ddl = i])
                 /\ \A F : Kept([c EXCEPT !.pc = pc, !.failed = F])
                 /\ \A W : Kept([c EXCEPT !.pc = pc, !.walk = W])
                 /\ \A W, F : Kept([c EXCEPT !.pc = pc, !.walk = W, !.failed = F])
      BY <1>1, <3>2 DEF Build
    <3>3. c.pc # "scan" => \A i : Kept([c EXCEPT !.ddl = i])
      BY <1>1 DEF Build
    <3> HIDE DEF Kept
    <3>4. CASE DropTrigger(b)
      <4>1. \/ Become(b, [c EXCEPT !.ddl = c.ddl + 1])
            \/ Become(b, [c EXCEPT !.pc = "added", !.ddl = 1])
        BY <3>4 DEF DropTrigger
      <4>2. c.pc # "scan"
        BY <3>4 DEF DropTrigger
      <4>3. QED
        BY <3>1, <3>2, <3>3, <4>1, <4>2
    <3>5. CASE CreateTrigger(b)
      <4>1. \/ Become(b, [c EXCEPT !.ddl = c.ddl + 1])
            \/ Become(b, [c EXCEPT !.pc = "thread", !.ddl = 1])
        BY <3>5 DEF CreateTrigger
      <4>2. c.pc # "scan"
        BY <3>5 DEF CreateTrigger
      <4>3. QED
        BY <3>1, <3>2, <3>3, <4>1, <4>2
    <3>6. CASE EntriesDone(b)
      <4>1. \/ Become(b, [c EXCEPT !.pc = "changed"])
            \/ Become(b, [c EXCEPT !.pc = "delete"])
        BY <3>6 DEF EntriesDone
      <4>2. QED
        BY <3>1, <3>2, <4>1
    <3>7. CASE DeleteRows(b) \/ MoveRows(b)
      <4>1. PICK pc \in {"move", "rebuild", "thread"} :
              \E F : Become(b, [c EXCEPT !.pc = pc, !.failed = F])
        BY <3>7 DEF DeleteRows, MoveRows
      <4>2. QED
        BY <3>1, <3>2, <4>1
    <3>8. CASE RebuildFts(b)
      <4>1. Become(b, [c EXCEPT !.pc = "create", !.failed = {}])
        BY <3>8 DEF RebuildFts
      <4>2. QED
        BY <3>1, <3>2, <4>1
    <3>9. CASE ThreadRead(b)
      <4>1. \/ Become(b, [c EXCEPT !.pc = "sync"])
            \/ \E W : Become(b, [c EXCEPT !.pc = "position", !.walk = W])
        BY <3>9 DEF ThreadRead
      <4>2. QED
        BY <3>1, <3>2, <4>1
    <3>10. CASE ThreadWrite(b)
      <4>1. Become(b, [c EXCEPT !.pc = "sync", !.walk = {}, !.failed = {}])
        BY <3>10 DEF ThreadWrite
      <4>2. QED
        BY <3>1, <3>2, <4>1
    <3>11. QED
      BY <2>7, <3>4, <3>5, <3>6, <3>7, <3>8, <3>9, <3>10
  <2>8. CASE MoveClash(b) \/ SetSyncState(b)
    BY <2>6, <2>8 DEF MoveClash, SetSyncState
  <2>9. QED
    BY <2>1, <2>2, <2>3, <2>4, <2>7, <2>8 DEF Proceed
<1>3. UNCHANGED <<disk, clock>>
  BY ProceedFiles DEF diskVars
<1>4. FilesKnown' /\ (\A d \in Builders : BuildInOrder(build[d])')
  BY <1>2, <1>3, BecomeInOrder
<1>5. RowsInOrder(rows)'
  BY <1>3, RowsStayInOrder DEF RowsInOrder, Known
<1>6. QED
  BY <1>4, <1>5 DEF TextInv

LEMMA OtherInOrder ==
    ASSUME TypeOK, TextInv, NEW b \in Builders,
           Tick(b) \/ (\E full \in BOOLEAN : Command(b, full)) \/ Abort(b)
    PROVE  TextInv'
<1>1. UNCHANGED <<disk, clock, rows>>
  BY DEF Tick, Command, Abort, diskVars, tableVars
<1>2. ASSUME NEW full
      PROVE  BuildInOrder([Ready EXCEPT !.pc = "scan", !.full = full, !.left = Boxes \ Excluded])
  <2> DEFINE r == [Ready EXCEPT !.pc = "scan", !.full = full, !.left = Boxes \ Excluded]
  <2>1. /\ r.moved = {} /\ r.added = {} /\ r.changed = {}
        /\ r.seen = Ready.seen /\ r.batch = Ready.batch
    BY DEF Ready
  <2> HIDE DEF r
  <2>2. Read(r) = {}
    BY <2>1 DEF Read, Ready
  <2>3. BuildInOrder(r)
    BY <2>1, <2>2, ReadyInOrder DEF BuildInOrder
  <2>4. QED
    BY <2>3 DEF r
<1>3. \E r : BuildInOrder(r) /\ Become(b, r)
  BY <1>2, ReadyInOrder DEF Tick, Command, Abort, Start
<1>4. FilesKnown' /\ (\A d \in Builders : BuildInOrder(build[d])')
  BY <1>1, <1>3, BecomeInOrder
<1>5. RowsInOrder(rows)'
  BY <1>1 DEF TextInv, RowsInOrder, Known
<1>6. QED
  BY <1>4, <1>5 DEF TextInv

LEMMA CurrentFromOrder ==
    ASSUME TypeOK, TextInv
    PROVE  TextIsCurrent
<1>1. SUFFICES ASSUME NEW p \in DOMAIN rows, Unmoved(p), rows[p].stamp = disk[p]
               PROVE  rows[p].text = disk[p]
  BY DEF TextIsCurrent
<1>2. rows[p].stamp \in Nat /\ rows[p].text \in Nat /\ p \in Settled
  BY <1>1 DEF TypeOK, Row, Settled
<1>3. 0 < rows[p].stamp /\ rows[p].stamp <= rows[p].text
  BY <1>2 DEF TextInv, RowsInOrder
<1>4. rows[p].text <= disk[p]
  BY <1>1, <1>2, <1>3 DEF TextInv, RowsInOrder, Known
<1>5. QED
  BY <1>1, <1>2, <1>3, <1>4

\* A row with the stamp of its file has the text of its file, whatever files
\* arrive, change, move, are half-written or vanish while any number of builds
\* scan, parse, commit and break off; only the row of a message that takes
\* another path itself is excepted (Unmoved, in TextIsCurrent).
THEOREM TextStaysCurrent == Spec => []TextIsCurrent
<1>1. Init /\ TypeOK => TextInv
  <2>1. ASSUME Init, TypeOK
        PROVE  TextInv
    <3>1. FilesKnown /\ DOMAIN rows = {}
      BY <2>1 DEF Init, FilesKnown
    <3>2. \A b \in Builders : BuildInOrder(build[b])
      BY <2>1, ReadyInOrder DEF Init
    <3>3. QED
      BY <3>1, <3>2 DEF TextInv, RowsInOrder
  <2>2. QED
    BY <2>1
<1>2. TextInv /\ TypeOK /\ [Next]_vars => TextInv'
  <2>1. ASSUME TextInv, TypeOK, Next
        PROVE  TextInv'
    BY <2>1, MailInOrder, OtherInOrder, ProceedInOrder DEF Next
  <2>2. ASSUME TextInv, TypeOK, UNCHANGED vars
        PROVE  TextInv'
    <3>1. UNCHANGED <<disk, clock, rows, build>>
      BY <2>2 DEF vars, diskVars, tableVars
    <3>2. QED
      BY <2>2, <3>1 DEF TextInv, FilesKnown, RowsInOrder, BuildInOrder, Known, Read, OnDisk
  <2>3. QED
    BY <2>1, <2>2
<1>3. TextInv /\ TypeOK => TextIsCurrent
  BY CurrentFromOrder
<1>4. QED
  BY <1>1, <1>2, <1>3, TypeCorrect, PTL DEF Spec

-----------------------------------------------------------------------------
(***************************************************************************)
(* The full-text table, as long as nobody starts a full build.             *)
(***************************************************************************)
\* The triggers are there, no build is on its way to drop or restore them, a
\* build moves at most one row to a path, and the table has the rows' texts.
IncrementalBuild(c) ==
    /\ ~c.full
    /\ c.pc \notin {"drop", "rebuild", "create"}
    /\ \A m1, m2 \in c.moved : m1[2] = m2[2] => m1 = m2

SearchInv ==
    /\ triggers = Triggers
    /\ \A b \in Builders : IncrementalBuild(build[b])
    /\ fts = Texts(rows, DOMAIN rows)

LEMMA TextsAt ==
    ASSUME NEW rs, RowsOK(rs), NEW P, P \subseteq DOMAIN rs
    PROVE  /\ DOMAIN Texts(rs, P) = {rs[p].id : p \in P}
           /\ \A p \in P : Texts(rs, P)[rs[p].id] = rs[p].text
<1>1. DOMAIN Texts(rs, P) = {rs[p].id : p \in P}
  BY DEF Texts
<1>2. ASSUME NEW p \in P
      PROVE  Texts(rs, P)[rs[p].id] = rs[p].text
  <2> DEFINE i == rs[p].id
             q == CHOOSE x \in P : rs[x].id = i
  <2>1. Texts(rs, P)[i] = rs[q].text
    BY DEF Texts
  <2>2. q \in P /\ rs[q].id = i
    OBVIOUS
  <2>3. q = p
    BY <2>2 DEF RowsOK
  <2>4. QED
    BY <2>1, <2>3
<1>3. QED
  BY <1>1, <1>2

LEMMA TextsOfRows ==
    ASSUME NEW rs, RowsOK(rs)
    PROVE  /\ DOMAIN Texts(rs, DOMAIN rs) = Ids(rs)
           /\ \A p \in DOMAIN rs : Texts(rs, DOMAIN rs)[rs[p].id] = rs[p].text
BY TextsAt DEF Ids

\* A table with the ids and the texts of the rows is what a rebuild would store.
LEMMA TextsOf ==
    ASSUME NEW rs, RowsOK(rs), NEW f, f = [i \in DOMAIN f |-> f[i]],
           DOMAIN f = Ids(rs), \A p \in DOMAIN rs : f[rs[p].id] = rs[p].text
    PROVE  f = Texts(rs, DOMAIN rs)
<1> DEFINE g == Texts(rs, DOMAIN rs)
<1>1. DOMAIN g = Ids(rs) /\ \A p \in DOMAIN rs : g[rs[p].id] = rs[p].text
  BY TextsAt DEF Ids
<1>2. g = [i \in DOMAIN g |-> g[i]]
  BY DEF Texts
<1> HIDE DEF g
<1>3. ASSUME NEW i \in DOMAIN f
      PROVE  f[i] = g[i]
  <2>1. PICK p \in DOMAIN rs : rs[p].id = i
    BY DEF Ids
  <2>2. QED
    BY <1>1, <2>1
<1>4. f = g
  BY <1>1, <1>2, <1>3
<1>5. QED
  BY <1>4 DEF g

\* Storing the texts of the rows a step touches keeps the table up with rows of
\* which no id is lost, where the other rows have what a row had before.
LEMMA StoredFollows ==
    ASSUME RowsOK(rows), fts = Texts(rows, DOMAIN rows),
           NEW rs, RowsOK(rs), NEW P, P \subseteq DOMAIN rs,
           Ids(rows) \subseteq Ids(rs),
           \A p \in DOMAIN rs \ P :
              \E q \in DOMAIN rows : rows[q].id = rs[p].id /\ rows[q].text = rs[p].text
    PROVE  Stored(fts, Texts(rs, P)) = Texts(rs, DOMAIN rs)
<1>1. DOMAIN fts = Ids(rows) /\ \A q \in DOMAIN rows : fts[rows[q].id] = rows[q].text
  BY TextsOfRows
<1> DEFINE g == Texts(rs, P)
           f == Stored(fts, g)
<1>2. DOMAIN g = {rs[p].id : p \in P} /\ \A p \in P : g[rs[p].id] = rs[p].text
  <2>1. RowsOK(rs) /\ P \subseteq DOMAIN rs
    OBVIOUS
  <2>2. QED
    BY ONLY <2>1, TextsAt
<1> HIDE DEF g
<1>3. /\ DOMAIN f = DOMAIN fts \cup DOMAIN g /\ f = [i \in DOMAIN f |-> f[i]]
      /\ \A i \in DOMAIN f : f[i] = IF i \in DOMAIN g THEN g[i] ELSE fts[i]
  BY DEF Stored
<1> HIDE DEF f
<1>4. Ids(rs) \subseteq DOMAIN f
  <2>1. SUFFICES ASSUME NEW p \in DOMAIN rs
                 PROVE  rs[p].id \in DOMAIN f
    BY DEF Ids
  <2>2. CASE p \in P
    BY <1>2, <1>3, <2>2
  <2>3. CASE p \notin P
    <3>1. PICK q \in DOMAIN rows : rows[q].id = rs[p].id
      BY <2>3
    <3>2. rows[q].id \in Ids(rows)
      BY DEF Ids
    <3>3. QED
      BY <1>1, <1>3, <3>1, <3>2
  <2>4. QED
    BY <2>2, <2>3
<1>5. DOMAIN g \subseteq Ids(rs)
  BY <1>2 DEF Ids
<1>6. DOMAIN f = Ids(rs)
  BY <1>1, <1>3, <1>4, <1>5
<1>7. ASSUME NEW p \in DOMAIN rs
      PROVE  f[rs[p].id] = rs[p].text
  <2>1. rs[p].id \in DOMAIN f
    BY <1>6 DEF Ids
  <2>2. CASE p \in P
    BY <1>2, <1>3, <2>1, <2>2
  <2>3. CASE p \notin P
    <3>1. rs[p].id \notin DOMAIN g
      BY <1>2, <2>3 DEF RowsOK
    <3>2. PICK q \in DOMAIN rows : rows[q].id = rs[p].id /\ rows[q].text = rs[p].text
      BY <2>3
    <3>3. QED
      BY <1>1, <1>3, <2>1, <3>1, <3>2
  <2>4. QED
    BY <2>2, <2>3
<1>8. f = Texts(rs, DOMAIN rs)
  BY <1>3, <1>6, <1>7, TextsOf
<1>9. QED
  BY <1>8 DEF f, g

LEMMA FlushFollows ==
    ASSUME TypeOK, SearchInv, NEW b \in Builders, FlushBatch(b)
    PROVE  fts' = Texts(rows', DOMAIN rows')
<1> DEFINE c == build[b]
<1>1. RowsOK(rows) /\ RowsOK(rows') /\ fts = Texts(rows, DOMAIN rows)
  BY FlushRows, TypeParts DEF SearchInv
<1>2. "emails_ai" \in triggers /\ "emails_au" \in triggers
  BY DEF SearchInv, Triggers
<1>3. PICK kept \in SUBSET Fresh(c) :
        /\ DOMAIN rows' = DOMAIN rows \cup kept
        /\ \A p \in DOMAIN rows \ kept :
             rows'[p] = IF p \in Read(c) THEN RowOf(c, p, rows[p].id) ELSE rows[p]
        /\ fts' = Stored(fts, Texts(rows', kept \cup (Read(c) \ Fresh(c))))
  <2>1. PICK kept \in SUBSET Fresh(c), top \in Ids(rows) \cup {0},
             n \in 0..Cardinality(Fresh(c)) : \E nth \in Bijection(kept, 1..n) :
          /\ rows' = [p \in DOMAIN rows \cup kept |->
                        IF p \in kept THEN RowOf(c, p, top + nth[p])
                        ELSE IF p \in Read(c) THEN RowOf(c, p, rows[p].id)
                        ELSE rows[p]]
          /\ fts' = Stored(fts, Texts(rows', kept \cup (Read(c) \ Fresh(c))))
    BY <1>2 DEF FlushBatch
  <2>2. QED
    BY <2>1
<1>4. kept \cap DOMAIN rows = {} /\ Read(c) \ Fresh(c) = Read(c) \cap DOMAIN rows
  BY DEF Fresh
<1> DEFINE P == kept \cup (Read(c) \ Fresh(c))
<1>5. P \subseteq DOMAIN rows'
  BY <1>3, <1>4
<1>6. \A p \in DOMAIN rows : rows'[p].id = rows[p].id
  BY <1>3, <1>4 DEF RowOf
<1>7. Ids(rows) \subseteq Ids(rows')
  BY <1>3, <1>6 DEF Ids
<1>8. \A p \in DOMAIN rows' \ P :
         \E q \in DOMAIN rows : rows[q].id = rows'[p].id /\ rows[q].text = rows'[p].text
  <2>1. \A p \in DOMAIN rows' \ P : p \in DOMAIN rows /\ rows'[p] = rows[p]
    BY <1>3, <1>4
  <2>2. QED
    BY <2>1
<1> HIDE DEF P
<1>9. Stored(fts, Texts(rows', P)) = Texts(rows', DOMAIN rows')
  BY <1>1, <1>5, <1>7, <1>8, StoredFollows
<1>10. QED
  BY <1>3, <1>9 DEF P

LEMMA DeleteFollows ==
    ASSUME TypeOK, SearchInv, NEW b \in Builders, DeleteRows(b)
    PROVE  fts' = Texts(rows', DOMAIN rows')
<1> DEFINE D    == build[b].deleted
           gone == {rows[p].id : p \in D \cap DOMAIN rows}
<1>1. RowsOK(rows) /\ RowsOK(rows') /\ fts = Texts(rows, DOMAIN rows)
  BY WithoutRows, TypeParts DEF SearchInv, DeleteRows
<1>2. DOMAIN fts = Ids(rows) /\ \A q \in DOMAIN rows : fts[rows[q].id] = rows[q].text
  BY <1>1, TextsAt DEF Ids
<1>3. rows' = Without(rows, D) /\ fts' = Without(fts, gone)
  BY DEF DeleteRows, SearchInv, Triggers
<1> HIDE DEF D
<1>4. DOMAIN rows' = DOMAIN rows \ D /\ \A p \in DOMAIN rows' : rows'[p] = rows[p]
  BY <1>3 DEF Without, Restrict
<1>5. /\ DOMAIN fts' = Ids(rows) \ gone /\ fts' = [i \in DOMAIN fts' |-> fts'[i]]
      /\ \A i \in DOMAIN fts' : fts'[i] = fts[i]
  BY <1>2, <1>3 DEF Without, Restrict
<1>6. ASSUME NEW p \in DOMAIN rows
      PROVE  rows[p].id \in gone <=> p \in D
  BY <1>1 DEF RowsOK
<1>7. \A i : i \in DOMAIN fts' <=> \E p \in DOMAIN rows : i = rows[p].id /\ p \notin D
  BY <1>5, <1>6 DEF Ids
<1> HIDE DEF gone
<1>8. \A i : i \in Ids(rows') <=> \E p \in DOMAIN rows : i = rows[p].id /\ p \notin D
  BY <1>4 DEF Ids
<1>9. DOMAIN fts' = Ids(rows')
  BY <1>7, <1>8
<1>10. \A p \in DOMAIN rows' : fts'[rows'[p].id] = rows'[p].text
  <2>1. TAKE p \in DOMAIN rows'
  <2>2. rows'[p] = rows[p] /\ p \in DOMAIN rows /\ rows[p].id \in DOMAIN fts'
    BY <1>4, <1>7
  <2>3. QED
    BY <1>2, <1>5, <2>2
<1>11. QED
  BY <1>1, <1>5, <1>9, <1>10, TextsOf

\* A move keeps the row's id: it goes to one path, and no row is there yet.
LEMMA MoveFollows ==
    ASSUME TypeOK, SearchInv, NEW b \in Builders, MoveRows(b) \/ MoveClash(b)
    PROVE  fts' = Texts(rows', DOMAIN rows')
<1>1. RowsOK(rows) /\ fts = Texts(rows, DOMAIN rows) /\ BuildsOK
  BY TypeParts DEF SearchInv
<1>2. \A m1, m2 \in build[b].moved : m1[2] = m2[2] => m1 = m2
  BY DEF SearchInv, IncrementalBuild
<1>3. PICK N \in Claims(build[b].moved) : \E M \in SUBSET (N \ Clashes(N)) : UpdatePaths(b, M)
  BY DEF MoveRows, MoveClash
<1>4. PICK M \in SUBSET (N \ Clashes(N)) : UpdatePaths(b, M)
  BY <1>3
<1>5. /\ M \subseteq build[b].moved /\ M \in SUBSET (Paths \X Paths)
      /\ \A k1, k2 \in M : k1[1] = k2[1] => k1 = k2
      /\ \A m \in M : m[1] \in DOMAIN rows => m[2] \notin DOMAIN rows
  BY <1>1, <1>3, <1>4 DEF Claims, Clashes, BuildsOK, Build
<1> DEFINE from == {m[1] : m \in M} \cap DOMAIN rows
           to   == {m[2] : m \in {k \in M : k[1] \in from}}
           Old(q) == CHOOSE o \in from : <<o, q>> \in M
           rs == Relabelled(b, M)
           P  == {m[2] : m \in {k \in M : k[1] \in DOMAIN rows}}
<1>6. /\ DOMAIN rs = (DOMAIN rows \ from) \cup to
      /\ \A q \in DOMAIN rs :
           rs[q] = IF q \in to THEN [rows[Old(q)] EXCEPT !.stamp = build[b].seen[q]]
                               ELSE rows[q]
  BY DEF Relabelled
<1>7. RowsOK(rs)
  BY <1>1, <1>5, RelabelledType
<1>8. rows' = rs /\ fts' = Stored(fts, Texts(rs, P))
  BY <1>4 DEF UpdatePaths, SearchInv, Triggers
<1> HIDE DEF rs
<1>9. ASSUME NEW x \in DOMAIN rows
      PROVE  rows[x].id \in Ids(rs)
  <2>1. CASE x \in from
    <3>1. PICK m \in M : m[1] = x
      BY <2>1
    <3>2. m = <<x, m[2]>> /\ m[2] \in to
      BY <1>5, <2>1, <3>1
    <3>3. Old(m[2]) = x
      <4>1. <<Old(m[2]), m[2]>> \in M
        BY <2>1, <3>2
      <4>2. <<Old(m[2]), m[2]>> = m
        BY <1>2, <1>5, <4>1
      <4>3. QED
        BY <3>2, <4>2
    <3>4. m[2] \in DOMAIN rs /\ rs[m[2]] = [rows[x] EXCEPT !.stamp = build[b].seen[m[2]]]
      BY <1>6, <3>2, <3>3
    <3>5. rs[m[2]].id = rows[x].id
      BY <1>1, <3>4 DEF RowsOK, Row
    <3>6. QED
      BY <3>4, <3>5 DEF Ids
  <2>2. CASE x \notin from
    <3>1. x \notin to
      BY <1>5
    <3>2. x \in DOMAIN rs /\ rs[x] = rows[x]
      BY <1>6, <2>2, <3>1
    <3>3. QED
      BY <3>2 DEF Ids
  <2>3. QED
    BY <2>1, <2>2
<1>10. Ids(rows) \subseteq Ids(rs)
  BY <1>9 DEF Ids
<1>11. \A p \in DOMAIN rs \ P :
          \E q \in DOMAIN rows : rows[q].id = rs[p].id /\ rows[q].text = rs[p].text
  <2>1. \A p \in DOMAIN rs \ P : p \in DOMAIN rows /\ rs[p] = rows[p]
    BY <1>6
  <2>2. QED
    BY <2>1
<1>12. P \subseteq DOMAIN rs
  BY Arrived DEF rs
<1> HIDE DEF P
<1>13. Stored(fts, Texts(rs, P)) = Texts(rs, DOMAIN rs)
  BY <1>1, <1>7, <1>10, <1>11, <1>12, StoredFollows
<1>14. QED
  BY <1>8, <1>13

LEMMA ProceedFollows ==
    ASSUME TypeOK, SearchInv, NEW b \in Builders, Proceed(b)
    PROVE  fts' = Texts(rows', DOMAIN rows')
<1>1. RowsOK(rows) /\ fts = Texts(rows, DOMAIN rows)
  BY TypeParts DEF SearchInv
<1>2. CASE ThreadWrite(b)
  <2> DEFINE P == {p \in DOMAIN rows : rows[p].id \in build[b].walk}
  <2>1. fts' = Stored(fts, Texts(rows, P)) /\ UNCHANGED rows
    BY <1>2 DEF ThreadWrite, SearchInv, Triggers
  <2>2. P \subseteq DOMAIN rows
    OBVIOUS
  <2> HIDE DEF P
  <2>3. Stored(fts, Texts(rows, P)) = Texts(rows, DOMAIN rows)
    BY <1>1, <2>2, StoredFollows
  <2>4. QED
    BY <2>1, <2>3
<1>3. CASE RebuildFts(b)
  BY <1>3 DEF RebuildFts
<1>4. CASE UNCHANGED <<rows, fts>>
  BY <1>1, <1>4
<1>5. QED
  BY <1>2, <1>3, <1>4, FlushFollows, DeleteFollows, MoveFollows
     DEF Proceed, ScanBox, Diff, DropTrigger, Parse, EntriesDone, CreateTrigger,
         ThreadRead, SetSyncState, tableVars

LEMMA ReadyIncremental == IncrementalBuild(Ready)
BY DEF IncrementalBuild, Ready

LEMMA SameIncremental ==
    ASSUME NEW c \in Build, IncrementalBuild(c), NEW r, r.full = c.full, r.moved = c.moved,
           r.pc \notin {"drop", "rebuild", "create"}
    PROVE  IncrementalBuild(r)
BY DEF IncrementalBuild

LEMMA BecomeIncremental ==
    ASSUME TypeOK, SearchInv, NEW b \in Builders, NEW r, IncrementalBuild(r), Become(b, r)
    PROVE  \A d \in Builders : IncrementalBuild(build'[d])
BY DEF Become, TypeOK, SearchInv

\* Of the paths a file vanished from, one is taken for the place it came from.
LEMMA DiffIncremental ==
    ASSUME TypeOK, SearchInv, NEW b \in Builders, Diff(b)
    PROVE  \E r : IncrementalBuild(r) /\ Become(b, r)
<1> DEFINE c == build[b]
<1>1. c \in Build /\ ~c.full
  BY DEF TypeOK, SearchInv, IncrementalBuild
<1>2. PICK claims \in Claimable(c.seen) :
         LET moved   == MovedOf(c.seen, claims)
             added   == AddedOf(c.seen, moved)
             deleted == DeletedOf(c.seen, moved)
         IN  Become(b, [c EXCEPT !.pc = IF c.full THEN "drop" ELSE "added",
                                 !.added = added, !.changed = ChangedOf(c.seen),
                                 !.deleted = deleted, !.moved = moved,
                                 !.dirty = added \cup deleted \cup ChangedOf(c.seen) # {}
                                             \/ moved # {}])
  BY DEF Diff
<1> DEFINE moved   == MovedOf(c.seen, claims)
           added   == AddedOf(c.seen, moved)
           deleted == DeletedOf(c.seen, moved)
           changed == ChangedOf(c.seen)
           dirty   == added \cup deleted \cup changed # {} \/ moved # {}
           next    == IF c.full THEN "drop" ELSE "added"
           r == [c EXCEPT !.pc = next, !.added = added, !.changed = changed,
                          !.deleted = deleted, !.moved = moved, !.dirty = dirty]
<1>3. Become(b, r)
  BY <1>2
<1>4. \A m1, m2 \in moved : m1[2] = m2[2] => m1 = m2
  <2>1. \A o1, o2 \in claims : RowidOf[o1] = RowidOf[o2] => o1 = o2
    BY <1>2 DEF Claimable
  <2>2. \A m \in moved : m[1] \in claims /\ RowidOf[m[1]] = RowidOf[m[2]] /\ m = <<m[1], m[2]>>
    BY DEF MovedOf
  <2>3. QED
    BY <2>1, <2>2
<1>5. next = "added"
  BY <1>1
<1> HIDE DEF moved, added, deleted, changed, dirty, next
<1>6. r.pc = next /\ r.moved = moved /\ r.full = c.full
  BY <1>1 DEF Build
<1> HIDE DEF c, r
<1>7. IncrementalBuild(r)
  BY <1>1, <1>4, <1>5, <1>6 DEF IncrementalBuild
<1>8. QED
  BY <1>3, <1>7

LEMMA ProceedIncremental ==
    ASSUME TypeOK, SearchInv, NEW b \in Builders, Proceed(b)
    PROVE  \E r : IncrementalBuild(r) /\ Become(b, r)
<1> DEFINE c == build[b]
           Kept(r) == r.full = c.full /\ r.moved = c.moved /\ r.pc \notin {"drop", "rebuild", "create"}
<1>1. c \in Build /\ IncrementalBuild(c) /\ ~c.full /\ c.pc \notin {"drop", "rebuild", "create"}
  BY DEF TypeOK, SearchInv, IncrementalBuild
<1>2. ASSUME NEW r, Kept(r), Become(b, r)
      PROVE  \E x : IncrementalBuild(x) /\ Become(b, x)
  BY <1>1, <1>2, SameIncremental
<1>3. ASSUME NEW box \in Boxes, ScanBox(b, box)
      PROVE  \E x : IncrementalBuild(x) /\ Become(b, x)
  <2>1. \E L, S : Become(b, [c EXCEPT !.left = L, !.seen = S])
    BY <1>3 DEF ScanBox
  <2>2. \A L, S : Kept([c EXCEPT !.left = L, !.seen = S])
    BY <1>1 DEF Build
  <2>3. QED
    BY <1>2, <2>1, <2>2
<1>4. CASE Diff(b)
  BY <1>4, DiffIncremental
<1>5. ASSUME NEW p \in Paths, Parse(b, p)
      PROVE  \E x : IncrementalBuild(x) /\ Become(b, x)
  <2> DEFINE read == [c EXCEPT ![c.pc] = @ \ {p}]
             r1 == [read EXCEPT !.failed = @ \cup {p}]
             r2 == [read EXCEPT !.batch[p] = disk[p]]
  <2>1. c.pc \in {"added", "changed"} /\ (Become(b, r1) \/ Become(b, r2))
    BY <1>5 DEF Parse
  <2>2. read.full = c.full /\ read.moved = c.moved /\ read.pc = c.pc /\ DOMAIN read = DOMAIN c
    <3>1. c.pc = "added" => read = [c EXCEPT !.added = @ \ {p}]
      OBVIOUS
    <3>2. c.pc = "changed" => read = [c EXCEPT !.changed = @ \ {p}]
      OBVIOUS
    <3>3. QED
      BY <1>1, <2>1, <3>1, <3>2 DEF Build
  <2> HIDE DEF read
  <2>3. Kept(r1) /\ Kept(r2)
    BY <1>1, <2>2 DEF Build
  <2>4. QED
    BY <1>2, <2>1, <2>3
<1>6. CASE FlushBatch(b)
  <2>1. \E B : Become(b, [c EXCEPT !.batch = B, !.failed = {}])
    BY <1>6 DEF FlushBatch
  <2>2. \A B : Kept([c EXCEPT !.batch = B, !.failed = {}])
    BY <1>1 DEF Build
  <2>3. QED
    BY <1>2, <2>1, <2>2
<1>7. CASE EntriesDone(b) \/ ThreadRead(b)
  <2>1. \/ \E pc \in {"changed", "delete", "sync"} : Become(b, [c EXCEPT !.pc = pc])
        \/ \E W : Become(b, [c EXCEPT !.pc = "position", !.walk = W])
    BY <1>7 DEF EntriesDone, ThreadRead
  <2>2. /\ \A pc \in {"changed", "delete", "sync"} : Kept([c EXCEPT !.pc = pc])
        /\ \A W : Kept([c EXCEPT !.pc = "position", !.walk = W])
    BY <1>1 DEF Build
  <2>3. QED
    BY <1>2, <2>1, <2>2
<1>8. CASE DeleteRows(b) \/ MoveRows(b) \/ ThreadWrite(b)
  <2>1. \/ \E pc \in {"move", "thread"} : \E F : Become(b, [c EXCEPT !.pc = pc, !.failed = F])
        \/ Become(b, [c EXCEPT !.pc = "sync", !.walk = {}, !.failed = {}])
    BY <1>1, <1>8 DEF DeleteRows, MoveRows, ThreadWrite
  <2>2. /\ \A pc \in {"move", "thread"} : \A F : Kept([c EXCEPT !.pc = pc, !.failed = F])
        /\ Kept([c EXCEPT !.pc = "sync", !.walk = {}, !.failed = {}])
    BY <1>1 DEF Build
  <2>3. QED
    BY <1>2, <2>1, <2>2
<1>9. CASE MoveClash(b) \/ SetSyncState(b)
  BY <1>9, ReadyIncremental DEF MoveClash, SetSyncState
<1>10. ~(DropTrigger(b) \/ RebuildFts(b) \/ CreateTrigger(b))
  BY <1>1 DEF DropTrigger, RebuildFts, CreateTrigger
<1>11. QED
  BY <1>3, <1>4, <1>5, <1>6, <1>7, <1>8, <1>9, <1>10 DEF Proceed

\* Where full builds are not allowed, the builds of any number of watchers and
\* commands keep the full-text table equal to the rows at every step, however
\* they interleave, clash and break off.
THEOREM SearchStaysCurrent ==
    ASSUME TRUE \notin Full
    PROVE  Spec => []SearchFollowsRows
<1>1. Init => SearchInv
  <2>1. ASSUME Init
        PROVE  SearchInv
    <3>1. DOMAIN rows = {} /\ fts = [i \in {} |-> 0] /\ triggers = Triggers
      BY <2>1 DEF Init
    <3>2. \A b \in Builders : IncrementalBuild(build[b])
      BY <2>1, ReadyIncremental DEF Init
    <3>3. RowsOK(rows)
      BY <3>1, <2>1 DEF RowsOK, Init
    <3>4. DOMAIN fts = Ids(rows) /\ fts = [i \in DOMAIN fts |-> fts[i]]
      BY <3>1 DEF Ids
    <3>5. fts = Texts(rows, DOMAIN rows)
      BY <3>1, <3>3, <3>4, TextsOf
    <3>6. QED
      BY <3>1, <3>2, <3>5 DEF SearchInv
  <2>2. QED
    BY <2>1
<1>2. SearchInv /\ TypeOK /\ [Next]_vars => SearchInv'
  <2>1. ASSUME SearchInv, TypeOK, NEW b \in Builders, Proceed(b)
        PROVE  SearchInv'
    <3>1. \A d \in Builders : IncrementalBuild(build'[d])
      BY <2>1, ProceedIncremental, BecomeIncremental
    <3>2. triggers' = Triggers
      <4>1. ~(DropTrigger(b) \/ CreateTrigger(b))
        BY <2>1 DEF SearchInv, IncrementalBuild, DropTrigger, CreateTrigger
      <4>2. UNCHANGED triggers
        BY <2>1, <4>1
           DEF Proceed, ScanBox, Diff, Parse, FlushBatch, EntriesDone, DeleteRows, MoveRows,
               MoveClash, RebuildFts, ThreadRead, ThreadWrite, SetSyncState, tableVars
      <4>3. QED
        BY <2>1, <4>2 DEF SearchInv
    <3>3. QED
      BY <2>1, <3>1, <3>2, ProceedFollows DEF SearchInv, IncrementalBuild
  <2>2. ASSUME SearchInv, TypeOK, NEW b \in Builders,
               Tick(b) \/ (\E full \in BOOLEAN : Command(b, full)) \/ Abort(b)
        PROVE  SearchInv'
    <3>1. \E r : IncrementalBuild(r) /\ Become(b, r)
      <4>1. IncrementalBuild([Ready EXCEPT !.pc = "scan", !.full = FALSE, !.left = Boxes \ Excluded])
        BY DEF IncrementalBuild, Ready
      <4>2. \A full \in BOOLEAN : Command(b, full) => full = FALSE
        BY DEF Command
      <4>3. QED
        BY <2>2, <4>1, <4>2, ReadyIncremental DEF Tick, Command, Abort, Start
    <3>2. \A d \in Builders : IncrementalBuild(build'[d])
      BY <2>2, <3>1, BecomeIncremental
    <3>3. UNCHANGED <<rows, fts, triggers>>
      BY <2>2 DEF Tick, Command, Abort, tableVars
    <3>4. QED
      BY <2>2, <3>2, <3>3 DEF SearchInv, IncrementalBuild
  <2>3. ASSUME SearchInv, MailChanges \/ UNCHANGED vars
        PROVE  SearchInv'
    <3>1. UNCHANGED <<rows, fts, triggers, build>>
      BY <2>3 DEF MailChanges, Write, Move, Remove, Change, vars, tableVars
    <3>2. QED
      BY <2>3, <3>1 DEF SearchInv, IncrementalBuild
  <2>4. QED
    BY <2>1, <2>2, <2>3 DEF Next
<1>3. SearchInv => SearchFollowsRows
  BY DEF SearchInv, SearchFollowsRows
<1>4. QED
  BY <1>1, <1>2, <1>3, TypeCorrect, PTL DEF Spec

=============================================================================
