-------------------------- MODULE Threader_proofs --------------------------
(***************************************************************************)
(* Threader, for any number of messages, rows and references and whatever  *)
(* the headers say: the containers are a forest at every step, a threading *)
(* gives every Message-ID one place, and its steps are steps of            *)
(* Conversations.  With genuine headers conversations come together.       *)
(* With unbroken ones get_email_thread shows all it counts.                *)
(***************************************************************************)
EXTENDS Threader, FiniteSetTheorems, WellFoundedInduction, TLAPS


-----------------------------------------------------------------------------
(***************************************************************************)
(* The inductive form of Forest: a rank that grows from parents to         *)
(* children takes the place of the absence of circles.                     *)
(***************************************************************************)
Boxes == [made : Seq(Mids), row : [Mids -> Ids \cup {0}],
          parent : [Mids -> Mids \cup {None}], children : [Mids -> Seq(Mids)]]

RankedBy(rank, b) == \A c \in Mids : b.parent[c] # None => rank[b.parent[c]] < rank[c]

Ranked(b) == \E rank \in [Mids -> Nat] : RankedBy(rank, b)

Mirrored(b) == \A m, c \in Mids : c \in Range(b.children[m]) <=> b.parent[c] = m

Once(b) == \A m \in Mids : \A i, j \in DOMAIN b.children[m] :
              b.children[m][i] = b.children[m][j] => i = j

Sound(b) == b \in Boxes /\ Ranked(b) /\ Mirrored(b) /\ Once(b)

Scanning ==
    /\ emails \in [Ids -> Mail \cup {None}]
    /\ phase \in {"idle", "row", "chain", "subject"}
    /\ rows \subseteq Rows
    /\ phase \in {"idle", "subject"} => rows = {}
    /\ chain \in Seq(Mids)
    /\ prev \in Mids \cup {None}
    /\ merged \in Seq(Mids)

RootsHeld ==
    /\ roots \subseteq {m \in Mids : box.parent[m] = None}
    /\ phase # "subject" => roots = {}

ForestInv == Sound(box) /\ Scanning /\ RootsHeld

-----------------------------------------------------------------------------
(***************************************************************************)
(* Sequences                                                               *)
(***************************************************************************)
\* Appending a value adds it to the range and leaves the rest in place.
LEMMA Appended ==
    ASSUME NEW S, NEW s \in Seq(S), NEW e \in S
    PROVE  /\ Append(s, e) \in Seq(S)
           /\ DOMAIN Append(s, e) = 1..(Len(s) + 1) /\ Len(s) \in Nat /\ DOMAIN s = 1..Len(s)
           /\ \A i \in 1..Len(s) : Append(s, e)[i] = s[i]
           /\ Append(s, e)[Len(s) + 1] = e
           /\ Range(Append(s, e)) = Range(s) \cup {e}
<1>1. /\ Append(s, e) \in Seq(S)
      /\ DOMAIN Append(s, e) = 1..(Len(s) + 1) /\ Len(s) \in Nat /\ DOMAIN s = 1..Len(s)
      /\ \A i \in 1..Len(s) : Append(s, e)[i] = s[i]
      /\ Append(s, e)[Len(s) + 1] = e
  OBVIOUS
<1>2. Range(Append(s, e)) = Range(s) \cup {e}
  <2>1. ASSUME NEW x \in Range(Append(s, e)) PROVE x \in Range(s) \cup {e}
    <3>1. PICK i \in 1..(Len(s) + 1) : x = Append(s, e)[i]
      BY <1>1 DEF Range
    <3>2. CASE i \in 1..Len(s)
      BY <1>1, <3>1, <3>2 DEF Range
    <3>3. CASE i = Len(s) + 1
      BY <1>1, <3>1, <3>3
    <3> QED
      BY <1>1, <3>2, <3>3
  <2>2. ASSUME NEW x \in Range(s) PROVE x \in Range(Append(s, e))
    <3>1. PICK i \in 1..Len(s) : x = s[i]
      BY <1>1 DEF Range
    <3>2. i \in DOMAIN Append(s, e) /\ Append(s, e)[i] = x
      BY <1>1, <3>1
    <3> QED
      BY <3>2 DEF Range
  <2>3. e \in Range(Append(s, e))
    <3>1. Len(s) + 1 \in DOMAIN Append(s, e)
      BY <1>1
    <3> QED
      BY <1>1, <3>1 DEF Range
  <2> QED
    BY <2>1, <2>2, <2>3
<1> QED
  BY <1>1, <1>2

\* A sequence has values of its set only.
LEMMA RangeWithin ==
    ASSUME NEW S, NEW s \in Seq(S)
    PROVE  Range(s) \subseteq S
BY DEF Range

-----------------------------------------------------------------------------
(***************************************************************************)
(* Links                                                                   *)
(***************************************************************************)
\* The new parent: linking below a container that is not below the child
\* keeps a rank, since everything not above the new parent can be moved up.
LEMMA LinkRanked ==
    ASSUME NEW b, b \in Boxes, Ranked(b), NEW p \in Mids, NEW c \in Mids,
           b.parent[c] = None, ~CreatesCycle(b, p, c), ThreaderAssumption,
           NEW d, d \in Boxes, d.parent = [b.parent EXCEPT ![c] = p]
    PROVE  Ranked(d)
<1>1. PICK rank \in [Mids -> Nat] : RankedBy(rank, b)
  BY DEF Ranked
<1>2. PICK S \in Upward(b) : p \in S /\ c \notin S
  BY DEF CreatesCycle
<1>3. S \subseteq Mids /\ \A m \in S : b.parent[m] # None => b.parent[m] \in S
  BY DEF Upward
<1> DEFINE above == [m \in Mids |-> IF m \in S THEN rank[m] ELSE rank[m] + rank[p] + 1]
<1>4. above \in [Mids -> Nat] /\ rank[p] \in Nat
  BY <1>1
<1>5. b.parent \in [Mids -> Mids \cup {None}]
  BY DEF Boxes
<1>6. ASSUME NEW m \in Mids, d.parent[m] # None PROVE above[d.parent[m]] < above[m]
  <2>1. CASE m = c
    <3>1. d.parent[m] = p
      BY <2>1, <1>5
    <3>2. above[p] = rank[p] /\ above[m] = rank[m] + rank[p] + 1
      BY <1>2, <2>1
    <3> QED
      BY <3>1, <3>2, <1>1
  <2>2. CASE m # c
    <3>1. d.parent[m] = b.parent[m] /\ b.parent[m] \in Mids
      BY <2>2, <1>5, <1>6
    <3>2. rank[b.parent[m]] < rank[m]
      BY <3>1, <1>1, <1>6 DEF RankedBy
    <3>3. CASE m \in S
      <4>1. b.parent[m] \in S
        BY <1>3, <1>6, <3>1, <3>3
      <4> QED
        BY <4>1, <3>1, <3>2, <3>3
    <3>4. CASE m \notin S
      <4>1. above[m] = rank[m] + rank[p] + 1
        BY <3>4
      <4>2. above[b.parent[m]] \in {rank[b.parent[m]], rank[b.parent[m]] + rank[p] + 1}
        BY <3>1
      <4>3. rank[m] \in Nat /\ rank[b.parent[m]] \in Nat
        BY <1>1, <3>1
      <4> HIDE DEF above
      <4> QED
        BY <4>1, <4>2, <4>3, <3>1, <3>2, <1>4
    <3> QED
      BY <3>3, <3>4
  <2> QED
    BY <2>1, <2>2
<1>7. RankedBy(above, d)
  <2> HIDE DEF above
  <2> QED
    BY <1>6 DEF RankedBy
<1> QED
  BY <1>4, <1>7 DEF Ranked

\* The child lists follow.
LEMMA LinkMirrored ==
    ASSUME NEW b, b \in Boxes, Mirrored(b), Once(b), NEW p \in Mids, NEW c \in Mids,
           b.parent[c] = None, ThreaderAssumption,
           NEW d, d.parent = [b.parent EXCEPT ![c] = p],
           d.children = [b.children EXCEPT ![p] = Append(b.children[p], c)]
    PROVE  Mirrored(d) /\ Once(d)
<1>1. /\ b.parent \in [Mids -> Mids \cup {None}]
      /\ b.children \in [Mids -> Seq(Mids)]
      /\ None \notin Mids
  BY DEF Boxes, ThreaderAssumption
<1>2. c \notin Range(b.children[p])
  BY <1>1 DEF Mirrored
<1>3. /\ d.children[p] = Append(b.children[p], c)
      /\ \A m \in Mids \ {p} : d.children[m] = b.children[m]
      /\ d.parent[c] = p
      /\ \A m \in Mids \ {c} : d.parent[m] = b.parent[m]
  BY <1>1
<1>4. b.children[p] \in Seq(Mids)
  BY <1>1
<1> DEFINE s == b.children[p]
<1>5. /\ DOMAIN Append(s, c) = 1..(Len(s) + 1) /\ Len(s) \in Nat /\ DOMAIN s = 1..Len(s)
      /\ \A i \in 1..Len(s) : Append(s, c)[i] = s[i]
      /\ Append(s, c)[Len(s) + 1] = c
      /\ Range(Append(s, c)) = Range(s) \cup {c}
  BY <1>4, Appended
<1>6. Mirrored(d)
  <2>1. ASSUME NEW m \in Mids, NEW e \in Mids
        PROVE  e \in Range(d.children[m]) <=> d.parent[e] = m
    <3>1. e \in Range(b.children[m]) <=> b.parent[e] = m
      BY DEF Mirrored
    <3>2. CASE m = p
      <4>1. Range(d.children[m]) = Range(b.children[m]) \cup {c}
        BY <1>3, <1>5, <3>2
      <4> QED
        BY <3>1, <3>2, <4>1, <1>3
    <3>3. CASE m # p
      <4>1. Range(d.children[m]) = Range(b.children[m])
        BY <1>3, <3>3
      <4>2. CASE e = c
        BY <1>1, <1>3, <3>1, <3>3, <4>1, <4>2
      <4>3. CASE e # c
        BY <1>3, <3>1, <4>1, <4>3
      <4> QED
        BY <4>2, <4>3
    <3> QED
      BY <3>2, <3>3
  <2> QED
    BY <2>1 DEF Mirrored
<1>7. Once(d)
  <2>1. ASSUME NEW m \in Mids, NEW i \in DOMAIN d.children[m], NEW j \in DOMAIN d.children[m],
               d.children[m][i] = d.children[m][j]
        PROVE  i = j
    <3>1. CASE m # p
      BY <1>3, <2>1, <3>1 DEF Once
    <3>2. CASE m = p
      <4>1. i \in 1..(Len(s) + 1) /\ j \in 1..(Len(s) + 1)
            /\ Append(s, c)[i] = Append(s, c)[j]
        BY <1>3, <1>5, <2>1, <3>2
      <4>2. \A k \in 1..Len(s) : Append(s, c)[k] # c
        BY <1>2, <1>5 DEF Range
      <4>3. CASE i \in 1..Len(s) /\ j \in 1..Len(s)
        <5>1. s[i] = s[j]
          BY <4>1, <4>3, <1>5
        <5>2. i \in DOMAIN b.children[p] /\ j \in DOMAIN b.children[p]
          BY <4>3, <1>5
        <5> QED
          BY <5>1, <5>2 DEF Once
      <4>4. CASE i = Len(s) + 1 \/ j = Len(s) + 1
        BY <4>1, <4>2, <4>4, <1>5
      <4> QED
        BY <4>1, <4>3, <4>4, <1>5
    <3> QED
      BY <3>1, <3>2
  <2> QED
    BY <2>1 DEF Once
<1> QED
  BY <1>6, <1>7

\* _link: a container without a parent can be linked below any other.
LEMMA LinkSound ==
    ASSUME NEW b, Sound(b), NEW p \in Mids, NEW c \in Mids, b.parent[c] = None,
           ThreaderAssumption
    PROVE  /\ Sound(Link(b, p, c))
           /\ \A m \in Mids \ {c} : Link(b, p, c).parent[m] = b.parent[m]
<1>1. b \in Boxes /\ Ranked(b) /\ Mirrored(b) /\ Once(b)
  BY DEF Sound
<1>2. CASE c = p \/ CreatesCycle(b, p, c)
  BY <1>2 DEF Link
<1>3. CASE ~(c = p \/ CreatesCycle(b, p, c))
  <2> DEFINE d == [made |-> b.made, row |-> b.row,
                   parent |-> [b.parent EXCEPT ![c] = p],
                   children |-> [b.children EXCEPT ![p] = Append(b.children[p], c)]]
  <2>1. b.parent \in [Mids -> Mids \cup {None}] /\ b.children \in [Mids -> Seq(Mids)]
        /\ b.made \in Seq(Mids) /\ b.row \in [Mids -> Ids \cup {0}] /\ None \notin Mids
    BY <1>1 DEF Boxes, ThreaderAssumption
  <2>2. c \notin Range(b.children[p])
    BY <1>1, <2>1 DEF Mirrored
  <2>3. Link(b, p, c) = d
    BY <1>3, <2>2 DEF Link
  <2>4. Append(b.children[p], c) \in Seq(Mids)
    BY <2>1, Appended
  <2>5. d \in Boxes
    BY <2>1, <2>4 DEF Boxes
  <2>6. /\ d.parent = [b.parent EXCEPT ![c] = p]
        /\ d.children = [b.children EXCEPT ![p] = Append(b.children[p], c)]
    OBVIOUS
  <2> HIDE DEF d
  <2>7. Ranked(d)
    BY <1>1, <1>3, <2>5, <2>6, LinkRanked
  <2>8. Mirrored(d) /\ Once(d)
    BY <1>1, <2>6, LinkMirrored
  <2>9. \A m \in Mids \ {c} : d.parent[m] = b.parent[m]
    BY <2>1, <2>6
  <2> QED
    BY <2>3, <2>5, <2>7, <2>8, <2>9 DEF Sound
<1> QED
  BY <1>2, <1>3

\* A container that has a parent is left where it is.
LEMMA OrphanSound ==
    ASSUME NEW b, Sound(b), NEW p \in Mids \cup {None}, NEW c \in Mids, ThreaderAssumption
    PROVE  Sound(LinkOrphan(b, p, c))
<1>1. CASE p # None /\ b.parent[c] = None
  <2>1. p \in Mids
    BY <1>1
  <2> QED
    BY <1>1, <2>1, LinkSound DEF LinkOrphan
<1>2. CASE ~(p # None /\ b.parent[c] = None)
  BY <1>2 DEF LinkOrphan
<1> QED
  BY <1>1, <1>2

\* Only links and child lists decide about a forest.
LEMMA SameLinksSound ==
    ASSUME NEW b, Sound(b), NEW d, d \in Boxes, d.parent = b.parent, d.children = b.children
    PROVE  Sound(d)
BY DEF Sound, Ranked, RankedBy, Mirrored, Once

\* A container that is made is linked to nothing.
LEMMA GetSound ==
    ASSUME NEW b, Sound(b), NEW m \in Mids
    PROVE  /\ Sound(GetOrCreate(b, m))
           /\ GetOrCreate(b, m).row = b.row
<1>1. CASE m \in Made(b)
  BY <1>1 DEF GetOrCreate
<1>2. CASE m \notin Made(b)
  <2> DEFINE d == [b EXCEPT !.made = Append(@, m)]
  <2>1. b \in Boxes
    BY DEF Sound
  <2>2. Append(b.made, m) \in Seq(Mids)
    BY <2>1, Appended DEF Boxes
  <2>3. d \in Boxes /\ d.parent = b.parent /\ d.children = b.children /\ d.row = b.row
    BY <2>1, <2>2 DEF Boxes
  <2>4. GetOrCreate(b, m) = d
    BY <1>2 DEF GetOrCreate
  <2> HIDE DEF d
  <2>5. Sound(d)
    BY <2>3, SameLinksSound
  <2> QED
    BY <2>3, <2>4, <2>5
<1> QED
  BY <1>1, <1>2

\* Taking a row links nothing.
LEMMA TakeSound ==
    ASSUME NEW b, Sound(b), NEW id \in Ids, emails[id].mid \in Mids
    PROVE  Sound(Take(b, id))
<1> DEFINE m == emails[id].mid
           g == GetOrCreate(b, m)
           d == [g EXCEPT !.row = [g.row EXCEPT ![m] = id]]
<1>1. Sound(g)
  BY GetSound
<1>2. g \in Boxes
  BY <1>1 DEF Sound
<1>3. Take(b, id) = d
  BY DEF Take
<1> HIDE DEF g
<1>4. g.row \in [Mids -> Ids \cup {0}]
  BY <1>2 DEF Boxes
<1>5. [g.row EXCEPT ![m] = id] \in [Mids -> Ids \cup {0}]
  BY <1>4
<1>6. d \in Boxes /\ d.parent = g.parent /\ d.children = g.children
  BY <1>2, <1>5 DEF Boxes
<1> HIDE DEF d
<1>7. Sound(d)
  BY <1>1, <1>6, SameLinksSound
<1> QED
  BY <1>3, <1>7

\* Following a reference keeps the forest.
LEMMA FollowSound ==
    ASSUME NEW b, Sound(b), NEW from \in Mids \cup {None}, NEW ref \in Mids,
           ThreaderAssumption
    PROVE  Sound(Follow(b, from, ref))
BY GetSound, OrphanSound DEF Follow

\* A rank is what the walk up cannot go round in a circle with.
LEMMA SoundIsForest ==
    ASSUME Sound(box), ThreaderAssumption
    PROVE  Forest
<1>1. box.parent \in [Mids -> Mids \cup {None}] /\ box.children \in [Mids -> Seq(Mids)]
  BY DEF Sound, Boxes
<1>2. ASSUME NEW m \in Mids, box.parent[m] # None
      PROVE  ~CreatesCycle(box, box.parent[m], m)
  <2>1. PICK rank \in [Mids -> Nat] : RankedBy(rank, box)
    BY DEF Sound, Ranked
  <2> DEFINE p == box.parent[m]
             S == {y \in Mids : rank[y] <= rank[p]}
  <2>2. p \in Mids
    BY <1>1, <1>2
  <2>3. p \in S
    BY <2>1, <2>2
  <2>4. m \notin S
    BY <2>1, <2>2, <1>2 DEF RankedBy
  <2>5. ASSUME NEW y \in S, box.parent[y] # None PROVE box.parent[y] \in S
    <3>1. box.parent[y] \in Mids /\ rank[box.parent[y]] < rank[y] /\ rank[y] <= rank[p]
      BY <1>1, <2>1, <2>5 DEF RankedBy
    <3>2. rank[box.parent[y]] \in Nat /\ rank[y] \in Nat /\ rank[p] \in Nat
      BY <3>1, <2>1, <2>2
    <3> QED
      BY <3>1, <3>2
  <2>6. S \in Upward(box)
    BY <2>5 DEF Upward
  <2> HIDE DEF S
  <2> QED
    BY <2>3, <2>4, <2>6 DEF CreatesCycle
<1> QED
  BY <1>2 DEF Forest, Sound, Mirrored, Once

-----------------------------------------------------------------------------
(***************************************************************************)
(* The steps                                                               *)
(***************************************************************************)
LEMMA NoContainersSound == ThreaderAssumption => Sound(NoContainers)
<1> SUFFICES ASSUME ThreaderAssumption PROVE Sound(NoContainers)
  OBVIOUS
<1>1. /\ NoContainers.made = <<>>
      /\ NoContainers.parent = [m \in Mids |-> None]
      /\ NoContainers.children = [m \in Mids |-> <<>>]
      /\ NoContainers \in Boxes
  BY DEF NoContainers, Boxes
<1>2. [m \in Mids |-> 0] \in [Mids -> Nat]
  OBVIOUS
<1>3. RankedBy([m \in Mids |-> 0], NoContainers)
  BY <1>1 DEF RankedBy
<1>4. Ranked(NoContainers)
  BY <1>2, <1>3 DEF Ranked
<1>5. Mirrored(NoContainers) /\ Once(NoContainers)
  BY <1>1 DEF Mirrored, Once, Range, ThreaderAssumption
<1> QED
  BY <1>1, <1>4, <1>5 DEF Sound

\* The forest begins without a tree.
LEMMA ForestInit == ThreaderAssumption /\ Init => ForestInv
<1> SUFFICES ASSUME ThreaderAssumption, Init PROVE ForestInv
  OBVIOUS
<1>1. Sound(box)
  BY NoContainersSound DEF Init
<1> QED
  BY <1>1 DEF Init, ForestInv, Scanning, RootsHeld

\* A row in the index has the Message-IDs of a header.
LEMMA RowIsMail ==
    ASSUME Scanning, ThreaderAssumption, NEW id \in Rows
    PROVE  id \in Ids /\ emails[id].mid \in Mids /\ Chain(emails[id]) \in Seq(Mids)
<1>1. id \in Ids /\ emails[id] \in Mail
  BY DEF Rows, Scanning
<1>2. emails[id] \in RowType
  BY <1>1 DEF ThreaderAssumption
<1>3. emails[id].mid \in Mids /\ emails[id].reply \in Mids \cup {None}
      /\ emails[id].refs \in Seq(Mids)
  BY <1>2 DEF RowType
<1> QED
  BY <1>1, <1>3, Appended DEF Chain

\* Rows come and go between two threadings.
LEMMA IndexStep ==
    ASSUME ForestInv, ThreaderAssumption,
           (\E r \in Mail : Index(r)) \/ (\E id \in Ids : Delete(id)) \/ Start
    PROVE  ForestInv'
<1> USE DEF ForestInv
<1>1. CASE \E r \in Mail : Index(r)
  <2>1. PICK r \in Mail : Index(r)
    BY <1>1
  <2>2. phase = "idle" /\ emails' = [emails EXCEPT ![NextId] = r] /\ NextId \in Ids
        /\ UNCHANGED <<phase, rows, chain, prev, box, roots, merged>>
    BY <2>1 DEF Index
  <2>3. emails' \in [Ids -> Mail \cup {None}] /\ rows' = {}
    BY <2>2 DEF Scanning
  <2>4. Sound(box')
    BY <2>2
  <2> QED
    BY <2>2, <2>3, <2>4 DEF Scanning, RootsHeld
<1>2. CASE \E id \in Ids : Delete(id)
  <2>1. PICK id \in Ids : Delete(id)
    BY <1>2
  <2>2. phase = "idle" /\ emails' = [emails EXCEPT ![id] = None]
        /\ UNCHANGED <<phase, rows, chain, prev, box, roots, merged>>
    BY <2>1 DEF Delete
  <2>3. emails' \in [Ids -> Mail \cup {None}] /\ rows' = {}
    BY <2>2 DEF Scanning
  <2>4. Sound(box')
    BY <2>2
  <2> QED
    BY <2>2, <2>3, <2>4 DEF Scanning, RootsHeld
<1>3. CASE Start
  <2>1. phase' = "row" /\ phase = "idle" /\ rows' = Rows
        /\ UNCHANGED <<emails, chain, prev, box, roots, merged>>
    BY <1>3 DEF Start
  <2>2. Rows' = Rows
    BY <2>1 DEF Rows
  <2>3. Sound(box')
    BY <2>1
  <2> QED
    BY <2>1, <2>2, <2>3 DEF Scanning, RootsHeld
<1> QED
  BY <1>1, <1>2, <1>3

\* The rows are read, their references followed.
LEMMA ReadStep ==
    ASSUME ForestInv, ThreaderAssumption,
           (\E id \in Ids : TakeRow(id) \/ Attach(id)) \/ FollowRef
    PROVE  ForestInv'
<1> USE DEF ForestInv
<1>1. ASSUME NEW id \in Ids, TakeRow(id) PROVE ForestInv'
  <2>1. /\ phase = "row" /\ phase' = "chain" /\ id \in rows
        /\ box' = Take(box, id) /\ chain' = Chain(emails[id]) /\ prev' = None
        /\ UNCHANGED <<emails, rows, roots, merged>>
    BY <1>1 DEF TakeRow, Reading
  <2>2. emails[id].mid \in Mids /\ Chain(emails[id]) \in Seq(Mids)
    BY <2>1, RowIsMail DEF Scanning
  <2>3. Sound(box')
    BY <2>1, <2>2, TakeSound
  <2>4. roots' = {} /\ Rows' = Rows
    BY <2>1 DEF RootsHeld, Rows
  <2> QED
    BY <2>1, <2>2, <2>3, <2>4 DEF Scanning, RootsHeld
<1>2. ASSUME NEW id \in Ids, Attach(id) PROVE ForestInv'
  <2>1. /\ phase = "chain" /\ phase' = "row" /\ id \in rows
        /\ box' = LinkOrphan(box, prev, emails[id].mid)
        /\ rows' = rows \ {id} /\ prev' = None
        /\ UNCHANGED <<emails, chain, roots, merged>>
    BY <1>2 DEF Attach, Reading
  <2>2. emails[id].mid \in Mids /\ prev \in Mids \cup {None}
    BY <2>1, RowIsMail DEF Scanning
  <2>3. Sound(box')
    BY <2>1, <2>2, OrphanSound
  <2>4. roots' = {} /\ Rows' = Rows
    BY <2>1 DEF RootsHeld, Rows
  <2> QED
    BY <2>1, <2>3, <2>4 DEF Scanning, RootsHeld
<1>3. ASSUME FollowRef PROVE ForestInv'
  <2>1. /\ phase = "chain" /\ chain # <<>>
        /\ box' = Follow(box, prev, Head(chain))
        /\ prev' = Head(chain) /\ chain' = Tail(chain)
        /\ UNCHANGED <<emails, phase, rows, roots, merged>>
    BY <1>3 DEF FollowRef
  <2>2. Head(chain) \in Mids /\ Tail(chain) \in Seq(Mids) /\ prev \in Mids \cup {None}
    BY <2>1 DEF Scanning
  <2>3. Sound(box')
    BY <2>1, <2>2, FollowSound
  <2>4. roots' = {} /\ Rows' = Rows
    BY <2>1 DEF RootsHeld, Rows
  <2> QED
    BY <2>1, <2>2, <2>3, <2>4 DEF Scanning, RootsHeld
<1> QED
  BY <1>1, <1>2, <1>3

\* The roots are gathered by subject, the trees numbered.
LEMMA RootStep ==
    ASSUME ForestInv, ThreaderAssumption,
           GatherRoots \/ (\E m \in Mids : MergeRoot(m)) \/ Number \/ EndEarly
    PROVE  ForestInv'
<1> USE DEF ForestInv
<1>1. ASSUME GatherRoots PROVE ForestInv'
  <2>1. /\ phase = "row" /\ phase' = "subject" /\ rows = {} /\ roots' = Roots(box)
        /\ UNCHANGED <<emails, rows, chain, prev, box, merged>>
    BY <1>1 DEF GatherRoots
  <2>2. box.made \in Seq(Mids)
    BY DEF Sound, Boxes
  <2>3. roots' \subseteq {m \in Mids : box'.parent[m] = None}
    BY <2>1, <2>2, RangeWithin DEF Roots, Made
  <2>4. Sound(box') /\ Rows' = Rows
    BY <2>1 DEF Rows
  <2> QED
    BY <2>1, <2>3, <2>4 DEF Scanning, RootsHeld
<1>2. ASSUME NEW m \in Mids, MergeRoot(m) PROVE ForestInv'
  <2>1. /\ phase = "subject" /\ m \in roots
        /\ roots' = roots \ {m}
        /\ UNCHANGED <<emails, phase, rows, chain, prev>>
    BY <1>2 DEF MergeRoot, IsFirst
  <2>2. box.parent[m] = None /\ merged \in Seq(Mids) /\ Rows' = Rows
    BY <2>1 DEF RootsHeld, Scanning, Rows
  <2>3. CASE Anchors(box, merged, m) = {}
    <3>1. merged' = Append(merged, m) /\ UNCHANGED box
      BY <1>2, <2>3 DEF MergeRoot
    <3>2. merged' \in Seq(Mids)
      BY <2>2, <3>1, Appended
    <3>3. Sound(box')
      BY <3>1
    <3> QED
      BY <2>1, <2>2, <3>1, <3>2, <3>3 DEF Scanning, RootsHeld
  <2>4. CASE Anchors(box, merged, m) # {}
    <3>1. PICK a \in Anchors(box, merged, m) : box' = Link(box, a, m) /\ UNCHANGED merged
      BY <1>2, <2>4 DEF MergeRoot
    <3>2. a \in Mids
      BY <3>1, <2>2, RangeWithin DEF Anchors
    <3>3. /\ Sound(box')
          /\ \A n \in Mids \ {m} : box'.parent[n] = box.parent[n]
      BY <2>2, <3>1, <3>2, LinkSound
    <3>4. roots' \subseteq {n \in Mids : box'.parent[n] = None}
      BY <2>1, <3>3 DEF RootsHeld
    <3> QED
      BY <2>1, <2>2, <3>1, <3>3, <3>4 DEF Scanning, RootsHeld
  <2> QED
    BY <2>3, <2>4
<1>3. ASSUME Number PROVE ForestInv'
  <2>1. /\ phase = "subject" /\ roots = {} /\ phase' = "idle"
        /\ box' = NoContainers /\ merged' = <<>>
        /\ UNCHANGED <<emails, rows, chain, prev, roots>>
    BY <1>3 DEF Number
  <2>2. Sound(box')
    BY <2>1, NoContainersSound
  <2>3. Rows' = Rows /\ rows' = {}
    BY <2>1 DEF Rows, Scanning
  <2> QED
    BY <2>1, <2>2, <2>3 DEF Scanning, RootsHeld
<1>4. ASSUME EndEarly PROVE ForestInv'
  <2>1. /\ phase' = "idle" /\ rows' = {} /\ chain' = <<>> /\ prev' = None
        /\ box' = NoContainers /\ roots' = {} /\ merged' = <<>> /\ emails' = emails
    BY <1>4 DEF EndEarly
  <2>2. Sound(box') /\ Rows' = Rows
    BY <2>1, NoContainersSound DEF Rows
  <2> QED
    BY <2>1, <2>2 DEF Scanning, RootsHeld
<1> QED
  BY <1>1, <1>2, <1>3, <1>4

\* Nothing changes without a step.
LEMMA ForestStutter ==
    ASSUME ForestInv, UNCHANGED vars
    PROVE  ForestInv'
<1>1. UNCHANGED <<emails, phase, rows, chain, prev, box, roots, merged>>
  BY DEF vars
<1>2. Sound(box') /\ Rows' = Rows
  BY <1>1 DEF ForestInv, Rows
<1> QED
  BY <1>1, <1>2 DEF ForestInv, Scanning, RootsHeld

-----------------------------------------------------------------------------
\* However rows are indexed and deleted and whatever their headers name, at
\* every step of a threading following parents ends, and the child lists
\* mirror the parents (_link and _creates_cycle of read/threader.py).
THEOREM TreesStay == Spec => []Forest
<1>1. Init => ForestInv
  BY ForestInit, ThreaderAssumption
<1>2. ForestInv /\ [Next]_vars => ForestInv'
  BY IndexStep, ReadStep, RootStep, ForestStutter, ThreaderAssumption DEF Next, Threading
<1>3. ForestInv => Forest
  BY SoundIsForest, ThreaderAssumption DEF ForestInv
<1> QED
  BY <1>1, <1>2, <1>3, PTL DEF Spec

-----------------------------------------------------------------------------
(*****************************************************************************)
(* Numbers, recursive functions and sequences                              *)
(*****************************************************************************)
\* A set of natural numbers has a least element.
LEMMA Lowest ==
    ASSUME NEW S, S \subseteq Nat, S # {}
    PROVE  \E x \in S : \A y \in S : x <= y
<1>1. \E x \in S : \A y \in S : ~(<<y, x>> \in OpToRel(<, Nat))
  BY NatLessThanWellFounded, WFMin, Zenon
<1>2. ASSUME NEW x \in S, NEW y \in S, ~(<<y, x>> \in OpToRel(<, Nat))
      PROVE  x <= y
  <2>1. ~(y < x)
    BY <1>2, Zenon DEF OpToRel
  <2> QED
    BY <2>1
<1> QED
  BY <1>1, <1>2

\* What holds of the first number of an interval and passes from each to the
\* next holds of all of them.
LEMMA Climbed ==
    ASSUME NEW a \in Nat, NEW N \in Nat, NEW P, a \in P,
           \A n \in a..N : n \in P /\ n # N => n + 1 \in P
    PROVE  \A n \in a..N : n \in P
<1> DEFINE gaps == (a..N) \ P
<1>1. ASSUME gaps # {} PROVE FALSE
  <2>1. gaps \subseteq Nat
    OBVIOUS
  <2>2. PICK k \in gaps : \A other \in gaps : k <= other
    BY <1>1, <2>1, Lowest
  <2>3. k # a
    OBVIOUS
  <2>4. k - 1 \in a..N /\ k - 1 # N /\ ~(k <= k - 1)
    BY <2>2, <2>3
  <2>5. k - 1 \notin gaps
    BY <2>2, <2>4
  <2>6. k - 1 \in P
    BY <2>4, <2>5
  <2>7. k - 1 + 1 \in P /\ k - 1 + 1 = k
    BY <2>4, <2>6, <2>2
  <2> QED
    BY <2>2, <2>7
<1> QED
  BY <1>1

\* A function over 0..N can be defined value by value.
Iterates(f, N, V, first, step) ==
    f \in [0..N -> V] /\ f[0] = first /\ \A n \in 1..N : f[n] = step[n][f[n - 1]]

\* Steps from one value to the next make a sequence of values.
LEMMA Iterated ==
    ASSUME NEW V, NEW N \in Nat, NEW first \in V, NEW step \in [1..N -> [V -> V]]
    PROVE  \E f : Iterates(f, N, V, first, step)
<1> DEFINE Upto(k) == \E f : Iterates(f, k, V, first, step)
<1>1. Upto(0)
  <2> DEFINE g == [n \in 0..0 |-> first]
  <2>1. g \in [0..0 -> V] /\ g[0] = first /\ 1..0 = {}
    OBVIOUS
  <2> HIDE DEF g
  <2>2. Iterates(g, 0, V, first, step)
    BY <2>1 DEF Iterates
  <2> QED
    BY <2>2
<1>2. ASSUME NEW k \in 0..N, k # N, Upto(k)
      PROVE  Upto(k + 1)
  <2>1. PICK f : Iterates(f, k, V, first, step)
    BY <1>2
  <2>2. f \in [0..k -> V] /\ f[0] = first /\ \A n \in 1..k : f[n] = step[n][f[n - 1]]
    BY <2>1 DEF Iterates
  <2> DEFINE g == [n \in 0..(k + 1) |-> IF n = k + 1 THEN step[k + 1][f[k]] ELSE f[n]]
  <2>3. k + 1 \in 1..N /\ f[k] \in V
    BY <1>2, <2>2
  <2>4. step[k + 1][f[k]] \in V
    BY <2>3
  <2>5. g \in [0..(k + 1) -> V]
    BY <2>2, <2>4
  <2>6. g[0] = first
    BY <2>2
  <2>7. ASSUME NEW n \in 1..(k + 1) PROVE g[n] = step[n][g[n - 1]]
    <3>1. n - 1 \in 0..(k + 1) /\ n - 1 # k + 1 /\ n \in 0..(k + 1)
      BY <1>2
    <3>2. g[n - 1] = f[n - 1]
      BY <3>1
    <3>3. CASE n = k + 1
      <4>1. n - 1 = k /\ g[n] = step[k + 1][f[k]]
        BY <3>1, <3>3
      <4> QED
        BY <4>1, <3>2, <3>3
    <3>4. CASE n # k + 1
      <4>1. n \in 1..k
        BY <3>4
      <4>2. g[n] = f[n]
        BY <3>1, <3>4
      <4> QED
        BY <4>1, <4>2, <3>2, <2>2
    <3> QED
      BY <3>3, <3>4
  <2> HIDE DEF g
  <2>8. Iterates(g, k + 1, V, first, step)
    BY <2>5, <2>6, <2>7 DEF Iterates
  <2> QED
    BY <2>8
<1> DEFINE P == {k \in 0..N : Upto(k)}
<1> HIDE DEF Upto
<1>3. \A n \in 0..N : n \in P /\ n # N => n + 1 \in P
  BY <1>2
<1>4. 0 \in P
  BY <1>1
<1>5. \A n \in 0..N : n \in P
  <2> HIDE DEF P
  <2> QED
    BY <1>3, <1>4, Climbed
<1>6. Upto(N)
  BY <1>5
<1> QED
  BY <1>6 DEF Upto

-----------------------------------------------------------------------------
\* No value stands twice.
Distinct(s) == \A i, j \in DOMAIN s : s[i] = s[j] => i = j

\* No two of some sequences have a value in common, and none has one twice.
Apart(ss) ==
    \A i \in DOMAIN ss : /\ Distinct(ss[i])
                         /\ \A j \in DOMAIN ss : i # j => Range(ss[i]) \cap Range(ss[j]) = {}

\* Sequences without a value in common, put one after the other, have every
\* value where one of them has it, and once if each has it once.
LEMMA Joined ==
    ASSUME NEW S, NEW s \in Seq(S), NEW t \in Seq(S)
    PROVE  /\ s \o t \in Seq(S)
           /\ Range(s \o t) = Range(s) \cup Range(t)
           /\ Distinct(s) /\ Distinct(t) /\ Range(s) \cap Range(t) = {} => Distinct(s \o t)
<1>1. /\ s \o t \in Seq(S) /\ Len(s) \in Nat /\ Len(t) \in Nat
      /\ DOMAIN s = 1..Len(s) /\ DOMAIN t = 1..Len(t) /\ DOMAIN (s \o t) = 1..(Len(s) + Len(t))
      /\ \A i \in 1..Len(s) : (s \o t)[i] = s[i]
      /\ \A i \in 1..Len(t) : (s \o t)[Len(s) + i] = t[i]
  OBVIOUS
<1> DEFINE u == s \o t
           m == Len(s)
           n == Len(t)
<1>2. \A i \in DOMAIN u : \/ i \in 1..m /\ u[i] = s[i] /\ i \in DOMAIN s
                          \/ i - m \in 1..n /\ u[i] = t[i - m] /\ i - m \in DOMAIN t
  <2>1. ASSUME NEW i \in 1..(m + n) PROVE i \in 1..m \/ (i - m \in 1..n /\ m + (i - m) = i)
    <3> HIDE DEF m, n
    <3> QED
      BY <1>1, <2>1 DEF m, n
  <2> QED
    BY <1>1, <2>1
<1>3. \A x : x \in Range(u) <=> x \in Range(s) \cup Range(t)
  <2>1. ASSUME NEW x \in Range(u) PROVE x \in Range(s) \cup Range(t)
    <3>1. PICK i \in DOMAIN u : x = u[i]
      BY DEF Range
    <3> QED
      BY <3>1, <1>2 DEF Range
  <2>2. ASSUME NEW x \in Range(s) PROVE x \in Range(u)
    <3>1. PICK i \in 1..m : x = s[i]
      BY <1>1 DEF Range
    <3>2. i \in DOMAIN u /\ u[i] = x
      BY <1>1, <3>1
    <3> QED
      BY <3>2 DEF Range
  <2>3. ASSUME NEW x \in Range(t) PROVE x \in Range(u)
    <3>1. PICK i \in 1..n : x = t[i]
      BY <1>1 DEF Range
    <3>2. m + i \in DOMAIN u /\ u[m + i] = x
      BY <1>1, <3>1
    <3> QED
      BY <3>2 DEF Range
  <2> QED
    BY <2>1, <2>2, <2>3
<1>4. ASSUME Distinct(s), Distinct(t), Range(s) \cap Range(t) = {} PROVE Distinct(u)
  <2>1. ASSUME NEW i \in DOMAIN u, NEW j \in DOMAIN u, u[i] = u[j] PROVE i = j
    <3>1. \A k \in DOMAIN s, l \in DOMAIN t : s[k] # t[l]
      BY <1>4 DEF Range
    <3>2. \/ i \in DOMAIN s /\ j \in DOMAIN s /\ s[i] = s[j]
          \/ i - m \in DOMAIN t /\ j - m \in DOMAIN t /\ t[i - m] = t[j - m]
      BY <1>2, <2>1, <3>1
    <3>3. i = j \/ i - m = j - m
      BY <3>2, <1>4 DEF Distinct
    <3>4. i \in Int /\ j \in Int /\ m \in Nat
      BY <1>1
    <3> HIDE DEF m
    <3> QED
      BY <3>3, <3>4
  <2> QED
    BY <2>1 DEF Distinct
<1> QED
  BY <1>1, <1>3, <1>4

\* What FlattenSeq puts together: the values of all its sequences, each once
\* where the sequences have it once.
LEMMA Flattened ==
    ASSUME NEW S, NEW ss \in Seq(Seq(S))
    PROVE  /\ FlattenSeq(ss) \in Seq(S)
           /\ Range(FlattenSeq(ss)) = UNION {Range(ss[i]) : i \in DOMAIN ss}
           /\ Apart(ss) => Distinct(FlattenSeq(ss))
<1> DEFINE L == Len(ss)
<1>1. L \in Nat /\ DOMAIN ss = 1..L /\ \A i \in 1..L : ss[i] \in Seq(S)
  OBVIOUS
<1> HIDE DEF L
<1>2. CASE L = 0
  <2>1. FlattenSeq(ss) = ss /\ ss = <<>>
    BY <1>2 DEF FlattenSeq, L
  <2>2. <<>> \in Seq(S) /\ DOMAIN <<>> = {}
    OBVIOUS
  <2>3. FlattenSeq(ss) \in Seq(S) /\ DOMAIN FlattenSeq(ss) = {} /\ DOMAIN ss = {}
    BY <2>1, <2>2
  <2> QED
    BY <2>3 DEF Range, Distinct
<1>3. CASE L # 0
  <2> DEFINE step == [n \in 1..(L - 1) |-> [v \in Seq(S) |-> v \o ss[n + 1]]]
             RightFor(F) == F = [i \in 1..L |-> IF i = 1 THEN ss[i] ELSE F[i - 1] \o ss[i]]
  <2>1. step \in [1..(L - 1) -> [Seq(S) -> Seq(S)]]
    <3>1. ASSUME NEW n \in 1..(L - 1), NEW v \in Seq(S) PROVE v \o ss[n + 1] \in Seq(S)
      <4>1. n + 1 \in 1..L
        BY <1>1
      <4>2. ss[n + 1] \in Seq(S)
        BY <4>1, <1>1
      <4> QED
        BY <4>2
    <3> QED
      BY <3>1
  <2>2. ss[1] \in Seq(S) /\ L - 1 \in Nat
    BY <1>1, <1>3
  <2>3. PICK f \in [0..(L - 1) -> Seq(S)] :
              f[0] = ss[1] /\ \A n \in 1..(L - 1) : f[n] = step[n][f[n - 1]]
    <3> HIDE DEF step
    <3>1. \E f : Iterates(f, L - 1, Seq(S), ss[1], step)
      BY <2>1, <2>2, Iterated
    <3> QED
      BY <3>1 DEF Iterates
  <2> DEFINE g == [i \in 1..L |-> f[i - 1]]
  <2>4. RightFor(g)
    <3>1. ASSUME NEW i \in 1..L
          PROVE  g[i] = IF i = 1 THEN ss[i] ELSE g[i - 1] \o ss[i]
      <4>1. CASE i = 1
        BY <4>1, <2>3
      <4>2. CASE i # 1
        <5>1. i - 1 \in 1..(L - 1) /\ i - 1 \in 1..L /\ i - 1 - 1 \in 0..(L - 1) /\ i - 1 + 1 = i
          BY <4>2, <1>1
        <5>2. f[i - 1] = step[i - 1][f[i - 1 - 1]]
          BY <5>1, <2>3
        <5>3. f[i - 1 - 1] \in Seq(S)
          BY <5>1, <2>3
        <5>4. step[i - 1][f[i - 1 - 1]] = f[i - 1 - 1] \o ss[i - 1 + 1]
          BY <5>1, <5>3
        <5>5. g[i] = f[i - 1] /\ g[i - 1] = f[i - 1 - 1]
          BY <5>1
        <5> HIDE DEF g, step
        <5> QED
          BY <4>2, <5>1, <5>2, <5>4, <5>5
      <4> QED
        BY <4>1, <4>2
    <3>2. g = [i \in 1..L |-> g[i]]
      OBVIOUS
    <3> HIDE DEF g
    <3> QED
      BY <3>1, <3>2
  <2> DEFINE F == CHOOSE h : RightFor(h)
  <2>5. RightFor(F)
    <3> HIDE DEF g, RightFor
    <3> QED
      BY <2>4
  <2>6. FlattenSeq(ss) = F[L]
    BY <1>3 DEF FlattenSeq, L
  <2>7. \A i \in 1..L : F[i] = IF i = 1 THEN ss[i] ELSE F[i - 1] \o ss[i]
    <3> HIDE DEF F
    <3> QED
      BY <2>5
  <2> HIDE DEF F, RightFor
  <2> DEFINE Good(i) == /\ F[i] \in Seq(S)
                        /\ Range(F[i]) = UNION {Range(ss[j]) : j \in 1..i}
                        /\ Apart(ss) => Distinct(F[i])
             P == {i \in 1..L : Good(i)}
  <2>8. Good(1)
    <3>1. 1 \in 1..L /\ 1..1 = {1}
      BY <1>1, <1>3
    <3>2. F[1] = ss[1]
      BY <3>1, <2>7
    <3> QED
      BY <3>1, <3>2, <1>1 DEF Apart
  <2>9. ASSUME NEW i \in 1..L, Good(i), i # L PROVE Good(i + 1)
    <3>1. i + 1 \in 1..L /\ i + 1 # 1 /\ i + 1 - 1 = i /\ 1..(i + 1) = (1..i) \cup {i + 1}
      BY <2>9, <1>1
    <3>2. F[i + 1] = F[i] \o ss[i + 1]
      <4>1. \A k \in 1..L : k # 1 => F[k] = F[k - 1] \o ss[k]
        BY <2>7
      <4> DEFINE k == i + 1
      <4>2. k \in 1..L /\ k # 1 /\ k - 1 = i
        BY <3>1
      <4> HIDE DEF k
      <4>3. F[k] = F[k - 1] \o ss[k]
        BY <4>1, <4>2
      <4> QED
        BY <4>2, <4>3 DEF k
    <3>3. ss[i + 1] \in Seq(S)
      BY <3>1, <1>1
    <3>4. /\ F[i + 1] \in Seq(S)
          /\ Range(F[i + 1]) = Range(F[i]) \cup Range(ss[i + 1])
          /\ Distinct(F[i]) /\ Distinct(ss[i + 1]) /\ Range(F[i]) \cap Range(ss[i + 1]) = {}
                => Distinct(F[i + 1])
      BY <3>2, <3>3, <2>9, Joined
    <3>5. Range(F[i + 1]) = UNION {Range(ss[j]) : j \in 1..(i + 1)}
      BY <3>1, <3>4, <2>9
    <3>6. ASSUME Apart(ss) PROVE Distinct(F[i + 1])
      <4>1. \A j \in 1..i : j \in DOMAIN ss /\ j # i + 1
        BY <1>1
      <4>2. \A j \in 1..i : Range(ss[j]) \cap Range(ss[i + 1]) = {}
        BY <4>1, <3>1, <3>6, <1>1 DEF Apart
      <4>3. Range(F[i]) \cap Range(ss[i + 1]) = {}
        BY <4>2, <2>9
      <4>4. Distinct(ss[i + 1])
        BY <3>1, <3>6, <1>1 DEF Apart
      <4> QED
        BY <4>3, <4>4, <3>4, <3>6, <2>9
    <3> QED
      BY <3>4, <3>5, <3>6
  <2>10. L \in P
    <3>1. 1 \in P
      BY <2>8, <1>1, <1>3
    <3>2. \A i \in 1..L : i \in P /\ i # L => i + 1 \in P
      <4>1. \A i \in 1..L : i # L => i + 1 \in 1..L
        BY <1>1
      <4> HIDE DEF Good
      <4> QED
        BY <4>1, <2>9
    <3>3. L \in 1..L /\ L \in Nat /\ 1 \in Nat
      BY <1>1, <1>3
    <3>4. \A i \in 1..L : i \in P
      <4> HIDE DEF P
      <4> QED
        BY <3>1, <3>2, <3>3, Climbed
    <3> QED
      BY <3>3, <3>4
  <2> QED
    BY <2>6, <2>10, <1>1
<1> QED
  BY <1>2, <1>3

\* Sorting the children of a container changes their order only.
LEMMA SortedKeeps ==
    ASSUME NEW b, NEW s \in Seq(Mids), \A m \in Mids : DateOf(b, m) \in Nat
    PROVE  /\ Sorted(b, s) \in Seq(Mids)
           /\ Range(Sorted(b, s)) = Range(s)
           /\ Distinct(s) => Distinct(Sorted(b, s))
<1> DEFINE n == Len(s)
           Before(i, j) == \/ DateOf(b, s[i]) < DateOf(b, s[j])
                           \/ DateOf(b, s[i]) = DateOf(b, s[j]) /\ i < j
           Place(i) == 1 + Cardinality({j \in DOMAIN s : Before(j, i)})
           Pick(k) == CHOOSE i \in DOMAIN s : Place(i) = k
<1>1. n \in Nat /\ DOMAIN s = 1..n /\ \A i \in 1..n : s[i] \in Mids
  OBVIOUS
<1>2. \A i \in 1..n : DateOf(b, s[i]) \in Nat
  BY <1>1
<1>3. Sorted(b, s) = [k \in DOMAIN s |-> s[Pick(k)]]
  BY DEF Sorted
<1> HIDE DEF n
<1>4. \A i, j \in 1..n : i = j \/ Before(i, j) \/ Before(j, i)
  BY <1>1, <1>2
<1>5. \A i, j, k \in 1..n : Before(i, j) /\ Before(j, k) => Before(i, k)
  BY <1>1, <1>2
<1>6. \A i \in 1..n : ~Before(i, i)
  BY <1>1, <1>2
<1> HIDE DEF Before
<1> DEFINE earlier == [i \in 1..n |-> {j \in 1..n : Before(j, i)}]
           place == [i \in 1..n |-> 1 + Cardinality(earlier[i])]
           at == [k \in 1..n |-> Pick(k)]
<1>7. \A i \in 1..n : /\ earlier[i] \subseteq (1..n) \ {i}
                      /\ \A j \in 1..n : Before(j, i) => earlier[j] \subseteq earlier[i]
                                                         /\ j \in earlier[i] /\ j \notin earlier[j]
  BY <1>5, <1>6
<1>8. \A i \in 1..n : Place(i) = place[i]
  BY <1>1
<1> HIDE DEF earlier
<1>9. IsFiniteSet(1..n) /\ Cardinality(1..n) = n
  BY <1>1, FS_Interval
<1>10. ASSUME NEW i \in 1..n
      PROVE  IsFiniteSet(earlier[i]) /\ Cardinality(earlier[i]) \in 0..(n - 1)
  <2>1. IsFiniteSet((1..n) \ {i}) /\ Cardinality((1..n) \ {i}) = n - 1
    BY <1>9, FS_RemoveElement
  <2>2. earlier[i] \in SUBSET ((1..n) \ {i})
    BY <1>7
  <2>3. IsFiniteSet(earlier[i]) /\ Cardinality(earlier[i]) <= n - 1
    BY <2>1, <2>2, FS_Subset
  <2>4. Cardinality(earlier[i]) \in Nat
    BY <2>3, FS_CardinalityType
  <2> QED
    BY <2>3, <2>4, <1>1
<1>11. place \in [1..n -> 1..n]
  <2>1. ASSUME NEW i \in 1..n PROVE 1 + Cardinality(earlier[i]) \in 1..n
    <3> DEFINE c == Cardinality(earlier[i])
    <3>1. c \in 0..(n - 1)
      BY <1>10
    <3> HIDE DEF c
    <3>2. 1 + c \in 1..n
      BY <3>1, <1>1
    <3> QED
      BY <3>2 DEF c
  <2> QED
    BY <2>1
<1>12. ASSUME NEW i \in 1..n, NEW j \in 1..n, Before(j, i) PROVE place[j] # place[i]
  <2>1. earlier[j] \in SUBSET earlier[i] /\ earlier[j] # earlier[i]
    BY <1>7, <1>12
  <2>2. Cardinality(earlier[i]) # Cardinality(earlier[j])
    BY <1>10, <2>1, FS_Subset
  <2>3. Cardinality(earlier[i]) \in 0..(n - 1) /\ Cardinality(earlier[j]) \in 0..(n - 1)
    BY <1>10
  <2> DEFINE c == Cardinality(earlier[i])
             d == Cardinality(earlier[j])
  <2>4. place[i] = 1 + c /\ place[j] = 1 + d
    OBVIOUS
  <2> HIDE DEF c, d, place
  <2>5. c # d /\ c \in 0..(n - 1) /\ d \in 0..(n - 1)
    BY <2>2, <2>3 DEF c, d
  <2> QED
    BY <2>4, <2>5, <1>1
<1> HIDE DEF place, Place
<1>13. \A i, j \in 1..n : place[i] = place[j] => i = j
  BY <1>4, <1>12
<1>14. place \in Injection(1..n, 1..n)
  BY <1>11, <1>13 DEF Injection, IsInjective
<1>15. place \in Surjection(1..n, 1..n)
  BY <1>9, <1>14, FS_Injection
<1>16. \A k \in 1..n : \E i \in 1..n : place[i] = k
  BY <1>15 DEF Surjection
<1>17. \A k \in 1..n : at[k] \in 1..n /\ place[at[k]] = k
  <2>1. ASSUME NEW k \in 1..n PROVE Pick(k) \in 1..n /\ place[Pick(k)] = k
    <3>1. \E i \in DOMAIN s : Place(i) = k
      BY <1>1, <1>16, <1>8
    <3>2. Pick(k) \in DOMAIN s /\ Place(Pick(k)) = k
      BY <3>1
    <3> QED
      BY <3>2, <1>1, <1>8
  <2> QED
    BY <2>1
<1>18. Sorted(b, s) = [k \in 1..n |-> s[at[k]]]
  BY <1>1, <1>3
<1> HIDE DEF at
<1>19. \A i \in 1..n : place[i] \in 1..n /\ at[place[i]] = i
  BY <1>11, <1>13, <1>17
<1>20. Sorted(b, s) \in Seq(Mids) /\ DOMAIN Sorted(b, s) = 1..n
       /\ \A k \in 1..n : Sorted(b, s)[k] = s[at[k]]
  BY <1>1, <1>18, <1>17
<1>21. \A x : x \in Range(Sorted(b, s)) <=> x \in Range(s)
  <2>1. ASSUME NEW x \in Range(Sorted(b, s)) PROVE x \in Range(s)
    <3>1. PICK k \in 1..n : x = s[at[k]]
      BY <1>20 DEF Range
    <3>2. at[k] \in DOMAIN s
      BY <1>1, <1>17
    <3> QED
      BY <3>1, <3>2 DEF Range
  <2>2. ASSUME NEW x \in Range(s) PROVE x \in Range(Sorted(b, s))
    <3>1. PICK i \in 1..n : x = s[i]
      BY <1>1 DEF Range
    <3>2. place[i] \in DOMAIN Sorted(b, s) /\ Sorted(b, s)[place[i]] = x
      BY <3>1, <1>19, <1>20
    <3> QED
      BY <3>2 DEF Range
  <2> QED
    BY <2>1, <2>2
<1>22. ASSUME Distinct(s) PROVE Distinct(Sorted(b, s))
  <2>1. ASSUME NEW k \in 1..n, NEW l \in 1..n, s[at[k]] = s[at[l]] PROVE k = l
    <3>1. at[k] = at[l]
      BY <2>1, <1>1, <1>17, <1>22 DEF Distinct
    <3> QED
      BY <3>1, <1>17
  <2> QED
    BY <2>1, <1>20 DEF Distinct
<1> QED
  BY <1>20, <1>21, <1>22

-----------------------------------------------------------------------------
(*****************************************************************************)
(* What hangs below what                                                   *)
(*****************************************************************************)
\* m is x or above it.
Under(b, x, m) == CreatesCycle(b, x, m)

\* The walk up: it starts where it is, takes parents and goes one way.
LEMMA Lineage ==
    ASSUME NEW b, b.parent \in [Mids -> Mids \cup {None}], None \notin Mids
    PROVE  /\ \A m \in Mids : Under(b, m, m)
           /\ \A x, m \in Mids : Under(b, x, m) /\ b.parent[m] # None => Under(b, x, b.parent[m])
           /\ \A x, m \in Mids : Under(b, x, m) /\ x # m =>
                 b.parent[x] # None /\ Under(b, b.parent[x], m)
           /\ \A x, m \in Mids : Under(b, x, m) /\ x # m =>
                 \E c \in Mids : b.parent[c] = m /\ Under(b, x, c)
           /\ \A x, y, z \in Mids : Under(b, x, y) /\ Under(b, y, z) => Under(b, x, z)
           /\ \A x, y, z \in Mids : Under(b, x, y) /\ Under(b, x, z) => Under(b, y, z) \/ Under(b, z, y)
<1>1. \A x, m : Under(b, x, m) <=> \A S \in Upward(b) : x \in S => m \in S
  BY DEF Under, CreatesCycle
<1>2. \A S : S \in Upward(b) <=>
          S \subseteq Mids /\ \A m \in S : b.parent[m] # None => b.parent[m] \in S
  BY DEF Upward
<1>3. \A m \in Mids : Under(b, m, m)
  BY <1>1
<1>4. \A x, m \in Mids : Under(b, x, m) /\ b.parent[m] # None => Under(b, x, b.parent[m])
  BY <1>1, <1>2
<1>5. \A x, y, z \in Mids : Under(b, x, y) /\ Under(b, y, z) => Under(b, x, z)
  BY <1>1
<1>6. ASSUME NEW x \in Mids, NEW m \in Mids, Under(b, x, m), x # m
      PROVE  b.parent[x] # None /\ Under(b, b.parent[x], m)
  <2>1. ASSUME b.parent[x] = None PROVE FALSE
    <3>1. {x} \in Upward(b)
      BY <1>2, <2>1
    <3> QED
      BY <3>1, <1>1, <1>6
  <2>2. ASSUME NEW S \in Upward(b), b.parent[x] \in S PROVE m \in S
    <3>1. S \cup {x} \in Upward(b)
      BY <1>2, <2>2
    <3> QED
      BY <3>1, <1>1, <1>6
  <2> QED
    BY <2>1, <2>2, <1>1
<1>7. ASSUME NEW x \in Mids, NEW m \in Mids, Under(b, x, m), x # m
      PROVE  \E c \in Mids : b.parent[c] = m /\ Under(b, x, c)
  <2> SUFFICES ASSUME \A c \in Mids : ~(b.parent[c] = m /\ Under(b, x, c))
               PROVE  FALSE
    OBVIOUS
  <2> DEFINE S == {y \in Mids : Under(b, x, y)} \ {m}
  <2>1. S \in Upward(b)
    <3>1. ASSUME NEW y \in S, b.parent[y] # None PROVE b.parent[y] \in S
      BY <3>1, <1>4
    <3> HIDE DEF S
    <3>2. S \subseteq Mids
      BY DEF S
    <3> QED
      BY <3>1, <3>2, <1>2
  <2>2. x \in S
    BY <1>3, <1>7
  <2> QED
    BY <2>1, <2>2, <1>1, <1>7
<1>8. ASSUME NEW x \in Mids, NEW y \in Mids, NEW z \in Mids, Under(b, x, y), Under(b, x, z)
      PROVE  Under(b, y, z) \/ Under(b, z, y)
  <2> DEFINE S == {v \in Mids : Under(b, v, z) \/ Under(b, z, v)}
  <2>1. S \in Upward(b)
    <3>1. ASSUME NEW v \in S, b.parent[v] # None PROVE b.parent[v] \in S
      <4>1. CASE v = z
        BY <4>1, <3>1, <1>3, <1>4
      <4>2. CASE v # z /\ Under(b, v, z)
        BY <4>2, <3>1, <1>6
      <4>3. CASE Under(b, z, v)
        BY <4>3, <3>1, <1>4
      <4> QED
        BY <4>1, <4>2, <4>3
    <3> HIDE DEF S
    <3>2. S \subseteq Mids
      BY DEF S
    <3> QED
      BY <3>1, <3>2, <1>2
  <2>2. x \in S
    BY <1>8
  <2>3. y \in S
    BY <2>1, <2>2, <1>1, <1>8
  <2> QED
    BY <2>3
<1> QED
  BY <1>3, <1>4, <1>5, <1>6, <1>7, <1>8

\* What is under another container lies deeper, by any rank.
LEMMA Deeper ==
    ASSUME NEW b, b.parent \in [Mids -> Mids \cup {None}], None \notin Mids,
           NEW rank \in [Mids -> Nat], RankedBy(rank, b),
           NEW x \in Mids, NEW m \in Mids, Under(b, x, m), x # m
    PROVE  rank[m] < rank[x]
<1> DEFINE S == {y \in Mids : y = x \/ rank[y] < rank[x]}
<1>1. ASSUME NEW y \in S, b.parent[y] # None PROVE b.parent[y] \in S
  <2>1. b.parent[y] \in Mids /\ rank[b.parent[y]] < rank[y]
    BY <1>1 DEF RankedBy
  <2>2. rank[b.parent[y]] \in Nat /\ rank[y] \in Nat /\ rank[x] \in Nat
    BY <2>1
  <2> QED
    BY <2>1, <2>2
<1>2. S \in Upward(b) /\ x \in S
  BY <1>1 DEF Upward
<1> HIDE DEF S
<1>3. m \in S
  BY <1>2 DEF Under, CreatesCycle
<1> QED
  BY <1>3 DEF S

\* Containers that form a forest can be ranked by fewer numbers than there
\* are Message-IDs, whatever ranks them.
LEMMA Shallow ==
    ASSUME NEW b, b.parent \in [Mids -> Mids \cup {None}], Ranked(b), IsFiniteSet(Mids)
    PROVE  \E depth \in [Mids -> 0..(Cardinality(Mids) - 1)] : RankedBy(depth, b)
<1>1. PICK rank \in [Mids -> Nat] : RankedBy(rank, b)
  BY DEF Ranked
<1> DEFINE N == Cardinality(Mids)
           lower == [m \in Mids |-> {x \in Mids : rank[x] < rank[m]}]
           depth == [m \in Mids |-> Cardinality(lower[m])]
<1>2. N \in Nat
  BY FS_CardinalityType
<1>3. ASSUME NEW m \in Mids
      PROVE  IsFiniteSet(lower[m]) /\ Cardinality(lower[m]) \in 0..(N - 1)
  <2>1. lower[m] \in SUBSET (Mids \ {m})
    BY <1>1
  <2>2. IsFiniteSet(Mids \ {m}) /\ Cardinality(Mids \ {m}) = N - 1
    BY FS_RemoveElement
  <2> HIDE DEF lower
  <2>3. IsFiniteSet(lower[m]) /\ Cardinality(lower[m]) <= N - 1
    BY <2>1, <2>2, FS_Subset
  <2>4. Cardinality(lower[m]) \in Nat
    BY <2>3, FS_CardinalityType
  <2> QED
    BY <2>3, <2>4, <1>2
<1>4. ASSUME NEW c \in Mids, b.parent[c] # None PROVE depth[b.parent[c]] < depth[c]
  <2>1. b.parent[c] \in Mids /\ rank[b.parent[c]] < rank[c]
    BY <1>1, <1>4 DEF RankedBy
  <2>2. lower[b.parent[c]] \in SUBSET lower[c] /\ lower[b.parent[c]] # lower[c]
    <3>1. \A m \in Mids : rank[m] \in Nat
      BY <1>1
    <3>2. b.parent[c] \in lower[c] /\ b.parent[c] \notin lower[b.parent[c]]
      BY <2>1, <3>1
    <3>3. \A x \in lower[b.parent[c]] : x \in lower[c]
      BY <2>1, <3>1
    <3> HIDE DEF lower
    <3> QED
      BY <3>2, <3>3
  <2> DEFINE p == lower[b.parent[c]]
             q == lower[c]
  <2>3. depth[b.parent[c]] = Cardinality(p) /\ depth[c] = Cardinality(q)
    BY <2>1
  <2>4. p \in SUBSET q /\ p # q /\ IsFiniteSet(q)
        /\ Cardinality(p) \in Nat /\ Cardinality(q) \in Nat
    <3> HIDE DEF lower
    <3>1. /\ Cardinality(p) \in 0..(N - 1) /\ Cardinality(q) \in 0..(N - 1)
          /\ IsFiniteSet(q) /\ p \in SUBSET q /\ p # q
      BY <2>1, <2>2, <1>3
    <3> HIDE DEF p, q, N
    <3> QED
      BY <3>1, <1>2
  <2> HIDE DEF p, q, depth
  <2>5. Cardinality(p) <= Cardinality(q) /\ Cardinality(p) # Cardinality(q)
    BY <2>4, FS_Subset
  <2> QED
    BY <2>3, <2>4, <2>5
<1>5. depth \in [Mids -> 0..(N - 1)]
  BY <1>3
<1>6. RankedBy(depth, b)
  <2> HIDE DEF depth
  <2> QED
    BY <1>4 DEF RankedBy
<1> QED
  BY <1>5, <1>6

-----------------------------------------------------------------------------
(*****************************************************************************)
(* Walks                                                                   *)
(*****************************************************************************)
\* What a walk adds for a container itself.
Own(b, m) == IF Real(b, m) THEN <<m>> ELSE <<>>

Below(b, w, m) == [i \in DOMAIN b.children[m] |-> w[b.children[m][i]]]

Walks(b, W) ==
    /\ W \in [0..Cardinality(Mids) -> [Mids -> Seq(Mids)]]
    /\ \A n \in 1..Cardinality(Mids) : \A m \in Mids :
          W[n][m] = Own(b, m) \o FlattenSeq(Below(b, W[n - 1], m))

\* One level of a walk gives every container a sequence.
LEMMA OneLevel ==
    ASSUME NEW b, b.children \in [Mids -> Seq(Mids)], NEW w \in [Mids -> Seq(Mids)],
           NEW m \in Mids
    PROVE  /\ Own(b, m) \in Seq(Mids)
           /\ Below(b, w, m) \in Seq(Seq(Mids))
           /\ FlattenSeq(Below(b, w, m)) \in Seq(Mids)
           /\ Own(b, m) \o FlattenSeq(Below(b, w, m)) \in Seq(Mids)
<1>1. Own(b, m) \in Seq(Mids)
  BY DEF Own
<1>2. Below(b, w, m) \in Seq(Seq(Mids))
  <2> DEFINE s == b.children[m]
  <2>1. s \in Seq(Mids)
    OBVIOUS
  <2> HIDE DEF s
  <2>2. [i \in DOMAIN s |-> w[s[i]]] \in Seq(Seq(Mids))
    <3>1. Len(s) \in Nat /\ DOMAIN s = 1..Len(s) /\ \A i \in 1..Len(s) : w[s[i]] \in Seq(Mids)
      BY <2>1
    <3> QED
      BY <3>1
  <2> QED
    BY <2>2 DEF Below, s
<1>3. FlattenSeq(Below(b, w, m)) \in Seq(Mids)
  BY <1>2, Flattened
<1> QED
  BY <1>1, <1>2, <1>3, Joined

\* The walk is defined, level by level.
LEMMA WalkDefined ==
    ASSUME NEW b, b.children \in [Mids -> Seq(Mids)], IsFiniteSet(Mids)
    PROVE  \E W : Walks(b, W) /\ \A root : Walk(b, root) = W[Cardinality(Mids)][root]
<1> DEFINE N == Cardinality(Mids)
           V == [Mids -> Seq(Mids)]
           first == [m \in Mids |-> <<>>]
           next == [w \in V |-> [m \in Mids |-> Own(b, m) \o FlattenSeq(Below(b, w, m))]]
           step == [n \in 1..N |-> next]
           RightFor(W) == W = [n \in 0..N |-> [m \in Mids |->
                IF n = 0 THEN <<>>
                ELSE (IF Real(b, m) THEN <<m>> ELSE <<>>) \o
                     FlattenSeq([i \in DOMAIN b.children[m] |-> W[n - 1][b.children[m][i]]])]]
<1>1. N \in Nat
  BY FS_CardinalityType
<1>2. first \in V
  OBVIOUS
<1>3. next \in [V -> V]
  BY OneLevel
<1>4. step \in [1..N -> [V -> V]]
  <2> HIDE DEF next, V
  <2> QED
    BY <1>3
<1>5. PICK f : f \in [0..N -> V] /\ f[0] = first /\ \A n \in 1..N : f[n] = step[n][f[n - 1]]
  <2> HIDE DEF step, first, V, N
  <2>1. \E f : Iterates(f, N, V, first, step)
    BY <1>1, <1>2, <1>4, Iterated
  <2> QED
    BY <2>1 DEF Iterates
<1>6. \A n \in 1..N : \A m \in Mids : f[n][m] = Own(b, m) \o FlattenSeq(Below(b, f[n - 1], m))
  <2>1. ASSUME NEW n \in 1..N PROVE f[n] = next[f[n - 1]] /\ f[n - 1] \in V
    <3>1. n - 1 \in 0..N
      BY <1>1
    <3> HIDE DEF next, V, N
    <3> QED
      BY <1>5, <3>1
  <2> QED
    BY <2>1
<1>7. RightFor(f)
  <2> DEFINE R(n) == [m \in Mids |->
                IF n = 0 THEN <<>>
                ELSE (IF Real(b, m) THEN <<m>> ELSE <<>>) \o
                     FlattenSeq([i \in DOMAIN b.children[m] |-> f[n - 1][b.children[m][i]]])]
  <2>1. ASSUME NEW n \in 0..N PROVE f[n] = R(n)
    <3>1. CASE n = 0
      BY <3>1, <1>5
    <3>2. CASE n # 0
      <4>1. n \in 1..N
        BY <3>2, <1>1
      <4>2. f[n] \in V
        BY <1>5
      <4>3. \A m \in Mids : f[n][m] = R(n)[m]
        BY <4>1, <1>6, <3>2 DEF Own, Below
      <4> HIDE DEF N
      <4> QED
        BY <4>2, <4>3
    <3> QED
      BY <3>1, <3>2
  <2> HIDE DEF R
  <2>2. f = [n \in 0..N |-> R(n)]
    <3> HIDE DEF V, N
    <3> QED
      BY <2>1, <1>5
  <2> QED
    BY <2>2 DEF R
<1> DEFINE W == CHOOSE g : RightFor(g)
<1>8. RightFor(W)
  <2> HIDE DEF RightFor
  <2> QED
    BY <1>7
<1>9. \A root : Walk(b, root) = W[N][root]
  BY DEF Walk
<1> HIDE DEF W
<1>10. W = f
  <2> DEFINE P == {n \in 0..N : W[n] = f[n]}
             Level(w) == [m \in Mids |-> Own(b, m) \o FlattenSeq(Below(b, w, m))]
  <2>1. ASSUME NEW g, RightFor(g)
        PROVE  g[0] = first /\ \A n \in 1..N : g[n] = Level(g[n - 1])
    <3>1. \A n \in 0..N : g[n] = [m \in Mids |->
                IF n = 0 THEN <<>>
                ELSE (IF Real(b, m) THEN <<m>> ELSE <<>>) \o
                     FlattenSeq([i \in DOMAIN b.children[m] |-> g[n - 1][b.children[m][i]]])]
      BY <2>1
    <3>2. 0 \in 0..N /\ \A n \in 1..N : n \in 0..N /\ n # 0
      BY <1>1
    <3>3. g[0] = first
      BY <3>1, <3>2
    <3>4. \A n \in 1..N : g[n] = Level(g[n - 1])
      <4>1. ASSUME NEW n \in 1..N PROVE g[n] = Level(g[n - 1])
        <5> DEFINE o(m) == (IF Real(b, m) THEN <<m>> ELSE <<>>) \o
                     FlattenSeq([i \in DOMAIN b.children[m] |-> g[n - 1][b.children[m][i]]])
        <5>1. g[n] = [m \in Mids |-> IF n = 0 THEN <<>> ELSE o(m)] /\ n # 0
          BY <3>1, <3>2
        <5>2. Level(g[n - 1]) = [m \in Mids |-> o(m)]
          BY DEF Own, Below
        <5> HIDE DEF o, Level
        <5> QED
          BY <5>1, <5>2
      <4> QED
        BY <4>1
    <3> QED
      BY <3>3, <3>4
  <2>2. /\ W[0] = first /\ \A n \in 1..N : W[n] = Level(W[n - 1])
        /\ f[0] = first /\ \A n \in 1..N : f[n] = Level(f[n - 1])
    <3> HIDE DEF RightFor, Level, first
    <3> QED
      BY <1>7, <1>8, <2>1
  <2>3. 0 \in P
    BY <2>2, <1>1
  <2>4. ASSUME NEW n \in 0..N, n \in P, n # N PROVE n + 1 \in P
    <3>1. n + 1 \in 1..N /\ n + 1 \in 0..N /\ n + 1 - 1 = n
      BY <2>4, <1>1
    <3>2. W[n] = f[n]
      BY <2>4
    <3> HIDE DEF N, Level
    <3>3. W[n + 1] = Level(W[n + 1 - 1]) /\ f[n + 1] = Level(f[n + 1 - 1])
      BY <3>1, <2>2
    <3> QED
      BY <3>1, <3>2, <3>3
  <2>5. \A n \in 0..N : n \in P
    <3> HIDE DEF P, N
    <3> QED
      BY <1>1, <2>3, <2>4, Climbed
  <2>6. W = [n \in 0..N |-> W[n]] /\ f = [n \in 0..N |-> f[n]]
    BY <1>8, <1>5
  <2> HIDE DEF RightFor
  <2> QED
    BY <2>5, <2>6
<1>11. Walks(b, W)
  <2> HIDE DEF RightFor
  <2> QED
    BY <1>5, <1>6, <1>10 DEF Walks
<1> QED
  BY <1>9, <1>11

Held(b, m) == {x \in Mids : Real(b, x) /\ Under(b, x, m)}

\* s goes once through what is held at and below m.
Covers(b, s, m) == Range(s) = Held(b, m) /\ Distinct(s)

\* Walks that cover the children of a container cover it, put one after the other.
LEMMA LevelCovers ==
    ASSUME ThreaderAssumption, NEW b, Sound(b), NEW w \in [Mids -> Seq(Mids)], NEW m \in Mids,
           \A c \in Mids : b.parent[c] = m => Covers(b, w[c], c)
    PROVE  Covers(b, Own(b, m) \o FlattenSeq(Below(b, w, m)), m)
<1>1. /\ b.parent \in [Mids -> Mids \cup {None}] /\ b.children \in [Mids -> Seq(Mids)]
      /\ Ranked(b) /\ Mirrored(b) /\ Once(b) /\ None \notin Mids
  BY DEF Sound, Boxes, ThreaderAssumption
<1>2. PICK rank \in [Mids -> Nat] : RankedBy(rank, b)
  BY <1>1 DEF Ranked
<1> DEFINE kids == b.children[m]
           own == Own(b, m)
           subs == Below(b, w, m)
<1>3. /\ own \in Seq(Mids) /\ subs \in Seq(Seq(Mids)) /\ FlattenSeq(subs) \in Seq(Mids)
      /\ DOMAIN subs = DOMAIN kids /\ \A i \in DOMAIN kids : subs[i] = w[kids[i]]
  <2>1. own \in Seq(Mids) /\ subs \in Seq(Seq(Mids)) /\ FlattenSeq(subs) \in Seq(Mids)
    BY <1>1, OneLevel
  <2>2. DOMAIN subs = DOMAIN kids /\ \A i \in DOMAIN kids : subs[i] = w[kids[i]]
    BY DEF Below
  <2> QED
    BY <2>1, <2>2
<1>4. \A i \in DOMAIN kids : kids[i] \in Mids /\ b.parent[kids[i]] = m
  BY <1>1 DEF Mirrored, Range
<1>5. \A c \in Mids : b.parent[c] = m => \E i \in DOMAIN kids : kids[i] = c
  BY <1>1 DEF Mirrored, Range
<1>6. \A i \in DOMAIN kids : Range(subs[i]) = Held(b, kids[i]) /\ Distinct(subs[i])
  BY <1>3, <1>4 DEF Covers
<1>7. \A c \in Mids : b.parent[c] = m => rank[m] < rank[c]
  BY <1>1, <1>2 DEF RankedBy
<1>8. \A x, c \in Mids : Under(b, x, c) => x = c \/ rank[c] < rank[x]
  BY <1>1, <1>2, Deeper
<1>9. \A x \in Mids : rank[x] \in Nat
  BY <1>2
<1>10. Range(FlattenSeq(subs)) = Held(b, m) \ {m}
  <2>1. Range(FlattenSeq(subs)) = UNION {Range(subs[i]) : i \in DOMAIN subs}
    BY <1>3, Flattened
  <2>2. ASSUME NEW x \in Range(FlattenSeq(subs)) PROVE x \in Held(b, m) \ {m}
    <3>1. PICK i \in DOMAIN kids : x \in Held(b, kids[i])
      BY <2>1, <1>3, <1>6
    <3> DEFINE c == kids[i]
    <3>2. c \in Mids /\ b.parent[c] = m /\ x \in Mids /\ Real(b, x) /\ Under(b, x, c)
      BY <3>1, <1>4 DEF Held
    <3> HIDE DEF c
    <3>3. Under(b, x, m)
      BY <3>2, <1>1, Lineage
    <3>4. x # m
      <4>1. rank[m] < rank[c] /\ (x = c \/ rank[c] < rank[x])
        BY <3>2, <1>7, <1>8
      <4>2. rank[m] \in Nat /\ rank[c] \in Nat /\ rank[x] \in Nat
        BY <3>2, <1>9
      <4> QED
        BY <4>1, <4>2
    <3> QED
      BY <3>2, <3>3, <3>4 DEF Held
  <2>3. ASSUME NEW x \in Held(b, m) \ {m} PROVE x \in Range(FlattenSeq(subs))
    <3>1. x \in Mids /\ Real(b, x) /\ Under(b, x, m) /\ x # m
      BY DEF Held
    <3>2. PICK c \in Mids : b.parent[c] = m /\ Under(b, x, c)
      BY <3>1, <1>1, Lineage
    <3>3. x \in Held(b, c)
      BY <3>1, <3>2 DEF Held
    <3>4. PICK i \in DOMAIN kids : kids[i] = c
      BY <3>2, <1>5
    <3>5. x \in Range(subs[i]) /\ i \in DOMAIN subs
      BY <3>3, <3>4, <1>3, <1>6
    <3> HIDE DEF kids, subs
    <3> QED
      BY <3>5, <2>1
  <2> QED
    BY <2>2, <2>3
<1>11. Apart(subs)
  <2>1. ASSUME NEW i \in DOMAIN kids, NEW j \in DOMAIN kids, i # j
        PROVE  Range(subs[i]) \cap Range(subs[j]) = {}
    <3>1. ASSUME NEW x \in Held(b, kids[i]), x \in Held(b, kids[j]) PROVE FALSE
      <4> DEFINE c == kids[i]
                 d == kids[j]
      <4>1. /\ c \in Mids /\ d \in Mids /\ x \in Mids /\ c # d
            /\ b.parent[c] = m /\ b.parent[d] = m /\ Under(b, x, c) /\ Under(b, x, d)
        BY <2>1, <3>1, <1>1, <1>4 DEF Once, Held
      <4> HIDE DEF c, d
      <4>2. Under(b, c, d) \/ Under(b, d, c)
        BY <4>1, <1>1, Lineage
      <4>3. Under(b, m, d) \/ Under(b, m, c)
        <5>1. \A y, z \in Mids : Under(b, y, z) /\ y # z => Under(b, b.parent[y], z)
          BY <1>1, Lineage
        <5> QED
          BY <4>1, <4>2, <5>1
      <4>4. /\ rank[m] < rank[c] /\ rank[m] < rank[d]
            /\ m = d \/ rank[d] < rank[m] \/ m = c \/ rank[c] < rank[m]
        BY <4>1, <4>3, <1>7, <1>8
      <4>5. rank[m] \in Nat /\ rank[c] \in Nat /\ rank[d] \in Nat
        BY <4>1, <1>9
      <4> QED
        BY <4>4, <4>5
    <3> QED
      BY <3>1, <1>6
  <2> QED
    BY <2>1, <1>3, <1>6 DEF Apart
<1>12. Range(own) = Held(b, m) \cap {m} /\ Distinct(own)
  <2>1. Under(b, m, m)
    BY <1>1, Lineage
  <2>2. CASE Real(b, m)
    <3>1. own = <<m>> /\ DOMAIN own = {1} /\ own[1] = m
      BY <2>2 DEF Own
    <3> HIDE DEF own
    <3> QED
      BY <2>1, <2>2, <3>1 DEF Range, Distinct, Held
  <2>3. CASE ~Real(b, m)
    <3>1. DOMAIN own = {}
      BY <2>3 DEF Own
    <3> QED
      BY <2>3, <3>1 DEF Range, Distinct, Held
  <2> QED
    BY <2>2, <2>3
<1>13. Distinct(FlattenSeq(subs))
  BY <1>3, <1>11, Flattened
<1> HIDE DEF own, subs
<1>14. Range(own \o FlattenSeq(subs)) = Held(b, m) /\ Distinct(own \o FlattenSeq(subs))
  <2>1. Range(own) \cap Range(FlattenSeq(subs)) = {}
    BY <1>10, <1>12
  <2>2. /\ Range(own \o FlattenSeq(subs)) = Range(own) \cup Range(FlattenSeq(subs))
        /\ Distinct(own \o FlattenSeq(subs))
    BY <2>1, <1>3, <1>12, <1>13, Joined
  <2> QED
    BY <2>2, <1>10, <1>12
<1> QED
  BY <1>14 DEF Covers, own, subs

\* The walk of a tree meets what the tree holds, each container once.
LEMMA WalkCovers ==
    ASSUME ThreaderAssumption, NEW b, Sound(b), NEW root \in Mids
    PROVE  Walk(b, root) \in Seq(Mids) /\ Covers(b, Walk(b, root), root)
<1> DEFINE N == Cardinality(Mids)
<1>1. /\ b.parent \in [Mids -> Mids \cup {None}] /\ b.children \in [Mids -> Seq(Mids)]
      /\ Ranked(b) /\ None \notin Mids /\ IsFiniteSet(Mids)
  BY DEF Sound, Boxes, ThreaderAssumption
<1>2. N \in Nat
  BY <1>1, FS_CardinalityType
<1>3. PICK W : Walks(b, W) /\ \A m : Walk(b, m) = W[N][m]
  BY <1>1, WalkDefined
<1>4. W \in [0..N -> [Mids -> Seq(Mids)]]
  BY <1>3 DEF Walks
<1>5. PICK depth \in [Mids -> 0..(N - 1)] : RankedBy(depth, b)
  BY <1>1, Shallow
<1> HIDE DEF N
<1>6. \A c \in Mids : b.parent[c] # None => depth[b.parent[c]] < depth[c]
  BY <1>5 DEF RankedBy
<1> DEFINE Reach(n) == \A m \in Mids : n + depth[m] >= N => Covers(b, W[n][m], m)
           P == {n \in 0..N : Reach(n)}
<1>7. 0 \in P
  BY <1>2, <1>5
<1>8. ASSUME NEW n \in 0..N, n \in P, n # N PROVE n + 1 \in P
  <2>1. n + 1 \in 0..N /\ n + 1 \in 1..N /\ n + 1 - 1 = n
    BY <1>2, <1>8
  <2>2. ASSUME NEW m \in Mids, n + 1 + depth[m] >= N PROVE Covers(b, W[n + 1][m], m)
    <3>1. ASSUME NEW c \in Mids, b.parent[c] = m PROVE Covers(b, W[n][c], c)
      <4>1. depth[m] < depth[c]
        BY <3>1, <1>1, <1>6
      <4>2. depth[m] \in Nat /\ depth[c] \in Nat
        BY <1>5
      <4>3. n + depth[c] >= N
        BY <4>1, <4>2, <2>2, <1>2
      <4> QED
        BY <4>3, <1>8
    <3>2. W[n] \in [Mids -> Seq(Mids)]
      BY <1>4
    <3>3. W[n + 1][m] = Own(b, m) \o FlattenSeq(Below(b, W[n], m))
      <4> DEFINE k == n + 1
      <4>1. \A i \in 1..N : \A x \in Mids :
                W[i][x] = Own(b, x) \o FlattenSeq(Below(b, W[i - 1], x))
        BY <1>3 DEF Walks, N
      <4>2. k \in 1..N /\ k - 1 = n
        BY <2>1
      <4> HIDE DEF k
      <4>3. W[k][m] = Own(b, m) \o FlattenSeq(Below(b, W[k - 1], m))
        BY <4>1, <4>2
      <4> QED
        BY <4>2, <4>3 DEF k
    <3>4. Covers(b, Own(b, m) \o FlattenSeq(Below(b, W[n], m)), m)
      BY <3>1, <3>2, LevelCovers
    <3> QED
      BY <3>3, <3>4
  <2> QED
    BY <2>1, <2>2
<1>9. N \in P
  <2> HIDE DEF P
  <2> QED
    BY <1>2, <1>7, <1>8, Climbed
<1>10. Covers(b, W[N][root], root)
  <2>1. N + depth[root] >= N
    BY <1>2, <1>5
  <2> QED
    BY <2>1, <1>9
<1>11. W[N][root] \in Seq(Mids)
  BY <1>2, <1>4
<1> QED
  BY <1>3, <1>10, <1>11

-----------------------------------------------------------------------------
(*****************************************************************************)
(* Trees                                                                   *)
(*****************************************************************************)
\* Every container hangs below one root.
LEMMA Rooted ==
    ASSUME ThreaderAssumption, NEW b, Sound(b), NEW x \in Mids
    PROVE  /\ \E r \in Mids : b.parent[r] = None /\ Under(b, x, r)
           /\ \A r, q \in Mids : /\ b.parent[r] = None /\ Under(b, x, r)
                                 /\ b.parent[q] = None /\ Under(b, x, q)
                                 => r = q
<1>1. /\ b.parent \in [Mids -> Mids \cup {None}] /\ Ranked(b) /\ None \notin Mids
  BY DEF Sound, Boxes, ThreaderAssumption
<1>2. PICK rank \in [Mids -> Nat] : RankedBy(rank, b)
  BY <1>1 DEF Ranked
<1> DEFINE ranks == {rank[y] : y \in {z \in Mids : Under(b, x, z)}}
<1>3. Under(b, x, x)
  BY <1>1, Lineage
<1>4. ranks \subseteq Nat /\ ranks # {}
  BY <1>2, <1>3
<1>5. PICK least \in ranks : \A n \in ranks : least <= n
  <2> HIDE DEF ranks
  <2> QED
    BY <1>4, Lowest
<1>6. PICK r \in Mids : Under(b, x, r) /\ \A y \in Mids : Under(b, x, y) => rank[r] <= rank[y]
  BY <1>5
<1>7. b.parent[r] = None
  <2>1. ASSUME b.parent[r] # None PROVE FALSE
    <3>1. Under(b, x, b.parent[r])
      BY <2>1, <1>1, <1>6, Lineage
    <3>2. b.parent[r] \in Mids /\ rank[b.parent[r]] < rank[r]
      BY <2>1, <1>1, <1>2 DEF RankedBy
    <3>3. rank[r] <= rank[b.parent[r]] /\ rank[r] \in Nat /\ rank[b.parent[r]] \in Nat
      BY <3>1, <3>2, <1>2, <1>6
    <3> QED
      BY <3>2, <3>3
  <2> QED
    BY <2>1
<1>8. ASSUME NEW p \in Mids, NEW q \in Mids, b.parent[p] = None, Under(b, x, p),
             b.parent[q] = None, Under(b, x, q)
      PROVE  p = q
  <2>1. Under(b, p, q) \/ Under(b, q, p)
    BY <1>1, <1>8, Lineage
  <2>2. \A y, z \in Mids : Under(b, y, z) /\ y # z => b.parent[y] # None
    BY <1>1, Lineage
  <2> QED
    BY <2>1, <2>2, <1>8
<1> QED
  BY <1>6, <1>7, <1>8

-----------------------------------------------------------------------------
\* The containers hold the last row of every Message-ID.
LastHeld(b) ==
    /\ \A m \in Mids : Real(b, m) => Placed(b.row[m]) /\ emails[b.row[m]].mid = m
    /\ \A id \in Ids : Placed(id) => b.row[emails[id].mid] = id

\* Parents and containers with rows have been made.
MadeWhole(b) ==
    \A m \in Mids : /\ Real(b, m) => m \in Made(b)
                    /\ b.parent[m] # None => b.parent[m] \in Made(b) /\ m \in Made(b)

\* The roots, one after the other.
Listed(b, kept) == kept \in Seq(Mids) /\ Distinct(kept) /\ Range(kept) = Roots(b)

Tree(b, kept, k) == Walk(b, kept[k])

\* A sequence that has no Message-ID twice is no longer than there are.
LEMMA DistinctShort ==
    ASSUME IsFiniteSet(Mids), NEW s \in Seq(Mids), Distinct(s)
    PROVE  Len(s) <= Cardinality(Mids)
<1> DEFINE n == Len(s)
<1>1. n \in Nat /\ DOMAIN s = 1..n /\ s \in [1..n -> Mids]
  OBVIOUS
<1> HIDE DEF n
<1>2. s \in Injection(1..n, Mids)
  BY <1>1 DEF Distinct, Injection, IsInjective
<1>3. Cardinality(1..n) <= Cardinality(Mids)
  BY <1>2, FS_Injection
<1>4. Cardinality(1..n) = n
  BY <1>1, FS_Interval
<1> QED
  BY <1>3, <1>4 DEF n

\* The trees hold each row that has a place once, and nothing else.
LEMMA TreesShare ==
    ASSUME ThreaderAssumption, NEW b, Sound(b), LastHeld(b), MadeWhole(b),
           NEW kept, Listed(b, kept), emails \in [Ids -> Mail \cup {None}]
    PROVE  /\ \A k \in DOMAIN kept :
                 /\ Tree(b, kept, k) \in Seq(Mids) /\ Distinct(Tree(b, kept, k))
                 /\ \A i \in DOMAIN Tree(b, kept, k) :
                       Tree(b, kept, k)[i] \in Mids /\ Placed(b.row[Tree(b, kept, k)[i]])
           /\ \A id \in Ids : Placed(id) =>
                 \E k \in DOMAIN kept : \E i \in DOMAIN Tree(b, kept, k) :
                    b.row[Tree(b, kept, k)[i]] = id
           /\ \A k, l \in DOMAIN kept :
                 \A i \in DOMAIN Tree(b, kept, k), j \in DOMAIN Tree(b, kept, l) :
                    b.row[Tree(b, kept, k)[i]] = b.row[Tree(b, kept, l)[j]] => k = l /\ i = j
<1>1. /\ b.parent \in [Mids -> Mids \cup {None}] /\ None \notin Mids
      /\ b.made \in Seq(Mids)
  BY DEF Sound, Boxes, ThreaderAssumption
<1>2. \A k \in DOMAIN kept : kept[k] \in Mids /\ b.parent[kept[k]] = None
  BY DEF Listed, Roots, Range
<1>3. ASSUME NEW k \in DOMAIN kept
      PROVE  /\ Tree(b, kept, k) \in Seq(Mids) /\ Distinct(Tree(b, kept, k))
             /\ Range(Tree(b, kept, k)) = Held(b, kept[k])
  BY <1>2, <1>3, WalkCovers DEF Tree, Covers
<1>4. ASSUME NEW k \in DOMAIN kept, NEW i \in DOMAIN Tree(b, kept, k)
      PROVE  /\ Tree(b, kept, k)[i] \in Mids /\ Real(b, Tree(b, kept, k)[i])
             /\ Under(b, Tree(b, kept, k)[i], kept[k])
             /\ Placed(b.row[Tree(b, kept, k)[i]])
             /\ emails[b.row[Tree(b, kept, k)[i]]].mid = Tree(b, kept, k)[i]
  <2> DEFINE x == Tree(b, kept, k)[i]
  <2>1. x \in Range(Tree(b, kept, k))
    BY DEF Range
  <2>2. x \in Held(b, kept[k])
    BY <1>3, <2>1
  <2> HIDE DEF x
  <2>3. x \in Mids /\ Real(b, x) /\ Under(b, x, kept[k])
    BY <2>2 DEF Held
  <2>4. Placed(b.row[x]) /\ emails[b.row[x]].mid = x
    BY <2>3 DEF LastHeld
  <2> QED
    BY <2>3, <2>4 DEF x
<1>5. ASSUME NEW id \in Ids, Placed(id)
      PROVE  \E k \in DOMAIN kept : \E i \in DOMAIN Tree(b, kept, k) :
                b.row[Tree(b, kept, k)[i]] = id
  <2> DEFINE m == emails[id].mid
  <2>1. m \in Mids
    BY <1>5 DEF Placed, Rows, ThreaderAssumption, RowType
  <2>2. b.row[m] = id /\ Real(b, m)
    BY <1>5, ThreaderAssumption DEF LastHeld, Real, Ids, ThreaderAssumption
  <2> HIDE DEF m
  <2>3. PICK r \in Mids : b.parent[r] = None /\ Under(b, m, r)
    BY <2>1, Rooted
  <2>4. r \in Made(b)
    <3>1. CASE r = m
      BY <3>1, <2>1, <2>2 DEF MadeWhole
    <3>2. CASE r # m
      <4>1. PICK c \in Mids : b.parent[c] = r
        BY <3>2, <2>1, <2>3, <1>1, Lineage
      <4> QED
        BY <4>1, <1>1 DEF MadeWhole
    <3> QED
      BY <3>1, <3>2
  <2>5. r \in Range(kept)
    BY <2>3, <2>4 DEF Listed, Roots
  <2>6. PICK k \in DOMAIN kept : kept[k] = r
    BY <2>5 DEF Range
  <2>7. m \in Range(Tree(b, kept, k))
    BY <2>1, <2>2, <2>3, <2>6, <1>3 DEF Held
  <2>8. PICK i \in DOMAIN Tree(b, kept, k) : Tree(b, kept, k)[i] = m
    BY <2>7 DEF Range
  <2> QED
    BY <2>2, <2>8
<1>6. ASSUME NEW k \in DOMAIN kept, NEW l \in DOMAIN kept,
             NEW i \in DOMAIN Tree(b, kept, k), NEW j \in DOMAIN Tree(b, kept, l),
             b.row[Tree(b, kept, k)[i]] = b.row[Tree(b, kept, l)[j]]
      PROVE  k = l /\ i = j
  <2>1. Tree(b, kept, k)[i] = Tree(b, kept, l)[j]
    BY <1>4, <1>6
  <2> DEFINE x == Tree(b, kept, k)[i]
  <2>2. x \in Mids /\ Under(b, x, kept[k]) /\ Under(b, x, kept[l])
    BY <2>1, <1>4
  <2> HIDE DEF x
  <2>3. kept[k] = kept[l]
    BY <2>2, <1>2, Rooted
  <2>4. k = l
    BY <2>3 DEF Listed, Distinct
  <2> QED
    BY <2>1, <2>4, <1>3 DEF Distinct
<1> QED
  BY <1>3, <1>4, <1>5, <1>6

-----------------------------------------------------------------------------
(*****************************************************************************)
(* Numbers written                                                         *)
(*****************************************************************************)
\* What is written: the place of a row in its tree; other rows keep theirs.
LEMMA NumberedPlaces ==
    ASSUME ThreaderAssumption, NEW b, Sound(b), LastHeld(b), MadeWhole(b),
           NEW kept, Listed(b, kept), emails \in [Ids -> Mail \cup {None}]
    PROVE  /\ \A id \in Ids : ~Placed(id) => Numbered(b, kept)[id] = stored[id]
           /\ \A k \in DOMAIN kept : \A i \in DOMAIN Tree(b, kept, k) :
                 Numbered(b, kept)[b.row[Tree(b, kept, k)[i]]]
                    = [thread |-> b.row[Tree(b, kept, k)[1]], position |-> i - 1]
<1> DEFINE N == Cardinality(Mids)
           trees == [t \in DOMAIN kept |-> Walk(b, kept[t])]
           Places(id) == {p \in (DOMAIN kept) \X (1..N) :
                             p[2] \in DOMAIN trees[p[1]] /\ b.row[trees[p[1]][p[2]]] = id}
           Pick(id) == CHOOSE p \in Places(id) : TRUE
<1>1. \A id \in Ids : Numbered(b, kept)[id] =
          IF Places(id) = {} THEN stored[id]
          ELSE [thread |-> b.row[trees[Pick(id)[1]][1]], position |-> Pick(id)[2] - 1]
  BY DEF Numbered
<1>2. \A k \in DOMAIN kept : trees[k] = Tree(b, kept, k)
  BY DEF Tree
<1>3. \A k \in DOMAIN kept : /\ trees[k] \in Seq(Mids) /\ Distinct(trees[k])
                             /\ \A i \in DOMAIN trees[k] : Placed(b.row[trees[k][i]])
  BY <1>2, TreesShare
<1>4. \A k, l \in DOMAIN kept : \A i \in DOMAIN trees[k], j \in DOMAIN trees[l] :
          b.row[trees[k][i]] = b.row[trees[l][j]] => k = l /\ i = j
  <2>1. \A k, l \in DOMAIN kept :
           \A i \in DOMAIN Tree(b, kept, k), j \in DOMAIN Tree(b, kept, l) :
              b.row[Tree(b, kept, k)[i]] = b.row[Tree(b, kept, l)[j]] => k = l /\ i = j
    BY TreesShare
  <2> HIDE DEF trees
  <2> QED
    BY <2>1, <1>2
<1> HIDE DEF trees
<1>5. ASSUME NEW id \in Ids, ~Placed(id) PROVE Numbered(b, kept)[id] = stored[id]
  <2>1. Places(id) = {}
    <3>1. ASSUME NEW p \in Places(id) PROVE FALSE
      <4>1. p[1] \in DOMAIN kept /\ p[2] \in DOMAIN trees[p[1]] /\ b.row[trees[p[1]][p[2]]] = id
        OBVIOUS
      <4> QED
        BY <4>1, <1>3, <1>5
    <3> QED
      BY <3>1
  <2> HIDE DEF Places
  <2> QED
    BY <2>1, <1>1
<1>6. ASSUME NEW k \in DOMAIN kept, NEW i \in DOMAIN trees[k]
      PROVE  Numbered(b, kept)[b.row[trees[k][i]]]
                = [thread |-> b.row[trees[k][1]], position |-> i - 1]
  <2> DEFINE id == b.row[trees[k][i]]
  <2>1. id \in Ids
    BY <1>3, <1>6 DEF Placed, Rows
  <2>2. <<k, i>> \in Places(id)
    <3>1. Len(trees[k]) <= N /\ N \in Nat /\ i \in 1..Len(trees[k]) /\ Len(trees[k]) \in Nat
      BY <1>3, DistinctShort, FS_CardinalityType DEF ThreaderAssumption
    <3>2. i \in 1..N
      <4> HIDE DEF N
      <4> QED
        BY <3>1
    <3> QED
      BY <3>2
  <2>3. ASSUME NEW p \in Places(id) PROVE p[1] = k /\ p[2] = i
    <3>1. p[1] \in DOMAIN kept /\ p[2] \in DOMAIN trees[p[1]] /\ b.row[trees[p[1]][p[2]]] = id
      OBVIOUS
    <3> QED
      BY <3>1, <1>4, <1>6
  <2> HIDE DEF Places, id
  <2>4. Pick(id) \in Places(id)
    BY <2>2
  <2>5. Pick(id)[1] = k /\ Pick(id)[2] = i
    BY <2>3, <2>4
  <2> HIDE DEF Pick
  <2>6. Numbered(b, kept)[id] = [thread |-> b.row[trees[k][1]], position |-> i - 1]
    BY <2>1, <2>2, <2>5, <1>1
  <2> QED
    BY <2>6 DEF id
<1>7. \A k \in DOMAIN kept : \A i \in DOMAIN Tree(b, kept, k) :
         Numbered(b, kept)[b.row[Tree(b, kept, k)[i]]]
            = [thread |-> b.row[Tree(b, kept, k)[1]], position |-> i - 1]
  BY <1>2, <1>6
<1> QED
  BY <1>5, <1>7

\* The rows of a thread, and their numbers.
NumberedOnce(s) ==
    \A id \in Rows : Placed(id) =>
        /\ s[id] # None
        /\ LET fellows == {o \in Rows : Placed(o) /\ s[o].thread = s[id].thread}
           IN  /\ s[id].thread \in fellows
               /\ {s[o].position : o \in fellows} = 0..(Cardinality(fellows) - 1)

\* The numbers written are places, and number every Message-ID once.
LEMMA NumberedWell ==
    ASSUME ThreaderAssumption, NEW b, Sound(b), LastHeld(b), MadeWhole(b),
           NEW kept, Listed(b, kept), emails \in [Ids -> Mail \cup {None}],
           stored \in [Ids -> [thread : Ids, position : Nat] \cup {None}]
    PROVE  /\ Numbered(b, kept) \in [Ids -> [thread : Ids, position : Nat] \cup {None}]
           /\ NumberedOnce(Numbered(b, kept))
<1> DEFINE s == Numbered(b, kept)
           t == [k \in DOMAIN kept |-> Tree(b, kept, k)]
<1>1. /\ \A k \in DOMAIN kept :
            /\ t[k] \in Seq(Mids) /\ Distinct(t[k])
            /\ \A i \in DOMAIN t[k] : Placed(b.row[t[k][i]])
      /\ \A id \in Ids : Placed(id) => \E k \in DOMAIN kept : \E i \in DOMAIN t[k] : b.row[t[k][i]] = id
      /\ \A id \in Ids : ~Placed(id) => s[id] = stored[id]
      /\ \A k \in DOMAIN kept : \A i \in DOMAIN t[k] :
            s[b.row[t[k][i]]] = [thread |-> b.row[t[k][1]], position |-> i - 1]
  <2>1. \A k \in DOMAIN kept : t[k] = Tree(b, kept, k)
    OBVIOUS
  <2>2. /\ \A id \in Ids : ~Placed(id) => s[id] = stored[id]
        /\ \A k \in DOMAIN kept : \A i \in DOMAIN Tree(b, kept, k) :
              s[b.row[Tree(b, kept, k)[i]]]
                 = [thread |-> b.row[Tree(b, kept, k)[1]], position |-> i - 1]
    BY NumberedPlaces
  <2>3. /\ \A k \in DOMAIN kept :
              /\ Tree(b, kept, k) \in Seq(Mids) /\ Distinct(Tree(b, kept, k))
              /\ \A i \in DOMAIN Tree(b, kept, k) : Placed(b.row[Tree(b, kept, k)[i]])
        /\ \A id \in Ids : Placed(id) =>
              \E k \in DOMAIN kept : \E i \in DOMAIN Tree(b, kept, k) :
                 b.row[Tree(b, kept, k)[i]] = id
    BY TreesShare
  <2> HIDE DEF t, s
  <2> QED
    BY <2>1, <2>2, <2>3
<1>2. \A k, l \in DOMAIN kept : \A i \in DOMAIN t[k], j \in DOMAIN t[l] :
          b.row[t[k][i]] = b.row[t[l][j]] => k = l /\ i = j
  <2>1. \A k, l \in DOMAIN kept :
           \A i \in DOMAIN Tree(b, kept, k), j \in DOMAIN Tree(b, kept, l) :
              b.row[Tree(b, kept, k)[i]] = b.row[Tree(b, kept, l)[j]] => k = l /\ i = j
    BY TreesShare
  <2>2. \A k \in DOMAIN kept : t[k] = Tree(b, kept, k)
    OBVIOUS
  <2> HIDE DEF t
  <2> QED
    BY <2>1, <2>2
<1>3. s = [id \in Ids |-> s[id]]
  BY DEF Numbered
<1> HIDE DEF s, t
<1>4. \A id \in Ids : Placed(id) => id \in Rows
  BY DEF Placed
<1>5. \A k \in DOMAIN kept : \A i \in DOMAIN t[k] :
          /\ i \in 1..Len(t[k]) /\ 1 \in DOMAIN t[k] /\ Len(t[k]) \in Nat /\ DOMAIN t[k] = 1..Len(t[k])
          /\ b.row[t[k][i]] \in Ids /\ b.row[t[k][1]] \in Ids
  <2>1. ASSUME NEW k \in DOMAIN kept, NEW i \in DOMAIN t[k]
        PROVE  i \in 1..Len(t[k]) /\ 1 \in DOMAIN t[k] /\ Len(t[k]) \in Nat /\ DOMAIN t[k] = 1..Len(t[k])
    <3>1. t[k] \in Seq(Mids)
      BY <1>1
    <3>2. DOMAIN t[k] = 1..Len(t[k]) /\ Len(t[k]) \in Nat
      BY <3>1
    <3> QED
      BY <3>2
  <2> QED
    BY <2>1, <1>1 DEF Placed, Rows
<1>6. ASSUME NEW id \in Ids PROVE s[id] \in [thread : Ids, position : Nat] \cup {None}
  <2>1. CASE ~Placed(id)
    BY <2>1, <1>1
  <2>2. CASE Placed(id)
    <3>1. PICK k \in DOMAIN kept : \E i \in DOMAIN t[k] : b.row[t[k][i]] = id
      BY <2>2, <1>1
    <3>2. PICK i \in DOMAIN t[k] : b.row[t[k][i]] = id
      BY <3>1
    <3>3. s[id] = [thread |-> b.row[t[k][1]], position |-> i - 1]
      BY <3>2, <1>1
    <3>4. i - 1 \in Nat /\ b.row[t[k][1]] \in Ids
      BY <1>5
    <3> QED
      BY <3>3, <3>4
  <2> QED
    BY <2>1, <2>2
<1>7. ASSUME NEW id \in Rows, Placed(id)
      PROVE  /\ s[id] # None
             /\ s[id].thread \in {o \in Rows : Placed(o) /\ s[o].thread = s[id].thread}
             /\ {s[o].position : o \in {o \in Rows : Placed(o) /\ s[o].thread = s[id].thread}}
                   = 0..(Cardinality({o \in Rows : Placed(o) /\ s[o].thread = s[id].thread}) - 1)
  <2> DEFINE fellows == {o \in Rows : Placed(o) /\ s[o].thread = s[id].thread}
  <2>1. PICK k \in DOMAIN kept : \E i \in DOMAIN t[k] : b.row[t[k][i]] = id
    BY <1>7, <1>1 DEF Rows
  <2>2. PICK i \in DOMAIN t[k] : b.row[t[k][i]] = id
    BY <2>1
  <2> DEFINE n == Len(t[k])
             first == b.row[t[k][1]]
             place == [j \in 1..n |-> b.row[t[k][j]]]
  <2>3. n \in Nat /\ DOMAIN t[k] = 1..n /\ i \in 1..n /\ 1 \in DOMAIN t[k] /\ i - 1 \in Nat
    BY <1>5
  <2>4. \A j \in 1..n : place[j] = b.row[t[k][j]] /\ s[place[j]] = [thread |-> first, position |-> j - 1]
    BY <2>3, <1>1
  <2>5. s[id] = [thread |-> first, position |-> i - 1] /\ first \in Ids
    BY <2>2, <1>1, <1>5
  <2>6. s[id] # None
    BY <2>3, <2>5 DEF ThreaderAssumption
  <2>7. \A j \in 1..n : place[j] \in fellows
    <3>1. ASSUME NEW j \in 1..n PROVE place[j] \in fellows
      <4>1. j \in DOMAIN t[k] /\ place[j] = b.row[t[k][j]]
        BY <2>3, <2>4
      <4>2. Placed(place[j]) /\ place[j] \in Ids
        BY <4>1, <1>1, <1>5
      <4>3. s[place[j]].thread = first /\ s[id].thread = first
        <5>1. s[place[j]] = [thread |-> first, position |-> j - 1]
          BY <2>4
        <5> HIDE DEF place, first
        <5> QED
          BY <5>1, <2>5
      <4> QED
        BY <4>2, <4>3, <1>4
    <3> QED
      BY <3>1
  <2>8. ASSUME NEW o \in fellows PROVE \E j \in 1..n : place[j] = o
    <3>1. o \in Ids /\ Placed(o) /\ s[o].thread = first
      BY <2>5 DEF Rows
    <3>2. PICK l \in DOMAIN kept : \E j \in DOMAIN t[l] : b.row[t[l][j]] = o
      BY <3>1, <1>1
    <3>3. PICK j \in DOMAIN t[l] : b.row[t[l][j]] = o
      BY <3>2
    <3>4. s[o] = [thread |-> b.row[t[l][1]], position |-> j - 1]
      BY <3>3, <1>1
    <3>5. b.row[t[l][1]] = b.row[t[k][1]] /\ 1 \in DOMAIN t[l]
      BY <3>1, <3>4, <1>5
    <3>6. l = k
      BY <3>5, <2>3, <1>2
    <3> QED
      BY <3>3, <3>6, <2>3, <2>4
  <2>9. \A j, l \in 1..n : place[j] = place[l] => j = l
    BY <2>3, <2>4, <1>2
  <2> HIDE DEF fellows, n, first
  <2>10. place \in Bijection(1..n, fellows)
    <3>1. place \in [1..n -> fellows]
      BY <2>7
    <3> HIDE DEF place
    <3> QED
      BY <3>1, <2>8, <2>9 DEF Bijection, Injection, Surjection, IsInjective
  <2> HIDE DEF place
  <2>11. ExistsBijection(1..n, fellows)
    BY <2>10 DEF ExistsBijection
  <2>12. Cardinality(fellows) = n
    <3>1. IsFiniteSet(1..n) /\ Cardinality(1..n) = n
      BY <2>3, FS_Interval
    <3> QED
      BY <3>1, <2>11, FS_Bijection
  <2>13. {s[o].position : o \in fellows} = 0..(n - 1)
    <3>1. ASSUME NEW o \in fellows PROVE s[o].position \in 0..(n - 1)
      <4>1. PICK j \in 1..n : place[j] = o
        BY <2>8
      <4>2. s[place[j]] = [thread |-> first, position |-> j - 1]
        BY <2>4
      <4>3. s[o].position = j - 1
        BY <4>1, <4>2
      <4> QED
        BY <4>3, <2>3
    <3>2. ASSUME NEW p \in 0..(n - 1) PROVE \E o \in fellows : s[o].position = p
      <4>1. p + 1 \in 1..n /\ p + 1 - 1 = p
        BY <2>3
      <4> DEFINE j == p + 1
      <4>2. j \in 1..n /\ j - 1 = p
        BY <4>1
      <4> HIDE DEF j
      <4>3. place[j] \in fellows /\ s[place[j]] = [thread |-> first, position |-> j - 1]
        BY <4>2, <2>4, <2>7
      <4> QED
        BY <4>2, <4>3
    <3> QED
      BY <3>1, <3>2
  <2>14. s[id].thread \in fellows
    <3>1. place[1] = first
      BY <2>3, <2>4 DEF first
    <3> QED
      BY <3>1, <2>3, <2>5, <2>7
  <2> QED
    BY <2>6, <2>12, <2>13, <2>14 DEF fellows
<1>8. s \in [Ids -> [thread : Ids, position : Nat] \cup {None}]
  BY <1>3, <1>6
<1>9. NumberedOnce(s)
  BY <1>7 DEF NumberedOnce
<1> QED
  BY <1>8, <1>9 DEF s

-----------------------------------------------------------------------------
(***************************************************************************)
(* What a threading has done so far                                        *)
(***************************************************************************)
\* The rows the containers know.
Done == {id \in Rows : id \notin rows \/ (phase = "chain" /\ Reading(id))}

HoldsLast ==
    /\ \A m \in Mids : Real(box, m) => box.row[m] \in Done /\ emails[box.row[m]].mid = m
    /\ \A id \in Done : Real(box, emails[id].mid) /\ id <= box.row[emails[id].mid]

InOrder == \A id \in Rows \ rows : \A other \in rows : id < other

RootsSplit ==
    /\ Roots(box) = roots \cup Range(merged)
    /\ roots \cap Range(merged) = {}
    /\ Distinct(merged)

Progress ==
    /\ phase = "idle" => box = NoContainers
    /\ phase # "idle" => dirty /\ InOrder /\ HoldsLast
    /\ phase # "subject" => merged = <<>>
    /\ phase = "subject" => RootsSplit
    /\ phase # "chain" => prev = None
    /\ prev # None => prev \in Made(box)
    /\ MadeWhole(box)

Indexed ==
    /\ stored \in [Ids -> [thread : Ids, position : Nat] \cup {None}]
    /\ dirty \in BOOLEAN /\ change \in BOOLEAN /\ removals \in 0..MaxRemovals
    /\ change => dirty

ThreadInv == ForestInv /\ Progress /\ Indexed /\ (Settled => NumberedOnce(stored))

-----------------------------------------------------------------------------
\* What _get_or_create changes.
LEMMA GetEffect ==
    ASSUME NEW b \in Boxes, NEW m \in Mids
    PROVE  /\ GetOrCreate(b, m) \in Boxes
           /\ GetOrCreate(b, m).row = b.row
           /\ GetOrCreate(b, m).parent = b.parent
           /\ GetOrCreate(b, m).children = b.children
           /\ Made(GetOrCreate(b, m)) = Made(b) \cup {m}
<1>1. CASE m \in Made(b)
  BY <1>1 DEF GetOrCreate
<1>2. CASE m \notin Made(b)
  <2> DEFINE d == [b EXCEPT !.made = Append(@, m)]
  <2>1. b.made \in Seq(Mids)
    BY DEF Boxes
  <2>2. Append(b.made, m) \in Seq(Mids) /\ Range(Append(b.made, m)) = Range(b.made) \cup {m}
    BY <2>1, Appended
  <2>3. /\ d \in Boxes /\ d.row = b.row /\ d.parent = b.parent /\ d.children = b.children
        /\ d.made = Append(b.made, m)
    BY <2>2 DEF Boxes
  <2>4. GetOrCreate(b, m) = d
    BY <1>2 DEF GetOrCreate
  <2> HIDE DEF d
  <2> QED
    BY <2>2, <2>3, <2>4 DEF Made
<1> QED
  BY <1>1, <1>2

\* What taking a row changes.
LEMMA TakeEffect ==
    ASSUME NEW b \in Boxes, NEW id \in Ids, NEW m \in Mids, emails[id].mid = m
    PROVE  /\ Take(b, id).row = [b.row EXCEPT ![m] = id]
           /\ Take(b, id).parent = b.parent
           /\ Made(Take(b, id)) = Made(b) \cup {m}
<1> DEFINE g == GetOrCreate(b, m)
           r == [g.row EXCEPT ![m] = id]
           d == [g EXCEPT !.row = r]
<1>1. g \in Boxes /\ g.row = b.row /\ g.parent = b.parent /\ Made(g) = Made(b) \cup {m}
  BY GetEffect
<1>2. Take(b, id) = d
  BY DEF Take
<1> HIDE DEF g, r
<1>3. d.row = r /\ d.parent = g.parent /\ d.made = g.made
  BY <1>1 DEF Boxes
<1>4. r = [b.row EXCEPT ![m] = id]
  BY <1>1 DEF r
<1> HIDE DEF d
<1> QED
  BY <1>1, <1>2, <1>3, <1>4 DEF Made

\* What _link changes.
LEMMA LinkEffect ==
    ASSUME NEW b \in Boxes, NEW p \in Mids, NEW c \in Mids
    PROVE  /\ Link(b, p, c).row = b.row /\ Link(b, p, c).made = b.made
           /\ Link(b, p, c).parent \in {b.parent, [b.parent EXCEPT ![c] = p]}
           /\ c # p /\ ~CreatesCycle(b, p, c) => Link(b, p, c).parent = [b.parent EXCEPT ![c] = p]
BY DEF Link

\* Links between containers that have been made keep parents made.
LEMMA LinkMade ==
    ASSUME NEW b \in Boxes, MadeWhole(b), NEW c \in Made(b), NEW p, p # None => p \in Made(b)
    PROVE  /\ MadeWhole(LinkOrphan(b, p, c))
           /\ LinkOrphan(b, p, c).row = b.row /\ Made(LinkOrphan(b, p, c)) = Made(b)
<1>1. b.made \in Seq(Mids) /\ b.parent \in [Mids -> Mids \cup {None}]
  BY DEF Boxes
<1>2. Made(b) \subseteq Mids
  BY <1>1, RangeWithin DEF Made
<1>3. CASE p # None /\ b.parent[c] = None
  <2> DEFINE d == Link(b, p, c)
  <2>1. /\ d.row = b.row /\ d.made = b.made
        /\ d.parent \in {b.parent, [b.parent EXCEPT ![c] = p]}
    <3>1. p \in Mids /\ c \in Mids
      BY <1>2, <1>3
    <3> HIDE DEF d
    <3> QED
      BY <3>1, LinkEffect DEF d
  <2>2. LinkOrphan(b, p, c) = d
    BY <1>3 DEF LinkOrphan
  <2> HIDE DEF d
  <2>3. Made(d) = Made(b) /\ \A m : Real(d, m) <=> Real(b, m)
    BY <2>1 DEF Made, Real
  <2>4. \A m \in Mids : d.parent[m] = b.parent[m] \/ (m = c /\ d.parent[m] = p)
    <3>1. CASE d.parent = b.parent
      BY <3>1
    <3>2. CASE d.parent = [b.parent EXCEPT ![c] = p]
      <4>1. c \in Mids
        BY <1>2
      <4> QED
        BY <3>2, <4>1, <1>1
    <3> QED
      BY <2>1, <3>1, <3>2
  <2>5. MadeWhole(d)
    BY <2>3, <2>4, <1>3 DEF MadeWhole
  <2> QED
    BY <2>1, <2>2, <2>3, <2>5
<1>4. CASE ~(p # None /\ b.parent[c] = None)
  BY <1>4 DEF LinkOrphan
<1> QED
  BY <1>3, <1>4

\* Following a reference makes its container and keeps parents made.
LEMMA FollowMade ==
    ASSUME NEW b \in Boxes, MadeWhole(b), NEW from, from # None => from \in Made(b),
           NEW ref \in Mids
    PROVE  /\ MadeWhole(Follow(b, from, ref))
           /\ Follow(b, from, ref).row = b.row /\ ref \in Made(Follow(b, from, ref))
<1> DEFINE g == GetOrCreate(b, ref)
<1>1. /\ g \in Boxes /\ g.row = b.row /\ g.parent = b.parent
      /\ Made(g) = Made(b) \cup {ref}
  BY GetEffect
<1>2. Follow(b, from, ref) = LinkOrphan(g, from, ref)
  BY DEF Follow
<1> HIDE DEF g
<1>3. MadeWhole(g)
  BY <1>1 DEF MadeWhole, Real
<1>4. ref \in Made(g) /\ (from # None => from \in Made(g))
  BY <1>1
<1>5. /\ MadeWhole(LinkOrphan(g, from, ref))
      /\ LinkOrphan(g, from, ref).row = g.row /\ Made(LinkOrphan(g, from, ref)) = Made(g)
  BY <1>1, <1>3, <1>4, LinkMade
<1> QED
  BY <1>1, <1>2, <1>4, <1>5

\* Children put in order are the same children.
LEMMA SortSound ==
    ASSUME NEW b, Sound(b), \A m \in Mids : DateOf(b, m) \in Nat
    PROVE  /\ Sound(SortChildren(b))
           /\ SortChildren(b).row = b.row /\ SortChildren(b).parent = b.parent
           /\ SortChildren(b).made = b.made
<1> DEFINE kids == [m \in Mids |-> Sorted(b, b.children[m])]
           d == [b EXCEPT !.children = kids]
<1>1. b \in Boxes /\ Ranked(b) /\ Mirrored(b) /\ Once(b)
  BY DEF Sound
<1>2. b.children \in [Mids -> Seq(Mids)]
  BY <1>1 DEF Boxes
<1>3. ASSUME NEW m \in Mids
      PROVE  /\ kids[m] \in Seq(Mids) /\ Range(kids[m]) = Range(b.children[m])
             /\ Distinct(b.children[m]) => Distinct(kids[m])
  <2>1. b.children[m] \in Seq(Mids) /\ kids[m] = Sorted(b, b.children[m])
    BY <1>2
  <2> HIDE DEF kids
  <2> QED
    BY <2>1, SortedKeeps
<1>4. kids \in [Mids -> Seq(Mids)]
  BY <1>3
<1> HIDE DEF kids
<1>5. d \in Boxes /\ d.children = kids /\ d.row = b.row /\ d.parent = b.parent /\ d.made = b.made
  BY <1>1, <1>4 DEF Boxes
<1>6. SortChildren(b) = d
  BY DEF SortChildren, kids
<1> HIDE DEF d
<1>7. Ranked(d)
  BY <1>1, <1>5 DEF Ranked, RankedBy
<1>8. Mirrored(d)
  BY <1>1, <1>3, <1>5 DEF Mirrored
<1>9. Once(d)
  BY <1>1, <1>3, <1>5 DEF Once, Distinct
<1> QED
  BY <1>5, <1>6, <1>7, <1>8, <1>9 DEF Sound

-----------------------------------------------------------------------------
(*****************************************************************************)
(* Every step keeps it                                                     *)
(*****************************************************************************)
LEMMA NothingMade ==
    ThreaderAssumption => /\ MadeWhole(NoContainers)
                          /\ \A m \in Mids : ~Real(NoContainers, m)
BY DEF MadeWhole, Real, NoContainers, ThreaderAssumption

\* The invariant holds of an empty index.
LEMMA ThreadInit == ThreaderAssumption /\ Init => ThreadInv
<1> SUFFICES ASSUME ThreaderAssumption, Init PROVE ThreadInv
  OBVIOUS
<1>1. ForestInv
  BY ForestInit
<1>2. Progress
  BY NothingMade DEF Init, Progress
<1>3. Indexed
  <2>1. removals \in 0..MaxRemovals
    BY DEF Init, ThreaderAssumption
  <2>2. /\ stored \in [Ids -> [thread : Ids, position : Nat] \cup {None}]
        /\ dirty \in BOOLEAN /\ change \in BOOLEAN /\ (change => dirty)
    BY DEF Init
  <2> QED
    BY <2>1, <2>2 DEF Indexed
<1>4. Rows = {}
  BY DEF Init, Rows
<1>5. NumberedOnce(stored)
  BY <1>4 DEF NumberedOnce
<1> QED
  BY <1>1, <1>2, <1>3, <1>5 DEF ThreadInv

\* Between two threadings the containers are empty, and dirty is set.
LEMMA IndexKeeps ==
    ASSUME ThreadInv, ThreaderAssumption,
           (\E r \in Mail : Index(r)) \/ (\E id \in Ids : Delete(id)) \/ Start
    PROVE  ThreadInv'
<1> USE DEF ThreadInv
<1>1. ForestInv'
  BY IndexStep
<1>2. CASE (\E r \in Mail : Index(r)) \/ (\E id \in Ids : Delete(id))
  <2>1. /\ phase = "idle" /\ dirty' = TRUE /\ change' = TRUE /\ removals' \in 0..MaxRemovals
        /\ \/ stored' = stored
           \/ \E id \in Ids : stored' = [stored EXCEPT ![id] = None]
        /\ UNCHANGED <<phase, rows, chain, prev, box, roots, merged>>
    BY <1>2 DEF Index, Delete, Indexed, ThreaderAssumption
  <2>2. Indexed'
    BY <2>1 DEF Indexed
  <2>3. Progress'
    BY <2>1 DEF Progress, MadeWhole, Made, Real
  <2> QED
    BY <1>1, <2>1, <2>2, <2>3 DEF Settled
<1>3. CASE Start
  <2>1. /\ phase = "idle" /\ phase' = "row" /\ rows' = Rows /\ dirty
        /\ UNCHANGED <<emails, stored, dirty, change, removals, chain, prev, box, roots, merged>>
    BY <1>3 DEF Start, Indexed
  <2>2. Rows' = Rows
    BY <2>1 DEF Rows
  <2>3. InOrder'
    BY <2>1, <2>2 DEF InOrder
  <2>4. HoldsLast'
    <3>1. Done' = {}
      BY <2>1, <2>2 DEF Done
    <3>2. \A m \in Mids : ~Real(box', m)
      BY <2>1, NothingMade DEF Progress
    <3> QED
      BY <3>1, <3>2 DEF HoldsLast, Real
  <2>5. MadeWhole(box)' /\ Made(box)' = Made(box)
    BY <2>1 DEF Progress, MadeWhole, Real, Made
  <2>6. Progress'
    BY <2>1, <2>3, <2>4, <2>5 DEF Progress
  <2>7. Indexed'
    BY <2>1 DEF Indexed
  <2> QED
    BY <1>1, <2>1, <2>6, <2>7 DEF Settled
<1> QED
  BY <1>2, <1>3

\* A row that is taken is later than every row taken before.
LEMMA TakeKeeps ==
    ASSUME ThreadInv, ThreaderAssumption, NEW id \in Ids, TakeRow(id)
    PROVE  ThreadInv'
<1> USE DEF ThreadInv
<1> DEFINE m == emails[id].mid
<1>1. /\ phase = "row" /\ phase' = "chain" /\ id \in rows /\ Reading(id)
      /\ box' = Take(box, id) /\ prev' = None
      /\ UNCHANGED <<emails, stored, dirty, change, removals, rows, roots, merged>>
  BY DEF TakeRow, Reading
<1>2. ForestInv'
  BY ReadStep
<1>3. m \in Mids /\ box \in Boxes /\ id \in Rows
  BY <1>1, RowIsMail DEF ForestInv, Scanning, Sound
<1>4. /\ box'.row = [box.row EXCEPT ![m] = id] /\ box'.parent = box.parent
      /\ Made(box') = Made(box) \cup {m}
  BY <1>1, <1>3, TakeEffect
<1> HIDE DEF m
<1>5. box.row \in [Mids -> Ids \cup {0}] /\ Ids \subseteq Nat \ {0}
  BY <1>3 DEF Boxes, Ids
<1>6. Rows' = Rows /\ \A o : Reading(o)' <=> Reading(o)
  BY <1>1 DEF Rows, Reading
<1>7. Done' = Done \cup {id}
  <2>1. \A o \in Rows : Reading(o) => o = id
    BY <1>1, <1>5 DEF Reading, Rows
  <2> QED
    BY <1>1, <1>3, <1>6, <2>1 DEF Done
<1>8. \A o \in Done : o < id
  BY <1>1 DEF Progress, InOrder, Done
<1>9. InOrder'
  BY <1>1, <1>6 DEF Progress, InOrder
<1>10. HoldsLast
  BY <1>1 DEF Progress
<1>11. HoldsLast'
  <2>1. ASSUME NEW n \in Mids, Real(box', n)
        PROVE  box'.row[n] \in Done' /\ emails'[box'.row[n]].mid = n
    <3>1. CASE n = m
      <4>1. box'.row[n] = id
        BY <3>1, <1>3, <1>4, <1>5
      <4> QED
        BY <4>1, <3>1, <1>1, <1>7 DEF m
    <3>2. CASE n # m
      <4>1. box'.row[n] = box.row[n]
        BY <3>2, <1>4, <1>5
      <4>2. box.row[n] \in Done /\ emails[box.row[n]].mid = n
        BY <4>1, <2>1, <1>10 DEF HoldsLast, Real
      <4>3. box.row[n] \in Ids
        BY <4>2 DEF Done, Rows
      <4> QED
        BY <4>1, <4>2, <4>3, <1>1, <1>7
    <3> QED
      BY <3>1, <3>2
  <2>2. ASSUME NEW o \in Done'
        PROVE  Real(box', emails'[o].mid) /\ o <= box'.row[emails'[o].mid]
    <3> DEFINE n == emails[o].mid
    <3>1. n \in Mids
      <4>1. o \in Rows
        BY <1>3, <1>7 DEF Done
      <4> QED
        BY <4>1, RowIsMail DEF ForestInv
    <3>2. CASE n = m
      <4>1. box'.row[n] = id
        BY <3>2, <1>3, <1>4, <1>5
      <4>2. o <= id
        BY <1>5, <1>7, <1>8 DEF Done, Rows
      <4> HIDE DEF n
      <4>3. Real(box', n) /\ o <= box'.row[n]
        BY <4>1, <4>2, <1>5 DEF Real
      <4> QED
        BY <4>3, <1>1 DEF n
    <3>3. CASE n # m
      <4>1. o # id
        BY <3>3 DEF m
      <4>2. Real(box, n) /\ o <= box.row[n]
        BY <4>1, <1>7, <1>10 DEF HoldsLast
      <4> HIDE DEF n
      <4>3. box'.row[n] = box.row[n]
        BY <3>1, <3>3, <1>4, <1>5
      <4>4. Real(box', n) /\ o <= box'.row[n]
        BY <4>2, <4>3 DEF Real
      <4> QED
        BY <4>4, <1>1 DEF n
    <3> QED
      BY <3>2, <3>3
  <2> QED
    BY <2>1, <2>2 DEF HoldsLast
<1>12. MadeWhole(box')
  <2>1. \A n \in Mids : Real(box', n) => Real(box, n) \/ n = m
    BY <1>3, <1>4, <1>5 DEF Real
  <2> QED
    BY <2>1, <1>4 DEF MadeWhole, Progress
<1>13. MadeWhole(box)'
  BY <1>12 DEF MadeWhole, Made, Real
<1>14. Progress'
  BY <1>1, <1>9, <1>11, <1>13 DEF Progress
<1>15. Indexed'
  BY <1>1 DEF Indexed
<1> QED
  BY <1>1, <1>2, <1>14, <1>15 DEF Settled

\* A reference that is followed makes containers and links them.
LEMMA FollowKeeps ==
    ASSUME ThreadInv, ThreaderAssumption, FollowRef
    PROVE  ThreadInv'
<1> USE DEF ThreadInv
<1>1. /\ phase = "chain" /\ chain # <<>>
      /\ box' = Follow(box, prev, Head(chain)) /\ prev' = Head(chain)
      /\ UNCHANGED <<emails, stored, dirty, change, removals, phase, rows, roots, merged>>
  BY DEF FollowRef
<1>2. ForestInv'
  BY ReadStep
<1>3. Head(chain) \in Mids /\ box \in Boxes
  BY <1>1 DEF ForestInv, Scanning, Sound
<1>4. MadeWhole(box) /\ (prev # None => prev \in Made(box))
  BY DEF Progress
<1>5. MadeWhole(box') /\ box'.row = box.row /\ prev' \in Made(box')
  BY <1>1, <1>3, <1>4, FollowMade
<1>6. MadeWhole(box)' /\ (prev' \in Made(box)')
  BY <1>5 DEF MadeWhole, Made, Real
<1>7. Done' = Done /\ (InOrder' <=> InOrder)
  BY <1>1 DEF Done, Rows, Reading, InOrder
<1>8. HoldsLast'
  BY <1>1, <1>5, <1>7 DEF Progress, HoldsLast, Real
<1>9. Progress'
  BY <1>1, <1>6, <1>7, <1>8 DEF Progress
<1>10. Indexed'
  BY <1>1 DEF Indexed
<1> QED
  BY <1>1, <1>2, <1>9, <1>10 DEF Settled

\* The row whose chain is at its end has been read.
LEMMA AttachKeeps ==
    ASSUME ThreadInv, ThreaderAssumption, NEW id \in Ids, Attach(id)
    PROVE  ThreadInv'
<1> USE DEF ThreadInv
<1>1. /\ phase = "chain" /\ phase' = "row" /\ id \in rows /\ Reading(id)
      /\ box' = LinkOrphan(box, prev, emails[id].mid)
      /\ rows' = rows \ {id} /\ prev' = None
      /\ UNCHANGED <<emails, stored, dirty, change, removals, chain, roots, merged>>
  BY DEF Attach, Reading
<1>2. ForestInv'
  BY ReadStep
<1>3. id \in Rows /\ box \in Boxes /\ Rows \subseteq Nat /\ rows \subseteq Rows
  BY <1>1 DEF ForestInv, Scanning, Sound, Rows, Ids
<1>4. MadeWhole(box) /\ (prev # None => prev \in Made(box)) /\ HoldsLast /\ InOrder
  BY <1>1 DEF Progress
<1>5. emails[id].mid \in Made(box)
  <2>1. id \in Done
    BY <1>1, <1>3 DEF Done
  <2>2. Real(box, emails[id].mid) /\ emails[id].mid \in Mids
    BY <2>1, <1>3, <1>4, RowIsMail DEF HoldsLast, ForestInv
  <2> QED
    BY <2>2, <1>4 DEF MadeWhole
<1>6. MadeWhole(box') /\ box'.row = box.row
  BY <1>1, <1>3, <1>4, <1>5, LinkMade
<1>7. MadeWhole(box)'
  BY <1>6 DEF MadeWhole, Made, Real
<1>8. Rows' = Rows
  BY <1>1 DEF Rows
<1>9. Done' = Done
  <2>1. \A o \in Rows : Reading(o) => o = id
    BY <1>1, <1>3 DEF Reading
  <2> QED
    BY <1>1, <1>3, <1>8, <2>1 DEF Done
<1>10. InOrder'
  <2>1. \A other \in rows \ {id} : id < other
    BY <1>1, <1>3 DEF Reading
  <2> QED
    BY <1>1, <1>4, <1>8, <2>1 DEF InOrder
<1>11. HoldsLast'
  BY <1>1, <1>4, <1>6, <1>9 DEF HoldsLast, Real
<1>12. Progress'
  BY <1>1, <1>7, <1>10, <1>11 DEF Progress
<1>13. Indexed'
  BY <1>1 DEF Indexed
<1> QED
  BY <1>1, <1>2, <1>12, <1>13 DEF Settled

\* The roots are split between those to look at and those kept.
LEMMA GatherKeeps ==
    ASSUME ThreadInv, ThreaderAssumption, GatherRoots
    PROVE  ThreadInv'
<1> USE DEF ThreadInv
<1>1. /\ phase = "row" /\ phase' = "subject" /\ rows = {} /\ roots' = Roots(box)
      /\ UNCHANGED <<emails, stored, dirty, change, removals, rows, chain, prev, box, merged>>
  BY DEF GatherRoots
<1>2. ForestInv'
  BY RootStep
<1>3. merged = <<>> /\ MadeWhole(box) /\ (prev # None => prev \in Made(box)) /\ HoldsLast /\ InOrder
  BY <1>1 DEF Progress
<1>4. RootsSplit'
  <2>1. Roots(box)' = Roots(box)
    BY <1>1 DEF Roots, Made
  <2>2. Range(merged)' = {} /\ Distinct(merged)'
    BY <1>1, <1>3 DEF Range, Distinct
  <2> QED
    BY <1>1, <2>1, <2>2 DEF RootsSplit
<1>5. Done' = Done /\ InOrder'
  BY <1>1, <1>3 DEF Done, Rows, Reading, InOrder
<1>6. HoldsLast' /\ MadeWhole(box)' /\ Made(box)' = Made(box)
  BY <1>1, <1>3, <1>5 DEF HoldsLast, Real, MadeWhole, Made
<1>7. Progress'
  BY <1>1, <1>3, <1>4, <1>5, <1>6 DEF Progress
<1>8. Indexed'
  BY <1>1 DEF Indexed
<1> QED
  BY <1>1, <1>2, <1>7, <1>8 DEF Settled

\* A root is kept, or hung below one that has been kept.
LEMMA MergeKeeps ==
    ASSUME ThreadInv, ThreaderAssumption, NEW m \in Mids, MergeRoot(m)
    PROVE  ThreadInv'
<1> USE DEF ThreadInv
<1>1. /\ phase = "subject" /\ m \in roots /\ roots' = roots \ {m}
      /\ UNCHANGED <<emails, stored, dirty, change, removals, phase, rows, chain, prev>>
  BY DEF MergeRoot, IsFirst
<1>2. ForestInv'
  BY RootStep
<1>3. /\ MadeWhole(box) /\ (prev # None => prev \in Made(box)) /\ HoldsLast /\ InOrder
      /\ RootsSplit
  BY <1>1 DEF Progress
<1>4. /\ box \in Boxes /\ Sound(box) /\ merged \in Seq(Mids) /\ box.made \in Seq(Mids)
      /\ box.parent \in [Mids -> Mids \cup {None}] /\ None \notin Mids
  BY DEF ForestInv, Scanning, Sound, Boxes, ThreaderAssumption
<1>5. /\ Roots(box) = roots \cup Range(merged) /\ roots \cap Range(merged) = {}
      /\ Distinct(merged)
  BY <1>3 DEF RootsSplit
<1>6. Roots(box) \subseteq Made(box) /\ \A r \in Roots(box) : box.parent[r] = None
  BY DEF Roots
<1>7. Done' = Done /\ InOrder'
  BY <1>1, <1>3 DEF Done, Rows, Reading, InOrder
<1>8. /\ box'.row = box.row /\ MadeWhole(box)' /\ Made(box)' = Made(box)
      /\ RootsSplit'
  <2>1. CASE Anchors(box, merged, m) = {}
    <3>1. merged' = Append(merged, m) /\ box' = box
      BY <2>1 DEF MergeRoot
    <3>2. Made(box)' = Made(box) /\ MadeWhole(box)' /\ Roots(box)' = Roots(box)
      BY <3>1, <1>3 DEF Made, MadeWhole, Real, Roots
    <3>3. Range(merged') = Range(merged) \cup {m} /\ Distinct(merged')
      <4>1. /\ DOMAIN Append(merged, m) = 1..(Len(merged) + 1) /\ Len(merged) \in Nat
            /\ DOMAIN merged = 1..Len(merged)
            /\ \A i \in 1..Len(merged) : Append(merged, m)[i] = merged[i]
            /\ Append(merged, m)[Len(merged) + 1] = m
            /\ Range(Append(merged, m)) = Range(merged) \cup {m}
        BY <1>4, Appended
      <4>2. \A i \in DOMAIN merged : merged[i] # m
        BY <1>1, <1>5 DEF Range
      <4> DEFINE L == Len(merged)
      <4>3. L \in Nat /\ DOMAIN merged' = 1..(L + 1) /\ DOMAIN merged = 1..L
            /\ (\A i \in 1..L : merged'[i] = merged[i]) /\ merged'[L + 1] = m
        BY <3>1, <4>1
      <4> HIDE DEF L
      <4>4. \A i \in 1..(L + 1) : i \in 1..L \/ i = L + 1
        BY <4>3
      <4>5. Distinct(merged')
        BY <4>2, <4>3, <4>4, <1>5 DEF Distinct
      <4> QED
        BY <3>1, <4>1, <4>5
    <3>4. Range(merged)' = Range(merged) \cup {m} /\ Distinct(merged)'
      BY <3>3 DEF Range, Distinct
    <3>5. RootsSplit'
      BY <3>2, <3>4, <1>1, <1>5 DEF RootsSplit
    <3> QED
      BY <3>1, <3>2, <3>5
  <2>2. CASE Anchors(box, merged, m) # {}
    <3>1. PICK a \in Anchors(box, merged, m) : box' = Link(box, a, m) /\ merged' = merged
      BY <2>2 DEF MergeRoot
    <3>2. a \in Range(merged)
      BY <3>1 DEF Anchors
    <3>3. /\ a \in Mids /\ a # m /\ a \in Made(box) /\ m \in Made(box)
          /\ box.parent[a] = None /\ box.parent[m] = None
      BY <3>2, <1>1, <1>4, <1>5, <1>6, RangeWithin
    <3>4. ~CreatesCycle(box, a, m)
      <4>1. \A x, y \in Mids : Under(box, x, y) /\ x # y => box.parent[x] # None
        BY <1>4, Lineage
      <4> QED
        BY <3>3, <4>1 DEF Under
    <3>5. /\ box'.row = box.row /\ box'.made = box.made
          /\ box'.parent = [box.parent EXCEPT ![m] = a]
      BY <3>1, <3>3, <3>4, <1>4, LinkEffect
    <3>6. Made(box)' = Made(box) /\ \A x : Real(box, x)' <=> Real(box, x)
      BY <3>5 DEF Made, Real
    <3>7. \A x \in Mids : box'.parent[x] = IF x = m THEN a ELSE box.parent[x]
      BY <3>5, <1>4
    <3>8. MadeWhole(box)'
      BY <3>3, <3>6, <3>7, <1>3 DEF MadeWhole
    <3>9. Made(box) \subseteq Mids
      BY <1>4, RangeWithin DEF Made
    <3>10. Roots(box)' = Roots(box) \ {m}
      BY <3>3, <3>6, <3>7, <3>9, <1>4 DEF Roots
    <3>11. Range(merged)' = Range(merged) /\ (Distinct(merged)' <=> Distinct(merged))
      BY <3>1 DEF Range, Distinct
    <3>12. RootsSplit'
      BY <3>10, <3>11, <1>1, <1>5 DEF RootsSplit
    <3> QED
      BY <3>5, <3>6, <3>8, <3>12
  <2> QED
    BY <2>1, <2>2
<1>9. HoldsLast'
  BY <1>1, <1>3, <1>7, <1>8 DEF HoldsLast, Real
<1>10. Progress'
  BY <1>1, <1>3, <1>7, <1>8, <1>9 DEF Progress
<1>11. Indexed'
  BY <1>1 DEF Indexed
<1> QED
  BY <1>1, <1>2, <1>10, <1>11 DEF Settled

\* When the roots have been looked at the containers hold the last row of
\* every Message-ID, and putting children in order leaves that as it is.
LEMMA ReadyToNumber ==
    ASSUME ThreadInv, ThreaderAssumption, phase = "subject", roots = {},
           NEW b, b = SortChildren(box)
    PROVE  /\ LastHeld(box) /\ LastHeld(b) /\ Sound(b) /\ MadeWhole(b) /\ Listed(b, merged)
           /\ b.row = box.row /\ b.parent = box.parent /\ b.made = box.made
<1> USE DEF ThreadInv
<1>1. /\ MadeWhole(box) /\ HoldsLast /\ RootsSplit
  BY DEF Progress
<1>2. /\ Sound(box) /\ merged \in Seq(Mids) /\ rows = {}
      /\ emails \in [Ids -> Mail \cup {None}] /\ box.row \in [Mids -> Ids \cup {0}]
  BY DEF ForestInv, Scanning, Sound, Boxes
<1>3. Done = Rows /\ Rows \subseteq Ids /\ Ids \subseteq Nat
  BY <1>2 DEF Done, Rows, Ids
<1>4. LastHeld(box)
  <2>1. ASSUME NEW m \in Mids, Real(box, m)
        PROVE  Placed(box.row[m]) /\ emails[box.row[m]].mid = m
    <3>1. box.row[m] \in Rows /\ emails[box.row[m]].mid = m
      BY <2>1, <1>1, <1>3 DEF HoldsLast
    <3>2. ASSUME NEW later \in Rows, emails[later].mid = emails[box.row[m]].mid
          PROVE  later <= box.row[m]
      BY <3>1, <3>2, <1>1, <1>3 DEF HoldsLast
    <3> QED
      BY <3>1, <3>2 DEF Placed
  <2>2. ASSUME NEW id \in Ids, Placed(id) PROVE box.row[emails[id].mid] = id
    <3> DEFINE o == box.row[emails[id].mid]
    <3>1. id \in Rows /\ emails[id].mid \in Mids
      BY <2>2, RowIsMail DEF Placed, ForestInv
    <3>2. Real(box, emails[id].mid) /\ id <= o
      BY <3>1, <1>1, <1>3 DEF HoldsLast
    <3>3. o \in Rows /\ emails[o].mid = emails[id].mid
      BY <3>1, <3>2, <1>1, <1>3 DEF HoldsLast
    <3> HIDE DEF o
    <3>4. o <= id
      BY <2>2, <3>3 DEF Placed
    <3>5. o \in Nat /\ id \in Nat
      BY <3>1, <3>3, <1>3
    <3> QED
      BY <3>2, <3>4, <3>5 DEF o
  <2> QED
    BY <2>1, <2>2 DEF LastHeld
<1>5. ASSUME NEW m \in Mids PROVE DateOf(box, m) \in Nat
  <2>1. CASE Real(box, m)
    <3>1. box.row[m] \in Rows
      BY <2>1, <1>1, <1>3 DEF HoldsLast
    <3>2. emails[box.row[m]] \in RowType
      BY <3>1, <1>2 DEF Rows, ThreaderAssumption
    <3>3. emails[box.row[m]].date \in Nat
      BY <3>2 DEF RowType
    <3> QED
      BY <2>1, <3>3 DEF DateOf
  <2>2. CASE ~Real(box, m)
    BY <2>2 DEF DateOf
  <2> QED
    BY <2>1, <2>2
<1>6. /\ Sound(b) /\ b.row = box.row /\ b.parent = box.parent /\ b.made = box.made
  BY <1>2, <1>5, SortSound
<1>7. LastHeld(b) /\ MadeWhole(b)
  BY <1>1, <1>4, <1>6 DEF LastHeld, MadeWhole, Real, Made
<1>8. Listed(b, merged)
  <2>1. Roots(b) = Range(merged) /\ Distinct(merged)
    BY <1>1, <1>6 DEF RootsSplit, Roots, Made
  <2> QED
    BY <2>1, <1>2 DEF Listed
<1> QED
  BY <1>4, <1>6, <1>7, <1>8

\* The trees are numbered, and every row has been in one.
LEMMA NumberKeeps ==
    ASSUME ThreadInv, ThreaderAssumption, Number
    PROVE  ThreadInv'
<1> USE DEF ThreadInv
<1>1. /\ phase = "subject" /\ roots = {} /\ phase' = "idle"
      /\ stored' = Numbered(SortChildren(box), merged) /\ dirty' = FALSE /\ change' = FALSE
      /\ box' = NoContainers /\ merged' = <<>>
      /\ UNCHANGED <<emails, removals, rows, chain, prev, roots>>
  BY DEF Number
<1>2. ForestInv'
  BY RootStep
<1>3. /\ MadeWhole(box) /\ HoldsLast /\ RootsSplit /\ prev = None
  BY <1>1 DEF Progress
<1>4. /\ Sound(box) /\ merged \in Seq(Mids) /\ rows = {}
      /\ emails \in [Ids -> Mail \cup {None}] /\ box.row \in [Mids -> Ids \cup {0}]
  BY <1>1 DEF ForestInv, Scanning, Sound, Boxes
<1> DEFINE b == SortChildren(box)
<1>5. Sound(b) /\ LastHeld(b) /\ MadeWhole(b) /\ Listed(b, merged)
  BY <1>1, ReadyToNumber
<1>6. /\ stored' \in [Ids -> [thread : Ids, position : Nat] \cup {None}]
       /\ NumberedOnce(stored')
  <2>1. stored \in [Ids -> [thread : Ids, position : Nat] \cup {None}]
    BY DEF Indexed
  <2>2. stored' = Numbered(b, merged)
    BY <1>1
  <2> HIDE DEF b
  <2> QED
    BY <2>1, <2>2, <1>4, <1>5, NumberedWell
<1>7. NumberedOnce(stored)'
  BY <1>1, <1>6 DEF NumberedOnce, Placed, Rows
<1>8. Indexed'
  BY <1>1, <1>6 DEF Indexed
<1>9. Progress'
  <2>1. MadeWhole(box)'
    BY <1>1, NothingMade DEF MadeWhole, Made, Real
  <2> QED
    BY <1>1, <1>3, <2>1 DEF Progress
<1> QED
  BY <1>2, <1>7, <1>8, <1>9

\* What a build that ends early had linked is gone; what is stored stays.
LEMMA EndKeeps ==
    ASSUME ThreadInv, ThreaderAssumption, EndEarly
    PROVE  ThreadInv'
<1> USE DEF ThreadInv
<1>1. /\ change /\ change' = FALSE /\ phase' = "idle" /\ prev' = None
      /\ box' = NoContainers /\ merged' = <<>>
      /\ UNCHANGED <<emails, stored, dirty, removals>>
  BY DEF EndEarly
<1>2. ForestInv'
  BY RootStep
<1>3. dirty' /\ Indexed'
  BY <1>1 DEF Indexed
<1>4. Progress'
  <2>1. MadeWhole(box)'
    BY <1>1, NothingMade DEF MadeWhole, Made, Real
  <2> QED
    BY <1>1, <2>1 DEF Progress
<1> QED
  BY <1>2, <1>3, <1>4 DEF Settled

\* Without a step nothing changes.
LEMMA ThreadStutter ==
    ASSUME ThreadInv, UNCHANGED vars
    PROVE  ThreadInv'
<1> USE DEF ThreadInv
<1>1. UNCHANGED <<emails, stored, dirty, change, removals, phase, rows, chain, prev, box, roots, merged>>
  BY DEF vars
<1>2. ForestInv'
  BY ForestStutter
<1>3. Progress'
  BY <1>1 DEF Progress, InOrder, HoldsLast, Done, Rows, Reading, RootsSplit, Roots, Made, Real,
              MadeWhole, Distinct, Range
<1>4. Indexed' /\ (Settled' => NumberedOnce(stored)')
  BY <1>1 DEF Indexed, Settled, NumberedOnce, Placed, Rows
<1> QED
  BY <1>2, <1>3, <1>4

\* Every step keeps the invariant.
LEMMA ThreadStep == ThreaderAssumption /\ ThreadInv /\ [Next]_vars => ThreadInv'
<1> SUFFICES ASSUME ThreaderAssumption, ThreadInv, [Next]_vars PROVE ThreadInv'
  OBVIOUS
<1>1. CASE (\E r \in Mail : Index(r)) \/ (\E id \in Ids : Delete(id)) \/ Start
  BY <1>1, IndexKeeps
<1>2. CASE \E id \in Ids : TakeRow(id) \/ Attach(id)
  BY <1>2, TakeKeeps, AttachKeeps
<1>3. CASE FollowRef
  BY <1>3, FollowKeeps
<1>4. CASE GatherRoots
  BY <1>4, GatherKeeps
<1>5. CASE \E m \in Mids : MergeRoot(m)
  BY <1>5, MergeKeeps
<1>6. CASE Number
  BY <1>6, NumberKeeps
<1>7. CASE EndEarly
  BY <1>7, EndKeeps
<1>8. CASE UNCHANGED vars
  BY <1>8, ThreadStutter
<1> QED
  BY <1>1, <1>2, <1>3, <1>4, <1>5, <1>6, <1>7, <1>8 DEF Next, Threading

\* The index and the containers keep their shapes: every number that is
\* written is a place in a thread that is named for a row (index_threads).
THEOREM ThreaderTypes == Spec => []TypeOK
<1>1. Init => ThreadInv
  BY ThreadInit, ThreaderAssumption
<1>2. ThreadInv /\ [Next]_vars => ThreadInv'
  BY ThreadStep, ThreaderAssumption
<1>3. ThreadInv => TypeOK
  <2> SUFFICES ASSUME ThreadInv PROVE TypeOK
    OBVIOUS
  <2>1. /\ box.made \in Seq(Mids) /\ box.row \in [Mids -> Ids \cup {0}]
        /\ box.parent \in [Mids -> Mids \cup {None}] /\ box.children \in [Mids -> Seq(Mids)]
    BY DEF ThreadInv, ForestInv, Sound, Boxes
  <2>2. rows \subseteq Ids /\ roots \subseteq Mids
    BY DEF ThreadInv, ForestInv, Scanning, RootsHeld, Rows
  <2> QED
    BY <2>1, <2>2 DEF ThreadInv, ForestInv, Scanning, Indexed, TypeOK
<1> QED
  BY <1>1, <1>2, <1>3, PTL DEF Spec

\* After a threading of any number of rows, whatever their headers say, the
\* last row of every Message-ID has one place, in a thread named for one of
\* its rows, whose positions count from 0 without a gap (index_threads).
THEOREM EachNumberedOnce == Spec => []EachMessageNumberedOnce
<1>1. Init => ThreadInv
  BY ThreadInit, ThreaderAssumption
<1>2. ThreadInv /\ [Next]_vars => ThreadInv'
  BY ThreadStep, ThreaderAssumption
<1>3. ThreadInv => EachMessageNumberedOnce
  BY DEF ThreadInv, NumberedOnce, EachMessageNumberedOnce
<1> QED
  BY <1>1, <1>2, <1>3, PTL DEF Spec

-----------------------------------------------------------------------------
(***************************************************************************)
(* Conversations                                                           *)
(***************************************************************************)
\* Top, of any containers.
TopOn(b) ==
    LET T[n \in 0..Cardinality(Mids)] == [m \in Mids |->
            IF n = 0 \/ b.parent[m] = None THEN m ELSE T[n - 1][b.parent[m]]]
    IN  T[Cardinality(Mids)]

\* The walk up from a container ends at its root.
LEMMA TopIsRoot ==
    ASSUME ThreaderAssumption, NEW b, Sound(b), NEW x \in Mids
    PROVE  /\ TopOn(b)[x] \in Mids
           /\ b.parent[TopOn(b)[x]] = None
           /\ Under(b, x, TopOn(b)[x])
<1> DEFINE N == Cardinality(Mids)
           V == [Mids -> Mids]
           first == [m \in Mids |-> m]
           Level(t) == [m \in Mids |-> IF b.parent[m] = None THEN m ELSE t[b.parent[m]]]
           next == [t \in V |-> Level(t)]
           step == [n \in 1..N |-> next]
           RightFor(T) == T = [n \in 0..N |-> [m \in Mids |->
                IF n = 0 \/ b.parent[m] = None THEN m ELSE T[n - 1][b.parent[m]]]]
<1>1. /\ b.parent \in [Mids -> Mids \cup {None}] /\ Ranked(b) /\ None \notin Mids
      /\ IsFiniteSet(Mids)
  BY DEF Sound, Boxes, ThreaderAssumption
<1>2. N \in Nat
  BY <1>1, FS_CardinalityType
<1>3. first \in V
  OBVIOUS
<1>4. next \in [V -> V]
  <2>1. ASSUME NEW t \in V PROVE Level(t) \in V
    BY <1>1
  <2> HIDE DEF Level, V
  <2> QED
    BY <2>1
<1>5. step \in [1..N -> [V -> V]]
  <2> HIDE DEF next, V
  <2> QED
    BY <1>4
<1>6. PICK f : f \in [0..N -> V] /\ f[0] = first /\ \A n \in 1..N : f[n] = step[n][f[n - 1]]
  <2> HIDE DEF step, first, V, N
  <2>1. \E f : Iterates(f, N, V, first, step)
    BY <1>2, <1>3, <1>5, Iterated
  <2> QED
    BY <2>1 DEF Iterates
<1>7. \A n \in 1..N : f[n] = Level(f[n - 1])
  <2>1. ASSUME NEW n \in 1..N PROVE f[n] = Level(f[n - 1])
    <3>1. n - 1 \in 0..N
      BY <1>2
    <3> HIDE DEF V, N, Level
    <3> QED
      BY <1>6, <3>1
  <2> QED
    BY <2>1
<1>8. RightFor(f)
  <2> DEFINE R(n) == [m \in Mids |->
                IF n = 0 \/ b.parent[m] = None THEN m ELSE f[n - 1][b.parent[m]]]
  <2>1. ASSUME NEW n \in 0..N PROVE f[n] = R(n)
    <3>1. CASE n = 0
      BY <3>1, <1>6
    <3>2. CASE n # 0
      <4>1. n \in 1..N
        BY <3>2, <1>2
      <4>2. R(n) = Level(f[n - 1])
        BY <3>2
      <4> HIDE DEF R, Level, N
      <4> QED
        BY <4>1, <4>2, <1>7
    <3> QED
      BY <3>1, <3>2
  <2> HIDE DEF R
  <2>2. f = [n \in 0..N |-> R(n)]
    <3> HIDE DEF V, N
    <3> QED
      BY <2>1, <1>6
  <2> QED
    BY <2>2 DEF R
<1> DEFINE T == CHOOSE g : RightFor(g)
<1>9. RightFor(T)
  <2> HIDE DEF RightFor
  <2> QED
    BY <1>8
<1>10. TopOn(b) = T[N]
  BY DEF TopOn
<1> HIDE DEF T
<1>11. \A n \in 0..N : \A m \in Mids :
           T[n][m] = IF n = 0 \/ b.parent[m] = None THEN m ELSE T[n - 1][b.parent[m]]
  <2> DEFINE R(n) == [m \in Mids |->
                IF n = 0 \/ b.parent[m] = None THEN m ELSE T[n - 1][b.parent[m]]]
  <2>1. T = [n \in 0..N |-> R(n)]
    BY <1>9
  <2>2. ASSUME NEW n \in 0..N PROVE T[n] = R(n)
    <3> HIDE DEF R, N, RightFor
    <3> QED
      BY <2>1
  <2>3. ASSUME NEW n \in 0..N, NEW m \in Mids
        PROVE  T[n][m] = IF n = 0 \/ b.parent[m] = None THEN m ELSE T[n - 1][b.parent[m]]
    <3>1. T[n] = R(n)
      BY <2>2
    <3> HIDE DEF N, RightFor
    <3> QED
      BY <3>1 DEF R
  <2> QED
    BY <2>3
<1>12. PICK depth \in [Mids -> 0..(N - 1)] : RankedBy(depth, b)
  BY <1>1, Shallow
<1> HIDE DEF N, RightFor
<1> DEFINE IsTop(m, r) == r \in Mids /\ b.parent[r] = None /\ Under(b, m, r)
           Reach(n) == \A m \in Mids : depth[m] <= n => IsTop(m, T[n][m])
           P == {n \in 0..N : Reach(n)}
<1>13. \A m \in Mids : Under(b, m, m)
  BY <1>1, Lineage
<1>14. \A c \in Mids : b.parent[c] # None =>
          /\ b.parent[c] \in Mids /\ depth[b.parent[c]] < depth[c]
          /\ depth[b.parent[c]] \in Nat /\ depth[c] \in Nat
  BY <1>1, <1>12 DEF RankedBy
<1>15. 0 \in P
  <2>1. ASSUME NEW m \in Mids, depth[m] <= 0 PROVE IsTop(m, T[0][m])
    <3>1. b.parent[m] = None
      BY <2>1, <1>14
    <3>2. T[0][m] = m
      BY <1>2, <1>11
    <3> QED
      BY <3>1, <3>2, <1>13
  <2> QED
    BY <2>1, <1>2
<1>16. ASSUME NEW n \in 0..N, n \in P, n # N PROVE n + 1 \in P
  <2> DEFINE k == n + 1
  <2>1. k \in 0..N /\ k # 0 /\ k - 1 = n
    BY <1>2, <1>16
  <2>2. ASSUME NEW m \in Mids, depth[m] <= k PROVE IsTop(m, T[k][m])
    <3>1. CASE b.parent[m] = None
      <4> HIDE DEF k
      <4>1. T[k][m] = m
        BY <3>1, <2>1, <1>11
      <4> QED
        BY <3>1, <4>1, <1>13
    <3>2. CASE b.parent[m] # None
      <4>1. b.parent[m] \in Mids /\ depth[b.parent[m]] <= n
        BY <3>2, <2>2, <1>14
      <4>2. IsTop(b.parent[m], T[n][b.parent[m]])
        BY <4>1, <1>16
      <4> HIDE DEF k
      <4>3. T[k][m] = T[n][b.parent[m]]
        BY <3>2, <2>1, <1>11
      <4>4. Under(b, m, b.parent[m])
        BY <3>2, <1>1, <1>13, Lineage
      <4>5. \A y, z \in Mids : Under(b, m, y) /\ Under(b, y, z) => Under(b, m, z)
        BY <1>1, Lineage
      <4> QED
        BY <4>1, <4>2, <4>3, <4>4, <4>5
    <3> QED
      BY <3>1, <3>2
  <2> QED
    BY <2>1, <2>2
<1>17. N \in P
  <2> HIDE DEF P
  <2> QED
    BY <1>2, <1>15, <1>16, Climbed
<1>18. depth[x] <= N
  BY <1>2, <1>12
<1>19. IsTop(x, T[N][x])
  BY <1>17, <1>18
<1> QED
  BY <1>10, <1>19

\* The messages gathered below one root.
Tribe(b, r) == {m \in Made(b) : Under(b, m, r)}

Tribes(b) == {Tribe(b, r) : r \in Roots(b)}

ConvOn(b) == {{m \in Made(b) : TopOn(b)[m] = t} : t \in {TopOn(b)[m] : m \in Made(b)}}

\* What a container that has been made hangs below has been made.
LEMMA RootsMade ==
    ASSUME ThreaderAssumption, NEW b, Sound(b), MadeWhole(b), NEW x \in Made(b), NEW r \in Mids,
           Under(b, x, r)
    PROVE  r \in Made(b) /\ x \in Mids
<1>1. /\ b.parent \in [Mids -> Mids \cup {None}] /\ b.made \in Seq(Mids) /\ None \notin Mids
  BY DEF Sound, Boxes, ThreaderAssumption
<1>2. Made(b) \subseteq Mids
  BY <1>1, RangeWithin DEF Made
<1>3. CASE x = r
  BY <1>3, <1>2
<1>4. CASE x # r
  <2>1. PICK c \in Mids : b.parent[c] = r
    BY <1>1, <1>2, <1>4, Lineage
  <2> QED
    BY <2>1, <1>1, <1>2 DEF MadeWhole
<1> QED
  BY <1>3, <1>4

\* The conversations of the mapping are the tribes.
LEMMA ConvIsTribes ==
    ASSUME ThreaderAssumption, NEW b, Sound(b), MadeWhole(b)
    PROVE  ConvOn(b) = Tribes(b)
<1>1. /\ b.parent \in [Mids -> Mids \cup {None}] /\ b.made \in Seq(Mids) /\ None \notin Mids
  BY DEF Sound, Boxes, ThreaderAssumption
<1>2. Made(b) \subseteq Mids
  BY <1>1, RangeWithin DEF Made
<1> DEFINE top == TopOn(b)
<1>3. \A m \in Made(b) : /\ top[m] \in Mids /\ b.parent[top[m]] = None /\ Under(b, m, top[m])
                         /\ top[m] \in Roots(b)
  <2>1. \A m \in Made(b) : top[m] \in Mids /\ b.parent[top[m]] = None /\ Under(b, m, top[m])
    BY <1>2, TopIsRoot
  <2>2. \A m \in Made(b) : top[m] \in Made(b)
    BY <2>1, RootsMade
  <2> QED
    BY <2>1, <2>2 DEF Roots
<1> HIDE DEF top
<1>4. \A r \in Roots(b) : r \in Mids /\ b.parent[r] = None /\ r \in Made(b)
  BY <1>2 DEF Roots
<1>5. \A m \in Made(b), r \in Roots(b) : Under(b, m, r) => top[m] = r
  BY <1>2, <1>3, <1>4, Rooted
<1>6. \A r \in Roots(b) : {m \in Made(b) : top[m] = r} = Tribe(b, r)
  BY <1>3, <1>5 DEF Tribe
<1>7. {top[m] : m \in Made(b)} = Roots(b)
  <2>1. \A r \in Roots(b) : Under(b, r, r)
    BY <1>1, <1>4, Lineage
  <2>2. \A r \in Roots(b) : top[r] = r
    BY <2>1, <1>4, <1>5
  <2> QED
    BY <2>2, <1>3, <1>4
<1>8. ConvOn(b) = {{m \in Made(b) : top[m] = t} : t \in Roots(b)}
  BY <1>7 DEF ConvOn, top
<1> DEFINE band(t) == {m \in Made(b) : top[m] = t}
           tribe(t) == Tribe(b, t)
<1>9. \A r \in Roots(b) : band(r) = tribe(r)
  BY <1>6
<1>10. ConvOn(b) = {band(t) : t \in Roots(b)} /\ Tribes(b) = {tribe(t) : t \in Roots(b)}
  BY <1>8 DEF Tribes
<1> HIDE DEF band, tribe
<1> QED
  BY <1>9, <1>10

-----------------------------------------------------------------------------
(*****************************************************************************)
(* Tribes and links                                                        *)
(*****************************************************************************)
\* Containers with the same parents hang below the same ones.
LEMMA SameUnder ==
    ASSUME NEW b, NEW d, d.parent = b.parent
    PROVE  \A x, y : Under(d, x, y) <=> Under(b, x, y)
BY DEF Under, CreatesCycle, Upward

\* A link puts what is at and below the child under all that is at and above
\* the parent, and nothing else.
LEMMA LinkUnder ==
    ASSUME NEW b, b.parent \in [Mids -> Mids \cup {None}], None \notin Mids,
           NEW p \in Mids, NEW c \in Mids, b.parent[c] = None,
           NEW d, d.parent = [b.parent EXCEPT ![c] = p]
    PROVE  \A x, y \in Mids : Under(d, x, y) <=> \/ Under(b, x, y)
                                                 \/ Under(b, x, c) /\ Under(b, p, y)
<1>1. /\ d.parent \in [Mids -> Mids \cup {None}] /\ d.parent[c] = p
      /\ \A m \in Mids : m # c => d.parent[m] = b.parent[m]
  OBVIOUS
<1>2. Upward(d) \subseteq Upward(b)
  BY <1>1 DEF Upward
<1>3. \A x, y \in Mids : Under(b, x, y) => Under(d, x, y)
  BY <1>2 DEF Under, CreatesCycle
<1>4. /\ \A m \in Mids : Under(d, m, m)
      /\ \A x, m \in Mids : Under(d, x, m) /\ d.parent[m] # None => Under(d, x, d.parent[m])
      /\ \A x, y, z \in Mids : Under(d, x, y) /\ Under(d, y, z) => Under(d, x, z)
  BY <1>1, Lineage
<1>5. Under(d, c, p)
  <2>1. Under(d, c, c)
    BY <1>4
  <2> QED
    BY <2>1, <1>1, <1>4
<1>6. ASSUME NEW x \in Mids, NEW y \in Mids, Under(b, x, c), Under(b, p, y)
      PROVE  Under(d, x, y)
  <2>1. Under(d, x, c) /\ Under(d, p, y)
    BY <1>3, <1>6
  <2> QED
    BY <2>1, <1>4, <1>5
<1>7. /\ \A m \in Mids : Under(b, m, m)
      /\ \A x, m \in Mids : Under(b, x, m) /\ b.parent[m] # None => Under(b, x, b.parent[m])
  BY Lineage
<1>8. ASSUME NEW x \in Mids, NEW y \in Mids, Under(d, x, y)
      PROVE  Under(b, x, y) \/ (Under(b, x, c) /\ Under(b, p, y))
  <2> DEFINE S == {z \in Mids : Under(b, x, z) \/ (Under(b, x, c) /\ Under(b, p, z))}
  <2>1. ASSUME NEW z \in S, d.parent[z] # None PROVE d.parent[z] \in S
    <3>1. CASE z = c
      BY <3>1, <1>1, <1>7
    <3>2. CASE z # c
      <4>1. d.parent[z] = b.parent[z] /\ b.parent[z] \in Mids
        BY <3>2, <2>1, <1>1
      <4>2. CASE Under(b, x, z)
        BY <4>1, <4>2, <2>1, <1>7
      <4>3. CASE Under(b, x, c) /\ Under(b, p, z)
        BY <4>1, <4>3, <2>1, <1>7
      <4> QED
        BY <4>2, <4>3
    <3> QED
      BY <3>1, <3>2
  <2>2. S \in Upward(d) /\ x \in S
    BY <2>1, <1>7 DEF Upward
  <2> HIDE DEF S
  <2>3. y \in S
    BY <2>2, <1>8 DEF Under, CreatesCycle
  <2> QED
    BY <2>3 DEF S
<1> QED
  BY <1>3, <1>6, <1>8

\* Every container that has been made is in the tribe of one root.
LEMMA TribesShare ==
    ASSUME ThreaderAssumption, NEW b, Sound(b), MadeWhole(b)
    PROVE  /\ Roots(b) \subseteq Made(b) /\ Made(b) \subseteq Mids
           /\ \A r \in Roots(b) : b.parent[r] = None /\ r \in Tribe(b, r)
           /\ \A x \in Made(b) : \E r \in Roots(b) : x \in Tribe(b, r)
           /\ \A r, q \in Roots(b) : \A x : x \in Tribe(b, r) /\ x \in Tribe(b, q) => r = q
           /\ \A m \in Mids : m \notin Made(b) => b.parent[m] = None
           /\ UNION Tribes(b) = Made(b)
<1>1. /\ b.parent \in [Mids -> Mids \cup {None}] /\ b.made \in Seq(Mids) /\ None \notin Mids
  BY DEF Sound, Boxes, ThreaderAssumption
<1>2. Made(b) \subseteq Mids /\ Roots(b) \subseteq Made(b)
  BY <1>1, RangeWithin DEF Made, Roots
<1>3. \A r \in Roots(b) : b.parent[r] = None /\ r \in Made(b) /\ r \in Mids
  BY <1>2 DEF Roots
<1>4. \A r \in Roots(b) : r \in Tribe(b, r)
  <2>1. \A m \in Mids : Under(b, m, m)
    BY <1>1, Lineage
  <2> QED
    BY <2>1, <1>3 DEF Tribe
<1>5. ASSUME NEW x \in Made(b) PROVE \E r \in Roots(b) : x \in Tribe(b, r)
  <2>1. PICK r \in Mids : b.parent[r] = None /\ Under(b, x, r)
    BY <1>2, Rooted
  <2>2. r \in Made(b)
    BY <2>1, RootsMade
  <2> QED
    BY <2>1, <2>2 DEF Roots, Tribe
<1>6. ASSUME NEW r \in Roots(b), NEW q \in Roots(b), NEW x, x \in Tribe(b, r), x \in Tribe(b, q)
      PROVE  r = q
  <2>1. x \in Mids /\ Under(b, x, r) /\ Under(b, x, q)
    BY <1>2, <1>6 DEF Tribe
  <2> QED
    BY <2>1, <1>3, Rooted
<1>7. \A m \in Mids : m \notin Made(b) => b.parent[m] = None
  BY DEF MadeWhole
<1>8. UNION Tribes(b) = Made(b)
  <2>1. \A r : Tribe(b, r) \subseteq Made(b)
    BY DEF Tribe
  <2> QED
    BY <2>1, <1>5 DEF Tribes
<1> QED
  BY <1>2, <1>3, <1>4, <1>5, <1>6, <1>7, <1>8

\* A container that is made is a tribe of its own.
LEMMA GetTribes ==
    ASSUME ThreaderAssumption, NEW b, Sound(b), MadeWhole(b), NEW m \in Mids, m \notin Made(b),
           NEW d, d.parent = b.parent, Made(d) = Made(b) \cup {m}
    PROVE  /\ Tribes(d) = Tribes(b) \cup {{m}}
           /\ {m} \notin Tribes(b)
<1>1. /\ Roots(b) \subseteq Made(b) /\ Made(b) \subseteq Mids
      /\ \A r \in Roots(b) : b.parent[r] = None /\ r \in Tribe(b, r)
      /\ b.parent[m] = None
      /\ UNION Tribes(b) = Made(b)
  BY TribesShare
<1>2. \A x, y : Under(d, x, y) <=> Under(b, x, y)
  BY SameUnder
<1>3. Roots(d) = Roots(b) \cup {m}
  BY <1>1 DEF Roots
<1>4. /\ b.parent \in [Mids -> Mids \cup {None}] /\ None \notin Mids
  BY DEF Sound, Boxes, ThreaderAssumption
<1>5. /\ Under(b, m, m)
      /\ \A y \in Mids : Under(b, m, y) /\ m # y => b.parent[m] # None
  BY <1>4, Lineage
<1>6. ASSUME NEW r \in Roots(b) PROVE Tribe(d, r) = Tribe(b, r)
  <2>1. ~Under(b, m, r)
    BY <1>1, <1>5
  <2> QED
    BY <2>1, <1>2 DEF Tribe
<1>7. Tribe(d, m) = {m}
  <2>1. \A x \in Made(b) : ~Under(b, x, m)
    BY RootsMade
  <2> QED
    BY <2>1, <1>2, <1>5 DEF Tribe
<1>8. Tribes(d) = {Tribe(d, r) : r \in Roots(b)} \cup {{m}}
  BY <1>3, <1>7 DEF Tribes
<1>9. {Tribe(d, r) : r \in Roots(b)} = {Tribe(b, r) : r \in Roots(b)}
  BY <1>6
<1>10. {m} \notin Tribes(b)
  BY <1>1
<1> QED
  BY <1>8, <1>9, <1>10 DEF Tribes

\* c joins the tribe of p with all that is below it.
Joins(b, d, p, c) ==
    \E A, B \in Tribes(b) : /\ A # B /\ p \in A /\ c \in B
                            /\ Tribes(d) = (Tribes(b) \ {A, B}) \cup {A \cup B}

\* A link joins the tribe of the child to the tribe of the parent.
LEMMA LinkTribes ==
    ASSUME ThreaderAssumption, NEW b, Sound(b), MadeWhole(b),
           NEW p \in Made(b), NEW c \in Made(b), b.parent[c] = None, ~CreatesCycle(b, p, c),
           NEW d, d.parent = [b.parent EXCEPT ![c] = p], Made(d) = Made(b)
    PROVE  Joins(b, d, p, c)
<1>1. /\ Roots(b) \subseteq Made(b) /\ Made(b) \subseteq Mids
      /\ \A r \in Roots(b) : b.parent[r] = None /\ r \in Tribe(b, r)
      /\ \A x \in Made(b) : \E r \in Roots(b) : x \in Tribe(b, r)
      /\ \A r, q \in Roots(b) : \A x : x \in Tribe(b, r) /\ x \in Tribe(b, q) => r = q
  BY TribesShare
<1>2. /\ b.parent \in [Mids -> Mids \cup {None}] /\ None \notin Mids
      /\ p \in Mids /\ c \in Mids /\ ~Under(b, p, c)
  BY <1>1 DEF Sound, Boxes, ThreaderAssumption, Under
<1>3. \A x, y \in Mids : Under(d, x, y) <=> Under(b, x, y) \/ (Under(b, x, c) /\ Under(b, p, y))
  BY <1>2, LinkUnder
<1>4. c \in Roots(b)
  BY DEF Roots
<1>5. Roots(d) = Roots(b) \ {c}
  BY <1>1, <1>2 DEF Roots
<1>6. PICK r \in Roots(b) : p \in Tribe(b, r)
  BY <1>1
<1>7. r # c
  BY <1>2, <1>6 DEF Tribe
<1> DEFINE A == Tribe(b, r)
           B == Tribe(b, c)
<1>8. A \in Tribes(b) /\ B \in Tribes(b)
  BY <1>4 DEF Tribes
<1>9. A # B /\ p \in A /\ c \in B
  BY <1>1, <1>4, <1>6, <1>7
<1>10. ASSUME NEW q \in Roots(b), q # r, q # c PROVE Tribe(d, q) = Tribe(b, q)
  <2>1. ~Under(b, p, q)
    <3>1. p \notin Tribe(b, q)
      BY <1>1, <1>6, <1>10
    <3> QED
      BY <3>1 DEF Tribe
  <2>2. q \in Mids
    BY <1>1
  <2> QED
    BY <2>1, <2>2, <1>1, <1>3 DEF Tribe
<1>11. Tribe(d, r) = A \cup B
  <2>1. Under(b, p, r) /\ r \in Mids
    BY <1>1, <1>6 DEF Tribe
  <2> QED
    BY <2>1, <1>1, <1>3 DEF Tribe
<1>12. ASSUME NEW q \in Roots(b), q # r, q # c PROVE Tribe(b, q) # A /\ Tribe(b, q) # B
  BY <1>1, <1>4, <1>12
<1> HIDE DEF A, B
<1>13. Tribes(d) = (Tribes(b) \ {A, B}) \cup {A \cup B}
  <2>1. \A X : X \in Tribes(d) <=> \E q \in Roots(b) : q # c /\ X = Tribe(d, q)
    BY <1>5 DEF Tribes
  <2>2. \A X : X \in Tribes(b) <=> \E q \in Roots(b) : X = Tribe(b, q)
    BY DEF Tribes
  <2>3. A = Tribe(b, r) /\ B = Tribe(b, c)
    BY DEF A, B
  <2>4. ASSUME NEW X \in Tribes(d) PROVE X \in (Tribes(b) \ {A, B}) \cup {A \cup B}
    BY <2>1, <2>2, <2>4, <1>10, <1>11, <1>12
  <2>5. ASSUME NEW X \in (Tribes(b) \ {A, B}) \cup {A \cup B} PROVE X \in Tribes(d)
    <3>1. CASE X = A \cup B
      BY <3>1, <2>1, <1>7, <1>11
    <3>2. CASE X # A \cup B
      <4>1. PICK q \in Roots(b) : X = Tribe(b, q)
        BY <3>2, <2>2, <2>5
      <4>2. q # r /\ q # c
        BY <4>1, <3>2, <2>3, <2>5
      <4> QED
        BY <4>1, <4>2, <2>1, <1>10
    <3> QED
      BY <3>1, <3>2
  <2> QED
    BY <2>4, <2>5
<1> QED
  BY <1>8, <1>9, <1>13 DEF Joins

\* Containers with the same parents have the same tribes.
LEMMA SameTribes ==
    ASSUME NEW b, NEW d, d.parent = b.parent, Made(d) = Made(b)
    PROVE  Tribes(d) = Tribes(b)
<1>1. \A x, y : Under(d, x, y) <=> Under(b, x, y)
  BY SameUnder
<1>2. Roots(d) = Roots(b)
  BY DEF Roots
<1>3. \A r : Tribe(d, r) = Tribe(b, r)
  BY <1>1 DEF Tribe
<1> QED
  BY <1>2, <1>3 DEF Tribes

\* A link that is asked for joins two tribes or leaves them all as they are.
LEMMA LinkJoins ==
    ASSUME ThreaderAssumption, NEW b, Sound(b), MadeWhole(b),
           NEW p \in Made(b), NEW c \in Made(b), b.parent[c] = None
    PROVE  Tribes(Link(b, p, c)) = Tribes(b) \/ Joins(b, Link(b, p, c), p, c)
<1> DEFINE d == Link(b, p, c)
<1>1. b \in Boxes /\ b.made \in Seq(Mids)
  BY DEF Sound, Boxes
<1>2. p \in Mids /\ c \in Mids
  BY <1>1, RangeWithin DEF Made
<1>3. CASE c = p \/ CreatesCycle(b, p, c)
  BY <1>3 DEF Link
<1>4. CASE ~(c = p \/ CreatesCycle(b, p, c))
  <2>1. d.made = b.made /\ d.parent = [b.parent EXCEPT ![c] = p]
    BY <1>1, <1>2, <1>4, LinkEffect
  <2> HIDE DEF d
  <2>2. Made(d) = Made(b)
    BY <2>1 DEF Made
  <2>3. Joins(b, d, p, c)
    BY <1>4, <2>1, <2>2, LinkTribes
  <2> QED
    BY <2>3 DEF d
<1> QED
  BY <1>3, <1>4

\* A link that is only made for an orphan does no more.
LEMMA OrphanJoins ==
    ASSUME ThreaderAssumption, NEW b, Sound(b), MadeWhole(b),
           NEW p, p # None => p \in Made(b), NEW c \in Made(b)
    PROVE  \/ Tribes(LinkOrphan(b, p, c)) = Tribes(b)
           \/ p # None /\ Joins(b, LinkOrphan(b, p, c), p, c)
<1>1. CASE p # None /\ b.parent[c] = None
  <2>1. LinkOrphan(b, p, c) = Link(b, p, c)
    BY <1>1 DEF LinkOrphan
  <2>2. Tribes(Link(b, p, c)) = Tribes(b) \/ Joins(b, Link(b, p, c), p, c)
    BY <1>1, LinkJoins
  <2> QED
    BY <1>1, <2>1, <2>2
<1>2. CASE ~(p # None /\ b.parent[c] = None)
  <2>1. LinkOrphan(b, p, c) = b
    BY <1>2 DEF LinkOrphan
  <2> QED
    BY <2>1
<1> QED
  BY <1>1, <1>2

\* ref, new, joins the tribe of from.
Meets(b, d, from, ref) ==
    \E A \in Tribes(b) : from \in A /\ Tribes(d) = (Tribes(b) \ {A}) \cup {A \cup {ref}}

\* Following a reference meets a container, joins two tribes or does nothing.
LEMMA FollowTribes ==
    ASSUME ThreaderAssumption, NEW b, Sound(b), MadeWhole(b),
           NEW from, from # None => from \in Made(b), NEW ref \in Mids,
           NEW d, d = Follow(b, from, ref)
    PROVE  \/ Tribes(d) = Tribes(b)
           \/ from # None /\ Joins(b, d, from, ref)
           \/ ref \notin Made(b) /\ Tribes(d) = Tribes(b) \cup {{ref}}
           \/ ref \notin Made(b) /\ from # None /\ Meets(b, d, from, ref)
<1> DEFINE g == GetOrCreate(b, ref)
<1>1. d = LinkOrphan(g, from, ref)
  BY DEF Follow
<1>2. CASE ref \in Made(b)
  <2>1. g = b
    BY <1>2 DEF GetOrCreate
  <2> HIDE DEF g
  <2> QED
    BY <1>1, <1>2, <2>1, OrphanJoins
<1>3. CASE ref \notin Made(b)
  <2>1. /\ Sound(g) /\ g.row = b.row /\ g.parent = b.parent /\ Made(g) = Made(b) \cup {ref}
    BY GetSound, GetEffect DEF Sound
  <2> HIDE DEF g
  <2>2. MadeWhole(g)
    BY <2>1 DEF MadeWhole, Real
  <2>3. Tribes(g) = Tribes(b) \cup {{ref}} /\ {ref} \notin Tribes(b)
    BY <1>3, <2>1, GetTribes
  <2>4. Tribes(d) = Tribes(g) \/ (from # None /\ Joins(g, d, from, ref))
    BY <1>1, <2>1, <2>2, OrphanJoins
  <2>5. CASE Tribes(d) = Tribes(g)
    BY <1>3, <2>3, <2>5
  <2>6. CASE from # None /\ Joins(g, d, from, ref)
    <3>1. PICK A \in Tribes(g), B \in Tribes(g) :
             /\ A # B /\ from \in A /\ ref \in B
             /\ Tribes(d) = (Tribes(g) \ {A, B}) \cup {A \cup B}
      BY <2>6 DEF Joins
    <3>2. UNION Tribes(b) = Made(b)
      BY TribesShare
    <3>3. B = {ref}
      BY <1>3, <2>3, <3>1, <3>2
    <3>4. A \in Tribes(b)
      BY <2>3, <3>1, <3>3
    <3>5. Tribes(d) = (Tribes(b) \ {A}) \cup {A \cup {ref}}
      BY <2>3, <3>1, <3>3, <3>4
    <3> QED
      BY <1>3, <2>6, <3>1, <3>4, <3>5 DEF Meets
  <2> QED
    BY <2>4, <2>5, <2>6
<1> QED
  BY <1>2, <1>3

-----------------------------------------------------------------------------
\* The row being read speaks of what is on its chain and of what was reached
\* on it; rows that went took their numbers with them.
Speaking ==
    phase = "chain" =>
        \E id \in rows : /\ Reading(id)
                         /\ Range(chain) \subseteq C!Named(emails[id])
                         /\ prev # None => prev \in C!Named(emails[id])

Vacant == \A id \in Ids : emails[id] = None => stored[id] = None

Told == ThreadInv /\ Speaking /\ Vacant

\* A row speaks of its chain and of itself.
LEMMA RowNames ==
    ASSUME Scanning, ThreaderAssumption, NEW id \in Rows
    PROVE  /\ Range(Chain(emails[id])) \subseteq C!Named(emails[id])
           /\ emails[id].mid \in C!Named(emails[id])
<1>1. id \in Ids /\ emails[id] \in Mail
  BY DEF Rows, Scanning
<1>2. emails[id] \in RowType
  BY <1>1 DEF ThreaderAssumption
<1>3. emails[id].mid \in Mids /\ emails[id].reply \in Mids \cup {None}
      /\ emails[id].refs \in Seq(Mids) /\ None \notin Mids
  BY <1>2 DEF RowType, ThreaderAssumption
<1> DEFINE r == emails[id]
           refs == r.refs
<1>4. Range(refs) \subseteq C!Named(r)
  <2>1. \A k \in DOMAIN refs : refs[k] \in Mids
    BY <1>3
  <2> QED
    BY <2>1, <1>3 DEF C!Named, Range
<1>5. r.mid \in C!Named(r) /\ (r.reply # None => r.reply \in C!Named(r))
  BY <1>3 DEF C!Named
<1>6. CASE r.reply # None /\ r.reply \notin Range(refs)
  <2>1. Chain(r) = Append(refs, r.reply)
    BY <1>6 DEF Chain
  <2>2. Range(Append(refs, r.reply)) = Range(refs) \cup {r.reply}
    BY <1>3, <1>6, Appended
  <2> QED
    BY <1>4, <1>5, <1>6, <2>1, <2>2
<1>7. CASE ~(r.reply # None /\ r.reply \notin Range(refs))
  BY <1>4, <1>5, <1>7 DEF Chain
<1> QED
  BY <1>6, <1>7

\* A row whose column is the primary key takes an id that no row has.
LEMMA NextIsFree ==
    ASSUME ThreaderAssumption, Rows # {}
    PROVE  NextId \notin Rows
<1>1. Rows \subseteq 1..MaxRows /\ MaxRows \in Nat
  BY DEF Rows, Ids, ThreaderAssumption
<1> DEFINE gaps == {MaxRows - id : id \in Rows}
<1>2. gaps \subseteq Nat /\ gaps # {}
  <2>1. \A id \in Rows : MaxRows - id \in Nat
    BY <1>1
  <2> QED
    BY <2>1
<1>3. PICK least \in gaps : \A n \in gaps : least <= n
  <2> HIDE DEF gaps
  <2> QED
    BY <1>2, Lowest
<1>4. PICK id \in Rows : least = MaxRows - id
  BY <1>3
<1>5. \A other \in Rows : other <= id
  <2>1. ASSUME NEW other \in Rows PROVE other <= id
    <3>1. MaxRows - id <= MaxRows - other
      BY <1>3, <1>4
    <3>2. other \in Nat /\ id \in Nat
      BY <1>1, <1>4
    <3> QED
      BY <3>1, <3>2, <1>1
  <2> QED
    BY <2>1
<1> DEFINE last == CHOOSE i \in Rows : \A other \in Rows : other <= i
<1>6. last \in Rows /\ \A other \in Rows : other <= last
  BY <1>5
<1>7. NextId = 1 + last
  BY DEF NextId
<1> HIDE DEF last
<1>8. last \in Nat
  BY <1>1, <1>6
<1> QED
  BY <1>6, <1>7, <1>8

\* An empty index says nothing.
LEMMA ToldInit == ThreaderAssumption /\ Init => Told
<1> SUFFICES ASSUME ThreaderAssumption, Init PROVE Told
  OBVIOUS
<1>1. ThreadInv
  BY ThreadInit
<1> QED
  BY <1>1 DEF Told, Speaking, Vacant, Init

\* What is written: the rows that have a place get the thread of their root,
\* one thread for every root; the others keep what they had.
LEMMA NumberWrites ==
    ASSUME ThreadInv, ThreaderAssumption, Number
    PROVE  /\ LastHeld(box)
           /\ \A id \in Ids : ~Placed(id) => stored'[id] = stored[id]
           /\ \A m \in Mids : Real(box, m) =>
                 \E r \in Roots(box) : m \in Tribe(box, r)
           /\ \A m \in Mids : Real(box, m) => stored'[box.row[m]] # None
           /\ \A m, n \in Mids : Real(box, m) /\ Real(box, n) =>
                 (stored'[box.row[m]].thread = stored'[box.row[n]].thread
                    <=> \E r \in Roots(box) : m \in Tribe(box, r) /\ n \in Tribe(box, r))
<1> USE DEF ThreadInv
<1> DEFINE b == SortChildren(box)
           s == stored'
<1>1. /\ LastHeld(box) /\ LastHeld(b) /\ Sound(b) /\ MadeWhole(b) /\ Listed(b, merged)
      /\ b.row = box.row /\ b.parent = box.parent /\ b.made = box.made
  BY ReadyToNumber DEF Number
<1>2. s = Numbered(b, merged)
  BY DEF Number
<1>3. /\ emails \in [Ids -> Mail \cup {None}] /\ Sound(box) /\ MadeWhole(box)
  BY DEF ForestInv, Scanning, Progress
<1> HIDE DEF b
<1>4. s \in [Ids -> [thread : Ids, position : Nat] \cup {None}]
  <2>1. stored \in [Ids -> [thread : Ids, position : Nat] \cup {None}]
    BY DEF Indexed
  <2> HIDE DEF s
  <2> QED
    BY <2>1, <1>1, <1>2, <1>3, NumberedWell
<1> HIDE DEF s
<1> DEFINE t(k) == Tree(b, merged, k)
<1>5. /\ \A id \in Ids : ~Placed(id) => s[id] = stored[id]
      /\ \A k \in DOMAIN merged : \A i \in DOMAIN t(k) :
            s[b.row[t(k)[i]]] = [thread |-> b.row[t(k)[1]], position |-> i - 1]
  BY <1>1, <1>2, <1>3, NumberedPlaces
<1>6. /\ \A k \in DOMAIN merged :
            /\ t(k) \in Seq(Mids)
            /\ \A i \in DOMAIN t(k) : t(k)[i] \in Mids /\ Placed(b.row[t(k)[i]])
      /\ \A id \in Ids : Placed(id) =>
            \E k \in DOMAIN merged : \E i \in DOMAIN t(k) : b.row[t(k)[i]] = id
      /\ \A k, l \in DOMAIN merged : \A i \in DOMAIN t(k), j \in DOMAIN t(l) :
            b.row[t(k)[i]] = b.row[t(l)[j]] => k = l /\ i = j
  BY <1>1, <1>3, TreesShare
<1>7. \A k \in DOMAIN merged : merged[k] \in Roots(box) /\ merged[k] \in Mids
  <2>1. merged \in Seq(Mids) /\ Range(merged) = Roots(b) /\ Roots(b) = Roots(box)
    BY <1>1 DEF Listed, Roots, Made
  <2> QED
    BY <2>1 DEF Range
<1>8. \A k \in DOMAIN merged : Range(t(k)) = Held(b, merged[k])
  <2>1. \A k \in DOMAIN merged : Covers(b, Walk(b, merged[k]), merged[k])
    BY <1>1, <1>7, WalkCovers
  <2> QED
    BY <2>1 DEF Covers, Tree
<1> HIDE DEF t
<1>9. \A k, l \in DOMAIN merged : merged[k] = merged[l] => k = l
  BY <1>1 DEF Listed, Distinct
<1>10. ASSUME NEW m \in Mids, Real(box, m)
       PROVE  \E k \in DOMAIN merged : /\ m \in Tribe(box, merged[k])
                                       /\ \E i \in DOMAIN t(k) : t(k)[i] = m
                                       /\ s[box.row[m]].thread = b.row[t(k)[1]]
                                       /\ s[box.row[m]] # None
  <2>1. Placed(box.row[m]) /\ box.row[m] \in Ids /\ emails[box.row[m]].mid = m
    BY <1>1, <1>10 DEF LastHeld, Placed, Rows
  <2>2. PICK k \in DOMAIN merged : \E i \in DOMAIN t(k) : b.row[t(k)[i]] = box.row[m]
    BY <2>1, <1>6
  <2>3. PICK i \in DOMAIN t(k) : b.row[t(k)[i]] = box.row[m]
    BY <2>2
  <2>4. t(k)[i] \in Mids /\ Real(box, t(k)[i])
    BY <2>3, <1>1, <1>6, <1>10 DEF Real
  <2>5. t(k)[i] = m
    BY <2>1, <2>3, <2>4, <1>1 DEF LastHeld
  <2>6. m \in Held(b, merged[k])
    BY <2>3, <2>5, <1>8 DEF Range
  <2>7. \A x, y : Under(b, x, y) <=> Under(box, x, y)
    BY <1>1, SameUnder
  <2>8. m \in Tribe(box, merged[k])
    BY <2>6, <2>7, <1>3, <1>10 DEF Held, Tribe, MadeWhole
  <2>9. s[box.row[m]] = [thread |-> b.row[t(k)[1]], position |-> i - 1]
    BY <2>3, <1>5
  <2>10. s[box.row[m]] # None
    <3>1. b.row[t(k)[1]] \in Ids /\ i - 1 \in Nat
      <4>1. t(k) \in Seq(Mids)
        BY <1>6
      <4>2. 1 \in DOMAIN t(k) /\ i \in Nat \ {0}
        BY <4>1, <2>3
      <4>3. Placed(b.row[t(k)[1]])
        BY <4>2, <1>6
      <4> QED
        BY <4>2, <4>3 DEF Placed, Rows
    <3> QED
      BY <3>1, <2>9 DEF ThreaderAssumption
  <2> QED
    BY <2>3, <2>5, <2>8, <2>9, <2>10
<1>11. ASSUME NEW m \in Mids, NEW n \in Mids, Real(box, m), Real(box, n)
       PROVE  s[box.row[m]].thread = s[box.row[n]].thread
                 <=> \E r \in Roots(box) : m \in Tribe(box, r) /\ n \in Tribe(box, r)
  <2>1. PICK k \in DOMAIN merged : /\ m \in Tribe(box, merged[k])
                                   /\ \E i \in DOMAIN t(k) : t(k)[i] = m
                                   /\ s[box.row[m]].thread = b.row[t(k)[1]]
    BY <1>10, <1>11
  <2>2. PICK l \in DOMAIN merged : /\ n \in Tribe(box, merged[l])
                                   /\ \E i \in DOMAIN t(l) : t(l)[i] = n
                                   /\ s[box.row[n]].thread = b.row[t(l)[1]]
    BY <1>10, <1>11
  <2>3. 1 \in DOMAIN t(k) /\ 1 \in DOMAIN t(l)
    <3>1. t(k) \in Seq(Mids) /\ t(l) \in Seq(Mids)
      BY <1>6
    <3> QED
      BY <3>1, <2>1, <2>2
  <2>4. b.row[t(k)[1]] = b.row[t(l)[1]] <=> k = l
    BY <2>3, <1>6
  <2>5. \A r, q \in Roots(box) : \A x : x \in Tribe(box, r) /\ x \in Tribe(box, q) => r = q
    BY <1>3, TribesShare
  <2>6. k = l <=> \E r \in Roots(box) : m \in Tribe(box, r) /\ n \in Tribe(box, r)
    BY <2>1, <2>2, <2>5, <1>7, <1>9
  <2> QED
    BY <2>1, <2>2, <2>4, <2>6
<1>12. \A m \in Mids : Real(box, m) =>
          (\E r \in Roots(box) : m \in Tribe(box, r)) /\ s[box.row[m]] # None
  BY <1>7, <1>10
<1> QED
  BY <1>1, <1>5, <1>11, <1>12 DEF s

\* What is followed and what was reached stay named by the row being read.
LEMMA ToldKeeps ==
    ASSUME Told, ThreaderAssumption, [Next]_vars, ThreadInv'
    PROVE  Told'
<1> USE DEF Told
<1>1. /\ Scanning /\ \A id \in Rows : id \in Nat
      /\ stored \in [Ids -> [thread : Ids, position : Nat] \cup {None}]
      /\ emails \in [Ids -> Mail \cup {None}]
  BY DEF ThreadInv, ForestInv, Indexed, Rows, Ids, Scanning
<1>2. CASE \E r \in Mail : Index(r)
  <2>1. PICK r \in Mail : Index(r)
    BY <1>2
  <2>2. r # None
    <3>1. r \in RowType
      BY DEF ThreaderAssumption
    <3> QED
      BY <3>1 DEF ThreaderAssumption
  <2>3. emails' = [emails EXCEPT ![NextId] = r] /\ stored' = stored /\ phase' = "idle"
    BY <2>1 DEF Index
  <2> QED
    BY <2>2, <2>3, <1>1 DEF Speaking, Vacant
<1>3. CASE \E id \in Ids : Delete(id)
  <2>1. PICK id \in Ids : Delete(id)
    BY <1>3
  <2>2. /\ emails' = [emails EXCEPT ![id] = None] /\ stored' = [stored EXCEPT ![id] = None]
        /\ phase' = "idle"
    BY <2>1 DEF Delete
  <2> QED
    BY <2>2, <1>1 DEF Speaking, Vacant
<1>4. CASE Start \/ GatherRoots \/ EndEarly \/ \E m \in Mids : MergeRoot(m)
  <2>1. phase' # "chain" /\ emails' = emails /\ stored' = stored
    BY <1>4 DEF Start, GatherRoots, EndEarly, MergeRoot
  <2> QED
    BY <2>1 DEF Speaking, Vacant
<1>5. ASSUME NEW id \in Ids, TakeRow(id) PROVE Told'
  <2>1. /\ id \in rows /\ Reading(id) /\ chain' = Chain(emails[id]) /\ prev' = None
        /\ UNCHANGED <<emails, stored, rows>>
    BY <1>5 DEF TakeRow, Reading
  <2>2. Range(Chain(emails[id])) \subseteq C!Named(emails[id])
    BY <2>1, <1>1, RowNames DEF Scanning
  <2>3. Reading(id)'
    BY <2>1 DEF Reading
  <2>4. Range(chain') \subseteq C!Named(emails'[id])
    BY <2>1, <2>2 DEF C!Named
  <2>5. Speaking'
    BY <2>1, <2>3, <2>4 DEF Speaking, Range
  <2> QED
    BY <2>1, <2>5 DEF Vacant
<1>6. CASE FollowRef
  <2>1. /\ phase = "chain" /\ chain # <<>> /\ prev' = Head(chain) /\ chain' = Tail(chain)
        /\ UNCHANGED <<emails, stored, rows>>
    BY <1>6 DEF FollowRef
  <2>2. PICK id \in rows : Reading(id) /\ Range(chain) \subseteq C!Named(emails[id])
    BY <2>1 DEF Speaking
  <2>3. Head(chain) \in Range(chain) /\ Range(Tail(chain)) \subseteq Range(chain)
    <3>1. chain \in Seq(Mids)
      BY <1>1 DEF Scanning
    <3>2. Len(chain) \in Nat \ {0} /\ DOMAIN chain = 1..Len(chain) /\ Head(chain) = chain[1]
      BY <3>1, <2>1
    <3>3. /\ DOMAIN Tail(chain) = 1..(Len(chain) - 1)
          /\ \A i \in 1..(Len(chain) - 1) : Tail(chain)[i] = chain[i + 1]
      BY <3>1, <2>1
    <3>4. \A i \in DOMAIN Tail(chain) : i + 1 \in DOMAIN chain /\ Tail(chain)[i] = chain[i + 1]
      BY <3>2, <3>3
    <3> QED
      BY <3>2, <3>4 DEF Range
  <2>4. Reading(id)'
    BY <2>1, <2>2 DEF Reading
  <2>5. Range(chain)' \subseteq C!Named(emails[id])' /\ prev' \in C!Named(emails[id])'
    <3>1. Range(chain)' = Range(Tail(chain)) /\ C!Named(emails[id])' = C!Named(emails[id])
      BY <2>1 DEF C!Named, Range
    <3> QED
      BY <3>1, <2>1, <2>2, <2>3
  <2>6. Speaking'
    BY <2>1, <2>2, <2>4, <2>5 DEF Speaking
  <2> QED
    BY <2>1, <2>6 DEF Vacant
<1>7. ASSUME NEW id \in Ids, Attach(id) PROVE Told'
  <2>1. phase' # "chain" /\ emails' = emails /\ stored' = stored
    BY <1>7 DEF Attach
  <2> QED
    BY <2>1 DEF Speaking, Vacant
<1>8. CASE Number
  <2>1. /\ phase' # "chain" /\ emails' = emails
        /\ stored' = Numbered(SortChildren(box), merged)
    BY <1>8 DEF Number
  <2>2. \A id \in Ids : ~Placed(id) => stored'[id] = stored[id]
    BY <1>8, NumberWrites
  <2>3. \A id \in Ids : emails[id] = None => ~Placed(id)
    BY DEF Placed, Rows
  <2> QED
    BY <2>1, <2>2, <2>3 DEF Speaking, Vacant
<1>9. CASE UNCHANGED vars
  <2>1. UNCHANGED <<emails, stored, phase, rows, chain, prev>>
    BY <1>9 DEF vars
  <2>2. \A id : Reading(id)' <=> Reading(id)
    BY <2>1 DEF Reading
  <2>3. Range(chain)' = Range(chain) /\ \A id : C!Named(emails[id])' = C!Named(emails[id])
    BY <2>1 DEF Range, C!Named
  <2> QED
    BY <2>1, <2>2, <2>3 DEF Speaking, Vacant
<1> QED
  BY <1>2, <1>3, <1>4, <1>5, <1>6, <1>7, <1>8, <1>9 DEF Next, Threading

-----------------------------------------------------------------------------
(*****************************************************************************)
(* Steps of Conversations                                                  *)
(*****************************************************************************)
\* The conversations found so far are the tribes.
LEMMA ConvFound ==
    ASSUME ThreaderAssumption, ThreadInv, ThreadInv'
    PROVE  Conv = Tribes(box) /\ Conv' = Tribes(box')
<1>1. /\ Sound(box) /\ MadeWhole(box)
  BY DEF ThreadInv, ForestInv, Progress
<1>2. Sound(box') /\ MadeWhole(box')
  BY DEF ThreadInv, ForestInv, Progress, Sound, Boxes, Ranked, RankedBy, Mirrored, Once,
         MadeWhole, Real, Made
<1>3. Conv = ConvOn(box)
  BY DEF Conv, ConvOn, Top, TopOn
<1>4. Conv' = ConvOn(box')
  BY DEF Conv, ConvOn, Top, TopOn, Made
<1> QED
  BY <1>1, <1>2, <1>3, <1>4, ConvIsTribes

\* Between two threadings there is none.
LEMMA NoneFound == ThreaderAssumption => Tribes(NoContainers) = {}
<1>1. Made(NoContainers) = {}
  BY DEF Made, NoContainers, Range
<1> QED
  BY <1>1 DEF Tribes, Roots

\* Threads change with what is stored only.
LEMMA SameThreads ==
    ASSUME UNCHANGED <<stored>>
    PROVE  ThreadIds' = ThreadIds
BY DEF ThreadIds

\* Conversations found, and joined, in the words of Conversations.
LEMMA Joining ==
    ASSUME ThreaderAssumption, ThreadInv, ThreadInv', UNCHANGED <<emails, stored>>,
           NEW p, NEW c, Joins(box, box', p, c), C!Related(p, c)
    PROVE  C!Next
<1>1. Conv = Tribes(box) /\ Conv' = Tribes(box')
  BY ConvFound
<1>2. PICK A \in Conv, B \in Conv : /\ A # B /\ p \in A /\ c \in B
                                    /\ Conv' = (Conv \ {A, B}) \cup {A \cup B}
  BY <1>1 DEF Joins
<1>3. ThreadIds' = ThreadIds
  BY SameThreads
<1>4. C!Join(A, B)
  BY <1>2, <1>3 DEF C!Join
<1> QED
  BY <1>2, <1>4 DEF C!Next

\* A container made, alone or below the last reached, is a message met.
LEMMA Meeting ==
    ASSUME ThreaderAssumption, ThreadInv, ThreadInv', UNCHANGED <<emails, stored>>,
           NEW m, m \notin Made(box), NEW id \in Rows, m \in C!Named(emails[id]),
           \/ Tribes(box') = Tribes(box) \cup {{m}}
           \/ \E from : C!Related(from, m) /\ Meets(box, box', from, m)
    PROVE  C!Next
<1>1. Conv = Tribes(box) /\ Conv' = Tribes(box')
  BY ConvFound
<1>2. UNION Conv = Made(box)
  BY <1>1, TribesShare DEF ThreadInv, ForestInv, Progress
<1>3. ThreadIds' = ThreadIds
  BY SameThreads
<1>4. \/ Conv' = Conv \cup {{m}}
      \/ \E A \in Conv : /\ \E a \in A : C!Related(a, m)
                         /\ Conv' = (Conv \ {A}) \cup {A \cup {m}}
  BY <1>1 DEF Meets
<1>5. id \in C!Rows
  <2>1. DOMAIN emails = Ids
    BY DEF ThreadInv, ForestInv, Scanning
  <2> QED
    BY <2>1 DEF C!Rows, Rows
<1>6. C!Meet(m)
  BY <1>2, <1>3, <1>4, <1>5 DEF C!Meet
<1> QED
  BY <1>5, <1>6 DEF C!Next

\* What leaves the tribes alone leaves the conversations alone.
LEMMA Waiting ==
    ASSUME ThreaderAssumption, ThreadInv, ThreadInv', UNCHANGED <<emails, stored>>,
           Tribes(box') = Tribes(box)
    PROVE  UNCHANGED C!vars
<1>1. Conv = Tribes(box) /\ Conv' = Tribes(box')
  BY ConvFound
<1> QED
  BY <1>1, SameThreads DEF C!vars

\* Rows come and go.
LEMMA IndexImplements ==
    ASSUME Told, Told', ThreaderAssumption,
           (\E r \in Mail : Index(r)) \/ (\E id \in Ids : Delete(id))
    PROVE  C!Next
<1> USE DEF Told
<1>1. phase = "idle" /\ box = NoContainers /\ box' = NoContainers
  BY DEF Index, Delete, ThreadInv, Progress
<1>2. Conv = {} /\ Conv' = {}
  BY <1>1, ConvFound, NoneFound
<1>3. /\ emails \in [Ids -> Mail \cup {None}] /\ DOMAIN emails = Ids
      /\ stored \in [Ids -> [thread : Ids, position : Nat] \cup {None}]
  BY DEF ThreadInv, ForestInv, Scanning, Indexed
<1>4. ASSUME NEW i \in Ids
      PROVE  ThreadIds'[i] = IF emails'[i] = emails[i] THEN ThreadIds[i] ELSE None
  <2>1. /\ ThreadIds[i] = IF stored[i] = None THEN None ELSE stored[i].thread
        /\ ThreadIds'[i] = IF stored'[i] = None THEN None ELSE stored'[i].thread
    BY DEF ThreadIds
  <2>2. CASE \E r \in Mail : Index(r)
    <3>1. PICK r \in Mail : Index(r)
      BY <2>2
    <3>2. stored' = stored /\ emails' = [emails EXCEPT ![NextId] = r] /\ NextId \in Ids
      BY <3>1 DEF Index
    <3>3. emails[NextId] = None
      <4>1. NextId \notin Rows
        BY NextIsFree
      <4> QED
        BY <4>1, <3>2 DEF Rows
    <3>4. stored[NextId] = None
      BY <3>2, <3>3 DEF Vacant
    <3>5. CASE i = NextId
      BY <3>2, <3>4, <3>5, <2>1
    <3>6. CASE i # NextId
      BY <3>2, <3>6, <2>1, <1>3
    <3> QED
      BY <3>5, <3>6
  <2>3. CASE \E id \in Ids : Delete(id)
    <3>1. PICK id \in Ids : Delete(id)
      BY <2>3
    <3>2. /\ stored' = [stored EXCEPT ![id] = None] /\ emails' = [emails EXCEPT ![id] = None]
          /\ emails[id] # None
      BY <3>1 DEF Delete, Rows
    <3>3. CASE i = id
      BY <3>2, <3>3, <2>1, <1>3
    <3>4. CASE i # id
      BY <3>2, <3>4, <2>1, <1>3
    <3> QED
      BY <3>3, <3>4
  <2> QED
    BY <2>2, <2>3
<1>5. C!IndexChanges
  BY <1>2, <1>3, <1>4 DEF C!IndexChanges
<1> QED
  BY <1>5 DEF C!Next

\* What two Message-IDs of one header are.
LEMMA NamedRelated ==
    ASSUME ThreadInv, NEW id \in Rows, NEW p \in C!Named(emails[id]), NEW c \in C!Named(emails[id])
    PROVE  C!Related(p, c)
<1>1. id \in C!Rows
  <2>1. DOMAIN emails = Ids
    BY DEF ThreadInv, ForestInv, Scanning
  <2> QED
    BY <2>1 DEF C!Rows, Rows
<1> QED
  BY <1>1 DEF C!Related

\* The row that is read meets its own container, or finds it made.
LEMMA TakeImplements ==
    ASSUME Told, Told', ThreaderAssumption, NEW id \in Ids, TakeRow(id)
    PROVE  C!Next \/ UNCHANGED C!vars
<1> USE DEF Told
<1> DEFINE m == emails[id].mid
<1>1. /\ box' = Take(box, id) /\ id \in rows
      /\ UNCHANGED <<emails, stored>>
  BY DEF TakeRow, Reading
<1>2. /\ Scanning /\ id \in Rows /\ box \in Boxes
  BY <1>1 DEF ThreadInv, ForestInv, Scanning, Sound
<1>3. m \in Mids /\ m \in C!Named(emails[id])
  BY <1>2, RowIsMail, RowNames
<1> HIDE DEF m
<1>4. box'.parent = box.parent /\ Made(box') = Made(box) \cup {m}
  BY <1>1, <1>2, <1>3, TakeEffect DEF m
<1>5. CASE m \in Made(box)
  <2>1. Tribes(box') = Tribes(box)
    BY <1>4, <1>5, SameTribes
  <2> QED
    BY <2>1, <1>1, Waiting
<1>6. CASE m \notin Made(box)
  <2>1. Tribes(box') = Tribes(box) \cup {{m}}
    BY <1>3, <1>4, <1>6, GetTribes DEF ThreadInv, ForestInv, Progress
  <2> QED
    BY <2>1, <1>1, <1>2, <1>3, <1>6, Meeting
<1> QED
  BY <1>5, <1>6

\* A reference that is followed meets a container, joins two conversations or
\* does nothing.
LEMMA FollowImplements ==
    ASSUME Told, Told', ThreaderAssumption, FollowRef
    PROVE  C!Next \/ UNCHANGED C!vars
<1> USE DEF Told
<1> DEFINE ref == Head(chain)
<1>1. /\ phase = "chain" /\ chain # <<>> /\ box' = Follow(box, prev, ref)
      /\ UNCHANGED <<emails, stored>>
  BY DEF FollowRef
<1>2. PICK id \in rows : /\ Range(chain) \subseteq C!Named(emails[id])
                         /\ prev # None => prev \in C!Named(emails[id])
  BY <1>1 DEF Speaking
<1>3. /\ Sound(box) /\ MadeWhole(box) /\ id \in Rows /\ chain \in Seq(Mids)
      /\ prev # None => prev \in Made(box)
  BY <1>2 DEF ThreadInv, ForestInv, Scanning, Progress
<1>4. ref \in Mids /\ ref \in C!Named(emails[id])
  <2>1. ref \in Range(chain) /\ ref \in Mids
    BY <1>1, <1>3 DEF Range
  <2> QED
    BY <2>1, <1>2
<1> HIDE DEF ref
<1>5. \/ Tribes(box') = Tribes(box)
      \/ prev # None /\ Joins(box, box', prev, ref)
      \/ ref \notin Made(box) /\ Tribes(box') = Tribes(box) \cup {{ref}}
      \/ ref \notin Made(box) /\ prev # None /\ Meets(box, box', prev, ref)
  BY <1>1, <1>3, <1>4, FollowTribes
<1>6. prev # None => C!Related(prev, ref)
  BY <1>2, <1>3, <1>4, NamedRelated
<1>7. CASE Tribes(box') = Tribes(box)
  BY <1>1, <1>7, Waiting
<1>8. CASE prev # None /\ Joins(box, box', prev, ref)
  BY <1>1, <1>6, <1>8, Joining
<1>9. CASE ref \notin Made(box) /\ Tribes(box') = Tribes(box) \cup {{ref}}
  BY <1>1, <1>3, <1>4, <1>9, Meeting
<1>10. CASE ref \notin Made(box) /\ prev # None /\ Meets(box, box', prev, ref)
  BY <1>1, <1>3, <1>4, <1>6, <1>10, Meeting
<1> QED
  BY <1>5, <1>7, <1>8, <1>9, <1>10

\* The row that has been read hangs below the last of its chain.
LEMMA AttachImplements ==
    ASSUME Told, Told', ThreaderAssumption, NEW id \in Ids, Attach(id)
    PROVE  C!Next \/ UNCHANGED C!vars
<1> USE DEF Told
<1> DEFINE m == emails[id].mid
<1>1. /\ phase = "chain" /\ id \in rows /\ Reading(id) /\ box' = LinkOrphan(box, prev, m)
      /\ UNCHANGED <<emails, stored>>
  BY DEF Attach, Reading
<1>2. /\ Sound(box) /\ MadeWhole(box) /\ rows \subseteq Rows /\ Scanning /\ HoldsLast
      /\ (prev # None => prev \in Made(box)) /\ Rows \subseteq Nat
  BY <1>1 DEF ThreadInv, ForestInv, Scanning, Progress, Rows, Ids
<1>3. m \in Mids /\ m \in C!Named(emails[id]) /\ id \in Rows
  BY <1>1, <1>2, RowIsMail, RowNames
<1>4. prev # None => prev \in C!Named(emails[id])
  <2>1. PICK o \in rows : Reading(o) /\ (prev # None => prev \in C!Named(emails[o]))
    BY <1>1 DEF Speaking
  <2>2. o = id
    BY <2>1, <1>1, <1>2 DEF Reading
  <2> QED
    BY <2>1, <2>2
<1>5. m \in Made(box)
  <2>1. id \in Done
    BY <1>1, <1>3 DEF Done
  <2>2. Real(box, m)
    BY <2>1, <1>2 DEF HoldsLast
  <2> QED
    BY <2>2, <1>2, <1>3 DEF MadeWhole
<1> HIDE DEF m
<1>6. Tribes(box') = Tribes(box) \/ (prev # None /\ Joins(box, box', prev, m))
  BY <1>1, <1>2, <1>5, OrphanJoins
<1>7. CASE Tribes(box') = Tribes(box)
  BY <1>1, <1>7, Waiting
<1>8. CASE prev # None /\ Joins(box, box', prev, m)
  <2>1. C!Related(prev, m)
    BY <1>3, <1>4, <1>8, NamedRelated
  <2> QED
    BY <2>1, <1>1, <1>8, Joining
<1> QED
  BY <1>6, <1>7, <1>8

\* Two roots with the same subject are of one conversation.
LEMMA MergeImplements ==
    ASSUME Told, Told', ThreaderAssumption, NEW m \in Mids, MergeRoot(m)
    PROVE  C!Next \/ UNCHANGED C!vars
<1> USE DEF Told
<1>1. phase = "subject" /\ m \in roots /\ UNCHANGED <<emails, stored, rows>>
  BY DEF MergeRoot, IsFirst
<1>2. /\ Sound(box) /\ MadeWhole(box) /\ HoldsLast /\ RootsSplit
      /\ DOMAIN emails = Ids /\ merged \in Seq(Mids)
  BY <1>1 DEF ThreadInv, ForestInv, Scanning, Progress
<1>3. CASE Anchors(box, merged, m) = {}
  <2>1. box' = box
    BY <1>3 DEF MergeRoot
  <2>2. Tribes(box') = Tribes(box)
    BY <2>1
  <2> QED
    BY <2>2, <1>1, Waiting
<1>4. CASE Anchors(box, merged, m) # {}
  <2>1. PICK a \in Anchors(box, merged, m) : box' = Link(box, a, m)
    BY <1>4 DEF MergeRoot
  <2>2. /\ a \in Range(merged) /\ Subject(box, a) = Subject(box, m) /\ Subject(box, m) # None
    BY <2>1 DEF Anchors
  <2>3. /\ a \in Made(box) /\ m \in Made(box) /\ box.parent[m] = None /\ a \in Mids
    BY <2>2, <1>1, <1>2, RangeWithin DEF RootsSplit, Roots
  <2>4. Tribes(box') = Tribes(box) \/ Joins(box, box', a, m)
    BY <2>1, <2>3, <1>2, LinkJoins
  <2>5. C!Related(a, m)
    <3>1. /\ Real(box, a) /\ Real(box, m)
          /\ emails[box.row[a]].subj = emails[box.row[m]].subj
          /\ emails[box.row[a]].subj # None
      BY <2>2 DEF Subject
    <3>2. /\ box.row[a] \in C!Rows /\ emails[box.row[a]].mid = a
          /\ box.row[m] \in C!Rows /\ emails[box.row[m]].mid = m
      BY <3>1, <2>3, <1>2 DEF HoldsLast, Done, Rows, C!Rows
    <3> QED
      BY <3>1, <3>2 DEF C!Related
  <2> QED
    BY <2>4, <2>5, <1>1, Waiting, Joining
<1> QED
  BY <1>3, <1>4

\* The numbers tell apart the conversations that were found.
LEMMA NumberImplements ==
    ASSUME Told, Told', ThreaderAssumption, Number
    PROVE  C!Next
<1> USE DEF Told
<1>1. /\ emails' = emails /\ box' = NoContainers /\ phase = "subject"
  BY DEF Number
<1>2. /\ Sound(box) /\ MadeWhole(box) /\ HoldsLast /\ rows = {} /\ DOMAIN emails = Ids
      /\ Rows \subseteq Ids /\ Scanning
  BY <1>1 DEF ThreadInv, ForestInv, Scanning, Progress, Rows
<1>3. Conv = Tribes(box) /\ Conv' = {}
  BY <1>1, ConvFound, NoneFound
<1>4. /\ LastHeld(box)
      /\ \A id \in Ids : ~Placed(id) => stored'[id] = stored[id]
      /\ \A m \in Mids : Real(box, m) => \E r \in Roots(box) : m \in Tribe(box, r)
      /\ \A m \in Mids : Real(box, m) => stored'[box.row[m]] # None
      /\ \A m, n \in Mids : Real(box, m) /\ Real(box, n) =>
            (stored'[box.row[m]].thread = stored'[box.row[n]].thread
               <=> \E r \in Roots(box) : m \in Tribe(box, r) /\ n \in Tribe(box, r))
  BY NumberWrites
<1> DEFINE indexed == {emails[i].mid : i \in C!Rows}
           placed == [a \in indexed |-> box.row[a]]
<1>5. C!Rows = Rows
  BY <1>2 DEF C!Rows, Rows
<1>6. ASSUME NEW a \in indexed
      PROVE  /\ a \in Mids /\ Real(box, a) /\ box.row[a] \in Rows /\ emails[box.row[a]].mid = a
  <2>1. PICK i \in Rows : a = emails[i].mid
    BY <1>5
  <2>2. a \in Mids
    BY <2>1, <1>2, RowIsMail
  <2>3. i \in Done
    BY <2>1, <1>1, <1>2 DEF Done
  <2>4. Real(box, a)
    BY <2>1, <2>3, <1>2 DEF HoldsLast
  <2>5. box.row[a] \in Done /\ emails[box.row[a]].mid = a
    BY <2>2, <2>4, <1>2 DEF HoldsLast
  <2> QED
    BY <2>2, <2>4, <2>5 DEF Done
<1>7. placed \in [indexed -> C!Rows] /\ \A a \in indexed : emails[placed[a]].mid = a
  BY <1>5, <1>6
<1>8. \A a \in indexed : placed[a] = box.row[a]
  OBVIOUS
<1>9. indexed \subseteq UNION Conv
  <2>1. \A a \in indexed : \E r \in Roots(box) : a \in Tribe(box, r)
    BY <1>4, <1>6
  <2> QED
    BY <2>1, <1>3 DEF Tribes
<1>10. \A i \in Ids : ThreadIds'[i] = (IF stored'[i] = None THEN None ELSE stored'[i].thread)
                      /\ ThreadIds[i] = (IF stored[i] = None THEN None ELSE stored[i].thread)
  BY DEF ThreadIds
<1>11. ASSUME NEW i \in Ids \ {placed[a] : a \in indexed} PROVE ThreadIds'[i] = ThreadIds[i]
  <2>1. ~Placed(i)
    <3>1. ASSUME Placed(i) PROVE FALSE
      <4>1. i \in Rows /\ emails[i].mid \in indexed
        BY <3>1, <1>5 DEF Placed
      <4>2. box.row[emails[i].mid] = i
        BY <3>1, <1>4 DEF LastHeld
      <4> QED
        BY <4>1, <4>2, <1>8, <1>11
    <3> QED
      BY <3>1
  <2> QED
    BY <2>1, <1>4, <1>10
<1> HIDE DEF indexed, placed
<1>12. ASSUME NEW a \in indexed, NEW b \in indexed
       PROVE  (\E A \in Conv : {a, b} \subseteq A) <=> ThreadIds'[placed[a]] = ThreadIds'[placed[b]]
  <2>1. (\E A \in Conv : {a, b} \subseteq A) <=>
           \E r \in Roots(box) : a \in Tribe(box, r) /\ b \in Tribe(box, r)
    BY <1>3 DEF Tribes
  <2>2. /\ box.row[a] \in Ids /\ ThreadIds'[box.row[a]] = stored'[box.row[a]].thread
        /\ box.row[b] \in Ids /\ ThreadIds'[box.row[b]] = stored'[box.row[b]].thread
    BY <1>2, <1>4, <1>6, <1>10
  <2> QED
    BY <2>1, <2>2, <1>4, <1>6, <1>8
<1>13. C!Publish
  BY <1>1, <1>2, <1>3, <1>5, <1>7, <1>9, <1>11, <1>12 DEF C!Publish, indexed
<1> QED
  BY <1>13 DEF C!Next

-----------------------------------------------------------------------------
\* Threading implements Conversations, for any number of rows and whatever
\* their headers say: every step of index_threads meets a message, joins two
\* conversations that a header or a subject relates, publishes exactly the
\* conversations found, or changes none of them.
THEOREM ThreadingImplements == Spec => ImplementsConversations
<1>1. Init => Told
  BY ToldInit, ThreaderAssumption
<1>2. Told /\ [Next]_vars => Told'
  <2>1. Told /\ [Next]_vars => ThreadInv'
    BY ThreadStep, ThreaderAssumption DEF Told
  <2> QED
    BY <2>1, ToldKeeps, ThreaderAssumption
<1>3. Init => C!Init
  <2> SUFFICES ASSUME Init PROVE C!Init
    OBVIOUS
  <2>1. Conv = {}
    <3>1. /\ Sound(box) /\ MadeWhole(box) /\ box = NoContainers
      BY <1>1 DEF Told, ThreadInv, ForestInv, Progress, Init
    <3>2. Conv = ConvOn(box)
      BY DEF Conv, ConvOn, Top, TopOn
    <3> QED
      BY <3>1, <3>2, ConvIsTribes, NoneFound, ThreaderAssumption
  <2>2. C!Rows = {}
    BY DEF Init, C!Rows
  <2> QED
    BY <2>1, <2>2 DEF C!Init
<1>4. Told /\ Told' /\ [Next]_vars => [C!Next]_(C!vars)
  <2> SUFFICES ASSUME Told, Told', [Next]_vars PROVE C!Next \/ UNCHANGED C!vars
    OBVIOUS
  <2>1. CASE (\E r \in Mail : Index(r)) \/ (\E id \in Ids : Delete(id))
    BY <2>1, IndexImplements, ThreaderAssumption
  <2>2. CASE Start \/ GatherRoots
    <3>1. UNCHANGED <<emails, stored, box>>
      BY <2>2 DEF Start, GatherRoots
    <3>2. Tribes(box') = Tribes(box)
      BY <3>1
    <3> QED
      BY <3>1, <3>2, Waiting, ThreaderAssumption DEF Told
  <2>3. CASE \E id \in Ids : TakeRow(id) \/ Attach(id)
    BY <2>3, TakeImplements, AttachImplements, ThreaderAssumption
  <2>4. CASE FollowRef
    BY <2>4, FollowImplements, ThreaderAssumption
  <2>5. CASE \E m \in Mids : MergeRoot(m)
    BY <2>5, MergeImplements, ThreaderAssumption
  <2>6. CASE Number
    BY <2>6, NumberImplements, ThreaderAssumption
  <2>7. CASE EndEarly
    <3>1. UNCHANGED <<emails, stored>> /\ box' = NoContainers
      BY <2>7 DEF EndEarly
    <3>2. Conv' = {} /\ ThreadIds' = ThreadIds
      BY <3>1, ConvFound, NoneFound, SameThreads, ThreaderAssumption DEF Told
    <3>3. C!Forget
      BY <3>1, <3>2 DEF C!Forget
    <3> QED
      BY <3>3 DEF C!Next
  <2>8. CASE UNCHANGED vars
    <3>1. UNCHANGED <<emails, stored, box>>
      BY <2>8 DEF vars
    <3>2. Tribes(box') = Tribes(box)
      BY <3>1
    <3> QED
      BY <3>1, <3>2, Waiting, ThreaderAssumption DEF Told
  <2> QED
    BY <2>1, <2>2, <2>3, <2>4, <2>5, <2>6, <2>7, <2>8 DEF Next, Threading
<1> QED
  BY <1>1, <1>2, <1>3, <1>4, PTL DEF Spec, ImplementsConversations, C!Spec

-----------------------------------------------------------------------------
(*****************************************************************************)
(* Genuine headers                                                         *)
(*****************************************************************************)
\* Ancestors: what a message answers, what that answers, and nothing else.
LEMMA Ancestry ==
    ASSUME ThreaderAssumption
    PROVE  /\ \A m \in Mids : Ancestors[m] \subseteq Mids
           /\ \A m \in Mids : AnswerTo[m] # None =>
                 AnswerTo[m] \in Ancestors[m] /\ AnswerTo[m] \in Mids
           /\ \A m \in Mids : \A a \in Ancestors[m] :
                 AnswerTo[m] # None /\ (a = AnswerTo[m] \/ a \in Ancestors[AnswerTo[m]])
           /\ \A m \in Mids : \A a \in Ancestors[m] : Ancestors[a] \subseteq Ancestors[m]
           /\ \A S \in SUBSET Mids :
                 (\A m \in S : AnswerTo[m] # None => AnswerTo[m] \in S)
                    => \A m \in S : Ancestors[m] \subseteq S
<1> DEFINE answers == [parent |-> AnswerTo]
<1>1. answers.parent = AnswerTo
  OBVIOUS
<1> HIDE DEF answers
<1>2. answers.parent \in [Mids -> Mids \cup {None}] /\ None \notin Mids
  BY <1>1 DEF ThreaderAssumption
<1>3. \A m \in Mids : Ancestors[m] =
          {a \in Mids : AnswerTo[m] # None /\ Under(answers, AnswerTo[m], a)}
  BY DEF Ancestors, Under, answers
<1>4. /\ \A m \in Mids : Under(answers, m, m)
      /\ \A x, m \in Mids : Under(answers, x, m) /\ AnswerTo[m] # None =>
            Under(answers, x, AnswerTo[m])
      /\ \A x, m \in Mids : Under(answers, x, m) /\ x # m =>
            AnswerTo[x] # None /\ Under(answers, AnswerTo[x], m)
      /\ \A x, y, z \in Mids : Under(answers, x, y) /\ Under(answers, y, z)
            => Under(answers, x, z)
  BY <1>1, <1>2, Lineage
<1>5. \A m \in Mids : AnswerTo[m] # None => AnswerTo[m] \in Mids
  BY <1>1, <1>2
<1>6. \A m \in Mids : \A a \in Ancestors[m] : Ancestors[a] \subseteq Ancestors[m]
  <2>1. ASSUME NEW m \in Mids, NEW a \in Ancestors[m], NEW x \in Ancestors[a]
        PROVE  x \in Ancestors[m]
    <3>1. /\ a \in Mids /\ AnswerTo[m] # None /\ Under(answers, AnswerTo[m], a)
          /\ x \in Mids /\ AnswerTo[a] # None /\ Under(answers, AnswerTo[a], x)
      BY <2>1, <1>3
    <3>2. Under(answers, AnswerTo[m], AnswerTo[a])
      BY <3>1, <1>4, <1>5
    <3> QED
      BY <3>1, <3>2, <1>3, <1>4, <1>5
  <2> QED
    BY <2>1
<1>7. ASSUME NEW S \in SUBSET Mids, \A m \in S : AnswerTo[m] # None => AnswerTo[m] \in S,
             NEW m \in S, NEW a \in Ancestors[m]
      PROVE  a \in S
  <2>1. AnswerTo[m] \in S /\ Under(answers, AnswerTo[m], a)
    BY <1>3, <1>7
  <2>2. S \in Upward(answers)
    BY <1>1, <1>7 DEF Upward
  <2> QED
    BY <2>1, <2>2 DEF Under, CreatesCycle
<1>8. \A m \in Mids : \A a \in Ancestors[m] :
         AnswerTo[m] # None /\ (a = AnswerTo[m] \/ a \in Ancestors[AnswerTo[m]])
  BY <1>3, <1>4, <1>5
<1>9. \A m \in Mids : AnswerTo[m] # None =>
         AnswerTo[m] \in Ancestors[m] /\ AnswerTo[m] \in Mids
  BY <1>3, <1>4, <1>5
<1>10. \A m \in Mids : Ancestors[m] \subseteq Mids
  BY <1>3
<1> QED
  BY <1>6, <1>7, <1>8, <1>9, <1>10

\* A sequence of messages each of which has all those before it as ancestors.
Descent(s) == \A i, j \in DOMAIN s : i < j => s[i] \in Ancestors[s[j]]

\* One in which each answers the one before it, the first one from.
Ladder(from, s) == \A k \in DOMAIN s : AnswerTo[s[k]] = IF k = 1 THEN from ELSE s[k - 1]

\* A descent goes on with a message that has all of it as ancestors.
LEMMA Extended ==
    ASSUME NEW q \in Seq(Mids), Descent(q), NEW m \in Mids,
           \A x \in Range(q) : x \in Ancestors[m]
    PROVE  /\ Append(q, m) \in Seq(Mids) /\ Descent(Append(q, m))
           /\ Range(Append(q, m)) = Range(q) \cup {m}
<1> DEFINE n == Len(q)
           s == Append(q, m)
<1>1. /\ s \in Seq(Mids) /\ DOMAIN s = 1..(n + 1) /\ n \in Nat /\ DOMAIN q = 1..n
      /\ \A i \in 1..n : s[i] = q[i]
      /\ s[n + 1] = m
      /\ Range(s) = Range(q) \cup {m}
  BY Appended
<1> HIDE DEF n, s
<1>2. ASSUME NEW i \in DOMAIN s, NEW j \in DOMAIN s, i < j PROVE s[i] \in Ancestors[s[j]]
  <2>1. i \in 1..n
    BY <1>1, <1>2
  <2>2. q[i] \in Range(q)
    BY <2>1, <1>1 DEF Range
  <2>3. CASE j = n + 1
    BY <2>1, <2>2, <2>3, <1>1
  <2>4. CASE j # n + 1
    <3>1. j \in 1..n
      BY <2>4, <1>1
    <3> QED
      BY <2>1, <3>1, <1>1, <1>2 DEF Descent
  <2> QED
    BY <2>3, <2>4
<1> QED
  BY <1>1, <1>2 DEF s, Descent

\* The chain of a genuine header goes down to its message.
LEMMA GenuineChain ==
    ASSUME ThreaderAssumption, NEW r \in RowType, Genuine(r),
           NEW s, s = Append(Chain(r), r.mid)
    PROVE  /\ s \in Seq(Mids) /\ Chain(r) \in Seq(Mids) /\ Descent(s)
           /\ Complete(r) => Range(Chain(r)) = Ancestors[r.mid]
<1>1. /\ r.mid \in Mids /\ r.reply \in Mids \cup {None} /\ r.refs \in Seq(Mids)
      /\ None \notin Mids
  BY DEF RowType, ThreaderAssumption
<1>2. /\ Range(r.refs) \cup ({r.reply} \ {None}) \subseteq Ancestors[r.mid]
      /\ \A i, j \in DOMAIN r.refs : i < j => r.refs[i] \in Ancestors[r.refs[j]]
      /\ r.reply # None => Range(r.refs) \ {r.reply} \subseteq Ancestors[r.reply]
  BY DEF Genuine
<1> DEFINE q == Chain(r)
<1>3. q \in Seq(Mids) /\ Descent(q) /\ Range(q) = Range(r.refs) \cup ({r.reply} \ {None})
  <2>1. CASE r.reply # None /\ r.reply \notin Range(r.refs)
    <3>1. q = Append(r.refs, r.reply)
      BY <2>1 DEF Chain
    <3>2. /\ \A x \in Range(r.refs) : x \in Ancestors[r.reply]
          /\ r.reply \in Mids
      BY <2>1, <1>1, <1>2
    <3>3. q \in Seq(Mids) /\ Descent(q) /\ Range(q) = Range(r.refs) \cup {r.reply}
      BY <3>1, <3>2, <1>1, <1>2, Extended DEF Descent
    <3> QED
      BY <2>1, <3>3
  <2>2. CASE ~(r.reply # None /\ r.reply \notin Range(r.refs))
    <3>1. q = r.refs
      BY <2>2 DEF Chain
    <3> QED
      BY <2>2, <3>1, <1>1, <1>2 DEF Descent
  <2> QED
    BY <2>1, <2>2
<1> HIDE DEF q
<1>4. \A x \in Range(q) : x \in Ancestors[r.mid]
  BY <1>2, <1>3
<1>5. s \in Seq(Mids) /\ Descent(s)
  BY <1>1, <1>3, <1>4, Extended DEF q
<1>6. Complete(r) => Range(q) = Ancestors[r.mid]
  BY <1>3 DEF Complete
<1> QED
  BY <1>3, <1>5, <1>6 DEF q

\* The chain of a complete header leads down to its message answer by answer.
LEMMA CompleteChain ==
    ASSUME ThreaderAssumption, NEW r \in RowType, Genuine(r), Complete(r),
           NEW s, s = Append(Chain(r), r.mid)
    PROVE  Ladder(None, s)
<1> DEFINE q == Chain(r)
           n == Len(q)
           m == r.mid
<1>1. s \in Seq(Mids) /\ q \in Seq(Mids) /\ Descent(s) /\ Range(q) = Ancestors[m] /\ m \in Mids
  BY GenuineChain DEF RowType
<1> HIDE DEF q
<1>2. /\ DOMAIN s = 1..(n + 1) /\ n \in Nat /\ DOMAIN q = 1..n
      /\ \A i \in 1..n : s[i] = q[i]
      /\ s[n + 1] = m
  BY <1>1, Appended DEF q
<1> HIDE DEF n, m
<1>3. \A k \in 1..(n + 1) : s[k] \in Mids /\ Ancestors[s[k]] \subseteq Ancestors[m]
  <2>1. \A k \in 1..(n + 1) : k \in 1..n \/ k = n + 1
    BY <1>2
  <2>2. \A k \in 1..n : q[k] \in Ancestors[m]
    BY <1>1, <1>2 DEF Range
  <2> QED
    BY <2>1, <2>2, <1>1, <1>2, Ancestry
<1>4. \A i, j \in 1..(n + 1) : i < j => s[i] \in Ancestors[s[j]]
  BY <1>1, <1>2 DEF Descent
<1>5. ASSUME NEW k \in 1..(n + 1), NEW a \in Ancestors[s[k]]
      PROVE  \E i \in 1..(n + 1) : i < k /\ a = s[i]
  <2>1. PICK i \in 1..n : a = q[i]
    <3>1. a \in Range(q)
      BY <1>1, <1>3, <1>5
    <3> QED
      BY <3>1, <1>2 DEF Range
  <2>2. i \in 1..(n + 1) /\ a = s[i]
    BY <2>1, <1>2
  <2>3. CASE i < k
    BY <2>2, <2>3
  <2>4. CASE i = k
    BY <2>2, <2>4, <1>3, <1>5, AnswersEnd
  <2>5. CASE k < i
    <3>1. s[k] \in Ancestors[s[i]] /\ s[i] \in Ancestors[s[k]]
      BY <2>2, <2>5, <1>4, <1>5
    <3>2. s[k] \in Ancestors[s[k]]
      BY <3>1, <1>3, Ancestry
    <3> QED
      BY <3>2, <1>3, AnswersEnd
  <2> QED
    BY <2>2, <2>3, <2>4, <2>5, <1>2
<1>6. ASSUME NEW k \in 1..(n + 1)
      PROVE  AnswerTo[s[k]] = IF k = 1 THEN None ELSE s[k - 1]
  <2>1. CASE k = 1
    <3>1. Ancestors[s[1]] = {}
      BY <2>1, <1>2, <1>5
    <3> QED
      BY <2>1, <3>1, <1>3, Ancestry
  <2>2. CASE k # 1
    <3> DEFINE h == k - 1
               p == s[h]
               a == AnswerTo[s[k]]
    <3>1. h \in 1..(n + 1) /\ h < k
      BY <2>2, <1>2
    <3>2. p \in Ancestors[s[k]] /\ p \in Mids
      BY <3>1, <1>3, <1>4
    <3>3. a # None /\ a \in Ancestors[s[k]] /\ a \in Mids /\ (p = a \/ p \in Ancestors[a])
      BY <3>2, <1>3, Ancestry
    <3>4. PICK i \in 1..(n + 1) : i < k /\ a = s[i]
      BY <3>3, <1>5
    <3>5. i < h \/ i = h
      BY <3>4, <1>2
    <3> HIDE DEF h, a
    <3>6. ASSUME i < h PROVE FALSE
      <4>1. a \in Ancestors[p]
        BY <3>1, <3>4, <3>6, <1>4
      <4>2. p = a \/ Ancestors[p] \subseteq Ancestors[a]
        BY <3>3, Ancestry
      <4>3. a \in Ancestors[a]
        BY <4>1, <4>2
      <4> QED
        BY <4>3, <3>3, AnswersEnd
    <3>7. a = s[h]
      BY <3>4, <3>5, <3>6
    <3> QED
      BY <2>2, <3>7 DEF h, a
  <2> QED
    BY <2>1, <2>2
<1> QED
  BY <1>2, <1>6 DEF Ladder

\* Until subjects are looked at, parents are ancestors; then the root of a
\* subject may be the parent of others of that subject as well.
Descended ==
    \A c \in Mids : box.parent[c] # None =>
        \/ box.parent[c] \in Ancestors[c]
        \/ /\ phase = "subject" /\ box.parent[c] \in Range(merged)
           /\ Subject(box, c) # None /\ Subject(box, box.parent[c]) = Subject(box, c)

\* What is left of the chain goes down to the message, below prev.
ReadingGenuine ==
    phase = "chain" => \A id \in rows : Reading(id) =>
        /\ Descent(Append(chain, emails[id].mid))
        /\ prev # None =>
              \A k \in DOMAIN Append(chain, emails[id].mid) :
                 prev \in Ancestors[Append(chain, emails[id].mid)[k]]

\* With complete headers it goes answer by answer ...
ReadingComplete ==
    phase = "chain" => \A id \in rows : Reading(id) => Ladder(prev, Append(chain, emails[id].mid))

\* ... and what has been read hangs below what it answers.
Linked ==
    /\ phase # "subject" => \A c \in Mids : box.parent[c] # None => box.parent[c] = AnswerTo[c]
    /\ \A c \in Made(box) : AnswerTo[c] # None =>
          \/ box.parent[c] = AnswerTo[c]
          \/ /\ phase = "chain" /\ box.parent[c] = None
             /\ \E id \in rows : Reading(id) /\ c = emails[id].mid

Full == \A id \in Rows : Complete(emails[id])

AnswersKept ==
    GenuineMail => Descended /\ ReadingGenuine /\ (Full => ReadingComplete /\ Linked)

\* What is genuine and complete changes with the mail only.
LEMMA SameMail ==
    ASSUME UNCHANGED emails
    PROVE  (GenuineMail' <=> GenuineMail) /\ (Full' <=> Full) /\ Rows' = Rows
<1>1. Rows' = Rows
  BY DEF Rows
<1> QED
  BY <1>1 DEF GenuineMail, Full, Genuine, Complete

\* Before anything is read nothing is wrong.
LEMMA NothingRead ==
    ASSUME ThreaderAssumption, box = NoContainers, phase # "chain"
    PROVE  AnswersKept
<1>1. Made(box) = {} /\ \A c \in Mids : box.parent[c] = None
  BY DEF NoContainers, Made, Range
<1> QED
  BY <1>1 DEF AnswersKept, Descended, ReadingGenuine, ReadingComplete, Linked

\* Nothing read next claims nothing either.
LEMMA NothingReadNext ==
    ASSUME ThreaderAssumption, box' = NoContainers, phase' # "chain"
    PROVE  AnswersKept'
<1>1. Made(NoContainers) = {} /\ \A c \in Mids : NoContainers.parent[c] = None
  BY DEF NoContainers, Made, Range
<1>2. Made(box)' = {} /\ \A c \in Mids : box'.parent[c] = None
  BY <1>1 DEF Made
<1> QED
  BY <1>2 DEF AnswersKept, Descended, ReadingGenuine, ReadingComplete, Linked

\* What a link to an orphan changes.
LEMMA OrphanEffect ==
    ASSUME NEW b \in Boxes, NEW c \in Mids, NEW p, p # None => p \in Mids
    PROVE  /\ LinkOrphan(b, p, c).row = b.row /\ Made(LinkOrphan(b, p, c)) = Made(b)
           /\ \A x \in Mids : x # c => LinkOrphan(b, p, c).parent[x] = b.parent[x]
           /\ \/ LinkOrphan(b, p, c).parent[c] = b.parent[c]
              \/ p # None /\ b.parent[c] = None /\ LinkOrphan(b, p, c).parent[c] = p
           /\ p # None /\ b.parent[c] = None /\ c # p /\ ~CreatesCycle(b, p, c)
                 => LinkOrphan(b, p, c).parent[c] = p
<1> DEFINE d == Link(b, p, c)
<1>1. b.parent \in [Mids -> Mids \cup {None}]
  BY DEF Boxes
<1>2. CASE p # None /\ b.parent[c] = None
  <2>1. /\ d.row = b.row /\ d.made = b.made
        /\ d.parent \in {b.parent, [b.parent EXCEPT ![c] = p]}
        /\ c # p /\ ~CreatesCycle(b, p, c) => d.parent = [b.parent EXCEPT ![c] = p]
    BY <1>2, LinkEffect
  <2>2. LinkOrphan(b, p, c) = d
    BY <1>2 DEF LinkOrphan
  <2> HIDE DEF d
  <2> QED
    BY <1>1, <1>2, <2>1, <2>2 DEF Made
<1>3. CASE ~(p # None /\ b.parent[c] = None)
  <2>1. LinkOrphan(b, p, c) = b
    BY <1>3 DEF LinkOrphan
  <2> QED
    BY <1>3, <2>1
<1> QED
  BY <1>2, <1>3

\* What following a reference changes.
LEMMA FollowEffect ==
    ASSUME NEW b \in Boxes, NEW ref \in Mids, NEW from, from # None => from \in Mids,
           NEW d, d = Follow(b, from, ref)
    PROVE  /\ d.row = b.row /\ Made(d) = Made(b) \cup {ref}
           /\ \A x \in Mids : x # ref => d.parent[x] = b.parent[x]
           /\ \/ d.parent[ref] = b.parent[ref]
              \/ from # None /\ b.parent[ref] = None /\ d.parent[ref] = from
           /\ from # None /\ b.parent[ref] = None /\ ref # from /\ ~CreatesCycle(b, from, ref)
                 => d.parent[ref] = from
<1> DEFINE g == GetOrCreate(b, ref)
<1>1. g \in Boxes /\ g.row = b.row /\ g.parent = b.parent /\ Made(g) = Made(b) \cup {ref}
  BY GetEffect
<1>2. d = LinkOrphan(g, from, ref)
  BY DEF Follow
<1> HIDE DEF g
<1>3. CreatesCycle(g, from, ref) <=> CreatesCycle(b, from, ref)
  BY <1>1, SameUnder DEF Under
<1> QED
  BY <1>1, <1>2, <1>3, OrphanEffect

\* Where parents are what is answered, a link to what is answered is made.
LEMMA NoCircle ==
    ASSUME ThreaderAssumption, NEW b,
           \A c \in Mids : b.parent[c] # None => b.parent[c] = AnswerTo[c],
           NEW c \in Mids, AnswerTo[c] # None
    PROVE  AnswerTo[c] # c /\ ~CreatesCycle(b, AnswerTo[c], c)
<1> DEFINE p == AnswerTo[c]
           S == {p} \cup Ancestors[p]
<1>1. p \in Mids /\ p \in Ancestors[c] /\ Ancestors[p] \subseteq Ancestors[c]
  BY Ancestry
<1>2. c \notin S
  BY <1>1, AnswersEnd
<1>3. S \subseteq Mids
  BY <1>1, Ancestry
<1>4. ASSUME NEW z \in S, b.parent[z] # None PROVE b.parent[z] \in S
  <2>1. AnswerTo[z] \in Ancestors[z]
    BY <1>3, <1>4, Ancestry
  <2>2. Ancestors[z] \subseteq Ancestors[p]
    BY <1>1, <1>4, Ancestry
  <2> QED
    BY <2>1, <2>2, <1>3, <1>4
<1>5. S \in Upward(b) /\ p \in S
  <2> HIDE DEF S, p
  <2>1. S \in Upward(b)
    BY <1>3, <1>4 DEF Upward
  <2> QED
    BY <2>1 DEF S
<1> QED
  BY <1>1, <1>2, <1>5 DEF CreatesCycle

\* What is left when the first of a chain has been followed.
LEMMA Passed ==
    ASSUME NEW q \in Seq(Mids), q # <<>>, NEW m \in Mids
    PROVE  /\ Head(q) \in Mids /\ Tail(q) \in Seq(Mids)
           /\ Descent(Append(q, m)) =>
                 /\ Descent(Append(Tail(q), m))
                 /\ \A k \in DOMAIN Append(Tail(q), m) : Head(q) \in Ancestors[Append(Tail(q), m)[k]]
           /\ \A from : Ladder(from, Append(q, m)) =>
                 AnswerTo[Head(q)] = from /\ Ladder(Head(q), Append(Tail(q), m))
           /\ 1 \in DOMAIN Append(q, m) /\ Append(q, m)[1] = Head(q)
<1> DEFINE n == Len(q)
           h == n - 1
           s == Append(q, m)
           t == Append(Tail(q), m)
<1>1. n \in Nat \ {0} /\ Head(q) = q[1] /\ q[1] \in Mids
  OBVIOUS
<1>2. /\ Tail(q) \in Seq(Mids) /\ Len(Tail(q)) = h
      /\ \A i \in 1..h : Tail(q)[i] = q[i + 1]
  OBVIOUS
<1>3. /\ DOMAIN s = 1..(n + 1) /\ s[n + 1] = m
      /\ \A i \in 1..n : s[i] = q[i]
  BY Appended
<1>4. /\ DOMAIN t = 1..(h + 1) /\ t[h + 1] = m
      /\ \A i \in 1..h : t[i] = Tail(q)[i]
  BY <1>2, Appended
<1>5. h \in Nat /\ n = h + 1
  BY <1>1
<1> HIDE DEF n, h, s, t
<1>6. DOMAIN t = 1..n /\ \A i \in 1..n : t[i] = s[i + 1] /\ i + 1 \in DOMAIN s
  <2>1. ASSUME NEW i \in 1..n PROVE t[i] = s[i + 1] /\ i + 1 \in DOMAIN s
    <3> DEFINE j == i + 1
    <3>1. CASE i = n
      BY <3>1, <1>3, <1>4, <1>5
    <3>2. CASE i # n
      <4>1. i \in 1..h /\ j \in 1..n
        BY <3>2, <1>5
      <4>2. t[i] = q[j]
        BY <4>1, <1>2, <1>4
      <4> HIDE DEF j
      <4>3. s[j] = q[j] /\ j \in DOMAIN s
        BY <4>1, <1>3, <1>5
      <4> QED
        BY <4>2, <4>3 DEF j
    <3> QED
      BY <3>1, <3>2
  <2> QED
    BY <2>1, <1>4, <1>5
<1>7. 1 \in DOMAIN s /\ s[1] = Head(q)
  BY <1>1, <1>3
<1>8. ASSUME Descent(s)
      PROVE  Descent(t) /\ \A k \in DOMAIN t : Head(q) \in Ancestors[t[k]]
  <2>1. ASSUME NEW i \in DOMAIN t, NEW j \in DOMAIN t, i < j PROVE t[i] \in Ancestors[t[j]]
    <3> DEFINE k == i + 1
               l == j + 1
    <3>1. k \in DOMAIN s /\ l \in DOMAIN s /\ k < l /\ t[i] = s[k] /\ t[j] = s[l]
      BY <2>1, <1>5, <1>6
    <3> HIDE DEF k, l
    <3> QED
      BY <3>1, <1>8 DEF Descent
  <2>2. ASSUME NEW j \in DOMAIN t PROVE Head(q) \in Ancestors[t[j]]
    <3> DEFINE l == j + 1
    <3>1. l \in DOMAIN s /\ 1 < l /\ t[j] = s[l]
      BY <2>2, <1>5, <1>6
    <3> HIDE DEF l
    <3> QED
      BY <3>1, <1>7, <1>8 DEF Descent
  <2> QED
    BY <2>1, <2>2 DEF Descent
<1>9. ASSUME NEW from, Ladder(from, s)
      PROVE  AnswerTo[Head(q)] = from /\ Ladder(Head(q), t)
  <2>1. ASSUME NEW j \in DOMAIN t
        PROVE  AnswerTo[t[j]] = IF j = 1 THEN Head(q) ELSE t[j - 1]
    <3> DEFINE l == j + 1
               i == j - 1
    <3>1. l \in DOMAIN s /\ l # 1 /\ l - 1 = j /\ t[j] = s[l]
      <4>1. j \in 1..n /\ n \in Nat
        BY <2>1, <1>5, <1>6
      <4>2. l # 1 /\ l - 1 = j
        BY <4>1
      <4>3. l \in DOMAIN s /\ t[j] = s[l]
        BY <4>1, <1>6
      <4> QED
        BY <4>2, <4>3
    <3>2. AnswerTo[t[j]] = s[j]
      <4> HIDE DEF l
      <4> QED
        BY <3>1, <1>9 DEF Ladder
    <3>3. CASE j = 1
      BY <3>2, <3>3, <1>7
    <3>4. CASE j # 1
      <4>1. i \in 1..n /\ i + 1 = j
        BY <3>4, <2>1, <1>5, <1>6
      <4>2. t[i] = s[j]
        BY <4>1, <1>6
      <4> QED
        BY <3>2, <3>4, <4>2
    <3> QED
      BY <3>3, <3>4
  <2> QED
    BY <2>1, <1>7, <1>9 DEF Ladder
<1> QED
  BY <1>1, <1>2, <1>7, <1>8, <1>9 DEF s, t

\* One row is read at a time.
LEMMA OneReading ==
    ASSUME ThreadInv, NEW id \in rows, Reading(id)
    PROVE  \A o \in rows : Reading(o) => o = id
<1>1. rows \subseteq Nat
  BY DEF ThreadInv, ForestInv, Scanning, Rows, Ids
<1> QED
  BY <1>1 DEF Reading

\* The row taken up has its whole chain before it.
LEMMA TakeAnswers ==
    ASSUME Told, AnswersKept, ThreaderAssumption, NEW id \in Ids, TakeRow(id)
    PROVE  AnswersKept'
<1> USE DEF Told
<1> SUFFICES ASSUME GenuineMail'
             PROVE  Descended' /\ ReadingGenuine' /\ (Full' => ReadingComplete' /\ Linked')
  BY DEF AnswersKept
<1> DEFINE m == emails[id].mid
           q == Chain(emails[id])
           s == Append(q, m)
<1>1. /\ phase = "row" /\ phase' = "chain" /\ id \in rows /\ Reading(id)
      /\ box' = Take(box, id) /\ chain' = q /\ prev' = None
      /\ UNCHANGED <<emails, rows, merged>>
  BY DEF TakeRow, Reading
<1>2. /\ Scanning /\ id \in Rows /\ box \in Boxes
  BY <1>1 DEF ThreadInv, ForestInv, Scanning, Sound
<1>3. GenuineMail /\ (Full' <=> Full)
  BY <1>1, SameMail
<1>4. emails[id] \in RowType /\ Genuine(emails[id]) /\ m \in Mids
  BY <1>2, <1>3 DEF GenuineMail, Scanning, Rows, ThreaderAssumption, RowType
<1>5. box'.parent = box.parent /\ Made(box') = Made(box) \cup {m}
  <2> HIDE DEF m
  <2> QED
    BY <1>1, <1>2, <1>4, TakeEffect DEF m
<1>6. \A o \in rows : Reading(o)' <=> o = id
  BY <1>1, OneReading DEF Reading
<1>7. Descended /\ ReadingGenuine /\ (Full => ReadingComplete /\ Linked)
  BY <1>3 DEF AnswersKept
<1>8. Descended'
  BY <1>1, <1>5, <1>7 DEF Descended
<1>9. Descent(s)
  BY <1>4, GenuineChain
<1>10. ReadingGenuine'
  BY <1>1, <1>6, <1>9 DEF ReadingGenuine, Descent
<1>11. ASSUME Full PROVE ReadingComplete' /\ Linked'
  <2>1. Complete(emails[id])
    BY <1>2, <1>11 DEF Full
  <2>2. Ladder(None, s)
    BY <2>1, <1>4, CompleteChain
  <2>3. ReadingComplete'
    BY <1>1, <1>6, <2>2 DEF ReadingComplete, Ladder
  <2> HIDE DEF m, q, s
  <2>4. \A c \in Mids : box'.parent[c] # None => box'.parent[c] = AnswerTo[c]
    BY <1>1, <1>5, <1>7, <1>11 DEF Linked
  <2>5. ASSUME NEW c \in Made(box'), AnswerTo[c] # None
        PROVE  \/ box'.parent[c] = AnswerTo[c]
               \/ box'.parent[c] = None /\ c = m
    <3>1. CASE c = m
      BY <3>1, <2>4, <1>4
    <3>2. CASE c # m
      <4>1. c \in Made(box)
        BY <3>2, <1>5
      <4>2. box.parent[c] = AnswerTo[c]
        BY <4>1, <2>5, <1>1, <1>7, <1>11 DEF Linked
      <4> QED
        BY <4>2, <1>5
    <3> QED
      BY <3>1, <3>2
  <2>6. \A c \in Made(box)' : AnswerTo[c] # None =>
           \/ box'.parent[c] = AnswerTo[c]
           \/ box'.parent[c] = None /\ \E o \in rows' : Reading(o)' /\ c = emails'[o].mid
    <3>1. Made(box)' = Made(box')
      BY DEF Made
    <3> QED
      BY <3>1, <2>5, <1>1, <1>6 DEF m
  <2> QED
    BY <2>3, <2>4, <2>6, <1>1 DEF Linked
<1> QED
  BY <1>3, <1>8, <1>10, <1>11

\* A reference followed hangs below the one before it.
LEMMA FollowAnswers ==
    ASSUME Told, AnswersKept, ThreaderAssumption, FollowRef
    PROVE  AnswersKept'
<1> USE DEF Told
<1> SUFFICES ASSUME GenuineMail'
             PROVE  Descended' /\ ReadingGenuine' /\ (Full' => ReadingComplete' /\ Linked')
  BY DEF AnswersKept
<1> DEFINE ref == Head(chain)
<1>1. /\ phase = "chain" /\ chain # <<>> /\ box' = Follow(box, prev, ref)
      /\ prev' = ref /\ chain' = Tail(chain)
      /\ UNCHANGED <<emails, phase, rows, merged>>
  BY DEF FollowRef
<1>2. /\ Scanning /\ box \in Boxes /\ chain \in Seq(Mids) /\ (prev # None => prev \in Mids)
  BY DEF ThreadInv, ForestInv, Scanning, Sound
<1>3. GenuineMail /\ (Full' <=> Full)
  BY <1>1, SameMail
<1>4. PICK id \in rows : Reading(id)
  BY <1>1 DEF Speaking
<1> DEFINE m == emails[id].mid
           s == Append(chain, m)
           t == Append(Tail(chain), m)
<1>5. id \in Rows /\ m \in Mids
  BY <1>2, <1>4, RowIsMail DEF Scanning
<1>6. \A o \in rows : Reading(o) <=> o = id
  BY <1>4, OneReading
<1>7. \A o \in rows : Reading(o)' <=> o = id
  BY <1>1, <1>6 DEF Reading
<1>8. Descended /\ ReadingGenuine /\ (Full => ReadingComplete /\ Linked)
  BY <1>3 DEF AnswersKept
<1>9. Descent(s) /\ (prev # None => \A k \in DOMAIN s : prev \in Ancestors[s[k]])
  BY <1>1, <1>4, <1>8 DEF ReadingGenuine
<1>10. /\ ref \in Mids
       /\ Descent(t) /\ \A k \in DOMAIN t : ref \in Ancestors[t[k]]
       /\ 1 \in DOMAIN s /\ s[1] = ref
       /\ \A from : Ladder(from, s) => AnswerTo[ref] = from /\ Ladder(ref, t)
  <2> HIDE DEF m
  <2> QED
    BY <1>1, <1>2, <1>5, <1>9, Passed
<1>11. ReadingGenuine'
  BY <1>1, <1>7, <1>10 DEF ReadingGenuine, Descent
<1> HIDE DEF ref, s, t
<1>12. /\ Made(box') = Made(box) \cup {ref}
       /\ \A x \in Mids : x # ref => box'.parent[x] = box.parent[x]
       /\ \/ box'.parent[ref] = box.parent[ref]
          \/ prev # None /\ box.parent[ref] = None /\ box'.parent[ref] = prev
       /\ prev # None /\ box.parent[ref] = None /\ ref # prev /\ ~CreatesCycle(box, prev, ref)
             => box'.parent[ref] = prev
  BY <1>1, <1>2, <1>10, FollowEffect
<1>13. prev # None => prev \in Ancestors[ref]
  BY <1>9, <1>10
<1>14. Descended'
  BY <1>1, <1>8, <1>12, <1>13 DEF Descended
<1>15. ASSUME Full PROVE ReadingComplete' /\ Linked'
  <2>1. Ladder(prev, s)
    BY <1>1, <1>4, <1>8, <1>15 DEF ReadingComplete, s
  <2>2. AnswerTo[ref] = prev /\ Ladder(ref, t)
    BY <2>1, <1>10
  <2>3. ReadingComplete'
    BY <1>1, <1>7, <2>2 DEF ReadingComplete, Ladder, t
  <2>4. \A c \in Mids : box.parent[c] # None => box.parent[c] = AnswerTo[c]
    BY <1>1, <1>8, <1>15 DEF Linked
  <2>5. box'.parent[ref] = AnswerTo[ref]
    <3>1. CASE prev = None
      BY <3>1, <2>2, <2>4, <1>10, <1>12
    <3>2. CASE prev # None /\ box.parent[ref] = None
      <4>1. ref # prev /\ ~CreatesCycle(box, prev, ref)
        BY <3>2, <2>2, <2>4, <1>10, NoCircle
      <4> QED
        BY <3>2, <4>1, <2>2, <1>12
    <3>3. CASE box.parent[ref] # None
      BY <3>3, <2>4, <1>10, <1>12
    <3> QED
      BY <3>1, <3>2, <3>3
  <2>6. \A c \in Mids : box'.parent[c] # None => box'.parent[c] = AnswerTo[c]
    BY <2>4, <2>5, <1>12
  <2>7. Made(box) \subseteq Mids
    <3>1. box.made \in Seq(Mids)
      BY <1>2 DEF Boxes
    <3> QED
      BY <3>1, RangeWithin DEF Made
  <2>8. ASSUME NEW c \in Made(box'), AnswerTo[c] # None
        PROVE  \/ box'.parent[c] = AnswerTo[c]
               \/ box'.parent[c] = None /\ c = m
    <3>1. CASE c = ref
      BY <3>1, <2>5
    <3>2. CASE c # ref
      <4>1. c \in Made(box) /\ c \in Mids /\ box'.parent[c] = box.parent[c]
        BY <3>2, <2>7, <2>8, <1>12
      <4>2. \/ box.parent[c] = AnswerTo[c]
            \/ box.parent[c] = None /\ \E o \in rows : Reading(o) /\ c = emails[o].mid
        BY <4>1, <2>8, <1>8, <1>15 DEF Linked
      <4> QED
        BY <4>1, <4>2, <1>6
    <3> QED
      BY <3>1, <3>2
  <2> HIDE DEF m
  <2>9. \A c \in Made(box)' : AnswerTo[c] # None =>
           \/ box'.parent[c] = AnswerTo[c]
           \/ box'.parent[c] = None /\ \E o \in rows' : Reading(o)' /\ c = emails'[o].mid
    <3>1. Made(box)' = Made(box')
      BY DEF Made
    <3> QED
      BY <3>1, <2>8, <1>1, <1>4, <1>7 DEF m
  <2> QED
    BY <2>3, <2>6, <2>9, <1>1 DEF Linked
<1> QED
  BY <1>3, <1>11, <1>14, <1>15

\* The row hangs below the last of its chain.
LEMMA AttachAnswers ==
    ASSUME Told, AnswersKept, ThreaderAssumption, NEW id \in Ids, Attach(id)
    PROVE  AnswersKept'
<1> USE DEF Told
<1> SUFFICES ASSUME GenuineMail'
             PROVE  Descended' /\ ReadingGenuine' /\ (Full' => ReadingComplete' /\ Linked')
  BY DEF AnswersKept
<1> DEFINE m == emails[id].mid
           s == Append(chain, m)
<1>1. /\ phase = "chain" /\ phase' = "row" /\ chain = <<>> /\ id \in rows /\ Reading(id)
      /\ box' = LinkOrphan(box, prev, m)
      /\ UNCHANGED <<emails, merged>>
  BY DEF Attach, Reading
<1>2. /\ Scanning /\ box \in Boxes /\ (prev # None => prev \in Mids)
  BY DEF ThreadInv, ForestInv, Scanning, Sound
<1>3. GenuineMail /\ (Full' <=> Full)
  BY <1>1, SameMail
<1>4. id \in Rows /\ m \in Mids
  BY <1>1, <1>2, RowIsMail DEF Scanning
<1>5. \A o \in rows : Reading(o) <=> o = id
  BY <1>1, OneReading
<1>6. Descended /\ ReadingGenuine /\ (Full => ReadingComplete /\ Linked)
  BY <1>3 DEF AnswersKept
<1>7. 1 \in DOMAIN s /\ s[1] = m
  BY <1>1
<1>8. prev # None => prev \in Ancestors[m]
  <2>1. prev # None => \A k \in DOMAIN s : prev \in Ancestors[s[k]]
    BY <1>1, <1>6 DEF ReadingGenuine
  <2> HIDE DEF s
  <2> QED
    BY <2>1, <1>7
<1>9. Full => AnswerTo[m] = prev
  <2>1. Full => Ladder(prev, s)
    BY <1>1, <1>6 DEF ReadingComplete
  <2> HIDE DEF s
  <2> QED
    BY <2>1, <1>7 DEF Ladder
<1> HIDE DEF m, s
<1>10. /\ Made(box') = Made(box)
       /\ \A x \in Mids : x # m => box'.parent[x] = box.parent[x]
       /\ \/ box'.parent[m] = box.parent[m]
          \/ prev # None /\ box.parent[m] = None /\ box'.parent[m] = prev
       /\ prev # None /\ box.parent[m] = None /\ m # prev /\ ~CreatesCycle(box, prev, m)
             => box'.parent[m] = prev
  BY <1>1, <1>2, <1>4, OrphanEffect
<1>11. Descended'
  BY <1>1, <1>6, <1>8, <1>10 DEF Descended
<1>12. ReadingGenuine' /\ ReadingComplete'
  BY <1>1 DEF ReadingGenuine, ReadingComplete
<1>13. ASSUME Full PROVE Linked'
  <2>1. \A c \in Mids : box.parent[c] # None => box.parent[c] = AnswerTo[c]
    BY <1>1, <1>6, <1>13 DEF Linked
  <2>2. box'.parent[m] = AnswerTo[m]
    <3>1. CASE prev = None
      BY <3>1, <2>1, <1>4, <1>9, <1>10, <1>13
    <3>2. CASE prev # None /\ box.parent[m] = None
      <4>1. m # prev /\ ~CreatesCycle(box, prev, m)
        BY <3>2, <2>1, <1>4, <1>9, <1>13, NoCircle
      <4> QED
        BY <3>2, <4>1, <1>9, <1>10, <1>13
    <3>3. CASE box.parent[m] # None
      BY <3>3, <2>1, <1>4, <1>10
    <3> QED
      BY <3>1, <3>2, <3>3
  <2>3. \A c \in Mids : box'.parent[c] # None => box'.parent[c] = AnswerTo[c]
    BY <2>1, <2>2, <1>10
  <2>4. Made(box) \subseteq Mids
    <3>1. box.made \in Seq(Mids)
      BY <1>2 DEF Boxes
    <3> QED
      BY <3>1, RangeWithin DEF Made
  <2>5. ASSUME NEW c \in Made(box), AnswerTo[c] # None PROVE box'.parent[c] = AnswerTo[c]
    <3>1. CASE c = m
      BY <3>1, <2>2
    <3>2. CASE c # m
      <4>1. c \in Mids /\ box'.parent[c] = box.parent[c]
        BY <3>2, <2>4, <2>5, <1>10
      <4>2. \/ box.parent[c] = AnswerTo[c]
            \/ \E o \in rows : Reading(o) /\ c = emails[o].mid
        BY <2>5, <1>6, <1>13 DEF Linked
      <4> QED
        BY <3>2, <4>1, <4>2, <1>5 DEF m
    <3> QED
      BY <3>1, <3>2
  <2>6. Made(box)' = Made(box')
    BY DEF Made
  <2> QED
    BY <2>3, <2>5, <2>6, <1>10 DEF Linked
<1> QED
  BY <1>3, <1>11, <1>12, <1>13

\* Looking at subjects links roots only.
LEMMA SubjectAnswers ==
    ASSUME Told, AnswersKept, ThreaderAssumption, GatherRoots \/ \E m \in Mids : MergeRoot(m)
    PROVE  AnswersKept'
<1> USE DEF Told
<1> SUFFICES ASSUME GenuineMail'
             PROVE  Descended' /\ ReadingGenuine' /\ (Full' => ReadingComplete' /\ Linked')
  BY DEF AnswersKept
<1>1. phase' = "subject" /\ emails' = emails
  BY DEF GatherRoots, MergeRoot
<1>2. GenuineMail /\ (Full' <=> Full)
  BY <1>1, SameMail
<1>3. Descended /\ ReadingGenuine /\ (Full => ReadingComplete /\ Linked)
  BY <1>2 DEF AnswersKept
<1>4. ReadingGenuine' /\ ReadingComplete'
  BY <1>1 DEF ReadingGenuine, ReadingComplete
<1>5. CASE GatherRoots
  <2>1. phase = "row" /\ box' = box /\ Made(box)' = Made(box)
    BY <1>5 DEF GatherRoots, Made
  <2>2. Descended'
    BY <2>1, <1>3 DEF Descended
  <2>3. Linked => Linked'
    BY <2>1, <1>1 DEF Linked
  <2> QED
    BY <2>2, <2>3, <1>2, <1>3, <1>4
<1>6. ASSUME NEW m \in Mids, MergeRoot(m)
      PROVE  Descended' /\ (Linked => Linked')
  <2>1. phase = "subject" /\ m \in roots
    BY <1>6 DEF MergeRoot, IsFirst
  <2>2. /\ Sound(box) /\ box \in Boxes /\ merged \in Seq(Mids) /\ RootsSplit
    BY <2>1 DEF ThreadInv, ForestInv, Scanning, Sound, Progress
  <2>3. box.parent[m] = None
    BY <2>1, <2>2 DEF RootsSplit, Roots
  <2>4. CASE Anchors(box, merged, m) = {}
    <3>1. box' = box /\ merged' = Append(merged, m)
      BY <1>6, <2>4 DEF MergeRoot
    <3>2. Range(merged') = Range(merged) \cup {m}
      BY <3>1, <2>2, Appended
    <3>3. Range(merged)' = Range(merged') /\ Made(box)' = Made(box)
          /\ \A c : Subject(box, c)' = Subject(box, c)
      BY <3>1, <1>1 DEF Range, Made, Subject, Real
    <3>4. Descended'
      BY <3>1, <3>2, <3>3, <1>1, <1>3, <2>1 DEF Descended
    <3> QED
      BY <3>1, <3>3, <3>4, <1>1, <2>1 DEF Linked
  <2>5. CASE Anchors(box, merged, m) # {}
    <3>1. PICK a \in Anchors(box, merged, m) : box' = Link(box, a, m) /\ merged' = merged
      BY <1>6, <2>5 DEF MergeRoot
    <3>2. /\ a \in Range(merged) /\ Subject(box, a) = Subject(box, m) /\ Subject(box, m) # None
      BY <3>1 DEF Anchors
    <3>3. a \in Mids
      BY <3>2, <2>2, RangeWithin
    <3>4. /\ box'.row = box.row /\ box'.made = box.made
          /\ box'.parent \in {box.parent, [box.parent EXCEPT ![m] = a]}
      <4> DEFINE d == Link(box, a, m)
      <4>1. box \in Boxes /\ a \in Mids /\ m \in Mids
        BY <3>3, <2>2, <1>6
      <4>2. /\ d.row = box.row /\ d.made = box.made
            /\ d.parent \in {box.parent, [box.parent EXCEPT ![m] = a]}
        BY ONLY <4>1, LinkEffect
      <4> HIDE DEF d
      <4> QED
        BY <4>2, <3>1 DEF d
    <3>5. box.parent \in [Mids -> Mids \cup {None}]
      BY <2>2 DEF Boxes
    <3>6. /\ \A c \in Mids : c # m => box'.parent[c] = box.parent[c]
          /\ box'.parent[m] = None \/ box'.parent[m] = a
      BY <3>4, <3>5, <2>3
    <3>7. Range(merged)' = Range(merged) /\ Made(box)' = Made(box)
          /\ \A c, d : Subject(box', c) = Subject(box, c)
      BY <3>1, <3>4 DEF Range, Made, Subject, Real
    <3>8. \A c : Subject(box, c)' = Subject(box, c)
      BY <3>4, <1>1 DEF Subject, Real
    <3>9. Descended'
      <4>1. ASSUME NEW c \in Mids, box'.parent[c] # None
            PROVE  \/ box'.parent[c] \in Ancestors[c]
                   \/ /\ box'.parent[c] \in Range(merged)
                      /\ Subject(box, c) # None
                      /\ Subject(box, box'.parent[c]) = Subject(box, c)
        <5>1. CASE c = m
          BY <5>1, <4>1, <3>2, <3>6
        <5>2. CASE c # m
          BY <5>2, <4>1, <3>6, <1>3 DEF Descended
        <5> QED
          BY <5>1, <5>2
      <4>2. \A c \in Mids : Subject(box, box.parent[c])' = Subject(box, box'.parent[c])
        BY <3>4, <1>1 DEF Subject, Real
      <4> QED
        BY <4>1, <4>2, <3>7, <3>8, <1>1 DEF Descended
    <3>10. Linked => Linked'
      <4>1. Made(box) \subseteq Mids
        <5>1. box.made \in Seq(Mids)
          BY <2>2 DEF Boxes
        <5> QED
          BY <5>1, RangeWithin DEF Made
      <4>2. ASSUME Linked, NEW c \in Made(box), AnswerTo[c] # None
            PROVE  box'.parent[c] = AnswerTo[c]
        <5>1. box.parent[c] = AnswerTo[c]
          BY <4>2, <2>1 DEF Linked
        <5>2. c # m
          BY <5>1, <4>2, <2>3
        <5> QED
          BY <5>1, <5>2, <4>1, <4>2, <3>6
      <4> QED
        BY <4>2, <3>7, <1>1 DEF Linked
    <3> QED
      BY <3>9, <3>10
  <2> QED
    BY <2>4, <2>5
<1> QED
  BY <1>2, <1>3, <1>4, <1>5, <1>6

\* Every step keeps what has been read of a header and linked by it.
LEMMA AnswersStep ==
    ASSUME Told, Told', AnswersKept, ThreaderAssumption, [Next]_vars
    PROVE  AnswersKept'
<1>1. CASE (\E r \in Mail : Index(r)) \/ (\E id \in Ids : Delete(id)) \/ Number \/ EndEarly
  <2>1. phase' = "idle"
    BY <1>1 DEF Index, Delete, Number, EndEarly
  <2>2. box' = NoContainers
    BY <2>1 DEF Told, ThreadInv, Progress
  <2> QED
    BY <2>1, <2>2, NothingReadNext
<1>2. CASE Start
  <2>1. phase' # "chain" /\ box' = NoContainers
    BY <1>2 DEF Start, Told, ThreadInv, Progress
  <2> QED
    BY <2>1, NothingReadNext
<1>3. CASE \E id \in Ids : TakeRow(id) \/ Attach(id)
  BY <1>3, TakeAnswers, AttachAnswers
<1>4. CASE FollowRef
  BY <1>4, FollowAnswers
<1>5. CASE GatherRoots \/ \E m \in Mids : MergeRoot(m)
  BY <1>5, SubjectAnswers
<1>6. CASE UNCHANGED vars
  <2>1. UNCHANGED <<emails, phase, rows, chain, prev, box, merged>>
    BY <1>6 DEF vars
  <2>2. (GenuineMail' <=> GenuineMail) /\ (Full' <=> Full)
    BY <2>1, SameMail
  <2>3. Descended' <=> Descended
    BY <2>1 DEF Descended, Subject, Real, Range
  <2>4. \A id : Reading(id)' <=> Reading(id)
    BY <2>1 DEF Reading
  <2>5. ReadingGenuine' <=> ReadingGenuine
    BY <2>1, <2>4 DEF ReadingGenuine, Descent
  <2>6. ReadingComplete' <=> ReadingComplete
    <3>1. \A id : Ladder(prev, Append(chain, emails[id].mid))'
                      <=> Ladder(prev, Append(chain, emails[id].mid))
      BY <2>1 DEF Ladder
    <3> QED
      BY <2>1, <2>4, <3>1 DEF ReadingComplete
  <2>7. Linked' <=> Linked
    BY <2>1, <2>4 DEF Linked, Made, Range
  <2> QED
    BY <2>2, <2>3, <2>5, <2>6, <2>7 DEF AnswersKept
<1> QED
  BY <1>1, <1>2, <1>3, <1>4, <1>5, <1>6 DEF Next, Threading

\* A message and what it answers, directly or not.
Line(x) == {x} \cup Ancestors[x]

\* The root above a message is of its line or has the subject of one of it.
LEMMA RootKin ==
    ASSUME Told, ThreaderAssumption, phase = "subject", Descended,
           NEW r \in Roots(box), NEW x \in Tribe(box, r)
    PROVE  \/ r \in Line(x)
           \/ \E y \in Line(x) : Subject(box, y) # None /\ Subject(box, r) = Subject(box, y)
<1>1. /\ Sound(box) /\ MadeWhole(box) /\ RootsSplit
  BY DEF Told, ThreadInv, ForestInv, Progress
<1>2. x \in Mids /\ Under(box, x, r)
  BY <1>1, TribesShare DEF Tribe
<1> DEFINE kin(z) == \E y \in Line(x) : Subject(box, y) # None /\ Subject(box, z) = Subject(box, y)
           S == {z \in Mids : z \in Line(x) \/ (z \in Range(merged) /\ kin(z))}
<1>3. Line(x) \subseteq Mids /\ x \in Line(x) /\ \A z \in Line(x) : Ancestors[z] \subseteq Line(x)
  BY <1>2, Ancestry DEF Line
<1>4. box.parent \in [Mids -> Mids \cup {None}]
  BY <1>1 DEF Sound, Boxes
<1>5. ASSUME NEW z \in S, box.parent[z] # None PROVE box.parent[z] \in S
  <2>1. box.parent[z] \in Mids
    BY <1>4, <1>5
  <2>2. CASE z \in Line(x)
    <3>1. CASE box.parent[z] \in Ancestors[z]
      BY <2>1, <2>2, <3>1, <1>3
    <3>2. CASE box.parent[z] \notin Ancestors[z]
      <4>1. /\ box.parent[z] \in Range(merged) /\ Subject(box, z) # None
            /\ Subject(box, box.parent[z]) = Subject(box, z)
        BY <3>2, <1>5 DEF Descended
      <4> QED
        BY <4>1, <2>1, <2>2
    <3> QED
      BY <3>1, <3>2
  <2>3. CASE z \in Range(merged)
    <3>1. box.parent[z] = None
      BY <2>3, <1>1 DEF RootsSplit, Roots
    <3> QED
      BY <3>1, <1>5
  <2> QED
    BY <2>2, <2>3, <1>5
<1>6. S \subseteq Mids /\ x \in S
  BY <1>2, <1>3
<1> HIDE DEF S
<1>7. S \in Upward(box)
  BY <1>5, <1>6 DEF Upward
<1>8. r \in S
  BY <1>2, <1>6, <1>7 DEF Under, CreatesCycle
<1> QED
  BY <1>8 DEF S

\* With complete headers a message hangs where all of its line hangs.
LEMMA LineTogether ==
    ASSUME Told, ThreaderAssumption, phase = "subject", Linked,
           NEW x \in Made(box), NEW a \in Line(x)
    PROVE  a \in Made(box) /\ \A r \in Roots(box) : a \in Tribe(box, r) <=> x \in Tribe(box, r)
<1>1. /\ Sound(box) /\ MadeWhole(box)
  BY DEF Told, ThreadInv, ForestInv, Progress
<1>2. /\ Made(box) \subseteq Mids
      /\ \A z \in Made(box) : \E r \in Roots(box) : z \in Tribe(box, r)
      /\ \A r, q \in Roots(box) : \A z : z \in Tribe(box, r) /\ z \in Tribe(box, q) => r = q
      /\ Roots(box) \subseteq Made(box)
  BY <1>1, TribesShare
<1>3. /\ box.parent \in [Mids -> Mids \cup {None}] /\ None \notin Mids
  BY <1>1 DEF Sound, Boxes, ThreaderAssumption
<1>4. /\ \A m \in Mids : Under(box, m, m)
      /\ \A z, m \in Mids : Under(box, z, m) /\ box.parent[m] # None => Under(box, z, box.parent[m])
      /\ \A p, y, z \in Mids : Under(box, p, y) /\ Under(box, y, z) => Under(box, p, z)
  BY <1>3, Lineage
<1> DEFINE S == {z \in Made(box) : Under(box, x, z)}
<1>5. ASSUME NEW z \in S, AnswerTo[z] # None PROVE AnswerTo[z] \in S
  <2>1. box.parent[z] = AnswerTo[z]
    BY <1>5 DEF Linked
  <2>2. box.parent[z] \in Made(box) /\ z \in Mids
    BY <2>1, <1>1, <1>2, <1>5 DEF MadeWhole
  <2> QED
    BY <2>1, <2>2, <1>2, <1>4, <1>5
<1>6. S \subseteq Mids /\ x \in S
  BY <1>2, <1>4
<1>7. a \in S
  <2> HIDE DEF S
  <2>1. Ancestors[x] \subseteq S
    BY <1>5, <1>6, Ancestry
  <2> QED
    BY <2>1, <1>6 DEF Line
<1>8. a \in Made(box) /\ Under(box, x, a)
  BY <1>7
<1>9. \A r \in Roots(box) : a \in Tribe(box, r) => x \in Tribe(box, r)
  BY <1>2, <1>4, <1>8 DEF Tribe
<1>10. ASSUME NEW r \in Roots(box), x \in Tribe(box, r) PROVE a \in Tribe(box, r)
  <2>1. PICK q \in Roots(box) : a \in Tribe(box, q)
    BY <1>2, <1>8
  <2>2. q = r
    BY <2>1, <1>2, <1>9, <1>10
  <2> QED
    BY <2>1, <2>2
<1> QED
  BY <1>8, <1>9, <1>10

\* The numbers bring conversations together.
LEMMA NumberTogether ==
    ASSUME Told, AnswersKept, ThreaderAssumption, Number, GenuineMail,
           NEW i \in Rows, NEW j \in Rows, Placed(i), Placed(j)
    PROVE  /\ stored'[i].thread = stored'[j].thread =>
                 \E k, l \in Rows : /\ SameConversation(emails[i].mid, emails[k].mid)
                                    /\ SameConversation(emails[j].mid, emails[l].mid)
                                    /\ \/ k = l
                                       \/ emails[k].subj = emails[l].subj /\ emails[k].subj # None
           /\ Full /\ SameConversation(emails[i].mid, emails[j].mid)
                 => stored'[i].thread = stored'[j].thread
<1> USE DEF Told
<1> DEFINE m == emails[i].mid
           n == emails[j].mid
           Twine(t) == \E r \in Roots(box) : m \in Tribe(box, r) /\ n \in Tribe(box, r)
<1>1. /\ phase = "subject" /\ rows = {} /\ Scanning /\ HoldsLast /\ MadeWhole(box) /\ Sound(box)
      /\ Rows \subseteq Ids
  BY DEF Number, ThreadInv, ForestInv, Scanning, Progress, Rows
<1>2. LastHeld(box)
  BY NumberWrites
<1>3. /\ m \in Mids /\ n \in Mids /\ box.row[m] = i /\ box.row[n] = j
  BY <1>1, <1>2, RowIsMail DEF LastHeld
<1>4. 0 \notin Rows
  BY DEF Rows, Ids
<1>5. Real(box, m) /\ Real(box, n)
  BY <1>3, <1>4 DEF Real
<1>6. stored'[i].thread = stored'[j].thread
         <=> \E r \in Roots(box) : m \in Tribe(box, r) /\ n \in Tribe(box, r)
  <2> HIDE DEF m, n
  <2>1. stored'[box.row[m]].thread = stored'[box.row[n]].thread
           <=> \E r \in Roots(box) : m \in Tribe(box, r) /\ n \in Tribe(box, r)
    BY <1>3, <1>5, NumberWrites
  <2> QED
    BY <2>1, <1>3
<1>7. Descended /\ (Full => Linked)
  BY DEF AnswersKept
<1>8. m \in Made(box) /\ n \in Made(box)
  BY <1>1, <1>3, <1>5 DEF MadeWhole
<1>9. \A x, y : SameConversation(x, y) <=> Line(x) \cap Line(y) # {}
  BY DEF SameConversation, Line
<1>10. \A y \in Mids : Subject(box, y) # None =>
          /\ box.row[y] \in Rows /\ emails[box.row[y]].mid = y
          /\ emails[box.row[y]].subj = Subject(box, y)
  BY <1>1 DEF Subject, HoldsLast, Done
<1>11. \A y : y \in Line(y)
  BY DEF Line
<1>12. Line(m) \subseteq Mids /\ Line(n) \subseteq Mids
  BY <1>3, Ancestry DEF Line
<1> HIDE DEF m, n
<1>13. ASSUME NEW r \in Roots(box), m \in Tribe(box, r), n \in Tribe(box, r)
       PROVE  \E k, l \in Rows : /\ SameConversation(m, emails[k].mid)
                                 /\ SameConversation(n, emails[l].mid)
                                 /\ \/ k = l
                                    \/ emails[k].subj = emails[l].subj /\ emails[k].subj # None
  <2>1. \/ r \in Line(m)
        \/ \E y \in Line(m) : Subject(box, y) # None /\ Subject(box, r) = Subject(box, y)
    BY <1>1, <1>7, <1>13, RootKin
  <2>2. \/ r \in Line(n)
        \/ \E y \in Line(n) : Subject(box, y) # None /\ Subject(box, r) = Subject(box, y)
    BY <1>1, <1>7, <1>13, RootKin
  <2>3. r \in Mids
    BY <1>1, TribesShare
  <2>4. CASE r \in Line(m) /\ r \in Line(n)
    <3>1. SameConversation(m, m) /\ SameConversation(n, m)
      BY <2>4, <1>9
    <3>2. emails[i].mid = m
      BY DEF m
    <3> QED
      BY <3>1, <3>2
  <2>5. CASE r \notin Line(m) \/ r \notin Line(n)
    <3>1. Subject(box, r) # None
      BY <2>1, <2>2, <2>5
    <3>2. PICK y \in Line(m) : Subject(box, y) # None /\ Subject(box, r) = Subject(box, y)
      BY <2>1, <3>1
    <3>3. PICK z \in Line(n) : Subject(box, z) # None /\ Subject(box, r) = Subject(box, z)
      BY <2>2, <3>1
    <3>4. /\ box.row[y] \in Rows /\ emails[box.row[y]].mid = y
          /\ box.row[z] \in Rows /\ emails[box.row[z]].mid = z
          /\ emails[box.row[y]].subj = emails[box.row[z]].subj
          /\ emails[box.row[y]].subj # None
      BY <3>2, <3>3, <1>10, <1>12
    <3>5. SameConversation(m, y) /\ SameConversation(n, z)
      BY <3>2, <3>3, <1>9, <1>11
    <3> QED
      BY <3>4, <3>5
  <2> QED
    BY <2>4, <2>5
<1>14. ASSUME Full, SameConversation(m, n)
       PROVE  \E r \in Roots(box) : m \in Tribe(box, r) /\ n \in Tribe(box, r)
  <2>1. PICK a : a \in Line(m) /\ a \in Line(n)
    BY <1>9, <1>14
  <2>2. \A r \in Roots(box) : a \in Tribe(box, r) <=> m \in Tribe(box, r)
    BY <2>1, <1>1, <1>7, <1>8, <1>14, LineTogether
  <2>3. \A r \in Roots(box) : a \in Tribe(box, r) <=> n \in Tribe(box, r)
    BY <2>1, <1>1, <1>7, <1>8, <1>14, LineTogether
  <2>4. PICK r \in Roots(box) : m \in Tribe(box, r)
    BY <1>1, <1>8, TribesShare
  <2> QED
    BY <2>2, <2>3, <2>4
<1> QED
  BY <1>6, <1>13, <1>14 DEF m, n

\* With genuine headers, of any number of rows that come and go in any order,
\* every threading brings conversations together: a thread holds one, or
\* several with a subject in common, and complete headers leave none apart
\* (index_threads).
THEOREM ComeTogether == Spec => []ConversationsComeTogether
<1> DEFINE Inv == Told /\ AnswersKept /\ ConversationsComeTogether
<1>1. Init => Inv
  <2> SUFFICES ASSUME Init PROVE Inv
    OBVIOUS
  <2>1. Told
    BY ToldInit, ThreaderAssumption
  <2>2. AnswersKept
    BY NothingRead, ThreaderAssumption DEF Init
  <2>3. Rows = {}
    BY DEF Init, Rows
  <2> QED
    BY <2>1, <2>2, <2>3 DEF ConversationsComeTogether
<1>2. Inv /\ [Next]_vars => Inv'
  <2> SUFFICES ASSUME Inv, [Next]_vars PROVE Inv'
    OBVIOUS
  <2>1. Told'
    BY ThreadStep, ToldKeeps, ThreaderAssumption DEF Told
  <2>2. AnswersKept'
    BY <2>1, AnswersStep, ThreaderAssumption
  <2>3. CASE Number
    <3>1. emails' = emails
      BY <2>3 DEF Number
    <3>2. (GenuineMail' <=> GenuineMail) /\ (Full' <=> Full) /\ Rows' = Rows
      BY <3>1, SameMail
    <3>3. \A id : Placed(id)' <=> Placed(id)
      BY <3>1, <3>2 DEF Placed
    <3>4. \A i, j \in Rows : GenuineMail /\ Placed(i) /\ Placed(j) =>
             /\ stored'[i].thread = stored'[j].thread =>
                   \E k, l \in Rows : /\ SameConversation(emails[i].mid, emails[k].mid)
                                      /\ SameConversation(emails[j].mid, emails[l].mid)
                                      /\ \/ k = l
                                         \/ emails[k].subj = emails[l].subj /\ emails[k].subj # None
             /\ Full /\ SameConversation(emails[i].mid, emails[j].mid)
                   => stored'[i].thread = stored'[j].thread
      BY <2>3, NumberTogether, ThreaderAssumption
    <3>5. Full' <=> \A id \in Rows : Complete(emails'[id])
      BY <3>1, <3>2 DEF Full
    <3>6. ConversationsComeTogether'
      BY <3>1, <3>2, <3>3, <3>4, <3>5 DEF ConversationsComeTogether
    <3> QED
      BY <2>1, <2>2, <3>6
  <2>4. CASE Next /\ ~Number
    <3>1. dirty'
      BY <2>4 DEF Next, Threading, Index, Delete, Start, TakeRow, FollowRef, Attach, GatherRoots,
                  MergeRoot, EndEarly, Told, ThreadInv, Progress, Indexed
    <3> QED
      BY <2>1, <2>2, <3>1 DEF ConversationsComeTogether, Settled
  <2>5. CASE UNCHANGED vars
    <3>1. UNCHANGED <<emails, stored, phase, dirty>>
      BY <2>5 DEF vars
    <3>2. (GenuineMail' <=> GenuineMail) /\ (Full' <=> Full) /\ Rows' = Rows
      BY <3>1, SameMail
    <3>3. \A id : Placed(id)' <=> Placed(id)
      BY <3>1, <3>2 DEF Placed
    <3>4. ConversationsComeTogether'
      BY <3>1, <3>2, <3>3 DEF ConversationsComeTogether, Settled
    <3> QED
      BY <2>1, <2>2, <3>4
  <2> QED
    BY <2>3, <2>4, <2>5
<1>3. Inv => ConversationsComeTogether
  OBVIOUS
<1> QED
  BY <1>1, <1>2, <1>3, PTL DEF Spec

-----------------------------------------------------------------------------
(*****************************************************************************)
(* Unbroken headers                                                        *)
(*****************************************************************************)
\* What a header names, its message last.
Names(r) == Append(Chain(r), r.mid)

\* Every link is from a message to one that answers it.
Mended(b) == \A c \in Mids : b.parent[c] # None => b.parent[c] = AnswerTo[c]

\* The first of some names hang below each other.
Hung(b, s, n) == \A k \in 2..n : b.parent[s[k]] = s[k - 1]

\* The names of an unbroken header: those of its chain, then its message.
LEMMA UnbrokenNames ==
    ASSUME ThreaderAssumption, NEW r \in RowType, Unbroken(r),
           NEW s, s = Names(r), NEW n, n = Len(Chain(r))
    PROVE  /\ Chain(r) \in Seq(Mids) /\ n \in Nat
           /\ s \in Seq(Mids) /\ Len(s) = n + 1 /\ s[n + 1] = r.mid
           /\ \A k \in 1..n : s[k] = Chain(r)[k] /\ s[k] \in Mids
           /\ Range(s) = Range(Chain(r)) \cup {r.mid}
           /\ \A k \in 2..(n + 1) : AnswerTo[s[k]] = s[k - 1]
<1>1. r.mid \in Mids /\ r.refs \in Seq(Mids) /\ r.reply \in Mids \cup {None}
  BY DEF RowType
<1>2. Chain(r) \in Seq(Mids)
  <2>1. r.reply # None => Append(r.refs, r.reply) \in Seq(Mids)
    BY <1>1
  <2> QED
    BY <1>1, <2>1 DEF Chain
<1> DEFINE c == Chain(r)
<1>3. s = Append(c, r.mid) /\ c \in Seq(Mids) /\ n = Len(c)
  BY <1>2 DEF Names
<1>4. \A k \in 2..Len(s) : AnswerTo[s[k]] = s[k - 1]
  BY DEF Unbroken, Names
<1> HIDE DEF c
<1>5. /\ s \in Seq(Mids) /\ n \in Nat /\ \A k \in 1..n : s[k] = c[k] /\ c[k] \in Mids
      /\ s[n + 1] = r.mid /\ Range(s) = Range(c) \cup {r.mid}
  BY <1>1, <1>3, Appended
<1>6. Len(s) = n + 1
  BY <1>1, <1>3
<1> QED
  BY <1>3, <1>4, <1>5, <1>6 DEF c

\* A link to what is answered is made, and no other.
LEMMA OneLink ==
    ASSUME ThreaderAssumption, NEW b \in Boxes, Mended(b), NEW c \in Mids,
           NEW from, from # None => from \in Mids /\ AnswerTo[c] = from,
           NEW d, d = Follow(b, from, c) \/ d = LinkOrphan(b, from, c)
    PROVE  /\ Mended(d)
           /\ \A x \in Mids : b.parent[x] # None => d.parent[x] = b.parent[x]
           /\ \A x \in Mids : d.parent[x] # b.parent[x] => x = c /\ from # None
           /\ from # None => d.parent[c] = from
           /\ d.row = b.row /\ Made(d) \cup {c} = Made(b) \cup {c}
<1>1. /\ d.row = b.row /\ Made(d) \cup {c} = Made(b) \cup {c}
      /\ \A x \in Mids : x # c => d.parent[x] = b.parent[x]
      /\ \/ d.parent[c] = b.parent[c]
         \/ from # None /\ b.parent[c] = None /\ d.parent[c] = from
      /\ from # None /\ b.parent[c] = None /\ c # from /\ ~CreatesCycle(b, from, c)
            => d.parent[c] = from
  <2>1. CASE d = Follow(b, from, c)
    BY <2>1, FollowEffect
  <2>2. CASE d = LinkOrphan(b, from, c)
    BY <2>2, OrphanEffect
  <2> QED
    BY <2>1, <2>2
<1>2. from # None => c # from /\ ~CreatesCycle(b, from, c)
  BY NoCircle DEF Mended
<1>3. from # None => d.parent[c] = from
  <2>1. from # None /\ b.parent[c] # None => b.parent[c] = from
    BY DEF Mended
  <2> QED
    BY <1>1, <1>2, <2>1
<1> QED
  BY <1>1, <1>3 DEF Mended

\* The boxes met while a chain is followed.
Follows(at, b, id, refs) ==
    /\ at[0] = Take(b, id)
    /\ \A n \in 1..Len(refs) : at[n] = Follow(at[n - 1], IF n = 1 THEN None ELSE refs[n - 1], refs[n])

\* Following a chain is a step for every name of it.
LEMMA ChainFollowed ==
    ASSUME ThreaderAssumption, NEW b, Sound(b), NEW id \in Ids, emails[id].mid \in Mids,
           NEW refs \in Seq(Mids)
    PROVE  \E at : /\ Follows(at, b, id, refs)
                   /\ Followed(b, id, refs) =
                         LinkOrphan(at[Len(refs)],
                                    IF refs = <<>> THEN None ELSE refs[Len(refs)], emails[id].mid)
<1> DEFINE N == Len(refs)
           V == {v \in Boxes : Sound(v)}
           first == Take(b, id)
           From(n) == IF n = 1 THEN None ELSE refs[n - 1]
           step == [n \in 1..N |-> [v \in V |-> Follow(v, From(n), refs[n])]]
           RightFor(g) == g = [n \in 0..N |-> IF n = 0 THEN Take(b, id)
                                 ELSE Follow(g[n - 1], IF n = 1 THEN None ELSE refs[n - 1], refs[n])]
<1>1. N \in Nat /\ \A n \in 1..N : refs[n] \in Mids
  OBVIOUS
<1>2. \A n \in 1..N : From(n) \in Mids \cup {None}
  BY <1>1
<1>3. first \in V
  BY TakeSound DEF Sound
<1> HIDE DEF N, From
<1>4. step \in [1..N -> [V -> V]]
  <2>1. ASSUME NEW n \in 1..N, NEW v \in V PROVE Follow(v, From(n), refs[n]) \in V
    <3>1. Sound(Follow(v, From(n), refs[n]))
      BY <1>1, <1>2, FollowSound
    <3> QED
      BY <3>1 DEF Sound
  <2> QED
    BY <2>1
<1>5. PICK f : f \in [0..N -> V] /\ f[0] = first /\ \A n \in 1..N : f[n] = step[n][f[n - 1]]
  <2> HIDE DEF step, first, V
  <2>1. \E f : Iterates(f, N, V, first, step)
    BY <1>1, <1>3, <1>4, Iterated
  <2> QED
    BY <2>1 DEF Iterates
<1>6. RightFor(f)
  <2> DEFINE R(n) == IF n = 0 THEN Take(b, id)
                     ELSE Follow(f[n - 1], IF n = 1 THEN None ELSE refs[n - 1], refs[n])
  <2>1. ASSUME NEW n \in 0..N PROVE f[n] = R(n)
    <3>1. CASE n = 0
      BY <3>1, <1>5
    <3>2. CASE n # 0
      <4>1. n \in 1..N /\ n - 1 \in 0..N
        BY <3>2, <1>1
      <4>2. f[n - 1] \in V
        BY <4>1, <1>5
      <4>3. f[n] = Follow(f[n - 1], From(n), refs[n])
        <5> HIDE DEF V
        <5> QED
          BY <4>1, <4>2, <1>5
      <4> QED
        BY <4>3, <3>2 DEF From
    <3> QED
      BY <3>1, <3>2
  <2> HIDE DEF R
  <2>2. f = [n \in 0..N |-> R(n)]
    <3> HIDE DEF V
    <3> QED
      BY <2>1, <1>5
  <2> QED
    BY <2>2 DEF R
<1> DEFINE at == CHOOSE g : RightFor(g)
<1>7. RightFor(at)
  <2> HIDE DEF RightFor
  <2> QED
    BY <1>6
<1>8. Followed(b, id, refs) = LinkOrphan(at[N], IF refs = <<>> THEN None ELSE refs[N], emails[id].mid)
  BY DEF Followed, N
<1> HIDE DEF at
<1>9. \A n \in 0..N : at[n] = IF n = 0 THEN Take(b, id)
                        ELSE Follow(at[n - 1], IF n = 1 THEN None ELSE refs[n - 1], refs[n])
  BY <1>7
<1>10. 0 \in 0..N /\ \A n \in 1..N : n \in 0..N /\ n # 0
  BY <1>1
<1>11. Follows(at, b, id, refs)
  BY <1>9, <1>10 DEF Follows, N
<1> QED
  BY <1>8, <1>11 DEF N

\* Reading a row: its chain hangs together after it, and what hung before still
\* hangs where it did.
LEMMA RowRead ==
    ASSUME ThreaderAssumption, NEW b, Sound(b), MadeWhole(b), Mended(b),
           NEW id \in Ids, emails[id] \in RowType, Unbroken(emails[id]),
           NEW s, s = Names(emails[id]), NEW d, d = ReadRow(b, id)
    PROVE  /\ Sound(d) /\ MadeWhole(d) /\ Mended(d)
           /\ \A x \in Mids : b.parent[x] # None => d.parent[x] = b.parent[x]
           /\ Hung(d, s, Len(s))
           /\ Made(d) = Made(b) \cup Range(s)
           /\ d.row = [b.row EXCEPT ![emails[id].mid] = id]
<1> DEFINE r == emails[id]
           refs == Chain(r)
           N == Len(refs)
           m == r.mid
           last == IF refs = <<>> THEN None ELSE refs[N]
<1>1. /\ refs \in Seq(Mids) /\ N \in Nat
      /\ s \in Seq(Mids) /\ Len(s) = N + 1 /\ s[N + 1] = m
      /\ \A k \in 1..N : s[k] = refs[k] /\ s[k] \in Mids
      /\ Range(s) = Range(refs) \cup {m}
      /\ \A k \in 2..(N + 1) : AnswerTo[s[k]] = s[k - 1]
  <2>1. r \in RowType /\ Unbroken(r) /\ s = Names(r) /\ m = r.mid /\ N = Len(Chain(r))
        /\ refs = Chain(r) /\ ThreaderAssumption
    OBVIOUS
  <2> HIDE DEF r, refs, N, m
  <2>2. /\ Chain(r) \in Seq(Mids) /\ N \in Nat
        /\ s \in Seq(Mids) /\ Len(s) = N + 1 /\ s[N + 1] = r.mid
        /\ \A k \in 1..N : s[k] = Chain(r)[k] /\ s[k] \in Mids
        /\ Range(s) = Range(Chain(r)) \cup {r.mid}
        /\ \A k \in 2..(N + 1) : AnswerTo[s[k]] = s[k - 1]
    BY ONLY <2>1, UnbrokenNames
  <2> QED
    BY <2>1, <2>2
<1>2. m \in Mids
  BY DEF RowType
<1> HIDE DEF m
<1>3. PICK at : /\ Follows(at, b, id, refs)
                /\ Followed(b, id, refs) = LinkOrphan(at[N], last, m)
  <2>1. \E at : /\ Follows(at, b, id, refs)
                /\ Followed(b, id, refs) =
                      LinkOrphan(at[Len(refs)],
                                 IF refs = <<>> THEN None ELSE refs[Len(refs)], emails[id].mid)
    <3> HIDE DEF refs
    <3> QED
      BY <1>1, <1>2, ChainFollowed DEF m
  <2> QED
    BY <2>1 DEF m
<1>4. d = LinkOrphan(at[N], last, m)
  BY <1>3 DEF ReadRow
<1>5. /\ at[0] = Take(b, id)
      /\ \A n \in 1..N : at[n] = Follow(at[n - 1], IF n = 1 THEN None ELSE refs[n - 1], refs[n])
  BY <1>3 DEF Follows
<1>6. N = 0 <=> refs = <<>>
  BY <1>1
<1> HIDE DEF refs, N
<1> DEFINE Good(n) ==
             /\ Sound(at[n]) /\ MadeWhole(at[n]) /\ Mended(at[n])
             /\ \A x \in Mids : b.parent[x] # None => at[n].parent[x] = b.parent[x]
             /\ Hung(at[n], s, n)
             /\ Made(at[n]) = (Made(b) \cup {m}) \cup {s[k] : k \in 1..n}
             /\ at[n].row = [b.row EXCEPT ![m] = id]
           P == {n \in 0..N : Good(n)}
<1>7. Good(0)
  <2>1. b \in Boxes /\ emails[id].mid = m
    BY DEF Sound, m
  <2>2. /\ at[0].row = [b.row EXCEPT ![m] = id] /\ at[0].parent = b.parent
        /\ Made(at[0]) = Made(b) \cup {m}
    BY <1>2, <1>5, <2>1, TakeEffect
  <2>3. Sound(at[0])
    BY <1>2, <1>5, <2>1, TakeSound
  <2>4. MadeWhole(at[0])
    <3>1. b.row \in [Mids -> Ids \cup {0}]
      BY <2>1 DEF Boxes
    <3> QED
      BY <3>1, <2>2 DEF MadeWhole, Real
  <2>5. Mended(at[0])
    BY <2>2 DEF Mended
  <2>6. Hung(at[0], s, 0) /\ {s[k] : k \in 1..0} = {}
    BY DEF Hung
  <2> QED
    BY <2>2, <2>3, <2>4, <2>5, <2>6
<1>8. ASSUME NEW n \in 0..N, Good(n), n # N PROVE Good(n + 1)
  <2> DEFINE k == n + 1
             from == IF k = 1 THEN None ELSE refs[n]
             c == refs[k]
  <2>1. k \in 1..N /\ k \in Nat /\ k - 1 = n /\ (k # 1 => n \in 1..N /\ k \in 2..(N + 1))
    BY <1>1, <1>8
  <2>2. at[k] = Follow(at[n], from, c)
    <3> HIDE DEF k
    <3>1. at[k] = Follow(at[k - 1], IF k = 1 THEN None ELSE refs[k - 1], refs[k])
      BY <2>1, <1>5
    <3> QED
      BY <3>1, <2>1
  <2> HIDE DEF k
  <2>3. c = s[k] /\ c \in Mids
    BY <1>1, <2>1
  <2>4. from # None => from \in Mids /\ AnswerTo[c] = from /\ from = s[n] /\ from \in Made(at[n])
    <3>1. ASSUME k # 1 PROVE from \in Mids /\ AnswerTo[c] = from /\ from = s[n] /\ n \in 1..n
      <4>1. n \in 1..N /\ k \in 2..(N + 1) /\ from = refs[n]
        BY <2>1, <3>1
      <4>2. AnswerTo[s[k]] = s[k - 1]
        BY <1>1, <4>1
      <4>3. from = s[n] /\ from \in Mids
        BY <1>1, <4>1
      <4> QED
        BY <4>1, <4>2, <4>3, <2>1, <2>3
    <3> QED
      BY <3>1, <1>8
  <2>5. k # 1 => from # None
    <3>1. None \notin Mids
      BY DEF ThreaderAssumption
    <3> QED
      BY <1>1, <2>1, <3>1
  <2> HIDE DEF from, c
  <2>6. at[n] \in Boxes /\ Mended(at[n])
    BY <1>8 DEF Sound
  <2>7. /\ Mended(at[k])
        /\ \A x \in Mids : at[n].parent[x] # None => at[k].parent[x] = at[n].parent[x]
        /\ from # None => at[k].parent[c] = from
        /\ at[k].row = at[n].row
    BY <2>2, <2>3, <2>4, <2>6, OneLink
  <2>8. Sound(at[k])
    BY <2>2, <2>3, <2>4, <1>8, FollowSound
  <2>9. MadeWhole(at[k])
    BY <2>2, <2>3, <2>4, <2>6, <1>8, FollowMade
  <2>10. Made(at[k]) = Made(at[n]) \cup {c}
    BY <2>2, <2>3, <2>4, <2>6, FollowEffect
  <2>11. Made(at[k]) = (Made(b) \cup {m}) \cup {s[j] : j \in 1..k}
    <3>1. 1..k = (1..n) \cup {k}
      BY <2>1, <1>1
    <3>2. {s[j] : j \in 1..k} = {s[j] : j \in 1..n} \cup {s[k]}
      BY <3>1
    <3> QED
      BY <2>3, <2>10, <1>8, <3>2
  <2>12. Hung(at[k], s, k)
    <3>1. ASSUME NEW j \in 2..k PROVE at[k].parent[s[j]] = s[j - 1]
      <4>1. CASE j = k
        <5>1. k # 1
          BY <3>1, <4>1, <1>1
        <5> QED
          BY <5>1, <4>1, <2>1, <2>3, <2>4, <2>5, <2>7
      <4>2. CASE j # k
        <5>1. j \in 2..n /\ j \in 1..N /\ j - 1 \in 1..N
          BY <3>1, <4>2, <2>1, <1>1
        <5>2. at[n].parent[s[j]] = s[j - 1]
          BY <5>1, <1>8 DEF Hung
        <5>3. s[j] \in Mids /\ s[j - 1] \in Mids /\ None \notin Mids
          BY <5>1, <1>1 DEF ThreaderAssumption
        <5> QED
          BY <5>2, <5>3, <2>7
      <4> QED
        BY <4>1, <4>2
    <3> QED
      BY <3>1 DEF Hung
  <2>13. \A x \in Mids : b.parent[x] # None => at[k].parent[x] = b.parent[x]
    BY <2>7, <1>8
  <2>14. at[k].row = [b.row EXCEPT ![m] = id]
    BY <2>7, <1>8
  <2>15. Good(k)
    BY <2>7, <2>8, <2>9, <2>11, <2>12, <2>13, <2>14
  <2> QED
    BY <2>15 DEF k
<1> HIDE DEF Good
<1>9. N \in P
  <2>1. 0 \in P /\ \A n \in 0..N : n \in P /\ n # N => n + 1 \in P
    BY <1>1, <1>7, <1>8
  <2>2. N \in Nat
    BY <1>1
  <2>3. N \in 0..N
    BY <2>2
  <2> HIDE DEF P
  <2>4. \A n \in 0..N : n \in P
    BY ONLY <2>1, <2>2, Climbed
  <2> QED
    BY <2>3, <2>4
<1>10. Good(N)
  BY <1>9
<1>11. /\ Sound(at[N]) /\ MadeWhole(at[N]) /\ Mended(at[N]) /\ at[N] \in Boxes
       /\ \A x \in Mids : b.parent[x] # None => at[N].parent[x] = b.parent[x]
       /\ Hung(at[N], s, N)
       /\ Made(at[N]) = (Made(b) \cup {m}) \cup {s[k] : k \in 1..N}
       /\ at[N].row = [b.row EXCEPT ![m] = id]
  BY <1>10 DEF Good, Sound
<1> DEFINE k == N + 1
<1>12. k \in Nat /\ k - 1 = N /\ s[k] = m /\ (N # 0 => N \in 1..N /\ k \in 2..k /\ N \in 1..k)
       /\ k \in 1..k /\ Len(s) = k
  BY <1>1
<1>13. last # None => last \in Mids /\ AnswerTo[m] = last /\ last = s[N] /\ last \in Made(at[N])
  <2>1. ASSUME N # 0 PROVE last \in Mids /\ AnswerTo[m] = last /\ last = s[N] /\ N \in 1..N
    <3>1. N \in 1..N /\ k \in 2..k /\ last = refs[N]
      BY <2>1, <1>6, <1>12
    <3>2. AnswerTo[s[k]] = s[k - 1]
      BY <1>1, <3>1
    <3>3. s[N] = refs[N] /\ s[N] \in Mids
      BY <1>1, <3>1
    <3> HIDE DEF k
    <3> QED
      BY <3>1, <3>2, <3>3, <1>12
  <2> QED
    BY <2>1, <1>6, <1>11
<1>14. N # 0 => last # None
  <2>1. None \notin Mids
    BY DEF ThreaderAssumption
  <2> QED
    BY <2>1, <1>1, <1>6, <1>12
<1> HIDE DEF last, k
<1>15. m \in Made(at[N])
  BY <1>11
<1>16. /\ Mended(d)
       /\ \A x \in Mids : at[N].parent[x] # None => d.parent[x] = at[N].parent[x]
       /\ last # None => d.parent[m] = last
  BY <1>2, <1>4, <1>11, <1>13, OneLink
<1>17. Sound(d)
  BY <1>2, <1>4, <1>11, <1>13, OrphanSound
<1>18. MadeWhole(d) /\ d.row = at[N].row /\ Made(d) = Made(at[N])
  BY <1>4, <1>11, <1>13, <1>15, LinkMade
<1>19. Made(d) = Made(b) \cup Range(s)
  <2>1. Range(refs) = {s[j] : j \in 1..N}
    <3>1. DOMAIN refs = 1..N
      BY <1>1 DEF N
    <3> QED
      BY <3>1, <1>1 DEF Range
  <2> QED
    BY <2>1, <1>1, <1>11, <1>18
<1>20. Hung(d, s, Len(s))
  <2>1. ASSUME NEW j \in 2..k PROVE d.parent[s[j]] = s[j - 1]
    <3>1. CASE j = k
      <4>1. N # 0
        BY <2>1, <3>1, <1>1, <1>12
      <4> QED
        BY <4>1, <3>1, <1>12, <1>13, <1>14, <1>16
    <3>2. CASE j # k
      <4>1. j \in 2..N /\ j \in 1..N /\ j - 1 \in 1..N
        BY <2>1, <3>2, <1>12, <1>1
      <4>2. at[N].parent[s[j]] = s[j - 1]
        BY <4>1, <1>11 DEF Hung
      <4>3. s[j] \in Mids /\ s[j - 1] \in Mids /\ None \notin Mids
        BY <4>1, <1>1 DEF ThreaderAssumption
      <4> QED
        BY <4>2, <4>3, <1>16
    <3> QED
      BY <3>1, <3>2
  <2> QED
    BY <2>1, <1>12 DEF Hung
<1> QED
  BY <1>11, <1>16, <1>17, <1>18, <1>19, <1>20 DEF m

-----------------------------------------------------------------------------
(*****************************************************************************)
(* get_email_thread                                                        *)
(*****************************************************************************)
\* ORDER BY gives every row of a thread one place.
LEMMA RowsPlaced ==
    ASSUME ThreaderAssumption, NEW t, NEW R, R = ThreadRows(t), NEW N, N = Cardinality(R),
           stored \in [Ids -> [thread : Ids, position : Nat] \cup {None}]
    PROVE  /\ R \subseteq Rows /\ N \in Nat
           /\ \A n \in 1..N : RowAt(t, n) \in R
           /\ \A id \in R : \E n \in 1..N : RowAt(t, n) = id
<1> DEFINE Before(o, id) == Precedes(o, id)
           earlier == [id \in R |-> {o \in R : Before(o, id)}]
           place == [id \in R |-> 1 + Cardinality(earlier[id])]
           Place(id) == Cardinality({o \in R : Before(o, id)}) + 1
<1>1. R \subseteq Rows /\ R \subseteq Ids /\ \A id \in R : stored[id] # None
  BY DEF ThreadRows, Rows
<1>2. Ids = 1..MaxRows /\ MaxRows \in Nat
  BY DEF ThreaderAssumption, Ids
<1>3. IsFiniteSet(R) /\ N \in Nat
  <2>1. IsFiniteSet(1..MaxRows)
    BY <1>2, FS_Interval
  <2>2. IsFiniteSet(R)
    BY <1>1, <1>2, <2>1, FS_Subset
  <2> QED
    BY <2>2, FS_CardinalityType
<1>4. \A id \in R : id \in Nat /\ stored[id].position \in Nat
  <2>1. ASSUME NEW id \in R PROVE id \in Nat /\ stored[id].position \in Nat
    <3>1. id \in Nat /\ stored[id] \in [thread : Ids, position : Nat]
      BY <1>1, <1>2
    <3> QED
      BY <3>1
  <2> QED
    BY <2>1
<1>5. \A i, j \in R : i = j \/ Before(i, j) \/ Before(j, i)
  BY <1>4 DEF Precedes
<1>6. \A i, j, k \in R : Before(i, j) /\ Before(j, k) => Before(i, k)
  BY <1>4 DEF Precedes
<1>7. \A i \in R : ~Before(i, i)
  BY <1>4 DEF Precedes
<1>8. \A n : RowAt(t, n) = CHOOSE id \in R : n = Place(id)
  BY DEF RowAt
<1> HIDE DEF Before
<1>9. \A i \in R : /\ earlier[i] \subseteq R \ {i}
                   /\ \A j \in R : Before(j, i) => earlier[j] \subseteq earlier[i]
                                                   /\ j \in earlier[i] /\ j \notin earlier[j]
  BY <1>6, <1>7
<1>10. \A id \in R : Place(id) = Cardinality(earlier[id]) + 1
  OBVIOUS
<1> HIDE DEF Place
<1> HIDE DEF earlier
<1>11. ASSUME NEW i \in R
       PROVE  IsFiniteSet(earlier[i]) /\ Cardinality(earlier[i]) \in 0..(N - 1)
  <2>1. IsFiniteSet(R \ {i}) /\ Cardinality(R \ {i}) = N - 1
    BY <1>3, FS_RemoveElement
  <2>2. earlier[i] \in SUBSET (R \ {i})
    BY <1>9
  <2>3. IsFiniteSet(earlier[i]) /\ Cardinality(earlier[i]) <= N - 1
    BY <2>1, <2>2, FS_Subset
  <2>4. Cardinality(earlier[i]) \in Nat
    BY <2>3, FS_CardinalityType
  <2> QED
    BY <2>3, <2>4, <1>3
<1>12. place \in [R -> 1..N]
  <2>1. ASSUME NEW i \in R PROVE 1 + Cardinality(earlier[i]) \in 1..N
    <3> DEFINE c == Cardinality(earlier[i])
    <3>1. c \in 0..(N - 1)
      BY <1>11
    <3> HIDE DEF c
    <3>2. 1 + c \in 1..N
      BY <3>1, <1>3
    <3> QED
      BY <3>2 DEF c
  <2> QED
    BY <2>1
<1>13. ASSUME NEW i \in R, NEW j \in R, Before(j, i) PROVE place[j] # place[i]
  <2>1. earlier[j] \in SUBSET earlier[i] /\ earlier[j] # earlier[i]
    BY <1>9, <1>13
  <2>2. Cardinality(earlier[i]) # Cardinality(earlier[j])
    BY <1>11, <2>1, FS_Subset
  <2>3. Cardinality(earlier[i]) \in 0..(N - 1) /\ Cardinality(earlier[j]) \in 0..(N - 1)
    BY <1>11
  <2> DEFINE c == Cardinality(earlier[i])
             d == Cardinality(earlier[j])
  <2>4. place[i] = 1 + c /\ place[j] = 1 + d
    OBVIOUS
  <2> HIDE DEF c, d, place
  <2>5. c # d /\ c \in 0..(N - 1) /\ d \in 0..(N - 1)
    BY <2>2, <2>3 DEF c, d
  <2> QED
    BY <2>4, <2>5, <1>3
<1>14. \A id \in R : Place(id) = place[id]
  <2>1. ASSUME NEW id \in R PROVE place[id] = Cardinality(earlier[id]) + 1
    <3> DEFINE c == Cardinality(earlier[id])
    <3>1. place[id] = 1 + c /\ c \in 0..(N - 1)
      BY <1>11
    <3> HIDE DEF c, place
    <3>2. place[id] = c + 1
      BY <3>1, <1>3
    <3> QED
      BY <3>2 DEF c
  <2> HIDE DEF place
  <2> QED
    BY <1>10, <2>1
<1> HIDE DEF place
<1>15. \A i, j \in R : place[i] = place[j] => i = j
  BY <1>5, <1>13
<1>16. place \in Injection(R, 1..N)
  BY <1>12, <1>15 DEF Injection, IsInjective
<1>17. place \in Surjection(R, 1..N)
  <2>1. IsFiniteSet(1..N) /\ Cardinality(1..N) = N
    BY <1>3, FS_Interval
  <2> QED
    BY <1>3, <1>16, <2>1, FS_Injection
<1>18. \A n \in 1..N : \E i \in R : place[i] = n
  BY <1>17 DEF Surjection
<1>19. \A n \in 1..N : RowAt(t, n) \in R /\ place[RowAt(t, n)] = n
  <2>1. ASSUME NEW n \in 1..N PROVE RowAt(t, n) \in R /\ place[RowAt(t, n)] = n
    <3>1. \E id \in R : n = Place(id)
      BY <1>14, <1>18
    <3>2. RowAt(t, n) \in R /\ n = Place(RowAt(t, n))
      BY <3>1, <1>8
    <3> QED
      BY <3>2, <1>14
  <2> QED
    BY <2>1
<1>20. \A id \in R : place[id] \in 1..N /\ RowAt(t, place[id]) = id
  BY <1>12, <1>15, <1>19
<1> QED
  BY <1>1, <1>3, <1>19, <1>20

\* A date is a number, that of a phantom as well.
LEMMA DatesAreNumbers ==
    ASSUME ThreaderAssumption, NEW b \in Boxes, \A m \in Mids : DateOf(b, m) \in Nat
    PROVE  \A m \in Mids : RootDates(b)[m] \in Nat
<1> DEFINE N == Cardinality(Mids)
           V == [Mids -> Nat]
           first == [m \in Mids |-> DateOf(b, m)]
           low(w, m) == LET below == {w[c] : c \in Range(b.children[m])}
                        IN  CHOOSE d \in below : \A e \in below : d <= e
           Level(w) == [m \in Mids |-> IF Real(b, m) \/ b.children[m] = <<>> THEN DateOf(b, m)
                                       ELSE low(w, m)]
           next == [w \in V |-> Level(w)]
           step == [n \in 1..N |-> next]
           RightFor(D) == D = [n \in 0..N |-> [m \in Mids |->
                IF Real(b, m) \/ b.children[m] = <<>> \/ n = 0 THEN DateOf(b, m)
                ELSE LET below == {D[n - 1][c] : c \in Range(b.children[m])}
                     IN  CHOOSE d \in below : \A e \in below : d <= e]]
<1>1. N \in Nat
  BY FS_CardinalityType DEF ThreaderAssumption
<1>2. first \in V
  OBVIOUS
<1>3. next \in [V -> V]
  <2>1. ASSUME NEW w \in V, NEW m \in Mids, b.children[m] # <<>> PROVE low(w, m) \in Nat
    <3> DEFINE below == {w[c] : c \in Range(b.children[m])}
    <3>1. b.children[m] \in Seq(Mids)
      BY DEF Boxes
    <3>2. Range(b.children[m]) \subseteq Mids
      BY <3>1, RangeWithin
    <3>3. b.children[m][1] \in Range(b.children[m])
      BY <2>1, <3>1 DEF Range
    <3>4. below \subseteq Nat /\ below # {}
      BY <3>2, <3>3
    <3>5. low(w, m) = CHOOSE d \in below : \A e \in below : d <= e
      OBVIOUS
    <3> HIDE DEF below, low
    <3>6. \E d \in below : \A e \in below : d <= e
      BY <3>4, Lowest
    <3> QED
      BY <3>4, <3>5, <3>6
  <2> HIDE DEF low
  <2>2. \A w \in V : Level(w) \in V
    BY <2>1
  <2> QED
    BY <2>2
<1>4. step \in [1..N -> [V -> V]]
  <2> HIDE DEF next, V
  <2> QED
    BY <1>3
<1>5. PICK f : f \in [0..N -> V] /\ f[0] = first /\ \A n \in 1..N : f[n] = step[n][f[n - 1]]
  <2> HIDE DEF step, first, V, N
  <2>1. \E f : Iterates(f, N, V, first, step)
    BY <1>1, <1>2, <1>4, Iterated
  <2> QED
    BY <2>1 DEF Iterates
<1>6. \A n \in 1..N : f[n] = Level(f[n - 1]) /\ f[n - 1] \in V
  <2>1. ASSUME NEW n \in 1..N PROVE f[n] = Level(f[n - 1]) /\ f[n - 1] \in V
    <3>1. n - 1 \in 0..N
      BY <1>1
    <3> HIDE DEF Level, V, N
    <3> QED
      BY <1>5, <3>1
  <2> QED
    BY <2>1
<1>7. RightFor(f)
  <2> DEFINE R(n) == [m \in Mids |->
                IF Real(b, m) \/ b.children[m] = <<>> \/ n = 0 THEN DateOf(b, m)
                ELSE LET below == {f[n - 1][c] : c \in Range(b.children[m])}
                     IN  CHOOSE d \in below : \A e \in below : d <= e]
  <2>1. ASSUME NEW n \in 0..N PROVE f[n] = R(n)
    <3>1. CASE n = 0
      <4>1. R(0) = first
        OBVIOUS
      <4> QED
        BY <4>1, <3>1, <1>5
    <3>2. CASE n # 0
      <4>1. n \in 1..N
        BY <3>2, <1>1
      <4>2. R(n) = Level(f[n - 1])
        <5>1. \A m : (n = 0) = FALSE /\ low(f[n - 1], m) = LET below == {f[n - 1][c] : c \in Range(b.children[m])}
                     IN  CHOOSE d \in below : \A e \in below : d <= e
          BY <3>2
        <5>2. R(n) = [m \in Mids |->
                IF Real(b, m) \/ b.children[m] = <<>> THEN DateOf(b, m) ELSE low(f[n - 1], m)]
          BY <3>2
        <5> QED
          BY <5>2
      <4> HIDE DEF N, Level, R
      <4> QED
        BY <4>1, <4>2, <1>6
    <3> QED
      BY <3>1, <3>2
  <2> HIDE DEF R
  <2>2. f = [n \in 0..N |-> R(n)]
    <3> HIDE DEF V, N
    <3> QED
      BY <2>1, <1>5
  <2> QED
    BY <2>2 DEF R
<1> DEFINE D == CHOOSE g : RightFor(g)
<1>8. RightFor(D)
  <2> HIDE DEF RightFor
  <2> QED
    BY <1>7
<1>9. RootDates(b) = D[N]
  BY DEF RootDates
<1> HIDE DEF D
<1>10. D = f
  <2> DEFINE P == {n \in 0..N : D[n] = f[n]}
  <2>1. D[0] = first /\ \A n \in 1..N : D[n] = Level(D[n - 1])
    <3>1. \A n \in 0..N : D[n] = [m \in Mids |->
                IF Real(b, m) \/ b.children[m] = <<>> \/ n = 0 THEN DateOf(b, m)
                ELSE LET below == {D[n - 1][c] : c \in Range(b.children[m])}
                     IN  CHOOSE d \in below : \A e \in below : d <= e]
      BY <1>8
    <3>2. 0 \in 0..N /\ \A n \in 1..N : n \in 0..N /\ n # 0
      BY <1>1
    <3>3. D[0] = first
      BY <3>1, <3>2
    <3>4. \A n \in 1..N : D[n] = Level(D[n - 1])
      <4>1. ASSUME NEW n \in 1..N PROVE D[n] = Level(D[n - 1])
        <5> DEFINE o(m) == LET below == {D[n - 1][c] : c \in Range(b.children[m])}
                           IN  CHOOSE d \in below : \A e \in below : d <= e
        <5>1. D[n] = [m \in Mids |-> IF Real(b, m) \/ b.children[m] = <<>> \/ n = 0
                                       THEN DateOf(b, m) ELSE o(m)] /\ n # 0
          BY <3>1, <3>2
        <5>2. Level(D[n - 1]) = [m \in Mids |-> IF Real(b, m) \/ b.children[m] = <<>>
                                       THEN DateOf(b, m) ELSE o(m)]
          OBVIOUS
        <5> HIDE DEF o, Level
        <5> QED
          BY <5>1, <5>2
      <4> QED
        BY <4>1
    <3> QED
      BY <3>3, <3>4
  <2>2. 0 \in P
    BY <2>1, <1>1, <1>5
  <2>3. ASSUME NEW n \in 0..N, n \in P, n # N PROVE n + 1 \in P
    <3>1. n + 1 \in 1..N /\ n + 1 \in 0..N /\ n + 1 - 1 = n
      BY <2>3, <1>1
    <3>2. D[n] = f[n]
      BY <2>3
    <3> HIDE DEF N, Level
    <3>3. D[n + 1] = Level(D[n + 1 - 1]) /\ f[n + 1] = Level(f[n + 1 - 1])
      BY <3>1, <2>1, <1>6
    <3> QED
      BY <3>1, <3>2, <3>3
  <2>4. \A n \in 0..N : n \in P
    <3> HIDE DEF P, N
    <3> QED
      BY <1>1, <2>2, <2>3, Climbed
  <2>5. D = [n \in 0..N |-> D[n]] /\ f = [n \in 0..N |-> f[n]]
    BY <1>8, <1>5
  <2> HIDE DEF RightFor
  <2> QED
    BY <2>4, <2>5
<1>11. D[N] \in V
  <2>1. N \in 0..N
    BY <1>1
  <2> HIDE DEF V, N
  <2> QED
    BY <2>1, <1>5, <1>10
<1> QED
  BY <1>9, <1>11

\* Of some roots one is the first.
LEMMA FirstFound ==
    ASSUME ThreaderAssumption, NEW b \in Boxes, \A m \in Mids : DateOf(b, m) \in Nat,
           NEW some \in SUBSET Mids, some # {}
    PROVE  \E m \in Mids : IsFirst(b, some, m)
<1> DEFINE d == [m \in some |-> RootDates(b)[m]]
           place == [m \in some |-> SelectInSeq(b.made, LAMBDA e : e = m)]
<1>1. d \in [some -> Nat]
  BY DatesAreNumbers
<1>2. place \in [some -> Nat]
  <2>1. ASSUME NEW m \in some PROVE SelectInSeq(b.made, LAMBDA e : e = m) \in Nat
    <3> DEFINE I == {i \in 1..Len(b.made) : b.made[i] = m}
    <3>1. b.made \in Seq(Mids)
      BY DEF Boxes
    <3>2. I \subseteq Nat
      BY <3>1
    <3>3. SelectInSeq(b.made, LAMBDA e : e = m) = IF I # {} THEN Min(I) ELSE 0
      BY DEF SelectInSeq
    <3>4. I # {} => Min(I) \in Nat
      <4> HIDE DEF I
      <4>1. I # {} => \E x \in I : \A y \in I : x <= y
        BY <3>2, Lowest
      <4> QED
        BY <3>2, <4>1 DEF Min
    <3> HIDE DEF I
    <3> QED
      BY <3>3, <3>4
  <2> QED
    BY <2>1
<1>3. \A m, n \in some : Older(b, m, n) <=> d[m] < d[n] \/ (d[m] = d[n] /\ place[m] <= place[n])
  <2>1. ASSUME NEW m \in some, NEW n \in some
        PROVE  Older(b, m, n) <=> d[m] < d[n] \/ (d[m] = d[n] /\ place[m] <= place[n])
    <3> DEFINE I(q) == {i \in 1..Len(b.made) : b.made[i] = q}
               At(q) == IF I(q) # {} THEN Min(I(q)) ELSE 0
               D == RootDates(b)
    <3>1. Older(b, m, n) <=> D[m] < D[n] \/ (D[m] = D[n] /\ At(m) <= At(n))
      BY DEF Older, SelectInSeq
    <3>2. place[m] = At(m) /\ place[n] = At(n)
      BY DEF SelectInSeq
    <3>3. d[m] = D[m] /\ d[n] = D[n]
      OBVIOUS
    <3> HIDE DEF At, D, d, place
    <3> QED
      BY <3>1, <3>2, <3>3
  <2> QED
    BY <2>1
<1> HIDE DEF d, place
<1>4. PICK m1 \in some : \A n \in some : d[m1] <= d[n]
  <2> DEFINE S == {d[m] : m \in some}
  <2>1. S \subseteq Nat /\ S # {}
    BY <1>1
  <2> HIDE DEF S
  <2>2. PICK x \in S : \A y \in S : x <= y
    BY <2>1, Lowest
  <2> QED
    BY <2>2 DEF S
<1>5. PICK m \in some : d[m] = d[m1] /\ \A n \in some : d[n] = d[m1] => place[m] <= place[n]
  <2> DEFINE S == {place[n] : n \in {q \in some : d[q] = d[m1]}}
  <2>1. S \subseteq Nat /\ S # {}
    BY <1>2
  <2> HIDE DEF S
  <2>2. PICK x \in S : \A y \in S : x <= y
    BY <2>1, Lowest
  <2> QED
    BY <2>2 DEF S
<1>6. \A n \in some : d[m] < d[n] \/ (d[m] = d[n] /\ place[m] <= place[n])
  <2>1. ASSUME NEW n \in some PROVE d[m] < d[n] \/ (d[m] = d[n] /\ place[m] <= place[n])
    <3>1. d[m] \in Nat /\ d[n] \in Nat /\ d[m] <= d[n]
      BY <1>1, <1>4, <1>5
    <3>2. d[m] = d[n] => place[m] <= place[n]
      BY <1>5
    <3> QED
      BY <3>1, <3>2
  <2> QED
    BY <2>1
<1>7. IsFirst(b, some, m)
  BY <1>3, <1>6 DEF IsFirst
<1> QED
  BY <1>7

AllUnbroken == \A id \in Rows : Placed(id) /\ Unbroken(emails[id])

\* The names of a row in the index.
Said(id) == Names(emails[id])

\* Some rows threaded on their own.
ReadFrom(v, some) ==
    /\ Sound(v) /\ MadeWhole(v) /\ Mended(v)
    /\ \A id \in some : Hung(v, Said(id), Len(Said(id))) /\ v.row[emails[id].mid] = id
    /\ \A m \in Mids : Real(v, m) => v.row[m] \in some /\ emails[v.row[m]].mid = m
    /\ Made(v) = UNION {Range(Said(id)) : id \in some}

\* A row says what its header names, each the answer to the one before it.
LEMMA RowSays ==
    ASSUME ThreaderAssumption, emails \in [Ids -> Mail \cup {None}],
           NEW id \in Rows, Unbroken(emails[id])
    PROVE  /\ id \in Ids /\ emails[id] \in RowType /\ emails[id].mid \in Mids
           /\ Said(id) \in Seq(Mids) /\ Len(Said(id)) \in Nat /\ Len(Said(id)) # 0
           /\ \A k \in 1..Len(Said(id)) : Said(id)[k] \in Mids
           /\ Said(id)[Len(Said(id))] = emails[id].mid
           /\ emails[id].mid \in Range(Said(id))
           /\ \A k \in 2..Len(Said(id)) : AnswerTo[Said(id)[k]] = Said(id)[k - 1]
<1> DEFINE r == emails[id]
           s == Said(id)
           n == Len(Chain(r))
<1>1. id \in Ids /\ r \in RowType
  BY DEF Rows, ThreaderAssumption
<1>2. r.mid \in Mids
  BY <1>1 DEF RowType
<1>3. s = Names(r) /\ n = Len(Chain(r)) /\ Unbroken(r) /\ ThreaderAssumption
  BY DEF Said
<1> HIDE DEF r, s, n
<1>4. /\ n \in Nat /\ s \in Seq(Mids) /\ Len(s) = n + 1 /\ s[n + 1] = r.mid
      /\ \A k \in 1..n : s[k] \in Mids
      /\ Range(s) = Range(Chain(r)) \cup {r.mid}
      /\ \A k \in 2..(n + 1) : AnswerTo[s[k]] = s[k - 1]
  BY ONLY <1>1, <1>3, UnbrokenNames
<1>5. /\ Len(s) \in Nat /\ Len(s) # 0 /\ s[Len(s)] = r.mid
      /\ \A k \in 2..Len(s) : AnswerTo[s[k]] = s[k - 1]
      /\ \A k \in 1..Len(s) : s[k] \in Mids
  BY <1>4
<1> QED
  BY <1>1, <1>2, <1>4, <1>5 DEF r, s

\* One row more.
LEMMA OneMoreRead ==
    ASSUME ThreaderAssumption, emails \in [Ids -> Mail \cup {None}], AllUnbroken,
           NEW some \in SUBSET Rows, NEW v, ReadFrom(v, some), NEW id \in Rows,
           NEW d, d = ReadRow(v, id)
    PROVE  ReadFrom(d, some \cup {id})
<1> DEFINE m == emails[id].mid
           s == Said(id)
<1>1. \A o \in Rows : /\ o \in Ids /\ emails[o] \in RowType /\ emails[o].mid \in Mids
                      /\ Said(o) \in Seq(Mids) /\ Len(Said(o)) \in Nat
                      /\ \A k \in 1..Len(Said(o)) : Said(o)[k] \in Mids
                      /\ Unbroken(emails[o])
  <2>1. \A o \in Rows : Unbroken(emails[o])
    BY DEF AllUnbroken
  <2> QED
    BY <2>1, RowSays
<1>2. Sound(v) /\ MadeWhole(v) /\ Mended(v) /\ v \in Boxes
  BY DEF ReadFrom, Sound
<1>3. /\ Sound(d) /\ MadeWhole(d) /\ Mended(d)
      /\ \A x \in Mids : v.parent[x] # None => d.parent[x] = v.parent[x]
      /\ Hung(d, s, Len(s))
      /\ Made(d) = Made(v) \cup Range(s)
      /\ d.row = [v.row EXCEPT ![m] = id]
  <2>1. /\ id \in Ids /\ emails[id] \in RowType /\ Unbroken(emails[id]) /\ s = Names(emails[id])
        /\ m = emails[id].mid /\ d = ReadRow(v, id) /\ ThreaderAssumption
    BY <1>1 DEF Said
  <2> HIDE DEF m, s
  <2> QED
    BY ONLY <1>2, <2>1, RowRead
<1>4. v.row \in [Mids -> Ids \cup {0}] /\ m \in Mids
  BY <1>1, <1>2 DEF Boxes
<1> HIDE DEF m, s
<1>5. ASSUME NEW o \in some \cup {id}
      PROVE  Hung(d, Said(o), Len(Said(o))) /\ d.row[emails[o].mid] = o
  <2>1. CASE o = id
    BY <2>1, <1>3, <1>4 DEF m, s
  <2>2. CASE o # id
    <3>1. o \in some /\ o \in Rows
      BY <2>2
    <3>2. Hung(v, Said(o), Len(Said(o))) /\ v.row[emails[o].mid] = o
      BY <3>1 DEF ReadFrom
    <3>3. ASSUME NEW k \in 2..Len(Said(o)) PROVE d.parent[Said(o)[k]] = Said(o)[k - 1]
      <4>1. k \in 1..Len(Said(o)) /\ k - 1 \in 1..Len(Said(o))
        BY <3>1, <1>1
      <4>2. Said(o)[k] \in Mids /\ Said(o)[k - 1] \in Mids
        BY <4>1, <3>1, <1>1
      <4>3. v.parent[Said(o)[k]] = Said(o)[k - 1]
        BY <3>2 DEF Hung
      <4>4. None \notin Mids
        BY DEF ThreaderAssumption
      <4> QED
        BY <4>2, <4>3, <4>4, <1>3
    <3>4. emails[o].mid # m
      <4>1. Placed(o) /\ Placed(id) /\ o \in Nat /\ id \in Nat
        BY <3>1, <1>1 DEF AllUnbroken, Ids
      <4> QED
        BY <4>1, <3>1, <2>2 DEF Placed, m
    <3> QED
      BY <3>1, <3>2, <3>3, <3>4, <1>1, <1>3, <1>4 DEF Hung
  <2> QED
    BY <2>1, <2>2
<1>6. ASSUME NEW q \in Mids, Real(d, q) PROVE d.row[q] \in some \cup {id} /\ emails[d.row[q]].mid = q
  <2>1. CASE q = m
    BY <2>1, <1>3, <1>4 DEF m
  <2>2. CASE q # m
    <3>1. d.row[q] = v.row[q]
      BY <2>2, <1>3, <1>4
    <3> QED
      BY <3>1, <1>6 DEF Real, ReadFrom
  <2> QED
    BY <2>1, <2>2
<1>7. Made(d) = UNION {Range(Said(o)) : o \in some \cup {id}}
  <2>1. Made(v) = UNION {Range(Said(o)) : o \in some}
    BY DEF ReadFrom
  <2> QED
    BY <2>1, <1>3 DEF s
<1> QED
  BY <1>3, <1>5, <1>6, <1>7 DEF ReadFrom

\* What get_email_thread threads again: the rows of the thread.
LEMMA ViewRead ==
    ASSUME ThreaderAssumption, emails \in [Ids -> Mail \cup {None}], AllUnbroken,
           stored \in [Ids -> [thread : Ids, position : Nat] \cup {None}], NEW t
    PROVE  ReadFrom(ViewBox(t), ThreadRows(t))
<1> DEFINE R == ThreadRows(t)
           N == Cardinality(R)
           V == {v \in Boxes : \E some \in SUBSET Rows : ReadFrom(v, some)}
           first == NoContainers
           step == [n \in 1..N |-> [v \in V |-> ReadRow(v, RowAt(t, n))]]
           RightFor(g) == g = [n \in 0..N |-> IF n = 0 THEN NoContainers
                                              ELSE ReadRow(g[n - 1], RowAt(t, n))]
<1>1. /\ R \subseteq Rows /\ N \in Nat
      /\ \A n \in 1..N : RowAt(t, n) \in R
      /\ \A id \in R : \E n \in 1..N : RowAt(t, n) = id
  <2>1. R = ThreadRows(t) /\ N = Cardinality(R)
    OBVIOUS
  <2> HIDE DEF R, N
  <2> QED
    BY <2>1, RowsPlaced
<1>2. ReadFrom(NoContainers, {}) /\ NoContainers \in Boxes
  <2>1. Sound(NoContainers) /\ MadeWhole(NoContainers) /\ \A m \in Mids : ~Real(NoContainers, m)
    BY NoContainersSound, NothingMade
  <2>2. Mended(NoContainers) /\ Made(NoContainers) = {}
    BY DEF Mended, NoContainers, Made, Range
  <2> QED
    BY <2>1, <2>2 DEF ReadFrom, Sound
<1> HIDE DEF R, N
<1>3. first \in V
  BY <1>2
<1>4. step \in [1..N -> [V -> V]]
  <2>1. ASSUME NEW n \in 1..N, NEW v \in V PROVE ReadRow(v, RowAt(t, n)) \in V
    <3>1. PICK some \in SUBSET Rows : ReadFrom(v, some)
      OBVIOUS
    <3>2. RowAt(t, n) \in Rows
      BY <1>1
    <3>3. ReadFrom(ReadRow(v, RowAt(t, n)), some \cup {RowAt(t, n)})
      BY <3>1, <3>2, OneMoreRead
    <3>4. some \cup {RowAt(t, n)} \in SUBSET Rows /\ ReadRow(v, RowAt(t, n)) \in Boxes
      BY <3>2, <3>3 DEF ReadFrom, Sound
    <3> QED
      BY <3>3, <3>4
  <2> HIDE DEF V
  <2> QED
    BY <2>1
<1>5. PICK f : f \in [0..N -> V] /\ f[0] = first /\ \A n \in 1..N : f[n] = step[n][f[n - 1]]
  <2> HIDE DEF step, first, V
  <2>1. \E f : Iterates(f, N, V, first, step)
    BY <1>1, <1>3, <1>4, Iterated
  <2> QED
    BY <2>1 DEF Iterates
<1>6. RightFor(f)
  <2> DEFINE Q(n) == IF n = 0 THEN NoContainers ELSE ReadRow(f[n - 1], RowAt(t, n))
  <2>1. ASSUME NEW n \in 0..N PROVE f[n] = Q(n)
    <3>1. CASE n = 0
      BY <3>1, <1>5
    <3>2. CASE n # 0
      <4>1. n \in 1..N /\ n - 1 \in 0..N
        BY <3>2, <1>1
      <4>2. f[n - 1] \in V
        BY <4>1, <1>5
      <4>3. f[n] = ReadRow(f[n - 1], RowAt(t, n))
        <5> HIDE DEF V
        <5> QED
          BY <4>1, <4>2, <1>5
      <4> QED
        BY <4>3, <3>2
    <3> QED
      BY <3>1, <3>2
  <2> HIDE DEF Q
  <2>2. f = [n \in 0..N |-> Q(n)]
    <3> HIDE DEF V
    <3> QED
      BY <2>1, <1>5
  <2> QED
    BY <2>2 DEF Q
<1> DEFINE at == CHOOSE g : RightFor(g)
<1>7. RightFor(at)
  <2> HIDE DEF RightFor
  <2> QED
    BY <1>6
<1>8. ViewBox(t) = at[N]
  BY DEF ViewBox, N, R
<1> HIDE DEF at
<1>9. /\ at[0] = NoContainers
      /\ \A n \in 1..N : at[n] = ReadRow(at[n - 1], RowAt(t, n))
  <2>1. \A n \in 0..N : at[n] = IF n = 0 THEN NoContainers ELSE ReadRow(at[n - 1], RowAt(t, n))
    BY <1>7
  <2>2. 0 \in 0..N /\ \A n \in 1..N : n \in 0..N /\ n # 0
    BY <1>1
  <2> QED
    BY <2>1, <2>2
<1> DEFINE Rowed(n) == {RowAt(t, k) : k \in 1..n}
           P == {n \in 0..N : ReadFrom(at[n], Rowed(n))}
<1>10. 0 \in P
  <2>1. Rowed(0) = {} /\ 0 \in 0..N
    BY <1>1
  <2> QED
    BY <2>1, <1>2, <1>9
<1>11. ASSUME NEW n \in 0..N, n \in P, n # N PROVE n + 1 \in P
  <2> DEFINE k == n + 1
  <2>1. k \in 1..N /\ k \in 0..N /\ k - 1 = n
    BY <1>1, <1>11
  <2>2. Rowed(k) = Rowed(n) \cup {RowAt(t, k)}
    <3>1. 1..k = (1..n) \cup {k}
      BY <1>1, <1>11
    <3> QED
      BY <3>1
  <2> HIDE DEF k
  <2>3. at[k] = ReadRow(at[n], RowAt(t, k))
    BY <2>1, <1>9
  <2>4. Rowed(n) \in SUBSET Rows /\ RowAt(t, k) \in Rows
    <3>1. \A i \in 1..n : i \in 1..N
      BY <1>1, <1>11
    <3> QED
      BY <3>1, <2>1, <1>1
  <2> HIDE DEF Rowed
  <2>5. ReadFrom(at[n], Rowed(n))
    BY <1>11
  <2>6. ReadFrom(at[k], Rowed(k))
    BY <2>2, <2>3, <2>4, <2>5, OneMoreRead
  <2> QED
    BY <2>1, <2>6 DEF k
<1>12. N \in P
  <2>1. N \in 0..N
    BY <1>1
  <2> HIDE DEF P
  <2>2. \A n \in 0..N : n \in P
    BY <1>1, <1>10, <1>11, Climbed
  <2> QED
    BY <2>1, <2>2
<1>13. Rowed(N) = R
  BY <1>1
<1> QED
  BY <1>8, <1>12, <1>13 DEF R

\* A header names another message just before this one.
Noted(c) == \E id \in Rows : \E k \in 2..Len(Said(id)) : Said(id)[k] = c

\* The boxes a threading numbers when the headers are unbroken: a link is there
\* because a header says so or because a root has the same subject.
Found(b) ==
    /\ Sound(b) /\ MadeWhole(b) /\ LastHeld(b)
    /\ \A id \in Rows : Hung(b, Said(id), Len(Said(id)))
    /\ \A c \in Mids : b.parent[c] # None =>
          \/ b.parent[c] = AnswerTo[c] /\ Noted(c)
          \/ /\ b.parent[b.parent[c]] = None
             /\ Subject(b, c) # None /\ Subject(b, b.parent[c]) = Subject(b, c)

\* All that a header names hangs below one root.
LEMMA HungTogether ==
    ASSUME ThreaderAssumption, emails \in [Ids -> Mail \cup {None}], AllUnbroken,
           NEW b, Found(b), NEW id \in Rows, NEW k \in 1..Len(Said(id))
    PROVE  /\ Said(id)[k] \in Made(b)
           /\ \A q \in Roots(b) : Said(id)[k] \in Tribe(b, q) <=> emails[id].mid \in Tribe(b, q)
<1> DEFINE s == Said(id)
           L == Len(s)
           In(x) == x \in Made(b) /\ \A q \in Roots(b) : x \in Tribe(b, q) <=> s[1] \in Tribe(b, q)
           P == {n \in 1..L : In(s[n])}
<1>1. /\ L \in Nat /\ L # 0 /\ s[L] = emails[id].mid /\ \A n \in 1..L : s[n] \in Mids
      /\ emails[id].mid \in Mids /\ id \in Ids
  BY RowSays DEF AllUnbroken
<1>2. /\ b.parent \in [Mids -> Mids \cup {None}] /\ None \notin Mids /\ Sound(b) /\ MadeWhole(b)
      /\ LastHeld(b)
  BY DEF Found, Sound, Boxes, ThreaderAssumption
<1>3. \A n \in 2..L : b.parent[s[n]] = s[n - 1]
  BY DEF Found, Hung
<1> HIDE DEF s, L
<1>4. s[1] \in Made(b)
  <2>1. CASE L = 1
    <3>1. Placed(id)
      BY DEF AllUnbroken
    <3>2. b.row[s[1]] = id /\ id # 0
      BY <2>1, <3>1, <1>1, <1>2 DEF LastHeld, Ids
    <3> QED
      BY <2>1, <3>2, <1>1, <1>2 DEF MadeWhole, Real
  <2>2. CASE L # 1
    <3>1. 2 \in 2..L /\ 2 \in 1..L /\ 1 \in 1..L
      BY <2>2, <1>1
    <3>2. b.parent[s[2]] = s[1]
      BY <3>1, <1>3
    <3> QED
      BY <3>1, <3>2, <1>1, <1>2 DEF MadeWhole
  <2> QED
    BY <2>1, <2>2
<1>5. 1 \in P
  BY <1>1, <1>4
<1>6. ASSUME NEW n \in 1..L, n \in P, n # L PROVE n + 1 \in P
  <2> DEFINE i == n + 1
  <2>1. i \in 2..L /\ i \in 1..L /\ i - 1 = n
    BY <1>1, <1>6
  <2> HIDE DEF i
  <2>2. b.parent[s[i]] = s[n] /\ s[i] \in Mids /\ s[n] \in Mids
    BY <2>1, <1>1, <1>3
  <2>3. s[i] \in Made(b)
    BY <2>2, <1>2 DEF MadeWhole
  <2>4. \A q \in Mids : b.parent[q] = None => (Under(b, s[i], q) <=> Under(b, s[n], q))
    <3>1. ASSUME NEW q \in Mids, b.parent[q] = None
          PROVE  Under(b, s[i], q) <=> Under(b, s[n], q)
      <4>1. Under(b, s[i], s[i]) /\ Under(b, s[i], s[n]) /\ s[i] # q
        BY <2>2, <3>1, <1>2, Lineage
      <4>2. Under(b, s[n], q) => Under(b, s[i], q)
        BY <4>1, <2>2, <1>2, Lineage
      <4>3. Under(b, s[i], q) => Under(b, s[n], q)
        BY <4>1, <2>2, <1>2, Lineage
      <4> QED
        BY <4>2, <4>3
    <3> QED
      BY <3>1
  <2>5. Roots(b) \subseteq Mids /\ \A q \in Roots(b) : b.parent[q] = None
    <3>1. Made(b) \subseteq Mids
      BY <1>2, TribesShare
    <3> QED
      BY <3>1 DEF Roots
  <2>6. s[n] \in Made(b) /\ \A q \in Roots(b) : s[n] \in Tribe(b, q) <=> s[1] \in Tribe(b, q)
    BY <1>6
  <2>7. \A q \in Roots(b) : s[i] \in Tribe(b, q) <=> s[1] \in Tribe(b, q)
    BY <2>3, <2>4, <2>5, <2>6 DEF Tribe
  <2>8. In(s[i])
    BY <2>3, <2>7
  <2> HIDE DEF In
  <2> QED
    BY <2>1, <2>8 DEF i
<1> HIDE DEF P
<1>7. \A n \in 1..L : n \in P
  <2>1. L \in Nat /\ 1 \in Nat
    BY <1>1
  <2> QED
    BY ONLY <2>1, <1>5, <1>6, Climbed
<1>8. In(s[k]) /\ In(s[L])
  BY <1>1, <1>7 DEF P, s, L
<1> QED
  BY <1>1, <1>8 DEF s, L

\* Threaded on their own the rows of a tree find their containers again.
LEMMA ViewAgrees ==
    ASSUME ThreaderAssumption, emails \in [Ids -> Mail \cup {None}], AllUnbroken,
           NEW b, Found(b), NEW r \in Roots(b), NEW v, NEW some \in SUBSET Rows,
           \A o \in Rows : o \in some <=> emails[o].mid \in Tribe(b, r),
           ReadFrom(v, some)
    PROVE  /\ Made(v) \subseteq Tribe(b, r)
           /\ \A m \in Tribe(b, r) : v.row[m] = b.row[m]
           /\ \A q \in Roots(v) : q = r \/ (Subject(b, r) # None /\ Subject(b, q) = Subject(b, r))
<1>1. /\ Sound(b) /\ MadeWhole(b) /\ LastHeld(b) /\ Sound(v) /\ MadeWhole(v) /\ r \in Mids
      /\ b \in Boxes /\ v \in Boxes /\ b.parent[r] = None
  <2>1. Sound(b) /\ MadeWhole(b) /\ LastHeld(b) /\ Sound(v) /\ MadeWhole(v)
    BY DEF Found, ReadFrom
  <2>2. Made(b) \subseteq Mids
    BY <2>1, TribesShare
  <2> QED
    BY <2>1, <2>2 DEF Roots, Sound
<1>2. /\ b.row \in [Mids -> Ids \cup {0}] /\ v.row \in [Mids -> Ids \cup {0}]
      /\ v.parent \in [Mids -> Mids \cup {None}] /\ b.parent \in [Mids -> Mids \cup {None}]
      /\ None \notin Mids
  BY <1>1 DEF Boxes, ThreaderAssumption
<1>3. \A o \in Rows : /\ o \in Ids /\ Placed(o) /\ emails[o].mid \in Mids /\ b.row[emails[o].mid] = o
                      /\ \A k \in 1..Len(Said(o)) : Said(o)[k] \in Mids
                      /\ Said(o) \in Seq(Mids) /\ Len(Said(o)) \in Nat
  <2>1. ASSUME NEW o \in Rows
        PROVE  /\ o \in Ids /\ Placed(o) /\ emails[o].mid \in Mids
               /\ \A k \in 1..Len(Said(o)) : Said(o)[k] \in Mids
               /\ Said(o) \in Seq(Mids) /\ Len(Said(o)) \in Nat
    BY RowSays DEF AllUnbroken
  <2> QED
    BY <2>1, <1>1 DEF LastHeld
<1>4. Made(v) \subseteq Tribe(b, r)
  <2>1. ASSUME NEW x \in Made(v) PROVE x \in Tribe(b, r)
    <3>1. PICK o \in some : x \in Range(Said(o))
      BY <2>1 DEF ReadFrom
    <3>2. PICK k \in 1..Len(Said(o)) : x = Said(o)[k]
      BY <3>1, <1>3 DEF Range
    <3>3. emails[o].mid \in Tribe(b, r)
      BY <3>1
    <3> QED
      BY <3>1, <3>2, <3>3, HungTogether
  <2> QED
    BY <2>1
<1>5. Tribe(b, r) \subseteq Mids
  <2>1. Made(b) \subseteq Mids
    BY <1>1, TribesShare
  <2> QED
    BY <2>1 DEF Tribe
<1>6. ASSUME NEW m \in Tribe(b, r) PROVE v.row[m] = b.row[m]
  <2>1. m \in Mids
    BY <1>5
  <2>2. CASE Real(v, m)
    <3>1. v.row[m] \in Rows /\ emails[v.row[m]].mid = m
      BY <2>1, <2>2 DEF ReadFrom
    <3> QED
      BY <3>1, <1>3
  <2>3. CASE Real(b, m)
    <3>1. b.row[m] \in Rows /\ emails[b.row[m]].mid = m
      BY <2>1, <2>3, <1>1 DEF LastHeld, Placed
    <3>2. b.row[m] \in some
      BY <3>1
    <3> QED
      BY <3>1, <3>2 DEF ReadFrom
  <2>4. CASE ~Real(v, m) /\ ~Real(b, m)
    BY <2>4 DEF Real
  <2> QED
    BY <2>2, <2>3, <2>4
<1>7. ASSUME NEW q \in Roots(v), q # r
      PROVE  Subject(b, r) # None /\ Subject(b, q) = Subject(b, r)
  <2>1. q \in Made(v) /\ v.parent[q] = None /\ q \in Tribe(b, r) /\ q \in Mids
    BY <1>4, <1>5 DEF Roots
  <2>2. Under(b, q, r)
    BY <2>1 DEF Tribe
  <2>3. b.parent[q] # None /\ b.parent[q] \in Mids /\ Under(b, b.parent[q], r)
    BY <2>1, <2>2, <1>1, <1>2, <1>7, Lineage
  <2>4. CASE b.parent[q] = AnswerTo[q] /\ Noted(q)
    <3>1. PICK o \in Rows : \E k \in 2..Len(Said(o)) : Said(o)[k] = q
      BY <2>4 DEF Noted
    <3>2. PICK k \in 2..Len(Said(o)) : Said(o)[k] = q
      BY <3>1
    <3>3. k \in 1..Len(Said(o)) /\ k - 1 \in 1..Len(Said(o))
      BY <1>3
    <3>4. emails[o].mid \in Tribe(b, r)
      BY <2>1, <3>2, <3>3, HungTogether
    <3>5. o \in some
      BY <3>4
    <3>6. v.parent[q] = Said(o)[k - 1]
      BY <3>2, <3>5 DEF ReadFrom, Hung
    <3>7. Said(o)[k - 1] \in Mids
      BY <3>3, <1>3
    <3> QED
      BY <2>1, <3>6, <3>7, <1>2
  <2>5. CASE /\ b.parent[b.parent[q]] = None
             /\ Subject(b, q) # None /\ Subject(b, b.parent[q]) = Subject(b, q)
    <3>1. b.parent[q] = r
      BY <2>3, <2>5, <1>1, <1>2, Lineage
    <3> QED
      BY <3>1, <2>5
  <2> QED
    BY <2>1, <2>3, <2>4, <2>5 DEF Found
<1> QED
  BY <1>4, <1>6, <1>7

\* The rows of two containers share a thread when they hang below one root.
Sharing(b, s) ==
    \A m, n \in Mids : Real(b, m) /\ Real(b, n) =>
        /\ s[b.row[m]] # None
        /\ s[b.row[m]].thread = s[b.row[n]].thread
              <=> \E r \in Roots(b) : m \in Tribe(b, r) /\ n \in Tribe(b, r)

\* Every root of a thread read again is the one shown or is gathered below it.
LEMMA RootsGathered ==
    ASSUME ThreaderAssumption, emails \in [Ids -> Mail \cup {None}], AllUnbroken,
           NEW b, Found(b), NEW r \in Roots(b), NEW v, NEW some \in SUBSET Rows,
           \A o \in Rows : o \in some <=> emails[o].mid \in Tribe(b, r),
           ReadFrom(v, some), NEW first \in Roots(v)
    PROVE  \A q \in Roots(v) : q = first \/ (Subject(v, q) = Subject(v, first) /\ Subject(v, q) # None)
<1>1. /\ Made(v) \subseteq Tribe(b, r)
      /\ \A m \in Tribe(b, r) : v.row[m] = b.row[m]
      /\ \A q \in Roots(v) : q = r \/ (Subject(b, r) # None /\ Subject(b, q) = Subject(b, r))
  BY ViewAgrees
<1>2. \A q \in Roots(v) : Subject(v, q) = Subject(b, q)
  BY <1>1 DEF Roots, Subject, Real
<1>3. \A q \in Roots(v) : Subject(v, q) = Subject(b, r)
  BY <1>1, <1>2
<1> QED
  BY <1>1, <1>3

\* The answer shows the messages of all the rows of the thread.
LEMMA AllShown ==
    ASSUME ThreaderAssumption, emails \in [Ids -> Mail \cup {None}], AllUnbroken,
           stored \in [Ids -> [thread : Ids, position : Nat] \cup {None}],
           NEW b, Found(b), Sharing(b, stored), NEW id \in Rows,
           NEW t, t = stored[id].thread
    PROVE  Shown(t) = {emails[o].mid : o \in ThreadRows(t)}
<1> DEFINE v == ViewBox(t)
           some == ThreadRows(t)
           m0 == emails[id].mid
<1>1. ReadFrom(v, some) /\ some \in SUBSET Rows
  BY ViewRead DEF ThreadRows
<1>2. \A o \in Rows : o \in Ids /\ emails[o].mid \in Mids /\ Placed(o) /\ emails[o] \in RowType
  BY RowSays DEF AllUnbroken
<1>3. Sound(b) /\ MadeWhole(b) /\ LastHeld(b)
  BY DEF Found
<1>4. \A o \in Rows : b.row[emails[o].mid] = o /\ Real(b, emails[o].mid)
  BY <1>2, <1>3 DEF LastHeld, Real, Ids
<1>5. PICK r \in Roots(b) : m0 \in Tribe(b, r)
  <2>1. m0 \in Made(b)
    BY <1>2, <1>3, <1>4 DEF MadeWhole
  <2> QED
    BY <2>1, <1>3, TribesShare
<1>6. \A o \in Rows : o \in some <=> emails[o].mid \in Tribe(b, r)
  <2>1. ASSUME NEW o \in Rows PROVE o \in some <=> emails[o].mid \in Tribe(b, r)
    <3>1. /\ stored[o] # None
          /\ stored[o].thread = stored[id].thread
                <=> \E q \in Roots(b) : emails[o].mid \in Tribe(b, q) /\ m0 \in Tribe(b, q)
      BY <1>2, <1>4 DEF Sharing
    <3>2. \A q \in Roots(b) : m0 \in Tribe(b, q) => q = r
      BY <1>3, <1>5, TribesShare
    <3>3. o \in some <=> stored[o].thread = stored[id].thread
      BY <3>1 DEF ThreadRows
    <3> QED
      BY <3>1, <3>2, <3>3, <1>5
  <2> QED
    BY <2>1
<1> HIDE DEF v, some, m0
<1>7. /\ Sound(v) /\ MadeWhole(v) /\ v \in Boxes
      /\ \A m \in Mids : Real(v, m) => v.row[m] \in some /\ emails[v.row[m]].mid = m
      /\ \A o \in some : v.row[emails[o].mid] = o
  BY <1>1 DEF ReadFrom, Sound
<1>8. \A m \in Mids : DateOf(v, m) \in Nat
  <2>1. ASSUME NEW m \in Mids PROVE DateOf(v, m) \in Nat
    <3>1. CASE Real(v, m)
      <4>1. emails[v.row[m]] \in RowType
        BY <3>1, <1>1, <1>2, <1>7
      <4>2. emails[v.row[m]].date \in Nat
        BY <4>1 DEF RowType
      <4> QED
        BY <3>1, <4>2 DEF DateOf
    <3>2. CASE ~Real(v, m)
      BY <3>2 DEF DateOf
    <3> QED
      BY <3>1, <3>2
  <2> QED
    BY <2>1
<1>9. /\ Roots(v) \subseteq Mids /\ Made(v) \subseteq Mids
      /\ \A x \in Made(v) : \E q \in Roots(v) : x \in Tribe(v, q)
  BY <1>7, TribesShare
<1>10. \A o \in some : emails[o].mid \in Mids /\ Real(v, emails[o].mid) /\ emails[o].mid \in Made(v)
  BY <1>1, <1>2, <1>7 DEF Real, Ids, MadeWhole
<1>11. Roots(v) # {}
  <2>1. id \in some
    BY <1>5, <1>6 DEF m0
  <2> QED
    BY <2>1, <1>9, <1>10
<1> DEFINE first == CHOOSE m \in Mids : IsFirst(v, Roots(v), m)
           gathered == {m \in Roots(v) : Subject(v, m) = Subject(v, first) /\ Subject(v, m) # None}
<1>12. Shown(t) = UNION {Range(Walk(v, m)) : m \in {first} \cup gathered}
  BY DEF Shown, v
<1>13. first \in Roots(v)
  <2>1. \E m \in Mids : IsFirst(v, Roots(v), m)
    BY <1>7, <1>8, <1>9, <1>11, FirstFound
  <2>2. IsFirst(v, Roots(v), first)
    BY <2>1
  <2> QED
    BY <2>2 DEF IsFirst
<1> HIDE DEF first
<1>14. {first} \cup gathered = Roots(v)
  <2>1. \A q \in Roots(v) : q = first \/ (Subject(v, q) = Subject(v, first) /\ Subject(v, q) # None)
    BY <1>1, <1>6, <1>13, RootsGathered
  <2> QED
    BY <2>1, <1>13
<1> HIDE DEF gathered
<1>15. \A q \in Roots(v) : Range(Walk(v, q)) = Held(v, q)
  BY <1>7, <1>9, WalkCovers DEF Covers
<1>16. Shown(t) = UNION {Held(v, q) : q \in Roots(v)}
  BY <1>12, <1>14, <1>15
<1>17. ASSUME NEW q \in Roots(v), NEW x \in Held(v, q) PROVE x \in {emails[o].mid : o \in some}
  BY <1>17, <1>7 DEF Held
<1>18. ASSUME NEW o \in some PROVE \E q \in Roots(v) : emails[o].mid \in Held(v, q)
  <2>1. PICK q \in Roots(v) : emails[o].mid \in Tribe(v, q)
    BY <1>9, <1>10
  <2> QED
    BY <2>1, <1>10 DEF Held, Tribe
<1>19. UNION {Held(v, q) : q \in Roots(v)} = {emails[o].mid : o \in some}
  BY <1>17, <1>18
<1> QED
  BY <1>16, <1>19 DEF some

-----------------------------------------------------------------------------
(*****************************************************************************)
(* What is read of an unbroken header stays together                       *)
(*****************************************************************************)
\* Of the names s those of q are left to follow, and p was reached last.
Partway(b, q, p, s) ==
    LET at == Len(s) - 1 - Len(q)
    IN  /\ at \in Nat
        /\ \A j \in 1..Len(q) : q[j] = s[at + j]
        /\ p = IF at = 0 THEN None ELSE s[at]
        /\ Hung(b, s, at)

\* Names each of which answers the one before it.
Rungs(s) ==
    /\ s \in Seq(Mids) /\ Len(s) \in Nat /\ Len(s) # 0
    /\ \A k \in 1..Len(s) : s[k] \in Mids
    /\ \A k \in 2..Len(s) : AnswerTo[s[k]] = s[k - 1]

\* One link more of an unbroken header.
LEMMA RungLinked ==
    ASSUME ThreaderAssumption, NEW b \in Boxes, Mended(b), NEW s, Rungs(s),
           NEW at \in Nat, at + 1 \in 1..Len(s), NEW p, p = IF at = 0 THEN None ELSE s[at],
           Hung(b, s, at), NEW c, c = s[at + 1],
           NEW d, d = Follow(b, p, c) \/ d = LinkOrphan(b, p, c)
    PROVE  /\ Mended(d) /\ Hung(d, s, at + 1)
           /\ \A x \in Mids : b.parent[x] # None => d.parent[x] = b.parent[x]
           /\ \A x \in Mids : d.parent[x] # b.parent[x] => \E k \in 2..Len(s) : s[k] = x
<1> DEFINE L == Len(s)
           n == at + 1
<1>1. /\ L \in Nat /\ n \in 1..L /\ n \in Nat /\ n - 1 = at /\ (at # 0 => at \in 1..L /\ n \in 2..L)
      /\ \A k \in 1..L : s[k] \in Mids
      /\ \A k \in 2..L : AnswerTo[s[k]] = s[k - 1]
  BY DEF Rungs
<1> HIDE DEF L, n
<1>2. c = s[n] /\ c \in Mids
  BY <1>1 DEF n
<1>3. p # None => p \in Mids /\ AnswerTo[c] = p /\ p = s[at] /\ n \in 2..L
  BY <1>1, <1>2
<1>4. at # 0 => p # None
  BY <1>1 DEF ThreaderAssumption
<1>5. /\ Mended(d)
      /\ \A x \in Mids : b.parent[x] # None => d.parent[x] = b.parent[x]
      /\ \A x \in Mids : d.parent[x] # b.parent[x] => x = c /\ p # None
      /\ p # None => d.parent[c] = p
  BY <1>2, <1>3, OneLink
<1>6. Hung(d, s, n)
  <2>1. ASSUME NEW j \in 2..n PROVE d.parent[s[j]] = s[j - 1]
    <3>1. CASE j = n
      BY <3>1, <2>1, <1>1, <1>2, <1>3, <1>4, <1>5
    <3>2. CASE j # n
      <4>1. j \in 2..at /\ j \in 1..L /\ j - 1 \in 1..L
        BY <3>2, <2>1, <1>1
      <4>2. b.parent[s[j]] = s[j - 1] /\ s[j] \in Mids /\ s[j - 1] \in Mids
        BY <4>1, <1>1 DEF Hung
      <4>3. None \notin Mids
        BY DEF ThreaderAssumption
      <4> QED
        BY <4>2, <4>3, <1>5
    <3> QED
      BY <3>1, <3>2
  <2> QED
    BY <2>1 DEF Hung
<1>7. ASSUME NEW x \in Mids, d.parent[x] # b.parent[x] PROVE \E k \in 2..L : s[k] = x
  BY <1>7, <1>2, <1>3, <1>5
<1> QED
  BY <1>5, <1>6, <1>7 DEF L, n

\* The next name of an unbroken header is followed.
LEMMA PartwayOn ==
    ASSUME ThreaderAssumption, NEW b \in Boxes, Mended(b), NEW s, Rungs(s),
           NEW q \in Seq(Mids), q # <<>>, NEW p, Partway(b, q, p, s),
           NEW d, d = Follow(b, p, Head(q))
    PROVE  /\ Mended(d) /\ Partway(d, Tail(q), Head(q), s)
           /\ \A x \in Mids : b.parent[x] # None => d.parent[x] = b.parent[x]
           /\ \A x \in Mids : d.parent[x] # b.parent[x] => \E k \in 2..Len(s) : s[k] = x
<1> DEFINE L == Len(s)
           N == Len(q)
           at == L - 1 - N
           n == at + 1
<1>1. /\ L \in Nat /\ L # 0 /\ N \in Nat /\ N # 0 /\ Head(q) = q[1]
      /\ Len(Tail(q)) = N - 1 /\ \A j \in 1..(N - 1) : Tail(q)[j] = q[j + 1]
  BY DEF Rungs
<1>2. /\ at \in Nat /\ (\A j \in 1..N : q[j] = s[at + j])
      /\ p = (IF at = 0 THEN None ELSE s[at]) /\ Hung(b, s, at)
  BY DEF Partway
<1>3. at + 1 \in 1..L /\ n \in Nat /\ n # 0 /\ L - 1 - (N - 1) = n
  BY <1>1, <1>2
<1> HIDE DEF L, N, at
<1>4. Head(q) = s[at + 1]
  BY <1>1, <1>2
<1>5. /\ Mended(d) /\ Hung(d, s, at + 1)
      /\ \A x \in Mids : b.parent[x] # None => d.parent[x] = b.parent[x]
      /\ \A x \in Mids : d.parent[x] # b.parent[x] => \E k \in 2..Len(s) : s[k] = x
  <2>1. at + 1 \in 1..Len(s)
    BY <1>3 DEF L
  <2> DEFINE c == Head(q)
  <2>2. c = s[at + 1] /\ d = Follow(b, p, c)
    BY <1>4
  <2> HIDE DEF c
  <2> QED
    BY <1>2, <2>1, <2>2, RungLinked
<1>6. \A j \in 1..(N - 1) : Tail(q)[j] = s[n + j]
  <2>1. ASSUME NEW j \in 1..(N - 1) PROVE Tail(q)[j] = s[n + j]
    <3>1. j + 1 \in 1..N /\ at + (j + 1) = n + j
      BY <1>1, <1>2
    <3>2. q[j + 1] = s[at + (j + 1)]
      BY <3>1, <1>2
    <3> QED
      BY <3>1, <3>2, <1>1
  <2> QED
    BY <2>1
<1>7. Head(q) = s[n] /\ Hung(d, s, n)
  BY <1>4, <1>5
<1> HIDE DEF n
<1>8. Partway(d, Tail(q), Head(q), s)
  <2> DEFINE u == Tail(q)
             h == Head(q)
             z == Len(u)
  <2>1. Len(s) - 1 - z = n /\ z = N - 1
    BY <1>1, <1>3 DEF L
  <2>2. (\A j \in 1..z : u[j] = s[n + j]) /\ n \in Nat /\ n # 0 /\ h = s[n] /\ Hung(d, s, n)
    BY <2>1, <1>3, <1>6, <1>7
  <2> HIDE DEF u, h, z
  <2>3. Partway(d, u, h, s) <=> LET i == Len(s) - 1 - z
                                IN  /\ i \in Nat /\ \A j \in 1..z : u[j] = s[i + j]
                                    /\ h = IF i = 0 THEN None ELSE s[i]
                                    /\ Hung(d, s, i)
    BY DEF Partway, z
  <2>4. Partway(d, u, h, s)
    BY <2>1, <2>2, <2>3
  <2> QED
    BY <2>4 DEF u, h
<1> QED
  BY <1>5, <1>8

\* The message is hung below the last name.
LEMMA PartwayEnd ==
    ASSUME ThreaderAssumption, NEW b \in Boxes, Mended(b), NEW s, Rungs(s),
           NEW p, Partway(b, <<>>, p, s), NEW m, m = s[Len(s)],
           NEW d, d = LinkOrphan(b, p, m)
    PROVE  /\ Mended(d) /\ Hung(d, s, Len(s))
           /\ \A x \in Mids : b.parent[x] # None => d.parent[x] = b.parent[x]
           /\ \A x \in Mids : d.parent[x] # b.parent[x] => \E k \in 2..Len(s) : s[k] = x
<1> DEFINE at == Len(s) - 1
<1>1. Len(s) \in Nat /\ Len(s) # 0
  BY DEF Rungs
<1>2. at \in Nat /\ at + 1 = Len(s) /\ at + 1 \in 1..Len(s) /\ Len(s) - 1 - 0 = at
  BY <1>1
<1>3. p = (IF at = 0 THEN None ELSE s[at]) /\ Hung(b, s, at)
  <2>1. Len(<<>>) = 0
    OBVIOUS
  <2>2. Len(s) - 1 - Len(<<>>) = at
    BY <1>2, <2>1
  <2> HIDE DEF at
  <2> QED
    BY <2>2 DEF Partway
<1> HIDE DEF at
<1>4. m = s[at + 1]
  BY <1>2
<1>5. /\ Mended(d) /\ Hung(d, s, at + 1)
      /\ \A x \in Mids : b.parent[x] # None => d.parent[x] = b.parent[x]
      /\ \A x \in Mids : d.parent[x] # b.parent[x] => \E k \in 2..Len(s) : s[k] = x
  BY <1>2, <1>3, <1>4, RungLinked
<1> QED
  BY <1>2, <1>5

\* Links are there because a header says so or because of a subject.
SaidLinks ==
    \A c \in Mids : box.parent[c] # None =>
        \/ box.parent[c] = AnswerTo[c] /\ Noted(c)
        \/ /\ phase = "subject" /\ box.parent[c] \in Range(merged)
           /\ Subject(box, c) # None /\ Subject(box, box.parent[c]) = Subject(box, c)

\* What the rows read so far name hangs together ...
ReadHang == phase # "idle" => \A id \in Rows \ rows : Hung(box, Said(id), Len(Said(id)))

\* ... and so does what has been followed of the row being read.
ReadingHangs ==
    phase = "chain" => \A id \in rows : Reading(id) => Partway(box, chain, prev, Said(id))

UnbrokenKept == AllUnbroken => SaidLinks /\ ReadHang /\ ReadingHangs

\* What the headers say changes with the mail only.
LEMMA SameSayings ==
    ASSUME UNCHANGED emails
    PROVE  /\ AllUnbroken' <=> AllUnbroken
           /\ Rows' = Rows
           /\ \A c : Noted(c)' <=> Noted(c)
           /\ \A id : Hung(box, Said(id), Len(Said(id)))' <=> Hung(box', Said(id), Len(Said(id)))
           /\ \A id : Partway(box, chain, prev, Said(id))' <=> Partway(box', chain', prev', Said(id))
<1>1. Rows' = Rows
  BY DEF Rows
<1>2. \A id : Said(id)' = Said(id) /\ (Unbroken(emails[id])' <=> Unbroken(emails[id]))
  BY DEF Said, Names, Chain, Unbroken
<1>3. \A id : Placed(id)' <=> Placed(id)
  BY <1>1 DEF Placed
<1>4. AllUnbroken' <=> AllUnbroken
  BY <1>1, <1>2, <1>3 DEF AllUnbroken
<1>5. \A c : Noted(c)' <=> Noted(c)
  BY <1>1, <1>2 DEF Noted
<1>6. \A id : Hung(box, Said(id), Len(Said(id)))' <=> Hung(box', Said(id), Len(Said(id)))
  BY <1>2 DEF Hung
<1>7. \A id : Partway(box, chain, prev, Said(id))' <=> Partway(box', chain', prev', Said(id))
  BY <1>2 DEF Partway, Hung
<1> QED
  BY <1>1, <1>4, <1>5, <1>6, <1>7

\* An empty box claims nothing.
LEMMA NothingSaid ==
    ASSUME ThreaderAssumption, box = NoContainers, phase # "chain",
           phase # "idle" => rows = Rows
    PROVE  UnbrokenKept
<1>1. \A c \in Mids : box.parent[c] = None
  BY DEF NoContainers
<1> QED
  BY <1>1 DEF UnbrokenKept, SaidLinks, ReadHang, ReadingHangs

\* Nor does one that is empty next.
LEMMA NothingSaidNext ==
    ASSUME ThreaderAssumption, box' = NoContainers, phase' # "chain",
           phase' # "idle" => rows' = Rows'
    PROVE  UnbrokenKept'
<1>1. \A c \in Mids : box'.parent[c] = None
  BY DEF NoContainers
<1>2. SaidLinks'
  BY <1>1 DEF SaidLinks
<1> QED
  BY <1>2 DEF UnbrokenKept, ReadHang, ReadingHangs

\* What a row says is a ladder.
LEMMA SaysRungs ==
    ASSUME ThreaderAssumption, Scanning, AllUnbroken, NEW id \in Rows
    PROVE  Rungs(Said(id)) /\ Said(id)[Len(Said(id))] = emails[id].mid
<1>1. emails \in [Ids -> Mail \cup {None}] /\ Unbroken(emails[id])
  BY DEF Scanning, AllUnbroken
<1> QED
  BY <1>1, RowSays DEF Rungs

\* What hangs goes on hanging when no link is taken back.
LEMMA StillHung ==
    ASSUME ThreaderAssumption, Scanning, AllUnbroken, NEW id \in Rows, NEW b,
           Hung(b, Said(id), Len(Said(id))), NEW d,
           \A x \in Mids : b.parent[x] # None => d.parent[x] = b.parent[x]
    PROVE  Hung(d, Said(id), Len(Said(id)))
<1> DEFINE s == Said(id)
<1>1. Rungs(s) /\ None \notin Mids
  BY SaysRungs DEF ThreaderAssumption
<1>2. ASSUME NEW k \in 2..Len(s) PROVE d.parent[s[k]] = s[k - 1]
  <2>1. k \in 1..Len(s) /\ k - 1 \in 1..Len(s)
    BY <1>1 DEF Rungs
  <2>2. b.parent[s[k]] = s[k - 1]
    BY DEF Hung
  <2>3. s[k] \in Mids /\ s[k - 1] \in Mids
    BY <2>1, <1>1 DEF Rungs
  <2> QED
    BY <2>2, <2>3, <1>1
<1> QED
  BY <1>2 DEF Hung

\* While headers are read every link is one of theirs.
LEMMA StillMended ==
    ASSUME SaidLinks, phase # "subject"
    PROVE  Mended(box)
  BY DEF SaidLinks, Mended

\* A row taken up has its whole header before it.
LEMMA TakeSays ==
    ASSUME Told, UnbrokenKept, ThreaderAssumption, NEW id \in Ids, TakeRow(id)
    PROVE  UnbrokenKept'
<1> USE DEF Told
<1> SUFFICES ASSUME AllUnbroken'
             PROVE  SaidLinks' /\ ReadHang' /\ ReadingHangs'
  BY DEF UnbrokenKept
<1> DEFINE m == emails[id].mid
           q == Chain(emails[id])
           s == Said(id)
<1>1. /\ phase = "row" /\ phase' = "chain" /\ id \in rows /\ Reading(id)
      /\ box' = Take(box, id) /\ chain' = q /\ prev' = None
      /\ UNCHANGED <<emails, rows, merged>>
  BY DEF TakeRow, Reading
<1>2. /\ AllUnbroken /\ Rows' = Rows
      /\ \A c : Noted(c)' <=> Noted(c)
      /\ \A o : Hung(box, Said(o), Len(Said(o)))' <=> Hung(box', Said(o), Len(Said(o)))
      /\ \A o : Partway(box, chain, prev, Said(o))' <=> Partway(box', chain', prev', Said(o))
  BY <1>1, SameSayings
<1>3. SaidLinks /\ ReadHang /\ ReadingHangs
  BY <1>2 DEF UnbrokenKept
<1>4. /\ Scanning /\ id \in Rows /\ box \in Boxes
  BY <1>1 DEF ThreadInv, ForestInv, Scanning, Sound
<1>5. m \in Mids /\ q \in Seq(Mids)
  BY <1>4, RowIsMail
<1>6. box'.parent = box.parent
  <2> HIDE DEF m
  <2> QED
    BY <1>1, <1>4, <1>5, TakeEffect DEF m
<1>7. SaidLinks'
  <2>1. ASSUME NEW c \in Mids, box'.parent[c] # None
        PROVE  box'.parent[c] = AnswerTo[c] /\ Noted(c)'
    BY <2>1, <1>1, <1>2, <1>3, <1>6 DEF SaidLinks
  <2> QED
    BY <2>1 DEF SaidLinks
<1>8. ReadHang'
  <2>1. \A o : Hung(box', Said(o), Len(Said(o))) <=> Hung(box, Said(o), Len(Said(o)))
    BY <1>6 DEF Hung
  <2> QED
    BY <2>1, <1>1, <1>2, <1>3 DEF ReadHang
<1>9. \A o \in rows : Reading(o)' <=> o = id
  BY <1>1, OneReading DEF Reading
<1>10. Partway(box', q, None, s)
  <2>1. s = Append(q, m)
    BY DEF Said, Names
  <2> HIDE DEF q, s, m
  <2>2. Len(s) - 1 - Len(q) = 0 /\ \A j \in 1..Len(q) : q[j] = s[0 + j]
    <3>1. Len(s) = Len(q) + 1 /\ Len(q) \in Nat /\ \A j \in 1..Len(q) : q[j] = s[j]
      BY <2>1, <1>5
    <3> QED
      BY <3>1
  <2>3. Hung(box', s, 0)
    BY DEF Hung
  <2> QED
    BY <2>2, <2>3 DEF Partway
<1>11. ReadingHangs'
  BY <1>1, <1>2, <1>9, <1>10 DEF ReadingHangs
<1> QED
  BY <1>7, <1>8, <1>11

\* A reference followed hangs below the one before it, as the header says.
LEMMA FollowSays ==
    ASSUME Told, UnbrokenKept, ThreaderAssumption, FollowRef
    PROVE  UnbrokenKept'
<1> USE DEF Told
<1> SUFFICES ASSUME AllUnbroken'
             PROVE  SaidLinks' /\ ReadHang' /\ ReadingHangs'
  BY DEF UnbrokenKept
<1>1. /\ phase = "chain" /\ chain # <<>> /\ box' = Follow(box, prev, Head(chain))
      /\ prev' = Head(chain) /\ chain' = Tail(chain)
      /\ UNCHANGED <<emails, phase, rows, merged>>
  BY DEF FollowRef
<1>2. /\ AllUnbroken /\ Rows' = Rows
      /\ \A c : Noted(c)' <=> Noted(c)
      /\ \A o : Hung(box, Said(o), Len(Said(o)))' <=> Hung(box', Said(o), Len(Said(o)))
      /\ \A o : Partway(box, chain, prev, Said(o))' <=> Partway(box', chain', prev', Said(o))
  BY <1>1, SameSayings
<1>3. SaidLinks /\ ReadHang /\ ReadingHangs
  BY <1>2 DEF UnbrokenKept
<1>4. /\ Scanning /\ box \in Boxes /\ chain \in Seq(Mids)
  BY DEF ThreadInv, ForestInv, Scanning, Sound
<1>5. PICK id \in rows : Reading(id)
  BY <1>1 DEF Speaking
<1> DEFINE s == Said(id)
<1>6. id \in Rows
  BY <1>4, <1>5 DEF Scanning
<1>7. Rungs(s) /\ Partway(box, chain, prev, s) /\ Mended(box)
  BY <1>1, <1>2, <1>3, <1>4, <1>5, <1>6, SaysRungs, StillMended DEF ReadingHangs
<1> HIDE DEF s
<1>8. /\ Mended(box') /\ Partway(box', Tail(chain), Head(chain), s)
      /\ \A x \in Mids : box.parent[x] # None => box'.parent[x] = box.parent[x]
      /\ \A x \in Mids : box'.parent[x] # box.parent[x] => \E k \in 2..Len(s) : s[k] = x
  <2> DEFINE d == Follow(box, prev, Head(chain))
  <2>1. /\ Mended(d) /\ Partway(d, Tail(chain), Head(chain), s)
        /\ \A x \in Mids : box.parent[x] # None => d.parent[x] = box.parent[x]
        /\ \A x \in Mids : d.parent[x] # box.parent[x] => \E k \in 2..Len(s) : s[k] = x
    BY <1>1, <1>4, <1>7, PartwayOn
  <2> HIDE DEF d
  <2> QED
    BY <2>1, <1>1 DEF d
<1>9. \A c \in Mids : box'.parent[c] # None => box'.parent[c] = AnswerTo[c] /\ Noted(c)
  <2>1. ASSUME NEW c \in Mids, box'.parent[c] # None PROVE Noted(c)
    <3>1. CASE box'.parent[c] = box.parent[c]
      BY <3>1, <2>1, <1>1, <1>3 DEF SaidLinks
    <3>2. CASE box'.parent[c] # box.parent[c]
      BY <3>2, <1>6, <1>8 DEF Noted, s
    <3> QED
      BY <3>1, <3>2
  <2> QED
    BY <2>1, <1>8 DEF Mended
<1>10. SaidLinks'
  BY <1>2, <1>9 DEF SaidLinks
<1>11. \A o \in Rows : Hung(box, Said(o), Len(Said(o))) => Hung(box', Said(o), Len(Said(o)))
  BY <1>2, <1>4, <1>8, StillHung
<1>12. ReadHang'
  BY <1>1, <1>2, <1>3, <1>11 DEF ReadHang
<1>13. \A o \in rows : Reading(o)' <=> o = id
  BY <1>1, <1>5, OneReading DEF Reading
<1>14. ReadingHangs'
  BY <1>1, <1>2, <1>8, <1>13 DEF ReadingHangs, s
<1> QED
  BY <1>10, <1>12, <1>14

\* The row read, all of its header hangs together.
LEMMA AttachSays ==
    ASSUME Told, UnbrokenKept, ThreaderAssumption, NEW id \in Ids, Attach(id)
    PROVE  UnbrokenKept'
<1> USE DEF Told
<1> SUFFICES ASSUME AllUnbroken'
             PROVE  SaidLinks' /\ ReadHang' /\ ReadingHangs'
  BY DEF UnbrokenKept
<1> DEFINE m == emails[id].mid
           s == Said(id)
<1>1. /\ phase = "chain" /\ phase' = "row" /\ chain = <<>> /\ id \in rows /\ Reading(id)
      /\ box' = LinkOrphan(box, prev, m) /\ rows' = rows \ {id}
      /\ UNCHANGED <<emails, merged>>
  BY DEF Attach, Reading
<1>2. /\ AllUnbroken /\ Rows' = Rows
      /\ \A c : Noted(c)' <=> Noted(c)
      /\ \A o : Hung(box, Said(o), Len(Said(o)))' <=> Hung(box', Said(o), Len(Said(o)))
  BY <1>1, SameSayings
<1>3. SaidLinks /\ ReadHang /\ ReadingHangs
  BY <1>2 DEF UnbrokenKept
<1>4. /\ Scanning /\ box \in Boxes /\ id \in Rows
  BY <1>1 DEF ThreadInv, ForestInv, Scanning, Sound
<1>5. Rungs(s) /\ m = s[Len(s)] /\ Partway(box, <<>>, prev, s) /\ Mended(box)
  BY <1>1, <1>2, <1>3, <1>4, SaysRungs, StillMended DEF ReadingHangs
<1> HIDE DEF s, m
<1>6. /\ Mended(box') /\ Hung(box', s, Len(s))
      /\ \A x \in Mids : box.parent[x] # None => box'.parent[x] = box.parent[x]
      /\ \A x \in Mids : box'.parent[x] # box.parent[x] => \E k \in 2..Len(s) : s[k] = x
  <2> DEFINE d == LinkOrphan(box, prev, m)
  <2>1. /\ Mended(d) /\ Hung(d, s, Len(s))
        /\ \A x \in Mids : box.parent[x] # None => d.parent[x] = box.parent[x]
        /\ \A x \in Mids : d.parent[x] # box.parent[x] => \E k \in 2..Len(s) : s[k] = x
    BY <1>4, <1>5, PartwayEnd
  <2> HIDE DEF d
  <2> QED
    BY <2>1, <1>1 DEF d
<1>7. \A c \in Mids : box'.parent[c] # None => box'.parent[c] = AnswerTo[c] /\ Noted(c)
  <2>1. ASSUME NEW c \in Mids, box'.parent[c] # None PROVE Noted(c)
    <3>1. CASE box'.parent[c] = box.parent[c]
      BY <3>1, <2>1, <1>1, <1>3 DEF SaidLinks
    <3>2. CASE box'.parent[c] # box.parent[c]
      BY <3>2, <1>4, <1>6 DEF Noted, s
    <3> QED
      BY <3>1, <3>2
  <2> QED
    BY <2>1, <1>6 DEF Mended
<1>8. SaidLinks'
  BY <1>2, <1>7 DEF SaidLinks
<1>9. \A o \in Rows : Hung(box, Said(o), Len(Said(o))) => Hung(box', Said(o), Len(Said(o)))
  BY <1>2, <1>4, <1>6, StillHung
<1>10. ReadHang'
  BY <1>1, <1>2, <1>3, <1>6, <1>9 DEF ReadHang, s
<1>11. ReadingHangs'
  BY <1>1 DEF ReadingHangs
<1> QED
  BY <1>8, <1>10, <1>11

\* Looking at subjects links roots only, and takes no link back.
LEMMA SubjectSays ==
    ASSUME Told, UnbrokenKept, ThreaderAssumption, GatherRoots \/ \E m \in Mids : MergeRoot(m)
    PROVE  UnbrokenKept'
<1> USE DEF Told
<1> SUFFICES ASSUME AllUnbroken'
             PROVE  SaidLinks' /\ ReadHang' /\ ReadingHangs'
  BY DEF UnbrokenKept
<1>1. phase' = "subject" /\ emails' = emails /\ rows' = rows /\ phase # "idle"
  BY DEF GatherRoots, MergeRoot
<1>2. /\ AllUnbroken /\ Rows' = Rows
      /\ \A c : Noted(c)' <=> Noted(c)
      /\ \A o : Hung(box, Said(o), Len(Said(o)))' <=> Hung(box', Said(o), Len(Said(o)))
  BY <1>1, SameSayings
<1>3. SaidLinks /\ ReadHang /\ ReadingHangs
  BY <1>2 DEF UnbrokenKept
<1>4. ReadingHangs'
  BY <1>1 DEF ReadingHangs
<1>5. CASE GatherRoots
  <2>1. phase = "row" /\ box' = box
    BY <1>5 DEF GatherRoots
  <2>2. SaidLinks'
    <3>1. ASSUME NEW c \in Mids, box'.parent[c] # None
          PROVE  box'.parent[c] = AnswerTo[c] /\ Noted(c)'
      BY <2>1, <3>1, <1>2, <1>3 DEF SaidLinks
    <3> QED
      BY <3>1 DEF SaidLinks
  <2>3. ReadHang'
    BY <2>1, <1>1, <1>2, <1>3 DEF ReadHang
  <2> QED
    BY <2>2, <2>3, <1>4
<1>6. ASSUME NEW m \in Mids, MergeRoot(m)
      PROVE  SaidLinks' /\ ReadHang'
  <2>1. phase = "subject" /\ m \in roots
    BY <1>6 DEF MergeRoot, IsFirst
  <2>2. /\ Scanning /\ box \in Boxes /\ merged \in Seq(Mids) /\ RootsSplit
    BY <2>1 DEF ThreadInv, ForestInv, Scanning, Sound, Progress
  <2>3. box.parent[m] = None
    BY <2>1, <2>2 DEF RootsSplit, Roots
  <2>4. CASE Anchors(box, merged, m) = {}
    <3>1. box' = box /\ merged' = Append(merged, m)
      BY <1>6, <2>4 DEF MergeRoot
    <3>2. Range(merged') = Range(merged) \cup {m}
      BY <3>1, <2>2, Appended
    <3>3. Range(merged)' = Range(merged') /\ \A c : Subject(box, c)' = Subject(box, c)
      BY <3>1, <1>1 DEF Range, Subject, Real
    <3>4. SaidLinks'
      <4>1. \A c : Noted(c)' <=> Noted(c)
        BY <1>2
      <4> QED
        BY <4>1, <3>1, <3>2, <3>3, <1>1, <1>3, <2>1 DEF SaidLinks
    <3>5. ReadHang'
      BY <3>1, <1>1, <1>2, <1>3 DEF ReadHang
    <3> QED
      BY <3>4, <3>5
  <2>5. CASE Anchors(box, merged, m) # {}
    <3>1. PICK a \in Anchors(box, merged, m) : box' = Link(box, a, m) /\ merged' = merged
      BY <1>6, <2>5 DEF MergeRoot
    <3>2. /\ a \in Range(merged) /\ Subject(box, a) = Subject(box, m) /\ Subject(box, m) # None
      BY <3>1 DEF Anchors
    <3>3. a \in Mids
      BY <3>2, <2>2, RangeWithin
    <3>4. /\ box'.row = box.row
          /\ box'.parent \in {box.parent, [box.parent EXCEPT ![m] = a]}
      <4> DEFINE d == Link(box, a, m)
      <4>1. box \in Boxes /\ a \in Mids /\ m \in Mids
        BY <3>3, <2>2, <1>6
      <4>2. /\ d.row = box.row
            /\ d.parent \in {box.parent, [box.parent EXCEPT ![m] = a]}
        BY ONLY <4>1, LinkEffect
      <4> HIDE DEF d
      <4> QED
        BY <4>2, <3>1 DEF d
    <3>5. box.parent \in [Mids -> Mids \cup {None}]
      BY <2>2 DEF Boxes
    <3>6. /\ \A c \in Mids : c # m => box'.parent[c] = box.parent[c]
          /\ box'.parent[m] = None \/ box'.parent[m] = a
      BY <3>4, <3>5, <2>3
    <3>7. \A c : Subject(box', c) = Subject(box, c)
      BY <3>4 DEF Subject, Real
    <3>8. /\ \A c : Subject(box, c)' = Subject(box', c)
          /\ \A c \in Mids : Subject(box, box.parent[c])' = Subject(box', box'.parent[c])
          /\ Range(merged)' = Range(merged)
      BY <3>1, <1>1 DEF Subject, Real, Range
    <3>9. SaidLinks'
      <4>1. ASSUME NEW c \in Mids, box'.parent[c] # None
            PROVE  \/ box'.parent[c] = AnswerTo[c] /\ Noted(c)
                   \/ /\ box'.parent[c] \in Range(merged)
                      /\ Subject(box, c) # None
                      /\ Subject(box, box'.parent[c]) = Subject(box, c)
        <5>1. CASE c = m
          BY <5>1, <4>1, <3>2, <3>6
        <5>2. CASE c # m
          BY <5>2, <4>1, <3>6, <1>3 DEF SaidLinks
        <5> QED
          BY <5>1, <5>2
      <4>2. \A c : Noted(c)' <=> Noted(c)
        BY <1>2
      <4> QED
        BY <4>1, <4>2, <3>7, <3>8, <1>1 DEF SaidLinks
    <3>10. ReadHang'
      <4>1. \A x \in Mids : box.parent[x] # None => box'.parent[x] = box.parent[x]
        BY <3>6, <2>3
      <4>2. \A o \in Rows : Hung(box, Said(o), Len(Said(o))) => Hung(box', Said(o), Len(Said(o)))
        BY <4>1, <2>2, <1>2, StillHung
      <4> QED
        BY <4>2, <1>1, <1>2, <1>3 DEF ReadHang
    <3> QED
      BY <3>9, <3>10
  <2> QED
    BY <2>4, <2>5
<1> QED
  BY <1>4, <1>5, <1>6

\* Every step keeps what unbroken headers have linked.
LEMMA SaysStep ==
    ASSUME Told, Told', UnbrokenKept, ThreaderAssumption, [Next]_vars
    PROVE  UnbrokenKept'
<1>1. CASE (\E r \in Mail : Index(r)) \/ (\E id \in Ids : Delete(id)) \/ Number \/ EndEarly
  <2>1. phase' = "idle"
    BY <1>1 DEF Index, Delete, Number, EndEarly
  <2>2. box' = NoContainers
    BY <2>1 DEF Told, ThreadInv, Progress
  <2> QED
    BY <2>1, <2>2, NothingSaidNext
<1>2. CASE Start
  <2>1. phase' # "chain" /\ box' = NoContainers /\ rows' = Rows'
    BY <1>2 DEF Start, Told, ThreadInv, Progress, Rows
  <2> QED
    BY <2>1, NothingSaidNext
<1>3. CASE \E id \in Ids : TakeRow(id) \/ Attach(id)
  BY <1>3, TakeSays, AttachSays
<1>4. CASE FollowRef
  BY <1>4, FollowSays
<1>5. CASE GatherRoots \/ \E m \in Mids : MergeRoot(m)
  BY <1>5, SubjectSays
<1>6. CASE UNCHANGED vars
  <2>1. UNCHANGED <<emails, phase, rows, chain, prev, box, merged>>
    BY <1>6 DEF vars
  <2>2. /\ AllUnbroken' <=> AllUnbroken
        /\ Rows' = Rows
        /\ \A c : Noted(c)' <=> Noted(c)
        /\ \A o : Hung(box, Said(o), Len(Said(o)))' <=> Hung(box', Said(o), Len(Said(o)))
        /\ \A o : Partway(box, chain, prev, Said(o))' <=> Partway(box', chain', prev', Said(o))
    BY <2>1, SameSayings
  <2>3. SaidLinks' <=> SaidLinks
    BY <2>1, <2>2 DEF SaidLinks, Subject, Real, Range
  <2>4. ReadHang' <=> ReadHang
    BY <2>1, <2>2 DEF ReadHang
  <2>5. \A o : Reading(o)' <=> Reading(o)
    BY <2>1 DEF Reading
  <2>6. ReadingHangs' <=> ReadingHangs
    BY <2>1, <2>2, <2>5 DEF ReadingHangs
  <2> QED
    BY <2>2, <2>3, <2>4, <2>6 DEF UnbrokenKept
<1> QED
  BY <1>1, <1>2, <1>3, <1>4, <1>5, <1>6 DEF Next, Threading

\* What is numbered when the headers are unbroken, and how.
LEMMA NumberFinds ==
    ASSUME Told, UnbrokenKept, ThreaderAssumption, Number, AllUnbroken
    PROVE  Found(box) /\ Sharing(box, stored')
<1> USE DEF Told
<1>1. phase = "subject" /\ roots = {}
  BY DEF Number
<1>2. /\ Sound(box) /\ MadeWhole(box) /\ rows = {} /\ RootsSplit
  BY <1>1 DEF ThreadInv, ForestInv, Scanning, Progress
<1>3. SaidLinks /\ ReadHang
  BY DEF UnbrokenKept
<1>4. LastHeld(box) /\ Sharing(box, stored')
  BY NumberWrites DEF Sharing
<1>5. \A id \in Rows : Hung(box, Said(id), Len(Said(id)))
  BY <1>1, <1>2, <1>3 DEF ReadHang
<1>6. ASSUME NEW c \in Mids, box.parent[c] # None
      PROVE  \/ box.parent[c] = AnswerTo[c] /\ Noted(c)
             \/ /\ box.parent[box.parent[c]] = None
                /\ Subject(box, c) # None /\ Subject(box, box.parent[c]) = Subject(box, c)
  <2>1. \A a \in Range(merged) : box.parent[a] = None
    BY <1>2 DEF RootsSplit, Roots
  <2> QED
    BY <2>1, <1>3, <1>6 DEF SaidLinks
<1> QED
  BY <1>2, <1>4, <1>5, <1>6 DEF Found

\* The threads are those of such a box.
ThreadsFound ==
    Settled /\ AllUnbroken /\ Rows # {} => \E b : Found(b) /\ Sharing(b, stored)

\* Boxes are found by the mail alone.
LEMMA SameFound ==
    ASSUME UNCHANGED emails
    PROVE  \A b : Found(b)' <=> Found(b)
<1>1. Rows' = Rows /\ \A c : Noted(c)' <=> Noted(c)
  BY SameSayings
<1>2. \A id : Placed(id)' <=> Placed(id)
  BY <1>1 DEF Placed
<1>3. \A b : LastHeld(b)' <=> LastHeld(b)
  BY <1>2 DEF LastHeld, Real
<1>4. \A b, c : Subject(b, c)' = Subject(b, c)
  BY DEF Subject, Real
<1>5. \A id : Said(id)' = Said(id)
  BY DEF Said, Names, Chain
<1>6. \A b, id : Hung(b, Said(id), Len(Said(id)))' <=> Hung(b, Said(id), Len(Said(id)))
  BY <1>5 DEF Hung
<1>7. ASSUME NEW b PROVE Found(b)' <=> Found(b)
  <2>1. \A c : Subject(b, b.parent[c])' = Subject(b, b.parent[c])
    BY <1>4
  <2>2. (Sound(b)' <=> Sound(b)) /\ (MadeWhole(b)' <=> MadeWhole(b))
    BY DEF MadeWhole, Real
  <2> QED
    BY <2>1, <2>2, <1>1, <1>3, <1>4, <1>6 DEF Found
<1> QED
  BY <1>7

\* With unbroken headers and no copies get_email_thread shows every message of
\* the thread (ReadBackWhole).
THEOREM ReadWhole == Spec => []ReadBackWhole
<1> USE ThreaderAssumption
<1> DEFINE Inv == Told /\ UnbrokenKept /\ ThreadsFound
<1>1. Init => Inv
  <2> SUFFICES ASSUME Init PROVE Inv
    OBVIOUS
  <2>1. Told
    BY ToldInit
  <2>2. Rows = {}
    BY DEF Init, Rows
  <2>3. UnbrokenKept
    BY NothingSaid DEF Init
  <2> QED
    BY <2>1, <2>2, <2>3 DEF ThreadsFound
<1>2. Inv /\ [Next]_vars => Inv'
  <2> SUFFICES ASSUME Inv, [Next]_vars PROVE Inv'
    OBVIOUS
  <2>1. Told'
    BY ThreadStep, ToldKeeps DEF Told
  <2>2. UnbrokenKept'
    BY <2>1, SaysStep
  <2>3. CASE Number
    <3>1. emails' = emails
      BY <2>3 DEF Number
    <3>2. AllUnbroken' <=> AllUnbroken
      BY <3>1, SameSayings
    <3>3. AllUnbroken => Found(box) /\ Sharing(box, stored')
      BY <2>3, NumberFinds
    <3>4. \A b : Found(b)' <=> Found(b)
      BY <3>1, SameFound
    <3>5. \A b : Sharing(b, stored)' <=> Sharing(b, stored')
      BY DEF Sharing, Real, Roots, Tribe, Made, Under, CreatesCycle, Upward
    <3>6. ThreadsFound'
      BY <3>2, <3>3, <3>4, <3>5 DEF ThreadsFound
    <3> QED
      BY <2>1, <2>2, <3>6
  <2>4. CASE Next /\ ~Number
    <3>1. dirty'
      BY <2>4 DEF Next, Threading, Index, Delete, Start, TakeRow, FollowRef, Attach, GatherRoots,
                  MergeRoot, EndEarly, Told, ThreadInv, Progress, Indexed
    <3> QED
      BY <2>1, <2>2, <3>1 DEF ThreadsFound, Settled
  <2>5. CASE UNCHANGED vars
    <3>1. UNCHANGED <<emails, stored, phase, dirty>>
      BY <2>5 DEF vars
    <3>2. (AllUnbroken' <=> AllUnbroken) /\ Rows' = Rows
      BY <3>1, SameSayings
    <3>3. \A b : Found(b)' <=> Found(b)
      BY <3>1, SameFound
    <3>4. \A b : Sharing(b, stored)' <=> Sharing(b, stored)
      BY <3>1 DEF Sharing, Real, Roots, Tribe, Made, Under, CreatesCycle, Upward
    <3>5. ThreadsFound'
      BY <3>1, <3>2, <3>3, <3>4 DEF ThreadsFound, Settled
    <3> QED
      BY <2>1, <2>2, <3>5
  <2> QED
    BY <2>3, <2>4, <2>5
<1>3. Inv => ReadBackWhole
  <2> SUFFICES ASSUME Inv, Settled, AllUnbroken, NEW id \in Rows
               PROVE  Shown(stored[id].thread) = {emails[o].mid : o \in ThreadRows(stored[id].thread)}
    BY DEF ReadBackWhole, AllUnbroken
  <2>1. PICK b : Found(b) /\ Sharing(b, stored)
    BY DEF ThreadsFound
  <2>2. /\ emails \in [Ids -> Mail \cup {None}]
        /\ stored \in [Ids -> [thread : Ids, position : Nat] \cup {None}]
    BY DEF Told, ThreadInv, ForestInv, Scanning, Indexed
  <2> QED
    BY <2>1, <2>2, AllShown
<1> QED
  BY <1>1, <1>2, <1>3, PTL DEF Spec

=============================================================================
