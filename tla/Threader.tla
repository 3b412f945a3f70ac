------------------------------ MODULE Threader ------------------------------
(***************************************************************************)
(* Conversations: index_threads and get_email_thread of read/threader.py.  *)
(* A container per Message-ID, linked along References and In-Reply-To,    *)
(* orphan roots gathered by subject, children sorted, rows numbered by a   *)
(* walk.  Message-IDs a header names without a row are phantoms.           *)
(***************************************************************************)
EXTENDS Integers, FiniteSets, TLC, SequencesExt

CONSTANTS
    Mids,         \* Message-IDs
    Subjects,     \* subject_norm values that are not empty
    None,
    Mail,         \* the rows a build may index
    AnswerTo,     \* the message every message really answers, or None
    MaxRows, MaxRemovals

RowType == [mid : Mids,
            reply : Mids \cup {None},      \* in_reply_to
            refs : Seq(Mids),              \* references_ids
            subj : Subjects \cup {None},   \* None: empty
            date : Nat]                    \* date_received; 0 where it is missing

Ids == 1..MaxRows

ASSUME ThreaderAssumption ==
    /\ IsFiniteSet(Mids) /\ None \notin Mids /\ None \notin Subjects
    /\ None \notin RowType /\ None \notin [thread : Ids, position : Nat]
    /\ Mail \subseteq RowType
    /\ AnswerTo \in [Mids -> Mids \cup {None}]
    /\ MaxRows \in Nat /\ MaxRemovals \in Nat

VARIABLES
    emails,     \* the rows by emails.id, or None
    stored,     \* thread_id and thread_position by emails.id, or None
    dirty,      \* rows came or went since the last threading
    change,     \* any_change: they did so in the build that runs
    removals,
    phase,      \* where index_threads is, "idle" between two of its calls
    rows,       \* the rows still to read
    chain,      \* references of the row being read still to follow
    prev,       \* the container reached last on the chain, or None
    box,        \* the containers
    roots,      \* the roots still to look at by subject
    merged      \* the roots kept, in their order

vars == <<emails, stored, dirty, change, removals, phase, rows, chain, prev, box, roots, merged>>

-----------------------------------------------------------------------------
(***************************************************************************)
(* Containers                                                              *)
(***************************************************************************)
\* made: Message-IDs in the order their containers were made; row: the id of
\* the row a container holds, 0 for a phantom.
NoContainers == [made |-> <<>>,
                 row |-> [m \in Mids |-> 0],
                 parent |-> [m \in Mids |-> None],
                 children |-> [m \in Mids |-> <<>>]]

Made(b) == Range(b.made)
Real(b, m) == b.row[m] # 0

GetOrCreate(b, m) ==
    IF m \in Made(b) THEN b ELSE [b EXCEPT !.made = Append(@, m)]

\* Sets of containers that hold the parents of their members.
Upward(b) == {S \in SUBSET Mids : \A m \in S : b.parent[m] # None => b.parent[m] \in S}

\* Whether the walk from candidate along parents meets child.
CreatesCycle(b, candidate, child) ==
    \A S \in Upward(b) : candidate \in S => child \in S

\* Mutant: links in a circle are not refused.
LinkUnchecked(b, p, c) ==
    IF c = p THEN b
    ELSE [b EXCEPT !.parent = [@ EXCEPT ![c] = p],
                   !.children = [@ EXCEPT ![p] = Append(@, c)]]

Link(b, p, c) ==
    IF c = p \/ CreatesCycle(b, p, c) THEN b
    ELSE [made |-> b.made, row |-> b.row,
          parent |-> [b.parent EXCEPT ![c] = p],
          children |-> IF c \in Range(b.children[p]) THEN b.children
                       ELSE [b.children EXCEPT ![p] = Append(@, c)]]

LinkOrphan(b, p, c) == IF p # None /\ b.parent[c] = None THEN Link(b, p, c) ELSE b

-----------------------------------------------------------------------------
(***************************************************************************)
(* The steps of jwz_thread                                                 *)
(***************************************************************************)
\* Mutant: in_reply_to is appended when it is missing, too.
ChainWithMissing(r) == IF r.reply \notin Range(r.refs) THEN Append(r.refs, r.reply) ELSE r.refs

Chain(r) == IF r.reply # None /\ r.reply \notin Range(r.refs)
            THEN Append(r.refs, r.reply) ELSE r.refs

\* Mutant: the first row of a Message-ID keeps the container.
TakeIfFree(b, id) ==
    LET m == emails[id].mid
        made == GetOrCreate(b, m)
    IN  IF Real(b, m) THEN made ELSE [made EXCEPT !.row = [made.row EXCEPT ![m] = id]]

\* A later row of the same Message-ID takes the container over.
Take(b, id) ==
    LET m == emails[id].mid
        made == GetOrCreate(b, m)
    IN  [made EXCEPT !.row = [made.row EXCEPT ![m] = id]]

\* Mutant: references are not linked to each other.
FollowLoosely(b, from, ref) == GetOrCreate(b, ref)

Follow(b, from, ref) == LinkOrphan(GetOrCreate(b, ref), from, ref)

DateOf(b, m) == IF Real(b, m) THEN emails[b.row[m]].date ELSE 0

\* _root_date: a phantom is as old as the oldest below it, 0 with nothing below.
RootDates(b) ==
    LET D[n \in 0..Cardinality(Mids)] == [m \in Mids |->
            IF Real(b, m) \/ b.children[m] = <<>> \/ n = 0 THEN DateOf(b, m)
            ELSE LET below == {D[n - 1][c] : c \in Range(b.children[m])}
                 IN  CHOOSE d \in below : \A e \in below : d <= e]
    IN  D[Cardinality(Mids)]

Roots(b) == {m \in Made(b) : b.parent[m] = None}

\* The first of some roots: the oldest, of equal ones the one made first.
Older(b, m, n) ==
    \/ RootDates(b)[m] < RootDates(b)[n]
    \/ RootDates(b)[m] = RootDates(b)[n] /\ SelectInSeq(b.made, LAMBDA e : e = m)
                                           <= SelectInSeq(b.made, LAMBDA e : e = n)
IsFirst(b, some, m) == m \in some /\ \A n \in some : Older(b, m, n)

Subject(b, m) == IF Real(b, m) THEN emails[b.row[m]].subj ELSE None

\* Mutant: roots without a subject are gathered as well.
AnchorsEvenEmpty(b, kept, m) == {a \in Range(kept) : Subject(b, a) = Subject(b, m)}

\* The root kept earlier for the same subject.
Anchors(b, kept, m) ==
    IF Subject(b, m) = None THEN {} ELSE {a \in Range(kept) : Subject(b, a) = Subject(b, m)}

\* Children by date; sort() is stable.
Sorted(b, s) ==
    LET Before(i, j) == \/ DateOf(b, s[i]) < DateOf(b, s[j])
                        \/ DateOf(b, s[i]) = DateOf(b, s[j]) /\ i < j
        Place(i) == 1 + Cardinality({j \in DOMAIN s : Before(j, i)})
    IN  [k \in DOMAIN s |-> s[CHOOSE i \in DOMAIN s : Place(i) = k]]

SortChildren(b) == [b EXCEPT !.children = [m \in Mids |-> Sorted(b, b.children[m])]]

\* The containers of a tree that hold a row, in the order walk meets them.
Walk(b, root) ==
    LET W[n \in 0..Cardinality(Mids)] == [m \in Mids |->
            IF n = 0 THEN <<>>
            ELSE (IF Real(b, m) THEN <<m>> ELSE <<>>) \o
                 FlattenSeq([i \in DOMAIN b.children[m] |-> W[n - 1][b.children[m][i]]])]
    IN  W[Cardinality(Mids)][root]

\* What the walks write: the thread of a tree is named for the first row met;
\* a row no container holds keeps what it had.
Numbered(b, kept) ==
    LET trees == [t \in DOMAIN kept |-> Walk(b, kept[t])]
        Places(id) == {p \in (DOMAIN kept) \X (1..Cardinality(Mids)) :
                          p[2] \in DOMAIN trees[p[1]] /\ b.row[trees[p[1]][p[2]]] = id}
    IN  [id \in Ids |->
            IF Places(id) = {} THEN stored[id]
            ELSE LET p == CHOOSE p \in Places(id) : TRUE
                 IN  [thread |-> b.row[trees[p[1]][1]], position |-> p[2] - 1]]

-----------------------------------------------------------------------------
(***************************************************************************)
(* Builds and threadings                                                   *)
(***************************************************************************)
Rows == {id \in Ids : emails[id] # None}

\* A row whose column is the primary key takes the highest id in use plus one.
NextId == IF Rows = {} THEN 1 ELSE 1 + CHOOSE id \in Rows : \A other \in Rows : other <= id

Init ==
    /\ emails = [id \in Ids |-> None]
    /\ stored = [id \in Ids |-> None]
    /\ dirty = FALSE /\ change = FALSE /\ removals = 0
    /\ phase = "idle" /\ rows = {} /\ chain = <<>> /\ prev = None
    /\ box = NoContainers /\ roots = {} /\ merged = <<>>

Index(r) ==
    /\ phase = "idle" /\ NextId \in Ids
    /\ emails' = [emails EXCEPT ![NextId] = r]
    /\ dirty' = TRUE /\ change' = TRUE
    /\ UNCHANGED <<stored, removals, phase, rows, chain, prev, box, roots, merged>>

Delete(id) ==
    /\ phase = "idle" /\ id \in Rows /\ removals < MaxRemovals
    /\ emails' = [emails EXCEPT ![id] = None]
    /\ stored' = [stored EXCEPT ![id] = None]
    /\ dirty' = TRUE /\ change' = TRUE /\ removals' = removals + 1
    /\ UNCHANGED <<phase, rows, chain, prev, box, roots, merged>>

\* A build that changed rows calls index_threads, which reads every row, in the order of
\* their ids.
Start ==
    /\ phase = "idle" /\ change
    /\ rows' = Rows
    /\ phase' = "row"
    /\ UNCHANGED <<emails, stored, dirty, change, removals, chain, prev, box, roots, merged>>

Reading(id) == id \in rows /\ \A other \in rows : id <= other

TakeRow(id) ==
    /\ phase = "row" /\ Reading(id)
    /\ box' = Take(box, id)
    /\ chain' = Chain(emails[id]) /\ prev' = None
    /\ phase' = "chain"
    /\ UNCHANGED <<emails, stored, dirty, change, removals, rows, roots, merged>>

FollowRef ==
    /\ phase = "chain" /\ chain # <<>>
    /\ box' = Follow(box, prev, Head(chain))
    /\ prev' = Head(chain) /\ chain' = Tail(chain)
    /\ UNCHANGED <<emails, stored, dirty, change, removals, phase, rows, roots, merged>>

Attach(id) ==
    /\ phase = "chain" /\ chain = <<>> /\ Reading(id)
    /\ box' = LinkOrphan(box, prev, emails[id].mid)
    /\ rows' = rows \ {id} /\ prev' = None
    /\ phase' = "row"
    /\ UNCHANGED <<emails, stored, dirty, change, removals, chain, roots, merged>>

GatherRoots ==
    /\ phase = "row" /\ rows = {}
    /\ roots' = Roots(box)
    /\ phase' = "subject"
    /\ UNCHANGED <<emails, stored, dirty, change, removals, rows, chain, prev, box, merged>>

MergeRoot(m) ==
    /\ phase = "subject" /\ IsFirst(box, roots, m)
    /\ IF Anchors(box, merged, m) = {}
       THEN merged' = Append(merged, m) /\ UNCHANGED box
       ELSE /\ \E a \in Anchors(box, merged, m) : box' = Link(box, a, m)
            /\ UNCHANGED merged
    /\ roots' = roots \ {m}
    /\ UNCHANGED <<emails, stored, dirty, change, removals, phase, rows, chain, prev>>

\* The children are sorted, the trees walked and their numbers committed.
Number ==
    /\ phase = "subject" /\ roots = {}
    /\ stored' = Numbered(SortChildren(box), merged)
    /\ dirty' = FALSE /\ change' = FALSE
    /\ phase' = "idle" /\ box' = NoContainers /\ merged' = <<>>
    /\ UNCHANGED <<emails, removals, rows, chain, prev, roots>>

\* A build that committed rows ends before its threading is committed.  The next one asks
\* only for changes of its own.
EndEarly ==
    /\ change
    /\ change' = FALSE
    /\ phase' = "idle" /\ rows' = {} /\ chain' = <<>> /\ prev' = None
    /\ box' = NoContainers /\ roots' = {} /\ merged' = <<>>
    /\ UNCHANGED <<emails, stored, dirty, removals>>

Threading ==
    \/ \E id \in Ids : TakeRow(id) \/ Attach(id)
    \/ FollowRef
    \/ GatherRoots
    \/ \E m \in Mids : MergeRoot(m)
    \/ Number

Next ==
    \/ \E r \in Mail : Index(r)
    \/ \E id \in Ids : Delete(id)
    \/ Start
    \/ Threading
    \/ EndEarly

Spec == Init /\ [][Next]_vars

-----------------------------------------------------------------------------
(***************************************************************************)
(* get_email_thread: the rows of one thread, threaded again on their own   *)
(***************************************************************************)
ThreadRows(t) ==
    {id \in Rows : stored[id] # None /\ stored[id].thread = t}

\* The chain of a row, followed link by link.
Followed(b, id, refs) ==
    LET at[n \in 0..Len(refs)] ==
            IF n = 0 THEN Take(b, id)
            ELSE Follow(at[n - 1], IF n = 1 THEN None ELSE refs[n - 1], refs[n])
    IN  LinkOrphan(at[Len(refs)], IF refs = <<>> THEN None ELSE refs[Len(refs)], emails[id].mid)

\* Mutant: only References is followed.
ReadRowByReferences(b, id) == Followed(b, id, emails[id].refs)

ReadRow(b, id) == Followed(b, id, Chain(emails[id]))

\* ORDER BY thread_position; of equal ones the lower id.
Precedes(i, j) == \/ stored[i].position < stored[j].position
                  \/ stored[i].position = stored[j].position /\ i < j
RowAt(t, n) ==
    CHOOSE id \in ThreadRows(t) : n = Cardinality({o \in ThreadRows(t) : Precedes(o, id)}) + 1

ViewBox(t) ==
    LET at[n \in 0..Cardinality(ThreadRows(t))] ==
            IF n = 0 THEN NoContainers ELSE ReadRow(at[n - 1], RowAt(t, n))
    IN  at[Cardinality(ThreadRows(t))]

\* The Message-IDs in the tree that is answered, the one below roots[0]; the
\* roots of its subject have been gathered below it.
Shown(t) ==
    LET b == ViewBox(t)
        first == CHOOSE m \in Mids : IsFirst(b, Roots(b), m)
        gathered == {m \in Roots(b) : Subject(b, m) = Subject(b, first) /\ Subject(b, m) # None}
    IN  UNION {Range(Walk(b, m)) : m \in {first} \cup gathered}

-----------------------------------------------------------------------------
(***************************************************************************)
(* Properties                                                              *)
(***************************************************************************)
\* The index and the containers keep their shapes.
TypeOK ==
    /\ emails \in [Ids -> Mail \cup {None}]
    /\ stored \in [Ids -> [thread : Ids, position : Nat] \cup {None}]
    /\ dirty \in BOOLEAN /\ change \in BOOLEAN /\ removals \in 0..MaxRemovals
    /\ phase \in {"idle", "row", "chain", "subject"}
    /\ rows \subseteq Ids /\ chain \in Seq(Mids) /\ prev \in Mids \cup {None}
    /\ box.made \in Seq(Mids) /\ box.row \in [Mids -> Ids \cup {0}]
    /\ box.parent \in [Mids -> Mids \cup {None}] /\ box.children \in [Mids -> Seq(Mids)]
    /\ roots \subseteq Mids /\ merged \in Seq(Mids)

\* Whatever headers say, replies that answer each other in a circle included,
\* the containers form trees: following parents ends, and a container is a
\* child of its parent, once, and of nothing else.  The walks that number the
\* rows and build the answer end because of it (_link, _creates_cycle).
Forest ==
    /\ \A m \in Mids : box.parent[m] # None => ~CreatesCycle(box, box.parent[m], m)
    /\ \A m, c \in Mids : c \in Range(box.children[m]) <=> box.parent[c] = m
    /\ \A m \in Mids : \A i, j \in DOMAIN box.children[m] :
          box.children[m][i] = box.children[m][j] => i = j

Settled == phase = "idle" /\ ~dirty

\* Of the rows that share a Message-ID, the last.
Placed(id) == id \in Rows /\ \A later \in Rows : emails[later].mid = emails[id].mid => later <= id

\* After a threading, and until rows change, one row of every Message-ID has
\* a place: its thread is named for a row of the thread, and the positions of
\* a thread count from 0 without a gap and without one taken twice
\* (index_threads).
EachMessageNumberedOnce ==
    Settled => \A id \in Rows : Placed(id) =>
        /\ stored[id] # None
        /\ LET fellows == {o \in Rows : Placed(o) /\ stored[o].thread = stored[id].thread}
           IN  /\ stored[id].thread \in fellows
               /\ {stored[o].position : o \in fellows} = 0..(Cardinality(fellows) - 1)

\* The messages a message answers, directly or not: those the walk along
\* AnswerTo meets.  No message answers one that answers it.
Ancestors ==
    LET answers == [parent |-> AnswerTo]
    IN  [m \in Mids |-> {a \in Mids : AnswerTo[m] # None /\ CreatesCycle(answers, AnswerTo[m], a)}]

ASSUME AnswersEnd == \A m \in Mids : m \notin Ancestors[m]

\* A header that names only messages its own answers, the older before the
\* newer; one that names them all.
Genuine(r) ==
    /\ Range(r.refs) \cup ({r.reply} \ {None}) \subseteq Ancestors[r.mid]
    /\ \A i, j \in DOMAIN r.refs : i < j => r.refs[i] \in Ancestors[r.refs[j]]
    /\ r.reply # None => Range(r.refs) \ {r.reply} \subseteq Ancestors[r.reply]
Complete(r) == Range(r.refs) \cup ({r.reply} \ {None}) = Ancestors[r.mid]

\* Copies of a message have one header.
GenuineMail ==
    \A i, j \in Rows : /\ Genuine(emails[i])
                       /\ emails[i].mid = emails[j].mid => emails[i] = emails[j]

SameConversation(m, n) == ({m} \cup Ancestors[m]) \cap ({n} \cup Ancestors[n]) # {}

\* With genuine headers, in whatever order the messages were indexed and
\* whichever are missing, a thread holds one conversation, or several with a
\* subject in common; and complete headers bring a conversation together.
ConversationsComeTogether ==
    Settled /\ GenuineMail =>
        \A i, j \in {id \in Rows : Placed(id)} :
            /\ stored[i].thread = stored[j].thread =>
                  \E k, l \in Rows : /\ SameConversation(emails[i].mid, emails[k].mid)
                                     /\ SameConversation(emails[j].mid, emails[l].mid)
                                     /\ \/ k = l
                                        \/ emails[k].subj = emails[l].subj /\ emails[k].subj # None
            /\ /\ \A id \in Rows : Complete(emails[id])
               /\ SameConversation(emails[i].mid, emails[j].mid)
               => stored[i].thread = stored[j].thread

\* A header whose references go from answer to answer, with none left out
\* between; it may begin anywhere.
Unbroken(r) ==
    LET names == Append(Chain(r), r.mid)
    IN  \A k \in 2..Len(names) : AnswerTo[names[k]] = names[k - 1]

\* With unbroken headers and no copies, get_email_thread shows every message
\* it counts: threading the rows of a thread on their own, in another order
\* and without the rest of the mail, leaves them in one tree.
ReadBackWhole ==
    Settled /\ (\A id \in Rows : Placed(id) /\ Unbroken(emails[id])) =>
        \A id \in Rows :
            Shown(stored[id].thread) = {emails[o].mid : o \in ThreadRows(stored[id].thread)}

-----------------------------------------------------------------------------
(***************************************************************************)
(* Threader implements Conversations: a conversation is what hangs below   *)
(* one root.                                                               *)
(***************************************************************************)
Top ==
    LET T[n \in 0..Cardinality(Mids)] == [m \in Mids |->
            IF n = 0 \/ box.parent[m] = None THEN m ELSE T[n - 1][box.parent[m]]]
    IN  T[Cardinality(Mids)]

\* The mapping: conv and thread.
Conv == {{m \in Made(box) : Top[m] = t} : t \in {Top[m] : m \in Made(box)}}
ThreadIds == [id \in Ids |-> IF stored[id] = None THEN None ELSE stored[id].thread]

C == INSTANCE Conversations WITH conv <- Conv, thread <- ThreadIds

\* Links never split what was together and join only what a header or a
\* subject relates; the numbers written tell apart exactly what was found.
ImplementsConversations == C!Spec

=============================================================================
