---------------------------- MODULE Conversations ----------------------------
(***************************************************************************)
(* What threading promises, whatever the trees look like: conversations    *)
(* only grow, by messages that one header names together or that share a   *)
(* subject, and what is published tells two conversations apart and keeps  *)
(* each together.  Threader is shown to implement it.                      *)
(***************************************************************************)
EXTENDS Sequences

CONSTANT None

VARIABLES
    emails,   \* the rows of the index by emails.id, or None
    conv,     \* the conversations found so far, disjoint sets of Message-IDs
    thread    \* thread_id by emails.id, or None

vars == <<emails, conv, thread>>

Rows == {i \in DOMAIN emails : emails[i] # None}

\* The Message-IDs a row speaks of: its own, its references, what it replies to.
Named(r) == ({r.mid, r.reply} \cup {r.refs[k] : k \in DOMAIN r.refs}) \ {None}

Related(a, b) ==
    \/ \E i \in Rows : {a, b} \subseteq Named(emails[i])
    \/ \E i, j \in Rows : /\ emails[i].mid = a /\ emails[j].mid = b
                          /\ emails[i].subj = emails[j].subj /\ emails[i].subj # None

Init == conv = {} /\ \A i \in Rows : thread[i] = None

\* Rows come and go between two threadings; a new row has no thread.
IndexChanges ==
    /\ conv = {} /\ conv' = {}
    /\ \A i \in DOMAIN emails :
          thread'[i] = IF emails'[i] = emails[i] THEN thread[i] ELSE None

Meet(m) ==
    /\ m \notin UNION conv
    /\ \E i \in Rows : m \in Named(emails[i])
    /\ \/ conv' = conv \cup {{m}}
       \/ \E A \in conv : /\ \E a \in A : Related(a, m)
                          /\ conv' = (conv \ {A}) \cup {A \cup {m}}
    /\ UNCHANGED <<emails, thread>>

Join(A, B) ==
    /\ A # B
    /\ \E a \in A, b \in B : Related(a, b)
    /\ conv' = (conv \ {A, B}) \cup {A \cup B}
    /\ UNCHANGED <<emails, thread>>

\* One row of every indexed Message-ID is placed.
Publish ==
    LET indexed == {emails[i].mid : i \in Rows}
        Together(a, b) == \E A \in conv : {a, b} \subseteq A
    IN  /\ indexed \subseteq UNION conv
        /\ \E placed \in [indexed -> Rows] :
              /\ \A a \in indexed : emails[placed[a]].mid = a
              /\ \A a, b \in indexed :
                    Together(a, b) <=> thread'[placed[a]] = thread'[placed[b]]
              /\ \A i \in DOMAIN emails \ {placed[a] : a \in indexed} : thread'[i] = thread[i]
        /\ conv' = {} /\ UNCHANGED emails

\* Conversations may be given up before anything of them is published.
Forget == conv' = {} /\ UNCHANGED <<emails, thread>>

Next ==
    \/ IndexChanges
    \/ \E i \in Rows : \E m \in Named(emails[i]) : Meet(m)
    \/ \E A, B \in conv : Join(A, B)
    \/ Publish
    \/ Forget

Spec == Init /\ [][Next]_vars

=============================================================================
