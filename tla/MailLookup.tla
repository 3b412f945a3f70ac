----------------------------- MODULE MailLookup -----------------------------
(***************************************************************************)
(* How a request finds a physical message in Mail.app: the lookup helpers  *)
(* of write/scripts/mail_core.js and the resolution cascade of             *)
(* core/resolver.py.  A mailbox is a pair <<account, name>>; a copy is one *)
(* physical message and IdOf gives its RFC822 Message-ID, which several    *)
(* copies may share.  "at" maps every copy to the mailbox that holds it,   *)
(* or to Gone.                                                             *)
(***************************************************************************)
EXTENDS Naturals, FiniteSets

CONSTANTS
    Accounts,   \* account names, as Mail reports them
    Names,      \* mailbox names
    Boxes,      \* the mailboxes that exist, pairs <<account, name>>
    Nested,     \* those of Boxes that are children of another mailbox
    Copies,     \* physical messages
    Ids,        \* canonical (normalised) Message-IDs
    IdOf,       \* the Message-ID of a copy
    SenderOf,   \* the account whose own address sent a message, or None
    None,       \* an absent hint
    Gone        \* where a copy is that is not in Mail

ASSUME LookupAssumption ==
    /\ Boxes \subseteq Accounts \X Names
    /\ Nested \subseteq Boxes
    /\ IdOf \in [Copies -> Ids]
    /\ SenderOf \in [Ids -> Accounts \cup {None}]
    /\ None \notin Accounts \cup Names
    /\ Gone \notin Boxes

TopLevel == Boxes \ Nested

AccountOf(box) == box[1]
NameOf(box) == box[2]

(***************************************************************************)
(* mail_core.js.  A lookup returns the set of what it found: empty for the *)
(* source's null, and at most one mailbox since a name is unique in an     *)
(* account.  Aliases such as "trash" for "Deleted Messages" are folded     *)
(* into the name.                                                          *)
(***************************************************************************)
findAccount(hint) == Accounts \cap {hint}

findMailbox(account, hint) == TopLevel \cap {<<account, hint>>}

findMailboxDeep(account, hint) == Boxes \cap {<<account, hint>>}

\* A hint that matches nothing widens: to all accounts, or to all the
\* top-level mailboxes of the account.
SearchScope(accountHint, mailboxHint) ==
    LET accountsToSearch == IF findAccount(accountHint) = {}
                              THEN Accounts ELSE findAccount(accountHint)
        mailboxesToSearch(a) == IF findMailbox(a, mailboxHint) = {}
                                  THEN {b \in TopLevel : AccountOf(b) = a}
                                  ELSE findMailbox(a, mailboxHint)
    IN  UNION {mailboxesToSearch(a) : a \in accountsToSearch}

resolveMessage(at, id, accountHint, mailboxHint) ==
    {c \in Copies : IdOf[c] = id /\ at[c] \in SearchScope(accountHint, mailboxHint)}

\* Mutant: finds the message wherever it is by now.
HandleAnywhere(at, id, box) == {c \in Copies : IdOf[c] = id /\ at[c] \in TopLevel}

\* The source takes hits[0]: any element of this set.
getMessageHandle(at, id, box) ==
    {c \in Copies : IdOf[c] = id /\ box \in TopLevel /\ at[c] = box}

(***************************************************************************)
(* core/resolver.py.  cache[id][box] is 0 when resolve_cache has no row    *)
(* for the pair, else its rank by last_verified, 1 for the newest.         *)
(* seed[id] is the mailbox name of the newest indexed row, or None.        *)
(***************************************************************************)
CachePut(cache, id, box) ==
    LET rank == cache[id]
    IN  [cache EXCEPT ![id] = [b \in Boxes |->
            IF b = box THEN 1
            ELSE IF rank[b] # 0 /\ (rank[box] = 0 \/ rank[b] < rank[box])
              THEN rank[b] + 1 ELSE rank[b]]]

\* An attempt of resolve() at a search, and its place among the others.
Attempt == [order : Nat, account : Accounts \cup {None}, mailbox : Names \cup {None}]

\* The attempts resolve() lists, in the order hint, cache (newest first) and
\* index seed.
Attempts(cache, seed, id, account, mailbox) ==
    LET hint == [order |-> 0, account |-> account,
                 mailbox |-> IF mailbox = None THEN seed[id] ELSE mailbox]
        inCache(b) == [order |-> cache[id][b], account |-> AccountOf(b), mailbox |-> NameOf(b)]
        indexSeed == [order |-> Cardinality(Boxes) + 1, account |-> SenderOf[id],
                      mailbox |-> seed[id]]
    IN  {a \in {hint} : <<account, mailbox>> # <<None, None>>}
        \cup {inCache(b) : b \in {x \in Boxes : cache[id][x] # 0}}
        \cup {a \in {indexSeed} : seed[id] # None}

\* What remains when no attempt has found anything: the broad scan.
Everywhere == [order |-> 0, account |-> None, mailbox |-> None]

NextAttempts(tries) ==
    IF tries = {} THEN {Everywhere}
    ELSE {t \in tries : \A o \in tries : t.order <= o.order}

=============================================================================
