--------------------------- MODULE MCGuardedMoves ---------------------------
(***************************************************************************)
(* Small instances of GuardedMoves for TLC: two accounts, one of them with *)
(* an inbox, an archive and a trash, and copies c1 and d1 of the message   *)
(* m1 beside the single copy c2 of m2.                                     *)
(***************************************************************************)
EXTENDS GuardedMoves, TLC

MCAccounts == {"a", "b"}
MCNames == {"inbox", "arch", "trash"}
MCBoxes == {<<"a", "inbox">>, <<"a", "arch">>, <<"a", "trash">>, <<"b", "arch">>}
MCIds == {"m1", "m2"}
OneId == {"m1"}

Single == {"c1", "c2"}
Duplicated == {"c1", "d1", "c2"}
MCIdOf == [c \in Copies |-> IF c = "c2" THEN "m2" ELSE "m1"]
MCSenderOf == [id \in Ids |-> IF id = "m2" THEN "a" ELSE None]
MCInitAt == [c \in Copies |-> IF c = "d1" THEN <<"b", "arch">> ELSE <<"a", "inbox">>]

MCBatchLimit == [move |-> 1, move_to_trash |-> 2, delete_permanent |-> 1, empty_trash |-> 0]
MCRequireConfirm == {"delete_permanent", "empty_trash"}

Blank == [op |-> "move", ids |-> <<>>, account |-> None, mailbox |-> None,
          toAccount |-> None, toMailbox |-> None, batch |-> 0,
          dryRun |-> FALSE, confirm |-> FALSE, max |-> 0]
Move(ids, to) == [Blank EXCEPT !.ids = ids, !.toMailbox = to]
ToTrash(ids) == [Blank EXCEPT !.op = "move_to_trash", !.ids = ids]
Delete(ids, confirm) ==
    [Blank EXCEPT !.op = "delete_permanent", !.ids = ids, !.confirm = confirm]
Empty(confirm) == [Blank EXCEPT !.op = "empty_trash", !.account = "a", !.confirm = confirm]
Undo == [Blank EXCEPT !.op = "undo_last"]

\* Every operation, with and without the arguments its gates look at.
AllRequests ==
    {[Move(<<"m1">>, "arch") EXCEPT !.account = "a"],
     [Move(<<"m1", "m2">>, "arch") EXCEPT !.max = 2],
     Move(<<"m1", "m2">>, "arch"),
     [ToTrash(<<"m1", "m2">>) EXCEPT !.account = "a", !.mailbox = "inbox"],
     ToTrash(<<"m1", "m1">>),
     [Delete(<<"m1">>, TRUE) EXCEPT !.dryRun = TRUE],
     Delete(<<"m2">>, FALSE), Delete(<<"m2">>, TRUE),
     Empty(TRUE), Empty(FALSE), [Empty(TRUE) EXCEPT !.account = "b"],
     Undo, [Undo EXCEPT !.batch = 1], [Undo EXCEPT !.dryRun = TRUE]}

\* Two threads: calls that meet on the same message, of which another account
\* has a copy; m2 lies in the trash already.
PairNames == {"inbox", "trash"}
PairBoxes == {<<"a", "inbox">>, <<"a", "trash">>, <<"b", "inbox">>}
PairInitAt == [c1 |-> <<"a", "inbox">>, d1 |-> <<"b", "inbox">>, c2 |-> <<"a", "trash">>]
PairRequests ==
    {[Move(<<"m1">>, "trash") EXCEPT !.account = "a"],
     ToTrash(<<"m1", "m2">>), Undo}

\* Reversible moves in one account and across accounts, undone newest-first.
QuietRequests ==
    {Move(<<"m1">>, "arch"),
     [Move(<<"m2", "m1">>, "arch") EXCEPT !.toAccount = "b", !.max = 2],
     ToTrash(<<"m2", "m1">>), Undo}

\* A move and its undo, for the run that ends in a counterexample.
MoveAndUndo == {Move(<<"m1">>, "arch"), Undo}

=============================================================================
