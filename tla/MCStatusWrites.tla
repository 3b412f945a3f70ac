---------------------------- MODULE MCStatusWrites ----------------------------
(***************************************************************************)
(* Small instances of StatusWrites for TLC: two messages, the plain colour *)
(* 0 and one further colour.                                               *)
(***************************************************************************)
EXTENDS StatusWrites

TwoIds == {"m1", "m2"}
TwoColors == {0, 4}
Limits == [status |-> 2]
NoConfirm == {}

\* m1 is new; m2 has been read and flagged by the user in Mail.
Mixed == [id \in Ids |-> IF id = "m1" THEN [read |-> FALSE, flag |-> Unflagged]
                         ELSE [read |-> TRUE, flag |-> 4]]

\* The user reads and flags a message, or clears its flag.
SomeSets == {[read |-> TRUE, flag |-> 0], [read |-> FALSE, flag |-> Unflagged]}

Blank == [op |-> "mark_read", ids |-> <<"m1">>, color |-> None, max |-> 0, dryRun |-> FALSE]
Set(op, ids) == [Blank EXCEPT !.op = op, !.ids = ids]
Paint(ids, c) == [Blank EXCEPT !.op = "set_flag_color", !.ids = ids, !.color = c]
UndoLast == [Blank EXCEPT !.op = "undo_last", !.ids = <<>>]

\* Every action, a batch of two, a message named twice, a batch too large and previews.
AllRequests ==
    {Set("mark_read", <<"m1">>), Set("unflag", <<"m2">>),
     Paint(<<"m1", "m2">>, 4), Paint(<<"m1", "m1">>, 0),
     [Set("mark_unread", <<"m1", "m2">>) EXCEPT !.max = 1],
     UndoLast, [UndoLast EXCEPT !.dryRun = TRUE]}

=============================================================================
