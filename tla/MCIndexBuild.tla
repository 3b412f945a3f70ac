----------------------------- MODULE MCIndexBuild -----------------------------
(***************************************************************************)
(* Instances of IndexBuild: two messages, the first with a path in either  *)
(* mailbox, the second in the inbox.                                       *)
(***************************************************************************)
EXTENDS IndexBuild

TwoPlaces == {"inbox/1", "archive/1", "inbox/2"}
InBox == [p \in TwoPlaces |-> IF p = "archive/1" THEN "archive" ELSE "inbox"]
Rowid == [p \in TwoPlaces |-> IF p = "inbox/2" THEN 2 ELSE 1]

\* ... and a third message in a mailbox the builds leave out.
ThreePlaces == TwoPlaces \cup {"drafts/3"}
InThree == [p \in ThreePlaces |-> IF p = "drafts/3" THEN "drafts" ELSE InBox[p]]
RowidThree == [p \in ThreePlaces |-> IF p = "drafts/3" THEN 3 ELSE Rowid[p]]

\* One message, which can move.
OneFile == {[p \in TwoPlaces |-> IF p = "inbox/1" THEN 1 ELSE 0]}
OneOfThree == {[p \in ThreePlaces |-> IF p = "inbox/1" THEN 1 ELSE 0]}
=============================================================================
