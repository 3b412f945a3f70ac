----------------------------- MODULE MCThreader -----------------------------
(***************************************************************************)
(* An instance of Threader: a conversation A1, A2, A3, in which each       *)
(* message answers the one before it, and another, B1 and B2.  Letters has *)
(* every message with headers that are complete, cut short, missing or     *)
(* wrong: circles, a message that names itself, the other conversation,    *)
(* both orders.                                                            *)
(***************************************************************************)
EXTENDS Threader

CONSTANTS A1, A2, A3, B1, B2

FiveMids == {A1, A2, A3, B1, B2}
Answers == (A1 :> None) @@ (A2 :> A1) @@ (A3 :> A2) @@ (B1 :> None) @@ (B2 :> B1)

Letter(m, reply, refs, subj, date) ==
    [mid |-> m, reply |-> reply, refs |-> refs, subj |-> subj, date |-> date]

Letters ==
    {Letter(A1, None, <<>>, "s", 1), Letter(A1, A3, <<>>, "s", 1),
     Letter(A2, A1, <<A1>>, "s", 2), Letter(A2, None, <<>>, "s", 2),
     Letter(A2, A1, <<B1>>, "s", 1),
     Letter(A3, A2, <<>>, "s", 3), Letter(A3, A2, <<A1, A2>>, "s", 2),
     Letter(A3, None, <<A1>>, "s", 2), Letter(A3, None, <<A2, A1>>, None, 0),
     Letter(B1, None, <<>>, "t", 2), Letter(B1, None, <<>>, "s", 0),
     Letter(B1, A3, <<A1, B1>>, "t", 3),
     Letter(B2, B1, <<B1>>, "t", 3), Letter(B2, B1, <<B1>>, "s", 0)}
=============================================================================
