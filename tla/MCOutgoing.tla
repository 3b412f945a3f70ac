------------------------------ MODULE MCOutgoing ------------------------------
(***************************************************************************)
(* A small instance of Outgoing for TLC: two drafts whose subjects overlap *)
(* and two rules that share a name.                                        *)
(***************************************************************************)
EXTENDS Outgoing

TwoSubjects == {"plan", "plan B"}
TwoNames == {"vips", "lists"}
SomeDrafts == <<"plan", "plan B">>
SomeRules == <<[name |-> "vips", enabled |-> TRUE], [name |-> "vips", enabled |-> FALSE]>>
SubjectsWith == [text \in TwoSubjects |-> IF text = "plan" THEN TwoSubjects ELSE {"plan B"}]

Blank == [op |-> "compose", mode |-> "send", action |-> "list", offers |-> "nothing",
          files |-> <<>>, html |-> FALSE, dryRun |-> FALSE, confirm |-> FALSE, name |-> None]

Sends ==
    {Blank, [Blank EXCEPT !.files = <<"good">>], [Blank EXCEPT !.files = <<"good", "invalid">>],
     [Blank EXCEPT !.files = <<"good", "refused">>],
     [Blank EXCEPT !.html = TRUE, !.files = <<"good">>],
     [Blank EXCEPT !.op = "reply", !.mode = "draft"], [Blank EXCEPT !.op = "reply", !.offers = "missing"],
     [Blank EXCEPT !.op = "forward"],
     [Blank EXCEPT !.op = "rich_draft", !.html = TRUE]}
Drafting ==
    {[Blank EXCEPT !.op = "drafts", !.action = a, !.name = n] :
        a \in {"create", "send", "open", "delete"}, n \in {"plan", "plan B"}} \cup
    {[Blank EXCEPT !.op = "drafts", !.offers = o] : o \in {"nothing", "missing"}}
Ruling ==
    {[Blank EXCEPT !.op = o, !.name = "vips"] : o \in RuleOps} \cup
    {[Blank EXCEPT !.op = "delete_rule", !.name = "vips", !.confirm = TRUE],
     [Blank EXCEPT !.op = "delete_rule", !.name = "vips", !.confirm = TRUE, !.dryRun = TRUE]}
Unsubscribing ==
    {[Blank EXCEPT !.op = "unsubscribe", !.offers = o] : o \in {"post", "mailto", "nothing", "missing"}}
    \cup {[Blank EXCEPT !.op = "unsubscribe", !.offers = "mailto", !.dryRun = TRUE]}

AllRequests == Sends \cup Drafting \cup Ruling \cup Unsubscribing

=============================================================================
