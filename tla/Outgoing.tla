------------------------------- MODULE Outgoing -------------------------------
(***************************************************************************)
(* What leaves the server or cannot be taken back: composing, replying,    *)
(* forwarding and rich drafts (write/compose.py), drafts, unsubscribing,   *)
(* and the lifecycle of Mail's rules, each behind its own gates and ending *)
(* in one osascript, one HTTP POST or one .eml file opened in Mail.        *)
(* One call runs at a time; a client may repeat a call that failed, the    *)
(* user edits drafts and rules meanwhile, and an osascript call given up   *)
(* on may still take effect, also after the server started anew.           *)
(***************************************************************************)
EXTENDS Integers, Sequences, FiniteSets, SequencesExt

CONSTANTS
    Requests,     \* the calls a client may make
    Subjects,     \* subjects of drafts
    Names,        \* names of rules
    None,
    InitDrafts,   \* the Drafts mailbox: a sequence of subjects
    InitRules,    \* Mail's rules: a sequence of [name, enabled]
    Matches,      \* which subjects contain which text: Matches[text] \subseteq Subjects
    EmlMaxAge,    \* _EML_MAX_AGE_SEC, in ticks of the clock
    Faults,       \* of "fail", "timeout" and "restart"
    MaxCalls, MaxUser, MaxFaults, MaxClock

SendOps == {"compose", "reply", "forward"}
DraftActions == {"list", "create", "send", "open", "delete"}
RuleOps == {"enable_rule", "disable_rule", "delete_rule"}

ASSUME OutgoingAssumption ==
    /\ InitDrafts \in Seq(Subjects) /\ InitRules \in Seq([name: Names, enabled: BOOLEAN])
    /\ MaxCalls \in Nat /\ MaxUser \in Nat /\ MaxFaults \in Nat /\ MaxClock \in Nat
    /\ EmlMaxAge \in Nat \ {0}
    /\ \A r \in Requests :
          /\ r.op \in SendOps \cup RuleOps \cup {"rich_draft", "drafts", "unsubscribe"}
          /\ r.mode \in {"send", "draft", "open"}             \* of SendOps
          /\ r.action \in DraftActions                        \* of "drafts"
          \* what the message it is about holds out to unsubscribe; whether the message,
          \* or the account of drafts, is there at all
          /\ r.offers \in {"post", "mailto", "nothing", "missing"}
          /\ r.offers # "nothing" => r.op \in {"unsubscribe", "reply", "forward", "drafts"}
          \* the files to attach: fit, refused by validate_attachment_path, or by Mail
          /\ r.files \in Seq({"good", "invalid", "refused"})
          /\ r.files # <<>> =>
                r.op \in {"compose", "reply"} \/ (r.op = "drafts" /\ r.action = "create")
          /\ r.html \in BOOLEAN /\ r.dryRun \in BOOLEAN /\ r.confirm \in BOOLEAN
          /\ r.html => r.op \in {"compose", "reply", "rich_draft"}
          /\ r.dryRun => r.op \in RuleOps \cup {"unsubscribe"}

VARIABLES
    drafts, rules,   \* Mail's
    eml,             \* the files of the outbox
    clock,
    late,            \* scripts given up on that may still take effect
    readOnly,
    call,            \* the running call
    effects,         \* history: what Mail or a list server did, in order
    made,            \* history: every call with the gates it met and its result
    user, faults

mailVars == <<drafts, rules, effects>>
vars == <<drafts, rules, eml, clock, late, readOnly, call, effects, made, user, faults>>

Idle == [pc |-> "idle", req |-> None, no |-> 0]

Init ==
    /\ drafts = InitDrafts /\ rules = InitRules
    /\ eml = {} /\ clock = 0 /\ late = {}
    /\ readOnly \in BOOLEAN
    /\ call = Idle
    /\ effects = <<>> /\ made = <<>>
    /\ user = 0 /\ faults = 0

-----------------------------------------------------------------------------
(***************************************************************************)
(* The scripts of mail_core.js, each one call of Mail                      *)
(***************************************************************************)
\* A script: the call it belongs to and what it does.
Script(no, kind, req) == [no |-> no, kind |-> kind, req |-> req]

\* The drafts whose subject contains the text, and the rules of that name, by position.
DraftsMatching(req) == {i \in DOMAIN drafts : drafts[i] \in Matches[req.name]}
RulesNamed(req) == {i \in DOMAIN rules : rules[i].name = req.name}
FirstOf(S) == CHOOSE i \in S : \A j \in S : i <= j

DraftThrows(req) ==
    \/ req.action = "send"
    \/ req.action \in {"open", "delete"} /\ Cardinality(DraftsMatching(req)) # 1

\* Some file to attach is of the kind.
Carries(req, kind) == \E i \in DOMAIN req.files : req.files[i] = kind

NoAccount(req) == req.op = "drafts" /\ req.offers = "missing"

\* Mutant: an attachment that cannot be added is left out.
ThrowsNotForFiles(s) ==
    \/ NoAccount(s.req)
    \/ s.kind = "draft" /\ DraftThrows(s.req)
    \/ s.kind = "rule" /\ RulesNamed(s.req) = {}

\* An account that is not there, one of the attachments that cannot be added, a draft
\* that is not the only match, a draft to send, a rule that is not there.
Throws(s) ==
    \/ NoAccount(s.req)
    \/ s.kind \in {"send", "window"} /\ Carries(s.req, "refused")
    \/ s.kind = "draft" /\ DraftThrows(s.req)
    \/ s.kind = "rule" /\ RulesNamed(s.req) = {}

\* Mutant: without the !! a missing argument is stored as it is.
EnabledRaw(req) == IF req.op = "enable_rule" THEN TRUE ELSE None

\* setRuleEnabled: !!args.enabled.
EnabledBy(req) == req.op = "enable_rule"

Happened(s, kind, whole) ==
    effects' = Append(effects, [no |-> s.no, kind |-> kind, whole |-> whole])

\* Mail loads attachments asynchronously: a message sent a second later may go without.
Loaded(req) == IF req.files = <<>> THEN {TRUE} ELSE BOOLEAN

\* What a script that does not throw does.
Do(s) ==
    \/ /\ s.kind = "send"
       /\ \E whole \in Loaded(s.req) : Happened(s, "sent", whole)
       /\ UNCHANGED <<drafts, rules>>
    \/ /\ s.kind = "window"
       /\ Happened(s, "window", TRUE)
       /\ UNCHANGED <<drafts, rules>>
    \/ /\ s.kind = "draft"
       /\ IF s.req.action \in {"list", "open"}
            THEN UNCHANGED mailVars
            ELSE /\ drafts' = RemoveAt(drafts, FirstOf(DraftsMatching(s.req)))
                 /\ Happened(s, "draft_deleted", TRUE)
                 /\ UNCHANGED rules
    \/ /\ s.kind = "rule"
       /\ LET i == FirstOf(RulesNamed(s.req))
          IN  IF s.req.op = "delete_rule"
                THEN /\ rules' = RemoveAt(rules, i)
                     /\ Happened(s, "rule_deleted", TRUE)
                ELSE /\ rules' = [rules EXCEPT ![i].enabled = EnabledBy(s.req)]
                     /\ Happened(s, "rule_set", TRUE)
       /\ UNCHANGED drafts

-----------------------------------------------------------------------------
(***************************************************************************)
(* Calls and their gates                                                   *)
(***************************************************************************)
Mutating(req) == req.op # "drafts" \/ req.action \notin {"list", "create"}

\* Mutant: a preview of an unsubscription lets a read-only server through.
BlockedNever(req) == readOnly /\ Mutating(req) /\ req.op # "unsubscribe"

\* --read-only: drafts may be listed and created, an unsubscription previewed.
Blocked(req) == readOnly /\ Mutating(req) /\ ~(req.op = "unsubscribe" /\ req.dryRun)

AsHtml(req) == req.op = "rich_draft" \/ (req.op \in {"compose", "reply"} /\ req.html)
Attaching(req) == req.op \in {"compose", "reply"} \/ (req.op = "drafts" /\ req.action = "create")

\* gate_nonbatch(); only the deletion of a rule needs confirmation.
RuleVerdict(req) ==
    IF req.dryRun THEN "preview"
    ELSE IF req.op = "delete_rule" /\ ~req.confirm THEN "ConfirmationRequired"
    ELSE "script"

\* unsubscribe_from_sender(): the one-click link before the mailto.
UnsubscribeVerdict(req) ==
    IF req.offers = "nothing" THEN "none-found"
    ELSE IF req.dryRun THEN "preview"
    ELSE IF req.offers = "post" THEN "post" ELSE "script"

\* What becomes of a call before anything outside the server happens: the gates,
\* resolve(), and the files to attach to what is not opened as an .eml file.
Verdict(req) ==
    IF Blocked(req) THEN "ReadOnlyMode"
    ELSE IF req.offers = "missing" /\ req.op # "drafts" THEN "error"
    ELSE IF req.op \in RuleOps THEN RuleVerdict(req)
    ELSE IF req.op = "unsubscribe" THEN UnsubscribeVerdict(req)
    ELSE IF AsHtml(req) THEN "eml"
    ELSE IF Attaching(req) /\ Carries(req, "invalid") THEN "error"
    ELSE "script"

Working == {"script", "post", "eml"}

KindOf(req) ==
    IF req.op = "unsubscribe" \/ (req.op \in SendOps /\ req.mode = "send") THEN "send"
    ELSE IF req.op \in RuleOps THEN "rule"
    ELSE IF req.op = "drafts" /\ req.action # "create" THEN "draft" ELSE "window"

Begin(req) ==
    /\ call.pc = "idle" /\ Len(made) < MaxCalls
    /\ LET v == Verdict(req)
       IN  /\ made' = Append(made, [req |-> req, readOnly |-> readOnly,
                                    outcome |-> IF v \in Working THEN "running" ELSE v])
           /\ call' = IF v \in Working THEN [pc |-> v, req |-> req, no |-> Len(made) + 1] ELSE Idle
    /\ UNCHANGED <<drafts, rules, eml, clock, late, readOnly, effects, user, faults>>

End(outcome) ==
    /\ made' = [made EXCEPT ![call.no].outcome = outcome]
    /\ call' = Idle

Fault(kind) ==
    /\ kind \in Faults /\ faults < MaxFaults
    /\ faults' = faults + 1

\* Mutant: a call that timed out is tried again.
RunScriptRetried ==
    LET s == Script(call.no, KindOf(call.req), call.req)
    IN  /\ call.pc = "script"
        /\ \/ /\ ~Throws(s) /\ Do(s) /\ End("ok")
              /\ UNCHANGED <<late, faults>>
           \/ /\ Fault("timeout")
              /\ late' = late \cup {s}
              /\ UNCHANGED <<drafts, rules, effects, made, call>>
        /\ UNCHANGED <<eml, clock, readOnly, user>>

\* jxa.call(): the script runs, throws, fails, or is killed and may still take effect.
RunScript ==
    LET s == Script(call.no, KindOf(call.req), call.req)
    IN  /\ call.pc = "script"
        /\ \/ /\ ~Throws(s) /\ Do(s) /\ End("ok")
              /\ UNCHANGED <<late, faults>>
           \/ /\ Throws(s) /\ End("error")
              /\ UNCHANGED <<drafts, rules, effects, late, faults>>
           \/ /\ Fault("fail") /\ End("error")
              /\ UNCHANGED <<drafts, rules, effects, late>>
           \/ /\ Fault("timeout") /\ End("error")
              /\ late' = late \cup {s}
              /\ UNCHANGED <<drafts, rules, effects>>
        /\ UNCHANGED <<eml, clock, readOnly, user>>

Posted == effects' = Append(effects, [no |-> call.no, kind |-> "posted", whole |-> TRUE])

\* _post_one_click(): answered with success, or with an error, or not at all, though it
\* may have arrived.
Post ==
    /\ call.pc = "post"
    /\ \/ Posted /\ End("ok") /\ UNCHANGED faults
       \/ /\ \E kind \in {"fail", "timeout"} : Fault(kind)
          /\ End("error") /\ (Posted \/ UNCHANGED effects)
    /\ UNCHANGED <<drafts, rules, eml, clock, late, readOnly, user>>

-----------------------------------------------------------------------------
(***************************************************************************)
(* Drafts that open as .eml files                                          *)
(***************************************************************************)
\* Mutant: everything but the new file goes.
KeptNone == {}

\* _prune_old_eml(): the files young enough to stay.
Kept == {f \in eml : clock - f.at <= EmlMaxAge}

\* _open_eml_as_draft() up to open -a Mail: prune, then write.
WriteEml ==
    /\ call.pc = "eml"
    /\ eml' = Kept \cup {[no |-> call.no, at |-> clock, state |-> "written"]}
    /\ call' = [call EXCEPT !.pc = "open"]
    /\ UNCHANGED <<drafts, rules, clock, late, readOnly, effects, made, user, faults>>

Opened == eml' = {IF f.no = call.no THEN [f EXCEPT !.state = "opened"] ELSE f : f \in eml}

\* open -a Mail: its exit code is not looked at, its timeout is an error.
OpenEml ==
    /\ call.pc = "open"
    /\ \/ Opened /\ End("ok") /\ UNCHANGED faults
       \/ Fault("fail") /\ End("ok") /\ UNCHANGED eml
       \/ Fault("timeout") /\ End("error") /\ (Opened \/ UNCHANGED eml)
    /\ UNCHANGED <<drafts, rules, clock, late, readOnly, effects, user>>

\* Mail imports a file it was given, and shows it.
Import ==
    \E f \in eml :
        /\ f.state = "opened"
        /\ eml' = (eml \ {f}) \cup {[f EXCEPT !.state = "imported"]}
        /\ effects' = Append(effects, [no |-> f.no, kind |-> "window",
                                       whole |-> made[f.no].req.files = <<>>])
        /\ UNCHANGED <<drafts, rules, clock, late, readOnly, call, made, user, faults>>

\* open gives up after seconds and Mail imports within a few: both fit in a tick, which
\* stands for a good part of the hour that files are kept.
Tick ==
    /\ clock < MaxClock
    /\ call.pc # "open"
    /\ \A f \in eml : f.state # "opened"
    /\ clock' = clock + 1
    /\ UNCHANGED <<drafts, rules, eml, late, readOnly, call, effects, made, user, faults>>

-----------------------------------------------------------------------------
(***************************************************************************)
(* Everybody else                                                          *)
(***************************************************************************)
\* A script given up on ends after all, in the mailbox as it is by then.
Land ==
    \E s \in late :
        /\ late' = late \ {s}
        /\ IF Throws(s) THEN UNCHANGED mailVars ELSE Do(s)
        /\ UNCHANGED <<eml, clock, readOnly, call, made, user, faults>>

User ==
    /\ user < MaxUser
    /\ user' = user + 1
    /\ \/ \E subject \in Subjects : drafts' = Append(drafts, subject) /\ UNCHANGED rules
       \/ \E i \in DOMAIN drafts : drafts' = RemoveAt(drafts, i) /\ UNCHANGED rules
       \/ \E n \in Names : rules' = Append(rules, [name |-> n, enabled |-> TRUE]) /\ UNCHANGED drafts
    /\ UNCHANGED <<eml, clock, late, readOnly, call, effects, made, faults>>

\* The server dies; the script, the POST or the open command it had started takes effect
\* or not.
Restart ==
    /\ Fault("restart")
    /\ readOnly' \in BOOLEAN
    /\ late' \in {late} \cup (IF call.pc = "script"
                             THEN {late \cup {Script(call.no, KindOf(call.req), call.req)}} ELSE {})
    /\ (call.pc = "open" /\ Opened) \/ UNCHANGED eml
    /\ (call.pc = "post" /\ Posted) \/ UNCHANGED effects
    /\ IF call.pc = "idle" THEN UNCHANGED <<made, call>> ELSE End("lost")
    /\ UNCHANGED <<drafts, rules, clock, user>>

Next ==
    \/ \E req \in Requests : Begin(req)
    \/ RunScript \/ Post \/ WriteEml \/ OpenEml \/ Import \/ Tick
    \/ Land \/ User \/ Restart

Spec == Init /\ [][Next]_vars

-----------------------------------------------------------------------------
(***************************************************************************)
(* Properties                                                              *)
(***************************************************************************)
Outcomes == {"running", "ok", "error", "lost", "preview", "none-found",
             "ReadOnlyMode", "ConfirmationRequired"}
Kinds == {"sent", "posted", "window", "draft_deleted", "rule_set", "rule_deleted"}

\* Every variable has its type, and everything that happened belongs to a call.
TypeOK ==
    /\ drafts \in Seq(Subjects)
    /\ rules \in Seq([name: Names, enabled: BOOLEAN])
    /\ made \in Seq([req: Requests, readOnly: BOOLEAN, outcome: Outcomes])
    /\ effects \in Seq([no: DOMAIN made, kind: Kinds, whole: BOOLEAN])
    /\ eml \subseteq [no: DOMAIN made, at: Nat, state: {"written", "opened", "imported"}]
    /\ late \subseteq [no: DOMAIN made, kind: {"send", "window", "draft", "rule"}, req: Requests]
    /\ clock \in 0 .. MaxClock
    /\ readOnly \in BOOLEAN
    /\ call = Idle \/ call \in [pc: Working \cup {"open"}, req: Requests, no: DOMAIN made]
    /\ user \in 0 .. MaxUser /\ faults \in 0 .. MaxFaults

EffectsOf(no) == {i \in DOMAIN effects : effects[i].no = no}

\* One call sends at most one message and unsubscribes in at most one way, also when it
\* times out, when its script ends later and when the server dies with it (jxa.call is
\* never repeated; one-click and mailto exclude each other).
OneEffectPerCall == \A no \in DOMAIN made : Cardinality(EffectsOf(no)) <= 1

\* What happened was asked for and let through: by a server not read-only when the call
\* began (or as a new draft), not as a preview, a rule deleted only with confirm=true; a
\* message was sent only for a plain body in mode send or for a mailto unsubscription.
\* It holds for scripts that end after a restart, too.
OnlyAdmittedCallsAct ==
    \A i \in DOMAIN effects :
        LET e == effects[i]
            m == made[e.no]
        IN  /\ m.outcome \in {"running", "ok", "error", "lost"}
            /\ m.readOnly => e.kind = "window" /\ m.req.op = "drafts"
            /\ ~m.req.dryRun
            /\ e.kind = "rule_deleted" => m.req.op = "delete_rule" /\ m.req.confirm
            /\ e.kind = "sent" => \/ m.req.op = "unsubscribe" /\ m.req.offers = "mailto"
                                  \/ m.req.op \in SendOps /\ m.req.mode = "send" /\ ~m.req.html

\* Listing and opening drafts leaves no trace in effects.
Silent(req) == req.op = "drafts" /\ req.action \in {"list", "open"}

\* A call that reports success did what it was asked, and one bad file among several
\* spoils the message: nothing goes out without it, at once or from a script that ends
\* late (addAttachments: "Fail loud"; finalizeOutgoing, unsubscribe_from_sender).  Drafts
\* that open as .eml files are excepted: the exit code of open is not looked at, and they
\* carry no attachments.  Whether Mail has loaded good files by then is not promised.
SuccessMeansDone ==
    /\ \A no \in DOMAIN made :
          LET m == made[no]
          IN  m.outcome = "ok" /\ ~AsHtml(m.req) /\ ~Silent(m.req) => EffectsOf(no) # {}
    /\ \A i \in DOMAIN effects :
          LET e == effects[i]
              files == made[e.no].req.files
          IN  e.kind = "sent" => \A j \in DOMAIN files : files[j] = "good"

\* Pruning never takes a file from Mail that Mail was given and has not imported yet
\* (_prune_old_eml: "without racing that import").
FreshEmlSurvives ==
    [][\A f \in eml : f.state = "opened" => \E g \in eml' : g.no = f.no]_vars

=============================================================================
