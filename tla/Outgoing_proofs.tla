-------------------------- MODULE Outgoing_proofs --------------------------
(***************************************************************************)
(* Proofs about Outgoing, for any calls, drafts, rules, failures and       *)
(* bounds: types, the gates, one effect per call, and honest success.      *)
(***************************************************************************)
EXTENDS Outgoing, FiniteSetTheorems, SequenceTheorems, TLAPS

CallType == [req: Requests, readOnly: BOOLEAN, outcome: Outcomes]
EffectType == [no: DOMAIN made, kind: Kinds, whole: BOOLEAN]
ScriptType == [no: DOMAIN made, kind: {"send", "window", "draft", "rule"}, req: Requests]
FileType == [no: DOMAIN made, at: Nat, state: {"written", "opened", "imported"}]
RunningType == [pc: Working \cup {"open"}, req: Requests, no: DOMAIN made]
RuleType == [name: Names, enabled: BOOLEAN]

-----------------------------------------------------------------------------
(***************************************************************************)
(* Sequences                                                               *)
(***************************************************************************)
LEMMA LeastInSet ==
    ASSUME NEW S, S \subseteq Nat, S # {}
    PROVE  FirstOf(S) \in S
<1>1. \E x \in S : \A y \in S : ~(<<y, x>> \in OpToRel(<, Nat))
  BY NatLessThanWellFounded, WFMin, Zenon
<1>2. ASSUME NEW x \in S, NEW y \in S, ~(<<y, x>> \in OpToRel(<, Nat))
      PROVE  x <= y
  <2>1. ~(y < x)
    BY <1>2, Zenon DEF OpToRel
  <2> QED
    BY <2>1
<1>3. \E x \in S : \A y \in S : x <= y
  BY <1>1, <1>2
<1> QED
  BY <1>3 DEF FirstOf

LEMMA Removed ==
    ASSUME NEW S, NEW s \in Seq(S), NEW i \in DOMAIN s
    PROVE  RemoveAt(s, i) \in Seq(S)
<1>1. Len(s) \in Nat /\ DOMAIN s = 1..Len(s) /\ \A j \in 1..Len(s) : s[j] \in S
  OBVIOUS
<1>2. SubSeq(s, 1, i - 1) \in Seq(S)
  BY <1>1, SubSeqProperties
<1>3. SubSeq(s, i + 1, Len(s)) \in Seq(S)
  BY <1>1, SubSeqProperties
<1> QED
  BY <1>2, <1>3, ConcatProperties DEF RemoveAt

LEMMA Appended ==
    ASSUME NEW S, NEW s \in Seq(S), NEW e \in S
    PROVE  /\ Append(s, e) \in Seq(S)
           /\ DOMAIN Append(s, e) = 1..(Len(s) + 1) /\ Len(s) \in Nat /\ DOMAIN s = 1..Len(s)
           /\ \A i \in 1..Len(s) : Append(s, e)[i] = s[i]
           /\ Append(s, e)[Len(s) + 1] = e
OBVIOUS

LEMMA SeqWiden ==
    ASSUME NEW S, NEW T, NEW s \in Seq(S), S \subseteq T
    PROVE  s \in Seq(T)
BY SeqMonotonic

-----------------------------------------------------------------------------
(***************************************************************************)
(* The invariant                                                           *)
(***************************************************************************)
Acting == {"running", "ok", "error", "lost"}

\* A call the gates let through.
Passed(m) ==
    /\ m.outcome \in Acting
    /\ m.readOnly => m.req.op = "drafts" /\ m.req.action \in {"list", "create"}
    /\ ~m.req.dryRun
    /\ m.req.op = "delete_rule" => m.req.confirm

\* A script belongs to a call that may run it.
ScriptFits(s) ==
    /\ s.no \in DOMAIN made /\ s.req = made[s.no].req /\ s.kind = KindOf(s.req)
    /\ Passed(made[s.no])
    /\ ~AsHtml(s.req) /\ ~(Attaching(s.req) /\ Carries(s.req, "invalid"))
    /\ s.req.op = "unsubscribe" => s.req.offers = "mailto"

\* What happened was let through, and no file of what was sent is bad.
EffectFits(e) ==
    LET m == made[e.no]
    IN  /\ e.no \in DOMAIN made
        /\ m.outcome \in Acting
        /\ m.readOnly => e.kind = "window" /\ m.req.op = "drafts"
        /\ ~m.req.dryRun
        /\ e.kind = "rule_deleted" => m.req.op = "delete_rule" /\ m.req.confirm
        /\ e.kind = "sent" => \/ m.req.op = "unsubscribe" /\ m.req.offers = "mailto"
                              \/ m.req.op \in SendOps /\ m.req.mode = "send" /\ ~m.req.html
        /\ e.kind = "sent" => \A j \in DOMAIN m.req.files : m.req.files[j] = "good"

RunningFits ==
    call # Idle =>
        /\ call.req = made[call.no].req /\ Passed(made[call.no])
        /\ made[call.no].outcome = "running"
        /\ call.pc = "script" => ScriptFits(Script(call.no, KindOf(call.req), call.req))
        /\ call.pc = "post" => call.req.op = "unsubscribe"
        /\ call.pc \in {"eml", "open"} => AsHtml(call.req)

FileFits(f) == Passed(made[f.no]) /\ AsHtml(made[f.no].req)

Gates ==
    /\ RunningFits
    /\ \A s \in late : ScriptFits(s)
    /\ \A f \in eml : FileFits(f)

EffectsFit == \A i \in DOMAIN effects : EffectFits(effects[i])

Honest ==
    \A no \in DOMAIN made :
        made[no].outcome = "ok" /\ ~AsHtml(made[no].req) /\ ~Silent(made[no].req)
        => \E i \in DOMAIN effects : effects[i].no = no

Spent == {effects[i].no : i \in DOMAIN effects}

\* The chance a call has to act is with the call, a script given up on or a
\* file, and with one of them only.
OneChance ==
    /\ \A i, j \in DOMAIN effects : effects[i].no = effects[j].no => i = j
    /\ \A s, t \in late : s.no = t.no => s = t
    /\ \A s \in late : s.no \notin Spent /\ s.no # call.no
    /\ \A f, g \in eml : f.no = g.no => f = g
    /\ \A f \in eml : f.state # "imported" => f.no \notin Spent
    /\ \A s \in late, f \in eml : s.no # f.no
    /\ call # Idle => call.no \notin Spent

\* A file is as young as the clock until Mail has imported it.
Young ==
    \A f \in eml :
        /\ f.no = call.no => call.pc = "open" /\ f.state = "written" /\ f.at = clock
        /\ f.state = "opened" => f.at = clock

OutgoingInv == TypeOK /\ Gates /\ EffectsFit /\ Honest /\ OneChance /\ Young

-----------------------------------------------------------------------------
(***************************************************************************)
(* What single steps do                                                    *)
(***************************************************************************)
LEMMA CallCases ==
    ASSUME TypeOK, OutgoingAssumption
    PROVE  /\ call.pc = "idle" <=> call = Idle
           /\ call # Idle => call \in RunningType /\ call.no \in DOMAIN made
           /\ call = Idle => call.no = 0 /\ call.pc = "idle"
           /\ DOMAIN made = 1..Len(made) /\ Len(made) \in Nat
           /\ 0 \notin DOMAIN made
<1>1. Idle.pc = "idle" /\ Idle.no = 0
  BY DEF Idle
<1>2. made \in Seq(CallType)
  BY DEF TypeOK, CallType
<1>3. DOMAIN made = 1..Len(made) /\ Len(made) \in Nat
  BY <1>2
<1>4. ASSUME call # Idle
      PROVE  call \in RunningType /\ call.no \in DOMAIN made /\ call.pc # "idle"
  BY <1>4 DEF TypeOK, RunningType, Working
<1> QED
  BY <1>1, <1>3, <1>4

\* A call that ends keeps everything but its outcome.
LEMMA EndMade ==
    ASSUME TypeOK, OutgoingAssumption, call # Idle, RunningFits,
           NEW o \in {"ok", "error", "lost"}, End(o)
    PROVE  /\ made' \in Seq(CallType) /\ DOMAIN made' = DOMAIN made
           /\ \A no \in DOMAIN made : /\ made'[no].req = made[no].req
                                      /\ made'[no].readOnly = made[no].readOnly
                                      /\ Passed(made[no]) => Passed(made'[no])
                                      /\ no # call.no => made'[no] = made[no]
           /\ made'[call.no].outcome = o
           /\ call' = Idle
<1>1. made \in Seq(CallType) /\ call.no \in DOMAIN made
  BY CallCases DEF TypeOK, CallType
<1>2. made' = [made EXCEPT ![call.no].outcome = o] /\ call' = Idle
  BY DEF End
<1>3. /\ DOMAIN made' = DOMAIN made
      /\ \A no \in DOMAIN made : no # call.no => made'[no] = made[no]
      /\ made'[call.no] = [made[call.no] EXCEPT !.outcome = o]
  BY <1>1, <1>2
<1>4. made[call.no] \in CallType
  BY <1>1
<1>5. /\ made'[call.no].req = made[call.no].req
      /\ made'[call.no].readOnly = made[call.no].readOnly
      /\ made'[call.no].outcome = o
      /\ made'[call.no] \in CallType
  BY <1>3, <1>4 DEF CallType, Outcomes
<1>6. Passed(made[call.no]) => Passed(made'[call.no])
  BY <1>5 DEF Passed, Acting
<1>7. made' \in Seq(CallType)
  BY <1>1, <1>2, <1>3, <1>5
<1> QED
  BY <1>2, <1>3, <1>5, <1>6, <1>7

\* The record of calls goes on as it was.
Continues ==
    /\ made' \in Seq(CallType) /\ DOMAIN made \subseteq DOMAIN made'
    /\ \A no \in DOMAIN made : /\ made'[no].req = made[no].req
                               /\ made'[no].readOnly = made[no].readOnly
                               /\ made[no].outcome \in Acting => made'[no].outcome \in Acting

LEMMA PassedStays ==
    ASSUME Continues, NEW no \in DOMAIN made
    PROVE  Passed(made[no]) => Passed(made'[no])
BY DEF Continues, Passed

LEMMA SameContinues ==
    ASSUME TypeOK, UNCHANGED made
    PROVE  Continues
BY DEF TypeOK, Continues, CallType

LEMMA EndContinues ==
    ASSUME TypeOK, OutgoingAssumption, call # Idle, RunningFits,
           NEW o \in {"ok", "error", "lost"}, End(o)
    PROVE  Continues /\ DOMAIN made' = DOMAIN made
<1>1. made[call.no].outcome = "running" /\ made'[call.no].outcome = o
  BY EndMade DEF RunningFits
<1> QED
  BY <1>1, EndMade DEF Continues, Acting

LEMMA FitsStay ==
    ASSUME Continues
    PROVE  /\ \A s : ScriptFits(s) => ScriptFits(s)'
           /\ \A f : f.no \in DOMAIN made /\ FileFits(f) => FileFits(f)'
           /\ \A e : EffectFits(e) => EffectFits(e)'
<1>1. ASSUME NEW s, ScriptFits(s) PROVE ScriptFits(s)'
  BY <1>1, PassedStays DEF ScriptFits, Continues, KindOf, AsHtml, Attaching, Carries
<1>2. ASSUME NEW f, f.no \in DOMAIN made, FileFits(f) PROVE FileFits(f)'
  BY <1>2, PassedStays DEF FileFits, Continues, AsHtml
<1>3. ASSUME NEW e, EffectFits(e) PROVE EffectFits(e)'
  BY <1>3 DEF EffectFits, Continues
<1> QED
  BY <1>1, <1>2, <1>3

\* Nothing more happened, or one thing more.
Same == effects' = effects
Grew(e) == effects' = Append(effects, e)

LEMMA EffectsAfter ==
    ASSUME TypeOK, EffectsFit, Continues,
           \/ Same
           \/ \E e : e \in EffectType' /\ EffectFits(e)' /\ Grew(e)
    PROVE  EffectsFit' /\ effects' \in Seq(EffectType')
<1>1. effects \in Seq(EffectType) /\ EffectType \subseteq EffectType'
  BY DEF TypeOK, EffectType, Continues
<1>2. effects \in Seq(EffectType')
  BY <1>1, SeqWiden
<1>3. ASSUME NEW e, \E i \in DOMAIN effects : effects[i] = e PROVE EffectFits(e)'
  BY <1>3, FitsStay DEF EffectsFit
<1>4. CASE Same
  <2>1. ASSUME NEW i \in DOMAIN effects' PROVE EffectFits(effects[i])'
    BY <1>3, <1>4 DEF Same, EffectFits
  <2> QED
    BY <1>2, <1>4, <2>1 DEF Same, EffectsFit
<1>5. ASSUME NEW e, e \in EffectType', EffectFits(e)', Grew(e)
      PROVE  EffectsFit' /\ effects' \in Seq(EffectType')
  <2>1. /\ effects' \in Seq(EffectType') /\ DOMAIN effects' = 1..(Len(effects) + 1)
        /\ Len(effects) \in Nat /\ DOMAIN effects = 1..Len(effects)
        /\ \A i \in 1..Len(effects) : effects'[i] = effects[i]
        /\ effects'[Len(effects) + 1] = e
    BY <1>2, <1>5, Appended DEF Grew
  <2>2. ASSUME NEW i \in DOMAIN effects' PROVE EffectFits(effects[i])'
    <3>1. CASE i \in 1..Len(effects)
      <4>1. \E k \in DOMAIN effects : effects[k] = effects'[i]
        BY <2>1, <3>1
      <4> QED
        BY <1>3, <4>1 DEF EffectFits
    <3>2. CASE i = Len(effects) + 1
      BY <1>5, <2>1, <3>2 DEF EffectFits
    <3> QED
      BY <2>1, <3>1, <3>2
  <2> QED
    BY <2>1, <2>2 DEF EffectsFit
<1> QED
  BY <1>4, <1>5

LEMMA SpentAfter ==
    ASSUME TypeOK, NEW e, Grew(e),
           \A i, j \in DOMAIN effects : effects[i].no = effects[j].no => i = j
    PROVE  /\ Spent' = Spent \cup {e.no}
           /\ e.no \notin Spent =>
                \A i, j \in DOMAIN effects' : effects'[i].no = effects'[j].no => i = j
           /\ \A no : (\E i \in DOMAIN effects : effects[i].no = no)
                        => \E i \in DOMAIN effects' : effects'[i].no = no
           /\ \E i \in DOMAIN effects' : effects'[i].no = e.no
<1>1. effects \in Seq(EffectType)
  BY DEF TypeOK, EffectType
<1>2. /\ DOMAIN effects' = 1..(Len(effects) + 1)
      /\ Len(effects) \in Nat /\ DOMAIN effects = 1..Len(effects)
      /\ \A i \in 1..Len(effects) : effects'[i] = effects[i]
      /\ effects'[Len(effects) + 1] = e
  <2>1. effects \in Seq(EffectType \cup {e}) /\ e \in EffectType \cup {e}
    BY <1>1, SeqWiden
  <2> QED
    BY <2>1, Appended DEF Grew
<1>3. \A i \in DOMAIN effects' : i \in DOMAIN effects \/ i = Len(effects) + 1
  BY <1>2
<1>4. Spent' = Spent \cup {e.no}
  BY <1>2, <1>3 DEF Spent
<1>5. ASSUME e.no \notin Spent, NEW i \in DOMAIN effects', NEW j \in DOMAIN effects',
             effects'[i].no = effects'[j].no
      PROVE  i = j
  BY <1>2, <1>3, <1>5 DEF Spent
<1> QED
  BY <1>2, <1>4, <1>5

-----------------------------------------------------------------------------
(***************************************************************************)
(* Scripts                                                                 *)
(***************************************************************************)
\* A script that does not throw does one thing its call was let through for;
\* only listing and opening drafts leave no trace.
LEMMA ScriptActs ==
    ASSUME TypeOK, OutgoingAssumption, NEW s, ScriptFits(s), ~Throws(s), Do(s)
    PROVE  /\ drafts' \in Seq(Subjects) /\ rules' \in Seq(RuleType)
           /\ \/ /\ Same
                 /\ Silent(s.req)
              \/ \E e : e \in EffectType /\ EffectFits(e) /\ e.no = s.no /\ Grew(e)
<1>1. /\ drafts \in Seq(Subjects) /\ rules \in Seq(RuleType)
      /\ s.no \in DOMAIN made /\ s.req = made[s.no].req
      /\ made[s.no] \in CallType /\ s.req \in Requests
  <2>1. drafts \in Seq(Subjects) /\ rules \in Seq(RuleType) /\ made \in Seq(CallType)
    BY DEF TypeOK, RuleType, CallType
  <2>2. s.no \in DOMAIN made /\ s.req = made[s.no].req
    BY DEF ScriptFits
  <2>3. made[s.no] \in CallType
    BY <2>1, <2>2
  <2> QED
    BY <2>1, <2>2, <2>3 DEF CallType
<1>2. /\ s.req.op \in SendOps \cup RuleOps \cup {"rich_draft", "drafts", "unsubscribe"}
      /\ s.req.files \in Seq({"good", "invalid", "refused"})
      /\ s.req.files # <<>> =>
            s.req.op \in {"compose", "reply"} \/ (s.req.op = "drafts" /\ s.req.action = "create")
      /\ s.req.html \in BOOLEAN /\ s.req.action \in DraftActions
      /\ s.req.html => s.req.op \in {"compose", "reply", "rich_draft"}
  BY <1>1 DEF OutgoingAssumption
<1> DEFINE E(k, w) == [no |-> s.no, kind |-> k, whole |-> w]
<1>3. ASSUME NEW k \in Kinds, NEW w \in BOOLEAN,
             made[s.no].readOnly => k = "window",
             k = "rule_deleted" => s.req.op = "delete_rule",
             k = "sent" => KindOf(s.req) = "send" /\ ~Carries(s.req, "refused")
      PROVE  E(k, w) \in EffectType /\ EffectFits(E(k, w)) /\ E(k, w).no = s.no
  <2>1. E(k, w) \in EffectType /\ E(k, w).no = s.no /\ E(k, w).kind = k
    BY <1>1 DEF EffectType
  <2>2. Passed(made[s.no]) /\ ~AsHtml(s.req) /\ ~(Attaching(s.req) /\ Carries(s.req, "invalid"))
        /\ (s.req.op = "unsubscribe" => s.req.offers = "mailto")
    BY DEF ScriptFits
  <2>3. k = "sent" => \/ s.req.op = "unsubscribe" /\ s.req.offers = "mailto"
                      \/ s.req.op \in SendOps /\ s.req.mode = "send" /\ ~s.req.html
    BY <1>2, <1>3, <2>2 DEF KindOf, AsHtml, RuleOps, SendOps
  <2>4. k = "sent" => \A j \in DOMAIN s.req.files : s.req.files[j] = "good"
    <3>1. \A j \in DOMAIN s.req.files : s.req.files[j] \in {"good", "invalid", "refused"}
      BY <1>2
    <3>2. s.req.files # <<>> => Attaching(s.req)
      BY <1>2 DEF Attaching
    <3>3. s.req.files = <<>> => DOMAIN s.req.files = {}
      OBVIOUS
    <3> QED
      BY <1>3, <2>2, <3>1, <3>2, <3>3 DEF Carries
  <2> HIDE DEF E
  <2>5. EffectFits(E(k, w))
    <3>1. made[E(k, w).no] = made[s.no] /\ E(k, w).no \in DOMAIN made
      BY <1>1, <2>1
    <3>3. /\ made[s.no].outcome \in Acting
          /\ made[s.no].readOnly => k = "window" /\ s.req.op = "drafts"
          /\ ~s.req.dryRun
          /\ k = "rule_deleted" => s.req.op = "delete_rule" /\ s.req.confirm
      BY <1>1, <1>3, <2>2 DEF Passed
    <3> QED
      BY <1>1, <2>1, <2>3, <2>4, <3>1, <3>3 DEF EffectFits
  <2> QED
    BY <2>1, <2>5
<1>4. s.kind = KindOf(s.req) /\ Passed(made[s.no])
  BY DEF ScriptFits
<1>5. CASE s.kind = "send"
  <2>1. PICK w \in BOOLEAN : Happened(s, "sent", w) /\ UNCHANGED <<drafts, rules>>
    BY <1>5 DEF Do, Loaded
  <2>2. ~Carries(s.req, "refused")
    BY <1>5 DEF Throws
  <2>3. ~made[s.no].readOnly
    BY <1>1, <1>4, <1>5 DEF Passed, KindOf, SendOps, RuleOps
  <2>4. E("sent", w) \in EffectType /\ EffectFits(E("sent", w)) /\ E("sent", w).no = s.no
    BY <1>3, <1>4, <1>5, <2>2, <2>3 DEF Kinds
  <2>5. Grew(E("sent", w))
    BY <2>1 DEF Happened, Grew
  <2> HIDE DEF E
  <2> QED
    BY <1>1, <2>1, <2>4, <2>5
<1>6. CASE s.kind = "window"
  <2>1. Happened(s, "window", TRUE) /\ UNCHANGED <<drafts, rules>>
    BY <1>6 DEF Do
  <2>2. E("window", TRUE) \in EffectType /\ EffectFits(E("window", TRUE)) /\ E("window", TRUE).no = s.no
    BY <1>3 DEF Kinds
  <2>3. Grew(E("window", TRUE))
    BY <2>1 DEF Happened, Grew
  <2> HIDE DEF E
  <2> QED
    BY <1>1, <2>1, <2>2, <2>3
<1>7. CASE s.kind = "draft"
  <2>1. s.req.op = "drafts" /\ s.req.action # "create"
    BY <1>2, <1>4, <1>7 DEF KindOf
  <2>3. CASE s.req.action \in {"list", "open"}
    <3>1. UNCHANGED mailVars
      BY <1>7, <2>3 DEF Do
    <3>2. UNCHANGED <<drafts, rules, effects>>
      BY <3>1 DEF mailVars
    <3> QED
      BY <1>1, <2>1, <2>3, <3>2 DEF Same, Silent
  <2>4. CASE s.req.action \notin {"list", "open"}
    <3>0. ~made[s.no].readOnly
      BY <1>1, <1>4, <2>1, <2>4 DEF Passed
    <3>1. /\ drafts' = RemoveAt(drafts, FirstOf(DraftsMatching(s.req)))
          /\ Happened(s, "draft_deleted", TRUE) /\ UNCHANGED rules
      BY <1>7, <2>4 DEF Do
    <3>2. DraftsMatching(s.req) # {}
      <4>1. Cardinality(DraftsMatching(s.req)) = 1
        BY <1>2, <1>7, <2>1, <2>4 DEF Throws, DraftThrows, DraftActions
      <4>2. Cardinality({}) = 0
        BY FS_EmptySet
      <4>3. Cardinality({}) # 1
        BY <4>2
      <4> QED
        BY <4>1, <4>3, Zenon
    <3>3. DraftsMatching(s.req) \subseteq DOMAIN drafts /\ DOMAIN drafts \subseteq Nat
      BY <1>1 DEF DraftsMatching
    <3>4. FirstOf(DraftsMatching(s.req)) \in DOMAIN drafts
      BY <3>2, <3>3, LeastInSet
    <3>5. drafts' \in Seq(Subjects)
      BY <1>1, <3>1, <3>4, Removed
    <3>6. E("draft_deleted", TRUE) \in EffectType /\ EffectFits(E("draft_deleted", TRUE))
          /\ E("draft_deleted", TRUE).no = s.no
      BY <1>3, <3>0 DEF Kinds
    <3>7. Grew(E("draft_deleted", TRUE))
      BY <3>1 DEF Happened, Grew
    <3> HIDE DEF E
    <3> QED
      BY <1>1, <3>1, <3>5, <3>6, <3>7
  <2> QED
    BY <2>3, <2>4
<1>8. CASE s.kind = "rule"
  <2>1. s.req.op \in RuleOps
    BY <1>4, <1>8 DEF KindOf
  <2>2. ~made[s.no].readOnly
    BY <1>1, <1>4, <2>1 DEF Passed, RuleOps
  <2> DEFINE i == FirstOf(RulesNamed(s.req))
  <2>3. RulesNamed(s.req) # {}
    BY <1>8 DEF Throws
  <2>4. RulesNamed(s.req) \subseteq DOMAIN rules /\ DOMAIN rules \subseteq Nat
    BY <1>1 DEF RulesNamed
  <2>5. i \in DOMAIN rules
    BY <2>3, <2>4, LeastInSet
  <2>6. UNCHANGED drafts
    BY <1>8 DEF Do
  <2>7. CASE s.req.op = "delete_rule"
    <3>1. rules' = RemoveAt(rules, i) /\ Happened(s, "rule_deleted", TRUE)
      BY <1>8, <2>7 DEF Do
    <3>2. rules' \in Seq(RuleType)
      BY <1>1, <2>5, <3>1, Removed
    <3>3. E("rule_deleted", TRUE) \in EffectType /\ EffectFits(E("rule_deleted", TRUE))
          /\ E("rule_deleted", TRUE).no = s.no
      BY <1>3, <2>2, <2>7 DEF Kinds
    <3>4. Grew(E("rule_deleted", TRUE))
      BY <3>1 DEF Happened, Grew
    <3> HIDE DEF E
    <3> QED
      BY <1>1, <2>6, <3>2, <3>3, <3>4
  <2>8. CASE s.req.op # "delete_rule"
    <3>1. rules' = [rules EXCEPT ![i].enabled = EnabledBy(s.req)] /\ Happened(s, "rule_set", TRUE)
      BY <1>8, <2>8 DEF Do
    <3>2. EnabledBy(s.req) \in BOOLEAN /\ rules[i] \in RuleType
      BY <1>1, <2>5 DEF EnabledBy
    <3>3. [rules[i] EXCEPT !.enabled = EnabledBy(s.req)] \in RuleType
      BY <3>2 DEF RuleType
    <3> HIDE DEF i
    <3>4. rules' \in Seq(RuleType)
      BY <1>1, <2>5, <3>1, <3>3, ExceptSeq
    <3>5. E("rule_set", TRUE) \in EffectType /\ EffectFits(E("rule_set", TRUE)) /\ E("rule_set", TRUE).no = s.no
      BY <1>3, <2>2 DEF Kinds
    <3>6. Grew(E("rule_set", TRUE))
      BY <3>1 DEF Happened, Grew
    <3> HIDE DEF E
    <3> QED
      BY <1>1, <2>6, <3>4, <3>5, <3>6
  <2> QED
    BY <2>7, <2>8
<1> QED
  BY <1>5, <1>6, <1>7, <1>8 DEF Do

-----------------------------------------------------------------------------
(***************************************************************************)
(* The parts of the invariant after a step                                 *)
(***************************************************************************)
LEMMA TypeParts ==
    TypeOK <=> /\ drafts \in Seq(Subjects) /\ rules \in Seq(RuleType)
               /\ made \in Seq(CallType) /\ effects \in Seq(EffectType)
               /\ eml \subseteq FileType /\ late \subseteq ScriptType
               /\ clock \in 0..MaxClock /\ readOnly \in BOOLEAN
               /\ (call = Idle \/ call \in RunningType)
               /\ user \in 0..MaxUser /\ faults \in 0..MaxFaults
BY DEF TypeOK, RuleType, CallType, EffectType, FileType, ScriptType, RunningType

LEMMA NumbersTyped ==
    ASSUME TypeOK
    PROVE  /\ Spent \subseteq DOMAIN made
           /\ \A s \in late : s.no \in DOMAIN made
           /\ \A f \in eml : f.no \in DOMAIN made
<1>1. effects \in Seq(EffectType)
  BY TypeParts
<1>2. \A i \in DOMAIN effects : effects[i] \in EffectType
  BY <1>1
<1>3. Spent \subseteq DOMAIN made
  BY <1>2 DEF Spent, EffectType
<1> QED
  BY <1>3, TypeParts DEF ScriptType, FileType

LEMMA WiderTypes ==
    ASSUME Continues
    PROVE  /\ EffectType \subseteq EffectType' /\ FileType \subseteq FileType'
           /\ ScriptType \subseteq ScriptType' /\ RunningType \subseteq RunningType'
BY DEF Continues, EffectType, FileType, ScriptType, RunningType

\* While no call ends, no file changes and nothing is given up on.
LEMMA HonestStays ==
    ASSUME Honest, Continues, DOMAIN made' = DOMAIN made,
           \A no \in DOMAIN made : made'[no].outcome = "ok" => made[no].outcome = "ok",
           \A no : (\E i \in DOMAIN effects : effects[i].no = no)
                      => \E i \in DOMAIN effects' : effects'[i].no = no
    PROVE  Honest'
<1>1. ASSUME NEW no \in DOMAIN made', made'[no].outcome = "ok", ~AsHtml(made'[no].req),
             ~Silent(made'[no].req)
      PROVE  \E i \in DOMAIN effects' : effects'[i].no = no
  <2>1. no \in DOMAIN made /\ made[no].outcome = "ok" /\ made'[no].req = made[no].req
    BY <1>1 DEF Continues
  <2>2. \E i \in DOMAIN effects : effects[i].no = no
    BY <1>1, <2>1 DEF Honest
  <2> QED
    BY <2>2
<1>2. \A no \in DOMAIN made' :
         made'[no].outcome = "ok" /\ ~AsHtml(made'[no].req)
         /\ ~Silent(made'[no].req)
         => \E i \in DOMAIN effects' : effects'[i].no = no
  BY <1>1
<1> QED
  BY <1>2 DEF Honest, AsHtml, Silent

\* The clock and the user touch neither calls nor what they left behind.
LEMMA WorldStep ==
    ASSUME OutgoingInv, OutgoingAssumption, Tick \/ User \/ UNCHANGED vars
    PROVE  OutgoingInv'
<1>1. UNCHANGED <<eml, late, readOnly, call, effects, made>>
  BY DEF Tick, User, vars
<1>2. TypeOK /\ Continues
  BY <1>1, SameContinues DEF OutgoingInv
<1>3. TypeOK'
  <2>0. /\ drafts \in Seq(Subjects) /\ rules \in Seq(RuleType)
        /\ clock \in 0..MaxClock /\ user \in 0..MaxUser /\ faults \in 0..MaxFaults
    BY <1>2, TypeParts
  <2>1. drafts' \in Seq(Subjects)
    <3>1. CASE User
      <4>1. \/ UNCHANGED drafts
            \/ \E subject \in Subjects : drafts' = Append(drafts, subject)
            \/ \E i \in DOMAIN drafts : drafts' = RemoveAt(drafts, i)
        BY <3>1 DEF User
      <4>2. \A subject \in Subjects : Append(drafts, subject) \in Seq(Subjects)
        BY <2>0, Appended
      <4>3. \A i \in DOMAIN drafts : RemoveAt(drafts, i) \in Seq(Subjects)
        BY <2>0, Removed
      <4> QED
        BY <2>0, <4>1, <4>2, <4>3
    <3> QED
      BY <2>0, <3>1 DEF Tick, vars
  <2>2. rules' \in Seq(RuleType)
    <3>1. CASE User
      <4>1. \/ UNCHANGED rules
            \/ \E n \in Names : rules' = Append(rules, [name |-> n, enabled |-> TRUE])
        BY <3>1 DEF User
      <4>2. \A n \in Names : [name |-> n, enabled |-> TRUE] \in RuleType
        BY DEF RuleType
      <4>3. \A n \in Names : Append(rules, [name |-> n, enabled |-> TRUE]) \in Seq(RuleType)
        BY <2>0, <4>2, Appended
      <4> QED
        BY <2>0, <4>1, <4>3
    <3> QED
      BY <2>0, <3>1 DEF Tick, vars
  <2>3. clock' \in 0..MaxClock /\ user' \in 0..MaxUser /\ faults' \in 0..MaxFaults
    BY <2>0, OutgoingAssumption DEF Tick, User, vars, OutgoingAssumption
  <2> QED
    BY <1>1, <1>2, <2>1, <2>2, <2>3 DEF TypeOK, RuleType
<1>4. Gates'
  BY <1>1 DEF OutgoingInv, Gates, RunningFits, ScriptFits, FileFits
<1>5. EffectsFit' /\ Honest' /\ OneChance'
  BY <1>1 DEF OutgoingInv, EffectsFit, EffectFits, Honest, OneChance, Spent
<1>6. Young'
  <2>1. CASE Tick
    <3>1. call.pc # "open" /\ \A f \in eml : f.state # "opened"
      BY <2>1 DEF Tick
    <3> QED
      BY <1>1, <3>1 DEF OutgoingInv, Young
  <2>2. CASE User \/ UNCHANGED vars
    <3>1. UNCHANGED <<eml, call, clock>>
      BY <2>2 DEF User, vars
    <3> QED
      BY <3>1 DEF OutgoingInv, Young
  <2> QED
    BY <2>1, <2>2
<1> QED
  BY <1>3, <1>4, <1>5, <1>6 DEF OutgoingInv

\* The gates of a call that goes on.
LEMMA VerdictPasses ==
    ASSUME OutgoingAssumption, readOnly \in BOOLEAN, NEW req \in Requests,
           Verdict(req) \in Working
    PROVE  /\ Passed([req |-> req, readOnly |-> readOnly, outcome |-> "running"])
           /\ Verdict(req) = "script" =>
                /\ ~AsHtml(req) /\ ~(Attaching(req) /\ Carries(req, "invalid"))
                /\ req.op = "unsubscribe" => req.offers = "mailto"
           /\ Verdict(req) = "post" => req.op = "unsubscribe"
           /\ Verdict(req) = "eml" => AsHtml(req)
<1>1. /\ req.op \in SendOps \cup RuleOps \cup {"rich_draft", "drafts", "unsubscribe"}
      /\ req.offers \in {"post", "mailto", "nothing", "missing"}
      /\ req.files # <<>> =>
            req.op \in {"compose", "reply"} \/ (req.op = "drafts" /\ req.action = "create")
      /\ req.dryRun => req.op \in RuleOps \cup {"unsubscribe"}
      /\ req.dryRun \in BOOLEAN /\ req.confirm \in BOOLEAN
  BY DEF OutgoingAssumption
<1>2. ~Blocked(req) /\ (req.offers = "missing" => req.op = "drafts")
  BY DEF Verdict, Working
<1>3. CASE req.op \in RuleOps
  <2>1. Verdict(req) = RuleVerdict(req)
    BY <1>2, <1>3 DEF Verdict
  <2>2. ~readOnly
    BY <1>2, <1>3 DEF Blocked, Mutating, RuleOps
  <2>3. ~req.dryRun /\ (req.op = "delete_rule" => req.confirm) /\ Verdict(req) = "script"
    BY <1>1, <2>1 DEF RuleVerdict, Working
  <2>4. ~AsHtml(req) /\ ~Attaching(req)
    BY <1>1, <1>3 DEF AsHtml, Attaching, RuleOps
  <2> QED
    BY <1>3, <2>2, <2>3, <2>4 DEF Passed, Acting, RuleOps
<1>4. CASE req.op = "unsubscribe"
  <2>1. Verdict(req) = UnsubscribeVerdict(req)
    BY <1>2, <1>4 DEF Verdict, RuleOps
  <2>2. ~req.dryRun
    BY <1>1, <2>1 DEF UnsubscribeVerdict, Working
  <2>3. ~readOnly
    BY <1>2, <1>4, <2>2 DEF Blocked, Mutating
  <2>4. /\ Verdict(req) = "script" => req.offers = "mailto"
        /\ Verdict(req) # "eml"
    BY <1>1, <1>2, <1>4, <2>1, <2>2 DEF UnsubscribeVerdict, Working
  <2>5. ~AsHtml(req) /\ ~Attaching(req)
    BY <1>1, <1>4 DEF AsHtml, Attaching
  <2> QED
    BY <1>4, <2>2, <2>3, <2>4, <2>5 DEF Passed, Acting
<1>5. CASE req.op \notin RuleOps /\ req.op # "unsubscribe"
  <2>1. Verdict(req) = IF AsHtml(req) THEN "eml"
                       ELSE IF Attaching(req) /\ Carries(req, "invalid") THEN "error"
                       ELSE "script"
    BY <1>2, <1>5 DEF Verdict
  <2>2. ~req.dryRun /\ req.op # "delete_rule"
    BY <1>1, <1>5 DEF RuleOps
  <2>3. readOnly => req.op = "drafts" /\ req.action \in {"list", "create"}
    BY <1>2, <1>5 DEF Blocked, Mutating
  <2>4. req.op = "drafts" => ~AsHtml(req)
    BY DEF AsHtml
  <2>5. /\ Verdict(req) = "script" =>
             /\ ~AsHtml(req) /\ ~(Attaching(req) /\ Carries(req, "invalid"))
        /\ Verdict(req) # "post"
        /\ Verdict(req) = "eml" => AsHtml(req)
    BY <2>1
  <2> QED
    BY <1>5, <2>2, <2>3, <2>5 DEF Passed, Acting
<1> QED
  BY <1>3, <1>4, <1>5
-----------------------------------------------------------------------------
(***************************************************************************)
(* The steps of calls                                                      *)
(***************************************************************************)
\* A call gets a number of its own, that nothing speaks of yet.
LEMMA BeginStep ==
    ASSUME OutgoingInv, OutgoingAssumption, NEW req \in Requests, Begin(req)
    PROVE  OutgoingInv'
<1> DEFINE v == Verdict(req)
           m == [req |-> req, readOnly |-> readOnly,
                 outcome |-> IF v \in Working THEN "running" ELSE v]
           n == Len(made) + 1
<1>0. TypeOK /\ Gates /\ EffectsFit /\ Honest /\ OneChance /\ Young
  BY DEF OutgoingInv
<1>1. /\ call.pc = "idle" /\ made' = Append(made, m)
      /\ call' = IF v \in Working THEN [pc |-> v, req |-> req, no |-> n] ELSE Idle
      /\ UNCHANGED <<drafts, rules, eml, clock, late, readOnly, effects, user, faults>>
  BY DEF Begin
<1>2. v \in {"ReadOnlyMode", "error", "preview", "ConfirmationRequired", "none-found",
             "post", "script", "eml"}
  BY DEF Verdict, RuleVerdict, UnsubscribeVerdict
<1>3. m \in CallType /\ m.req = req /\ m.readOnly = readOnly
      /\ m.outcome = (IF v \in Working THEN "running" ELSE v) /\ m.outcome # "ok"
  BY <1>0, <1>2 DEF CallType, Outcomes, Working, TypeOK
<1>4. made \in Seq(CallType)
  BY <1>0, TypeParts
<1> HIDE DEF m
<1>5. /\ made' \in Seq(CallType) /\ DOMAIN made' = 1..n /\ Len(made) \in Nat
      /\ DOMAIN made = 1..Len(made)
      /\ \A no \in 1..Len(made) : made'[no] = made[no]
      /\ made'[n] = m
  BY <1>1, <1>3, <1>4, Appended
<1>6. Continues
  BY <1>5 DEF Continues
<1>7. call = Idle /\ n \notin DOMAIN made /\ n \in DOMAIN made'
  BY <1>0, <1>1, <1>5, CallCases
<1>8. TypeOK'
  <2>1. effects' \in Seq(EffectType') /\ eml' \subseteq FileType' /\ late' \subseteq ScriptType'
    BY <1>0, <1>1, <1>6, TypeParts, WiderTypes, SeqWiden
  <2>2. call' = Idle \/ call' \in RunningType'
    BY <1>1, <1>7 DEF RunningType
  <2> QED
    BY <1>0, <1>1, <1>5, <2>1, <2>2, TypeParts DEF TypeOK, RuleType, CallType, EffectType,
       FileType, ScriptType, RunningType
<1>9. Gates'
  <2>1. RunningFits'
    <3>1. SUFFICES ASSUME call' # Idle PROVE
              /\ call'.req = made'[call'.no].req /\ Passed(made'[call'.no])
              /\ made'[call'.no].outcome = "running"
              /\ call'.pc = "script" => ScriptFits(Script(call.no, KindOf(call.req), call.req))'
              /\ call'.pc = "post" => call'.req.op = "unsubscribe"
              /\ call'.pc \in {"eml", "open"} => AsHtml(call'.req)
      BY DEF RunningFits, AsHtml
    <3>2. v \in Working /\ call'.pc = v /\ call'.req = req /\ call'.no = n
      BY <1>1, <3>1
    <3>3. m = [req |-> req, readOnly |-> readOnly, outcome |-> "running"]
      BY <3>2 DEF m
    <3>4. readOnly \in BOOLEAN
      BY <1>0 DEF TypeOK
    <3>5. /\ Passed(m)
          /\ v = "script" => /\ ~AsHtml(req) /\ ~(Attaching(req) /\ Carries(req, "invalid"))
                             /\ req.op = "unsubscribe" => req.offers = "mailto"
          /\ v = "post" => req.op = "unsubscribe"
          /\ v = "eml" => AsHtml(req)
      BY <3>2, <3>3, <3>4, VerdictPasses
    <3>6. made'[n] = m /\ m.req = req /\ m.outcome = "running" /\ n \in DOMAIN made'
      BY <1>3, <1>5, <1>7, <3>2
    <3> HIDE DEF v, n
    <3>7. v = "script" => ScriptFits(Script(call.no, KindOf(call.req), call.req))'
      BY <3>2, <3>5, <3>6 DEF ScriptFits, Script, KindOf, AsHtml, Attaching, Carries
    <3>8. v # "open"
      BY <3>2 DEF Working
    <3> QED
      BY <3>2, <3>5, <3>6, <3>7, <3>8
  <2>2. \A s \in late' : ScriptFits(s)'
    BY <1>0, <1>1, <1>6, FitsStay DEF Gates
  <2>3. \A f \in eml' : FileFits(f)'
    <3>1. \A f \in eml : f.no \in DOMAIN made
      BY <1>0, TypeParts DEF FileType
    <3> QED
      BY <1>0, <1>1, <1>6, <3>1, FitsStay DEF Gates
  <2> QED
    BY <2>1, <2>2, <2>3 DEF Gates
<1>10. EffectsFit'
  BY <1>0, <1>1, <1>6, EffectsAfter DEF Same
<1>11. Honest'
  <2>1. ASSUME NEW no \in DOMAIN made', made'[no].outcome = "ok", ~AsHtml(made'[no].req),
               ~Silent(made'[no].req)
        PROVE  \E i \in DOMAIN effects' : effects'[i].no = no
    <3>1. no \in DOMAIN made /\ made'[no] = made[no]
      BY <1>3, <1>5, <2>1
    <3> QED
      BY <1>0, <1>1, <2>1, <3>1 DEF Honest
  <2>2. \A no \in DOMAIN made' :
           made'[no].outcome = "ok" /\ ~AsHtml(made'[no].req)
           /\ ~Silent(made'[no].req)
           => \E i \in DOMAIN effects' : effects'[i].no = no
    BY <2>1
  <2> QED
    BY <2>2 DEF Honest, AsHtml, Silent
<1>12. OneChance'
  <2>1. Spent \subseteq DOMAIN made
    BY <1>0, NumbersTyped
  <2>2. \A s \in late : s.no # n
    BY <1>0, <1>7, TypeParts DEF ScriptType
  <2>3. n \notin Spent /\ Spent' = Spent
    BY <1>1, <1>7, <2>1 DEF Spent
  <2>4. call'.no \in {0, n} /\ (call' # Idle => call'.no = n)
    BY <1>1 DEF Idle
  <2>5. \A s \in late : s.no # 0
    BY <1>0, CallCases, TypeParts DEF ScriptType
  <2> QED
    BY <1>0, <1>1, <2>2, <2>3, <2>4, <2>5 DEF OneChance
<1>13. Young'
  <2>1. \A f \in eml : f.no # n /\ f.no # 0
    BY <1>0, <1>7, CallCases, TypeParts DEF FileType
  <2>2. call'.no \in {0, n}
    BY <1>1 DEF Idle
  <2> QED
    BY <1>0, <1>1, <2>1, <2>2 DEF Young
<1> QED
  BY <1>8, <1>9, <1>10, <1>11, <1>12, <1>13 DEF OutgoingInv

\* A call ends: it acted, or leaves its chance to a script or a file, or
\* neither.
CallEnds(o) ==
    /\ call # Idle /\ End(o)
    /\ \/ Same
       \/ /\ call.pc # "open" /\ late' = late
          /\ \E e : e \in EffectType /\ EffectFits(e) /\ e.no = call.no /\ Grew(e)
    /\ o = "ok" => \/ AsHtml(call.req)
                   \/ Silent(call.req)
                   \/ \E e : e.no = call.no /\ Grew(e)
    /\ \/ late' = late
       \/ call.pc = "script" /\ late' = late \cup {Script(call.no, KindOf(call.req), call.req)}
    /\ \/ eml' = eml
       \/ call.pc = "open" /\ Opened
    /\ drafts' \in Seq(Subjects) /\ rules' \in Seq(RuleType)
    /\ readOnly' \in BOOLEAN /\ faults' \in 0..MaxFaults
    /\ UNCHANGED <<clock, user>>

LEMMA CallEndsStep ==
    ASSUME OutgoingInv, OutgoingAssumption, NEW o \in {"ok", "error", "lost"}, CallEnds(o)
    PROVE  OutgoingInv'
<1> DEFINE script == Script(call.no, KindOf(call.req), call.req)
<1>0. TypeOK /\ Gates /\ EffectsFit /\ Honest /\ OneChance /\ Young /\ RunningFits
  BY DEF OutgoingInv, Gates
<1>1. /\ call # Idle /\ End(o) /\ call' = Idle
      /\ call \in RunningType /\ call.no \in DOMAIN made
      /\ drafts' \in Seq(Subjects) /\ rules' \in Seq(RuleType)
      /\ readOnly' \in BOOLEAN /\ faults' \in 0..MaxFaults
      /\ UNCHANGED <<clock, user>>
  BY <1>0, CallCases DEF CallEnds, End
<1>2. Continues /\ DOMAIN made' = DOMAIN made
  BY <1>0, <1>1, EndContinues
<1>3. /\ made' \in Seq(CallType)
      /\ \A no \in DOMAIN made : no # call.no => made'[no] = made[no]
      /\ made'[call.no].outcome = o /\ made'[call.no].req = made[call.no].req
  BY <1>0, <1>1, EndMade
<1>4. /\ call.pc = "script" => ScriptFits(script)
      /\ call.req = made[call.no].req
  BY <1>0, <1>1 DEF RunningFits
<1>5. \A f \in eml' : \/ f \in eml
                      \/ /\ call.pc = "open" /\ f.no = call.no /\ f.state = "opened"
                         /\ \E g \in eml : g.no = call.no /\ f.at = g.at
  <2>1. CASE eml' = eml
    BY <2>1
  <2>2. CASE call.pc = "open" /\ Opened
    <3>1. eml' = {IF f.no = call.no THEN [f EXCEPT !.state = "opened"] ELSE f : f \in eml}
      BY <2>2 DEF Opened
    <3>2. ASSUME NEW f \in eml, f.no = call.no
          PROVE  LET h == [f EXCEPT !.state = "opened"]
                 IN  h.no = call.no /\ h.state = "opened" /\ h.at = f.at
      BY <1>0, <3>2, TypeParts DEF FileType
    <3> QED
      BY <2>2, <3>1, <3>2
  <2> QED
    BY <2>1, <2>2 DEF CallEnds
<1>6. \/ Same
      \/ /\ call.pc # "open" /\ late' = late
         /\ \E e : e \in EffectType /\ EffectFits(e) /\ e.no = call.no /\ Grew(e)
  BY DEF CallEnds
<1>7. late' = late \/ (call.pc = "script" /\ late' = late \cup {script})
  BY DEF CallEnds
<1> HIDE DEF script
<1>8. script.no = call.no /\ script.kind = KindOf(call.req) /\ script.req = call.req
      /\ script = [no |-> call.no, kind |-> KindOf(call.req), req |-> call.req]
  BY DEF script, Script
<1>9. EffectsFit' /\ effects' \in Seq(EffectType')
  <2>1. \A e : e \in EffectType /\ EffectFits(e) => e \in EffectType' /\ EffectFits(e)'
    BY <1>2, FitsStay, WiderTypes
  <2> QED
    BY <1>0, <1>2, <1>6, <2>1, EffectsAfter
<1>10. TypeOK'
  <2>1. late' \subseteq ScriptType'
    <3>1. KindOf(call.req) \in {"send", "window", "draft", "rule"}
      BY DEF KindOf
    <3>2. call.req \in Requests
      BY <1>1 DEF RunningType
    <3>3. script \in ScriptType
      BY <1>1, <1>8, <3>1, <3>2 DEF ScriptType
    <3> QED
      BY <1>0, <1>2, <1>7, <3>3, TypeParts, WiderTypes
  <2>2. eml' \subseteq FileType'
    <3>1. eml \subseteq FileType /\ FileType \subseteq FileType'
      BY <1>0, <1>2, TypeParts, WiderTypes
    <3>2. CASE eml' = eml
      BY <3>1, <3>2
    <3>3. CASE Opened
      <4>1. \A f \in eml : (IF f.no = call.no THEN [f EXCEPT !.state = "opened"] ELSE f) \in FileType
        BY <3>1 DEF FileType
      <4> QED
        BY <3>1, <3>3, <4>1 DEF Opened
    <3> QED
      BY <3>2, <3>3 DEF CallEnds
  <2>3. clock' \in 0..MaxClock /\ user' \in 0..MaxUser
    BY <1>0, <1>1, TypeParts
  <2> QED
    BY <1>1, <1>3, <1>9, <2>1, <2>2, <2>3 DEF TypeOK, RuleType, CallType, EffectType,
       FileType, ScriptType
<1>11. Gates'
  <2>1. RunningFits'
    BY <1>1 DEF RunningFits, Idle
  <2>2. \A s \in late' : ScriptFits(s)'
    <3>1. \A s \in late' : ScriptFits(s)
      BY <1>0, <1>4, <1>7 DEF Gates
    <3> QED
      BY <1>2, <3>1, FitsStay
  <2>3. \A f \in eml' : FileFits(f)'
    <3>1. ASSUME NEW f \in eml' PROVE f.no \in DOMAIN made /\ FileFits(f)
      <4>1. CASE f \in eml
        BY <1>0, <4>1, NumbersTyped DEF Gates
      <4>2. CASE call.pc = "open" /\ f.no = call.no
        BY <1>0, <1>1, <4>2 DEF RunningFits, FileFits
      <4> QED
        BY <1>5, <4>1, <4>2
    <3> QED
      BY <1>2, <3>1, FitsStay
  <2> QED
    BY <2>1, <2>2, <2>3 DEF Gates
<1>12. Honest'
  <2>1. ASSUME NEW no \in DOMAIN made', made'[no].outcome = "ok", ~AsHtml(made'[no].req),
               ~Silent(made'[no].req)
        PROVE  \E i \in DOMAIN effects' : effects'[i].no = no
    <3>0. ASSUME NEW e, Grew(e)
          PROVE  /\ \E i \in DOMAIN effects' : effects'[i].no = e.no
                 /\ (\E i \in DOMAIN effects : effects[i].no = no)
                       => \E i \in DOMAIN effects' : effects'[i].no = no
      BY <1>0, <3>0, SpentAfter DEF OneChance
    <3>1. CASE no = call.no
      <4>1. PICK e : e.no = call.no /\ Grew(e)
        BY <1>3, <1>4, <2>1, <3>1 DEF CallEnds
      <4> QED
        BY <3>0, <3>1, <4>1
    <3>2. CASE no # call.no
      <4>1. \E i \in DOMAIN effects : effects[i].no = no
        BY <1>0, <1>2, <1>3, <2>1, <3>2 DEF Honest
      <4> QED
        BY <1>6, <3>0, <4>1 DEF Same
    <3> QED
      BY <3>1, <3>2
  <2>2. \A no \in DOMAIN made' :
           made'[no].outcome = "ok" /\ ~AsHtml(made'[no].req)
           /\ ~Silent(made'[no].req)
           => \E i \in DOMAIN effects' : effects'[i].no = no
    BY <2>1
  <2> QED
    BY <2>2 DEF Honest, AsHtml, Silent
<1>13. call.no \notin Spent /\ call'.no = 0 /\ (\A s \in late' : s.no # 0)
  <2>1. script.no # 0 /\ \A s \in late : s.no # 0
    BY <1>0, <1>1, <1>8, CallCases, NumbersTyped
  <2> QED
    BY <1>0, <1>1, <1>7, <2>1 DEF OneChance, Idle
<1>14. \A f \in eml : f.no = call.no => call.pc = "open" /\ f.state = "written" /\ f.at = clock
  BY <1>0 DEF Young
<1>15. OneChance'
  <2>1. \A s, t \in late' : s.no = t.no => s = t
    BY <1>0, <1>7, <1>8 DEF OneChance
  <2>2. \A f, g \in eml' : f.no = g.no => f = g
    <3>1. CASE eml' = eml
      BY <1>0, <3>1 DEF OneChance
    <3>2. CASE Opened
      <4> DEFINE h(f) == IF f.no = call.no THEN [f EXCEPT !.state = "opened"] ELSE f
      <4>1. \A f \in eml : h(f).no = f.no
        BY <1>0, TypeParts DEF FileType
      <4>2. eml' = {h(f) : f \in eml}
        BY <3>2 DEF Opened
      <4> HIDE DEF h
      <4>3. ASSUME NEW f \in eml', NEW g \in eml', f.no = g.no PROVE f = g
        <5>1. PICK f0 \in eml, g0 \in eml : f = h(f0) /\ g = h(g0)
          BY <4>2, <4>3
        <5>2. f0 = g0
          BY <1>0, <4>1, <4>3, <5>1 DEF OneChance
        <5> QED
          BY <5>1, <5>2
      <4> QED
        BY <4>3
    <3> QED
      BY <3>1, <3>2 DEF CallEnds
  <2>3. \A s \in late', f \in eml' : s.no # f.no
    <3>1. ASSUME NEW s \in late', NEW f \in eml' PROVE s.no # f.no
      <4>1. \E g \in eml : g.no = f.no
        BY <1>5
      <4>2. PICK g \in eml : g.no = f.no
        BY <4>1
      <4>3. CASE s \in late
        BY <1>0, <4>2, <4>3 DEF OneChance
      <4>4. CASE s = script /\ call.pc = "script"
        BY <1>8, <1>14, <4>2, <4>4
      <4> QED
        BY <1>7, <4>3, <4>4
    <3> QED
      BY <3>1
  <2>4. CASE Same
    <3>1. Spent' = Spent
      BY <2>4 DEF Same, Spent
    <3>2. \A s \in late' : s.no \notin Spent
      BY <1>0, <1>7, <1>8, <1>13 DEF OneChance
    <3>3. \A f \in eml' : f.state # "imported" => f.no \notin Spent
      BY <1>0, <1>5, <1>13 DEF OneChance
    <3>4. \A i, j \in DOMAIN effects' : effects'[i].no = effects'[j].no => i = j
      BY <1>0, <2>4 DEF OneChance, Same
    <3> QED
      BY <1>1, <1>13, <2>1, <2>2, <2>3, <3>1, <3>2, <3>3, <3>4 DEF OneChance
  <2>5. CASE call.pc # "open" /\ late' = late /\ \E e : e.no = call.no /\ Grew(e)
    <3>1. PICK e : e.no = call.no /\ Grew(e)
      BY <2>5
    <3>2. /\ Spent' = Spent \cup {call.no}
          /\ \A i, j \in DOMAIN effects' : effects'[i].no = effects'[j].no => i = j
      BY <1>0, <1>13, <3>1, SpentAfter DEF OneChance
    <3>3. \A s \in late' : s.no \notin Spent'
      BY <1>0, <2>5, <3>2 DEF OneChance
    <3>4. \A f \in eml' : f.state # "imported" => f.no \notin Spent'
      <4>1. ASSUME NEW f \in eml', f.state # "imported" PROVE f.no \notin Spent'
        <5>1. f \in eml /\ f.no # call.no
          BY <1>5, <1>14, <2>5
        <5> QED
          BY <1>0, <3>2, <4>1, <5>1 DEF OneChance
      <4> QED
        BY <4>1
    <3> QED
      BY <1>1, <1>13, <2>1, <2>2, <2>3, <3>2, <3>3, <3>4 DEF OneChance
  <2> QED
    BY <1>6, <2>4, <2>5
<1>16. Young'
  <2>1. \A f \in eml' : f.no # 0
    BY <1>0, <1>1, <1>5, CallCases, NumbersTyped
  <2>2. \A f \in eml' : f.state = "opened" => f.at = clock
    <3>1. ASSUME NEW f \in eml', f.state = "opened" PROVE f.at = clock
      <4>1. CASE f \in eml
        BY <1>0, <3>1, <4>1 DEF Young
      <4>2. CASE \E g \in eml : g.no = call.no /\ f.at = g.at
        BY <1>14, <4>2
      <4> QED
        BY <1>5, <4>1, <4>2
    <3> QED
      BY <3>1
  <2> QED
    BY <1>1, <1>13, <2>1, <2>2 DEF Young
<1> QED
  BY <1>9, <1>10, <1>11, <1>12, <1>15, <1>16 DEF OutgoingInv

LEMMA FaultCounted ==
    ASSUME TypeOK, OutgoingAssumption, NEW k, Fault(k) \/ UNCHANGED faults
    PROVE  faults' \in 0..MaxFaults
BY TypeParts DEF OutgoingAssumption, Fault

\* jxa.call() of a running call.
LEMMA RunScriptStep ==
    ASSUME OutgoingInv, OutgoingAssumption, RunScript
    PROVE  OutgoingInv'
<1> DEFINE s == Script(call.no, KindOf(call.req), call.req)
<1>0. TypeOK /\ RunningFits
  BY DEF OutgoingInv, Gates
<1>1. call.pc = "script" /\ UNCHANGED <<eml, clock, readOnly, user>>
  BY DEF RunScript
<1>2. call # Idle /\ ScriptFits(s) /\ s.no = call.no /\ s.req = call.req
  BY <1>0, <1>1, CallCases DEF RunningFits, Script
<1>3. /\ drafts \in Seq(Subjects) /\ rules \in Seq(RuleType) /\ readOnly' \in BOOLEAN
  BY <1>0, <1>1, TypeParts
<1>4. \/ ~Throws(s) /\ Do(s) /\ End("ok") /\ UNCHANGED <<late, faults>>
      \/ Throws(s) /\ End("error") /\ UNCHANGED <<drafts, rules, effects, late, faults>>
      \/ Fault("fail") /\ End("error") /\ UNCHANGED <<drafts, rules, effects, late>>
      \/ /\ Fault("timeout") /\ End("error") /\ late' = late \cup {s}
         /\ UNCHANGED <<drafts, rules, effects>>
  BY DEF RunScript
<1> HIDE DEF s
<1>5. CASE ~Throws(s) /\ Do(s) /\ End("ok") /\ UNCHANGED <<late, faults>>
  <2>1. /\ drafts' \in Seq(Subjects) /\ rules' \in Seq(RuleType)
        /\ \/ Same /\ Silent(s.req)
           \/ \E e : e \in EffectType /\ EffectFits(e) /\ e.no = s.no /\ Grew(e)
    BY <1>0, <1>2, <1>5, ScriptActs
  <2>2. faults' \in 0..MaxFaults
    BY <1>0, <1>5, TypeParts
  <2>3. CallEnds("ok")
    BY <1>1, <1>2, <1>3, <1>5, <2>1, <2>2 DEF CallEnds
  <2> QED
    BY <2>3, CallEndsStep
<1>6. CASE /\ End("error") /\ UNCHANGED <<drafts, rules, effects>>
           /\ (\E k : Fault(k)) \/ UNCHANGED faults
           /\ late' = late \/ late' = late \cup {s}
  <2>1. faults' \in 0..MaxFaults
    BY <1>0, <1>6, FaultCounted
  <2>2. CallEnds("error")
    BY <1>1, <1>2, <1>3, <1>6, <2>1 DEF CallEnds, Same, s
  <2> QED
    BY <2>2, CallEndsStep
<1> QED
  BY <1>4, <1>5, <1>6

\* A POST that arrives is one thing its call was let through for.
LEMMA PostedFits ==
    ASSUME TypeOK, OutgoingAssumption, RunningFits, call # Idle, call.pc = "post", Posted
    PROVE  \E e : e \in EffectType /\ EffectFits(e) /\ e.no = call.no /\ Grew(e)
<1> DEFINE e == [no |-> call.no, kind |-> "posted", whole |-> TRUE]
<1>1. /\ call.no \in DOMAIN made
      /\ Passed(made[call.no]) /\ made[call.no].req = call.req /\ call.req.op = "unsubscribe"
  BY CallCases DEF RunningFits
<1>2. e \in EffectType /\ EffectFits(e) /\ e.no = call.no
  BY <1>1 DEF EffectType, Kinds, EffectFits, Passed
<1>3. Grew(e)
  BY DEF Posted, Grew
<1> HIDE DEF e
<1> QED
  BY <1>2, <1>3

\* _post_one_click() of a running call.
LEMMA PostStep ==
    ASSUME OutgoingInv, OutgoingAssumption, Post
    PROVE  OutgoingInv'
<1>0. TypeOK /\ RunningFits
  BY DEF OutgoingInv, Gates
<1>1. /\ call.pc = "post" /\ UNCHANGED <<drafts, rules, eml, clock, late, readOnly, user>>
      /\ \/ Posted /\ End("ok") /\ UNCHANGED faults
         \/ (\E k : Fault(k)) /\ End("error") /\ (Posted \/ UNCHANGED effects)
  BY DEF Post
<1>2. call # Idle
  BY <1>0, <1>1, CallCases
<1>3. /\ drafts' \in Seq(Subjects) /\ rules' \in Seq(RuleType) /\ readOnly' \in BOOLEAN
      /\ faults' \in 0..MaxFaults
  BY <1>0, <1>1, TypeParts, FaultCounted
<1>4. \E o \in {"ok", "error", "lost"} : CallEnds(o)
  <2>1. CASE Posted /\ (End("ok") \/ End("error"))
    <3>1. PICK e : e \in EffectType /\ EffectFits(e) /\ e.no = call.no /\ Grew(e)
      BY <1>0, <1>1, <1>2, <2>1, PostedFits
    <3> QED
      BY <1>1, <1>2, <1>3, <2>1, <3>1 DEF CallEnds
  <2>2. CASE UNCHANGED effects /\ End("error")
    <3>1. CallEnds("error")
      BY <1>1, <1>2, <1>3, <2>2 DEF CallEnds, Same
    <3> QED
      BY <3>1
  <2> QED
    BY <1>1, <2>1, <2>2
<1> QED
  BY <1>4, CallEndsStep

\* open -a Mail of a running call.
LEMMA OpenEmlStep ==
    ASSUME OutgoingInv, OutgoingAssumption, OpenEml
    PROVE  OutgoingInv'
<1>0. TypeOK /\ RunningFits
  BY DEF OutgoingInv, Gates
<1>1. /\ call.pc = "open"
      /\ UNCHANGED <<drafts, rules, clock, late, readOnly, effects, user>>
      /\ (\E k : Fault(k)) \/ UNCHANGED faults
      /\ Opened \/ UNCHANGED eml
      /\ End("ok") \/ End("error")
  BY DEF OpenEml
<1>2. call # Idle /\ AsHtml(call.req)
  BY <1>0, <1>1, CallCases DEF RunningFits
<1>3. /\ drafts' \in Seq(Subjects) /\ rules' \in Seq(RuleType) /\ readOnly' \in BOOLEAN
      /\ faults' \in 0..MaxFaults
  BY <1>0, <1>1, TypeParts, FaultCounted
<1>4. CallEnds("ok") \/ CallEnds("error")
  BY <1>1, <1>2, <1>3 DEF CallEnds, Same
<1> QED
  BY <1>4, CallEndsStep

\* The process ends between two calls, or with one.
LEMMA RestartStep ==
    ASSUME OutgoingInv, OutgoingAssumption, Restart
    PROVE  OutgoingInv'
<1>0. TypeOK
  BY DEF OutgoingInv
<1>1. /\ readOnly' \in BOOLEAN /\ Fault("restart")
      /\ \/ late' = late
         \/ /\ call.pc = "script"
            /\ late' = late \cup {Script(call.no, KindOf(call.req), call.req)}
      /\ (call.pc = "open" /\ Opened) \/ UNCHANGED eml
      /\ (call.pc = "post" /\ Posted) \/ UNCHANGED effects
      /\ IF call.pc = "idle" THEN UNCHANGED <<made, call>> ELSE End("lost")
      /\ UNCHANGED <<drafts, rules, clock, user>>
  BY DEF Restart
<1>2. /\ drafts' \in Seq(Subjects) /\ rules' \in Seq(RuleType) /\ faults' \in 0..MaxFaults
  BY <1>0, <1>1, TypeParts, FaultCounted
<1>3. CASE call.pc = "idle"
  <2>1. UNCHANGED <<drafts, rules, eml, clock, late, call, effects, made, user>>
    BY <1>1, <1>3
  <2>2. TypeOK'
    BY <1>0, <1>1, <1>2, <2>1 DEF TypeOK, RuleType
  <2> QED
    BY <2>1, <2>2 DEF OutgoingInv, Gates, RunningFits, ScriptFits, FileFits, EffectsFit,
       EffectFits, Honest, OneChance, Spent, Young
<1>4. CASE call.pc # "idle"
  <2>1. call # Idle
    BY <1>0, <1>4, CallCases
  <2>2. CallEnds("lost")
    <3>1. CASE UNCHANGED effects
      BY <1>1, <1>2, <1>4, <2>1, <3>1 DEF CallEnds, Same
    <3>2. CASE call.pc = "post" /\ Posted
      <4>1. \E e : e \in EffectType /\ EffectFits(e) /\ e.no = call.no /\ Grew(e)
        BY <1>0, <2>1, <3>2, PostedFits DEF OutgoingInv, Gates
      <4>2. late' = late /\ eml' = eml
        BY <1>1, <3>2
      <4> QED
        BY <1>1, <1>2, <1>4, <2>1, <3>2, <4>1, <4>2 DEF CallEnds
    <3> QED
      BY <1>1, <3>1, <3>2
  <2> QED
    BY <2>2, CallEndsStep
<1> QED
  BY <1>3, <1>4

\* The outbox is pruned and the call's file written; its chance is with the
\* call until the file is opened.
LEMMA WriteEmlStep ==
    ASSUME OutgoingInv, OutgoingAssumption, WriteEml
    PROVE  OutgoingInv'
<1> DEFINE new == [no |-> call.no, at |-> clock, state |-> "written"]
<1>0. TypeOK /\ Gates /\ RunningFits /\ EffectsFit /\ Honest /\ OneChance /\ Young
  BY DEF OutgoingInv, Gates
<1>1. /\ call.pc = "eml" /\ eml' = Kept \cup {new}
      /\ call' = [call EXCEPT !.pc = "open"]
      /\ UNCHANGED <<drafts, rules, clock, late, readOnly, effects, made, user, faults>>
  BY DEF WriteEml
<1>2. /\ call # Idle /\ call \in RunningType /\ call.no \in DOMAIN made /\ 0 \notin DOMAIN made
  BY <1>0, <1>1, CallCases
<1>3. /\ call' \in RunningType /\ call'.pc = "open" /\ call'.req = call.req /\ call'.no = call.no
  BY <1>1, <1>2 DEF RunningType
<1>4. call' # Idle
  BY <1>2, <1>3 DEF Idle
<1>5. Kept \subseteq eml /\ \A f \in Kept : f.no # call.no
  BY <1>0, <1>1 DEF Kept, Young
<1>6. Passed(made[call.no]) /\ AsHtml(made[call.no].req) /\ call.req = made[call.no].req
      /\ made[call.no].outcome = "running"
  BY <1>0, <1>1, <1>2 DEF RunningFits
<1>7. new.no = call.no /\ new.at = clock /\ new.state = "written" /\ new \in FileType
  <2>1. clock \in Nat
    BY <1>0, TypeParts DEF OutgoingAssumption
  <2> QED
    BY <1>2, <2>1 DEF FileType
<1> HIDE DEF new
<1>8. TypeOK'
  <2>1. eml' \subseteq FileType
    BY <1>0, <1>1, <1>5, <1>7, TypeParts
  <2> QED
    BY <1>0, <1>1, <1>3, <2>1 DEF TypeOK, FileType, RunningType
<1>9. Gates'
  <2>1. RunningFits'
    BY <1>1, <1>3, <1>6 DEF RunningFits, Passed, AsHtml
  <2>2. \A f \in eml' : FileFits(f)'
    BY <1>0, <1>1, <1>5, <1>6, <1>7 DEF Gates, FileFits
  <2> QED
    BY <1>0, <1>1, <2>1, <2>2 DEF Gates, ScriptFits
<1>10. EffectsFit' /\ Honest'
  BY <1>0, <1>1 DEF EffectsFit, EffectFits, Honest
<1>11. OneChance'
  <2>1. Spent' = Spent /\ call.no \notin Spent /\ \A s \in late : s.no # call.no
    BY <1>0, <1>1, <1>2 DEF Spent, OneChance
  <2>2. \A f, g \in eml' : f.no = g.no => f = g
    BY <1>0, <1>1, <1>5, <1>7 DEF OneChance
  <2>3. \A f \in eml' : f.state # "imported" => f.no \notin Spent
    BY <1>0, <1>1, <1>5, <1>7, <2>1 DEF OneChance
  <2>4. \A s \in late', f \in eml' : s.no # f.no
    BY <1>0, <1>1, <1>5, <1>7, <2>1 DEF OneChance
  <2> QED
    BY <1>0, <1>1, <1>3, <2>1, <2>2, <2>3, <2>4 DEF OneChance
<1>12. Young'
  BY <1>0, <1>1, <1>3, <1>5, <1>7 DEF Young
<1> QED
  BY <1>8, <1>9, <1>10, <1>11, <1>12 DEF OutgoingInv

\* Mail imports a file: the chance of its call is used.
LEMMA ImportStep ==
    ASSUME OutgoingInv, OutgoingAssumption, Import
    PROVE  OutgoingInv'
<1>0. TypeOK /\ Gates /\ RunningFits /\ EffectsFit /\ Honest /\ OneChance /\ Young
  BY DEF OutgoingInv, Gates
<1>1. PICK f \in eml :
        /\ f.state = "opened"
        /\ eml' = (eml \ {f}) \cup {[f EXCEPT !.state = "imported"]}
        /\ effects' = Append(effects, [no |-> f.no, kind |-> "window",
                                       whole |-> made[f.no].req.files = <<>>])
        /\ UNCHANGED <<drafts, rules, clock, late, readOnly, call, made, user, faults>>
  BY DEF Import
<1>16. PICK e : e = [no |-> f.no, kind |-> "window", whole |-> made[f.no].req.files = <<>>]
  OBVIOUS
<1> DEFINE g == [f EXCEPT !.state = "imported"]
<1>2. f \in FileType /\ f.no \in DOMAIN made
  BY <1>0, TypeParts DEF FileType
<1>3. g \in FileType /\ g.no = f.no /\ g.state = "imported" /\ g.at = f.at
  BY <1>2 DEF FileType
<1>4. e \in EffectType /\ e.no = f.no /\ e.kind = "window"
  BY <1>2, <1>16 DEF EffectType, Kinds
<1>5. Grew(e) /\ eml' = (eml \ {f}) \cup {g}
  BY <1>1, <1>16 DEF Grew
<1> HIDE DEF g
<1>6. Continues
  BY <1>0, <1>1, SameContinues
<1>7. EffectFits(e)
  <2>1. Passed(made[f.no]) /\ AsHtml(made[f.no].req)
    BY <1>0 DEF Gates, FileFits
  <2>2. ~made[f.no].readOnly
    BY <2>1 DEF Passed, AsHtml
  <2> QED
    BY <1>2, <1>4, <2>1, <2>2 DEF EffectFits, Passed
<1>8. EffectsFit' /\ effects' \in Seq(EffectType')
  <2>1. e \in EffectType' /\ EffectFits(e)'
    BY <1>4, <1>6, <1>7, FitsStay, WiderTypes
  <2> QED
    BY <1>0, <1>5, <1>6, <2>1, EffectsAfter
<1>9. TypeOK'
  <2>1. eml' \subseteq FileType'
    BY <1>0, <1>3, <1>5, <1>6, TypeParts, WiderTypes
  <2> QED
    BY <1>0, <1>1, <1>8, <2>1 DEF TypeOK, FileType, EffectType
<1>10. Gates'
  <2>1. \A h \in eml' : h.no \in DOMAIN made /\ FileFits(h)
    BY <1>0, <1>2, <1>3, <1>5, NumbersTyped DEF Gates, FileFits
  <2> QED
    BY <1>0, <1>1, <2>1 DEF Gates, RunningFits, ScriptFits, FileFits
<1>11. /\ Spent' = Spent \cup {f.no} /\ f.no \notin Spent
       /\ \A i, j \in DOMAIN effects' : effects'[i].no = effects'[j].no => i = j
       /\ \A no : (\E i \in DOMAIN effects : effects[i].no = no)
                     => \E i \in DOMAIN effects' : effects'[i].no = no
  <2>1. f.no \notin Spent
    BY <1>0, <1>1 DEF OneChance
  <2> QED
    BY <1>0, <1>4, <1>5, <2>1, SpentAfter DEF OneChance
<1>12. Honest'
  BY <1>0, <1>1, <1>6, <1>11, HonestStays
<1>13. f.no # call.no
  BY <1>0, <1>1 DEF Young
<1>14. OneChance'
  <2>1. \A s \in late' : s.no \notin Spent' /\ s.no # call'.no
    BY <1>0, <1>1, <1>11 DEF OneChance
  <2>2. \A h, k \in eml' : h.no = k.no => h = k
    BY <1>0, <1>3, <1>5 DEF OneChance
  <2>3. \A h \in eml' : h.state # "imported" => h.no \notin Spent'
    BY <1>0, <1>3, <1>5, <1>11 DEF OneChance
  <2>4. \A s \in late', h \in eml' : s.no # h.no
    BY <1>0, <1>1, <1>3, <1>5 DEF OneChance
  <2>5. \A s, t \in late' : s.no = t.no => s = t
    BY <1>0, <1>1 DEF OneChance
  <2>6. call' # Idle => call'.no \notin Spent'
    BY <1>0, <1>1, <1>11, <1>13 DEF OneChance
  <2> QED
    BY <1>11, <2>1, <2>2, <2>3, <2>4, <2>5, <2>6 DEF OneChance
<1>15. Young'
  BY <1>0, <1>1, <1>3, <1>5, <1>13 DEF Young
<1> QED
  BY <1>8, <1>9, <1>10, <1>12, <1>14, <1>15 DEF OutgoingInv

\* A script given up on takes its chance, or loses it.
LEMMA LandStep ==
    ASSUME OutgoingInv, OutgoingAssumption, Land
    PROVE  OutgoingInv'
<1>0. TypeOK /\ Gates /\ RunningFits /\ EffectsFit /\ Honest /\ OneChance /\ Young
  BY DEF OutgoingInv, Gates
<1>1. PICK s \in late :
        /\ late' = late \ {s}
        /\ IF Throws(s) THEN UNCHANGED mailVars ELSE Do(s)
        /\ UNCHANGED <<eml, clock, readOnly, call, made, user, faults>>
  BY DEF Land
<1>2. ScriptFits(s)
  BY <1>0 DEF Gates
<1>3. /\ drafts' \in Seq(Subjects) /\ rules' \in Seq(RuleType)
      /\ \/ Same
         \/ \E e : e \in EffectType /\ EffectFits(e) /\ e.no = s.no /\ Grew(e)
  <2>1. CASE Throws(s)
    <3>1. UNCHANGED <<drafts, rules, effects>>
      BY <1>1, <2>1 DEF mailVars
    <3> QED
      BY <1>0, <3>1, TypeParts DEF Same
  <2>2. CASE ~Throws(s)
    <3>1. Do(s)
      BY <1>1, <2>2
    <3> QED
      BY <1>0, <1>2, <2>2, <3>1, ScriptActs
  <2> QED
    BY <2>1, <2>2
<1>4. Continues
  BY <1>0, <1>1, SameContinues
<1>5. EffectsFit' /\ effects' \in Seq(EffectType')
  <2>1. \A e : e \in EffectType /\ EffectFits(e) => e \in EffectType' /\ EffectFits(e)'
    BY <1>4, FitsStay, WiderTypes
  <2> QED
    BY <1>0, <1>3, <1>4, <2>1, EffectsAfter
<1>6. TypeOK'
  BY <1>0, <1>1, <1>3, <1>5 DEF TypeOK, RuleType, EffectType
<1>7. Gates'
  BY <1>0, <1>1 DEF Gates, RunningFits, ScriptFits, FileFits
<1>8. /\ s.no \notin Spent /\ s.no # call.no
      /\ \A f \in eml : f.no # s.no
      /\ \A t \in late' : t \in late /\ t.no # s.no
  BY <1>0, <1>1 DEF OneChance
<1>9. /\ Spent' = Spent \/ Spent' = Spent \cup {s.no}
      /\ \A i, j \in DOMAIN effects' : effects'[i].no = effects'[j].no => i = j
      /\ \A no : (\E i \in DOMAIN effects : effects[i].no = no)
                    => \E i \in DOMAIN effects' : effects'[i].no = no
  <2>1. CASE Same
    BY <1>0, <2>1 DEF Same, Spent, OneChance
  <2>2. ASSUME NEW e, e.no = s.no, Grew(e)
        PROVE  /\ Spent' = Spent \cup {s.no}
               /\ \A i, j \in DOMAIN effects' : effects'[i].no = effects'[j].no => i = j
               /\ \A no : (\E i \in DOMAIN effects : effects[i].no = no)
                             => \E i \in DOMAIN effects' : effects'[i].no = no
    BY <1>0, <1>8, <2>2, SpentAfter DEF OneChance
  <2> QED
    BY <1>3, <2>1, <2>2
<1>10. Honest'
  BY <1>0, <1>1, <1>4, <1>9, HonestStays
<1>11. OneChance'
  <2>1. \A no : no \in Spent' => no \in Spent \/ no = s.no
    BY <1>9
  <2> QED
    BY <1>0, <1>1, <1>8, <1>9, <2>1 DEF OneChance
<1>12. Young'
  BY <1>0, <1>1 DEF Young
<1> QED
  BY <1>5, <1>6, <1>7, <1>10, <1>11, <1>12 DEF OutgoingInv

LEMMA OutgoingInit == OutgoingAssumption /\ Init => OutgoingInv
<1> SUFFICES ASSUME OutgoingAssumption, Init PROVE OutgoingInv
  OBVIOUS
<1>1. TypeOK
  BY DEF Init, TypeOK, OutgoingAssumption
<1>2. Gates /\ EffectsFit /\ Honest /\ Young
  BY DEF Init, Gates, RunningFits, EffectsFit, Honest, Young
<1>3. OneChance
  BY DEF Init, OneChance, Spent
<1> QED
  BY <1>1, <1>2, <1>3 DEF OutgoingInv

LEMMA OutgoingNext ==
    ASSUME OutgoingInv, OutgoingAssumption, [Next]_vars
    PROVE  OutgoingInv'
BY BeginStep, RunScriptStep, PostStep, WriteEmlStep, OpenEmlStep, ImportStep, LandStep,
   RestartStep, WorldStep DEF Next

LEMMA OutgoingAlways == Spec => []OutgoingInv
<1>1. Init => OutgoingInv
  BY OutgoingInit, OutgoingAssumption
<1>2. OutgoingInv /\ [Next]_vars => OutgoingInv'
  BY OutgoingNext, OutgoingAssumption
<1> QED
  BY <1>1, <1>2, PTL DEF Spec

-----------------------------------------------------------------------------
(***************************************************************************)
(* Theorems                                                                *)
(***************************************************************************)
\* Every variable keeps its type, whatever calls, users and failures do: a
\* draft or rule a script takes away is one that is there (manageDrafts,
\* deleteRule), and everything that happened belongs to a call.
THEOREM TypeCorrect == Spec => []TypeOK
<1>1. OutgoingInv => TypeOK
  BY DEF OutgoingInv
<1> QED
  BY <1>1, OutgoingAlways, PTL

\* A call acts at most once, however its scripts, posts and files fail, come
\* late or outlive the server, for any number of calls and failures: its one
\* chance to act is with itself, a script or a file, and never with two.
THEOREM ActsOnce == Spec => []OneEffectPerCall
<1>1. OutgoingInv => OneEffectPerCall
  <2> SUFFICES ASSUME OutgoingInv, NEW no \in DOMAIN made
               PROVE  Cardinality(EffectsOf(no)) <= 1
    BY DEF OneEffectPerCall
  <2>1. \A i, j \in EffectsOf(no) : i = j
    BY DEF OutgoingInv, OneChance, EffectsOf
  <2>2. CASE EffectsOf(no) = {}
    <3>1. Cardinality({}) = 0
      BY FS_EmptySet
    <3>2. Cardinality(EffectsOf(no)) = 0
      BY <2>2, <3>1, Zenon
    <3> QED
      BY <3>2
  <2>3. CASE EffectsOf(no) # {}
    <3>1. PICK i : i \in EffectsOf(no)
      BY <2>3
    <3>2. EffectsOf(no) = {i}
      BY <2>1, <3>1
    <3>3. Cardinality({i}) = 1
      BY FS_Singleton
    <3>4. Cardinality(EffectsOf(no)) = 1
      BY <3>2, <3>3, Zenon
    <3> QED
      BY <3>4
  <2> QED
    BY <2>2, <2>3
<1> QED
  BY <1>1, OutgoingAlways, PTL

\* What Mail or a list server was made to do passed the gates of its call when
\* it began, also when it happened after a restart (gate_nonbatch,
\* _require_writable, unsubscribe_from_sender).
THEOREM GatesHold == Spec => []OnlyAdmittedCallsAct
<1>1. OutgoingInv => OnlyAdmittedCallsAct
  BY DEF OutgoingInv, EffectsFit, EffectFits, OnlyAdmittedCallsAct, Acting
<1> QED
  BY <1>1, OutgoingAlways, PTL

\* Success is never reported of a call that did nothing, and nothing is sent
\* when one of its files was turned down by the server or by Mail, however many
\* files there are and whenever the script ends (_validate_attachments,
\* addAttachments, finalizeOutgoing).  Drafts opened as .eml files are excepted,
\* and so is whether Mail has loaded the good files.
THEOREM SuccessIsHonest == Spec => []SuccessMeansDone
<1>1. OutgoingInv => SuccessMeansDone
  BY DEF OutgoingInv, EffectsFit, EffectFits, Honest, SuccessMeansDone, EffectsOf
<1> QED
  BY <1>1, OutgoingAlways, PTL

\* Pruning the outbox never takes a file from Mail that Mail was given and has
\* not imported: such a file is as young as the clock (_prune_old_eml).
THEOREM OpenedFilesStay == Spec => FreshEmlSurvives
<1>1. OutgoingInv /\ [Next]_vars
      => [\A f \in eml : f.state = "opened" => \E g \in eml' : g.no = f.no]_vars
  <2> SUFFICES ASSUME OutgoingInv, Next, NEW f \in eml, f.state = "opened"
               PROVE  \E g \in eml' : g.no = f.no
    OBVIOUS
  <2>1. eml \subseteq FileType /\ clock \in Nat /\ f.at = clock
    BY OutgoingAssumption, TypeParts DEF OutgoingInv, Young, OutgoingAssumption
  <2>2. CASE WriteEml
    <3>1. f \in Kept
      BY <2>1, OutgoingAssumption DEF Kept, OutgoingAssumption
    <3> QED
      BY <2>2, <3>1 DEF WriteEml
  <2>3. CASE Opened
    <3> DEFINE h(g) == IF g.no = call.no THEN [g EXCEPT !.state = "opened"] ELSE g
    <3>1. h(f) \in eml' /\ h(f).no = f.no
      BY <2>1, <2>3 DEF Opened, FileType
    <3> QED
      BY <3>1
  <2>4. CASE Import
    <3>1. PICK g \in eml : eml' = (eml \ {g}) \cup {[g EXCEPT !.state = "imported"]}
      BY <2>4 DEF Import
    <3>2. [g EXCEPT !.state = "imported"].no = g.no
      BY <2>1 DEF FileType
    <3> QED
      BY <3>1, <3>2
  <2>5. CASE UNCHANGED eml
    BY <2>5
  <2>6. WriteEml \/ Opened \/ Import \/ UNCHANGED eml
    BY DEF Next, Begin, RunScript, Post, OpenEml, Tick, Land, User, Restart
  <2> QED
    BY <2>2, <2>3, <2>4, <2>5, <2>6
<1> QED
  BY <1>1, OutgoingAlways, PTL DEF Spec, FreshEmlSurvives
=============================================================================
