------------------------------ MODULE Analysis ------------------------------
(***************************************************************************)
(* What the agents make of one investigation (agents/): the evidence they  *)
(* record, the findings they draw from it, the graph, the hypotheses with  *)
(* their verdicts and the risk the report states, over the attempts of the *)
(* investigation.  An agent is one transaction and so one step.            *)
(*                                                                         *)
(* The agents run in the order of the planners.  Quotas, purges and what   *)
(* overlaps are the subject of EvidenceRecord, halts and follow-ups that   *)
(* of Execution.  An investigation is about one target at most, an address,*)
(* a domain, a URL or a text, and further indicators may stand in what was *)
(* submitted; no packet capture is attached, and the gaps that a triage    *)
(* states are left out.                                                    *)
(***************************************************************************)
EXTENDS Detection, Risk

CONSTANTS
  Lines,        \* observations the log parsers can make
  Submissions,  \* what may be there to be found (a bound)
  Indicators,   \* indicators there may be, each as the extraction records it
  Targets,      \* those an investigation may be about
  Lookups,      \* the feed's answers when these are asked about, by attempt
  Opinions,     \* classifications a model may return to triage
  MaxAttempts,  \* bound on the attempts
  MaxMisses     \* bound on the agents that fail, time out or are not planned

ASSUME AnalysisAssumption ==
  /\ Lookups \in [SUBSET Indicators -> [1..MaxAttempts -> Seq(Observations)]]
  /\ Lines \subseteq Observations /\ Indicators \subseteq Observations
  /\ Targets \subseteq Indicators
  /\ \A S \in Submissions : /\ S \subseteq Lines \cup Indicators
                           /\ Cardinality(S \cap Targets) <= 1
  /\ MaxAttempts \in Nat \ {0} /\ MaxMisses \in Nat

\* The feed lists nothing as harmless that the rules would object to, and an
\* answer about a target is about the same text as the rules' own look.  It need
\* not answer: a lookup may fail, and only the first fifteen names are asked about.
ASSUME FeedAssumption ==
  /\ \A o \in Observations :
       LET t == Data[o].subject
       IN t # None /\ t.listed # None =>
            /\ t.listed.status \in {"malicious", "benign"} /\ t.listed.score \in 0..100
            /\ t.listed.status = "benign" => ~t.lure /\ Mimicked(t) = <<>>
  /\ \A o \in Indicators : Data[o].subject # None
  /\ \A A \in SUBSET Indicators, n \in 1..MaxAttempts :
       \A i \in DOMAIN Lookups[A][n] : Data[Lookups[A][n][i]].kind = "threat_intel"
  /\ \A e \in Observations : Data[e].kind = "threat_intel" =>
       /\ Data[e].subject # None
       /\ \A o \in Targets : Data[e].indicator = Data[o].indicator =>
            Data[e].subject = Data[o].subject

\* The hypothesis agent's keywords.
Keywords == {"auth", "web", "priv", "threat"}

\* A model answers within the schema it is given.
ASSUME OpinionsAssumption ==
  \A opinion \in Opinions :
    /\ opinion.rule = "triage.classification" /\ opinion.severity \in Severities
    /\ opinion.confidence \in 0..100 /\ opinion.hints \subseteq Keywords

VARIABLES
  submission,  \* what there is to be found in the artifacts and the target
  evidence,    \* the observations recorded
  findings,    \* the findings, the oldest first
  edges,       \* entity_edges, each with the observation that asserts it
  hypotheses,  \* the hypotheses with their verdicts
  report,      \* the risk the last report states
  attempt, next, done, misses  \* done: the agents that succeeded this time

progressVars == <<attempt, next, done, misses>>
vars == <<submission, evidence, findings, edges, hypotheses, report, progressVars>>

Plan == <<"triage", "log_analysis", "mitre", "correlation", "reasoning",
          "hypothesis", "validation", "reporting">>
NoReport == [score |-> 0, severity |-> "none"]

\* Of the evidence of a finding it matters whether there is any; of its title
\* which of the hypothesis agent's keywords it has.
Finding(rule, class, severity, confidence, grounded, hints) ==
  [rule |-> rule, class |-> class, severity |-> severity,
   confidence |-> confidence, grounded |-> grounded, hints |-> hints]
Fact(rule) == <<Finding(rule, "fact", "info", 100, TRUE, {})>>
Note(rule) == <<Finding(rule, "inference", "info", 100, TRUE, {})>>
Gap == <<Finding("none", "unknown", "info", 100, FALSE, {})>>
When(condition, s) == IF condition THEN s ELSE <<>>

Init ==
  /\ submission \in Submissions
  /\ evidence = {} /\ findings = <<>> /\ edges = <<>> /\ hypotheses = <<>>
  /\ report = NoReport
  /\ attempt = 1 /\ next = 1 /\ done = {} /\ misses = 0

Turn(agent) == next <= Len(Plan) /\ Plan[next] = agent
Return ==
  /\ next' = next + 1 /\ done' = done \cup {Plan[next]}
  /\ UNCHANGED <<submission, attempt, misses>>

OfKind(S, kinds) == {o \in S : Data[o].kind \in kinds}
AuthKinds == {"auth_event", "privilege_event", "session_event"}
WebKinds  == {"web_request", "web_attack"}

-----------------------------------------------------------------------------
(* Triage: what the tools extract, the feed's answers, the rules about the  *)
(* target and a classification.                                             *)

Target == submission \cap Targets   \* at most one
Names(S) == {o \in S : Data[o].type # "text"}   \* a text is no indicator

\* The extraction returns the indicators that were not recorded before.  The feed
\* is asked about those and, in every attempt, about the target.
Extracted == Names(submission \cap Indicators) \ evidence
LookedUp == Extracted \cup Names(Target)
Answers == Lookups[LookedUp][attempt]
Flagged(o) ==
  Data[o].kind = "threat_intel" /\ Feed(Data[o].subject).status = "malicious"

\* What is new in the attempt; the answers are, as they carry the time of the lookup.
Collected == Extracted \cup Range(Answers)

\* The rules read a text as a URL.  A hit cites the answer about the target, or
\* else the first that was collected, whatever it says; which one of them is the
\* first makes no difference to any finding.
About(o) == {e \in Range(Answers) : Data[e].indicator = Data[o].indicator}
Basis(o) ==
  CASE About(o) # {} -> About(o)
    [] About(o) = {} /\ Collected # {} -> {CHOOSE e \in Collected : TRUE}
    [] OTHER -> {}
TargetHits ==
  UNION {UrlHits(Data[o].subject, Basis(o)) :
           o \in {t \in Target : Data[t].type # "ip"}}
\* A hit for which nothing was collected at all is refused by the store.
Ungrounded == \E h \in TargetHits : h.cites = {}

\* The rules' own classification.
Fallback ==
  LET severe == {h \in TargetHits : h.severity # "info"}
      Class(severity, confidence) ==
        [rule |-> "triage.deterministic_fallback", severity |-> severity,
         confidence |-> confidence, hints |-> {}]
  IN IF severe = {} THEN Class("info", IF TargetHits = {} THEN 85 ELSE 99)
     ELSE IF \E h \in severe : h.severity = "critical" THEN Class("critical", 95)
     ELSE Class("high", IF \E h \in severe : h.rule # "R-URL-003" THEN 95 ELSE 90)

\* An answer becomes a finding if it flags what was asked about, or if that
\* is the target itself.
Reputation(o) ==
  LET feed == Feed(Data[o].subject)
  IN CASE feed.status = "malicious" ->
            <<Finding("threat_intel.reputation", "fact", "high",
                      IF feed.score < 80 THEN 80 ELSE feed.score, TRUE, {"threat"})>>
       [] feed.status # "malicious" /\ \A t \in Target : o \notin About(t) -> <<>>
       [] feed.status = "benign" /\ \E t \in Target : o \in About(t) ->
            Fact("threat_intel.reputation")
       [] feed.status = "unknown" /\ \E t \in Target : o \in About(t) -> Gap

HintsOf(rule) ==
  CASE rule = "R-AUTH-001" -> {"auth"}
    [] rule \in {"R-WEB-001", "R-WEB-002", "R-WEB-003"} -> {"web"}
    [] OTHER -> {}
FromHit(h) ==
  Finding(h.rule, IF h.rule = "R-URL-000" THEN "fact" ELSE "inference",
          h.severity, h.confidence, TRUE, HintsOf(h.rule))
FromHits(hits) == LET s == Listed(hits) IN [i \in DOMAIN s |-> FromHit(s[i])]

Triage ==
  /\ Turn("triage") /\ ~Ungrounded
  /\ \E opinion \in Opinions \cup {Fallback} :
       LET class == IF Collected = {} THEN "hypothesis" ELSE "inference"
       IN findings' = findings
            \o (IF Collected = {} THEN Gap ELSE Fact("triage.ioc_inventory"))
            \o FoldLeft(LAMBDA s, o : s \o Reputation(o), <<>>, Answers)
            \o FromHits(TargetHits)
            \o <<Finding(opinion.rule, class, opinion.severity,
                         opinion.confidence, Collected # {}, opinion.hints)>>
  /\ evidence' = evidence \cup Collected
  /\ UNCHANGED <<edges, hypotheses, report>> /\ Return

-----------------------------------------------------------------------------
(* Log analysis, and the mapping of the rules to techniques.                *)

Lined(kinds) == OfKind(submission \cap Lines, kinds)

\* A parse fact needs lines that were not recorded before.
Groundless(kinds) == Lined(kinds) # {} /\ Lined(kinds) \subseteq evidence

LogAnalysis ==
  /\ Turn("log_analysis")
  /\ ~Groundless(AuthKinds) /\ ~Groundless(WebKinds)
  /\ evidence' = evidence \cup (submission \cap Lines)
  /\ findings' = findings
       \o When(Lined(AuthKinds) # {},
               Fact("parse_summary") \o FromHits(AuthHits(OfKind(evidence', AuthKinds))))
       \o When(Lined(WebKinds) # {},
               Fact("parse_summary") \o FromHits(WebHits(OfKind(evidence', WebKinds))))
       \o When(\E o \in submission \cap Lines : ~Dated(o), Gap)
       \o When(submission \cap Lines = {}, Gap)
  /\ UNCHANGED <<edges, hypotheses, report>> /\ Return

UrlRules == {"R-URL-001", "R-URL-002", "R-URL-003", "R-URL-004"}
MappedRules ==
  {"R-AUTH-001", "R-AUTH-002", "R-AUTH-003", "R-AUTH-004", "R-WEB-007", "R-WEB-008"}
  \cup UrlRules \cup {s[2] : s \in Signatures}

\* The first finding of each mapped rule, those of earlier attempts included.
Mitre ==
  /\ Turn("mitre")
  /\ LET Leads(i) == /\ findings[i].rule \in MappedRules
                     /\ \A j \in 1..i - 1 : findings[j].rule # findings[i].rule
         leads == Listed({i \in DOMAIN findings : Leads(i)})
     IN findings' = findings \o
          [k \in DOMAIN leads |->
             [findings[leads[k]] EXCEPT
                !.rule  = "mitre.mapping",
                !.class = "inference",
                !.hints = IF findings[leads[k]].rule = "R-AUTH-004"
                          THEN {"priv"} ELSE {}]]
  /\ UNCHANGED <<evidence, edges, hypotheses, report>> /\ Return

-----------------------------------------------------------------------------
(* Correlation: the graph.                                                  *)

Entity(type, value) == IF value = None THEN {} ELSE {<<type, value>>}
Ip(o)   == Entity("ip", Data[o].ip)
Host(o) == Entity("host", Data[o].host)
User(o) == Entity("user", Data[o].user)
Aim(o)  == Entity("user", Data[o].target)
Url(o)  == Entity("url", Data[o].path)
\* An answer about a URL names it as if it were a hash.
Named(o) ==
  CASE Data[o].kind = "ioc" -> Entity(Data[o].type, Data[o].indicator)
    [] Data[o].kind = "threat_intel" ->
         Entity(IF Data[o].type = "url" THEN "hash" ELSE Data[o].type,
                Data[o].indicator)
    [] OTHER -> {}
Join(S, relation, T) == S \X {relation} \X T

\* The references of an observation in their order; a name counts once.
Refs(o) == FoldLeft(LAMBDA acc, S : acc \o Listed(S \ Range(acc)), <<>>,
                    IF Data[o].kind \in AuthKinds
                    THEN <<Host(o), User(o), Ip(o), Aim(o)>>
                    ELSE <<Named(o), Ip(o), Url(o), User(o), Host(o)>>)

Stated(o) ==
  CASE Data[o].kind = "auth_event" ->
         Join(User(o), IF Data[o].outcome = "failure" THEN "FAILED_AUTH_TO"
                       ELSE "AUTHENTICATED_TO",
              IF Data[o].outcome = "neutral" THEN {} ELSE Host(o))
         \cup Join(Ip(o), "CONNECTED_FROM", Host(o))
         \cup Join(User(o), "ASSOCIATED_WITH", Aim(o) \ User(o))
    [] Data[o].kind \in WebKinds ->
         Join(Ip(o), "CONNECTED_FROM", Host(o)) \cup Join(Ip(o), "CONTACTED", Url(o))
         \cup Join(User(o), "AUTHENTICATED_TO", Host(o))
    [] Data[o].kind = "threat_intel" ->
         Join(Named(o), IF Flagged(o) THEN "FLAGGED_BY" ELSE "EVALUATED_BY", Host(o))
    [] OTHER -> {}

\* Two names that nothing else relates are associated.
Derived(o) ==
  IF Stated(o) = {} /\ Len(Refs(o)) = 2
  THEN {<<Refs(o)[1], "ASSOCIATED_WITH", Refs(o)[2]>>}
  ELSE Stated(o)

Asserted(S) == UNION {{<<e[1], e[2], e[3], o>> : e \in Derived(o)} : o \in S}

\* Slip: the edges of earlier attempts are not looked up.
CorrelateAgain ==
  /\ Turn("correlation")
  /\ edges' = edges \o Listed(Asserted(evidence))
  /\ findings' = findings \o
       When(\E o \in evidence : Refs(o) # <<>>, Note("correlation.graph_construction"))
  /\ UNCHANGED <<evidence, hypotheses, report>> /\ Return

Correlate ==
  /\ Turn("correlation")
  /\ edges' = edges \o Listed(Asserted(evidence) \ Range(edges))
  /\ findings' = findings \o
       When(\E o \in evidence : Refs(o) # <<>>, Note("correlation.graph_construction"))
  /\ UNCHANGED <<evidence, hypotheses, report>> /\ Return

-----------------------------------------------------------------------------
(* Reasoning: chains of at most three edges from an address to an account,  *)
(* of which at least one is suspicious.                                     *)

Suspicious(o) ==
  \/ Data[o].kind = "web_attack"
  \/ Flagged(o)
  \/ Data[o].kind \notin {"web_attack", "threat_intel"}
     /\ (Data[o].type = "sudo_command" \/ Data[o].outcome = "failure")

Prolonged(P) ==
  UNION {{Append(p, e) : e \in {f \in Range(edges) :
            /\ f[1] = Last(p)[3]
            /\ f[3] \notin {p[1][1]} \cup {p[i][3] : i \in DOMAIN p}}} : p \in P}
Trails ==
  LET one == {<<e>> : e \in {f \in Range(edges) : f[1][1] = "ip" /\ f[3] # f[1]}}
      two == Prolonged(one)
  IN one \cup two \cup Prolonged(two)
Chains == {p \in Trails : /\ Last(p)[3][1] = "user"
                          /\ \E i \in DOMAIN p : Suspicious(p[i][4])}

Chain == Finding("reasoning.attack_chain", "inference", "high", 90, TRUE, {})
Reason ==
  /\ Turn("reasoning")
  /\ findings' = findings \o
       (IF edges = <<>> THEN <<>>
        ELSE IF Chains = {}
        THEN <<Finding("reasoning.correlation_summary", "inference", "info", 85,
                       TRUE, {})>>
        ELSE LET n == Cardinality(Chains)
             IN [i \in 1..(IF n < 3 THEN n ELSE 3) |-> Chain])
  /\ UNCHANGED <<evidence, edges, hypotheses, report>> /\ Return

-----------------------------------------------------------------------------
(* Hypotheses and their validation.                                         *)

Loud == {f \in Range(findings) : f.severity # "info"}
Hints ==
  (UNION {f.hints : f \in Loud})
  \cup {"auth" : o \in {e \in OfKind(evidence, {"auth_event"}) :
                          Data[e].outcome = "failure"}}
  \cup {"web" : o \in OfKind(evidence, {"web_attack"})}
  \cup {"priv" : o \in {e \in evidence : Data[e].type = "sudo_command"}}
  \cup {"threat" : o \in {e \in evidence : Flagged(e)}}

\* What the hypotheses cite: the evidence of the loud findings, or any.
Citable == evidence # {} \/ \E f \in Loud : f.grounded

Conjecture(kind, contradicted) ==
  [kind |-> kind, status |-> "unresolved", contradicted |-> contradicted]

\* Two explanations that compete, with a finding that has to cite something,
\* or that nothing happened.
Hypothesise ==
  /\ Turn("hypothesis")
  /\ Hints # {} => Citable
  /\ IF findings = <<>> /\ evidence = {} THEN UNCHANGED <<findings, hypotheses>>
     ELSE IF Hints = {}
     THEN /\ hypotheses' = Append(hypotheses, Conjecture("baseline", FALSE))
          /\ UNCHANGED findings
     ELSE /\ hypotheses' = hypotheses \o
               <<Conjecture("intrusion", FALSE), Conjecture("benign", "priv" \in Hints)>>
          /\ findings' = Append(findings,
               Finding("hypothesis.generation", "inference", "medium",
                       IF Hints \cap {"priv", "web"} # {} THEN 85 ELSE 70,
                       TRUE, {}))
  /\ UNCHANGED <<evidence, edges, report>> /\ Return

Attacked ==
  \E o \in evidence :
    \/ Data[o].kind = "web_attack"
    \/ Data[o].kind = "auth_event" /\ Data[o].outcome = "failure"
    \/ Flagged(o)
Escalated ==
  \E o \in evidence :
    \/ Data[o].type = "sudo_command"
    \/ Data[o].kind = "auth_event" /\ Data[o].user = "root"

Verdict(h) ==
  CASE h.kind = "intrusion" /\ (Attacked \/ Escalated) -> "supported"
    [] h.kind # "intrusion" /\ (Attacked \/ Escalated \/ h.contradicted) -> "refuted"
    [] OTHER -> h.status

\* Every hypothesis is judged again, those of earlier attempts included.
Validate ==
  /\ Turn("validation")
  /\ hypotheses' = [i \in DOMAIN hypotheses |->
                      [hypotheses[i] EXCEPT !.status = Verdict(hypotheses[i])]]
  /\ findings' = findings \o
       When(\E i \in DOMAIN hypotheses :
              \/ Attacked \/ Escalated
              \/ hypotheses[i].kind # "intrusion" /\ hypotheses[i].contradicted,
            <<Finding("validation.hypothesis_review", "inference", "info", 95,
                      TRUE, {})>>)
  /\ UNCHANGED <<evidence, edges, report>> /\ Return

\* The report assesses the findings of every attempt.
Report ==
  /\ Turn("reporting")
  /\ report' = Assess(findings)
  /\ UNCHANGED <<evidence, findings, edges, hypotheses>> /\ Return

-----------------------------------------------------------------------------
(* An agent that fails leaves nothing behind.  Triage does when a rule      *)
(* fires and nothing was collected, log analysis when it has nothing new to *)
(* cite, and the hypothesis agent when it has nothing at all.               *)
Refused == \/ Turn("triage") /\ Ungrounded
           \/ Turn("log_analysis") /\ (Groundless(AuthKinds) \/ Groundless(WebKinds))
           \/ Turn("hypothesis") /\ Hints # {} /\ ~Citable
Miss ==
  /\ next <= Len(Plan)
  /\ \/ Refused /\ UNCHANGED misses
     \/ ~Refused /\ misses < MaxMisses /\ misses' = misses + 1
  /\ next' = next + 1
  /\ UNCHANGED <<submission, evidence, findings, edges, hypotheses, report,
                 attempt, done>>

\* An investigation of which an agent failed may be retried.
Retry ==
  /\ next > Len(Plan) /\ done # Range(Plan) /\ attempt < MaxAttempts
  /\ attempt' = attempt + 1 /\ next' = 1 /\ done' = {}
  /\ UNCHANGED <<submission, evidence, findings, edges, hypotheses, report, misses>>

Next == Triage \/ LogAnalysis \/ Mitre \/ Correlate \/ Reason \/ Hypothesise
        \/ Validate \/ Report \/ Miss \/ Retry
Spec == Init /\ [][Next]_vars

-----------------------------------------------------------------------------
\* Whatever is on record when the rules have been evaluated, the bursts they
\* find are the longest there are (see Detection).
BurstsAreFound == Turn("mitre") => BurstsAreLongest(evidence)

\* The graph says what the evidence asserts, each edge once, however often
\* the correlation ran and whatever a failed attempt left for it
\* (correlation.py:57, "for idempotency").
GraphIsDerived ==
  LET asserted == Asserted(evidence)
      drawn    == Range(edges)
  IN /\ Cardinality(drawn) = Len(edges)
     /\ drawn \subseteq asserted
     /\ "correlation" \in done => drawn = asserted

\* What the rules object to.
Alarm(f) == f.rule \in MappedRules /\ Rank(f.severity) >= 2

\* An answer of the feed about the target is on record.
Heard ==
  \A o \in Target : \E e \in evidence :
    Data[e].kind = "threat_intel" /\ Data[e].indicator = Data[o].indicator

\* The validation and the rules agree, though the rules read the lines and the
\* target and the validation reads the evidence, the feed's answers among it:
\* once a validation has run, no harmless explanation is left standing beside
\* a finding of the rules that is MEDIUM or worse, nor beside an intrusion
\* that is supported, in the hypotheses of any attempt (validation.py:54-113;
\* url_rules.py inspects a target twice, for the feed and for the rules).
\* Findings about a target of which the feed was never heard are excepted: such a
\* hit cites another indicator's evidence (triage.py:225), the validation does not
\* read findings, and the baseline may stand, unresolved, beside a HIGH one.
VerdictsAgree ==
  "validation" \in done =>
    LET alarmed == \E i \in DOMAIN findings :
                     /\ Alarm(findings[i])
                     /\ findings[i].rule \in UrlRules => Heard
    IN \A i \in DOMAIN hypotheses :
      /\ alarmed => hypotheses[i].status # "unresolved"
      /\ hypotheses[i].kind # "intrusion" /\ hypotheses[i].status # "refuted" =>
           \A j \in DOMAIN hypotheses : hypotheses[j].status # "supported"

\* The score a report states is a score; a model moves it by half the scale
\* at most, and a CRITICAL of the rules keeps it at 50, or at 80 where their
\* score reached 80, whatever the model thinks (risk.py:182-190).
RiskIsHeld ==
  "reporting" \in done =>
    LET score == Deterministic(findings)
        high  == RollUp(findings).top = 4 /\ Decisions(findings) # {}
    IN /\ report.score \in 0..100
       /\ 2 * (score - report.score) <= 100 /\ 2 * (report.score - score) <= 100
       /\ Decisions(findings) = {} => report.score = score
       /\ high => report.score >= 50
       /\ high /\ score >= 80 => report.score >= 80
=============================================================================
