---------------------------- MODULE MCAnalysis ----------------------------
(* A small intrusion: three failed logins of which any two neighbours are a  *)
(* burst, the first two just so; a login that succeeds, its session and a    *)
(* command as root; requests with an exploit, with a payload that is         *)
(* rejected and with none, the last undated.  Any part of it may be missing, *)
(* but there is no session without its login; the target is an address the   *)
(* feed lists, or none.  With little or nothing to be found in logs, the     *)
(* target is a URL, a domain or a text that resembles one; beside some of    *)
(* them an address is named that the feed does not list.  The first lookup   *)
(* of one target fails.                                                      *)
EXTENDS Analysis

CONSTANTS f1, f2, f3, login, session, sudo, exploit, rejected, missing,
          address, phish, phishHost, bait, baitHost, spoof, service, serviceHost, text,
          resolver

Blank == [kind |-> "ioc", type |-> "none", outcome |-> "neutral", time |-> None,
          ip |-> None, host |-> None, user |-> None, target |-> None,
          path |-> None, invalid |-> FALSE, attacks |-> None, status |-> 0,
          indicator |-> None, subject |-> None]

Auth(type, outcome, time) ==
  [Blank EXCEPT !.kind = "auth_event", !.type = type, !.outcome = outcome,
                !.time = time, !.ip = address, !.host = "web", !.user = "alice"]
Shell(kind, type) ==
  [Blank EXCEPT !.kind = kind, !.type = type, !.outcome = "success", !.time = 30,
                !.host = "web", !.user = "alice"]
Web(attacks, status, time) ==
  [Blank EXCEPT !.kind = IF attacks = {} THEN "web_request" ELSE "web_attack",
                !.time = time, !.ip = address, !.path = "index",
                !.attacks = attacks, !.status = status]
\* The first brand is the owner of two of the sites and has its name in a third;
\* the second is misspelt by three.  Hosts never lure, their paths do.
Site(name) ==
  [listed   |-> IF name = address THEN [status |-> "malicious", score |-> 95] ELSE None,
   host     |-> TRUE,
   verified |-> name \in {service, serviceHost},
   lure     |-> name \in {phish, bait, service},
   brands   |-> <<[typo  |-> FALSE,
                   named |-> name \in {service, serviceHost, bait, baitHost, spoof},
                   own   |-> name \in {service, serviceHost, bait, baitHost}],
                  [typo  |-> name \in {phish, phishHost, spoof, text},
                   named |-> FALSE, own |-> FALSE]>>]
Type(name) ==
  CASE name \in {address, resolver} -> "ip" [] name = text -> "text"
    [] name \in {phish, bait, service} -> "url" [] OTHER -> "domain"

Log == {f1, f2, f3, login, session, sudo, exploit, rejected, missing}
Sites == {phish, bait, spoof, service, text}
Response == {address, phish, phishHost, bait, baitHost, spoof, service, serviceHost, resolver}
            \X {1, 2}   \* about whom, and in which attempt
Recordable == Log \cup Indicators \cup Response

Recorded ==
  [o \in Recordable |->
     CASE o = f1 -> Auth("auth_failure", "failure", 0)
       [] o = f2 -> [Auth("invalid_user", "failure", 10) EXCEPT !.invalid = TRUE]
       [] o = f3 -> Auth("auth_failure", "failure", 12)
       [] o = login -> Auth("auth_success", "success", 20)
       [] o = session -> Shell("session_event", "session_opened")
       [] o = sudo -> [Shell("privilege_event", "sudo_command") EXCEPT !.target = "root"]
       [] o = exploit -> Web({"command_injection"}, 200, 40)
       [] o = rejected -> Web({"sqli"}, 404, 45)
       [] o = missing -> Web({}, 404, None)
       [] o \in Indicators ->
            [Blank EXCEPT !.type = Type(o), !.indicator = o, !.subject = Site(o)]
       [] o \in Response ->
            [Blank EXCEPT !.kind = "threat_intel", !.type = Type(o[1]),
                          !.indicator = o[1], !.subject = Site(o[1]),
                          !.time = 1000 * o[2], !.host = "feed"]]

Parts ==
  {S \in SUBSET (Log \cup {address}) : S \cap {session, sudo} # {} => login \in S}
  \cup {{o} \cup L : o \in Sites, L \in {{}, {f1, f2, login, session}}}
  \cup {{o, resolver} \cup L : o \in {text, service}, L \in {{}, {f1, f2, login, session}}}
AnswersTo(o, n) ==
  CASE o = phish   -> <<<<phishHost, n>>, <<phish, n>>>>
    [] o = bait    -> <<<<baitHost, n>>, <<bait, n>>>>
    [] o = service -> <<<<serviceHost, n>>, <<service, n>>>>
    [] o = spoof   -> IF n = 1 THEN <<>> ELSE <<<<o, n>>>>
    [] o = text    -> <<>>
    [] o \in {address, resolver} -> <<<<o, n>>>>
Responses ==
  [A \in SUBSET Indicators |->
     [n \in {1, 2} |-> FoldSet(LAMBDA o, s : s \o AnswersTo(o, n), <<>>, A)]]
Verdicts ==
  {[rule |-> "triage.classification", severity |-> "info", confidence |-> 60, hints |-> {}],
   [rule |-> "triage.classification", severity |-> "critical", confidence |-> 90,
    hints |-> {"auth"}]}
=============================================================================
