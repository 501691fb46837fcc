----------------------------- MODULE Detection -----------------------------
(***************************************************************************)
(* The detection rules over recorded observations: authentication          *)
(* (core/detection/auth_rules.py) and web (core/detection/web_rules.py),   *)
(* and those over a target, with the feed's view of it (url_rules.py).     *)
(* They are pure functions; this module holds no state.  A rule's hit is   *)
(* its id, its severity, its confidence in percent and the observations it *)
(* cites; titles, wording and the cap of 25 citations are left out.        *)
(***************************************************************************)
EXTENDS Integers, FiniteSets, Sequences, SequencesExt

CONSTANTS
  Observations,   \* what can be recorded as evidence
  Data,           \* the fields of each observation
  None,           \* a field that is absent, a timestamp included
  MinFailures,    \* bruteforce_min_failures
  Window,         \* bruteforce_window_seconds
  Linger,         \* _SUCCESS_CORRELATION_SECONDS
  MinUsers,       \* _ENUMERATION_MIN_USERS
  MinErrors,      \* min_scan_errors
  ErrorWindow     \* scan_window_seconds

ASSUME ThresholdsAssumption ==
  /\ MinFailures \in Nat \ {0, 1} /\ MinUsers \in Nat \ {0}
  /\ MinErrors \in Nat \ {0}
  /\ Window \in Nat /\ Linger \in Nat /\ ErrorWindow \in Nat

Hit(rule, severity, confidence, cites) ==
  [rule |-> rule, severity |-> severity, confidence |-> confidence,
   cites |-> cites]

FailureTypes == {"auth_failure", "invalid_user", "max_auth_attempts"}

\* The parsers' own account of a line: a failure is an authentication event, a
\* name that does not exist comes with one, and a request with a payload is an
\* attack.
ASSUME ObservationsAssumption ==
  /\ IsFiniteSet(Observations)
  /\ \A o \in Observations :
       /\ Data[o].time # None => Data[o].time \in Int
       /\ Data[o].type \in FailureTypes =>
            Data[o].kind = "auth_event" /\ Data[o].outcome = "failure"
       /\ Data[o].invalid => Data[o].type \in FailureTypes
       /\ Data[o].attacks \notin {None, {}} => Data[o].kind = "web_attack"

Dated(e) == Data[e].time # None
Addresses(S) == {Data[e].ip : e \in S} \ {None}
Earlier(d, e) == Data[d].time < Data[e].time
Listed(S) == FoldSet(LAMBDA e, s : Append(s, e), <<>>, S)
\* Ordered by time, those of one instant in any order.
InOrder(S) ==
  CHOOSE s \in [1..Cardinality(S) -> S] :
    \A i, j \in DOMAIN s : i < j => s[i] # s[j] /\ ~Earlier(s[j], s[i])
First(S) == CHOOSE e \in S : \A d \in S : ~Earlier(d, e)

-----------------------------------------------------------------------------
(* Authentication.                                                          *)

Failures(S, ip) ==
  {e \in S : Data[e].type \in FailureTypes /\ Data[e].ip = ip /\ Dated(e)}

\* Slip: a failure at the very edge of the window is left behind.
SlideShort(ordered, acc, end) ==
  LET Age(s) == Data[ordered[end]].time - Data[ordered[s]].time
      start  == CHOOSE s \in acc.start..end :
                  (s = end \/ Age(s) < Window)
                  /\ \A r \in acc.start..s - 1 : Age(r) >= Window
      span   == SubSeq(ordered, start, end)
  IN [start |-> start,
      best  |-> IF Len(span) >= MinFailures /\ Len(span) > Len(acc.best)
                THEN span ELSE acc.best]

\* One step of the sliding window over the failures of an address, in order:
\* the left edge moves up to the window's width and the longest span is kept.
Slide(ordered, acc, end) ==
  LET Age(s) == Data[ordered[end]].time - Data[ordered[s]].time
      start  == CHOOSE s \in acc.start..end :
                  Age(s) <= Window /\ \A r \in acc.start..s - 1 : Age(r) > Window
      span   == SubSeq(ordered, start, end)
  IN [start |-> start,
      best  |-> IF Len(span) >= MinFailures /\ Len(span) > Len(acc.best)
                THEN span ELSE acc.best]

Burst(S, ip) ==
  LET ordered == InOrder(Failures(S, ip))
  IN Range(FoldLeft(LAMBDA acc, end : Slide(ordered, acc, end),
                    [start |-> 1, best |-> <<>>],
                    [i \in 1..Len(ordered) |-> i]).best)

\* The earliest success from the address between the first failure of the
\* burst and an hour after its last; as a set of at most one.
FirstSuccess(S, ip, burst) ==
  LET related == {e \in S :
        /\ Data[e].type = "auth_success" /\ Data[e].ip = ip /\ Dated(e)
        /\ \E d \in burst : Data[d].time <= Data[e].time
        /\ \E d \in burst : Data[e].time <= Data[d].time + Linger}
  IN IF related = {} THEN {} ELSE {First(related)}

Sieged(S) == {ip \in Addresses(S) : Burst(S, ip) # {}}
Breached(S) == {ip \in Sieged(S) : FirstSuccess(S, ip, Burst(S, ip)) # {}}
Entry(S, ip) == First(FirstSuccess(S, ip, Burst(S, ip)))

Probing(S, ip) ==  \* attempts on accounts that do not exist, one per name
  {e \in S : Data[e].invalid /\ Data[e].ip = ip /\ Data[e].user # None}
ProbedUsers(S, ip) == {Data[e].user : e \in Probing(S, ip)}
Enumerations(S) ==
  {Hit("R-AUTH-003", "medium", 85,
       {CHOOSE e \in Probing(S, ip) : Data[e].user = u : u \in ProbedUsers(S, ip)}) :
     ip \in {a \in Addresses(S) : Cardinality(ProbedUsers(S, a)) >= MinUsers}}

\* Commands as root of an account whose login was breached, whichever came
\* first; the hit cites the command and that login.
Breaches(S, user) == {ip \in Breached(S) : Data[Entry(S, ip)].user = user}
Commands(S) ==
  {e \in S : /\ Data[e].type = "sudo_command" /\ Data[e].target = "root"
             /\ Data[e].user # None /\ Breaches(S, Data[e].user) # {}}
Escalations(S) ==
  {Hit("R-AUTH-004", "high", 70,
       {e, Entry(S, CHOOSE ip \in Breaches(S, Data[e].user) : TRUE)}) :
     e \in Commands(S)}

AuthHits(S) ==
  {Hit("R-AUTH-001", "medium", 90, Burst(S, ip)) : ip \in Sieged(S)}
  \cup {Hit("R-AUTH-002", "high", 75, Burst(S, ip) \cup {Entry(S, ip)}) :
          ip \in Breached(S)}
  \cup Enumerations(S) \cup Escalations(S)

-----------------------------------------------------------------------------
(* Web requests.                                                            *)

Signatures ==
  {<<"sqli", "R-WEB-001", "high", 95>>, <<"traversal", "R-WEB-002", "high", 95>>,
   <<"command_injection", "R-WEB-003", "critical", 95>>,
   <<"webshell", "R-WEB-004", "high", 90>>,
   <<"sensitive_file", "R-WEB-005", "medium", 90>>,
   <<"scanner", "R-WEB-006", "medium", 95>>}
Exploits == {"sqli", "traversal", "command_injection", "webshell"}

Requests(S, ip) == {e \in S : Data[e].attacks # None /\ Data[e].ip = ip}
Attacks(S, ip, category) == {e \in Requests(S, ip) : category \in Data[e].attacks}
Answered2xx(S, ip) ==
  {e \in Requests(S, ip) :
     Data[e].attacks \cap Exploits # {} /\ Data[e].status \in 200..299}

\* The first window of errors that is full; too few dated ones are made up
\* for by those without a timestamp.
Errors(S, ip) == {e \in Requests(S, ip) : Data[e].status >= 400}
WindowFrom(S, e) == {d \in S : Data[d].time \in Data[e].time..Data[e].time + ErrorWindow}
ErrorBurst(S, ip) ==
  LET errors == Errors(S, ip)
      dated  == {e \in errors : Dated(e)}
      starts == {e \in dated : Cardinality(WindowFrom(dated, e)) >= MinErrors}
  IN IF Cardinality(dated) < MinErrors
     THEN IF Cardinality(errors) < MinErrors THEN {}
          ELSE CHOOSE T \in SUBSET errors : Cardinality(T) = MinErrors
     ELSE IF starts = {} THEN {} ELSE WindowFrom(dated, First(starts))

WebHits(S) ==
  (UNION {{Hit(s[2], s[3], s[4], Attacks(S, ip, s[1])) :
             s \in {t \in Signatures : Attacks(S, ip, t[1]) # {}}} :
          ip \in Addresses(S)})
  \cup {Hit("R-WEB-007", "low", 85, ErrorBurst(S, ip)) :
          ip \in {a \in Addresses(S) : ErrorBurst(S, a) # {}}}
  \cup {Hit("R-WEB-008", "critical", 90, Answered2xx(S, ip)) :
          ip \in {a \in Addresses(S) : Answered2xx(S, a) # {}}}

-----------------------------------------------------------------------------
(***************************************************************************)
(* URLs and domains.  Of a target it matters what the feed lists it as (or *)
(* None), whether it has a host and whether that is a verified service's,  *)
(* whether a lure is in its text, and of each brand, in the order of the   *)
(* table, whether its pattern matches (typo), and whether the host has its *)
(* name in it (named) and belongs to it (own).                             *)
(***************************************************************************)
Mimicked(t) == SelectSeq(t.brands, LAMBDA b : b.typo \/ (b.named /\ ~b.own))

\* Slip: the lures are looked for in the host alone.
InspectHost(t) ==
  CASE t.host /\ t.verified -> [status |-> "benign", score |-> 0]
    [] t.host /\ ~t.verified /\ Mimicked(t) # <<>> ->
         [status |-> "malicious", score |-> IF t.lure THEN 95 ELSE 90]
    [] OTHER -> [status |-> "unknown", score |-> None]

Inspect(t) ==
  CASE t.host /\ t.verified -> [status |-> "benign", score |-> 0]
    [] t.host /\ ~t.verified /\ Mimicked(t) # <<>> ->
         [status |-> "malicious", score |-> IF t.lure THEN 95 ELSE 90]
    [] t.host /\ ~t.verified /\ Mimicked(t) = <<>> /\ t.lure ->
         [status |-> "malicious", score |-> 85]
    [] OTHER -> [status |-> "unknown", score |-> None]

\* What the lookup answers: what the feed lists, or what the inspection says.
Feed(t) == IF t.listed # None THEN t.listed ELSE Inspect(t)

\* A verified service has no other hit.
UrlHits(t, cites) ==
  LET lookalike == ~t.verified /\ Mimicked(t) # <<>>
      lured     == ~t.verified /\ t.lure
      fired ==
        {<<t.verified, "R-URL-000", "info", 100>>,
         <<lookalike /\ Head(Mimicked(t)).typo, "R-URL-001", "high", 95>>,
         <<lookalike /\ ~Head(Mimicked(t)).typo, "R-URL-002", "high", 95>>,
         <<lured, "R-URL-003", "high", 90>>,
         <<lookalike /\ lured, "R-URL-004", "critical", 95>>}
  IN {Hit(r[2], r[3], r[4], cites) : r \in {q \in fired : t.host /\ q[1]}}

-----------------------------------------------------------------------------
(***************************************************************************)
(* Reference: what a burst is, said without an algorithm.                  *)
(***************************************************************************)
Dense(D, width) == \A d, e \in D : Data[e].time - Data[d].time <= width

\* The sliding window finds a burst exactly where some failures of an address
\* lie within the window, and no denser run of them was overlooked; a run of
\* dated errors that is long enough is found as well, wherever it starts
\* (_find_failure_bursts, auth_rules.py:136-164; _find_error_bursts,
\* web_rules.py:277-310).
BurstsAreLongest(S) ==
  \A ip \in Addresses(S) :
    /\ LET burst == Burst(S, ip)
       IN /\ burst \subseteq Failures(S, ip) /\ Dense(burst, Window)
          /\ burst # {} => Cardinality(burst) >= MinFailures
          /\ \A D \in SUBSET Failures(S, ip) :
               Cardinality(D) >= MinFailures /\ Dense(D, Window) =>
                 Cardinality(D) <= Cardinality(burst)
    /\ \A D \in SUBSET {e \in Errors(S, ip) : Dated(e)} :
         Cardinality(D) >= MinErrors /\ Dense(D, ErrorWindow) =>
           ErrorBurst(S, ip) # {}
=============================================================================
