---------------------------- MODULE ModelRouter ----------------------------
(***************************************************************************)
(* ModelRouter.complete (core/llm/router.py): calls that ask the models of *)
(* a routing rule in turn, repair answers that do not fit the schema, and  *)
(* trace themselves in llm_calls, whose tokens are held against a ceiling. *)
(*                                                                         *)
(* A call runs inside the session of its caller.  A triage catches every   *)
(* exception and goes on with heuristics; the handler of a summary does    *)
(* not, so its session rolls back.  Sessions are those of EvidenceRecord,  *)
(* of which only the end matters here: what commits, and what does not.    *)
(***************************************************************************)
EXTENDS Integers, Sequences, FiniteSetsExt

CONSTANTS
  Calls,       \* calls of complete for one investigation
  Triages,     \* those made by a triage; the others are made for a summary
  Models,
  Served,      \* models whose provider is registered
  Rules,       \* candidate lists the policy may hold
  Retries,     \* schema_retries
  Ceiling,     \* max_investigation_tokens
  Usage,       \* the tokens an answer may take
  Nobody

ASSUME RouterAssumption ==
  /\ IsFiniteSet(Calls) /\ Triages \subseteq Calls
  /\ Served \subseteq Models /\ Nobody \notin Models
  /\ Rules \subseteq Seq(Models)
  /\ Retries \in Nat /\ Ceiling \in Nat
  /\ Usage \subseteq Nat

VARIABLES
  at,          \* where each call and the session around it stand
  rule,        \* the candidates of the call
  cand,        \* the number of the one being asked
  left,        \* retries_remaining
  from,        \* fallback_from
  asked,       \* what was asked of the providers and what came of it
  pending,     \* the llm_calls row the session holds
  llm_calls    \* the rows committed

vars == <<at, rule, cand, left, from, asked, pending, llm_calls>>

NoRow == [model |-> Nobody, from |-> Nobody, tokens |-> 0, schema_valid |-> FALSE]

Init ==
  /\ at = [c \in Calls |-> "new"]
  /\ rule = [c \in Calls |-> <<>>]
  /\ cand = [c \in Calls |-> 1]
  /\ left = [c \in Calls |-> 0]
  /\ from = [c \in Calls |-> Nobody]
  /\ asked = [c \in Calls |-> <<>>]
  /\ pending = [c \in Calls |-> NoRow]
  /\ llm_calls = {}

Goto(c, place) == at' = [at EXCEPT ![c] = place]

\* SUM(tokens_in + tokens_out) over the rows of the investigation.
Recorded == MapThenSumSet(LAMBDA trace : trace.row.tokens, llm_calls)

\* Slip: the ceiling may be used up.
BeginAtCeiling(c) ==
  /\ at[c] = "new" /\ Recorded <= Ceiling
  /\ \E candidates \in Rules : rule' = [rule EXCEPT ![c] = candidates]
  /\ left' = [left EXCEPT ![c] = Retries]
  /\ Goto(c, "asking")
  /\ UNCHANGED <<cand, from, asked, pending, llm_calls>>

\* The sum is read once, before the first candidate.
Begin(c) ==
  /\ at[c] = "new" /\ Recorded < Ceiling
  /\ \E candidates \in Rules : rule' = [rule EXCEPT ![c] = candidates]
  /\ left' = [left EXCEPT ![c] = Retries]
  /\ Goto(c, "asking")
  /\ UNCHANGED <<cand, from, asked, pending, llm_calls>>

\* BudgetExceededError, which nothing traces.
OverBudget(c) ==
  /\ at[c] = "new" /\ Recorded >= Ceiling
  /\ Goto(c, "raised")
  /\ UNCHANGED <<rule, cand, left, from, asked, pending, llm_calls>>

AtCandidate(c) == at[c] = "asking" /\ cand[c] <= Len(rule[c])
Candidate(c)   == rule[c][cand[c]]
Asking(c)      == AtCandidate(c) /\ Candidate(c) \in Served

Unserved(c) ==
  /\ AtCandidate(c)
  /\ Candidate(c) \notin Served
  /\ cand' = [cand EXCEPT ![c] = @ + 1]
  /\ UNCHANGED <<at, rule, left, from, asked, pending, llm_calls>>

Hears(c, got, n) == asked' = [asked EXCEPT ![c] = Append(@, [by |-> cand[c], got |-> got, tokens |-> n])]

\* _record_trace: the row is flushed, the session around it commits later.
Trace(c, n, valid) ==
  pending' = [pending EXCEPT ![c] = [model |-> Candidate(c), from |-> from[c],
                                     tokens |-> n, schema_valid |-> valid]]

Valid(c) ==
  /\ Asking(c)
  /\ \E n \in Usage : Hears(c, "valid", n) /\ Trace(c, n, TRUE)
  /\ Goto(c, "answered")
  /\ UNCHANGED <<rule, cand, left, from, llm_calls>>

\* The same model is asked again, with its answer and the error.
Repair(c) ==
  /\ Asking(c) /\ left[c] > 0
  /\ \E n \in Usage : Hears(c, "invalid", n)
  /\ left' = [left EXCEPT ![c] = @ - 1]
  /\ UNCHANGED <<at, rule, cand, from, pending, llm_calls>>

\* Slip: the next candidate may do better.
UnrepairedFallsBack(c) ==
  /\ Asking(c) /\ left[c] = 0
  /\ \E n \in Usage : Hears(c, "invalid", n)
  /\ cand' = [cand EXCEPT ![c] = @ + 1]
  /\ left' = [left EXCEPT ![c] = Retries]
  /\ UNCHANGED <<at, rule, from, pending, llm_calls>>

\* SchemaValidationFailed: traced without a response, so without its tokens.
Unrepaired(c) ==
  /\ Asking(c) /\ left[c] = 0
  /\ \E n \in Usage : Hears(c, "invalid", n)
  /\ Trace(c, 0, FALSE)
  /\ Goto(c, "raised")
  /\ UNCHANGED <<rule, cand, left, from, llm_calls>>

\* ProviderRefused or ProviderAuthError.
Denied(c) ==
  /\ Asking(c)
  /\ Hears(c, "denied", 0)
  /\ Trace(c, 0, TRUE)
  /\ Goto(c, "raised")
  /\ UNCHANGED <<rule, cand, left, from, llm_calls>>

\* Slip: the first failure is remembered, not the last.
FallsBackFromFirst(c) ==
  /\ Asking(c)
  /\ Hears(c, "down", 0)
  /\ from' = [from EXCEPT ![c] = IF @ = Nobody THEN Candidate(c) ELSE @]
  /\ cand' = [cand EXCEPT ![c] = @ + 1]
  /\ left' = [left EXCEPT ![c] = Retries]
  /\ UNCHANGED <<at, rule, pending, llm_calls>>

\* can_fallback: quota, rate limit, a 5xx, a network error or a timeout.
FallsBack(c) ==
  /\ Asking(c)
  /\ Hears(c, "down", 0)
  /\ from' = [from EXCEPT ![c] = Candidate(c)]
  /\ cand' = [cand EXCEPT ![c] = @ + 1]
  /\ left' = [left EXCEPT ![c] = Retries]
  /\ UNCHANGED <<at, rule, pending, llm_calls>>

\* Slip: there is nothing to report unless a candidate failed.
ExhaustedByFailure(c) ==
  /\ at[c] = "asking" /\ cand[c] > Len(rule[c])
  /\ from[c] # Nobody
  /\ Goto(c, "raised")
  /\ UNCHANGED <<rule, cand, left, from, asked, pending, llm_calls>>

\* NoAvailableProviderError, also for a rule without candidates.
Exhausted(c) ==
  /\ at[c] = "asking" /\ cand[c] > Len(rule[c])
  /\ Goto(c, "raised")
  /\ UNCHANGED <<rule, cand, left, from, asked, pending, llm_calls>>

\* An exception outside the taxonomy: it is neither traced nor fallen back from.
Breaks(c) ==
  /\ Asking(c)
  /\ Hears(c, "broken", 0)
  /\ Goto(c, "raised")
  /\ UNCHANGED <<rule, cand, left, from, pending, llm_calls>>

\* The session commits: the triage went on, or the summary was rendered.
Commit(c) ==
  /\ at[c] = "answered" \/ (at[c] = "raised" /\ c \in Triages)
  /\ llm_calls' = llm_calls \union
       (IF pending[c] = NoRow THEN {} ELSE {[call |-> c, row |-> pending[c]]})
  /\ pending' = [pending EXCEPT ![c] = NoRow]
  /\ Goto(c, "committed")
  /\ UNCHANGED <<rule, cand, left, from, asked>>

RollBack(c) ==
  /\ pending' = [pending EXCEPT ![c] = NoRow]
  /\ Goto(c, "rolled_back")
  /\ UNCHANGED <<rule, cand, left, from, asked, llm_calls>>

\* The exception ends the request of the summary.
Rejected(c) ==
  /\ at[c] = "raised" /\ c \notin Triages
  /\ RollBack(c)

Open(c) == at[c] \in {"asking", "answered", "raised"}

\* A cancellation, the agent's timeout, a later error of the agent or of the
\* handler, a row that could not be written.
Fail(c) ==
  /\ Open(c)
  /\ RollBack(c)

Work(c) ==
  \/ Unserved(c) \/ Valid(c) \/ Repair(c) \/ Unrepaired(c) \/ Denied(c)
  \/ FallsBack(c) \/ Exhausted(c) \/ Breaks(c) \/ Commit(c) \/ Rejected(c)

Next == \E c \in Calls : Begin(c) \/ OverBudget(c) \/ Work(c) \/ Fail(c)

Spec == Init /\ [][Next]_vars

\* Providers answer or time out; the event loop is fair to sessions.
FairSpec == Spec /\ \A c \in Calls : WF_vars(Work(c))
----------------------------------------------------------------------------
(* Properties.                                                             *)

Row   == [model : Models, from : Models \union {Nobody}, tokens : Nat, schema_valid : BOOLEAN]
Reply == [by : Nat, got : {"valid", "invalid", "denied", "down", "broken"}, tokens : Nat]

\* The variables have their types, the loop stays within its candidates and its
\* retries, and only a session that may still commit holds a row.
TypeOK ==
  /\ at \in [Calls -> {"new", "asking", "answered", "raised", "committed", "rolled_back"}]
  /\ \A c \in Calls :
       /\ rule[c] \in Seq(Models)
       /\ cand[c] \in 1 .. Len(rule[c]) + 1
       /\ left[c] \in 0 .. Retries
       /\ from[c] \in Models \union {Nobody}
       /\ asked[c] \in Seq(Reply)
       /\ pending[c] # NoRow => pending[c] \in Row /\ at[c] \in {"answered", "raised"}
  /\ \A trace \in llm_calls : trace.call \in Calls /\ trace.row \in Row

\* "No fallback shopping on refusals or schema failures": after an answer or a
\* denial nobody else is asked, and the same model only to repair its answer,
\* schema_retries times at most (complete and _execute_candidate of
\* core/llm/router.py).
NoShopping ==
  \A c \in Calls :
    /\ \A i \in 1 .. Len(asked[c]) - 1 :
         LET this == asked[c][i]  next == asked[c][i + 1] IN
         \/ this.got = "invalid" /\ next.by = this.by
         \/ this.got = "down" /\ next.by > this.by
    /\ \A k \in 1 .. Len(rule[c]) :
         Cardinality({i \in DOMAIN asked[c] : asked[c][i].by = k}) <= Retries + 1

LastDown(c) == LET downs == {i \in DOMAIN asked[c] : asked[c][i].got = "down"}
               IN IF downs = {} THEN Nobody ELSE rule[c][asked[c][Max(downs)].by]

\* A row in llm_calls is the last word of its call, and the only one: the model
\* that ended it, how, at what cost, and the failed model it stood in for.
TraceTellsTheEnd ==
  /\ \A s, t \in llm_calls : s.call = t.call => s = t
  /\ \A trace \in llm_calls :
       LET c == trace.call  last == asked[c][Len(asked[c])] IN
       /\ at[c] = "committed" /\ asked[c] # <<>>
       /\ last.got \in {"valid", "invalid", "denied"}
       /\ trace.row.model = rule[c][last.by]
       /\ trace.row.from = LastDown(c)
       /\ trace.row.schema_valid <=> last.got # "invalid"
       /\ trace.row.tokens = IF last.got = "valid" THEN last.tokens ELSE 0

Replies(c) == Len(asked[c])

\* "token budget ceiling exceeded": calls under way may overshoot it together,
\* but once the rows reach it and nobody is at work, no model is ever asked again.
CeilingIsFinal ==
  \A c \in Calls : \A n \in 0 .. 1 :
    [](Recorded >= Ceiling /\ (\A d \in Calls : ~Open(d)) /\ Replies(c) = n
         => [](Replies(c) = n))

\* Every call that begins is over at last, with an answer or an exception.
CallsEnd == \A c \in Calls : at[c] = "asking" ~> at[c] \in {"committed", "rolled_back"}
=============================================================================
