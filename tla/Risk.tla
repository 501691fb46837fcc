-------------------------------- MODULE Risk --------------------------------
(***************************************************************************)
(* The risk of an investigation as a function of its findings              *)
(* (core/risk.py).  A finding has a rule, an assertion class, a severity   *)
(* and a confidence in percent.  Contributions are held in units of 1/200, *)
(* so that the halving of hypotheses and of the blend stays exact; a tie   *)
(* is rounded to the even neighbour, as round() does.                      *)
(***************************************************************************)
EXTENDS Integers, Sequences, SequencesExt

Severities == {"info", "low", "medium", "high", "critical"}
Classes == {"fact", "inference", "hypothesis", "unknown"}

Rank(severity) ==
  CASE severity = "info" -> 0 [] severity = "low" -> 1 [] severity = "medium" -> 2
    [] severity = "high" -> 3 [] severity = "critical" -> 4
AtRank(rank) == CHOOSE s \in Severities : Rank(s) = rank

Weight(severity) ==
  CASE severity = "info" -> 1 [] severity = "low" -> 4 [] severity = "medium" -> 10
    [] severity = "high" -> 25 [] severity = "critical" -> 45
BaseScore(severity) ==
  CASE severity = "info" -> 0 [] severity = "low" -> 20 [] severity = "medium" -> 45
    [] severity = "high" -> 75 [] severity = "critical" -> 100

\* Severity is a StrEnum without an order of its own: max() and min() compare
\* the words, whose order is alphabetical.
Alphabetical(severity) ==
  CASE severity = "critical" -> 0 [] severity = "high" -> 1 [] severity = "info" -> 2
    [] severity = "low" -> 3 [] severity = "medium" -> 4
LaterWord(s, t) == IF Alphabetical(s) < Alphabetical(t) THEN t ELSE s
EarlierWord(s, t) == IF Alphabetical(s) < Alphabetical(t) THEN s ELSE t

Larger(m, n) == IF m < n THEN n ELSE m
Rounded(n, d) ==   \* n/d to the nearest integer, a tie to the even one
  LET q == n \div d  r == n % d
  IN IF 2 * r < d \/ (2 * r = d /\ q % 2 = 0) THEN q ELSE q + 1

-----------------------------------------------------------------------------
IsDecision(f) == f.rule \in {"triage.classification", "risk.ai_decision"}

Contribution(f) ==
  CASE f.class = "unknown"    -> 0
    [] f.class = "hypothesis" -> Weight(f.severity) * f.confidence
    [] OTHER                  -> 2 * Weight(f.severity) * f.confidence

\* The deterministic roll-up of every finding that is no decision of a model.
RollUp(findings) ==
  FoldLeft(LAMBDA acc, f :
             IF IsDecision(f) \/ f.class = "unknown" THEN acc
             ELSE [total |-> acc.total + Contribution(f),
                   top   |-> Larger(acc.top, Rank(f.severity))],
           [total |-> 0, top |-> 0], findings)
Capped(n) == IF n > 100 THEN 100 ELSE n
Deterministic(findings) == Capped(Rounded(RollUp(findings).total, 200))

Decisions(findings) == {i \in DOMAIN findings : IsDecision(findings[i])}
Opinion(f) == Rounded(BaseScore(f.severity) * f.confidence, 100)

\* Slip: the blend stands as it is.
NoFloor(top, score) == 0

\* A CRITICAL of the rules keeps the score up, whatever the model thinks.
Floor(top, score) == IF top < 4 THEN 0 ELSE IF score >= 80 THEN 80 ELSE 50

\* The severity beside the blended score.
Coherent(blended, score, top, opinion) ==
  IF score >= 80
  THEN IF 4 \in {top, opinion} THEN "critical" ELSE LaterWord(blended, "high")
  ELSE IF score >= 50
  THEN LaterWord(blended, IF Larger(top, opinion) >= 3 THEN "high" ELSE "medium")
  ELSE IF score <= 10 /\ top <= 1 /\ opinion <= 1
  THEN EarlierWord(blended, IF 1 \in {top, opinion} THEN "low" ELSE "info")
  ELSE blended

\* The last decision among the findings is blended half and half with the
\* roll-up; without one the roll-up stands.
Assess(findings) ==
  LET score == Deterministic(findings)
      top   == RollUp(findings).top
  IN IF Decisions(findings) = {}
     THEN [score |-> score, severity |-> AtRank(top)]
     ELSE LET opinion == findings[Max(Decisions(findings))]
              rank    == Rank(opinion.severity)
              final   == Larger(Rounded(score + Opinion(opinion), 2),
                                Floor(top, score))
          IN [score    |-> final,
              severity |-> Coherent(AtRank(Rounded(top + rank, 2)),
                                    final, top, rank)]
=============================================================================
