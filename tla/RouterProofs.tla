---------------------------- MODULE RouterProofs ----------------------------
(***************************************************************************)
(* Proofs about ModelRouter for every set of calls and models, every       *)
(* routing policy, every number of retries, ceiling and size of answers.   *)
(***************************************************************************)
EXTENDS ModelRouter, FiniteSetTheorems, WellFoundedInduction, TLAPS

Places == {"new", "asking", "answered", "raised", "committed", "rolled_back"}

----------------------------------------------------------------------------
(* A conversation: what was asked under a rule, and what came of it.       *)

Downs(a) == {i \in DOMAIN a : a[i].got = "down"}

\* How often a candidate was asked, and the model that failed last.
Times(a, k) == Cardinality({i \in DOMAIN a : a[i].by = k})
StoodInFor(a, r) == IF Downs(a) = {} THEN Nobody ELSE r[a[Max(Downs(a))].by]

\* What NoShopping says of it, the failure that was the last, and that only
\* models with a provider were asked.
Conversation(a, r) ==
  /\ \A i \in 1 .. Len(a) - 1 :
       \/ a[i].got = "invalid" /\ a[i + 1].by = a[i].by
       \/ a[i].got = "down" /\ a[i + 1].by > a[i].by
  /\ \A i \in DOMAIN a : a[i].by \in 1 .. Len(r) /\ r[a[i].by] \in Served
  /\ \A k \in 1 .. Len(r) : Times(a, k) <= Retries + 1
  /\ Downs(a) = {} \/ \E m \in Downs(a) : \A i \in Downs(a) : i <= m

LEMMA Appended ==
  ASSUME NEW S, NEW a \in Seq(S), NEW x \in S
  PROVE  /\ Append(a, x) \in Seq(S) /\ Len(Append(a, x)) = Len(a) + 1 /\ Len(a) \in Nat
         /\ DOMAIN a = 1 .. Len(a) /\ DOMAIN Append(a, x) = 1 .. Len(a) + 1
         /\ \A i \in 1 .. Len(a) : Append(a, x)[i] = a[i]
         /\ Append(a, x)[Len(a) + 1] = x
OBVIOUS

LEMMA TimesAreCounted ==
  ASSUME NEW a \in Seq(Reply), NEW k
  PROVE  /\ Times(a, k) \in Nat
         /\ (\A i \in DOMAIN a : a[i].by # k) => Times(a, k) = 0
<1> DEFINE those == {i \in DOMAIN a : a[i].by = k}
<1>1. DOMAIN a = 1 .. Len(a) /\ Len(a) \in Nat OBVIOUS
<1>2. IsFiniteSet(DOMAIN a) BY <1>1, FS_Interval
<1>3. IsFiniteSet(those) BY <1>2, FS_Subset
<1>4. (\A i \in DOMAIN a : a[i].by # k) => those = {} OBVIOUS
<1> HIDE DEF those
<1>5. Cardinality(those) \in Nat /\ (those = {} => Cardinality(those) = 0)
  BY <1>3, FS_CardinalityType, FS_EmptySet
<1> QED BY <1>4, <1>5 DEF Times, those

LEMMA TimesGrow ==
  ASSUME NEW a \in Seq(Reply), NEW x \in Reply, NEW k
  PROVE  Times(Append(a, x), k) = Times(a, k) + (IF x.by = k THEN 1 ELSE 0)
<1> DEFINE b == Append(a, x)
           n == Len(a) + 1
           those == {i \in DOMAIN a : a[i].by = k}
<1>1. /\ DOMAIN a = 1 .. Len(a) /\ Len(a) \in Nat /\ DOMAIN b = 1 .. n
      /\ \A i \in 1 .. Len(a) : b[i] = a[i]
      /\ b[n] = x
  BY Appended
<1> HIDE DEF b
<1>2. \A i \in 1 .. n : i \in 1 .. Len(a) \/ i = n BY <1>1
<1>3. IsFiniteSet(DOMAIN a) BY <1>1, FS_Interval
<1>4. IsFiniteSet(those) BY <1>3, FS_Subset
<1>5. n \notin those /\ Cardinality(those) \in Nat BY <1>1, <1>4, FS_CardinalityType
<1>6. CASE x.by = k
  <2>1. {i \in DOMAIN b : b[i].by = k} = those \union {n} BY <1>1, <1>2, <1>6
  <2> HIDE DEF those
  <2>2. Cardinality(those \union {n}) = Cardinality(those) + 1 BY <1>4, <1>5, FS_AddElement
  <2> QED BY <1>6, <2>1, <2>2 DEF Times, those, b
<1>7. CASE x.by # k
  <2>1. {i \in DOMAIN b : b[i].by = k} = those BY <1>1, <1>2, <1>7
  <2>2. Times(b, k) = Cardinality(those) BY <2>1 DEF Times
  <2>3. Times(a, k) = Cardinality(those) BY DEF Times
  <2> HIDE DEF those
  <2> QED BY <1>5, <1>7, <2>2, <2>3 DEF b
<1> QED BY <1>6, <1>7

LEMMA GreatestIsMax ==
  ASSUME NEW S \in SUBSET Int, NEW m \in S, \A i \in S : i <= m
  PROVE  Max(S) = m
<1>1. \A x \in S : (\A y \in S : x >= y) => x = m OBVIOUS
<1>2. \A y \in S : m >= y OBVIOUS
<1> QED BY <1>1, <1>2 DEF Max

\* One more reply: it is of the same model if an answer was to be repaired, and
\* of a later one if the model failed.
LEMMA ConversationGoesOn ==
  ASSUME NEW a \in Seq(Reply), NEW r \in Seq(Models), NEW x \in Reply,
         Conversation(a, r), x.by \in 1 .. Len(r), r[x.by] \in Served,
         Times(a, x.by) <= Retries,
         a # <<>> => \/ a[Len(a)].got = "invalid" /\ x.by = a[Len(a)].by
                     \/ a[Len(a)].got = "down" /\ x.by > a[Len(a)].by
  PROVE  /\ Conversation(Append(a, x), r)
         /\ StoodInFor(Append(a, x), r) = IF x.got = "down" THEN r[x.by] ELSE StoodInFor(a, r)
<1> DEFINE b == Append(a, x)
           n == Len(a) + 1
<1>1. /\ b \in Seq(Reply) /\ Len(b) = n /\ Len(a) \in Nat /\ n \in Nat
      /\ DOMAIN a = 1 .. Len(a) /\ DOMAIN b = 1 .. n
      /\ \A i \in 1 .. Len(a) : b[i] = a[i]
      /\ b[n] = x
  BY Appended
<1>2. \A k : Times(b, k) = Times(a, k) + (IF x.by = k THEN 1 ELSE 0) BY TimesGrow
<1>3. a = <<>> <=> Len(a) = 0 OBVIOUS
<1> HIDE DEF b
<1>4. \A i \in 1 .. n : i \in 1 .. Len(a) \/ i = n BY <1>1
<1>5. \A i \in 1 .. Len(b) - 1 :
        \/ b[i].got = "invalid" /\ b[i + 1].by = b[i].by
        \/ b[i].got = "down" /\ b[i + 1].by > b[i].by
  <2>1. ASSUME NEW i \in 1 .. Len(a) - 1
        PROVE  \/ b[i].got = "invalid" /\ b[i + 1].by = b[i].by
               \/ b[i].got = "down" /\ b[i + 1].by > b[i].by
    <3>1. i \in 1 .. Len(a) /\ i + 1 \in 1 .. Len(a) BY <1>1
    <3> QED BY <1>1, <3>1 DEF Conversation
  <2>2. CASE Len(a) > 0
    <3>1. b[Len(a)] = a[Len(a)] /\ b[Len(a) + 1] = x /\ a # <<>> BY <1>1, <1>3, <2>2
    <3>2. \/ b[Len(a)].got = "invalid" /\ b[Len(a) + 1].by = b[Len(a)].by
          \/ b[Len(a)].got = "down" /\ b[Len(a) + 1].by > b[Len(a)].by
      BY <3>1
    <3>3. Len(b) - 1 = Len(a) /\ Len(a) \in Nat BY <1>1
    <3>4. \A i \in 1 .. Len(a) : i \in 1 .. Len(a) - 1 \/ i = Len(a) BY ONLY <3>3
    <3> QED BY <2>1, <3>2, <3>3, <3>4
  <2>3. CASE Len(a) = 0 BY <1>1, <2>3
  <2> QED BY <1>1, <2>2, <2>3
<1>6. \A i \in DOMAIN b : b[i].by \in 1 .. Len(r) /\ r[b[i].by] \in Served
  BY <1>1, <1>4 DEF Conversation
<1>7. \A k \in 1 .. Len(r) : Times(b, k) <= Retries + 1
  <2>1. ASSUME NEW k \in 1 .. Len(r) PROVE Times(b, k) <= Retries + 1
    <3>1. Times(a, k) \in Nat /\ Retries \in Nat BY TimesAreCounted, RouterAssumption
    <3>2. Times(a, k) <= Retries + 1 BY DEF Conversation
    <3> QED BY <1>2, <3>1, <3>2
  <2> QED BY <2>1
<1>8. CASE x.got = "down"
  <2>1. n \in Downs(b) /\ Downs(b) \in SUBSET Int /\ \A i \in Downs(b) : i <= n
    BY <1>1, <1>8 DEF Downs
  <2> DEFINE S == Downs(b)
  <2>2. Max(Downs(b)) = n
    <3>1. S \in SUBSET Int /\ n \in S /\ \A i \in S : i <= n BY <2>1
    <3> HIDE DEF S, n
    <3>2. Max(S) = n BY <3>1, GreatestIsMax
    <3> QED BY <3>2 DEF S
  <2>3. StoodInFor(b, r) = r[x.by] BY <1>1, <2>1, <2>2 DEF StoodInFor
  <2> QED BY <1>5, <1>6, <1>7, <1>8, <2>1, <2>3 DEF Conversation, b
<1>9. CASE x.got # "down"
  <2>1. Downs(b) = Downs(a) BY <1>1, <1>4, <1>9 DEF Downs
  <2>2. StoodInFor(b, r) = StoodInFor(a, r)
    <3>1. CASE Downs(a) = {} BY <2>1, <3>1 DEF StoodInFor
    <3>2. CASE Downs(a) # {}
      <4>1. PICK m \in Downs(a) : \A i \in Downs(a) : i <= m BY <3>2 DEF Conversation
      <4>2. Downs(a) \in SUBSET Int /\ m \in 1 .. Len(a) BY <1>1 DEF Downs
      <4>3. Max(Downs(a)) = m BY <4>1, <4>2, GreatestIsMax
      <4> QED BY <1>1, <2>1, <4>2, <4>3 DEF StoodInFor
    <3> QED BY <3>1, <3>2
  <2> QED BY <1>5, <1>6, <1>7, <1>9, <2>1, <2>2 DEF Conversation, b
<1> QED BY <1>8, <1>9

----------------------------------------------------------------------------
(* The inductive invariant.                                                *)

\* What TraceTellsTheEnd says of the row of a conversation that is over.
TraceFits(a, r, row) ==
  /\ a # <<>>
  /\ a[Len(a)].got \in {"valid", "invalid", "denied"}
  /\ row.model = r[a[Len(a)].by]
  /\ row.from = StoodInFor(a, r)
  /\ row.schema_valid <=> a[Len(a)].got # "invalid"
  /\ row.tokens = IF a[Len(a)].got = "valid" THEN a[Len(a)].tokens ELSE 0

Shapes ==
  /\ at \in [Calls -> Places]
  /\ rule \in [Calls -> Seq(Models)]
  /\ cand \in [Calls -> Nat]
  /\ left \in [Calls -> 0 .. Retries]
  /\ from \in [Calls -> Models \union {Nobody}]
  /\ asked \in [Calls -> Seq(Reply)]
  /\ pending \in [Calls -> Row \union {NoRow}]

\* While candidates are asked, those behind the current one are done with, and
\* this one was asked once for each retry that is used up.
Ongoing(c) ==
  /\ pending[c] = NoRow
  /\ from[c] = StoodInFor(asked[c], rule[c])
  /\ \A i \in DOMAIN asked[c] : asked[c][i].by <= cand[c]
  /\ Times(asked[c], cand[c]) = Retries - left[c]
  /\ asked[c] # <<>> =>
       LET last == asked[c][Len(asked[c])] IN
       \/ last.got = "invalid" /\ last.by = cand[c]
       \/ last.got = "down" /\ last.by < cand[c]

CallInv(c) ==
  /\ Conversation(asked[c], rule[c])
  /\ cand[c] \in 1 .. Len(rule[c]) + 1
  /\ at[c] = "new" => /\ asked[c] = <<>> /\ cand[c] = 1
                      /\ from[c] = Nobody /\ pending[c] = NoRow
  /\ at[c] = "asking" => Ongoing(c)
  /\ pending[c] # NoRow => /\ at[c] \in {"answered", "raised"}
                           /\ TraceFits(asked[c], rule[c], pending[c])

TracesInv ==
  /\ llm_calls \subseteq [call : Calls, row : Row]
  /\ \A s, t \in llm_calls : s.call = t.call => s = t
  /\ \A trace \in llm_calls :
       /\ at[trace.call] = "committed"
       /\ TraceFits(asked[trace.call], rule[trace.call], trace.row)

RouterInv == Shapes /\ (\A c \in Calls : CallInv(c)) /\ TracesInv

LEMMA NothingAsked ==
  ASSUME NEW r
  PROVE  /\ Conversation(<<>>, r) /\ StoodInFor(<<>>, r) = Nobody
         /\ \A k : Times(<<>>, k) = 0
<1>1. <<>> \in Seq(Reply) /\ DOMAIN <<>> = {} /\ Len(<<>>) = 0 OBVIOUS
<1>2. \A k : Times(<<>>, k) = 0 BY <1>1, TimesAreCounted
<1>3. Downs(<<>>) = {} BY <1>1 DEF Downs
<1> QED BY <1>1, <1>2, <1>3, RouterAssumption DEF Conversation, StoodInFor

LEMMA RouterInit == Init => RouterInv
<1> SUFFICES ASSUME Init PROVE RouterInv
  OBVIOUS
<1>1. Shapes
  <2>1. <<>> \in Seq(Models) /\ <<>> \in Seq(Reply) /\ 0 \in 0 .. Retries
    BY RouterAssumption
  <2> QED BY <2>1 DEF Init, Shapes, Places
<1>2. ASSUME NEW c \in Calls PROVE CallInv(c)
  <2>1. Len(<<>>) = 0 OBVIOUS
  <2> QED BY <2>1, NothingAsked DEF Init, CallInv
<1>3. TracesInv BY DEF Init, TracesInv
<1> QED BY <1>1, <1>2, <1>3 DEF RouterInv

\* A step of a call that is not over, and that commits nothing.
Moves(c) ==
  /\ at[c] # "committed" /\ llm_calls' = llm_calls
  /\ \A q \in Calls \ {c} :
       /\ at'[q] = at[q] /\ rule'[q] = rule[q] /\ cand'[q] = cand[q] /\ left'[q] = left[q]
       /\ from'[q] = from[q] /\ asked'[q] = asked[q] /\ pending'[q] = pending[q]

LEMMA OthersKeep ==
  ASSUME RouterInv, NEW c, Moves(c), NEW q \in Calls \ {c}
  PROVE  CallInv(q)'
BY DEF RouterInv, CallInv, Moves, Ongoing

LEMMA MovesKeep ==
  ASSUME RouterInv, NEW c \in Calls, Moves(c), Shapes', CallInv(c)'
  PROVE  RouterInv'
<1>1. \A q \in Calls : CallInv(q)' BY OthersKeep
<1>2. TracesInv'
  <2>1. \A trace \in llm_calls : trace.call \in Calls \ {c} BY DEF RouterInv, TracesInv, Moves
  <2>2. \A trace \in llm_calls :
          /\ at'[trace.call] = "committed"
          /\ TraceFits(asked'[trace.call], rule'[trace.call], trace.row)
    BY <2>1 DEF RouterInv, TracesInv, Moves
  <2>3. llm_calls' = llm_calls BY DEF Moves
  <2> QED BY <2>2, <2>3 DEF RouterInv, TracesInv
<1> QED BY <1>1, <1>2 DEF RouterInv

\* What every reply of a provider does to the conversation.
LEMMA Heard ==
  ASSUME RouterInv, NEW c \in Calls, Asking(c), NEW x \in Reply, x.by = cand[c]
  PROVE  LET b == Append(asked[c], x) IN
         /\ b \in Seq(Reply) /\ b # <<>> /\ Len(b) \in Nat /\ b[Len(b)] = x
         /\ Conversation(b, rule[c])
         /\ StoodInFor(b, rule[c]) = IF x.got = "down" THEN Candidate(c) ELSE from[c]
         /\ \A i \in DOMAIN b : b[i].by <= cand[c]
         /\ Times(b, cand[c]) = Retries - left[c] + 1
         /\ Candidate(c) \in Models
         /\ cand[c] \in 1 .. Len(rule[c])
<1> DEFINE a == asked[c]
           b == Append(a, x)
<1>1. /\ a \in Seq(Reply) /\ rule[c] \in Seq(Models) /\ left[c] \in Nat /\ left[c] <= Retries
      /\ cand[c] \in Nat /\ cand[c] \in 1 .. Len(rule[c]) /\ Retries \in Nat
      /\ rule[c][cand[c]] \in Served
  BY RouterAssumption DEF RouterInv, Shapes, CallInv, Asking, AtCandidate, Candidate
<1>2. Ongoing(c) /\ Conversation(a, rule[c]) BY DEF RouterInv, CallInv, Asking, AtCandidate
<1>3. Times(a, cand[c]) = Retries - left[c] BY <1>2 DEF Ongoing
<1>4. Times(a, x.by) <= Retries BY <1>1, <1>3
<1>5. a # <<>> => \/ a[Len(a)].got = "invalid" /\ x.by = a[Len(a)].by
                  \/ a[Len(a)].got = "down" /\ x.by > a[Len(a)].by
  <2>1. a # <<>> => a[Len(a)] \in Reply
    <3>1. a # <<>> => Len(a) \in 1 .. Len(a) BY <1>1
    <3> QED BY <1>1, <3>1
  <2>2. a # <<>> => a[Len(a)].by \in Nat BY <2>1 DEF Reply
  <2> QED BY <1>1, <1>2, <2>2 DEF Ongoing
<1>6. /\ Conversation(b, rule[c])
      /\ StoodInFor(b, rule[c]) = IF x.got = "down" THEN rule[c][x.by] ELSE StoodInFor(a, rule[c])
  BY <1>1, <1>2, <1>4, <1>5, ConversationGoesOn
<1>7. /\ b \in Seq(Reply) /\ Len(b) = Len(a) + 1 /\ Len(a) \in Nat
      /\ DOMAIN a = 1 .. Len(a) /\ DOMAIN b = 1 .. Len(a) + 1
      /\ \A i \in 1 .. Len(a) : b[i] = a[i]
      /\ b[Len(a) + 1] = x
  BY <1>1, Appended
<1>8. Times(b, cand[c]) = Times(a, cand[c]) + 1 BY <1>1, TimesGrow
<1> HIDE DEF b
<1>9. \A i \in DOMAIN b : b[i].by <= cand[c]
  <2>1. \A i \in DOMAIN b : i \in 1 .. Len(a) \/ i = Len(a) + 1 BY <1>7
  <2> QED BY SMTT(60), <1>1, <1>2, <1>7, <2>1 DEF Ongoing
<1>10. b # <<>> /\ Len(b) \in Nat /\ b[Len(b)] = x BY <1>7
<1>11. StoodInFor(a, rule[c]) = from[c] BY <1>2 DEF Ongoing
<1>12. Candidate(c) = rule[c][cand[c]] /\ Candidate(c) \in Models BY <1>1 DEF Candidate
<1> QED BY <1>1, <1>3, <1>6, <1>7, <1>8, <1>9, <1>10, <1>11, <1>12 DEF b

----------------------------------------------------------------------------
(* The steps.                                                              *)

LEMMA NoRowIsNone == NoRow \notin Row
BY RouterAssumption DEF NoRow, Row

LEMMA RouterBegins ==
  ASSUME RouterInv, NEW c \in Calls, Begin(c) \/ OverBudget(c)
  PROVE  RouterInv'
<1>1. CASE Begin(c)
  <2>1. PICK candidates \in Rules : rule' = [rule EXCEPT ![c] = candidates] BY <1>1 DEF Begin
  <2>2. candidates \in Seq(Models) /\ Retries \in 0 .. Retries BY RouterAssumption
  <2>3. Shapes' BY <1>1, <2>1, <2>2 DEF Begin, Goto, RouterInv, Shapes, Places
  <2>4. Moves(c) BY <1>1, <2>1 DEF Begin, Goto, RouterInv, Shapes, Moves
  <2>5. /\ asked'[c] = <<>> /\ cand'[c] = 1 /\ from'[c] = Nobody /\ pending'[c] = NoRow
        /\ at'[c] = "asking" /\ rule'[c] = candidates /\ left'[c] = Retries
    BY <1>1, <2>1 DEF Begin, Goto, RouterInv, Shapes, CallInv
  <2>6. Ongoing(c)'
    <3>1. DOMAIN <<>> = {} /\ Retries - Retries = 0 BY RouterAssumption
    <3> QED BY <2>5, <3>1, NothingAsked DEF Ongoing
  <2>7. cand'[c] \in 1 .. Len(rule'[c]) + 1 BY <2>2, <2>5
  <2>8. CallInv(c)' BY <2>5, <2>6, <2>7, NothingAsked DEF CallInv
  <2> QED BY <2>3, <2>4, <2>8, MovesKeep
<1>2. CASE OverBudget(c)
  <2>1. Shapes' BY <1>2 DEF OverBudget, Goto, RouterInv, Shapes, Places
  <2>2. Moves(c) BY <1>2 DEF OverBudget, Goto, RouterInv, Shapes, Moves
  <2>3. CallInv(c)' BY <1>2 DEF OverBudget, Goto, RouterInv, Shapes, CallInv
  <2> QED BY <2>1, <2>2, <2>3, MovesKeep
<1> QED BY <1>1, <1>2

LEMMA RouterUnserved ==
  ASSUME RouterInv, NEW c \in Calls, Unserved(c)
  PROVE  RouterInv'
<1>1. /\ at[c] = "asking" /\ cand[c] <= Len(rule[c]) /\ rule[c][cand[c]] \notin Served
      /\ cand' = [cand EXCEPT ![c] = @ + 1]
      /\ UNCHANGED <<at, rule, left, from, asked, pending, llm_calls>>
  BY DEF Unserved, AtCandidate, Candidate
<1>2. /\ asked[c] \in Seq(Reply) /\ left[c] \in 0 .. Retries /\ cand[c] \in Nat
      /\ rule[c] \in Seq(Models) /\ cand'[c] = cand[c] + 1
  BY <1>1 DEF RouterInv, Shapes
<1>3. Ongoing(c) /\ Conversation(asked[c], rule[c]) /\ cand[c] \in 1 .. Len(rule[c]) + 1
  BY <1>1 DEF RouterInv, CallInv
<1>4. \A i \in DOMAIN asked[c] : asked[c][i].by \in Nat /\ asked[c][i].by # cand[c]
  BY <1>1, <1>3 DEF Conversation
<1>5. \A i \in DOMAIN asked[c] : asked[c][i].by < cand[c]
  BY <1>2, <1>3, <1>4 DEF Ongoing
<1>6. Times(asked[c], cand[c]) = 0 /\ Times(asked[c], cand[c] + 1) = 0
  <2>1. \A i \in DOMAIN asked[c] : asked[c][i].by # cand[c] + 1 BY <1>2, <1>4, <1>5
  <2> QED BY <1>2, <1>4, <2>1, TimesAreCounted
<1>7. Retries - left[c] = 0 BY <1>3, <1>6 DEF Ongoing
<1>8. asked[c] # <<>> => /\ asked[c][Len(asked[c])].got = "down"
                         /\ asked[c][Len(asked[c])].by < cand[c] + 1
  <2>1. asked[c] # <<>> => Len(asked[c]) \in DOMAIN asked[c] BY <1>2
  <2> QED BY <1>2, <1>3, <1>4, <1>5, <2>1 DEF Ongoing
<1>9. \A i \in DOMAIN asked[c] : asked[c][i].by <= cand[c] + 1 BY <1>2, <1>4, <1>5
<1>10. Ongoing(c)' BY <1>1, <1>2, <1>3, <1>6, <1>7, <1>8, <1>9 DEF Ongoing
<1>11. cand'[c] \in 1 .. Len(rule[c]) + 1 BY <1>1, <1>2
<1>12. CallInv(c)' BY <1>1, <1>3, <1>10, <1>11 DEF RouterInv, CallInv, Ongoing
<1>13. Shapes' BY <1>1 DEF RouterInv, Shapes
<1>14. Moves(c) BY <1>1 DEF RouterInv, Shapes, Moves
<1> QED BY <1>12, <1>13, <1>14, MovesKeep

\* The replies after which the loop goes on: an answer to repair, a failure.
LEMMA RouterGoesOn ==
  ASSUME RouterInv, NEW c \in Calls, Repair(c) \/ FallsBack(c)
  PROVE  RouterInv'
<1>1. /\ Asking(c) /\ at[c] = "asking" /\ cand[c] \in Nat /\ left[c] \in 0 .. Retries
      /\ Retries \in Nat /\ rule[c] \in Seq(Models)
  BY RouterAssumption DEF Repair, FallsBack, Asking, AtCandidate, RouterInv, Shapes
<1>2. CASE Repair(c)
  <2>1. PICK n \in Usage : Hears(c, "invalid", n) BY <1>2 DEF Repair
  <2> DEFINE x == [by |-> cand[c], got |-> "invalid", tokens |-> n]
             b == Append(asked[c], x)
  <2>2. x \in Reply /\ x.by = cand[c] /\ x.got = "invalid"
    BY <1>1, RouterAssumption DEF Reply
  <2>3. asked' = [asked EXCEPT ![c] = b] BY <2>1 DEF Hears
  <2> HIDE DEF x
  <2>4. /\ b \in Seq(Reply) /\ b # <<>> /\ Len(b) \in Nat /\ b[Len(b)] = x
        /\ Conversation(b, rule[c]) /\ StoodInFor(b, rule[c]) = from[c]
        /\ \A i \in DOMAIN b : b[i].by <= cand[c]
        /\ Times(b, cand[c]) = Retries - left[c] + 1
        /\ cand[c] \in 1 .. Len(rule[c])
    BY <1>1, <2>2, Heard
  <2> HIDE DEF b
  <2>5. /\ left[c] > 0 /\ left' = [left EXCEPT ![c] = @ - 1]
        /\ UNCHANGED <<at, rule, cand, from, pending, llm_calls>>
    BY <1>2 DEF Repair
  <2>6. asked'[c] = b /\ left'[c] = left[c] - 1 BY <2>3, <2>5 DEF RouterInv, Shapes
  <2>7. pending[c] = NoRow BY <1>1 DEF RouterInv, CallInv, Ongoing
  <2>8. Times(b, cand[c]) = Retries - (left[c] - 1) BY <1>1, <2>4
  <2>9. Ongoing(c)' BY <2>2, <2>4, <2>5, <2>6, <2>7, <2>8 DEF Ongoing
  <2>10. CallInv(c)' BY <1>1, <2>4, <2>5, <2>6, <2>7, <2>9 DEF CallInv
  <2>11. left[c] - 1 \in 0 .. Retries BY <1>1, <2>5
  <2>12. Shapes' BY <2>3, <2>4, <2>5, <2>11 DEF RouterInv, Shapes
  <2>13. Moves(c) BY <1>1, <2>3, <2>5 DEF RouterInv, Shapes, Moves
  <2> QED BY <2>10, <2>12, <2>13, MovesKeep
<1>3. CASE FallsBack(c)
  <2> DEFINE x == [by |-> cand[c], got |-> "down", tokens |-> 0]
             b == Append(asked[c], x)
  <2>2. x \in Reply /\ x.by = cand[c] /\ x.got = "down"
    BY <1>1 DEF Reply
  <2>3. asked' = [asked EXCEPT ![c] = b] BY <1>3 DEF FallsBack, Hears
  <2> HIDE DEF x
  <2>4. /\ b \in Seq(Reply) /\ b # <<>> /\ Len(b) \in Nat /\ b[Len(b)] = x
        /\ Conversation(b, rule[c]) /\ StoodInFor(b, rule[c]) = Candidate(c)
        /\ \A i \in DOMAIN b : b[i].by <= cand[c]
        /\ Candidate(c) \in Models
        /\ cand[c] \in 1 .. Len(rule[c])
    BY <1>1, <2>2, Heard
  <2> HIDE DEF b
  <2>5. /\ from' = [from EXCEPT ![c] = Candidate(c)] /\ cand' = [cand EXCEPT ![c] = @ + 1]
        /\ left' = [left EXCEPT ![c] = Retries]
        /\ UNCHANGED <<at, rule, pending, llm_calls>>
    BY <1>3 DEF FallsBack
  <2>6. /\ asked'[c] = b /\ left'[c] = Retries /\ cand'[c] = cand[c] + 1
        /\ from'[c] = Candidate(c)
    BY <2>3, <2>5 DEF RouterInv, Shapes
  <2>7. pending[c] = NoRow BY <1>1 DEF RouterInv, CallInv, Ongoing
  <2>8. \A i \in DOMAIN b : b[i].by \in Nat /\ b[i].by # cand[c] + 1 /\ b[i].by <= cand[c] + 1
    <3>1. \A i \in DOMAIN b : b[i].by \in Nat BY <2>4 DEF Conversation
    <3> QED BY <1>1, <2>4, <3>1
  <2>9. Times(b, cand[c] + 1) = 0 BY <2>4, <2>8, TimesAreCounted
  <2>10. Ongoing(c)' BY <1>1, <2>2, <2>4, <2>5, <2>6, <2>7, <2>8, <2>9 DEF Ongoing
  <2>11. CallInv(c)' BY <1>1, <2>4, <2>5, <2>6, <2>7, <2>10 DEF CallInv
  <2>12. Shapes' BY <1>1, <2>3, <2>4, <2>5 DEF RouterInv, Shapes
  <2>13. Moves(c) BY <1>1, <2>3, <2>5 DEF RouterInv, Shapes, Moves
  <2> QED BY <2>11, <2>12, <2>13, MovesKeep
<1> QED BY <1>2, <1>3

\* The replies that end the loop, with the row that is written about them.
LEMMA RouterEnds ==
  ASSUME RouterInv, NEW c \in Calls, Asking(c), NEW x \in Reply, x.by = cand[c], x.got # "down",
         asked' = [asked EXCEPT ![c] = Append(@, x)],
         NEW place \in {"answered", "raised"}, at' = [at EXCEPT ![c] = place],
         NEW row,
         \/ row = NoRow
         \/ /\ x.got \in {"valid", "invalid", "denied"}
            /\ row = [model |-> Candidate(c), from |-> from[c],
                      tokens |-> IF x.got = "valid" THEN x.tokens ELSE 0,
                      schema_valid |-> x.got # "invalid"],
         pending' = [pending EXCEPT ![c] = row],
         UNCHANGED <<rule, cand, left, from, llm_calls>>
  PROVE  RouterInv'
<1> DEFINE b == Append(asked[c], x)
<1>1. /\ b \in Seq(Reply) /\ b # <<>> /\ b[Len(b)] = x
      /\ Conversation(b, rule[c]) /\ StoodInFor(b, rule[c]) = from[c]
      /\ Candidate(c) \in Models
  BY Heard
<1> HIDE DEF b
<1>2. asked'[c] = b /\ at'[c] = place /\ pending'[c] = row
      /\ asked' = [asked EXCEPT ![c] = b]
  BY DEF RouterInv, Shapes, b
<1>3. row # NoRow => row \in Row /\ TraceFits(b, rule[c], row)
  <2>1. x.tokens \in Nat /\ from[c] \in Models \union {Nobody} BY DEF Reply, RouterInv, Shapes
  <2>2. SUFFICES ASSUME row # NoRow PROVE row \in Row /\ TraceFits(b, rule[c], row)
    OBVIOUS
  <2>3. /\ x.got \in {"valid", "invalid", "denied"}
        /\ row = [model |-> Candidate(c), from |-> from[c],
                  tokens |-> IF x.got = "valid" THEN x.tokens ELSE 0,
                  schema_valid |-> x.got # "invalid"]
    BY <2>2
  <2>4. /\ row.model = Candidate(c) /\ row.from = from[c]
        /\ row.tokens = IF x.got = "valid" THEN x.tokens ELSE 0
    BY <2>3
  <2>5. row.schema_valid <=> x.got # "invalid" BY <2>3, Zenon
  <2>6. row \in Row
    <3>1. (x.got # "invalid") \in BOOLEAN OBVIOUS
    <3> QED BY <1>1, <2>1, <2>3, <3>1 DEF Row
  <2>7. Candidate(c) = rule[c][x.by] BY DEF Candidate
  <2> QED BY <1>1, <2>3, <2>4, <2>5, <2>6, <2>7 DEF TraceFits
<1>4. cand[c] \in 1 .. Len(rule[c]) + 1 BY DEF RouterInv, CallInv
<1>5. CallInv(c)' BY <1>1, <1>2, <1>3, <1>4 DEF CallInv
<1>6. Shapes' BY <1>1, <1>2, <1>3 DEF RouterInv, Shapes, Places
<1>7. Moves(c) BY <1>2 DEF RouterInv, Shapes, Moves, Asking, AtCandidate
<1> QED BY <1>5, <1>6, <1>7, MovesKeep

LEMMA RouterIsAnswered ==
  ASSUME RouterInv, NEW c \in Calls, Valid(c) \/ Unrepaired(c) \/ Denied(c) \/ Breaks(c)
  PROVE  RouterInv'
<1>1. cand[c] \in Nat /\ Usage \subseteq Nat BY RouterAssumption DEF RouterInv, Shapes
<1>2. CASE Valid(c)
  <2>1. PICK n \in Usage : Hears(c, "valid", n) /\ Trace(c, n, TRUE) BY <1>2 DEF Valid
  <2> DEFINE x == [by |-> cand[c], got |-> "valid", tokens |-> n]
             row == [model |-> Candidate(c), from |-> from[c],
                     tokens |-> IF x.got = "valid" THEN x.tokens ELSE 0,
                     schema_valid |-> x.got # "invalid"]
  <2>2. x \in Reply /\ x.by = cand[c] /\ x.got = "valid" BY <1>1 DEF Reply
  <2>3. asked' = [asked EXCEPT ![c] = Append(@, x)] BY <2>1 DEF Hears
  <2>4. pending' = [pending EXCEPT ![c] = row] BY <2>1 DEF Trace
  <2> HIDE DEF x
  <2> QED BY <1>2, <2>2, <2>3, <2>4, RouterEnds DEF Valid, Goto
<1>3. CASE Unrepaired(c)
  <2>1. PICK n \in Usage : Hears(c, "invalid", n) BY <1>3 DEF Unrepaired
  <2> DEFINE x == [by |-> cand[c], got |-> "invalid", tokens |-> n]
             row == [model |-> Candidate(c), from |-> from[c],
                     tokens |-> IF x.got = "valid" THEN x.tokens ELSE 0,
                     schema_valid |-> x.got # "invalid"]
  <2>2. x \in Reply /\ x.by = cand[c] /\ x.got = "invalid" BY <1>1 DEF Reply
  <2>3. asked' = [asked EXCEPT ![c] = Append(@, x)] BY <2>1 DEF Hears
  <2>4. pending' = [pending EXCEPT ![c] = row] BY <1>3 DEF Unrepaired, Trace
  <2> HIDE DEF x
  <2> QED BY <1>3, <2>2, <2>3, <2>4, RouterEnds DEF Unrepaired, Goto
<1>4. CASE Denied(c)
  <2> DEFINE x == [by |-> cand[c], got |-> "denied", tokens |-> 0]
             row == [model |-> Candidate(c), from |-> from[c],
                     tokens |-> IF x.got = "valid" THEN x.tokens ELSE 0,
                     schema_valid |-> x.got # "invalid"]
  <2>2. x \in Reply /\ x.by = cand[c] /\ x.got = "denied" BY <1>1 DEF Reply
  <2>3. asked' = [asked EXCEPT ![c] = Append(@, x)] BY <1>4 DEF Denied, Hears
  <2>4. pending' = [pending EXCEPT ![c] = row] BY <1>4 DEF Denied, Trace
  <2> HIDE DEF x
  <2> QED BY <1>4, <2>2, <2>3, <2>4, RouterEnds DEF Denied, Goto
<1>5. CASE Breaks(c)
  <2> DEFINE x == [by |-> cand[c], got |-> "broken", tokens |-> 0]
  <2>2. x \in Reply /\ x.by = cand[c] /\ x.got = "broken" BY <1>1 DEF Reply
  <2>3. asked' = [asked EXCEPT ![c] = Append(@, x)] BY <1>5 DEF Breaks, Hears
  <2>4. pending' = [pending EXCEPT ![c] = NoRow]
    <3>1. pending[c] = NoRow BY <1>5 DEF Breaks, Asking, AtCandidate, RouterInv, CallInv, Ongoing
    <3> QED BY <1>5, <3>1 DEF Breaks, RouterInv, Shapes
  <2> HIDE DEF x
  <2> QED BY <1>5, <2>2, <2>3, <2>4, RouterEnds DEF Breaks, Goto
<1> QED BY <1>2, <1>3, <1>4, <1>5

LEMMA RouterGivesUp ==
  ASSUME RouterInv, NEW c \in Calls, Exhausted(c) \/ Rejected(c) \/ Fail(c)
  PROVE  RouterInv'
<1>1. CASE Exhausted(c)
  <2>1. Shapes' BY <1>1 DEF Exhausted, Goto, RouterInv, Shapes, Places
  <2>2. Moves(c) BY <1>1 DEF Exhausted, Goto, RouterInv, Shapes, Moves
  <2>3. pending[c] = NoRow BY <1>1 DEF Exhausted, RouterInv, CallInv, Ongoing
  <2>4. CallInv(c)' BY <1>1, <2>3 DEF Exhausted, Goto, RouterInv, Shapes, CallInv
  <2> QED BY <2>1, <2>2, <2>4, MovesKeep
<1>2. CASE Rejected(c) \/ Fail(c)
  <2>1. at[c] \notin {"new", "committed"} /\ RollBack(c) BY <1>2 DEF Rejected, Fail, Open
  <2>2. Shapes' BY <2>1 DEF RollBack, Goto, RouterInv, Shapes, Places
  <2>3. Moves(c) BY <2>1 DEF RollBack, Goto, RouterInv, Shapes, Moves
  <2>4. CallInv(c)' BY <2>1 DEF RollBack, Goto, RouterInv, Shapes, CallInv
  <2> QED BY <2>2, <2>3, <2>4, MovesKeep
<1> QED BY <1>1, <1>2

LEMMA RouterCommit ==
  ASSUME RouterInv, NEW c \in Calls, Commit(c)
  PROVE  RouterInv'
<1>1. /\ at[c] \in {"answered", "raised"} /\ at' = [at EXCEPT ![c] = "committed"]
      /\ pending' = [pending EXCEPT ![c] = NoRow]
      /\ UNCHANGED <<rule, cand, left, from, asked>>
      /\ llm_calls' = llm_calls \union
           (IF pending[c] = NoRow THEN {} ELSE {[call |-> c, row |-> pending[c]]})
  BY DEF Commit, Goto
<1>2. /\ at'[c] = "committed" /\ pending'[c] = NoRow
      /\ \A q \in Calls \ {c} : at'[q] = at[q] /\ pending'[q] = pending[q]
  BY <1>1 DEF RouterInv, Shapes
<1>3. Shapes' BY <1>1 DEF RouterInv, Shapes, Places
<1>4. \A q \in Calls : CallInv(q)'
  <2>1. CallInv(c)' BY <1>1, <1>2 DEF RouterInv, CallInv
  <2>2. \A q \in Calls \ {c} : CallInv(q)' BY <1>1, <1>2 DEF RouterInv, CallInv, Ongoing
  <2> QED BY <2>1, <2>2
<1>5. \A trace \in llm_calls : trace.call \in Calls \ {c} BY <1>1 DEF RouterInv, TracesInv
<1>6. CASE pending[c] = NoRow
  <2>1. llm_calls' = llm_calls BY <1>1, <1>6
  <2>2. TracesInv' BY <1>1, <1>2, <1>5, <2>1 DEF RouterInv, TracesInv
  <2> QED BY <1>3, <1>4, <2>2 DEF RouterInv
<1>7. CASE pending[c] # NoRow
  <2> DEFINE t == [call |-> c, row |-> pending[c]]
  <2>1. llm_calls' = llm_calls \union {t} /\ t.call = c /\ t.row = pending[c] BY <1>1, <1>7
  <2>2. t \in [call : Calls, row : Row] BY <1>7 DEF RouterInv, Shapes
  <2>3. TraceFits(asked[c], rule[c], pending[c]) BY <1>7 DEF RouterInv, CallInv
  <2> HIDE DEF t
  <2>4. TracesInv' BY <1>1, <1>2, <1>5, <2>1, <2>2, <2>3 DEF RouterInv, TracesInv
  <2> QED BY <1>3, <1>4, <2>4 DEF RouterInv
<1> QED BY <1>6, <1>7

LEMMA RouterStep == RouterInv /\ [Next]_vars => RouterInv'
<1> SUFFICES ASSUME RouterInv, [Next]_vars PROVE RouterInv'
  OBVIOUS
<1>1. CASE UNCHANGED vars
  BY <1>1 DEF vars, RouterInv, Shapes, CallInv, Ongoing, TracesInv
<1>2. ASSUME NEW c \in Calls, Begin(c) \/ OverBudget(c) \/ Work(c) \/ Fail(c) PROVE RouterInv'
  BY <1>2, RouterBegins, RouterUnserved, RouterGoesOn, RouterIsAnswered, RouterGivesUp,
     RouterCommit DEF Work
<1> QED BY <1>1, <1>2 DEF Next

LEMMA RouterInvariant == Spec => []RouterInv
BY RouterInit, RouterStep, PTL DEF Spec

----------------------------------------------------------------------------
(* What the router keeps.                                                  *)

\* Every reachable state of the calls and their sessions is type correct.
THEOREM RouterTypes == Spec => []TypeOK
<1>1. RouterInv => TypeOK
  <2> SUFFICES ASSUME RouterInv PROVE TypeOK
    OBVIOUS
  <2>1. ASSUME NEW c \in Calls
        PROVE  /\ rule[c] \in Seq(Models) /\ cand[c] \in 1 .. Len(rule[c]) + 1
               /\ left[c] \in 0 .. Retries /\ from[c] \in Models \union {Nobody}
               /\ asked[c] \in Seq(Reply)
               /\ pending[c] # NoRow => pending[c] \in Row /\ at[c] \in {"answered", "raised"}
    BY DEF RouterInv, Shapes, CallInv
  <2>2. \A trace \in llm_calls : trace.call \in Calls /\ trace.row \in Row
    BY DEF RouterInv, TracesInv
  <2>3. at \in [Calls -> Places] BY DEF RouterInv, Shapes
  <2> QED BY <2>1, <2>2, <2>3 DEF TypeOK, Places
<1> QED BY <1>1, RouterInvariant, PTL

\* Whatever the providers reply, nobody is asked again but to repair an answer,
\* and nobody else but after a failure.
THEOREM NobodyShops == Spec => []NoShopping
<1>1. RouterInv => NoShopping
  <2> SUFFICES ASSUME RouterInv, NEW c \in Calls
               PROVE  /\ \A i \in 1 .. Len(asked[c]) - 1 :
                           \/ asked[c][i].got = "invalid" /\ asked[c][i + 1].by = asked[c][i].by
                           \/ asked[c][i].got = "down" /\ asked[c][i + 1].by > asked[c][i].by
                      /\ \A k \in 1 .. Len(rule[c]) :
                           Cardinality({i \in DOMAIN asked[c] : asked[c][i].by = k}) <= Retries + 1
    BY DEF NoShopping
  <2>1. Conversation(asked[c], rule[c]) BY DEF RouterInv, CallInv
  <2> QED BY <2>1 DEF Conversation, Times
<1> QED BY <1>1, RouterInvariant, PTL

\* Of all the replies a call got, its row is about the last one.
THEOREM TracesAreTrue == Spec => []TraceTellsTheEnd
<1>1. RouterInv => TraceTellsTheEnd
  <2>1. ASSUME NEW c PROVE LastDown(c) = StoodInFor(asked[c], rule[c])
    BY DEF LastDown, StoodInFor, Downs
  <2> QED BY <2>1 DEF RouterInv, TracesInv, TraceFits, TraceTellsTheEnd
<1> QED BY <1>1, RouterInvariant, PTL

----------------------------------------------------------------------------
(* The sum of the rows: the fold over them is well defined and a number.   *)

LEMMA Induction ==
  ASSUME NEW T, 0 \in T, \A n \in Nat : n \in T => n + 1 \in T
  PROVE  \A n \in Nat : n \in T
<1>1. SUFFICES ASSUME Nat \ T # {} PROVE FALSE
  OBVIOUS
<1>2. PICK m \in Nat \ T : \A k \in Nat \ T : ~ (<<k, m>> \in OpToRel(<, Nat))
  BY <1>1, WFMin, NatLessThanWellFounded
<1>3. m # 0 /\ m - 1 \in Nat /\ m - 1 < m OBVIOUS
<1>4. <<m - 1, m>> \in OpToRel(<, Nat) BY <1>3 DEF OpToRel
<1>5. m - 1 \in T BY <1>2, <1>3, <1>4
<1> QED BY <1>3, <1>5

Taken(s) == CHOOSE trace \in s : TRUE
SumStep(f, s) == IF s = {} THEN 0 ELSE Taken(s).row.tokens + f[s \ {Taken(s)}]
Sums(f, S) == f = [s \in SUBSET S |-> SumStep(f, s)]
Sum(S) == CHOOSE f : Sums(f, S)

LEMMA RecordedIsSum == Recorded = Sum(llm_calls)[llm_calls]
BY DEF Recorded, MapThenSumSet, MapThenFoldSet, Sum, Sums, SumStep, Taken

LEMMA PartsAreFinite ==
  ASSUME NEW S, IsFiniteSet(S), NEW s \in SUBSET S
  PROVE  IsFiniteSet(s) /\ Cardinality(s) \in Nat /\ Cardinality(s) <= Cardinality(S)
<1>1. IsFiniteSet(s) /\ Cardinality(s) <= Cardinality(S) BY FS_Subset
<1> QED BY <1>1, FS_CardinalityType

LEMMA OneLess ==
  ASSUME NEW S, IsFiniteSet(S), \A trace \in S : trace.row.tokens \in Nat,
         NEW s \in SUBSET S, s # {}
  PROVE  /\ s \ {Taken(s)} \in SUBSET S /\ Taken(s).row.tokens \in Nat
         /\ Cardinality(s) # 0
         /\ Cardinality(s \ {Taken(s)}) = Cardinality(s) - 1
<1>1. IsFiniteSet(s) BY PartsAreFinite
<1>2. Taken(s) \in s BY DEF Taken
<1>3. Cardinality(s) # 0 BY <1>1, FS_EmptySet
<1>4. Cardinality(s \ {Taken(s)}) = Cardinality(s) - 1 BY <1>1, <1>2, FS_RemoveElement
<1> QED BY <1>2, <1>3, <1>4

LEMMA SumIsDefined ==
  ASSUME NEW S, IsFiniteSet(S), \A trace \in S : trace.row.tokens \in Nat
  PROVE  Sums(Sum(S), S)
<1> DEFINE Right(f, s) == f[s] = SumStep(f, s) /\ f[s] \in Nat
           Upto(f, n) == /\ f = [s \in SUBSET S |-> f[s]]
                         /\ \A s \in SUBSET S : Cardinality(s) <= n => Right(f, s)
           T == {n \in Nat : \E f : Upto(f, n)}
<1>1. 0 \in T
  <2> DEFINE g == [s \in SUBSET S |-> 0]
  <2>1. ASSUME NEW s \in SUBSET S, Cardinality(s) <= 0 PROVE Right(g, s)
    <3>1. IsFiniteSet(s) /\ Cardinality(s) = 0 BY <2>1, PartsAreFinite
    <3>2. s = {} BY <3>1, FS_EmptySet
    <3> QED BY <3>2 DEF SumStep
  <2>2. g = [s \in SUBSET S |-> g[s]] OBVIOUS
  <2>3. Upto(g, 0)
    <3> HIDE DEF g, Right
    <3> QED BY <2>1, <2>2
  <2> HIDE DEF g, Upto
  <2>4. \E k : Upto(k, 0) BY <2>3
  <2> QED BY <2>4
<1>2. ASSUME NEW n \in Nat, n \in T PROVE n + 1 \in T
  <2>1. PICK f : Upto(f, n) BY <1>2
  <2> DEFINE g == [s \in SUBSET S |-> IF Cardinality(s) <= n THEN f[s] ELSE SumStep(f, s)]
  <2>2. ASSUME NEW s \in SUBSET S, Cardinality(s) <= n PROVE Right(f, s) /\ g[s] = f[s]
    BY <2>1, <2>2
  <2>3. ASSUME NEW s \in SUBSET S, Cardinality(s) <= n + 1 PROVE Right(g, s)
    <3>1. CASE s = {}
      <4>1. Cardinality(s) <= n BY <3>1, FS_EmptySet
      <4>2. Right(f, s) /\ g[s] = f[s] BY <4>1, <2>2
      <4> QED BY <4>2, <3>1 DEF SumStep
    <3>2. CASE s # {}
      <4> DEFINE r == s \ {Taken(s)}
      <4>1. r \in SUBSET S /\ Cardinality(r) <= n /\ Taken(s).row.tokens \in Nat
        <5>1. /\ r \in SUBSET S /\ Taken(s).row.tokens \in Nat
              /\ Cardinality(s) \in Nat /\ Cardinality(r) = Cardinality(s) - 1
          BY <3>2, OneLess, PartsAreFinite
        <5> QED BY <5>1, <2>3
      <4>2. f[r] \in Nat /\ g[r] = f[r] BY <4>1, <2>2
      <4>3. SumStep(g, s) = SumStep(f, s) /\ SumStep(f, s) \in Nat
        <5> HIDE DEF g
        <5> QED BY <3>2, <4>1, <4>2 DEF SumStep
      <4>4. Cardinality(s) <= n => f[s] = SumStep(f, s) BY <2>2
      <4>5. g[s] = IF Cardinality(s) <= n THEN f[s] ELSE SumStep(f, s) BY Zenon
      <4>6. g[s] = SumStep(f, s)
        <5> HIDE DEF g
        <5> QED BY <4>4, <4>5
      <4> HIDE DEF g
      <4> QED BY <4>3, <4>6
    <3> QED BY <3>1, <3>2
  <2>4. g = [s \in SUBSET S |-> g[s]] OBVIOUS
  <2>5. Upto(g, n + 1)
    <3> HIDE DEF g, Right
    <3> QED BY <2>3, <2>4
  <2> HIDE DEF g, Upto
  <2>6. \E k : Upto(k, n + 1) BY <2>5
  <2> QED BY <2>6
<1>3. Cardinality(S) \in T
  <2> HIDE DEF T
  <2> QED BY <1>1, <1>2, Induction, FS_CardinalityType
<1>4. PICK f : Upto(f, Cardinality(S)) BY <1>3
<1>5. Sums(f, S) BY PartsAreFinite, <1>4 DEF Sums
<1>6. Sums(Sum(S), S) BY <1>5 DEF Sum
<1> QED BY <1>6

LEMMA SumIsNumber ==
  ASSUME NEW S, IsFiniteSet(S), \A trace \in S : trace.row.tokens \in Nat
  PROVE  Sum(S)[S] \in Nat
<1>1. PICK h : h = Sum(S) OBVIOUS
<1>2. \A s \in SUBSET S : h[s] = SumStep(h, s) BY <1>1, SumIsDefined DEF Sums
<1> DEFINE N == {m \in Nat : \A s \in SUBSET S : Cardinality(s) <= m => h[s] \in Nat}
<1>3. 0 \in N
  <2>1. ASSUME NEW s \in SUBSET S, Cardinality(s) <= 0 PROVE h[s] \in Nat
    <3>1. IsFiniteSet(s) /\ Cardinality(s) = 0 BY <2>1, PartsAreFinite
    <3>2. s = {} BY <3>1, FS_EmptySet
    <3>3. SumStep(h, s) = 0 BY <3>2 DEF SumStep
    <3> QED BY <1>2, <3>3
  <2> QED BY <2>1
<1>4. ASSUME NEW m \in Nat, m \in N PROVE m + 1 \in N
  <2>1. ASSUME NEW s \in SUBSET S, Cardinality(s) <= m + 1 PROVE h[s] \in Nat
    <3>1. CASE s = {}
      <4>1. SumStep(h, s) = 0 BY <3>1 DEF SumStep
      <4> QED BY <1>2, <4>1
    <3>2. CASE s # {}
      <4> DEFINE r == s \ {Taken(s)}
      <4>1. /\ r \in SUBSET S /\ Taken(s).row.tokens \in Nat
            /\ Cardinality(s) \in Nat /\ Cardinality(r) = Cardinality(s) - 1
        BY <3>2, OneLess, PartsAreFinite
      <4>2. h[r] \in Nat BY <2>1, <4>1, <1>4
      <4>3. SumStep(h, s) = Taken(s).row.tokens + h[r] BY <3>2 DEF SumStep
      <4> HIDE DEF r
      <4>4. SumStep(h, s) \in Nat BY <4>1, <4>2, <4>3
      <4> QED BY <1>2, <4>4
    <3> QED BY <3>1, <3>2
  <2> QED BY <2>1
<1>5. Cardinality(S) \in N
  <2> HIDE DEF N
  <2> QED BY <1>3, <1>4, Induction, FS_CardinalityType
<1>6. Cardinality(S) \in Nat BY FS_CardinalityType
<1> QED BY <1>1, <1>5, <1>6

----------------------------------------------------------------------------
(* Once the ceiling is reached and nobody is at work: who still comes is    *)
(* over budget, and has no row whose commit would change the sum.           *)

LEMMA RowsStayFinite == IsFiniteSet(llm_calls) /\ [Next]_vars => IsFiniteSet(llm_calls)'
<1> SUFFICES ASSUME IsFiniteSet(llm_calls), [Next]_vars PROVE IsFiniteSet(llm_calls)'
  OBVIOUS
<1>1. CASE UNCHANGED vars BY <1>1 DEF vars
<1>2. ASSUME NEW c \in Calls, Begin(c) \/ OverBudget(c) \/ Work(c) \/ Fail(c)
      PROVE  IsFiniteSet(llm_calls')
  <2>1. CASE llm_calls' = llm_calls BY <2>1
  <2>2. CASE Commit(c)
    <3> DEFINE t == [call |-> c, row |-> pending[c]]
    <3>1. llm_calls' = llm_calls \/ llm_calls' = llm_calls \union {t} BY <2>2 DEF Commit
    <3> HIDE DEF t
    <3>2. IsFiniteSet(llm_calls \union {t}) BY FS_AddElement
    <3> QED BY <3>1, <3>2
  <2>3. Commit(c) \/ llm_calls' = llm_calls
    BY <1>2 DEF Begin, OverBudget, Work, Fail, Unserved, Valid, Repair, Unrepaired, Denied,
       FallsBack, Exhausted, Breaks, Rejected, RollBack
  <2> QED BY <2>1, <2>2, <2>3
<1> QED BY <1>1, <1>2 DEF Next

LEMMA RowsAreFinite == Spec => []IsFiniteSet(llm_calls)
<1>1. Init => IsFiniteSet(llm_calls) BY FS_EmptySet DEF Init
<1> QED BY <1>1, RowsStayFinite, PTL DEF Spec

LEMMA RecordedIsNumber ==
  ASSUME RouterInv, IsFiniteSet(llm_calls)
  PROVE  Recorded \in Nat
<1>1. \A trace \in llm_calls : trace.row.tokens \in Nat BY DEF RouterInv, TracesInv, Row
<1> QED BY <1>1, RecordedIsSum, SumIsNumber

Sealed(c, n) ==
  /\ Recorded >= Ceiling /\ Replies(c) = n
  /\ \A d \in Calls : at[d] \notin {"asking", "answered"} /\ pending[d] = NoRow

LEMMA AtRestIsSealed ==
  ASSUME RouterInv, NEW c \in Calls, NEW n,
         Recorded >= Ceiling /\ (\A d \in Calls : ~Open(d)) /\ Replies(c) = n
  PROVE  Sealed(c, n)
BY DEF Sealed, Open, RouterInv, CallInv

LEMMA SealHolds ==
  ASSUME RouterInv, IsFiniteSet(llm_calls), [Next]_vars, NEW c \in Calls, NEW n, Sealed(c, n)
  PROVE  Sealed(c, n)'
<1>1. UNCHANGED <<llm_calls, asked>> =>
        Recorded' = Recorded /\ Replies(c)' = Replies(c)
  <2>1. Recorded' = Sum(llm_calls')[llm_calls']
    BY DEF Recorded, MapThenSumSet, MapThenFoldSet, Sum, Sums, SumStep, Taken
  <2> QED BY <2>1, RecordedIsSum DEF Replies
<1>2. CASE UNCHANGED vars BY <1>1, <1>2 DEF vars, Sealed
<1>3. ASSUME NEW d \in Calls, Begin(d) \/ OverBudget(d) \/ Work(d) \/ Fail(d)
      PROVE  Sealed(c, n)'
  <2>1. at[d] \notin {"asking", "answered"} /\ pending[d] = NoRow BY DEF Sealed
  <2>2. ~Begin(d)
    <3>1. Recorded \in Nat /\ Ceiling \in Nat BY RecordedIsNumber, RouterAssumption
    <3>2. ~(Recorded < Ceiling)
      <4> HIDE DEF Recorded
      <4> QED BY <3>1 DEF Sealed
    <3> QED BY <3>2 DEF Begin
  <2>3. OverBudget(d) \/ Commit(d) \/ Rejected(d) \/ Fail(d)
    BY <1>3, <2>1, <2>2 DEF Work, Unserved, Valid, Repair, Unrepaired, Denied, FallsBack,
       Exhausted, Breaks, Asking, AtCandidate
  <2>4. /\ UNCHANGED <<llm_calls, asked>>
        /\ \E place \in {"raised", "committed", "rolled_back"} : at' = [at EXCEPT ![d] = place]
        /\ pending' = pending \/ pending' = [pending EXCEPT ![d] = NoRow]
    BY <2>1, <2>3 DEF OverBudget, Commit, Rejected, Fail, RollBack, Goto
  <2>5. \A q \in Calls : at'[q] \notin {"asking", "answered"} /\ pending'[q] = NoRow
    BY <2>4 DEF Sealed, RouterInv, Shapes
  <2> QED BY <1>1, <2>4, <2>5 DEF Sealed
<1> QED BY <1>2, <1>3 DEF Next

\* "token budget ceiling exceeded": whatever the calls that were under way together
\* added, once the rows reach the ceiling and nobody is at work, no model is asked
\* again.
THEOREM CeilingStaysReached == Spec => CeilingIsFinal
<1> SUFFICES ASSUME NEW c \in Calls, NEW n \in 0 .. 1
             PROVE  Spec => [](Recorded >= Ceiling /\ (\A d \in Calls : ~Open(d)) /\ Replies(c) = n
                                 => [](Replies(c) = n))
  BY DEF CeilingIsFinal
<1>1. RouterInv /\ Recorded >= Ceiling /\ (\A d \in Calls : ~Open(d)) /\ Replies(c) = n
        => Sealed(c, n)
  BY AtRestIsSealed
<1>2. RouterInv /\ IsFiniteSet(llm_calls) /\ [Next]_vars /\ Sealed(c, n) => Sealed(c, n)'
  BY SealHolds
<1>3. Sealed(c, n) => Replies(c) = n
  BY DEF Sealed
<1> QED BY <1>1, <1>2, <1>3, RouterInvariant, RowsAreFinite, PTL DEF Spec
=============================================================================
