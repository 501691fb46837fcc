---------------------------- MODULE AnalysisProofs ----------------------------
(***************************************************************************)
(* Proofs about Analysis and the functions it is built from: what the      *)
(* rules find, what the graph says, what the verdicts and the risk are     *)
(* worth, for any observations, feed, model and number of attempts; and,   *)
(* with the same lemmas on loops, that the answers of Traversal over any   *)
(* graph are complete, however it grows while they are gathered.           *)
(***************************************************************************)
EXTENDS Analysis, Traversal, FiniteSetTheorems, WellFoundedInduction, TLAPS

-----------------------------------------------------------------------------
(* Induction over data: on numbers, on the parts of a finite set, and what   *)
(* makes the recursion of a fold well defined.                               *)

LEMMA Induction ==
    ASSUME NEW T, 0 \in T, \A n \in Nat : n \in T => n + 1 \in T
    PROVE  \A n \in Nat : n \in T
<1>1. SUFFICES ASSUME Nat \ T # {} PROVE FALSE
  OBVIOUS
<1>2. PICK m \in Nat \ T : \A k \in Nat \ T : ~ (<<k, m>> \in OpToRel(<, Nat))
  BY <1>1, WFMin, NatLessThanWellFounded
<1>3. m # 0 /\ m - 1 \in Nat /\ m - 1 < m
  OBVIOUS
<1>4. <<m - 1, m>> \in OpToRel(<, Nat)
  BY <1>3 DEF OpToRel
<1>5. m - 1 \in T
  BY <1>2, <1>3, <1>4
<1> QED BY <1>3, <1>5

LEMMA PartIsSmaller ==
    ASSUME NEW S, IsFiniteSet(S), NEW r \in SUBSET S
    PROVE  /\ IsFiniteSet(r) /\ Cardinality(r) \in Nat /\ Cardinality(S) \in Nat
           /\ Cardinality(r) <= Cardinality(S)
           /\ r # S => Cardinality(r) < Cardinality(S)
<1>1. /\ IsFiniteSet(r) /\ Cardinality(r) <= Cardinality(S)
      /\ Cardinality(S) = Cardinality(r) => S = r
  BY FS_Subset
<1>2. Cardinality(r) \in Nat /\ Cardinality(S) \in Nat
  BY <1>1, FS_CardinalityType
<1> QED BY <1>1, <1>2

LEMMA OneLess ==
    ASSUME NEW S, IsFiniteSet(S), NEW x \in S
    PROVE  /\ S \ {x} \in SUBSET S /\ IsFiniteSet(S \ {x})
           /\ Cardinality(S) \in Nat \ {0}
           /\ Cardinality(S \ {x}) = Cardinality(S) - 1
<1>1. IsFiniteSet(S \ {x}) /\ Cardinality(S \ {x}) = Cardinality(S) - 1
  BY FS_RemoveElement
<1>2. Cardinality(S) \in Nat /\ Cardinality(S) # 0
  BY FS_CardinalityType, FS_EmptySet
<1> QED BY <1>1, <1>2

\* what holds of a set as soon as it holds of all its smaller parts
LEMMA PartsInduction ==
    ASSUME NEW S, IsFiniteSet(S), NEW T,
           \A s \in SUBSET S : (\A r \in SUBSET s : r # s => r \in T) => s \in T
    PROVE  \A s \in SUBSET S : s \in T
<1> DEFINE U == {n \in Nat : \A s \in SUBSET S : Cardinality(s) < n => s \in T}
<1>1. \A s \in SUBSET S : Cardinality(s) \in Nat /\ Cardinality(s) <= Cardinality(S)
  BY PartIsSmaller
<1>2. 0 \in U
  BY <1>1
<1>3. ASSUME NEW n \in Nat, n \in U PROVE n + 1 \in U
  <2>1. SUFFICES ASSUME NEW s \in SUBSET S, Cardinality(s) < n + 1 PROVE s \in T
    OBVIOUS
  <2>2. ASSUME NEW r \in SUBSET s, r # s PROVE r \in T
    <3>1. IsFiniteSet(s)
      BY PartIsSmaller
    <3>2. Cardinality(r) < Cardinality(s)
      BY <2>2, <3>1, PartIsSmaller
    <3>3. QED
      BY <3>2, <2>1, <1>1, <1>3
  <2>3. QED
    BY <2>2
<1>4. Cardinality(S) + 1 \in U
  <2> HIDE DEF U
  <2>1. QED
    BY <1>2, <1>3, Induction, FS_CardinalityType
<1> QED BY <1>1, <1>4, FS_CardinalityType

\* an element of the greatest weight
LEMMA Heaviest ==
    ASSUME NEW S, IsFiniteSet(S), S # {}, NEW w \in [S -> Int]
    PROVE  \E x \in S : \A y \in S : w[y] <= w[x]
<1> DEFINE T == {s \in SUBSET S : s # {} => \E x \in s : \A y \in s : w[y] <= w[x]}
<1>1. ASSUME NEW s \in SUBSET S, \A r \in SUBSET s : r # s => r \in T
      PROVE  s \in T
  <2>1. SUFFICES ASSUME s # {} PROVE \E x \in s : \A y \in s : w[y] <= w[x]
    OBVIOUS
  <2>2. PICK z \in s : TRUE
    BY <2>1
  <2>3. s \ {z} \in T
    BY <1>1
  <2>4. CASE s \ {z} = {}
    BY <2>4
  <2>5. CASE s \ {z} # {}
    <3>1. PICK x \in s \ {z} : \A y \in s \ {z} : w[y] <= w[x]
      BY <2>3, <2>5
    <3>2. w[x] \in Int /\ w[z] \in Int
      OBVIOUS
    <3>3. \A y \in s : y = z \/ w[y] <= w[x]
      BY <3>1
    <3>4. CASE w[z] <= w[x]
      BY <3>3, <3>4
    <3>5. CASE w[x] <= w[z]
      <4>1. \A y \in s : w[y] <= w[z]
        BY <3>2, <3>3, <3>5
      <4>2. QED
        BY <4>1
    <3> QED BY <3>2, <3>4, <3>5
  <2> QED BY <2>4, <2>5
<1>2. S \in T
  <2> HIDE DEF T
  <2>1. QED
    BY <1>1, PartsInduction
<1> QED BY <1>2

LEMMA HighestIs ==
    ASSUME NEW S \in SUBSET Int, IsFiniteSet(S), S # {}
    PROVE  Max(S) \in S /\ \A y \in S : y <= Max(S)
<1> DEFINE w == [x \in S |-> x]
<1>1. \E x \in S : \A y \in S : w[y] <= w[x]
  BY Heaviest
<1>2. \E x \in S : \A y \in S : x >= y
  BY <1>1
<1>3. Max(S) \in S /\ \A y \in S : Max(S) >= y
  BY <1>2 DEF Max
<1> QED BY <1>3

\* a fold takes one element after another from a set; W says of each part what its
\* value can be
Folds(S, W, base, pick, op) ==
  /\ IsFiniteSet(S) /\ base \in W[{}]
  /\ \A s \in SUBSET S : s # {} =>
       /\ pick[s] \in s
       /\ \A v \in W[s \ {pick[s]}] : op[<<pick[s], v>>] \in W[s]
IsFold(f, S, W, base, pick, op) ==
  /\ f = [s \in SUBSET S |-> f[s]]
  /\ \A s \in SUBSET S :
       /\ f[s] = IF s = {} THEN base ELSE op[<<pick[s], f[s \ {pick[s]}]>>]
       /\ f[s] \in W[s]

LEMMA FoldIsDefined ==
    ASSUME NEW S, NEW W, NEW base, NEW pick, NEW op, Folds(S, W, base, pick, op)
    PROVE  \E f : IsFold(f, S, W, base, pick, op)
<1> DEFINE Step(f, s) == IF s = {} THEN base ELSE op[<<pick[s], f[s \ {pick[s]}]>>]
           Right(f, s) == f[s] = Step(f, s) /\ f[s] \in W[s]
           Upto(f, n) == /\ f = [s \in SUBSET S |-> f[s]]
                         /\ \A s \in SUBSET S : Cardinality(s) <= n => Right(f, s)
           T == {n \in Nat : \E f : Upto(f, n)}
<1>1. ASSUME NEW s \in SUBSET S, s # {}
      PROVE  /\ pick[s] \in s /\ s \ {pick[s]} \in SUBSET S /\ Cardinality(s) \in Nat \ {0}
             /\ Cardinality(s \ {pick[s]}) = Cardinality(s) - 1
             /\ \A v \in W[s \ {pick[s]}] : op[<<pick[s], v>>] \in W[s]
  <2>1. /\ pick[s] \in s /\ IsFiniteSet(s)
        /\ \A v \in W[s \ {pick[s]}] : op[<<pick[s], v>>] \in W[s]
    BY <1>1, FS_Subset DEF Folds
  <2>2. Cardinality(s) \in Nat \ {0} /\ Cardinality(s \ {pick[s]}) = Cardinality(s) - 1
    BY <2>1, OneLess
  <2> QED BY <2>1, <2>2
<1>2. base \in W[{}] /\ IsFiniteSet(S)
  BY DEF Folds
<1>3. 0 \in T
  <2> DEFINE g == [s \in SUBSET S |-> base]
  <2>1. ASSUME NEW s \in SUBSET S, Cardinality(s) <= 0 PROVE Right(g, s)
    <3>1. s = {}
      <4>1. SUFFICES ASSUME s # {} PROVE FALSE
        OBVIOUS
      <4>2. Cardinality(s) \in Nat \ {0}
        BY <4>1, <1>1
      <4> QED BY <4>2, <2>1
    <3> QED BY <3>1, <1>2
  <2>2. Upto(g, 0)
    BY <2>1
  <2>3. \E k : Upto(k, 0)
    <3> HIDE DEF g, Upto
    <3> QED BY <2>2
  <2> HIDE DEF Upto
  <2> QED BY <2>3
<1>4. ASSUME NEW n \in Nat, n \in T PROVE n + 1 \in T
  <2>1. PICK f : Upto(f, n)
    BY <1>4
  <2> DEFINE g == [s \in SUBSET S |-> IF Cardinality(s) <= n THEN f[s] ELSE Step(f, s)]
  <2>2. ASSUME NEW s \in SUBSET S, Cardinality(s) <= n PROVE Right(f, s) /\ g[s] = f[s]
    BY <2>1, <2>2
  <2>3. ASSUME NEW s \in SUBSET S, Cardinality(s) <= n + 1 PROVE Right(g, s)
    <3>1. CASE s = {}
      <4>1. Cardinality(s) <= n
        BY <3>1, FS_EmptySet
      <4>2. Right(f, s) /\ g[s] = f[s]
        BY <4>1, <2>2
      <4>3. Step(g, s) = Step(f, s)
        BY <3>1
      <4> HIDE DEF Step, g
      <4> QED BY <4>2, <4>3
    <3>2. CASE s # {}
      <4> DEFINE r == s \ {pick[s]}
      <4>1. r \in SUBSET S /\ Cardinality(r) <= n
        <5>1. r \in SUBSET S /\ Cardinality(s) \in Nat /\ Cardinality(r) = Cardinality(s) - 1
          BY <3>2, <1>1
        <5> QED BY <5>1, <2>3
      <4>2. Right(f, r) /\ g[r] = f[r]
        BY <4>1, <2>2
      <4>3. Step(g, s) = Step(f, s)
        BY <4>2
      <4>4. Step(f, s) \in W[s]
        <5>1. f[r] \in W[r]
          BY <4>2
        <5>2. op[<<pick[s], f[r]>>] \in W[s]
          BY <5>1, <3>2, <1>1
        <5> QED BY <5>2, <3>2
      <4>5. Cardinality(s) <= n => f[s] = Step(f, s)
        BY <2>2
      <4>6. g[s] = IF Cardinality(s) <= n THEN f[s] ELSE Step(f, s)
        BY Zenon
      <4>7. g[s] = Step(f, s)
        <5> HIDE DEF Step, g
        <5> QED BY <4>5, <4>6
      <4> HIDE DEF Step, g
      <4> QED BY <4>3, <4>4, <4>7
    <3> QED BY <3>1, <3>2
  <2>4. Upto(g, n + 1)
    <3> HIDE DEF Right
    <3> QED BY <2>3
  <2>5. \E k : Upto(k, n + 1)
    <3> HIDE DEF g, Upto
    <3> QED BY <2>4
  <2> HIDE DEF Upto
  <2> QED BY <2>5
<1>5. Cardinality(S) \in T
  <2> HIDE DEF T
  <2> QED BY <1>2, <1>3, <1>4, Induction, FS_CardinalityType
<1>6. PICK f : Upto(f, Cardinality(S))
  BY <1>5
<1>7. \A s \in SUBSET S : Cardinality(s) <= Cardinality(S)
  BY <1>2, PartIsSmaller
<1>8. IsFold(f, S, W, base, pick, op)
  BY <1>6, <1>7 DEF IsFold
<1> QED BY <1>8

-----------------------------------------------------------------------------
(* What a set is when it is listed                                           *)

Arbitrary(s) == CHOOSE x \in s : TRUE
ListStep(f, s) ==
  IF s = {} THEN <<>> ELSE Append(f[s \ {Arbitrary(s)}], Arbitrary(s))
Listing(S) == CHOOSE f : f = [s \in SUBSET S |-> ListStep(f, s)]

LEMMA ListedIsFolded == \A S : Listed(S) = Listing(S)[S]
BY DEF Listed, FoldSet, MapThenFoldSet, Listing, ListStep, Arbitrary

LEMMA ListingIsDefined ==
    ASSUME NEW S, IsFiniteSet(S)
    PROVE  Listing(S) = [s \in SUBSET S |-> ListStep(Listing(S), s)]
<1> DEFINE pick == [s \in SUBSET S |-> Arbitrary(s)]
           op == [p \in S \X Seq(S) |-> Append(p[2], p[1])]
           W == [s \in SUBSET S |-> Seq(S)]
<1>1. \A s \in SUBSET S : s # {} => pick[s] \in s
  BY DEF Arbitrary
<1>2. \A x \in S, v \in Seq(S) : op[<<x, v>>] \in Seq(S) /\ op[<<x, v>>] = Append(v, x)
  OBVIOUS
<1>3. <<>> \in Seq(S)
  OBVIOUS
<1> HIDE DEF op
<1>4. Folds(S, W, <<>>, pick, op)
  <2>1. ASSUME NEW s \in SUBSET S, s # {}
        PROVE  pick[s] \in s /\ \A v \in W[s \ {pick[s]}] : op[<<pick[s], v>>] \in W[s]
    <3>1. pick[s] \in s /\ pick[s] \in S /\ s \ {pick[s]} \in SUBSET S
      BY <1>1, <2>1
    <3> HIDE DEF pick
    <3> QED BY <3>1, <1>2
  <2>2. <<>> \in W[{}]
    OBVIOUS
  <2> HIDE DEF pick, W
  <2> QED BY <2>1, <2>2 DEF Folds
<1>5. PICK f : IsFold(f, S, W, <<>>, pick, op)
  <2> HIDE DEF pick, W
  <2> QED BY <1>4, FoldIsDefined
<1>6. ASSUME NEW s \in SUBSET S PROVE f[s] = ListStep(f, s)
  <2>1. CASE s = {}
    BY <2>1, <1>5 DEF ListStep, IsFold
  <2>2. CASE s # {}
    <3>1. Arbitrary(s) \in S /\ s \ {Arbitrary(s)} \in SUBSET S
      BY <2>2, <1>1
    <3>2. f[s \ {Arbitrary(s)}] \in Seq(S)
      BY <3>1, <1>5 DEF IsFold
    <3> QED BY <2>2, <3>1, <3>2, <1>2, <1>5 DEF ListStep, IsFold
  <2> QED BY <2>1, <2>2
<1>7. f = [s \in SUBSET S |-> ListStep(f, s)]
  BY <1>5, <1>6 DEF IsFold
<1> QED BY <1>7 DEF Listing

LEMMA ListedIs ==
    ASSUME NEW S, IsFiniteSet(S)
    PROVE  /\ Listed(S) \in Seq(S) /\ Len(Listed(S)) = Cardinality(S)
           /\ \A x \in S : \E i \in 1..Len(Listed(S)) : Listed(S)[i] = x
           /\ \A i, j \in 1..Len(Listed(S)) : i # j => Listed(S)[i] # Listed(S)[j]
<1> DEFINE Lists(q, s) == /\ q \in Seq(S) /\ Len(q) = Cardinality(s)
                          /\ {q[i] : i \in 1..Len(q)} = s
                          /\ \A i, j \in 1..Len(q) : i # j => q[i] # q[j]
           T == {s \in SUBSET S : Lists(Listing(S)[s], s)}
<1>1. ASSUME NEW s \in SUBSET S, \A r \in SUBSET s : r # s => r \in T PROVE s \in T
  <2>1. Listing(S)[s] = ListStep(Listing(S), s)
    BY ListingIsDefined
  <2>2. CASE s = {}
    <3>1. Listing(S)[s] = <<>> /\ Cardinality(s) = 0
      BY <2>1, <2>2, FS_EmptySet DEF ListStep
    <3>2. Lists(<<>>, s)
      BY <2>2, <3>1
    <3>3. Lists(Listing(S)[s], s)
      BY <3>1, <3>2
    <3> QED BY <3>3
  <2>3. CASE s # {}
    <3> DEFINE x == Arbitrary(s)  r == s \ {x}  q == Listing(S)[r]
    <3>1. /\ x \in s /\ r \in SUBSET s /\ r # s /\ x \notin r /\ s = r \cup {x}
          /\ Cardinality(s) \in Nat /\ Cardinality(r) = Cardinality(s) - 1
      <4>1. x \in s
        BY <2>3 DEF Arbitrary
      <4>2. IsFiniteSet(s)
        BY FS_Subset
      <4>3. Cardinality(s) \in Nat /\ Cardinality(r) = Cardinality(s) - 1
        BY <4>1, <4>2, OneLess
      <4> QED BY <4>1, <4>3
    <3>2. Lists(q, r)
      BY <3>1, <1>1
    <3>3. Listing(S)[s] = Append(q, x)
      BY <2>1, <2>3 DEF ListStep
    <3> HIDE DEF x, r, q
    <3>4. /\ q \in Seq(S) /\ x \in S /\ Append(q, x) \in Seq(S)
          /\ Len(q) \in Nat /\ Len(Append(q, x)) = Len(q) + 1
      BY <3>1, <3>2
    <3>5. \A i \in 1..Len(q) + 1 : Append(q, x)[i] = IF i = Len(q) + 1 THEN x ELSE q[i]
      BY <3>4
    <3>6. {Append(q, x)[i] : i \in 1..Len(q) + 1} = {q[i] : i \in 1..Len(q)} \cup {x}
      BY <3>5, <3>4
    <3>7. \A i \in 1..Len(q) : q[i] # x
      BY <3>1, <3>2
    <3>8. \A i, j \in 1..Len(q) + 1 : i # j => Append(q, x)[i] # Append(q, x)[j]
      <4>1. SUFFICES ASSUME NEW i \in 1..Len(q) + 1, NEW j \in 1..Len(q) + 1, i # j
                     PROVE  Append(q, x)[i] # Append(q, x)[j]
        OBVIOUS
      <4>2. \A k \in 1..Len(q) + 1 : k = Len(q) + 1 \/ k \in 1..Len(q)
        BY <3>4
      <4> QED BY <4>1, <4>2, <3>5, <3>7, <3>2
    <3>9. Lists(Append(q, x), s)
      <4>1. Len(Append(q, x)) = Cardinality(s)
        BY <3>1, <3>2, <3>4
      <4>2. {Append(q, x)[i] : i \in 1..Len(q) + 1} = s
        BY <3>1, <3>2, <3>6
      <4> QED BY <3>4, <4>1, <4>2, <3>8
    <3>10. Lists(Listing(S)[s], s)
      BY <3>3, <3>9
    <3> QED BY <3>10
  <2> QED BY <2>2, <2>3
<1>2. S \in T
  <2> HIDE DEF T
  <2> QED BY <1>1, PartsInduction
<1> QED BY <1>2, ListedIsFolded

-----------------------------------------------------------------------------
(* Risk: what a roll-up can be, and what a blend makes of it                 *)

RuleNames ==
  {"R-AUTH-001", "R-AUTH-002", "R-AUTH-003", "R-AUTH-004", "R-WEB-001", "R-WEB-002",
   "R-WEB-003", "R-WEB-004", "R-WEB-005", "R-WEB-006", "R-WEB-007", "R-WEB-008",
   "R-URL-000", "R-URL-001", "R-URL-002", "R-URL-003", "R-URL-004", "none",
   "parse_summary", "threat_intel.reputation", "triage.ioc_inventory",
   "triage.classification", "triage.deterministic_fallback", "mitre.mapping",
   "correlation.graph_construction", "reasoning.attack_chain",
   "reasoning.correlation_summary", "hypothesis.generation",
   "validation.hypothesis_review"}
Entries ==
  [rule : RuleNames, class : Classes, severity : Severities, confidence : 0..100,
   grounded : BOOLEAN, hints : SUBSET Keywords]
Totals == [total : Nat, top : 0..4]

RollAdd(acc, f) ==
  IF IsDecision(f) \/ f.class = "unknown" THEN acc
  ELSE [total |-> acc.total + Contribution(f), top |-> Larger(acc.top, Rank(f.severity))]
RollStep(q, f, s) ==
  IF s = {} THEN [total |-> 0, top |-> 0] ELSE RollAdd(f[s \ {Max(s)}], q[Max(s)])
Rolling(q) == CHOOSE f : f = [s \in SUBSET DOMAIN q |-> RollStep(q, f, s)]

LEMMA RollUpIsFolded == \A q : RollUp(q) = Rolling(q)[DOMAIN q]
BY DEF RollUp, FoldLeft, MapThenFoldSet, Rolling, RollStep, RollAdd

LEMMA EntriesAreRated ==
    ASSUME NEW f \in Entries
    PROVE  /\ f.severity \in Severities /\ f.class \in Classes /\ f.confidence \in 0..100
           /\ Rank(f.severity) \in 0..4
           /\ Contribution(f) \in Nat
<1>1. f.severity \in Severities /\ f.class \in Classes /\ f.confidence \in 0..100
  BY DEF Entries
<1>2. Rank(f.severity) \in 0..4
  BY <1>1 DEF Severities, Rank
<1>3. Weight(f.severity) \in {1, 4, 10, 25, 45}
  BY <1>1 DEF Severities, Weight
<1>4. \A c \in 0..100, w \in {1, 4, 10, 25, 45} : w * c \in Nat /\ 2 * w * c \in Nat
  OBVIOUS
<1>5. /\ Weight(f.severity) * f.confidence \in Nat
      /\ 2 * Weight(f.severity) * f.confidence \in Nat
  BY <1>1, <1>3, <1>4
<1>6. Contribution(f) \in Nat
  BY <1>1, <1>5 DEF Contribution, Classes
<1> QED BY <1>1, <1>2, <1>6

LEMMA RollAddIsTotal ==
    ASSUME NEW acc \in Totals, NEW f \in Entries
    PROVE  RollAdd(acc, f) \in Totals
<1>1. /\ acc.total \in Nat /\ acc.top \in 0..4
  BY DEF Totals
<1>2. acc.total + Contribution(f) \in Nat
  BY <1>1, EntriesAreRated
<1>3. Larger(acc.top, Rank(f.severity)) \in 0..4
  BY <1>1, EntriesAreRated DEF Larger
<1> QED BY <1>2, <1>3 DEF RollAdd, Totals

\* the highest place of a part of a sequence is one of its places
LEMMA PlacesHaveAHighest ==
    ASSUME NEW W, NEW q \in Seq(W)
    PROVE  /\ IsFiniteSet(DOMAIN q) /\ DOMAIN q = 1..Len(q)
           /\ \A s \in SUBSET DOMAIN q : s # {} =>
                Max(s) \in s /\ \A y \in s : y <= Max(s)
<1>1. IsFiniteSet(DOMAIN q) /\ DOMAIN q = 1..Len(q)
  BY FS_Interval
<1>2. ASSUME NEW s \in SUBSET DOMAIN q, s # {}
      PROVE  Max(s) \in s /\ \A y \in s : y <= Max(s)
  <2>1. IsFiniteSet(s) /\ s \in SUBSET Int
    BY <1>1, FS_Subset
  <2> QED BY <2>1, <1>2, HighestIs
<1> QED BY <1>1, <1>2

LEMMA RollUpIs ==
    ASSUME NEW q \in Seq(Entries)
    PROVE  RollUp(q) \in Totals
<1> DEFINE S == DOMAIN q
           base == [total |-> 0, top |-> 0]
           pick == [s \in SUBSET S |-> Max(s)]
           op == [p \in S \X Totals |-> RollAdd(p[2], q[p[1]])]
           W == [s \in SUBSET S |-> Totals]
<1>1. IsFiniteSet(S) /\ \A s \in SUBSET S : s # {} => pick[s] \in s /\ pick[s] = Max(s)
  BY PlacesHaveAHighest
<1>2. \A x \in S, v \in Totals : op[<<x, v>>] = RollAdd(v, q[x]) /\ op[<<x, v>>] \in Totals
  <2>1. \A x \in S : q[x] \in Entries
    OBVIOUS
  <2> QED BY <2>1, RollAddIsTotal
<1>3. base \in Totals
  BY DEF Totals
<1> HIDE DEF op, pick
<1>4. Folds(S, W, base, pick, op)
  <2>1. ASSUME NEW s \in SUBSET S, s # {}
        PROVE  pick[s] \in s /\ \A v \in W[s \ {pick[s]}] : op[<<pick[s], v>>] \in W[s]
    <3>1. pick[s] \in s /\ pick[s] \in S /\ s \ {pick[s]} \in SUBSET S
      BY <1>1, <2>1
    <3> QED BY <3>1, <1>2
  <2>2. base \in W[{}]
    BY <1>3
  <2> HIDE DEF W, base
  <2> QED BY <1>1, <2>1, <2>2 DEF Folds
<1>5. PICK f : IsFold(f, S, W, base, pick, op)
  <2> HIDE DEF S, base, W
  <2> QED BY <1>4, FoldIsDefined
<1>6. ASSUME NEW s \in SUBSET S PROVE f[s] = RollStep(q, f, s)
  <2>1. CASE s = {}
    BY <2>1, <1>5 DEF RollStep, IsFold
  <2>2. CASE s # {}
    <3>1. pick[s] = Max(s) /\ Max(s) \in S /\ s \ {Max(s)} \in SUBSET S
      BY <2>2, <1>1
    <3>2. f[s \ {Max(s)}] \in Totals
      BY <3>1, <1>5 DEF IsFold
    <3> QED BY <2>2, <3>1, <3>2, <1>2, <1>5 DEF RollStep, IsFold
  <2> QED BY <2>1, <2>2
<1>7. f = [s \in SUBSET S |-> RollStep(q, f, s)]
  BY <1>5, <1>6 DEF IsFold
<1>8. Rolling(q) = [s \in SUBSET S |-> RollStep(q, Rolling(q), s)]
  BY <1>7 DEF Rolling
<1> DEFINE T == {s \in SUBSET S : Rolling(q)[s] \in Totals}
<1>9. ASSUME NEW s \in SUBSET S, \A r \in SUBSET s : r # s => r \in T PROVE s \in T
  <2>1. Rolling(q)[s] = RollStep(q, Rolling(q), s)
    BY <1>8
  <2>2. CASE s = {}
    BY <2>1, <2>2, <1>3 DEF RollStep
  <2>3. CASE s # {}
    <3>1. Max(s) \in s /\ q[Max(s)] \in Entries
      BY <2>3, <1>1
    <3>2. s \ {Max(s)} \in T
      BY <3>1, <1>9
    <3> QED BY <2>1, <2>3, <3>1, <3>2, RollAddIsTotal DEF RollStep
  <2> QED BY <2>2, <2>3
<1>10. S \in T
  <2> HIDE DEF T
  <2> QED BY <1>1, <1>9, PartsInduction
<1> QED BY <1>10, RollUpIsFolded

\* what round() makes of a score in halves
RoundsWell(n) ==
  /\ Rounded(n, 2) \in Nat
  /\ 2 * Rounded(n, 2) <= n + 1 /\ n <= 2 * Rounded(n, 2) + 1
  /\ n % 4 = 1 => 2 * Rounded(n, 2) = n - 1
  /\ n % 4 = 3 => 2 * Rounded(n, 2) = n + 1
  /\ n % 2 = 0 => 2 * Rounded(n, 2) = n

LEMMA RoundedIs ==
    ASSUME NEW n \in Nat
    PROVE  /\ Rounded(n, 200) \in Nat
           /\ n <= 10000 => Rounded(n, 100) \in 0..100
           /\ RoundsWell(n)
<1>1. Rounded(n, 200) \in Nat
  BY DEF Rounded
<1>2. n <= 10000 => Rounded(n, 100) \in 0..100
  BY DEF Rounded
<1>3. RoundsWell(n)
  BY DEF Rounded, RoundsWell
<1> QED BY <1>1, <1>2, <1>3

LEMMA OpinionIsAScore ==
    ASSUME NEW f \in Entries
    PROVE  Opinion(f) \in 0..100
<1>1. BaseScore(f.severity) \in {0, 20, 45, 75, 100}
  BY EntriesAreRated DEF Severities, BaseScore
<1>2. \A c \in 0..100, b \in {0, 20, 45, 75, 100} : b * c \in Nat /\ b * c <= 10000
  OBVIOUS
<1>3. BaseScore(f.severity) * f.confidence \in Nat /\ BaseScore(f.severity) * f.confidence <= 10000
  BY <1>1, <1>2, EntriesAreRated
<1> QED BY <1>3, RoundedIs DEF Opinion

LEMMA BlendIsHeld ==
    ASSUME NEW score \in 0..100, NEW opinion \in 0..100, NEW top \in 0..4
    PROVE  LET final == Larger(Rounded(score + opinion, 2), Floor(top, score))
           IN  /\ final \in 0..100
               /\ 2 * (score - final) <= 100 /\ 2 * (final - score) <= 100
               /\ top = 4 => final >= 50
               /\ top = 4 /\ score >= 80 => final >= 80
<1> DEFINE half == Rounded(score + opinion, 2)
<1>1. /\ half \in Nat
      /\ 2 * half <= score + opinion + 1 /\ score + opinion <= 2 * half + 1
      /\ (score + opinion) % 4 = 1 => 2 * half = score + opinion - 1
      /\ (score + opinion) % 4 = 3 => 2 * half = score + opinion + 1
      /\ (score + opinion) % 2 = 0 => 2 * half = score + opinion
  <2> DEFINE n == score + opinion
  <2>1. n \in Nat
    OBVIOUS
  <2> HIDE DEF n
  <2>2. RoundsWell(n)
    BY <2>1, RoundedIs
  <2> QED BY <2>2 DEF n, RoundsWell
<1> HIDE DEF half
<1>2. half \in 0..100
  BY <1>1
<1>3. Floor(top, score) \in {0, 50, 80} /\ (Floor(top, score) = 80 => score >= 80)
  BY DEF Floor
<1>4. 2 * (score - half) <= 100 /\ 2 * (half - score) <= 100
  BY <1>1, <1>2
<1>5. Larger(half, Floor(top, score)) \in 0..100
  BY <1>2, <1>3 DEF Larger
<1>6. 2 * (score - Larger(half, Floor(top, score))) <= 100
  BY <1>2, <1>3, <1>4 DEF Larger
<1>7. 2 * (Larger(half, Floor(top, score)) - score) <= 100
  BY <1>2, <1>3, <1>4 DEF Larger
<1>8. /\ top = 4 => Larger(half, Floor(top, score)) >= 50
      /\ top = 4 /\ score >= 80 => Larger(half, Floor(top, score)) >= 80
  BY <1>2 DEF Larger, Floor
<1> QED BY <1>5, <1>6, <1>7, <1>8 DEF half

\* what RiskIsHeld says of a report about these findings
LEMMA AssessmentIsHeld ==
    ASSUME NEW q \in Seq(Entries)
    PROVE  LET score == Deterministic(q)
               high  == RollUp(q).top = 4 /\ Decisions(q) # {}
           IN  /\ Assess(q).score \in 0..100
               /\ 2 * (score - Assess(q).score) <= 100
               /\ 2 * (Assess(q).score - score) <= 100
               /\ Decisions(q) = {} => Assess(q).score = score
               /\ high => Assess(q).score >= 50
               /\ high /\ score >= 80 => Assess(q).score >= 80
<1> DEFINE score == Deterministic(q)  top == RollUp(q).top
<1>1. RollUp(q).total \in Nat /\ top \in 0..4
  BY RollUpIs DEF Totals
<1>2. Rounded(RollUp(q).total, 200) \in Nat
  <2>1. \A n \in Nat : Rounded(n, 200) \in Nat
    BY RoundedIs
  <2> QED BY <1>1, <2>1
<1>3. score \in 0..100
  <2>1. \A n \in Nat : Capped(n) \in 0..100
    BY DEF Capped
  <2> QED BY <1>2, <2>1 DEF Deterministic
<1>4. CASE Decisions(q) = {}
  <2>1. Assess(q).score = score
    BY <1>4 DEF Assess
  <2>2. 2 * (score - Assess(q).score) <= 100 /\ 2 * (Assess(q).score - score) <= 100
    <3> HIDE DEF score
    <3> QED BY <1>3, <2>1
  <2> QED BY <1>3, <1>4, <2>1, <2>2
<1>5. CASE Decisions(q) # {}
  <2> DEFINE opinion == q[Max(Decisions(q))]
             final == Larger(Rounded(score + Opinion(opinion), 2), Floor(top, score))
  <2>1. Decisions(q) \in SUBSET DOMAIN q
    BY DEF Decisions
  <2>2. Max(Decisions(q)) \in DOMAIN q
    BY <1>5, <2>1, PlacesHaveAHighest
  <2>3. opinion \in Entries
    BY <2>2
  <2>4. Opinion(opinion) \in 0..100
    BY <2>3, OpinionIsAScore
  <2>5. Assess(q).score = final
    BY <1>5 DEF Assess
  <2>6. /\ final \in 0..100
        /\ 2 * (score - final) <= 100 /\ 2 * (final - score) <= 100
        /\ top = 4 => final >= 50
        /\ top = 4 /\ score >= 80 => final >= 80
    <3> HIDE DEF score, top, opinion
    <3> QED BY <1>1, <1>3, <2>4, BlendIsHeld
  <2> QED BY <1>5, <2>5, <2>6
<1> QED BY <1>4, <1>5

-----------------------------------------------------------------------------
(* Bursts: the order of the failures, one step of the window, all its steps  *)

Sorted(q) == \A i, j \in DOMAIN q : i < j => q[i] # q[j] /\ ~Earlier(q[j], q[i])
InTime(S) == S \in SUBSET Observations /\ \A e \in S : Dated(e)

LEMMA TimesAreNumbers ==
    ASSUME NEW S, InTime(S)
    PROVE  /\ IsFiniteSet(S) /\ \A e \in S : Data[e].time \in Int
           /\ \A r \in SUBSET S : InTime(r) /\ Cardinality(r) \in Nat
<1>1. IsFiniteSet(S)
  BY FS_Subset, ObservationsAssumption DEF InTime
<1>2. \A r \in SUBSET S : Cardinality(r) \in Nat
  BY <1>1, PartIsSmaller
<1> QED BY <1>1, <1>2, ObservationsAssumption DEF InTime, Dated

\* a latest and an earliest of a set
LEMMA TimesHaveEnds ==
    ASSUME NEW S, InTime(S), S # {}
    PROVE  /\ \E x \in S : \A y \in S : ~Earlier(x, y)
           /\ \E x \in S : \A y \in S : ~Earlier(y, x)
<1> DEFINE w == [x \in S |-> Data[x].time]
           v == [x \in S |-> - Data[x].time]
<1>1. IsFiniteSet(S) /\ w \in [S -> Int] /\ v \in [S -> Int]
  BY TimesAreNumbers
<1>2. \E x \in S : \A y \in S : w[y] <= w[x]
  <2> HIDE DEF w
  <2> QED BY <1>1, Heaviest
<1>3. \E x \in S : \A y \in S : v[y] <= v[x]
  <2> HIDE DEF v
  <2> QED BY <1>1, Heaviest
<1>4. PICK x \in S : \A y \in S : w[y] <= w[x]
  BY <1>2
<1>5. PICK z \in S : \A y \in S : v[y] <= v[z]
  BY <1>3
<1>6. \A y \in S : ~Earlier(x, y)
  BY <1>4, TimesAreNumbers DEF Earlier
<1>7. \A y \in S : ~Earlier(y, z)
  BY <1>5, TimesAreNumbers DEF Earlier
<1> QED BY <1>6, <1>7

LEMMA OrderExists ==
    ASSUME NEW S, InTime(S)
    PROVE  \E q \in [1..Cardinality(S) -> S] : Sorted(q)
<1> DEFINE T == {s \in SUBSET S : \E q \in [1..Cardinality(s) -> s] : Sorted(q)}
<1>1. ASSUME NEW s \in SUBSET S, \A r \in SUBSET s : r # s => r \in T PROVE s \in T
  <2>1. SUFFICES \E q \in [1..Cardinality(s) -> s] : Sorted(q)
    OBVIOUS
  <2>2. InTime(s) /\ IsFiniteSet(s) /\ Cardinality(s) \in Nat
    BY TimesAreNumbers
  <2>3. CASE s = {}
    <3> DEFINE q == [i \in 1..0 |-> i]
    <3>1. Cardinality(s) = 0
      BY <2>3, FS_EmptySet
    <3>2. q \in [1..0 -> s] /\ DOMAIN q = {}
      OBVIOUS
    <3> HIDE DEF q
    <3>3. Sorted(q)
      BY <3>2 DEF Sorted
    <3> QED BY <3>1, <3>2, <3>3
  <2>4. CASE s # {}
    <3>1. PICK x \in s : \A y \in s : ~Earlier(x, y)
      BY <2>2, <2>4, TimesHaveEnds
    <3> DEFINE r == s \ {x}  n == Cardinality(s)
    <3>2. r \in T /\ Cardinality(r) = n - 1 /\ n \in Nat \ {0}
      <4>1. r \in SUBSET s /\ Cardinality(r) = n - 1 /\ n \in Nat \ {0} /\ r # s
        BY <2>2, OneLess
      <4> HIDE DEF r, T
      <4> QED BY <4>1, <1>1
    <3>3. PICK q \in [1..n - 1 -> r] : Sorted(q)
      BY <3>2
    <3> DEFINE p == [i \in 1..n |-> IF i = n THEN x ELSE q[i]]
    <3> HIDE DEF n
    <3>4. p \in [1..n -> s]
      BY <3>2, <3>3
    <3>5. ASSUME NEW i \in 1..n, NEW j \in 1..n, i < j PROVE p[i] # p[j] /\ ~Earlier(p[j], p[i])
      <4>1. i \in 1..n - 1 /\ p[i] = q[i] /\ q[i] \in r
        BY <3>2, <3>3, <3>5
      <4>2. CASE j = n
        BY <4>1, <4>2, <3>1
      <4>3. CASE j # n
        <5>1. j \in 1..n - 1 /\ p[j] = q[j]
          BY <3>2, <4>3
        <5> QED BY <4>1, <5>1, <3>3, <3>5 DEF Sorted
      <4> QED BY <4>2, <4>3
    <3>6. Sorted(p)
      BY <3>5, <3>4 DEF Sorted
    <3>7. \E k \in [1..n -> s] : Sorted(k)
      <4> HIDE DEF p
      <4> QED BY <3>4, <3>6
    <3> QED BY <3>7 DEF n
  <2> QED BY <2>3, <2>4
<1>2. S \in T
  <2> HIDE DEF T
  <2> QED BY <1>1, PartsInduction, TimesAreNumbers
<1> QED BY <1>2

\* what InOrder makes of a set of dated observations
LEMMA OrderedIs ==
    ASSUME NEW S, InTime(S)
    PROVE  LET q == InOrder(S)  n == Cardinality(S)
           IN  /\ n \in Nat /\ q \in [1..n -> S] /\ q \in Seq(S) /\ Len(q) = n
               /\ \A i \in 1..n : q[i] \in S /\ Data[q[i]].time \in Int
               /\ \A i, j \in 1..n : i <= j => Data[q[i]].time <= Data[q[j]].time
               /\ \A i, j \in 1..n : i # j => q[i] # q[j]
               /\ \A x \in S : \E i \in 1..n : q[i] = x
<1> DEFINE q == InOrder(S)  n == Cardinality(S)
<1>1. n \in Nat /\ q \in [1..n -> S] /\ Sorted(q)
  BY OrderExists, TimesAreNumbers DEF InOrder, Sorted
<1> HIDE DEF q
<1>2. q \in Seq(S) /\ Len(q) = n
  BY <1>1
<1>3. \A i \in 1..n : q[i] \in S /\ Data[q[i]].time \in Int
  BY <1>1, TimesAreNumbers
<1>4. ASSUME NEW i \in 1..n, NEW j \in 1..n, i <= j
      PROVE  Data[q[i]].time <= Data[q[j]].time
  <2>1. CASE i = j
    BY <2>1, <1>3
  <2>2. CASE i < j
    <3>1. ~Earlier(q[j], q[i])
      BY <2>2, <1>1 DEF Sorted
    <3>2. Data[q[i]].time \in Int /\ Data[q[j]].time \in Int
      BY <1>3
    <3> QED BY <3>1, <3>2 DEF Earlier
  <2> QED BY <2>1, <2>2, <1>1, <1>4
<1>5. ASSUME NEW i \in 1..n, NEW j \in 1..n, i # j PROVE q[i] # q[j]
  <2>1. i < j \/ j < i
    BY <1>1, <1>5
  <2> QED BY <2>1, <1>1 DEF Sorted
<1>6. q \in Injection(1..n, S)
  BY <1>1, <1>5 DEF Injection, IsInjective
<1>7. IsFiniteSet(1..n) /\ Cardinality(1..n) = n /\ IsFiniteSet(S)
  <2>1. 1 \in Int /\ n \in Int
    BY <1>1
  <2>2. IsFiniteSet(1..n) /\ Cardinality(1..n) = IF 1 > n THEN 0 ELSE n - 1 + 1
    BY <2>1, FS_Interval
  <2> QED BY <1>1, <2>2, TimesAreNumbers
<1>8. q \in Surjection(1..n, S)
  BY <1>6, <1>7, FS_Injection
<1>9. \A x \in S : \E i \in 1..n : q[i] = x
  BY <1>8 DEF Surjection
<1> QED BY <1>1, <1>2, <1>3, <1>4, <1>5, <1>9 DEF q
Age(q, s, e) == Data[q[e]].time - Data[q[s]].time
Spans(S) == [start : Nat, best : Seq(S)]

\* the left edge can always move up to the width of the window
LEMMA LeftEdgeExists ==
    ASSUME NEW S, InTime(S), NEW end \in 1..Cardinality(S), NEW from \in 1..end
    PROVE  \E s \in from..end :
             /\ Age(InOrder(S), s, end) <= Window
             /\ \A r \in from..s - 1 : Age(InOrder(S), r, end) > Window
<1> DEFINE q == InOrder(S)  n == Cardinality(S)
           C == {s \in from..end : Age(q, s, end) <= Window}
           w == [s \in C |-> - s]
<1>1. n \in Nat /\ \A i \in 1..n : Data[q[i]].time \in Int
  BY OrderedIs
<1> HIDE DEF q, n
<1>2. end \in 1..n /\ end \in Nat /\ from \in Nat /\ Window \in Nat
  BY <1>1, ThresholdsAssumption DEF n
<1>3. \A s \in from..end : s \in 1..n /\ Age(q, s, end) \in Int
  BY <1>1, <1>2 DEF Age
<1>4. Age(q, end, end) = 0
  BY <1>1, <1>2 DEF Age
<1>5. end \in C
  BY <1>2, <1>4
<1>6. IsFiniteSet(C)
  <2>1. IsFiniteSet(from..end)
    BY <1>2, FS_Interval
  <2> QED BY <2>1, FS_Subset
<1>7. \E x \in C : \A y \in C : w[y] <= w[x]
  <2>1. w \in [C -> Int]
    BY <1>2
  <2> HIDE DEF w, C
  <2> QED BY <1>5, <1>6, <2>1, Heaviest
<1>8. PICK x \in C : \A y \in C : w[y] <= w[x]
  BY <1>7
<1>9. ASSUME NEW r \in from..x - 1 PROVE Age(q, r, end) > Window
  <2>1. x \in Int /\ r \in from..end /\ r < x
    BY <1>2, <1>8, <1>9
  <2>2. r \notin C
    BY <1>8, <2>1
  <2> QED BY <2>1, <2>2, <1>2, <1>3
<1> QED BY <1>8, <1>9 DEF q

LEMMA SlideIs ==
    ASSUME NEW S, InTime(S), NEW end \in 1..Cardinality(S),
           NEW acc \in Spans(S), acc.start \in 1..end
    PROVE  LET q == InOrder(S)  r == Slide(q, acc, end)
           IN  /\ r \in Spans(S) /\ r.start \in acc.start..end
               /\ Age(q, r.start, end) <= Window
               /\ \A x \in acc.start..r.start - 1 : Age(q, x, end) > Window
               /\ SubSeq(q, r.start, end) \in Seq(S)
               /\ Len(SubSeq(q, r.start, end)) = end - r.start + 1
               /\ r.best = IF /\ end - r.start + 1 >= MinFailures
                              /\ end - r.start + 1 > Len(acc.best)
                           THEN SubSeq(q, r.start, end) ELSE acc.best
<1> DEFINE q == InOrder(S)  n == Cardinality(S)
           start == CHOOSE s \in acc.start..end :
                      Age(q, s, end) <= Window /\ \A r \in acc.start..s - 1 : Age(q, r, end) > Window
           span == SubSeq(q, start, end)
           best == IF Len(span) >= MinFailures /\ Len(span) > Len(acc.best) THEN span ELSE acc.best
<1>1. /\ start \in acc.start..end /\ Age(q, start, end) <= Window
      /\ \A r \in acc.start..start - 1 : Age(q, r, end) > Window
  BY LeftEdgeExists
<1>2. Slide(q, acc, end) = [start |-> start, best |-> best]
  BY DEF Slide, Age
<1>3. n \in Nat /\ q \in Seq(S) /\ Len(q) = n /\ acc.best \in Seq(S) /\ end \in 1..n
  BY OrderedIs DEF Spans
<1> HIDE DEF start, q, n
<1>4. start \in 1..end /\ start \in Nat /\ end \in Nat
  BY <1>1, <1>3
<1>5. span \in Seq(S) /\ Len(span) = end - start + 1
  BY <1>3, <1>4
<1> DEFINE r == Slide(q, acc, end)
<1>6. r.start = start /\ r.best = best
  <2> HIDE DEF best
  <2> QED BY <1>2
<1>7. r \in Spans(S)
  BY <1>2, <1>3, <1>4, <1>5 DEF Spans
<1> HIDE DEF r
<1> QED BY <1>1, <1>5, <1>6, <1>7 DEF r, q

-----------------------------------------------------------------------------
WindowStep(q, f, s) ==
  IF s = {} THEN [start |-> 1, best |-> <<>>]
  ELSE Slide(q, f[s \ {Max(s)}], [i \in 1..Len(q) |-> i][Max(s)])
Windows(q) ==
  CHOOSE f : f = [s \in SUBSET DOMAIN [i \in 1..Len(q) |-> i] |-> WindowStep(q, f, s)]

LEMMA BurstIsFolded ==
  \A S, ip : LET q == InOrder(Failures(S, ip))
             IN Burst(S, ip) = Range(Windows(q)[DOMAIN [i \in 1..Len(q) |-> i]].best)
BY DEF Burst, FoldLeft, MapThenFoldSet, Windows, WindowStep

LEMMA WindowsAreDefined ==
    ASSUME NEW S, InTime(S)
    PROVE  LET q == InOrder(S)  f == Windows(q)
           IN  /\ DOMAIN [i \in 1..Len(q) |-> i] = 1..Cardinality(S)
               /\ f[{}] = [start |-> 1, best |-> <<>>]
               /\ \A k \in 1..Cardinality(S) : f[1..k] = Slide(q, f[1..k - 1], k)
<1> DEFINE q == InOrder(S)
           N == 1..Cardinality(S)
           base == [start |-> 1, best |-> <<>>]
           pick == [s \in SUBSET N |-> Max(s)]
           W == [s \in SUBSET N |->
                  {v \in Spans(S) : v.start = 1 \/ \E m \in s : v.start \in 1..m}]
           op == [p \in N \X Spans(S) |-> Slide(q, p[2], p[1])]
<1>1. Cardinality(S) \in Nat /\ Len(q) = Cardinality(S)
  BY OrderedIs
<1>2. DOMAIN [i \in 1..Len(q) |-> i] = N /\ \A i \in N : [j \in 1..Len(q) |-> j][i] = i
  BY <1>1
<1>3. \A s \in SUBSET N : s # {} => Max(s) \in s /\ \A y \in s : y <= Max(s)
  <2>1. IsFiniteSet(N)
    BY <1>1, FS_Interval
  <2>2. ASSUME NEW s \in SUBSET N, s # {} PROVE Max(s) \in s /\ \A y \in s : y <= Max(s)
    <3>1. IsFiniteSet(s) /\ s \in SUBSET Int
      <4>1. N \in SUBSET Int
        BY <1>1
      <4> HIDE DEF N
      <4> QED BY <2>1, <4>1, FS_Subset
    <3> QED BY <3>1, <2>2, HighestIs
  <2> QED BY <2>2
<1>4. ASSUME NEW s \in SUBSET N, s # {}, NEW v \in W[s \ {Max(s)}]
      PROVE  /\ Max(s) \in N /\ v \in Spans(S) /\ v.start \in 1..Max(s)
             /\ Slide(q, v, Max(s)) \in W[s]
  <2>1. /\ Max(s) \in s /\ Max(s) \in N /\ Max(s) \in Nat \ {0}
        /\ \A y \in s : y <= Max(s) /\ y \in Nat
    <3>1. N \in SUBSET (Nat \ {0})
      BY <1>1
    <3> HIDE DEF N
    <3> QED BY <3>1, <1>3, <1>4
  <2>2. v \in Spans(S) /\ (v.start = 1 \/ \E m \in s \ {Max(s)} : v.start \in 1..m)
    BY <1>4
  <2>3. v.start \in 1..Max(s)
    BY <2>1, <2>2
  <2>4. Slide(q, v, Max(s)) \in Spans(S) /\ Slide(q, v, Max(s)).start \in v.start..Max(s)
    BY <2>1, <2>2, <2>3, SlideIs
  <2>5. Slide(q, v, Max(s)).start \in 1..Max(s)
    BY <2>1, <2>3, <2>4
  <2> QED BY <2>1, <2>2, <2>3, <2>4, <2>5
<1>5. base \in W[{}] /\ IsFiniteSet(N)
  <2>1. base \in Spans(S)
    BY DEF Spans
  <2>2. base.start = 1
    OBVIOUS
  <2>3. IsFiniteSet(N)
    BY <1>1, FS_Interval
  <2> QED BY <2>1, <2>2, <2>3
<1>6. \A s \in SUBSET N : W[s] \in SUBSET Spans(S)
  OBVIOUS
<1>7. \A x \in N, v \in Spans(S) : op[<<x, v>>] = Slide(q, v, x)
  OBVIOUS
<1>8. \A s \in SUBSET N : pick[s] = Max(s)
  OBVIOUS
<1> HIDE DEF op, pick, W, q
<1>9. Folds(N, W, base, pick, op)
  <2>1. ASSUME NEW s \in SUBSET N, s # {}
        PROVE  pick[s] \in s /\ \A v \in W[s \ {pick[s]}] : op[<<pick[s], v>>] \in W[s]
    <3>1. pick[s] = Max(s) /\ pick[s] \in s /\ s \ {pick[s]} \in SUBSET N
      BY <1>3, <1>8, <2>1
    <3>2. ASSUME NEW v \in W[s \ {Max(s)}] PROVE op[<<Max(s), v>>] \in W[s]
      <4>1. Max(s) \in N /\ v \in Spans(S) /\ Slide(q, v, Max(s)) \in W[s]
        BY <1>4, <2>1
      <4> QED BY <4>1, <1>7
    <3> QED BY <3>1, <3>2
  <2> HIDE DEF N, base
  <2> QED BY <1>5, <2>1 DEF Folds
<1>10. PICK f : IsFold(f, N, W, base, pick, op)
  <2> HIDE DEF N, base
  <2> QED BY <1>9, FoldIsDefined
<1>11. ASSUME NEW s \in SUBSET N PROVE f[s] = WindowStep(q, f, s)
  <2>1. CASE s = {}
    BY <2>1, <1>10 DEF WindowStep, IsFold
  <2>2. CASE s # {}
    <3>1. pick[s] = Max(s) /\ Max(s) \in N /\ s \ {Max(s)} \in SUBSET N
      BY <1>3, <1>8, <2>2
    <3>2. f[s \ {Max(s)}] \in Spans(S)
      BY <3>1, <1>6, <1>10 DEF IsFold
    <3>3. f[s] = op[<<Max(s), f[s \ {Max(s)}]>>]
      BY <3>1, <2>2, <1>10 DEF IsFold
    <3>4. f[s] = Slide(q, f[s \ {Max(s)}], Max(s))
      BY <3>1, <3>2, <3>3, <1>7
    <3>5. WindowStep(q, f, s) = Slide(q, f[s \ {Max(s)}], [i \in 1..Len(q) |-> i][Max(s)])
      BY <2>2 DEF WindowStep
    <3>6. [i \in 1..Len(q) |-> i][Max(s)] = Max(s)
      BY <3>1, <1>2
    <3> QED BY <3>4, <3>5, <3>6
  <2> QED BY <2>1, <2>2
<1>12. f = [s \in SUBSET N |-> WindowStep(q, f, s)]
  BY <1>10, <1>11 DEF IsFold
<1>13. f = [s \in SUBSET DOMAIN [i \in 1..Len(q) |-> i] |-> WindowStep(q, f, s)]
  BY <1>2, <1>12
<1>14. Windows(q) = [s \in SUBSET DOMAIN [i \in 1..Len(q) |-> i] |-> WindowStep(q, Windows(q), s)]
  BY <1>13 DEF Windows
<1>15. \A s \in SUBSET N : Windows(q)[s] = WindowStep(q, Windows(q), s)
  BY <1>2, <1>14
<1>16. Windows(q)[{}] = base
  BY <1>15 DEF WindowStep
<1>17. ASSUME NEW k \in N PROVE Windows(q)[1..k] = Slide(q, Windows(q)[1..k - 1], k)
  <2> DEFINE s == 1..k
  <2>1. s \in SUBSET N /\ k \in s /\ \A y \in s : y <= k
    BY <1>1
  <2>2. Max(s) = k
    <3>1. Max(s) \in s /\ k <= Max(s)
      <4> HIDE DEF s
      <4> QED BY <2>1, <1>3
    <3> QED BY <3>1, <1>1
  <2>3. s \ {Max(s)} = 1..k - 1
    BY <2>2, <1>1
  <2>4. Windows(q)[s] = Slide(q, Windows(q)[s \ {Max(s)}], [i \in 1..Len(q) |-> i][Max(s)])
    <3> HIDE DEF s
    <3> QED BY <1>15, <2>1 DEF WindowStep
  <2>5. [i \in 1..Len(q) |-> i][Max(s)] = k
    BY <2>2, <1>2
  <2> HIDE DEF s
  <2> QED BY <2>3, <2>4, <2>5 DEF s
<1> QED BY <1>2, <1>16, <1>17 DEF q
-----------------------------------------------------------------------------
\* after k failures: what the left edge has passed is too old for all to come, the
\* best is a run within the window, and none within it that ends here is longer
Runs(S) == {p \in (1..Cardinality(S)) \X (1..Cardinality(S)) :
              /\ p[1] <= p[2] /\ p[2] - p[1] + 1 >= MinFailures
              /\ Age(InOrder(S), p[1], p[2]) <= Window}
Searched(S, k, v) ==
  /\ v \in Spans(S) /\ (v.start = 1 \/ v.start \in 1..k)
  /\ \A x \in 1..v.start - 1 : k > 0 => Age(InOrder(S), x, k) > Window
  /\ \/ v.best = <<>>
     \/ \E p \in Runs(S) : v.best = SubSeq(InOrder(S), p[1], p[2])
  /\ \A p \in Runs(S) : p[2] <= k => p[2] - p[1] + 1 <= Len(v.best)

LEMMA SlideSearches ==
    ASSUME NEW S, InTime(S), NEW k \in 1..Cardinality(S), NEW v, Searched(S, k - 1, v)
    PROVE  Searched(S, k, Slide(InOrder(S), v, k))
<1> DEFINE q == InOrder(S)  n == Cardinality(S)  r == Slide(q, v, k)
<1>1. /\ n \in Nat /\ k \in 1..n /\ MinFailures \in Nat /\ Window \in Nat
      /\ \A i \in 1..n : Data[q[i]].time \in Int
      /\ \A i, j \in 1..n : i <= j => Data[q[i]].time <= Data[q[j]].time
  BY OrderedIs, ThresholdsAssumption
<1>2. /\ v \in Spans(S) /\ v.start \in 1..k /\ Len(v.best) \in Nat
      /\ \A x \in 1..v.start - 1 : k - 1 > 0 => Age(q, x, k - 1) > Window
  BY <1>1 DEF Searched, Spans
<1>3. /\ r \in Spans(S) /\ r.start \in v.start..k
      /\ Age(q, r.start, k) <= Window
      /\ \A x \in v.start..r.start - 1 : Age(q, x, k) > Window
      /\ Len(SubSeq(q, r.start, k)) = k - r.start + 1
      /\ r.best = IF /\ k - r.start + 1 >= MinFailures
                     /\ k - r.start + 1 > Len(v.best)
                  THEN SubSeq(q, r.start, k) ELSE v.best
  BY <1>2, SlideIs
<1>4. /\ v.best = <<>> \/ \E p \in Runs(S) : v.best = SubSeq(q, p[1], p[2])
      /\ \A p \in Runs(S) : p[2] <= k - 1 => p[2] - p[1] + 1 <= Len(v.best)
  BY DEF Searched
<1>5. \A p \in Runs(S) : /\ p[1] \in 1..n /\ p[2] \in 1..n
                         /\ p[1] <= p[2] /\ p[2] - p[1] + 1 >= MinFailures
                         /\ Age(q, p[1], p[2]) <= Window
  BY DEF Runs
<1>6. r.start \in 1..k /\ r.start \in 1..n /\ k - r.start + 1 \in Nat
  BY <1>1, <1>2, <1>3
<1>7. k - r.start + 1 >= MinFailures => <<r.start, k>> \in Runs(S)
  BY <1>1, <1>3, <1>6 DEF Runs
<1> HIDE DEF r, q, n
<1>8. \A x \in 1..r.start - 1 : Age(q, x, k) > Window
  <2> TAKE x \in 1..r.start - 1
  <2>1. CASE x \in v.start..r.start - 1
    BY <2>1, <1>3
  <2>2. CASE x < v.start
    <3>1. x \in 1..v.start - 1 /\ k - 1 > 0 /\ x \in 1..n /\ k - 1 \in 1..n
      BY <1>1, <1>2, <1>6, <2>2
    <3>2. Age(q, x, k - 1) > Window
      BY <3>1, <1>2
    <3>3. Data[q[k - 1]].time <= Data[q[k]].time
      BY <3>1, <1>1
    <3> QED BY <3>1, <3>2, <3>3, <1>1 DEF Age
  <2> QED BY <2>1, <2>2, <1>2, <1>6
<1>9. r.best = <<>> \/ \E p \in Runs(S) : r.best = SubSeq(q, p[1], p[2])
  <2>1. CASE k - r.start + 1 >= MinFailures /\ k - r.start + 1 > Len(v.best)
    <3>1. r.best = SubSeq(q, r.start, k) /\ <<r.start, k>> \in Runs(S)
      BY <2>1, <1>3, <1>7
    <3> DEFINE p == <<r.start, k>>
    <3>2. p \in Runs(S) /\ r.best = SubSeq(q, p[1], p[2])
      BY <3>1
    <3> HIDE DEF p
    <3> QED BY <3>2
  <2>2. CASE ~(k - r.start + 1 >= MinFailures /\ k - r.start + 1 > Len(v.best))
    BY <2>2, <1>3, <1>4
  <2> QED BY <2>1, <2>2
<1>10. Len(r.best) \in Nat /\ Len(v.best) <= Len(r.best)
       /\ (k - r.start + 1 >= MinFailures => k - r.start + 1 <= Len(r.best))
  BY <1>1, <1>2, <1>3, <1>6
<1>11. ASSUME NEW p \in Runs(S), p[2] <= k PROVE p[2] - p[1] + 1 <= Len(r.best)
  <2>1. /\ p[1] \in 1..n /\ p[2] \in 1..n /\ p[1] <= p[2] /\ p[2] - p[1] + 1 >= MinFailures
        /\ Age(q, p[1], p[2]) <= Window
    BY <1>5
  <2>2. CASE p[2] <= k - 1
    <3>1. p[2] - p[1] + 1 <= Len(v.best)
      BY <2>2, <1>4
    <3> QED BY <3>1, <2>1, <1>1, <1>2, <1>10
  <2>3. CASE p[2] = k
    <3>1. Age(q, p[1], k) \in Int
      BY <2>1, <1>1 DEF Age
    <3>2. ~(p[1] \in 1..r.start - 1)
      BY <2>1, <2>3, <3>1, <1>1, <1>8
    <3>3. p[1] >= r.start
      BY <2>1, <3>2, <1>6, <1>1
    <3>4. p[2] - p[1] + 1 <= k - r.start + 1 /\ k - r.start + 1 >= MinFailures
      BY <2>1, <2>3, <3>3, <1>1, <1>6
    <3> DEFINE long == p[2] - p[1] + 1  span == k - r.start + 1  best == Len(r.best)
    <3>5. long \in Int /\ span \in Int /\ best \in Int
      BY <2>1, <1>1, <1>6, <1>10
    <3>6. long <= span /\ span <= best
      BY <3>4, <1>10
    <3> HIDE DEF long, span, best
    <3>7. long <= best
      BY <3>5, <3>6
    <3> QED BY <3>7 DEF long, best
  <2> QED BY <2>1, <2>2, <2>3, <1>1, <1>11
<1> QED BY <1>3, <1>6, <1>8, <1>9, <1>11 DEF Searched, r, q

LEMMA WindowsSearch ==
    ASSUME NEW S, InTime(S)
    PROVE  Searched(S, Cardinality(S), Windows(InOrder(S))[1..Cardinality(S)])
<1> DEFINE q == InOrder(S)  n == Cardinality(S)  f == Windows(q)
           T == {k \in Nat : k <= n => Searched(S, k, f[1..k])}
<1>1. n \in Nat
  BY OrderedIs
<1>2. /\ f[{}] = [start |-> 1, best |-> <<>>]
      /\ \A k \in 1..n : f[1..k] = Slide(q, f[1..k - 1], k)
  BY WindowsAreDefined
<1> HIDE DEF f
<1>3. 0 \in T
  <2>1. 1..0 = {}
    OBVIOUS
  <2>2. f[1..0] = [start |-> 1, best |-> <<>>]
    BY <1>2, <2>1
  <2>3. \A p \in Runs(S) : ~(p[2] <= 0)
    BY <1>1 DEF Runs
  <2>4. [start |-> 1, best |-> <<>>] \in Spans(S)
    BY DEF Spans
  <2>5. Searched(S, 0, [start |-> 1, best |-> <<>>])
    BY <2>3, <2>4 DEF Searched
  <2> QED BY <2>2, <2>5
<1>4. ASSUME NEW k \in Nat, k \in T PROVE k + 1 \in T
  <2>1. SUFFICES ASSUME k + 1 <= n PROVE Searched(S, k + 1, f[1..k + 1])
    OBVIOUS
  <2>2. k + 1 \in 1..n /\ (k + 1) - 1 = k
    BY <1>1, <2>1
  <2>3. Searched(S, (k + 1) - 1, f[1..k])
    BY <1>1, <1>4, <2>1, <2>2
  <2>4. f[1..k + 1] = Slide(q, f[1..k], k + 1)
    BY <1>2, <2>2
  <2>5. Searched(S, k + 1, Slide(q, f[1..k], k + 1))
    <3> DEFINE l == k + 1
    <3> HIDE DEF l, n
    <3>1. l \in 1..n /\ Searched(S, l - 1, f[1..k])
      BY <2>2, <2>3 DEF l
    <3>2. Searched(S, l, Slide(InOrder(S), f[1..k], l))
      BY <3>1, SlideSearches DEF n
    <3> QED BY <3>2 DEF l
  <2> QED BY <2>4, <2>5
<1>5. \A k \in Nat : k \in T
  <2> HIDE DEF T
  <2> QED BY <1>3, <1>4, Induction
<1> QED BY <1>1, <1>5 DEF f
Run(q, a, b) == {q[i] : i \in a..b}

LEMMA RunsAreAsLong ==
    ASSUME NEW S, InTime(S), NEW a \in 1..Cardinality(S), NEW b \in a..Cardinality(S)
    PROVE  LET D == Run(InOrder(S), a, b)
           IN  /\ D \in SUBSET S /\ IsFiniteSet(D) /\ Cardinality(D) = b - a + 1
               /\ Range(SubSeq(InOrder(S), a, b)) = D
<1> DEFINE q == InOrder(S)  n == Cardinality(S)  D == {q[i] : i \in a..b}
           g == [i \in a..b |-> q[i]]
<1>1. /\ n \in Nat /\ q \in Seq(S) /\ Len(q) = n /\ \A i \in 1..n : q[i] \in S
      /\ \A i, j \in 1..n : i # j => q[i] # q[j]
  BY OrderedIs
<1> HIDE DEF q
<1>2. /\ a \in 1..n /\ b \in 1..n /\ a <= b /\ \A i \in a..b : i \in 1..n
  BY <1>1
<1> HIDE DEF n
<1>3. D \in SUBSET S
  BY <1>1, <1>2
<1>4. g \in Bijection(a..b, D)
  BY <1>1, <1>2 DEF Bijection, Injection, Surjection, IsInjective
<1>5. IsFiniteSet(a..b) /\ Cardinality(a..b) = b - a + 1
  <2>1. a \in Int /\ b \in Int /\ ~(a > b)
    BY <1>1, <1>2
  <2> QED BY <2>1, FS_Interval
<1>6. IsFiniteSet(D) /\ Cardinality(D) = b - a + 1
  <2>1. ExistsBijection(a..b, D)
    <3> HIDE DEF g, D
    <3> QED BY <1>4 DEF ExistsBijection
  <2> QED BY <2>1, <1>5, FS_Bijection
<1>7. Range(SubSeq(q, a, b)) = D
  <2> DEFINE s == SubSeq(q, a, b)
  <2>1. a \in Nat /\ b \in Nat /\ DOMAIN s = 1..b - a + 1 /\ \A i \in 1..b - a + 1 : s[i] = q[a + i - 1]
    BY <1>1, <1>2
  <2> HIDE DEF s
  <2>2. \A i \in 1..b - a + 1 : a + i - 1 \in a..b
    BY <2>1
  <2>3. ASSUME NEW x \in Range(s) PROVE x \in D
    <3>1. PICK i \in 1..b - a + 1 : x = s[i]
      BY <2>1 DEF Range
    <3>2. x = q[a + i - 1] /\ a + i - 1 \in a..b
      BY <2>1, <2>2, <3>1
    <3> QED BY <3>2
  <2>4. ASSUME NEW x \in D PROVE x \in Range(s)
    <3>1. PICK j \in a..b : x = q[j]
      OBVIOUS
    <3>2. j - a + 1 \in 1..b - a + 1 /\ a + (j - a + 1) - 1 = j
      BY <2>1
    <3>3. x = s[j - a + 1]
      BY <2>1, <3>1, <3>2
    <3> QED BY <2>1, <3>2, <3>3 DEF Range
  <2> HIDE DEF D
  <2> QED BY <2>3, <2>4 DEF s
<1> QED BY <1>3, <1>6, <1>7 DEF q, Run

\* what lies within a window lies in a run within the window
LEMMA DenseLiesInARun ==
    ASSUME NEW S, InTime(S), NEW D \in SUBSET S, D # {}, Dense(D, Window)
    PROVE  \E a \in 1..Cardinality(S) : \E b \in a..Cardinality(S) :
             Age(InOrder(S), a, b) <= Window /\ Cardinality(D) <= b - a + 1
<1> DEFINE q == InOrder(S)  n == Cardinality(S)
           I == {i \in 1..n : q[i] \in D}
           w == [i \in I |-> i]
           v == [i \in I |-> - i]
<1>1. n \in Nat /\ \A x \in S : \E i \in 1..n : q[i] = x
  BY OrderedIs
<1> HIDE DEF q, n
<1>2. I # {} /\ IsFiniteSet(I) /\ \A i \in I : i \in Nat
  <2>1. IsFiniteSet(1..n)
    BY <1>1, FS_Interval
  <2>2. \E x \in D : TRUE
    OBVIOUS
  <2> QED BY <1>1, <2>1, <2>2, FS_Subset
<1>3. w \in [I -> Int] /\ v \in [I -> Int]
  BY <1>2
<1> HIDE DEF I
<1>4. PICK b \in I : \A i \in I : w[i] <= w[b]
  <2> HIDE DEF w
  <2> QED BY <1>2, <1>3, Heaviest
<1>5. PICK a \in I : \A i \in I : v[i] <= v[a]
  <2> HIDE DEF v
  <2> QED BY <1>2, <1>3, Heaviest
<1>6. \A i \in I : i \in a..b
  BY <1>2, <1>4, <1>5
<1>7. a \in 1..n /\ b \in 1..n /\ q[a] \in D /\ q[b] \in D /\ a <= b
  BY <1>2, <1>6 DEF I
<1>8. Age(q, a, b) <= Window
  BY <1>7 DEF Age, Dense
<1> DEFINE E == Run(q, a, b)
<1>9. b \in a..n
  BY <1>1, <1>7
<1>10. IsFiniteSet(E) /\ Cardinality(E) = b - a + 1
  BY <1>7, <1>9, RunsAreAsLong DEF n, q
<1>11. D \in SUBSET E
  BY <1>1, <1>6 DEF I, Run
<1>12. Cardinality(D) <= b - a + 1
  <2> HIDE DEF E
  <2> QED BY <1>10, <1>11, FS_Subset
<1> QED BY <1>7, <1>8, <1>9, <1>12 DEF n, q

LEMMA BurstIsLongest ==
    ASSUME NEW S \in SUBSET Observations, NEW ip
    PROVE  LET burst == Burst(S, ip)
           IN  /\ burst \subseteq Failures(S, ip) /\ Dense(burst, Window)
               /\ burst # {} => Cardinality(burst) >= MinFailures
               /\ \A D \in SUBSET Failures(S, ip) :
                    Cardinality(D) >= MinFailures /\ Dense(D, Window) =>
                      Cardinality(D) <= Cardinality(burst)
<1> DEFINE F == Failures(S, ip)  q == InOrder(F)  n == Cardinality(F)
           v == Windows(q)[1..n]
           burst == Range(v.best)
<1>1. InTime(F)
  BY DEF Failures, InTime
<1>2. Burst(S, ip) = burst
  BY <1>1, BurstIsFolded, WindowsAreDefined
<1>3. Searched(F, n, v)
  BY <1>1, WindowsSearch
<1>4. /\ n \in Nat /\ MinFailures \in Nat \ {0, 1} /\ Window \in Nat
      /\ \A i \in 1..n : q[i] \in F /\ Data[q[i]].time \in Int
      /\ \A i, j \in 1..n : i <= j => Data[q[i]].time <= Data[q[j]].time
  BY <1>1, OrderedIs, ThresholdsAssumption
<1>5. \A p \in Runs(F) : /\ p[1] \in 1..n /\ p[2] \in p[1]..n
                         /\ p[2] - p[1] + 1 >= MinFailures
                         /\ Age(q, p[1], p[2]) <= Window
  BY <1>4 DEF Runs
<1>6. /\ v.best \in Seq(F) /\ Len(v.best) \in Nat
      /\ v.best = <<>> \/ \E p \in Runs(F) : v.best = SubSeq(q, p[1], p[2])
      /\ \A p \in Runs(F) : p[2] <= n => p[2] - p[1] + 1 <= Len(v.best)
  BY <1>3 DEF Searched, Spans
<1> HIDE DEF v, q, F
<1>7. /\ burst \subseteq F /\ Dense(burst, Window) /\ Cardinality(burst) = Len(v.best)
      /\ burst # {} => Cardinality(burst) >= MinFailures
  <2>1. CASE v.best = <<>>
    <3>1. burst = {} /\ Len(v.best) = 0 /\ Cardinality({}) = 0
      BY <2>1, FS_EmptySet DEF Range
    <3> QED BY <3>1 DEF Dense
  <2>2. CASE v.best # <<>>
    <3>1. PICK p \in Runs(F) : v.best = SubSeq(q, p[1], p[2])
      BY <2>2, <1>6
    <3> DEFINE a == p[1]  b == p[2]
    <3>2. a \in 1..n /\ b \in a..n /\ b - a + 1 >= MinFailures /\ Age(q, a, b) <= Window
      BY <1>5
    <3> HIDE DEF a, b
    <3>3. /\ burst = Run(q, a, b) /\ burst \in SUBSET F /\ Cardinality(burst) = b - a + 1
      <4>1. burst = Range(SubSeq(q, a, b))
        BY <3>1 DEF a, b
      <4>2. /\ Range(SubSeq(q, a, b)) = Run(q, a, b) /\ Run(q, a, b) \in SUBSET F
            /\ Cardinality(Run(q, a, b)) = b - a + 1
        BY <1>1, <3>2, RunsAreAsLong DEF q
      <4> HIDE DEF burst
      <4> QED BY <4>1, <4>2
    <3>4. q \in Seq(F) /\ Len(q) = n
      BY <1>1, OrderedIs DEF q
    <3>5. Len(v.best) = b - a + 1
      BY <3>1, <3>2, <3>4, <1>4 DEF a, b
    <3>6. ASSUME NEW d \in burst, NEW e \in burst PROVE Data[e].time - Data[d].time <= Window
      <4>1. PICK i \in a..b, j \in a..b : d = q[i] /\ e = q[j]
        BY <3>3 DEF Run
      <4>2. /\ i \in 1..n /\ j \in 1..n /\ a \in 1..n /\ b \in 1..n
            /\ a <= i /\ j <= b
        BY <3>2, <1>4
      <4>3. /\ Data[q[a]].time <= Data[q[i]].time /\ Data[q[j]].time <= Data[q[b]].time
            /\ Data[q[a]].time \in Int /\ Data[q[i]].time \in Int
            /\ Data[q[j]].time \in Int /\ Data[q[b]].time \in Int
        BY <4>2, <1>4
      <4>4. Data[q[b]].time - Data[q[a]].time <= Window
        BY <3>2 DEF Age
      <4> QED BY <4>1, <4>3, <4>4, <1>4
    <3>7. Dense(burst, Window)
      BY <3>6 DEF Dense
    <3> QED BY <3>2, <3>3, <3>5, <3>7
  <2> QED BY <2>1, <2>2
<1>8. ASSUME NEW D \in SUBSET F, Cardinality(D) >= MinFailures, Dense(D, Window)
      PROVE  Cardinality(D) <= Cardinality(burst)
  <2>1. IsFiniteSet(D) /\ Cardinality(D) \in Nat /\ D # {}
    <3>1. IsFiniteSet(F)
      BY <1>1, TimesAreNumbers
    <3>2. IsFiniteSet(D) /\ Cardinality(D) \in Nat
      BY <3>1, PartIsSmaller
    <3>3. D # {}
      <4>1. SUFFICES ASSUME D = {} PROVE FALSE
        OBVIOUS
      <4> QED BY <4>1, <1>4, <1>8, FS_EmptySet
    <3> QED BY <3>2, <3>3
  <2>2. PICK a \in 1..n : \E b \in a..n : Age(q, a, b) <= Window /\ Cardinality(D) <= b - a + 1
    BY <1>1, <1>8, <2>1, DenseLiesInARun DEF q
  <2>3. PICK b \in a..n : Age(q, a, b) <= Window /\ Cardinality(D) <= b - a + 1
    BY <2>2
  <2>4. a \in 1..n /\ b \in 1..n /\ a <= b /\ b - a + 1 >= MinFailures
    BY <1>4, <1>8, <2>1, <2>3
  <2>5. <<a, b>> \in Runs(F)
    BY <2>3, <2>4 DEF Runs, q
  <2>6. b - a + 1 <= Len(v.best)
    BY <1>6, <2>4, <2>5
  <2> QED BY <1>6, <1>7, <2>1, <2>3, <2>4, <2>6
<1> QED BY <1>2, <1>7, <1>8 DEF F

LEMMA ErrorBurstsAreFound ==
    ASSUME NEW S \in SUBSET Observations, NEW ip,
           NEW D \in SUBSET {e \in Errors(S, ip) : Dated(e)},
           Cardinality(D) >= MinErrors, Dense(D, ErrorWindow)
    PROVE  ErrorBurst(S, ip) # {}
<1> DEFINE dated == {e \in Errors(S, ip) : Dated(e)}
           starts == {e \in dated : Cardinality(WindowFrom(dated, e)) >= MinErrors}
<1>1. InTime(dated) /\ InTime(D) /\ InTime(starts)
  BY DEF InTime, Errors, Requests
<1>2. MinErrors \in Nat \ {0} /\ ErrorWindow \in Nat
  BY ThresholdsAssumption
<1>3. /\ \A r \in SUBSET dated : Cardinality(r) \in Nat /\ IsFiniteSet(r)
      /\ \A e \in dated : Data[e].time \in Int
  BY <1>1, TimesAreNumbers
<1>4. D # {}
  <2>1. SUFFICES ASSUME D = {} PROVE FALSE
    OBVIOUS
  <2> QED BY <2>1, <1>2, FS_EmptySet
<1>5. PICK e \in D : \A d \in D : ~Earlier(d, e)
  BY <1>1, <1>4, TimesHaveEnds
<1>6. D \in SUBSET WindowFrom(dated, e)
  <2>1. ASSUME NEW d \in D PROVE Data[d].time \in Data[e].time..Data[e].time + ErrorWindow
    <3>1. Data[d].time \in Int /\ Data[e].time \in Int
      BY <1>3
    <3>2. Data[d].time - Data[e].time <= ErrorWindow
      BY <1>5 DEF Dense
    <3> QED BY <3>1, <3>2, <1>2, <1>5 DEF Earlier
  <2> QED BY <2>1 DEF WindowFrom
<1>7. \A x \in dated : WindowFrom(dated, x) \in SUBSET dated
  BY DEF WindowFrom
<1>8. e \in dated /\ D \in SUBSET dated
  BY <1>5
<1> HIDE DEF dated
<1>9. Cardinality(D) <= Cardinality(WindowFrom(dated, e))
  BY <1>3, <1>6, <1>7, <1>8, FS_Subset
<1>10. e \in starts
  BY <1>2, <1>3, <1>7, <1>8, <1>9
<1>11. Cardinality(dated) >= MinErrors /\ Cardinality(dated) \in Nat
  <2>1. Cardinality(D) <= Cardinality(dated)
    BY <1>3, <1>8, FS_Subset
  <2> QED BY <2>1, <1>2, <1>3, <1>8
<1>12. First(starts) \in starts
  <2>1. \E x \in starts : \A y \in starts : ~Earlier(y, x)
    <3> HIDE DEF starts
    <3> QED BY <1>1, <1>10, TimesHaveEnds
  <2> QED BY <2>1 DEF First
<1>13. WindowFrom(dated, First(starts)) # {}
  <2>1. Cardinality(WindowFrom(dated, First(starts))) >= MinErrors
    BY <1>12
  <2>2. SUFFICES ASSUME WindowFrom(dated, First(starts)) = {} PROVE FALSE
    OBVIOUS
  <2> QED BY <2>1, <2>2, <1>2, FS_EmptySet
<1>14. ErrorBurst(S, ip) = WindowFrom(dated, First(starts))
  <2>1. ~(Cardinality(dated) < MinErrors) /\ starts # {}
    BY <1>2, <1>10, <1>11
  <2> QED BY <2>1 DEF ErrorBurst, dated
<1> QED BY <1>13, <1>14

LEMMA BurstsAreLongestIn ==
    ASSUME NEW S \in SUBSET Observations
    PROVE  BurstsAreLongest(S)
BY BurstIsLongest, ErrorBurstsAreFound DEF BurstsAreLongest
-----------------------------------------------------------------------------
(* Findings: what the rules' hits and the feed's answers become              *)

\* what the validation takes for hostile
Bad(o) ==
  \/ Data[o].kind = "web_attack"
  \/ Data[o].kind = "auth_event" /\ Data[o].outcome = "failure"
  \/ Flagged(o)
  \/ Data[o].type = "sudo_command"
  \/ Data[o].kind = "auth_event" /\ Data[o].user = "root"
Hostile(S) == \E o \in S : Bad(o)

\* a target to which the rules object: nobody's own site, and it lures or mimics one
Lured(B) ==
  \E o \in B \cap Targets :
    LET t == Data[o].subject
    IN t.host /\ ~t.verified /\ (t.lure \/ Mimicked(t) # <<>>)

\* entries of which no alarm is without hostile evidence, unless a rule about the
\* target raised it
Founded(f, S, B) == Alarm(f) => Hostile(S) \/ (f.rule \in UrlRules /\ Lured(B))
Backed(S, B) == {f \in Entries : Founded(f, S, B)}
IsBacked(h, S, B) ==
  /\ h.rule \in RuleNames /\ h.severity \in Severities /\ h.confidence \in 0..100
  /\ Founded(h, S, B)

LEMMA SignatureRules ==
  {s[2] : s \in Signatures} =
    {"R-WEB-001", "R-WEB-002", "R-WEB-003", "R-WEB-004", "R-WEB-005", "R-WEB-006"}
BY DEF Signatures

AlarmNames ==
  {"R-AUTH-001", "R-AUTH-002", "R-AUTH-003", "R-AUTH-004", "R-WEB-001", "R-WEB-002",
   "R-WEB-003", "R-WEB-004", "R-WEB-005", "R-WEB-006", "R-WEB-007", "R-WEB-008",
   "R-URL-001", "R-URL-002", "R-URL-003", "R-URL-004"}

LEMMA AlarmRules == MappedRules = AlarmNames
BY SignatureRules DEF MappedRules, UrlRules, AlarmNames

LEMMA QuietIsBacked ==
    ASSUME NEW S, NEW f \in Entries, f.rule \notin AlarmNames
    PROVE  f \in Backed(S, submission)
BY AlarmRules DEF Backed, Founded, Alarm

LEMMA OneIsTyped ==
    ASSUME NEW V, NEW x \in V
    PROVE  <<x>> \in Seq(V)
OBVIOUS

LEMMA ConcatIsTyped ==
    ASSUME NEW V, NEW p \in Seq(V), NEW q \in Seq(V)
    PROVE  p \o q \in Seq(V)
OBVIOUS

LEMMA CoveredIsFinite ==
    ASSUME NEW S, IsFiniteSet(S), NEW T, NEW f, \A y \in T : \E x \in S : y = f[x]
    PROVE  IsFiniteSet(T)
<1> DEFINE R == {x \in S : f[x] \in T}
           g == [x \in R |-> f[x]]
<1>1. g \in Surjection(R, T)
  BY DEF Surjection
<1>2. IsFiniteSet(R)
  BY FS_Subset
<1> QED BY <1>1, <1>2, FS_Surjection

LEMMA HitsBecomeFindings ==
    ASSUME NEW S, NEW hits, IsFiniteSet(hits), \A h \in hits : IsBacked(h, S, submission)
    PROVE  FromHits(hits) \in Seq(Backed(S, submission))
<1> DEFINE s == Listed(hits)
<1>1. s \in Seq(hits)
  BY ListedIs
<1>2. \A h \in hits : FromHit(h) \in Backed(S, submission)
  <2> TAKE h \in hits
  <2>1. HintsOf(h.rule) \in SUBSET Keywords
    BY DEF HintsOf, Keywords
  <2>2. IsBacked(h, S, submission)
    OBVIOUS
  <2>3. FromHit(h) \in Entries /\ FromHit(h).rule = h.rule /\ FromHit(h).severity = h.severity
    BY <2>1, <2>2 DEF IsBacked, FromHit, Finding, Entries, Classes
  <2> QED BY <2>2, <2>3 DEF IsBacked, Backed, Founded, Alarm
<1>3. \A i \in DOMAIN s : s[i] \in hits
  BY <1>1
<1>4. DOMAIN s = 1..Len(s) /\ Len(s) \in Nat
  BY <1>1
<1> HIDE DEF s
<1>5. [i \in DOMAIN s |-> FromHit(s[i])] \in Seq(Backed(S, submission))
  BY <1>2, <1>3, <1>4
<1> QED BY <1>5 DEF FromHits, s

LEMMA AddressesAreFinite ==
    ASSUME NEW S \in SUBSET Observations
    PROVE  IsFiniteSet(S) /\ IsFiniteSet(Addresses(S)) /\ \A T \in SUBSET Addresses(S) : IsFiniteSet(T)
<1> DEFINE f == [e \in S |-> Data[e].ip]
<1>1. IsFiniteSet(S)
  BY FS_Subset, ObservationsAssumption
<1>2. \A y \in Addresses(S) : \E x \in S : y = f[x]
  BY DEF Addresses
<1>3. IsFiniteSet(Addresses(S))
  <2> HIDE DEF f
  <2> QED BY <1>1, <1>2, CoveredIsFinite
<1> QED BY <1>1, <1>3, FS_Subset

LEMMA AuthHitsAre ==
    ASSUME NEW S \in SUBSET Observations
    PROVE  IsFiniteSet(AuthHits(S)) /\ \A h \in AuthHits(S) : IsBacked(h, S, submission)
<1> DEFINE one == {Hit("R-AUTH-001", "medium", 90, Burst(S, ip)) : ip \in Sieged(S)}
           two == {Hit("R-AUTH-002", "high", 75, Burst(S, ip) \cup {Entry(S, ip)}) :
                     ip \in Breached(S)}
           f1 == [ip \in Sieged(S) |-> Hit("R-AUTH-001", "medium", 90, Burst(S, ip))]
           f2 == [ip \in Breached(S) |->
                    Hit("R-AUTH-002", "high", 75, Burst(S, ip) \cup {Entry(S, ip)})]
           many == {a \in Addresses(S) : Cardinality(ProbedUsers(S, a)) >= MinUsers}
           f3 == [ip \in many |-> Hit("R-AUTH-003", "medium", 85,
                    {CHOOSE e \in Probing(S, ip) : Data[e].user = u : u \in ProbedUsers(S, ip)})]
           f4 == [e \in Commands(S) |-> Hit("R-AUTH-004", "high", 70,
                    {e, Entry(S, CHOOSE ip \in Breaches(S, Data[e].user) : TRUE)})]
<1>1. AuthHits(S) = one \cup two \cup Enumerations(S) \cup Escalations(S)
  BY DEF AuthHits
<1>2. /\ IsFiniteSet(Sieged(S)) /\ IsFiniteSet(Breached(S)) /\ IsFiniteSet(many)
      /\ IsFiniteSet(Commands(S))
  <2>1. /\ Sieged(S) \in SUBSET Addresses(S) /\ Breached(S) \in SUBSET Addresses(S)
        /\ many \in SUBSET Addresses(S) /\ Commands(S) \in SUBSET S
    BY DEF Sieged, Breached, Commands
  <2> QED BY <2>1, AddressesAreFinite, FS_Subset
<1>3. /\ \A y \in one : \E x \in Sieged(S) : y = f1[x]
      /\ \A y \in two : \E x \in Breached(S) : y = f2[x]
  OBVIOUS
<1>4. \A y \in Enumerations(S) : \E x \in many : y = f3[x]
  BY DEF Enumerations
<1>5. \A y \in Escalations(S) : \E x \in Commands(S) : y = f4[x]
  BY DEF Escalations
<1>6. /\ IsFiniteSet(one) /\ IsFiniteSet(two)
      /\ IsFiniteSet(Enumerations(S)) /\ IsFiniteSet(Escalations(S))
  <2> HIDE DEF one, two, f1, f2, f3, f4, many
  <2> QED BY <1>2, <1>3, <1>4, <1>5, CoveredIsFinite
<1>7. IsFiniteSet(AuthHits(S))
  <2> HIDE DEF one, two
  <2> QED BY <1>1, <1>6, FS_Union
<1>8. ASSUME NEW h \in one \cup two PROVE IsBacked(h, S, submission)
  <2>1. PICK ip \in Sieged(S) : h.rule \in {"R-AUTH-001", "R-AUTH-002"}
                                /\ h.severity \in {"medium", "high"} /\ h.confidence \in {75, 90}
    BY DEF Hit, Breached
  <2>2. Burst(S, ip) \in SUBSET Failures(S, ip) /\ Burst(S, ip) # {}
    BY BurstIsLongest DEF Sieged
  <2>3. PICK e \in Burst(S, ip) : e \in S /\ Data[e].type \in FailureTypes
    BY <2>2 DEF Failures
  <2>4. Bad(e)
    BY <2>3, ObservationsAssumption DEF Bad
  <2> QED BY <2>1, <2>3, <2>4 DEF IsBacked, Founded, Hostile, RuleNames, Severities
<1>9. ASSUME NEW h \in Enumerations(S) PROVE IsBacked(h, S, submission)
  <2>1. PICK ip \in many : h.rule = "R-AUTH-003" /\ h.severity = "medium" /\ h.confidence = 85
    BY DEF Enumerations, Hit
  <2>2. ProbedUsers(S, ip) # {}
    <3>1. SUFFICES ASSUME ProbedUsers(S, ip) = {} PROVE FALSE
      OBVIOUS
    <3> QED BY <2>1, <3>1, FS_EmptySet, ThresholdsAssumption
  <2>3. PICK e \in S : Data[e].invalid
    BY <2>2 DEF ProbedUsers, Probing
  <2>4. Bad(e)
    BY <2>3, ObservationsAssumption DEF Bad
  <2> QED BY <2>1, <2>3, <2>4 DEF IsBacked, Founded, Hostile, RuleNames, Severities
<1>10. ASSUME NEW h \in Escalations(S) PROVE IsBacked(h, S, submission)
  <2>1. PICK e \in Commands(S) : h.rule = "R-AUTH-004" /\ h.severity = "high" /\ h.confidence = 70
    BY DEF Escalations, Hit
  <2>2. e \in S /\ Bad(e)
    BY <2>1 DEF Commands, Bad
  <2> QED BY <2>1, <2>2 DEF IsBacked, Founded, Hostile, RuleNames, Severities
<1> HIDE DEF one, two
<1> QED BY <1>1, <1>7, <1>8, <1>9, <1>10

LEMMA WebHitsAre ==
    ASSUME NEW S \in SUBSET Observations
    PROVE  IsFiniteSet(WebHits(S)) /\ \A h \in WebHits(S) : IsBacked(h, S, submission)
<1> DEFINE one == UNION {{Hit(s[2], s[3], s[4], Attacks(S, ip, s[1])) :
                            s \in {t \in Signatures : Attacks(S, ip, t[1]) # {}}} :
                         ip \in Addresses(S)}
           many == {a \in Addresses(S) : ErrorBurst(S, a) # {}}
           met == {a \in Addresses(S) : Answered2xx(S, a) # {}}
           two == {Hit("R-WEB-007", "low", 85, ErrorBurst(S, ip)) : ip \in many}
           three == {Hit("R-WEB-008", "critical", 90, Answered2xx(S, ip)) : ip \in met}
           f1 == [p \in Addresses(S) \X Signatures |->
                    Hit(p[2][2], p[2][3], p[2][4], Attacks(S, p[1], p[2][1]))]
           f2 == [ip \in many |-> Hit("R-WEB-007", "low", 85, ErrorBurst(S, ip))]
           f3 == [ip \in met |-> Hit("R-WEB-008", "critical", 90, Answered2xx(S, ip))]
<1>1. WebHits(S) = one \cup two \cup three
  BY DEF WebHits
<1>2. IsFiniteSet(Signatures)
  <2> DEFINE g == << <<"sqli", "R-WEB-001", "high", 95>>,
                     <<"traversal", "R-WEB-002", "high", 95>>,
                     <<"command_injection", "R-WEB-003", "critical", 95>>,
                     <<"webshell", "R-WEB-004", "high", 90>>,
                     <<"sensitive_file", "R-WEB-005", "medium", 90>>,
                     <<"scanner", "R-WEB-006", "medium", 95>> >>
  <2>1. Signatures = {g[1], g[2], g[3], g[4], g[5], g[6]}
    BY DEF Signatures
  <2>2. IsFiniteSet(1..6)
    <3>1. 1 \in Int /\ 6 \in Int
      OBVIOUS
    <3> QED BY <3>1, FS_Interval
  <2>3. \A y \in Signatures : \E x \in 1..6 : y = g[x]
    <3> HIDE DEF g
    <3> QED BY <2>1
  <2> HIDE DEF g
  <2> QED BY <2>2, <2>3, CoveredIsFinite
<1>3. /\ IsFiniteSet(Addresses(S) \X Signatures) /\ IsFiniteSet(many) /\ IsFiniteSet(met)
  <2>1. many \in SUBSET Addresses(S) /\ met \in SUBSET Addresses(S)
    OBVIOUS
  <2> QED BY <1>2, <2>1, AddressesAreFinite, FS_Product
<1>4. ASSUME NEW h \in one
      PROVE  \E ip \in Addresses(S), s \in Signatures :
               h = Hit(s[2], s[3], s[4], Attacks(S, ip, s[1])) /\ Attacks(S, ip, s[1]) # {}
  OBVIOUS
<1>5. IsFiniteSet(one)
  <2>1. ASSUME NEW y \in one PROVE \E x \in Addresses(S) \X Signatures : y = f1[x]
    <3>1. PICK ip \in Addresses(S), s \in Signatures :
                 y = Hit(s[2], s[3], s[4], Attacks(S, ip, s[1]))
      BY <1>4
    <3>2. <<ip, s>> \in Addresses(S) \X Signatures /\ y = f1[<<ip, s>>]
      BY <3>1
    <3> HIDE DEF f1
    <3> QED BY <3>2
  <2> HIDE DEF f1, one
  <2> QED BY <1>3, <2>1, CoveredIsFinite
<1>6. /\ \A y \in two : \E x \in many : y = f2[x]
      /\ \A y \in three : \E x \in met : y = f3[x]
  OBVIOUS
<1>7. IsFiniteSet(WebHits(S))
  <2> HIDE DEF one, two, three, f2, f3, many, met
  <2>1. IsFiniteSet(two) /\ IsFiniteSet(three)
    BY <1>3, <1>6, CoveredIsFinite
  <2> QED BY <1>1, <1>5, <2>1, FS_Union
<1>8. ASSUME NEW e \in S, Data[e].attacks \notin {None, {}} PROVE Hostile(S)
  <2>1. Bad(e)
    BY <1>8, ObservationsAssumption DEF Bad
  <2> QED BY <2>1 DEF Hostile
<1>9. ASSUME NEW h \in one PROVE IsBacked(h, S, submission)
  <2>1. PICK ip \in Addresses(S), s \in Signatures :
               h = Hit(s[2], s[3], s[4], Attacks(S, ip, s[1])) /\ Attacks(S, ip, s[1]) # {}
    BY <1>4
  <2>2. s[2] \in RuleNames /\ s[3] \in Severities /\ s[4] \in 0..100
    BY DEF Signatures, RuleNames, Severities
  <2>3. h.rule = s[2] /\ h.severity = s[3] /\ h.confidence = s[4]
    BY <2>1 DEF Hit
  <2>4. PICK e \in S : Data[e].attacks # None /\ s[1] \in Data[e].attacks
    BY <2>1 DEF Attacks, Requests
  <2> QED BY <2>2, <2>3, <2>4, <1>8 DEF IsBacked, Founded
<1>10. ASSUME NEW h \in two PROVE IsBacked(h, S, submission)
  BY DEF Hit, IsBacked, Founded, Alarm, Rank, RuleNames, Severities
<1>11. ASSUME NEW h \in three PROVE IsBacked(h, S, submission)
  <2>1. PICK ip \in met : h.rule = "R-WEB-008" /\ h.severity = "critical" /\ h.confidence = 90
    BY DEF Hit
  <2>2. PICK e \in S : Data[e].attacks # None /\ Data[e].attacks \cap Exploits # {}
    BY <2>1 DEF Answered2xx, Requests
  <2> QED BY <2>1, <2>2, <1>8 DEF IsBacked, Founded, RuleNames, Severities
<1> HIDE DEF one, two, three
<1> QED BY <1>1, <1>7, <1>9, <1>10, <1>11
UrlFinds(cites) ==
  <<Hit("R-URL-000", "info", 100, cites), Hit("R-URL-001", "high", 95, cites),
    Hit("R-URL-002", "high", 95, cites), Hit("R-URL-003", "high", 90, cites),
    Hit("R-URL-004", "critical", 95, cites)>>

LEMMA UrlHitsAre ==
    ASSUME NEW t, NEW cites
    PROVE  /\ IsFiniteSet(UrlHits(t, cites))
           /\ \A h \in UrlHits(t, cites) :
                /\ h \in {UrlFinds(cites)[i] : i \in 1..5} /\ h.cites = cites
                /\ Alarm(h) => t.host /\ ~t.verified /\ (t.lure \/ Mimicked(t) # <<>>)
<1> DEFINE f == UrlFinds(cites)
<1>1. /\ f[1] = Hit("R-URL-000", "info", 100, cites) /\ f[2] = Hit("R-URL-001", "high", 95, cites)
      /\ f[3] = Hit("R-URL-002", "high", 95, cites) /\ f[4] = Hit("R-URL-003", "high", 90, cites)
      /\ f[5] = Hit("R-URL-004", "critical", 95, cites)
  BY DEF UrlFinds
<1> HIDE DEF f
<1>2. ASSUME NEW h \in UrlHits(t, cites)
      PROVE  /\ t.host
             /\ \/ h = f[1]
                \/ h \in {f[2], f[3], f[4], f[5]} /\ ~t.verified /\ (t.lure \/ Mimicked(t) # <<>>)
  <2> DEFINE lookalike == ~t.verified /\ Mimicked(t) # <<>>
             lured == ~t.verified /\ t.lure
             fired ==
               {<<t.verified, "R-URL-000", "info", 100>>,
                <<lookalike /\ Head(Mimicked(t)).typo, "R-URL-001", "high", 95>>,
                <<lookalike /\ ~Head(Mimicked(t)).typo, "R-URL-002", "high", 95>>,
                <<lured, "R-URL-003", "high", 90>>,
                <<lookalike /\ lured, "R-URL-004", "critical", 95>>}
  <2>1. UrlHits(t, cites) = {Hit(r[2], r[3], r[4], cites) : r \in {q \in fired : t.host /\ q[1]}}
    BY DEF UrlHits
  <2>2. PICK r \in fired : t.host /\ r[1] /\ h = Hit(r[2], r[3], r[4], cites)
    <3> HIDE DEF fired
    <3> QED BY <1>2, <2>1
  <2>3. CASE r = <<t.verified, "R-URL-000", "info", 100>>
    BY <2>2, <2>3, <1>1
  <2>4. CASE r = <<lookalike /\ Head(Mimicked(t)).typo, "R-URL-001", "high", 95>>
    <3>1. h = f[2] /\ r[1] /\ r[1] = (lookalike /\ Head(Mimicked(t)).typo)
      BY <2>2, <2>4, <1>1
    <3>2. lookalike
      BY <3>1
    <3> QED BY <2>2, <3>1, <3>2
  <2>5. CASE r = <<lookalike /\ ~Head(Mimicked(t)).typo, "R-URL-002", "high", 95>>
    <3>1. h = f[3] /\ r[1] /\ r[1] = (lookalike /\ ~Head(Mimicked(t)).typo)
      BY <2>2, <2>5, <1>1
    <3>2. lookalike
      BY <3>1
    <3> QED BY <2>2, <3>1, <3>2
  <2>6. CASE r = <<lured, "R-URL-003", "high", 90>>
    <3>1. h = f[4] /\ r[1] /\ r[1] = lured
      BY <2>2, <2>6, <1>1
    <3>2. lured
      BY <3>1
    <3> QED BY <2>2, <3>1, <3>2
  <2>7. CASE r = <<lookalike /\ lured, "R-URL-004", "critical", 95>>
    <3>1. h = f[5] /\ r[1] /\ r[1] = (lookalike /\ lured)
      BY <2>2, <2>7, <1>1
    <3>2. lookalike /\ lured
      BY <3>1
    <3> QED BY <2>2, <3>1, <3>2
  <2> QED BY <2>2, <2>3, <2>4, <2>5, <2>6, <2>7
<1>3. \A h \in UrlHits(t, cites) : \E i \in 1..5 : h = f[i]
  BY <1>2
<1>4. IsFiniteSet(UrlHits(t, cites))
  <2>1. 1 \in Int /\ 5 \in Int
    OBVIOUS
  <2>2. IsFiniteSet(1..5)
    BY <2>1, FS_Interval
  <2> QED BY <1>3, <2>2, CoveredIsFinite
<1>5. ASSUME NEW h \in UrlHits(t, cites)
      PROVE  /\ h.cites = cites
             /\ Alarm(h) => t.host /\ ~t.verified /\ (t.lure \/ Mimicked(t) # <<>>)
  <2>1. \A i \in 1..5 : f[i].cites = cites
    BY <1>1 DEF Hit
  <2>2. ~Alarm(f[1])
    <3>1. f[1].rule = "R-URL-000"
      BY <1>1 DEF Hit
    <3> QED BY <3>1, AlarmRules DEF Alarm, AlarmNames
  <2> QED BY <1>2, <1>3, <2>1, <2>2
<1> QED BY <1>3, <1>4, <1>5 DEF f

\* the answers are the feed's, and what raises an alarm about the target is the
\* target itself, whatever the hit cites
LEMMA TargetHitsAre ==
    ASSUME submission \in Submissions, attempt \in 1..MaxAttempts, NEW S
    PROVE  /\ Range(Answers) \in SUBSET Observations /\ Answers \in Seq(Observations)
           /\ \A o \in Range(Answers) :
                Data[o].kind = "threat_intel" /\ Data[o].subject # None
           /\ IsFiniteSet(TargetHits)
           /\ \A h \in TargetHits : IsBacked(h, S, submission)
<1>1. /\ Target \in SUBSET Observations /\ IsFiniteSet(Target)
      /\ LookedUp \in SUBSET Indicators
  <2>1. Target \in SUBSET Observations /\ LookedUp \in SUBSET Indicators
    BY AnalysisAssumption DEF Target, LookedUp, Extracted, Names
  <2> QED BY <2>1, FS_Subset, ObservationsAssumption
<1>2. Answers \in Seq(Observations)
  BY <1>1, AnalysisAssumption DEF Answers
<1>3. ASSUME NEW e \in Range(Answers)
      PROVE  e \in Observations /\ Data[e].kind = "threat_intel" /\ Data[e].subject # None
  <2>1. PICK i \in DOMAIN Answers : e = Answers[i]
    BY DEF Range
  <2>2. e \in Observations
    BY <1>2, <2>1
  <2>3. Data[e].kind = "threat_intel"
    BY <1>1, <2>1, FeedAssumption DEF Answers
  <2> QED BY <2>2, <2>3, FeedAssumption
<1> DEFINE asked == {t \in Target : Data[t].type # "ip"}
           f == [o \in asked |-> UrlHits(Data[o].subject, Basis(o))]
           all == {UrlHits(Data[o].subject, Basis(o)) : o \in asked}
<1>4. TargetHits = UNION all
  BY DEF TargetHits
<1>5. IsFiniteSet(TargetHits)
  <2>1. IsFiniteSet(asked)
    BY <1>1, FS_Subset
  <2>2. \A y \in all : \E x \in asked : y = f[x]
    OBVIOUS
  <2>3. \A y \in all : IsFiniteSet(y)
    BY UrlHitsAre
  <2> HIDE DEF all, f, asked
  <2>4. IsFiniteSet(all)
    BY <2>1, <2>2, CoveredIsFinite
  <2> QED BY <1>4, <2>3, <2>4, FS_UNION
<1>6. ASSUME NEW h \in TargetHits PROVE IsBacked(h, S, submission)
  <2>1. PICK o \in asked : h \in UrlHits(Data[o].subject, Basis(o))
    BY <1>4
  <2> DEFINE t == Data[o].subject
             cites == Basis(o)
  <2>2. /\ h \in {UrlFinds(cites)[i] : i \in 1..5}
        /\ Alarm(h) => t.host /\ ~t.verified /\ (t.lure \/ Mimicked(t) # <<>>)
    BY <2>1, UrlHitsAre
  <2> HIDE DEF cites
  <2>3. PICK i \in 1..5 : h = UrlFinds(cites)[i]
    BY <2>2
  <2>4. \/ h = Hit("R-URL-000", "info", 100, cites)
        \/ h = Hit("R-URL-001", "high", 95, cites)
        \/ h = Hit("R-URL-002", "high", 95, cites)
        \/ h = Hit("R-URL-003", "high", 90, cites)
        \/ h = Hit("R-URL-004", "critical", 95, cites)
    BY <2>3 DEF UrlFinds
  <2>5. /\ h.rule \in RuleNames /\ h.severity \in Severities /\ h.confidence \in 0..100
        /\ h.rule \in UrlRules \cup {"R-URL-000"}
    BY <2>4 DEF Hit, RuleNames, Severities, UrlRules
  <2>6. ASSUME Alarm(h) PROVE h.rule \in UrlRules /\ Lured(submission)
    <3>1. h.rule # "R-URL-000"
      BY <2>6, AlarmRules DEF Alarm, AlarmNames
    <3>2. o \in submission \cap Targets
      BY <2>1 DEF Target
    <3> QED BY <2>2, <2>5, <2>6, <3>1, <3>2 DEF Lured
  <2> QED BY <2>5, <2>6 DEF IsBacked, Founded
<1> HIDE DEF asked, f, all
<1> QED BY <1>1, <1>2, <1>3, <1>5, <1>6
ReputeStep(q, f, s) == IF s = {} THEN <<>> ELSE f[s \ {Max(s)}] \o Reputation(q[Max(s)])
Reputing(q) == CHOOSE f : f = [s \in SUBSET DOMAIN q |-> ReputeStep(q, f, s)]
Reputations == FoldLeft(LAMBDA s, o : s \o Reputation(o), <<>>, Answers)

LEMMA ReputationsAreFolded == Reputations = Reputing(Answers)[DOMAIN Answers]
BY DEF Reputations, FoldLeft, MapThenFoldSet, Reputing, ReputeStep

LEMMA FeedAnswers ==
    ASSUME NEW o \in Observations, Data[o].subject # None
    PROVE  LET feed == Feed(Data[o].subject)
           IN  /\ feed.status \in {"malicious", "benign", "unknown"}
               /\ feed.status = "malicious" => feed.score \in 0..100
<1> DEFINE t == Data[o].subject
<1>1. t.listed # None => t.listed.status \in {"malicious", "benign"} /\ t.listed.score \in 0..100
  BY FeedAssumption
<1>2. /\ Inspect(t).status \in {"malicious", "benign", "unknown"}
      /\ Inspect(t).status = "malicious" => Inspect(t).score \in 0..100
  BY DEF Inspect
<1> QED BY <1>1, <1>2 DEF Feed

LEMMA ReputationIs ==
    ASSUME NEW o \in Observations, Data[o].subject # None, NEW S
    PROVE  Reputation(o) \in Seq(Backed(S, submission))
<1> DEFINE feed == Feed(Data[o].subject)
<1>1. /\ feed.status \in {"malicious", "benign", "unknown"}
      /\ feed.status = "malicious" => feed.score \in 0..100
  BY FeedAnswers
<1>2. ASSUME NEW c \in 0..100
      PROVE  Finding("threat_intel.reputation", "fact", "high", c, TRUE, {"threat"})
               \in Backed(S, submission)
  <2> DEFINE r == Finding("threat_intel.reputation", "fact", "high", c, TRUE, {"threat"})
  <2>1. r \in Entries /\ r.rule = "threat_intel.reputation"
    BY DEF Finding, Entries, RuleNames, Classes, Severities, Keywords
  <2>2. r.rule \notin AlarmNames
    BY <2>1 DEF AlarmNames
  <2> HIDE DEF r
  <2>3. r \in Backed(S, submission)
    BY <2>1, <2>2, QuietIsBacked
  <2> QED BY <2>3 DEF r
<1>3. Finding("threat_intel.reputation", "fact", "info", 100, TRUE, {}) \in Backed(S, submission)
  <2> DEFINE r == Finding("threat_intel.reputation", "fact", "info", 100, TRUE, {})
  <2>1. r \in Entries /\ r.rule = "threat_intel.reputation"
    BY DEF Finding, Entries, RuleNames, Classes, Severities, Keywords
  <2>2. r.rule \notin AlarmNames
    BY <2>1 DEF AlarmNames
  <2> HIDE DEF r
  <2>3. r \in Backed(S, submission)
    BY <2>1, <2>2, QuietIsBacked
  <2> QED BY <2>3 DEF r
<1>4. Finding("none", "unknown", "info", 100, FALSE, {}) \in Backed(S, submission)
  <2> DEFINE r == Finding("none", "unknown", "info", 100, FALSE, {})
  <2>1. r \in Entries /\ r.rule = "none"
    BY DEF Finding, Entries, RuleNames, Classes, Severities, Keywords
  <2>2. r.rule \notin AlarmNames
    BY <2>1 DEF AlarmNames
  <2> HIDE DEF r
  <2>3. r \in Backed(S, submission)
    BY <2>1, <2>2, QuietIsBacked
  <2> QED BY <2>3 DEF r
<1>5. CASE feed.status = "malicious"
  <2> DEFINE c == IF feed.score < 80 THEN 80 ELSE feed.score
  <2>1. c \in 0..100
    BY <1>1, <1>5
  <2>2. Reputation(o) = <<Finding("threat_intel.reputation", "fact", "high", c, TRUE, {"threat"})>>
    BY <1>5 DEF Reputation
  <2> HIDE DEF c
  <2> QED BY <1>2, <2>1, <2>2, OneIsTyped
<1>6. CASE feed.status # "malicious" /\ \A t \in Target : o \notin About(t)
  <2>1. Reputation(o) = <<>>
    BY <1>6 DEF Reputation
  <2> QED BY <2>1
<1>7. CASE feed.status = "benign" /\ \E t \in Target : o \in About(t)
  <2>1. Reputation(o) = <<Finding("threat_intel.reputation", "fact", "info", 100, TRUE, {})>>
    BY <1>7 DEF Reputation, Fact
  <2> QED BY <1>3, <2>1, OneIsTyped
<1>8. CASE feed.status = "unknown" /\ \E t \in Target : o \in About(t)
  <2>1. Reputation(o) = <<Finding("none", "unknown", "info", 100, FALSE, {})>>
    BY <1>8 DEF Reputation, Gap
  <2> QED BY <1>4, <2>1, OneIsTyped
<1> HIDE DEF feed
<1> QED BY <1>1, <1>5, <1>6, <1>7, <1>8

LEMMA ReputationsAre ==
    ASSUME Answers \in Seq(Observations), NEW E,
           \A o \in Range(Answers) : Data[o].subject # None
    PROVE  Reputations \in Seq(Backed(E, submission))
<1> DEFINE q == Answers
           S == DOMAIN q
           V == Seq(Backed(E, submission))
           pick == [s \in SUBSET S |-> Max(s)]
           op == [p \in S \X V |-> p[2] \o Reputation(q[p[1]])]
           W == [s \in SUBSET S |-> V]
<1>1. IsFiniteSet(S) /\ \A s \in SUBSET S : s # {} => pick[s] \in s /\ pick[s] = Max(s)
  BY PlacesHaveAHighest
<1>2. \A x \in S : Reputation(q[x]) \in V
  <2> TAKE x \in S
  <2>1. q[x] \in Observations /\ q[x] \in Range(q)
    BY DEF Range
  <2> QED BY <2>1, ReputationIs
<1>3. \A x \in S, v \in V : v \o Reputation(q[x]) \in V
  <2> TAKE x \in S, v \in V
  <2>1. Reputation(q[x]) \in Seq(Backed(E, submission)) /\ v \in Seq(Backed(E, submission))
    BY <1>2
  <2> QED BY <2>1, ConcatIsTyped
<1> HIDE DEF V
<1>4. \A x \in S, v \in V : op[<<x, v>>] = v \o Reputation(q[x]) /\ op[<<x, v>>] \in V
  BY <1>3
<1>5. <<>> \in V
  BY DEF V
<1> HIDE DEF op, pick
<1>6. Folds(S, W, <<>>, pick, op)
  <2>1. ASSUME NEW s \in SUBSET S, s # {}
        PROVE  pick[s] \in s /\ \A v \in W[s \ {pick[s]}] : op[<<pick[s], v>>] \in W[s]
    <3>1. pick[s] \in s /\ pick[s] \in S /\ s \ {pick[s]} \in SUBSET S
      BY <1>1, <2>1
    <3> QED BY <3>1, <1>4
  <2>2. <<>> \in W[{}]
    BY <1>5
  <2> HIDE DEF W
  <2> QED BY <1>1, <2>1, <2>2 DEF Folds
<1>7. PICK f : IsFold(f, S, W, <<>>, pick, op)
  <2> HIDE DEF S, W
  <2> QED BY <1>6, FoldIsDefined
<1>8. ASSUME NEW s \in SUBSET S PROVE f[s] = ReputeStep(q, f, s)
  <2>1. CASE s = {}
    BY <2>1, <1>7 DEF ReputeStep, IsFold
  <2>2. CASE s # {}
    <3>1. pick[s] = Max(s) /\ Max(s) \in S /\ s \ {Max(s)} \in SUBSET S
      BY <2>2, <1>1
    <3>2. f[s \ {Max(s)}] \in V
      BY <3>1, <1>7 DEF IsFold
    <3> QED BY ZenonT(60), <2>2, <3>1, <3>2, <1>4, <1>7 DEF ReputeStep, IsFold
  <2> QED BY <2>1, <2>2
<1>9. f = [s \in SUBSET S |-> ReputeStep(q, f, s)]
  BY <1>7, <1>8 DEF IsFold
<1>10. Reputing(q) = [s \in SUBSET S |-> ReputeStep(q, Reputing(q), s)]
  BY <1>9 DEF Reputing
<1> DEFINE T == {s \in SUBSET S : Reputing(q)[s] \in V}
<1>11. ASSUME NEW s \in SUBSET S, \A r \in SUBSET s : r # s => r \in T PROVE s \in T
  <2>1. Reputing(q)[s] = ReputeStep(q, Reputing(q), s)
    BY <1>10
  <2>2. CASE s = {}
    BY <2>1, <2>2, <1>5 DEF ReputeStep
  <2>3. CASE s # {}
    <3>1. Max(s) \in s /\ Max(s) \in S
      BY <2>3, <1>1
    <3>2. s \ {Max(s)} \in T
      BY <3>1, <1>11
    <3> QED BY <2>1, <2>3, <3>1, <3>2, <1>3 DEF ReputeStep
  <2> QED BY <2>2, <2>3
<1>12. S \in T
  <2> HIDE DEF T
  <2> QED BY <1>1, <1>11, PartsInduction
<1> QED BY <1>12, ReputationsAreFolded DEF V

-----------------------------------------------------------------------------
(* What the evidence asserts is finite                                       *)

LEMMA AssertedIsFinite ==
    ASSUME NEW S \in SUBSET Observations
    PROVE  IsFiniteSet(Asserted(S))
<1>1. \A type, value : IsFiniteSet(Entity(type, value))
  BY FS_EmptySet, FS_Singleton DEF Entity
<1>2. ASSUME NEW A, NEW B, NEW relation, IsFiniteSet(A), IsFiniteSet(B)
      PROVE  IsFiniteSet(Join(A, relation, B))
  <2> DEFINE f == [p \in A \X B |-> <<p[1], relation, p[2]>>]
  <2>1. IsFiniteSet(A \X B)
    BY <1>2, FS_Product
  <2>2. ASSUME NEW y \in Join(A, relation, B) PROVE \E x \in A \X B : y = f[x]
    <3>1. PICK a \in A, b \in B : y = <<a, relation, b>>
      BY DEF Join
    <3>2. <<a, b>> \in A \X B /\ y = f[<<a, b>>]
      BY <3>1
    <3> HIDE DEF f
    <3> QED BY <3>2
  <2> HIDE DEF f
  <2> QED BY <2>1, <2>2, CoveredIsFinite
<1>3. ASSUME NEW o PROVE IsFiniteSet(Stated(o))
  <2>1. /\ IsFiniteSet(Ip(o)) /\ IsFiniteSet(Host(o)) /\ IsFiniteSet(User(o))
        /\ IsFiniteSet(Aim(o)) /\ IsFiniteSet(Url(o)) /\ IsFiniteSet({})
    BY <1>1, FS_EmptySet DEF Ip, Host, User, Aim, Url
  <2>2. IsFiniteSet(Aim(o) \ User(o))
    BY <2>1, FS_Difference
  <2>3. CASE Data[o].kind = "auth_event"
    <3> DEFINE to == IF Data[o].outcome = "neutral" THEN {} ELSE Host(o)
               how == IF Data[o].outcome = "failure" THEN "FAILED_AUTH_TO" ELSE "AUTHENTICATED_TO"
               one == Join(User(o), how, to)
               two == Join(Ip(o), "CONNECTED_FROM", Host(o))
               three == Join(User(o), "ASSOCIATED_WITH", Aim(o) \ User(o))
    <3>1. IsFiniteSet(to)
      BY <2>1
    <3> HIDE DEF to, how
    <3>2. IsFiniteSet(one) /\ IsFiniteSet(two) /\ IsFiniteSet(three)
      BY <1>2, <2>1, <2>2, <3>1
    <3>3. Stated(o) = one \cup two \cup three
      BY <2>3 DEF Stated, WebKinds, to, how
    <3> HIDE DEF one, two, three
    <3> QED BY <3>2, <3>3, FS_Union
  <2>4. CASE Data[o].kind \in WebKinds
    <3> DEFINE one == Join(Ip(o), "CONNECTED_FROM", Host(o))
               two == Join(Ip(o), "CONTACTED", Url(o))
               three == Join(User(o), "AUTHENTICATED_TO", Host(o))
    <3>1. IsFiniteSet(one) /\ IsFiniteSet(two) /\ IsFiniteSet(three)
      BY <1>2, <2>1
    <3>2. Stated(o) = one \cup two \cup three
      BY <2>4 DEF Stated, WebKinds
    <3> HIDE DEF one, two, three
    <3> QED BY <3>1, <3>2, FS_Union
  <2>5. CASE Data[o].kind = "threat_intel"
    <3> DEFINE how == IF Flagged(o) THEN "FLAGGED_BY" ELSE "EVALUATED_BY"
    <3>1. Named(o) = Entity(IF Data[o].type = "url" THEN "hash" ELSE Data[o].type, Data[o].indicator)
      BY <2>5 DEF Named
    <3>2. IsFiniteSet(Named(o))
      BY <1>1, <3>1
    <3>3. Stated(o) = Join(Named(o), how, Host(o))
      BY <2>5 DEF Stated, WebKinds
    <3> HIDE DEF how
    <3> QED BY <1>2, <2>1, <3>2, <3>3
  <2>6. CASE Data[o].kind \notin WebKinds \cup {"auth_event", "threat_intel"}
    <3>1. Stated(o) = {}
      BY <2>6 DEF Stated
    <3> QED BY <3>1, FS_EmptySet
  <2> QED BY <2>3, <2>4, <2>5, <2>6
<1>4. ASSUME NEW o PROVE IsFiniteSet(Derived(o))
  <2>1. \/ Derived(o) = Stated(o)
        \/ Derived(o) = {<<Refs(o)[1], "ASSOCIATED_WITH", Refs(o)[2]>>}
    BY DEF Derived
  <2>2. \A x : IsFiniteSet({x})
    BY FS_Singleton
  <2> QED BY <1>3, <2>1, <2>2
<1> DEFINE Of(o) == {<<e[1], e[2], e[3], o>> : e \in Derived(o)}
           f == [o \in S |-> Of(o)]
           all == {Of(o) : o \in S}
<1>5. ASSUME NEW o PROVE IsFiniteSet(Of(o))
  <2> DEFINE g == [e \in Derived(o) |-> <<e[1], e[2], e[3], o>>]
  <2>1. \A y \in Of(o) : \E x \in Derived(o) : y = g[x]
    OBVIOUS
  <2> HIDE DEF Of, g
  <2> QED BY <1>4, <2>1, CoveredIsFinite
<1>6. Asserted(S) = UNION all
  BY DEF Asserted
<1> HIDE DEF Of
<1>7. IsFiniteSet(all)
  <2>1. \A y \in all : \E x \in S : y = f[x]
    OBVIOUS
  <2>2. IsFiniteSet(S)
    BY FS_Subset, ObservationsAssumption
  <2> HIDE DEF f, all
  <2> QED BY <2>1, <2>2, CoveredIsFinite
<1>8. \A y \in all : IsFiniteSet(y)
  BY <1>5
<1> HIDE DEF all
<1> QED BY <1>6, <1>7, <1>8, FS_UNION

LEMMA AssertedGrows ==
    ASSUME NEW S, NEW T, S \subseteq T
    PROVE  Asserted(S) \subseteq Asserted(T)
BY DEF Asserted
-----------------------------------------------------------------------------
(* The invariant of the agents: findings whose alarms have hostile evidence, *)
(* a graph of what the evidence asserts, verdicts that know it, a report     *)
(* that assesses the findings as they are.                                   *)

Conjectures ==
  [kind : {"intrusion", "benign", "baseline"},
   status : {"unresolved", "supported", "refuted"}, contradicted : BOOLEAN]

\* an agent that is done has had its turn
Progress ==
  /\ submission \in Submissions /\ attempt \in 1..MaxAttempts /\ next \in 1..9
  /\ \A i \in 1..8 : Plan[i] \in done => i < next
Records ==
  /\ evidence \in SUBSET Observations
  /\ findings \in Seq(Backed(evidence, submission))
  /\ hypotheses \in Seq(Conjectures)
Drawn ==
  /\ edges \in Seq(Asserted(evidence))
  /\ \A i, j \in DOMAIN edges : i # j => edges[i] # edges[j]
  /\ "correlation" \in done => Asserted(evidence) \subseteq Range(edges)
Judged ==
  /\ \A i \in DOMAIN hypotheses :
       hypotheses[i].status = "supported" => Hostile(evidence)
  /\ "validation" \in done /\ Hostile(evidence) =>
       \A i \in DOMAIN hypotheses :
         hypotheses[i].status =
           IF hypotheses[i].kind = "intrusion" THEN "supported" ELSE "refuted"
Assessed == "reporting" \in done => report = Assess(findings)

AnalysisInv == Progress /\ Records /\ Drawn /\ Judged /\ Assessed

LEMMA PlanIs ==
  /\ Len(Plan) = 8 /\ DOMAIN Plan = 1..8
  /\ Plan[1] = "triage" /\ Plan[2] = "log_analysis" /\ Plan[3] = "mitre"
  /\ Plan[4] = "correlation" /\ Plan[5] = "reasoning" /\ Plan[6] = "hypothesis"
  /\ Plan[7] = "validation" /\ Plan[8] = "reporting"
BY DEF Plan

LEMMA Turns ==
  /\ Turn("triage") <=> next <= 8 /\ Plan[next] = "triage"
  /\ \A agent : Turn(agent) <=> next <= 8 /\ Plan[next] = agent
BY PlanIs DEF Turn

\* where the agents stand when one of them has its turn
LEMMA Places ==
    ASSUME Progress
    PROVE  /\ "correlation" \in done => next > 4
           /\ "validation" \in done => next > 7
           /\ "reporting" \in done => next > 8
           /\ Turn("triage") => next = 1
           /\ Turn("log_analysis") => next = 2
           /\ Turn("mitre") => next = 3
           /\ Turn("correlation") => next = 4
           /\ Turn("reasoning") => next = 5
           /\ Turn("hypothesis") => next = 6
           /\ Turn("validation") => next = 7
           /\ Turn("reporting") => next = 8
<1>1. next \in 1..9 /\ \A i \in 1..8 : Plan[i] \in done => i < next
  BY DEF Progress
<1>2. next \in 1..8 => next = 1 \/ next = 2 \/ next = 3 \/ next = 4 \/ next = 5
                       \/ next = 6 \/ next = 7 \/ next = 8
  OBVIOUS
<1>3. \A agent : Turn(agent) => next \in 1..8 /\ Plan[next] = agent
  BY <1>1, Turns
<1>4. /\ "correlation" \in done => next > 4
      /\ "validation" \in done => next > 7
      /\ "reporting" \in done => next > 8
  BY <1>1, PlanIs
<1>5. \A agent : Turn(agent) =>
        \/ (next = 1 /\ agent = "triage")
        \/ (next = 2 /\ agent = "log_analysis")
        \/ (next = 3 /\ agent = "mitre")
        \/ (next = 4 /\ agent = "correlation")
        \/ (next = 5 /\ agent = "reasoning")
        \/ (next = 6 /\ agent = "hypothesis")
        \/ (next = 7 /\ agent = "validation")
        \/ (next = 8 /\ agent = "reporting")
  BY <1>2, <1>3, PlanIs
<1> QED BY <1>4, <1>5

LEMMA Returns ==
    ASSUME Progress, NEW agent, Turn(agent), Return
    PROVE  Progress' /\ next' = next + 1 /\ done' = done \cup {agent}
<1>1. /\ next \in 1..8 /\ Plan[next] = agent
      /\ \A i \in 1..8 : Plan[i] \in done => i < next
  BY Turns DEF Progress
<1>2. /\ next' = next + 1 /\ done' = done \cup {agent}
      /\ submission' = submission /\ attempt' = attempt
  BY <1>1 DEF Return
<1>3. \A i, j \in 1..8 : Plan[i] = Plan[j] => i = j
  <2>1. \A i \in 1..8 : i = 1 \/ i = 2 \/ i = 3 \/ i = 4 \/ i = 5 \/ i = 6 \/ i = 7 \/ i = 8
    OBVIOUS
  <2> QED BY <2>1, PlanIs
<1>4. \A i \in 1..8 : Plan[i] \in done' => i < next'
  <2> TAKE i \in 1..8
  <2>1. Plan[i] \in done' => Plan[i] \in done \/ Plan[i] = Plan[next]
    BY <1>1, <1>2
  <2>2. Plan[i] = Plan[next] => i = next
    BY <1>1, <1>3
  <2> QED BY <1>1, <1>2, <2>1, <2>2
<1>5. next' \in 1..9
  BY <1>1, <1>2
<1>6. Plan' = Plan
  BY DEF Plan
<1> QED BY <1>2, <1>4, <1>5, <1>6 DEF Progress

LEMMA Growth ==
    ASSUME NEW S, NEW T, S \subseteq T
    PROVE  /\ Hostile(S) => Hostile(T)
           /\ \A q \in Seq(Backed(S, submission)) : q \in Seq(Backed(T, submission))
           /\ \A h : IsBacked(h, S, submission) => IsBacked(h, T, submission)
           /\ \A q \in Seq(Asserted(S)) : q \in Seq(Asserted(T))
<1>1. Hostile(S) => Hostile(T)
  BY DEF Hostile
<1>2. Backed(S, submission) \subseteq Backed(T, submission)
  BY <1>1 DEF Backed, Founded
<1>3. Asserted(S) \subseteq Asserted(T)
  BY AssertedGrows
<1> QED BY <1>1, <1>2, <1>3 DEF IsBacked, Founded

LEMMA FindingIsBacked ==
    ASSUME NEW S, NEW rule \in RuleNames \ AlarmNames, NEW class \in Classes,
           NEW severity \in Severities, NEW confidence \in 0..100,
           NEW grounded \in BOOLEAN, NEW hints \in SUBSET Keywords
    PROVE  /\ Finding(rule, class, severity, confidence, grounded, hints) \in Backed(S, submission)
           /\ <<Finding(rule, class, severity, confidence, grounded, hints)>>
                \in Seq(Backed(S, submission))
<1> DEFINE f == Finding(rule, class, severity, confidence, grounded, hints)
<1>1. f \in Entries
  BY DEF Finding, Entries
<1>2. f.rule \notin AlarmNames
  BY DEF Finding
<1> HIDE DEF f
<1>3. f \in Backed(S, submission)
  BY <1>1, <1>2, QuietIsBacked
<1>4. <<f>> \in Seq(Backed(S, submission))
  BY <1>3, OneIsTyped
<1> QED BY <1>3, <1>4 DEF f

LEMMA StockFindings ==
    ASSUME NEW S
    PROVE  /\ Gap \in Seq(Backed(S, submission)) /\ <<>> \in Seq(Backed(S, submission))
           /\ Fact("triage.ioc_inventory") \in Seq(Backed(S, submission))
           /\ Fact("parse_summary") \in Seq(Backed(S, submission))
           /\ Note("correlation.graph_construction") \in Seq(Backed(S, submission))
<1>1. /\ "fact" \in Classes /\ "inference" \in Classes /\ "unknown" \in Classes
      /\ "info" \in Severities /\ 100 \in 0..100 /\ TRUE \in BOOLEAN /\ FALSE \in BOOLEAN
      /\ {} \in SUBSET Keywords
      /\ "none" \in RuleNames \ AlarmNames /\ "triage.ioc_inventory" \in RuleNames \ AlarmNames
      /\ "parse_summary" \in RuleNames \ AlarmNames
      /\ "correlation.graph_construction" \in RuleNames \ AlarmNames
  BY DEF Classes, Severities, RuleNames, AlarmNames
<1>2. Gap \in Seq(Backed(S, submission))
  BY <1>1, FindingIsBacked DEF Gap
<1>3. \A rule \in RuleNames \ AlarmNames : Fact(rule) \in Seq(Backed(S, submission))
  BY <1>1, FindingIsBacked DEF Fact
<1>4. \A rule \in RuleNames \ AlarmNames : Note(rule) \in Seq(Backed(S, submission))
  BY <1>1, FindingIsBacked DEF Note
<1>5. <<>> \in Seq(Backed(S, submission))
  OBVIOUS
<1> QED BY <1>1, <1>2, <1>3, <1>4, <1>5
-----------------------------------------------------------------------------
(* The steps                                                                 *)

\* What holds as soon as an agent that has evidence and findings of its own only
\* records them.
LEMMA Recorded ==
    ASSUME AnalysisInv, NEW agent, Turn(agent), Return,
           next < 4,
           evidence \subseteq evidence', evidence' \in SUBSET Observations,
           findings' \in Seq(Backed(evidence', submission)),
           UNCHANGED <<edges, hypotheses, report>>
    PROVE  AnalysisInv'
<1>1. Progress' /\ done' = done \cup {agent} /\ next \in 1..9
  BY Returns DEF AnalysisInv, Progress
<1>2. agent \notin {"correlation", "validation", "reporting"}
  BY Places DEF AnalysisInv
<1>3. /\ "correlation" \notin done' /\ "validation" \notin done' /\ "reporting" \notin done'
  BY <1>1, <1>2, Places DEF AnalysisInv
<1>4. Records'
  BY DEF AnalysisInv, Records, Return
<1>5. Drawn'
  <2>1. edges \in Seq(Asserted(evidence'))
    BY Growth DEF AnalysisInv, Drawn
  <2> QED BY <1>3, <2>1 DEF AnalysisInv, Drawn
<1>6. Judged'
  <2>1. Hostile(evidence) => Hostile(evidence')
    BY Growth
  <2> QED BY <1>3, <2>1 DEF AnalysisInv, Judged
<1>7. Assessed'
  BY <1>3 DEF Assessed
<1> QED BY <1>1, <1>4, <1>5, <1>6, <1>7 DEF AnalysisInv

LEMMA FallbackIs ==
    ASSUME TRUE
    PROVE  /\ Fallback.rule = "triage.deterministic_fallback" /\ Fallback.severity \in Severities
           /\ Fallback.confidence \in 0..100 /\ Fallback.hints \in SUBSET Keywords
<1> DEFINE severe == {h \in TargetHits : h.severity # "info"}
           Class(severity, confidence) ==
             [rule |-> "triage.deterministic_fallback", severity |-> severity,
              confidence |-> confidence, hints |-> {}]
           Good(f) == /\ f.rule = "triage.deterministic_fallback" /\ f.severity \in Severities
                      /\ f.confidence \in 0..100 /\ f.hints \in SUBSET Keywords
<1>1. \A s \in {"info", "critical", "high"}, c \in {85, 99, 95, 90} : Good(Class(s, c))
  BY DEF Severities, Keywords
<1>2. Fallback = IF severe = {} THEN Class("info", IF TargetHits = {} THEN 85 ELSE 99)
                 ELSE IF \E h \in severe : h.severity = "critical" THEN Class("critical", 95)
                 ELSE Class("high", IF \E h \in severe : h.rule # "R-URL-003" THEN 95 ELSE 90)
  BY DEF Fallback
<1> DEFINE low == IF TargetHits = {} THEN 85 ELSE 99
           high == IF \E h \in severe : h.rule # "R-URL-003" THEN 95 ELSE 90
<1>3. low \in {85, 99, 95, 90} /\ high \in {85, 99, 95, 90}
  OBVIOUS
<1>4. Fallback \in {Class("info", low), Class("critical", 95), Class("high", high)}
  BY <1>2
<1> HIDE DEF low, high
<1>5. Good(Class("info", low)) /\ Good(Class("critical", 95)) /\ Good(Class("high", high))
  <2> HIDE DEF Good, Class
  <2> QED BY <1>1, <1>3
<1> HIDE DEF Class
<1> QED BY <1>4, <1>5

LEMMA TriageStep ==
    ASSUME AnalysisInv, Triage
    PROVE  AnalysisInv'
<1> DEFINE E == evidence \cup Collected
           V == Seq(Backed(E, submission))
<1>1. /\ submission \in Submissions /\ attempt \in 1..MaxAttempts
      /\ Turn("triage") /\ Return /\ evidence' = E /\ next = 1
      /\ UNCHANGED <<edges, hypotheses, report>>
      /\ evidence \in SUBSET Observations /\ findings \in Seq(Backed(evidence, submission))
  BY Places DEF AnalysisInv, Progress, Records, Triage
<1>2. /\ Range(Answers) \in SUBSET Observations /\ Answers \in Seq(Observations)
      /\ \A o \in Range(Answers) : Data[o].subject # None
      /\ IsFiniteSet(TargetHits) /\ \A h \in TargetHits : IsBacked(h, E, submission)
  BY <1>1, TargetHitsAre
<1>3. E \in SUBSET Observations /\ evidence \subseteq E /\ Range(Answers) \subseteq E
  BY <1>1, <1>2, AnalysisAssumption DEF Collected, Extracted, Names
<1>4. findings \in V
  BY <1>1, <1>3, Growth
<1>5. Reputations \in V
  BY <1>2, ReputationsAre
<1>6. FromHits(TargetHits) \in V
  <2> HIDE DEF E
  <2> QED BY <1>2, HitsBecomeFindings
<1> DEFINE head == IF Collected = {} THEN Gap ELSE Fact("triage.ioc_inventory")
           class == IF Collected = {} THEN "hypothesis" ELSE "inference"
<1>7. head \in V
  BY StockFindings
<1>8. PICK opinion \in Opinions \cup {Fallback} :
        findings' = findings \o head \o Reputations \o FromHits(TargetHits)
          \o <<Finding(opinion.rule, class, opinion.severity, opinion.confidence,
                       Collected # {}, opinion.hints)>>
  BY DEF Triage, Reputations
<1> DEFINE last == <<Finding(opinion.rule, class, opinion.severity, opinion.confidence,
                             Collected # {}, opinion.hints)>>
<1>9. last \in V
  <2>1. /\ opinion.rule \in {"triage.classification", "triage.deterministic_fallback"}
        /\ opinion.severity \in Severities /\ opinion.confidence \in 0..100
        /\ opinion.hints \in SUBSET Keywords
    BY OpinionsAssumption, FallbackIs
  <2>2. opinion.rule \in RuleNames \ AlarmNames
    BY <2>1 DEF RuleNames, AlarmNames
  <2>3. class \in Classes
    BY DEF Classes
  <2>4. (Collected # {}) \in BOOLEAN
    OBVIOUS
  <2> HIDE DEF class, V
  <2>5. last \in Seq(Backed(E, submission))
    BY <2>1, <2>2, <2>3, <2>4, FindingIsBacked
  <2> QED BY <2>5 DEF V
<1>10. findings' \in V
  <2> HIDE DEF V, last, head
  <2>1. \A p, q \in V : p \o q \in V
    BY ConcatIsTyped DEF V
  <2>2. findings' = findings \o head \o Reputations \o FromHits(TargetHits) \o last
    BY <1>8 DEF last, head
  <2> QED BY <1>4, <1>5, <1>6, <1>7, <1>9, <2>1, <2>2
<1>11. evidence \subseteq evidence' /\ evidence' \in SUBSET Observations
       /\ findings' \in Seq(Backed(evidence', submission))
  BY <1>1, <1>3, <1>10
<1>12. next < 4
  BY <1>1
<1> HIDE DEF E, V
<1> QED BY <1>1, <1>11, <1>12, Recorded

LEMMA LogAnalysisStep ==
    ASSUME AnalysisInv, LogAnalysis
    PROVE  AnalysisInv'
<1> DEFINE E == evidence \cup (submission \cap Lines)
           V == Seq(Backed(E, submission))
           A == OfKind(E, AuthKinds)
           B == OfKind(E, WebKinds)
<1>1. /\ submission \in Submissions
      /\ Turn("log_analysis") /\ Return /\ evidence' = E /\ next = 2
      /\ UNCHANGED <<edges, hypotheses, report>>
      /\ evidence \in SUBSET Observations /\ findings \in Seq(Backed(evidence, submission))
  BY Places DEF AnalysisInv, Progress, Records, LogAnalysis
<1>2. E \in SUBSET Observations /\ evidence \subseteq E
  BY <1>1, AnalysisAssumption
<1>3. findings \in V
  BY <1>1, <1>2, Growth
<1>4. A \in SUBSET Observations /\ A \subseteq E /\ B \in SUBSET Observations /\ B \subseteq E
  BY <1>2 DEF OfKind
<1>5. FromHits(AuthHits(A)) \in V
  <2>1. FromHits(AuthHits(A)) \in Seq(Backed(A, submission))
    BY <1>4, AuthHitsAre, HitsBecomeFindings
  <2> HIDE DEF A
  <2> QED BY <1>4, <2>1, Growth
<1>6. FromHits(WebHits(B)) \in V
  <2>1. FromHits(WebHits(B)) \in Seq(Backed(B, submission))
    BY <1>4, WebHitsAre, HitsBecomeFindings
  <2> HIDE DEF B
  <2> QED BY <1>4, <2>1, Growth
<1> DEFINE a == Fact("parse_summary") \o FromHits(AuthHits(A))
           b == Fact("parse_summary") \o FromHits(WebHits(B))
           one == When(Lined(AuthKinds) # {}, a)
           two == When(Lined(WebKinds) # {}, b)
           three == When(\E o \in submission \cap Lines : ~Dated(o), Gap)
           four == When(submission \cap Lines = {}, Gap)
<1>7. one \in V /\ two \in V /\ three \in V /\ four \in V
  <2>1. Gap \in V /\ <<>> \in V /\ Fact("parse_summary") \in V
    BY StockFindings
  <2>2. a \in V /\ b \in V
    <3> HIDE DEF E, A, B
    <3> QED BY <1>5, <1>6, <2>1, ConcatIsTyped
  <2> HIDE DEF V, a, b
  <2> QED BY <2>1, <2>2 DEF When
<1>8. findings' = findings \o one \o two \o three \o four
  BY <1>1 DEF LogAnalysis
<1>9. findings' \in V
  <2> HIDE DEF V, one, two, three, four
  <2>1. \A p, q \in V : p \o q \in V
    BY ConcatIsTyped DEF V
  <2> QED BY <1>3, <1>7, <1>8, <2>1
<1>10. evidence \subseteq evidence' /\ evidence' \in SUBSET Observations
       /\ findings' \in Seq(Backed(evidence', submission))
  BY <1>1, <1>2, <1>9
<1>11. next < 4
  BY <1>1
<1> HIDE DEF E, V
<1> QED BY <1>1, <1>10, <1>11, Recorded

LEMMA MitreStep ==
    ASSUME AnalysisInv, Mitre
    PROVE  AnalysisInv'
<1> DEFINE Leads(i) == /\ findings[i].rule \in MappedRules
                       /\ \A j \in 1..i - 1 : findings[j].rule # findings[i].rule
           places == {i \in DOMAIN findings : Leads(i)}
           leads == Listed(places)
           mapped == [k \in DOMAIN leads |->
                        [findings[leads[k]] EXCEPT
                           !.rule  = "mitre.mapping", !.class = "inference",
                           !.hints = IF findings[leads[k]].rule = "R-AUTH-004"
                                     THEN {"priv"} ELSE {}]]
<1>1. /\ Turn("mitre") /\ Return /\ next = 3 /\ evidence' = evidence
      /\ UNCHANGED <<edges, hypotheses, report>>
      /\ evidence \in SUBSET Observations /\ findings \in Seq(Backed(evidence, submission))
  BY Places DEF AnalysisInv, Records, Mitre
<1>2. findings' = findings \o mapped
  BY DEF Mitre
<1>3. leads \in Seq(places)
  <2>1. IsFiniteSet(DOMAIN findings)
    BY <1>1, PlacesHaveAHighest
  <2>2. IsFiniteSet(places)
    BY <2>1, FS_Subset
  <2> HIDE DEF places
  <2> QED BY <2>2, ListedIs
<1>4. Len(leads) \in Nat /\ DOMAIN leads = 1..Len(leads) /\ \A k \in DOMAIN leads : leads[k] \in DOMAIN findings
  <2>1. places \in SUBSET DOMAIN findings
    OBVIOUS
  <2> HIDE DEF places
  <2> QED BY <1>3, <2>1
<1> HIDE DEF leads
<1>5. ASSUME NEW f \in Entries, NEW hints \in SUBSET Keywords
      PROVE  [f EXCEPT !.rule = "mitre.mapping", !.class = "inference", !.hints = hints]
               \in Backed(evidence, submission)
  <2> DEFINE g == [f EXCEPT !.rule = "mitre.mapping", !.class = "inference", !.hints = hints]
  <2>1. g \in Entries /\ g.rule = "mitre.mapping"
    BY DEF Entries, RuleNames, Classes
  <2>2. g.rule \notin AlarmNames
    BY <2>1 DEF AlarmNames
  <2> HIDE DEF g
  <2>3. g \in Backed(evidence, submission)
    BY <2>1, <2>2, QuietIsBacked
  <2> QED BY <2>3 DEF g
<1>6. \A k \in DOMAIN leads : mapped[k] \in Backed(evidence, submission)
  <2> TAKE k \in DOMAIN leads
  <2> DEFINE f == findings[leads[k]]
  <2>1. f \in Entries
    BY <1>1, <1>4 DEF Backed
  <2> DEFINE hints == IF f.rule = "R-AUTH-004" THEN {"priv"} ELSE {}
  <2>2. hints \in SUBSET Keywords
    BY DEF Keywords
  <2> HIDE DEF hints
  <2>3. mapped[k] = [f EXCEPT !.rule = "mitre.mapping", !.class = "inference", !.hints = hints]
    BY DEF hints
  <2> HIDE DEF f
  <2> HIDE DEF mapped
  <2> QED BY <1>5, <2>1, <2>2, <2>3
<1>7. mapped \in Seq(Backed(evidence, submission))
  <2>1. mapped = [k \in 1..Len(leads) |-> mapped[k]]
    BY <1>4
  <2> HIDE DEF mapped
  <2> QED BY <1>4, <1>6, <2>1
<1>8. findings' \in Seq(Backed(evidence, submission))
  <2> HIDE DEF mapped
  <2> QED BY <1>1, <1>2, <1>7, ConcatIsTyped
<1> QED BY <1>1, <1>8, Recorded
LEMMA CorrelateStep ==
    ASSUME AnalysisInv, Correlate
    PROVE  AnalysisInv'
<1> DEFINE A == Asserted(evidence)
           new == A \ Range(edges)
           s == Listed(new)
           note == When(\E o \in evidence : Refs(o) # <<>>, Note("correlation.graph_construction"))
<1>1. /\ Turn("correlation") /\ Return /\ next = 4
      /\ UNCHANGED <<evidence, hypotheses, report>>
      /\ evidence \in SUBSET Observations /\ findings \in Seq(Backed(evidence, submission))
      /\ edges' = edges \o s /\ findings' = findings \o note
      /\ Progress' /\ done' = done \cup {"correlation"}
  BY Places, Returns DEF AnalysisInv, Records, Correlate
<1>2. /\ edges \in Seq(A) /\ \A i, j \in DOMAIN edges : i # j => edges[i] # edges[j]
  BY DEF AnalysisInv, Drawn
<1>3. note \in Seq(Backed(evidence, submission))
  BY StockFindings DEF When
<1>4. findings' \in Seq(Backed(evidence, submission))
  <2> HIDE DEF note
  <2> QED BY <1>1, <1>3, ConcatIsTyped
<1>5. Records'
  BY <1>1, <1>4 DEF AnalysisInv, Records, Return
<1>6. /\ s \in Seq(new) /\ \A x \in new : \E i \in 1..Len(s) : s[i] = x
      /\ \A i, j \in 1..Len(s) : i # j => s[i] # s[j]
  <2>1. IsFiniteSet(A) /\ new \in SUBSET A
    BY <1>1, AssertedIsFinite
  <2>2. IsFiniteSet(new)
    BY <2>1, FS_Subset
  <2> HIDE DEF new
  <2> QED BY <2>2, ListedIs
<1> HIDE DEF s, A
<1> DEFINE all == edges \o s
<1>7. /\ all \in Seq(A) /\ DOMAIN all = 1..Len(edges) + Len(s)
      /\ Len(edges) \in Nat /\ Len(s) \in Nat
      /\ \A i \in 1..Len(edges) : all[i] = edges[i]
      /\ \A i \in 1..Len(s) : all[Len(edges) + i] = s[i]
      /\ DOMAIN edges = 1..Len(edges)
  <2>1. s \in Seq(A)
    BY <1>6
  <2> QED BY <1>2, <2>1
<1> HIDE DEF all
<1>8. ASSUME NEW i \in DOMAIN all, NEW j \in DOMAIN all, i < j PROVE all[i] # all[j]
  <2>1. CASE j \in 1..Len(edges)
    <3>1. i \in 1..Len(edges)
      BY <1>7, <1>8, <2>1
    <3> QED BY <1>2, <1>7, <1>8, <2>1, <3>1
  <2>2. CASE j \notin 1..Len(edges) /\ i \in 1..Len(edges)
    <3> DEFINE k == j - Len(edges)
    <3>1. k \in 1..Len(s) /\ j = Len(edges) + k
      BY <1>7, <2>2
    <3>2. all[j] = s[k] /\ s[k] \in new
      BY <1>6, <1>7, <3>1
    <3>3. all[i] = edges[i] /\ edges[i] \in Range(edges)
      BY <1>7, <2>2 DEF Range
    <3> QED BY <3>2, <3>3
  <2>3. CASE j \notin 1..Len(edges) /\ i \notin 1..Len(edges)
    <3> DEFINE k == j - Len(edges)  l == i - Len(edges)
    <3>1. k \in 1..Len(s) /\ j = Len(edges) + k /\ l \in 1..Len(s) /\ i = Len(edges) + l /\ k # l
      BY <1>7, <1>8, <2>3
    <3>2. all[j] = s[k] /\ all[i] = s[l]
      BY <1>7, <3>1
    <3> QED BY <1>6, <3>1, <3>2
  <2> QED BY <2>1, <2>2, <2>3
<1>9. \A i, j \in DOMAIN all : i # j => all[i] # all[j]
  BY <1>7, <1>8
<1>10. A \subseteq Range(all)
  <2>1. ASSUME NEW x \in A PROVE x \in Range(all)
    <3>1. CASE x \in Range(edges)
      <4>1. PICK i \in 1..Len(edges) : edges[i] = x
        BY <1>7, <3>1 DEF Range
      <4>2. i \in DOMAIN all /\ all[i] = x
        BY <1>7, <4>1
      <4> QED BY <4>2 DEF Range
    <3>2. CASE x \notin Range(edges)
      <4>1. PICK i \in 1..Len(s) : s[i] = x
        BY <1>6, <3>2
      <4>2. Len(edges) + i \in DOMAIN all /\ all[Len(edges) + i] = x
        BY <1>7, <4>1
      <4> QED BY <4>2 DEF Range
    <3> QED BY <3>1, <3>2
  <2> QED BY <2>1
<1>11. Drawn'
  <2>1. edges' = all /\ evidence' = evidence /\ Asserted(evidence') = A
    BY <1>1 DEF all, A
  <2> QED BY <1>7, <1>9, <1>10, <2>1 DEF Drawn
<1>12. Judged' /\ Assessed'
  <2>1. "validation" \notin done' /\ "reporting" \notin done'
    BY <1>1, Places DEF AnalysisInv
  <2> QED BY <1>1, <2>1 DEF AnalysisInv, Judged, Assessed
<1> QED BY <1>1, <1>5, <1>11, <1>12 DEF AnalysisInv

LEMMA ChainsAreFinite ==
    ASSUME Drawn
    PROVE  Cardinality(Chains) \in Nat
<1>1. IsFiniteSet(Range(edges))
  <2>1. IsFiniteSet(DOMAIN edges)
    BY PlacesHaveAHighest DEF Drawn
  <2>2. \A y \in Range(edges) : \E x \in DOMAIN edges : y = edges[x]
    BY DEF Range
  <2> QED BY <2>1, <2>2, CoveredIsFinite
<1>2. ASSUME NEW P, IsFiniteSet(P) PROVE IsFiniteSet(Prolonged(P))
  <2> DEFINE f == [p \in P \X Range(edges) |-> Append(p[1], p[2])]
  <2>1. IsFiniteSet(P \X Range(edges))
    BY <1>1, <1>2, FS_Product
  <2>2. ASSUME NEW y \in Prolonged(P) PROVE \E x \in P \X Range(edges) : y = f[x]
    <3>1. PICK p \in P, e \in Range(edges) : y = Append(p, e)
      BY DEF Prolonged
    <3>2. <<p, e>> \in P \X Range(edges) /\ y = f[<<p, e>>]
      BY <3>1
    <3> HIDE DEF f
    <3> QED BY <3>2
  <2> HIDE DEF f
  <2> QED BY <2>1, <2>2, CoveredIsFinite
<1> DEFINE one == {<<e>> : e \in {f \in Range(edges) : f[1][1] = "ip" /\ f[3] # f[1]}}
           two == Prolonged(one)
<1>3. IsFiniteSet(one)
  <2> DEFINE f == [e \in Range(edges) |-> <<e>>]
  <2>1. \A y \in one : \E x \in Range(edges) : y = f[x]
    OBVIOUS
  <2> HIDE DEF f, one
  <2> QED BY <1>1, <2>1, CoveredIsFinite
<1>4. Trails = one \cup two \cup Prolonged(two)
  BY DEF Trails
<1>5. IsFiniteSet(Trails)
  <2> HIDE DEF one
  <2> QED BY <1>2, <1>3, <1>4, FS_Union
<1>6. Chains \in SUBSET Trails
  BY DEF Chains
<1> QED BY <1>5, <1>6, FS_Subset, FS_CardinalityType

\* agents that add findings and change neither the evidence nor the graph
LEMMA Remarked ==
    ASSUME AnalysisInv, NEW agent, Turn(agent), Return, next \in {5, 6},
           findings' \in Seq(Backed(evidence, submission)), hypotheses' \in Seq(Conjectures),
           \A i \in DOMAIN hypotheses' :
             hypotheses'[i].status = "supported" => Hostile(evidence),
           UNCHANGED <<evidence, edges, report>>
    PROVE  AnalysisInv'
<1>1. Progress' /\ done' = done \cup {agent}
  BY Returns DEF AnalysisInv
<1>2. agent \notin {"correlation", "validation", "reporting"}
  BY Places DEF AnalysisInv
<1>3. "validation" \notin done' /\ "reporting" \notin done'
      /\ ("correlation" \in done' => "correlation" \in done)
  BY <1>1, <1>2, Places DEF AnalysisInv
<1>4. Records'
  BY DEF AnalysisInv, Records, Return
<1>5. Drawn'
  BY <1>3 DEF AnalysisInv, Drawn
<1>6. Judged'
  BY <1>3 DEF AnalysisInv, Judged
<1>7. Assessed'
  BY <1>3 DEF Assessed
<1> QED BY <1>1, <1>4, <1>5, <1>6, <1>7 DEF AnalysisInv

LEMMA ReasonStep ==
    ASSUME AnalysisInv, Reason
    PROVE  AnalysisInv'
<1> DEFINE V == Seq(Backed(evidence, submission))
           n == Cardinality(Chains)
           summary == <<Finding("reasoning.correlation_summary", "inference", "info", 85, TRUE, {})>>
           m == IF n < 3 THEN n ELSE 3
           chains == [i \in 1..m |-> Chain]
           new == IF edges = <<>> THEN <<>> ELSE IF Chains = {} THEN summary ELSE chains
<1>1. /\ Turn("reasoning") /\ Return /\ next \in {5, 6}
      /\ UNCHANGED <<hypotheses, evidence, edges, report>>
      /\ findings \in V /\ hypotheses \in Seq(Conjectures)
      /\ \A i \in DOMAIN hypotheses : hypotheses[i].status = "supported" => Hostile(evidence)
  BY Places DEF AnalysisInv, Records, Judged, Reason
<1>2. findings' = findings \o new
  BY DEF Reason
<1>3. n \in Nat
  BY ChainsAreFinite DEF AnalysisInv
<1>4. /\ "inference" \in Classes /\ "info" \in Severities /\ "high" \in Severities
      /\ 85 \in 0..100 /\ 90 \in 0..100 /\ TRUE \in BOOLEAN /\ {} \in SUBSET Keywords
      /\ "reasoning.correlation_summary" \in RuleNames \ AlarmNames
      /\ "reasoning.attack_chain" \in RuleNames \ AlarmNames
  BY DEF Classes, Severities, RuleNames, AlarmNames
<1>5. summary \in V
  BY <1>4, FindingIsBacked
<1>6. Chain \in Backed(evidence, submission)
  BY <1>4, FindingIsBacked DEF Chain
<1> HIDE DEF n
<1>7. m \in Nat
  BY <1>3
<1> HIDE DEF m
<1>8. chains \in V
  BY <1>6, <1>7
<1>9. <<>> \in V
  OBVIOUS
<1>10. new \in V
  <2> HIDE DEF V, summary, chains
  <2> QED BY <1>5, <1>8, <1>9
<1>11. findings' \in Seq(Backed(evidence, submission))
  <2> HIDE DEF new
  <2> QED BY <1>1, <1>2, <1>10, ConcatIsTyped
<1>12. /\ hypotheses' \in Seq(Conjectures)
       /\ \A i \in DOMAIN hypotheses' : hypotheses'[i].status = "supported" => Hostile(evidence)
  BY <1>1
<1> QED BY <1>1, <1>11, <1>12, Remarked

LEMMA HypothesiseStep ==
    ASSUME AnalysisInv, Hypothesise
    PROVE  AnalysisInv'
<1>1. /\ Turn("hypothesis") /\ Return /\ next \in {5, 6}
      /\ UNCHANGED <<evidence, edges, report>>
      /\ findings \in Seq(Backed(evidence, submission)) /\ hypotheses \in Seq(Conjectures)
      /\ \A i \in DOMAIN hypotheses : hypotheses[i].status = "supported" => Hostile(evidence)
  BY Places DEF AnalysisInv, Records, Judged, Hypothesise
<1> DEFINE Unjudged == {c \in Conjectures : c.status = "unresolved"}
<1>2. \A kind \in {"intrusion", "benign", "baseline"}, b \in BOOLEAN : Conjecture(kind, b) \in Unjudged
  BY DEF Conjecture, Conjectures
<1>3. ASSUME NEW new \in Seq(Unjudged), hypotheses' = hypotheses \o new
      PROVE  /\ hypotheses' \in Seq(Conjectures)
             /\ \A i \in DOMAIN hypotheses' : hypotheses'[i].status = "supported" => Hostile(evidence)
  <2>1. new \in Seq(Conjectures) /\ \A i \in 1..Len(new) : new[i].status = "unresolved"
    OBVIOUS
  <2> HIDE DEF Unjudged
  <2>2. hypotheses \o new \in Seq(Conjectures)
    BY <1>1, <2>1
  <2>3. ASSUME NEW i \in DOMAIN (hypotheses \o new), (hypotheses \o new)[i].status = "supported"
        PROVE  Hostile(evidence)
    <3>1. CASE i \in 1..Len(hypotheses)
      <4>1. (hypotheses \o new)[i] = hypotheses[i]
        BY <1>1, <2>1, <3>1
      <4> QED BY <1>1, <2>3, <3>1, <4>1
    <3>2. CASE i \notin 1..Len(hypotheses)
      <4>1. i - Len(hypotheses) \in 1..Len(new)
            /\ (hypotheses \o new)[i] = new[i - Len(hypotheses)]
        BY <1>1, <2>1, <3>2
      <4> QED BY <2>1, <2>3, <4>1
    <3> QED BY <3>1, <3>2
  <2> QED BY <1>3, <2>2, <2>3
<1>4. /\ findings' \in Seq(Backed(evidence, submission)) /\ hypotheses' \in Seq(Conjectures)
      /\ \A i \in DOMAIN hypotheses' : hypotheses'[i].status = "supported" => Hostile(evidence)
  <2>1. CASE findings = <<>> /\ evidence = {}
    <3>1. UNCHANGED <<findings, hypotheses>>
      BY <2>1 DEF Hypothesise
    <3> QED BY <1>1, <3>1
  <2>2. CASE ~(findings = <<>> /\ evidence = {}) /\ Hints = {}
    <3>1. hypotheses' = Append(hypotheses, Conjecture("baseline", FALSE)) /\ UNCHANGED findings
      BY <2>2 DEF Hypothesise
    <3> DEFINE c == Conjecture("baseline", FALSE)
    <3>2. c \in Unjudged
      BY <1>2
    <3> HIDE DEF c, Unjudged
    <3>3. <<c>> \in Seq(Unjudged)
      BY <3>2
    <3>4. Append(hypotheses, c) = hypotheses \o <<c>>
      BY <1>1
    <3>5. hypotheses' = hypotheses \o <<c>>
      BY <3>1, <3>4 DEF c
    <3> QED BY <1>1, <1>3, <3>1, <3>3, <3>5
  <2>3. CASE ~(findings = <<>> /\ evidence = {}) /\ Hints # {}
    <3> DEFINE a == Conjecture("intrusion", FALSE)
               b == Conjecture("benign", "priv" \in Hints)
               confidence == IF Hints \cap {"priv", "web"} # {} THEN 85 ELSE 70
               f == Finding("hypothesis.generation", "inference", "medium", confidence, TRUE, {})
    <3>1. hypotheses' = hypotheses \o <<a, b>> /\ findings' = Append(findings, f)
      BY <2>3 DEF Hypothesise
    <3>2. a \in Unjudged /\ b \in Unjudged
      <4>1. ("priv" \in Hints) \in BOOLEAN
        OBVIOUS
      <4> QED BY <1>2, <4>1
    <3>3. f \in Backed(evidence, submission)
      <4>1. /\ "inference" \in Classes /\ "medium" \in Severities /\ confidence \in 0..100
            /\ TRUE \in BOOLEAN /\ {} \in SUBSET Keywords
            /\ "hypothesis.generation" \in RuleNames \ AlarmNames
        BY DEF Classes, Severities, RuleNames, AlarmNames
      <4> HIDE DEF confidence
      <4> QED BY <4>1, FindingIsBacked
    <3> HIDE DEF a, b, f, Unjudged
    <3>4. <<a, b>> \in Seq(Unjudged)
      BY <3>2
    <3>5. findings' \in Seq(Backed(evidence, submission))
      BY <1>1, <3>1, <3>3
    <3> QED BY <1>3, <3>1, <3>4, <3>5
  <2> QED BY <2>1, <2>2, <2>3
<1> QED BY <1>1, <1>4, Remarked

LEMMA HostileIs == Hostile(evidence) <=> Attacked \/ Escalated
BY DEF Hostile, Bad, Attacked, Escalated

LEMMA ValidateStep ==
    ASSUME AnalysisInv, Validate
    PROVE  AnalysisInv'
<1> DEFINE judged == [i \in DOMAIN hypotheses |->
                        [hypotheses[i] EXCEPT !.status = Verdict(hypotheses[i])]]
           f == Finding("validation.hypothesis_review", "inference", "info", 95, TRUE, {})
           note == When(\E i \in DOMAIN hypotheses :
              \/ Attacked \/ Escalated
              \/ hypotheses[i].kind # "intrusion" /\ hypotheses[i].contradicted, <<f>>)
<1>1. /\ Turn("validation") /\ Return /\ next = 7
      /\ UNCHANGED <<evidence, edges, report>>
      /\ evidence \in SUBSET Observations
      /\ findings \in Seq(Backed(evidence, submission)) /\ hypotheses \in Seq(Conjectures)
      /\ \A i \in DOMAIN hypotheses : hypotheses[i].status = "supported" => Hostile(evidence)
      /\ Progress' /\ done' = done \cup {"validation"}
  BY Places, Returns DEF AnalysisInv, Records, Judged, Validate
<1>2. hypotheses' = judged /\ findings' = findings \o note
  BY DEF Validate
<1>3. note \in Seq(Backed(evidence, submission))
  <2>1. /\ "inference" \in Classes /\ "info" \in Severities /\ 95 \in 0..100
        /\ TRUE \in BOOLEAN /\ {} \in SUBSET Keywords
        /\ "validation.hypothesis_review" \in RuleNames \ AlarmNames
    BY DEF Classes, Severities, RuleNames, AlarmNames
  <2>2. <<f>> \in Seq(Backed(evidence, submission))
    BY <2>1, FindingIsBacked
  <2>3. <<>> \in Seq(Backed(evidence, submission))
    OBVIOUS
  <2> HIDE DEF f
  <2> QED BY <2>2, <2>3 DEF When
<1>4. findings' \in Seq(Backed(evidence, submission))
  <2> HIDE DEF note
  <2> QED BY <1>1, <1>2, <1>3, ConcatIsTyped
<1>5. ASSUME NEW i \in DOMAIN hypotheses
      PROVE  LET h == judged[i]
             IN  /\ h \in Conjectures /\ h.kind = hypotheses[i].kind
                 /\ h.status = "supported" => Hostile(evidence)
                 /\ Hostile(evidence) =>
                      h.status = IF h.kind = "intrusion" THEN "supported" ELSE "refuted"
  <2> DEFINE g == hypotheses[i]  v == Verdict(g)
  <2>1. g \in Conjectures /\ (g.status = "supported" => Hostile(evidence))
    BY <1>1
  <2> HIDE DEF g
  <2>2. g.kind \in {"intrusion", "benign", "baseline"} /\ g.status \in {"unresolved", "supported", "refuted"}
    BY <2>1 DEF Conjectures
  <2>3. CASE Hostile(evidence)
    <3>1. v = IF g.kind = "intrusion" THEN "supported" ELSE "refuted"
      BY <2>3, HostileIs DEF Verdict
    <3>2. v \in {"unresolved", "supported", "refuted"}
      BY <3>1
    <3>3. judged[i] = [g EXCEPT !.status = v]
      BY DEF g
    <3> HIDE DEF v, judged
    <3>4. judged[i] \in Conjectures /\ judged[i].kind = g.kind /\ judged[i].status = v
      BY <2>1, <3>2, <3>3 DEF Conjectures
    <3> QED BY <2>3, <3>1, <3>4 DEF g
  <2>4. CASE ~Hostile(evidence)
    <3>1. v = "refuted" \/ v = g.status
      BY <2>4, HostileIs DEF Verdict
    <3>2. v \in {"unresolved", "supported", "refuted"} /\ v # "supported"
      BY <2>1, <2>2, <2>4, <3>1
    <3>3. judged[i] = [g EXCEPT !.status = v]
      BY DEF g
    <3> HIDE DEF v, judged
    <3>4. judged[i] \in Conjectures /\ judged[i].kind = g.kind /\ judged[i].status = v
      BY <2>1, <3>2, <3>3 DEF Conjectures
    <3> QED BY <2>4, <3>2, <3>4 DEF g
  <2> QED BY <2>3, <2>4
<1>6. judged \in Seq(Conjectures) /\ DOMAIN judged = DOMAIN hypotheses
  <2>1. judged = [i \in 1..Len(hypotheses) |-> judged[i]] /\ DOMAIN hypotheses = 1..Len(hypotheses)
    BY <1>1
  <2> HIDE DEF judged
  <2> QED BY <1>1, <1>5, <2>1
<1> HIDE DEF judged
<1>7. Records'
  BY <1>1, <1>2, <1>4, <1>6 DEF Records, Return
<1>8. Judged'
  BY <1>1, <1>2, <1>5, <1>6 DEF Judged
<1>9. Drawn' /\ Assessed'
  <2>1. "reporting" \notin done' /\ ("correlation" \in done' => "correlation" \in done)
    BY <1>1, Places DEF AnalysisInv
  <2> QED BY <1>1, <2>1 DEF AnalysisInv, Drawn, Assessed
<1> QED BY <1>1, <1>7, <1>8, <1>9 DEF AnalysisInv

LEMMA ReportStep ==
    ASSUME AnalysisInv, Report
    PROVE  AnalysisInv'
<1>1. /\ Turn("reporting") /\ Return /\ report' = Assess(findings)
      /\ UNCHANGED <<evidence, findings, edges, hypotheses>>
      /\ Progress' /\ done' = done \cup {"reporting"}
  BY Returns DEF AnalysisInv, Report
<1>2. ("correlation" \in done' => "correlation" \in done)
      /\ ("validation" \in done' => "validation" \in done)
  BY <1>1
<1>3. Records' /\ Drawn' /\ Judged'
  BY <1>1, <1>2 DEF AnalysisInv, Records, Drawn, Judged, Return
<1>4. Assessed'
  BY <1>1 DEF Assessed
<1> QED BY <1>1, <1>3, <1>4 DEF AnalysisInv

LEMMA IdleStep ==
    ASSUME AnalysisInv, Miss \/ Retry \/ UNCHANGED vars
    PROVE  AnalysisInv'
<1>1. CASE Miss
  <2>1. /\ next' = next + 1 /\ next <= 8 /\ next \in 1..9
        /\ UNCHANGED <<submission, evidence, findings, edges, hypotheses, report, attempt, done>>
    BY <1>1, PlanIs DEF Miss, AnalysisInv, Progress
  <2>2. next' \in 1..9 /\ \A i \in 1..8 : i < next => i < next'
    BY <2>1
  <2>3. Plan' = Plan
    BY DEF Plan
  <2> QED BY <2>1, <2>2, <2>3 DEF AnalysisInv, Progress, Records, Drawn, Judged, Assessed
<1>2. CASE Retry
  <2>1. /\ attempt' = attempt + 1 /\ next' = 1 /\ done' = {} /\ attempt < MaxAttempts
        /\ UNCHANGED <<submission, evidence, findings, edges, hypotheses, report>>
    BY <1>2 DEF Retry
  <2>2. attempt' \in 1..MaxAttempts
    BY <2>1, AnalysisAssumption DEF AnalysisInv, Progress
  <2> QED BY <2>1, <2>2 DEF AnalysisInv, Progress, Records, Drawn, Judged, Assessed
<1>3. CASE UNCHANGED vars
  <2>1. Plan' = Plan
    BY DEF Plan
  <2> QED BY <1>3, <2>1 DEF vars, progressVars, AnalysisInv, Progress, Records, Drawn, Judged, Assessed
<1> QED BY <1>1, <1>2, <1>3

LEMMA AnalysisInit == Init => AnalysisInv
<1> SUFFICES ASSUME Init PROVE AnalysisInv
  OBVIOUS
<1>1. Progress
  BY AnalysisAssumption DEF Init, Progress
<1>2. Records
  BY DEF Init, Records
<1>3. Drawn
  BY DEF Init, Drawn
<1>4. Judged
  BY DEF Init, Judged
<1>5. Assessed
  BY DEF Init, Assessed
<1> QED BY <1>1, <1>2, <1>3, <1>4, <1>5 DEF AnalysisInv

LEMMA AnalysisNext == AnalysisInv /\ [Next]_vars => AnalysisInv'
<1> SUFFICES ASSUME AnalysisInv, [Next]_vars PROVE AnalysisInv'
  OBVIOUS
<1>1. CASE Triage
  BY <1>1, TriageStep
<1>2. CASE LogAnalysis
  BY <1>2, LogAnalysisStep
<1>3. CASE Mitre
  BY <1>3, MitreStep
<1>4. CASE Correlate
  BY <1>4, CorrelateStep
<1>5. CASE Reason
  BY <1>5, ReasonStep
<1>6. CASE Hypothesise
  BY <1>6, HypothesiseStep
<1>7. CASE Validate
  BY <1>7, ValidateStep
<1>8. CASE Report
  BY <1>8, ReportStep
<1>9. CASE Miss \/ Retry \/ UNCHANGED vars
  BY <1>9, IdleStep
<1> QED BY <1>1, <1>2, <1>3, <1>4, <1>5, <1>6, <1>7, <1>8, <1>9 DEF Next

LEMMA AnalysisHolds == Spec => []AnalysisInv
BY AnalysisInit, AnalysisNext, PTL DEF Spec
-----------------------------------------------------------------------------
(* The theorems                                                              *)

\* Whatever was recorded by the time the rules are evaluated, the bursts of
\* failures they find lie within the window and are the longest there are, and no
\* burst of errors is overlooked (auth_rules.py:136-164, web_rules.py:277-310).
THEOREM BurstsHold == Spec => []BurstsAreFound
<1>1. AnalysisInv => BurstsAreFound
  BY BurstsAreLongestIn DEF AnalysisInv, Records, BurstsAreFound
<1> QED BY <1>1, AnalysisHolds, PTL

\* The graph has each edge that the evidence asserts exactly once when the
\* correlation is done, and no other at any time, over all attempts
\* (correlation.py:57).
THEOREM GraphSaysTheEvidence == Spec => []GraphIsDerived
<1>1. ASSUME AnalysisInv PROVE GraphIsDerived
  <2>1. /\ edges \in Seq(Asserted(evidence))
        /\ \A i, j \in DOMAIN edges : i # j => edges[i] # edges[j]
        /\ "correlation" \in done => Asserted(evidence) \subseteq Range(edges)
    BY <1>1 DEF AnalysisInv, Drawn
  <2>2. DOMAIN edges = 1..Len(edges) /\ Len(edges) \in Nat
    BY <2>1
  <2>3. Range(edges) \subseteq Asserted(evidence)
    BY <2>1 DEF Range
  <2>4. Cardinality(Range(edges)) = Len(edges)
    <3> DEFINE R == Range(edges)
               g == [i \in 1..Len(edges) |-> edges[i]]
    <3>1. g \in Bijection(1..Len(edges), R)
      BY <2>1, <2>2 DEF Bijection, Injection, Surjection, IsInjective, Range
    <3>2. IsFiniteSet(1..Len(edges)) /\ Cardinality(1..Len(edges)) = Len(edges)
      <4> DEFINE n == Len(edges)
      <4>1. n \in Nat /\ 1 \in Int /\ n \in Int
        BY <2>2
      <4> HIDE DEF n
      <4>2. IsFiniteSet(1..n) /\ Cardinality(1..n) = IF 1 > n THEN 0 ELSE n - 1 + 1
        BY <4>1, FS_Interval
      <4>3. IsFiniteSet(1..n) /\ Cardinality(1..n) = n
        BY <4>1, <4>2
      <4> QED BY <4>3 DEF n
    <3>3. ExistsBijection(1..Len(edges), R)
      <4> HIDE DEF g, R
      <4> QED BY <3>1 DEF ExistsBijection
    <3> QED BY <3>2, <3>3, FS_Bijection
  <2> QED BY <2>1, <2>3, <2>4 DEF GraphIsDerived
<1> QED BY <1>1, AnalysisHolds, PTL

\* What the rules object to in a target, the feed objects to as well: with its
\* answer on record, the validation has seen it (url_rules.py, threat_intel.py).
LEMMA HeardIsHostile ==
    ASSUME Records, Lured(submission), Heard
    PROVE  Hostile(evidence)
<1>1. PICK o \in submission \cap Targets :
        LET t == Data[o].subject
        IN t.host /\ ~t.verified /\ (t.lure \/ Mimicked(t) # <<>>)
  BY DEF Lured
<1> DEFINE t == Data[o].subject
<1>2. t.host /\ ~t.verified /\ (t.lure \/ Mimicked(t) # <<>>)
  BY <1>1
<1>3. PICK e \in evidence : Data[e].kind = "threat_intel" /\ Data[e].indicator = Data[o].indicator
  BY <1>1 DEF Heard, Target
<1>4. o \in Targets /\ o \in Observations /\ o \in Indicators /\ e \in Observations
  BY <1>1, <1>3, AnalysisAssumption DEF Records
<1>5. t # None /\ Data[e].subject = t
  BY <1>3, <1>4, FeedAssumption
<1>6. t.listed # None => t.listed.status = "malicious"
  BY <1>2, <1>4, <1>5, FeedAssumption
<1>7. t.listed = None => Inspect(t).status = "malicious"
  BY <1>2 DEF Inspect
<1>8. Feed(t).status = "malicious"
  BY <1>6, <1>7 DEF Feed
<1> QED BY <1>3, <1>5, <1>8 DEF Hostile, Bad, Flagged

\* Once a validation has run, a MEDIUM or worse hit of the rules has a hostile
\* observation the validation saw as well, so that no hypothesis is left open
\* beside it and no harmless one beside a supported intrusion
\* (validation.py:54-113).  A hit about a target of which no answer of the feed is
\* on record is excepted: it cites what was collected first (triage.py:225), and the
\* validation does not see it.
THEOREM VerdictsFollow == Spec => []VerdictsAgree
<1>1. ASSUME AnalysisInv, "validation" \in done
      PROVE  \A i \in DOMAIN hypotheses :
               /\ (\E k \in DOMAIN findings :
                     Alarm(findings[k]) /\ (findings[k].rule \in UrlRules => Heard)) =>
                    hypotheses[i].status # "unresolved"
               /\ hypotheses[i].kind # "intrusion" /\ hypotheses[i].status # "refuted" =>
                    \A j \in DOMAIN hypotheses : hypotheses[j].status # "supported"
  <2>1. /\ Records /\ findings \in Seq(Backed(evidence, submission))
        /\ \A j \in DOMAIN hypotheses :
             hypotheses[j].status = "supported" => Hostile(evidence)
        /\ Hostile(evidence) =>
             \A j \in DOMAIN hypotheses :
               hypotheses[j].status =
                 IF hypotheses[j].kind = "intrusion" THEN "supported" ELSE "refuted"
    BY <1>1 DEF AnalysisInv, Records, Judged
  <2> TAKE i \in DOMAIN hypotheses
  <2>2. ASSUME NEW k \in DOMAIN findings, Alarm(findings[k]),
               findings[k].rule \in UrlRules => Heard
        PROVE  Hostile(evidence)
    <3>1. Hostile(evidence) \/ (findings[k].rule \in UrlRules /\ Lured(submission))
      BY <2>1, <2>2 DEF Backed, Founded
    <3> QED BY <2>1, <2>2, <3>1, HeardIsHostile
  <2>3. Hostile(evidence) => hypotheses[i].status # "unresolved"
    BY <2>1
  <2>4. hypotheses[i].kind # "intrusion" /\ hypotheses[i].status # "refuted" =>
          \A j \in DOMAIN hypotheses : hypotheses[j].status # "supported"
    BY <2>1
  <2> QED BY <2>2, <2>3, <2>4
<1>2. AnalysisInv => VerdictsAgree
  BY <1>1 DEF VerdictsAgree
<1> QED BY <1>2, AnalysisHolds, PTL

\* The score of a report is a score, at most half the scale away from what the
\* rules alone say, exactly that without a model's decision, and held up by a
\* CRITICAL of the rules (risk.py:182-190).
THEOREM RiskStaysHeld == Spec => []RiskIsHeld
<1>1. ASSUME AnalysisInv PROVE RiskIsHeld
  <2>1. findings \in Seq(Entries)
    <3>1. findings \in Seq(Backed(evidence, submission)) /\ Backed(evidence, submission) \subseteq Entries
      BY <1>1 DEF AnalysisInv, Records, Backed
    <3> QED BY <3>1
  <2>2. "reporting" \in done => report = Assess(findings)
    BY <1>1 DEF AnalysisInv, Assessed
  <2> QED BY <2>1, <2>2, AssessmentIsHeld DEF RiskIsHeld
<1> QED BY <1>1, AnalysisHolds, PTL

-----------------------------------------------------------------------------
\* a query with its bounds, and a graph with its edges
LEMMA QueryIs ==
    ASSUME query \in Queries
    PROVE  /\ query.op \in {"neighbours", "paths", "full", "finding"}
           /\ query.cap \in Nat \ {0}
           /\ query.op \in {"neighbours", "paths"} =>
                query.depth \in 1..MaxDepth /\ query.start \in Entities
<1>1. /\ \A d \in Depths : Smaller(d, MaxDepth) \in 1..MaxDepth
      /\ \A l \in Limits : /\ l \in Nat \ {0}
                           /\ Smaller(l, MaxResults) \in Nat \ {0}
                           /\ Smaller(l, MaxPaths) \in Nat \ {0}
  BY BoundsAssumption DEF Smaller
<1> QED BY <1>1 DEF Queries

LEMMA EndsAre ==
    ASSUME NEW g \in SUBSET Edges
    PROVE  /\ EndsOf(g) \in SUBSET Entities
           /\ \A e \in g : From[e] \in EndsOf(g) /\ To[e] \in EndsOf(g)
           /\ \A v : v \in EndsOf(g) <=> \E e \in g : v = From[e] \/ v = To[e]
<1>1. \A e \in g : From[e] \in Entities /\ To[e] \in Entities
  BY EndsAssumption
<1> QED BY <1>1 DEF EndsOf

\* a set and a sequence of its elements, each of them once
Lists(q, S) ==
  /\ q \in Seq(S) /\ Len(q) = Cardinality(S) /\ DOMAIN q = 1..Len(q)
  /\ Range(q) = S
  /\ \A i, j \in 1..Len(q) : i # j => q[i] # q[j]

LEMMA OnceEach ==
    ASSUME NEW S, IsFiniteSet(S), NEW q \in [1..Cardinality(S) -> S], IsInjective(q)
    PROVE  Lists(q, S)
<1>1. Cardinality(S) \in Nat
  BY FS_CardinalityType
<1> DEFINE n == Cardinality(S)
           N == 1..n
<1>2. IsFiniteSet(N) /\ Cardinality(N) = n
  <2>1. n = 0 => IF 1 > n THEN TRUE ELSE FALSE
    OBVIOUS
  <2>2. IsFiniteSet(N) /\ Cardinality(N) = IF 1 > n THEN 0 ELSE n - 1 + 1
    <3> HIDE DEF n
    <3> QED BY <1>1, FS_Interval DEF n
  <2> QED BY <1>1, <2>2
<1>3. q \in Injection(N, S)
  BY DEF Injection
<1>4. q \in Surjection(N, S)
  <2> HIDE DEF N
  <2> QED BY <1>2, <1>3, FS_Injection DEF n
<1>5. Range(q) = S
  BY <1>4 DEF Surjection, Range
<1>6. q \in Seq(S) /\ Len(q) = n /\ DOMAIN q = N
  BY <1>1
<1>7. \A i, j \in N : i # j => q[i] # q[j]
  BY DEF IsInjective
<1> QED BY <1>5, <1>6, <1>7 DEF Lists

LEMMA RowsAreListed ==
    ASSUME NEW S, IsFiniteSet(S), NEW q \in SetToSeqs(S)
    PROVE  Lists(q, S)
<1>1. q \in [1..Cardinality(S) -> S] /\ IsInjective(q)
  BY DEF SetToSeqs, IsInjective
<1> QED BY <1>1, OnceEach

LEMMA SetIsListed ==
    ASSUME NEW S, IsFiniteSet(S)
    PROVE  Lists(SetToSeq(S), S)
<1>1. PICK f \in Bijection(1..Cardinality(S), S) : TRUE
  BY FS_CardinalityType DEF ExistsBijection
<1>2. f \in [1..Cardinality(S) -> S] /\ IsInjective(f)
  BY <1>1 DEF Bijection, Injection
<1>3. SetToSeq(S) \in [1..Cardinality(S) -> S] /\ IsInjective(SetToSeq(S))
  BY <1>2 DEF SetToSeq
<1> QED BY <1>3, OnceEach

-----------------------------------------------------------------------------
\* the entities within n hops
LEMMA WithinIs ==
    ASSUME NEW g
    PROVE  /\ Within(g)[0] = {query.start}
           /\ \A n \in 1..MaxDepth : Within(g)[n] = Beside(Within(g)[n - 1], g)
<1> DEFINE Step(f, n) == IF n = 0 THEN {query.start} ELSE Beside(f[n - 1], g)
           T == {k \in Nat : \E f : f = [n \in 0..k |-> Step(f, n)]}
<1>1. 0 \in T
  <2> DEFINE f == [n \in 0..0 |-> {query.start}]
  <2>1. \A n \in 0..0 : Step(f, n) = {query.start}
    OBVIOUS
  <2>2. f = [n \in 0..0 |-> Step(f, n)]
    <3> HIDE DEF Step
    <3> QED BY <2>1
  <2>3. \E h : h = [n \in 0..0 |-> Step(h, n)]
    <3> HIDE DEF f, Step
    <3> QED BY <2>2
  <2> HIDE DEF Step
  <2> QED BY <2>3
<1>2. ASSUME NEW k \in Nat, k \in T PROVE k + 1 \in T
  <2>1. PICK f : f = [n \in 0..k |-> Step(f, n)]
    BY <1>2
  <2> DEFINE h == [n \in 0..k + 1 |-> IF n = k + 1 THEN Beside(f[k], g) ELSE f[n]]
  <2>2. ASSUME NEW n \in 0..k + 1 PROVE h[n] = Step(h, n)
    <3>1. CASE n = 0
      <4>1. h[n] = f[n] /\ n \in 0..k
        BY <3>1
      <4>2. f[n] = Step(f, n)
        <5> HIDE DEF Step
        <5> QED BY <2>1, <4>1
      <4> QED BY <3>1, <4>1, <4>2
    <3>2. CASE n = k + 1
      <4>1. h[k] = f[k] /\ n - 1 = k /\ n # 0
        BY <3>2
      <4>2. h[n] = Beside(f[k], g)
        BY <3>2
      <4> HIDE DEF h
      <4> QED BY <4>1, <4>2
    <3>3. CASE n \in 1..k
      <4>1. n # 0 /\ n \in 0..k /\ n - 1 \in 0..k /\ n # k + 1 /\ n - 1 # k + 1
        BY <3>3
      <4>2. h[n] = f[n] /\ h[n - 1] = f[n - 1]
        BY <4>1
      <4>3. f[n] = Step(f, n)
        <5> HIDE DEF Step
        <5> QED BY <2>1, <4>1
      <4> HIDE DEF h
      <4> QED BY <4>1, <4>2, <4>3
    <3> QED BY <3>1, <3>2, <3>3
  <2>3. h = [n \in 0..k + 1 |-> Step(h, n)]
    <3> HIDE DEF Step
    <3> QED BY <2>2
  <2>4. \E j : j = [n \in 0..k + 1 |-> Step(j, n)]
    <3> HIDE DEF h, Step
    <3> QED BY <2>3
  <2> HIDE DEF Step
  <2> QED BY <2>4
<1>3. MaxDepth \in T
  <2> HIDE DEF T
  <2> QED BY <1>1, <1>2, Induction, BoundsAssumption
<1>4. PICK f : f = [n \in 0..MaxDepth |-> Step(f, n)]
  BY <1>3
<1>5. Within(g) = [n \in 0..MaxDepth |-> Step(Within(g), n)]
  BY <1>4 DEF Within
<1>6. \A n \in 0..MaxDepth : Within(g)[n] = Step(Within(g), n)
  <2> HIDE DEF Step
  <2> QED BY <1>5
<1>7. Within(g)[0] = {query.start}
  BY <1>6, BoundsAssumption
<1>8. ASSUME NEW n \in 1..MaxDepth PROVE Within(g)[n] = Beside(Within(g)[n - 1], g)
  <2>1. n \in 0..MaxDepth /\ n # 0
    BY BoundsAssumption
  <2> QED BY <1>6, <2>1
<1> QED BY <1>7, <1>8

\* it grows with the number of hops and with the graph
LEMMA BesideIs ==
    ASSUME NEW g \in SUBSET Edges, NEW S
    PROVE  /\ S \in SUBSET Beside(S, g)
           /\ \A v : v \in Beside(S, g) <=>
                v \in S \/ \E e \in g : /\ From[e] \in S \/ To[e] \in S
                                        /\ v = From[e] \/ v = To[e]
BY DEF Beside, EndsOf

LEMMA WithinGrows ==
    ASSUME NEW g \in SUBSET Edges, NEW h \in SUBSET Edges, g \subseteq h
    PROVE  \A n \in 0..MaxDepth : /\ Within(g)[n] \subseteq Within(h)[n]
                                  /\ \A m \in 0..n : Within(g)[m] \subseteq Within(g)[n]
<1> DEFINE T == {n \in Nat : n <= MaxDepth =>
                   /\ Within(g)[n] \subseteq Within(h)[n]
                   /\ \A m \in 0..n : Within(g)[m] \subseteq Within(g)[n]}
<1>1. 0 \in T
  BY WithinIs
<1>2. ASSUME NEW n \in Nat, n \in T PROVE n + 1 \in T
  <2>1. SUFFICES ASSUME n + 1 <= MaxDepth
                 PROVE  /\ Within(g)[n + 1] \subseteq Within(h)[n + 1]
                        /\ \A m \in 0..n + 1 : Within(g)[m] \subseteq Within(g)[n + 1]
    OBVIOUS
  <2>2. /\ Within(g)[n] \subseteq Within(h)[n]
        /\ \A m \in 0..n : Within(g)[m] \subseteq Within(g)[n]
    BY <1>2, <2>1, BoundsAssumption
  <2>3. n + 1 \in 1..MaxDepth /\ n + 1 - 1 = n
    BY <2>1, BoundsAssumption
  <2>4. /\ Within(g)[n + 1] = Beside(Within(g)[n], g)
        /\ Within(h)[n + 1] = Beside(Within(h)[n], h)
    BY <2>3, WithinIs
  <2>5. Beside(Within(g)[n], g) \subseteq Beside(Within(h)[n], h)
    BY <2>2, BesideIs
  <2>6. Within(g)[n] \subseteq Within(g)[n + 1]
    BY <2>4, BesideIs
  <2>7. \A m \in 0..n + 1 : m \in 0..n \/ m = n + 1
    OBVIOUS
  <2> QED BY <2>2, <2>4, <2>5, <2>6, <2>7
<1>3. \A n \in Nat : n \in T
  <2> HIDE DEF T
  <2> QED BY <1>1, <1>2, Induction
<1> QED BY <1>3, BoundsAssumption

-----------------------------------------------------------------------------
(* A loop over the rows of a SELECT: its state after k of them, from one     *)
(* step to the next.                                                         *)
Loops(n, base, states, op) ==
  /\ n \in Nat /\ base \in states
  /\ \A k \in 1..n, v \in states : op[<<k, v>>] \in states
IsLoop(f, n, base, states, op) ==
  /\ f = [s \in SUBSET (1..n) |-> IF s = {} THEN base ELSE op[<<Max(s), f[s \ {Max(s)}]>>]]
  /\ \A s \in SUBSET (1..n) : f[s] \in states

LEMMA LoopIsDefined ==
    ASSUME NEW n, NEW base, NEW states, NEW op, Loops(n, base, states, op)
    PROVE  \E f : IsLoop(f, n, base, states, op)
<1> DEFINE N == 1..n
           pick == [s \in SUBSET N |-> Max(s)]
           W == [s \in SUBSET N |-> states]
<1>1. IsFiniteSet(N) /\ N \in SUBSET Int
  BY FS_Interval DEF Loops
<1>2. ASSUME NEW s \in SUBSET N, s # {} PROVE pick[s] \in s /\ pick[s] = Max(s)
  <2>1. IsFiniteSet(s) /\ s \in SUBSET Int
    <3> HIDE DEF N
    <3> QED BY <1>1, FS_Subset
  <2> QED BY <2>1, <1>2, HighestIs
<1>3. base \in states /\ \A k \in N, v \in states : op[<<k, v>>] \in states
  BY DEF Loops
<1> HIDE DEF N, pick
<1>4. Folds(N, W, base, pick, op)
  <2>1. ASSUME NEW s \in SUBSET N, s # {}
        PROVE  pick[s] \in s /\ \A v \in W[s \ {pick[s]}] : op[<<pick[s], v>>] \in W[s]
    <3>1. pick[s] \in s /\ pick[s] \in N /\ s \ {pick[s]} \in SUBSET N
      BY <1>2, <2>1
    <3> QED BY <3>1, <1>3
  <2>2. base \in W[{}]
    BY <1>3
  <2> HIDE DEF W
  <2> QED BY <1>1, <2>1, <2>2 DEF Folds
<1>5. PICK f : IsFold(f, N, W, base, pick, op)
  <2> HIDE DEF W
  <2> QED BY <1>4, FoldIsDefined
<1>6. \A s \in SUBSET N : f[s] \in states
  BY <1>5 DEF IsFold
<1>7. ASSUME NEW s \in SUBSET N
      PROVE  f[s] = IF s = {} THEN base ELSE op[<<Max(s), f[s \ {Max(s)}]>>]
  BY <1>2, <1>5 DEF IsFold
<1>8. f = [s \in SUBSET N |-> IF s = {} THEN base ELSE op[<<Max(s), f[s \ {Max(s)}]>>]]
  BY <1>5, <1>7 DEF IsFold
<1> QED BY <1>6, <1>8 DEF N, IsLoop

\* the state after the first k rows
LEMMA PlacesUpTo ==
    ASSUME NEW n \in Nat, NEW k \in 1..n
    PROVE  /\ 1..k \in SUBSET (1..n) /\ 1..k # {}
           /\ Max(1..k) = k /\ (1..k) \ {k} = 1..k - 1
<1>1. IsFiniteSet(1..k) /\ 1..k \in SUBSET Int
  BY FS_Interval
<1>2. k \in 1..k
  OBVIOUS
<1>3. Max(1..k) \in 1..k /\ k <= Max(1..k)
  <2> DEFINE S == 1..k
  <2> HIDE DEF S
  <2>1. S # {} /\ IsFiniteSet(S) /\ S \in SUBSET Int /\ k \in S
    BY <1>1, <1>2 DEF S
  <2>2. Max(S) \in S /\ k <= Max(S)
    BY <2>1, HighestIs
  <2> QED BY <2>2 DEF S
<1> QED BY <1>2, <1>3

-----------------------------------------------------------------------------
VisitItems == [at : Entities, depth : Nat]
Gathers == [edges : Seq(Edges), seen : SUBSET Entities, todo : Seq(VisitItems), ended : BOOLEAN]

GatherStep(item, base, rows, f, s) ==
  IF s = {} THEN base ELSE Gather(item, f[s \ {Max(s)}], rows[Max(s)])
Gathering(item, base, rows) ==
  CHOOSE f : f = [s \in SUBSET DOMAIN rows |-> GatherStep(item, base, rows, f, s)]
Gathered(item, base, rows) == FoldLeft(LAMBDA state, e : Gather(item, state, e), base, rows)

LEMMA GatheredIsFolded ==
  \A item, base, rows : Gathered(item, base, rows) = Gathering(item, base, rows)[DOMAIN rows]
BY DEF Gathered, FoldLeft, MapThenFoldSet, Gathering, GatherStep

\* the far end of an edge
Beyond(v, e) == IF From[e] = v THEN To[e] ELSE From[e]

LEMMA GatherIsTyped ==
    ASSUME NEW item \in VisitItems, NEW v \in Gathers, NEW e \in Edges
    PROVE  Gather(item, v, e) \in Gathers
<1>1. /\ v.edges \in Seq(Edges) /\ v.seen \in SUBSET Entities /\ v.todo \in Seq(VisitItems)
      /\ v.ended \in BOOLEAN
      /\ v = [edges |-> v.edges, seen |-> v.seen, todo |-> v.todo, ended |-> v.ended]
  BY DEF Gathers
<1>2. Beyond(item.at, e) \in Entities /\ item.depth + 1 \in Nat
  BY EndsAssumption DEF Beyond, VisitItems
<1>3. [at |-> Beyond(item.at, e), depth |-> item.depth + 1] \in VisitItems
  BY <1>2 DEF VisitItems
<1>4. Append(v.edges, e) \in Seq(Edges)
  BY <1>1
<1>5. Append(v.todo, [at |-> Beyond(item.at, e), depth |-> item.depth + 1]) \in Seq(VisitItems)
  BY <1>1, <1>3
<1> QED BY <1>1, <1>2, <1>4, <1>5 DEF Gather, Gathers, Beyond

LEMMA GatherRuns ==
    ASSUME NEW item \in VisitItems, NEW base \in Gathers, NEW rows \in Seq(Edges)
    PROVE  \E g \in [0..Len(rows) -> Gathers] :
             /\ g[0] = base /\ g[Len(rows)] = Gathered(item, base, rows)
             /\ \A k \in 1..Len(rows) : g[k] = Gather(item, g[k - 1], rows[k])
<1> DEFINE n == Len(rows)
           op == [p \in (1..n) \X Gathers |-> Gather(item, p[2], rows[p[1]])]
           F == Gathering(item, base, rows)
<1>1. n \in Nat /\ DOMAIN rows = 1..n /\ \A k \in 1..n : rows[k] \in Edges
  OBVIOUS
<1>2. \A k \in 1..n, v \in Gathers : /\ op[<<k, v>>] = Gather(item, v, rows[k])
                                     /\ op[<<k, v>>] \in Gathers
  BY <1>1, GatherIsTyped
<1> HIDE DEF op, n
<1>3. Loops(n, base, Gathers, op)
  BY <1>1, <1>2 DEF Loops
<1>4. PICK f : IsLoop(f, n, base, Gathers, op)
  BY <1>3, LoopIsDefined
<1>5. ASSUME NEW s \in SUBSET (1..n) PROVE f[s] = GatherStep(item, base, rows, f, s)
  <2>1. CASE s = {}
    BY <2>1, <1>4 DEF GatherStep, IsLoop
  <2>2. CASE s # {}
    <3>1. Max(s) \in s /\ s \ {Max(s)} \in SUBSET (1..n)
      <4> DEFINE N == 1..n
      <4>1. IsFiniteSet(N) /\ N \in SUBSET Int
        BY <1>1, FS_Interval
      <4>2. s \in SUBSET N
        OBVIOUS
      <4> HIDE DEF N
      <4>3. IsFiniteSet(s) /\ s \in SUBSET Int
        BY <4>1, <4>2, FS_Subset
      <4>4. Max(s) \in s
        BY <4>3, <2>2, HighestIs
      <4> QED BY <4>2, <4>4 DEF N
    <3>2. f[s \ {Max(s)}] \in Gathers /\ Max(s) \in 1..n
      BY <3>1, <1>4 DEF IsLoop
    <3>3. f[s] = op[<<Max(s), f[s \ {Max(s)}]>>]
      BY <1>4, <2>2 DEF IsLoop
    <3> QED BY <2>2, <3>2, <3>3, <1>2 DEF GatherStep
  <2> QED BY <2>1, <2>2
<1>6. f = [s \in SUBSET DOMAIN rows |-> GatherStep(item, base, rows, f, s)]
  BY <1>1, <1>4, <1>5 DEF IsLoop
<1>7. F = [s \in SUBSET DOMAIN rows |-> GatherStep(item, base, rows, F, s)]
  BY <1>6 DEF Gathering
<1> HIDE DEF F
<1>8. /\ F[{}] = base
      /\ \A k \in 1..n : F[1..k] = Gather(item, F[1..k - 1], rows[k])
  <2>1. F[{}] = base
    BY <1>7 DEF GatherStep
  <2>2. ASSUME NEW k \in 1..n PROVE F[1..k] = Gather(item, F[1..k - 1], rows[k])
    <3>1. /\ 1..k \in SUBSET DOMAIN rows /\ 1..k # {}
          /\ Max(1..k) = k /\ (1..k) \ {k} = 1..k - 1
      BY <1>1, PlacesUpTo
    <3> QED BY <1>7, <3>1 DEF GatherStep
  <2> QED BY <2>1, <2>2
<1> DEFINE g == [k \in 0..n |-> F[1..k]]
           T == {k \in Nat : k <= n => g[k] \in Gathers}
<1>9. g[0] = base
  <2>1. 1..0 = {} /\ 0 \in 0..n
    BY <1>1
  <2> QED BY <2>1, <1>8
<1>10. \A k \in 1..n : g[k] = Gather(item, g[k - 1], rows[k])
  <2>1. \A k \in 1..n : k \in 0..n /\ k - 1 \in 0..n
    BY <1>1
  <2> QED BY <1>8, <2>1
<1> HIDE DEF g
<1>11. \A k \in Nat : k \in T
  <2>1. 0 \in T
    BY <1>9
  <2>2. ASSUME NEW k \in Nat, k \in T PROVE k + 1 \in T
    <3>1. k + 1 <= n => k + 1 \in 1..n /\ k + 1 - 1 = k /\ k <= n
      BY <1>1
    <3> QED BY <2>2, <3>1, <1>1, <1>10, GatherIsTyped
  <2> HIDE DEF T
  <2> QED BY <2>1, <2>2, Induction
<1>12. g \in [0..n -> Gathers]
  <2>1. \A k \in 0..n : g[k] \in Gathers
    BY <1>11, <1>1
  <2>2. g = [k \in 0..n |-> g[k]]
    BY DEF g
  <2> QED BY <2>1, <2>2
<1>13. g[n] = Gathered(item, base, rows)
  <2>1. n \in 0..n
    BY <1>1
  <2> QED BY <2>1, <1>1, GatheredIsFolded DEF g, F
<1> QED BY <1>9, <1>10, <1>12, <1>13 DEF n

-----------------------------------------------------------------------------
TrailItems == [at : Entities, trail : Seq(Edges)]
Extents == [found : Seq(Seq(Edges)), todo : Seq(TrailItems)]

ExtendStep(item, base, rows, f, s) ==
  IF s = {} THEN base ELSE Extend(item, f[s \ {Max(s)}], rows[Max(s)])
Extending(item, base, rows) ==
  CHOOSE f : f = [s \in SUBSET DOMAIN rows |-> ExtendStep(item, base, rows, f, s)]
Extended(item, base, rows) == FoldLeft(LAMBDA state, e : Extend(item, state, e), base, rows)

LEMMA ExtendedIsFolded ==
  \A item, base, rows : Extended(item, base, rows) = Extending(item, base, rows)[DOMAIN rows]
BY DEF Extended, FoldLeft, MapThenFoldSet, Extending, ExtendStep

LEMMA ExtendIsTyped ==
    ASSUME NEW item \in TrailItems, NEW v \in Extents, NEW e \in Edges
    PROVE  Extend(item, v, e) \in Extents
<1>1. /\ v.found \in Seq(Seq(Edges)) /\ v.todo \in Seq(TrailItems)
      /\ v = [found |-> v.found, todo |-> v.todo]
  BY DEF Extents
<1>2. To[e] \in Entities /\ Append(item.trail, e) \in Seq(Edges)
  BY EndsAssumption DEF TrailItems
<1>3. [at |-> To[e], trail |-> Append(item.trail, e)] \in TrailItems
  BY <1>2 DEF TrailItems
<1>4. Append(v.found, Append(item.trail, e)) \in Seq(Seq(Edges))
  BY <1>1, <1>2
<1>5. Append(v.todo, [at |-> To[e], trail |-> Append(item.trail, e)]) \in Seq(TrailItems)
  BY <1>1, <1>3
<1> QED BY <1>1, <1>4, <1>5 DEF Extend, Extents

LEMMA ExtendRuns ==
    ASSUME NEW item \in TrailItems, NEW base \in Extents, NEW rows \in Seq(Edges)
    PROVE  \E g \in [0..Len(rows) -> Extents] :
             /\ g[0] = base /\ g[Len(rows)] = Extended(item, base, rows)
             /\ \A k \in 1..Len(rows) : g[k] = Extend(item, g[k - 1], rows[k])
<1> DEFINE n == Len(rows)
           op == [p \in (1..n) \X Extents |-> Extend(item, p[2], rows[p[1]])]
           F == Extending(item, base, rows)
<1>1. n \in Nat /\ DOMAIN rows = 1..n /\ \A k \in 1..n : rows[k] \in Edges
  OBVIOUS
<1>2. \A k \in 1..n, v \in Extents : /\ op[<<k, v>>] = Extend(item, v, rows[k])
                                     /\ op[<<k, v>>] \in Extents
  BY <1>1, ExtendIsTyped
<1> HIDE DEF op, n
<1>3. Loops(n, base, Extents, op)
  BY <1>1, <1>2 DEF Loops
<1>4. PICK f : IsLoop(f, n, base, Extents, op)
  BY <1>3, LoopIsDefined
<1>5. ASSUME NEW s \in SUBSET (1..n) PROVE f[s] = ExtendStep(item, base, rows, f, s)
  <2>1. CASE s = {}
    BY <2>1, <1>4 DEF ExtendStep, IsLoop
  <2>2. CASE s # {}
    <3>1. Max(s) \in s /\ s \ {Max(s)} \in SUBSET (1..n)
      <4> DEFINE N == 1..n
      <4>1. IsFiniteSet(N) /\ N \in SUBSET Int
        BY <1>1, FS_Interval
      <4>2. s \in SUBSET N
        OBVIOUS
      <4> HIDE DEF N
      <4>3. IsFiniteSet(s) /\ s \in SUBSET Int
        BY <4>1, <4>2, FS_Subset
      <4>4. Max(s) \in s
        BY <4>3, <2>2, HighestIs
      <4> QED BY <4>2, <4>4 DEF N
    <3>2. f[s \ {Max(s)}] \in Extents /\ Max(s) \in 1..n
      BY <3>1, <1>4 DEF IsLoop
    <3>3. f[s] = op[<<Max(s), f[s \ {Max(s)}]>>]
      BY <1>4, <2>2 DEF IsLoop
    <3> QED BY <2>2, <3>2, <3>3, <1>2 DEF ExtendStep
  <2> QED BY <2>1, <2>2
<1>6. f = [s \in SUBSET DOMAIN rows |-> ExtendStep(item, base, rows, f, s)]
  BY <1>1, <1>4, <1>5 DEF IsLoop
<1>7. F = [s \in SUBSET DOMAIN rows |-> ExtendStep(item, base, rows, F, s)]
  BY <1>6 DEF Extending
<1> HIDE DEF F
<1>8. /\ F[{}] = base
      /\ \A k \in 1..n : F[1..k] = Extend(item, F[1..k - 1], rows[k])
  <2>1. F[{}] = base
    BY <1>7 DEF ExtendStep
  <2>2. ASSUME NEW k \in 1..n PROVE F[1..k] = Extend(item, F[1..k - 1], rows[k])
    <3>1. /\ 1..k \in SUBSET DOMAIN rows /\ 1..k # {}
          /\ Max(1..k) = k /\ (1..k) \ {k} = 1..k - 1
      BY <1>1, PlacesUpTo
    <3> QED BY <1>7, <3>1 DEF ExtendStep
  <2> QED BY <2>1, <2>2
<1> DEFINE g == [k \in 0..n |-> F[1..k]]
           T == {k \in Nat : k <= n => g[k] \in Extents}
<1>9. g[0] = base
  <2>1. 1..0 = {} /\ 0 \in 0..n
    BY <1>1
  <2> QED BY <2>1, <1>8
<1>10. \A k \in 1..n : g[k] = Extend(item, g[k - 1], rows[k])
  <2>1. \A k \in 1..n : k \in 0..n /\ k - 1 \in 0..n
    BY <1>1
  <2> QED BY <1>8, <2>1
<1> HIDE DEF g
<1>11. \A k \in Nat : k \in T
  <2>1. 0 \in T
    BY <1>9
  <2>2. ASSUME NEW k \in Nat, k \in T PROVE k + 1 \in T
    <3>1. k + 1 <= n => k + 1 \in 1..n /\ k + 1 - 1 = k /\ k <= n
      BY <1>1
    <3> QED BY <2>2, <3>1, <1>1, <1>10, ExtendIsTyped
  <2> HIDE DEF T
  <2> QED BY <2>1, <2>2, Induction
<1>12. g \in [0..n -> Extents]
  <2>1. \A k \in 0..n : g[k] \in Extents
    BY <1>11, <1>1
  <2>2. g = [k \in 0..n |-> g[k]]
    BY DEF g
  <2> QED BY <2>1, <2>2
<1>13. g[n] = Extended(item, base, rows)
  <2>1. n \in 0..n
    BY <1>1
  <2> QED BY <2>1, <1>1, ExtendedIsFolded DEF g, F
<1> QED BY <1>9, <1>10, <1>12, <1>13 DEF n

-----------------------------------------------------------------------------
LEMMA OneMore ==
    ASSUME NEW W, NEW q \in Seq(W), NEW x \in W
    PROVE  /\ Append(q, x) \in Seq(W) /\ Len(Append(q, x)) = Len(q) + 1 /\ Len(q) \in Nat
           /\ \A i \in 1..Len(q) : Append(q, x)[i] = q[i]
           /\ Append(q, x)[Len(q) + 1] = x
           /\ Range(Append(q, x)) = Range(q) \cup {x}
<1>1. /\ Append(q, x) \in Seq(W) /\ Len(Append(q, x)) = Len(q) + 1 /\ Len(q) \in Nat
      /\ \A i \in 1..Len(q) : Append(q, x)[i] = q[i]
      /\ Append(q, x)[Len(q) + 1] = x
      /\ DOMAIN q = 1..Len(q) /\ DOMAIN Append(q, x) = 1..Len(q) + 1
  OBVIOUS
<1>2. \A i \in 1..Len(q) + 1 : i \in 1..Len(q) \/ i = Len(q) + 1
  BY <1>1
<1>3. \A i \in 1..Len(q) : i \in 1..Len(q) + 1
  BY <1>1
<1>4. Len(q) + 1 \in 1..Len(q) + 1
  BY <1>1
<1>5. ASSUME NEW y PROVE y \in Range(Append(q, x)) <=> y \in Range(q) \cup {x}
  <2> DEFINE a == Append(q, x)
             n == Len(q)
  <2>1. /\ DOMAIN q = 1..n /\ DOMAIN a = 1..n + 1 /\ a[n + 1] = x
        /\ \A i \in 1..n : a[i] = q[i]
    BY <1>1
  <2> HIDE DEF a, n
  <2>2. y \in Range(a) => y \in Range(q) \cup {x}
    BY <2>1, <1>2 DEF Range, n
  <2>3. y \in Range(q) \cup {x} => y \in Range(a)
    BY <2>1, <1>3, <1>4 DEF Range, n
  <2> QED BY <2>2, <2>3 DEF a
<1> QED BY <1>1, <1>5

\* what the loop has done to the answer after k rows: the edges it has read, the
\* entities it has met, what is left to visit, and all of it unless it is full
ReadsRows(base, rows, k, v) ==
  /\ Range(base.edges) \subseteq Range(v.edges)
  /\ \A e \in Range(v.edges) : e \in Range(base.edges) \/ \E m \in 1..k : e = rows[m]
MeetsEnds(item, base, rows, k, v) ==
  /\ base.seen \subseteq v.seen
  /\ \A w \in v.seen : w \in base.seen \/ \E m \in 1..k : w = Beyond(item.at, rows[m])
Queues(item, base, v) ==
  /\ Len(base.todo) <= Len(v.todo)
  /\ \A i \in 1..Len(base.todo) : v.todo[i] = base.todo[i]
  /\ \A i \in 1..Len(v.todo) : i > Len(base.todo) =>
       v.todo[i].depth = item.depth + 1 /\ v.todo[i].at \in v.seen \ base.seen
  /\ \A w \in v.seen \ base.seen : \E i \in 1..Len(v.todo) : v.todo[i].at = w
MissesNone(item, rows, k, v) ==
  /\ v.ended => Len(v.edges) >= query.cap
  /\ Len(v.edges) < query.cap =>
       \A m \in 1..k : rows[m] \in Range(v.edges) /\ Beyond(item.at, rows[m]) \in v.seen
Spreads(item, base, rows, k, v) ==
  /\ ReadsRows(base, rows, k, v) /\ MeetsEnds(item, base, rows, k, v)
  /\ Queues(item, base, v) /\ MissesNone(item, rows, k, v)

LEMMA GatherSpreads ==
    ASSUME NEW item \in VisitItems, NEW base \in Gathers, NEW rows \in Seq(Edges),
           NEW k \in 1..Len(rows), NEW v \in Gathers, Spreads(item, base, rows, k - 1, v),
           query.cap \in Nat
    PROVE  Spreads(item, base, rows, k, Gather(item, v, rows[k]))
<1> DEFINE e == rows[k]
           w == Beyond(item.at, e)
           x == [at |-> w, depth |-> item.depth + 1]
           u == Gather(item, v, e)
<1>1. /\ v.edges \in Seq(Edges) /\ v.seen \in SUBSET Entities /\ v.todo \in Seq(VisitItems)
      /\ v.ended \in BOOLEAN /\ base.todo \in Seq(VisitItems)
  BY DEF Gathers
<1>2. e \in Edges /\ k \in Nat /\ \A m \in 1..k : m \in 1..k - 1 \/ m = k
  OBVIOUS
<1>3. k \in 1..k /\ \A m \in 1..k - 1 : m \in 1..k
  BY <1>2
<1>4. x \in VisitItems
  BY <1>2, EndsAssumption DEF VisitItems, Beyond
<1>5. /\ Len(Append(v.edges, e)) = Len(v.edges) + 1 /\ Len(v.edges) \in Nat
      /\ Range(Append(v.edges, e)) = Range(v.edges) \cup {e}
  BY <1>1, <1>2, OneMore
<1>6. /\ Len(Append(v.todo, x)) = Len(v.todo) + 1 /\ Len(v.todo) \in Nat /\ Len(base.todo) \in Nat
      /\ \A i \in 1..Len(v.todo) : Append(v.todo, x)[i] = v.todo[i]
      /\ Append(v.todo, x)[Len(v.todo) + 1] = x
  BY <1>1, <1>4, OneMore
<1>7. /\ ReadsRows(base, rows, k - 1, v) /\ MeetsEnds(item, base, rows, k - 1, v)
      /\ Queues(item, base, v) /\ MissesNone(item, rows, k - 1, v)
  BY DEF Spreads
<1>8. x.at = w /\ x.depth = item.depth + 1
  OBVIOUS
<1>9. CASE v.ended
  <2>1. u = v
    BY <1>9 DEF Gather
  <2>2. Len(v.edges) >= query.cap /\ ~ (Len(v.edges) < query.cap)
    BY <1>5, <1>7, <1>9 DEF MissesNone
  <2> HIDE DEF u
  <2> QED BY <1>3, <1>7, <2>1, <2>2 DEF Spreads, ReadsRows, MeetsEnds, MissesNone, u
<1> DEFINE read == IF e \in Range(v.edges) THEN v.edges ELSE Append(v.edges, e)
<1>10. Range(read) = Range(v.edges) \cup {e} /\ Len(read) \in Nat /\ Len(v.edges) <= Len(read)
  BY <1>5
<1>11. CASE ~v.ended /\ e \notin Range(v.edges) /\ Len(read) >= query.cap
  <2>1. u = [v EXCEPT !.edges = read, !.ended = TRUE]
    BY <1>11 DEF Gather
  <2>2. u.edges = read /\ u.seen = v.seen /\ u.todo = v.todo /\ u.ended
    BY <2>1 DEF Gathers
  <2>3. ReadsRows(base, rows, k, u)
    <3> HIDE DEF u, read, e
    <3> QED BY <1>3, <1>7, <1>10, <2>2 DEF ReadsRows, e
  <2>4. MeetsEnds(item, base, rows, k, u)
    <3> HIDE DEF u, read
    <3> QED BY <1>3, <1>7, <2>2 DEF MeetsEnds
  <2>5. Queues(item, base, u)
    <3> HIDE DEF u, read
    <3> QED BY <1>7, <2>2 DEF Queues
  <2>6. MissesNone(item, rows, k, u)
    <3> HIDE DEF u, read
    <3> QED BY <1>10, <1>11, <2>2 DEF MissesNone
  <2> QED BY <2>3, <2>4, <2>5, <2>6 DEF Spreads
<1>12. CASE ~v.ended /\ ~ (e \notin Range(v.edges) /\ Len(read) >= query.cap)
  <2> DEFINE todo == IF w \in v.seen THEN v.todo ELSE Append(v.todo, x)
  <2>1. u = [v EXCEPT !.edges = read, !.seen = @ \cup {w}, !.todo = todo]
    BY <1>12 DEF Gather, Beyond
  <2>2. u.edges = read /\ u.seen = v.seen \cup {w} /\ u.todo = todo /\ ~u.ended
    BY <2>1, <1>12 DEF Gathers
  <2>3. ReadsRows(base, rows, k, u)
    <3> HIDE DEF u, read, e
    <3> QED BY <1>3, <1>7, <1>10, <2>2 DEF ReadsRows, e
  <2>4. MeetsEnds(item, base, rows, k, u)
    <3> HIDE DEF u, read
    <3> QED BY <1>3, <1>7, <2>2 DEF MeetsEnds
  <2>5. Queues(item, base, u)
    <3>1. CASE w \in v.seen
      <4>1. todo = v.todo /\ v.seen \cup {w} = v.seen
        BY <3>1
      <4> HIDE DEF u, read, todo, w
      <4> QED BY <1>7, <2>2, <4>1 DEF Queues
    <3>2. CASE w \notin v.seen
      <4> DEFINE a == Append(v.todo, x)
                 n == Len(v.todo)
      <4>1. u.todo = a /\ Len(a) = n + 1 /\ n \in Nat /\ a[n + 1] = x
        BY <3>2, <2>2, <1>6
      <4>2. \A i \in 1..n : a[i] = v.todo[i]
        BY <1>6
      <4>3. \A i \in 1..n + 1 : i \in 1..n \/ i = n + 1
        BY <1>6
      <4>4. \A i \in 1..n : i \in 1..n + 1
        BY <1>6
      <4>5. w \notin base.seen /\ n + 1 \in 1..n + 1
        BY <3>2, <1>6, <1>7 DEF MeetsEnds
      <4> HIDE DEF u, read, todo, w, a, n, x
      <4>6. Len(base.todo) <= n + 1 /\ \A i \in 1..Len(base.todo) : a[i] = base.todo[i]
        <5>1. Len(base.todo) <= n /\ \A i \in 1..Len(base.todo) : v.todo[i] = base.todo[i]
          BY <1>7 DEF Queues, n
        <5>2. \A i \in 1..Len(base.todo) : i \in 1..n
          BY <5>1, <1>6, <4>1
        <5>3. Len(base.todo) \in Nat
          BY <1>6
        <5>4. Len(base.todo) <= n + 1
          BY <5>1, <5>3, <4>1
        <5>5. \A i \in 1..Len(base.todo) : a[i] = base.todo[i]
          BY <5>1, <5>2, <4>2
        <5> QED BY <5>4, <5>5
      <4>7. \A i \in 1..n + 1 : i > Len(base.todo) =>
              a[i].depth = item.depth + 1 /\ a[i].at \in u.seen \ base.seen
        <5>1. \A i \in 1..n : i > Len(base.todo) =>
                a[i].depth = item.depth + 1 /\ a[i].at \in u.seen \ base.seen
          BY <1>7, <2>2, <4>2 DEF Queues, n
        <5>2. a[n + 1].depth = item.depth + 1 /\ a[n + 1].at \in u.seen \ base.seen
          BY <1>8, <2>2, <4>1, <4>5
        <5> QED BY <4>3, <5>1, <5>2
      <4>8. ASSUME NEW y \in u.seen \ base.seen PROVE \E i \in 1..n + 1 : a[i].at = y
        <5>1. CASE y = w
          BY <5>1, <4>1, <4>5, <1>8
        <5>2. CASE y # w
          <6>1. PICK i \in 1..n : v.todo[i].at = y
            BY <1>7, <2>2, <4>8, <5>2 DEF Queues, n
          <6> QED BY <6>1, <4>2, <4>4
        <5> QED BY <5>1, <5>2
      <4> QED BY <4>1, <4>6, <4>7, <4>8 DEF Queues
    <3> QED BY <3>1, <3>2
  <2>6. MissesNone(item, rows, k, u)
    <3>1. ASSUME Len(read) < query.cap, NEW m \in 1..k
          PROVE  rows[m] \in Range(read) /\ Beyond(item.at, rows[m]) \in u.seen
      <4>1. CASE m = k
        BY <4>1, <1>10, <2>2
      <4>2. CASE m \in 1..k - 1
        <5>1. Len(v.edges) < query.cap
          BY <1>5, <1>10, <3>1
        <5>2. rows[m] \in Range(v.edges) /\ Beyond(item.at, rows[m]) \in v.seen
          BY <1>7, <4>2, <5>1 DEF MissesNone
        <5> QED BY <5>2, <1>10, <2>2
      <4> QED BY <1>2, <4>1, <4>2
    <3> HIDE DEF u, read
    <3> QED BY <2>2, <3>1 DEF MissesNone
  <2> QED BY <2>3, <2>4, <2>5, <2>6 DEF Spreads
<1> QED BY <1>9, <1>11, <1>12

\* the whole loop of neighbours over the edges of an entity
LEMMA GatheredIs ==
    ASSUME NEW item \in VisitItems, NEW base \in Gathers, ~base.ended, NEW rows \in Seq(Edges),
           query.cap \in Nat
    PROVE  /\ Gathered(item, base, rows) \in Gathers
           /\ Spreads(item, base, rows, Len(rows), Gathered(item, base, rows))
<1>1. PICK g \in [0..Len(rows) -> Gathers] :
         /\ g[0] = base /\ g[Len(rows)] = Gathered(item, base, rows)
         /\ \A k \in 1..Len(rows) : g[k] = Gather(item, g[k - 1], rows[k])
  BY GatherRuns
<1>2. Len(rows) \in Nat
  OBVIOUS
<1> DEFINE T == {k \in Nat : k <= Len(rows) => Spreads(item, base, rows, k, g[k])}
<1>3. 0 \in T
  <2>1. base.seen \ base.seen = {}
    OBVIOUS
  <2>2. Spreads(item, base, rows, 0, base)
    <3>1. base.todo \in Seq(VisitItems) /\ Len(base.todo) \in Nat
      BY DEF Gathers
    <3>2. Queues(item, base, base)
      BY <2>1, <3>1 DEF Queues
    <3> QED BY <3>2 DEF Spreads, ReadsRows, MeetsEnds, MissesNone
  <2> QED BY <1>1, <2>2
<1>4. ASSUME NEW k \in Nat, k \in T PROVE k + 1 \in T
  <2>1. SUFFICES ASSUME k + 1 <= Len(rows) PROVE Spreads(item, base, rows, k + 1, g[k + 1])
    OBVIOUS
  <2>2. k + 1 \in 1..Len(rows) /\ k + 1 - 1 = k /\ k \in 0..Len(rows) /\ k <= Len(rows)
    BY <1>2, <2>1
  <2>3. g[k] \in Gathers /\ Spreads(item, base, rows, k + 1 - 1, g[k])
    BY <1>1, <1>4, <2>2
  <2>4. g[k + 1] = Gather(item, g[k], rows[k + 1])
    BY <1>1, <2>2
  <2> QED BY <2>2, <2>3, <2>4, GatherSpreads
<1>5. Len(rows) \in T
  <2> HIDE DEF T
  <2> QED BY <1>2, <1>3, <1>4, Induction
<1> QED BY <1>1, <1>2, <1>5

-----------------------------------------------------------------------------
\* q goes on from old with elements of X, none of them twice
Adds(old, q, X) ==
  /\ Len(old) <= Len(q)
  /\ \A i \in 1..Len(old) : q[i] = old[i]
  /\ \A i \in 1..Len(q) : i > Len(old) => q[i] \in X
  /\ \A i, j \in 1..Len(q) : i > Len(old) /\ j > Len(old) /\ i # j => q[i] # q[j]

LEMMA AddsOneMore ==
    ASSUME NEW W, NEW old \in Seq(W), NEW q \in Seq(W), NEW X, NEW Y, NEW x \in W,
           Adds(old, q, X), x \notin X, X \cup {x} \subseteq Y
    PROVE  Adds(old, Append(q, x), Y)
<1> DEFINE a == Append(q, x)
           n == Len(q)
           o == Len(old)
<1>1. /\ Len(a) = n + 1 /\ n \in Nat /\ o \in Nat /\ a[n + 1] = x
      /\ \A i \in 1..n : a[i] = q[i]
  BY OneMore
<1>2. \A i \in 1..n + 1 : i \in 1..n \/ i = n + 1
  BY <1>1
<1>3. /\ o <= n /\ \A i \in 1..o : q[i] = old[i] /\ i \in 1..n
      /\ \A i \in 1..n : i > o => q[i] \in X
      /\ \A i, j \in 1..n : i > o /\ j > o /\ i # j => q[i] # q[j]
  BY <1>1 DEF Adds
<1> HIDE DEF a, n, o
<1>4. o <= n + 1 /\ \A i \in 1..o : a[i] = old[i]
  BY <1>1, <1>3
<1>5. \A i \in 1..n + 1 : i > o => a[i] \in Y
  BY <1>1, <1>2, <1>3
<1>6. \A i, j \in 1..n + 1 : i > o /\ j > o /\ i # j => a[i] # a[j]
  <2>1. ASSUME NEW i \in 1..n + 1, NEW j \in 1..n + 1, i > o, j > o, i # j PROVE a[i] # a[j]
    <3>1. CASE i \in 1..n /\ j \in 1..n
      BY <2>1, <3>1, <1>1, <1>3
    <3>2. CASE i = n + 1 /\ j \in 1..n
      BY <2>1, <3>2, <1>1, <1>3
    <3>3. CASE j = n + 1 /\ i \in 1..n
      BY <2>1, <3>3, <1>1, <1>3
    <3> QED BY <2>1, <3>1, <3>2, <3>3, <1>2
  <2> QED BY <2>1
<1> QED BY <1>1, <1>4, <1>5, <1>6 DEF Adds, a, o

LEMMA AddsMore ==
    ASSUME NEW old, NEW q, NEW X, NEW Y, Adds(old, q, X), X \subseteq Y
    PROVE  Adds(old, q, Y)
BY DEF Adds

LEMMA LastDiffers ==
    ASSUME NEW W, NEW q \in Seq(W), NEW x \in W, NEW y \in W, Append(q, x) = Append(q, y)
    PROVE  x = y
<1>1. Append(q, x)[Len(q) + 1] = x /\ Append(q, y)[Len(q) + 1] = y
  BY OneMore
<1> QED BY <1>1

\* the paths k rows complete, and the trails they leave to be followed
Arrivals(item, rows, k) ==
  {p \in Seq(Edges) : \E m \in 1..k :
     To[rows[m]] = query.target /\ p = Append(item.trail, rows[m])}
Onward(item, rows, k) ==
  {x \in TrailItems : \E m \in 1..k :
     /\ To[rows[m]] # query.target /\ To[rows[m]] \notin OnTrail(item.trail)
     /\ x = [at |-> To[rows[m]], trail |-> Append(item.trail, rows[m])]}
Prolongs(item, base, rows, k, v) ==
  /\ Adds(base.found, v.found, Arrivals(item, rows, k))
  /\ Adds(base.todo, v.todo, Onward(item, rows, k))
  /\ Len(v.found) < query.cap => /\ Arrivals(item, rows, k) \subseteq Range(v.found)
                                 /\ Onward(item, rows, k) \subseteq Range(v.todo)

RowCounts(item, rows, k) ==
  LET e == rows[k]
      p == Append(item.trail, e)
      x == [at |-> To[e], trail |-> p]
  IN /\ e \in Edges /\ p \in Seq(Edges) /\ x \in TrailItems
     /\ p \notin Arrivals(item, rows, k - 1) /\ x \notin Onward(item, rows, k - 1)
     /\ Arrivals(item, rows, k) = Arrivals(item, rows, k - 1) \cup
          IF To[e] = query.target THEN {p} ELSE {}
     /\ Onward(item, rows, k) = Onward(item, rows, k - 1) \cup
          IF To[e] # query.target /\ To[e] \notin OnTrail(item.trail) THEN {x} ELSE {}

LEMMA NextRow ==
    ASSUME NEW item \in TrailItems, NEW rows \in Seq(Edges), NEW k \in 1..Len(rows),
           \A i, j \in 1..Len(rows) : i # j => rows[i] # rows[j]
    PROVE  RowCounts(item, rows, k)
<1> DEFINE e == rows[k]
           p == Append(item.trail, e)
           x == [at |-> To[e], trail |-> p]
<1>1. /\ e \in Edges /\ item.trail \in Seq(Edges) /\ \A m \in 1..Len(rows) : rows[m] \in Edges
      /\ k \in Nat /\ Len(rows) \in Nat
  BY DEF TrailItems
<1>2. p \in Seq(Edges) /\ To[e] \in Entities
  BY <1>1, EndsAssumption
<1>3. x \in TrailItems /\ x.trail = p
  BY <1>2 DEF TrailItems
<1>4. \A m \in 1..k - 1 : m \in 1..Len(rows) /\ m # k /\ rows[m] \in Edges /\ m \in 1..k
  BY <1>1
<1>5. \A m \in 1..k : m \in 1..k - 1 \/ m = k
  BY <1>1
<1>6. \A m \in 1..k - 1 : Append(item.trail, rows[m]) # p
  BY <1>1, <1>4, LastDiffers
<1>7. k \in 1..k
  BY <1>1
<1> HIDE DEF e, p
<1>8. p \notin Arrivals(item, rows, k - 1)
  BY <1>6 DEF Arrivals
<1>9. x \notin Onward(item, rows, k - 1)
  BY <1>3, <1>6 DEF Onward
<1>10. Arrivals(item, rows, k) = Arrivals(item, rows, k - 1) \cup
         IF To[e] = query.target THEN {p} ELSE {}
  BY <1>2, <1>4, <1>5, <1>7 DEF Arrivals, e, p
<1>11. Onward(item, rows, k) = Onward(item, rows, k - 1) \cup
         IF To[e] # query.target /\ To[e] \notin OnTrail(item.trail) THEN {x} ELSE {}
  BY <1>3, <1>4, <1>5, <1>7 DEF Onward, e, p
<1> QED BY <1>1, <1>2, <1>3, <1>8, <1>9, <1>10, <1>11 DEF e, p, RowCounts

LEMMA ExtendProlongs ==
    ASSUME NEW item \in TrailItems, NEW base \in Extents, NEW rows \in Seq(Edges),
           \A i, j \in 1..Len(rows) : i # j => rows[i] # rows[j],
           NEW k \in 1..Len(rows), NEW v \in Extents, Prolongs(item, base, rows, k - 1, v),
           query.cap \in Nat
    PROVE  Prolongs(item, base, rows, k, Extend(item, v, rows[k]))
<1> DEFINE e == rows[k]
           p == Append(item.trail, e)
           x == [at |-> To[e], trail |-> p]
           u == Extend(item, v, e)
           A == Arrivals(item, rows, k - 1)
           B == Arrivals(item, rows, k)
           C == Onward(item, rows, k - 1)
           D == Onward(item, rows, k)
<1>1. /\ e \in Edges /\ p \in Seq(Edges) /\ x \in TrailItems /\ p \notin A /\ x \notin C
      /\ B = A \cup IF To[e] = query.target THEN {p} ELSE {}
      /\ D = C \cup IF To[e] # query.target /\ To[e] \notin OnTrail(item.trail) THEN {x} ELSE {}
  <2>1. RowCounts(item, rows, k)
    BY NextRow
  <2> QED BY <2>1 DEF RowCounts
<1>2. /\ v.found \in Seq(Seq(Edges)) /\ v.todo \in Seq(TrailItems)
      /\ base.found \in Seq(Seq(Edges)) /\ base.todo \in Seq(TrailItems)
  BY DEF Extents
<1>3. /\ Adds(base.found, v.found, A) /\ Adds(base.todo, v.todo, C)
      /\ Len(v.found) < query.cap => A \subseteq Range(v.found) /\ C \subseteq Range(v.todo)
  BY DEF Prolongs
<1>4. Len(v.found) \in Nat
  BY <1>2
<1> HIDE DEF A, B, C, D, p, x
<1>5. CASE Len(v.found) >= query.cap
  <2>1. u = v
    BY <1>5 DEF Extend
  <2>2. Adds(base.found, v.found, B) /\ Adds(base.todo, v.todo, D)
    BY <1>1, <1>3, AddsMore
  <2>3. ~ (Len(v.found) < query.cap)
    BY <1>4, <1>5
  <2> QED BY <2>1, <2>2, <2>3 DEF Prolongs, B, D
<1>6. CASE ~ (Len(v.found) >= query.cap) /\ To[e] = query.target
  <2>1. u = [v EXCEPT !.found = Append(v.found, p)]
    BY <1>6 DEF Extend, p
  <2>2. u.found = Append(v.found, p) /\ u.todo = v.todo
    BY <2>1 DEF Extents
  <2>3. B = A \cup {p} /\ D = C
    BY <1>1, <1>6
  <2>4. Adds(base.found, u.found, B)
    BY <1>1, <1>2, <1>3, <2>2, <2>3, AddsOneMore
  <2>5. Range(u.found) = Range(v.found) \cup {p} /\ Len(v.found) < query.cap
    BY <1>1, <1>2, <1>4, <1>6, <2>2, OneMore
  <2> HIDE DEF u
  <2> QED BY <1>3, <2>2, <2>3, <2>4, <2>5 DEF Prolongs, B, D, u
<1>7. CASE /\ ~ (Len(v.found) >= query.cap) /\ To[e] # query.target
           /\ To[e] \notin OnTrail(item.trail)
  <2>1. u = [v EXCEPT !.todo = Append(v.todo, x)]
    BY <1>7 DEF Extend, p, x
  <2>2. u.todo = Append(v.todo, x) /\ u.found = v.found
    BY <2>1 DEF Extents
  <2>3. B = A /\ D = C \cup {x}
    BY <1>1, <1>7
  <2>4. Adds(base.todo, u.todo, D)
    BY <1>1, <1>2, <1>3, <2>2, <2>3, AddsOneMore
  <2>5. Range(u.todo) = Range(v.todo) \cup {x} /\ Len(v.found) < query.cap
    BY <1>1, <1>2, <1>4, <1>7, <2>2, OneMore
  <2> HIDE DEF u
  <2> QED BY <1>3, <2>2, <2>3, <2>4, <2>5 DEF Prolongs, B, D, u
<1>8. CASE /\ ~ (Len(v.found) >= query.cap) /\ To[e] # query.target
           /\ To[e] \in OnTrail(item.trail)
  <2>1. u = v
    BY <1>8 DEF Extend
  <2>2. B = A /\ D = C
    BY <1>1, <1>8
  <2> QED BY <1>3, <2>1, <2>2 DEF Prolongs, B, D
<1> QED BY <1>5, <1>6, <1>7, <1>8

\* the whole loop of paths_between over the edges that leave an entity
LEMMA ExtendedIs ==
    ASSUME NEW item \in TrailItems, NEW base \in Extents, NEW rows \in Seq(Edges),
           \A i, j \in 1..Len(rows) : i # j => rows[i] # rows[j], query.cap \in Nat
    PROVE  /\ Extended(item, base, rows) \in Extents
           /\ Prolongs(item, base, rows, Len(rows), Extended(item, base, rows))
<1>1. PICK g \in [0..Len(rows) -> Extents] :
         /\ g[0] = base /\ g[Len(rows)] = Extended(item, base, rows)
         /\ \A k \in 1..Len(rows) : g[k] = Extend(item, g[k - 1], rows[k])
  BY ExtendRuns
<1>2. Len(rows) \in Nat
  OBVIOUS
<1> DEFINE T == {k \in Nat : k <= Len(rows) => Prolongs(item, base, rows, k, g[k])}
<1>3. 0 \in T
  <2>1. Arrivals(item, rows, 0) = {} /\ Onward(item, rows, 0) = {}
    BY DEF Arrivals, Onward
  <2>2. base.found \in Seq(Seq(Edges)) /\ base.todo \in Seq(TrailItems)
    BY DEF Extents
  <2>3. Adds(base.found, base.found, {}) /\ Adds(base.todo, base.todo, {})
    BY <2>2 DEF Adds
  <2> QED BY <1>1, <2>1, <2>3 DEF Prolongs
<1>4. ASSUME NEW k \in Nat, k \in T PROVE k + 1 \in T
  <2>1. SUFFICES ASSUME k + 1 <= Len(rows) PROVE Prolongs(item, base, rows, k + 1, g[k + 1])
    OBVIOUS
  <2>2. k + 1 \in 1..Len(rows) /\ k + 1 - 1 = k /\ k \in 0..Len(rows) /\ k <= Len(rows)
    BY <1>2, <2>1
  <2>3. g[k] \in Extents /\ Prolongs(item, base, rows, k + 1 - 1, g[k])
    BY <1>1, <1>4, <2>2
  <2>4. g[k + 1] = Extend(item, g[k], rows[k + 1])
    BY <1>1, <2>2
  <2> QED BY <2>2, <2>3, <2>4, ExtendProlongs
<1>5. Len(rows) \in T
  <2> HIDE DEF T
  <2> QED BY <1>2, <1>3, <1>4, Induction
<1> QED BY <1>1, <1>2, <1>5

-----------------------------------------------------------------------------
\* A walk from the start of the query, and what paths_between keeps of it.
Met(p, k) == IF k = 0 THEN query.start ELSE To[p[k]]
Walk(p, g) ==
  /\ p \in Seq(g)
  /\ \A i \in 1..Len(p) : From[p[i]] = Met(p, i - 1)
  /\ \A i, j \in 0..Len(p) : i # j => Met(p, i) # Met(p, j)
Open(p) == \A i \in 0..Len(p) : Met(p, i) # query.target

LEMMA WalkSize ==
    ASSUME NEW g, NEW p, Walk(p, g)
    PROVE  /\ p \in Seq(g) /\ Len(p) \in Nat /\ DOMAIN p = 1..Len(p)
           /\ \A i \in 1..Len(p) : p[i] \in g
BY DEF Walk

LEMMA PathIs ==
    ASSUME NEW g, NEW n \in Nat, NEW p
    PROVE  p \in PathsIn(g, n) <=>
             Walk(p, g) /\ Len(p) \in 1..n /\ Met(p, Len(p)) = query.target
<1>1. ASSUME p \in PathsIn(g, n)
      PROVE  Walk(p, g) /\ Len(p) \in 1..n /\ Met(p, Len(p)) = query.target
  <2>1. PICK k \in 1..n : p \in [1..k -> g]
    BY <1>1 DEF PathsIn
  <2>2. IsPath(p, n)
    BY <1>1 DEF PathsIn
  <2>3. p \in Seq(g) /\ Len(p) = k /\ k \in Nat /\ k # 0
    BY <2>1
  <2>4. /\ From[p[1]] = query.start /\ To[p[k]] = query.target
        /\ \A i \in 1..k - 1 : To[p[i]] = From[p[i + 1]]
        /\ \A i, j \in 0..k : i # j => Met(p, i) # Met(p, j)
    BY <2>2, <2>3 DEF IsPath, Last, Met
  <2>5. Met(p, k) = query.target
    BY <2>3, <2>4 DEF Met
  <2>6. ASSUME NEW i \in 1..k PROVE From[p[i]] = Met(p, i - 1)
    <3>1. CASE i = 1
      BY <3>1, <2>4 DEF Met
    <3>2. CASE i # 1
      <4>1. i - 1 \in 1..k - 1 /\ i - 1 + 1 = i /\ i - 1 # 0
        BY <2>3, <3>2
      <4> QED BY <4>1, <2>4 DEF Met
    <3> QED BY <3>1, <3>2
  <2> QED BY <2>1, <2>3, <2>4, <2>5, <2>6 DEF Walk
<1>2. ASSUME Walk(p, g), Len(p) \in 1..n, Met(p, Len(p)) = query.target
      PROVE  p \in PathsIn(g, n)
  <2> DEFINE k == Len(p)
  <2>1. p \in Seq(g) /\ k \in Nat /\ k # 0 /\ p \in [1..k -> g]
    BY <1>2, WalkSize
  <2>2. /\ From[p[1]] = query.start /\ To[p[k]] = query.target
    <3>1. 1 \in 1..k /\ 1 - 1 = 0
      BY <2>1
    <3> QED BY <1>2, <2>1, <3>1 DEF Walk, Met
  <2>3. ASSUME NEW i \in 1..k - 1 PROVE To[p[i]] = From[p[i + 1]]
    <3>1. i + 1 \in 1..k /\ i + 1 - 1 = i /\ i # 0
      BY <2>1
    <3> QED BY <1>2, <3>1 DEF Walk, Met
  <2>4. \A i, j \in 0..k : i # j => Met(p, i) # Met(p, j)
    BY <1>2 DEF Walk
  <2> HIDE DEF k
  <2>5. IsPath(p, n)
    <3>1. k \in 1..n
      BY <1>2 DEF k
    <3> QED BY <2>2, <2>3, <2>4, <3>1 DEF IsPath, Last, Met, k
  <2>6. k \in 1..n
    BY <1>2 DEF k
  <2> QED BY <2>1, <2>5, <2>6 DEF PathsIn
<1> QED BY <1>1, <1>2

LEMMA TrailMeets ==
    ASSUME NEW g, NEW t, Walk(t, g)
    PROVE  \A v : v \in OnTrail(t) <=> \E i \in 0..Len(t) : v = Met(t, i)
<1>1. Len(t) \in Nat /\ DOMAIN t = 1..Len(t)
  BY WalkSize
<1>2. \A i \in 1..Len(t) : i \in 0..Len(t) /\ i # 0
  BY <1>1
<1>3. \A i \in 0..Len(t) : i = 0 \/ i \in 1..Len(t)
  BY <1>1
<1>4. 0 \in 0..Len(t)
  BY <1>1
<1> QED BY <1>1, <1>2, <1>3, <1>4 DEF OnTrail, Met

\* a trail and one edge more
LEMMA WalkGoesOn ==
    ASSUME NEW g, NEW t, Walk(t, g), NEW e \in g, From[e] = Met(t, Len(t)),
           To[e] \notin OnTrail(t)
    PROVE  /\ Walk(Append(t, e), g) /\ Len(Append(t, e)) = Len(t) + 1
           /\ Met(Append(t, e), Len(t) + 1) = To[e]
           /\ Open(t) /\ To[e] # query.target => Open(Append(t, e))
<1> DEFINE p == Append(t, e)
           n == Len(t)
<1>1. t \in Seq(g) /\ n \in Nat
  BY WalkSize
<1>2. p \in Seq(g) /\ Len(p) = n + 1 /\ p[n + 1] = e /\ \A i \in 1..n : p[i] = t[i]
  BY <1>1, OneMore
<1>3. \A i \in 0..n : Met(p, i) = Met(t, i)
  BY <1>1, <1>2 DEF Met
<1>4. Met(p, n + 1) = To[e]
  BY <1>1, <1>2 DEF Met
<1>5. \A i \in 0..n : Met(t, i) # To[e]
  BY TrailMeets
<1>6. \A i \in 0..n + 1 : i \in 0..n \/ i = n + 1
  BY <1>1
<1>7. /\ \A i \in 1..n : From[t[i]] = Met(t, i - 1)
      /\ \A i, j \in 0..n : i # j => Met(t, i) # Met(t, j)
  BY DEF Walk
<1>8. ASSUME NEW i \in 1..n + 1 PROVE From[p[i]] = Met(p, i - 1)
  <2>1. CASE i \in 1..n
    <3>1. i - 1 \in 0..n
      BY <2>1, <1>1
    <3> QED BY <2>1, <3>1, <1>2, <1>3, <1>7
  <2>2. CASE i = n + 1
    <3>1. i - 1 = n /\ n \in 0..n
      BY <2>2, <1>1
    <3> QED BY <2>2, <3>1, <1>2, <1>3
  <2> QED BY <2>1, <2>2, <1>1
<1> HIDE DEF p, n
<1>9. \A i, j \in 0..n + 1 : i # j => Met(p, i) # Met(p, j)
  BY <1>3, <1>4, <1>5, <1>6, <1>7
<1>10. Walk(p, g)
  BY <1>2, <1>8, <1>9 DEF Walk
<1>11. Open(t) /\ To[e] # query.target => Open(p)
  BY <1>2, <1>3, <1>4, <1>6 DEF Open, n
<1> QED BY <1>2, <1>4, <1>10, <1>11 DEF p, n

LEMMA WalkStays ==
    ASSUME NEW g, NEW h, g \subseteq h, NEW p, Walk(p, g)
    PROVE  Walk(p, h)
BY DEF Walk

\* what is left of a path after the trail t, which leads part of its way
Begins(t, p) ==
  /\ Len(t) < Len(p) /\ \A i \in 1..Len(t) : p[i] = t[i]

LeadsOn(t, p, g, n) ==
  LET e == p[Len(t) + 1]
  IN /\ e \in g /\ From[e] = Met(t, Len(t)) /\ To[e] \notin OnTrail(t)
     /\ Len(t) < n
     /\ To[e] = query.target => p = Append(t, e)
     /\ To[e] # query.target => Begins(Append(t, e), p)

LEMMA NextOnPath ==
    ASSUME NEW g, NEW n \in Nat, NEW p \in PathsIn(g, n), NEW h, NEW t, Walk(t, h), Begins(t, p)
    PROVE  LeadsOn(t, p, g, n)
<1> DEFINE k == Len(t)
           e == p[k + 1]
           q == Append(t, e)
<1>1. Walk(p, g) /\ Len(p) \in 1..n /\ Met(p, Len(p)) = query.target
  BY PathIs
<1>2. /\ t \in Seq(h) /\ k \in Nat /\ Len(p) \in Nat /\ p \in Seq(g) /\ DOMAIN p = 1..Len(p)
      /\ \A i \in 1..Len(p) : p[i] \in g
  BY <1>1, WalkSize
<1>3. k < Len(p) /\ \A i \in 1..k : p[i] = t[i]
  BY DEF Begins
<1>4. k + 1 \in 1..Len(p) /\ k + 1 \in 0..Len(p) /\ k \in 0..Len(p) /\ k + 1 - 1 = k /\ k + 1 # 0
  BY <1>2, <1>3
<1>5. e \in g /\ k < n
  BY <1>1, <1>2, <1>3, <1>4
<1>6. \A i \in 0..k : Met(t, i) = Met(p, i) /\ i \in 0..Len(p) /\ i # k + 1
  BY <1>2, <1>3 DEF Met
<1>7. From[e] = Met(t, k)
  <2>1. From[e] = Met(p, k) /\ k \in 0..k
    BY <1>1, <1>2, <1>4 DEF Walk
  <2> QED BY <2>1, <1>6
<1>8. Met(p, k + 1) = To[e]
  BY <1>4 DEF Met
<1>9. To[e] \notin OnTrail(t)
  <2>1. \A i \in 0..k : Met(p, i) # Met(p, k + 1)
    BY <1>1, <1>4, <1>6 DEF Walk
  <2> QED BY <2>1, <1>6, <1>8, TrailMeets
<1>10. q \in Seq(g \cup h) /\ Len(q) = k + 1 /\ q[k + 1] = e /\ \A i \in 1..k : q[i] = t[i]
  <2>1. t \in Seq(g \cup h) /\ e \in g \cup h
    BY <1>2, <1>5
  <2> QED BY <2>1, OneMore
<1>11. \A i \in 1..k + 1 : q[i] = p[i]
  <2>1. \A i \in 1..k + 1 : i \in 1..k \/ i = k + 1
    BY <1>2
  <2> QED BY <2>1, <1>3, <1>10
<1>12. ASSUME To[e] = query.target PROVE p = q
  <2>1. Len(p) = k + 1
    <3>1. Len(p) \in 0..Len(p)
      BY <1>2
    <3> QED BY <3>1, <1>1, <1>4, <1>8, <1>12 DEF Walk
  <2>2. p \in Seq(g \cup h)
    BY <1>2
  <2> HIDE DEF q, e, k
  <2>3. p = [i \in 1..k + 1 |-> p[i]] /\ q = [i \in 1..k + 1 |-> q[i]]
    BY <1>10, <2>1, <2>2
  <2> QED BY <1>11, <2>3
<1>13. ASSUME To[e] # query.target PROVE Begins(q, p)
  <2>1. Len(p) # k + 1
    BY <1>1, <1>8, <1>13
  <2> HIDE DEF q, e, k
  <2>2. Len(q) < Len(p)
    <3>1. k \in Nat /\ Len(p) \in Nat /\ k < Len(p)
      BY <1>2, <1>3
    <3>2. Len(q) = k + 1
      BY <1>10
    <3> HIDE DEF k
    <3> QED BY <2>1, <3>1, <3>2
  <2> QED BY <2>2, <1>10, <1>11 DEF Begins
<1> QED BY <1>5, <1>7, <1>9, <1>12, <1>13 DEF LeadsOn

-----------------------------------------------------------------------------
(* The search of paths_between: its queue, and the paths it has found.       *)

\* every trail is the beginning of a path
TrailsLead(q, g) ==
  \A i \in 1..Len(q) :
    /\ Walk(q[i].trail, g) /\ Open(q[i].trail)
    /\ q[i].at = Met(q[i].trail, Len(q[i].trail))
\* no trail is there twice or goes on from another
TrailsDiffer(q) ==
  \A i, j \in 1..Len(q) :
    /\ i # j => q[i].trail # q[j].trail
    /\ \A e \in Edges : q[j].trail # Append(q[i].trail, e)
\* the shorter come first, and none is longer than the first by more than one
TrailsInTurn(q) ==
  \A i, j \in 1..Len(q) :
    /\ i < j => Len(q[i].trail) <= Len(q[j].trail)
    /\ Len(q[j].trail) <= Len(q[i].trail) + 1
PathsFound(r, g) == \A i \in 1..Len(r) : r[i] \in PathsIn(g, query.depth)
PathsDiffer(r) == \A i, j \in 1..Len(r) : i # j => r[i] # r[j]
PathsInTurn(r) == \A i, j \in 1..Len(r) : i < j => Len(r[i]) <= Len(r[j])
\* what is still to be found is longer than what was, and other than it
PathsAreAhead(q, r) ==
  \A i \in 1..Len(r), j \in 1..Len(q) :
    /\ Len(r[i]) <= Len(q[j].trail) + 1
    /\ \A e \in Edges : r[i] # Append(q[j].trail, e)
\* a path of the graph that is not found yet begins with a trail of the queue
NoneIsLost(q, r, g) ==
  Len(r) < query.cap =>
    \A p \in PathsIn(g, query.depth) :
      p \in Range(r) \/ \E j \in 1..Len(q) : Begins(q[j].trail, p)

Follows(q, r, g) ==
  /\ q \in Seq(TrailItems) /\ r \in Seq(Seq(Edges))
  /\ TrailsLead(q, g) /\ TrailsDiffer(q) /\ TrailsInTurn(q)
  /\ PathsFound(r, g) /\ PathsDiffer(r) /\ PathsInTurn(r) /\ PathsAreAhead(q, r)

\* one step of the search: what follows the first trail
EndsOfTrail(x, g) ==
  {p \in Seq(Edges) : \E e \in g :
     From[e] = x.at /\ To[e] = query.target /\ p = Append(x.trail, e)}
Onwards(x, g) ==
  {y \in TrailItems : \E e \in g :
     /\ From[e] = x.at /\ To[e] # query.target /\ To[e] \notin OnTrail(x.trail)
     /\ y = [at |-> To[e], trail |-> Append(x.trail, e)]}
StepsOn(q, r, g, todo, found) ==
  /\ todo \in Seq(TrailItems) /\ found \in Seq(Seq(Edges))
  /\ Adds(Tail(q), todo, Onwards(Head(q), g))
  /\ Adds(r, found, EndsOfTrail(Head(q), g))
  /\ Len(found) < query.cap => /\ Onwards(Head(q), g) \subseteq Range(todo)
                               /\ EndsOfTrail(Head(q), g) \subseteq Range(found)

LEMMA AppendDiffers ==
    ASSUME NEW W, NEW a \in Seq(W), NEW b \in Seq(W), NEW x \in W, NEW y \in W,
           Append(a, x) = Append(b, y)
    PROVE  a = b /\ x = y
<1>1. /\ Len(Append(a, x)) = Len(a) + 1 /\ Len(Append(b, y)) = Len(b) + 1
      /\ Len(a) \in Nat /\ Len(b) \in Nat
      /\ \A i \in 1..Len(a) : Append(a, x)[i] = a[i]
      /\ \A i \in 1..Len(b) : Append(b, y)[i] = b[i]
      /\ Append(a, x)[Len(a) + 1] = x /\ Append(b, y)[Len(b) + 1] = y
  BY OneMore
<1>2. Len(a) = Len(b)
  BY <1>1
<1>3. a = [i \in 1..Len(a) |-> a[i]] /\ b = [i \in 1..Len(b) |-> b[i]]
  OBVIOUS
<1>4. \A i \in 1..Len(a) : a[i] = b[i]
  BY <1>1, <1>2
<1>5. a = b
  BY <1>2, <1>3, <1>4
<1> QED BY <1>1, <1>2, <1>5

\* the first item, the others, and where they go
LEMMA TailIs ==
    ASSUME NEW W, NEW q \in Seq(W), q # <<>>
    PROVE  /\ Head(q) = q[1] /\ Head(q) \in W /\ 1 \in 1..Len(q)
           /\ Tail(q) \in Seq(W) /\ Len(Tail(q)) = Len(q) - 1 /\ Len(Tail(q)) \in Nat
           /\ \A i \in 1..Len(Tail(q)) : /\ Tail(q)[i] = q[i + 1]
                                         /\ i + 1 \in 1..Len(q) /\ i + 1 > 1
OBVIOUS

\* each item of the new queue was there or goes on from the first
LEMMA QueueIs ==
    ASSUME NEW W, NEW q \in Seq(W), q # <<>>, NEW X, NEW todo \in Seq(W), Adds(Tail(q), todo, X)
    PROVE  /\ Len(todo) \in Nat
           /\ \A i \in 1..Len(todo) :
                \/ /\ i <= Len(q) - 1 /\ todo[i] = q[i + 1]
                   /\ i + 1 \in 1..Len(q) /\ i + 1 # 1
                \/ i > Len(q) - 1 /\ todo[i] \in X
           /\ \A i, j \in 1..Len(todo) :
                i > Len(q) - 1 /\ j > Len(q) - 1 /\ i # j => todo[i] # todo[j]
           /\ \A i \in 1..Len(q) : i # 1 => i - 1 \in 1..Len(todo) /\ todo[i - 1] = q[i]
<1> DEFINE n == Len(Tail(q))
           m == Len(todo)
<1>1. /\ n = Len(q) - 1 /\ n \in Nat /\ Len(q) \in Nat /\ m \in Nat
      /\ \A i \in 1..n : Tail(q)[i] = q[i + 1] /\ i + 1 \in 1..Len(q) /\ i + 1 > 1
  BY TailIs
<1>2. /\ n <= m
      /\ \A i \in 1..n : todo[i] = Tail(q)[i]
      /\ \A i \in 1..m : i > n => todo[i] \in X
      /\ \A i, j \in 1..m : i > n /\ j > n /\ i # j => todo[i] # todo[j]
  BY DEF Adds
<1> HIDE DEF n, m
<1>3. \A i \in 1..m : i \in 1..n \/ i > n
  BY <1>1
<1>4. ASSUME NEW i \in 1..Len(q), i # 1 PROVE i - 1 \in 1..m /\ todo[i - 1] = q[i]
  <2>1. i - 1 \in 1..n /\ i - 1 + 1 = i
    BY <1>1, <1>4
  <2>2. i - 1 \in 1..m
    BY <1>1, <1>2, <2>1
  <2> QED BY <1>1, <1>2, <2>1, <2>2
<1>5. ASSUME NEW i \in 1..m
      PROVE  \/ /\ i <= n /\ todo[i] = q[i + 1]
                /\ i + 1 \in 1..Len(q) /\ i + 1 # 1
             \/ i > n /\ todo[i] \in X
  BY <1>1, <1>2, <1>3
<1> QED BY <1>1, <1>2, <1>4, <1>5 DEF m

-----------------------------------------------------------------------------
\* what goes on from a trail
LEMMA OnwardIs ==
    ASSUME NEW g \in SUBSET Edges, NEW x \in TrailItems, Walk(x.trail, g), Open(x.trail),
           x.at = Met(x.trail, Len(x.trail))
    PROVE  \A y \in Onwards(x, g) :
             /\ Walk(y.trail, g) /\ Open(y.trail) /\ y.at = Met(y.trail, Len(y.trail))
             /\ Len(y.trail) = Len(x.trail) + 1
             /\ \E e \in Edges : y = [at |-> To[e], trail |-> Append(x.trail, e)]
<1>1. TAKE y \in Onwards(x, g)
<1>2. PICK e \in g : /\ From[e] = x.at /\ To[e] # query.target /\ To[e] \notin OnTrail(x.trail)
                     /\ y = [at |-> To[e], trail |-> Append(x.trail, e)]
  BY DEF Onwards
<1> DEFINE p == Append(x.trail, e)
<1>3. y.trail = p /\ y.at = To[e]
  BY <1>2
<1>4. Walk(p, g) /\ Len(p) = Len(x.trail) + 1 /\ Met(p, Len(x.trail) + 1) = To[e] /\ Open(p)
  BY <1>2, WalkGoesOn
<1> QED BY <1>2, <1>3, <1>4

LEMMA EndIs ==
    ASSUME NEW g \in SUBSET Edges, NEW x \in TrailItems, Walk(x.trail, g), Open(x.trail),
           x.at = Met(x.trail, Len(x.trail)), query.depth \in Nat, Len(x.trail) < query.depth
    PROVE  \A p \in EndsOfTrail(x, g) :
             /\ p \in PathsIn(g, query.depth)
             /\ Len(p) = Len(x.trail) + 1
             /\ \E e \in Edges : p = Append(x.trail, e)
<1>1. TAKE p \in EndsOfTrail(x, g)
<1>2. PICK e \in g : From[e] = x.at /\ To[e] = query.target /\ p = Append(x.trail, e)
  BY DEF EndsOfTrail
<1>3. To[e] \notin OnTrail(x.trail)
  BY <1>2, TrailMeets DEF Open
<1>4. Walk(p, g) /\ Len(p) = Len(x.trail) + 1 /\ Met(p, Len(x.trail) + 1) = To[e]
  BY <1>2, <1>3, WalkGoesOn
<1>5. Len(x.trail) \in Nat
  BY WalkSize
<1>6. Len(p) \in 1..query.depth /\ Met(p, Len(p)) = query.target
  BY <1>2, <1>4, <1>5
<1> QED BY <1>2, <1>4, <1>6, PathIs

\* the trails are sequences of edges
LEMMA TrailsAre ==
    ASSUME NEW q \in Seq(TrailItems)
    PROVE  \A i \in 1..Len(q) : /\ q[i] \in TrailItems /\ q[i].trail \in Seq(Edges)
                                /\ Len(q[i].trail) \in Nat
                                /\ q[i] = [at |-> q[i].at, trail |-> q[i].trail]
<1>1. \A i \in 1..Len(q) : q[i] \in TrailItems
  OBVIOUS
<1> QED BY <1>1 DEF TrailItems

\* each trail of the new queue, as far as its length and its edges go
GoesOn(x, y) == \E e \in Edges : y = [at |-> To[e], trail |-> Append(x.trail, e)]
Ahead(q, todo, i) ==
  /\ i <= Len(q) - 1 => todo[i] = q[i + 1] /\ i + 1 \in 1..Len(q) /\ i + 1 # 1
  /\ i > Len(q) - 1 => Len(todo[i].trail) = Len(q[1].trail) + 1 /\ GoesOn(q[1], todo[i])

LEMMA TrailsGoOn ==
    ASSUME NEW g \in SUBSET Edges, NEW q \in Seq(TrailItems), q # <<>>, TrailsLead(q, g),
           NEW todo \in Seq(TrailItems), Adds(Tail(q), todo, Onwards(Head(q), g))
    PROVE  TrailsLead(todo, g) /\ \A i \in 1..Len(todo) : Ahead(q, todo, i)
<1>1. Head(q) = q[1] /\ q[1] \in TrailItems /\ 1 \in 1..Len(q)
  BY TailIs
<1>2. /\ Walk(q[1].trail, g) /\ Open(q[1].trail)
      /\ q[1].at = Met(q[1].trail, Len(q[1].trail))
  BY <1>1 DEF TrailsLead
<1>3. \A i \in 1..Len(todo) :
        \/ i <= Len(q) - 1 /\ todo[i] = q[i + 1] /\ i + 1 \in 1..Len(q) /\ i + 1 # 1
        \/ i > Len(q) - 1 /\ todo[i] \in Onwards(q[1], g)
  BY <1>1, QueueIs
<1>4. \A y \in Onwards(q[1], g) :
        /\ Walk(y.trail, g) /\ Open(y.trail) /\ y.at = Met(y.trail, Len(y.trail))
        /\ Len(y.trail) = Len(q[1].trail) + 1
        /\ GoesOn(q[1], y)
  BY <1>1, <1>2, OnwardIs DEF GoesOn
<1>5. \A i \in 1..Len(todo) : Ahead(q, todo, i)
  <2>1. Len(q) \in Nat /\ Len(todo) \in Nat
    OBVIOUS
  <2> QED BY <1>3, <1>4, <2>1 DEF Ahead
<1>6. TrailsLead(todo, g)
  BY <1>3, <1>4 DEF TrailsLead
<1> QED BY <1>5, <1>6

LEMMA TrailsStayApart ==
    ASSUME NEW q \in Seq(TrailItems), q # <<>>, TrailsDiffer(q), TrailsInTurn(q),
           NEW todo \in Seq(TrailItems), \A i \in 1..Len(todo) : Ahead(q, todo, i),
           \A i, j \in 1..Len(todo) :
             i > Len(q) - 1 /\ j > Len(q) - 1 /\ i # j => todo[i] # todo[j]
    PROVE  TrailsDiffer(todo)
<1> DEFINE t == q[1].trail
<1>1. /\ 1 \in 1..Len(q) /\ Len(q) \in Nat /\ Len(todo) \in Nat /\ t \in Seq(Edges) /\ Len(t) \in Nat
      /\ \A i \in 1..Len(q) : q[i].trail \in Seq(Edges) /\ Len(q[i].trail) \in Nat
      /\ \A i \in 1..Len(todo) : todo[i].trail \in Seq(Edges) /\ Len(todo[i].trail) \in Nat
  <2>1. 1 \in 1..Len(q) /\ Len(q) \in Nat /\ Len(todo) \in Nat
    OBVIOUS
  <2>2. \A i \in 1..Len(q) : q[i].trail \in Seq(Edges) /\ Len(q[i].trail) \in Nat
    BY TrailsAre
  <2>3. \A i \in 1..Len(todo) : todo[i].trail \in Seq(Edges) /\ Len(todo[i].trail) \in Nat
    BY TrailsAre
  <2> QED BY <2>1, <2>2, <2>3
<1>0. \A i \in 1..Len(todo) : i > Len(q) - 1 => GoesOn(q[1], todo[i])
  BY DEF Ahead
<1>2. /\ \A i, j \in 1..Len(q) : i # j => q[i].trail # q[j].trail
      /\ \A i, j \in 1..Len(q), e \in Edges : q[j].trail # Append(q[i].trail, e)
      /\ \A j \in 1..Len(q) : Len(q[j].trail) <= Len(t) + 1
  BY <1>1 DEF TrailsDiffer, TrailsInTurn
<1>3. ASSUME NEW i \in 1..Len(todo), NEW j \in 1..Len(todo)
      PROVE  /\ i # j => todo[i].trail # todo[j].trail
             /\ \A e \in Edges : todo[j].trail # Append(todo[i].trail, e)
  <2>1. Ahead(q, todo, i) /\ Ahead(q, todo, j)
    OBVIOUS
  <2>2. CASE i <= Len(q) - 1 /\ j <= Len(q) - 1
    <3>1. /\ todo[i] = q[i + 1] /\ i + 1 \in 1..Len(q) /\ todo[j] = q[j + 1] /\ j + 1 \in 1..Len(q)
          /\ i # j => i + 1 # j + 1
      BY <1>1, <2>1, <2>2 DEF Ahead
    <3> QED BY <3>1, <1>2
  <2>3. CASE i <= Len(q) - 1 /\ j > Len(q) - 1
    <3>1. todo[i] = q[i + 1] /\ i + 1 \in 1..Len(q) /\ i + 1 # 1
      BY <1>1, <2>1, <2>3 DEF Ahead
    <3>2. PICK f \in Edges : todo[j] = [at |-> To[f], trail |-> Append(t, f)]
      <4>1. GoesOn(q[1], todo[j])
        BY <1>0, <2>3
      <4> QED BY <4>1 DEF GoesOn
    <3>3. todo[j].trail = Append(t, f)
      BY <3>2
    <3>4. q[i + 1].trail # t /\ q[i + 1].trail # Append(t, f)
      BY <1>1, <1>2, <3>1
    <3>5. ASSUME NEW e \in Edges, Append(t, f) = Append(q[i + 1].trail, e) PROVE FALSE
      <4>1. t = q[i + 1].trail
        <5> DEFINE u == q[i + 1].trail
        <5>1. u \in Seq(Edges) /\ Append(t, f) = Append(u, e)
          BY <1>1, <3>1, <3>5
        <5> HIDE DEF t, u
        <5>2. t = u
          BY <1>1, <5>1, AppendDiffers
        <5> QED BY <5>2 DEF u
      <4> QED BY <3>4, <4>1
    <3> QED BY <3>1, <3>3, <3>4, <3>5
  <2>4. CASE i > Len(q) - 1 /\ j <= Len(q) - 1
    <3>1. todo[j] = q[j + 1] /\ j + 1 \in 1..Len(q) /\ j + 1 # 1
      BY <1>1, <2>1, <2>4 DEF Ahead
    <3>2. PICK f \in Edges : todo[i] = [at |-> To[f], trail |-> Append(t, f)]
      <4>1. GoesOn(q[1], todo[i])
        BY <1>0, <2>4
      <4> QED BY <4>1 DEF GoesOn
    <3>3. todo[i].trail = Append(t, f) /\ Len(todo[i].trail) = Len(t) + 1
      BY <1>1, <3>2, OneMore
    <3>4. q[j + 1].trail # Append(t, f) /\ Len(q[j + 1].trail) <= Len(t) + 1
      BY <1>1, <1>2, <3>1
    <3>5. \A e \in Edges : Len(Append(todo[i].trail, e)) = Len(t) + 2
      BY <1>1, <3>3, OneMore
    <3>6. \A e \in Edges : q[j + 1].trail # Append(todo[i].trail, e)
      BY <1>1, <3>1, <3>4, <3>5
    <3> QED BY <3>1, <3>3, <3>4, <3>6
  <2>5. CASE i > Len(q) - 1 /\ j > Len(q) - 1
    <3>1. PICK f \in Edges : todo[i] = [at |-> To[f], trail |-> Append(t, f)]
      <4>1. GoesOn(q[1], todo[i])
        BY <1>0, <2>5
      <4> QED BY <4>1 DEF GoesOn
    <3>2. PICK h \in Edges : todo[j] = [at |-> To[h], trail |-> Append(t, h)]
      <4>1. GoesOn(q[1], todo[j])
        BY <1>0, <2>5
      <4> QED BY <4>1 DEF GoesOn
    <3>3. todo[i].trail = Append(t, f) /\ todo[j].trail = Append(t, h)
      BY <3>1, <3>2
    <3>4. i # j => f # h
      BY <2>5, <3>1, <3>2
    <3>5. i # j => todo[i].trail # todo[j].trail
      <4> HIDE DEF t
      <4> QED BY <1>1, <3>3, <3>4, AppendDiffers
    <3>6. /\ Len(todo[i].trail) = Len(t) + 1 /\ Len(todo[j].trail) = Len(t) + 1
          /\ \A e \in Edges : Len(Append(todo[i].trail, e)) = Len(todo[i].trail) + 1
      BY <1>1, <3>3, OneMore
    <3>7. \A e \in Edges : Len(Append(todo[i].trail, e)) # Len(todo[j].trail)
      BY <1>1, <3>6
    <3>8. \A e \in Edges : todo[j].trail # Append(todo[i].trail, e)
      BY <3>7
    <3> QED BY <3>5, <3>8
  <2> QED BY <1>1, <2>2, <2>3, <2>4, <2>5
<1> QED BY <1>3 DEF TrailsDiffer

LEMMA TrailsStayInTurn ==
    ASSUME NEW q \in Seq(TrailItems), q # <<>>, TrailsInTurn(q),
           NEW todo \in Seq(TrailItems), \A i \in 1..Len(todo) : Ahead(q, todo, i)
    PROVE  TrailsInTurn(todo)
<1> DEFINE t == q[1].trail
           L(i) == Len(todo[i].trail)
<1>1. /\ 1 \in 1..Len(q) /\ Len(q) \in Nat /\ Len(todo) \in Nat /\ Len(t) \in Nat
      /\ \A i \in 1..Len(q) : Len(q[i].trail) \in Nat
      /\ \A i \in 1..Len(todo) : L(i) \in Nat
  <2>1. 1 \in 1..Len(q) /\ Len(q) \in Nat /\ Len(todo) \in Nat
    OBVIOUS
  <2>2. \A i \in 1..Len(q) : Len(q[i].trail) \in Nat
    BY TrailsAre
  <2>3. \A i \in 1..Len(todo) : L(i) \in Nat
    BY TrailsAre
  <2> QED BY <2>1, <2>2, <2>3
<1>2. \A i \in 1..Len(q) : Len(q[i].trail) \in Len(t)..Len(t) + 1
  <2>1. \A i \in 1..Len(q) : i = 1 \/ 1 < i
    BY <1>1
  <2> QED BY <1>1, <2>1 DEF TrailsInTurn
<1>3. \A i, j \in 1..Len(q) : i < j => Len(q[i].trail) <= Len(q[j].trail)
  BY DEF TrailsInTurn
<1>4. \A i \in 1..Len(todo) : L(i) \in Len(t)..Len(t) + 1
  <2> TAKE i \in 1..Len(todo)
  <2>1. Ahead(q, todo, i)
    OBVIOUS
  <2>2. CASE i <= Len(q) - 1
    <3>1. todo[i] = q[i + 1] /\ i + 1 \in 1..Len(q)
      BY <2>1, <2>2 DEF Ahead
    <3>2. Len(q[i + 1].trail) \in Len(t)..Len(t) + 1
      BY <1>2, <3>1
    <3> QED BY <3>1, <3>2
  <2>3. CASE i > Len(q) - 1
    <3>1. L(i) = Len(t) + 1
      BY <2>1, <2>3 DEF Ahead
    <3> QED BY <1>1, <3>1
  <2>4. i <= Len(q) - 1 \/ i > Len(q) - 1
    BY <1>1
  <2> QED BY <2>2, <2>3, <2>4
<1> HIDE DEF t
<1>5. ASSUME NEW i \in 1..Len(todo), NEW j \in 1..Len(todo), i < j PROVE L(i) <= L(j)
  <2>1. CASE j <= Len(q) - 1
    <3>1. i <= Len(q) - 1
      BY <1>1, <1>5, <2>1
    <3>2. /\ todo[i] = q[i + 1] /\ i + 1 \in 1..Len(q) /\ todo[j] = q[j + 1] /\ j + 1 \in 1..Len(q)
      BY <1>1, <2>1, <3>1 DEF Ahead
    <3>3. i + 1 < j + 1
      BY <1>5
    <3> QED BY <1>3, <3>2, <3>3
  <2>2. CASE j > Len(q) - 1
    <3>1. L(j) = Len(t) + 1
      BY <1>1, <2>2 DEF Ahead, t
    <3> QED BY <1>1, <1>4, <3>1
  <2> QED BY <1>1, <2>1, <2>2
<1>6. \A i, j \in 1..Len(todo) : L(j) <= L(i) + 1
  BY <1>1, <1>4
<1> QED BY <1>5, <1>6 DEF TrailsInTurn

-----------------------------------------------------------------------------
\* each path of the new answer was found before or ends the first trail
Arrived(q, r, found, i) ==
  /\ i <= Len(r) => found[i] = r[i] /\ i \in 1..Len(r)
  /\ i > Len(r) => /\ found[i] \in PathsIn(Present, query.depth)
                   /\ Len(found[i]) = Len(q[1].trail) + 1
                   /\ \E e \in Edges : found[i] = Append(q[1].trail, e)

LEMMA PathsGoOn ==
    ASSUME Present \in SUBSET Edges, query.depth \in Nat,
           NEW q \in Seq(TrailItems), q # <<>>, TrailsLead(q, Present),
           Len(q[1].trail) < query.depth, NEW r \in Seq(Seq(Edges)), PathsFound(r, Present),
           NEW found \in Seq(Seq(Edges)), Adds(r, found, EndsOfTrail(Head(q), Present))
    PROVE  PathsFound(found, Present) /\ \A i \in 1..Len(found) : Arrived(q, r, found, i)
<1>1. Head(q) = q[1] /\ q[1] \in TrailItems /\ 1 \in 1..Len(q)
  BY TailIs
<1>2. /\ Walk(q[1].trail, Present) /\ Open(q[1].trail)
      /\ q[1].at = Met(q[1].trail, Len(q[1].trail))
  BY <1>1 DEF TrailsLead
<1>3. \A p \in EndsOfTrail(q[1], Present) :
        /\ p \in PathsIn(Present, query.depth)
        /\ Len(p) = Len(q[1].trail) + 1
        /\ \E e \in Edges : p = Append(q[1].trail, e)
  BY <1>1, <1>2, EndIs
<1>4. Len(r) \in Nat /\ Len(found) \in Nat
  OBVIOUS
<1>5. /\ \A i \in 1..Len(r) : found[i] = r[i]
      /\ \A i \in 1..Len(found) : i > Len(r) => found[i] \in EndsOfTrail(q[1], Present)
  BY <1>1 DEF Adds
<1>6. \A i \in 1..Len(found) : Arrived(q, r, found, i)
  BY <1>3, <1>4, <1>5 DEF Arrived
<1>7. PathsFound(found, Present)
  <2>1. ASSUME NEW i \in 1..Len(found) PROVE found[i] \in PathsIn(Present, query.depth)
    <3>1. Arrived(q, r, found, i)
      BY <1>6
    <3>2. CASE i <= Len(r)
      BY <3>1, <3>2 DEF PathsFound, Arrived
    <3>3. CASE i > Len(r)
      BY <3>1, <3>3 DEF Arrived
    <3> QED BY <1>4, <3>2, <3>3
  <2> QED BY <2>1 DEF PathsFound
<1> QED BY <1>6, <1>7

LEMMA PathsStayApart ==
    ASSUME NEW q \in Seq(TrailItems), q # <<>>, NEW r \in Seq(Seq(Edges)),
           PathsDiffer(r), PathsInTurn(r), PathsAreAhead(q, r),
           NEW found \in Seq(Seq(Edges)), \A i \in 1..Len(found) : Arrived(q, r, found, i),
           \A i, j \in 1..Len(found) : i > Len(r) /\ j > Len(r) /\ i # j => found[i] # found[j]
    PROVE  PathsDiffer(found) /\ PathsInTurn(found)
<1> DEFINE t == q[1].trail
<1>1. 1 \in 1..Len(q) /\ Len(r) \in Nat /\ Len(found) \in Nat /\ Len(t) \in Nat
  <2>1. 1 \in 1..Len(q)
    OBVIOUS
  <2> QED BY <2>1, TrailsAre
<1>2. \A i \in 1..Len(r) : Len(r[i]) <= Len(t) + 1 /\ \A e \in Edges : r[i] # Append(t, e)
  BY <1>1 DEF PathsAreAhead
<1> HIDE DEF t
<1>3. ASSUME NEW i \in 1..Len(found), i > Len(r)
      PROVE  Len(found[i]) = Len(t) + 1 /\ \E e \in Edges : found[i] = Append(t, e)
  BY <1>1, <1>3 DEF Arrived, t
<1>4. ASSUME NEW i \in 1..Len(found), i <= Len(r) PROVE found[i] = r[i] /\ i \in 1..Len(r)
  BY <1>4 DEF Arrived
<1>5. ASSUME NEW i \in 1..Len(found), NEW j \in 1..Len(found), i # j PROVE found[i] # found[j]
  <2>1. CASE i <= Len(r) /\ j <= Len(r)
    BY <1>4, <1>5, <2>1 DEF PathsDiffer
  <2>2. CASE i <= Len(r) /\ j > Len(r)
    BY <1>2, <1>3, <1>4, <2>2
  <2>3. CASE i > Len(r) /\ j <= Len(r)
    BY <1>2, <1>3, <1>4, <2>3
  <2>4. CASE i > Len(r) /\ j > Len(r)
    BY <1>5, <2>4
  <2> QED BY <1>1, <2>1, <2>2, <2>3, <2>4
<1>6. ASSUME NEW i \in 1..Len(found), NEW j \in 1..Len(found), i < j
      PROVE  Len(found[i]) <= Len(found[j])
  <2>1. CASE j <= Len(r)
    <3>1. i <= Len(r)
      BY <1>1, <1>6, <2>1
    <3> QED BY <1>4, <1>6, <2>1, <3>1 DEF PathsInTurn
  <2>2. CASE i <= Len(r) /\ j > Len(r)
    BY <1>2, <1>3, <1>4, <2>2
  <2>3. CASE i > Len(r) /\ j > Len(r)
    <3>1. Len(found[i]) = Len(t) + 1 /\ Len(found[j]) = Len(t) + 1
      BY <1>3, <2>3
    <3> QED BY <1>1, <3>1
  <2> QED BY <1>1, <1>6, <2>1, <2>2, <2>3
<1> QED BY <1>5, <1>6 DEF PathsDiffer, PathsInTurn

LEMMA PathsStayAhead ==
    ASSUME NEW q \in Seq(TrailItems), q # <<>>, TrailsDiffer(q), TrailsInTurn(q),
           NEW r \in Seq(Seq(Edges)), PathsAreAhead(q, r),
           NEW found \in Seq(Seq(Edges)), \A i \in 1..Len(found) : Arrived(q, r, found, i),
           NEW todo \in Seq(TrailItems), \A i \in 1..Len(todo) : Ahead(q, todo, i)
    PROVE  PathsAreAhead(todo, found)
<1> DEFINE t == q[1].trail
<1>1. /\ 1 \in 1..Len(q) /\ Len(q) \in Nat /\ Len(r) \in Nat /\ Len(found) \in Nat
      /\ Len(todo) \in Nat /\ t \in Seq(Edges) /\ Len(t) \in Nat
      /\ \A j \in 1..Len(q) : q[j].trail \in Seq(Edges) /\ Len(q[j].trail) \in Nat
      /\ \A j \in 1..Len(todo) : todo[j].trail \in Seq(Edges) /\ Len(todo[j].trail) \in Nat
      /\ \A i \in 1..Len(r) : Len(r[i]) \in Nat
  <2>1. /\ 1 \in 1..Len(q) /\ Len(q) \in Nat /\ Len(r) \in Nat /\ Len(found) \in Nat
        /\ Len(todo) \in Nat
    OBVIOUS
  <2>2. \A j \in 1..Len(q) : q[j].trail \in Seq(Edges) /\ Len(q[j].trail) \in Nat
    BY TrailsAre
  <2>3. \A j \in 1..Len(todo) : todo[j].trail \in Seq(Edges) /\ Len(todo[j].trail) \in Nat
    BY TrailsAre
  <2>4. \A i \in 1..Len(r) : r[i] \in Seq(Edges)
    OBVIOUS
  <2>5. \A i \in 1..Len(r) : Len(r[i]) \in Nat
    BY <2>4
  <2> QED BY <2>1, <2>2, <2>3, <2>5
<1>2. /\ \A i \in 1..Len(r), j \in 1..Len(q) : Len(r[i]) <= Len(q[j].trail) + 1
      /\ \A i \in 1..Len(r), j \in 1..Len(q), e \in Edges : r[i] # Append(q[j].trail, e)
  BY DEF PathsAreAhead
<1>3. /\ \A j \in 1..Len(q) : j # 1 => q[j].trail # t /\ Len(t) <= Len(q[j].trail)
  <2>1. \A j \in 1..Len(q) : j # 1 => 1 < j
    BY <1>1
  <2> QED BY <1>1, <2>1 DEF TrailsDiffer, TrailsInTurn
<1> HIDE DEF t
<1>4. ASSUME NEW i \in 1..Len(found), i > Len(r)
      PROVE  Len(found[i]) = Len(t) + 1 /\ \E e \in Edges : found[i] = Append(t, e)
  BY <1>4 DEF Arrived, t
<1>5. ASSUME NEW i \in 1..Len(found), i <= Len(r) PROVE found[i] = r[i] /\ i \in 1..Len(r)
  BY <1>5 DEF Arrived
<1>6. ASSUME NEW j \in 1..Len(todo), j <= Len(q) - 1
      PROVE  todo[j] = q[j + 1] /\ j + 1 \in 1..Len(q) /\ j + 1 # 1
  BY <1>6 DEF Ahead
<1>7. ASSUME NEW j \in 1..Len(todo), j > Len(q) - 1 PROVE Len(todo[j].trail) = Len(t) + 1
  BY <1>7 DEF Ahead, t
<1>8. ASSUME NEW i \in 1..Len(found), NEW j \in 1..Len(todo)
      PROVE  /\ Len(found[i]) <= Len(todo[j].trail) + 1
             /\ \A e \in Edges : found[i] # Append(todo[j].trail, e)
  <2>1. CASE i <= Len(r) /\ j <= Len(q) - 1
    BY <1>2, <1>5, <1>6, <2>1
  <2>2. CASE i <= Len(r) /\ j > Len(q) - 1
    <3>1. found[i] = r[i] /\ i \in 1..Len(r) /\ Len(todo[j].trail) = Len(t) + 1
      BY <1>5, <1>7, <2>2
    <3>2. Len(r[i]) <= Len(t) + 1
      BY <1>1, <1>2, <3>1 DEF t
    <3>3. \A e \in Edges : Len(Append(todo[j].trail, e)) = Len(t) + 2
      <4>1. \A e \in Edges : Len(Append(todo[j].trail, e)) = Len(todo[j].trail) + 1
        BY <1>1, OneMore
      <4> QED BY <1>1, <3>1, <4>1
    <3>4. \A e \in Edges : Len(r[i]) # Len(Append(todo[j].trail, e))
      BY <1>1, <3>1, <3>2, <3>3
    <3>5. \A e \in Edges : found[i] # Append(todo[j].trail, e)
      BY <3>1, <3>4
    <3>6. Len(found[i]) \in Nat /\ Len(found[i]) <= Len(t) + 1
      BY <1>1, <3>1, <3>2
    <3>7. Len(found[i]) <= Len(todo[j].trail) + 1
      BY <1>1, <3>1, <3>6
    <3> QED BY <3>5, <3>7
  <2>3. CASE i > Len(r) /\ j <= Len(q) - 1
    <3>1. todo[j] = q[j + 1] /\ j + 1 \in 1..Len(q) /\ j + 1 # 1
      BY <1>6, <2>3
    <3>2. PICK f \in Edges : found[i] = Append(t, f)
      BY <1>4, <2>3
    <3>3. Len(found[i]) = Len(t) + 1 /\ Len(t) <= Len(q[j + 1].trail) /\ q[j + 1].trail # t
      BY <1>3, <1>4, <2>3, <3>1
    <3>4. ASSUME NEW e \in Edges, Append(t, f) = Append(q[j + 1].trail, e) PROVE FALSE
      <4> DEFINE u == q[j + 1].trail
      <4>1. u \in Seq(Edges) /\ Append(t, f) = Append(u, e) /\ u # t
        BY <1>1, <3>1, <3>3, <3>4
      <4> HIDE DEF u
      <4> QED BY <1>1, <4>1, AppendDiffers
    <3>5. \A e \in Edges : found[i] # Append(todo[j].trail, e)
      BY <3>1, <3>2, <3>4
    <3>6. Len(q[j + 1].trail) \in Nat /\ Len(t) \in Nat
      BY <1>1, <3>1
    <3>7. Len(found[i]) <= Len(todo[j].trail) + 1
      BY <3>1, <3>3, <3>6
    <3> QED BY <3>5, <3>7
  <2>4. CASE i > Len(r) /\ j > Len(q) - 1
    <3>1. Len(found[i]) = Len(t) + 1 /\ Len(todo[j].trail) = Len(t) + 1
      BY <1>4, <1>7, <2>4
    <3>2. \A e \in Edges : Len(Append(todo[j].trail, e)) = Len(todo[j].trail) + 1
      BY <1>1, OneMore
    <3>3. \A e \in Edges : Len(found[i]) # Len(Append(todo[j].trail, e))
      BY <1>1, <3>1, <3>2
    <3> QED BY <1>1, <3>1, <3>3
  <2> QED BY <1>1, <2>1, <2>2, <2>3, <2>4
<1> QED BY <1>8 DEF PathsAreAhead

\* no path is lost with the trail it began with
LEMMA NoneGetsLost ==
    ASSUME Present \in SUBSET Edges, query.depth \in Nat, NEW g \in SUBSET Present,
           query.cap \in Nat, NEW q \in Seq(TrailItems), q # <<>>, TrailsLead(q, Present),
           NEW r \in Seq(Seq(Edges)), NEW todo, NEW found,
           StepsOn(q, r, Present, todo, found), NoneIsLost(q, r, g)
    PROVE  NoneIsLost(todo, found, g)
<1>1. /\ todo \in Seq(TrailItems) /\ found \in Seq(Seq(Edges))
      /\ Adds(Tail(q), todo, Onwards(Head(q), Present))
      /\ Adds(r, found, EndsOfTrail(Head(q), Present))
      /\ Len(found) < query.cap => /\ Onwards(Head(q), Present) \subseteq Range(todo)
                                   /\ EndsOfTrail(Head(q), Present) \subseteq Range(found)
  BY DEF StepsOn
<1>2. SUFFICES ASSUME Len(found) < query.cap, NEW p \in PathsIn(g, query.depth)
               PROVE  p \in Range(found) \/ \E j \in 1..Len(todo) : Begins(todo[j].trail, p)
  BY DEF NoneIsLost
<1>3. /\ Len(r) \in Nat /\ Len(found) \in Nat /\ Len(r) <= Len(found)
      /\ \A i \in 1..Len(r) : found[i] = r[i]
      /\ DOMAIN r = 1..Len(r) /\ DOMAIN found = 1..Len(found)
  BY <1>1 DEF Adds
<1>4. CASE p \in Range(r)
  <2>1. PICK i \in 1..Len(r) : p = r[i]
    BY <1>3, <1>4 DEF Range
  <2>2. i \in 1..Len(found) /\ found[i] = p
    BY <1>3, <2>1
  <2> QED BY <1>3, <2>2 DEF Range
<1>5. CASE p \notin Range(r)
  <2>1. Len(r) < query.cap
    BY <1>2, <1>3
  <2>2. PICK j \in 1..Len(q) : Begins(q[j].trail, p)
    BY <1>5, <2>1 DEF NoneIsLost
  <2>3. CASE j # 1
    <3>1. j - 1 \in 1..Len(todo) /\ todo[j - 1] = q[j]
      BY <1>1, <2>3, QueueIs
    <3> QED BY <2>2, <3>1
  <2>4. CASE j = 1
    <3> DEFINE t == q[1].trail
               e == p[Len(t) + 1]
    <3>1. Head(q) = q[1] /\ q[1] \in TrailItems /\ t \in Seq(Edges) /\ 1 \in 1..Len(q)
      <4>1. Head(q) = q[1] /\ q[1] \in TrailItems /\ 1 \in 1..Len(q)
        BY TailIs
      <4> QED BY <4>1 DEF TrailItems
    <3>2. Walk(t, Present) /\ q[1].at = Met(t, Len(t))
      BY <3>1 DEF TrailsLead
    <3>3. Begins(t, p)
      BY <2>2, <2>4
    <3>4. LeadsOn(t, p, g, query.depth)
      BY <3>2, <3>3, NextOnPath
    <3>5. /\ e \in g /\ From[e] = q[1].at /\ To[e] \notin OnTrail(t)
          /\ To[e] = query.target => p = Append(t, e)
          /\ To[e] # query.target => Begins(Append(t, e), p)
      BY <3>2, <3>4 DEF LeadsOn
    <3>6. e \in Present /\ e \in Edges /\ To[e] \in Entities
      BY <3>5, EndsAssumption
    <3>7. Append(t, e) \in Seq(Edges)
      BY <3>1, <3>6
    <3>8. CASE To[e] = query.target
      <4>1. p \in EndsOfTrail(q[1], Present)
        BY <3>5, <3>6, <3>7, <3>8 DEF EndsOfTrail
      <4> QED BY <1>1, <1>2, <3>1, <4>1
    <3>9. CASE To[e] # query.target
      <4> DEFINE y == [at |-> To[e], trail |-> Append(t, e)]
      <4>1. y \in TrailItems /\ y.trail = Append(t, e)
        BY <3>6, <3>7 DEF TrailItems
      <4>2. y \in Onwards(q[1], Present)
        BY <3>5, <3>6, <3>9, <4>1 DEF Onwards
      <4> HIDE DEF y
      <4>3. y \in Range(todo)
        BY <1>1, <1>2, <3>1, <4>2
      <4>4. DOMAIN todo = 1..Len(todo)
        BY <1>1
      <4>5. PICK i \in 1..Len(todo) : todo[i] = y
        BY <4>3, <4>4 DEF Range
      <4> QED BY <3>5, <3>9, <4>1, <4>5
    <3> QED BY <3>8, <3>9
  <2> QED BY <2>3, <2>4
<1> QED BY <1>4, <1>5

-----------------------------------------------------------------------------
LEMMA PathsFollow ==
    ASSUME Present \in SUBSET Edges, query.depth \in Nat, NEW q, q # <<>>, NEW r,
           Follows(q, r, Present), Len(Head(q).trail) < query.depth,
           NEW todo, NEW found, StepsOn(q, r, Present, todo, found)
    PROVE  Follows(todo, found, Present)
<1>1. /\ q \in Seq(TrailItems) /\ r \in Seq(Seq(Edges))
      /\ TrailsLead(q, Present) /\ TrailsDiffer(q) /\ TrailsInTurn(q)
      /\ PathsFound(r, Present) /\ PathsDiffer(r) /\ PathsInTurn(r) /\ PathsAreAhead(q, r)
  BY DEF Follows
<1>2. /\ todo \in Seq(TrailItems) /\ found \in Seq(Seq(Edges))
      /\ Adds(Tail(q), todo, Onwards(Head(q), Present))
      /\ Adds(r, found, EndsOfTrail(Head(q), Present))
  BY DEF StepsOn
<1>3. Len(q[1].trail) < query.depth
  BY <1>1, TailIs
<1>4. TrailsLead(todo, Present) /\ \A i \in 1..Len(todo) : Ahead(q, todo, i)
  BY <1>1, <1>2, TrailsGoOn
<1>5. \A i, j \in 1..Len(todo) :
        i > Len(q) - 1 /\ j > Len(q) - 1 /\ i # j => todo[i] # todo[j]
  BY <1>1, <1>2, QueueIs
<1>6. TrailsDiffer(todo) /\ TrailsInTurn(todo)
  BY <1>1, <1>2, <1>4, <1>5, TrailsStayApart, TrailsStayInTurn
<1>7. PathsFound(found, Present) /\ \A i \in 1..Len(found) : Arrived(q, r, found, i)
  BY <1>1, <1>2, <1>3, PathsGoOn
<1>8. \A i, j \in 1..Len(found) : i > Len(r) /\ j > Len(r) /\ i # j => found[i] # found[j]
  BY <1>2 DEF Adds
<1>9. PathsDiffer(found) /\ PathsInTurn(found)
  BY <1>1, <1>2, <1>7, <1>8, PathsStayApart
<1>10. PathsAreAhead(todo, found)
  BY <1>1, <1>2, <1>4, <1>7, PathsStayAhead
<1> QED BY <1>2, <1>4, <1>6, <1>7, <1>9, <1>10 DEF Follows

\* the loop of paths_between over its rows is one step of the search
LEMMA RowsStepOn ==
    ASSUME Present \in SUBSET Edges, query.cap \in Nat, NEW q \in Seq(TrailItems), q # <<>>,
           NEW r \in Seq(Seq(Edges)),
           NEW rows \in SetToSeqs({e \in Present : From[e] = Head(q).at}),
           NEW v, v = Extended(Head(q), [found |-> r, todo |-> Tail(q)], rows)
    PROVE  StepsOn(q, r, Present, v.todo, v.found)
<1> DEFINE S == {e \in Present : From[e] = Head(q).at}
           base == [found |-> r, todo |-> Tail(q)]
           n == Len(rows)
<1>1. IsFiniteSet(S) /\ S \in SUBSET Edges
  <2>1. S \in SUBSET Edges
    OBVIOUS
  <2> HIDE DEF S
  <2> QED BY <2>1, EndsAssumption, FS_Subset
<1>2. Lists(rows, S)
  BY <1>1, RowsAreListed
<1>3. /\ rows \in Seq(S) /\ n \in Nat /\ DOMAIN rows = 1..n /\ Range(rows) = S
      /\ \A i, j \in 1..n : i # j => rows[i] # rows[j]
  BY <1>2 DEF Lists
<1>4. rows \in Seq(Edges)
  BY <1>1, <1>3
<1>5. Head(q) \in TrailItems /\ Tail(q) \in Seq(TrailItems)
  BY TailIs
<1>6. base \in Extents /\ base.found = r /\ base.todo = Tail(q)
  BY <1>5 DEF Extents
<1>7. v \in Extents /\ Prolongs(Head(q), base, rows, n, v)
  <2> HIDE DEF base
  <2>1. v = Extended(Head(q), base, rows)
    BY DEF base
  <2> QED BY <1>3, <1>4, <1>5, <1>6, <2>1, ExtendedIs
<1>8. \A e : e \in S <=> \E m \in 1..n : e = rows[m]
  BY <1>3 DEF Range
<1>9. \A e : e \in S <=> e \in Present /\ From[e] = Head(q).at
  OBVIOUS
<1> HIDE DEF S, base, n
<1>10. Arrivals(Head(q), rows, n) = EndsOfTrail(Head(q), Present)
  <2>1. ASSUME NEW p \in Seq(Edges)
        PROVE  (\E m \in 1..n : To[rows[m]] = query.target /\ p = Append(Head(q).trail, rows[m]))
               <=> \E e \in Present : /\ From[e] = Head(q).at /\ To[e] = query.target
                                      /\ p = Append(Head(q).trail, e)
    BY <1>8, <1>9
  <2> QED BY <2>1 DEF Arrivals, EndsOfTrail
<1>11. Onward(Head(q), rows, n) = Onwards(Head(q), Present)
  <2> DEFINE Q(y, e) == /\ To[e] # query.target /\ To[e] \notin OnTrail(Head(q).trail)
                        /\ y = [at |-> To[e], trail |-> Append(Head(q).trail, e)]
  <2>1. \A y : (\E m \in 1..n : Q(y, rows[m]))
                <=> \E e \in Present : From[e] = Head(q).at /\ Q(y, e)
    <3> HIDE DEF Q
    <3> QED BY <1>8, <1>9
  <2>2. Onward(Head(q), rows, n) = {y \in TrailItems : \E m \in 1..n : Q(y, rows[m])}
    BY DEF Onward
  <2>3. Onwards(Head(q), Present)
          = {y \in TrailItems : \E e \in Present : From[e] = Head(q).at /\ Q(y, e)}
    BY DEF Onwards
  <2> HIDE DEF Q
  <2> QED BY <2>1, <2>2, <2>3
<1>12. v.todo \in Seq(TrailItems) /\ v.found \in Seq(Seq(Edges))
  BY <1>7 DEF Extents
<1> QED BY <1>6, <1>7, <1>10, <1>11, <1>12 DEF Prolongs, StepsOn

\* an entity at the depth bound leaves the queue, and no path begins with its trail
LEMMA DeepTrailGoes ==
    ASSUME NEW g, NEW b, query.depth \in Nat, NEW q, q # <<>>, NEW r, Follows(q, r, g),
           Len(Head(q).trail) >= query.depth
    PROVE  Follows(Tail(q), r, g) /\ (NoneIsLost(q, r, b) => NoneIsLost(Tail(q), r, b))
<1> DEFINE s == Tail(q)
           n == Len(s)
<1>1. /\ q \in Seq(TrailItems) /\ r \in Seq(Seq(Edges))
      /\ TrailsLead(q, g) /\ TrailsDiffer(q) /\ TrailsInTurn(q)
      /\ PathsFound(r, g) /\ PathsDiffer(r) /\ PathsInTurn(r) /\ PathsAreAhead(q, r)
  BY DEF Follows
<1>2. /\ s \in Seq(TrailItems) /\ n \in Nat /\ n = Len(q) - 1
      /\ \A i \in 1..n : s[i] = q[i + 1] /\ i + 1 \in 1..Len(q)
      /\ Head(q) = q[1]
  BY <1>1, TailIs
<1> HIDE DEF s, n
<1>3. TrailsLead(s, g)
  BY <1>1, <1>2 DEF TrailsLead, n
<1>4. \A i, j \in 1..n : (i # j => i + 1 # j + 1) /\ (i < j => i + 1 < j + 1)
  BY <1>2
<1>5. TrailsDiffer(s)
  <2>1. ASSUME NEW i \in 1..n, NEW j \in 1..n
        PROVE  /\ i # j => s[i].trail # s[j].trail
               /\ \A e \in Edges : s[j].trail # Append(s[i].trail, e)
    <3>1. /\ s[i] = q[i + 1] /\ s[j] = q[j + 1] /\ i + 1 \in 1..Len(q) /\ j + 1 \in 1..Len(q)
          /\ i # j => i + 1 # j + 1
      BY <1>2, <1>4
    <3>2. /\ \A k, l \in 1..Len(q) : k # l => q[k].trail # q[l].trail
          /\ \A k, l \in 1..Len(q), e \in Edges : q[l].trail # Append(q[k].trail, e)
      BY <1>1 DEF TrailsDiffer
    <3> QED BY <3>1, <3>2
  <2> QED BY <2>1 DEF TrailsDiffer, n
<1>6. TrailsInTurn(s)
  BY <1>1, <1>2, <1>4 DEF TrailsInTurn, n
<1>7. PathsAreAhead(s, r)
  <2>1. ASSUME NEW i \in 1..Len(r), NEW j \in 1..n
        PROVE  /\ Len(r[i]) <= Len(s[j].trail) + 1
               /\ \A e \in Edges : r[i] # Append(s[j].trail, e)
    <3>1. s[j] = q[j + 1] /\ j + 1 \in 1..Len(q)
      BY <1>2
    <3>2. /\ \A k \in 1..Len(r), l \in 1..Len(q) : Len(r[k]) <= Len(q[l].trail) + 1
          /\ \A k \in 1..Len(r), l \in 1..Len(q), e \in Edges : r[k] # Append(q[l].trail, e)
      BY <1>1 DEF PathsAreAhead
    <3> QED BY <3>1, <3>2
  <2> QED BY <2>1 DEF PathsAreAhead, n
<1>8. Follows(s, r, g)
  BY <1>1, <1>2, <1>3, <1>5, <1>6, <1>7 DEF Follows
<1>9. ASSUME NoneIsLost(q, r, b), Len(r) < query.cap, NEW p \in PathsIn(b, query.depth),
             p \notin Range(r)
      PROVE  \E j \in 1..Len(s) : Begins(s[j].trail, p)
  <2>1. PICK j \in 1..Len(q) : Begins(q[j].trail, p)
    BY <1>9 DEF NoneIsLost
  <2>2. Len(p) \in 1..query.depth
    BY PathIs
  <2>3. j # 1
    <3>1. Len(q[1].trail) \in Nat
      BY <1>1, <1>2, TrailsAre
    <3> QED BY <1>2, <2>1, <2>2, <3>1 DEF Begins
  <2>4. j - 1 \in 1..n /\ j - 1 + 1 = j
    BY <1>2, <2>3
  <2> QED BY <1>2, <2>1, <2>4 DEF n
<1>10. NoneIsLost(q, r, b) => NoneIsLost(s, r, b)
  BY <1>9 DEF NoneIsLost
<1> QED BY <1>8, <1>10 DEF s

\* what a correlation commits meanwhile disturbs none of it
LEMMA FollowsStays ==
    ASSUME NEW g, NEW h, g \subseteq h, query.depth \in Nat, NEW q, NEW r, Follows(q, r, g)
    PROVE  Follows(q, r, h)
<1>1. TrailsLead(q, h)
  BY WalkStays DEF Follows, TrailsLead
<1>2. PathsFound(r, h)
  <2>1. \A i \in 1..Len(r) : r[i] \in PathsIn(g, query.depth)
    BY DEF Follows, PathsFound
  <2>2. \A i \in 1..Len(r) : r[i] \in PathsIn(h, query.depth)
    BY <2>1, PathIs, WalkStays
  <2> QED BY <2>2 DEF PathsFound
<1> QED BY <1>1, <1>2 DEF Follows

-----------------------------------------------------------------------------
(* The search of neighbours: its queue, the entities it has met and the      *)
(* edges it has read.                                                        *)
Touches(e, v) == From[e] = v \/ To[e] = v

\* nothing is beyond reach
Near(q, seen, read, g) ==
  /\ q \in Seq(VisitItems) /\ seen \in SUBSET Entities /\ read \in Seq(Edges)
  /\ query.start \in seen
  /\ \A i \in 1..Len(q) : /\ q[i].at \in seen /\ q[i].depth \in 0..query.depth
                          /\ q[i].at \in Within(g)[q[i].depth]
  /\ seen \subseteq Within(g)[query.depth]
  /\ Range(read) \subseteq Touching(Within(g)[query.depth - 1], g)
VisitsInTurn(q) ==
  \A i, j \in 1..Len(q) :
    /\ i < j => q[i].depth <= q[j].depth
    /\ q[j].depth <= q[i].depth + 1

\* an entity that left the queue above the depth bound has its edges read and their
\* ends met, none of them further off by more than one
Explored(v, dist, seen, read, g) ==
  dist[v] < query.depth =>
    \A e \in g : Touches(e, v) =>
      /\ e \in Range(read) /\ From[e] \in seen /\ To[e] \in seen
      /\ dist[From[e]] <= dist[v] + 1 /\ dist[To[e]] <= dist[v] + 1
Waits(v, q) == \E i \in 1..Len(q) : q[i].at = v
Measures(dist, q, seen, read, g) ==
  /\ dist \in [seen -> Nat] /\ dist[query.start] = 0
  /\ \A i \in 1..Len(q) : dist[q[i].at] = q[i].depth
  /\ \A v \in seen : ~Waits(v, q) =>
       /\ \A i \in 1..Len(q) : dist[v] <= q[i].depth
       /\ Explored(v, dist, seen, read, g)
EndsMet(seen, read) == \A e \in Range(read) : From[e] \in seen /\ To[e] \in seen
NoneIsMissed(q, seen, read, g) ==
  Len(read) < query.cap =>
    EndsMet(seen, read) /\ \E dist : Measures(dist, q, seen, read, g)

\* one step of the search: what the first item of the queue leads to
Visits(q, met, old, g, todo, seen, read) ==
  LET x == Head(q) IN
  /\ todo \in Seq(VisitItems) /\ seen \in SUBSET Entities /\ read \in Seq(Edges)
  /\ met \subseteq seen /\ Range(old) \subseteq Range(read)
  /\ \A e \in Range(read) : e \in Range(old) \/ (e \in g /\ Touches(e, x.at))
  /\ \A w \in seen : w \in met \/ \E e \in g : Touches(e, x.at) /\ w = Beyond(x.at, e)
  /\ Len(Tail(q)) <= Len(todo) /\ \A i \in 1..Len(Tail(q)) : todo[i] = Tail(q)[i]
  /\ \A i \in 1..Len(todo) : i > Len(Tail(q)) =>
       todo[i].depth = x.depth + 1 /\ todo[i].at \in seen \ met
  /\ \A w \in seen \ met : Waits(w, todo)
  /\ Len(read) < query.cap =>
       \A e \in g : Touches(e, x.at) => e \in Range(read) /\ Beyond(x.at, e) \in seen

\* the loop of neighbours over its rows is one step of the search
LEMMA RowsVisit ==
    ASSUME Present \in SUBSET Edges, query.cap \in Nat, NEW q \in Seq(VisitItems), q # <<>>,
           NEW met \in SUBSET Entities, NEW old \in Seq(Edges),
           NEW rows \in SetToSeqs({e \in Present : Head(q).at \in {From[e], To[e]}}),
           NEW v, v = Gathered(Head(q), [edges |-> old, seen |-> met, todo |-> Tail(q),
                                         ended |-> FALSE], rows)
    PROVE  Visits(q, met, old, Present, v.todo, v.seen, v.edges)
<1> DEFINE S == {e \in Present : Head(q).at \in {From[e], To[e]}}
           base == [edges |-> old, seen |-> met, todo |-> Tail(q), ended |-> FALSE]
           n == Len(rows)
           x == Head(q)
<1>1. IsFiniteSet(S) /\ S \in SUBSET Edges
  <2>1. S \in SUBSET Edges
    OBVIOUS
  <2> HIDE DEF S
  <2> QED BY <2>1, EndsAssumption, FS_Subset
<1>2. Lists(rows, S)
  BY <1>1, RowsAreListed
<1>3. rows \in Seq(S) /\ n \in Nat /\ DOMAIN rows = 1..n /\ Range(rows) = S
  BY <1>2 DEF Lists
<1>4. rows \in Seq(Edges)
  BY <1>1, <1>3
<1>5. x \in VisitItems /\ Tail(q) \in Seq(VisitItems)
  BY TailIs
<1>6. /\ base \in Gathers /\ base.edges = old /\ base.seen = met /\ base.todo = Tail(q)
      /\ ~base.ended
  BY <1>5 DEF Gathers
<1>7. v \in Gathers /\ Spreads(x, base, rows, n, v)
  <2> HIDE DEF base
  <2>1. v = Gathered(x, base, rows)
    BY DEF base
  <2> QED BY <1>4, <1>5, <1>6, <2>1, GatheredIs
<1>8. \A e : e \in S <=> \E m \in 1..n : e = rows[m]
  BY <1>3 DEF Range
<1>9. \A e : e \in S <=> e \in Present /\ Touches(e, x.at)
  BY DEF Touches
<1> HIDE DEF S, base, n, x
<1>10. v.todo \in Seq(VisitItems) /\ v.seen \in SUBSET Entities /\ v.edges \in Seq(Edges)
  BY <1>7 DEF Gathers
<1>11. /\ Range(old) \subseteq Range(v.edges)
       /\ \A e \in Range(v.edges) : e \in Range(old) \/ (e \in Present /\ Touches(e, x.at))
  BY <1>6, <1>7, <1>8, <1>9 DEF Spreads, ReadsRows
<1>12. /\ met \subseteq v.seen
       /\ \A w \in v.seen : \/ w \in met
                            \/ \E e \in Present : Touches(e, x.at) /\ w = Beyond(x.at, e)
  BY <1>6, <1>7, <1>8, <1>9 DEF Spreads, MeetsEnds
<1>13. /\ Len(Tail(q)) <= Len(v.todo) /\ \A i \in 1..Len(Tail(q)) : v.todo[i] = Tail(q)[i]
       /\ \A i \in 1..Len(v.todo) : i > Len(Tail(q)) =>
            v.todo[i].depth = x.depth + 1 /\ v.todo[i].at \in v.seen \ met
       /\ \A w \in v.seen \ met : Waits(w, v.todo)
  <2>1. Queues(x, base, v)
    BY <1>7 DEF Spreads
  <2>2. Len(Tail(q)) <= Len(v.todo) /\ \A i \in 1..Len(Tail(q)) : v.todo[i] = Tail(q)[i]
    <3>1. Len(base.todo) <= Len(v.todo) /\ \A i \in 1..Len(base.todo) : v.todo[i] = base.todo[i]
      BY <2>1 DEF Queues
    <3>2. base.todo = Tail(q)
      BY <1>6
    <3> QED BY <3>1, <3>2
  <2>3. \A i \in 1..Len(v.todo) : i > Len(Tail(q)) =>
          v.todo[i].depth = x.depth + 1 /\ v.todo[i].at \in v.seen \ met
    <3>1. \A i \in 1..Len(v.todo) : i > Len(base.todo) =>
            v.todo[i].depth = x.depth + 1 /\ v.todo[i].at \in v.seen \ base.seen
      BY <2>1 DEF Queues
    <3>2. base.todo = Tail(q) /\ base.seen = met
      BY <1>6
    <3> QED BY <3>1, <3>2
  <2>4. \A w \in v.seen \ met : Waits(w, v.todo)
    BY <1>6, <2>1 DEF Queues, Waits
  <2> QED BY <2>2, <2>3, <2>4
<1>14. Len(v.edges) < query.cap =>
         \A e \in Present : Touches(e, x.at) => e \in Range(v.edges) /\ Beyond(x.at, e) \in v.seen
  <2>1. ASSUME Len(v.edges) < query.cap, NEW e \in Present, Touches(e, x.at)
        PROVE  e \in Range(v.edges) /\ Beyond(x.at, e) \in v.seen
    <3>1. PICK m \in 1..n : e = rows[m]
      BY <1>8, <1>9, <2>1
    <3>2. rows[m] \in Range(v.edges) /\ Beyond(x.at, rows[m]) \in v.seen
      BY <1>7, <2>1 DEF Spreads, MissesNone
    <3> QED BY <3>1, <3>2
  <2> QED BY <2>1
<1> QED BY <1>10, <1>11, <1>12, <1>13, <1>14 DEF Visits, x

\* both ends of an edge are within one hop of each other
LEMMA EndsAreBeside ==
    ASSUME NEW g \in SUBSET Edges, NEW n \in 1..MaxDepth, NEW v \in Within(g)[n - 1],
           NEW e \in g, Touches(e, v)
    PROVE  From[e] \in Within(g)[n] /\ To[e] \in Within(g)[n]
<1>1. Within(g)[n] = Beside(Within(g)[n - 1], g)
  BY WithinIs
<1>2. From[e] \in Within(g)[n - 1] \/ To[e] \in Within(g)[n - 1]
  BY DEF Touches
<1> QED BY <1>1, <1>2, BesideIs

LEMMA StaysNear ==
    ASSUME NEW g \in SUBSET Edges, query.depth \in 1..MaxDepth, NEW q, q # <<>>,
           NEW met, NEW old, Near(q, met, old, g), Head(q).depth < query.depth,
           NEW todo, NEW seen, NEW read, Visits(q, met, old, g, todo, seen, read)
    PROVE  Near(todo, seen, read, g)
<1> DEFINE x == q[1]
           h == x.depth
           d == query.depth
           W(n) == Within(g)[n]
<1>1. q \in Seq(VisitItems) /\ Head(q) = x /\ x \in VisitItems /\ 1 \in 1..Len(q)
  BY TailIs DEF Near
<1>2. x.at \in met /\ h \in 0..d /\ x.at \in W(h) /\ h < d /\ d \in 1..MaxDepth
  BY <1>1 DEF Near
<1>3. /\ h + 1 \in 1..MaxDepth /\ h + 1 \in 0..d /\ h \in 0..d - 1 /\ h + 1 - 1 = h
      /\ d \in 0..MaxDepth /\ d - 1 \in 0..MaxDepth
  BY <1>2, BoundsAssumption
<1>4. W(h + 1) \subseteq W(d) /\ W(h) \subseteq W(d - 1)
  BY <1>3, WithinGrows
<1>5. \A e \in g : Touches(e, x.at) => From[e] \in W(h + 1) /\ To[e] \in W(h + 1)
  BY <1>2, <1>3, EndsAreBeside
<1> HIDE DEF h, W, x, d
<1>6. \A e \in g : Touches(e, x.at) => Beyond(x.at, e) \in W(h + 1)
  BY <1>5 DEF Beyond
<1>7. seen \subseteq W(d)
  <2>1. met \subseteq W(d)
    BY DEF Near, W, d
  <2>2. \A w \in seen : w \in met \/ \E e \in g : Touches(e, x.at) /\ w = Beyond(x.at, e)
    BY <1>1 DEF Visits
  <2> QED BY <2>1, <2>2, <1>4, <1>6
<1>8. Range(read) \subseteq Touching(W(d - 1), g)
  <2>1. Range(old) \subseteq Touching(W(d - 1), g)
    BY DEF Near, W, d
  <2>2. \A e \in Range(read) : e \in Range(old) \/ (e \in g /\ Touches(e, x.at))
    BY <1>1 DEF Visits
  <2>3. x.at \in W(d - 1)
    BY <1>2, <1>4
  <2>4. \A e \in g : Touches(e, x.at) => e \in Touching(W(d - 1), g)
    BY <2>3 DEF Touching, Touches
  <2> QED BY <2>1, <2>2, <2>4
<1>9. ASSUME NEW i \in 1..Len(todo)
      PROVE  todo[i].at \in seen /\ todo[i].depth \in 0..d /\ todo[i].at \in W(todo[i].depth)
  <2>1. /\ Len(Tail(q)) \in Nat /\ Len(todo) \in Nat
        /\ \A j \in 1..Len(Tail(q)) : Tail(q)[j] = q[j + 1] /\ j + 1 \in 1..Len(q)
    BY <1>1, TailIs DEF Visits
  <2>2. CASE i <= Len(Tail(q))
    <3>1. i \in 1..Len(Tail(q))
      BY <2>1, <2>2
    <3>2. todo[i] = q[i + 1] /\ i + 1 \in 1..Len(q)
      BY <2>1, <3>1 DEF Visits
    <3>3. q[i + 1].at \in met /\ q[i + 1].depth \in 0..d /\ q[i + 1].at \in W(q[i + 1].depth)
      BY <3>2 DEF Near, W, d
    <3> QED BY <3>2, <3>3 DEF Visits
  <2>3. CASE i > Len(Tail(q))
    <3>1. todo[i].depth = h + 1 /\ todo[i].at \in seen \ met
      BY <1>1, <2>3 DEF Visits, h
    <3>2. PICK e \in g : Touches(e, x.at) /\ todo[i].at = Beyond(x.at, e)
      BY <1>1, <3>1 DEF Visits
    <3> QED BY <3>1, <3>2, <1>3, <1>6
  <2> QED BY <2>1, <2>2, <2>3
<1>10. /\ todo \in Seq(VisitItems) /\ seen \in SUBSET Entities /\ read \in Seq(Edges)
       /\ query.start \in seen
  BY DEF Visits, Near
<1> QED BY <1>7, <1>8, <1>9, <1>10 DEF Near, W, d

LEMMA VisitsStayInTurn ==
    ASSUME NEW q \in Seq(VisitItems), q # <<>>, VisitsInTurn(q),
           NEW g, NEW met, NEW old, NEW todo, NEW seen, NEW read,
           Visits(q, met, old, g, todo, seen, read)
    PROVE  /\ VisitsInTurn(todo)
           /\ \A i \in 1..Len(todo) : Head(q).depth <= todo[i].depth
<1> DEFINE h == q[1].depth
           n == Len(Tail(q))
           L(i) == todo[i].depth
<1>1. /\ Head(q) = q[1] /\ 1 \in 1..Len(q) /\ Len(q) \in Nat /\ n \in Nat /\ n = Len(q) - 1
      /\ \A j \in 1..n : Tail(q)[j] = q[j + 1] /\ j + 1 \in 1..Len(q) /\ j + 1 > 1
  BY TailIs
<1>2. todo \in Seq(VisitItems) /\ Len(todo) \in Nat
  BY DEF Visits
<1>3. /\ \A i \in 1..Len(q) : q[i].depth \in Nat
      /\ \A i \in 1..Len(todo) : L(i) \in Nat
  <2>1. /\ \A i \in 1..Len(q) : q[i] \in VisitItems
        /\ \A i \in 1..Len(todo) : todo[i] \in VisitItems
    BY <1>2
  <2> QED BY <2>1 DEF VisitItems
<1>4. \A i \in 1..Len(todo) : i <= n => L(i) = q[i + 1].depth /\ i + 1 \in 1..Len(q)
  <2>1. \A i \in 1..Len(todo) : i <= n => i \in 1..n
    BY <1>1, <1>2
  <2> QED BY <1>1, <2>1 DEF Visits
<1>5. \A i \in 1..Len(todo) : i > n => L(i) = h + 1
  BY <1>1 DEF Visits
<1>6. \A i \in 1..Len(q) : q[i].depth \in h..h + 1
  <2>1. \A i \in 1..Len(q) : i = 1 \/ 1 < i
    BY <1>1
  <2> QED BY <1>1, <1>3, <2>1 DEF VisitsInTurn
<1>7. \A i, j \in 1..Len(q) : i < j => q[i].depth <= q[j].depth
  BY DEF VisitsInTurn
<1> HIDE DEF h, n, L
<1>8. h \in Nat
  BY <1>1, <1>3 DEF h
<1>9. \A i \in 1..Len(todo) : L(i) \in h..h + 1
  BY <1>1, <1>2, <1>4, <1>5, <1>6, <1>8
<1>10. ASSUME NEW i \in 1..Len(todo), NEW j \in 1..Len(todo), i < j PROVE L(i) <= L(j)
  <2>1. CASE j <= n
    <3>1. i <= n /\ i + 1 < j + 1
      BY <1>1, <1>2, <1>10, <2>1
    <3> QED BY <1>4, <1>7, <2>1, <3>1
  <2>2. CASE j > n
    <3>1. L(j) = h + 1
      BY <1>5, <2>2
    <3> QED BY <1>8, <1>9, <3>1
  <2> QED BY <1>1, <1>2, <2>1, <2>2
<1>11. \A i, j \in 1..Len(todo) : L(j) <= L(i) + 1
  BY <1>3, <1>8, <1>9
<1>12. \A i \in 1..Len(todo) : h <= L(i)
  BY <1>8, <1>9
<1> QED BY <1>1, <1>10, <1>11, <1>12 DEF VisitsInTurn, L, h

-----------------------------------------------------------------------------
\* what is met in a step is one hop further off than the item that led there
LEMMA DistancesGoOn ==
    ASSUME NEW g \in SUBSET Edges, NEW b \in SUBSET g, query.cap \in Nat, query.depth \in Nat,
           NEW q, q # <<>>, NEW met, NEW old, Near(q, met, old, g), VisitsInTurn(q),
           NEW todo, NEW seen, NEW read, Visits(q, met, old, g, todo, seen, read),
           Len(read) < query.cap, NEW dist, Measures(dist, q, met, old, b)
    PROVE  LET far == [v \in seen |-> IF v \in met THEN dist[v] ELSE Head(q).depth + 1]
           IN Measures(far, todo, seen, read, b)
<1> DEFINE x == q[1]
           h == x.depth
           n == Len(Tail(q))
           far == [v \in seen |-> IF v \in met THEN dist[v] ELSE h + 1]
<1>1. /\ q \in Seq(VisitItems) /\ Head(q) = x /\ x \in VisitItems /\ 1 \in 1..Len(q)
      /\ n \in Nat /\ n = Len(q) - 1 /\ Len(q) \in Nat
      /\ \A j \in 1..n : Tail(q)[j] = q[j + 1] /\ j + 1 \in 1..Len(q)
  BY TailIs DEF Near
<1>2. h \in Nat /\ x.at \in met /\ x.at \in Entities /\ query.start \in met /\ met \in SUBSET Entities
  BY <1>1 DEF VisitItems, Near
<1>3. /\ todo \in Seq(VisitItems) /\ Len(todo) \in Nat /\ met \subseteq seen
      /\ Range(old) \subseteq Range(read) /\ seen \in SUBSET Entities
      /\ \A w \in seen : w \in met \/ \E e \in g : Touches(e, x.at) /\ w = Beyond(x.at, e)
      /\ n <= Len(todo) /\ \A i \in 1..n : todo[i] = Tail(q)[i]
      /\ \A i \in 1..Len(todo) : i > n => todo[i].depth = h + 1 /\ todo[i].at \in seen \ met
      /\ \A w \in seen \ met : Waits(w, todo)
      /\ \A e \in g : Touches(e, x.at) => e \in Range(read) /\ Beyond(x.at, e) \in seen
  BY <1>1 DEF Visits
<1>4. /\ dist \in [met -> Nat] /\ dist[query.start] = 0
      /\ \A i \in 1..Len(q) : dist[q[i].at] = q[i].depth
      /\ \A v \in met : ~Waits(v, q) =>
           /\ \A i \in 1..Len(q) : dist[v] <= q[i].depth
           /\ Explored(v, dist, met, old, b)
  BY DEF Measures
<1>5. \A i \in 1..Len(q) : q[i].at \in met /\ q[i].depth \in Nat /\ h <= q[i].depth /\ q[i].depth <= h + 1
  <2>1. \A i \in 1..Len(q) : i = 1 \/ 1 < i
    BY <1>1
  <2>2. \A i \in 1..Len(q) : q[i] \in VisitItems
    BY <1>1
  <2>3. \A i \in 1..Len(q) : q[i].at \in met /\ q[i].depth \in Nat
    BY <2>2 DEF VisitItems, Near
  <2> QED BY <1>1, <1>2, <2>1, <2>3 DEF VisitsInTurn
<1> HIDE DEF x, h, n
<1>6. \A i \in 1..Len(todo) : i <= n => todo[i] = q[i + 1] /\ i + 1 \in 1..Len(q)
  <2>1. \A i \in 1..Len(todo) : i <= n => i \in 1..n
    BY <1>1, <1>3
  <2> QED BY <1>1, <1>3, <2>1
<1>7. far \in [seen -> Nat] /\ \A v \in met : far[v] = dist[v]
  BY <1>2, <1>3, <1>4
<1>8. \A v \in seen : v \notin met => far[v] = h + 1
  OBVIOUS
<1>9. \A v \in met : dist[v] <= h + 1
  <2>1. ASSUME NEW v \in met PROVE dist[v] <= h + 1
    <3>1. CASE Waits(v, q)
      BY <1>4, <1>5, <3>1 DEF Waits
    <3>2. CASE ~Waits(v, q)
      <4>1. dist[v] <= q[1].depth
        BY <1>1, <1>4, <3>2
      <4>2. dist[v] \in Nat /\ q[1].depth = h
        BY <1>4 DEF h, x
      <4> QED BY <1>2, <4>1, <4>2
    <3> QED BY <3>1, <3>2
  <2> QED BY <2>1
<1> HIDE DEF far
<1>10. \A v \in seen : far[v] \in Nat /\ far[v] <= h + 1
  BY <1>2, <1>7, <1>8, <1>9
<1>11. ASSUME NEW i \in 1..Len(todo)
       PROVE  far[todo[i].at] = todo[i].depth /\ h <= todo[i].depth /\ todo[i].depth \in Nat
  <2>1. CASE i <= n
    <3>1. todo[i] = q[i + 1] /\ i + 1 \in 1..Len(q)
      BY <1>6, <2>1
    <3> QED BY <1>4, <1>5, <1>7, <3>1
  <2>2. CASE i > n
    <3>1. todo[i].depth = h + 1 /\ todo[i].at \in seen \ met
      BY <1>3, <2>2
    <3> QED BY <1>2, <1>8, <3>1
  <2> QED BY <1>1, <2>1, <2>2
\* the entity that was taken from the queue
<1>12. dist[x.at] = h
  BY <1>1, <1>4 DEF x, h
<1>13. Explored(x.at, far, seen, read, b)
  <2>1. ASSUME NEW e \in b, Touches(e, x.at)
        PROVE  e \in Range(read) /\ From[e] \in seen /\ To[e] \in seen
    <3>1. e \in g /\ e \in Range(read) /\ Beyond(x.at, e) \in seen /\ x.at \in seen
      BY <1>2, <1>3, <2>1
    <3>2. From[e] \in {x.at, Beyond(x.at, e)} /\ To[e] \in {x.at, Beyond(x.at, e)}
      BY <2>1 DEF Touches, Beyond
    <3> QED BY <3>1, <3>2
  <2>2. far[x.at] = h
    BY <1>2, <1>7, <1>12
  <2> QED BY <1>10, <2>1, <2>2 DEF Explored
\* and one that left it before
<1>14. ASSUME NEW v \in met, ~Waits(v, q) PROVE far[v] <= h /\ Explored(v, far, seen, read, b)
  <2>1. dist[v] <= q[1].depth /\ Explored(v, dist, met, old, b)
    BY <1>1, <1>4, <1>14
  <2>2. far[v] = dist[v] /\ far[v] <= h
    BY <1>7, <2>1 DEF h, x
  <2>3. ASSUME far[v] < query.depth, NEW e \in b, Touches(e, v)
        PROVE  /\ e \in Range(read) /\ From[e] \in seen /\ To[e] \in seen
               /\ far[From[e]] <= far[v] + 1 /\ far[To[e]] <= far[v] + 1
    <3>1. /\ e \in Range(old) /\ From[e] \in met /\ To[e] \in met
          /\ dist[From[e]] <= dist[v] + 1 /\ dist[To[e]] <= dist[v] + 1
      BY <2>1, <2>2, <2>3 DEF Explored
    <3> QED BY <1>3, <1>7, <2>2, <3>1
  <2> QED BY <2>2, <2>3 DEF Explored
<1>15. ASSUME NEW v \in seen, ~Waits(v, todo)
       PROVE  far[v] <= h /\ Explored(v, far, seen, read, b)
  <2>1. v \in met
    BY <1>3, <1>15
  <2>2. CASE v = x.at
    BY <1>2, <1>7, <1>12, <1>13, <2>2
  <2>3. CASE v # x.at
    <3>1. ~Waits(v, q)
      <4>1. SUFFICES ASSUME NEW i \in 1..Len(q), q[i].at = v PROVE FALSE
        BY DEF Waits
      <4>2. i # 1
        BY <2>3, <4>1 DEF x
      <4>3. i - 1 \in 1..Len(todo) /\ todo[i - 1] = q[i]
        <5>1. i - 1 \in 1..n /\ i - 1 + 1 = i
          BY <1>1, <4>2
        <5>2. i - 1 \in 1..Len(todo)
          BY <1>1, <1>3, <5>1
        <5> QED BY <1>1, <1>3, <5>1, <5>2
      <4> QED BY <1>15, <4>1, <4>3 DEF Waits
    <3> QED BY <1>14, <2>1, <3>1
  <2> QED BY <2>2, <2>3
<1>16. \A v \in seen : ~Waits(v, todo) =>
         /\ \A i \in 1..Len(todo) : far[v] <= todo[i].depth
         /\ Explored(v, far, seen, read, b)
  <2>1. ASSUME NEW v \in seen, ~Waits(v, todo), NEW i \in 1..Len(todo)
        PROVE  far[v] <= todo[i].depth
    BY <1>2, <1>10, <1>11, <1>15, <2>1
  <2> QED BY <1>15, <2>1
<1>17. far[query.start] = 0
  BY <1>2, <1>4, <1>7
<1>18. Measures(far, todo, seen, read, b)
  BY <1>7, <1>11, <1>16, <1>17 DEF Measures
<1>19. far = [v \in seen |-> IF v \in met THEN dist[v] ELSE Head(q).depth + 1]
  BY <1>1 DEF far, h
<1> QED BY <1>18, <1>19

LEMMA NoneGetsMissed ==
    ASSUME NEW g \in SUBSET Edges, NEW b \in SUBSET g, query.cap \in Nat, query.depth \in Nat,
           NEW q, q # <<>>, NEW met, NEW old, Near(q, met, old, g), VisitsInTurn(q),
           NEW todo, NEW seen, NEW read, Visits(q, met, old, g, todo, seen, read),
           Len(old) < query.cap, NoneIsMissed(q, met, old, b)
    PROVE  NoneIsMissed(todo, seen, read, b)
<1>1. SUFFICES ASSUME Len(read) < query.cap
               PROVE  EndsMet(seen, read) /\ \E dist : Measures(dist, todo, seen, read, b)
  BY DEF NoneIsMissed
<1>2. EndsMet(met, old) /\ \E dist : Measures(dist, q, met, old, b)
  BY DEF NoneIsMissed
<1>3. EndsMet(seen, read)
  <2>1. Head(q).at \in met
    BY TailIs DEF Near
  <2>2. ASSUME NEW e \in Range(read) PROVE From[e] \in seen /\ To[e] \in seen
    <3>1. CASE e \in Range(old)
      BY <1>2, <3>1 DEF EndsMet, Visits
    <3>2. CASE e \in g /\ Touches(e, Head(q).at)
      <4>1. Beyond(Head(q).at, e) \in seen /\ Head(q).at \in seen
        BY <1>1, <2>1, <3>2 DEF Visits
      <4> QED BY <3>2, <4>1 DEF Touches, Beyond
    <3> QED BY <3>1, <3>2 DEF Visits
  <2> QED BY <2>2 DEF EndsMet
<1>4. PICK dist : Measures(dist, q, met, old, b)
  BY <1>2
<1> DEFINE far == [v \in seen |-> IF v \in met THEN dist[v] ELSE Head(q).depth + 1]
<1>5. Measures(far, todo, seen, read, b)
  BY <1>1, <1>4, DistancesGoOn
<1> HIDE DEF far
<1> QED BY <1>3, <1>5

\* an empty queue: all within reach is met, and every edge on the way is read
LEMMA AllIsMet ==
    ASSUME NEW b \in SUBSET Edges, query.depth \in 1..MaxDepth, NEW seen, NEW read,
           query.start \in seen, NEW dist, Measures(dist, <<>>, seen, read, b)
    PROVE  /\ Within(b)[query.depth] \subseteq seen
           /\ Touching(Within(b)[query.depth - 1], b) \subseteq Range(read)
<1> DEFINE d == query.depth
           W(n) == Within(b)[n]
           T == {n \in Nat : n <= d => \A v \in W(n) : v \in seen /\ dist[v] <= n}
<1>1. /\ dist \in [seen -> Nat] /\ dist[query.start] = 0
      /\ \A v \in seen : Explored(v, dist, seen, read, b)
  BY DEF Measures, Waits
<1>2. W(0) = {query.start} /\ \A n \in 1..d : W(n) = Beside(W(n - 1), b)
  BY WithinIs, BoundsAssumption
<1>3. d \in Nat \ {0}
  BY BoundsAssumption
<1> HIDE DEF W, d
<1>4. 0 \in T
  BY <1>1, <1>2
<1>5. ASSUME NEW n \in Nat, n \in T PROVE n + 1 \in T
  <2>1. SUFFICES ASSUME n + 1 <= d, NEW v \in W(n + 1) PROVE v \in seen /\ dist[v] <= n + 1
    OBVIOUS
  <2>2. n <= d /\ n < d /\ n + 1 \in 1..d /\ n + 1 - 1 = n
    BY <1>3, <2>1
  <2>3. \A u \in W(n) : u \in seen /\ dist[u] \in Nat /\ dist[u] <= n
    BY <1>1, <1>5, <2>2
  <2>4. \/ v \in W(n)
        \/ \E e \in b : (From[e] \in W(n) \/ To[e] \in W(n)) /\ (v = From[e] \/ v = To[e])
    <3>1. W(n + 1) = Beside(W(n), b)
      BY <1>2, <2>2
    <3>2. v \in Beside(W(n), b)
      BY <2>1, <3>1
    <3> QED BY <3>2, BesideIs
  <2>5. CASE v \in W(n)
    BY <2>3, <2>5
  <2>6. CASE v \notin W(n)
    <3>1. PICK e \in b : (From[e] \in W(n) \/ To[e] \in W(n)) /\ (v = From[e] \/ v = To[e])
      BY <2>4, <2>6
    <3>2. PICK u \in W(n) : Touches(e, u)
      BY <3>1 DEF Touches
    <3>3. u \in seen /\ dist[u] \in Nat /\ dist[u] <= n /\ dist[u] < d
      BY <1>3, <2>2, <2>3
    <3>4. /\ From[e] \in seen /\ To[e] \in seen
          /\ dist[From[e]] <= dist[u] + 1 /\ dist[To[e]] <= dist[u] + 1
      BY <1>1, <3>2, <3>3 DEF Explored, d
    <3>5. dist[From[e]] \in Nat /\ dist[To[e]] \in Nat
      BY <1>1, <3>4
    <3> QED BY <3>1, <3>3, <3>4, <3>5
  <2> QED BY <2>5, <2>6
<1>6. \A n \in Nat : n \in T
  <2> HIDE DEF T
  <2> QED BY <1>4, <1>5, Induction
<1>7. \A n \in 0..d : \A v \in W(n) : v \in seen /\ dist[v] <= n
  BY <1>6
<1>8. W(d) \subseteq seen
  BY <1>3, <1>7
<1>9. ASSUME NEW e \in Touching(W(d - 1), b) PROVE e \in Range(read)
  <2>1. e \in b
    BY DEF Touching
  <2>2. PICK v \in W(d - 1) : Touches(e, v)
    BY DEF Touching, Touches
  <2>3. v \in seen /\ dist[v] < d
    <3>1. d - 1 \in 0..d
      BY <1>3
    <3>2. v \in seen /\ dist[v] <= d - 1
      BY <1>7, <2>2, <3>1
    <3> QED BY <1>1, <1>3, <3>2
  <2> QED BY <1>1, <2>1, <2>2, <2>3 DEF Explored, d
<1> QED BY <1>8, <1>9 DEF W, d

-----------------------------------------------------------------------------
(* The invariant of a query and the graph under it.                          *)

\* the entities and edges that neighbours hands to its last SELECT
Reaches ==
  LET d == query.depth
  IN /\ visited \subseteq Within(Present)[d]
     /\ Range(collected) \subseteq Touching(Within(Present)[d - 1], Present)
     /\ ~truncated =>
          /\ EndsMet(visited, collected)
          /\ Within(before)[d] \subseteq visited
          /\ Touching(Within(before)[d - 1], before) \subseteq Range(collected)
\* and the edges that the two other queries do
Wanted(g) == {e \in g : query.op = "finding" => Backing[e] \in query.cites}
Draws ==
  /\ Range(collected) \subseteq Present
  /\ truncated => Len(collected) = query.cap
  /\ ~truncated => Wanted(before) \subseteq Range(collected)

NeighboursGoOn ==
  /\ paths = <<>>
  /\ Near(queue, visited, collected, Present) /\ VisitsInTurn(queue)
  /\ NoneIsMissed(queue, visited, collected, before)
PathsGoAhead ==
  /\ collected = <<>>
  /\ Follows(queue, paths, Present) /\ NoneIsLost(queue, paths, before)

GraphIs ==
  /\ born \in [Edges -> 0..Commits] /\ deleted \in BOOLEAN
  /\ EndsOf(Present) \subseteq nodes
QueryGoesOn ==
  /\ phase \in {"idle", "search", "entities", "done"}
  /\ phase = "idle" => collected = <<>> /\ paths = <<>>
  /\ phase # "idle" => query \in Queries
  /\ phase # "idle" /\ ~deleted => before \subseteq Present
SearchGoesOn ==
  phase = "search" /\ ~deleted =>
    /\ query.op = "neighbours" => NeighboursGoOn
    /\ query.op = "paths" => PathsGoAhead
AnswerGoesOn ==
  phase = "entities" /\ ~deleted =>
    /\ query.op # "paths"
    /\ query.op = "neighbours" => Reaches
    /\ query.op \in {"full", "finding"} => Draws
GraphInv == GraphIs /\ QueryGoesOn /\ SearchGoesOn /\ AnswerGoesOn /\ AnswersAreComplete

-----------------------------------------------------------------------------
(* What is said of a query stays so while the query does.                    *)

\* the definitions without their variables
Reach(s, g) ==
  CHOOSE w : w = [n \in 0..MaxDepth |-> IF n = 0 THEN {s} ELSE Beside(w[n - 1], g)]

LEMMA WithinKept ==
    ASSUME query' = query, NEW g
    PROVE  /\ Present' = g => Within(Present)' = Within(g)
           /\ before' = g => Within(before)' = Within(g)
<1>1. /\ Within(Present)' = Reach(query'.start, Present')
      /\ Within(before)' = Reach(query'.start, before')
  BY DEF Within, Reach
<1>2. Within(g) = Reach(query.start, g)
  BY DEF Within, Reach
<1> QED BY <1>1, <1>2

LEMMA NearKept ==
    ASSUME query' = query, NEW q, NEW seen, NEW read, NEW g, Near(q, seen, read, g),
           queue' = q, visited' = seen, collected' = read, Present' = g
    PROVE  Near(queue, visited, collected, Present)'
<1>1. Within(Present)' = Within(g)
  BY WithinKept
<1> QED BY <1>1 DEF Near, Touching

LEMMA MissedKept ==
    ASSUME query' = query, NEW q, NEW seen, NEW read, NEW b, NoneIsMissed(q, seen, read, b),
           queue' = q, visited' = seen, collected' = read, before' = b
    PROVE  NoneIsMissed(queue, visited, collected, before)'
BY DEF NoneIsMissed, Measures, Explored, EndsMet, Waits, Touches

LEMMA FollowsKept ==
    ASSUME query' = query, NEW q, NEW r, NEW g, Follows(q, r, g),
           queue' = q, paths' = r, Present' = g
    PROVE  Follows(queue, paths, Present)'
<1>1. PathsFound(paths, Present)'
  BY DEF Follows, PathsFound, PathsIn, IsPath
<1>2. TrailsLead(queue, Present)'
  <2>1. ASSUME NEW i \in 1..Len(q)
        PROVE  /\ q[i].trail \in Seq(g)
               /\ \A j \in 1..Len(q[i].trail) : From[q[i].trail[j]] = Met(q[i].trail, j - 1)'
               /\ \A j, k \in 0..Len(q[i].trail) :
                    j # k => Met(q[i].trail, j)' # Met(q[i].trail, k)'
               /\ \A j \in 0..Len(q[i].trail) : Met(q[i].trail, j)' # query'.target
               /\ q[i].at = Met(q[i].trail, Len(q[i].trail))'
    <3>1. Walk(q[i].trail, g) /\ Open(q[i].trail) /\ q[i].at = Met(q[i].trail, Len(q[i].trail))
      BY DEF Follows, TrailsLead
    <3>2. \A p, k : Met(p, k)' = Met(p, k)
      BY DEF Met
    <3> QED BY <3>1, <3>2 DEF Walk, Open
  <2> QED BY <2>1 DEF TrailsLead, Walk, Open, Met
<1> QED BY <1>1, <1>2 DEF Follows, TrailsDiffer, TrailsInTurn, PathsDiffer, PathsInTurn, PathsAreAhead

LEMMA PathsKept ==
    ASSUME query' = query, NEW g
    PROVE  /\ Present' = g => PathsIn(Present, query.depth)' = PathsIn(g, query.depth)
           /\ before' = g => PathsIn(before, query.depth)' = PathsIn(g, query.depth)
<1>1. ASSUME Present' = g PROVE PathsIn(Present, query.depth)' = PathsIn(g, query.depth)
  BY <1>1 DEF PathsIn, IsPath
<1>2. ASSUME before' = g PROVE PathsIn(before, query.depth)' = PathsIn(g, query.depth)
  BY <1>2 DEF PathsIn, IsPath
<1> QED BY <1>1, <1>2

LEMMA LostKept ==
    ASSUME query' = query, NEW q, NEW r, NEW b, NoneIsLost(q, r, b),
           queue' = q, paths' = r, before' = b
    PROVE  NoneIsLost(queue, paths, before)'
<1>1. PathsIn(before, query.depth)' = PathsIn(b, query.depth)
  BY PathsKept
<1> QED BY <1>1 DEF NoneIsLost, Begins

-----------------------------------------------------------------------------
LEMMA RowsAre ==
    ASSUME GraphIs
    PROVE  Present \in SUBSET Edges /\ IsFiniteSet(Present)
<1>1. Present \in SUBSET Edges
  BY DEF Present
<1> QED BY <1>1, EndsAssumption, FS_Subset

\* a graph that grows takes nothing out of reach
LEMMA NearGrows ==
    ASSUME NEW g \in SUBSET Edges, NEW h \in SUBSET Edges, g \subseteq h,
           query.depth \in 1..MaxDepth, NEW q, NEW seen, NEW read, Near(q, seen, read, g)
    PROVE  Near(q, seen, read, h)
<1>1. query.depth \in 0..MaxDepth /\ query.depth - 1 \in 0..MaxDepth
  BY BoundsAssumption
<1>2. \A n \in 0..MaxDepth : Within(g)[n] \subseteq Within(h)[n]
  BY WithinGrows
<1>3. \A n \in 0..query.depth : n \in 0..MaxDepth
  BY BoundsAssumption
<1>4. Touching(Within(g)[query.depth - 1], g) \subseteq Touching(Within(h)[query.depth - 1], h)
  BY <1>1, <1>2 DEF Touching
<1> QED BY <1>1, <1>2, <1>3, <1>4 DEF Near

\* an entity at the depth bound leaves the queue and is not missed
LEMMA DeepVisitGoes ==
    ASSUME NEW g, NEW b, query.depth \in Nat, NEW q, q # <<>>, NEW met, NEW old,
           Near(q, met, old, g), VisitsInTurn(q), Head(q).depth >= query.depth
    PROVE  /\ Near(Tail(q), met, old, g) /\ VisitsInTurn(Tail(q))
           /\ NoneIsMissed(q, met, old, b) => NoneIsMissed(Tail(q), met, old, b)
<1> DEFINE x == q[1]
           t == Tail(q)
<1>1. /\ Head(q) = x /\ 1 \in 1..Len(q) /\ Len(q) \in Nat
      /\ t \in Seq(VisitItems) /\ Len(t) = Len(q) - 1 /\ Len(t) \in Nat
      /\ \A i \in 1..Len(t) : t[i] = q[i + 1] /\ i + 1 \in 1..Len(q) /\ 1 < i + 1
  BY TailIs DEF Near
<1>2. \A i \in 1..Len(q) : i # 1 => i - 1 \in 1..Len(t) /\ t[i - 1] = q[i]
  <2>1. ASSUME NEW i \in 1..Len(q), i # 1 PROVE i - 1 \in 1..Len(t) /\ t[i - 1] = q[i]
    <3>1. i - 1 \in 1..Len(t) /\ i - 1 + 1 = i
      BY <1>1, <2>1
    <3> QED BY <1>1, <3>1
  <2> QED BY <2>1
<1> HIDE DEF t
<1>3. Near(t, met, old, g)
  BY <1>1 DEF Near
<1>4. VisitsInTurn(t)
  <2>1. ASSUME NEW i \in 1..Len(t), NEW j \in 1..Len(t)
        PROVE  (i < j => t[i].depth <= t[j].depth) /\ t[j].depth <= t[i].depth + 1
    <3>1. i + 1 \in 1..Len(q) /\ j + 1 \in 1..Len(q) /\ (i < j => i + 1 < j + 1)
      BY <1>1
    <3> QED BY <1>1, <3>1 DEF VisitsInTurn
  <2> QED BY <2>1 DEF VisitsInTurn
<1>5. ASSUME NEW dist, Measures(dist, q, met, old, b) PROVE Measures(dist, t, met, old, b)
  <2>1. /\ dist \in [met -> Nat] /\ dist[query.start] = 0
        /\ \A i \in 1..Len(q) : dist[q[i].at] = q[i].depth
        /\ \A v \in met : ~Waits(v, q) =>
             /\ \A i \in 1..Len(q) : dist[v] <= q[i].depth
             /\ Explored(v, dist, met, old, b)
    BY <1>5 DEF Measures
  <2>2. \A i \in 1..Len(t) : dist[t[i].at] = t[i].depth
    BY <1>1, <2>1
  <2>3. ASSUME NEW v \in met, ~Waits(v, t)
        PROVE  (\A i \in 1..Len(t) : dist[v] <= t[i].depth) /\ Explored(v, dist, met, old, b)
    <3>1. CASE Waits(v, q)
      <4>1. PICK i \in 1..Len(q) : q[i].at = v
        BY <3>1 DEF Waits
      <4>2. i = 1
        BY <1>2, <2>3, <4>1 DEF Waits
      <4>3. dist[v] = x.depth /\ dist[v] \in Nat
        BY <1>1, <2>1, <4>1, <4>2
      <4>4. \A j \in 1..Len(t) : dist[v] <= t[j].depth
        BY <1>1, <4>3 DEF VisitsInTurn
      <4>5. ~(dist[v] < query.depth)
        BY <1>1, <4>3
      <4> QED BY <4>4, <4>5 DEF Explored
    <3>2. CASE ~Waits(v, q)
      BY <1>1, <2>1, <3>2
    <3> QED BY <3>1, <3>2
  <2> QED BY <2>1, <2>2, <2>3 DEF Measures
<1>6. NoneIsMissed(q, met, old, b) => NoneIsMissed(t, met, old, b)
  BY <1>5 DEF NoneIsMissed
<1> QED BY <1>3, <1>4, <1>6 DEF t

-----------------------------------------------------------------------------
\* a query that has just been asked
Asked ==
  /\ query \in Queries /\ phase = "search" /\ collected = <<>> /\ paths = <<>>
  /\ before = Present
  /\ query.op = "neighbours" =>
       queue = <<[at |-> query.start, depth |-> 0]>> /\ visited = {query.start}
  /\ query.op = "paths" =>
       queue = IF query.start # query.target
               THEN <<[at |-> query.start, trail |-> <<>>]>> ELSE <<>>

LEMMA NeighboursBegin ==
    ASSUME GraphIs, Asked, query.op = "neighbours"
    PROVE  NeighboursGoOn
<1> DEFINE s == query.start
           d == query.depth
           x == [at |-> s, depth |-> 0]
           dist == [v \in {s} |-> 0]
<1>1. d \in 1..MaxDepth /\ s \in Entities /\ query.cap \in Nat \ {0} /\ MaxDepth \in Nat
  BY QueryIs, BoundsAssumption DEF Asked
<1>2. queue = <<x>> /\ visited = {s} /\ collected = <<>> /\ paths = <<>> /\ before = Present
  BY DEF Asked
<1>3. queue \in Seq(VisitItems) /\ Len(queue) = 1 /\ queue[1] = x /\ 1..Len(queue) = {1}
  BY <1>1, <1>2 DEF VisitItems
<1>4. Within(Present)[0] = {s} /\ 0 \in 0..d /\ d \in 0..MaxDepth /\ 0 \in Nat
  BY <1>1, WithinIs
<1>5. s \in Within(Present)[d]
  BY <1>4, RowsAre, WithinGrows
<1>6. Range(collected) = {} /\ collected \in Seq(Edges) /\ Len(collected) = 0
  BY <1>2 DEF Range
<1>7. Near(queue, visited, collected, Present)
  BY <1>1, <1>2, <1>3, <1>4, <1>5, <1>6 DEF Near
<1>8. VisitsInTurn(queue)
  BY <1>3 DEF VisitsInTurn
<1>9. Measures(dist, queue, visited, collected, before)
  BY <1>2, <1>3 DEF Measures, Waits
<1>10. NoneIsMissed(queue, visited, collected, before)
  BY <1>6, <1>9 DEF NoneIsMissed, EndsMet
<1> QED BY <1>2, <1>7, <1>8, <1>10 DEF NeighboursGoOn

LEMMA PathsBegin ==
    ASSUME GraphIs, Asked, query.op = "paths"
    PROVE  PathsGoAhead
<1> DEFINE s == query.start
           x == [at |-> s, trail |-> <<>>]
<1>1. query.depth \in Nat /\ s \in Entities /\ MaxDepth \in Nat
  BY QueryIs, BoundsAssumption DEF Asked
<1>2. collected = <<>> /\ paths = <<>> /\ before = Present /\ paths \in Seq(Seq(Edges))
      /\ Len(paths) = 0 /\ 1..Len(paths) = {}
  BY DEF Asked
<1>3. PathsFound(paths, Present) /\ PathsDiffer(paths) /\ PathsInTurn(paths)
      /\ PathsAreAhead(queue, paths)
  BY <1>2 DEF PathsFound, PathsDiffer, PathsInTurn, PathsAreAhead
<1>4. CASE s = query.target
  <2>1. queue = <<>> /\ queue \in Seq(TrailItems) /\ Len(queue) = 0 /\ 1..Len(queue) = {}
    BY <1>4 DEF Asked
  <2>2. TrailsLead(queue, Present) /\ TrailsDiffer(queue) /\ TrailsInTurn(queue)
    BY <2>1 DEF TrailsLead, TrailsDiffer, TrailsInTurn
  <2>3. ASSUME NEW p \in PathsIn(before, query.depth) PROVE FALSE
    <3>1. Walk(p, before) /\ Len(p) \in 1..query.depth /\ Met(p, Len(p)) = query.target
      BY <1>1, PathIs
    <3>2. 0 \in 0..Len(p) /\ Len(p) \in 0..Len(p) /\ Len(p) # 0
      BY <1>1, <3>1
    <3>3. Met(p, 0) # Met(p, Len(p))
      BY <3>1, <3>2 DEF Walk
    <3> QED BY <1>4, <3>1, <3>3 DEF Met
  <2>4. NoneIsLost(queue, paths, before)
    BY <2>3 DEF NoneIsLost
  <2> QED BY <1>2, <1>3, <2>1, <2>2, <2>4 DEF PathsGoAhead, Follows
<1>5. CASE s # query.target
  <2>1. queue = <<x>>
    BY <1>5 DEF Asked
  <2>2. /\ queue \in Seq(TrailItems) /\ Len(queue) = 1 /\ queue[1] = x /\ 1..Len(queue) = {1}
        /\ x.trail = <<>> /\ Len(x.trail) = 0 /\ 1..Len(x.trail) = {} /\ 0..Len(x.trail) = {0}
        /\ x.at = s
    <3>1. x \in TrailItems
      BY <1>1 DEF TrailItems
    <3> QED BY <2>1, <3>1
  <2> HIDE DEF x
  <2>3. TrailsLead(queue, Present)
    <3>1. x.trail \in Seq(Present)
      BY <2>2
    <3>2. Met(x.trail, 0) = s
      BY DEF Met
    <3>3. Walk(x.trail, Present)
      BY <2>2, <3>1 DEF Walk
    <3>4. Open(x.trail)
      BY <1>5, <2>2, <3>2 DEF Open
    <3> QED BY <2>2, <3>2, <3>3, <3>4 DEF TrailsLead
  <2>4. TrailsDiffer(queue)
    <3>1. \A e \in Edges : Append(x.trail, e) # x.trail
      BY <2>2
    <3> QED BY <2>2, <3>1 DEF TrailsDiffer
  <2>5. TrailsInTurn(queue)
    BY <2>2 DEF TrailsInTurn
  <2>6. NoneIsLost(queue, paths, before)
    <3>1. ASSUME NEW p \in PathsIn(before, query.depth) PROVE Begins(x.trail, p)
      <4>1. Len(p) \in 1..query.depth
        BY <1>1, PathIs
      <4> QED BY <1>1, <2>2, <4>1 DEF Begins
    <3> QED BY <2>2, <3>1 DEF NoneIsLost
  <2> QED BY <1>2, <1>3, <2>2, <2>3, <2>4, <2>5, <2>6 DEF PathsGoAhead, Follows
<1> QED BY <1>4, <1>5

LEMMA QueryBegins == GraphIs /\ Asked => GraphInv
<1> SUFFICES ASSUME GraphIs, Asked PROVE GraphInv
  OBVIOUS
<1>1. SearchGoesOn
  BY NeighboursBegin, PathsBegin DEF SearchGoesOn
<1>2. AnswersAreComplete
  BY DEF Asked, AnswersAreComplete, NeighbourhoodIsComplete, PathsAreComplete, GraphsAreClosed,
         Answered
<1>3. QueryGoesOn /\ AnswerGoesOn
  BY DEF Asked, QueryGoesOn, AnswerGoesOn
<1> QED BY <1>1, <1>2, <1>3 DEF GraphInv

LEMMA GraphBegins == GraphInit => GraphInv
<1> SUFFICES ASSUME GraphInit PROVE GraphInv
  OBVIOUS
<1>1. GraphIs
  <2>1. born \in [Edges -> {0, 1}]
    BY DEF GraphInit
  <2>2. 0 \in 0..Commits /\ 1 \in 0..Commits
    BY BoundsAssumption
  <2>3. born \in [Edges -> 0..Commits]
    BY <2>1, <2>2
  <2> QED BY <2>3 DEF GraphInit, GraphIs
<1>2. AnswersAreComplete
  BY DEF GraphInit, AnswersAreComplete, NeighbourhoodIsComplete, PathsAreComplete,
         GraphsAreClosed, Answered
<1> QED BY <1>1, <1>2 DEF GraphInit, GraphInv, QueryGoesOn, SearchGoesOn, AnswerGoesOn

-----------------------------------------------------------------------------
LEMMA GraphKept ==
    ASSUME GraphIs, UNCHANGED graphVars
    PROVE  GraphIs' /\ Present' = Present
BY DEF GraphIs, graphVars, Present, EndsOf

LEMMA QueryKept ==
    ASSUME QueryGoesOn, phase # "idle", phase' \in {"search", "entities", "done"},
           UNCHANGED <<graphVars, query, before>>
    PROVE  QueryGoesOn'
<1>1. Present' = Present /\ deleted' = deleted
  BY DEF graphVars, Present
<1> QED BY <1>1 DEF QueryGoesOn

\* nothing is said yet
LEMMA StillToAnswer ==
    ASSUME phase' # "done" \/ deleted'
    PROVE  AnswersAreComplete'
BY DEF AnswersAreComplete, NeighbourhoodIsComplete, PathsAreComplete, GraphsAreClosed, Answered

\* what keeps a search going
LEMMA SearchKept ==
    ASSUME GraphInv, phase = "search", phase' = "search",
           UNCHANGED <<graphVars, query, before>>,
           ~deleted => \/ query.op = "neighbours" /\ NeighboursGoOn'
                       \/ query.op = "paths" /\ PathsGoAhead'
    PROVE  GraphInv'
<1>1. GraphIs' /\ deleted' = deleted /\ query' = query
  BY GraphKept DEF GraphInv, graphVars
<1>2. QueryGoesOn'
  BY QueryKept DEF GraphInv
<1>3. AnswersAreComplete'
  BY StillToAnswer
<1>4. SearchGoesOn'
  BY <1>1 DEF SearchGoesOn
<1>5. AnswerGoesOn'
  BY DEF AnswerGoesOn
<1> QED BY <1>1, <1>2, <1>3, <1>4, <1>5 DEF GraphInv

\* and what a query under way knows
LEMMA UnderWay ==
    ASSUME GraphInv, phase # "idle"
    PROVE  /\ query \in Queries /\ query.cap \in Nat \ {0} /\ query.cap \in Nat
           /\ query.op \in {"neighbours", "paths", "full", "finding"}
           /\ query.op \in {"neighbours", "paths"} =>
                /\ query.depth \in Nat /\ query.depth \in 1..MaxDepth
           /\ Present \in SUBSET Edges /\ IsFiniteSet(Present)
           /\ ~deleted => before \in SUBSET Present
<1>1. query \in Queries
  BY DEF GraphInv, QueryGoesOn
<1>2. /\ query.cap \in Nat \ {0} /\ query.op \in {"neighbours", "paths", "full", "finding"}
      /\ query.op \in {"neighbours", "paths"} => query.depth \in 1..MaxDepth
  BY <1>1, QueryIs
<1>3. \A d \in 1..MaxDepth : d \in Nat
  BY BoundsAssumption
<1>4. Present \in SUBSET Edges /\ IsFiniteSet(Present)
  BY RowsAre DEF GraphInv
<1>5. ~deleted => before \in SUBSET Present
  BY DEF GraphInv, QueryGoesOn
<1> QED BY <1>1, <1>2, <1>3, <1>4, <1>5

-----------------------------------------------------------------------------
(* The steps of a query.                                                     *)
LEMMA AskKeeps == GraphInv /\ Ask => GraphInv'
<1> SUFFICES ASSUME GraphInv, Ask PROVE GraphInv'
  OBVIOUS
<1>1. GraphIs' /\ Present' = Present
  BY GraphKept DEF GraphInv, Ask
<1>2. Asked'
  <2>1. /\ query' \in Queries /\ phase' = "search" /\ before' = Present
        /\ collected' = collected /\ paths' = paths /\ phase = "idle"
    BY DEF Ask
  <2>2. collected' = <<>> /\ paths' = <<>>
    BY <2>1 DEF GraphInv, QueryGoesOn
  <2>3. query'.op = "neighbours" =>
          queue' = <<[at |-> query'.start, depth |-> 0]>> /\ visited' = {query'.start}
    BY DEF Ask
  <2>4. query'.op = "paths" =>
          queue' = IF query'.start # query'.target
                   THEN <<[at |-> query'.start, trail |-> <<>>]>> ELSE <<>>
    BY DEF Ask
  <2> QED BY <1>1, <2>1, <2>2, <2>3, <2>4 DEF Asked
<1> QED BY <1>1, <1>2, QueryBegins, PTL

LEMMA NeighboursKeep == GraphInv /\ Neighbours => GraphInv'
<1> SUFFICES ASSUME GraphInv, Neighbours PROVE GraphInv'
  OBVIOUS
<1> DEFINE x == Head(queue)
           base == [edges |-> collected, seen |-> visited, todo |-> Tail(queue), ended |-> FALSE]
<1>1. /\ phase = "search" /\ phase' = phase /\ query.op = "neighbours" /\ queue # <<>> /\ ~Full
      /\ x.depth < query.depth
      /\ query' = query /\ before' = before /\ paths' = paths
      /\ UNCHANGED <<graphVars, query, before>>
  BY DEF Neighbours, Searching
<1>2. PICK rows \in SetToSeqs({e \in Present : Head(queue).at \in {From[e], To[e]}}) :
        /\ collected' = Gathered(x, base, rows).edges
        /\ visited' = Gathered(x, base, rows).seen
        /\ queue' = Gathered(x, base, rows).todo
  BY DEF Neighbours, Gathered
<1>3. ASSUME ~deleted PROVE NeighboursGoOn'
  <2>1. /\ paths = <<>> /\ Near(queue, visited, collected, Present) /\ VisitsInTurn(queue)
        /\ NoneIsMissed(queue, visited, collected, before)
    BY <1>1, <1>3 DEF GraphInv, SearchGoesOn, NeighboursGoOn
  <2>2. /\ queue \in Seq(VisitItems) /\ visited \in SUBSET Entities /\ collected \in Seq(Edges)
    BY <2>1 DEF Near
  <2>3. /\ query.cap \in Nat /\ query.depth \in 1..MaxDepth /\ query.depth \in Nat
        /\ Present \in SUBSET Edges /\ before \in SUBSET Present
    BY <1>1, <1>3, UnderWay
  <2>4. Visits(queue, visited, collected, Present, queue', visited', collected')
    <3> DEFINE v == Gathered(x, base, rows)
    <3>1. Visits(queue, visited, collected, Present, v.todo, v.seen, v.edges)
      <4>1. v = Gathered(Head(queue), [edges |-> collected, seen |-> visited,
                                       todo |-> Tail(queue), ended |-> FALSE], rows)
        OBVIOUS
      <4> HIDE DEF v
      <4> QED BY <1>1, <2>2, <2>3, <4>1, RowsVisit
    <3> QED BY <1>2, <3>1
  <2>5. Near(queue', visited', collected', Present)
    BY <1>1, <2>1, <2>3, <2>4, StaysNear
  <2>6. VisitsInTurn(queue')
    BY <1>1, <2>1, <2>2, <2>4, VisitsStayInTurn
  <2>7. NoneIsMissed(queue', visited', collected', before)
    <3>1. Len(collected) \in Nat /\ Len(collected) < query.cap
      BY <1>1, <2>2, <2>3 DEF Full
    <3> QED BY <1>1, <2>1, <2>3, <2>4, <3>1, NoneGetsMissed
  <2>8. Present' = Present
    BY <1>1, GraphKept DEF GraphInv
  <2>9. Near(queue, visited, collected, Present)'
    BY <1>1, <2>5, <2>8, NearKept
  <2>10. NoneIsMissed(queue, visited, collected, before)'
    BY <1>1, <2>7, MissedKept
  <2>11. VisitsInTurn(queue)'
    BY <2>6 DEF VisitsInTurn
  <2> QED BY <1>1, <2>1, <2>9, <2>10, <2>11 DEF NeighboursGoOn
<1> QED BY <1>1, <1>3, SearchKept

LEMMA PathsKeep == GraphInv /\ Paths => GraphInv'
<1> SUFFICES ASSUME GraphInv, Paths PROVE GraphInv'
  OBVIOUS
<1> DEFINE x == Head(queue)
           base == [found |-> paths, todo |-> Tail(queue)]
<1>1. /\ phase = "search" /\ phase' = phase /\ query.op = "paths" /\ queue # <<>>
      /\ Len(x.trail) < query.depth
      /\ query' = query /\ before' = before /\ collected' = collected
      /\ UNCHANGED <<graphVars, query, before>>
  BY DEF Paths, Searching
<1>2. PICK rows \in SetToSeqs({e \in Present : From[e] = Head(queue).at}) :
        paths' = Extended(x, base, rows).found /\ queue' = Extended(x, base, rows).todo
  BY DEF Paths, Extended
<1>3. ASSUME ~deleted PROVE PathsGoAhead'
  <2>1. /\ collected = <<>> /\ Follows(queue, paths, Present) /\ NoneIsLost(queue, paths, before)
    BY <1>1, <1>3 DEF GraphInv, SearchGoesOn, PathsGoAhead
  <2>2. queue \in Seq(TrailItems) /\ paths \in Seq(Seq(Edges)) /\ TrailsLead(queue, Present)
    BY <2>1 DEF Follows
  <2>3. /\ query.cap \in Nat /\ query.depth \in Nat
        /\ Present \in SUBSET Edges /\ before \in SUBSET Present
    BY <1>1, <1>3, UnderWay
  <2>4. StepsOn(queue, paths, Present, queue', paths')
    <3> DEFINE v == Extended(x, base, rows)
    <3>1. StepsOn(queue, paths, Present, v.todo, v.found)
      <4>1. v = Extended(Head(queue), [found |-> paths, todo |-> Tail(queue)], rows)
        OBVIOUS
      <4> HIDE DEF v
      <4> QED BY <1>1, <2>2, <2>3, <4>1, RowsStepOn
    <3> QED BY <1>2, <3>1
  <2>5. Follows(queue', paths', Present)
    BY <1>1, <2>1, <2>3, <2>4, PathsFollow
  <2>6. NoneIsLost(queue', paths', before)
    BY <1>1, <2>1, <2>2, <2>3, <2>4, NoneGetsLost
  <2>7. Present' = Present
    BY <1>1, GraphKept DEF GraphInv
  <2>8. Follows(queue, paths, Present)'
    BY <1>1, <2>5, <2>7, FollowsKept
  <2>9. NoneIsLost(queue, paths, before)'
    BY <1>1, <2>6, LostKept
  <2> QED BY <1>1, <2>1, <2>8, <2>9 DEF PathsGoAhead
<1> QED BY <1>1, <1>3, SearchKept

LEMMA TooDeepKeeps == GraphInv /\ TooDeep => GraphInv'
<1> SUFFICES ASSUME GraphInv, TooDeep PROVE GraphInv'
  OBVIOUS
<1>1. /\ phase = "search" /\ phase' = phase /\ queue # <<>> /\ queue' = Tail(queue)
      /\ query' = query /\ before' = before /\ UNCHANGED <<graphVars, query, before>>
      /\ visited' = visited /\ collected' = collected /\ paths' = paths
      /\ \/ query.op = "neighbours" /\ Head(queue).depth >= query.depth
         \/ query.op = "paths" /\ Len(Head(queue).trail) >= query.depth
  BY DEF TooDeep, Searching, answerVars
<1>2. Present' = Present
  BY <1>1, GraphKept DEF GraphInv
<1>3. ASSUME ~deleted, query.op = "neighbours" PROVE NeighboursGoOn'
  <2>1. /\ paths = <<>> /\ Near(queue, visited, collected, Present) /\ VisitsInTurn(queue)
        /\ NoneIsMissed(queue, visited, collected, before)
    BY <1>1, <1>3 DEF GraphInv, SearchGoesOn, NeighboursGoOn
  <2>2. query.depth \in Nat
    BY <1>1, <1>3, UnderWay
  <2>3. /\ Near(Tail(queue), visited, collected, Present) /\ VisitsInTurn(Tail(queue))
        /\ NoneIsMissed(Tail(queue), visited, collected, before)
    BY <1>1, <1>3, <2>1, <2>2, DeepVisitGoes
  <2>4. Near(queue, visited, collected, Present)'
    BY <1>1, <1>2, <2>3, NearKept
  <2>5. NoneIsMissed(queue, visited, collected, before)'
    BY <1>1, <2>3, MissedKept
  <2>6. VisitsInTurn(queue)'
    BY <1>1, <2>3 DEF VisitsInTurn
  <2> QED BY <1>1, <2>1, <2>4, <2>5, <2>6 DEF NeighboursGoOn
<1>4. ASSUME ~deleted, query.op = "paths" PROVE PathsGoAhead'
  <2>1. /\ collected = <<>> /\ Follows(queue, paths, Present) /\ NoneIsLost(queue, paths, before)
    BY <1>1, <1>4 DEF GraphInv, SearchGoesOn, PathsGoAhead
  <2>2. query.depth \in Nat
    BY <1>1, <1>4, UnderWay
  <2>3. Follows(Tail(queue), paths, Present) /\ NoneIsLost(Tail(queue), paths, before)
    BY <1>1, <1>4, <2>1, <2>2, DeepTrailGoes
  <2>4. Follows(queue, paths, Present)' /\ NoneIsLost(queue, paths, before)'
    BY <1>1, <1>2, <2>3, FollowsKept, LostKept
  <2> QED BY <1>1, <2>1, <2>4 DEF PathsGoAhead
<1> QED BY <1>1, <1>3, <1>4, SearchKept

-----------------------------------------------------------------------------
(* The end of a search, and the reads that follow it.                        *)

LEMMA ReachesKept ==
    ASSUME query' = query, NEW g, Present' = g, before' = before,
           visited' = visited, collected' = collected,
           visited \subseteq Within(g)[query.depth],
           Range(collected) \subseteq Touching(Within(g)[query.depth - 1], g),
           ~truncated' =>
             /\ EndsMet(visited, collected)
             /\ Within(before)[query.depth] \subseteq visited
             /\ Touching(Within(before)[query.depth - 1], before) \subseteq Range(collected)
    PROVE  Reaches'
<1>1. Within(Present)' = Within(g) /\ Within(before)' = Within(before)
  BY WithinKept
<1> QED BY <1>1 DEF Reaches, Touching, EndsMet

LEMMA NeighboursEnd ==
    ASSUME GraphInv, phase = "search", query.op = "neighbours", ~deleted, SearchEnds
    PROVE  Reaches'
<1>1. /\ paths = <<>> /\ Near(queue, visited, collected, Present)
      /\ NoneIsMissed(queue, visited, collected, before)
  BY DEF GraphInv, SearchGoesOn, NeighboursGoOn
<1>2. /\ query.cap \in Nat \ {0} /\ query.depth \in 1..MaxDepth
      /\ before \in SUBSET Edges
  BY UnderWay
<1>3. /\ query' = query /\ before' = before /\ visited' = visited /\ collected' = collected
      /\ Present' = Present /\ (queue = <<>> \/ Full)
  BY DEF SearchEnds, graphVars, Present
<1>6. ~truncated' => ~Full
  BY Zenon DEF SearchEnds
<1>4. /\ visited \subseteq Within(Present)[query.depth]
      /\ Range(collected) \subseteq Touching(Within(Present)[query.depth - 1], Present)
      /\ query.start \in visited
  BY <1>1 DEF Near
<1>5. ASSUME ~truncated'
      PROVE  /\ EndsMet(visited, collected)
             /\ Within(before)[query.depth] \subseteq visited
             /\ Touching(Within(before)[query.depth - 1], before) \subseteq Range(collected)
  <2>1. queue = <<>> /\ Len(collected) < query.cap
    <3>1. Len(collected) \in Nat
      BY <1>1 DEF Near
    <3> QED BY <1>2, <1>3, <1>5, <1>6, <3>1 DEF Full
  <2>2. EndsMet(visited, collected) /\ \E dist : Measures(dist, queue, visited, collected, before)
    BY <1>1, <2>1 DEF NoneIsMissed
  <2>3. PICK dist : Measures(dist, <<>>, visited, collected, before)
    BY <2>1, <2>2
  <2> QED BY <1>2, <1>4, <2>2, <2>3, AllIsMet
<1> QED BY <1>3, <1>4, <1>5, ReachesKept

LEMMA PathsEnd ==
    ASSUME GraphInv, phase = "search", query.op = "paths", ~deleted, SearchEnds
    PROVE  PathsAreComplete'
<1>1. /\ collected = <<>> /\ Follows(queue, paths, Present) /\ NoneIsLost(queue, paths, before)
  BY DEF GraphInv, SearchGoesOn, PathsGoAhead
<1>2. /\ paths \in Seq(Seq(Edges)) /\ PathsFound(paths, Present)
      /\ PathsDiffer(paths) /\ PathsInTurn(paths)
  BY <1>1 DEF Follows
<1>3. query.cap \in Nat \ {0}
  BY UnderWay
<1>4. /\ query' = query /\ before' = before /\ paths' = paths
      /\ Present' = Present /\ (queue = <<>> \/ Full)
  BY DEF SearchEnds, graphVars, Present
<1>5. DOMAIN paths = 1..Len(paths) /\ Len(paths) \in Nat
  BY <1>2
<1>6. Range(paths) \subseteq PathsIn(Present, query.depth)
  BY <1>2, <1>5 DEF PathsFound, Range
<1>7. Cardinality(Range(paths)) = Len(paths)
  <2>1. IsFiniteSet(1..Len(paths)) /\ Cardinality(1..Len(paths)) = Len(paths)
    <3>1. Len(paths) = 0 => IF 1 > Len(paths) THEN TRUE ELSE FALSE
      OBVIOUS
    <3>2. /\ IsFiniteSet(1..Len(paths))
          /\ Cardinality(1..Len(paths)) = IF 1 > Len(paths) THEN 0 ELSE Len(paths) - 1 + 1
      BY <1>5, FS_Interval
    <3> QED BY <1>5, <3>2
  <2>2. paths \in Bijection(1..Len(paths), Range(paths))
    BY <1>2, <1>5 DEF Bijection, Injection, Surjection, IsInjective, PathsDiffer, Range
  <2>3. IsFiniteSet(Range(paths)) /\ Cardinality(1..Len(paths)) = Cardinality(Range(paths))
    BY <2>1, <2>2, FS_Bijection DEF ExistsBijection
  <2> QED BY <2>1, <2>3
<1>8. \A i, j \in DOMAIN paths : i < j => Len(paths[i]) <= Len(paths[j])
  BY <1>2, <1>5 DEF PathsInTurn
<1>9. ASSUME Len(paths) < query.cap PROVE PathsIn(before, query.depth) \subseteq Range(paths)
  <2>1. queue = <<>> /\ Len(queue) = 0
    <3>1. ~Full
      BY <1>1, <1>3, <1>5, <1>9 DEF Full
    <3> QED BY <1>4, <3>1
  <2> QED BY <1>1, <1>9, <2>1 DEF NoneIsLost
<1>10. /\ PathsIn(Present, query.depth)' = PathsIn(Present, query.depth)
       /\ PathsIn(before, query.depth)' = PathsIn(before, query.depth)
  BY <1>4, PathsKept
<1> QED BY <1>4, <1>6, <1>7, <1>8, <1>9, <1>10 DEF PathsAreComplete

LEMMA SearchEndsKeeps == GraphInv /\ SearchEnds => GraphInv'
<1> SUFFICES ASSUME GraphInv, SearchEnds PROVE GraphInv'
  OBVIOUS
<1>1. /\ phase = "search" /\ query.op \in {"neighbours", "paths"} /\ query' = query
      /\ phase' = IF query.op = "paths" THEN "done" ELSE "entities"
      /\ UNCHANGED <<graphVars, query, before>> /\ deleted' = deleted
  BY DEF SearchEnds, graphVars
<1>2. GraphIs' /\ QueryGoesOn'
  BY <1>1, GraphKept, QueryKept DEF GraphInv
<1>3. SearchGoesOn'
  BY <1>1 DEF SearchGoesOn
<1>4. AnswerGoesOn'
  BY <1>1, NeighboursEnd DEF AnswerGoesOn
<1>5. AnswersAreComplete'
  <2>1. CASE query.op = "paths" /\ ~deleted
    <3>1. PathsAreComplete'
      BY <1>1, <2>1, PathsEnd
    <3> QED BY <1>1, <2>1, <3>1
        DEF AnswersAreComplete, NeighbourhoodIsComplete, GraphsAreClosed, Answered
  <2>2. CASE query.op = "neighbours" \/ deleted
    BY <1>1, <2>2, StillToAnswer
  <2> QED BY <1>1, <2>1, <2>2
<1> QED BY <1>2, <1>3, <1>4, <1>5 DEF GraphInv

\* a draw of at most cap rows, all of them when there are no more
LEMMA DrawIs ==
    ASSUME NEW S, IsFiniteSet(S), NEW cap \in Nat, NEW T \in SUBSET S,
           Cardinality(T) = Smaller(Cardinality(S), cap)
    PROVE  /\ Range(SetToSeq(T)) = T /\ Len(SetToSeq(T)) = Cardinality(T)
           /\ Cardinality(T) \in Nat /\ Cardinality(S) \in Nat
           /\ Cardinality(S) <= cap \/ Cardinality(T) < cap => T = S
<1>1. IsFiniteSet(T)
  BY FS_Subset
<1>2. Lists(SetToSeq(T), T)
  BY <1>1, SetIsListed
<1>3. Cardinality(T) \in Nat /\ Cardinality(S) \in Nat
  BY <1>1, FS_CardinalityType
<1>4. ASSUME Cardinality(S) <= cap \/ Cardinality(T) < cap PROVE T = S
  <2>1. Cardinality(T) = Cardinality(S)
    BY <1>3, <1>4 DEF Smaller
  <2> QED BY <2>1, FS_Subset
<1> QED BY <1>2, <1>3, <1>4 DEF Lists

LEMMA ReadEdgesKeeps == GraphInv /\ ReadEdges => GraphInv'
<1> SUFFICES ASSUME GraphInv, ReadEdges PROVE GraphInv'
  OBVIOUS
<1>1. /\ phase = "search" /\ query.op = "full" /\ query' = query /\ phase' = "entities"
      /\ UNCHANGED <<graphVars, query, before>> /\ deleted' = deleted /\ before' = before
  BY DEF ReadEdges, graphVars
<1> DEFINE More == Cardinality(Present) > query.cap
<1>11. (truncated' => More) /\ (~truncated' => ~More)
  <2>1. truncated' = More
    BY DEF ReadEdges
  <2> HIDE DEF More
  <2> QED BY <2>1, Zenon
<1>2. PICK S \in SUBSET Present :
        /\ Cardinality(S) = Smaller(Cardinality(Present), query.cap)
        /\ collected' = SetToSeq(S)
  BY DEF ReadEdges
<1>3. GraphIs' /\ QueryGoesOn' /\ Present' = Present
  BY <1>1, GraphKept, QueryKept DEF GraphInv
<1>4. SearchGoesOn' /\ AnswersAreComplete'
  BY <1>1, StillToAnswer DEF SearchGoesOn
<1>5. /\ query.cap \in Nat /\ IsFiniteSet(Present)
      /\ ~deleted => before \subseteq Present
  BY <1>1, UnderWay
<1>6. /\ Range(collected') = S /\ Len(collected') = Cardinality(S)
      /\ Cardinality(S) \in Nat /\ Cardinality(Present) \in Nat
      /\ Cardinality(Present) <= query.cap => S = Present
  BY <1>2, <1>5, DrawIs
<1>7. truncated' => Len(collected') = query.cap
  BY <1>2, <1>5, <1>6, <1>11 DEF Smaller
<1>8. ~truncated' => S = Present
  BY <1>5, <1>6, <1>11
<1> HIDE DEF More
<1>9. ~deleted => Draws'
  BY <1>1, <1>3, <1>5, <1>6, <1>7, <1>8 DEF Draws, Wanted
<1>10. AnswerGoesOn'
  BY <1>1, <1>9 DEF AnswerGoesOn
<1> QED BY <1>3, <1>4, <1>10 DEF GraphInv

LEMMA ReadCitedKeeps == GraphInv /\ ReadCited => GraphInv'
<1> SUFFICES ASSUME GraphInv, ReadCited PROVE GraphInv'
  OBVIOUS
<1> DEFINE backed == {e \in Present : Backing[e] \in query.cites}
<1>1. /\ phase = "search" /\ query.op = "finding" /\ query' = query /\ phase' = "entities"
      /\ UNCHANGED <<graphVars, query, before>> /\ deleted' = deleted /\ before' = before
  BY DEF ReadCited, graphVars
<1> DEFINE More == Len(collected') >= query.cap
<1>13. (truncated' => More) /\ (~truncated' => ~More)
  <2>1. truncated' = More
    BY DEF ReadCited
  <2> HIDE DEF More
  <2> QED BY <2>1, Zenon
<1>2. PICK S \in SUBSET backed :
        /\ Cardinality(S) = Smaller(Cardinality(backed), query.cap)
        /\ collected' = SetToSeq(S)
  BY DEF ReadCited
<1>3. GraphIs' /\ QueryGoesOn' /\ Present' = Present
  BY <1>1, GraphKept, QueryKept DEF GraphInv
<1>4. SearchGoesOn' /\ AnswersAreComplete'
  BY <1>1, StillToAnswer DEF SearchGoesOn
<1>5. /\ query.cap \in Nat /\ IsFiniteSet(Present)
      /\ ~deleted => before \subseteq Present
  BY <1>1, UnderWay
<1>6. backed \subseteq Present /\ IsFiniteSet(backed)
  <2>1. backed \subseteq Present
    OBVIOUS
  <2> HIDE DEF backed
  <2> QED BY <1>5, <2>1, FS_Subset
<1>7. ~deleted => {e \in before : Backing[e] \in query.cites} \subseteq backed
  BY <1>5
<1> HIDE DEF backed
<1>8. /\ Range(collected') = S /\ Len(collected') = Cardinality(S)
      /\ Cardinality(S) \in Nat /\ Cardinality(backed) \in Nat
      /\ Cardinality(S) < query.cap => S = backed
  BY <1>2, <1>5, <1>6, DrawIs
<1>9. truncated' => Len(collected') = query.cap
  BY <1>2, <1>5, <1>8, <1>13 DEF Smaller
<1>10. ~truncated' => S = backed
  BY <1>5, <1>8, <1>13
<1> HIDE DEF More
<1>11. ~deleted => Draws'
  BY <1>1, <1>2, <1>3, <1>6, <1>7, <1>8, <1>9, <1>10 DEF Draws, Wanted
<1>12. AnswerGoesOn'
  BY <1>1, <1>11 DEF AnswerGoesOn
<1> QED BY <1>3, <1>4, <1>12 DEF GraphInv

-----------------------------------------------------------------------------
LEMMA EntitiesOfNeighbours ==
    ASSUME GraphIs, Reaches, query.op = "neighbours", ReadEntities
    PROVE  NeighbourhoodIsComplete'
<1>1. /\ query' = query /\ before' = before /\ collected' = collected /\ nodes' = nodes
      /\ Present' = Present /\ truncated' = truncated /\ entities' = nodes \cap visited
  BY DEF ReadEntities, graphVars, Present, NamedEntities
<1>2. Within(Present)' = Within(Present) /\ Within(before)' = Within(before)
  BY <1>1, WithinKept
<1>3. EndsOf(Present) \subseteq nodes
  BY DEF GraphIs
<1>4. ASSUME ~truncated PROVE EndsOf(Range(collected)) \subseteq nodes \cap visited
  <2>1. \A e \in Range(collected) : e \in Present /\ From[e] \in visited /\ To[e] \in visited
    BY <1>4 DEF Reaches, Touching, EndsMet
  <2> QED BY <1>3, <2>1 DEF EndsOf
<1>5. /\ visited \subseteq Within(Present)[query.depth]
      /\ Range(collected) \subseteq Touching(Within(Present)[query.depth - 1], Present)
      /\ ~truncated =>
           /\ Within(before)[query.depth] \subseteq visited
           /\ Touching(Within(before)[query.depth - 1], before) \subseteq Range(collected)
  BY DEF Reaches
<1>6. /\ Touching(Within(Present)[query.depth - 1], Present)' =
           Touching(Within(Present)[query.depth - 1], Present)
      /\ Touching(Within(before)[query.depth - 1], before)' =
           Touching(Within(before)[query.depth - 1], before)
  BY <1>1, <1>2 DEF Touching
<1>7. EndsOf(Range(collected))' = EndsOf(Range(collected))
  BY <1>1
<1> QED BY <1>1, <1>2, <1>4, <1>5, <1>6, <1>7 DEF NeighbourhoodIsComplete

LEMMA EntitiesOfGraph ==
    ASSUME GraphIs, Draws, query.op \in {"full", "finding"}, ReadEntities
    PROVE  GraphsAreClosed'
<1>1. /\ query' = query /\ before' = before /\ collected' = collected /\ truncated' = truncated
  BY DEF ReadEntities
<1>2. \/ collected = <<>>
      \/ entities' = nodes \cap EndsOf(Range(collected))
  BY DEF ReadEntities, NamedEntities
<1>3. EndsOf(Range(collected)) \subseteq entities'
  <2>1. CASE collected = <<>>
    BY <2>1 DEF EndsOf, Range
  <2>2. CASE entities' = nodes \cap EndsOf(Range(collected))
    <3>1. EndsOf(Range(collected)) \subseteq EndsOf(Present)
      BY DEF Draws, EndsOf
    <3> QED BY <2>2, <3>1 DEF GraphIs
  <2> QED BY <1>2, <2>1, <2>2
<1>4. /\ truncated => Len(collected) = query.cap
      /\ ~truncated => Wanted(before) \subseteq Range(collected)
  BY DEF Draws
<1>5. EndsOf(Range(collected))' = EndsOf(Range(collected))
  BY <1>1
<1> QED BY <1>1, <1>3, <1>4, <1>5 DEF GraphsAreClosed, Wanted, Answered

LEMMA ReadEntitiesKeeps == GraphInv /\ ReadEntities => GraphInv'
<1> SUFFICES ASSUME GraphInv, ReadEntities PROVE GraphInv'
  OBVIOUS
<1>1. /\ phase = "entities" /\ phase' = "done" /\ query' = query
      /\ UNCHANGED <<graphVars, query, before>> /\ deleted' = deleted
  BY DEF ReadEntities, graphVars
<1>2. GraphIs' /\ QueryGoesOn'
  BY <1>1, GraphKept, QueryKept DEF GraphInv
<1>3. SearchGoesOn' /\ AnswerGoesOn'
  BY <1>1 DEF SearchGoesOn, AnswerGoesOn
<1>4. query.op \in {"neighbours", "paths", "full", "finding"}
  BY <1>1, UnderWay
<1>5. AnswersAreComplete'
  <2>1. CASE deleted
    BY <1>1, <2>1, StillToAnswer
  <2>2. CASE ~deleted
    <3>1. /\ GraphIs /\ query.op # "paths"
          /\ query.op = "neighbours" => Reaches
          /\ query.op \in {"full", "finding"} => Draws
      BY <1>1, <2>2 DEF GraphInv, AnswerGoesOn
    <3>2. CASE query.op = "neighbours"
      <4>1. NeighbourhoodIsComplete'
        BY <3>1, <3>2, EntitiesOfNeighbours
      <4> QED BY <1>1, <3>2, <4>1
          DEF AnswersAreComplete, PathsAreComplete, GraphsAreClosed, Answered
    <3>3. CASE query.op \in {"full", "finding"}
      <4>1. GraphsAreClosed'
        BY <3>1, <3>3, EntitiesOfGraph
      <4> QED BY <1>1, <3>3, <4>1
          DEF AnswersAreComplete, PathsAreComplete, NeighbourhoodIsComplete, Answered
    <3> QED BY <1>4, <3>1, <3>2, <3>3
  <2> QED BY <2>1, <2>2
<1> QED BY <1>2, <1>3, <1>5 DEF GraphInv

-----------------------------------------------------------------------------
(* The writers.                                                              *)

\* the last commit there was
LEMMA LatestIs ==
    ASSUME born \in [Edges -> 0..Commits]
    PROVE  Latest \in 0..Commits /\ \A e \in Edges : born[e] <= Latest
<1> DEFINE S == {0} \cup {born[e] : e \in Edges}
<1>1. Commits \in Nat
  BY BoundsAssumption
<1>2. S \in SUBSET (0..Commits) /\ S # {} /\ \A e \in Edges : born[e] \in S
  BY <1>1
<1>3. \A n \in S : n = 0 \/ \E e \in Edges : born[e] = n
  OBVIOUS
<1> HIDE DEF S
<1>4. S \in SUBSET Nat /\ S \in SUBSET Int /\ \A n \in S : n <= Commits
  BY <1>1, <1>2
<1>5. IsFiniteSet(S)
  BY <1>1, <1>4, FS_BoundedSetOfNaturals
<1>6. Max(S) \in S /\ \A n \in S : n <= Max(S)
  BY <1>2, <1>4, <1>5, HighestIs
<1>7. /\ Max(S) \in 0..Commits
      /\ Max(S) = 0 \/ \E e \in Edges : born[e] = Max(S)
      /\ \A e \in Edges : born[e] <= Max(S)
  BY <1>2, <1>3, <1>6
<1> HIDE DEF Max
<1> QED BY <1>7 DEF Latest

LEMMA CommitGrows ==
    ASSUME GraphIs, CommitGraph
    PROVE  GraphIs' /\ Present \in SUBSET Present' /\ Present' \in SUBSET Edges
<1>1. Commits \in Nat /\ Latest \in 0..Commits /\ Latest < Commits
  BY LatestIs, BoundsAssumption DEF GraphIs, CommitGraph
<1>2. PICK new \in SUBSET (Edges \ Present) :
        /\ born' = [e \in Edges |-> IF e \in new THEN Latest + 1 ELSE born[e]]
        /\ nodes \cup EndsOf(new) \subseteq nodes'
  BY DEF CommitGraph
<1>3. Latest + 1 \in 0..Commits /\ Latest + 1 > 0
  BY <1>1
<1>4. born \in [Edges -> 0..Commits] /\ EndsOf(Present) \subseteq nodes /\ deleted \in BOOLEAN
  BY DEF GraphIs
<1> HIDE DEF Latest
<1>5. born' \in [Edges -> 0..Commits]
  BY <1>2, <1>3, <1>4
<1>6. \A e \in Edges : e \in Present' <=> e \in Present \/ e \in new
  BY <1>2, <1>3 DEF Present
<1>7. Present' \in SUBSET Edges /\ Present \in SUBSET Edges
  BY DEF Present
<1>8. EndsOf(Present') \subseteq nodes'
  <2>1. EndsOf(Present') \subseteq EndsOf(Present) \cup EndsOf(new)
    BY <1>6, <1>7 DEF EndsOf
  <2> QED BY <1>2, <1>4, <2>1
<1>9. deleted' \in BOOLEAN
  BY <1>4 DEF CommitGraph
<1> QED BY <1>5, <1>6, <1>7, <1>8, <1>9 DEF GraphIs

LEMMA CommitGraphKeeps == GraphInv /\ CommitGraph => GraphInv'
<1> SUFFICES ASSUME GraphInv, CommitGraph PROVE GraphInv'
  OBVIOUS
<1>1. /\ phase \in {"search", "entities"} /\ phase' = phase /\ ~deleted /\ deleted' = deleted
      /\ query' = query /\ queue' = queue /\ before' = before
      /\ visited' = visited /\ collected' = collected /\ paths' = paths
      /\ truncated' = truncated
  BY DEF CommitGraph, Running, answerVars
<1>2. /\ GraphIs' /\ Present \subseteq Present' /\ Present' \in SUBSET Edges
      /\ Present \in SUBSET Edges
  BY CommitGrows, RowsAre DEF GraphInv
<1>3. QueryGoesOn'
  BY <1>1, <1>2 DEF GraphInv, QueryGoesOn
<1>4. AnswersAreComplete'
  BY <1>1, StillToAnswer
<1>5. query.op \in {"neighbours", "paths"} => query.depth \in Nat /\ query.depth \in 1..MaxDepth
  BY <1>1, UnderWay
<1>6. ASSUME phase = "search", query.op = "neighbours" PROVE NeighboursGoOn'
  <2>1. /\ paths = <<>> /\ Near(queue, visited, collected, Present) /\ VisitsInTurn(queue)
        /\ NoneIsMissed(queue, visited, collected, before)
    BY <1>1, <1>6 DEF GraphInv, SearchGoesOn, NeighboursGoOn
  <2>2. Near(queue, visited, collected, Present')
    BY <1>2, <1>5, <1>6, <2>1, NearGrows
  <2>3. Near(queue, visited, collected, Present)'
    BY <1>1, <2>2, NearKept
  <2>4. NoneIsMissed(queue, visited, collected, before)'
    BY <1>1, <2>1, MissedKept
  <2>5. VisitsInTurn(queue)'
    BY <1>1, <2>1 DEF VisitsInTurn
  <2> QED BY <1>1, <2>1, <2>3, <2>4, <2>5 DEF NeighboursGoOn
<1>7. ASSUME phase = "search", query.op = "paths" PROVE PathsGoAhead'
  <2>1. /\ collected = <<>> /\ Follows(queue, paths, Present) /\ NoneIsLost(queue, paths, before)
    BY <1>1, <1>7 DEF GraphInv, SearchGoesOn, PathsGoAhead
  <2>2. Follows(queue, paths, Present')
    BY <1>2, <1>5, <1>7, <2>1, FollowsStays
  <2>3. Follows(queue, paths, Present)' /\ NoneIsLost(queue, paths, before)'
    BY <1>1, <2>1, <2>2, FollowsKept, LostKept
  <2> QED BY <1>1, <2>1, <2>3 DEF PathsGoAhead
<1>8. SearchGoesOn'
  BY <1>1, <1>6, <1>7 DEF SearchGoesOn
<1>9. ASSUME phase = "entities", query.op = "neighbours" PROVE Reaches'
  <2>1. /\ visited \subseteq Within(Present)[query.depth]
        /\ Range(collected) \subseteq Touching(Within(Present)[query.depth - 1], Present)
        /\ ~truncated =>
             /\ EndsMet(visited, collected)
             /\ Within(before)[query.depth] \subseteq visited
             /\ Touching(Within(before)[query.depth - 1], before) \subseteq Range(collected)
    BY <1>1, <1>9 DEF GraphInv, AnswerGoesOn, Reaches
  <2>2. query.depth \in 0..MaxDepth /\ query.depth - 1 \in 0..MaxDepth
    BY <1>5, <1>9, BoundsAssumption
  <2>3. \A n \in 0..MaxDepth : Within(Present)[n] \subseteq Within(Present')[n]
    BY <1>2, WithinGrows
  <2>4. Touching(Within(Present)[query.depth - 1], Present)
          \subseteq Touching(Within(Present')[query.depth - 1], Present')
    BY <1>2, <2>2, <2>3 DEF Touching
  <2>5. /\ visited \subseteq Within(Present')[query.depth]
        /\ Range(collected) \subseteq Touching(Within(Present')[query.depth - 1], Present')
    BY <2>1, <2>2, <2>3, <2>4
  <2> QED BY <1>1, <2>1, <2>5, ReachesKept
<1>10. ASSUME phase = "entities", query.op \in {"full", "finding"} PROVE Draws'
  <2>1. Draws
    BY <1>1, <1>10 DEF GraphInv, AnswerGoesOn
  <2> QED BY <1>1, <1>2, <2>1 DEF Draws, Wanted
<1>11. AnswerGoesOn'
  <2>1. phase = "entities" => query.op # "paths"
    BY <1>1 DEF GraphInv, AnswerGoesOn
  <2> QED BY <1>1, <1>9, <1>10, <2>1 DEF AnswerGoesOn
<1> QED BY <1>2, <1>3, <1>4, <1>8, <1>11 DEF GraphInv

LEMMA PurgeKeeps == GraphInv /\ Purge => GraphInv'
<1> SUFFICES ASSUME GraphInv, Purge PROVE GraphInv'
  OBVIOUS
<1>1. /\ deleted' = TRUE /\ born' = [e \in Edges |-> 0] /\ phase' = phase /\ query' = query
      /\ phase \in {"search", "entities"}
  BY DEF Purge, Running
<1>2. GraphIs'
  <2>1. born' \in [Edges -> 0..Commits]
    BY <1>1, BoundsAssumption
  <2>2. Present' = {}
    BY <1>1 DEF Present
  <2> QED BY <1>1, <2>1, <2>2 DEF GraphIs, EndsOf
<1>3. QueryGoesOn'
  BY <1>1 DEF GraphInv, QueryGoesOn
<1>4. SearchGoesOn' /\ AnswerGoesOn' /\ AnswersAreComplete'
  BY <1>1, StillToAnswer DEF SearchGoesOn, AnswerGoesOn
<1> QED BY <1>2, <1>3, <1>4 DEF GraphInv

LEMMA NothingKeeps == GraphInv /\ UNCHANGED queryVars => GraphInv'
<1> SUFFICES ASSUME GraphInv, UNCHANGED queryVars PROVE GraphInv'
  OBVIOUS
<1>1. /\ nodes' = nodes /\ born' = born /\ deleted' = deleted
      /\ query' = query /\ phase' = phase /\ queue' = queue
      /\ visited' = visited /\ collected' = collected /\ paths' = paths
      /\ entities' = entities /\ truncated' = truncated /\ before' = before
      /\ UNCHANGED graphVars
  BY DEF queryVars, graphVars, answerVars
<1>2. GraphIs' /\ Present' = Present
  BY <1>1, GraphKept DEF GraphInv
<1>3. QueryGoesOn'
  BY <1>1, <1>2 DEF GraphInv, QueryGoesOn
<1>4. SearchGoesOn'
  <2>1. NeighboursGoOn => NeighboursGoOn'
    <3>1. Near(queue, visited, collected, Present) => Near(queue, visited, collected, Present)'
      BY <1>1, <1>2, NearKept
    <3>2. NoneIsMissed(queue, visited, collected, before)
            => NoneIsMissed(queue, visited, collected, before)'
      BY <1>1, MissedKept
    <3>3. VisitsInTurn(queue) => VisitsInTurn(queue)'
      BY <1>1 DEF VisitsInTurn
    <3> QED BY <1>1, <3>1, <3>2, <3>3 DEF NeighboursGoOn
  <2>2. PathsGoAhead => PathsGoAhead'
    <3>1. Follows(queue, paths, Present) => Follows(queue, paths, Present)'
      BY <1>1, <1>2, FollowsKept
    <3>2. NoneIsLost(queue, paths, before) => NoneIsLost(queue, paths, before)'
      BY <1>1, LostKept
    <3> QED BY <1>1, <3>1, <3>2 DEF PathsGoAhead
  <2> QED BY <1>1, <2>1, <2>2 DEF GraphInv, SearchGoesOn
<1>5. AnswerGoesOn'
  <2>1. ASSUME Reaches PROVE Reaches'
    <3>1. /\ visited \subseteq Within(Present)[query.depth]
          /\ Range(collected) \subseteq Touching(Within(Present)[query.depth - 1], Present)
          /\ ~truncated =>
               /\ EndsMet(visited, collected)
               /\ Within(before)[query.depth] \subseteq visited
               /\ Touching(Within(before)[query.depth - 1], before) \subseteq Range(collected)
      BY <2>1 DEF Reaches
    <3> QED BY <1>1, <1>2, <3>1, ReachesKept
  <2>2. Draws => Draws'
    BY <1>1, <1>2 DEF Draws, Wanted
  <2> QED BY <1>1, <2>1, <2>2 DEF GraphInv, AnswerGoesOn
<1>6. AnswersAreComplete'
  <2>1. /\ Within(Present)' = Within(Present) /\ Within(before)' = Within(before)
        /\ PathsIn(Present, query.depth)' = PathsIn(Present, query.depth)
        /\ PathsIn(before, query.depth)' = PathsIn(before, query.depth)
    BY <1>1, <1>2, WithinKept, PathsKept
  <2>2. NeighbourhoodIsComplete /\ PathsAreComplete /\ GraphsAreClosed
    BY DEF GraphInv, AnswersAreComplete
  <2>3. NeighbourhoodIsComplete'
    BY <1>1, <1>2, <2>1, <2>2 DEF NeighbourhoodIsComplete, Answered, Touching
  <2>4. PathsAreComplete'
    BY <1>1, <1>2, <2>1, <2>2 DEF PathsAreComplete, Answered
  <2>5. GraphsAreClosed'
    BY <1>1, <2>2 DEF GraphsAreClosed, Answered
  <2> QED BY <2>3, <2>4, <2>5 DEF AnswersAreComplete
<1> QED BY <1>2, <1>3, <1>4, <1>5, <1>6 DEF GraphInv

\* Whatever a correlation commits between the SELECTs of a query that no purge
\* overtakes: a neighbourhood that is not truncated is what is within reach, each
\* path below the cap is found and found once, the shorter first, and neither the
\* whole graph nor that of a finding names an edge without its ends
\* (GraphTraversal, traversal.py:99-309).
THEOREM AnswersComplete == GraphSpec => []AnswersAreComplete
<1>1. GraphInit => GraphInv
  BY GraphBegins
<1>2. GraphInv /\ [GraphNext]_queryVars => GraphInv'
  BY AskKeeps, NeighboursKeep, PathsKeep, TooDeepKeeps, SearchEndsKeeps, ReadEdgesKeeps,
     ReadCitedKeeps, ReadEntitiesKeeps, CommitGraphKeeps, PurgeKeeps, NothingKeeps
  DEF GraphNext, Reader
<1>3. GraphInv => AnswersAreComplete
  BY DEF GraphInv
<1> QED BY <1>1, <1>2, <1>3, PTL DEF GraphSpec
=============================================================================
